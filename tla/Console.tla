------------------------------ MODULE Console ------------------------------
(***************************************************************************)
(* The kernel's command shell (kernel/rust/src/cli.rs) with its screen:    *)
(* the text console while there is no desktop, the desktop's picture in    *)
(* the same video memory while there is one (kernel/rust/src/desktop.rs).  *)
(* Keyboard, serial line, the host's lines on COM2 and the desktop's own   *)
(* terminal open and close the desktop, in any order.                      *)
(*                                                                         *)
(* A command is one letter of the line: "d" is desktop, "c" console, "l"   *)
(* clear, any other one prints.  Whatever is printed is one character and  *)
(* a newline, the prompt one character.  Themes, modifier keys, the serial *)
(* line's own output and what the compositor does are left out.            *)
(***************************************************************************)
EXTENDS TextConsole

CONSTANTS LineCapacity,  \* LINE_CAPACITY
          MaxEscapes     \* bound: how often Esc leaves the desktop

VARIABLES
  con,     \* the desktop, the screen and the command line: see NewConsole
  capture, \* terminal_capture
  extended, lastCr, \* the fields of those names
  escapes, \* bound: how often Esc left the desktop
  inputs   \* bound: the other inputs still to come

keyVars == <<extended, lastCr>>
bounds == <<escapes, inputs>>
consoleVars == <<con, capture, keyVars, bounds>>

Letter == {"d", "c", "l", "x"}
Picture == [p \in Cells |-> "pixel"]
NoCells == <<>>

(* The registers of the adapter that the graphics mode changes, and the    *)
(* glyphs, which are in the video memory; in the text mode of the firmware *)
(* the lock of CRTC register 0x11 protects the first eight.                *)
CrtcIndexes == {1, 7, 9, 18, 19, 23, 24}
TextMode ==
  [crtc |-> [i \in CrtcIndexes |-> "text"], graphics |-> "text", locked |-> TRUE,
   glyphs |-> TRUE]

(* rows is a history variable: what the text screen ought to show. *)
NewConsole ==
  [desktop |-> FALSE, enabled |-> TRUE, screen |-> Cleared, saved |-> NoCells,
   vga |-> TextMode, savedVga |-> TextMode, line |-> <<>>, rows |-> BlankPage]

-----------------------------------------------------------------------------

(* Terminal::write_str, byte by byte, clear and backspace: nothing reaches *)
(* the screen while it is disabled.                                        *)
Say(c, byte) ==
  IF c.enabled THEN [c EXCEPT !.screen = Put(@, byte), !.rows = Typed(@, byte)] ELSE c
SayLine(c) == Say(Say(c, "c"), LF)
Wipe(c) == IF c.enabled THEN [c EXCEPT !.screen = Cleared, !.rows = BlankPage] ELSE c
Prompt(c) == Say(c, "c")

(* set_screen_enabled *)
Enable(c, e) == [c EXCEPT !.enabled = e]

(* The adapter's VBE interface sets the graphics mode. *)
ModeSet(v) ==
  [v EXCEPT !.crtc = [i \in CrtcIndexes |-> "graphics"], !.graphics = "graphics"]

(* VgaTextState::restore: unlock, write the saved registers, lock as it    *)
(* was.  A write to a locked register is ignored.                          *)
CrtcWritten(v, saved) ==
  [v EXCEPT !.crtc = [i \in CrtcIndexes |-> IF v.locked /\ i < 8 THEN @[i] ELSE saved.crtc[i]]]
Restored(v, saved) ==
  [CrtcWritten([v EXCEPT !.locked = FALSE], saved) EXCEPT
     !.locked = saved.locked, !.graphics = saved.graphics]

(* Desktop::open: registers, glyphs and text are saved, then the picture   *)
(* covers the video memory ...                                             *)
Opened(c) ==
  [c EXCEPT !.desktop = TRUE, !.saved = c.screen.cells, !.screen.cells = Picture,
            !.savedVga = c.vga, !.vga = [ModeSet(c.vga) EXCEPT !.glyphs = FALSE]]
(* ... or the mode cannot be set, and the registers are put back. *)
NotOpened(c) == [c EXCEPT !.vga = Restored(ModeSet(c.vga), c.vga)]

(* A line of the host opens the desktop in poll_bridge. *)
(* Mutant: the text console is left on. *)
BridgeOpenedLit(c) == Opened(c)
BridgeOpened(c) == Enable(Opened(c), FALSE)

(* Dropping the desktop writes glyphs, registers and text back. *)
Closed(c) ==
  IF c.desktop
    THEN [c EXCEPT !.desktop = FALSE, !.saved = NoCells, !.screen.cells = c.saved,
                   !.vga = Restored([c.vga EXCEPT !.glyphs = c.savedVga.glyphs], c.savedVga)]
    ELSE c

(* execute: the consoles that may come of a command. *)
Execute(c, command) ==
  CASE command = <<>> -> {c}
    [] command = <<"d">> ->
         IF c.desktop THEN {SayLine(c)}
         ELSE {SayLine(NotOpened(SayLine(c))), Enable(Opened(SayLine(c)), FALSE)}
    [] command = <<"c">> -> {SayLine(Enable(Closed(c), TRUE))}
    [] command = <<"l">> -> {Wipe(c)}
    [] OTHER -> {SayLine(c)}

(* input: one byte of the keyboard or the serial line. *)
Input(c, byte) ==
  CASE byte = LF ->
         {[Prompt(x) EXCEPT !.line = <<>>] : x \in Execute(Say(c, LF), c.line)}
    [] byte = BS ->
         IF c.line = <<>> THEN {c} ELSE {Say([c EXCEPT !.line = Front(@)], BS)}
    [] OTHER ->
         IF Len(c.line) < LineCapacity - 1
           THEN {Say([c EXCEPT !.line = Append(@, byte)], "c")} ELSE {c}

-----------------------------------------------------------------------------

ConsoleInit ==
  /\ con = Prompt(SayLine(SayLine(NewConsole)))
  /\ capture = FALSE
  /\ extended = FALSE /\ lastCr = FALSE /\ escapes = 0

Given == inputs > 0 /\ inputs' = inputs - 1 /\ UNCHANGED escapes

(* One byte of poll_serial: the line feed of a CR LF pair is dropped. *)
PollSerial(byte) ==
  /\ Given
  /\ lastCr' = (byte = CR)
  /\ IF byte = LF /\ lastCr THEN con' = con
     ELSE con' \in Input(con, IF byte = CR THEN LF ELSE byte)
  /\ UNCHANGED <<capture, extended>>

(* key_scancode without a desktop.  The key after an E0 prefix is dropped. *)
TextKey(byte) ==
  /\ Given /\ ~con.desktop
  /\ IF extended THEN extended' = FALSE /\ con' = con
     ELSE extended' = extended /\ con' \in Input(con, byte)
  /\ UNCHANGED <<capture, lastCr>>

(* The E0 prefix, with or without a desktop. *)
Prefix ==
  /\ Given /\ extended' = TRUE
  /\ UNCHANGED <<con, capture, lastCr>>

(* Esc without client windows: back to the command shell. *)
Escape ==
  /\ con.desktop /\ escapes < MaxEscapes /\ escapes' = escapes + 1
  /\ con' = Prompt(SayLine(Say(Enable(Closed(con), TRUE), LF)))
  /\ extended' = FALSE
  /\ UNCHANGED <<capture, lastCr, inputs>>

(* handle_desktop_action for the desktop terminal's own command line. *)
GuiCommand(command) ==
  /\ Given /\ con.desktop
  /\ \E c \in Execute(SayLine(Say(con, LF)), command) : con' = Prompt(c)
  /\ UNCHANGED <<capture, keyVars>>

ConsoleNext ==
  \/ \E b \in Letter \cup {CR, LF, BS} : PollSerial(b)
  \/ \E b \in Letter \cup {LF, BS} : TextKey(b)
  \/ Prefix \/ Escape
  \/ \E k \in Letter : GuiCommand(<<k>>)

-----------------------------------------------------------------------------

(* Whoever opens and closes the desktop, in whatever order: the text       *)
(* console draws exactly while there is no desktop, so that it never       *)
(* scribbles over the picture, and what it shows is every line printed to  *)
(* it, wrapped and scrolled, in the text mode and with its glyphs, as if   *)
(* the desktop had never covered it.                                       *)
ScreenSound ==
  /\ con.enabled = ~con.desktop
  /\ IF con.desktop THEN con.screen.cells = Picture ELSE con.vga = TextMode
  /\ Shows([con.screen EXCEPT !.cells = IF con.desktop THEN con.saved ELSE @], con.rows)
  /\ Len(con.line) < LineCapacity
=============================================================================
