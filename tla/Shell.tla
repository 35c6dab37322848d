------------------------------- MODULE Shell -------------------------------
(***************************************************************************)
(* The host's C# shell (apps/csharp/Pippin.Shell/Program.cs) and its       *)
(* terminal over the kernel's command shell, Console: cli.rs sends the     *)
(* keys it captures as actions, the shell edits its command line and       *)
(* submits the terminal's surface again, and actions keep coming while it  *)
(* waits for the acknowledgement.                                          *)
(*                                                                         *)
(* The behaviour starts after the handshake.  The pending calls of         *)
(* SendAsync and HandleAsync are a stack: what each SendAsync has yet to   *)
(* handle.  A key is a number; every other surface of the shell is one.    *)
(***************************************************************************)
EXTENDS Console

CONSTANTS MaxCommand, \* TerminalApp.MaxCommandLength
          Hosted,     \* bounds: actions of the user and other inputs, with a host
          MaxAlone    \* bound: inputs without a host

ASSUME ShellAssumption ==
  /\ {MaxCommand, MaxEscapes, MaxAlone} \subseteq Nat /\ Hosted \subseteq Nat \X Nat
  /\ LineCapacity \in Nat \ {0}

Kind == {"key", "special", "backspace", "run", "status"}

VARIABLES
  command,  \* TerminalApp.Command
  starting, \* surfaces that RunAsync has still to show
  waiting,  \* SendAsync waits for A or N
  calls,    \* the actions that each call of SendAsync has still to handle
  ended,    \* an exception ended the shell
  incoming, \* lines of the guest that the shell has not read
  out,      \* lines of the shell that the guest has not read
  text,     \* guest: what the Terminal window shows
  shown,    \* guest: the Terminal window is on screen
  maxKeys,  \* bound on the actions of the user
  typed,    \* actions so far
  handled   \* history: actions the shell has handled

shellVars == <<command, starting, waiting, calls, ended, handled>>
guestVars == <<text, shown, maxKeys, typed, consoleVars>>
vars == <<shellVars, incoming, out, guestVars>>

Builtin == <<0>>  \* the rows of the built-in Terminal
Terminal(t) == [to |-> "terminal", text |-> t]
Other == [to |-> "other", text |-> <<>>]
Hello == [to |-> "hello", text |-> <<>>]
Reply(r) == [is |-> r, kind |-> "reply", key |-> 0]
Action(kind, key) == [is |-> "E", kind |-> kind, key |-> key]

(* A host that is there has exchanged H|1 and R|1; a second H|1 may be     *)
(* under way.  The desktop has built-in windows, the Terminal hidden.      *)
Init ==
  /\ ConsoleInit
  /\ command = <<>> /\ waiting = FALSE /\ calls = <<>> /\ ended \in BOOLEAN
  /\ starting = <<"other", "other", "other", "terminal", "other">>
  /\ incoming = <<>> /\ out \in (IF ended THEN {<<>>} ELSE {<<>>, <<Hello>>})
  /\ \E b \in (IF ended THEN {<<0, MaxAlone>>} ELSE Hosted) : maxKeys = b[1] /\ inputs = b[2]
  /\ text = Builtin /\ shown = FALSE
  /\ typed = 0 /\ handled = {}

-----------------------------------------------------------------------------
(* The guest *)

(* S|terminal turns the capture on, before the line is even accepted. *)
CaptureAfter(l) == IF l.to = "terminal" THEN TRUE ELSE capture

(* poll_bridge accepts a line; S opens a desktop if there is none. *)
GuestAccept ==
  /\ out # <<>> /\ out' = Tail(out)
  /\ LET l == Head(out) IN
     /\ incoming' = Append(incoming, Reply(IF l.to = "hello" THEN "R1" ELSE "A"))
     /\ capture' = CaptureAfter(l)
     /\ con' = IF l.to = "hello" \/ con.desktop THEN con ELSE BridgeOpened(con)
     /\ text' = IF l.to = "terminal" THEN l.text ELSE text
     /\ shown' = (shown \/ l.to = "terminal")
  /\ UNCHANGED <<shellVars, keyVars, bounds, maxKeys, typed>>

(* It refuses one if no desktop can be opened, or a new surface if there   *)
(* are MAX_WINDOWS; the Terminal is never new.                             *)
GuestReject ==
  /\ out # <<>> /\ out' = Tail(out)
  /\ Head(out).to # "hello" /\ (con.desktop => Head(out).to = "other")
  /\ incoming' = Append(incoming, Reply("N"))
  /\ capture' = CaptureAfter(Head(out))
  /\ con' = IF con.desktop THEN con ELSE NotOpened(con)
  /\ UNCHANGED <<shellVars, keyVars, bounds, text, shown, maxKeys, typed>>

(* A captured key or the Run button; any other control is a "status". *)
GuestAction(kind) ==
  /\ con.desktop /\ typed < maxKeys
  /\ kind # "status" => capture
  /\ typed' = typed + 1
  /\ incoming' = Append(incoming, Action(kind, typed'))
  /\ extended' = FALSE
  /\ UNCHANGED <<shellVars, out, con, capture, lastCr, bounds, text, shown, maxKeys>>

(* The Terminal's close or minimise button; terminal.close is turned into  *)
(* M|terminal by handle_desktop_action and does not reach the host.        *)
GuestClose ==
  /\ con.desktop /\ shown /\ shown' = FALSE
  /\ UNCHANGED <<shellVars, incoming, out, text, maxKeys, typed, consoleVars>>

(* Alt+T or a button, terminal.open: R|terminal, likewise. *)
GuestOpen ==
  /\ con.desktop /\ ~shown /\ shown' = TRUE
  /\ UNCHANGED <<shellVars, incoming, out, text, maxKeys, typed, consoleVars>>

(* The command shell; a desktop that is closed takes its windows along. *)
GuestConsole ==
  /\ ConsoleNext
  /\ text' = IF con'.desktop THEN text ELSE Builtin
  /\ shown' = (shown /\ con'.desktop)
  /\ UNCHANGED <<shellVars, incoming, out, maxKeys, typed>>

-----------------------------------------------------------------------------
(* The shell *)

(* Safe drops the characters that the line protocol uses, the even ones. *)
Safe(c) == SelectSeq(c, LAMBDA k : k % 2 = 1)

(* A typed character: odd if the surface's text may hold it. *)
Char(a) == IF a.kind = "key" THEN 2 * a.key + 1 ELSE 2 * a.key

(* What an action does to the command line *)
Edited(a) ==
  CASE a.kind \in {"key", "special"} ->
         IF Len(command) < MaxCommand THEN Append(command, Char(a)) ELSE command
    [] a.kind = "backspace" -> IF command = <<>> THEN command ELSE Front(command)
    [] a.kind = "run" -> <<>>
    [] OTHER -> command

(* Mutant: the surface is made before the key is applied. *)
SurfaceOld(a) == IF a.kind = "status" THEN Other ELSE Terminal(Safe(command))
(* ShowAsync and ShowStatusAsync: the surface that an action submits *)
Surface(a) == IF a.kind = "status" THEN Other ELSE Terminal(Safe(Edited(a)))

(* SendAsync writes its line and waits, on top of the calls that are not   *)
(* done.                                                                   *)
Send(l, below) ==
  /\ out' = Append(out, l)
  /\ waiting' = TRUE
  /\ calls' = Append(below, <<>>)

(* HandleAsync.  A status is sent only while notifications are enabled. *)
Handle(a, below) ==
  /\ command' = Edited(a)
  /\ handled' = handled \cup {a.key}
  /\ \/ Send(Surface(a), below)
     \/ a.kind = "status" /\ calls' = below /\ UNCHANGED <<out, waiting>>

Idle == ~ended /\ ~waiting
Top == Len(calls)

(* Mutant: what arrives during a call is dropped. *)
CollectedNot(todo, l) == todo
(* pendingActions; a late R|1 is skipped. *)
Collected(todo, l) == IF l.is = "E" THEN Append(todo, l) ELSE todo

(* SendAsync reads up to its reply; N throws, and nothing catches it. *)
SendRead ==
  /\ ~ended /\ waiting /\ incoming # <<>>
  /\ incoming' = Tail(incoming)
  /\ waiting' = (Head(incoming).is \notin {"A", "N"})
  /\ ended' = (Head(incoming).is = "N")
  /\ calls' = [calls EXCEPT ![Top] = Collected(@, Head(incoming))]
  /\ UNCHANGED <<command, starting, out, guestVars, handled>>

(* SendAsync handles the actions that it kept, in order. *)
SendHandle ==
  /\ Idle /\ calls # <<>> /\ calls[Top] # <<>>
  /\ Handle(Head(calls[Top]), [calls EXCEPT ![Top] = Tail(@)])
  /\ UNCHANGED <<starting, ended, incoming, guestVars>>

SendReturn ==
  /\ Idle /\ calls # <<>> /\ calls[Top] = <<>>
  /\ calls' = Front(calls)
  /\ UNCHANGED <<command, starting, waiting, ended, incoming, out, guestVars, handled>>

(* RunAsync shows its surfaces, then reads actions. *)
RunShow ==
  /\ Idle /\ calls = <<>> /\ starting # <<>>
  /\ starting' = Tail(starting)
  /\ Send(IF Head(starting) = "terminal" THEN Terminal(Safe(command)) ELSE Other, calls)
  /\ UNCHANGED <<command, ended, incoming, guestVars, handled>>

RunRead ==
  /\ Idle /\ calls = <<>> /\ starting = <<>> /\ incoming # <<>>
  /\ incoming' = Tail(incoming)
  /\ IF Head(incoming).is = "E" THEN Handle(Head(incoming), calls)
     ELSE UNCHANGED <<command, out, waiting, calls, handled>>
  /\ UNCHANGED <<starting, ended, guestVars>>

ShellStep == SendRead \/ SendHandle \/ SendReturn \/ RunShow \/ RunRead

Next ==
  \/ GuestAccept \/ GuestReject \/ GuestClose \/ GuestOpen \/ GuestConsole
  \/ ShellStep
  \/ \E k \in Kind : GuestAction(k)

(* The guest polls COM2 and the shell's task runs; the user may do nothing. *)
Spec == Init /\ [][Next]_vars /\ WF_vars(GuestAccept \/ GuestReject) /\ WF_vars(ShellStep)

-----------------------------------------------------------------------------

TypeOK ==
  /\ command \in Seq(1 .. 2 * maxKeys + 1) /\ Len(command) <= MaxCommand
  /\ {waiting, ended, shown, capture, extended, lastCr} \subseteq BOOLEAN
  /\ waiting => calls # <<>>
  /\ typed \in 0 .. maxKeys

(* The places of the actions on their way: unread, or kept by a call. *)
Lines(n) == IF n = 0 THEN incoming ELSE calls[n]
Underway ==
  {p \in UNION {{n} \X DOMAIN Lines(n) : n \in 0 .. Len(calls)} : Lines(p[1])[p[2]].is = "E"}
KeyAt(p) == Lines(p[1])[p[2]].key

(* However deep SendAsync and HandleAsync nest, every action the guest     *)
(* sent is on its way exactly once or has been handled, never both: none   *)
(* is lost while the shell waits for an acknowledgement, none is repeated. *)
ActionsOnce ==
  /\ TypeOK
  /\ \A p, q \in Underway : KeyAt(p) = KeyAt(q) => p = q
  /\ handled \cap {KeyAt(p) : p \in Underway} = {}
  /\ handled \cup {KeyAt(p) : p \in Underway} = 1 .. typed

(* When the shell is idle with nothing under way, the guest's Terminal     *)
(* shows the command line, or is the built-in one of a desktop opened      *)
(* again: a surface of an outer call never overwrites a newer one.         *)
ShownIsCurrent ==
  Idle /\ calls = <<>> /\ starting = <<>> /\ incoming = <<>> /\ out = <<>> =>
    text \in {Safe(command), Builtin}

(* Every action is handled in the end, unless a rejected surface ended the *)
(* shell.                                                                  *)
ActionsHandled ==
  \A k \in UNION {1 .. b[1] : b \in Hosted} : typed >= k ~> k \in handled \/ ended

(* "Keep keyboard capture tied to the actual Terminal surface": keys are   *)
(* captured for the Terminal only while it is on screen.                   *)
CaptureTied == capture => shown
=============================================================================
