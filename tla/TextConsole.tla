----------------------------- MODULE TextConsole -----------------------------
(***************************************************************************)
(* The VGA text console of kernel/rust/src/display.rs: what put, scroll    *)
(* and clear do to the cells and the cursor.  Attributes are left out; a   *)
(* printable byte is "c".                                                  *)
(***************************************************************************)
EXTENDS Integers, Sequences

CONSTANTS Width, Height  \* VGA_WIDTH, VGA_HEIGHT

ASSUME TextConsoleAssumption == Width \in Nat \ {0} /\ Height \in Nat \ {0}

Cells == (0 .. Height - 1) \X (0 .. Width - 1)
Blank == " "
LF == "LF"  \* line feed, backspace, carriage return
BS == "BS"
CR == "CR"

Front(s) == SubSeq(s, 1, Len(s) - 1)
Last(s) == s[Len(s)]

Cleared == [row |-> 0, column |-> 0, cells |-> [p \in Cells |-> Blank]]

Scroll(s) ==
  [s EXCEPT !.row = Height - 1,
            !.cells = [p \in Cells |-> IF p[1] + 1 = Height THEN Blank ELSE s.cells[<<p[1] + 1, p[2]>>]]]
ScrollAtEnd(s) == IF s.row = Height THEN Scroll(s) ELSE s

(* A full row is wrapped when the next byte needs a cell. *)
Wrap(s) == IF s.column = Width THEN [s EXCEPT !.row = @ + 1, !.column = 0] ELSE s

Put(s, byte) ==
  CASE byte = LF -> ScrollAtEnd([s EXCEPT !.row = @ + 1, !.column = 0])
    [] byte = BS ->
         IF s.column > 0
           THEN [s EXCEPT !.column = @ - 1, !.cells[<<s.row, s.column - 1>>] = Blank]
           ELSE s
    [] OTHER ->
         LET w == ScrollAtEnd(Wrap(s))
         IN  [w EXCEPT !.cells[<<w.row, w.column>>] = byte, !.column = @ + 1]

-----------------------------------------------------------------------------
(* The same console as a list of rows, the last of which is written to. *)

BlankPage == << <<>> >>
LastRows(rows) == SubSeq(rows, IF Len(rows) > Height THEN Len(rows) - Height + 1 ELSE 1, Len(rows))
Typed(rows, byte) ==
  LET last == Last(rows) IN
  CASE byte = LF -> LastRows(Append(rows, <<>>))
    [] byte = BS -> IF last = <<>> THEN rows ELSE Append(Front(rows), Front(last))
    [] OTHER -> IF Len(last) = Width THEN LastRows(Append(rows, <<byte>>))
                ELSE Append(Front(rows), Append(last, byte))

(* The cells and the cursor show these rows. *)
Shows(s, rows) ==
  /\ s.row = Len(rows) - 1 /\ s.column = Len(Last(rows))
  /\ \A p \in Cells :
       s.cells[p] = IF p[1] < Len(rows) /\ p[2] < Len(rows[p[1] + 1])
                      THEN rows[p[1] + 1][p[2] + 1] ELSE Blank
=============================================================================
