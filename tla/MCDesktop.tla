----------------------------- MODULE MCDesktop -----------------------------
EXTENDS Desktop

Row(kind, line, slots, action, hit) ==
  [kind |-> kind, line |-> line, slots |-> slots, action |-> action, focusable |-> TRUE,
   disabled |-> FALSE, hit |-> hit]
Shell(id, role, view, rows, minimized) ==
  [NewWindow(id, role, rows, FALSE) EXCEPT !.view = view, !.minimized = minimized]

Dock == Shell("dock", "D", 1, <<Row("b", 1, Slot, "files", FALSE)>>, FALSE)

(* A search field, a result that matches and one that does not: three      *)
(* lines, of which two are shown.                                          *)
Files == Shell("files", "W", 2, <<Row("s", 1, Slot, "search", FALSE),
                                  Row("b", 2, {1}, "other", TRUE),
                                  Row("b", 3, Slot, "other", FALSE)>>, TRUE)

Desk == <<Dock, Files>>
=============================================================================
