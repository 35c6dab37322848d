------------------------------ MODULE Desktop ------------------------------
(***************************************************************************)
(* The built-in desktop of kernel/rust/src/compositor.rs: its window       *)
(* stack, focus scope, focused and pressed control, text fields, search    *)
(* filter and scrolling, under the host's row commands, the pointer and    *)
(* the keyboard.                                                           *)
(*                                                                         *)
(* Geometry is a grid.  A window's content has lines, of which view are    *)
(* shown from scroll on, below a header on line 0; a line has two slots,   *)
(* and a row covers some of the slots of its line.  Where windows are, and *)
(* so dragging them, is left out: a packet hits any window on screen.  A   *)
(* field's text is its length, and a row says whether it matches a query   *)
(* that is not empty.                                                      *)
(***************************************************************************)
EXTENDS Integers, Sequences

CONSTANTS Builtin,    \* the windows of shell.cc, in order
          Filtered,   \* the windows whose search field filters them
          HostId,     \* ids in the host's S| commands
          None,
          MaxWindows, \* MAX_WINDOWS
          TextLimit,  \* TEXT_INPUT_LIMIT
          BigView     \* lines of a maximized window

Screen == "Desktop" \* FocusScope::Desktop
Slot == {1, 2}

VARIABLES
  desk,     \* windows (back to front), scope, focused, edits of the Compositor
  pressed,  \* pressed_control
  leftDown, \* left_down
  did,      \* what the last operation was and the control whose action it fired
  downOn    \* history: the control under the pointer at the last press

vars == <<desk, pressed, leftDown, did, downOn>>

Ids(ws) == {ws[i].id : i \in DOMAIN ws}
Place(ws, id) == CHOOSE i \in DOMAIN ws : ws[i].id = id
Win(ws, id) == ws[Place(ws, id)]
Without(ws, id) == [k \in 1 .. Len(ws) - 1 |-> ws[IF k < Place(ws, id) THEN k ELSE k + 1]]
Update(ws, w) == [i \in DOMAIN ws |-> IF ws[i].id = w.id THEN w ELSE ws[i]]
OnScreen(ws) == {id \in Ids(ws) : ~Win(ws, id).minimized}
Did(what, fired) == [what |-> what, fired |-> fired]

(* The rows of the host are not laid out and have no flags. *)
HostRow == [kind |-> "b", line |-> 0, slots |-> {}, action |-> "host", focusable |-> FALSE,
            disabled |-> FALSE, hit |-> FALSE]

Names == {"native"} \cup HostId \cup Ids(Builtin)
Rows == {HostRow} \cup UNION {{Builtin[i].rows[j] : j \in DOMAIN Builtin[i].rows} : i \in DOMAIN Builtin}
Window ==
  [id : Names, role : {"W", "L", "P", "D"}, rows : Seq(Rows), native : BOOLEAN, view : Nat \ {0},
   restore : Nat, maximized : BOOLEAN, minimized : BOOLEAN, scroll : Int]
Distinct(ws) == \A i, j \in DOMAIN ws : ws[i].id = ws[j].id => i = j

(* The windows of shell.cc are opened unscrolled, at their own size, and   *)
(* none of them is called what stands for the desktop here.                *)
ASSUME DesktopAssumption ==
  /\ MaxWindows \in Nat /\ TextLimit \in Nat /\ BigView \in Nat \ {0}
  /\ Builtin \in Seq(Window) /\ Len(Builtin) <= MaxWindows /\ Distinct(Builtin)
  /\ \A i \in DOMAIN Builtin :
       ~Builtin[i].native /\ ~Builtin[i].maximized /\ Builtin[i].scroll = 0
  /\ \A row \in Rows : row.line \in Nat
  /\ Screen \notin Names

Init ==
  /\ desk = [windows |-> Builtin, scope |-> Screen, focused |-> None, edits |-> <<>>]
  /\ pressed = None /\ leftDown = FALSE
  /\ did = Did("other", None) /\ downOn = None

-----------------------------------------------------------------------------
(* Rows.  A control is a window's id and the index of a row. *)

Editable(row) == row.kind \in {"s", "e"} /\ ~row.disabled /\ row.action # None
IsResult(row) == row.kind = "b" /\ row.action # None
Field(d, c) == IF c \in DOMAIN d.edits THEN d.edits[c] ELSE [len |-> 0, cursor |-> 0]
SetField(d, c, f) ==
  [d EXCEPT !.edits = [k \in DOMAIN @ \cup {c} |-> IF k = c THEN f ELSE @[k]]]

(* search_query, as the length of the query *)
Query(d, w) ==
  LET fields == {i \in DOMAIN w.rows : w.rows[i].kind = "s"} IN
  IF w.id \notin Ids(d.windows) \/ fields = {} THEN 0
  ELSE Field(d, <<w.id, CHOOSE i \in fields : \A j \in fields : i <= j>>).len

(* row_matches_search *)
Matches(d, w, i) ==
  w.id \notin Filtered \/ ~IsResult(w.rows[i]) \/ Query(d, w) = 0 \/ w.rows[i].hit

(* filtered_frame: a single result takes the whole line. *)
Frame(d, w, i) ==
  IF w.id \in Filtered /\ IsResult(w.rows[i]) /\ Query(d, w) # 0
     /\ {j \in DOMAIN w.rows : IsResult(w.rows[j]) /\ Matches(d, w, j)} = {i}
  THEN Slot ELSE w.rows[i].slots

(* The rows at a place of the window; line 0 is its header. *)
RowsAt(d, w, line, slot) ==
  {i \in DOMAIN w.rows : /\ w.rows[i].line # 0 /\ w.rows[i].line = line + w.scroll
                         /\ Matches(d, w, i) /\ slot \in Frame(d, w, i)}
First(rows) == CHOOSE i \in rows : \A j \in rows : i <= j

(* control_at: within the clip, only what has an action and is enabled. *)
ControlAt(d, w, line, slot) ==
  LET rows == {i \in RowsAt(d, w, line, slot) : w.rows[i].action # None /\ ~w.rows[i].disabled}
  IN IF line = 0 \/ rows = {} THEN None ELSE <<w.id, First(rows)>>

Scrollable(w) == w.role \in {"W", "L"}
MaxScroll(w) ==
  LET below == {w.rows[i].line - w.view : i \in DOMAIN w.rows} \cup {0} IN
  IF Scrollable(w) THEN CHOOSE m \in below : \A n \in below : n <= m ELSE 0

(* clamp_scroll *)
Clamp(w) == [w EXCEPT !.scroll = IF @ < 0 THEN 0 ELSE IF @ > MaxScroll(w) THEN MaxScroll(w) ELSE @]

-----------------------------------------------------------------------------
(* Focus *)

ScopeOf(w) == IF w.role \in {"W", "L"} THEN w.id ELSE Screen
InScope(d, w) == IF d.scope = Screen THEN w.role \in {"P", "D"} ELSE w.id = d.scope
SetScope(d, s) == IF d.scope = s THEN d ELSE [d EXCEPT !.scope = s, !.focused = None]

(* Mutant: a control keeps the focus while its window is minimized. *)
UsableHidden(d, c) ==
  /\ c # None /\ c[1] \in Ids(d.windows)
  /\ LET w == Win(d.windows, c[1]) IN
     /\ InScope(d, w) /\ c[2] \in DOMAIN w.rows
     /\ w.rows[c[2]].focusable /\ ~w.rows[c[2]].disabled /\ w.rows[c[2]].action # None
(* What repair_focus_scope keeps and focused_action lets through. *)
Usable(d, c) ==
  /\ c # None /\ c[1] \in OnScreen(d.windows)
  /\ LET w == Win(d.windows, c[1]) IN
     /\ InScope(d, w) /\ c[2] \in DOMAIN w.rows
     /\ w.rows[c[2]].focusable /\ ~w.rows[c[2]].disabled /\ w.rows[c[2]].action # None
     /\ Matches(d, w, c[2])

(* The scope that replaces a lost one. *)
TopApp(ws) ==
  LET apps == {i \in DOMAIN ws : ~ws[i].minimized /\ Scrollable(ws[i])} IN
  IF apps = {} THEN Screen ELSE ws[CHOOSE i \in apps : \A j \in apps : j <= i].id

(* repair_focus_scope *)
Repair(d) ==
  LET s == IF d.scope = Screen \/ d.scope \in OnScreen(d.windows) THEN d
           ELSE SetScope(d, TopApp(d.windows))
  IN [s EXCEPT !.focused = IF Usable(s, @) THEN @ ELSE None]

-----------------------------------------------------------------------------
(* The commands of the host, which the desktop's own actions share. *)

(* R|id *)
Restored(d, id) ==
  IF id \notin Ids(d.windows) THEN d
  ELSE LET w == [Win(d.windows, id) EXCEPT !.minimized = FALSE] IN
       SetScope([d EXCEPT !.windows = Append(Without(@, id), w)], ScopeOf(w))

(* M|id *)
Minimized(d, id) ==
  IF id \notin Ids(d.windows) THEN d
  ELSE Repair([d EXCEPT !.windows = Update(@, [Win(@, id) EXCEPT !.minimized = TRUE])])

(* Mutant: the fields of a replaced window are kept. *)
ForgetNot(d, id) == d
(* edits.retain *)
Forget(d, id) ==
  [d EXCEPT !.edits = [c \in {k \in DOMAIN @ : k[1] # id} |-> @[c]]]

(* X|id *)
Removed(d, id) == Repair(Forget([d EXCEPT !.windows = Without(@, id)], id))

(* S|id *)
NewWindow(id, role, rows, native) ==
  [id |-> id, role |-> role, rows |-> rows, native |-> native, view |-> 1, restore |-> 0,
   maximized |-> FALSE, minimized |-> FALSE, scroll |-> 0]
Surfaced(d, id, role) ==
  IF id \in Ids(d.windows)
  THEN LET w == Clamp([Win(d.windows, id) EXCEPT !.role = role, !.rows = <<HostRow>>,
                                                 !.view = 1, !.minimized = FALSE])
       IN Repair([Forget(d, id) EXCEPT !.windows = Append(Without(@, id), w)])
  ELSE Repair([d EXCEPT !.windows = Append(@, NewWindow(id, role, <<HostRow>>, FALSE))])

Host(d) ==
  /\ desk' = d /\ did' = Did("other", None)
  /\ UNCHANGED <<pressed, leftDown, downOn>>

Command ==
  \/ \E id \in Ids(desk.windows) : \/ Host(Restored(desk, id))
                                   \/ Host(Minimized(desk, id))
                                   \/ Host(Removed(desk, id))
  \/ \E id \in HostId, role \in {"W", "P"} :
       /\ id \in Ids(desk.windows) \/ Len(desk.windows) < MaxWindows
       /\ Host(Surfaced(desk, id, role))

(* handle_desktop_action: a control may open a window. *)
Performed(d, c) ==
  IF c = None THEN d
  ELSE Restored(d, Win(d.windows, c[1]).rows[c[2]].action)

-----------------------------------------------------------------------------
(* pointer_packet *)

(* pointer_down in a row: the window has been taken out of the stack, and  *)
(* the search for a row knows neither its filter nor its clip.             *)
PressedRow(d, w, line, slot) ==
  LET without == [d EXCEPT !.windows = Without(@, w.id)]
      rows == RowsAt(without, w, line, slot)
  IN IF rows = {} THEN None ELSE <<w.id, First(rows)>>

(* place_edit_cursor: the caret goes to a column of the text, or its end. *)
CaretAt(f) == {[f EXCEPT !.cursor = k] : k \in 0 .. f.len}

(* The row that was pressed has the focus, if it takes it. *)
Focused(d, w, c) ==
  IF c = None \/ w.rows[c[2]].disabled \/ ~w.rows[c[2]].focusable
  THEN {[d EXCEPT !.focused = None]}
  ELSE LET f == [d EXCEPT !.focused = c] IN
       IF Editable(w.rows[c[2]])
       THEN {SetField(f, c, g) : g \in CaretAt(Field(f, c))}
       ELSE {f}

(* A window whose rows are not laid out finds a row, or none, by position; *)
(* past its last row the focus stays.                                      *)
FocusedAt(d, w, line, slot) ==
  IF \E i \in DOMAIN w.rows : w.rows[i].line # 0
  THEN Focused(d, w, PressedRow(d, w, line, slot))
  ELSE {[d EXCEPT !.focused = None], d}

Maximized(w) ==
  Clamp(IF w.maximized THEN [w EXCEPT !.maximized = FALSE, !.view = w.restore]
        ELSE [w EXCEPT !.maximized = TRUE, !.restore = w.view, !.view = BigView])

(* pointer_down in the chrome: close, minimize, maximize. *)
Chrome(d, w) ==
  LET scoped == SetScope(d, ScopeOf(w))
      rest == [scoped EXCEPT !.windows = Without(@, w.id)]
      push(v) == [rest EXCEPT !.windows = Append(@, v)]
  IN {IF w.native THEN Repair(rest) ELSE Repair(push([w EXCEPT !.minimized = TRUE])),
      Repair(push([w EXCEPT !.minimized = TRUE])),
      push(Maximized(w))}

(* The button goes down over a window. *)
PressChrome(id) ==
  /\ ~leftDown /\ id \in OnScreen(desk.windows) /\ Scrollable(Win(desk.windows, id))
  /\ desk' \in Chrome(desk, Win(desk.windows, id))
  /\ pressed' = None /\ downOn' = None
  /\ leftDown' = TRUE
  /\ did' = Did("other", None)

PressInside(id, line, slot) ==
  /\ ~leftDown /\ id \in OnScreen(desk.windows)
  /\ LET w == Win(desk.windows, id)
         raised == [SetScope(desk, ScopeOf(w)) EXCEPT !.windows = Append(Without(@, id), w)]
     IN /\ line <= w.view /\ (line = 0 => Scrollable(w))
        /\ pressed' = ControlAt(desk, w, line, slot)
        /\ desk' \in FocusedAt(raised, w, line, slot)
        /\ did' = Did(IF line = 0 THEN "header" ELSE "press", None)
  /\ downOn' = pressed'
  /\ leftDown' = TRUE

(* The button goes down over the wallpaper. *)
PressOutside ==
  /\ ~leftDown
  /\ desk' = SetScope(desk, Screen)
  /\ pressed' = None /\ downOn' = None /\ leftDown' = TRUE
  /\ did' = Did("press", None)

(* Mutant: what was pressed is not compared with what is hovered. *)
ReleasedOnAny(hovered) == hovered
(* release_control *)
ReleasedOn(hovered) ==
  IF pressed # None /\ hovered = pressed
     /\ ~Editable(Win(desk.windows, pressed[1]).rows[pressed[2]])
  THEN pressed ELSE None

(* The button goes up, over a window's content or anywhere else. *)
Release ==
  /\ leftDown
  /\ \E hovered \in {None} \cup UNION {
         {ControlAt(desk, Win(desk.windows, id), line, slot) :
            line \in 1 .. Win(desk.windows, id).view, slot \in Slot} : id \in OnScreen(desk.windows)} :
       LET fired == ReleasedOn(hovered) IN
       /\ desk' = Performed(desk, fired)
       /\ did' = Did("release", fired)
  /\ pressed' = None /\ leftDown' = FALSE /\ downOn' = None

(* What a packet that a client window handled leaves pressed. *)
AfterHandled(left) == IF leftDown /\ ~left THEN None ELSE pressed

(* A client window takes the packet. *)
Handled(left) ==
  /\ pressed' = AfterHandled(left)
  /\ downOn' = IF left /\ leftDown THEN downOn ELSE None
  /\ leftDown' = left
  /\ did' = Did("other", None)
  /\ UNCHANGED desk

(* scroll_under_pointer, and the same by the scope's keys *)
Scroll(id) ==
  /\ id \in OnScreen(desk.windows) /\ Scrollable(Win(desk.windows, id))
  /\ \E delta \in {-BigView, -1, 1, BigView} :
       LET w == Win(desk.windows, id) IN
       desk' = [desk EXCEPT !.windows = Update(@, Clamp([w EXCEPT !.scroll = @ + delta]))]
  /\ did' = Did("other", None)
  /\ UNCHANGED <<pressed, leftDown, downOn>>

Pointer ==
  \/ \E id \in Ids(desk.windows) :
       \/ PressChrome(id) \/ Scroll(id)
       \/ \E line \in 0 .. BigView, slot \in Slot : PressInside(id, line, slot)
  \/ PressOutside \/ Release
  \/ \E left \in BOOLEAN : Handled(left)

-----------------------------------------------------------------------------
(* key_scancode, while no client window is on screen *)

EditFocus ==
  IF /\ desk.focused # None /\ desk.focused[1] \in OnScreen(desk.windows)
     /\ desk.focused[2] \in DOMAIN Win(desk.windows, desk.focused[1]).rows
     /\ Editable(Win(desk.windows, desk.focused[1]).rows[desk.focused[2]])
  THEN desk.focused ELSE None

(* A printable character is inserted at the caret. *)
Typed(f) == IF f.len < TextLimit THEN [len |-> f.len + 1, cursor |-> f.cursor + 1] ELSE f

(* The other editing keys: the caret's, Delete and Backspace. *)
Edited(f) ==
  {[f EXCEPT !.cursor = IF @ > 0 THEN @ - 1 ELSE 0],
   [f EXCEPT !.cursor = IF @ < f.len THEN @ + 1 ELSE f.len],
   [f EXCEPT !.cursor = 0], [f EXCEPT !.cursor = f.len],
   IF f.cursor < f.len THEN [f EXCEPT !.len = @ - 1] ELSE f,
   IF f.cursor > 0 THEN [len |-> f.len - 1, cursor |-> f.cursor - 1] ELSE f}

(* handle_edit_key, and the repair that follows it *)
EditKey ==
  /\ EditFocus # None
  /\ LET f == Field(desk, EditFocus) IN
     \E g \in {Typed(f)} \cup Edited(f) : desk' = Repair(SetField(desk, EditFocus, g))
  /\ did' = Did("other", None)
  /\ UNCHANGED <<pressed, leftDown, downOn>>

(* Enter submits; a text field is cleared, a search field is not. *)
EditEnter ==
  /\ EditFocus # None
  /\ LET row == Win(desk.windows, EditFocus[1]).rows[EditFocus[2]]
         f == IF row.kind = "e" THEN [len |-> 0, cursor |-> 0] ELSE Field(desk, EditFocus)
     IN desk' = Repair(SetField(desk, EditFocus, f))
  /\ did' = Did("other", None)
  /\ UNCHANGED <<pressed, leftDown, downOn>>

(* The controls that Tab visits, and their order *)
Controls(d) ==
  {c \in UNION {{<<w.id, i>> : i \in DOMAIN w.rows} : w \in {d.windows[k] : k \in DOMAIN d.windows}} :
     Win(d.windows, c[1]).rows[c[2]].line # 0 /\ Usable(d, c)}
Before(ws, a, b) ==
  Place(ws, a[1]) < Place(ws, b[1]) \/ (Place(ws, a[1]) = Place(ws, b[1]) /\ a[2] < b[2])

(* focus_next, around the end of the list; from no control of the list, it *)
(* is the first of the way.                                                *)
FocusNext(d, reverse) ==
  LET cs == Controls(d)
      precedes(a, b) == IF reverse THEN Before(d.windows, b, a) ELSE Before(d.windows, a, b)
      after == {c \in cs : d.focused \in cs /\ precedes(d.focused, c)}
      from == IF after = {} THEN cs ELSE after
  IN [d EXCEPT !.focused =
        IF cs = {} THEN None ELSE CHOOSE c \in from : \A e \in from : ~precedes(e, c)]

(* Mutant: only a control below the view is scrolled into it. *)
EnsureVisibleBelow(d) ==
  IF d.focused = None \/ ~Scrollable(Win(d.windows, d.focused[1])) THEN d
  ELSE LET w == Win(d.windows, d.focused[1])
           line == w.rows[d.focused[2]].line
       IN [d EXCEPT !.windows = Update(@, Clamp([w EXCEPT !.scroll =
             IF line > @ + w.view THEN line - w.view ELSE @]))]
(* ensure_focused_visible *)
EnsureVisible(d) ==
  IF d.focused = None \/ ~Scrollable(Win(d.windows, d.focused[1])) THEN d
  ELSE LET w == Win(d.windows, d.focused[1])
           line == w.rows[d.focused[2]].line
       IN [d EXCEPT !.windows = Update(@, Clamp([w EXCEPT !.scroll =
             IF line <= @ THEN line - 1 ELSE IF line > @ + w.view THEN line - w.view ELSE @]))]

Tab(reverse) ==
  /\ desk' = EnsureVisible(FocusNext(Repair(desk), reverse))
  /\ did' = Did("tab", None)
  /\ UNCHANGED <<pressed, leftDown, downOn>>

(* focused_action, as the control whose action it is *)
FocusedAction(d) == IF Usable(d, d.focused) THEN d.focused ELSE None

(* Enter or Space on a control that is no field *)
Activate ==
  /\ EditFocus = None
  /\ LET d == Repair(desk) IN
     /\ desk' = Performed(d, FocusedAction(d))
     /\ did' = Did("activate", FocusedAction(d))
  /\ UNCHANGED <<pressed, leftDown, downOn>>

Key == EditKey \/ EditEnter \/ Activate \/ \E reverse \in BOOLEAN : Tab(reverse)

(* The key N opens a test window, and is typed into a focused field too.   *)
(* Bound: one test window at a time.                                       *)
OpenTestWindow ==
  /\ Len(desk.windows) < MaxWindows /\ "native" \notin Ids(desk.windows)
  /\ LET d == [desk EXCEPT !.windows = Append(@, NewWindow("native", "W", <<>>, TRUE))] IN
     Host(IF EditFocus = None THEN d
          ELSE Repair(SetField(d, EditFocus, Typed(Field(d, EditFocus)))))

(* The shell's key_scancode and mouse_packet, which carry out the action   *)
(* that the compositor returns.                                            *)
KeyScancode == OpenTestWindow \/ Key
MousePacket == Pointer

Next == Command \/ KeyScancode \/ MousePacket

Spec == Init /\ [][Next]_vars

-----------------------------------------------------------------------------

TypeOK ==
  /\ Len(desk.windows) <= MaxWindows
  /\ desk.windows \in Seq(Window) /\ Distinct(desk.windows)
  /\ leftDown \in BOOLEAN

(* Whoever minimized, closed, replaced or removed windows, the focus scope *)
(* is the desktop or a window on screen, and the focused control one that  *)
(* it accepts, on screen, enabled and focusable: keys are never typed into *)
(* a control that is not there.                                            *)
FocusInScope ==
  /\ desk.scope = Screen \/ desk.scope \in OnScreen(desk.windows)
  /\ desk.focused # None =>
       /\ desk.focused[1] \in OnScreen(desk.windows)
       /\ LET w == Win(desk.windows, desk.focused[1]) IN
          /\ InScope(desk, w) /\ desk.focused[2] \in DOMAIN w.rows
          /\ w.rows[desk.focused[2]].focusable /\ ~w.rows[desk.focused[2]].disabled

(* scroll_y stays between zero and the overflow of the content through     *)
(* every scroll, maximize, restore and replacement.                        *)
ScrollBounded ==
  \A i \in DOMAIN desk.windows : desk.windows[i].scroll \in 0 .. MaxScroll(desk.windows[i])

(* A field's caret is within its text, the text within the limit, and the  *)
(* field is still an editable row of a window: state keyed by row index    *)
(* never outlives the rows.                                                *)
EditsSound ==
  /\ TypeOK
  /\ \A c \in DOMAIN desk.edits :
       /\ desk.edits[c].cursor \in 0 .. desk.edits[c].len /\ desk.edits[c].len <= TextLimit
       /\ c[1] \in Ids(desk.windows) /\ c[2] \in DOMAIN Win(desk.windows, c[1]).rows
       /\ Editable(Win(desk.windows, c[1]).rows[c[2]])

(* An action fires only when the button goes up over the control it went   *)
(* down on, or from the keyboard when its control is visible and has the   *)
(* focus, whatever happened to the windows in between.                     *)
FiresSound ==
  [][did'.fired # None =>
       \/ did'.what = "release" /\ did'.fired = downOn /\ leftDown
       \/ did'.what = "activate" /\ did'.fired = desk.focused /\ Usable(desk, desk.focused)]_vars

(* Tab leaves the focus on a control that is in view and not filtered out. *)
TabInView ==
  did.what = "tab" /\ desk.focused # None =>
    LET w == Win(desk.windows, desk.focused[1]) IN
    /\ Scrollable(w) => w.rows[desk.focused[2]].line \in w.scroll + 1 .. w.scroll + w.view
    /\ IsResult(w.rows[desk.focused[2]]) /\ w.id \in Filtered /\ Query(desk, w) # 0
         => w.rows[desk.focused[2]].hit

(* Both, through every change of the content's height, the view and the    *)
(* filter.                                                                 *)
ScrollSound == ScrollBounded /\ TabInView

(* Hidden results do not receive clicks: a press never focuses a control   *)
(* that the search filter has taken off the screen.                        *)
PressSeesFilter ==
  did.what = "press" /\ desk.focused # None =>
    Matches(desk, Win(desk.windows, desk.focused[1]), desk.focused[2])

(* Hit-testing stops at the content area below the title bar: a press in   *)
(* the header gives the focus to no control.                               *)
HeaderNoFocus == did.what = "header" => desk.focused = None
=============================================================================
