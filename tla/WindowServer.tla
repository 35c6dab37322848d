---------------------------- MODULE WindowServer ----------------------------
(***************************************************************************)
(* The client windows of kernel/rust/src/window_server.rs: the protocol    *)
(* commands that validate lets through, the pointer and the keyboard.      *)
(*                                                                         *)
(* Positions are left out: a pointer packet hits any visible window, or    *)
(* none, in one of the zones that pointer tells apart.  A size is the      *)
(* number of its pixels, and a pixel has a client's colour or the blank    *)
(* SURFACE, here None.  WT and WK change the title and the cursor only and *)
(* are left out, as is the client that an id belongs to.                   *)
(***************************************************************************)
EXTENDS Integers, Sequences

CONSTANTS Id,         \* the window ids clients use
          None,       \* Option::None
          MaxWindows, \* MAX_WINDOWS
          Sizes,      \* the sizes valid_size admits
          Color       \* what clients draw

ASSUME WindowAssumption ==
  /\ None \notin Id \cup Color /\ MaxWindows \in Nat \ {0}
  /\ Sizes \subseteq Nat \ {0} /\ Sizes # {}

Zone == {"close", "title", "grip", "content", "border"}
Released == [kind |-> "none", id |-> None]

VARIABLES
  windows,  \* WindowServer.windows, back to front
  focused,  \* WindowServer.focused
  grab,     \* WindowServer.grab
  pressed,  \* WindowServer.pressed
  leftDown, \* Compositor.left_down
  out,      \* the events that the last operation returned
  told,     \* history: the windows whose last focus event was FocusGained
  down      \* history: the window told MouseDown since the last MouseUp

vars == <<windows, focused, grab, pressed, leftDown, out, told, down>>
pointerVars == <<grab, pressed, leftDown>>

Ids == {windows[i].id : i \in DOMAIN windows}
Index(id) == CHOOSE i \in DOMAIN windows : windows[i].id = id
Win(id) == windows[Index(id)]
Removed(s, i) == SubSeq(s, 1, i - 1) \o SubSeq(s, i + 1, Len(s))
Without(id) == Removed(windows, Index(id))
Update(id, w) == [windows EXCEPT ![Index(id)] = w]
Visible(ws) == {i \in DOMAIN ws : ws[i].visible}
Topmost(ws) == IF Visible(ws) = {} THEN None
               ELSE ws[CHOOSE i \in Visible(ws) : \A j \in Visible(ws) : j <= i].id
Blank(size) == [p \in 1 .. size |-> None]
NewWindow(id, size) == [id |-> id, size |-> size, visible |-> FALSE,
                        surface |-> Blank(size), updating |-> FALSE]
Event(id, kind) == [id |-> id, kind |-> kind, size |-> None]
SizeEvent(id, kind, size) == [id |-> id, kind |-> kind, size |-> size]

(* The events go out, and the histories follow them. *)
Emit(events) ==
  /\ out' = events
  /\ LET of(kind) == {events[i].id : i \in {j \in DOMAIN events : events[j].kind = kind}} IN
     /\ told' = ((told \cup of("FocusGained")) \ of("FocusLost")) \cap Ids'
     /\ down' = IF of("MouseDown") # {} THEN CHOOSE id \in of("MouseDown") : TRUE
                ELSE IF of("MouseUp") # {} THEN None ELSE down

Init ==
  /\ windows = <<>> /\ focused = None
  /\ grab = Released /\ pressed = None /\ leftDown = FALSE
  /\ out = <<>> /\ told = {} /\ down = None

-----------------------------------------------------------------------------
(* Commands: the guard of each is its case of validate. *)

CanCreate(id) == id \notin Ids /\ Len(windows) < MaxWindows

(* WC *)
Create(id, size) ==
  /\ CanCreate(id)
  /\ windows' = Append(windows, NewWindow(id, size))
  /\ UNCHANGED <<focused, pointerVars>>
  /\ Emit(<<Event(id, "WindowCreated"), SizeEvent(id, "Redraw", size)>>)

(* The window that inherits the focus of a destroyed one. *)
Heir(ws) == Topmost(ws)

(* Mutant: the grab outlives the window. *)
GrabAfterDestroyKept(id) == grab
(* The grab after any window is destroyed. *)
GrabAfterDestroy(id) == Released

(* WD *)
Destroy(id) ==
  /\ id \in Ids
  /\ windows' = Without(id)
  /\ focused' = IF focused = id THEN Heir(windows') ELSE focused
  /\ grab' = GrabAfterDestroy(id) /\ pressed' = None /\ UNCHANGED leftDown
  /\ Emit(IF focused = id /\ focused' # None
            THEN <<Event(focused', "FocusGained")>> ELSE <<>>)

(* The events of focus. *)
FocusEvents(id) ==
  IF focused = id THEN <<>>
  ELSE IF focused = None THEN <<Event(id, "FocusGained")>>
  ELSE <<Event(focused, "FocusLost"), Event(id, "FocusGained")>>

(* Mutant: focus leaves the stack as it is. *)
RaisedNot(id, w) == Update(id, w)
(* focus takes the window to the front. *)
Raised(id, w) == Append(Without(id), w)

(* WS *)
Show(id) ==
  /\ id \in Ids
  /\ windows' = Raised(id, [Win(id) EXCEPT !.visible = TRUE])
  /\ focused' = id
  /\ UNCHANGED pointerVars
  /\ Emit(FocusEvents(id))

(* WH: the focus is given up, not handed on. *)
Hide(id) ==
  /\ id \in Ids
  /\ windows' = Update(id, [Win(id) EXCEPT !.visible = FALSE])
  /\ focused' = IF focused = id THEN None ELSE focused
  /\ UNCHANGED pointerVars
  /\ Emit(IF focused = id THEN <<Event(id, "FocusLost")>> ELSE <<>>)

(* WM *)
SetPosition(id) ==
  /\ id \in Ids
  /\ UNCHANGED <<windows, focused, pointerVars>>
  /\ Emit(<<Event(id, "Move")>>)

(* WI *)
Invalidate(id) ==
  /\ id \in Ids
  /\ UNCHANGED <<windows, focused, pointerVars>>
  /\ Emit(<<SizeEvent(id, "Redraw", Win(id).size)>>)

(* resize: a new, blank surface, unless the size is the old one. *)
Resized(w, size) ==
  IF w.size = size THEN w ELSE [w EXCEPT !.size = size, !.surface = Blank(size)]
ResizeEvents(w, size) ==
  IF w.size = size THEN <<>> ELSE <<SizeEvent(w.id, "Resize", size),
                                    SizeEvent(w.id, "Redraw", size)>>

(* WZ *)
SetSize(id, size) ==
  /\ id \in Ids
  /\ windows' = Update(id, Resized(Win(id), size))
  /\ UNCHANGED <<focused, pointerVars>>
  /\ Emit(ResizeEvents(Win(id), size))

(* WB and WE *)
SetUpdating(id, b) ==
  /\ id \in Ids
  /\ windows' = Update(id, [Win(id) EXCEPT !.updating = b])
  /\ UNCHANGED <<focused, pointerVars>>
  /\ Emit(<<>>)

(* validate on WP: only between WB and WE, only within the surface. *)
CanFill(id, at, count) ==
  id \in Ids /\ Win(id).updating /\ at + count <= Len(Win(id).surface)

(* A run of pixels, written where the command says. *)
Filled(w, at, count, color) ==
  [w EXCEPT !.surface = [p \in DOMAIN @ \cup (at + 1 .. at + count) |->
                           IF p \in at + 1 .. at + count THEN color ELSE @[p]]]

(* WP *)
Fill(id, at, count, color) ==
  /\ CanFill(id, at, count)
  /\ windows' = Update(id, Filled(Win(id), at, count, color))
  /\ UNCHANGED <<focused, pointerVars>>
  /\ Emit(<<>>)

Command ==
  \/ \E id \in Id, size \in Sizes : Create(id, size) \/ SetSize(id, size)
  \/ \E id \in Id : \/ Destroy(id) \/ Show(id) \/ Hide(id)
                    \/ SetPosition(id) \/ Invalidate(id)
                    \/ SetUpdating(id, TRUE) \/ SetUpdating(id, FALSE)
  \/ \E id \in Id, size \in Sizes, color \in Color :
       \E at \in 0 .. size - 1 : \E count \in 1 .. size - at : Fill(id, at, count, color)

-----------------------------------------------------------------------------
(* pointer, with the button state that the compositor keeps. *)

(* The windows that contain the pointer, somewhere on the screen. *)
UnderPointer == {windows[i].id : i \in Visible(windows)}

(* A drag: the window that is moved or resized, if there still is one, gets *)
(* the packet.                                                             *)
PointerDrag ==
  /\ grab # Released
  /\ leftDown' = TRUE
  /\ UNCHANGED <<focused, grab, pressed>>
  /\ \/ /\ grab.kind = "move" \/ grab.id \notin Ids
        /\ UNCHANGED windows
        /\ \E moved \in BOOLEAN :
             Emit(IF moved /\ grab.id \in Ids THEN <<Event(grab.id, "Move")>> ELSE <<>>)
     \/ /\ grab.kind = "resize" /\ grab.id \in Ids
        /\ \E size \in Sizes : /\ windows' = Update(grab.id, Resized(Win(grab.id), size))
                               /\ Emit(ResizeEvents(Win(grab.id), size))

(* The button goes down over a window. *)
PointerPress(id, zone) ==
  /\ grab = Released /\ ~leftDown
  /\ id \in UnderPointer
  /\ windows' = Raised(id, Win(id))
  /\ focused' = id
  /\ grab' = IF zone = "title" THEN [kind |-> "move", id |-> id]
             ELSE IF zone = "grip" THEN [kind |-> "resize", id |-> id] ELSE grab
  /\ pressed' = IF zone = "content" THEN id ELSE pressed
  /\ leftDown' = TRUE
  /\ Emit(FocusEvents(id) \o (CASE zone = "close" -> <<Event(id, "CloseRequested")>>
                                [] zone = "content" -> <<Event(id, "MouseDown")>>
                                [] OTHER -> <<>>))

(* Mutant: pressed is read but not taken. *)
TakePressedNot == pressed
(* pressed.take() *)
TakePressed == None

(* The button goes up. *)
PointerRelease ==
  /\ leftDown /\ leftDown' = FALSE
  /\ grab' = Released
  /\ pressed # None
  /\ pressed' = TakePressed
  /\ UNCHANGED <<windows, focused>>
  /\ Emit(IF pressed \in Ids THEN <<Event(pressed, "MouseUp")>> ELSE <<>>)

(* Any other packet, which a window under the pointer gets as a move. *)
PointerMove(left) ==
  /\ left => grab = Released
  /\ ~left /\ leftDown => pressed = None
  /\ grab' = IF left THEN grab ELSE Released
  /\ leftDown' = left
  /\ UNCHANGED <<windows, focused, pressed>>
  /\ \/ Emit(<<>>)
     \/ /\ ~left \/ leftDown
        /\ \E id \in UnderPointer : Emit(<<Event(id, "MouseMove")>>)

Pointer ==
  \/ PointerDrag \/ PointerRelease
  \/ \E id \in Id, zone \in Zone : PointerPress(id, zone)
  \/ \E left \in BOOLEAN : PointerMove(left)

(* key: make and break codes go to the focused window. *)
Key ==
  /\ UNCHANGED <<windows, focused, pointerVars>>
  /\ Emit(IF focused = None THEN <<>> ELSE <<Event(focused, "KeyDown")>>)

Next == Command \/ Pointer \/ Key

Spec == Init /\ [][Next]_vars

-----------------------------------------------------------------------------

Window == [id : Id, size : Sizes, visible : BOOLEAN,
           surface : UNION {[1 .. s -> Color \cup {None}] : s \in Sizes},
           updating : BOOLEAN]
TypeOK ==
  /\ windows \in Seq(Window)
  /\ Len(windows) <= MaxWindows
  /\ \A i, j \in DOMAIN windows : windows[i].id = windows[j].id => i = j
  /\ \A i \in DOMAIN windows : DOMAIN windows[i].surface = 1 .. windows[i].size
  /\ focused \in Id \cup {None} /\ pressed \in Id \cup {None}
  /\ grab \in [kind : {"none", "move", "resize"}, id : Id \cup {None}]
  /\ leftDown \in BOOLEAN

(* The focused window is the topmost one on screen: keys never go to a     *)
(* window that is hidden, gone or behind another, however windows were     *)
(* shown, hidden, clicked and destroyed.                                   *)
FocusOnTop == focused # None => focused = Topmost(windows)

(* The last focus event each window got says whether it has the focus:     *)
(* focus, WS, WH and WD never leave two windows, or the wrong one, in the  *)
(* belief that they have it.                                               *)
FocusTold == told = {focused} \ {None}

(* Both: keys go to the topmost window, and it alone knows that they do. *)
FocusSound == FocusOnTop /\ FocusTold

(* A grab or a press lasts only while the button is down, there is at most *)
(* one of the two, and its window exists: the pointer is never captured by *)
(* a window that is gone.                                                  *)
CaptureSound ==
  /\ TypeOK
  /\ grab # Released \/ pressed # None => leftDown
  /\ grab = Released \/ pressed = None
  /\ grab # Released => grab.id \in Ids
  /\ pressed # None => pressed \in Ids

(* Events only go to windows that exist, and a MouseUp only to the window  *)
(* that was told the last MouseDown, once.                                 *)
EventsSound ==
  [][/\ \A i \in DOMAIN out' : out'[i].id \in Ids'
     /\ \A i \in DOMAIN out' : out'[i].kind = "MouseUp" => out'[i].id = down]_vars
=============================================================================
