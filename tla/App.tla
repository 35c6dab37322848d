-------------------------------- MODULE App --------------------------------
(***************************************************************************)
(* An application on the toolkit (apps/csharp/Pippin.UI/Window.cs with     *)
(* Pippin.Window/WindowClient.cs) and its window in the guest, while the   *)
(* user drags, resizes, clicks and closes it and other clients create,     *)
(* show, hide and destroy windows of their own.                            *)
(*                                                                         *)
(* WindowClient.SendAsync waits for the answer of one command before the   *)
(* next is sent, so a command and its answer are one step; the user acts   *)
(* between any two.  The broker is taken to be reliable (module Broker).   *)
(* The colour of a pixel is the picture it belongs to: its size and what   *)
(* the widgets show (module Widgets).                                      *)
(***************************************************************************)
EXTENDS WindowServer, Widgets

CONSTANTS W,          \* the application's window
          MaxPending, \* bound on the events pending when the user acts
          MaxDrags,   \* bound on the packets that resize a window
          MaxOthers   \* bound on the commands of other clients

AllLooks == Looks(Sizes)

ASSUME AppAssumption ==
  /\ W \in Id /\ AllLooks \subseteq Color
  /\ MaxPending \in Nat /\ MaxDrags \in Nat /\ MaxOthers \in Nat

VARIABLES
  at,      \* where the application waits
  then,    \* where it goes on when a redraw is over
  size,    \* Window.Width and Height
  offset,  \* SubmitSurfaceAsync: the pixels sent
  pending, \* the events that RunAsync has not read
  closeRequested, \* Window.Close was called
  widgets, \* the widgets of Window.Content
  began,   \* history: where the last MouseDown landed, until a MouseUp
  lost,    \* history: another window's end has cost this one its MouseUp
  drags,   \* packets that have resized a window
  others   \* commands of other clients

appVars == <<at, then, size, offset, pending, closeRequested, widgets, began, lost, drags, others>>
content == <<widgets, began>>
bounds == <<lost, drags, others>>

(* The events that HandleAsync acts upon; the others only reach Input. *)
Acted == {"CloseRequested", "Resize", "Redraw", "MouseDown", "MouseUp"}
Deliver(before) ==
  pending' = before \o SelectSeq(out', LAMBDA e : e.id = W /\ e.kind \in Acted)

AppInit ==
  /\ Init
  /\ at = "create" /\ then = "show" /\ size \in Sizes /\ offset = 0
  /\ pending = <<>> /\ closeRequested = FALSE /\ lost = FALSE
  /\ drags = 0 /\ others = 0
  /\ widgets = NewWidgets /\ began = {}

-----------------------------------------------------------------------------
(* ShowAsync *)

(* CreateWindowAsync: the id is new, and the size one that WC admits. *)
CreateWindow == Create(W, size)

ShowCreate ==
  /\ at = "create" /\ CreateWindow
  /\ Deliver(pending)
  /\ at' = "begin" /\ then' = "show"
  /\ UNCHANGED <<size, offset, bounds, closeRequested, content>>

(* The guest has no room for it: SendAsync throws. *)
ShowRejected ==
  /\ at = "create" /\ ~CanCreate(W)
  /\ at' = "failed"
  /\ UNCHANGED <<vars, then, size, offset, pending, bounds, closeRequested, content>>

ShowShow ==
  /\ at = "show" /\ Show(W)
  /\ Deliver(pending)
  /\ at' = "loop"
  /\ UNCHANGED <<then, size, offset, bounds, closeRequested, content>>

(* RedrawAsync: WB, the chunks, WE *)

StartOffset == 0

RedrawBegin ==
  /\ at = "begin" /\ SetUpdating(W, TRUE)
  /\ at' = "draw" /\ offset' = StartOffset
  /\ UNCHANGED <<then, size, pending, bounds, closeRequested, content>>

RedrawChunk ==
  /\ at = "draw" /\ offset < size
  /\ \E count \in 1 .. size - offset : /\ Fill(W, offset, count, Look(widgets, size))
                                       /\ offset' = offset + count
  /\ UNCHANGED <<at, then, size, pending, bounds, closeRequested, content>>

(* The guest answers N: SendAsync throws, and nothing up to Main catches. *)
RedrawRejected ==
  /\ at = "draw" /\ offset < size
  /\ \E count \in 1 .. size - offset : ~CanFill(W, offset, count)
  /\ at' = "failed"
  /\ UNCHANGED <<vars, then, size, offset, pending, bounds, closeRequested, content>>

RedrawEnd ==
  /\ at = "draw" /\ offset = size /\ SetUpdating(W, FALSE)
  /\ at' = then
  /\ UNCHANGED <<then, size, offset, pending, bounds, closeRequested, content>>

(* HandleAsync: Width and Height *)
SizeAfter(e) == IF e.kind = "Resize" THEN e.size ELSE size

Clicks == {"MouseDown", "MouseUp"}

(* HandleAsync: the widgets after the event, and whether it ends in        *)
(* RedrawAsync, which after the mouse is what the widgets answer.          *)
WidgetsAfter(e, hit) ==
  CASE e.kind = "MouseDown" -> {MouseDown(widgets, hit)}
    [] e.kind = "MouseUp" -> MouseUp(widgets, hit)
    [] OTHER -> {widgets}
RedrawsFor(e, hit) ==
  CASE e.kind = "MouseDown" -> hit # {}
    [] e.kind = "MouseUp" -> \E w \in Widget : Answers(widgets, hit, w)
    [] OTHER -> TRUE

(* Mutant: the close button is left to the widgets. *)
ClosesOnNot(e) == FALSE
ClosesOn(e) == e.kind = "CloseRequested"

(* RunAsync: the next event.  Close may be called by the handler of a      *)
(* widget, before HandleAsync looks at closeRequested, or by an Input      *)
(* handler, after it.                                                      *)
HandleEvent ==
  /\ at = "loop" /\ pending # <<>>
  /\ pending' = Tail(pending)
  /\ LET e == Head(pending) IN
     \E hit \in SUBSET Widget, early, late \in BOOLEAN :
       LET last == IF closeRequested \/ early THEN "close" ELSE "loop" IN
       /\ e.kind \notin Clicks => hit = {}
       /\ early => e.kind = "MouseUp" /\ Activated(widgets, hit) # {}
       /\ closeRequested' = (closeRequested \/ early \/ late)
       /\ size' = SizeAfter(e)
       /\ widgets' \in WidgetsAfter(e, hit)
       /\ began' = CASE e.kind = "MouseDown" /\ hit # {} -> {Min(hit)}
                     [] e.kind \in Clicks -> {} [] OTHER -> began
       /\ then' = last
       /\ at' = IF ClosesOn(e) THEN "close" ELSE IF RedrawsFor(e, hit) THEN "begin" ELSE last
  /\ UNCHANGED <<vars, offset, bounds>>

(* DestroyWindowAsync, then RunAsync returns: it has no window left. *)
HandleClose ==
  /\ at = "close" /\ Destroy(W)
  /\ Deliver(pending)
  /\ at' = "done"
  /\ UNCHANGED <<then, size, offset, bounds, closeRequested, content>>

AppStep == \/ ShowCreate \/ ShowRejected \/ ShowShow
           \/ RedrawBegin \/ RedrawChunk \/ RedrawRejected \/ RedrawEnd
           \/ HandleEvent \/ HandleClose

(* Bound: when the user and the other clients act. *)
Running == at \notin {"done", "failed"} /\ Len(pending) < MaxPending

(* A pointer packet.  Bound: other windows are clicked on but not dragged. *)
(* Moves of the pointer and of windows are left out, as the application    *)
(* does not act upon them.                                                 *)
User ==
  /\ Running /\ Pointer /\ grab'.id \in {W, None}
  /\ Deliver(pending)
  /\ LET sent(kind) == {out'[i].id : i \in {j \in DOMAIN out' : out'[j].kind = kind}} IN
     /\ sent("Move") = {} /\ sent("MouseMove") = {}
     /\ drags' = IF sent("Resize") = {} THEN drags ELSE drags + 1
  /\ drags' <= MaxDrags
  /\ UNCHANGED <<at, then, size, offset, closeRequested, content, lost, others>>

(* A command of another client on a window of its own.  The commands left  *)
(* out change that window, or send it an event, and do nothing else.  Of   *)
(* the new ids any will do.                                                *)
NewIds == Id \ (Ids \cup {W})
Other ==
  /\ Running /\ others < MaxOthers
  /\ \/ NewIds # {} /\ Create(CHOOSE id \in NewIds : TRUE, Min(Sizes))
     \/ \E id \in Id \ {W} : Show(id) \/ Hide(id) \/ Destroy(id)
  /\ Deliver(pending)
  /\ lost' = (lost \/ (pressed = W /\ pressed' # W))
  /\ others' = others + 1
  /\ UNCHANGED <<at, then, size, offset, drags, closeRequested, content>>

AppNext == AppStep \/ User \/ Other

(* The application and the line to the guest keep running; nothing is      *)
(* asked of the user or of the other clients.                              *)
AppSpec == AppInit /\ [][AppNext]_<<vars, appVars>> /\ WF_<<vars, appVars>>(AppStep)

-----------------------------------------------------------------------------

AppTypeOK ==
  /\ at \in {"create", "show", "begin", "draw", "loop", "close", "done", "failed"}
  /\ size \in Sizes /\ (at = "draw" => offset \in 0 .. size)
  /\ Len(pending) <= MaxPending + 3

(* The window shows its whole picture but, perhaps, for the border of the  *)
(* field with the focus.                                                   *)
Shown(w) ==
  \A p \in 1 .. w.size :
    /\ w.surface[p] # None
    /\ [w.surface[p] EXCEPT !.focus = widgets.focus] = Look(widgets, w.size)

(* A widget is held only between the MouseDown that began on it and the    *)
(* next MouseUp, so that a release can activate no other; and none is held *)
(* when every event is handled and the window server has released the      *)
(* window.                                                                 *)
HeldSound ==
  /\ widgets.held \subseteq began
  /\ at = "loop" /\ pending = <<>> /\ pressed # W => widgets.held = {}

(* When the application has handled all its events, its window shows the   *)
(* whole picture for the window's size and the state of its widgets,       *)
(* whatever resize, pointer packet, stale chunk or command of another      *)
(* client fell between WB, WP and WE; and no widget is left behind         *)
(* pressed, as long as no window of another client is destroyed while the  *)
(* button is down on this one.                                             *)
SettledPicture ==
  /\ AppTypeOK /\ (~lost => HeldSound)
  /\ at = "loop" /\ pending = <<>> => W \in Ids /\ Shown(Win(W))

(* The border of a text field shows whether the field has the focus, as    *)
(* its Paint draws it.                                                     *)
FocusDrawn ==
  at = "loop" /\ pending = <<>> =>
    \A p \in DOMAIN Win(W).surface : Win(W).surface[p].focus = widgets.focus

(* At most one text field has the focus. *)
OneFocus == Cardinality(widgets.focus) <= 1

(* The client redraws after a resize: a window without its picture gets it *)
(* again, or is closed.                                                    *)
Redrawn == W \in Ids /\ ~Shown(Win(W)) ~> W \notin Ids \/ Shown(Win(W))

(* A close request is the end of the window, however much is pending,      *)
(* unless a rejected chunk has ended the application.                      *)
Closes ==
  (\E i \in DOMAIN pending : pending[i].kind = "CloseRequested")
    ~> W \notin Ids \/ at = "failed"
=============================================================================
