------------------------------ MODULE Widgets ------------------------------
(***************************************************************************)
(* The widgets of one window (apps/csharp/Pippin.UI/Widgets.cs) under the  *)
(* mouse events of the window.  A widget is a number, in the order in      *)
(* which panels ask their children; nested panels ask in that order too.   *)
(* Positions are left out: hit is the set of widgets that contain the      *)
(* pointer, of which there may be several, as a Panel or a Card gives its  *)
(* children the same rectangle.  CheckBox and Switch are the same here;    *)
(* labels and the other widgets without a mouse handler answer false and   *)
(* are left out.                                                           *)
(***************************************************************************)
EXTENDS Naturals, FiniteSetsExt

CONSTANTS Buttons, Toggles, Fields

Widget == Buttons \cup Toggles \cup Fields

(* held: pressed; on: IsChecked, IsOn, or what the handler of a button has *)
(* put on display; focus: the fields that believe they have the focus.     *)
NewWidgets == [held |-> {}, on |-> {}, focus |-> {}]

(* What Paint shows. *)
Look(ws, size) ==
  [size |-> size, held |-> ws.held \cap Buttons, on |-> ws.on, focus |-> ws.focus]
Looks(sizes) ==
  [size : sizes, held : SUBSET Buttons, on : SUBSET (Buttons \cup Toggles),
   focus : SUBSET Fields]

(* Panel.MouseDown asks the children up to the first that answers true. *)
Asked(hit) == IF hit = {} THEN Widget ELSE {w \in Widget : w <= Min(hit)}
(* Button, CheckBox and Switch: a hit is a press, and answers true. *)
Pressed(ws, hit) == ws.held \cup ((Asked(hit) \cap hit) \ Fields)
(* TextField: a hit is the focus, and answers true; a miss is its end. *)
Focused(ws, hit) == (ws.focus \ Asked(hit)) \cup (Asked(hit) \cap hit \cap Fields)
MouseDown(ws, hit) == [ws EXCEPT !.held = Pressed(ws, hit), !.focus = Focused(ws, hit)]

(* Mutant: a button that is released elsewhere answers false. *)
ButtonAnswersActive(ws, hit, w) == w \in ws.held \cap hit
(* What MouseUp of a child answers. *)
ButtonAnswers(ws, hit, w) == w \in ws.held
ToggleAnswers(ws, hit, w) == w \in ws.held \cap hit
Answers(ws, hit, w) ==
  \/ w \in Buttons /\ ButtonAnswers(ws, hit, w)
  \/ w \in Toggles /\ ToggleAnswers(ws, hit, w)

(* Panel.MouseUp: the children up to the first that answers true. *)
Told(ws, hit) == {w \in Widget : \A v \in Widget : v < w => ~Answers(ws, hit, v)}
Activated(ws, hit) == Told(ws, hit) \cap ws.held \cap hit

(* What the handlers of the activated widgets leave on display; that of a  *)
(* button may change nothing that shows.                                   *)
Displays(ws, hit) ==
  {SymDiff(ws.on, Activated(ws, hit) \ idle) : idle \in SUBSET Buttons}
MouseUp(ws, hit) ==
  {[ws EXCEPT !.held = @ \ Told(ws, hit), !.on = on] : on \in Displays(ws, hit)}
=============================================================================
