---------------------------- MODULE WindowProofs ----------------------------
(***************************************************************************)
(* Proofs about WindowServer, for any number of windows and any sizes and  *)
(* colours: focus, grabs and presses stay with windows that exist, and     *)
(* events go where they belong, whatever commands and pointer packets      *)
(* come.                                                                   *)
(***************************************************************************)
EXTENDS WindowServer, WellFoundedInduction, TLAPS

(* Steps are tried with Zenon first, which is the faster where no          *)
(* arithmetic is needed, then with SMT, then with Zenon for longer.        *)
USE ZenonT(3), SMTT(30), ZenonT(30), Z3T(30)

-----------------------------------------------------------------------------
(* Facts about sequences. *)

(* What concatenation returns. *)
LEMMA ConcatProperties ==
  ASSUME NEW S, NEW s \in Seq(S), NEW t \in Seq(S)
  PROVE  /\ s \o t \in Seq(S) /\ Len(s \o t) = Len(s) + Len(t)
         /\ \A i \in 1 .. Len(s) + Len(t) :
              (s \o t)[i] = IF i <= Len(s) THEN s[i] ELSE t[i - Len(s)]
  OBVIOUS


(* A window whose surface has the size of the window. *)
Good(w) == w \in Window /\ DOMAIN w.surface = 1 .. w.size

(* The window f is the last visible one of ws. *)
OnTop(ws, f) ==
  \E i \in DOMAIN ws : /\ ws[i].id = f /\ ws[i].visible
                       /\ \A j \in DOMAIN ws : ws[j].visible => j <= i

(* A stack of windows, each with an id of its own. *)
Stack(ws) ==
  /\ ws \in Seq(Window) /\ \A i \in DOMAIN ws : Good(ws[i])
  /\ \A i, j \in DOMAIN ws : ws[i].id = ws[j].id => i = j
IdsOf(ws) == {ws[i].id : i \in DOMAIN ws}

(* ws and wt have the same windows at the same places, visible or not. *)
SameStack(ws, wt) ==
  /\ DOMAIN ws = DOMAIN wt
  /\ \A i \in DOMAIN ws : ws[i].id = wt[i].id /\ ws[i].visible = wt[i].visible

(***************************************************************************)
(* Sequences and sets of numbers                                           *)
(***************************************************************************)

(* Every non-empty set of naturals has a least element.  This is the       *)
(* induction over numbers that the lemmas below use.                       *)
LEMMA LeastOf ==
  ASSUME NEW T, T \subseteq Nat, T # {}
  PROVE  \E x \in T : \A y \in T : x <= y
<1> DEFINE R == OpToRel(<, Nat)
<1>1. IsWellFoundedOn(R, Nat)
  BY NatLessThanWellFounded
<1> HIDE DEF R
<1>2. PICK x \in T : \A y \in T : <<y, x>> \notin R
  BY <1>1, WFMin
<1>3. R = {ss \in Nat \X Nat : ss[1] < ss[2]}
  BY DEF R, OpToRel
<1>4. ASSUME NEW y \in T PROVE x <= y
  <2>1. x \in Nat /\ y \in Nat
    OBVIOUS
  <2>2. y < x => <<y, x>> \in R
    BY <2>1, <1>3
  <2> QED BY <2>1, <2>2, <1>2
<1> QED BY <1>4

(* A non-empty set of positions has a last one. *)
LEMMA GreatestOf ==
  ASSUME NEW n \in Nat, NEW T, T \subseteq 1 .. n, T # {}
  PROVE  \E x \in T : \A y \in T : y <= x
<1> DEFINE D == {n - x : x \in T}
<1>1. D \subseteq Nat /\ D # {}
  <2>1. ASSUME NEW x \in T PROVE n - x \in Nat
    <3>1. x \in 1 .. n
      OBVIOUS
    <3> QED BY <3>1
  <2>2. PICK x \in T : TRUE
    OBVIOUS
  <2>3. n - x \in D
    OBVIOUS
  <2> QED BY <2>1, <2>3
<1>2. PICK d \in D : \A e \in D : d <= e
  BY <1>1, LeastOf
<1>3. PICK x \in T : d = n - x
  OBVIOUS
<1>4. ASSUME NEW y \in T PROVE y <= x
  <2>1. d <= n - y
    BY <1>2
  <2> QED BY <2>1, <1>3
<1> QED BY <1>4

(* What Removed leaves behind. *)
LEMMA RemovedIs ==
  ASSUME NEW S, NEW s \in Seq(S), NEW k \in DOMAIN s
  PROVE  /\ Removed(s, k) \in Seq(S)
         /\ Len(Removed(s, k)) = Len(s) - 1
         /\ DOMAIN Removed(s, k) = 1 .. Len(s) - 1
         /\ \A i \in 1 .. Len(s) - 1 :
              Removed(s, k)[i] = IF i < k THEN s[i] ELSE s[i + 1]
<1> DEFINE a == SubSeq(s, 1, k - 1)
           b == SubSeq(s, k + 1, Len(s))
<1>1. k \in 1 .. Len(s) /\ Len(s) \in Nat
  OBVIOUS
<1>2. a \in Seq(S) /\ Len(a) = k - 1 /\ \A i \in 1 .. k - 1 : a[i] = s[i]
  BY <1>1
<1>3. b \in Seq(S) /\ Len(b) = Len(s) - k /\ \A i \in 1 .. Len(s) - k : b[i] = s[k + i]
  BY <1>1
<1> HIDE DEF a, b
<1> DEFINE c == a \o b
<1>4. /\ c \in Seq(S) /\ Len(c) = Len(a) + Len(b)
      /\ \A i \in 1 .. Len(a) + Len(b) :
           c[i] = IF i <= Len(a) THEN a[i] ELSE b[i - Len(a)]
  BY <1>2, <1>3, ConcatProperties
<1> HIDE DEF c
<1>5. Len(c) = Len(s) - 1 /\ DOMAIN c = 1 .. Len(s) - 1
  BY <1>1, <1>2, <1>3, <1>4
<1>6. ASSUME NEW i \in 1 .. Len(s) - 1
      PROVE  c[i] = IF i < k THEN s[i] ELSE s[i + 1]
  <2>1. i \in 1 .. Len(a) + Len(b)
    BY <1>1, <1>2, <1>3
  <2>2. CASE i < k
    BY <2>1, <2>2, <1>1, <1>2, <1>4
  <2>3. CASE ~(i < k)
    <3>1. ~(i <= Len(a)) /\ i - Len(a) \in 1 .. Len(s) - k
      BY <2>3, <1>1, <1>2
    <3>2. c[i] = b[i - Len(a)]
      BY <2>1, <3>1, <1>4
    <3>3. k + (i - Len(a)) = i + 1
      BY <1>1, <1>2
    <3> QED BY <3>1, <3>2, <3>3, <1>3, <2>3
  <2> QED BY <2>2, <2>3
<1> QED BY <1>4, <1>5, <1>6 DEF Removed, a, b, c

(***************************************************************************)
(* The stack of windows                                                    *)
(***************************************************************************)

LEMMA IndexIs ==
  ASSUME NEW id \in Ids
  PROVE  Index(id) \in DOMAIN windows /\ windows[Index(id)].id = id
<1>1. \E i \in DOMAIN windows : windows[i].id = id
  BY DEF Ids
<1> QED BY <1>1 DEF Index

(* Topmost finds the last visible window, if there is one. *)
LEMMA TopmostIs ==
  ASSUME NEW ws, Stack(ws)
  PROVE  /\ Topmost(ws) # None => OnTop(ws, Topmost(ws))
         /\ \A f : OnTop(ws, f) => f \in Id /\ f = Topmost(ws)
         /\ Topmost(ws) \in IdsOf(ws) \cup {None}
<1> DEFINE V == Visible(ws)
           last == CHOOSE i \in V : \A j \in V : j <= i
<1>1. V \subseteq 1 .. Len(ws) /\ Len(ws) \in Nat /\ DOMAIN ws = 1 .. Len(ws)
  BY DEF Visible, Stack
<1>2. ASSUME V # {}
      PROVE  last \in V /\ \A j \in V : j <= last
  <2>1. \E i \in V : \A j \in V : j <= i
    BY <1>1, <1>2, GreatestOf
  <2> QED BY <2>1
<1>3. V # {} => Topmost(ws) = ws[last].id /\ last \in DOMAIN ws /\ ws[last].visible
  BY <1>2 DEF Topmost, Visible
<1>4. V = {} => Topmost(ws) = None
  BY DEF Topmost
<1> HIDE DEF last
<1>5. Topmost(ws) # None => OnTop(ws, Topmost(ws))
  BY <1>2, <1>3, <1>4 DEF OnTop, Visible
<1>6. ASSUME NEW f, OnTop(ws, f)
      PROVE  f \in Id /\ f = Topmost(ws)
  <2>1. PICK i \in DOMAIN ws : /\ ws[i].id = f /\ ws[i].visible
                               /\ \A j \in DOMAIN ws : ws[j].visible => j <= i
    BY <1>6 DEF OnTop
  <2>2. i \in V /\ \A j \in V : j <= i
    BY <2>1 DEF Visible
  <2>3. i = last
    BY <2>2, <1>2, <1>1
  <2>4. ws[i].id \in Id
    <3>1. ws[i] \in Window
      BY DEF Stack, Good
    <3> QED BY <3>1 DEF Window
  <2> QED BY <2>1, <2>2, <2>3, <2>4, <1>3
<1>7. Topmost(ws) \in IdsOf(ws) \cup {None}
  BY <1>3, <1>4 DEF IdsOf
<1> QED BY <1>5, <1>6, <1>7

(* A window put back in its place, changed but for its id. *)
LEMMA UpdateIs ==
  ASSUME Stack(windows), NEW id \in Ids, NEW w, Good(w), w.id = id
  PROVE  /\ Stack(Update(id, w)) /\ Len(Update(id, w)) = Len(windows)
         /\ IdsOf(Update(id, w)) = Ids
         /\ \A i \in DOMAIN windows :
              Update(id, w)[i] = IF windows[i].id = id THEN w ELSE windows[i]
         /\ w.visible = Win(id).visible => SameStack(windows, Update(id, w))
<1> DEFINE k == Index(id)
           u == Update(id, w)
<1>1. k \in DOMAIN windows /\ windows[k].id = id
  BY IndexIs
<1> HIDE DEF k
<1>2. u = [windows EXCEPT ![k] = w]
  BY DEF Update, k
<1> HIDE DEF u
<1>3. windows \in Seq(Window) /\ w \in Window
  BY DEF Stack, Good
<1>4. u \in Seq(Window) /\ Len(u) = Len(windows) /\ DOMAIN u = DOMAIN windows
  BY <1>1, <1>2, <1>3
<1>5. \A i \in DOMAIN windows : u[i] = IF i = k THEN w ELSE windows[i]
  BY <1>1, <1>2, <1>3
<1>6. \A i \in DOMAIN windows : i = k <=> windows[i].id = id
  BY <1>1 DEF Stack
<1>7. \A i \in DOMAIN windows : u[i].id = windows[i].id /\ Good(u[i])
  BY <1>5, <1>6 DEF Stack
<1>8. Stack(u)
  BY <1>4, <1>7 DEF Stack
<1>9. IdsOf(u) = Ids
  BY <1>4, <1>7 DEF IdsOf, Ids
<1>10. w.visible = Win(id).visible => SameStack(windows, u)
  BY <1>4, <1>5, <1>7 DEF SameStack, Win, k
<1> QED BY <1>4, <1>5, <1>6, <1>8, <1>9, <1>10 DEF u

(* Removing a window leaves the order of the others. *)
LEMMA WithoutIs ==
  ASSUME Stack(windows), NEW id \in Ids
  PROVE  /\ Stack(Without(id)) /\ Len(Without(id)) = Len(windows) - 1
         /\ IdsOf(Without(id)) = Ids \ {id}
         /\ \A f : f # id => (OnTop(windows, f) => OnTop(Without(id), f))
<1> DEFINE k == Index(id)
           u == Without(id)
           o(i) == IF i < k THEN i ELSE i + 1
<1>1. k \in DOMAIN windows /\ windows[k].id = id
  BY IndexIs
<1>2. u = Removed(windows, k)
  BY DEF Without
<1> HIDE DEF k, u
<1>3. windows \in Seq(Window) /\ Len(windows) \in Nat /\ DOMAIN windows = 1 .. Len(windows)
  BY DEF Stack
<1>4. /\ u \in Seq(Window) /\ Len(u) = Len(windows) - 1 /\ DOMAIN u = 1 .. Len(windows) - 1
      /\ \A i \in DOMAIN u : u[i] = IF i < k THEN windows[i] ELSE windows[i + 1]
  BY <1>1, <1>2, <1>3, RemovedIs
<1>5. \A i \in DOMAIN u : o(i) \in DOMAIN windows /\ o(i) # k /\ u[i] = windows[o(i)]
  BY <1>1, <1>3, <1>4
<1>6. \A i, j \in DOMAIN u : (o(i) = o(j) => i = j) /\ (o(i) <= o(j) <=> i <= j)
  BY <1>1, <1>3, <1>4
<1>7. ASSUME NEW i \in DOMAIN windows, i # k
      PROVE  \E j \in DOMAIN u : o(j) = i
  <2>1. i < k => i \in DOMAIN u /\ o(i) = i
    BY <1>1, <1>3, <1>4, <1>7
  <2>2. i > k => i - 1 \in DOMAIN u /\ o(i - 1) = i
    BY <1>1, <1>3, <1>4, <1>7
  <2> QED BY <2>1, <2>2, <1>1, <1>3, <1>7
<1> HIDE DEF o
<1>8. Stack(u)
  <2>1. \A i \in DOMAIN u : Good(u[i])
    BY <1>5 DEF Stack
  <2>2. ASSUME NEW i \in DOMAIN u, NEW j \in DOMAIN u, u[i].id = u[j].id PROVE i = j
    <3>1. o(i) = o(j)
      BY <2>2, <1>5 DEF Stack
    <3> QED BY <3>1, <1>6
  <2> QED BY <2>1, <2>2, <1>4 DEF Stack
<1>9. IdsOf(u) = Ids \ {id}
  <2>1. \A i \in DOMAIN windows : i = k <=> windows[i].id = id
    BY <1>1 DEF Stack
  <2>2. ASSUME NEW f \in IdsOf(u) PROVE f \in Ids \ {id}
    <3>1. PICK i \in DOMAIN u : f = u[i].id
      BY DEF IdsOf
    <3> QED BY <3>1, <1>5, <2>1 DEF Ids
  <2>3. ASSUME NEW f \in Ids \ {id} PROVE f \in IdsOf(u)
    <3>1. PICK i \in DOMAIN windows : f = windows[i].id
      BY DEF Ids
    <3>2. PICK j \in DOMAIN u : o(j) = i
      BY <3>1, <2>1, <1>7
    <3> QED BY <3>1, <3>2, <1>5 DEF IdsOf
  <2> QED BY <2>2, <2>3
<1>10. ASSUME NEW f, f # id, OnTop(windows, f) PROVE OnTop(u, f)
  <2>1. PICK i \in DOMAIN windows :
          /\ windows[i].id = f /\ windows[i].visible
          /\ \A j \in DOMAIN windows : windows[j].visible => j <= i
    BY <1>10 DEF OnTop
  <2>2. PICK j \in DOMAIN u : o(j) = i
    BY <2>1, <1>1, <1>7, <1>10
  <2>3. u[j].id = f /\ u[j].visible
    BY <2>1, <2>2, <1>5
  <2>4. ASSUME NEW l \in DOMAIN u, u[l].visible PROVE l <= j
    BY <2>4, <2>1, <2>2, <1>5, <1>6
  <2> QED BY <2>3, <2>4 DEF OnTop
<1> QED BY <1>4, <1>8, <1>9, <1>10 DEF u

(* A visible window that is taken to the front is on top. *)
LEMMA RaisedIs ==
  ASSUME Stack(windows), NEW id \in Ids, NEW w, Good(w), w.id = id, w.visible
  PROVE  /\ Stack(Raised(id, w)) /\ Len(Raised(id, w)) = Len(windows)
         /\ IdsOf(Raised(id, w)) = Ids
         /\ OnTop(Raised(id, w), id)
<1> DEFINE v == Without(id)
           u == Raised(id, w)
<1>1. Stack(v) /\ Len(v) = Len(windows) - 1 /\ IdsOf(v) = Ids \ {id}
  BY WithoutIs
<1>2. u = Append(v, w)
  BY DEF Raised
<1> HIDE DEF u, v
<1>3. v \in Seq(Window) /\ w \in Window /\ Len(v) \in Nat /\ DOMAIN v = 1 .. Len(v)
  BY <1>1 DEF Stack, Good
<1>4. /\ u \in Seq(Window) /\ Len(u) = Len(v) + 1 /\ DOMAIN u = 1 .. Len(v) + 1
      /\ u[Len(v) + 1] = w /\ \A i \in 1 .. Len(v) : u[i] = v[i]
  BY <1>2, <1>3
<1>5. \A i \in DOMAIN u : i \in DOMAIN v \/ i = Len(v) + 1
  BY <1>3, <1>4
<1>6. \A i \in DOMAIN v : v[i].id # id
  BY <1>1 DEF IdsOf
<1>7. Stack(u)
  <2>1. \A i \in DOMAIN u : Good(u[i])
    BY <1>1, <1>3, <1>4, <1>5 DEF Stack
  <2>2. ASSUME NEW i \in DOMAIN u, NEW j \in DOMAIN u, u[i].id = u[j].id PROVE i = j
    BY <2>2, <1>1, <1>3, <1>4, <1>5, <1>6 DEF Stack
  <2> QED BY <2>1, <2>2, <1>4 DEF Stack
<1>8. IdsOf(u) = Ids
  <2>1. IdsOf(u) = IdsOf(v) \cup {id}
    BY <1>3, <1>4, <1>5 DEF IdsOf
  <2> QED BY <2>1, <1>1
<1>9. OnTop(u, id)
  <2>1. Len(v) + 1 \in DOMAIN u /\ \A j \in DOMAIN u : j <= Len(v) + 1
    BY <1>3, <1>4
  <2> QED BY <2>1, <1>4 DEF OnTop
<1>10. Len(u) = Len(windows)
  <2>1. Len(windows) \in Nat
    BY DEF Stack
  <2> QED BY <2>1, <1>1, <1>4
<1> QED BY <1>7, <1>8, <1>9, <1>10 DEF u

(***************************************************************************)
(* Windows that an operation makes                                         *)
(***************************************************************************)

LEMMA NewWindowGood ==
  ASSUME NEW id \in Id, NEW size \in Sizes
  PROVE  Good(NewWindow(id, size)) /\ NewWindow(id, size).id = id
<1>1. Blank(size) \in [1 .. size -> Color \cup {None}]
  BY DEF Blank
<1> HIDE DEF Blank
<1>2. Blank(size) \in UNION {[1 .. s -> Color \cup {None}] : s \in Sizes}
  BY <1>1
<1>3. NewWindow(id, size) \in Window
  BY <1>2 DEF NewWindow, Window
<1> QED BY <1>1, <1>3 DEF NewWindow, Good

LEMMA ResizedGood ==
  ASSUME NEW w, Good(w), NEW size \in Sizes
  PROVE  /\ Good(Resized(w, size)) /\ Resized(w, size).id = w.id
         /\ Resized(w, size).visible = w.visible
<1>1. Blank(size) \in [1 .. size -> Color \cup {None}]
  BY DEF Blank
<1>2. Blank(size) \in UNION {[1 .. s -> Color \cup {None}] : s \in Sizes}
  BY <1>1
<1>3. DOMAIN Blank(size) = 1 .. size
  BY DEF Blank
<1> DEFINE b == Blank(size)
<1> HIDE DEF b
<1>4. CASE w.size = size
  BY <1>4 DEF Resized
<1>5. CASE w.size # size
  <2>1. Resized(w, size) = [w EXCEPT !.size = size, !.surface = b]
    BY <1>5 DEF Resized, b
  <2>2. w \in Window /\ b \in UNION {[1 .. s -> Color \cup {None}] : s \in Sizes}
        /\ DOMAIN b = 1 .. size
    BY <1>2, <1>3 DEF Good, b
  <2> QED BY <2>1, <2>2 DEF Window, Good
<1> QED BY <1>4, <1>5

LEMMA FlagsGood ==
  ASSUME NEW w, Good(w), NEW b \in BOOLEAN
  PROVE  /\ Good([w EXCEPT !.visible = b]) /\ [w EXCEPT !.visible = b].id = w.id
         /\ [w EXCEPT !.visible = b].visible = b
         /\ Good([w EXCEPT !.updating = b]) /\ [w EXCEPT !.updating = b].id = w.id
         /\ [w EXCEPT !.updating = b].visible = w.visible
BY DEF Good, Window

(* A run of pixels within the surface leaves its size. *)
LEMMA FillGood ==
  ASSUME NEW w, Good(w), NEW at \in Nat, NEW count \in Nat, NEW color \in Color,
         at + count <= Len(w.surface)
  PROVE  /\ Good(Filled(w, at, count, color)) /\ Filled(w, at, count, color).id = w.id
         /\ Filled(w, at, count, color).visible = w.visible
<1> DEFINE d == w.surface
           r == at + 1 .. at + count
           f == [p \in DOMAIN d \cup r |-> IF p \in r THEN color ELSE d[p]]
<1>1. w \in Window /\ DOMAIN d = 1 .. w.size /\ w.size \in Sizes
  BY DEF Good, Window
<1>2. PICK s \in Sizes : d \in [1 .. s -> Color \cup {None}]
  BY <1>1 DEF Window
<1>3. s \in Nat /\ w.size \in Nat
  BY <1>1, WindowAssumption
<1>4. Len(d) = w.size /\ 1 .. s = 1 .. w.size
  <2>1. d \in Seq(Color \cup {None}) /\ DOMAIN d = 1 .. Len(d)
    BY <1>2, <1>3
  <2>2. Len(d) \in Nat /\ 1 .. Len(d) = 1 .. w.size
    BY <2>1, <1>1
  <2>3. Len(d) = w.size
    BY <2>2, <1>3
  <2> QED BY <2>3, <1>1, <1>2
<1>5. DOMAIN d \cup r = 1 .. s
  BY <1>1, <1>3, <1>4
<1>6. f \in [1 .. s -> Color \cup {None}]
  BY <1>2, <1>5
<1>7. f \in UNION {[1 .. q -> Color \cup {None}] : q \in Sizes} /\ DOMAIN f = 1 .. w.size
  BY <1>4, <1>6
<1> DEFINE g == [w EXCEPT !.surface = f]
<1>8. Filled(w, at, count, color) = g
  BY DEF Filled
<1>9. Good(g) /\ g.id = w.id /\ g.visible = w.visible
  <2> HIDE DEF f
  <2> QED BY <1>1, <1>7 DEF Good, Window
<1> QED BY <1>8, <1>9

(***************************************************************************)
(* Events                                                                  *)
(***************************************************************************)

(* The windows that events of one kind go to. *)
To(events, kind) == {events[i].id : i \in {j \in DOMAIN events : events[j].kind = kind}}

(* Events that say nothing of the focus and of the button. *)
Quiet(events) ==
  \A kind \in {"FocusGained", "FocusLost", "MouseDown", "MouseUp"} : To(events, kind) = {}

LEMMA EmitIs ==
  ASSUME NEW events, Emit(events)
  PROVE  /\ out' = events
         /\ told' = ((told \cup To(events, "FocusGained")) \ To(events, "FocusLost")) \cap Ids'
         /\ down' = IF To(events, "MouseDown") # {}
                      THEN CHOOSE id \in To(events, "MouseDown") : TRUE
                    ELSE IF To(events, "MouseUp") # {} THEN None ELSE down
BY DEF Emit, To

LEMMA ToNone == Quiet(<< >>) /\ \A kind : To(<< >>, kind) = {}
BY DEF To, Quiet

LEMMA ToOne ==
  ASSUME NEW e
  PROVE  \A kind : To(<<e>>, kind) = IF e.kind = kind THEN {e.id} ELSE {}
BY DEF To

LEMMA ToTwo ==
  ASSUME NEW e, NEW f
  PROVE  \A kind : To(<<e, f>>, kind) = To(<<e>>, kind) \cup To(<<f>>, kind)
<1> DEFINE s == <<e, f>>
<1>1. DOMAIN s = {1, 2} /\ s[1] = e /\ s[2] = f
  OBVIOUS
<1> HIDE DEF s
<1> SUFFICES ASSUME NEW kind
             PROVE  To(s, kind) = To(<<e>>, kind) \cup To(<<f>>, kind)
  BY DEF s
<1>2. To(s, kind) = {s[i].id : i \in {j \in {1, 2} : s[j].kind = kind}}
  BY <1>1 DEF To
<1>3. To(s, kind) = (IF e.kind = kind THEN {e.id} ELSE {})
                      \cup (IF f.kind = kind THEN {f.id} ELSE {})
  BY <1>1, <1>2
<1> QED BY <1>3, ToOne

LEMMA OneQuiet ==
  ASSUME NEW e, e.kind \notin {"FocusGained", "FocusLost", "MouseDown", "MouseUp"}
  PROVE  Quiet(<<e>>) /\ \A kind : To(<<e>>, kind) \subseteq {e.id}
BY ToOne DEF Quiet

LEMMA TwoQuiet ==
  ASSUME NEW e, e.kind \notin {"FocusGained", "FocusLost", "MouseDown", "MouseUp"},
         NEW f, f.kind \notin {"FocusGained", "FocusLost", "MouseDown", "MouseUp"}, f.id = e.id
  PROVE  Quiet(<<e, f>>) /\ \A kind : To(<<e, f>>, kind) \subseteq {e.id}
<1>1. /\ Quiet(<<e>>) /\ Quiet(<<f>>)
      /\ \A kind : To(<<e>>, kind) \subseteq {e.id} /\ To(<<f>>, kind) \subseteq {e.id}
  BY OneQuiet
<1>2. \A kind : To(<<e, f>>, kind) = To(<<e>>, kind) \cup To(<<f>>, kind)
  BY ToTwo
<1>3. ASSUME NEW kind PROVE To(<<e, f>>, kind) \subseteq {e.id}
  BY <1>1, <1>2
<1>4. Quiet(<<e, f>>)
  BY <1>1, <1>2 DEF Quiet
<1> QED BY <1>3, <1>4

LEMMA ToConcat ==
  ASSUME NEW S, NEW s \in Seq(S), NEW t \in Seq(S)
  PROVE  \A kind : To(s \o t, kind) = To(s, kind) \cup To(t, kind)
<1> TAKE kind
<1> DEFINE c == s \o t
<1>1. /\ c \in Seq(S) /\ Len(c) = Len(s) + Len(t)
      /\ \A i \in 1 .. Len(s) + Len(t) :
           c[i] = IF i <= Len(s) THEN s[i] ELSE t[i - Len(s)]
  BY ConcatProperties
<1> HIDE DEF c
<1>2. /\ Len(s) \in Nat /\ DOMAIN s = 1 .. Len(s)
      /\ Len(t) \in Nat /\ DOMAIN t = 1 .. Len(t)
      /\ DOMAIN c = 1 .. Len(s) + Len(t)
  BY <1>1
<1>3. ASSUME NEW x \in To(c, kind) PROVE x \in To(s, kind) \cup To(t, kind)
  <2>1. PICK i \in DOMAIN c : c[i].kind = kind /\ x = c[i].id
    BY DEF To
  <2>2. CASE i <= Len(s)
    BY <1>1, <1>2, <2>1, <2>2 DEF To
  <2>3. CASE ~(i <= Len(s))
    <3>1. i - Len(s) \in DOMAIN t /\ c[i] = t[i - Len(s)]
      BY <1>1, <1>2, <2>1, <2>3
    <3> QED BY <3>1, <2>1 DEF To
  <2> QED BY <2>2, <2>3
<1>4. ASSUME NEW x \in To(s, kind) PROVE x \in To(c, kind)
  <2>1. PICK i \in DOMAIN s : s[i].kind = kind /\ x = s[i].id
    BY DEF To
  <2>2. i \in DOMAIN c /\ c[i] = s[i]
    BY <1>1, <1>2, <2>1
  <2> QED BY <2>1, <2>2 DEF To
<1>5. ASSUME NEW x \in To(t, kind) PROVE x \in To(c, kind)
  <2>1. PICK i \in DOMAIN t : t[i].kind = kind /\ x = t[i].id
    BY DEF To
  <2>2. Len(s) + i \in DOMAIN c /\ c[Len(s) + i] = t[i]
    BY <1>1, <1>2, <2>1
  <2> QED BY <2>1, <2>2 DEF To
<1> QED BY <1>3, <1>4, <1>5 DEF c

(***************************************************************************)
(* The inductive invariant                                                 *)
(***************************************************************************)

(* The window that has the focus is on top and alone believes that it has  *)
(* it; a grab or a press belongs to a window on the stack and ends with    *)
(* the button; and a press is of the window that was told MouseDown.       *)
WindowInv ==
  /\ CaptureSound
  /\ focused # None => OnTop(windows, focused)
  /\ FocusTold
  /\ pressed # None => down = pressed

(* What EventsSound says of a step. *)
OutSound ==
  /\ \A i \in DOMAIN out' : out'[i].id \in Ids'
  /\ \A i \in DOMAIN out' : out'[i].kind = "MouseUp" => out'[i].id = down

LEMMA OutSoundIs ==
  ASSUME \A kind : To(out', kind) \subseteq Ids', To(out', "MouseUp") \subseteq {down}
  PROVE  OutSound
<1>1. ASSUME NEW i \in DOMAIN out' PROVE out'[i].id \in Ids'
  <2>1. out'[i].id \in To(out', out'[i].kind)
    BY DEF To
  <2> QED BY <2>1
<1>2. ASSUME NEW i \in DOMAIN out', out'[i].kind = "MouseUp" PROVE out'[i].id = down
  <2>1. out'[i].id \in To(out', "MouseUp")
    BY <1>2 DEF To
  <2> QED BY <2>1
<1> QED BY <1>1, <1>2 DEF OutSound

LEMMA TypeIs ==
  TypeOK <=> /\ Stack(windows) /\ Len(windows) <= MaxWindows
             /\ focused \in Id \cup {None} /\ pressed \in Id \cup {None}
             /\ grab \in [kind : {"none", "move", "resize"}, id : Id \cup {None}]
             /\ leftDown \in BOOLEAN
<1>1. ASSUME windows \in Seq(Window) PROVE \A i \in DOMAIN windows : windows[i] \in Window
  BY <1>1
<1> QED BY <1>1 DEF TypeOK, Stack, Good

(* The ids on a stack are ids, and the focused window is on the stack. *)
LEMMA FocusedOnStack ==
  ASSUME WindowInv
  PROVE  /\ Ids \subseteq Id /\ None \notin Ids
         /\ focused # None => focused \in Ids
         /\ told = {focused} \ {None} /\ Stack(windows) /\ Len(windows) \in Nat
<1>1. Stack(windows)
  BY TypeIs DEF WindowInv, CaptureSound
<1>2. ASSUME NEW i \in DOMAIN windows PROVE windows[i].id \in Id
  <2>1. windows[i] \in Window
    BY <1>1 DEF Stack, Good
  <2> QED BY <2>1 DEF Window
<1>3. Ids \subseteq Id /\ None \notin Ids
  BY <1>2, WindowAssumption DEF Ids
<1>4. focused # None => focused \in Ids
  BY DEF WindowInv, OnTop, Ids
<1> QED BY <1>1, <1>3, <1>4 DEF WindowInv, FocusTold, Stack

(* A step that leaves the pointer and the focus alone, loses no window and *)
(* keeps the focused one on top.                                           *)
LEMMA Kept ==
  ASSUME WindowInv, UNCHANGED <<focused, pointerVars>>,
         Stack(windows'), Len(windows') <= MaxWindows, Ids \subseteq IdsOf(windows'),
         focused # None => OnTop(windows', focused),
         NEW events, Emit(events),
         Quiet(events),
         \A kind : To(events, kind) \subseteq IdsOf(windows')
  PROVE  WindowInv' /\ OutSound
<1>1. /\ focused # None => focused \in Ids
      /\ told = {focused} \ {None}
  BY FocusedOnStack
<1>2. Ids' = IdsOf(windows')
  BY DEF Ids, IdsOf
<1>3. told' = told /\ down' = down /\ out' = events
  <2>1. told' = told \cap Ids' /\ down' = down /\ out' = events
    BY EmitIs DEF Quiet
  <2>2. told \subseteq Ids'
    BY <1>1, <1>2
  <2> QED BY <2>1, <2>2
<1>4. TypeOK'
  BY TypeIs DEF WindowInv, CaptureSound, TypeOK, Stack, Good, pointerVars
<1>5. CaptureSound'
  BY <1>2, <1>4 DEF WindowInv, CaptureSound, pointerVars
<1>6. WindowInv'
  BY <1>3, <1>5 DEF WindowInv, FocusTold, pointerVars
<1>7. OutSound
  BY <1>2, <1>3, OutSoundIs DEF Quiet
<1> QED BY <1>6, <1>7

LEMMA SameStackKept ==
  ASSUME NEW ws, NEW wt, SameStack(ws, wt)
  PROVE  IdsOf(ws) = IdsOf(wt) /\ \A f : OnTop(ws, f) => OnTop(wt, f)
BY DEF SameStack, IdsOf, OnTop

(***************************************************************************)
(* The steps                                                               *)
(***************************************************************************)

LEMMA CreateKept ==
  ASSUME WindowInv, NEW id \in Id, NEW size \in Sizes, Create(id, size)
  PROVE  WindowInv' /\ OutSound
<1> DEFINE w == NewWindow(id, size)
           n == Len(windows)
           e == Event(id, "WindowCreated")
           f == SizeEvent(id, "Redraw", size)
<1>1. Good(w) /\ w.id = id /\ w.visible = FALSE
  BY NewWindowGood DEF NewWindow
<1>2. /\ windows' = Append(windows, w) /\ id \notin Ids /\ n < MaxWindows
      /\ UNCHANGED <<focused, pointerVars>> /\ Emit(<<e, f>>)
  BY DEF Create, CanCreate
<1> HIDE DEF w
<1>3. Stack(windows) /\ windows \in Seq(Window) /\ n \in Nat /\ DOMAIN windows = 1 .. n
  BY FocusedOnStack DEF Stack
<1>4. w \in Window
  BY <1>1 DEF Good
<1>5. /\ windows' \in Seq(Window) /\ Len(windows') = n + 1 /\ DOMAIN windows' = 1 .. n + 1
      /\ windows'[n + 1] = w /\ \A i \in 1 .. n : windows'[i] = windows[i]
  BY <1>2, <1>3, <1>4
<1>6. \A i \in DOMAIN windows' : i \in DOMAIN windows \/ i = n + 1
  BY <1>3, <1>5
<1>7. \A i \in DOMAIN windows : windows[i].id # id
  BY <1>2 DEF Ids
<1>8. Stack(windows')
  <2>1. \A i \in DOMAIN windows' : Good(windows'[i])
    BY <1>1, <1>3, <1>5, <1>6 DEF Stack
  <2>2. ASSUME NEW i \in DOMAIN windows', NEW j \in DOMAIN windows',
               windows'[i].id = windows'[j].id
        PROVE  i = j
    BY <2>2, <1>1, <1>3, <1>5, <1>6, <1>7 DEF Stack
  <2> QED BY <2>1, <2>2, <1>5 DEF Stack
<1>9. Len(windows') <= MaxWindows
  BY <1>2, <1>3, <1>5, WindowAssumption
<1>10. Ids \subseteq IdsOf(windows') /\ id \in IdsOf(windows')
  <2>1. n + 1 \in DOMAIN windows' /\ \A i \in DOMAIN windows : i \in DOMAIN windows'
    BY <1>3, <1>5
  <2> QED BY <2>1, <1>1, <1>3, <1>5 DEF Ids, IdsOf
<1>11. ASSUME focused # None PROVE OnTop(windows', focused)
  <2>1. PICK i \in DOMAIN windows :
          /\ windows[i].id = focused /\ windows[i].visible
          /\ \A j \in DOMAIN windows : windows[j].visible => j <= i
    BY <1>11 DEF WindowInv, OnTop
  <2>2. i \in DOMAIN windows' /\ windows'[i] = windows[i]
    BY <1>3, <1>5, <2>1
  <2>3. \A j \in DOMAIN windows' : windows'[j].visible => j <= i
    BY <1>1, <1>3, <1>5, <1>6, <2>1
  <2> QED BY <2>1, <2>2, <2>3 DEF OnTop
<1>12. /\ \A kind : To(<<e, f>>, kind) \subseteq {id}
       /\ Quiet(<<e, f>>)
  <2>1. e.id = id /\ f.id = id /\ e.kind = "WindowCreated" /\ f.kind = "Redraw"
    BY DEF Event, SizeEvent
  <2> HIDE DEF e, f
  <2> QED BY <2>1, TwoQuiet
<1> QED BY <1>2, <1>8, <1>9, <1>10, <1>11, <1>12, Kept

(* A step that changes one window in its place, and its visibility not at all. *)
LEMMA UpdateKept ==
  ASSUME WindowInv, NEW id \in Ids, NEW w, Good(w), w.id = id, w.visible = Win(id).visible,
         windows' = Update(id, w), UNCHANGED <<focused, pointerVars>>,
         NEW events, Emit(events),
         Quiet(events),
         \A kind : To(events, kind) \subseteq {id}
  PROVE  WindowInv' /\ OutSound
<1>1. Stack(windows)
  BY FocusedOnStack
<1>2. /\ Stack(windows') /\ Len(windows') = Len(windows) /\ IdsOf(windows') = Ids
      /\ SameStack(windows, windows')
  BY <1>1, UpdateIs
<1>3. Len(windows') <= MaxWindows
  BY <1>2 DEF WindowInv, CaptureSound, TypeOK
<1>4. focused # None => OnTop(windows', focused)
  BY <1>2, SameStackKept DEF WindowInv
<1>5. \A kind : To(events, kind) \subseteq IdsOf(windows')
  BY <1>2
<1> QED BY <1>2, <1>3, <1>4, <1>5, Kept

(* A step that changes no window. *)
LEMMA StillKept ==
  ASSUME WindowInv, UNCHANGED <<windows, focused, pointerVars>>,
         NEW events, Emit(events),
         Quiet(events),
         \A kind : To(events, kind) \subseteq Ids
  PROVE  WindowInv' /\ OutSound
<1>1. Stack(windows)
  BY FocusedOnStack
<1>2. Stack(windows') /\ IdsOf(windows') = Ids /\ Len(windows') <= MaxWindows
  BY <1>1 DEF IdsOf, Ids, WindowInv, CaptureSound, TypeOK
<1>3. focused # None => OnTop(windows', focused)
  BY DEF WindowInv
<1> QED BY <1>2, <1>3, Kept

LEMMA WinGood ==
  ASSUME WindowInv, NEW id \in Ids
  PROVE  Good(Win(id)) /\ Win(id).id = id
BY IndexIs, FocusedOnStack DEF Stack, Win

LEMMA ResizeEventsQuiet ==
  ASSUME NEW w, NEW size
  PROVE  /\ \A kind : To(ResizeEvents(w, size), kind) \subseteq {w.id}
         /\ Quiet(ResizeEvents(w, size))
<1>1. CASE w.size = size
  <2>1. ResizeEvents(w, size) = <<>>
    BY <1>1 DEF ResizeEvents
  <2> QED BY <2>1, ToNone
<1>2. CASE w.size # size
  <2> DEFINE e == SizeEvent(w.id, "Resize", size)
             f == SizeEvent(w.id, "Redraw", size)
  <2>1. ResizeEvents(w, size) = <<e, f>>
    BY <1>2 DEF ResizeEvents
  <2>2. e.id = w.id /\ f.id = w.id /\ e.kind = "Resize" /\ f.kind = "Redraw"
    BY DEF SizeEvent
  <2> HIDE DEF e, f
  <2> QED BY <2>1, <2>2, TwoQuiet
<1> QED BY <1>1, <1>2

LEMMA SetSizeKept ==
  ASSUME WindowInv, NEW id, NEW size \in Sizes, SetSize(id, size)
  PROVE  WindowInv' /\ OutSound
<1>1. id \in Ids
  BY DEF SetSize
<1>2. Good(Win(id)) /\ Win(id).id = id
  BY <1>1, WinGood
<1>3. /\ Good(Resized(Win(id), size)) /\ Resized(Win(id), size).id = id
      /\ Resized(Win(id), size).visible = Win(id).visible
  BY <1>2, ResizedGood
<1>4. /\ windows' = Update(id, Resized(Win(id), size)) /\ UNCHANGED <<focused, pointerVars>>
      /\ Emit(ResizeEvents(Win(id), size))
  BY DEF SetSize
<1> DEFINE w == Resized(Win(id), size)
           ev == ResizeEvents(Win(id), size)
<1>5. /\ \A kind : To(ev, kind) \subseteq {id}
      /\ Quiet(ev)
  BY <1>2, ResizeEventsQuiet
<1> HIDE DEF w, ev
<1> QED BY <1>1, <1>3, <1>4, <1>5, UpdateKept DEF w, ev

LEMMA SetUpdatingKept ==
  ASSUME WindowInv, NEW id, NEW b \in BOOLEAN, SetUpdating(id, b)
  PROVE  WindowInv' /\ OutSound
<1>1. id \in Ids
  BY DEF SetUpdating
<1> DEFINE w == [Win(id) EXCEPT !.updating = b]
<1>2. Good(w) /\ w.id = id /\ w.visible = Win(id).visible
  <2> DEFINE v == Win(id)
  <2>1. Good(v) /\ v.id = id
    BY <1>1, WinGood
  <2> HIDE DEF v
  <2> DEFINE u == [v EXCEPT !.updating = b]
  <2>2. Good(u) /\ u.id = v.id /\ u.visible = v.visible
    BY <2>1, FlagsGood, ZenonT(20)
  <2> HIDE DEF u
  <2>3. w = u
    BY DEF u, v
  <2> HIDE DEF w
  <2> QED BY <2>1, <2>2, <2>3 DEF v
<1>3. windows' = Update(id, w) /\ UNCHANGED <<focused, pointerVars>> /\ Emit(<<>>)
  BY DEF SetUpdating
<1> HIDE DEF w
<1> QED BY <1>1, <1>2, <1>3, ToNone, UpdateKept

LEMMA FillKept ==
  ASSUME WindowInv, NEW id, NEW at \in Nat, NEW count \in Nat, NEW color \in Color,
         Fill(id, at, count, color)
  PROVE  WindowInv' /\ OutSound
<1> DEFINE w == Filled(Win(id), at, count, color)
<1>1. id \in Ids /\ at + count <= Len(Win(id).surface)
  BY DEF Fill, CanFill
<1>2. Good(w) /\ w.id = id /\ w.visible = Win(id).visible
  BY <1>1, WinGood, FillGood
<1>3. windows' = Update(id, w) /\ UNCHANGED <<focused, pointerVars>> /\ Emit(<<>>)
  BY DEF Fill
<1> HIDE DEF w
<1> QED BY <1>1, <1>2, <1>3, ToNone, UpdateKept

LEMMA AnswerKept ==
  ASSUME WindowInv, NEW id, SetPosition(id) \/ Invalidate(id)
  PROVE  WindowInv' /\ OutSound
<1>1. id \in Ids /\ UNCHANGED <<windows, focused, pointerVars>>
  BY DEF SetPosition, Invalidate
<1>2. PICK e : Emit(<<e>>) /\ e.id = id /\ e.kind \in {"Move", "Redraw"}
  BY DEF SetPosition, Invalidate, Event, SizeEvent
<1>3. /\ \A kind : To(<<e>>, kind) \subseteq {id}
      /\ Quiet(<<e>>)
  BY <1>2, OneQuiet
<1> QED BY <1>1, <1>2, <1>3, StillKept

LEMMA KeyKept ==
  ASSUME WindowInv, Key
  PROVE  WindowInv' /\ OutSound
<1>1. UNCHANGED <<windows, focused, pointerVars>>
  BY DEF Key
<1>2. CASE focused = None
  BY <1>1, <1>2, ToNone, StillKept DEF Key
<1>3. CASE focused # None
  <2> DEFINE e == Event(focused, "KeyDown")
  <2>1. Emit(<<e>>) /\ e.id = focused /\ e.kind = "KeyDown"
    BY <1>3 DEF Key, Event
  <2> HIDE DEF e
  <2>2. /\ \A kind : To(<<e>>, kind) \subseteq Ids
        /\ Quiet(<<e>>)
    BY <1>3, <2>1, OneQuiet, FocusedOnStack
  <2> QED BY <1>1, <2>1, <2>2, StillKept
<1> QED BY <1>2, <1>3

LEMMA DestroyKept ==
  ASSUME WindowInv, NEW id, Destroy(id)
  PROVE  WindowInv' /\ OutSound
<1>1. /\ id \in Ids /\ windows' = Without(id)
      /\ grab' = Released /\ pressed' = None /\ leftDown' = leftDown
      /\ focused' = IF focused = id THEN Topmost(windows') ELSE focused
  BY DEF Destroy, Heir, GrabAfterDestroy
<1>2. /\ None \notin Ids /\ told = {focused} \ {None} /\ Stack(windows) /\ Len(windows) \in Nat
      /\ Ids \subseteq Id
  BY FocusedOnStack
<1>3. /\ Stack(windows') /\ Len(windows') = Len(windows) - 1 /\ IdsOf(windows') = Ids \ {id}
      /\ \A f : f # id => (OnTop(windows, f) => OnTop(windows', f))
  BY <1>1, <1>2, WithoutIs
<1>4. Ids' = Ids \ {id}
  BY <1>3 DEF Ids, IdsOf
<1>5. /\ focused' # None => OnTop(windows', focused') /\ focused' \in Ids'
      /\ focused' \in Id \cup {None}
  <2>1. CASE focused = id
    <3>1. /\ focused' # None => OnTop(windows', focused')
          /\ focused' \in IdsOf(windows') \cup {None}
      BY <1>1, <1>3, <2>1, TopmostIs
    <3> QED BY <3>1, <1>2, <1>3, <1>4
  <2>2. CASE focused # id
    <3>1. focused' = focused /\ (focused # None => focused \in Ids)
      BY <1>1, <2>2, FocusedOnStack
    <3> QED BY <3>1, <2>2, <1>2, <1>3, <1>4 DEF WindowInv
  <2> QED BY <2>1, <2>2
<1>6. told' = {focused'} \ {None} /\ OutSound
  <2>1. CASE focused = id /\ focused' # None
    <3> DEFINE e == Event(focused', "FocusGained")
    <3>1. Emit(<<e>>) /\ e.id = focused' /\ e.kind = "FocusGained"
      BY <2>1 DEF Destroy, Event
    <3> HIDE DEF e
    <3>2. /\ To(<<e>>, "FocusGained") = {focused'} /\ To(<<e>>, "FocusLost") = {}
          /\ To(<<e>>, "MouseUp") = {} /\ \A kind : To(<<e>>, kind) \subseteq Ids'
      BY <3>1, <1>5, <2>1, ToOne
    <3>3. out' = <<e>> /\ told' = (told \cup {focused'}) \cap Ids'
      BY <3>1, <3>2, EmitIs
    <3>4. told' = {focused'}
      BY <3>3, <1>2, <1>4, <1>5, <2>1
    <3>5. OutSound
      BY <3>2, <3>3, OutSoundIs
    <3> QED BY <3>4, <3>5, <2>1
  <2>2. CASE ~(focused = id /\ focused' # None)
    <3>1. Emit(<< >>)
      BY <2>2 DEF Destroy
    <3>2. out' = << >> /\ told' = told \cap Ids'
      BY <3>1, ToNone, EmitIs
    <3>3. told' = {focused'} \ {None}
      BY <3>2, <1>1, <1>2, <1>4, <1>5, <2>2
    <3>4. OutSound
      BY <3>2, ToNone, OutSoundIs
    <3> QED BY <3>3, <3>4
  <2> QED BY <2>1, <2>2
<1>7. TypeOK'
  <2>1. Len(windows') <= MaxWindows
    BY <1>2, <1>3, WindowAssumption DEF WindowInv, CaptureSound, TypeOK
  <2>2. grab' \in [kind : {"none", "move", "resize"}, id : Id \cup {None}]
    BY <1>1 DEF Released
  <2>3. leftDown' \in BOOLEAN
    BY <1>1 DEF WindowInv, CaptureSound, TypeOK
  <2> QED BY <1>1, <1>3, <1>5, <2>1, <2>2, <2>3 DEF TypeOK, Stack, Good
<1>8. CaptureSound'
  BY <1>1, <1>7 DEF CaptureSound
<1> QED BY <1>1, <1>5, <1>6, <1>8 DEF WindowInv, FocusTold

ClickEvent == [id : Id \cup {None}, size : {None},
               kind : {"FocusGained", "FocusLost", "CloseRequested", "MouseDown"}]

(* The events of focus tell the old window and the new one, in this order. *)
LEMMA FocusEventsTo ==
  ASSUME WindowInv, NEW id \in Ids
  PROVE  /\ FocusEvents(id) \in Seq(ClickEvent)
         /\ \A kind : To(FocusEvents(id), kind) \subseteq {id, focused} \ {None}
         /\ To(FocusEvents(id), "FocusGained") = IF focused = id THEN {} ELSE {id}
         /\ To(FocusEvents(id), "FocusLost") = {focused} \ {None, id}
         /\ \A kind \in {"MouseDown", "MouseUp", "CloseRequested"} :
              To(FocusEvents(id), kind) = {}
<1> DEFINE g == Event(id, "FocusGained")
           l == Event(focused, "FocusLost")
<1>1. id \in Id /\ id # None /\ focused \in Id \cup {None}
  BY FocusedOnStack DEF WindowInv, CaptureSound, TypeOK
<1>2. /\ g.id = id /\ g.kind = "FocusGained" /\ g \in ClickEvent
      /\ l.id = focused /\ l.kind = "FocusLost" /\ l \in ClickEvent
  <2>1. g \in ClickEvent
    BY <1>1 DEF Event, ClickEvent
  <2>2. l \in ClickEvent
    BY <1>1 DEF Event, ClickEvent
  <2>3. g.id = id /\ g.kind = "FocusGained" /\ l.id = focused /\ l.kind = "FocusLost"
    BY DEF Event
  <2> QED BY <2>1, <2>2, <2>3
<1>3. FocusEvents(id) = IF focused = id THEN << >>
                        ELSE IF focused = None THEN <<g>> ELSE <<l, g>>
  BY DEF FocusEvents
<1> HIDE DEF g, l
<1>4. CASE focused = id
  <2>1. FocusEvents(id) = << >>
    BY <1>3, <1>4
  <2> QED BY <2>1, <1>1, <1>4, ToNone
<1>5. CASE focused # id /\ focused = None
  <2>1. FocusEvents(id) = <<g>>
    BY <1>3, <1>5
  <2>2. \A kind : To(<<g>>, kind) = IF g.kind = kind THEN {g.id} ELSE {}
    BY ToOne
  <2>3. <<g>> \in Seq(ClickEvent)
    BY <1>2
  <2> QED BY <2>1, <2>2, <2>3, <1>1, <1>2, <1>5
<1>6. CASE focused # id /\ focused # None
  <2>1. FocusEvents(id) = <<l, g>>
    BY <1>3, <1>6
  <2>2. \A kind : /\ To(<<g>>, kind) = IF g.kind = kind THEN {g.id} ELSE {}
                  /\ To(<<l>>, kind) = IF l.kind = kind THEN {l.id} ELSE {}
                  /\ To(<<l, g>>, kind) = To(<<l>>, kind) \cup To(<<g>>, kind)
    <3>1. \A kind : To(<<g>>, kind) = IF g.kind = kind THEN {g.id} ELSE {}
      BY ToOne
    <3>2. \A kind : To(<<l>>, kind) = IF l.kind = kind THEN {l.id} ELSE {}
      BY ToOne
    <3>3. \A kind : To(<<l, g>>, kind) = To(<<l>>, kind) \cup To(<<g>>, kind)
      BY ToTwo
    <3> QED BY <3>1, <3>2, <3>3
  <2>3. <<l, g>> \in Seq(ClickEvent)
    BY <1>2, <1>6
  <2>4. \A kind : To(<<l, g>>, kind) = (IF l.kind = kind THEN {l.id} ELSE {})
                                         \cup (IF g.kind = kind THEN {g.id} ELSE {})
    BY <2>2
  <2> QED BY <2>1, <2>3, <2>4, <1>1, <1>2, <1>6
<1> QED BY <1>4, <1>5, <1>6

(* The focus goes to a window on top: it is told, and the old one too. *)
LEMMA FocusTaken ==
  ASSUME WindowInv, NEW id \in Ids, focused' = id, Ids' = Ids,
         NEW events, Emit(events),
         \A kind : To(events, kind) \subseteq {id, focused} \ {None},
         To(events, "FocusGained") = IF focused = id THEN {} ELSE {id},
         To(events, "FocusLost") = {focused} \ {None, id},
         To(events, "MouseUp") = {}
  PROVE  FocusTold' /\ OutSound
<1>1. None \notin Ids /\ told = {focused} \ {None} /\ (focused # None => focused \in Ids)
  BY FocusedOnStack
<1>2. /\ out' = events
      /\ told' = ((told \cup To(events, "FocusGained")) \ To(events, "FocusLost")) \cap Ids'
  BY EmitIs
<1>3. told' = {id}
  BY <1>1, <1>2
<1>4. \A kind : To(events, kind) \subseteq Ids'
  BY <1>1
<1>5. OutSound
  BY <1>2, <1>4, OutSoundIs
<1> QED BY <1>1, <1>3, <1>5 DEF FocusTold

LEMMA ShowKept ==
  ASSUME WindowInv, NEW id, Show(id)
  PROVE  WindowInv' /\ OutSound
<1> DEFINE w == [Win(id) EXCEPT !.visible = TRUE]
<1>1. /\ id \in Ids /\ windows' = Raised(id, w) /\ focused' = id
      /\ UNCHANGED pointerVars /\ Emit(FocusEvents(id))
  BY DEF Show
<1>2. Good(Win(id)) /\ Win(id).id = id
  BY <1>1, WinGood
<1>3. Good(w) /\ w.id = id /\ w.visible
  <2> DEFINE v == Win(id)
  <2> HIDE DEF v
  <2>1. LET u == [v EXCEPT !.visible = TRUE] IN Good(u) /\ u.id = v.id /\ u.visible = TRUE
    BY <1>2, FlagsGood DEF v
  <2> QED BY <1>2, <2>1 DEF v
<1> HIDE DEF w
<1>4. Stack(windows) /\ Len(windows) \in Nat /\ Ids \subseteq Id
  BY FocusedOnStack
<1>5. /\ Stack(windows') /\ Len(windows') = Len(windows) /\ IdsOf(windows') = Ids
      /\ OnTop(windows', id)
  BY <1>1, <1>3, <1>4, RaisedIs
<1>6. Ids' = Ids
  BY <1>5 DEF Ids, IdsOf
<1>7. FocusTold' /\ OutSound
  BY <1>1, <1>6, FocusEventsTo, FocusTaken
<1>8. down' = down
  BY <1>1, FocusEventsTo, EmitIs
<1>9. TypeOK'
  BY <1>1, <1>4, <1>5 DEF WindowInv, CaptureSound, TypeOK, Stack, Good, pointerVars
<1>10. CaptureSound'
  BY <1>1, <1>6, <1>9 DEF WindowInv, CaptureSound, pointerVars
<1> QED BY <1>1, <1>5, <1>7, <1>8, <1>10 DEF WindowInv, pointerVars

LEMMA HideKept ==
  ASSUME WindowInv, NEW id, Hide(id)
  PROVE  WindowInv' /\ OutSound
<1> DEFINE w == [Win(id) EXCEPT !.visible = FALSE]
<1>1. /\ id \in Ids /\ windows' = Update(id, w)
      /\ focused' = IF focused = id THEN None ELSE focused
      /\ UNCHANGED pointerVars
      /\ Emit(IF focused = id THEN <<Event(id, "FocusLost")>> ELSE << >>)
  BY DEF Hide
<1>2. Good(Win(id)) /\ Win(id).id = id
  BY <1>1, WinGood
<1>3. Good(w) /\ w.id = id /\ ~w.visible
  <2> DEFINE v == Win(id)
  <2> HIDE DEF v
  <2>1. LET u == [v EXCEPT !.visible = FALSE] IN Good(u) /\ u.id = v.id /\ u.visible = FALSE
    BY <1>2, FlagsGood DEF v
  <2> QED BY <1>2, <2>1 DEF v
<1> HIDE DEF w
<1>4. /\ Stack(windows) /\ Len(windows) \in Nat /\ Ids \subseteq Id /\ None \notin Ids
      /\ told = {focused} \ {None} /\ (focused # None => focused \in Ids)
  BY FocusedOnStack
<1>5. /\ Stack(windows') /\ Len(windows') = Len(windows) /\ IdsOf(windows') = Ids
      /\ \A i \in DOMAIN windows :
           windows'[i] = IF windows[i].id = id THEN w ELSE windows[i]
  BY <1>1, <1>3, <1>4, UpdateIs
<1>6. Ids' = Ids /\ DOMAIN windows' = DOMAIN windows
  <2>1. Ids' = IdsOf(windows')
    BY DEF Ids, IdsOf
  <2>2. windows \in Seq(Window) /\ windows' \in Seq(Window)
    BY <1>4, <1>5 DEF Stack
  <2> QED BY <2>1, <2>2, <1>5
<1>7. ASSUME focused' # None PROVE OnTop(windows', focused')
  <2>1. focused' = focused /\ focused # id /\ OnTop(windows, focused)
    BY <1>1, <1>7 DEF WindowInv
  <2>2. PICK i \in DOMAIN windows :
          /\ windows[i].id = focused /\ windows[i].visible
          /\ \A j \in DOMAIN windows : windows[j].visible => j <= i
    BY <2>1 DEF OnTop
  <2>3. windows'[i] = windows[i]
    BY <2>1, <2>2, <1>5
  <2>4. \A j \in DOMAIN windows' : windows'[j].visible => windows[j].visible
    BY <1>3, <1>5, <1>6
  <2> QED BY <2>1, <2>2, <2>3, <2>4, <1>6 DEF OnTop
<1>8. FocusTold' /\ OutSound /\ down' = down
  <2>1. CASE focused = id
    <3> DEFINE e == Event(id, "FocusLost")
    <3>1. Emit(<<e>>) /\ e.id = id /\ e.kind = "FocusLost"
      BY <1>1, <2>1 DEF Event
    <3> HIDE DEF e
    <3>2. \A kind : To(<<e>>, kind) = IF kind = "FocusLost" THEN {id} ELSE {}
      BY <3>1, ToOne
    <3>3. out' = <<e>> /\ told' = (told \ {id}) \cap Ids' /\ down' = down
      BY <3>1, <3>2, EmitIs
    <3>4. told' = {} /\ focused' = None
      BY <3>3, <1>1, <1>4, <2>1
    <3>5. OutSound
      BY <3>2, <3>3, <1>1, <1>6, OutSoundIs
    <3> QED BY <3>3, <3>4, <3>5 DEF FocusTold
  <2>2. CASE focused # id
    <3>1. Emit(<< >>) /\ focused' = focused
      BY <1>1, <2>2
    <3>2. out' = << >> /\ told' = told \cap Ids' /\ down' = down
      BY <3>1, ToNone, EmitIs
    <3>3. told' = told
      BY <3>2, <1>4, <1>6
    <3>4. OutSound
      BY <3>2, ToNone, OutSoundIs
    <3> QED BY <3>1, <3>2, <3>3, <3>4, <1>4 DEF FocusTold
  <2> QED BY <2>1, <2>2
<1>9. TypeOK'
  BY <1>1, <1>4, <1>5 DEF WindowInv, CaptureSound, TypeOK, Stack, Good, pointerVars
<1>10. CaptureSound'
  BY <1>1, <1>6, <1>9 DEF WindowInv, CaptureSound, pointerVars
<1> QED BY <1>1, <1>7, <1>8, <1>10 DEF WindowInv, pointerVars

LEMMA DragKept ==
  ASSUME WindowInv, PointerDrag
  PROVE  WindowInv' /\ OutSound
<1>1. grab # Released /\ leftDown' = TRUE /\ UNCHANGED <<focused, grab, pressed>>
  BY DEF PointerDrag
<1>2. grab.id \in Ids /\ leftDown = TRUE
  BY <1>1 DEF WindowInv, CaptureSound, TypeOK
<1>3. UNCHANGED <<focused, pointerVars>>
  BY <1>1, <1>2 DEF pointerVars
<1>4. CASE /\ UNCHANGED windows
           /\ \E moved \in BOOLEAN :
                Emit(IF moved /\ grab.id \in Ids THEN <<Event(grab.id, "Move")>> ELSE << >>)
  <2> DEFINE e == Event(grab.id, "Move")
  <2>1. e.id = grab.id /\ e.kind = "Move"
    BY DEF Event
  <2>2. Emit(<<e>>) \/ Emit(<< >>)
    BY <1>4, <1>2
  <2> HIDE DEF e
  <2>3. Quiet(<<e>>) /\ \A kind : To(<<e>>, kind) \subseteq Ids
    BY <2>1, <1>2, OneQuiet
  <2>4. Quiet(<< >>) /\ \A kind : To(<< >>, kind) \subseteq Ids
    BY ToNone
  <2> QED BY <1>3, <1>4, <2>2, <2>3, <2>4, StillKept
<1>5. CASE \E size \in Sizes : /\ windows' = Update(grab.id, Resized(Win(grab.id), size))
                               /\ Emit(ResizeEvents(Win(grab.id), size))
  <2>1. PICK size \in Sizes : /\ windows' = Update(grab.id, Resized(Win(grab.id), size))
                              /\ Emit(ResizeEvents(Win(grab.id), size))
    BY <1>5
  <2> DEFINE id == grab.id
             v == Win(grab.id)
             w == Resized(Win(grab.id), size)
             ev == ResizeEvents(Win(grab.id), size)
  <2>2. Good(v) /\ v.id = id
    BY <1>2, WinGood
  <2>3. Good(w) /\ w.id = id /\ w.visible = v.visible
    BY <2>2, ResizedGood
  <2>4. Quiet(ev) /\ \A kind : To(ev, kind) \subseteq {id}
    BY <2>2, ResizeEventsQuiet
  <2> HIDE DEF w, ev
  <2>5. windows' = Update(id, w) /\ Emit(ev)
    BY <2>1 DEF w, ev
  <2> HIDE DEF id
  <2>6. id \in Ids /\ w.visible = Win(id).visible
    BY <1>2, <2>3 DEF id
  <2> QED BY <1>3, <2>3, <2>4, <2>5, <2>6, UpdateKept
<1> QED BY <1>4, <1>5 DEF PointerDrag

LEMMA PressKept ==
  ASSUME WindowInv, NEW id, NEW zone \in Zone, PointerPress(id, zone)
  PROVE  WindowInv' /\ OutSound
<1> DEFINE tail == CASE zone = "close" -> <<Event(id, "CloseRequested")>>
                     [] zone = "content" -> <<Event(id, "MouseDown")>>
                     [] OTHER -> << >>
           fe == FocusEvents(id)
<1>1. /\ grab = Released /\ ~leftDown /\ id \in UnderPointer
      /\ windows' = Raised(id, Win(id)) /\ focused' = id
      /\ grab' = IF zone = "title" THEN [kind |-> "move", id |-> id]
                 ELSE IF zone = "grip" THEN [kind |-> "resize", id |-> id] ELSE grab
      /\ pressed' = IF zone = "content" THEN id ELSE pressed
      /\ leftDown' = TRUE /\ Emit(fe \o tail)
  BY DEF PointerPress
<1>2. /\ Stack(windows) /\ Len(windows) \in Nat /\ Ids \subseteq Id /\ None \notin Ids
      /\ (focused # None => focused \in Ids)
  BY FocusedOnStack
<1>3. id \in Ids /\ Good(Win(id)) /\ Win(id).id = id /\ Win(id).visible
  <2>1. PICK i \in DOMAIN windows : windows[i].visible /\ windows[i].id = id
    BY <1>1 DEF UnderPointer, Visible
  <2>2. id \in Ids
    BY <2>1 DEF Ids
  <2>3. Index(id) = i
    BY <2>1, <2>2, <1>2, IndexIs DEF Stack
  <2> QED BY <2>1, <2>2, <2>3, WinGood DEF Win
<1>4. pressed = None
  BY <1>1 DEF WindowInv, CaptureSound
<1>5. /\ Stack(windows') /\ Len(windows') = Len(windows) /\ IdsOf(windows') = Ids
      /\ OnTop(windows', id)
  BY <1>1, <1>2, <1>3, RaisedIs
<1>6. Ids' = Ids
  BY <1>5 DEF Ids, IdsOf
<1>7. /\ tail \in Seq(ClickEvent)
      /\ \A kind : To(tail, kind) \subseteq {id}
      /\ \A kind \in {"FocusGained", "FocusLost", "MouseUp"} : To(tail, kind) = {}
      /\ To(tail, "MouseDown") = IF zone = "content" THEN {id} ELSE {}
  <2> DEFINE c == Event(id, "CloseRequested")
             d == Event(id, "MouseDown")
  <2>1. /\ c.id = id /\ c.kind = "CloseRequested" /\ d.id = id /\ d.kind = "MouseDown"
        /\ c \in ClickEvent /\ d \in ClickEvent
    BY <1>2, <1>3 DEF Event, ClickEvent
  <2>2. tail = IF zone = "close" THEN <<c>> ELSE IF zone = "content" THEN <<d>> ELSE << >>
    BY DEF Zone
  <2> HIDE DEF tail, c, d
  <2>3. CASE zone = "close"
    <3>1. tail = <<c>> /\ <<c>> \in Seq(ClickEvent)
      BY <2>1, <2>2, <2>3
    <3>2. \A kind : To(<<c>>, kind) = IF c.kind = kind THEN {c.id} ELSE {}
      BY ToOne
    <3> QED BY <3>1, <3>2, <2>1, <2>3
  <2>4. CASE zone = "content"
    <3>1. tail = <<d>> /\ <<d>> \in Seq(ClickEvent)
      BY <2>1, <2>2, <2>4
    <3>2. \A kind : To(<<d>>, kind) = IF d.kind = kind THEN {d.id} ELSE {}
      BY ToOne
    <3> QED BY <3>1, <3>2, <2>1, <2>4
  <2>5. CASE zone # "close" /\ zone # "content"
    BY <2>2, <2>5, ToNone
  <2> QED BY <2>3, <2>4, <2>5
<1> HIDE DEF tail, fe
<1>8. /\ fe \in Seq(ClickEvent)
      /\ \A kind : To(fe, kind) \subseteq {id, focused} \ {None}
      /\ To(fe, "FocusGained") = IF focused = id THEN {} ELSE {id}
      /\ To(fe, "FocusLost") = {focused} \ {None, id}
      /\ \A kind \in {"MouseDown", "MouseUp", "CloseRequested"} : To(fe, kind) = {}
  BY <1>3, FocusEventsTo DEF fe
<1>9. \A kind : To(fe \o tail, kind) = To(fe, kind) \cup To(tail, kind)
  BY <1>7, <1>8, ToConcat
<1> DEFINE ev == fe \o tail
<1>10. /\ \A kind : To(ev, kind) \subseteq {id, focused} \ {None}
       /\ To(ev, "FocusGained") = IF focused = id THEN {} ELSE {id}
       /\ To(ev, "FocusLost") = {focused} \ {None, id}
       /\ To(ev, "MouseUp") = {}
       /\ To(ev, "MouseDown") = IF zone = "content" THEN {id} ELSE {}
  <2>1. ASSUME NEW kind PROVE To(ev, kind) \subseteq {id, focused} \ {None}
    BY <1>2, <1>3, <1>7, <1>8, <1>9
  <2> QED BY <2>1, <1>7, <1>8, <1>9
<1>11. Emit(ev)
  BY <1>1
<1> HIDE DEF ev
<1>12. FocusTold' /\ OutSound
  BY <1>1, <1>3, <1>6, <1>10, <1>11, FocusTaken
<1>13. zone = "content" => down' = id
  BY <1>10, <1>11, EmitIs
<1>14. TypeOK'
  <2>1. grab' \in [kind : {"none", "move", "resize"}, id : Id \cup {None}]
    BY <1>1, <1>2, <1>3 DEF Released
  <2>2. pressed' \in Id \cup {None}
    BY <1>1, <1>2, <1>3, <1>4
  <2>3. Len(windows') <= MaxWindows
    BY <1>5 DEF WindowInv, CaptureSound, TypeOK
  <2> QED BY <1>1, <1>2, <1>3, <1>5, <2>1, <2>2, <2>3 DEF TypeOK, Stack, Good
<1>15. CaptureSound'
  <2>1. zone # "content" => pressed' = None
    BY <1>1, <1>4
  <2>2. zone = "content" => grab' = Released
    BY <1>1
  <2>3. grab' # Released => grab'.id = id
    BY <1>1
  <2>4. pressed' # None => pressed' = id
    BY <1>1, <1>4
  <2> QED BY <1>1, <1>3, <1>6, <1>14, <2>1, <2>2, <2>3, <2>4 DEF CaptureSound
<1> QED BY <1>1, <1>4, <1>5, <1>12, <1>13, <1>15 DEF WindowInv

(* A packet that takes no window anywhere. *)
LEMMA MoveReleaseKept ==
  ASSUME WindowInv, PointerRelease \/ \E left \in BOOLEAN : PointerMove(left)
  PROVE  WindowInv' /\ OutSound
<1>1. UNCHANGED <<windows, focused>> /\ Ids' = Ids
  BY DEF PointerRelease, PointerMove, Ids
<1>2. /\ None \notin Ids /\ told = {focused} \ {None} /\ (focused # None => focused \in Ids)
      /\ Ids \subseteq Id
  BY FocusedOnStack
<1>3. CASE PointerRelease
  <2>1. /\ leftDown' = FALSE /\ grab' = Released /\ pressed # None /\ pressed' = None
    BY <1>3 DEF PointerRelease, TakePressed
  <2>2. pressed \in Ids /\ down = pressed
    BY <2>1 DEF WindowInv, CaptureSound
  <2> DEFINE e == Event(pressed, "MouseUp")
  <2>3. Emit(<<e>>) /\ e.id = pressed /\ e.kind = "MouseUp"
    BY <1>3, <2>2 DEF PointerRelease, Event
  <2> HIDE DEF e
  <2>4. \A kind : To(<<e>>, kind) = IF kind = "MouseUp" THEN {pressed} ELSE {}
    BY <2>3, ToOne
  <2>5. out' = <<e>> /\ told' = told \cap Ids'
    BY <2>3, <2>4, EmitIs
  <2>6. OutSound
    BY <2>2, <2>4, <2>5, <1>1, OutSoundIs
  <2>7. told' = told
    BY <2>5, <1>1, <1>2
  <2>8. CaptureSound'
    BY <1>1, <2>1 DEF WindowInv, CaptureSound, TypeOK, Released
  <2> QED BY <1>1, <2>1, <2>6, <2>7, <2>8 DEF WindowInv, FocusTold
<1>4. ASSUME NEW left \in BOOLEAN, PointerMove(left)
      PROVE  WindowInv' /\ OutSound
  <2>1. /\ ~left /\ leftDown => pressed = None
        /\ grab' = IF left THEN grab ELSE Released
        /\ leftDown' = left /\ pressed' = pressed
    BY <1>4 DEF PointerMove
  <2>2. PICK ev : Emit(ev) /\ Quiet(ev) /\ \A kind : To(ev, kind) \subseteq Ids
    <3>1. CASE Emit(<< >>)
      BY <3>1, ToNone
    <3>2. ASSUME NEW id \in UnderPointer, Emit(<<Event(id, "MouseMove")>>)
          PROVE  \E ev : Emit(ev) /\ Quiet(ev) /\ \A kind : To(ev, kind) \subseteq Ids
      <4> DEFINE e == Event(id, "MouseMove")
      <4>1. e.id = id /\ e.kind = "MouseMove" /\ id \in Ids
        BY DEF Event, UnderPointer, Visible, Ids
      <4> HIDE DEF e
      <4>2. Quiet(<<e>>) /\ \A kind : To(<<e>>, kind) \subseteq Ids
        BY <4>1, OneQuiet
      <4> QED BY <4>2, <3>2 DEF e
    <3> QED BY <1>4, <3>1, <3>2 DEF PointerMove
  <2>3. out' = ev /\ told' = told \cap Ids' /\ down' = down
    BY <2>2, EmitIs DEF Quiet
  <2>4. told' = told
    BY <2>3, <1>1, <1>2
  <2>5. OutSound
    BY <2>2, <2>3, <1>1, OutSoundIs DEF Quiet
  <2>6. TypeOK'
    BY <1>1, <2>1 DEF WindowInv, CaptureSound, TypeOK, Released
  <2>7. CaptureSound'
    BY <1>1, <2>1, <2>6 DEF WindowInv, CaptureSound, TypeOK
  <2> QED BY <1>1, <2>1, <2>3, <2>4, <2>5, <2>7 DEF WindowInv, FocusTold
<1> QED BY <1>3, <1>4

LEMMA NextKept ==
  ASSUME WindowInv, Next
  PROVE  WindowInv' /\ OutSound
<1>1. CASE Command
  <2>1. ASSUME NEW id \in Id, NEW size \in Sizes, Create(id, size) \/ SetSize(id, size)
        PROVE  WindowInv' /\ OutSound
    BY <2>1, CreateKept, SetSizeKept
  <2>2. ASSUME NEW id \in Id, \/ Destroy(id) \/ Show(id) \/ Hide(id)
                              \/ SetPosition(id) \/ Invalidate(id)
                              \/ SetUpdating(id, TRUE) \/ SetUpdating(id, FALSE)
        PROVE  WindowInv' /\ OutSound
    BY <2>2, DestroyKept, ShowKept, HideKept, AnswerKept, SetUpdatingKept
  <2>3. ASSUME NEW id \in Id, NEW size \in Sizes, NEW color \in Color,
               NEW at \in 0 .. size - 1, NEW count \in 1 .. size - at,
               Fill(id, at, count, color)
        PROVE  WindowInv' /\ OutSound
    <3>1. size \in Nat /\ at \in Nat /\ count \in Nat
      BY WindowAssumption
    <3> QED BY <2>3, <3>1, FillKept
  <2> QED BY <1>1, <2>1, <2>2, <2>3 DEF Command
<1>2. CASE Pointer
  BY <1>2, DragKept, MoveReleaseKept, PressKept DEF Pointer
<1>3. CASE Key
  BY <1>3, KeyKept
<1> QED BY <1>1, <1>2, <1>3 DEF Next

LEMMA WindowInitially == Init => WindowInv
<1> SUFFICES ASSUME Init PROVE WindowInv
  OBVIOUS
<1>1. windows = << >> /\ focused = None /\ grab = Released /\ pressed = None
      /\ leftDown = FALSE /\ told = {}
  BY DEF Init
<1>2. TypeOK
  <2>1. windows \in Seq(Window) /\ Len(windows) = 0 /\ DOMAIN windows = {}
    BY <1>1
  <2>2. grab \in [kind : {"none", "move", "resize"}, id : Id \cup {None}]
    BY <1>1 DEF Released
  <2>3. Len(windows) <= MaxWindows
    BY <2>1, WindowAssumption
  <2> QED BY <1>1, <2>1, <2>2, <2>3 DEF TypeOK
<1>3. CaptureSound
  BY <1>1, <1>2 DEF CaptureSound
<1> QED BY <1>1, <1>3 DEF WindowInv, FocusTold

LEMMA WindowInvStep == WindowInv /\ [Next]_vars => WindowInv' /\ [OutSound]_vars
<1>1. ASSUME WindowInv, UNCHANGED vars PROVE WindowInv' /\ [OutSound]_vars
  BY <1>1 DEF vars, WindowInv, CaptureSound, TypeOK, Ids, FocusTold
<1>2. ASSUME WindowInv, Next PROVE WindowInv' /\ [OutSound]_vars
  BY <1>2, NextKept
<1> QED BY <1>1, <1>2

LEMMA WindowInvHolds == Spec => []WindowInv
<1>1. WindowInv /\ [Next]_vars => WindowInv'
  BY WindowInvStep
<1> QED BY WindowInitially, <1>1, PTL DEF Spec

(* However windows are created, shown, hidden, clicked and destroyed by    *)
(* any number of clients, the focus of the window server is on the topmost *)
(* visible window, and that window alone was told so (focus, WS, WH, WD    *)
(* and pointer of window_server.rs).                                       *)
THEOREM FocusIsSound == Spec => []FocusSound
<1>1. WindowInv => FocusSound
  <2> SUFFICES ASSUME WindowInv PROVE FocusSound
    OBVIOUS
  <2>1. Stack(windows)
    BY FocusedOnStack
  <2> QED BY <2>1, TopmostIs DEF WindowInv, FocusSound, FocusOnTop
<1> QED BY <1>1, WindowInvHolds, PTL

(* The pointer is never captured by a window that is gone, nor once the    *)
(* button is up, for any number of windows.                                *)
THEOREM CaptureIsSound == Spec => []CaptureSound
<1>1. WindowInv => CaptureSound
  BY DEF WindowInv
<1> QED BY <1>1, WindowInvHolds, PTL

(* Every event goes to a window on the stack, and a MouseUp only to the    *)
(* window that was told the last MouseDown.                                *)
THEOREM EventsAreSound == Spec => EventsSound
<1>1. WindowInv /\ [Next]_vars => [OutSound]_vars
  BY WindowInvStep
<1>2. [][OutSound]_vars => EventsSound
  BY DEF EventsSound, OutSound
<1> QED BY <1>1, <1>2, WindowInvHolds, PTL DEF Spec
=============================================================================
