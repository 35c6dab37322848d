--------------------------- MODULE DesktopProofs ---------------------------
(***************************************************************************)
(* Proofs about the built-in desktop, for every set of windows and rows,   *)
(* view, limit of text and number of windows.  What the operations do to   *)
(* the stack of windows is first said by id: which windows there are and   *)
(* what each of them is, wherever it stands (Sets, Drops, Adds).  The      *)
(* inductive invariant DeskInv then speaks of windows by id only.          *)
(***************************************************************************)
EXTENDS Desktop, WellFoundedInduction, TLAPS

(* Steps are tried with Zenon first, which is the faster where no          *)
(* arithmetic is needed, then with SMT, then with Zenon for longer.        *)
USE ZenonT(3), SMTT(30), ZenonT(30), Z3T(30)

-----------------------------------------------------------------------------
(* The stack of windows. *)

Stack(ws) == ws \in Seq(Window) /\ Distinct(ws)

(* A stack holds one window for each of its ids. *)
LEMMA StackIs ==
  ASSUME NEW ws, Stack(ws)
  PROVE  /\ Len(ws) \in Nat /\ DOMAIN ws = 1 .. Len(ws)
         /\ \A i \in 1 .. Len(ws) : ws[i] \in Window /\ ws[i].id \in Ids(ws) /\ Place(ws, ws[i].id) = i
         /\ \A id \in Ids(ws) : Place(ws, id) \in 1 .. Len(ws) /\ ws[Place(ws, id)].id = id
<1>1. /\ Len(ws) \in Nat /\ DOMAIN ws = 1 .. Len(ws)
      /\ \A i \in 1 .. Len(ws) : ws[i] \in Window /\ ws[i].id \in Ids(ws)
  BY DEF Stack, Ids
<1>2. ASSUME NEW id \in Ids(ws) PROVE Place(ws, id) \in 1 .. Len(ws) /\ ws[Place(ws, id)].id = id
  <2>1. \E i \in DOMAIN ws : ws[i].id = id
    BY DEF Ids
  <2> QED BY <1>1, <2>1 DEF Place
<1>3. ASSUME NEW i \in 1 .. Len(ws) PROVE Place(ws, ws[i].id) = i
  BY <1>1, <1>2 DEF Stack, Distinct
<1> QED BY <1>1, <1>2, <1>3

(* That window is one of the stack, and has the id. *)
LEMMA WinIs ==
  ASSUME NEW ws, Stack(ws), NEW id \in Ids(ws)
  PROVE  Win(ws, id) \in Window /\ Win(ws, id).id = id
  BY StackIs DEF Win

(* A stack is known when its windows are known by id. *)
LEMMA WinFrom ==
  ASSUME NEW ws, Stack(ws), NEW i \in 1 .. Len(ws)
  PROVE  ws[i].id \in Ids(ws) /\ Win(ws, ws[i].id) = ws[i]
  BY StackIs DEF Win

(* The window v takes the place of the one with its id, or goes on top. *)
Sets(ws, new, v) ==
  /\ Stack(new) /\ Len(new) = Len(ws) /\ Ids(new) = Ids(ws) /\ Win(new, v.id) = v
  /\ \A id \in Ids(ws) : id # v.id => Win(new, id) = Win(ws, id)

(* The window id goes. *)
Drops(ws, new, id) ==
  /\ Stack(new) /\ Len(new) = Len(ws) - 1 /\ Ids(new) = Ids(ws) \ {id}
  /\ \A x \in Ids(new) : Win(new, x) = Win(ws, x)

(* The window v comes. *)
Adds(ws, new, v) ==
  /\ Stack(new) /\ Len(new) = Len(ws) + 1 /\ Ids(new) = Ids(ws) \cup {v.id} /\ Win(new, v.id) = v
  /\ \A id \in Ids(ws) : Win(new, id) = Win(ws, id)

(* Without takes one window out and moves those above it down. *)
LEMMA WithoutDrops ==
  ASSUME NEW ws, Stack(ws), NEW id \in Ids(ws)
  PROVE  Drops(ws, Without(ws, id), id)
<1>1. /\ Len(ws) \in Nat /\ DOMAIN ws = 1 .. Len(ws)
      /\ \A i \in 1 .. Len(ws) : ws[i] \in Window /\ ws[i].id \in Ids(ws) /\ Place(ws, ws[i].id) = i
      /\ \A x \in Ids(ws) : Place(ws, x) \in 1 .. Len(ws) /\ ws[Place(ws, x)].id = x
  BY StackIs
<1>2. PICK p \in 1 .. Len(ws) : p = Place(ws, id) /\ ws[p].id = id
  BY <1>1
<1>3. PICK new : new = Without(ws, id)
  OBVIOUS
<1>4. new = [k \in 1 .. Len(ws) - 1 |-> ws[IF k < p THEN k ELSE k + 1]]
  BY <1>2, <1>3 DEF Without
<1>5. Len(ws) - 1 \in Nat /\ \A k \in 1 .. Len(ws) - 1 : (IF k < p THEN k ELSE k + 1) \in 1 .. Len(ws)
  BY <1>1, <1>2
<1>6. new \in Seq(Window) /\ Len(new) = Len(ws) - 1 /\ DOMAIN new = 1 .. Len(ws) - 1
  BY <1>1, <1>4, <1>5
<1>7. /\ \A k \in 1 .. Len(ws) - 1 : k < p => new[k] = ws[k] /\ k \in 1 .. Len(ws)
      /\ \A k \in 1 .. Len(ws) - 1 : ~(k < p) => new[k] = ws[k + 1] /\ k + 1 \in 1 .. Len(ws)
  BY <1>1, <1>4
<1>8. Distinct(new)
  <2> SUFFICES ASSUME NEW i \in 1 .. Len(ws) - 1, NEW j \in 1 .. Len(ws) - 1, new[i].id = new[j].id
               PROVE  i = j
    BY <1>6 DEF Distinct
  <2>1. \A a, b \in 1 .. Len(ws) : ws[a].id = ws[b].id => a = b
    BY <1>1
  <2>2. PICK a \in 1 .. Len(ws) : a = (IF i < p THEN i ELSE i + 1) /\ new[i] = ws[a]
    BY <1>4, <1>5
  <2>3. PICK b \in 1 .. Len(ws) : b = (IF j < p THEN j ELSE j + 1) /\ new[j] = ws[b]
    BY <1>4, <1>5
  <2>4. a = b
    BY <2>1, <2>2, <2>3
  <2> QED BY <1>1, <1>2, <2>2, <2>3, <2>4
<1>9. Stack(new)
  BY <1>6, <1>8 DEF Stack
<1>10. ASSUME NEW k \in 1 .. Len(ws) - 1
       PROVE  new[k].id \in Ids(ws) \ {id} /\ Win(ws, new[k].id) = new[k]
  <2>1. PICK a \in 1 .. Len(ws) : a = (IF k < p THEN k ELSE k + 1) /\ new[k] = ws[a]
    BY <1>4, <1>5
  <2>2. a # p
    BY <1>1, <1>2, <2>1
  <2>3. ws[a].id # id
    BY <1>1, <1>2, <2>1, <2>2
  <2> QED BY <1>1, <2>1, <2>3 DEF Win
<1>11. ASSUME NEW x \in Ids(ws), x # id
       PROVE  \E k \in 1 .. Len(ws) - 1 : new[k].id = x
  <2>1. PICK a \in 1 .. Len(ws) : a = Place(ws, x) /\ ws[a].id = x
    BY <1>1
  <2>2. a # p
    BY <1>2, <1>11, <2>1
  <2>3. CASE a < p
    BY <1>1, <1>2, <1>7, <2>1, <2>3
  <2>4. CASE a > p
    <3>1. a - 1 \in 1 .. Len(ws) - 1 /\ ~(a - 1 < p) /\ (a - 1) + 1 = a
      BY <1>1, <1>2, <2>1, <2>4
    <3> QED BY <1>7, <2>1, <3>1
  <2> QED BY <1>1, <1>2, <2>1, <2>2, <2>3, <2>4
<1>12. Ids(new) = Ids(ws) \ {id}
  <2>1. ASSUME NEW x \in Ids(new) PROVE x \in Ids(ws) \ {id}
    <3>1. PICK k \in 1 .. Len(ws) - 1 : new[k].id = x
      BY <1>6 DEF Ids
    <3> QED BY <1>10, <3>1
  <2>2. ASSUME NEW x \in Ids(ws), x # id PROVE x \in Ids(new)
    <3>1. PICK k \in 1 .. Len(ws) - 1 : new[k].id = x
      BY <1>11, <2>2
    <3> QED BY <1>6, <3>1 DEF Ids
  <2> QED BY <2>1, <2>2
<1>13. ASSUME NEW x \in Ids(new) PROVE Win(new, x) = Win(ws, x)
  <2>1. PICK k \in 1 .. Len(ws) - 1 : new[k].id = x
    BY <1>6 DEF Ids
  <2>2. Win(new, x) = new[k]
    BY <1>6, <1>9, <2>1, WinFrom
  <2> QED BY <1>10, <2>1, <2>2
<1> QED BY <1>3, <1>6, <1>9, <1>12, <1>13 DEF Drops

(* Append puts a window on top. *)
LEMMA AppendAdds ==
  ASSUME NEW ws, Stack(ws), NEW v \in Window, v.id \notin Ids(ws)
  PROVE  Adds(ws, Append(ws, v), v)
<1>1. /\ Len(ws) \in Nat /\ DOMAIN ws = 1 .. Len(ws) /\ ws \in Seq(Window)
      /\ \A i \in 1 .. Len(ws) : ws[i] \in Window /\ ws[i].id \in Ids(ws) /\ Place(ws, ws[i].id) = i
      /\ \A x \in Ids(ws) : Place(ws, x) \in 1 .. Len(ws) /\ ws[Place(ws, x)].id = x
  BY StackIs DEF Stack
<1>2. PICK new : new = Append(ws, v)
  OBVIOUS
<1>3. /\ new \in Seq(Window) /\ Len(new) = Len(ws) + 1 /\ DOMAIN new = 1 .. Len(ws) + 1
      /\ new[Len(ws) + 1] = v /\ \A i \in 1 .. Len(ws) : new[i] = ws[i]
  BY <1>1, <1>2
<1>4. \A i \in 1 .. Len(ws) + 1 : i \in 1 .. Len(ws) \/ i = Len(ws) + 1
  BY <1>1
<1>5. Distinct(new)
  BY <1>1, <1>3, <1>4 DEF Distinct
<1>6. Stack(new)
  BY <1>3, <1>5 DEF Stack
<1>7. Ids(new) = Ids(ws) \cup {v.id}
  <2>1. 1 .. Len(ws) \subseteq 1 .. Len(ws) + 1 /\ Len(ws) + 1 \in 1 .. Len(ws) + 1
    BY <1>1
  <2> QED BY <1>1, <1>3, <1>4, <2>1 DEF Ids
<1>8. ASSUME NEW x \in Ids(ws) PROVE Win(new, x) = Win(ws, x)
  <2>1. PICK k \in 1 .. Len(ws) : k = Place(ws, x) /\ ws[k].id = x
    BY <1>1
  <2>2. new[k] = ws[k] /\ k \in 1 .. Len(new)
    BY <1>1, <1>3, <2>1
  <2>3. Win(new, x) = new[k]
    BY <1>6, <2>1, <2>2, WinFrom
  <2> QED BY <2>1, <2>2, <2>3 DEF Win
<1>9. Win(new, v.id) = v
  <2>1. Len(ws) + 1 \in 1 .. Len(new)
    BY <1>1, <1>3
  <2> QED BY <1>3, <1>6, <2>1, WinFrom
<1> QED BY <1>2, <1>3, <1>6, <1>7, <1>8, <1>9 DEF Adds

(* To take a window out and put it back on top is to set it. *)
LEMMA RaiseSets ==
  ASSUME NEW ws, Stack(ws), NEW v \in Window, v.id \in Ids(ws)
  PROVE  Sets(ws, Append(Without(ws, v.id), v), v)
<1>1. PICK rest : rest = Without(ws, v.id)
  OBVIOUS
<1>2. Drops(ws, rest, v.id)
  BY <1>1, WithoutDrops
<1>3. Adds(rest, Append(rest, v), v)
  BY <1>2, AppendAdds DEF Drops
<1>4. Len(ws) \in Nat
  BY StackIs
<1>5. Len(Append(rest, v)) = Len(ws)
  BY <1>2, <1>3, <1>4 DEF Drops, Adds
<1> QED BY <1>1, <1>2, <1>3, <1>5 DEF Drops, Adds, Sets

(* And so is Update. *)
LEMMA UpdateSets ==
  ASSUME NEW ws, Stack(ws), NEW v \in Window, v.id \in Ids(ws)
  PROVE  Sets(ws, Update(ws, v), v)
<1>1. /\ Len(ws) \in Nat /\ DOMAIN ws = 1 .. Len(ws) /\ ws \in Seq(Window)
      /\ \A i \in 1 .. Len(ws) : ws[i] \in Window /\ ws[i].id \in Ids(ws) /\ Place(ws, ws[i].id) = i
      /\ \A x \in Ids(ws) : Place(ws, x) \in 1 .. Len(ws) /\ ws[Place(ws, x)].id = x
  BY StackIs DEF Stack
<1>2. PICK new : new = Update(ws, v)
  OBVIOUS
<1>3. new = [i \in 1 .. Len(ws) |-> IF ws[i].id = v.id THEN v ELSE ws[i]]
  BY <1>1, <1>2 DEF Update
<1>4. new \in Seq(Window) /\ Len(new) = Len(ws) /\ DOMAIN new = 1 .. Len(ws)
  BY <1>1, <1>3
<1>5. \A i \in 1 .. Len(ws) : new[i] = (IF ws[i].id = v.id THEN v ELSE ws[i]) /\ new[i].id = ws[i].id
  BY <1>3
<1>6. Stack(new)
  BY <1>1, <1>4, <1>5 DEF Stack, Distinct
<1>7. Ids(new) = Ids(ws)
  BY <1>1, <1>4, <1>5 DEF Ids
<1>8. ASSUME NEW x \in Ids(ws) PROVE Win(new, x) = IF x = v.id THEN v ELSE Win(ws, x)
  <2>1. PICK k \in 1 .. Len(ws) : k = Place(ws, x) /\ ws[k].id = x
    BY <1>1
  <2>2. Win(new, x) = new[k]
    BY <1>4, <1>5, <1>6, <2>1, WinFrom
  <2> QED BY <1>5, <2>1, <2>2 DEF Win
<1> QED BY <1>2, <1>4, <1>6, <1>7, <1>8 DEF Sets

-----------------------------------------------------------------------------
(* Least and greatest, for the rows of a window. *)

(* A set of numbers has a least one. *)
LEMMA LeastOf ==
  ASSUME NEW T, T \subseteq Nat, T # {}
  PROVE  \E x \in T : \A y \in T : x <= y
<1> DEFINE R == OpToRel(<, Nat)
<1>1. IsWellFoundedOn(R, Nat)
  BY NatLessThanWellFounded
<1> HIDE DEF R
<1>2. PICK x \in T : \A y \in T : <<y, x>> \notin R
  BY <1>1, WFMin
<1>3. R = {ss \in Nat \X Nat : ss[1] < ss[2]}
  BY DEF R, OpToRel
<1>4. ASSUME NEW y \in T PROVE x <= y
  <2>1. x \in Nat /\ y \in Nat
    OBVIOUS
  <2>2. y < x => <<y, x>> \in R
    BY <2>1, <1>3
  <2> QED BY <2>1, <2>2, <1>2
<1> QED BY <1>4

(* And a greatest one, if it is bounded. *)
LEMMA GreatestOf ==
  ASSUME NEW b \in Nat, NEW T, T \subseteq 0 .. b, T # {}
  PROVE  \E x \in T : \A y \in T : y <= x
<1>1. PICK U : U = {b - x : x \in T}
  OBVIOUS
<1>2. U \subseteq Nat /\ U # {}
  <2>1. ASSUME NEW u \in U PROVE u \in Nat
    <3>1. PICK x \in T : u = b - x
      BY <1>1
    <3>2. x \in 0 .. b
      OBVIOUS
    <3> QED BY <3>1, <3>2
  <2>2. PICK x : x \in T
    OBVIOUS
  <2>3. b - x \in U
    BY <1>1, <2>2
  <2> QED BY <2>1, <2>3
<1>3. PICK u \in U : \A y \in U : u <= y
  BY <1>2, LeastOf
<1>4. PICK x \in T : u = b - x
  BY <1>1, <1>3
<1>5. ASSUME NEW y \in T PROVE y <= x
  <2>1. b - y \in U
    BY <1>1
  <2>2. b - x <= b - y
    BY <1>3, <1>4, <2>1
  <2>3. x \in 0 .. b /\ y \in 0 .. b
    OBVIOUS
  <2> QED BY <2>2, <2>3
<1> QED BY <1>5

(* Induction over a set of numbers. *)
LEMMA SetInduction ==
  ASSUME NEW P, 0 \in P, \A n \in Nat : n \in P => n + 1 \in P
  PROVE  Nat \subseteq P
<1> SUFFICES ASSUME NEW m \in Nat, m \notin P PROVE FALSE
  OBVIOUS
<1>1. PICK x \in Nat \ P : \A y \in Nat \ P : x <= y
  <2>1. Nat \ P \subseteq Nat /\ Nat \ P # {}
    OBVIOUS
  <2> QED BY <2>1, LeastOf
<1>2. x # 0 /\ x - 1 \in Nat
  BY <1>1
<1>3. x - 1 \in P
  BY <1>1, <1>2
<1> QED BY <1>1, <1>2, <1>3

(* The values of a list, and zero, have a greatest one. *)
HasMost(n) ==
  \A f \in [1 .. n -> Int] : \E m \in {f[i] : i \in 1 .. n} \cup {0} :
    \A x \in {f[i] : i \in 1 .. n} \cup {0} : x <= m

(* So it is for every length. *)
LEMMA Most ==
  ASSUME NEW n \in Nat
  PROVE  HasMost(n)
<1>1. PICK P : P = {k \in Nat : HasMost(k)}
  OBVIOUS
<1>2. 0 \in P
  <2>1. ASSUME NEW f \in [1 .. 0 -> Int]
        PROVE  {f[i] : i \in 1 .. 0} \cup {0} = {0}
    OBVIOUS
  <2>2. HasMost(0)
    BY <2>1 DEF HasMost
  <2> QED BY <1>1, <2>2
<1>3. ASSUME NEW k \in Nat, k \in P PROVE k + 1 \in P
  <2>1. HasMost(k)
    BY <1>1, <1>3
  <2>2. ASSUME NEW f \in [1 .. k + 1 -> Int]
        PROVE  \E m \in {f[i] : i \in 1 .. k + 1} \cup {0} :
                 \A x \in {f[i] : i \in 1 .. k + 1} \cup {0} : x <= m
    <3>1. PICK g : g = [i \in 1 .. k |-> f[i]]
      OBVIOUS
    <3>2. g \in [1 .. k -> Int] /\ \A i \in 1 .. k : g[i] = f[i] /\ i \in 1 .. k + 1
      BY <3>1
    <3>3. PICK m \in {g[i] : i \in 1 .. k} \cup {0} : \A x \in {g[i] : i \in 1 .. k} \cup {0} : x <= m
      BY <2>1, <3>2 DEF HasMost
    <3>4. k + 1 \in 1 .. k + 1 /\ f[k + 1] \in Int /\ \A i \in 1 .. k + 1 : i \in 1 .. k \/ i = k + 1
      OBVIOUS
    <3>5. m \in {f[i] : i \in 1 .. k + 1} \cup {0} /\ m \in Int
      BY <3>2, <3>3
    <3>6. \A x \in {f[i] : i \in 1 .. k + 1} \cup {0} : x \in Int /\ (x <= m \/ x = f[k + 1])
      BY <3>2, <3>3, <3>4
    <3>7. CASE f[k + 1] <= m
      BY <3>5, <3>6, <3>7
    <3>8. CASE m < f[k + 1]
      <4>1. f[k + 1] \in {f[i] : i \in 1 .. k + 1} \cup {0}
        BY <3>4
      <4>2. \A x \in {f[i] : i \in 1 .. k + 1} \cup {0} : x <= f[k + 1]
        <5>1. PICK y \in Int : y = f[k + 1]
          BY <3>4
        <5>2. ASSUME NEW x \in {f[i] : i \in 1 .. k + 1} \cup {0} PROVE x <= y
          <6>1. x \in Int /\ (x <= m \/ x = y)
            BY <3>6, <5>1
          <6>2. m \in Int /\ m < y
            BY <3>5, <3>8, <5>1
          <6> QED BY <6>1, <6>2
        <5> QED BY <5>1, <5>2
      <4> QED BY <4>1, <4>2
    <3> QED BY <3>4, <3>5, <3>7, <3>8
  <2>3. HasMost(k + 1)
    BY <2>2 DEF HasMost
  <2> QED BY <1>1, <2>3
<1>4. Nat \subseteq P
  BY <1>2, <1>3, SetInduction
<1> QED BY <1>1, <1>4

(* The rows of a window have lines. *)
LEMMA RowsAre ==
  ASSUME NEW w \in Window
  PROVE  /\ w.rows \in Seq(Rows) /\ Len(w.rows) \in Nat /\ DOMAIN w.rows = 1 .. Len(w.rows)
         /\ w.view \in Nat \ {0} /\ w.scroll \in Int /\ w.restore \in Nat /\ w.id \in Names
         /\ \A i \in 1 .. Len(w.rows) : w.rows[i].line \in Nat
<1>1. /\ w.rows \in Seq(Rows) /\ w.view \in Nat \ {0} /\ w.scroll \in Int /\ w.restore \in Nat
      /\ w.id \in Names
  BY DEF Window
<1>2. \A i \in 1 .. Len(w.rows) : w.rows[i] \in Rows
  BY <1>1
<1> QED BY <1>1, <1>2, DesktopAssumption

(* MaxScroll is at least what any row needs to be in view. *)
LEMMA MaxScrollIs ==
  ASSUME NEW w \in Window
  PROVE  /\ MaxScroll(w) \in Nat
         /\ Scrollable(w) => \A i \in DOMAIN w.rows : w.rows[i].line - w.view <= MaxScroll(w)
<1>1. /\ w.rows \in Seq(Rows) /\ Len(w.rows) \in Nat /\ DOMAIN w.rows = 1 .. Len(w.rows)
      /\ w.view \in Nat \ {0} /\ \A i \in 1 .. Len(w.rows) : w.rows[i].line \in Nat
  BY RowsAre
<1>2. PICK n \in Nat : n = Len(w.rows)
  BY <1>1
<1>3. PICK f : f = [i \in 1 .. n |-> w.rows[i].line - w.view]
  OBVIOUS
<1>4. f \in [1 .. n -> Int] /\ \A i \in 1 .. n : f[i] = w.rows[i].line - w.view
  BY <1>1, <1>2, <1>3
<1>5. PICK below : below = {w.rows[i].line - w.view : i \in DOMAIN w.rows} \cup {0}
  OBVIOUS
<1>6. below = {f[i] : i \in 1 .. n} \cup {0}
  BY <1>1, <1>2, <1>4, <1>5
<1>7. \E m \in below : \A x \in below : x <= m
  BY <1>4, <1>6, Most DEF HasMost
<1>8. CASE Scrollable(w)
  <2>1. MaxScroll(w) = CHOOSE m \in below : \A x \in below : x <= m
    BY <1>5, <1>8 DEF MaxScroll
  <2>2. MaxScroll(w) \in below /\ \A x \in below : x <= MaxScroll(w)
    BY <1>7, <2>1
  <2>3. 0 \in below /\ below \subseteq Int /\ \A i \in DOMAIN w.rows : w.rows[i].line - w.view \in below
    BY <1>1, <1>5
  <2>4. PICK m : m = MaxScroll(w)
    OBVIOUS
  <2>5. m \in Int /\ 0 <= m /\ \A i \in DOMAIN w.rows : w.rows[i].line - w.view <= m
    BY <2>2, <2>3, <2>4
  <2> QED BY <2>4, <2>5
<1>9. CASE ~Scrollable(w)
  BY <1>9 DEF MaxScroll
<1> QED BY <1>8, <1>9

(* MaxScroll does not depend on where the window is scrolled to. *)
LEMMA ScrollTo ==
  ASSUME NEW w \in Window, NEW s \in Int
  PROVE  /\ [w EXCEPT !.scroll = s] \in Window /\ [w EXCEPT !.scroll = s].scroll = s
         /\ MaxScroll([w EXCEPT !.scroll = s]) = MaxScroll(w)
         /\ [w EXCEPT !.scroll = s].id = w.id /\ [w EXCEPT !.scroll = s].rows = w.rows
         /\ [w EXCEPT !.scroll = s].role = w.role /\ [w EXCEPT !.scroll = s].view = w.view
         /\ [w EXCEPT !.scroll = s].minimized = w.minimized
         /\ [w EXCEPT !.scroll = s].maximized = w.maximized
         /\ [w EXCEPT !.scroll = s].native = w.native /\ [w EXCEPT !.scroll = s].restore = w.restore
<1>1. PICK v : v = [w EXCEPT !.scroll = s]
  OBVIOUS
<1>2. /\ v \in Window /\ v.scroll = s /\ v.id = w.id /\ v.rows = w.rows /\ v.role = w.role
      /\ v.view = w.view /\ v.minimized = w.minimized /\ v.maximized = w.maximized
      /\ v.native = w.native /\ v.restore = w.restore
  BY <1>1 DEF Window
<1>3. MaxScroll(v) = MaxScroll(w)
  BY <1>2 DEF MaxScroll, Scrollable
<1> QED BY <1>1, <1>2, <1>3

(* clamp_scroll changes the scrolling only, and brings it into its bounds. *)
Clamped(w, v) ==
  /\ v \in Window /\ v.id = w.id /\ v.role = w.role /\ v.rows = w.rows /\ v.view = w.view
  /\ v.native = w.native /\ v.restore = w.restore /\ v.maximized = w.maximized
  /\ v.minimized = w.minimized /\ v.scroll \in 0 .. MaxScroll(v) /\ MaxScroll(v) = MaxScroll(w)
  /\ w.scroll \in 0 .. MaxScroll(w) => v.scroll = w.scroll

(* Whatever the scrolling was. *)
LEMMA ClampIs ==
  ASSUME NEW w \in Window
  PROVE  Clamped(w, Clamp(w))
<1>1. MaxScroll(w) \in Nat /\ w.scroll \in Int
  BY MaxScrollIs, RowsAre
<1>2. PICK s \in Int : s = IF w.scroll < 0 THEN 0 ELSE IF w.scroll > MaxScroll(w) THEN MaxScroll(w) ELSE w.scroll
  BY <1>1
<1>3. Clamp(w) = [w EXCEPT !.scroll = s]
  BY <1>2 DEF Clamp
<1>4. s \in 0 .. MaxScroll(w) /\ (w.scroll \in 0 .. MaxScroll(w) => s = w.scroll)
  BY <1>1, <1>2
<1>5. PICK v : v = [w EXCEPT !.scroll = s]
  OBVIOUS
<1>6. /\ v \in Window /\ v.scroll = s /\ v.id = w.id /\ v.rows = w.rows /\ v.role = w.role
      /\ v.view = w.view /\ v.minimized = w.minimized /\ v.maximized = w.maximized
      /\ v.native = w.native /\ v.restore = w.restore /\ MaxScroll(v) = MaxScroll(w)
  BY <1>5, ScrollTo
<1>7. Clamped(w, v)
  BY <1>4, <1>6 DEF Clamped
<1> QED BY <1>3, <1>5, <1>7

-----------------------------------------------------------------------------
(* The inductive invariant of the desktop. *)

IsDesk(d) ==
  d = [windows |-> d.windows, scope |-> d.scope, focused |-> d.focused, edits |-> d.edits]

(* A window's scrolling is within its bounds; a test window has no field,  *)
(* so that no text is lost when it is closed without a word to the edits.  *)
Sound(w) ==
  /\ w.scroll \in 0 .. MaxScroll(w)
  /\ w.maximized => w.restore # 0
  /\ w.native => \A i \in DOMAIN w.rows : ~Editable(w.rows[i])

Wins(ws) == Stack(ws) /\ Len(ws) <= MaxWindows /\ \A id \in Ids(ws) : Sound(Win(ws, id))

(* The scope s takes a control of the window w. *)
Accepts(s, w) == IF s = Screen THEN w.role \in {"P", "D"} ELSE w.id = s
Takes(ws, s, c) ==
  /\ c[1] \in OnScreen(ws) /\ Accepts(s, Win(ws, c[1])) /\ c[2] \in DOMAIN Win(ws, c[1]).rows
  /\ Win(ws, c[1]).rows[c[2]].focusable /\ ~Win(ws, c[1]).rows[c[2]].disabled
ScopeOn(ws, s) == s = Screen \/ s \in OnScreen(ws)
FocusOK(d) == ScopeOn(d.windows, d.scope) /\ (d.focused # None => Takes(d.windows, d.scope, d.focused))

FieldType == {f \in [len : 0 .. TextLimit, cursor : 0 .. TextLimit] : f.cursor <= f.len}
Holds(ws, c) ==
  /\ c[1] \in Ids(ws) /\ c[2] \in DOMAIN Win(ws, c[1]).rows /\ Editable(Win(ws, c[1]).rows[c[2]])
EditsOK(d) == \A c \in DOMAIN d.edits : d.edits[c] \in FieldType /\ Holds(d.windows, c)

Base(d) == IsDesk(d) /\ Wins(d.windows) /\ EditsOK(d)
DeskOK(d) == Base(d) /\ FocusOK(d)

(* A desktop with other windows. *)
LEMMA WithWindows ==
  ASSUME NEW d, IsDesk(d), NEW new
  PROVE  /\ IsDesk([d EXCEPT !.windows = new]) /\ [d EXCEPT !.windows = new].windows = new
         /\ [d EXCEPT !.windows = new].scope = d.scope /\ [d EXCEPT !.windows = new].focused = d.focused
         /\ [d EXCEPT !.windows = new].edits = d.edits
  BY DEF IsDesk

(* A desktop with another focus. *)
LEMMA WithFocus ==
  ASSUME NEW d, IsDesk(d), NEW c
  PROVE  /\ IsDesk([d EXCEPT !.focused = c]) /\ [d EXCEPT !.focused = c].windows = d.windows
         /\ [d EXCEPT !.focused = c].scope = d.scope /\ [d EXCEPT !.focused = c].focused = c
         /\ [d EXCEPT !.focused = c].edits = d.edits
  BY DEF IsDesk

(* set_focus_scope drops the focus with the scope it was in. *)
LEMMA SetScopeIs ==
  ASSUME NEW d, IsDesk(d), NEW s
  PROVE  /\ IsDesk(SetScope(d, s)) /\ SetScope(d, s).windows = d.windows
         /\ SetScope(d, s).edits = d.edits /\ SetScope(d, s).scope = s
         /\ SetScope(d, s).focused = None \/ (SetScope(d, s).focused = d.focused /\ d.scope = s)
<1>1. CASE d.scope = s
  BY <1>1 DEF SetScope
<1>2. CASE d.scope # s
  <2>1. SetScope(d, s) = [d EXCEPT !.scope = s, !.focused = None]
    BY <1>2 DEF SetScope
  <2>2. [d EXCEPT !.scope = s, !.focused = None] = [[d EXCEPT !.scope = s] EXCEPT !.focused = None]
    OBVIOUS
  <2>3. PICK e : e = [d EXCEPT !.scope = s]
    OBVIOUS
  <2>4. IsDesk(e) /\ e.windows = d.windows /\ e.scope = s /\ e.edits = d.edits
    BY <2>3 DEF IsDesk
  <2>5. PICK f : f = [e EXCEPT !.focused = None]
    OBVIOUS
  <2>6. IsDesk(f) /\ f.windows = e.windows /\ f.scope = e.scope /\ f.focused = None /\ f.edits = e.edits
    BY <2>4, <2>5, WithFocus
  <2>7. SetScope(d, s) = f
    BY <2>1, <2>2, <2>3, <2>5
  <2> QED BY <2>4, <2>6, <2>7
<1> QED BY <1>1, <1>2

(* A scope on screen may be set at any time. *)
LEMMA ScopedKeeps ==
  ASSUME NEW d, DeskOK(d), NEW s, ScopeOn(d.windows, s)
  PROVE  /\ DeskOK(SetScope(d, s)) /\ SetScope(d, s).windows = d.windows
         /\ SetScope(d, s).edits = d.edits /\ SetScope(d, s).scope = s
<1>1. PICK e : e = SetScope(d, s)
  OBVIOUS
<1>2. /\ IsDesk(e) /\ e.windows = d.windows /\ e.edits = d.edits /\ e.scope = s
      /\ e.focused = None \/ (e.focused = d.focused /\ d.scope = s)
  BY <1>1, SetScopeIs DEF DeskOK, Base
<1>3. Base(e)
  BY <1>2 DEF DeskOK, Base, EditsOK
<1>4. FocusOK(e)
  BY <1>2 DEF DeskOK, FocusOK
<1> QED BY <1>1, <1>2, <1>3, <1>4 DEF DeskOK

(* The scope that replaces a lost one is on screen. *)
LEMMA TopAppIs ==
  ASSUME NEW ws, Stack(ws)
  PROVE  ScopeOn(ws, TopApp(ws))
<1>1. /\ Len(ws) \in Nat /\ DOMAIN ws = 1 .. Len(ws)
      /\ \A i \in 1 .. Len(ws) : ws[i].id \in Ids(ws) /\ Win(ws, ws[i].id) = ws[i]
  BY StackIs, WinFrom
<1>2. PICK apps : apps = {i \in DOMAIN ws : ~ws[i].minimized /\ Scrollable(ws[i])}
  OBVIOUS
<1>3. CASE apps = {}
  <2>1. TopApp(ws) = Screen
    BY <1>2, <1>3 DEF TopApp
  <2> QED BY <2>1 DEF ScopeOn
<1>4. CASE apps # {}
  <2>1. apps \subseteq 0 .. Len(ws)
    BY <1>1, <1>2
  <2>2. \E i \in apps : \A j \in apps : j <= i
    BY <1>1, <1>4, <2>1, GreatestOf
  <2>3. TopApp(ws) = ws[CHOOSE i \in apps : \A j \in apps : j <= i].id
    BY <1>2, <1>4 DEF TopApp
  <2>4. PICK i \in apps : TopApp(ws) = ws[i].id
    BY <2>2, <2>3
  <2> QED BY <1>1, <1>2, <2>4 DEF ScopeOn, OnScreen
<1> QED BY <1>3, <1>4

(* repair_focus_scope makes any scope and focus sound, and leaves a scope  *)
(* that is on screen.                                                      *)
LEMMA RepairKeeps ==
  ASSUME NEW d, Base(d)
  PROVE  /\ DeskOK(Repair(d)) /\ Repair(d).windows = d.windows /\ Repair(d).edits = d.edits
         /\ Repair(d).focused # None => Repair(d).focused = d.focused
         /\ ScopeOn(d.windows, d.scope) =>
              Repair(d) = [d EXCEPT !.focused = IF Usable(d, d.focused) THEN d.focused ELSE None]
<1>1. PICK s : s = IF d.scope = Screen \/ d.scope \in OnScreen(d.windows) THEN d
                   ELSE SetScope(d, TopApp(d.windows))
  OBVIOUS
<1>2. Repair(d) = [s EXCEPT !.focused = IF Usable(s, s.focused) THEN s.focused ELSE None]
  BY <1>1 DEF Repair
<1>3. /\ IsDesk(s) /\ s.windows = d.windows /\ s.edits = d.edits /\ ScopeOn(s.windows, s.scope)
      /\ s.focused = None \/ s.focused = d.focused
  <2>1. CASE d.scope = Screen \/ d.scope \in OnScreen(d.windows)
    BY <1>1, <2>1 DEF Base, ScopeOn
  <2>2. CASE ~(d.scope = Screen \/ d.scope \in OnScreen(d.windows))
    <3>1. ScopeOn(d.windows, TopApp(d.windows))
      BY TopAppIs DEF Base, Wins
    <3> QED BY <1>1, <2>2, <3>1, SetScopeIs DEF Base
  <2> QED BY <2>1, <2>2
<1>4. PICK c : c = IF Usable(s, s.focused) THEN s.focused ELSE None
  OBVIOUS
<1>5. PICK e : e = [s EXCEPT !.focused = c]
  OBVIOUS
<1>6. IsDesk(e) /\ e.windows = s.windows /\ e.scope = s.scope /\ e.focused = c /\ e.edits = s.edits
  BY <1>3, <1>5, WithFocus
<1>7. c # None => Takes(s.windows, s.scope, c) /\ c = d.focused
  BY <1>3, <1>4 DEF Usable, Takes, InScope, Accepts
<1>8. DeskOK(e)
  BY <1>3, <1>6, <1>7 DEF DeskOK, FocusOK, Base, EditsOK
<1>9. e = Repair(d)
  BY <1>2, <1>4, <1>5
<1>10. ScopeOn(d.windows, d.scope) => s = d
  BY <1>1 DEF ScopeOn
<1> QED BY <1>2, <1>3, <1>6, <1>7, <1>8, <1>9, <1>10

(* The same windows have the same rows: the fields stay theirs. *)
SameRows(ws, new) ==
  \A id \in Ids(ws) : id \in Ids(new) /\ Win(new, id).rows = Win(ws, id).rows
(* Then the fields are sound as before. *)
LEMMA EditsStay ==
  ASSUME NEW d, NEW e, EditsOK(d), e.edits = d.edits, SameRows(d.windows, e.windows)
  PROVE  EditsOK(e)
<1>1. ASSUME NEW c \in DOMAIN e.edits PROVE e.edits[c] \in FieldType /\ Holds(e.windows, c)
  <2>1. c \in DOMAIN d.edits /\ d.edits[c] \in FieldType /\ Holds(d.windows, c) /\ e.edits[c] = d.edits[c]
    BY DEF EditsOK
  <2>2. c[1] \in Ids(d.windows)
    BY <2>1 DEF Holds
  <2>3. c[1] \in Ids(e.windows) /\ Win(e.windows, c[1]).rows = Win(d.windows, c[1]).rows
    BY <2>2 DEF SameRows
  <2> QED BY <2>1, <2>3 DEF Holds
<1> QED BY <1>1 DEF EditsOK

(* What was on screen still is, with its rows and role: the focus stays. *)
StillShows(ws, new) ==
  \A id \in OnScreen(ws) :
    /\ id \in OnScreen(new) /\ Win(new, id).rows = Win(ws, id).rows
    /\ Win(new, id).role = Win(ws, id).role /\ Win(new, id).id = Win(ws, id).id
(* Then the focus is in its scope as before. *)
LEMMA FocusStays ==
  ASSUME NEW d, NEW e, FocusOK(d), e.scope = d.scope, e.focused = d.focused,
         StillShows(d.windows, e.windows)
  PROVE  FocusOK(e)
<1>1. ScopeOn(e.windows, e.scope)
  BY DEF FocusOK, ScopeOn, StillShows
<1>2. ASSUME e.focused # None PROVE Takes(e.windows, e.scope, e.focused)
  <2>1. PICK c : c = d.focused
    OBVIOUS
  <2>2. Takes(d.windows, d.scope, c) /\ c[1] \in OnScreen(d.windows)
    BY <1>2, <2>1 DEF FocusOK, Takes
  <2>3. /\ c[1] \in OnScreen(e.windows) /\ Win(e.windows, c[1]).rows = Win(d.windows, c[1]).rows
        /\ Win(e.windows, c[1]).role = Win(d.windows, c[1]).role
        /\ Win(e.windows, c[1]).id = Win(d.windows, c[1]).id
    BY <2>2 DEF StillShows
  <2>4. Accepts(e.scope, Win(e.windows, c[1]))
    BY <2>2, <2>3 DEF Takes, Accepts
  <2> QED BY <2>1, <2>2, <2>3, <2>4 DEF Takes
<1> QED BY <1>1, <1>2 DEF FocusOK

-----------------------------------------------------------------------------
(* Windows that are set, dropped and added. *)

(* A sound window may take the place of another. *)
LEMMA SetWins ==
  ASSUME NEW ws, Wins(ws), NEW new, NEW v, Sets(ws, new, v), Sound(v)
  PROVE  Wins(new)
<1>1. ASSUME NEW id \in Ids(new) PROVE Sound(Win(new, id))
  <2>1. id \in Ids(ws) /\ Sound(Win(ws, id))
    BY DEF Wins, Sets
  <2>2. CASE id = v.id
    BY <2>2 DEF Sets
  <2>3. CASE id # v.id
    BY <2>1, <2>3 DEF Sets
  <2> QED BY <2>2, <2>3
<1> QED BY <1>1 DEF Wins, Sets

(* It keeps the fields if it keeps the rows. *)
LEMMA SetSame ==
  ASSUME NEW ws, NEW new, NEW v, Sets(ws, new, v), v.id \in Ids(ws), v.rows = Win(ws, v.id).rows
  PROVE  SameRows(ws, new)
  BY DEF Sets, SameRows

(* And the focus, if it keeps its role and stays on screen. *)
LEMMA SetShows ==
  ASSUME NEW ws, Stack(ws), NEW new, NEW v, Sets(ws, new, v), v.id \in Ids(ws),
         v.rows = Win(ws, v.id).rows, v.role = Win(ws, v.id).role,
         v.minimized => Win(ws, v.id).minimized
  PROVE  StillShows(ws, new)
<1>1. ASSUME NEW id \in OnScreen(ws)
      PROVE  /\ id \in OnScreen(new) /\ Win(new, id).rows = Win(ws, id).rows
             /\ Win(new, id).role = Win(ws, id).role /\ Win(new, id).id = Win(ws, id).id
  <2>1. id \in Ids(ws) /\ id \in Ids(new) /\ ~Win(ws, id).minimized /\ Win(ws, id).id = id
    BY WinIs DEF OnScreen, Sets
  <2>2. CASE id = v.id
    <3>1. Win(new, id) = v
      BY <2>2 DEF Sets
    <3> QED BY <2>1, <2>2, <3>1 DEF OnScreen
  <2>3. CASE id # v.id
    <3>1. Win(new, id) = Win(ws, id)
      BY <2>1, <2>3 DEF Sets
    <3> QED BY <2>1, <3>1 DEF OnScreen
  <2> QED BY <2>2, <2>3
<1> QED BY <1>1 DEF StillShows

(* A window that is minimized or shown is otherwise the same. *)
LEMMA MinimizeIs ==
  ASSUME NEW w \in Window, NEW b \in BOOLEAN
  PROVE  /\ [w EXCEPT !.minimized = b] \in Window /\ [w EXCEPT !.minimized = b].minimized = b
         /\ [w EXCEPT !.minimized = b].id = w.id /\ [w EXCEPT !.minimized = b].rows = w.rows
         /\ [w EXCEPT !.minimized = b].role = w.role
         /\ Sound(w) => Sound([w EXCEPT !.minimized = b])
<1>1. PICK v : v = [w EXCEPT !.minimized = b]
  OBVIOUS
<1>2. v \in Window
  BY <1>1 DEF Window
<1>3. v.minimized = b
  BY <1>1 DEF Window
<1>4. /\ v.scroll = w.scroll /\ v.id = w.id /\ v.rows = w.rows /\ v.role = w.role
      /\ v.view = w.view /\ v.maximized = w.maximized /\ v.native = w.native /\ v.restore = w.restore
  BY <1>1 DEF Window
<1>5. MaxScroll(v) = MaxScroll(w)
  BY <1>4 DEF MaxScroll, Scrollable
<1>6. Sound(w) => Sound(v)
  BY <1>4, <1>5 DEF Sound
<1> QED BY <1>1, <1>2, <1>3, <1>4, <1>6

(* The invariant gives each window what it needs. *)
LEMMA WinOf ==
  ASSUME NEW d, Base(d), NEW id \in Ids(d.windows)
  PROVE  /\ Stack(d.windows) /\ Win(d.windows, id) \in Window /\ Win(d.windows, id).id = id
         /\ Sound(Win(d.windows, id))
  BY WinIs DEF Base, Wins

(* A window is set, with its rows: the fields are sound. *)
LEMMA SetBase ==
  ASSUME NEW d, Base(d), NEW new, NEW v, Sets(d.windows, new, v), Sound(v),
         v.id \in Ids(d.windows), v.rows = Win(d.windows, v.id).rows
  PROVE  Base([d EXCEPT !.windows = new])
<1>1. PICK e : e = [d EXCEPT !.windows = new]
  OBVIOUS
<1>2. IsDesk(e) /\ e.windows = new /\ e.edits = d.edits
  BY <1>1, WithWindows DEF Base
<1>3. Wins(new)
  BY SetWins DEF Base
<1>4. SameRows(d.windows, e.windows)
  BY <1>2, SetSame
<1>5. EditsOK(e)
  BY <1>2, <1>4, EditsStay DEF Base
<1> QED BY <1>1, <1>2, <1>3, <1>5 DEF Base

(* With its role, and on screen if it was: so is the focus. *)
LEMMA SetDesk ==
  ASSUME NEW d, DeskOK(d), NEW new, NEW v, Sets(d.windows, new, v), Sound(v),
         v.id \in Ids(d.windows), v.rows = Win(d.windows, v.id).rows,
         v.role = Win(d.windows, v.id).role, v.minimized => Win(d.windows, v.id).minimized
  PROVE  DeskOK([d EXCEPT !.windows = new])
<1>1. PICK e : e = [d EXCEPT !.windows = new]
  OBVIOUS
<1>2. IsDesk(e) /\ e.windows = new /\ e.scope = d.scope /\ e.focused = d.focused
  BY <1>1, WithWindows DEF DeskOK, Base
<1>3. Base(e)
  BY <1>1, SetBase DEF DeskOK
<1>4. StillShows(d.windows, e.windows)
  BY <1>2, SetShows DEF DeskOK, Base, Wins
<1>5. FocusOK(e)
  BY <1>2, <1>4, FocusStays DEF DeskOK
<1> QED BY <1>1, <1>3, <1>5 DEF DeskOK

-----------------------------------------------------------------------------
(* The commands keep the invariant. *)

(* R|id *)
LEMMA RestoredKeeps ==
  ASSUME NEW d, DeskOK(d), NEW id
  PROVE  DeskOK(Restored(d, id))
<1>1. CASE id \notin Ids(d.windows)
  BY <1>1 DEF Restored
<1>2. CASE id \in Ids(d.windows)
  <2>1. PICK w : w = Win(d.windows, id)
    OBVIOUS
  <2>2. Stack(d.windows) /\ w \in Window /\ w.id = id /\ Sound(w)
    BY <1>2, <2>1, WinOf DEF DeskOK
  <2>3. PICK v : v = [w EXCEPT !.minimized = FALSE]
    OBVIOUS
  <2>4. v \in Window /\ ~v.minimized /\ v.id = id /\ v.rows = w.rows /\ v.role = w.role /\ Sound(v)
    BY <2>2, <2>3, MinimizeIs
  <2>5. PICK new : new = Append(Without(d.windows, id), v)
    OBVIOUS
  <2>6. Sets(d.windows, new, v)
    BY <1>2, <2>2, <2>4, <2>5, RaiseSets
  <2>7. PICK e : e = [d EXCEPT !.windows = new]
    OBVIOUS
  <2>8. DeskOK(e)
    BY <1>2, <2>1, <2>4, <2>6, <2>7, SetDesk
  <2>9. e.windows = new
    BY <2>7, WithWindows DEF DeskOK, Base
  <2>10. id \in OnScreen(new)
    BY <1>2, <2>4, <2>6 DEF Sets, OnScreen
  <2>11. ScopeOn(e.windows, ScopeOf(v))
    BY <2>4, <2>9, <2>10 DEF ScopeOn, ScopeOf
  <2>12. Restored(d, id) = SetScope(e, ScopeOf(v))
    BY <1>2, <2>1, <2>3, <2>5, <2>7 DEF Restored
  <2> QED BY <2>8, <2>11, <2>12, ScopedKeeps
<1> QED BY <1>1, <1>2

(* M|id *)
LEMMA MinimizedKeeps ==
  ASSUME NEW d, DeskOK(d), NEW id
  PROVE  DeskOK(Minimized(d, id))
<1>1. CASE id \notin Ids(d.windows)
  BY <1>1 DEF Minimized
<1>2. CASE id \in Ids(d.windows)
  <2>1. PICK w : w = Win(d.windows, id)
    OBVIOUS
  <2>2. Stack(d.windows) /\ w \in Window /\ w.id = id /\ Sound(w)
    BY <1>2, <2>1, WinOf DEF DeskOK
  <2>3. PICK v : v = [w EXCEPT !.minimized = TRUE]
    OBVIOUS
  <2>4. v \in Window /\ v.id = id /\ v.rows = w.rows /\ Sound(v)
    BY <2>2, <2>3, MinimizeIs
  <2>5. Sets(d.windows, Update(d.windows, v), v)
    BY <1>2, <2>2, <2>4, UpdateSets
  <2>6. Base([d EXCEPT !.windows = Update(d.windows, v)])
    BY <1>2, <2>1, <2>4, <2>5, SetBase DEF DeskOK
  <2>7. Minimized(d, id) = Repair([d EXCEPT !.windows = Update(d.windows, v)])
    BY <1>2, <2>1, <2>3 DEF Minimized
  <2> QED BY <2>6, <2>7, RepairKeeps
<1> QED BY <1>1, <1>2

(* The fields of a window that goes or is replaced are forgotten. *)
LEMMA ForgetIs ==
  ASSUME NEW d, IsDesk(d), NEW id
  PROVE  /\ IsDesk(Forget(d, id)) /\ Forget(d, id).windows = d.windows
         /\ Forget(d, id).scope = d.scope /\ Forget(d, id).focused = d.focused
         /\ \A c \in DOMAIN Forget(d, id).edits :
              c \in DOMAIN d.edits /\ c[1] # id /\ Forget(d, id).edits[c] = d.edits[c]
<1>1. PICK g : g = [c \in {k \in DOMAIN d.edits : k[1] # id} |-> d.edits[c]]
  OBVIOUS
<1>2. Forget(d, id) = [d EXCEPT !.edits = g]
  BY <1>1 DEF Forget
<1>3. PICK e : e = [d EXCEPT !.edits = g]
  OBVIOUS
<1>4. IsDesk(e) /\ e.windows = d.windows /\ e.scope = d.scope /\ e.focused = d.focused /\ e.edits = g
  BY <1>3 DEF IsDesk
<1>5. \A c \in DOMAIN g : c \in DOMAIN d.edits /\ c[1] # id /\ g[c] = d.edits[c]
  BY <1>1
<1> QED BY <1>2, <1>3, <1>4, <1>5

(* Then the other windows need only keep their rows. *)
LEMMA ForgetBase ==
  ASSUME NEW d, Base(d), NEW id, NEW e, IsDesk(e), Wins(e.windows),
         e.edits = Forget(d, id).edits,
         \A x \in Ids(d.windows) : x # id => x \in Ids(e.windows) /\ Win(e.windows, x) = Win(d.windows, x)
  PROVE  Base(e)
<1>1. ASSUME NEW c \in DOMAIN e.edits PROVE e.edits[c] \in FieldType /\ Holds(e.windows, c)
  <2>1. c \in DOMAIN d.edits /\ c[1] # id /\ e.edits[c] = d.edits[c]
    BY ForgetIs DEF Base
  <2>2. d.edits[c] \in FieldType /\ Holds(d.windows, c)
    BY <2>1 DEF Base, EditsOK
  <2>3. c[1] \in Ids(d.windows)
    BY <2>2 DEF Holds
  <2>4. c[1] \in Ids(e.windows) /\ Win(e.windows, c[1]) = Win(d.windows, c[1])
    BY <2>1, <2>3
  <2> QED BY <2>1, <2>2, <2>4 DEF Holds
<1> QED BY <1>1 DEF Base, EditsOK

(* A stack without one of its windows is sound. *)
LEMMA DropWins ==
  ASSUME NEW ws, Wins(ws), NEW id \in Ids(ws), NEW new, Drops(ws, new, id)
  PROVE  Wins(new)
<1>1. Len(ws) \in Nat /\ MaxWindows \in Nat
  BY StackIs, DesktopAssumption DEF Wins
<1>2. Len(new) <= MaxWindows
  BY <1>1 DEF Drops, Wins
<1> QED BY <1>2 DEF Drops, Wins

(* And so is one with another window, while there is room. *)
LEMMA AddWins ==
  ASSUME NEW ws, Wins(ws), Len(ws) < MaxWindows, NEW new, NEW v, Adds(ws, new, v), Sound(v)
  PROVE  Wins(new)
<1>1. Len(ws) \in Nat /\ MaxWindows \in Nat
  BY StackIs, DesktopAssumption DEF Wins
<1>2. Len(new) <= MaxWindows
  BY <1>1 DEF Adds
<1> QED BY <1>2 DEF Adds, Wins

(* X|id *)
LEMMA RemovedKeeps ==
  ASSUME NEW d, DeskOK(d), NEW id \in Ids(d.windows)
  PROVE  DeskOK(Removed(d, id))
<1>1. Stack(d.windows) /\ IsDesk(d) /\ Base(d)
  BY DEF DeskOK, Base, Wins
<1>2. PICK new : new = Without(d.windows, id)
  OBVIOUS
<1>3. Drops(d.windows, new, id)
  BY <1>1, <1>2, WithoutDrops
<1>4. PICK e : e = [d EXCEPT !.windows = new]
  OBVIOUS
<1>5. IsDesk(e) /\ e.windows = new /\ e.edits = d.edits
  BY <1>1, <1>4, WithWindows
<1>6. PICK f : f = Forget(e, id)
  OBVIOUS
<1>7. IsDesk(f) /\ f.windows = new
  BY <1>5, <1>6, ForgetIs
<1>8. f.edits = Forget(d, id).edits
  <2>1. PICK g : g = [c \in {k \in DOMAIN d.edits : k[1] # id} |-> d.edits[c]]
    OBVIOUS
  <2>2. f = [e EXCEPT !.edits = g] /\ Forget(d, id) = [d EXCEPT !.edits = g]
    BY <1>5, <1>6, <2>1 DEF Forget
  <2>3. [e EXCEPT !.edits = g].edits = g /\ [d EXCEPT !.edits = g].edits = g
    BY <1>1, <1>5 DEF IsDesk
  <2> QED BY <2>2, <2>3
<1>9. Wins(f.windows)
  BY <1>1, <1>3, <1>7, DropWins DEF Base
<1>10. \A x \in Ids(d.windows) : x # id => x \in Ids(f.windows) /\ Win(f.windows, x) = Win(d.windows, x)
  BY <1>3, <1>7 DEF Drops
<1>11. Base(f)
  BY <1>1, <1>7, <1>8, <1>9, <1>10, ForgetBase
<1>12. Removed(d, id) = Repair(f)
  BY <1>2, <1>4, <1>6 DEF Removed
<1> QED BY <1>11, <1>12, RepairKeeps

(* A window that has just been opened is sound. *)
LEMMA NewWindowIs ==
  ASSUME NEW id \in Names, NEW role \in {"W", "P"}, NEW rows \in Seq(Rows), NEW native \in BOOLEAN,
         native => rows = <<>>
  PROVE  /\ NewWindow(id, role, rows, native) \in Window /\ NewWindow(id, role, rows, native).id = id
         /\ Sound(NewWindow(id, role, rows, native))
<1>1. PICK no \in BOOLEAN : no = FALSE
  OBVIOUS
<1>2. PICK w : w = [id |-> id, role |-> role, rows |-> rows, native |-> native, view |-> 1, restore |-> 0,
                    maximized |-> no, minimized |-> no, scroll |-> 0]
  OBVIOUS
<1>3. NewWindow(id, role, rows, native) = w
  BY <1>1, <1>2, Zenon DEF NewWindow
<1>4. 1 \in Nat \ {0} /\ 0 \in Nat /\ 0 \in Int /\ role \in {"W", "L", "P", "D"}
  OBVIOUS
<1>5. w \in Window
  BY <1>2, <1>4 DEF Window
<1>6. w.id = id /\ w.rows = rows /\ w.native = native /\ w.scroll = 0 /\ w.maximized = no
  BY <1>2
<1>7. MaxScroll(w) \in Nat
  BY <1>5, MaxScrollIs
<1>8. w.scroll \in 0 .. MaxScroll(w)
  BY <1>6, <1>7
<1>9. w.native => DOMAIN w.rows = {}
  BY <1>6
<1>10. Sound(w)
  BY <1>1, <1>6, <1>8, <1>9 DEF Sound
<1> QED BY <1>3, <1>5, <1>6, <1>10

(* The one row that the host lays out is no field. *)
LEMMA HostRowIs ==
  /\ <<HostRow>> \in Seq(Rows) /\ \A i \in DOMAIN <<HostRow>> : ~Editable(<<HostRow>>[i])
<1>1. HostRow \in Rows
  BY DEF Rows
<1>2. HostRow.kind = "b"
  BY DEF HostRow
<1>3. ~Editable(HostRow)
  BY <1>2 DEF Editable
<1>4. PICK r : r = HostRow
  OBVIOUS
<1>5. <<r>> \in Seq(Rows) /\ \A i \in DOMAIN <<r>> : <<r>>[i] = r
  BY <1>1, <1>4
<1> QED BY <1>3, <1>4, <1>5

(* S|id of a window that is there replaces its rows. *)
LEMMA SurfaceIs ==
  ASSUME NEW w \in Window, Sound(w), NEW role \in {"W", "P"}, NEW v,
         v = Clamp([w EXCEPT !.role = role, !.rows = <<HostRow>>, !.view = 1, !.minimized = FALSE])
  PROVE  v \in Window /\ v.id = w.id /\ Sound(v)
<1>1. PICK rows : rows = <<HostRow>>
  OBVIOUS
<1>2. rows \in Seq(Rows) /\ \A i \in DOMAIN rows : ~Editable(rows[i])
  BY <1>1, HostRowIs
<1>3. PICK a : a = [w EXCEPT !.role = role]
  OBVIOUS
<1>4. /\ a \in Window /\ a.id = w.id /\ a.maximized = w.maximized /\ a.restore = w.restore
  BY <1>3 DEF Window
<1>5. PICK b : b = [a EXCEPT !.rows = rows]
  OBVIOUS
<1>6. b \in Window /\ b.id = a.id /\ b.maximized = a.maximized /\ b.restore = a.restore /\ b.rows = rows
  <2>1. PICK R : R = Seq(Rows)
    OBVIOUS
  <2>2. rows \in R
    BY <1>2, <2>1
  <2>3. Window = [id : Names, role : {"W", "L", "P", "D"}, rows : R, native : BOOLEAN, view : Nat \ {0},
                  restore : Nat, maximized : BOOLEAN, minimized : BOOLEAN, scroll : Int]
    BY <2>1 DEF Window
  <2>4. b \in Window
    BY <1>4, <1>5, <2>2, <2>3
  <2>5. b.id = a.id /\ b.maximized = a.maximized /\ b.restore = a.restore /\ b.rows = rows
    BY <1>4, <1>5, <2>3
  <2> QED BY <2>4, <2>5
<1>7. PICK c : c = [b EXCEPT !.view = 1]
  OBVIOUS
<1>8. c \in Window /\ c.id = b.id /\ c.maximized = b.maximized /\ c.restore = b.restore /\ c.rows = rows
  <2>1. PICK R : R = Seq(Rows)
    OBVIOUS
  <2>2. Window = [id : Names, role : {"W", "L", "P", "D"}, rows : R, native : BOOLEAN, view : Nat \ {0},
                  restore : Nat, maximized : BOOLEAN, minimized : BOOLEAN, scroll : Int]
    BY <2>1 DEF Window
  <2>3. 1 \in Nat \ {0}
    OBVIOUS
  <2>4. c \in Window
    BY <1>6, <1>7, <2>2, <2>3
  <2>5. c.id = b.id /\ c.maximized = b.maximized /\ c.restore = b.restore /\ c.rows = rows
    BY <1>6, <1>7, <2>2
  <2> QED BY <2>4, <2>5
<1>9. PICK e : e = [c EXCEPT !.minimized = FALSE]
  OBVIOUS
<1>10. e \in Window
  BY <1>8, <1>9, MinimizeIs
<1>11. e.id = c.id /\ e.maximized = c.maximized /\ e.restore = c.restore /\ e.rows = rows
  BY <1>8, <1>9 DEF Window
<1>12. [w EXCEPT !.role = role, !.rows = rows, !.view = 1, !.minimized = FALSE] = e
  BY <1>3, <1>5, <1>7, <1>9, Zenon
<1>13. v = Clamp(e)
  BY <1>1, <1>12, Zenon
<1>14. Clamped(e, v)
  BY <1>10, <1>13, ClampIs
<1>15. v.maximized = w.maximized /\ v.restore = w.restore /\ v.rows = rows /\ v.id = w.id
  BY <1>4, <1>6, <1>8, <1>11, <1>14 DEF Clamped
<1>16. Sound(v)
  BY <1>2, <1>14, <1>15 DEF Sound, Clamped
<1> QED BY <1>14, <1>15, <1>16 DEF Clamped

(* S|id *)
LEMMA SurfacedKeeps ==
  ASSUME NEW d, DeskOK(d), NEW id \in HostId, NEW role \in {"W", "P"},
         id \in Ids(d.windows) \/ Len(d.windows) < MaxWindows
  PROVE  DeskOK(Surfaced(d, id, role))
<1>1. Stack(d.windows) /\ IsDesk(d) /\ Base(d) /\ Wins(d.windows)
  BY DEF DeskOK, Base, Wins
<1>2. CASE id \in Ids(d.windows)
  <2>1. PICK w : w = Win(d.windows, id)
    OBVIOUS
  <2>2. w \in Window /\ w.id = id /\ Sound(w)
    BY <1>1, <1>2, <2>1, WinOf
  <2>3. PICK v : v = Clamp([w EXCEPT !.role = role, !.rows = <<HostRow>>, !.view = 1, !.minimized = FALSE])
    OBVIOUS
  <2>4. v \in Window /\ v.id = id /\ Sound(v)
    BY <2>2, <2>3, SurfaceIs
  <2>5. PICK new : new = Append(Without(d.windows, id), v)
    OBVIOUS
  <2>6. Sets(d.windows, new, v)
    BY <1>1, <1>2, <2>4, <2>5, RaiseSets
  <2>7. PICK f : f = Forget(d, id)
    OBVIOUS
  <2>8. IsDesk(f) /\ f.windows = d.windows
    BY <1>1, <2>7, ForgetIs
  <2>9. PICK e : e = [f EXCEPT !.windows = new]
    OBVIOUS
  <2>10. IsDesk(e) /\ e.windows = new /\ e.edits = f.edits
    BY <2>8, <2>9, WithWindows
  <2>11. Wins(e.windows)
    BY <1>1, <2>4, <2>6, <2>10, SetWins
  <2>12. \A x \in Ids(d.windows) : x # id => x \in Ids(e.windows) /\ Win(e.windows, x) = Win(d.windows, x)
    BY <2>4, <2>6, <2>10 DEF Sets
  <2>13. e.edits = Forget(d, id).edits
    BY <2>7, <2>10
  <2>14. Base(e)
    BY <1>1, <2>10, <2>11, <2>12, <2>13, ForgetBase
  <2>15. Surfaced(d, id, role) = Repair(e)
    BY <1>2, <2>1, <2>3, <2>5, <2>7, <2>8, <2>9, Zenon DEF Surfaced
  <2> QED BY <2>14, <2>15, RepairKeeps
<1>3. CASE id \notin Ids(d.windows)
  <2>1. PICK v : v = NewWindow(id, role, <<HostRow>>, FALSE)
    OBVIOUS
  <2>2. id \in Names /\ FALSE \in BOOLEAN
    BY DEF Names
  <2>3. v \in Window /\ v.id = id /\ Sound(v)
    BY <2>1, <2>2, HostRowIs, NewWindowIs
  <2>4. Adds(d.windows, Append(d.windows, v), v)
    BY <1>1, <1>3, <2>3, AppendAdds
  <2>5. PICK new : new = Append(d.windows, v)
    OBVIOUS
  <2>6. PICK e : e = [d EXCEPT !.windows = new]
    OBVIOUS
  <2>7. IsDesk(e) /\ e.windows = new /\ e.edits = d.edits
    BY <1>1, <2>6, WithWindows
  <2>8. Wins(e.windows)
    BY <1>1, <1>3, <2>3, <2>4, <2>5, <2>7, AddWins
  <2>9. SameRows(d.windows, e.windows)
    BY <2>4, <2>5, <2>7 DEF Adds, SameRows
  <2>10. Base(e)
    BY <1>1, <2>7, <2>8, <2>9, EditsStay DEF Base
  <2>11. Surfaced(d, id, role) = Repair(e)
    BY <1>3, <2>1, <2>5, <2>6 DEF Surfaced
  <2> QED BY <2>10, <2>11, RepairKeeps
<1> QED BY <1>2, <1>3

(* Whatever control fires. *)
LEMMA PerformedKeeps ==
  ASSUME NEW d, DeskOK(d), NEW c
  PROVE  DeskOK(Performed(d, c))
  BY RestoredKeeps DEF Performed

-----------------------------------------------------------------------------
(* Fields. *)

(* A field that is there is sound, and one that is not is empty. *)
LEMMA FieldIs ==
  ASSUME NEW d, EditsOK(d), NEW c
  PROVE  Field(d, c) \in FieldType
<1>1. CASE c \in DOMAIN d.edits
  BY <1>1 DEF Field, EditsOK
<1>2. CASE c \notin DOMAIN d.edits
  <2>1. Field(d, c) = [len |-> 0, cursor |-> 0]
    BY <1>2 DEF Field
  <2>2. 0 \in 0 .. TextLimit
    BY DesktopAssumption
  <2> QED BY <2>1, <2>2 DEF FieldType
<1> QED BY <1>1, <1>2

(* A field may be set where the windows hold one. *)
LEMMA SetFieldKeeps ==
  ASSUME NEW d, Base(d), NEW c, Holds(d.windows, c), NEW f \in FieldType
  PROVE  /\ Base(SetField(d, c, f)) /\ SetField(d, c, f).windows = d.windows
         /\ SetField(d, c, f).scope = d.scope /\ SetField(d, c, f).focused = d.focused
<1>1. PICK g : g = [k \in DOMAIN d.edits \cup {c} |-> IF k = c THEN f ELSE d.edits[k]]
  OBVIOUS
<1>2. SetField(d, c, f) = [d EXCEPT !.edits = g]
  BY <1>1 DEF SetField
<1>3. PICK e : e = [d EXCEPT !.edits = g]
  OBVIOUS
<1>4. IsDesk(e) /\ e.windows = d.windows /\ e.scope = d.scope /\ e.focused = d.focused /\ e.edits = g
  BY <1>3 DEF IsDesk, Base
<1>5. \A k \in DOMAIN g : g[k] \in FieldType /\ Holds(d.windows, k)
  BY <1>1 DEF Base, EditsOK
<1>6. Base(e)
  BY <1>4, <1>5 DEF Base, EditsOK
<1> QED BY <1>2, <1>3, <1>4, <1>6

(* Moving the caret keeps it in the text. *)
LEMMA CaretIs ==
  ASSUME NEW f \in FieldType, NEW g \in CaretAt(f)
  PROVE  g \in FieldType
<1>1. f \in [len : 0 .. TextLimit, cursor : 0 .. TextLimit] /\ TextLimit \in Nat
  BY DesktopAssumption DEF FieldType
<1>2. PICK k \in 0 .. f.len : g = [f EXCEPT !.cursor = k]
  BY DEF CaretAt
<1>3. k \in 0 .. TextLimit
  BY <1>1, <1>2
<1>4. g \in [len : 0 .. TextLimit, cursor : 0 .. TextLimit] /\ g.cursor = k /\ g.len = f.len
  BY <1>1, <1>2, <1>3
<1>5. g.cursor <= g.len
  BY <1>1, <1>2, <1>4
<1> QED BY <1>4, <1>5 DEF FieldType

(* So does typing, and the text stays within its limit. *)
LEMMA TypedIs ==
  ASSUME NEW f \in FieldType
  PROVE  Typed(f) \in FieldType
<1>1. f \in [len : 0 .. TextLimit, cursor : 0 .. TextLimit] /\ f.cursor <= f.len /\ TextLimit \in Nat
  BY DesktopAssumption DEF FieldType
<1>2. CASE f.len < TextLimit
  <2>1. PICK l, k \in 0 .. TextLimit : l = f.len + 1 /\ k = f.cursor + 1 /\ k <= l
    BY <1>1, <1>2
  <2>2. Typed(f) = [len |-> l, cursor |-> k]
    BY <1>2, <2>1 DEF Typed
  <2> QED BY <2>1, <2>2 DEF FieldType
<1>3. CASE ~(f.len < TextLimit)
  BY <1>3 DEF Typed
<1> QED BY <1>2, <1>3

(* And the other keys. *)
LEMMA EditedIs ==
  ASSUME NEW f \in FieldType, NEW g \in Edited(f)
  PROVE  g \in FieldType
<1>1. f \in [len : 0 .. TextLimit, cursor : 0 .. TextLimit] /\ f.cursor <= f.len /\ TextLimit \in Nat
  BY DesktopAssumption DEF FieldType
<1>2. \A k \in 0 .. f.len : [f EXCEPT !.cursor = k] \in FieldType
  <2> TAKE k \in 0 .. f.len
  <2>1. [f EXCEPT !.cursor = k] \in CaretAt(f)
    BY DEF CaretAt
  <2> QED BY <2>1, CaretIs
<1>3. CASE g = [f EXCEPT !.cursor = IF f.cursor > 0 THEN f.cursor - 1 ELSE 0]
  <2>1. (IF f.cursor > 0 THEN f.cursor - 1 ELSE 0) \in 0 .. f.len
    BY <1>1
  <2> QED BY <1>2, <1>3, <2>1
<1>4. CASE g = [f EXCEPT !.cursor = IF f.cursor < f.len THEN f.cursor + 1 ELSE f.len]
  <2>1. (IF f.cursor < f.len THEN f.cursor + 1 ELSE f.len) \in 0 .. f.len
    BY <1>1
  <2> QED BY <1>2, <1>4, <2>1
<1>5. CASE g = [f EXCEPT !.cursor = 0] \/ g = [f EXCEPT !.cursor = f.len]
  <2>1. 0 \in 0 .. f.len /\ f.len \in 0 .. f.len
    BY <1>1
  <2> QED BY <1>2, <1>5, <2>1
<1>6. CASE g = IF f.cursor < f.len THEN [f EXCEPT !.len = f.len - 1] ELSE f
  <2>1. CASE f.cursor < f.len
    <3>1. PICK l \in 0 .. TextLimit : l = f.len - 1 /\ f.cursor <= l
      BY <1>1, <2>1
    <3>2. g = [f EXCEPT !.len = l]
      BY <1>6, <2>1, <3>1
    <3>3. g \in [len : 0 .. TextLimit, cursor : 0 .. TextLimit] /\ g.len = l /\ g.cursor = f.cursor
      BY <1>1, <3>1, <3>2
    <3> QED BY <3>1, <3>3 DEF FieldType
  <2> QED BY <1>6, <2>1
<1>7. CASE g = IF f.cursor > 0 THEN [len |-> f.len - 1, cursor |-> f.cursor - 1] ELSE f
  <2>1. CASE f.cursor > 0
    <3>1. PICK l, k \in 0 .. TextLimit : l = f.len - 1 /\ k = f.cursor - 1 /\ k <= l
      BY <1>1, <2>1
    <3>2. g = [len |-> l, cursor |-> k]
      BY <1>7, <2>1, <3>1
    <3> QED BY <3>1, <3>2 DEF FieldType
  <2> QED BY <1>7, <2>1
<1> QED BY <1>3, <1>4, <1>5, <1>6, <1>7 DEF Edited

-----------------------------------------------------------------------------
(* The pointer. *)

(* The scope of a window that is on screen is on screen, and accepts it. *)
LEMMA ScopeOfIs ==
  ASSUME NEW ws, Stack(ws), NEW id \in OnScreen(ws)
  PROVE  ScopeOn(ws, ScopeOf(Win(ws, id))) /\ Accepts(ScopeOf(Win(ws, id)), Win(ws, id))
<1>1. PICK w : w = Win(ws, id)
  OBVIOUS
<1>2. w \in Window /\ w.id = id
  BY <1>1, WinIs DEF OnScreen
<1>3. w.role \in {"W", "L", "P", "D"} /\ w.id # Screen
  BY <1>2, DesktopAssumption DEF Window
<1>4. ScopeOn(ws, ScopeOf(w))
  BY <1>2 DEF ScopeOn, ScopeOf
<1>5. Accepts(ScopeOf(w), w)
  BY <1>3 DEF Accepts, ScopeOf
<1> QED BY <1>1, <1>4, <1>5

(* Maximizing and restoring keep a window sound. *)
LEMMA MaximizedIs ==
  ASSUME NEW w \in Window, Sound(w)
  PROVE  /\ Maximized(w) \in Window /\ Maximized(w).id = w.id /\ Maximized(w).rows = w.rows
         /\ Maximized(w).role = w.role /\ Maximized(w).minimized = w.minimized /\ Sound(Maximized(w))
<1>1. PICK u : u = IF w.maximized THEN [w EXCEPT !.maximized = FALSE, !.view = w.restore]
                   ELSE [w EXCEPT !.maximized = TRUE, !.restore = w.view, !.view = BigView]
  OBVIOUS
<1>2. /\ u \in Window /\ u.id = w.id /\ u.rows = w.rows /\ u.role = w.role
      /\ u.minimized = w.minimized /\ u.native = w.native /\ (u.maximized => u.restore # 0)
  <2>1. CASE w.maximized
    <3>1. PICK a : a = [w EXCEPT !.maximized = FALSE]
      OBVIOUS
    <3>2. a \in Window
      BY <3>1 DEF Window
    <3>3. ~a.maximized
      BY <3>1 DEF Window
    <3>4. /\ a.id = w.id /\ a.rows = w.rows /\ a.role = w.role /\ a.restore = w.restore
          /\ a.minimized = w.minimized /\ a.native = w.native
      BY <3>1 DEF Window
    <3>5. w.restore \in Nat \ {0}
      BY <2>1, RowsAre DEF Sound
    <3>6. PICK b : b = [a EXCEPT !.view = w.restore]
      OBVIOUS
    <3>7. /\ b \in Window /\ b.id = a.id /\ b.rows = a.rows /\ b.role = a.role
          /\ b.minimized = a.minimized /\ b.native = a.native /\ b.maximized = a.maximized
      BY <3>2, <3>5, <3>6 DEF Window
    <3>8. [w EXCEPT !.maximized = FALSE, !.view = w.restore] = b
      BY <3>1, <3>6, Zenon
    <3>9. u = b
      BY <1>1, <2>1, <3>8, Zenon
    <3> QED BY <3>3, <3>4, <3>7, <3>9
  <2>2. CASE ~w.maximized
    <3>1. PICK a : a = [w EXCEPT !.maximized = TRUE]
      OBVIOUS
    <3>2. a \in Window
      BY <3>1 DEF Window
    <3>3. /\ a.id = w.id /\ a.rows = w.rows /\ a.role = w.role
          /\ a.minimized = w.minimized /\ a.native = w.native
      BY <3>1 DEF Window
    <3>4. w.view \in Nat \ {0} /\ BigView \in Nat \ {0}
      BY RowsAre, DesktopAssumption
    <3>5. PICK b : b = [a EXCEPT !.restore = w.view]
      OBVIOUS
    <3>6. /\ b \in Window /\ b.id = a.id /\ b.rows = a.rows /\ b.role = a.role
          /\ b.minimized = a.minimized /\ b.native = a.native /\ b.restore # 0
      BY <3>2, <3>4, <3>5 DEF Window
    <3>7. PICK c : c = [b EXCEPT !.view = BigView]
      OBVIOUS
    <3>8. /\ c \in Window /\ c.id = b.id /\ c.rows = b.rows /\ c.role = b.role
          /\ c.minimized = b.minimized /\ c.native = b.native /\ c.restore = b.restore
      BY <3>4, <3>6, <3>7 DEF Window
    <3>9. [w EXCEPT !.maximized = TRUE, !.restore = w.view, !.view = BigView] = c
      BY <3>1, <3>5, <3>7, Zenon
    <3>10. u = c
      BY <1>1, <2>2, <3>9, Zenon
    <3> QED BY <3>3, <3>6, <3>8, <3>10
  <2> QED BY <2>1, <2>2
<1>3. PICK v : v = Maximized(w)
  OBVIOUS
<1>4. Clamped(u, v)
  BY <1>1, <1>2, <1>3, ClampIs DEF Maximized
<1>5. /\ v \in Window /\ v.id = w.id /\ v.rows = w.rows /\ v.role = w.role /\ v.minimized = w.minimized
      /\ v.native = w.native /\ (v.maximized => v.restore # 0) /\ v.scroll \in 0 .. MaxScroll(v)
  BY <1>2, <1>4 DEF Clamped
<1>6. Sound(v)
  BY <1>5 DEF Sound
<1> QED BY <1>3, <1>5, <1>6

(* Close, minimize and maximize. *)
LEMMA ChromeKeeps ==
  ASSUME NEW d, DeskOK(d), NEW id \in OnScreen(d.windows), NEW e \in Chrome(d, Win(d.windows, id))
  PROVE  DeskOK(e)
<1>1. PICK w : w = Win(d.windows, id)
  OBVIOUS
<1>2. id \in Ids(d.windows) /\ Stack(d.windows) /\ w \in Window /\ w.id = id /\ Sound(w)
  BY <1>1, WinOf DEF OnScreen, DeskOK
<1>3. PICK s : s = SetScope(d, ScopeOf(w))
  OBVIOUS
<1>4. DeskOK(s) /\ s.windows = d.windows
  BY <1>1, <1>2, <1>3, ScopeOfIs, ScopedKeeps
<1>5. IsDesk(s) /\ Base(s) /\ Wins(s.windows)
  BY <1>4 DEF DeskOK, Base
<1>6. PICK rest : rest = [s EXCEPT !.windows = Without(s.windows, id)]
  OBVIOUS
<1>7. \A v : [rest EXCEPT !.windows = Append(rest.windows, v)]
               = [s EXCEPT !.windows = Append(Without(s.windows, id), v)]
  <2> TAKE v
  <2>1. rest.windows = Without(s.windows, id)
    BY <1>5, <1>6, WithWindows
  <2>2. PICK a, b : a = Without(s.windows, id) /\ b = Append(Without(s.windows, id), v)
    OBVIOUS
  <2>3. [[s EXCEPT !.windows = a] EXCEPT !.windows = b] = [s EXCEPT !.windows = b]
    BY <1>5 DEF IsDesk
  <2> QED BY <1>6, <2>1, <2>2, <2>3
<1>8. PICK v : v = [w EXCEPT !.minimized = TRUE]
  OBVIOUS
<1>9. DeskOK(Repair([s EXCEPT !.windows = Append(Without(s.windows, id), v)]))
  <2>1. v \in Window /\ v.id = id /\ v.rows = w.rows /\ Sound(v)
    BY <1>2, <1>8, MinimizeIs
  <2>2. PICK new : new = Append(Without(s.windows, id), v)
    OBVIOUS
  <2>3. Sets(s.windows, new, v)
    BY <1>2, <1>4, <2>1, <2>2, RaiseSets
  <2>4. Base([s EXCEPT !.windows = new])
    BY <1>1, <1>2, <1>4, <1>5, <2>1, <2>3, SetBase
  <2> QED BY <2>2, <2>4, RepairKeeps
<1>10. CASE w.native /\ e = Repair(rest)
  <2>1. Drops(s.windows, Without(s.windows, id), id)
    BY <1>2, <1>4, WithoutDrops
  <2>2. IsDesk(rest) /\ rest.windows = Without(s.windows, id) /\ rest.edits = s.edits
    BY <1>5, <1>6, WithWindows
  <2>3. Wins(rest.windows)
    BY <1>2, <1>4, <1>5, <2>1, <2>2, DropWins
  <2>4. ASSUME NEW c \in DOMAIN rest.edits PROVE rest.edits[c] \in FieldType /\ Holds(rest.windows, c)
    <3>1. rest.edits[c] \in FieldType /\ Holds(s.windows, c)
      BY <1>5, <2>2 DEF Base, EditsOK
    <3>2. c[1] # id
      BY <1>1, <1>2, <1>4, <1>10, <3>1 DEF Holds, Sound
    <3>3. c[1] \in Ids(rest.windows) /\ Win(rest.windows, c[1]) = Win(s.windows, c[1])
      BY <2>1, <2>2, <3>1, <3>2 DEF Drops, Holds
    <3> QED BY <3>1, <3>3 DEF Holds
  <2>5. Base(rest)
    BY <2>2, <2>3, <2>4 DEF Base, EditsOK
  <2> QED BY <1>10, <2>5, RepairKeeps
<1>11. CASE e = Repair([rest EXCEPT !.windows = Append(rest.windows, v)])
  BY <1>7, <1>9, <1>11
<1>12. CASE e = [rest EXCEPT !.windows = Append(rest.windows, Maximized(w))]
  <2>1. PICK m : m = Maximized(w)
    OBVIOUS
  <2>2. /\ m \in Window /\ m.id = id /\ m.rows = w.rows /\ m.role = w.role
        /\ m.minimized = w.minimized /\ Sound(m)
    BY <1>2, <2>1, MaximizedIs
  <2>3. PICK new : new = Append(Without(s.windows, id), m)
    OBVIOUS
  <2>4. Sets(s.windows, new, m)
    BY <1>2, <1>4, <2>2, <2>3, RaiseSets
  <2>5. DeskOK([s EXCEPT !.windows = new])
    BY <1>1, <1>2, <1>4, <2>2, <2>4, SetDesk
  <2> QED BY <1>7, <1>12, <2>1, <2>3, <2>5
<1> QED BY <1>1, <1>2, <1>3, <1>6, <1>8, <1>10, <1>11, <1>12 DEF Chrome

(* The row that was pressed is a row. *)
LEMMA PressedRowIs ==
  ASSUME NEW d, NEW w \in Window, NEW line, NEW slot, PressedRow(d, w, line, slot) # None
  PROVE  \E i \in DOMAIN w.rows : PressedRow(d, w, line, slot) = <<w.id, i>>
<1>1. PICK rows : rows = RowsAt([d EXCEPT !.windows = Without(@, w.id)], w, line, slot)
  OBVIOUS
<1>2. PressedRow(d, w, line, slot) = IF rows = {} THEN None ELSE <<w.id, First(rows)>>
  BY <1>1 DEF PressedRow
<1>3. rows \subseteq DOMAIN w.rows
  BY <1>1 DEF RowsAt
<1>4. rows \subseteq Nat
  BY <1>3, RowsAre
<1>5. rows # {} => First(rows) \in rows
  BY <1>4, LeastOf DEF First
<1> QED BY <1>2, <1>3, <1>5

(* It has the focus, if it takes it. *)
LEMMA FocusedKeeps ==
  ASSUME NEW d, DeskOK(d), NEW w, w.id \in OnScreen(d.windows), w = Win(d.windows, w.id),
         Accepts(d.scope, w), NEW line, NEW slot, NEW e \in FocusedAt(d, w, line, slot)
  PROVE  DeskOK(e)
<1>1. DeskOK([d EXCEPT !.focused = None])
  <2>1. PICK f : f = [d EXCEPT !.focused = None]
    OBVIOUS
  <2>2. IsDesk(f) /\ f.windows = d.windows /\ f.scope = d.scope /\ f.focused = None /\ f.edits = d.edits
    BY <2>1, WithFocus DEF DeskOK, Base
  <2> QED BY <2>1, <2>2 DEF DeskOK, Base, EditsOK, FocusOK
<1>2. CASE e \in Focused(d, w, PressedRow(d, w, line, slot))
  <2>1. PICK c : c = PressedRow(d, w, line, slot)
    OBVIOUS
  <2>2. CASE c = None \/ w.rows[c[2]].disabled \/ ~w.rows[c[2]].focusable
    BY <1>1, <1>2, <2>1, <2>2 DEF Focused
  <2>3. CASE ~(c = None \/ w.rows[c[2]].disabled \/ ~w.rows[c[2]].focusable)
    <3>1. w \in Window
      BY WinOf DEF DeskOK, OnScreen
    <3>2. PICK i \in DOMAIN w.rows : c = <<w.id, i>>
      BY <2>1, <2>3, <3>1, PressedRowIs
    <3>3. c[1] = w.id /\ c[2] = i
      BY <3>2
    <3>4. Takes(d.windows, d.scope, c)
      BY <2>3, <3>2, <3>3 DEF Takes
    <3>5. PICK f : f = [d EXCEPT !.focused = c]
      OBVIOUS
    <3>6. IsDesk(f) /\ f.windows = d.windows /\ f.scope = d.scope /\ f.focused = c /\ f.edits = d.edits
      BY <3>5, WithFocus DEF DeskOK, Base
    <3>7. DeskOK(f) /\ Base(f)
      BY <3>4, <3>6 DEF DeskOK, Base, EditsOK, FocusOK
    <3>8. CASE Editable(w.rows[c[2]])
      <4>1. PICK g \in CaretAt(Field(f, c)) : e = SetField(f, c, g)
        BY <1>2, <2>1, <2>3, <3>5, <3>8 DEF Focused
      <4>2. g \in FieldType
        BY <3>7, <4>1, FieldIs, CaretIs DEF Base
      <4>3. Holds(f.windows, c)
        BY <3>2, <3>3, <3>6, <3>8 DEF Holds, OnScreen
      <4>4. Base(e) /\ e.windows = f.windows /\ e.scope = f.scope /\ e.focused = f.focused
        BY <3>7, <4>1, <4>2, <4>3, SetFieldKeeps
      <4> QED BY <3>7, <4>4 DEF DeskOK, FocusOK
    <3>9. CASE ~Editable(w.rows[c[2]])
      <4>1. e = f
        BY <1>2, <2>1, <2>3, <3>5, <3>9 DEF Focused
      <4> QED BY <3>7, <4>1
    <3> QED BY <3>8, <3>9
  <2> QED BY <2>2, <2>3
<1>3. CASE e \in {[d EXCEPT !.focused = None], d}
  BY <1>1, <1>3
<1> QED BY <1>2, <1>3 DEF FocusedAt

(* The window under the pointer is raised, and its scope set. *)
Raised(d, id, w) == [SetScope(d, ScopeOf(w)) EXCEPT !.windows = Append(Without(@, id), w)]
(* It accepts the focus for the controls of that window. *)
LEMMA RaisedIs ==
  ASSUME NEW d, DeskOK(d), NEW id \in OnScreen(d.windows), NEW w, w = Win(d.windows, id), NEW e,
         e = Raised(d, id, w)
  PROVE  /\ DeskOK(e) /\ w.id \in OnScreen(e.windows) /\ w = Win(e.windows, w.id)
         /\ Accepts(e.scope, w)
<1>1. id \in Ids(d.windows) /\ Stack(d.windows) /\ w \in Window /\ w.id = id /\ Sound(w) /\ ~w.minimized
  BY WinOf DEF OnScreen, DeskOK
<1>2. PICK s : s = SetScope(d, ScopeOf(w))
  OBVIOUS
<1>3. ScopeOn(d.windows, ScopeOf(w)) /\ Accepts(ScopeOf(w), w)
  BY <1>1, ScopeOfIs
<1>4. DeskOK(s) /\ s.windows = d.windows /\ s.scope = ScopeOf(w)
  BY <1>2, <1>3, ScopedKeeps
<1>5. PICK new : new = Append(Without(s.windows, id), w)
  OBVIOUS
<1>6. Sets(s.windows, new, w)
  BY <1>1, <1>4, <1>5, RaiseSets
<1>7. PICK f : f = [s EXCEPT !.windows = new]
  OBVIOUS
<1>8. DeskOK(f)
  <2>1. w.rows = Win(s.windows, w.id).rows /\ w.role = Win(s.windows, w.id).role /\ w.id \in Ids(s.windows)
    BY <1>1, <1>4
  <2> QED BY <1>1, <1>4, <1>6, <1>7, <2>1, SetDesk
<1>9. f.windows = new /\ f.scope = s.scope
  <2>1. IsDesk(s)
    BY <1>4 DEF DeskOK, Base
  <2> QED BY <1>7, <2>1, WithWindows
<1>10. w.id \in Ids(new) /\ Win(new, w.id) = w
  BY <1>1, <1>4, <1>6 DEF Sets
<1>11. e = f
  BY <1>2, <1>5, <1>7 DEF Raised
<1> QED BY <1>1, <1>3, <1>4, <1>8, <1>9, <1>10, <1>11 DEF OnScreen

-----------------------------------------------------------------------------
(* The keyboard. *)

(* The field that has the focus is one that the windows hold. *)
LEMMA EditFocusIs ==
  ASSUME EditFocus # None
  PROVE  Holds(desk.windows, EditFocus)
<1>1. EditFocus = desk.focused
  BY DEF EditFocus
<1>2. /\ desk.focused[1] \in OnScreen(desk.windows)
      /\ desk.focused[2] \in DOMAIN Win(desk.windows, desk.focused[1]).rows
      /\ Editable(Win(desk.windows, desk.focused[1]).rows[desk.focused[2]])
  BY DEF EditFocus
<1> QED BY <1>1, <1>2 DEF Holds, OnScreen

(* Of the controls that Tab may go to, one comes first. *)
LEMMA Foremost ==
  ASSUME NEW ws, Stack(ws), NEW cs, cs # {}, NEW reverse \in BOOLEAN,
         \A c \in cs : c[1] \in Ids(ws) /\ c[2] \in DOMAIN Win(ws, c[1]).rows
  PROVE  \E c \in cs : \A e \in cs : ~(IF reverse THEN Before(ws, c, e) ELSE Before(ws, e, c))
<1>1. \A c \in cs : Place(ws, c[1]) \in 1 .. Len(ws) /\ Len(ws) \in Nat
  BY StackIs
<1>2. \A c \in cs : c[2] \in 1 .. Len(Win(ws, c[1]).rows) /\ Len(Win(ws, c[1]).rows) \in Nat
  BY WinIs, RowsAre
<1>3. PICK places : places = {Place(ws, c[1]) : c \in cs}
  OBVIOUS
<1>4. places # {} /\ places \subseteq Nat /\ places \subseteq 0 .. Len(ws) /\ Len(ws) \in Nat
  <2>1. PICK c : c \in cs
    OBVIOUS
  <2>2. Place(ws, c[1]) \in places /\ Len(ws) \in Nat
    BY <1>1, <1>3, <2>1
  <2>3. ASSUME NEW p \in places PROVE p \in Nat /\ p \in 0 .. Len(ws)
    <3>1. PICK x \in cs : p = Place(ws, x[1])
      BY <1>3
    <3> QED BY <1>1, <3>1
  <2> QED BY <2>2, <2>3
<1>5. ASSUME NEW p \in places
      PROVE  /\ {c[2] : c \in {x \in cs : Place(ws, x[1]) = p}} # {}
             /\ {c[2] : c \in {x \in cs : Place(ws, x[1]) = p}} \subseteq Nat
             /\ Len(ws[p].rows) \in Nat
             /\ {c[2] : c \in {x \in cs : Place(ws, x[1]) = p}} \subseteq 0 .. Len(ws[p].rows)
  <2>1. PICK c \in cs : p = Place(ws, c[1])
    BY <1>3
  <2>2. Win(ws, c[1]) = ws[p]
    BY <2>1 DEF Win
  <2>3. ASSUME NEW x \in cs, Place(ws, x[1]) = p PROVE x[2] \in 1 .. Len(ws[p].rows)
    <3>1. Win(ws, x[1]) = ws[p]
      BY <2>3 DEF Win
    <3> QED BY <1>2, <3>1
  <2>4. Len(ws[p].rows) \in Nat
    BY <1>2, <2>1, <2>2
  <2> QED BY <2>1, <2>3, <2>4
<1>6. CASE ~reverse
  <2>1. PICK p \in places : \A q \in places : p <= q
    BY <1>4, LeastOf
  <2>2. PICK rows : rows = {c[2] : c \in {x \in cs : Place(ws, x[1]) = p}}
    OBVIOUS
  <2>3. PICK i \in rows : \A j \in rows : i <= j
    BY <1>5, <2>2, LeastOf
  <2>4. PICK c \in cs : Place(ws, c[1]) = p /\ c[2] = i
    BY <2>2, <2>3
  <2>5. ASSUME NEW e \in cs, Before(ws, e, c) PROVE FALSE
    <3>1. Place(ws, e[1]) \in places /\ Place(ws, e[1]) \in Nat /\ p \in Nat
      BY <1>3, <1>4
    <3>2. p <= Place(ws, e[1])
      BY <2>1, <3>1
    <3>3. Place(ws, e[1]) = p /\ e[2] < i
      BY <2>4, <2>5, <3>1, <3>2 DEF Before
    <3>4. e[2] \in rows
      BY <2>2, <3>3
    <3>5. i <= e[2] /\ i \in Nat /\ e[2] \in Nat
      BY <1>5, <2>2, <2>3, <3>4
    <3> QED BY <3>3, <3>5
  <2> QED BY <1>6, <2>4, <2>5
<1>7. CASE reverse
  <2>1. PICK p \in places : \A q \in places : q <= p
    BY <1>4, GreatestOf
  <2>2. PICK rows : rows = {c[2] : c \in {x \in cs : Place(ws, x[1]) = p}}
    OBVIOUS
  <2>3. PICK i \in rows : \A j \in rows : j <= i
    BY <1>5, <2>2, GreatestOf
  <2>4. PICK c \in cs : Place(ws, c[1]) = p /\ c[2] = i
    BY <2>2, <2>3
  <2>5. ASSUME NEW e \in cs, Before(ws, c, e) PROVE FALSE
    <3>1. Place(ws, e[1]) \in places /\ Place(ws, e[1]) \in Nat /\ p \in Nat
      BY <1>3, <1>4
    <3>2. Place(ws, e[1]) <= p
      BY <2>1, <3>1
    <3>3. Place(ws, e[1]) = p /\ i < e[2]
      BY <2>4, <2>5, <3>1, <3>2 DEF Before
    <3>4. e[2] \in rows
      BY <2>2, <3>3
    <3>5. e[2] <= i /\ i \in Nat /\ e[2] \in Nat
      BY <1>5, <2>2, <2>3, <3>4
    <3> QED BY <3>3, <3>5
  <2> QED BY <1>7, <2>4, <2>5
<1> QED BY <1>6, <1>7

(* focus_next gives the focus to one of the controls, or to none. *)
LEMMA FocusNextIs ==
  ASSUME NEW d, Stack(d.windows), NEW reverse \in BOOLEAN
  PROVE  \E c \in Controls(d) \cup {None} : FocusNext(d, reverse) = [d EXCEPT !.focused = c]
<1>1. PICK cs : cs = Controls(d)
  OBVIOUS
<1>2. PICK after : after = {c \in cs : /\ d.focused \in cs
                                       /\ IF reverse THEN Before(d.windows, c, d.focused)
                                                     ELSE Before(d.windows, d.focused, c)}
  OBVIOUS
<1>3. PICK from : from = IF after = {} THEN cs ELSE after
  OBVIOUS
<1>4. PICK c : c = IF cs = {} THEN None
                   ELSE CHOOSE x \in from : \A e \in from : ~(IF reverse THEN Before(d.windows, x, e)
                                                                         ELSE Before(d.windows, e, x))
  OBVIOUS
<1>5. FocusNext(d, reverse) = [d EXCEPT !.focused = c]
  BY <1>1, <1>2, <1>3, <1>4 DEF FocusNext
<1>6. from \subseteq cs /\ (cs # {} => from # {})
  BY <1>2, <1>3
<1>7. \A x \in cs : x[1] \in Ids(d.windows) /\ x[2] \in DOMAIN Win(d.windows, x[1]).rows
  BY <1>1 DEF Controls, Usable, OnScreen
<1>8. CASE cs # {}
  <2>1. \E x \in from : \A e \in from : ~(IF reverse THEN Before(d.windows, x, e) ELSE Before(d.windows, e, x))
    <3>1. from # {} /\ \A x \in from : x[1] \in Ids(d.windows) /\ x[2] \in DOMAIN Win(d.windows, x[1]).rows
      BY <1>6, <1>7, <1>8
    <3> QED BY <3>1, Foremost
  <2>2. c \in from
    BY <1>4, <1>8, <2>1
  <2> QED BY <1>1, <1>5, <1>6, <2>2
<1>9. CASE cs = {}
  BY <1>4, <1>5, <1>9
<1> QED BY <1>8, <1>9

(* What Tab leaves: the focused row is in view and not filtered out. *)
InView(d) ==
  d.focused # None =>
    LET w == Win(d.windows, d.focused[1]) IN
    /\ Scrollable(w) => w.rows[d.focused[2]].line \in w.scroll + 1 .. w.scroll + w.view
    /\ IsResult(w.rows[d.focused[2]]) /\ w.id \in Filtered /\ Query(d, w) # 0
         => w.rows[d.focused[2]].hit

(* A row that Usable lets through is not filtered out, however the window  *)
(* is scrolled.                                                            *)
LEMMA NotFiltered ==
  ASSUME NEW d, NEW w, NEW i, Matches(d, w, i), NEW e, NEW v, e.edits = d.edits,
         Ids(e.windows) = Ids(d.windows), v.id = w.id, v.rows = w.rows
  PROVE  IsResult(v.rows[i]) /\ v.id \in Filtered /\ Query(e, v) # 0 => v.rows[i].hit
<1>1. \A c : Field(e, c) = Field(d, c)
  BY DEF Field
<1>2. Query(e, v) = Query(d, w)
  BY <1>1 DEF Query
<1> QED BY <1>2 DEF Matches

(* ensure_focused_visible scrolls to the row, and no further than it may. *)
LEMMA ScrolledTo ==
  ASSUME NEW w \in Window, Sound(w), Scrollable(w), NEW i \in DOMAIN w.rows, w.rows[i].line # 0, NEW s,
         s = IF w.rows[i].line <= w.scroll THEN w.rows[i].line - 1
             ELSE IF w.rows[i].line > w.scroll + w.view THEN w.rows[i].line - w.view ELSE w.scroll
  PROVE  /\ Clamp([w EXCEPT !.scroll = s]).scroll = s
         /\ Clamp([w EXCEPT !.scroll = s]) \in Window /\ Clamp([w EXCEPT !.scroll = s]).id = w.id
         /\ Clamp([w EXCEPT !.scroll = s]).rows = w.rows /\ Clamp([w EXCEPT !.scroll = s]).role = w.role
         /\ Clamp([w EXCEPT !.scroll = s]).view = w.view
         /\ Clamp([w EXCEPT !.scroll = s]).minimized = w.minimized
         /\ Sound(Clamp([w EXCEPT !.scroll = s]))
         /\ w.rows[i].line \in Clamp([w EXCEPT !.scroll = s]).scroll + 1 ..
                                 Clamp([w EXCEPT !.scroll = s]).scroll + w.view
<1>1. PICK l, n, p, m : l = w.rows[i].line /\ n = w.view /\ p = w.scroll /\ m = MaxScroll(w)
  OBVIOUS
<1>2. l \in Nat \ {0} /\ n \in Nat \ {0} /\ p \in 0 .. m /\ m \in Nat /\ l - n <= m
  BY <1>1, RowsAre, MaxScrollIs DEF Sound
<1>3. s = IF l <= p THEN l - 1 ELSE IF l > p + n THEN l - n ELSE p
  BY <1>1
<1>4. s \in Int /\ s \in 0 .. m /\ l \in s + 1 .. s + n
  BY <1>2, <1>3
<1>5. PICK u : u = [w EXCEPT !.scroll = s]
  OBVIOUS
<1>6. /\ u \in Window /\ u.scroll = s /\ MaxScroll(u) = m /\ u.id = w.id /\ u.rows = w.rows
      /\ u.role = w.role /\ u.view = w.view /\ u.minimized = w.minimized
      /\ u.maximized = w.maximized /\ u.native = w.native /\ u.restore = w.restore
  BY <1>1, <1>4, <1>5, ScrollTo
<1>7. PICK v : v = Clamp(u)
  OBVIOUS
<1>8. Clamped(u, v)
  BY <1>6, <1>7, ClampIs
<1>9. /\ v \in Window /\ v.scroll = s /\ v.id = w.id /\ v.rows = w.rows /\ v.role = w.role
      /\ v.view = n /\ v.minimized = w.minimized /\ v.maximized = w.maximized /\ v.native = w.native
      /\ v.restore = w.restore /\ v.scroll \in 0 .. MaxScroll(v)
  BY <1>1, <1>4, <1>6, <1>8 DEF Clamped
<1>10. Sound(v)
  BY <1>9 DEF Sound
<1> QED BY <1>1, <1>4, <1>5, <1>7, <1>9, <1>10

(* Tab keeps the invariant, and leaves the focused control in view. *)
LEMMA TabKeeps ==
  ASSUME NEW d, DeskOK(d), NEW reverse \in BOOLEAN
  PROVE  DeskOK(EnsureVisible(FocusNext(d, reverse))) /\ InView(EnsureVisible(FocusNext(d, reverse)))
<1>1. IsDesk(d) /\ Stack(d.windows) /\ Base(d)
  BY DEF DeskOK, Base, Wins
<1>2. PICK c \in Controls(d) \cup {None} : FocusNext(d, reverse) = [d EXCEPT !.focused = c]
  BY <1>1, FocusNextIs
<1>3. PICK f : f = [d EXCEPT !.focused = c]
  OBVIOUS
<1>4. IsDesk(f) /\ f.windows = d.windows /\ f.scope = d.scope /\ f.focused = c /\ f.edits = d.edits
  BY <1>1, <1>3, WithFocus
<1>5. PICK w : w = Win(d.windows, c[1])
  OBVIOUS
<1>6. c # None => /\ Takes(d.windows, d.scope, c) /\ Matches(d, w, c[2]) /\ w.rows[c[2]].line # 0
                  /\ c[1] \in Ids(d.windows) /\ c[2] \in DOMAIN w.rows
  <2>1. c # None => Usable(d, c) /\ w.rows[c[2]].line # 0
    BY <1>2, <1>5 DEF Controls
  <2> QED BY <1>5, <2>1 DEF Usable, Takes, Accepts, InScope, OnScreen
<1>7. DeskOK(f)
  BY <1>1, <1>4, <1>6 DEF DeskOK, Base, EditsOK, FocusOK
<1>8. CASE c = None \/ ~Scrollable(w)
  <2>1. EnsureVisible(f) = f
    BY <1>4, <1>5, <1>8 DEF EnsureVisible
  <2>2. c # None => (IsResult(w.rows[c[2]]) /\ w.id \in Filtered /\ Query(f, w) # 0 => w.rows[c[2]].hit)
    BY <1>4, <1>6, NotFiltered
  <2>3. InView(f)
    BY <1>4, <1>5, <1>8, <2>2 DEF InView
  <2> QED BY <1>2, <1>3, <1>7, <2>1, <2>3
<1>9. CASE c # None /\ Scrollable(w)
  <2>1. w \in Window /\ w.id = c[1] /\ Sound(w)
    BY <1>1, <1>5, <1>6, <1>9, WinOf
  <2>2. PICK s : s = IF w.rows[c[2]].line <= w.scroll THEN w.rows[c[2]].line - 1
                     ELSE IF w.rows[c[2]].line > w.scroll + w.view THEN w.rows[c[2]].line - w.view
                     ELSE w.scroll
    OBVIOUS
  <2>3. PICK v : v = Clamp([w EXCEPT !.scroll = s])
    OBVIOUS
  <2>4. /\ v \in Window /\ v.id = w.id /\ v.rows = w.rows /\ v.role = w.role /\ v.view = w.view
        /\ v.minimized = w.minimized /\ Sound(v)
        /\ w.rows[c[2]].line \in v.scroll + 1 .. v.scroll + w.view
    BY <1>6, <1>9, <2>1, <2>2, <2>3, ScrolledTo
  <2>5. PICK new : new = Update(d.windows, v)
    OBVIOUS
  <2>6. Sets(d.windows, new, v)
    BY <1>1, <1>6, <1>9, <2>1, <2>4, <2>5, UpdateSets
  <2>7. PICK e : e = [f EXCEPT !.windows = new]
    OBVIOUS
  <2>8. EnsureVisible(f) = e
    BY <1>4, <1>5, <1>9, <2>2, <2>3, <2>5, <2>7 DEF EnsureVisible
  <2>9. IsDesk(e) /\ e.windows = new /\ e.focused = c /\ e.edits = d.edits
    BY <1>4, <2>7, WithWindows
  <2>10. DeskOK(e)
    BY <1>4, <1>5, <1>6, <1>7, <1>9, <2>1, <2>4, <2>6, <2>7, SetDesk
  <2>11. Win(e.windows, c[1]) = v /\ Ids(e.windows) = Ids(d.windows)
    BY <2>1, <2>4, <2>6, <2>9 DEF Sets
  <2>12. IsResult(v.rows[c[2]]) /\ v.id \in Filtered /\ Query(e, v) # 0 => v.rows[c[2]].hit
    BY <1>6, <1>9, <2>4, <2>9, <2>11, NotFiltered
  <2>13. InView(e)
    BY <2>4, <2>9, <2>11, <2>12 DEF InView
  <2> QED BY <1>2, <1>3, <2>8, <2>10, <2>13
<1> QED BY <1>8, <1>9

-----------------------------------------------------------------------------
(* The theorems. *)

(* The inductive invariant: also, what is pressed is what was under the    *)
(* pointer when the button went down, and the button is still down.        *)
DeskInv ==
  /\ DeskOK(desk)
  /\ leftDown \in BOOLEAN
  /\ pressed # None => pressed = downOn /\ leftDown
  /\ did.what = "tab" => InView(desk)

(* The step that FiresSound allows. *)
Fires ==
  did'.fired # None =>
    \/ did'.what = "release" /\ did'.fired = downOn /\ leftDown
    \/ did'.what = "activate" /\ did'.fired = desk.focused /\ Usable(desk, desk.focused)

(* What an operation has to keep when it fires nothing. *)
LEMMA Quiet ==
  ASSUME DeskOK(desk'), leftDown' \in BOOLEAN, pressed' # None => pressed' = downOn' /\ leftDown',
         NEW what \in {"other", "header", "press"}, did' = Did(what, None)
  PROVE  DeskInv' /\ Fires
<1>1. did'.what = what /\ did'.fired = None
  BY DEF Did
<1> QED BY <1>1 DEF DeskInv, Fires

(* The initial state. *)
LEMMA DeskStart ==
  ASSUME Init
  PROVE  DeskInv
<1>1. /\ Builtin \in Seq(Window) /\ Len(Builtin) <= MaxWindows /\ Stack(Builtin)
      /\ \A i \in DOMAIN Builtin : ~Builtin[i].native /\ ~Builtin[i].maximized /\ Builtin[i].scroll = 0
  BY DesktopAssumption DEF Stack
<1>2. PICK none : none = <<>>
  OBVIOUS
<1>3. desk = [windows |-> Builtin, scope |-> Screen, focused |-> None, edits |-> none]
  BY <1>2 DEF Init
<1>4. DOMAIN none = {}
  BY <1>2
<1>5. /\ IsDesk(desk) /\ desk.windows = Builtin /\ desk.scope = Screen /\ desk.focused = None
      /\ desk.edits = none
  BY <1>3 DEF IsDesk
<1>6. ASSUME NEW id \in Ids(Builtin) PROVE Sound(Win(Builtin, id))
  <2>1. PICK w : w = Win(Builtin, id)
    OBVIOUS
  <2>2. Place(Builtin, id) \in DOMAIN Builtin /\ w = Builtin[Place(Builtin, id)]
    BY <1>1, <2>1, StackIs DEF Win
  <2>3. w \in Window /\ ~w.native /\ ~w.maximized /\ w.scroll = 0
    BY <1>1, <2>1, <2>2, WinIs
  <2>4. MaxScroll(w) \in Nat
    BY <2>3, MaxScrollIs
  <2>5. w.scroll \in 0 .. MaxScroll(w)
    BY <2>3, <2>4
  <2> QED BY <2>1, <2>3, <2>5 DEF Sound
<1>7. Base(desk)
  BY <1>1, <1>4, <1>5, <1>6 DEF Base, Wins, EditsOK
<1>8. FocusOK(desk)
  BY <1>5 DEF FocusOK, ScopeOn
<1>9. did.what = "other"
  BY DEF Init, Did
<1> QED BY <1>7, <1>8, <1>9 DEF DeskInv, DeskOK, Init

(* The host's commands. *)
LEMMA CommandKeeps ==
  ASSUME DeskInv, Command
  PROVE  DeskInv' /\ Fires
<1>1. PICK d : Host(d) /\ DeskOK(d)
  <2>1. ASSUME NEW id \in Ids(desk.windows), Host(Restored(desk, id)) PROVE \E d : Host(d) /\ DeskOK(d)
    BY <2>1, RestoredKeeps DEF DeskInv
  <2>2. ASSUME NEW id \in Ids(desk.windows), Host(Minimized(desk, id)) PROVE \E d : Host(d) /\ DeskOK(d)
    BY <2>2, MinimizedKeeps DEF DeskInv
  <2>3. ASSUME NEW id \in Ids(desk.windows), Host(Removed(desk, id)) PROVE \E d : Host(d) /\ DeskOK(d)
    BY <2>3, RemovedKeeps DEF DeskInv
  <2>4. ASSUME NEW id \in HostId, NEW role \in {"W", "P"},
               id \in Ids(desk.windows) \/ Len(desk.windows) < MaxWindows, Host(Surfaced(desk, id, role))
        PROVE  \E d : Host(d) /\ DeskOK(d)
    BY <2>4, SurfacedKeeps DEF DeskInv
  <2> QED BY <2>1, <2>2, <2>3, <2>4 DEF Command
<1>2. desk' = d /\ did' = Did("other", None) /\ UNCHANGED <<pressed, leftDown, downOn>>
  BY <1>1 DEF Host
<1> QED BY <1>1, <1>2, Quiet DEF DeskInv

(* The key N. *)
LEMMA OpenTestKeeps ==
  ASSUME DeskInv, OpenTestWindow
  PROVE  DeskInv' /\ Fires
<1>1. DeskOK(desk) /\ Base(desk) /\ IsDesk(desk) /\ Wins(desk.windows) /\ Stack(desk.windows)
  BY DEF DeskInv, DeskOK, Base, Wins
<1>2. PICK v : v = NewWindow("native", "W", <<>>, TRUE)
  OBVIOUS
<1>3. v \in Window /\ v.id = "native" /\ Sound(v)
  <2>1. "native" \in Names /\ <<>> \in Seq(Rows) /\ TRUE \in BOOLEAN
    BY DEF Names
  <2> QED BY <1>2, <2>1, NewWindowIs
<1>4. PICK new : new = Append(desk.windows, v)
  OBVIOUS
<1>5. Adds(desk.windows, new, v)
  BY <1>1, <1>3, <1>4, AppendAdds DEF OpenTestWindow
<1>6. PICK d : d = [desk EXCEPT !.windows = new]
  OBVIOUS
<1>7. IsDesk(d) /\ d.windows = new /\ d.scope = desk.scope /\ d.focused = desk.focused /\ d.edits = desk.edits
  BY <1>1, <1>6, WithWindows
<1>8. Wins(d.windows)
  BY <1>1, <1>3, <1>5, <1>7, AddWins DEF OpenTestWindow
<1>9. SameRows(desk.windows, d.windows)
  BY <1>5, <1>7 DEF Adds, SameRows
<1>10. StillShows(desk.windows, d.windows)
  BY <1>5, <1>7 DEF Adds, StillShows, OnScreen
<1>11. Base(d) /\ DeskOK(d)
  BY <1>1, <1>7, <1>8, <1>9, <1>10, EditsStay, FocusStays DEF Base, DeskOK
<1>12. Host(IF EditFocus = None THEN d ELSE Repair(SetField(d, EditFocus, Typed(Field(d, EditFocus)))))
  BY <1>2, <1>4, <1>6, Zenon DEF OpenTestWindow
<1>13. EditFocus # None => DeskOK(Repair(SetField(d, EditFocus, Typed(Field(d, EditFocus)))))
  <2> SUFFICES ASSUME EditFocus # None
               PROVE  DeskOK(Repair(SetField(d, EditFocus, Typed(Field(d, EditFocus)))))
    OBVIOUS
  <2>1. Holds(desk.windows, EditFocus)
    BY EditFocusIs
  <2>2. Holds(d.windows, EditFocus)
    BY <1>9, <2>1 DEF Holds, SameRows
  <2>3. Typed(Field(d, EditFocus)) \in FieldType
    BY <1>11, FieldIs, TypedIs DEF Base
  <2> QED BY <1>11, <2>2, <2>3, SetFieldKeeps, RepairKeeps
<1>14. PICK e : Host(e) /\ DeskOK(e)
  BY <1>11, <1>12, <1>13
<1>15. desk' = e /\ did' = Did("other", None) /\ UNCHANGED <<pressed, leftDown, downOn>>
  BY <1>14 DEF Host
<1> QED BY <1>14, <1>15, Quiet DEF DeskInv

(* The keys of a field. *)
LEMMA EditKeeps ==
  ASSUME DeskInv, EditKey \/ EditEnter
  PROVE  DeskInv' /\ Fires
<1>1. DeskOK(desk) /\ Base(desk) /\ EditsOK(desk)
  BY DEF DeskInv, DeskOK, Base
<1>2. EditFocus # None
  BY DEF EditKey, EditEnter
<1>3. Holds(desk.windows, EditFocus)
  BY <1>2, EditFocusIs
<1>4. Field(desk, EditFocus) \in FieldType /\ [len |-> 0, cursor |-> 0] \in FieldType
  <2>1. 0 \in 0 .. TextLimit
    BY DesktopAssumption
  <2> QED BY <1>1, <2>1, FieldIs DEF FieldType
<1>5. PICK g \in FieldType : desk' = Repair(SetField(desk, EditFocus, g))
  <2>1. CASE EditKey
    <3>1. PICK g \in {Typed(Field(desk, EditFocus))} \cup Edited(Field(desk, EditFocus)) :
            desk' = Repair(SetField(desk, EditFocus, g))
      BY <2>1 DEF EditKey
    <3>2. g \in FieldType
      BY <1>4, <3>1, TypedIs, EditedIs
    <3> QED BY <3>1, <3>2
  <2>2. CASE EditEnter
    BY <1>4, <2>2 DEF EditEnter
  <2> QED BY <2>1, <2>2
<1>6. DeskOK(desk')
  BY <1>1, <1>3, <1>5, SetFieldKeeps, RepairKeeps
<1>7. did' = Did("other", None) /\ UNCHANGED <<pressed, leftDown, downOn>>
  BY DEF EditKey, EditEnter
<1> QED BY <1>6, <1>7, Quiet DEF DeskInv

(* Tab, and the key that fires the focused control. *)
LEMMA KeyKeeps ==
  ASSUME DeskInv, Key
  PROVE  DeskInv' /\ Fires
<1>1. DeskOK(desk) /\ Base(desk) /\ IsDesk(desk) /\ ScopeOn(desk.windows, desk.scope)
  BY DEF DeskInv, DeskOK, Base, FocusOK
<1>2. PICK d : d = Repair(desk)
  OBVIOUS
<1>3. DeskOK(d) /\ d = [desk EXCEPT !.focused = IF Usable(desk, desk.focused) THEN desk.focused ELSE None]
  BY <1>1, <1>2, RepairKeeps
<1>4. ASSUME NEW reverse \in BOOLEAN, Tab(reverse) PROVE DeskInv' /\ Fires
  <2>1. DeskOK(desk') /\ InView(desk')
    BY <1>2, <1>3, <1>4, TabKeeps DEF Tab
  <2>2. did'.fired = None /\ UNCHANGED <<pressed, leftDown, downOn>>
    BY <1>4 DEF Tab, Did
  <2> QED BY <2>1, <2>2 DEF DeskInv, Fires
<1>5. CASE Activate
  <2>1. desk' = Performed(d, FocusedAction(d)) /\ did' = Did("activate", FocusedAction(d))
    BY <1>2, <1>5 DEF Activate
  <2>2. DeskOK(desk')
    BY <1>3, <2>1, PerformedKeeps
  <2>3. did'.what = "activate" /\ did'.fired = FocusedAction(d) /\ UNCHANGED <<pressed, leftDown, downOn>>
    BY <1>5, <2>1 DEF Did, Activate
  <2>4. d.focused = IF Usable(desk, desk.focused) THEN desk.focused ELSE None
    BY <1>1, <1>3, WithFocus
  <2>5. FocusedAction(d) # None => FocusedAction(d) = desk.focused /\ Usable(desk, desk.focused)
    BY <2>4 DEF FocusedAction
  <2> QED BY <2>2, <2>3, <2>5 DEF DeskInv, Fires
<1> QED BY <1>4, <1>5, EditKeeps DEF Key

(* The pointer. *)
LEMMA PointerKeeps ==
  ASSUME DeskInv, Pointer
  PROVE  DeskInv' /\ Fires
<1>1. DeskOK(desk) /\ Base(desk) /\ Stack(desk.windows) /\ leftDown \in BOOLEAN
  BY DEF DeskInv, DeskOK, Base, Wins
<1>2. ASSUME NEW id \in Ids(desk.windows), PressChrome(id) PROVE DeskInv' /\ Fires
  <2>1. DeskOK(desk')
    BY <1>1, <1>2, ChromeKeeps DEF PressChrome
  <2>2. pressed' = None /\ leftDown' \in BOOLEAN /\ did' = Did("other", None)
    BY <1>2 DEF PressChrome
  <2> QED BY <2>1, <2>2, Quiet
<1>3. ASSUME NEW id \in Ids(desk.windows), Scroll(id) PROVE DeskInv' /\ Fires
  <2>1. PICK w : w = Win(desk.windows, id)
    OBVIOUS
  <2>2. w \in Window /\ w.id = id /\ Sound(w)
    BY <1>1, <1>3, <2>1, WinOf
  <2>3. PICK delta \in {-BigView, -1, 1, BigView} :
          desk' = [desk EXCEPT !.windows =
                     Update(desk.windows, Clamp([w EXCEPT !.scroll = w.scroll + delta]))]
    BY <1>3, <2>1 DEF Scroll
  <2>4. PICK s : s = w.scroll + delta
    OBVIOUS
  <2>5. s \in Int
    BY <2>2, <2>3, <2>4, RowsAre, DesktopAssumption
  <2>6. PICK u : u = [w EXCEPT !.scroll = s]
    OBVIOUS
  <2>7. /\ u \in Window /\ u.id = w.id /\ u.rows = w.rows /\ u.role = w.role
        /\ u.minimized = w.minimized /\ u.maximized = w.maximized /\ u.native = w.native
        /\ u.restore = w.restore
    BY <2>2, <2>5, <2>6, ScrollTo
  <2>8. PICK v : v = Clamp(u)
    OBVIOUS
  <2>9. Clamped(u, v)
    BY <2>7, <2>8, ClampIs
  <2>10. /\ v \in Window /\ v.id = id /\ v.rows = w.rows /\ v.role = w.role
         /\ v.minimized = w.minimized /\ Sound(v)
    BY <2>2, <2>7, <2>9 DEF Clamped, Sound
  <2>11. Sets(desk.windows, Update(desk.windows, v), v)
    BY <1>1, <1>3, <2>10, UpdateSets
  <2>12. desk' = [desk EXCEPT !.windows = Update(desk.windows, v)]
    BY <2>3, <2>4, <2>6, <2>8
  <2>13. DeskOK([desk EXCEPT !.windows = Update(desk.windows, v)])
    BY <1>1, <1>3, <2>1, <2>10, <2>11, SetDesk
  <2>14. DeskOK(desk')
    BY <2>12, <2>13
  <2>15. did' = Did("other", None) /\ UNCHANGED <<pressed, leftDown, downOn>>
    BY <1>3 DEF Scroll
  <2> QED BY <2>14, <2>15, Quiet DEF DeskInv
<1>4. ASSUME NEW id \in Ids(desk.windows), NEW line \in 0 .. BigView, NEW slot \in Slot,
             PressInside(id, line, slot)
      PROVE  DeskInv' /\ Fires
  <2>1. PICK w : w = Win(desk.windows, id)
    OBVIOUS
  <2>2. PICK e : e = Raised(desk, id, w)
    OBVIOUS
  <2>3. id \in OnScreen(desk.windows) /\ desk' \in FocusedAt(e, w, line, slot)
    BY <1>4, <2>1, <2>2 DEF PressInside, Raised
  <2>4. DeskOK(e) /\ w.id \in OnScreen(e.windows) /\ w = Win(e.windows, w.id) /\ Accepts(e.scope, w)
    BY <1>1, <2>1, <2>2, <2>3, RaisedIs
  <2>5. DeskOK(desk')
    BY <2>3, <2>4, FocusedKeeps
  <2>6. /\ pressed' = downOn' /\ leftDown' = TRUE
        /\ did' = Did(IF line = 0 THEN "header" ELSE "press", None)
    BY <1>4 DEF PressInside
  <2>7. PICK what \in {"other", "header", "press"} : did' = Did(what, None)
    BY <2>6
  <2> QED BY <2>5, <2>6, <2>7, Quiet
<1>5. CASE PressOutside
  <2>1. DeskOK(desk')
    <3>1. ScopeOn(desk.windows, Screen)
      BY DEF ScopeOn
    <3> QED BY <1>1, <1>5, <3>1, ScopedKeeps DEF PressOutside
  <2>2. pressed' = None /\ leftDown' \in BOOLEAN /\ did' = Did("press", None)
    BY <1>5 DEF PressOutside
  <2> QED BY <2>1, <2>2, Quiet
<1>6. CASE Release
  <2>1. PICK hovered : desk' = Performed(desk, ReleasedOn(hovered)) /\ did' = Did("release", ReleasedOn(hovered))
    BY <1>6 DEF Release
  <2>2. DeskOK(desk')
    BY <1>1, <2>1, PerformedKeeps
  <2>3. did'.what = "release" /\ did'.fired = ReleasedOn(hovered)
    BY <2>1 DEF Did
  <2>4. ReleasedOn(hovered) # None => ReleasedOn(hovered) = pressed /\ pressed # None
    BY DEF ReleasedOn
  <2>5. pressed' = None /\ leftDown' \in BOOLEAN
    BY <1>6 DEF Release
  <2> QED BY <2>2, <2>3, <2>4, <2>5 DEF DeskInv, Fires
<1>7. ASSUME NEW left \in BOOLEAN, Handled(left) PROVE DeskInv' /\ Fires
  <2>1. desk' = desk /\ leftDown' \in BOOLEAN /\ did' = Did("other", None)
    BY <1>7 DEF Handled
  <2>2. pressed' # None => pressed' = downOn' /\ leftDown'
    BY <1>7 DEF Handled, AfterHandled, DeskInv
  <2> QED BY <1>1, <2>1, <2>2, Quiet
<1> QED BY <1>2, <1>3, <1>4, <1>5, <1>6, <1>7 DEF Pointer

(* Every step keeps the invariant, and fires only what it may. *)
LEMMA DeskStep ==
  ASSUME DeskInv, [Next]_vars
  PROVE  DeskInv' /\ [Fires]_vars
<1>1. CASE UNCHANGED vars
  <2>1. desk' = desk /\ pressed' = pressed /\ leftDown' = leftDown /\ did' = did /\ downOn' = downOn
    BY <1>1 DEF vars
  <2>2. DeskInv'
    BY <2>1 DEF DeskInv, DeskOK, Base, IsDesk, Wins, EditsOK, FocusOK, InView, Query, Field
  <2> QED BY <1>1, <2>2
<1>2. CASE Next
  BY <1>2, CommandKeeps, OpenTestKeeps, KeyKeeps, PointerKeeps DEF Next, KeyScancode, MousePacket
<1> QED BY <1>1, <1>2

(* The invariant holds throughout. *)
LEMMA DeskAlways == Spec => []DeskInv
<1>1. Init => DeskInv
  BY DeskStart
<1>2. DeskInv /\ [Next]_vars => DeskInv'
  BY DeskStep
<1> QED BY <1>1, <1>2, PTL DEF Spec

(* The focus is always in the scope, whoever minimized, closed or replaced *)
(* windows: keys are never typed into a control that is not there.         *)
THEOREM DesktopFocus == Spec => []FocusInScope
<1>1. DeskInv => FocusInScope
  BY DEF DeskInv, DeskOK, FocusOK, ScopeOn, Takes, Accepts, InScope, FocusInScope
<1> QED BY <1>1, DeskAlways, PTL

(* A caret stays in its text, a text within its limit, and a field that is *)
(* kept belongs to a row that is still there and still takes text.         *)
THEOREM DesktopEdits == Spec => []EditsSound
<1>1. DeskInv => EditsSound
  <2> SUFFICES ASSUME DeskInv PROVE EditsSound
    OBVIOUS
  <2>1. TypeOK
    BY DEF DeskInv, DeskOK, Base, Wins, Stack, TypeOK
  <2>2. ASSUME NEW c \in DOMAIN desk.edits
        PROVE  /\ desk.edits[c].cursor \in 0 .. desk.edits[c].len /\ desk.edits[c].len <= TextLimit
               /\ c[1] \in Ids(desk.windows) /\ c[2] \in DOMAIN Win(desk.windows, c[1]).rows
               /\ Editable(Win(desk.windows, c[1]).rows[c[2]])
    <3>1. desk.edits[c] \in FieldType /\ Holds(desk.windows, c)
      BY <2>2 DEF DeskInv, DeskOK, Base, EditsOK
    <3>2. PICK f \in FieldType : f = desk.edits[c]
      BY <3>1
    <3>3. f.cursor \in 0 .. f.len /\ f.len <= TextLimit
      BY <3>2, DesktopAssumption DEF FieldType
    <3> QED BY <3>1, <3>2, <3>3 DEF Holds
  <2> QED BY <2>1, <2>2 DEF EditsSound
<1> QED BY <1>1, DeskAlways, PTL

(* A window is never scrolled past its content, and Tab always leaves the  *)
(* focus on a row in view that the search does not hide.                   *)
THEOREM DesktopScroll == Spec => []ScrollSound
<1>1. DeskInv => ScrollSound
  <2> SUFFICES ASSUME DeskInv PROVE ScrollSound
    OBVIOUS
  <2>1. Wins(desk.windows) /\ Stack(desk.windows)
    BY DEF DeskInv, DeskOK, Base, Wins
  <2>2. ScrollBounded
    <3> SUFFICES ASSUME NEW i \in DOMAIN desk.windows
                 PROVE  desk.windows[i].scroll \in 0 .. MaxScroll(desk.windows[i])
      BY DEF ScrollBounded
    <3>1. desk.windows[i].id \in Ids(desk.windows) /\ Win(desk.windows, desk.windows[i].id) = desk.windows[i]
      BY <2>1, StackIs, WinFrom
    <3>2. Sound(Win(desk.windows, desk.windows[i].id))
      BY <2>1, <3>1 DEF Wins
    <3> QED BY <3>1, <3>2 DEF Sound
  <2>3. TabInView
    BY DEF DeskInv, InView, TabInView
  <2> QED BY <2>2, <2>3 DEF ScrollSound
<1> QED BY <1>1, DeskAlways, PTL

(* A control fires only where the button went down on it, or from the      *)
(* keyboard when it has the focus and may be used.                         *)
THEOREM DesktopFires == Spec => FiresSound
<1>1. DeskInv /\ [Next]_vars => [Fires]_vars
  BY DeskStep
<1>2. Spec => [][Fires]_vars
  BY <1>1, DeskAlways, PTL DEF Spec
<1> QED BY <1>2 DEF FiresSound, Fires
=============================================================================
