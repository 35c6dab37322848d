---------------------------- MODULE ShellProofs ----------------------------
(***************************************************************************)
(* Proofs about Shell and the Console below it, for any screen, any number *)
(* of keys and inputs, and any depth of the calls.                         *)
(***************************************************************************)
EXTENDS Shell, TLAPS

(* Steps are tried with Zenon first, which is the faster where no          *)
(* arithmetic is needed, then with SMT, then with Zenon for longer.        *)
USE ZenonT(3), SMTT(30), ZenonT(30), Z3T(30)

-----------------------------------------------------------------------------
(* Facts about sequences. *)

(* What Append adds, and keeps. *)
LEMMA AppendIs ==
  ASSUME NEW S, NEW s \in Seq(S), NEW e \in S
  PROVE  /\ Append(s, e) \in Seq(S) /\ Len(Append(s, e)) = Len(s) + 1
         /\ \A i \in 1 .. Len(s) : Append(s, e)[i] = s[i]
         /\ Append(s, e)[Len(s) + 1] = e
  OBVIOUS

(* What is left of a sequence, and its head. *)
LEMMA TailIs ==
  ASSUME NEW S, NEW s \in Seq(S), s # <<>>
  PROVE  /\ Tail(s) \in Seq(S) /\ Len(Tail(s)) = Len(s) - 1 /\ Len(s) \in Nat \ {0}
         /\ \A i \in 1 .. Len(s) - 1 : Tail(s)[i] = s[i + 1]
         /\ Head(s) = s[1] /\ s[1] \in S
  OBVIOUS

(* A sequence without its last element. *)
LEMMA FrontIs ==
  ASSUME NEW S, NEW s \in Seq(S), s # <<>>
  PROVE  /\ Front(s) \in Seq(S) /\ Len(Front(s)) = Len(s) - 1 /\ Len(s) \in Nat \ {0}
         /\ \A i \in 1 .. Len(s) - 1 : Front(s)[i] = s[i]
         /\ Last(s) = s[Len(s)] /\ Last(s) \in S
<1>1. Len(s) \in Nat \ {0} /\ \A i \in 1 .. Len(s) : s[i] \in S
  OBVIOUS
<1>2. PICK n \in Nat : n = Len(s) - 1
  BY <1>1
<1>3. \A i \in 1 .. n : i \in 1 .. Len(s) /\ s[i] \in S
  BY <1>1, <1>2
<1>4. SubSeq(s, 1, n) \in Seq(S)
  BY <1>1, <1>2, <1>3
<1>5. Len(SubSeq(s, 1, n)) = n
  BY <1>1, <1>2
<1>6. \A i \in 1 .. n : SubSeq(s, 1, n)[i] = s[i]
  BY <1>1, <1>2
<1>7. Front(s) = SubSeq(s, 1, n)
  BY <1>2 DEF Front
<1> QED BY <1>1, <1>2, <1>4, <1>5, <1>6, <1>7 DEF Last

-----------------------------------------------------------------------------
(* The text screen shows what was typed. *)

Grid(rows) ==
  /\ rows \in Seq(Seq({"c"})) /\ Len(rows) \in 1 .. Height
  /\ \A i \in 1 .. Len(rows) : Len(rows[i]) <= Width
Shade == {"c", Blank, "pixel"}
ScreenType == [row : Nat, column : Nat, cells : [Cells -> Shade]]
Text(s, rows) == s \in ScreenType /\ Grid(rows) /\ Shows(s, rows)

(* Changing the last row: the screen's cells of the other rows stay. *)
LEMMA LastRow ==
  ASSUME NEW rows, Grid(rows), NEW last \in Seq({"c"}), Len(last) <= Width
  PROVE  LET new == Append(Front(rows), last) IN
         /\ Grid(new) /\ Len(new) = Len(rows) /\ Last(new) = last
         /\ \A i \in 1 .. Len(rows) - 1 : new[i] = rows[i]
         /\ new[Len(rows)] = last
<1>1. /\ rows # <<>> /\ rows \in Seq(Seq({"c"})) /\ Len(rows) \in 1 .. Height
      /\ \A i \in 1 .. Len(rows) : Len(rows[i]) <= Width
  BY DEF Grid
<1>2. PICK f : f = Front(rows)
  OBVIOUS
<1>3. /\ f \in Seq(Seq({"c"})) /\ Len(f) = Len(rows) - 1
      /\ \A i \in 1 .. Len(rows) - 1 : f[i] = rows[i]
  BY <1>1, <1>2, FrontIs
<1>4. PICK new : new = Append(f, last)
  OBVIOUS
<1>5. /\ new \in Seq(Seq({"c"})) /\ Len(new) = Len(rows) /\ new[Len(rows)] = last
      /\ \A i \in 1 .. Len(rows) - 1 : new[i] = rows[i]
  BY <1>1, <1>3, <1>4, AppendIs
<1>6. Last(new) = last
  BY <1>5 DEF Last
<1>7. \A i \in 1 .. Len(new) : Len(new[i]) <= Width
  <2>1. SUFFICES ASSUME NEW i \in 1 .. Len(rows) PROVE Len(new[i]) <= Width
    BY <1>5
  <2>2. CASE i = Len(rows)
    BY <1>5, <2>2
  <2>3. CASE i # Len(rows)
    <3>1. i \in 1 .. Len(rows) - 1
      BY <1>1, <2>3
    <3> QED BY <1>1, <1>5, <3>1
  <2> QED BY <2>2, <2>3
<1> QED BY <1>1, <1>2, <1>4, <1>5, <1>6, <1>7 DEF Grid

(* new is rows with one row more: if there is no room, the first one goes. *)
RowAdded(rows, last, new) ==
  /\ Grid(new) /\ Last(new) = last
  /\ Len(rows) < Height => /\ Len(new) = Len(rows) + 1
                           /\ \A i \in 1 .. Len(rows) : new[i] = rows[i]
                           /\ new[Len(rows) + 1] = last
  /\ Len(rows) = Height => /\ Len(new) = Height
                           /\ \A i \in 1 .. Height - 1 : new[i] = rows[i + 1]
                           /\ new[Height] = last

(* Appending a row. *)
LEMMA NewRow ==
  ASSUME NEW rows, Grid(rows), NEW last \in Seq({"c"}), Len(last) <= Width
  PROVE  RowAdded(rows, last, LastRows(Append(rows, last)))
<1>1. /\ rows \in Seq(Seq({"c"})) /\ Len(rows) \in 1 .. Height /\ Height \in Nat \ {0}
      /\ \A i \in 1 .. Len(rows) : Len(rows[i]) <= Width
  BY TextConsoleAssumption DEF Grid
<1>2. PICK a : a = Append(rows, last)
  OBVIOUS
<1>3. /\ a \in Seq(Seq({"c"})) /\ Len(a) = Len(rows) + 1 /\ a[Len(rows) + 1] = last
      /\ \A i \in 1 .. Len(rows) : a[i] = rows[i]
  BY <1>1, <1>2, AppendIs
<1>4. PICK new : new = LastRows(a)
  OBVIOUS
<1>5. CASE Len(rows) < Height
  <2>1. new = SubSeq(a, 1, Len(a))
    <3>1. ~(Len(a) > Height)
      BY <1>1, <1>3, <1>5
    <3> QED BY <1>4, <3>1 DEF LastRows
  <2>2. new = a
    BY <1>3, <2>1
  <2>3. Last(new) = last
    BY <1>3, <2>2 DEF Last
  <2>4. \A i \in 1 .. Len(new) : Len(new[i]) <= Width
    <3>1. SUFFICES ASSUME NEW i \in 1 .. Len(rows) + 1 PROVE Len(a[i]) <= Width
      BY <1>3, <2>2
    <3>2. CASE i = Len(rows) + 1
      BY <1>3, <3>2
    <3>3. CASE i # Len(rows) + 1
      <4>1. i \in 1 .. Len(rows)
        BY <1>1, <3>3
      <4> QED BY <1>1, <1>3, <4>1
    <3> QED BY <3>2, <3>3
  <2>5. Grid(new)
    BY <1>1, <1>3, <1>5, <2>2, <2>4 DEF Grid
  <2>6. RowAdded(rows, last, new)
    BY <1>1, <1>3, <1>5, <2>2, <2>3, <2>5 DEF RowAdded
  <2> QED BY <1>2, <1>4, <2>6
<1>6. CASE Len(rows) = Height
  <2>1. new = SubSeq(a, 2, Len(a))
    BY <1>1, <1>3, <1>4, <1>6 DEF LastRows
  <2>2. /\ new \in Seq(Seq({"c"})) /\ Len(new) = Height
        /\ \A i \in 1 .. Height : new[i] = a[i + 1]
    BY <1>1, <1>3, <1>6, <2>1
  <2>3. \A i \in 1 .. Height - 1 : new[i] = rows[i + 1]
    BY <1>1, <1>3, <1>6, <2>2
  <2>4. new[Height] = last
    BY <1>1, <1>3, <1>6, <2>2
  <2>5. Last(new) = last
    BY <2>2, <2>4 DEF Last
  <2>6. \A i \in 1 .. Len(new) : Len(new[i]) <= Width
    <3>1. SUFFICES ASSUME NEW i \in 1 .. Height PROVE Len(new[i]) <= Width
      BY <2>2
    <3>2. CASE i = Height
      BY <2>4, <3>2
    <3>3. CASE i # Height
      <4>1. i \in 1 .. Height - 1 /\ i + 1 \in 1 .. Len(rows)
        BY <1>1, <1>6, <3>3
      <4> QED BY <1>1, <2>3, <4>1
    <3> QED BY <3>2, <3>3
  <2>7. Grid(new)
    BY <1>1, <2>2, <2>6 DEF Grid
  <2>8. RowAdded(rows, last, new)
    BY <1>1, <1>6, <2>2, <2>3, <2>4, <2>5, <2>7 DEF RowAdded
  <2> QED BY <1>2, <1>4, <2>8
<1> QED BY <1>1, <1>5, <1>6

(* What a cell shows. *)
Glyph(rows, r, c) ==
  IF r < Len(rows) /\ c < Len(rows[r + 1]) THEN rows[r + 1][c + 1] ELSE Blank

(* Text, cell by cell. *)
LEMMA TextIs ==
  ASSUME NEW s, NEW rows
  PROVE  Text(s, rows) <=>
           /\ s \in ScreenType /\ Grid(rows)
           /\ s.row = Len(rows) - 1 /\ s.column = Len(Last(rows))
           /\ \A r \in 0 .. Height - 1, c \in 0 .. Width - 1 : s.cells[<<r, c>>] = Glyph(rows, r, c)
<1>1. /\ \A p \in Cells : p[1] \in 0 .. Height - 1 /\ p[2] \in 0 .. Width - 1 /\ p = <<p[1], p[2]>>
      /\ \A r \in 0 .. Height - 1, c \in 0 .. Width - 1 :
           <<r, c>> \in Cells /\ <<r, c>>[1] = r /\ <<r, c>>[2] = c
  BY DEF Cells
<1>2. ASSUME \A p \in Cells : s.cells[p] = IF p[1] < Len(rows) /\ p[2] < Len(rows[p[1] + 1])
                                             THEN rows[p[1] + 1][p[2] + 1] ELSE Blank,
             NEW r \in 0 .. Height - 1, NEW c \in 0 .. Width - 1
      PROVE  s.cells[<<r, c>>] = Glyph(rows, r, c)
  <2>1. <<r, c>> \in Cells /\ <<r, c>>[1] = r /\ <<r, c>>[2] = c
    BY <1>1
  <2> QED BY <1>2, <2>1 DEF Glyph
<1>3. ASSUME \A r \in 0 .. Height - 1, c \in 0 .. Width - 1 : s.cells[<<r, c>>] = Glyph(rows, r, c),
             NEW p \in Cells
      PROVE  s.cells[p] = IF p[1] < Len(rows) /\ p[2] < Len(rows[p[1] + 1])
                            THEN rows[p[1] + 1][p[2] + 1] ELSE Blank
  <2>1. p[1] \in 0 .. Height - 1 /\ p[2] \in 0 .. Width - 1 /\ p = <<p[1], p[2]>>
    BY <1>1
  <2>2. s.cells[<<p[1], p[2]>>] = Glyph(rows, p[1], p[2])
    BY <1>3, <2>1
  <2> QED BY <2>1, <2>2 DEF Glyph
<1> QED BY <1>2, <1>3 DEF Text, Shows

(* A line feed. *)
NextLine(s) == ScrollAtEnd([s EXCEPT !.row = @ + 1, !.column = 0])
(* NextLine shows an empty row more, and scrolls when there is no room. *)
LEMMA LineShows ==
  ASSUME NEW s, NEW rows, Text(s, rows)
  PROVE  Text(NextLine(s), LastRows(Append(rows, <<>>)))
<1>1. /\ s \in ScreenType /\ Grid(rows) /\ s.row = Len(rows) - 1 /\ s.column = Len(Last(rows))
      /\ \A r \in 0 .. Height - 1, c \in 0 .. Width - 1 : s.cells[<<r, c>>] = Glyph(rows, r, c)
      /\ Height \in Nat \ {0} /\ Width \in Nat \ {0} /\ Len(rows) \in 1 .. Height
  BY TextIs, TextConsoleAssumption DEF Grid
<1>2. PICK new : new = LastRows(Append(rows, <<>>))
  OBVIOUS
<1>3. <<>> \in Seq({"c"}) /\ Len(<<>>) = 0 /\ Len(<<>>) <= Width
  BY <1>1
<1>4. /\ Grid(new) /\ Last(new) = <<>>
      /\ Len(rows) < Height => /\ Len(new) = Len(rows) + 1
                               /\ \A i \in 1 .. Len(rows) : new[i] = rows[i]
                               /\ new[Len(rows) + 1] = <<>>
      /\ Len(rows) = Height => /\ Len(new) = Height
                               /\ \A i \in 1 .. Height - 1 : new[i] = rows[i + 1]
                               /\ new[Height] = <<>>
  <2>1. RowAdded(rows, <<>>, new)
    BY <1>1, <1>3, <1>2, NewRow
  <2> QED BY <2>1 DEF RowAdded
<1>5. PICK t : t = [s EXCEPT !.row = @ + 1, !.column = 0]
  OBVIOUS
<1>6. t \in ScreenType /\ t.row = Len(rows) /\ t.column = 0 /\ t.cells = s.cells
  <2>1. s.row \in Nat /\ s.column \in Nat /\ s.cells \in [Cells -> Shade]
    BY <1>1 DEF ScreenType
  <2>2. t = [row |-> s.row + 1, column |-> 0, cells |-> s.cells]
    BY <1>1, <1>5 DEF ScreenType
  <2>3. s.row + 1 = Len(rows) /\ Len(rows) \in Nat
    BY <1>1, <2>1
  <2> QED BY <2>1, <2>2, <2>3 DEF ScreenType
<1>7. CASE Len(rows) < Height
  <2>1. NextLine(s) = t
    BY <1>1, <1>5, <1>6, <1>7 DEF NextLine, ScrollAtEnd
  <2>2. ASSUME NEW r \in 0 .. Height - 1, NEW c \in 0 .. Width - 1
        PROVE  Glyph(new, r, c) = Glyph(rows, r, c)
    <3>1. CASE r < Len(rows)
      <4>1. r + 1 \in 1 .. Len(rows) /\ r < Len(new)
        BY <1>1, <1>4, <1>7, <3>1
      <4> QED BY <1>4, <1>7, <3>1, <4>1 DEF Glyph
    <3>2. CASE r = Len(rows)
      BY <1>1, <1>3, <1>4, <1>7, <3>2 DEF Glyph
    <3>3. CASE r > Len(rows)
      BY <1>1, <1>4, <1>7, <3>3 DEF Glyph
    <3> QED BY <1>1, <3>1, <3>2, <3>3
  <2>3. t.row = Len(new) - 1 /\ t.column = Len(Last(new))
    BY <1>1, <1>3, <1>4, <1>6, <1>7
  <2>4. \A r \in 0 .. Height - 1, c \in 0 .. Width - 1 : t.cells[<<r, c>>] = Glyph(new, r, c)
    <3>1. SUFFICES ASSUME NEW r \in 0 .. Height - 1, NEW c \in 0 .. Width - 1
                   PROVE  t.cells[<<r, c>>] = Glyph(new, r, c)
      OBVIOUS
    <3>2. s.cells[<<r, c>>] = Glyph(rows, r, c)
      BY <1>1
    <3> QED BY <1>6, <2>2, <3>2
  <2>5. Text(t, new)
    BY <1>4, <1>6, <2>3, <2>4, TextIs
  <2> QED BY <1>2, <2>1, <2>5
<1>8. CASE Len(rows) = Height
  <2>1. NextLine(s) = Scroll(t)
    BY <1>1, <1>5, <1>6, <1>8 DEF NextLine, ScrollAtEnd
  <2>2. PICK u : u = Scroll(t)
    OBVIOUS
  <2>3. PICK g : g = [p \in Cells |-> IF p[1] + 1 = Height THEN Blank ELSE t.cells[<<p[1] + 1, p[2]>>]]
    OBVIOUS
  <2>4. g \in [Cells -> Shade]
    <3>1. ASSUME NEW p \in Cells, p[1] + 1 # Height PROVE t.cells[<<p[1] + 1, p[2]>>] \in Shade
      <4>1. <<p[1] + 1, p[2]>> \in Cells
        BY <1>1, <3>1 DEF Cells
      <4>2. t.cells \in [Cells -> Shade]
        BY <1>6 DEF ScreenType
      <4> QED BY <4>1, <4>2
    <3>2. Blank \in Shade
      BY DEF Shade
    <3>3. \A p \in Cells : (IF p[1] + 1 = Height THEN Blank ELSE t.cells[<<p[1] + 1, p[2]>>]) \in Shade
      BY <3>1, <3>2
    <3> QED BY <2>3, <3>3
  <2>5. u \in ScreenType /\ u.row = Height - 1 /\ u.column = 0 /\ u.cells = g
    <3>1. u = [t EXCEPT !.row = Height - 1, !.cells = g]
      BY <2>2, <2>3 DEF Scroll
    <3>2. u = [row |-> Height - 1, column |-> 0, cells |-> g]
      BY <1>6, <3>1 DEF ScreenType
    <3>3. Height - 1 \in Nat
      BY <1>1
    <3> QED BY <2>4, <3>2, <3>3 DEF ScreenType
  <2>6. ASSUME NEW r \in 0 .. Height - 1, NEW c \in 0 .. Width - 1
        PROVE  u.cells[<<r, c>>] = Glyph(new, r, c)
    <3>1. <<r, c>> \in Cells /\ <<r, c>>[1] = r /\ <<r, c>>[2] = c
      BY DEF Cells
    <3>2. u.cells[<<r, c>>] = IF r + 1 = Height THEN Blank ELSE t.cells[<<r + 1, c>>]
      BY <2>3, <2>5, <3>1
    <3>3. CASE r + 1 = Height
      BY <1>1, <1>3, <1>4, <1>8, <3>2, <3>3 DEF Glyph
    <3>4. CASE r + 1 # Height
      <4>1. r + 1 \in 0 .. Height - 1 /\ r + 1 \in 1 .. Height - 1 /\ r < Height /\ r + 1 < Height
        BY <1>1, <3>4
      <4>2. u.cells[<<r, c>>] = Glyph(rows, r + 1, c)
        BY <1>1, <1>6, <3>2, <3>4, <4>1
      <4>3. new[r + 1] = rows[(r + 1) + 1]
        BY <1>4, <1>8, <4>1
      <4> QED BY <1>4, <1>8, <4>1, <4>2, <4>3 DEF Glyph
    <3> QED BY <3>3, <3>4
  <2>7. u.row = Len(new) - 1 /\ u.column = Len(Last(new))
    BY <1>3, <1>4, <1>8, <2>5
  <2>8. Text(u, new)
    BY <1>4, <2>5, <2>6, <2>7, TextIs
  <2> QED BY <1>2, <2>1, <2>2, <2>8
<1> QED BY <1>1, <1>7, <1>8

(* A change of the last row and of one of its cells. *)
LEMMA RowShows ==
  ASSUME NEW s, NEW rows, Text(s, rows), NEW last \in Seq({"c"}), Len(last) <= Width,
         NEW k \in 0 .. Width - 1, NEW b \in Shade,
         b = (IF k < Len(last) THEN last[k + 1] ELSE Blank),
         \A c \in 0 .. Width - 1 : c # k =>
           IF c < Len(Last(rows)) THEN c < Len(last) /\ last[c + 1] = Last(rows)[c + 1]
           ELSE ~(c < Len(last))
  PROVE  Text([s EXCEPT !.cells[<<s.row, k>>] = b, !.column = Len(last)], Append(Front(rows), last))
<1>1. /\ s \in ScreenType /\ Grid(rows) /\ s.row = Len(rows) - 1 /\ s.column = Len(Last(rows))
      /\ \A r \in 0 .. Height - 1, c \in 0 .. Width - 1 : s.cells[<<r, c>>] = Glyph(rows, r, c)
      /\ Height \in Nat \ {0} /\ Width \in Nat \ {0} /\ Len(rows) \in 1 .. Height
  BY TextIs, TextConsoleAssumption DEF Grid
<1>2. PICK new : new = Append(Front(rows), last)
  OBVIOUS
<1>3. /\ Grid(new) /\ Len(new) = Len(rows) /\ Last(new) = last
      /\ \A i \in 1 .. Len(rows) - 1 : new[i] = rows[i]
      /\ new[Len(rows)] = last
  BY <1>1, <1>2, LastRow
<1>4. PICK q : q = Len(rows) - 1
  OBVIOUS
<1>5. q \in 0 .. Height - 1 /\ <<q, k>> \in Cells /\ q + 1 = Len(rows) /\ q < Len(rows)
  BY <1>1, <1>4 DEF Cells
<1>6. PICK t : t = [s EXCEPT !.cells[<<q, k>>] = b, !.column = Len(last)]
  OBVIOUS
<1>7. /\ t \in ScreenType /\ t.row = s.row /\ t.column = Len(last)
      /\ t.cells = [s.cells EXCEPT ![<<q, k>>] = b]
  <2>1. Len(last) \in Nat
    OBVIOUS
  <2> QED BY <1>1, <1>5, <1>6, <2>1 DEF ScreenType
<1>8. ASSUME NEW r \in 0 .. Height - 1, NEW c \in 0 .. Width - 1
      PROVE  t.cells[<<r, c>>] = Glyph(new, r, c)
  <2>1. <<r, c>> \in Cells /\ s.cells \in [Cells -> Shade]
    BY <1>1 DEF Cells, ScreenType
  <2>2. CASE r = q /\ c = k
    <3>1. t.cells[<<r, c>>] = b
      BY <1>5, <1>7, <2>1, <2>2
    <3> QED BY <1>3, <1>5, <2>2, <3>1 DEF Glyph
  <2>3. CASE r = q /\ c # k
    <3>1. <<r, c>> # <<q, k>>
      BY <2>3
    <3>2. t.cells[<<r, c>>] = Glyph(rows, q, c)
      BY <1>1, <1>7, <2>1, <2>3, <3>1
    <3>3. rows[q + 1] = Last(rows) /\ new[q + 1] = last
      BY <1>3, <1>5 DEF Last
    <3> QED BY <1>3, <1>5, <2>3, <3>2, <3>3 DEF Glyph
  <2>4. CASE r # q
    <3>1. <<r, c>> # <<q, k>>
      BY <2>4
    <3>2. t.cells[<<r, c>>] = Glyph(rows, r, c)
      BY <1>1, <1>7, <2>1, <3>1
    <3>3. CASE r < q
      <4>1. r + 1 \in 1 .. Len(rows) - 1
        BY <1>1, <1>5, <3>3
      <4> QED BY <1>3, <3>2, <4>1 DEF Glyph
    <3>4. CASE r > q
      <4>1. ~(r < Len(rows))
        BY <1>1, <1>5, <3>4
      <4> QED BY <1>3, <3>2, <4>1 DEF Glyph
    <3> QED BY <1>5, <2>4, <3>3, <3>4
  <2> QED BY <2>2, <2>3, <2>4
<1>9. t.row = Len(new) - 1 /\ t.column = Len(Last(new))
  BY <1>1, <1>3, <1>7
<1>10. Text(t, new)
  BY <1>3, <1>7, <1>8, <1>9, TextIs
<1> QED BY <1>1, <1>2, <1>4, <1>6, <1>10

(* What put does, Typed says. *)
LEMMA PutShows ==
  ASSUME NEW s, NEW rows, Text(s, rows), NEW byte \in {"c", LF, BS}
  PROVE  Text(Put(s, byte), Typed(rows, byte))
<1>1. /\ s \in ScreenType /\ Grid(rows) /\ s.row = Len(rows) - 1 /\ s.column = Len(Last(rows))
      /\ \A r \in 0 .. Height - 1, c \in 0 .. Width - 1 : s.cells[<<r, c>>] = Glyph(rows, r, c)
      /\ Height \in Nat \ {0} /\ Width \in Nat \ {0} /\ Len(rows) \in 1 .. Height
  BY TextIs, TextConsoleAssumption DEF Grid
<1>2. PICK last : last = Last(rows)
  OBVIOUS
<1>3. last \in Seq({"c"}) /\ Len(last) \in 0 .. Width
  <2>1. Len(rows) \in 1 .. Len(rows)
    BY <1>1
  <2>2. rows[Len(rows)] \in Seq({"c"}) /\ Len(rows[Len(rows)]) <= Width
    BY <1>1, <2>1 DEF Grid
  <2>3. Len(last) \in Nat
    BY <1>2, <2>2 DEF Last
  <2> QED BY <1>1, <1>2, <2>2, <2>3 DEF Last
<1>4. CASE byte = LF
  <2>1. Put(s, byte) = NextLine(s) /\ Typed(rows, byte) = LastRows(Append(rows, <<>>))
    BY <1>4 DEF Put, Typed, NextLine, LF, BS
  <2> QED BY <2>1, LineShows
<1>5. CASE byte = BS
  <2>1. CASE last = <<>>
    <3>1. s.column = 0
      BY <1>1, <1>2, <2>1
    <3> QED BY <1>2, <1>5, <2>1, <3>1 DEF Put, Typed, LF, BS
  <2>2. CASE last # <<>>
    <3>1. PICK new : new = Front(last)
      OBVIOUS
    <3>2. /\ new \in Seq({"c"}) /\ Len(new) = Len(last) - 1 /\ Len(last) \in Nat \ {0}
          /\ \A i \in 1 .. Len(last) - 1 : new[i] = last[i]
      BY <1>3, <2>2, <3>1, FrontIs
    <3>3. PICK k : k = Len(last) - 1
      OBVIOUS
    <3>4. k \in 0 .. Width - 1 /\ Len(new) <= Width /\ Len(new) = k
      BY <1>1, <1>3, <3>2, <3>3
    <3>5. Blank = (IF k < Len(new) THEN new[k + 1] ELSE Blank) /\ Blank \in Shade
      BY <1>1, <3>4 DEF Shade
    <3>6. \A c \in 0 .. Width - 1 : c # k =>
            IF c < Len(Last(rows)) THEN c < Len(new) /\ new[c + 1] = Last(rows)[c + 1]
            ELSE ~(c < Len(new))
      <4>1. SUFFICES ASSUME NEW c \in 0 .. Width - 1, c # k
                     PROVE  IF c < Len(last) THEN c < Len(new) /\ new[c + 1] = last[c + 1]
                            ELSE ~(c < Len(new))
        BY <1>2
      <4>2. CASE c < Len(last)
        <5>1. c + 1 \in 1 .. Len(last) - 1 /\ c < Len(new)
          BY <1>3, <3>2, <3>3, <4>1, <4>2
        <5> QED BY <3>2, <4>2, <5>1
      <4>3. CASE ~(c < Len(last))
        BY <1>3, <3>2, <4>3
      <4> QED BY <4>2, <4>3
    <3>7. Text([s EXCEPT !.cells[<<s.row, k>>] = Blank, !.column = Len(new)], Append(Front(rows), new))
      BY <3>2, <3>4, <3>5, <3>6, RowShows
    <3>8. s.column - 1 = k /\ s.column > 0 /\ Len(new) = s.column - 1
      BY <1>1, <1>2, <3>2, <3>3
    <3>9. Put(s, byte) = [s EXCEPT !.cells[<<s.row, k>>] = Blank, !.column = Len(new)]
      BY <1>1, <1>5, <3>8 DEF Put, LF, BS, ScreenType
    <3>10. Typed(rows, byte) = Append(Front(rows), new)
      BY <1>2, <1>5, <2>2, <3>1 DEF Typed, LF, BS
    <3> QED BY <3>7, <3>9, <3>10
  <2> QED BY <2>1, <2>2
<1>6. CASE byte = "c"
  <2>1. ASSUME NEW w, NEW old, Text(w, old), Len(Last(old)) < Width
        PROVE  Text([w EXCEPT !.cells[<<w.row, w.column>>] = "c", !.column = @ + 1],
                    Append(Front(old), Append(Last(old), "c")))
    <3>1. /\ w \in ScreenType /\ Grid(old) /\ w.row = Len(old) - 1 /\ w.column = Len(Last(old))
          /\ Len(old) \in 1 .. Height
      BY <2>1, TextIs DEF Grid
    <3>2. PICK end : end = Last(old)
      OBVIOUS
    <3>3. end \in Seq({"c"}) /\ Len(end) \in Nat /\ Len(end) < Width
      <4>1. Len(old) \in 1 .. Len(old)
        BY <1>1, <3>1
      <4>2. old[Len(old)] \in Seq({"c"})
        BY <3>1, <4>1 DEF Grid
      <4> QED BY <2>1, <3>2, <4>2 DEF Last
    <3>4. PICK new : new = Append(end, "c")
      OBVIOUS
    <3>5. /\ new \in Seq({"c"}) /\ Len(new) = Len(end) + 1 /\ new[Len(end) + 1] = "c"
          /\ \A i \in 1 .. Len(end) : new[i] = end[i]
      BY <3>3, <3>4, AppendIs
    <3>6. PICK k : k = Len(end)
      OBVIOUS
    <3>7. k \in 0 .. Width - 1 /\ Len(new) <= Width
      BY <1>1, <3>3, <3>5, <3>6
    <3>8. "c" = (IF k < Len(new) THEN new[k + 1] ELSE Blank) /\ "c" \in Shade
      BY <3>3, <3>5, <3>6 DEF Shade
    <3>9. \A c \in 0 .. Width - 1 : c # k =>
            IF c < Len(Last(old)) THEN c < Len(new) /\ new[c + 1] = Last(old)[c + 1]
            ELSE ~(c < Len(new))
      <4>1. SUFFICES ASSUME NEW c \in 0 .. Width - 1, c # k
                     PROVE  IF c < Len(end) THEN c < Len(new) /\ new[c + 1] = end[c + 1]
                            ELSE ~(c < Len(new))
        BY <3>2
      <4>2. CASE c < Len(end)
        <5>1. c + 1 \in 1 .. Len(end) /\ c < Len(new)
          BY <3>3, <3>5, <4>2
        <5> QED BY <3>5, <4>2, <5>1
      <4>3. CASE ~(c < Len(end))
        BY <3>3, <3>5, <3>6, <4>1, <4>3
      <4> QED BY <4>2, <4>3
    <3>10. Text([w EXCEPT !.cells[<<w.row, k>>] = "c", !.column = Len(new)], Append(Front(old), new))
      BY <2>1, <3>5, <3>7, <3>8, <3>9, RowShows
    <3>11. w.column = k /\ Len(new) = w.column + 1
      BY <3>1, <3>2, <3>5, <3>6
    <3>12. [w EXCEPT !.cells[<<w.row, w.column>>] = "c", !.column = @ + 1]
            = [w EXCEPT !.cells[<<w.row, k>>] = "c", !.column = Len(new)]
      BY <3>1, <3>11 DEF ScreenType
    <3> QED BY <3>2, <3>4, <3>10, <3>12
  <2>2. CASE Len(last) = Width
    <3>1. PICK w : w = NextLine(s)
      OBVIOUS
    <3>2. w = ScrollAtEnd(Wrap(s))
      BY <1>1, <1>2, <2>2, <3>1 DEF NextLine, Wrap
    <3>3. PICK old : old = LastRows(Append(rows, <<>>))
      OBVIOUS
    <3>4. Text(w, old)
      BY <3>1, <3>3, LineShows
    <3>5. /\ <<>> \in Seq({"c"}) /\ Len(<<>>) <= Width /\ Len(<<>>) = 0
          /\ <<"c">> \in Seq({"c"}) /\ Len(<<"c">>) <= Width
      BY <1>1
    <3>6. /\ Grid(old) /\ Last(old) = <<>>
          /\ Len(rows) < Height => /\ Len(old) = Len(rows) + 1
                                   /\ \A i \in 1 .. Len(rows) : old[i] = rows[i]
          /\ Len(rows) = Height => /\ Len(old) = Height
                                   /\ \A i \in 1 .. Height - 1 : old[i] = rows[i + 1]
      <4>1. RowAdded(rows, <<>>, old)
        BY <1>1, <3>5, <3>3, NewRow
      <4> QED BY <4>1 DEF RowAdded
    <3>7. Text([w EXCEPT !.cells[<<w.row, w.column>>] = "c", !.column = @ + 1],
               Append(Front(old), Append(<<>>, "c")))
      <4>1. Len(Last(old)) < Width
        BY <1>1, <3>5, <3>6
      <4> QED BY <2>1, <3>4, <3>6, <4>1
    <3>8. Append(<<>>, "c") = <<"c">>
      OBVIOUS
    <3>9. PICK one : one = Append(Front(old), <<"c">>)
      OBVIOUS
    <3>10. /\ Grid(one) /\ Len(one) = Len(old) /\ one[Len(old)] = <<"c">>
           /\ \A i \in 1 .. Len(old) - 1 : one[i] = old[i]
      <4>1. /\ Grid(Append(Front(old), <<"c">>)) /\ Len(Append(Front(old), <<"c">>)) = Len(old)
            /\ Append(Front(old), <<"c">>)[Len(old)] = <<"c">>
            /\ \A i \in 1 .. Len(old) - 1 : Append(Front(old), <<"c">>)[i] = old[i]
        BY <3>5, <3>6, LastRow
      <4> QED BY <3>9, <4>1
    <3>11. PICK two : two = LastRows(Append(rows, <<"c">>))
      OBVIOUS
    <3>12. /\ Grid(two)
           /\ Len(rows) < Height => /\ Len(two) = Len(rows) + 1
                                    /\ \A i \in 1 .. Len(rows) : two[i] = rows[i]
                                    /\ two[Len(rows) + 1] = <<"c">>
           /\ Len(rows) = Height => /\ Len(two) = Height
                                    /\ \A i \in 1 .. Height - 1 : two[i] = rows[i + 1]
                                    /\ two[Height] = <<"c">>
      <4>1. RowAdded(rows, <<"c">>, two)
        BY <1>1, <3>5, <3>11, NewRow
      <4> QED BY <4>1 DEF RowAdded
    <3>13. one = two
      <4>1. one \in Seq(Seq({"c"})) /\ two \in Seq(Seq({"c"})) /\ Len(one) = Len(two)
        BY <1>1, <3>6, <3>10, <3>12 DEF Grid
      <4>2. \A i \in 1 .. Len(one) : one[i] = two[i]
        <5>1. SUFFICES ASSUME NEW i \in 1 .. Len(one) PROVE one[i] = two[i]
          OBVIOUS
        <5>2. CASE Len(rows) < Height
          <6>1. Len(one) = Len(rows) + 1
            BY <3>6, <3>10, <5>2
          <6>2. CASE i = Len(rows) + 1
            BY <3>6, <3>10, <3>12, <5>2, <6>2
          <6>3. CASE i # Len(rows) + 1
            <7>1. i \in 1 .. Len(rows) /\ i \in 1 .. Len(old) - 1
              BY <1>1, <3>6, <3>10, <5>2, <6>1, <6>3
            <7> QED BY <3>6, <3>10, <3>12, <5>2, <7>1
          <6> QED BY <6>2, <6>3
        <5>3. CASE Len(rows) = Height
          <6>1. Len(one) = Height
            BY <3>6, <3>10, <5>3
          <6>2. CASE i = Height
            BY <3>6, <3>10, <3>12, <5>3, <6>2
          <6>3. CASE i # Height
            <7>1. i \in 1 .. Height - 1 /\ i \in 1 .. Len(old) - 1
              BY <1>1, <3>6, <3>10, <5>3, <6>1, <6>3
            <7> QED BY <3>6, <3>10, <3>12, <5>3, <7>1
          <6> QED BY <6>2, <6>3
        <5> QED BY <1>1, <5>2, <5>3
      <4> QED BY <4>1, <4>2
    <3>14. Put(s, byte) = [w EXCEPT !.cells[<<w.row, w.column>>] = "c", !.column = @ + 1]
      BY <1>6, <3>2 DEF Put, LF, BS
    <3>15. Typed(rows, byte) = two
      BY <1>2, <1>6, <2>2, <3>11 DEF Typed, LF, BS
    <3> QED BY <3>7, <3>8, <3>9, <3>13, <3>14, <3>15
  <2>3. CASE Len(last) # Width
    <3>1. s.column # Width /\ s.row # Height /\ Len(last) < Width
      BY <1>1, <1>2, <1>3, <2>3
    <3>2. ScrollAtEnd(Wrap(s)) = s
      BY <3>1 DEF ScrollAtEnd, Wrap
    <3>3. Put(s, byte) = [s EXCEPT !.cells[<<s.row, s.column>>] = "c", !.column = @ + 1]
      BY <1>6, <3>2 DEF Put, LF, BS
    <3>4. Typed(rows, byte) = Append(Front(rows), Append(Last(rows), "c"))
      BY <1>2, <1>6, <2>3 DEF Typed, LF, BS
    <3>5. Text(s, rows) /\ Len(Last(rows)) < Width
      BY <1>2, <3>1
    <3>6. Text([s EXCEPT !.cells[<<s.row, s.column>>] = "c", !.column = @ + 1],
               Append(Front(rows), Append(Last(rows), "c")))
      BY <2>1, <3>5
    <3> QED BY <3>3, <3>4, <3>6
  <2> QED BY <2>2, <2>3
<1> QED BY <1>4, <1>5, <1>6

-----------------------------------------------------------------------------
(* The console of the command shell. *)

GraphicsMode == [ModeSet(TextMode) EXCEPT !.glyphs = FALSE]
Modes == {TextMode, GraphicsMode}
ConType ==
  [desktop : BOOLEAN, enabled : BOOLEAN, screen : ScreenType, saved : [Cells -> Shade] \cup {NoCells},
   vga : Modes, savedVga : Modes, line : Seq(Letter), rows : Seq(Seq({"c"}))]

TextCon(c) ==
  /\ c.desktop = FALSE /\ c.enabled = TRUE /\ c.vga = TextMode
  /\ Text(c.screen, c.rows)
DeskCon(c) ==
  /\ c.desktop = TRUE /\ c.enabled = FALSE /\ c.vga = GraphicsMode /\ c.savedVga = TextMode
  /\ c.screen.cells = Picture
  /\ Text([c.screen EXCEPT !.cells = c.saved], c.rows)
ConInv(c) == c \in ConType /\ Len(c.line) < LineCapacity /\ (TextCon(c) \/ DeskCon(c))

(* Registers written back are those that were saved. *)
LEMMA ModeBack ==
  /\ Restored(ModeSet(TextMode), TextMode) = TextMode
  /\ Restored([GraphicsMode EXCEPT !.glyphs = TextMode.glyphs], TextMode) = TextMode
<1>1. PICK g : g = [i \in CrtcIndexes |-> "graphics"]
  OBVIOUS
<1>2. PICK t : t = [i \in CrtcIndexes |-> "text"]
  OBVIOUS
<1>3. PICK yes : yes = TRUE
  OBVIOUS
<1>4. PICK no : no = FALSE
  OBVIOUS
<1>5. TextMode = [crtc |-> t, graphics |-> "text", locked |-> yes, glyphs |-> yes]
  BY <1>2, <1>3, Zenon DEF TextMode
<1>6. ModeSet(TextMode) = [crtc |-> g, graphics |-> "graphics", locked |-> yes, glyphs |-> yes]
  <2>1. ModeSet(TextMode) = [[TextMode EXCEPT !.crtc = g] EXCEPT !.graphics = "graphics"]
    BY <1>1, Zenon DEF ModeSet
  <2>2. [TextMode EXCEPT !.crtc = g] = [crtc |-> g, graphics |-> "text", locked |-> yes, glyphs |-> yes]
    BY <1>5
  <2> QED BY <2>1, <2>2
<1>7. GraphicsMode = [crtc |-> g, graphics |-> "graphics", locked |-> yes, glyphs |-> no]
  <2>1. GraphicsMode = [ModeSet(TextMode) EXCEPT !.glyphs = no]
    BY <1>4, Zenon DEF GraphicsMode
  <2> QED BY <1>6, <2>1
<1>8. [GraphicsMode EXCEPT !.glyphs = TextMode.glyphs] = ModeSet(TextMode)
  BY <1>5, <1>6, <1>7
<1>9. PICK u : u = [ModeSet(TextMode) EXCEPT !.locked = no]
  OBVIOUS
<1>10. u = [crtc |-> g, graphics |-> "graphics", locked |-> no, glyphs |-> yes]
  BY <1>6, <1>9
<1>11. ~u.locked /\ TextMode.crtc = t /\ TextMode.locked = yes /\ TextMode.graphics = "text"
  <2>1. u.locked = no /\ TextMode.crtc = t /\ TextMode.locked = yes /\ TextMode.graphics = "text"
    BY <1>5, <1>10
  <2> QED BY <1>4, <2>1
<1>12. [i \in CrtcIndexes |-> IF u.locked /\ i < 8 THEN u.crtc[i] ELSE TextMode.crtc[i]] = t
  BY <1>2, <1>11
<1>13. CrtcWritten(u, TextMode) = [crtc |-> t, graphics |-> "graphics", locked |-> no, glyphs |-> yes]
  <2>1. CrtcWritten(u, TextMode)
         = [u EXCEPT !.crtc = [i \in CrtcIndexes |-> IF u.locked /\ i < 8 THEN u.crtc[i] ELSE TextMode.crtc[i]]]
    BY DEF CrtcWritten
  <2>2. CrtcWritten(u, TextMode) = [u EXCEPT !.crtc = t]
    BY <1>12, <2>1
  <2> QED BY <1>10, <2>2
<1>14. Restored(ModeSet(TextMode), TextMode) = TextMode
  <2>1. Restored(ModeSet(TextMode), TextMode)
         = [CrtcWritten(u, TextMode) EXCEPT !.locked = TextMode.locked, !.graphics = TextMode.graphics]
    BY <1>4, <1>9, Zenon DEF Restored
  <2>2. Restored(ModeSet(TextMode), TextMode)
         = [CrtcWritten(u, TextMode) EXCEPT !.locked = yes, !.graphics = "text"]
    BY <1>11, <2>1
  <2>3. [CrtcWritten(u, TextMode) EXCEPT !.locked = yes]
         = [crtc |-> t, graphics |-> "graphics", locked |-> yes, glyphs |-> yes]
    BY <1>13
  <2>4. Restored(ModeSet(TextMode), TextMode)
         = [[CrtcWritten(u, TextMode) EXCEPT !.locked = yes] EXCEPT !.graphics = "text"]
    BY <2>2, Zenon
  <2> QED BY <1>5, <2>3, <2>4
<1> QED BY <1>8, <1>14

(* Printing a byte *)
LEMMA SayKeeps ==
  ASSUME NEW c, ConInv(c), NEW byte \in {"c", LF, BS}
  PROVE  ConInv(Say(c, byte)) /\ Say(c, byte).desktop = c.desktop
<1>1. CASE DeskCon(c)
  BY <1>1 DEF DeskCon, Say
<1>2. CASE TextCon(c)
  <2>1. Text(Put(c.screen, byte), Typed(c.rows, byte))
    BY <1>2, PutShows DEF TextCon
  <2>2. Put(c.screen, byte) \in ScreenType /\ Typed(c.rows, byte) \in Seq(Seq({"c"}))
    BY <2>1 DEF Text, Grid
  <2>3. PICK d : d = Say(c, byte)
    OBVIOUS
  <2>4. d = [c EXCEPT !.screen = Put(c.screen, byte), !.rows = Typed(c.rows, byte)]
    BY <1>2, <2>3 DEF Say, TextCon
  <2>5. /\ d \in ConType /\ d.screen = Put(c.screen, byte) /\ d.rows = Typed(c.rows, byte)
        /\ d.desktop = c.desktop /\ d.enabled = c.enabled /\ d.vga = c.vga /\ d.line = c.line
    BY <2>2, <2>4 DEF ConInv, ConType
  <2>6. TextCon(d)
    BY <1>2, <2>1, <2>5 DEF TextCon
  <2>7. Len(d.line) < LineCapacity
    BY <2>5 DEF ConInv
  <2> QED BY <2>3, <2>5, <2>6, <2>7 DEF ConInv
<1> QED BY <1>1, <1>2 DEF ConInv

(* A line of output and the prompt keep the invariant. *)
LEMMA SayLineKeeps ==
  ASSUME NEW c, ConInv(c)
  PROVE  /\ ConInv(SayLine(c)) /\ SayLine(c).desktop = c.desktop
         /\ ConInv(Prompt(c)) /\ Prompt(c).desktop = c.desktop
<1>1. ConInv(Say(c, "c")) /\ Say(c, "c").desktop = c.desktop
  BY SayKeeps
<1>2. ConInv(Say(Say(c, "c"), LF)) /\ Say(Say(c, "c"), LF).desktop = Say(c, "c").desktop
  BY <1>1, SayKeeps
<1> QED BY <1>1, <1>2 DEF SayLine, Prompt

(* A cleared screen shows a blank page. *)
LEMMA BlankShows == Text(Cleared, BlankPage)
<1>1. Height \in Nat \ {0} /\ Width \in Nat \ {0}
  BY TextConsoleAssumption
<1>2. PICK g : g = [p \in Cells |-> Blank]
  OBVIOUS
<1>3. /\ Cleared = [row |-> 0, column |-> 0, cells |-> g] /\ g \in [Cells -> Shade]
      /\ Cleared.cells = g /\ Cleared.row = 0 /\ Cleared.column = 0
  BY <1>2 DEF Cleared, Shade
<1>4. /\ BlankPage \in Seq(Seq({"c"})) /\ Len(BlankPage) = 1 /\ BlankPage[1] = <<>> /\ Len(<<>>) = 0
  BY DEF BlankPage
<1>5. Grid(BlankPage) /\ Last(BlankPage) = <<>>
  BY <1>1, <1>4 DEF Grid, Last
<1>6. ASSUME NEW r \in 0 .. Height - 1, NEW k \in 0 .. Width - 1
      PROVE  Cleared.cells[<<r, k>>] = Glyph(BlankPage, r, k)
  <2>1. <<r, k>> \in Cells
    BY DEF Cells
  <2>2. Cleared.cells[<<r, k>>] = Blank
    BY <1>2, <1>3, <2>1
  <2>3. CASE r = 0
    BY <1>1, <1>4, <2>2, <2>3 DEF Glyph
  <2>4. CASE r # 0
    <3>1. ~(r < Len(BlankPage))
      BY <1>1, <1>4, <2>4
    <3> QED BY <2>2, <3>1 DEF Glyph
  <2> QED BY <2>3, <2>4
<1>7. Cleared \in ScreenType
  BY <1>3 DEF ScreenType
<1>8. Cleared.row = Len(BlankPage) - 1 /\ Cleared.column = Len(Last(BlankPage))
  BY <1>3, <1>4, <1>5
<1> QED BY <1>5, <1>6, <1>7, <1>8, TextIs

(* clear keeps the invariant. *)
LEMMA WipeKeeps ==
  ASSUME NEW c, ConInv(c)
  PROVE  ConInv(Wipe(c))
<1>1. CASE DeskCon(c)
  BY <1>1 DEF DeskCon, Wipe
<1>2. CASE TextCon(c)
  <2>1. Text(Cleared, BlankPage) /\ Cleared \in ScreenType /\ BlankPage \in Seq(Seq({"c"}))
    BY BlankShows DEF Text, Grid
  <2>2. PICK d : d = Wipe(c)
    OBVIOUS
  <2>3. d = [c EXCEPT !.screen = Cleared, !.rows = BlankPage]
    BY <1>2, <2>2 DEF Wipe, TextCon
  <2>4. /\ d \in ConType /\ d.screen = Cleared /\ d.rows = BlankPage
        /\ d.desktop = c.desktop /\ d.enabled = c.enabled /\ d.vga = c.vga /\ d.line = c.line
    BY <2>1, <2>3 DEF ConInv, ConType
  <2>5. TextCon(d)
    BY <1>2, <2>1, <2>4 DEF TextCon
  <2>6. Len(d.line) < LineCapacity
    BY <2>4 DEF ConInv
  <2> QED BY <2>2, <2>4, <2>5, <2>6 DEF ConInv
<1> QED BY <1>1, <1>2 DEF ConInv

(* The line being typed may change within its capacity. *)
LEMMA LineKeeps ==
  ASSUME NEW c, ConInv(c), NEW l \in Seq(Letter), Len(l) < LineCapacity
  PROVE  ConInv([c EXCEPT !.line = l])
<1>1. PICK d : d = [c EXCEPT !.line = l]
  OBVIOUS
<1>2. /\ d \in ConType /\ d.line = l /\ d.screen = c.screen /\ d.rows = c.rows /\ d.saved = c.saved
      /\ d.desktop = c.desktop /\ d.enabled = c.enabled /\ d.vga = c.vga /\ d.savedVga = c.savedVga
  BY <1>1 DEF ConInv, ConType
<1>3. TextCon(c) => TextCon(d)
  BY <1>2 DEF TextCon
<1>4. DeskCon(c) => DeskCon(d)
  BY <1>2 DEF DeskCon
<1> QED BY <1>1, <1>2, <1>3, <1>4 DEF ConInv

(* Opening the desktop, or not *)
LEMMA OpenKeeps ==
  ASSUME NEW c, ConInv(c), ~c.desktop
  PROVE  ConInv(Enable(Opened(c), FALSE)) /\ Enable(Opened(c), FALSE).desktop = TRUE
<1>1. TextCon(c) /\ c \in ConType
  BY DEF ConInv, DeskCon
<1>2. c.vga = TextMode /\ c.screen \in ScreenType /\ c.screen.cells \in [Cells -> Shade]
  BY <1>1 DEF TextCon, ConType, ScreenType
<1>3. Picture \in [Cells -> Shade]
  BY DEF Picture, Shade
<1>4. PICK t : t = [c.screen EXCEPT !.cells = Picture]
  OBVIOUS
<1>5. t \in ScreenType /\ t.cells = Picture /\ [t EXCEPT !.cells = c.screen.cells] = c.screen
  BY <1>2, <1>3, <1>4 DEF ScreenType
<1>6. PICK d : d = Enable(Opened(c), FALSE)
  OBVIOUS
<1>7. d = [c EXCEPT !.desktop = TRUE, !.enabled = FALSE, !.saved = c.screen.cells, !.screen = t,
                    !.savedVga = TextMode, !.vga = GraphicsMode]
  BY <1>1, <1>2, <1>4, <1>6 DEF Enable, Opened, GraphicsMode, ConType
<1>8. /\ d \in ConType /\ d.line = c.line /\ d.screen = t /\ d.rows = c.rows /\ d.saved = c.screen.cells
      /\ d.desktop = TRUE /\ d.enabled = FALSE /\ d.vga = GraphicsMode /\ d.savedVga = TextMode
  BY <1>1, <1>2, <1>5, <1>7 DEF ConType, Modes
<1>9. DeskCon(d)
  BY <1>1, <1>5, <1>8 DEF DeskCon, TextCon
<1>10. Len(d.line) < LineCapacity
  BY <1>8 DEF ConInv
<1> QED BY <1>6, <1>8, <1>9, <1>10 DEF ConInv

(* An attempt to open the desktop that fails leaves the console as it was. *)
LEMMA NotOpenedKeeps ==
  ASSUME NEW c, ConInv(c), ~c.desktop
  PROVE  NotOpened(c) = c
<1>1. TextCon(c) /\ c \in ConType
  BY DEF ConInv, DeskCon
<1>2. Restored(ModeSet(c.vga), c.vga) = c.vga
  BY <1>1, ModeBack DEF TextCon
<1> QED BY <1>1, <1>2 DEF NotOpened, ConType

(* Closing it *)
LEMMA CloseKeeps ==
  ASSUME NEW c, ConInv(c)
  PROVE  ConInv(Enable(Closed(c), TRUE)) /\ Enable(Closed(c), TRUE).desktop = FALSE
<1>1. CASE TextCon(c)
  <2>1. Closed(c) = c /\ c.enabled = TRUE /\ c \in ConType
    BY <1>1 DEF TextCon, Closed, ConInv
  <2>2. Enable(c, TRUE) = c
    BY <2>1 DEF Enable, ConType
  <2> QED BY <1>1, <2>1, <2>2 DEF TextCon
<1>2. CASE DeskCon(c)
  <2>1. PICK t : t = [c.screen EXCEPT !.cells = c.saved]
    OBVIOUS
  <2>2. Text(t, c.rows) /\ t \in ScreenType
    BY <1>2, <2>1 DEF DeskCon, Text
  <2>3. Restored([c.vga EXCEPT !.glyphs = c.savedVga.glyphs], c.savedVga) = TextMode
    BY <1>2, ModeBack DEF DeskCon
  <2>4. PICK d : d = Enable(Closed(c), TRUE)
    OBVIOUS
  <2>5. Closed(c) = [c EXCEPT !.desktop = FALSE, !.saved = NoCells, !.screen.cells = c.saved,
                              !.vga = Restored([c.vga EXCEPT !.glyphs = c.savedVga.glyphs], c.savedVga)]
    BY <1>2 DEF Closed, DeskCon
  <2>6. d = [c EXCEPT !.desktop = FALSE, !.enabled = TRUE, !.saved = NoCells, !.screen = t, !.vga = TextMode]
    BY <2>1, <2>3, <2>4, <2>5 DEF Enable, ConInv, ConType
  <2>7. /\ d \in ConType /\ d.line = c.line /\ d.screen = t /\ d.rows = c.rows
        /\ d.desktop = FALSE /\ d.enabled = TRUE /\ d.vga = TextMode
    BY <2>2, <2>6 DEF ConInv, ConType, Modes
  <2>8. TextCon(d)
    BY <2>2, <2>7 DEF TextCon
  <2>9. Len(d.line) < LineCapacity
    BY <2>7 DEF ConInv
  <2> QED BY <2>4, <2>7, <2>8, <2>9 DEF ConInv
<1> QED BY <1>1, <1>2 DEF ConInv

(* Every command keeps the invariant. *)
LEMMA ExecuteKeeps ==
  ASSUME NEW c, ConInv(c), NEW command_, NEW x \in Execute(c, command_)
  PROVE  ConInv(x)
<1>1. /\ ConInv(SayLine(c)) /\ SayLine(c).desktop = c.desktop
  BY SayLineKeeps
<1>2. CASE command_ = <<"d">> /\ ~c.desktop
  <2>1. NotOpened(SayLine(c)) = SayLine(c)
    BY <1>1, <1>2, NotOpenedKeeps
  <2>2. ConInv(SayLine(SayLine(c)))
    BY <1>1, SayLineKeeps
  <2>3. ConInv(Enable(Opened(SayLine(c)), FALSE))
    BY <1>1, <1>2, OpenKeeps
  <2>4. x \in {SayLine(NotOpened(SayLine(c))), Enable(Opened(SayLine(c)), FALSE)}
    BY <1>2 DEF Execute
  <2> QED BY <2>1, <2>2, <2>3, <2>4
<1>3. CASE command_ = <<"c">>
  <2>1. ConInv(Enable(Closed(c), TRUE))
    BY CloseKeeps
  <2>2. ConInv(SayLine(Enable(Closed(c), TRUE)))
    BY <2>1, SayLineKeeps
  <2>3. x = SayLine(Enable(Closed(c), TRUE))
    BY <1>3 DEF Execute
  <2> QED BY <2>2, <2>3
<1>4. CASE ~(command_ = <<"d">> /\ ~c.desktop) /\ command_ # <<"c">>
  <2>1. x \in {c, SayLine(c), Wipe(c)}
    BY <1>4 DEF Execute
  <2> QED BY <1>1, <2>1, WipeKeeps
<1> QED BY <1>2, <1>3, <1>4

(* Every byte of input does. *)
LEMMA InputKeeps ==
  ASSUME NEW c, ConInv(c), NEW byte \in Letter \cup {LF, BS}, NEW x \in Input(c, byte)
  PROVE  ConInv(x)
<1>1. c.line \in Seq(Letter) /\ Len(c.line) < LineCapacity /\ LineCapacity \in Nat \ {0}
  BY ShellAssumption DEF ConInv, ConType
<1>2. CASE byte = LF
  <2>1. x \in {[Prompt(y) EXCEPT !.line = <<>>] : y \in Execute(Say(c, LF), c.line)}
    BY <1>2 DEF Input, LF, BS
  <2>2. PICK y \in Execute(Say(c, LF), c.line) : x = [Prompt(y) EXCEPT !.line = <<>>]
    BY <2>1
  <2>3. ConInv(Say(c, LF))
    BY SayKeeps
  <2>4. ConInv(y)
    BY <2>3, ExecuteKeeps
  <2>5. ConInv(Prompt(y))
    BY <2>4, SayLineKeeps
  <2>6. <<>> \in Seq(Letter) /\ Len(<<>>) < LineCapacity
    BY <1>1
  <2> QED BY <2>2, <2>5, <2>6, LineKeeps
<1>3. CASE byte = BS
  <2>1. CASE c.line = <<>>
    BY <1>3, <2>1 DEF Input, LF, BS
  <2>2. CASE c.line # <<>>
    <3>1. Front(c.line) \in Seq(Letter) /\ Len(Front(c.line)) = Len(c.line) - 1 /\ Len(c.line) \in Nat
      BY <1>1, <2>2, FrontIs
    <3>2. Len(Front(c.line)) < LineCapacity
      BY <1>1, <3>1
    <3>3. ConInv([c EXCEPT !.line = Front(c.line)])
      BY <3>1, <3>2, LineKeeps
    <3>4. ConInv(Say([c EXCEPT !.line = Front(c.line)], BS))
      BY <3>3, SayKeeps
    <3>5. x = Say([c EXCEPT !.line = Front(c.line)], BS)
      BY <1>3, <2>2 DEF Input, LF, BS
    <3> QED BY <3>4, <3>5
  <2> QED BY <2>1, <2>2
<1>4. CASE byte \in Letter
  <2>1. byte # LF /\ byte # BS
    BY <1>4 DEF Letter, LF, BS
  <2>2. CASE Len(c.line) < LineCapacity - 1
    <3>1. Append(c.line, byte) \in Seq(Letter) /\ Len(Append(c.line, byte)) = Len(c.line) + 1
      BY <1>1, <1>4
    <3>2. Len(Append(c.line, byte)) < LineCapacity
      BY <1>1, <2>2, <3>1
    <3>3. ConInv([c EXCEPT !.line = Append(c.line, byte)])
      BY <3>1, <3>2, LineKeeps
    <3>4. ConInv(Say([c EXCEPT !.line = Append(c.line, byte)], "c"))
      BY <3>3, SayKeeps
    <3>5. x = Say([c EXCEPT !.line = Append(c.line, byte)], "c")
      BY <2>1, <2>2 DEF Input
    <3> QED BY <3>4, <3>5
  <2>3. CASE ~(Len(c.line) < LineCapacity - 1)
    BY <2>1, <2>3 DEF Input
  <2> QED BY <2>2, <2>3
<1> QED BY <1>2, <1>3, <1>4

(* And every step of the console. *)
LEMMA ConsoleKeeps ==
  ASSUME ConInv(con), ConsoleNext
  PROVE  ConInv(con')
<1>1. ASSUME NEW b \in Letter \cup {CR, LF, BS}, PollSerial(b) PROVE ConInv(con')
  <2>1. CASE con' = con
    BY <2>1
  <2>2. CASE con' \in Input(con, IF b = CR THEN LF ELSE b)
    <3>1. (IF b = CR THEN LF ELSE b) \in Letter \cup {LF, BS}
      BY <1>1
    <3> QED BY <2>2, <3>1, InputKeeps
  <2> QED BY <1>1, <2>1, <2>2 DEF PollSerial
<1>2. ASSUME NEW b \in Letter \cup {LF, BS}, TextKey(b) PROVE ConInv(con')
  <2>1. CASE con' = con
    BY <2>1
  <2>2. CASE con' \in Input(con, b)
    BY <2>2, InputKeeps
  <2> QED BY <1>2, <2>1, <2>2 DEF TextKey
<1>3. CASE Prefix
  BY <1>3 DEF Prefix
<1>4. CASE Escape
  <2>1. ConInv(Enable(Closed(con), TRUE))
    BY CloseKeeps
  <2>2. ConInv(Say(Enable(Closed(con), TRUE), LF))
    BY <2>1, SayKeeps
  <2>3. ConInv(SayLine(Say(Enable(Closed(con), TRUE), LF)))
    BY <2>2, SayLineKeeps
  <2>4. ConInv(Prompt(SayLine(Say(Enable(Closed(con), TRUE), LF))))
    BY <2>3, SayLineKeeps
  <2> QED BY <1>4, <2>4 DEF Escape
<1>5. ASSUME NEW k \in Letter, GuiCommand(<<k>>) PROVE ConInv(con')
  <2>1. PICK c \in Execute(SayLine(Say(con, LF)), <<k>>) : con' = Prompt(c)
    BY <1>5 DEF GuiCommand
  <2>2. ConInv(Say(con, LF))
    BY SayKeeps
  <2>3. ConInv(SayLine(Say(con, LF)))
    BY <2>2, SayLineKeeps
  <2>4. ConInv(c)
    BY <2>3, ExecuteKeeps
  <2> QED BY <2>1, <2>4, SayLineKeeps
<1> QED BY <1>1, <1>2, <1>3, <1>4, <1>5 DEF ConsoleNext

(* The console starts so, with no desktop. *)
LEMMA ConsoleStart ==
  ASSUME ConsoleInit
  PROVE  ConInv(con) /\ con.desktop = FALSE
<1>1. Text(Cleared, BlankPage) /\ Cleared \in ScreenType /\ BlankPage \in Seq(Seq({"c"}))
  BY BlankShows DEF Text, Grid
<1>2. <<>> \in Seq(Letter) /\ Len(<<>>) < LineCapacity
  BY ShellAssumption
<1>3. NewConsole \in ConType
  BY <1>1, <1>2 DEF NewConsole, ConType, Modes
<1>4. TextCon(NewConsole) /\ NewConsole.line = <<>> /\ NewConsole.desktop = FALSE
  BY <1>1 DEF NewConsole, TextCon
<1>5. ConInv(NewConsole)
  BY <1>2, <1>3, <1>4 DEF ConInv
<1>6. ConInv(SayLine(NewConsole)) /\ SayLine(NewConsole).desktop = FALSE
  BY <1>4, <1>5, SayLineKeeps
<1>7. ConInv(SayLine(SayLine(NewConsole))) /\ SayLine(SayLine(NewConsole)).desktop = FALSE
  BY <1>6, SayLineKeeps
<1> QED BY <1>7, SayLineKeeps DEF ConsoleInit

(* The invariant says what ScreenSound does. *)
LEMMA ConSound ==
  ASSUME ConInv(con)
  PROVE  ScreenSound
<1>1. CASE TextCon(con)
  <2>1. [con.screen EXCEPT !.cells = IF con.desktop THEN con.saved ELSE @] = con.screen
    BY <1>1 DEF TextCon, ConInv, ConType, ScreenType
  <2> QED BY <1>1, <2>1 DEF TextCon, ConInv, ScreenSound, Text
<1>2. CASE DeskCon(con)
  <2>1. [con.screen EXCEPT !.cells = IF con.desktop THEN con.saved ELSE @] = [con.screen EXCEPT !.cells = con.saved]
    BY <1>2 DEF DeskCon
  <2> QED BY <1>2, <2>1 DEF DeskCon, ConInv, ScreenSound, Text
<1> QED BY <1>1, <1>2 DEF ConInv

-----------------------------------------------------------------------------
(* The actions on their way: Keys has the key of every action at its place *)
(* in incoming, row 0, or in a call, and 0 elsewhere.                      *)

Line == {l \in [is : {"E", "A", "N", "R1"}, kind : Kind \cup {"reply"}, key : Nat] : l.is = "E" => l.key # 0}
Event == {l \in Line : l.is = "E"}

KeyOf(l) == IF l.is = "E" THEN l.key ELSE 0
Row(q) == [i \in Nat |-> IF i \in 1 .. Len(q) THEN KeyOf(q[i]) ELSE 0]
Keys(in, cs) ==
  [n \in Nat |-> IF n = 0 THEN Row(in) ELSE IF n <= Len(cs) THEN Row(cs[n]) ELSE Row(<<>>)]

Apart(F, n, i, m, j) == F[n][i] # 0 /\ F[n][i] = F[m][j] => n = m /\ i = j
Single(F) == \A n, i, m, j \in Nat : Apart(F, n, i, m, j)
Within(F, H, t) == \A n, i \in Nat : F[n][i] # 0 => F[n][i] \in 1 .. t /\ F[n][i] \notin H
Covered(F, H, t) == \A k \in 1 .. t : k \in H \/ \E n, i \in Nat : F[n][i] = k
Once(F, H, t) ==
  /\ F \in [Nat -> [Nat -> Nat]] /\ t \in Nat /\ H \subseteq 1 .. t
  /\ Single(F) /\ Within(F, H, t) /\ Covered(F, H, t)

(* A place that is not one of the first two has one before it. *)
LEMMA Predecessor == \A i \in Nat : i # 0 /\ i # 1 => \E j \in Nat \ {0} : i = j + 1
<1> SUFFICES ASSUME NEW i \in Nat, i # 0, i # 1 PROVE \E j \in Nat \ {0} : i = j + 1
  OBVIOUS
<1>1. i - 1 \in Nat \ {0} /\ i = (i - 1) + 1
  OBVIOUS
<1> QED BY <1>1

(* The first action of a row leaves it. *)
LEMMA ShiftOut ==
  ASSUME NEW F, NEW H, NEW t, Once(F, H, t), NEW r \in Nat, F[r][0] = 0,
         NEW G \in [Nat -> [Nat -> Nat]],
         \A n \in Nat : n # r => G[n] = F[n],
         G[r][0] = 0, \A i \in Nat \ {0} : G[r][i] = F[r][i + 1]
  PROVE  Once(G, IF F[r][1] = 0 THEN H ELSE H \cup {F[r][1]}, t)
<1>1. /\ F \in [Nat -> [Nat -> Nat]] /\ t \in Nat /\ H \subseteq 1 .. t
      /\ Single(F) /\ Within(F, H, t) /\ Covered(F, H, t)
  BY DEF Once
<1>2. PICK I : I = IF F[r][1] = 0 THEN H ELSE H \cup {F[r][1]}
  OBVIOUS
<1>3. ASSUME NEW n \in Nat, NEW i \in Nat, G[n][i] # 0
      PROVE  /\ (IF n = r THEN i + 1 ELSE i) \in Nat /\ G[n][i] = F[n][IF n = r THEN i + 1 ELSE i]
             /\ n = r => i # 0
  <2>1. CASE n = r
    <3>1. i \in Nat \ {0}
      BY <1>3, <2>1
    <3> QED BY <2>1, <3>1
  <2>2. CASE n # r
    BY <2>2
  <2> QED BY <2>1, <2>2
<1>4. I \subseteq 1 .. t
  <2>1. F[r][1] # 0 => F[r][1] \in 1 .. t
    BY <1>1 DEF Within
  <2> QED BY <1>1, <1>2, <2>1
<1>5. ASSUME NEW n \in Nat, NEW i \in Nat, NEW m \in Nat, NEW j \in Nat PROVE Apart(G, n, i, m, j)
  <2>s. SUFFICES ASSUME G[n][i] = G[m][j], G[n][i] # 0 PROVE n = m /\ i = j
    BY DEF Apart
  <2>1. /\ (IF n = r THEN i + 1 ELSE i) \in Nat /\ G[n][i] = F[n][IF n = r THEN i + 1 ELSE i]
        /\ (IF m = r THEN j + 1 ELSE j) \in Nat /\ G[m][j] = F[m][IF m = r THEN j + 1 ELSE j]
    BY <1>3, <2>s
  <2>2. PICK p \in Nat, o \in Nat : p = (IF n = r THEN i + 1 ELSE i) /\ o = (IF m = r THEN j + 1 ELSE j)
    BY <2>1
  <2>3. F[n][p] = F[m][o] /\ F[n][p] # 0
    BY <2>s, <2>1, <2>2
  <2>4. Apart(F, n, p, m, o)
    BY <1>1 DEF Single
  <2>5. n = m /\ p = o
    BY <2>3, <2>4 DEF Apart
  <2>6. CASE n = r
    <3>1. i + 1 = j + 1
      BY <2>2, <2>5, <2>6
    <3> QED BY <2>5, <3>1
  <2>7. CASE n # r
    BY <2>2, <2>5, <2>7
  <2> QED BY <2>6, <2>7
<1>6. ASSUME NEW n \in Nat, NEW i \in Nat, G[n][i] # 0
      PROVE  G[n][i] \in 1 .. t /\ G[n][i] \notin I
  <2>1. PICK p \in Nat : p = (IF n = r THEN i + 1 ELSE i) /\ G[n][i] = F[n][p] /\ (n = r => i # 0)
    BY <1>3, <1>6
  <2>2. F[n][p] \in 1 .. t /\ F[n][p] \notin H
    BY <1>1, <1>6, <2>1 DEF Within
  <2>3. ASSUME F[n][p] = F[r][1] PROVE FALSE
    <3>1. n = r /\ p = 1
      <4>1. Apart(F, n, p, r, 1)
        BY <1>1 DEF Single
      <4> QED BY <1>6, <2>1, <2>3, <4>1 DEF Apart
    <3> QED BY <2>1, <3>1
  <2> QED BY <1>2, <2>1, <2>2, <2>3
<1>7. ASSUME NEW k \in 1 .. t, k \notin I PROVE \E n, i \in Nat : G[n][i] = k
  <2>1. k \notin H /\ k # 0 /\ k # F[r][1]
    <3>1. k # 0 /\ t \in Nat
      BY <1>1
    <3> QED BY <1>2, <1>7, <3>1
  <2>2. PICK n \in Nat, i \in Nat : F[n][i] = k
    BY <1>1, <2>1 DEF Covered
  <2>3. CASE n # r
    BY <2>2, <2>3
  <2>4. CASE n = r
    <3>1. i # 0 /\ i # 1
      BY <2>1, <2>2, <2>4
    <3>2. PICK j \in Nat \ {0} : i = j + 1
      BY <3>1, Predecessor, Zenon
    <3>3. G[r][j] = k
      BY <2>2, <2>4, <3>2
    <3> QED BY <3>2, <3>3
  <2> QED BY <2>3, <2>4
<1>8. Single(G) /\ Within(G, I, t) /\ Covered(G, I, t)
  <2>1. Single(G)
    BY <1>5 DEF Single
  <2>2. Within(G, I, t)
    BY <1>6 DEF Within
  <2>3. Covered(G, I, t)
    BY <1>7 DEF Covered
  <2> QED BY <2>1, <2>2, <2>3
<1> QED BY <1>1, <1>2, <1>4, <1>8 DEF Once

(* An action is put at a free place. *)
PlacedAt(F, G, r, e, k) ==
  /\ G \in [Nat -> [Nat -> Nat]] /\ F[r][e] = 0 /\ G[r][e] = k
  /\ \A n \in Nat : n # r => G[n] = F[n]
  /\ \A i \in Nat : i # e => G[r][i] = F[r][i]
(* A key counted as handled may be at a free place instead. *)
LEMMA PutIn ==
  ASSUME NEW F, NEW H, NEW t, Once(F, H, t), NEW k \in H, NEW r \in Nat, NEW e \in Nat,
         NEW G, PlacedAt(F, G, r, e, k)
  PROVE  Once(G, H \ {k}, t)
<1> USE DEF PlacedAt
<1>1. /\ F \in [Nat -> [Nat -> Nat]] /\ t \in Nat /\ H \subseteq 1 .. t
      /\ Single(F) /\ Within(F, H, t) /\ Covered(F, H, t)
  BY DEF Once
<1>2. k \in 1 .. t /\ k # 0
  BY <1>1
<1>3. ASSUME NEW n \in Nat, NEW i \in Nat, G[n][i] # 0
      PROVE  \/ n = r /\ i = e /\ G[n][i] = k
             \/ G[n][i] = F[n][i] /\ F[n][i] # k
  <2>1. CASE n = r /\ i = e
    BY <2>1
  <2>2. CASE ~(n = r /\ i = e)
    <3>1. G[n][i] = F[n][i]
      BY <2>2
    <3> QED BY <1>1, <1>3, <3>1 DEF Within
  <2> QED BY <2>1, <2>2
<1>4. ASSUME NEW n \in Nat, NEW i \in Nat, NEW m \in Nat, NEW j \in Nat PROVE Apart(G, n, i, m, j)
  <2>s. SUFFICES ASSUME G[n][i] = G[m][j], G[n][i] # 0 PROVE n = m /\ i = j
    BY DEF Apart
  <2>1. /\ \/ n = r /\ i = e /\ G[n][i] = k
           \/ G[n][i] = F[n][i] /\ F[n][i] # k
        /\ \/ m = r /\ j = e /\ G[m][j] = k
           \/ G[m][j] = F[m][j] /\ F[m][j] # k
    BY <1>3, <2>s
  <2>2. CASE n = r /\ i = e /\ G[n][i] = k
    BY <2>s, <2>1, <2>2
  <2>3. CASE m = r /\ j = e /\ G[m][j] = k
    BY <2>s, <2>1, <2>3
  <2>4. CASE G[n][i] = F[n][i] /\ G[m][j] = F[m][j]
    <3>1. Apart(F, n, i, m, j)
      BY <1>1 DEF Single
    <3> QED BY <2>s, <2>4, <3>1 DEF Apart
  <2> QED BY <2>1, <2>2, <2>3, <2>4
<1>5. ASSUME NEW n \in Nat, NEW i \in Nat, G[n][i] # 0
      PROVE  G[n][i] \in 1 .. t /\ G[n][i] \notin H \ {k}
  <2>1. \/ n = r /\ i = e /\ G[n][i] = k
        \/ G[n][i] = F[n][i] /\ F[n][i] # k
    BY <1>3, <1>5
  <2> QED BY <1>1, <1>2, <1>5, <2>1 DEF Within
<1>6. ASSUME NEW x \in 1 .. t, x \notin H \ {k} PROVE \E n, i \in Nat : G[n][i] = x
  <2>1. CASE x = k
    BY <2>1
  <2>2. CASE x # k
    <3>1. PICK n \in Nat, i \in Nat : F[n][i] = x
      BY <1>1, <1>6, <2>2 DEF Covered
    <3>2. ~(n = r /\ i = e)
      <4>1. x # 0
        BY <1>1
      <4> QED BY <3>1, <4>1
    <3>3. G[n][i] = x
      BY <3>1, <3>2
    <3> QED BY <3>3
  <2> QED BY <2>1, <2>2
<1>7. H \ {k} \subseteq 1 .. t
  BY <1>1
<1>8. Single(G) /\ Within(G, H \ {k}, t) /\ Covered(G, H \ {k}, t)
  <2>1. Single(G)
    BY <1>4 DEF Single
  <2>2. Within(G, H \ {k}, t)
    BY <1>5 DEF Within
  <2>3. Covered(G, H \ {k}, t)
    BY <1>6 DEF Covered
  <2> QED BY <2>1, <2>2, <2>3
<1> QED BY <1>1, <1>7, <1>8 DEF Once

(* One more action *)
LEMMA OneMore ==
  ASSUME NEW F, NEW H, NEW t, Once(F, H, t)
  PROVE  Once(F, H \cup {t + 1}, t + 1) /\ t + 1 \notin H /\ t + 1 \in Nat
<1>1. /\ F \in [Nat -> [Nat -> Nat]] /\ t \in Nat /\ H \subseteq 1 .. t
      /\ Single(F) /\ Within(F, H, t) /\ Covered(F, H, t)
  BY DEF Once
<1>2. t + 1 \notin H /\ t + 1 \in Nat /\ H \cup {t + 1} \subseteq 1 .. t + 1 /\ t + 1 \notin 1 .. t
  <2>1. t \in Nat /\ \A h \in H : h \in 1 .. t
    BY <1>1
  <2> QED BY <2>1
<1>3. Within(F, H \cup {t + 1}, t + 1)
  <2>1. SUFFICES ASSUME NEW n \in Nat, NEW i \in Nat, F[n][i] # 0
                 PROVE  F[n][i] \in 1 .. t + 1 /\ F[n][i] \notin H \cup {t + 1}
    BY DEF Within
  <2>2. F[n][i] \in 1 .. t /\ F[n][i] \notin H
    BY <1>1, <2>1 DEF Within
  <2>3. F[n][i] \in 1 .. t + 1 /\ F[n][i] # t + 1
    <3>1. t \in Nat /\ \A v \in 1 .. t : v \in 1 .. t + 1 /\ v # t + 1
      BY <1>1
    <3> QED BY <2>2, <3>1
  <2> QED BY <2>2, <2>3
<1>4. Covered(F, H \cup {t + 1}, t + 1)
  <2>1. SUFFICES ASSUME NEW k \in 1 .. t + 1, k \notin H \cup {t + 1} PROVE \E n, i \in Nat : F[n][i] = k
    BY DEF Covered
  <2>2. k \in 1 .. t /\ k \notin H
    <3>1. t \in Nat /\ k # t + 1 /\ k \notin H
      BY <1>1, <2>1
    <3> QED BY <3>1
  <2> QED BY <1>1, <2>2 DEF Covered
<1> QED BY <1>1, <1>2, <1>3, <1>4 DEF Once

(* The keys of a queue, by place. *)
LEMMA RowIs ==
  ASSUME NEW q \in Seq(Line)
  PROVE  /\ Row(q) \in [Nat -> Nat] /\ Row(q)[0] = 0 /\ Len(q) \in Nat
         /\ \A i \in 1 .. Len(q) : Row(q)[i] = KeyOf(q[i])
         /\ \A i \in Nat : i > Len(q) => Row(q)[i] = 0
<1>1. Len(q) \in Nat /\ \A i \in 1 .. Len(q) : q[i] \in Line
  OBVIOUS
<1>2. \A l \in Line : KeyOf(l) \in Nat
  BY DEF Line, KeyOf
<1>3. \A i \in Nat : (IF i \in 1 .. Len(q) THEN KeyOf(q[i]) ELSE 0) \in Nat
  BY <1>1, <1>2
<1>4. Row(q) \in [Nat -> Nat] /\ \A i \in Nat : Row(q)[i] = IF i \in 1 .. Len(q) THEN KeyOf(q[i]) ELSE 0
  BY <1>3 DEF Row
<1> QED BY <1>1, <1>4

(* Append puts one key behind the others. *)
LEMMA RowAppend ==
  ASSUME NEW q \in Seq(Line), NEW l \in Line
  PROVE  /\ Append(q, l) \in Seq(Line)
         /\ Row(Append(q, l))[Len(q) + 1] = KeyOf(l)
         /\ \A i \in Nat : i # Len(q) + 1 => Row(Append(q, l))[i] = Row(q)[i]
<1>1. PICK a : a = Append(q, l)
  OBVIOUS
<1>2. /\ a \in Seq(Line) /\ Len(a) = Len(q) + 1 /\ a[Len(q) + 1] = l
      /\ \A i \in 1 .. Len(q) : a[i] = q[i]
  BY <1>1, AppendIs
<1>3. /\ Row(q)[0] = 0 /\ Len(q) \in Nat
      /\ \A i \in 1 .. Len(q) : Row(q)[i] = KeyOf(q[i])
      /\ \A i \in Nat : i > Len(q) => Row(q)[i] = 0
  BY RowIs
<1>4. /\ Row(a)[0] = 0
      /\ \A i \in 1 .. Len(a) : Row(a)[i] = KeyOf(a[i])
      /\ \A i \in Nat : i > Len(a) => Row(a)[i] = 0
  BY <1>2, RowIs
<1>5. Row(a)[Len(q) + 1] = KeyOf(l)
  BY <1>2, <1>3, <1>4
<1>6. ASSUME NEW i \in Nat, i # Len(q) + 1 PROVE Row(a)[i] = Row(q)[i]
  <2>1. CASE i = 0
    BY <1>3, <1>4, <2>1
  <2>2. CASE i \in 1 .. Len(q)
    <3>1. i \in 1 .. Len(a)
      BY <1>2, <1>3, <2>2
    <3> QED BY <1>2, <1>3, <1>4, <2>2, <3>1
  <2>3. CASE i > Len(q) + 1
    <3>1. i > Len(a) /\ i > Len(q)
      BY <1>2, <1>3, <2>3
    <3> QED BY <1>3, <1>4, <3>1
  <2> QED BY <1>3, <1>6, <2>1, <2>2, <2>3
<1> QED BY <1>1, <1>2, <1>5, <1>6

(* Tail moves every key one place forward. *)
LEMMA RowTail ==
  ASSUME NEW q \in Seq(Line), q # <<>>
  PROVE  /\ Tail(q) \in Seq(Line) /\ Head(q) \in Line
         /\ Row(q)[1] = KeyOf(Head(q)) /\ Row(Tail(q))[0] = 0
         /\ \A i \in Nat \ {0} : Row(Tail(q))[i] = Row(q)[i + 1]
<1>1. PICK a : a = Tail(q)
  OBVIOUS
<1>2. /\ a \in Seq(Line) /\ Len(a) = Len(q) - 1 /\ Len(q) \in Nat \ {0} /\ Head(q) = q[1] /\ q[1] \in Line
      /\ \A i \in 1 .. Len(q) - 1 : a[i] = q[i + 1]
  BY <1>1, TailIs
<1>3. /\ \A i \in 1 .. Len(q) : Row(q)[i] = KeyOf(q[i])
      /\ \A i \in Nat : i > Len(q) => Row(q)[i] = 0
  BY RowIs
<1>4. /\ Row(a)[0] = 0
      /\ \A i \in 1 .. Len(a) : Row(a)[i] = KeyOf(a[i])
      /\ \A i \in Nat : i > Len(a) => Row(a)[i] = 0
  BY <1>2, RowIs
<1>5. Row(q)[1] = KeyOf(Head(q))
  BY <1>2, <1>3
<1>6. ASSUME NEW i \in Nat \ {0} PROVE Row(a)[i] = Row(q)[i + 1]
  <2>1. CASE i \in 1 .. Len(a)
    <3>1. i \in 1 .. Len(q) - 1 /\ i + 1 \in 1 .. Len(q)
      BY <1>2, <2>1
    <3> QED BY <1>2, <1>3, <1>4, <2>1, <3>1
  <2>2. CASE i > Len(a)
    <3>1. i + 1 > Len(q) /\ i + 1 \in Nat
      BY <1>2, <2>2
    <3> QED BY <1>3, <1>4, <2>2, <3>1
  <2> QED BY <1>2, <2>1, <2>2
<1> QED BY <1>1, <1>2, <1>4, <1>5, <1>6

(* The keys of the incoming lines and of every call. *)
LEMMA KeysAre ==
  ASSUME NEW in \in Seq(Line), NEW cs \in Seq(Seq(Event))
  PROVE  /\ Keys(in, cs) \in [Nat -> [Nat -> Nat]] /\ Len(cs) \in Nat /\ Keys(in, cs)[0] = Row(in)
         /\ \A n \in 1 .. Len(cs) : cs[n] \in Seq(Line) /\ Keys(in, cs)[n] = Row(cs[n])
         /\ \A n \in Nat : n > Len(cs) => Keys(in, cs)[n] = Row(<<>>)
         /\ \A n \in Nat : Keys(in, cs)[n][0] = 0
<1>1. Len(cs) \in Nat /\ \A n \in 1 .. Len(cs) : cs[n] \in Seq(Event)
  OBVIOUS
<1>2. \A e \in Event : e \in Line
  BY DEF Event
<1>3. \A n \in 1 .. Len(cs) : cs[n] \in Seq(Line)
  <2>1. SUFFICES ASSUME NEW q \in Seq(Event) PROVE q \in Seq(Line)
    BY <1>1
  <2>2. Len(q) \in Nat /\ \A i \in 1 .. Len(q) : q[i] \in Line
    BY <1>2
  <2> QED BY <2>2
<1>4. <<>> \in Seq(Line)
  OBVIOUS
<1>5. Row(in) \in [Nat -> Nat] /\ Row(<<>>) \in [Nat -> Nat] /\ \A n \in 1 .. Len(cs) : Row(cs[n]) \in [Nat -> Nat]
  BY <1>3, <1>4, RowIs
<1>6. Row(in)[0] = 0 /\ Row(<<>>)[0] = 0 /\ \A n \in 1 .. Len(cs) : Row(cs[n])[0] = 0
  BY <1>3, <1>4, RowIs
<1>7. \A n \in Nat : n # 0 /\ n <= Len(cs) => n \in 1 .. Len(cs)
  BY <1>1
<1>8. \A n \in Nat :
        (IF n = 0 THEN Row(in) ELSE IF n <= Len(cs) THEN Row(cs[n]) ELSE Row(<<>>)) \in [Nat -> Nat]
  BY <1>5, <1>7
<1>9. /\ Keys(in, cs) \in [Nat -> [Nat -> Nat]]
      /\ \A n \in Nat :
           Keys(in, cs)[n] = IF n = 0 THEN Row(in) ELSE IF n <= Len(cs) THEN Row(cs[n]) ELSE Row(<<>>)
  BY <1>8 DEF Keys
<1>10. /\ Keys(in, cs)[0] = Row(in)
       /\ \A n \in 1 .. Len(cs) : Keys(in, cs)[n] = Row(cs[n])
       /\ \A n \in Nat : n > Len(cs) => Keys(in, cs)[n] = Row(<<>>)
  <2>1. ASSUME NEW n \in 1 .. Len(cs) PROVE Keys(in, cs)[n] = Row(cs[n])
    <3>1. n \in Nat /\ n # 0 /\ n <= Len(cs)
      BY <1>1
    <3> QED BY <1>9, <3>1
  <2>2. ASSUME NEW n \in Nat, n > Len(cs) PROVE Keys(in, cs)[n] = Row(<<>>)
    <3>1. n # 0 /\ ~(n <= Len(cs))
      BY <1>1, <2>2
    <3> QED BY <1>9, <3>1
  <2> QED BY <1>9, <2>1, <2>2
<1>11. \A n \in Nat : Keys(in, cs)[n][0] = 0
  BY <1>6, <1>7, <1>9
<1> QED BY <1>1, <1>3, <1>9, <1>10, <1>11

(* Those of the incoming lines are the row 0. *)
LEMMA KeysType ==
  ASSUME NEW in \in Seq(Line), NEW cs \in Seq(Seq(Event))
  PROVE  Keys(in, cs) \in [Nat -> [Nat -> Nat]] /\ Keys(in, cs)[0] = Row(in)
  BY KeysAre

(* Those of a call are the row of its number. *)
LEMMA KeysAt ==
  ASSUME NEW in \in Seq(Line), NEW cs \in Seq(Seq(Event)), NEW n \in 1 .. Len(cs)
  PROVE  cs[n] \in Seq(Line) /\ Keys(in, cs)[n] = Row(cs[n])
  BY KeysAre

(* Beyond the last call there is none. *)
LEMMA KeysBeyond ==
  ASSUME NEW in \in Seq(Line), NEW cs \in Seq(Seq(Event)), NEW n \in Nat, n > Len(cs)
  PROVE  Keys(in, cs)[n] = Row(<<>>)
  BY KeysAre

(* The rows of the calls do not depend on the incoming lines. *)
LEMMA KeysIn ==
  ASSUME NEW in, NEW other, NEW cs, NEW n \in Nat, n # 0
  PROVE  Keys(other, cs)[n] = Keys(in, cs)[n]
  BY DEF Keys

(* Between the calls cs and the calls d, only the row of the innermost one differs: it is q's. *)
TopIs(in, cs, q, d) ==
  /\ d \in Seq(Seq(Event)) /\ Keys(in, d)[Len(cs)] = Row(q)
  /\ \A n \in Nat : n # Len(cs) => Keys(in, d)[n] = Keys(in, cs)[n]

(* Changing the queue of the innermost call changes its row only. *)
LEMMA KeysTop ==
  ASSUME NEW in \in Seq(Line), NEW cs \in Seq(Seq(Event)), cs # <<>>, NEW q \in Seq(Event)
  PROVE  TopIs(in, cs, q, [cs EXCEPT ![Len(cs)] = q])
<1>1. PICK d : d = [cs EXCEPT ![Len(cs)] = q]
  OBVIOUS
<1>2. Len(cs) \in Nat \ {0} /\ Len(cs) \in 1 .. Len(cs)
  OBVIOUS
<1>3. /\ d \in Seq(Seq(Event)) /\ Len(d) = Len(cs) /\ d[Len(cs)] = q
      /\ \A n \in 1 .. Len(cs) : n # Len(cs) => d[n] = cs[n]
  BY <1>1, <1>2
<1>4. Keys(in, d)[Len(cs)] = Row(q)
  <2>1. Len(cs) \in 1 .. Len(d)
    BY <1>2, <1>3
  <2> QED BY <1>3, <2>1, KeysAt
<1>5. ASSUME NEW n \in Nat, n # Len(cs) PROVE Keys(in, d)[n] = Keys(in, cs)[n]
  <2>1. CASE n = 0
    BY <1>3, <2>1, KeysType
  <2>2. CASE n \in 1 .. Len(cs)
    <3>1. Keys(in, d)[n] = Row(d[n]) /\ Keys(in, cs)[n] = Row(cs[n])
      <4>1. n \in 1 .. Len(d)
        BY <1>3, <2>2
      <4> QED BY <1>3, <2>2, <4>1, KeysAt
    <3> QED BY <1>3, <1>5, <2>2, <3>1
  <2>3. CASE n > Len(cs)
    <3>1. n > Len(d)
      BY <1>3, <2>3
    <3> QED BY <1>3, <2>3, <3>1, KeysBeyond
  <2> QED BY <1>2, <2>1, <2>2, <2>3
<1>6. TopIs(in, cs, q, d)
  BY <1>3, <1>4, <1>5 DEF TopIs
<1> QED BY <1>1, <1>6

OnceLines(in, cs, H, t) ==
  in \in Seq(Line) /\ cs \in Seq(Seq(Event)) /\ Once(Keys(in, cs), H, t)

(* A reply arrives. *)
LEMMA Arrive ==
  ASSUME NEW in, NEW cs, NEW H, NEW t, OnceLines(in, cs, H, t), NEW l \in Line, l.is # "E"
  PROVE  OnceLines(Append(in, l), cs, H, t)
<1>1. in \in Seq(Line) /\ cs \in Seq(Seq(Event)) /\ Once(Keys(in, cs), H, t) /\ Len(in) + 1 \in Nat
  BY DEF OnceLines
<1>2. PICK new : new = Append(in, l)
  OBVIOUS
<1>3. /\ new \in Seq(Line) /\ Row(new)[Len(in) + 1] = KeyOf(l)
      /\ \A i \in Nat : i # Len(in) + 1 => Row(new)[i] = Row(in)[i]
  BY <1>1, <1>2, RowAppend
<1>4. Row(in)[Len(in) + 1] = 0 /\ Row(in) \in [Nat -> Nat]
  BY <1>1, RowIs
<1>5. Row(new) \in [Nat -> Nat]
  BY <1>3, RowIs
<1>6. KeyOf(l) = 0
  BY DEF KeyOf
<1>7. Row(new) = Row(in)
  <2>1. \A i \in Nat : Row(new)[i] = Row(in)[i]
    BY <1>3, <1>4, <1>6
  <2> QED BY <1>4, <1>5, <2>1
<1>8. Keys(new, cs) = Keys(in, cs)
  BY <1>7 DEF Keys
<1> QED BY <1>1, <1>2, <1>3, <1>8 DEF OnceLines

(* An action arrives. *)
LEMMA ArriveAction ==
  ASSUME NEW in, NEW cs, NEW H, NEW t, OnceLines(in, cs, H, t), NEW kind \in Kind
  PROVE  OnceLines(Append(in, Action(kind, t + 1)), cs, H, t + 1)
<1>1. in \in Seq(Line) /\ cs \in Seq(Seq(Event)) /\ Once(Keys(in, cs), H, t) /\ Len(in) + 1 \in Nat
  BY DEF OnceLines
<1>2. Once(Keys(in, cs), H \cup {t + 1}, t + 1) /\ t + 1 \notin H /\ t + 1 \in Nat /\ t \in Nat
  BY <1>1, OneMore DEF Once
<1>3. PICK l : l = Action(kind, t + 1)
  OBVIOUS
<1>4. l \in Line /\ KeyOf(l) = t + 1
  BY <1>2, <1>3 DEF Line, Action, KeyOf
<1>5. PICK new : new = Append(in, l)
  OBVIOUS
<1>6. /\ new \in Seq(Line) /\ Row(new)[Len(in) + 1] = t + 1
      /\ \A i \in Nat : i # Len(in) + 1 => Row(new)[i] = Row(in)[i]
  BY <1>1, <1>4, <1>5, RowAppend
<1>7. Row(in)[Len(in) + 1] = 0
  BY <1>1, RowIs
<1>8. /\ Keys(new, cs) \in [Nat -> [Nat -> Nat]] /\ Keys(new, cs)[0] = Row(new) /\ Keys(in, cs)[0] = Row(in)
      /\ \A n \in Nat : n # 0 => Keys(new, cs)[n] = Keys(in, cs)[n]
  BY <1>1, <1>6, KeysType, KeysIn
<1>9. Once(Keys(new, cs), (H \cup {t + 1}) \ {t + 1}, t + 1)
  <2>1. t + 1 \in H \cup {t + 1} /\ 0 \in Nat
    OBVIOUS
  <2>2. /\ Keys(in, cs)[0][Len(in) + 1] = 0 /\ Keys(new, cs)[0][Len(in) + 1] = t + 1
        /\ \A i \in Nat : i # Len(in) + 1 => Keys(new, cs)[0][i] = Keys(in, cs)[0][i]
    BY <1>6, <1>7, <1>8
  <2>3. PlacedAt(Keys(in, cs), Keys(new, cs), 0, Len(in) + 1, t + 1)
    BY <1>8, <2>2 DEF PlacedAt
  <2> QED BY <1>1, <1>2, <2>1, <2>3, PutIn
<1>10. (H \cup {t + 1}) \ {t + 1} = H
  BY <1>2
<1> QED BY <1>1, <1>3, <1>5, <1>6, <1>9, <1>10 DEF OnceLines

(* The first line is read. *)
LEMMA Take ==
  ASSUME NEW in, NEW cs, NEW H, NEW t, OnceLines(in, cs, H, t), in # <<>>
  PROVE  /\ Head(in) \in Line
         /\ OnceLines(Tail(in), cs, IF KeyOf(Head(in)) = 0 THEN H ELSE H \cup {KeyOf(Head(in))}, t)
         /\ Head(in).is = "E" => Head(in).key \in (1 .. t) \ H
<1>1. in \in Seq(Line) /\ cs \in Seq(Seq(Event)) /\ Once(Keys(in, cs), H, t)
  BY DEF OnceLines
<1>2. PICK new : new = Tail(in)
  OBVIOUS
<1>3. /\ new \in Seq(Line) /\ Head(in) \in Line /\ Row(in)[1] = KeyOf(Head(in)) /\ Row(new)[0] = 0
      /\ \A i \in Nat \ {0} : Row(new)[i] = Row(in)[i + 1]
  BY <1>1, <1>2, RowTail
<1>4. Row(in)[0] = 0
  BY <1>1, RowIs
<1>5. /\ Keys(new, cs) \in [Nat -> [Nat -> Nat]] /\ Keys(new, cs)[0] = Row(new) /\ Keys(in, cs)[0] = Row(in)
      /\ \A n \in Nat : n # 0 => Keys(new, cs)[n] = Keys(in, cs)[n]
  <2>1. Keys(new, cs) \in [Nat -> [Nat -> Nat]] /\ Keys(new, cs)[0] = Row(new) /\ Keys(in, cs)[0] = Row(in)
    BY <1>1, <1>3, KeysType
  <2>2. \A n \in Nat : n # 0 => Keys(new, cs)[n] = Keys(in, cs)[n]
    BY KeysIn
  <2> QED BY <2>1, <2>2
<1>6. Once(Keys(new, cs), IF Keys(in, cs)[0][1] = 0 THEN H ELSE H \cup {Keys(in, cs)[0][1]}, t)
  <2>1. /\ Keys(in, cs)[0][0] = 0 /\ Keys(new, cs)[0][0] = 0 /\ 0 \in Nat
        /\ \A i \in Nat \ {0} : Keys(new, cs)[0][i] = Keys(in, cs)[0][i + 1]
    BY <1>3, <1>4, <1>5
  <2> QED BY <1>1, <1>5, <2>1, ShiftOut
<1>7. ASSUME Head(in).is = "E" PROVE Head(in).key \in (1 .. t) \ H
  <2>1. KeyOf(Head(in)) = Head(in).key /\ Head(in).key # 0
    BY <1>3, <1>7 DEF KeyOf, Line
  <2>2. Keys(in, cs)[0][1] = Head(in).key
    BY <1>3, <1>5, <2>1
  <2>3. Within(Keys(in, cs), H, t)
    BY <1>1 DEF Once
  <2> QED BY <2>1, <2>2, <2>3 DEF Within
<1> QED BY <1>1, <1>2, <1>3, <1>5, <1>6, <1>7 DEF OnceLines

(* The first line is an action, and the top call keeps it. *)
LEMMA Keep ==
  ASSUME NEW in, NEW cs, NEW H, NEW t, OnceLines(in, cs, H, t), in # <<>>, Head(in).is = "E", cs # <<>>
  PROVE  OnceLines(Tail(in), [cs EXCEPT ![Len(cs)] = Append(cs[Len(cs)], Head(in))], H, t)
<1>1. PICK k : k = Head(in).key
  OBVIOUS
<1>2. /\ Head(in) \in Line /\ k \in (1 .. t) \ H
      /\ OnceLines(Tail(in), cs, IF KeyOf(Head(in)) = 0 THEN H ELSE H \cup {KeyOf(Head(in))}, t)
  BY <1>1, Take
<1>3. Head(in) \in Event /\ KeyOf(Head(in)) = k /\ k # 0
  BY <1>1, <1>2 DEF Event, Line, KeyOf
<1>4. PICK new : new = Tail(in)
  OBVIOUS
<1>5. new \in Seq(Line) /\ cs \in Seq(Seq(Event)) /\ Once(Keys(new, cs), H \cup {k}, t)
  BY <1>2, <1>3, <1>4 DEF OnceLines
<1>6. Len(cs) \in Nat \ {0} /\ cs[Len(cs)] \in Seq(Event) /\ cs[Len(cs)] \in Seq(Line) /\ Len(cs) \in 1 .. Len(cs)
  <2>1. Len(cs) \in Nat \ {0} /\ Len(cs) \in 1 .. Len(cs)
    BY <1>5
  <2>2. cs[Len(cs)] \in Seq(Event)
    BY <1>5, <2>1
  <2> QED BY <1>5, <2>1, <2>2, KeysAt
<1>7. PICK q : q = Append(cs[Len(cs)], Head(in))
  OBVIOUS
<1>8. PICK e : e = Len(cs[Len(cs)]) + 1
  OBVIOUS
<1>9. /\ q \in Seq(Event) /\ e \in Nat /\ Row(q)[e] = k
      /\ \A i \in Nat : i # e => Row(q)[i] = Row(cs[Len(cs)])[i]
  <2>1. q \in Seq(Event)
    BY <1>3, <1>6, <1>7
  <2> QED BY <1>2, <1>3, <1>6, <1>7, <1>8, <2>1, RowAppend
<1>10. Row(cs[Len(cs)])[e] = 0
  <2>1. PICK z \in Seq(Line) : z = cs[Len(cs)]
    BY <1>6
  <2>2. Len(z) \in Nat /\ \A i \in Nat : i > Len(z) => Row(z)[i] = 0
    BY RowIs
  <2>3. e \in Nat /\ e > Len(z)
    BY <1>8, <2>1, <2>2
  <2> QED BY <2>1, <2>2, <2>3
<1>11. PICK d : d = [cs EXCEPT ![Len(cs)] = q]
  OBVIOUS
<1>12. /\ d \in Seq(Seq(Event)) /\ Keys(new, d)[Len(cs)] = Row(q)
       /\ \A n \in Nat : n # Len(cs) => Keys(new, d)[n] = Keys(new, cs)[n]
  <2>1. TopIs(new, cs, q, d)
    BY <1>5, <1>9, <1>11, KeysTop
  <2> QED BY <2>1 DEF TopIs
<1>13. Keys(new, cs)[Len(cs)] = Row(cs[Len(cs)]) /\ Keys(new, d) \in [Nat -> [Nat -> Nat]]
  BY <1>5, <1>6, <1>12, KeysAt, KeysType
<1>14. Once(Keys(new, d), (H \cup {k}) \ {k}, t)
  <2>1. k \in H \cup {k} /\ Len(cs) \in Nat
    BY <1>6
  <2>2. /\ Keys(new, cs)[Len(cs)][e] = 0 /\ Keys(new, d)[Len(cs)][e] = k
        /\ \A i \in Nat : i # e => Keys(new, d)[Len(cs)][i] = Keys(new, cs)[Len(cs)][i]
    BY <1>9, <1>10, <1>12, <1>13
  <2>3. PlacedAt(Keys(new, cs), Keys(new, d), Len(cs), e, k)
    BY <1>12, <1>13, <2>2 DEF PlacedAt
  <2> QED BY <1>5, <1>9, <2>1, <2>3, PutIn
<1>15. (H \cup {k}) \ {k} = H
  BY <1>2
<1> QED BY <1>4, <1>5, <1>7, <1>11, <1>12, <1>14, <1>15 DEF OnceLines

(* The top call takes the first action that it kept. *)
LEMMA TakeKept ==
  ASSUME NEW in, NEW cs, NEW H, NEW t, OnceLines(in, cs, H, t), cs # <<>>, cs[Len(cs)] # <<>>
  PROVE  /\ Head(cs[Len(cs)]) \in Event /\ Head(cs[Len(cs)]).key \in 1 .. t
         /\ OnceLines(in, [cs EXCEPT ![Len(cs)] = Tail(cs[Len(cs)])], H \cup {Head(cs[Len(cs)]).key}, t)
<1>1. in \in Seq(Line) /\ cs \in Seq(Seq(Event)) /\ Once(Keys(in, cs), H, t)
  BY DEF OnceLines
<1>2. Len(cs) \in Nat \ {0} /\ Len(cs) \in 1 .. Len(cs)
  BY <1>1
<1>3. PICK o : o = cs[Len(cs)]
  OBVIOUS
<1>4. o \in Seq(Event) /\ o \in Seq(Line) /\ o # <<>> /\ Keys(in, cs)[Len(cs)] = Row(o)
  <2>1. o \in Seq(Event)
    BY <1>1, <1>2, <1>3
  <2> QED BY <1>1, <1>2, <1>3, <2>1, KeysAt
<1>5. PICK q : q = Tail(o)
  OBVIOUS
<1>6. q \in Seq(Event) /\ Head(o) \in Event
  BY <1>4, <1>5, TailIs
<1>7. /\ Row(o)[1] = KeyOf(Head(o)) /\ Row(q)[0] = 0 /\ Row(o)[0] = 0
      /\ \A i \in Nat \ {0} : Row(q)[i] = Row(o)[i + 1]
  BY <1>4, <1>5, RowTail, RowIs
<1>8. KeyOf(Head(o)) = Head(o).key /\ Head(o).key # 0
  BY <1>6 DEF KeyOf, Event, Line
<1>9. PICK d : d = [cs EXCEPT ![Len(cs)] = q]
  OBVIOUS
<1>10. /\ d \in Seq(Seq(Event)) /\ Keys(in, d)[Len(cs)] = Row(q)
       /\ \A n \in Nat : n # Len(cs) => Keys(in, d)[n] = Keys(in, cs)[n]
  <2>1. TopIs(in, cs, q, d)
    BY <1>1, <1>6, <1>9, KeysTop
  <2> QED BY <2>1 DEF TopIs
<1>11. Keys(in, d) \in [Nat -> [Nat -> Nat]]
  BY <1>1, <1>10, KeysType
<1>12. Once(Keys(in, d), IF Keys(in, cs)[Len(cs)][1] = 0 THEN H ELSE H \cup {Keys(in, cs)[Len(cs)][1]}, t)
  <2>1. /\ Keys(in, cs)[Len(cs)][0] = 0 /\ Keys(in, d)[Len(cs)][0] = 0 /\ Len(cs) \in Nat
        /\ \A i \in Nat \ {0} : Keys(in, d)[Len(cs)][i] = Keys(in, cs)[Len(cs)][i + 1]
    BY <1>2, <1>4, <1>7, <1>10
  <2> QED BY <1>1, <1>10, <1>11, <2>1, ShiftOut
<1>13. Keys(in, cs)[Len(cs)][1] = Head(o).key
  BY <1>4, <1>7, <1>8
<1>14. Once(Keys(in, d), H \cup {Head(o).key}, t)
  BY <1>8, <1>12, <1>13
<1>15. Head(o).key \in 1 .. t
  <2>1. Within(Keys(in, cs), H, t)
    BY <1>1 DEF Once
  <2> QED BY <1>2, <1>8, <1>13, <2>1 DEF Within
<1> QED BY <1>1, <1>3, <1>5, <1>6, <1>9, <1>10, <1>14, <1>15 DEF OnceLines

(* A call begins, and one ends. *)
LEMMA Push ==
  ASSUME NEW in, NEW cs, NEW H, NEW t, OnceLines(in, cs, H, t)
  PROVE  OnceLines(in, Append(cs, <<>>), H, t) /\ Append(cs, <<>>) # <<>>
<1>1. in \in Seq(Line) /\ cs \in Seq(Seq(Event)) /\ Once(Keys(in, cs), H, t) /\ <<>> \in Seq(Event) /\ Len(cs) \in Nat
  BY DEF OnceLines
<1>2. PICK d : d = Append(cs, <<>>)
  OBVIOUS
<1>3. /\ d \in Seq(Seq(Event)) /\ Len(d) = Len(cs) + 1 /\ d[Len(cs) + 1] = <<>>
      /\ \A n \in 1 .. Len(cs) : d[n] = cs[n]
  BY <1>1, <1>2, AppendIs
<1>4. Keys(in, d) = Keys(in, cs)
  <2>1. Keys(in, d) \in [Nat -> [Nat -> Nat]] /\ Keys(in, cs) \in [Nat -> [Nat -> Nat]]
    BY <1>1, <1>3, KeysType
  <2>2. ASSUME NEW n \in Nat PROVE Keys(in, d)[n] = Keys(in, cs)[n]
    <3>1. CASE n = 0
      BY <1>1, <1>3, <3>1, KeysType
    <3>2. CASE n \in 1 .. Len(cs)
      <4>1. n \in 1 .. Len(d)
        BY <1>1, <1>3, <3>2
      <4>2. Keys(in, d)[n] = Row(d[n]) /\ Keys(in, cs)[n] = Row(cs[n])
        BY <1>1, <1>3, <3>2, <4>1, KeysAt
      <4> QED BY <1>3, <3>2, <4>2
    <3>3. CASE n = Len(cs) + 1
      <4>1. n \in 1 .. Len(d) /\ n > Len(cs)
        BY <1>1, <1>3, <3>3
      <4>2. Keys(in, d)[n] = Row(d[n]) /\ Keys(in, cs)[n] = Row(<<>>)
        BY <1>1, <1>3, <4>1, KeysAt, KeysBeyond
      <4> QED BY <1>3, <3>3, <4>2
    <3>4. CASE n > Len(cs) + 1
      <4>1. n > Len(d) /\ n > Len(cs)
        BY <1>1, <1>3, <3>4
      <4> QED BY <1>1, <1>3, <4>1, KeysBeyond
    <3> QED BY <1>1, <3>1, <3>2, <3>3, <3>4
  <2> QED BY <2>1, <2>2
<1> QED BY <1>1, <1>2, <1>3, <1>4 DEF OnceLines

(* A call that returns with an empty queue takes no key with it. *)
LEMMA Pop ==
  ASSUME NEW in, NEW cs, NEW H, NEW t, OnceLines(in, cs, H, t), cs # <<>>, cs[Len(cs)] = <<>>
  PROVE  OnceLines(in, Front(cs), H, t)
<1>1. in \in Seq(Line) /\ cs \in Seq(Seq(Event)) /\ Once(Keys(in, cs), H, t)
  BY DEF OnceLines
<1>2. PICK d : d = Front(cs)
  OBVIOUS
<1>3. /\ d \in Seq(Seq(Event)) /\ Len(d) = Len(cs) - 1 /\ Len(cs) \in Nat \ {0}
      /\ \A n \in 1 .. Len(cs) - 1 : d[n] = cs[n]
  BY <1>1, <1>2, FrontIs
<1>4. Keys(in, d) = Keys(in, cs)
  <2>1. Keys(in, d) \in [Nat -> [Nat -> Nat]] /\ Keys(in, cs) \in [Nat -> [Nat -> Nat]]
    BY <1>1, <1>3, KeysType
  <2>2. ASSUME NEW n \in Nat PROVE Keys(in, d)[n] = Keys(in, cs)[n]
    <3>1. CASE n = 0
      BY <1>1, <1>3, <3>1, KeysType
    <3>2. CASE n \in 1 .. Len(cs) - 1
      <4>1. n \in 1 .. Len(d) /\ n \in 1 .. Len(cs)
        BY <1>3, <3>2
      <4>2. Keys(in, d)[n] = Row(d[n]) /\ Keys(in, cs)[n] = Row(cs[n])
        BY <1>1, <1>3, <4>1, KeysAt
      <4> QED BY <1>3, <3>2, <4>2
    <3>3. CASE n = Len(cs)
      <4>1. n \in 1 .. Len(cs) /\ n > Len(d)
        BY <1>3, <3>3
      <4>2. Keys(in, cs)[n] = Row(cs[n]) /\ Keys(in, d)[n] = Row(<<>>)
        BY <1>1, <1>3, <4>1, KeysAt, KeysBeyond
      <4> QED BY <3>3, <4>2
    <3>4. CASE n > Len(cs)
      <4>1. n > Len(d)
        BY <1>3, <3>4
      <4> QED BY <1>1, <1>3, <3>4, <4>1, KeysBeyond
    <3> QED BY <1>3, <3>1, <3>2, <3>3, <3>4
  <2> QED BY <2>1, <2>2
<1> QED BY <1>1, <1>2, <1>3, <1>4 DEF OnceLines

(* In the beginning no key is anywhere. *)
LEMMA NoLines == OnceLines(<<>>, <<>>, {}, 0)
<1>1. PICK e : e = <<>>
  OBVIOUS
<1>2. e \in Seq(Line) /\ e \in Seq(Seq(Event)) /\ Len(e) = 0
  BY <1>1
<1>3. \A i \in Nat : Row(e)[i] = 0
  <2>1. Row(e)[0] = 0 /\ \A i \in Nat : i > Len(e) => Row(e)[i] = 0
    BY <1>2, RowIs
  <2> QED BY <1>2, <2>1
<1>4. Keys(e, e) \in [Nat -> [Nat -> Nat]]
  BY <1>2, KeysType
<1>5. \A n, i \in Nat : Keys(e, e)[n][i] = 0
  <2>1. SUFFICES ASSUME NEW n \in Nat PROVE Keys(e, e)[n] = Row(e)
    BY <1>3
  <2>2. CASE n = 0
    BY <1>2, <2>2, KeysType
  <2>3. CASE n # 0
    <3>1. n > Len(e)
      BY <1>2, <2>3
    <3> QED BY <1>1, <1>2, <3>1, KeysBeyond
  <2> QED BY <2>2, <2>3
<1>6. Single(Keys(e, e)) /\ Within(Keys(e, e), {}, 0)
  <2>1. Single(Keys(e, e))
    BY <1>5 DEF Single, Apart
  <2>2. Within(Keys(e, e), {}, 0)
    BY <1>5 DEF Within
  <2> QED BY <2>1, <2>2
<1>7. Covered(Keys(e, e), {}, 0)
  <2>1. 1 .. 0 = {}
    OBVIOUS
  <2> QED BY <2>1 DEF Covered
<1> QED BY <1>1, <1>2, <1>4, <1>6, <1>7 DEF OnceLines, Once

-----------------------------------------------------------------------------
(* The shell *)

Flags == {waiting, ended, shown, capture, extended, lastCr} \subseteq BOOLEAN
CommandType == command \in Seq(1 .. 2 * maxKeys + 1) /\ Len(command) <= MaxCommand
CallsInv ==
  /\ Flags /\ CommandType /\ maxKeys \in Nat /\ typed \in 0 .. maxKeys
  /\ waiting => calls # <<>>
  /\ OnceLines(incoming, calls, handled, typed)

(* An action keeps the command within its limit. *)
LEMMA EditedType ==
  ASSUME CommandType, NEW a, a.key \in 1 .. maxKeys, maxKeys \in Nat
  PROVE  Edited(a) \in Seq(1 .. 2 * maxKeys + 1) /\ Len(Edited(a)) <= MaxCommand
<1>1. command \in Seq(1 .. 2 * maxKeys + 1) /\ Len(command) <= MaxCommand /\ MaxCommand \in Nat /\ Len(command) \in Nat
  BY ShellAssumption DEF CommandType
<1>2. CASE Edited(a) = Append(command, Char(a)) /\ Len(command) < MaxCommand
  <2>1. Char(a) \in 1 .. 2 * maxKeys + 1
    BY DEF Char
  <2>2. Append(command, Char(a)) \in Seq(1 .. 2 * maxKeys + 1) /\ Len(Append(command, Char(a))) = Len(command) + 1
    BY <1>1, <2>1
  <2> QED BY <1>1, <1>2, <2>2
<1>3. CASE Edited(a) = command
  BY <1>1, <1>3
<1>4. CASE Edited(a) = Front(command) /\ command # <<>>
  <2>1. Front(command) \in Seq(1 .. 2 * maxKeys + 1) /\ Len(Front(command)) = Len(command) - 1
    BY <1>1, <1>4, FrontIs
  <2> QED BY <1>1, <1>4, <2>1
<1>5. CASE Edited(a) = <<>>
  <2>1. Edited(a) \in Seq(1 .. 2 * maxKeys + 1) /\ Len(Edited(a)) = 0
    BY <1>5
  <2> QED BY <1>1, <2>1
<1>6. \/ Edited(a) = Append(command, Char(a)) /\ Len(command) < MaxCommand
      \/ Edited(a) = command
      \/ Edited(a) = Front(command) /\ command # <<>>
      \/ Edited(a) = <<>>
  BY DEF Edited
<1> QED BY <1>2, <1>3, <1>4, <1>5, <1>6

(* To handle an action keeps each key in one place. *)
LEMMA HandleKeeps ==
  ASSUME CallsInv, NEW a, NEW below, NEW in, Handle(a, below), ~waiting, a.key \in 1 .. maxKeys,
         OnceLines(in, below, handled \cup {a.key}, typed)
  PROVE  /\ waiting' \in BOOLEAN /\ (waiting' => calls' # <<>>)
         /\ command' \in Seq(1 .. 2 * maxKeys + 1) /\ Len(command') <= MaxCommand
         /\ OnceLines(in, calls', handled', typed)
<1>1. command' = Edited(a) /\ handled' = handled \cup {a.key}
  BY DEF Handle
<1>2. command' \in Seq(1 .. 2 * maxKeys + 1) /\ Len(command') <= MaxCommand
  BY <1>1, EditedType DEF CallsInv
<1>3. CASE Send(Surface(a), below)
  <2>1. waiting' = TRUE /\ calls' = Append(below, <<>>)
    BY <1>3 DEF Send
  <2>2. OnceLines(in, calls', handled', typed) /\ calls' # <<>>
    BY <1>1, <2>1, Push
  <2> QED BY <1>2, <2>1, <2>2
<1>4. CASE calls' = below /\ waiting' = waiting
  <2>1. waiting' = waiting /\ waiting \in BOOLEAN /\ ~waiting'
    BY <1>4 DEF CallsInv, Flags
  <2>2. OnceLines(in, calls', handled', typed)
    BY <1>1, <1>4
  <2> QED BY <1>2, <2>1, <2>2
<1> QED BY <1>3, <1>4 DEF Handle

(* CallsInv holds in the beginning. *)
LEMMA CallsStart ==
  ASSUME Init
  PROVE  CallsInv
<1>1. maxKeys \in Nat
  <2>1. PICK b \in (IF ended THEN {<<0, MaxAlone>>} ELSE Hosted) : maxKeys = b[1]
    BY DEF Init
  <2> QED BY <2>1, ShellAssumption
<1>2. Flags
  BY DEF Init, ConsoleInit, Flags
<1>3. command \in Seq(1 .. 2 * maxKeys + 1) /\ Len(command) <= MaxCommand
  <2>1. command = <<>> /\ MaxCommand \in Nat
    BY ShellAssumption DEF Init
  <2> QED BY <2>1
<1>4. typed = 0 /\ incoming = <<>> /\ calls = <<>> /\ handled = {} /\ waiting = FALSE
  BY DEF Init
<1>5. OnceLines(incoming, calls, handled, typed)
  BY <1>4, NoLines
<1>6. typed \in 0 .. maxKeys
  BY <1>1, <1>4
<1> QED BY <1>1, <1>2, <1>3, <1>4, <1>5, <1>6 DEF CallsInv, CommandType

(* Every step keeps the flags flags. *)
LEMMA FlagsStep ==
  ASSUME Flags, [Next]_vars, waiting' \in BOOLEAN
  PROVE  Flags'
<1>1. /\ waiting \in BOOLEAN /\ ended \in BOOLEAN /\ shown \in BOOLEAN
      /\ capture \in BOOLEAN /\ extended \in BOOLEAN /\ lastCr \in BOOLEAN
  BY DEF Flags
<1>2. ended' \in BOOLEAN
  BY <1>1 DEF Next, vars, shellVars, GuestAccept, GuestReject, GuestClose, GuestOpen, GuestConsole, ShellStep,
    SendRead, SendHandle, SendReturn, RunShow, RunRead, GuestAction
<1>3. shown' \in BOOLEAN
  BY <1>1 DEF Next, vars, guestVars, GuestAccept, GuestReject, GuestClose, GuestOpen, GuestConsole, ShellStep,
    SendRead, SendHandle, SendReturn, RunShow, RunRead, GuestAction
<1>4. capture' \in BOOLEAN
  BY <1>1 DEF Next, vars, guestVars, consoleVars, GuestAccept, GuestReject, GuestClose, GuestOpen, GuestConsole,
    ShellStep, SendRead, SendHandle, SendReturn, RunShow, RunRead, GuestAction, CaptureAfter,
    ConsoleNext, PollSerial, TextKey, Prefix, Escape, GuiCommand
<1>5. extended' \in BOOLEAN /\ lastCr' \in BOOLEAN
  BY <1>1 DEF Next, vars, guestVars, consoleVars, keyVars, GuestAccept, GuestReject, GuestClose, GuestOpen,
    GuestConsole, ShellStep, SendRead, SendHandle, SendReturn, RunShow, RunRead, GuestAction,
    ConsoleNext, PollSerial, TextKey, Prefix, Escape, GuiCommand
<1> QED BY <1>2, <1>3, <1>4, <1>5 DEF Flags

(* Every step keeps CallsInv. *)
LEMMA CallsStep ==
  ASSUME CallsInv, [Next]_vars
  PROVE  CallsInv'
<1>1. /\ CommandType /\ maxKeys \in Nat /\ typed \in 0 .. maxKeys /\ (waiting => calls # <<>>)
      /\ OnceLines(incoming, calls, handled, typed) /\ waiting \in BOOLEAN /\ Flags
      /\ command \in Seq(1 .. 2 * maxKeys + 1) /\ Len(command) <= MaxCommand
  BY DEF CallsInv, CommandType, Flags
<1>2. SUFFICES /\ waiting' \in BOOLEAN /\ (waiting' => calls' # <<>>)
               /\ command' \in Seq(1 .. 2 * maxKeys + 1) /\ Len(command') <= MaxCommand
               /\ maxKeys' = maxKeys /\ typed' \in 0 .. maxKeys
               /\ OnceLines(incoming', calls', handled', typed')
  <2>1. ASSUME waiting' \in BOOLEAN PROVE Flags'
    BY <1>1, <2>1, FlagsStep
  <2> QED BY <1>1, <2>1 DEF CallsInv, CommandType
<1>3. ASSUME UNCHANGED shellVars, maxKeys' = maxKeys
      PROVE  /\ waiting' \in BOOLEAN /\ (waiting' => calls' # <<>>)
             /\ command' \in Seq(1 .. 2 * maxKeys + 1) /\ Len(command') <= MaxCommand
             /\ maxKeys' = maxKeys /\ calls' = calls /\ handled' = handled
  BY <1>1, <1>3 DEF shellVars
<1>4. \A x \in {"R1", "A", "N"} : Reply(x) \in Line /\ Reply(x).is # "E"
  BY DEF Reply, Line
<1>5. CASE GuestAccept
  <2>1. /\ UNCHANGED shellVars /\ maxKeys' = maxKeys /\ typed' = typed
        /\ \E x \in {"R1", "A", "N"} : incoming' = Append(incoming, Reply(x))
    BY <1>5 DEF GuestAccept
  <2>2. OnceLines(incoming', calls, handled, typed)
    BY <1>1, <1>4, <2>1, Arrive
  <2> QED BY <1>1, <1>3, <2>1, <2>2
<1>6. CASE GuestReject
  <2>1. /\ UNCHANGED shellVars /\ maxKeys' = maxKeys /\ typed' = typed
        /\ \E x \in {"R1", "A", "N"} : incoming' = Append(incoming, Reply(x))
    BY <1>6 DEF GuestReject
  <2>2. OnceLines(incoming', calls, handled, typed)
    BY <1>1, <1>4, <2>1, Arrive
  <2> QED BY <1>1, <1>3, <2>1, <2>2
<1>7. CASE GuestClose \/ GuestOpen \/ GuestConsole \/ UNCHANGED vars
  <2>1. UNCHANGED shellVars /\ maxKeys' = maxKeys /\ typed' = typed /\ incoming' = incoming
    BY <1>7 DEF GuestClose, GuestOpen, GuestConsole, vars, guestVars
  <2> QED BY <1>1, <1>3, <2>1
<1>8. ASSUME NEW k \in Kind, GuestAction(k)
      PROVE  /\ waiting' \in BOOLEAN /\ (waiting' => calls' # <<>>)
             /\ command' \in Seq(1 .. 2 * maxKeys + 1) /\ Len(command') <= MaxCommand
             /\ maxKeys' = maxKeys /\ typed' \in 0 .. maxKeys
             /\ OnceLines(incoming', calls', handled', typed')
  <2>1. /\ UNCHANGED shellVars /\ maxKeys' = maxKeys /\ typed' = typed + 1 /\ typed < maxKeys
        /\ incoming' = Append(incoming, Action(k, typed + 1))
    BY <1>8 DEF GuestAction
  <2>2. OnceLines(incoming', calls, handled, typed')
    BY <1>1, <2>1, ArriveAction
  <2>3. typed' \in 0 .. maxKeys
    BY <1>1, <2>1
  <2> QED BY <1>3, <2>1, <2>2, <2>3
<1>9. CASE SendRead
  <2>1. /\ waiting /\ incoming # <<>> /\ incoming' = Tail(incoming) /\ calls # <<>>
        /\ waiting' = (Head(incoming).is \notin {"A", "N"})
        /\ calls' = [calls EXCEPT ![Len(calls)] = Collected(calls[Len(calls)], Head(incoming))]
        /\ command' = command /\ handled' = handled /\ UNCHANGED guestVars
    BY <1>1, <1>9 DEF SendRead, Top
  <2>2. maxKeys' = maxKeys /\ typed' = typed
    BY <2>1 DEF guestVars
  <2>3. /\ Head(incoming) \in Line
        /\ OnceLines(Tail(incoming), calls,
             IF KeyOf(Head(incoming)) = 0 THEN handled ELSE handled \cup {KeyOf(Head(incoming))}, typed)
    BY <1>1, <2>1, Take
  <2>4. calls \in Seq(Seq(Event)) /\ Len(calls) \in Nat \ {0} /\ Len(calls) \in 1 .. Len(calls)
    <3>1. calls \in Seq(Seq(Event))
      BY <1>1 DEF OnceLines
    <3> QED BY <2>1, <3>1
  <2>5. CASE Head(incoming).is = "E"
    <3>1. calls' = [calls EXCEPT ![Len(calls)] = Append(calls[Len(calls)], Head(incoming))]
      BY <2>1, <2>5 DEF Collected
    <3>2. OnceLines(incoming', calls', handled, typed)
      <4>1. OnceLines(Tail(incoming), [calls EXCEPT ![Len(calls)] = Append(calls[Len(calls)], Head(incoming))],
                      handled, typed)
        BY <1>1, <2>1, <2>5, Keep
      <4> QED BY <2>1, <3>1, <4>1
    <3>3. calls' # <<>>
      <4>1. Len(calls') = Len(calls)
        BY <2>4, <3>1
      <4> QED BY <2>4, <4>1
    <3> QED BY <1>1, <2>1, <2>2, <3>2, <3>3
  <2>6. CASE Head(incoming).is # "E"
    <3>1. calls' = calls
      BY <2>1, <2>4, <2>6 DEF Collected
    <3>2. KeyOf(Head(incoming)) = 0
      BY <2>6 DEF KeyOf
    <3> QED BY <1>1, <2>1, <2>2, <2>3, <3>1, <3>2
  <2> QED BY <2>5, <2>6
<1>10. CASE SendHandle
  <2>1. /\ ~waiting /\ calls # <<>> /\ calls[Len(calls)] # <<>> /\ incoming' = incoming /\ UNCHANGED guestVars
        /\ Handle(Head(calls[Len(calls)]), [calls EXCEPT ![Len(calls)] = Tail(calls[Len(calls)])])
    BY <1>10 DEF SendHandle, Idle, Top
  <2>2. maxKeys' = maxKeys /\ typed' = typed
    BY <2>1 DEF guestVars
  <2>3. PICK a : a = Head(calls[Len(calls)])
    OBVIOUS
  <2>4. PICK below : below = [calls EXCEPT ![Len(calls)] = Tail(calls[Len(calls)])]
    OBVIOUS
  <2>5. a.key \in 1 .. typed /\ OnceLines(incoming, below, handled \cup {a.key}, typed)
    BY <1>1, <2>1, <2>3, <2>4, TakeKept
  <2>6. a.key \in 1 .. maxKeys
    BY <1>1, <2>5
  <2>7. Handle(a, below)
    BY <2>1, <2>3, <2>4
  <2>8. /\ waiting' \in BOOLEAN /\ (waiting' => calls' # <<>>)
        /\ command' \in Seq(1 .. 2 * maxKeys + 1) /\ Len(command') <= MaxCommand
        /\ OnceLines(incoming, calls', handled', typed)
    BY <2>1, <2>5, <2>6, <2>7, HandleKeeps
  <2> QED BY <1>1, <2>1, <2>2, <2>8
<1>11. CASE SendReturn
  <2>1. /\ ~waiting /\ calls # <<>> /\ calls[Len(calls)] = <<>> /\ calls' = Front(calls)
        /\ incoming' = incoming /\ UNCHANGED guestVars /\ command' = command /\ waiting' = waiting /\ handled' = handled
    BY <1>11 DEF SendReturn, Idle, Top
  <2>2. maxKeys' = maxKeys /\ typed' = typed
    BY <2>1 DEF guestVars
  <2>3. OnceLines(incoming, Front(calls), handled, typed)
    BY <1>1, <2>1, Pop
  <2> QED BY <1>1, <2>1, <2>2, <2>3
<1>12. CASE RunShow
  <2>1. /\ calls' = Append(calls, <<>>) /\ waiting' = TRUE
        /\ incoming' = incoming /\ UNCHANGED guestVars /\ command' = command /\ handled' = handled
    BY <1>12 DEF RunShow, Send
  <2>2. maxKeys' = maxKeys /\ typed' = typed
    BY <2>1 DEF guestVars
  <2>3. OnceLines(incoming, Append(calls, <<>>), handled, typed) /\ Append(calls, <<>>) # <<>>
    BY <1>1, Push
  <2> QED BY <1>1, <2>1, <2>2, <2>3
<1>13. CASE RunRead
  <2>1. /\ ~waiting /\ incoming # <<>> /\ incoming' = Tail(incoming) /\ UNCHANGED guestVars
        /\ IF Head(incoming).is = "E" THEN Handle(Head(incoming), calls)
           ELSE command' = command /\ waiting' = waiting /\ calls' = calls /\ handled' = handled
    BY <1>13 DEF RunRead, Idle
  <2>2. maxKeys' = maxKeys /\ typed' = typed
    BY <2>1 DEF guestVars
  <2>3. /\ Head(incoming) \in Line /\ (Head(incoming).is = "E" => Head(incoming).key \in (1 .. typed) \ handled)
        /\ OnceLines(Tail(incoming), calls,
             IF KeyOf(Head(incoming)) = 0 THEN handled ELSE handled \cup {KeyOf(Head(incoming))}, typed)
    BY <1>1, <2>1, Take
  <2>4. CASE Head(incoming).is = "E"
    <3>1. PICK a : a = Head(incoming)
      OBVIOUS
    <3>2. a.key \in 1 .. maxKeys
      BY <1>1, <2>3, <2>4, <3>1
    <3>3. KeyOf(a) = a.key /\ a.key # 0
      BY <2>4, <3>1, <3>2 DEF KeyOf
    <3>4. OnceLines(Tail(incoming), calls, handled \cup {a.key}, typed)
      BY <2>3, <3>1, <3>3
    <3>5. /\ waiting' \in BOOLEAN /\ (waiting' => calls' # <<>>)
          /\ command' \in Seq(1 .. 2 * maxKeys + 1) /\ Len(command') <= MaxCommand
          /\ OnceLines(Tail(incoming), calls', handled', typed)
      BY <2>1, <2>4, <3>1, <3>2, <3>4, HandleKeeps
    <3> QED BY <1>1, <2>1, <2>2, <3>5
  <2>5. CASE Head(incoming).is # "E"
    <3>1. KeyOf(Head(incoming)) = 0
      BY <2>5 DEF KeyOf
    <3> QED BY <1>1, <2>1, <2>2, <2>3, <2>5, <3>1
  <2> QED BY <2>4, <2>5
<1> QED BY <1>5, <1>6, <1>7, <1>8, <1>9, <1>10, <1>11, <1>12, <1>13 DEF Next, ShellStep

(* The places that ActionsOnce speaks of *)
LEMMA PlaceIs ==
  ASSUME CallsInv, NEW p \in Underway
  PROVE  /\ p[1] \in Nat /\ p[2] \in Nat /\ p = <<p[1], p[2]>>
         /\ Keys(incoming, calls)[p[1]][p[2]] = KeyAt(p) /\ KeyAt(p) # 0
<1>1. incoming \in Seq(Line) /\ calls \in Seq(Seq(Event)) /\ Len(calls) \in Nat
  BY DEF CallsInv, OnceLines
<1>2. PICK n \in 0 .. Len(calls) : p \in {n} \X DOMAIN Lines(n) /\ Lines(p[1])[p[2]].is = "E"
  BY DEF Underway
<1>3. Lines(n) \in Seq(Line) /\ Keys(incoming, calls)[n] = Row(Lines(n)) /\ n \in Nat
  <2>1. CASE n = 0
    BY <1>1, <2>1, KeysType DEF Lines
  <2>2. CASE n \in 1 .. Len(calls)
    <3>1. Lines(n) = calls[n]
      BY <2>2 DEF Lines
    <3> QED BY <1>1, <2>2, <3>1, KeysAt
  <2> QED BY <1>1, <2>1, <2>2
<1>4. PICK q : q = Lines(n)
  OBVIOUS
<1>5. q \in Seq(Line) /\ DOMAIN q = 1 .. Len(q) /\ Len(q) \in Nat
  BY <1>3, <1>4
<1>6. p[1] = n /\ p[2] \in 1 .. Len(q) /\ p = <<p[1], p[2]>>
  BY <1>2, <1>4, <1>5
<1>7. q[p[2]] \in Line /\ q[p[2]].is = "E" /\ KeyAt(p) = q[p[2]].key
  BY <1>2, <1>4, <1>5, <1>6 DEF KeyAt
<1>8. KeyOf(q[p[2]]) = KeyAt(p) /\ KeyAt(p) # 0
  BY <1>7 DEF KeyOf, Line
<1>9. Row(q)[p[2]] = KeyOf(q[p[2]])
  BY <1>5, <1>6, RowIs
<1> QED BY <1>3, <1>4, <1>5, <1>6, <1>8, <1>9

(* A key that is somewhere is underway. *)
LEMMA PlaceOf ==
  ASSUME CallsInv, NEW n \in Nat, NEW i \in Nat, Keys(incoming, calls)[n][i] # 0
  PROVE  <<n, i>> \in Underway /\ KeyAt(<<n, i>>) = Keys(incoming, calls)[n][i]
<1>1. incoming \in Seq(Line) /\ calls \in Seq(Seq(Event)) /\ Len(calls) \in Nat
  BY DEF CallsInv, OnceLines
<1>2. \A j \in Nat : Row(<<>>)[j] = 0
  <2>1. <<>> \in Seq(Line) /\ Len(<<>>) = 0
    OBVIOUS
  <2>2. Row(<<>>)[0] = 0 /\ \A j \in Nat : j > Len(<<>>) => Row(<<>>)[j] = 0
    BY <2>1, RowIs
  <2> QED BY <2>1, <2>2
<1>3. n \in 0 .. Len(calls)
  <2>1. SUFFICES ASSUME n > Len(calls) PROVE FALSE
    BY <1>1
  <2>2. Keys(incoming, calls)[n] = Row(<<>>)
    BY <1>1, <2>1, KeysBeyond
  <2> QED BY <1>2, <2>2
<1>4. PICK q : q = Lines(n)
  OBVIOUS
<1>5. q \in Seq(Line) /\ Keys(incoming, calls)[n] = Row(q)
  <2>1. CASE n = 0
    BY <1>1, <1>4, <2>1, KeysType DEF Lines
  <2>2. CASE n \in 1 .. Len(calls)
    <3>1. q = calls[n]
      BY <1>4, <2>2 DEF Lines
    <3> QED BY <1>1, <2>2, <3>1, KeysAt
  <2> QED BY <1>1, <1>3, <2>1, <2>2
<1>6. i \in 1 .. Len(q) /\ Row(q)[i] = KeyOf(q[i]) /\ DOMAIN q = 1 .. Len(q)
  <2>1. /\ Row(q)[0] = 0 /\ Len(q) \in Nat /\ DOMAIN q = 1 .. Len(q)
        /\ \A j \in 1 .. Len(q) : Row(q)[j] = KeyOf(q[j])
        /\ \A j \in Nat : j > Len(q) => Row(q)[j] = 0
    BY <1>5, RowIs
  <2>2. i # 0 /\ ~(i > Len(q))
    BY <1>5, <2>1
  <2>3. i \in 1 .. Len(q)
    BY <2>1, <2>2
  <2> QED BY <2>1, <2>3
<1>7. q[i].is = "E" /\ q[i].key = Keys(incoming, calls)[n][i]
  BY <1>5, <1>6 DEF KeyOf
<1>8. <<n, i>>[1] = n /\ <<n, i>>[2] = i /\ <<n, i>> \in {n} \X DOMAIN Lines(n)
  BY <1>4, <1>6
<1> QED BY <1>3, <1>4, <1>7, <1>8 DEF Underway, KeyAt

(* CallsInv says what ActionsOnce does. *)
LEMMA CallsSound ==
  ASSUME CallsInv
  PROVE  ActionsOnce
<1>1. /\ Single(Keys(incoming, calls)) /\ Within(Keys(incoming, calls), handled, typed)
      /\ Covered(Keys(incoming, calls), handled, typed) /\ handled \subseteq 1 .. typed
  BY DEF CallsInv, OnceLines, Once
<1>2. TypeOK
  BY DEF CallsInv, Flags, CommandType, TypeOK
<1>3. ASSUME NEW p \in Underway, NEW q \in Underway, KeyAt(p) = KeyAt(q) PROVE p = q
  <2>1. /\ p[1] \in Nat /\ p[2] \in Nat /\ p = <<p[1], p[2]>>
        /\ Keys(incoming, calls)[p[1]][p[2]] = KeyAt(p) /\ KeyAt(p) # 0
    BY PlaceIs
  <2>2. /\ q[1] \in Nat /\ q[2] \in Nat /\ q = <<q[1], q[2]>>
        /\ Keys(incoming, calls)[q[1]][q[2]] = KeyAt(q)
    BY PlaceIs
  <2>3. Apart(Keys(incoming, calls), p[1], p[2], q[1], q[2])
    BY <1>1, <2>1, <2>2 DEF Single
  <2>4. p[1] = q[1] /\ p[2] = q[2]
    BY <1>3, <2>1, <2>2, <2>3 DEF Apart
  <2> QED BY <2>1, <2>2, <2>4
<1>4. ASSUME NEW p \in Underway PROVE KeyAt(p) \in 1 .. typed /\ KeyAt(p) \notin handled
  <2>1. /\ p[1] \in Nat /\ p[2] \in Nat
        /\ Keys(incoming, calls)[p[1]][p[2]] = KeyAt(p) /\ KeyAt(p) # 0
    BY PlaceIs
  <2> QED BY <1>1, <2>1 DEF Within
<1>5. ASSUME NEW k \in 1 .. typed, k \notin handled PROVE k \in {KeyAt(p) : p \in Underway}
  <2>1. PICK n \in Nat, i \in Nat : Keys(incoming, calls)[n][i] = k
    BY <1>1, <1>5 DEF Covered
  <2>2. k # 0
    BY DEF CallsInv
  <2>3. <<n, i>> \in Underway /\ KeyAt(<<n, i>>) = k
    BY <2>1, <2>2, PlaceOf
  <2> QED BY <2>3
<1>6. handled \cap {KeyAt(p) : p \in Underway} = {}
  BY <1>4
<1>7. handled \cup {KeyAt(p) : p \in Underway} = 1 .. typed
  BY <1>1, <1>4, <1>5
<1> QED BY <1>2, <1>3, <1>6, <1>7 DEF ActionsOnce

-----------------------------------------------------------------------------
(* What the guest's Terminal shows.  The last surface of the Terminal that *)
(* is under way has the command line; if none is, the guest shows it.      *)

IsLast(o, i) == o[i].to = "terminal" /\ \A j \in i + 1 .. Len(o) : o[j].to # "terminal"
NoTerminal(o) == \A i \in 1 .. Len(o) : o[i].to # "terminal"
Fresh(o, x, c) ==
  /\ \E S : o \in Seq(S)
  /\ \A i \in 1 .. Len(o) : IsLast(o, i) => o[i].text = Safe(c)
  /\ NoTerminal(o) => x \in {Safe(c), Builtin}

(* a is o with l behind it. *)
Appended(o, l, a) ==
  /\ \E S : a \in Seq(S)
  /\ Len(o) \in Nat /\ Len(a) = Len(o) + 1 /\ a[Len(o) + 1] = l
  /\ \A i \in 1 .. Len(o) : a[i] = o[i]
(* Append, for a sequence of whatever elements. *)
LEMMA AppendSome ==
  ASSUME NEW o, NEW l, \E S : o \in Seq(S)
  PROVE  Appended(o, l, Append(o, l))
<1>1. PICK S : o \in Seq(S)
  OBVIOUS
<1>2. PICK T : T = S \cup {l}
  OBVIOUS
<1>3. o \in Seq(T) /\ l \in T
  <2>1. Len(o) \in Nat /\ \A i \in 1 .. Len(o) : o[i] \in T
    BY <1>1, <1>2
  <2> QED BY <1>1, <1>2, <2>1
<1>4. /\ Append(o, l) \in Seq(T) /\ Len(o) \in Nat
      /\ Len(Append(o, l)) = Len(o) + 1 /\ Append(o, l)[Len(o) + 1] = l
      /\ \A i \in 1 .. Len(o) : Append(o, l)[i] = o[i]
  BY <1>3, AppendIs
<1> QED BY <1>4 DEF Appended

(* A line that is not of the Terminal is sent. *)
LEMMA SendOther ==
  ASSUME NEW o, NEW x, NEW c, NEW l, Fresh(o, x, c), l.to # "terminal"
  PROVE  Fresh(Append(o, l), x, c)
<1>1. PICK a : a = Append(o, l)
  OBVIOUS
<1>2. /\ \E S : a \in Seq(S)
      /\ Len(o) \in Nat /\ Len(a) = Len(o) + 1 /\ a[Len(o) + 1] = l
      /\ \A i \in 1 .. Len(o) : a[i] = o[i]
  <2>1. \E S : o \in Seq(S)
    BY DEF Fresh
  <2>2. Appended(o, l, a)
    BY <1>1, <2>1, AppendSome
  <2> QED BY <2>2 DEF Appended
<1>3. ASSUME NEW i \in 1 .. Len(a), IsLast(a, i) PROVE a[i].text = Safe(c)
  <2>1. i \in 1 .. Len(o)
    <3>1. i # Len(o) + 1
      BY <1>2, <1>3 DEF IsLast
    <3> QED BY <1>2, <3>1
  <2>2. ASSUME NEW j \in i + 1 .. Len(o) PROVE o[j].to # "terminal"
    <3>1. j \in 1 .. Len(o) /\ j \in i + 1 .. Len(a)
      BY <1>2, <2>1
    <3> QED BY <1>2, <1>3, <3>1 DEF IsLast
  <2>3. IsLast(o, i)
    BY <1>2, <1>3, <2>1, <2>2 DEF IsLast
  <2> QED BY <1>2, <2>1, <2>3 DEF Fresh
<1>4. ASSUME NoTerminal(a) PROVE x \in {Safe(c), Builtin}
  <2>1. ASSUME NEW i \in 1 .. Len(o) PROVE o[i].to # "terminal"
    <3>1. i \in 1 .. Len(a)
      BY <1>2
    <3> QED BY <1>2, <1>4, <3>1 DEF NoTerminal
  <2> QED BY <2>1 DEF Fresh, NoTerminal
<1> QED BY <1>1, <1>2, <1>3, <1>4 DEF Fresh

(* The Terminal's surface is sent, with the command line of then. *)
LEMMA SendTerminal ==
  ASSUME NEW o, NEW x, NEW c, NEW d, Fresh(o, x, c)
  PROVE  Fresh(Append(o, Terminal(Safe(d))), x, d)
<1>1. PICK l : l = Terminal(Safe(d))
  OBVIOUS
<1>2. l.to = "terminal" /\ l.text = Safe(d)
  BY <1>1 DEF Terminal
<1>3. PICK a : a = Append(o, l)
  OBVIOUS
<1>4. /\ \E S : a \in Seq(S)
      /\ Len(o) \in Nat /\ Len(a) = Len(o) + 1 /\ a[Len(o) + 1] = l
  <2>1. \E S : o \in Seq(S)
    BY DEF Fresh
  <2>2. Appended(o, l, a)
    BY <1>3, <2>1, AppendSome
  <2> QED BY <2>2 DEF Appended
<1>5. ASSUME NEW i \in 1 .. Len(a), IsLast(a, i) PROVE a[i].text = Safe(d)
  <2>1. CASE i = Len(o) + 1
    BY <1>2, <1>4, <2>1
  <2>2. CASE i # Len(o) + 1
    <3>1. Len(o) + 1 \in i + 1 .. Len(a)
      BY <1>4, <2>2
    <3> QED BY <1>2, <1>4, <1>5, <3>1 DEF IsLast
  <2> QED BY <2>1, <2>2
<1>6. ~NoTerminal(a)
  <2>1. Len(o) + 1 \in 1 .. Len(a)
    BY <1>4
  <2> QED BY <1>2, <1>4, <2>1 DEF NoTerminal
<1> QED BY <1>1, <1>3, <1>4, <1>5, <1>6 DEF Fresh

(* The guest reads the first line: y is what it shows then. *)
LEMMA ReadLine ==
  ASSUME NEW o, NEW x, NEW y, NEW c, Fresh(o, x, c), o # <<>>,
         \/ y = Builtin
         \/ Head(o).to # "terminal" /\ y = x
         \/ Head(o).to = "terminal" /\ y = Head(o).text
  PROVE  Fresh(Tail(o), y, c)
<1>1. PICK S : o \in Seq(S)
  BY DEF Fresh
<1>2. PICK a : a = Tail(o)
  OBVIOUS
<1>3. /\ a \in Seq(S) /\ Len(a) = Len(o) - 1 /\ Len(o) \in Nat \ {0} /\ Head(o) = o[1]
      /\ \A i \in 1 .. Len(o) - 1 : a[i] = o[i + 1]
  BY <1>1, <1>2, TailIs
<1>4. ASSUME NEW i \in 1 .. Len(a), IsLast(a, i) PROVE a[i].text = Safe(c)
  <2>1. i + 1 \in 1 .. Len(o) /\ i \in 1 .. Len(o) - 1
    BY <1>3
  <2>2. ASSUME NEW j \in (i + 1) + 1 .. Len(o) PROVE o[j].to # "terminal"
    <3>1. PICK k \in i + 1 .. Len(a) : j = k + 1
      <4>1. j - 1 \in i + 1 .. Len(a) /\ j = (j - 1) + 1
        BY <1>3, <2>1
      <4> QED BY <4>1
    <3>2. a[k] = o[j]
      <4>1. k \in 1 .. Len(o) - 1
        BY <1>3, <2>1, <3>1
      <4> QED BY <1>3, <3>1, <4>1
    <3> QED BY <1>4, <3>1, <3>2 DEF IsLast
  <2>3. a[i] = o[i + 1]
    BY <1>3, <2>1
  <2>4. IsLast(o, i + 1)
    BY <1>4, <2>2, <2>3 DEF IsLast
  <2> QED BY <2>1, <2>3, <2>4 DEF Fresh
<1>5. ASSUME NoTerminal(a) PROVE y \in {Safe(c), Builtin}
  <2>1. ASSUME NEW j \in 1 + 1 .. Len(o) PROVE o[j].to # "terminal"
    <3>1. PICK k \in 1 .. Len(a) : j = k + 1
      <4>1. j - 1 \in 1 .. Len(a) /\ j = (j - 1) + 1
        BY <1>3
      <4> QED BY <4>1
    <3>2. a[k] = o[j]
      BY <1>3, <3>1
    <3> QED BY <1>5, <3>1, <3>2 DEF NoTerminal
  <2>2. CASE y = Builtin
    BY <2>2
  <2>3. CASE Head(o).to # "terminal" /\ y = x
    <3>1. NoTerminal(o)
      <4>1. SUFFICES ASSUME NEW j \in 1 .. Len(o) PROVE o[j].to # "terminal"
        BY DEF NoTerminal
      <4>2. CASE j = 1
        BY <1>3, <2>3, <4>2
      <4>3. CASE j # 1
        <5>1. j \in 1 + 1 .. Len(o)
          BY <1>3, <4>3
        <5> QED BY <2>1, <5>1
      <4> QED BY <4>2, <4>3
    <3> QED BY <2>3, <3>1 DEF Fresh
  <2>4. CASE Head(o).to = "terminal" /\ y = Head(o).text
    <3>1. IsLast(o, 1) /\ 1 \in 1 .. Len(o)
      BY <1>3, <2>1, <2>4 DEF IsLast
    <3> QED BY <1>3, <2>4, <3>1 DEF Fresh
  <2> QED BY <2>2, <2>3, <2>4
<1> QED BY <1>2, <1>3, <1>4, <1>5 DEF Fresh

ShownInv == ConInv(con) /\ (~con.desktop => text = Builtin) /\ Fresh(out, text, command)

(* ShownInv holds in the beginning. *)
LEMMA ShownStart ==
  ASSUME Init
  PROVE  ShownInv
<1>1. ConInv(con)
  BY ConsoleStart DEF Init
<1>2. text = Builtin /\ out \in {<<>>, <<Hello>>}
  BY DEF Init
<1>3. Fresh(out, text, command)
  <2>1. CASE out = <<>>
    <3>1. out \in Seq({Hello}) /\ Len(out) = 0 /\ 1 .. 0 = {}
      BY <2>1
    <3> QED BY <1>2, <3>1 DEF Fresh
  <2>2. CASE out = <<Hello>>
    <3>1. out \in Seq({Hello}) /\ Len(out) = 1 /\ out[1] = Hello
      BY <2>2
    <3>2. \A i \in 1 .. Len(out) : out[i].to # "terminal"
      BY <3>1 DEF Hello
    <3> QED BY <1>2, <3>1, <3>2 DEF Fresh, IsLast
  <2> QED BY <1>2, <2>1, <2>2
<1> QED BY <1>1, <1>2, <1>3 DEF ShownInv

(* To handle an action leaves the newest text on its way. *)
LEMMA HandleFresh ==
  ASSUME NEW a, NEW below, Handle(a, below), Fresh(out, text, command)
  PROVE  Fresh(out', text, command')
<1>1. command' = Edited(a)
  BY DEF Handle
<1>2. a.kind = "status" => command' = command
  BY <1>1 DEF Edited
<1>3. CASE Send(Surface(a), below)
  <2>1. out' = Append(out, Surface(a))
    BY <1>3 DEF Send
  <2>2. CASE a.kind = "status"
    <3>1. Surface(a) = Other /\ Other.to # "terminal"
      BY <2>2 DEF Surface, Other
    <3> QED BY <1>2, <2>1, <2>2, <3>1, SendOther
  <2>3. CASE a.kind # "status"
    <3>1. Surface(a) = Terminal(Safe(command'))
      BY <1>1, <2>3 DEF Surface
    <3> QED BY <2>1, <3>1, SendTerminal
  <2> QED BY <2>2, <2>3
<1>4. CASE a.kind = "status" /\ out' = out
  BY <1>2, <1>4
<1> QED BY <1>3, <1>4 DEF Handle

(* Every step keeps ShownInv. *)
LEMMA ShownStep ==
  ASSUME ShownInv, [Next]_vars
  PROVE  ShownInv'
<1>1. ConInv(con) /\ (~con.desktop => text = Builtin) /\ Fresh(out, text, command)
  BY DEF ShownInv
<1>2. CASE GuestAccept
  <2>1. /\ out # <<>> /\ out' = Tail(out) /\ command' = command
        /\ con' = IF Head(out).to = "hello" \/ con.desktop THEN con ELSE BridgeOpened(con)
        /\ text' = IF Head(out).to = "terminal" THEN Head(out).text ELSE text
    BY <1>2 DEF GuestAccept, shellVars
  <2>2. Fresh(out', text', command')
    BY <1>1, <2>1, ReadLine
  <2>3. CASE Head(out).to = "hello" \/ con.desktop
    BY <1>1, <2>1, <2>2, <2>3 DEF ShownInv
  <2>4. CASE ~(Head(out).to = "hello" \/ con.desktop)
    <3>1. con' = Enable(Opened(con), FALSE)
      BY <2>1, <2>4 DEF BridgeOpened
    <3>2. ConInv(con') /\ con'.desktop = TRUE
      BY <1>1, <2>4, <3>1, OpenKeeps
    <3> QED BY <2>2, <3>2 DEF ShownInv
  <2> QED BY <2>3, <2>4
<1>3. CASE GuestReject
  <2>1. /\ out # <<>> /\ out' = Tail(out) /\ command' = command /\ text' = text
        /\ con.desktop => Head(out).to = "other"
        /\ con' = IF con.desktop THEN con ELSE NotOpened(con)
    BY <1>3 DEF GuestReject, shellVars
  <2>2. con' = con
    BY <1>1, <2>1, NotOpenedKeeps
  <2>3. Fresh(out', text', command')
    BY <1>1, <2>1, ReadLine
  <2> QED BY <1>1, <2>1, <2>2, <2>3 DEF ShownInv
<1>4. CASE GuestConsole
  <2>1. /\ ConsoleNext /\ out' = out /\ command' = command
        /\ text' = IF con'.desktop THEN text ELSE Builtin
    BY <1>4 DEF GuestConsole, shellVars
  <2>2. ConInv(con')
    BY <1>1, <2>1, ConsoleKeeps
  <2>3. Fresh(out, text', command)
    BY <1>1, <2>1 DEF Fresh
  <2> QED BY <2>1, <2>2, <2>3 DEF ShownInv
<1>5. ASSUME con' = con, text' = text, Fresh(out', text, command') PROVE ShownInv'
  BY <1>1, <1>5 DEF ShownInv
<1>6. CASE GuestClose \/ GuestOpen \/ (\E k \in Kind : GuestAction(k)) \/ UNCHANGED vars
  <2>1. con' = con /\ text' = text /\ out' = out /\ command' = command
    BY <1>6 DEF GuestClose, GuestOpen, GuestAction, vars, shellVars, guestVars, consoleVars
  <2> QED BY <1>1, <1>5, <2>1
<1>7. CASE SendRead \/ SendReturn
  <2>1. con' = con /\ text' = text /\ out' = out /\ command' = command
    BY <1>7 DEF SendRead, SendReturn, guestVars, consoleVars
  <2> QED BY <1>1, <1>5, <2>1
<1>8. CASE SendHandle
  <2>1. con' = con /\ text' = text
    BY <1>8 DEF SendHandle, guestVars, consoleVars
  <2>2. Fresh(out', text, command')
    BY <1>1, <1>8, HandleFresh DEF SendHandle
  <2> QED BY <1>5, <2>1, <2>2
<1>9. CASE RunShow
  <2>1. /\ con' = con /\ text' = text /\ command' = command
        /\ \/ out' = Append(out, Terminal(Safe(command)))
           \/ out' = Append(out, Other)
    BY <1>9 DEF RunShow, Send, guestVars, consoleVars
  <2>2. Other.to # "terminal"
    BY DEF Other
  <2>3. Fresh(out', text, command)
    BY <1>1, <2>1, <2>2, SendOther, SendTerminal
  <2> QED BY <1>5, <2>1, <2>3
<1>10. CASE RunRead
  <2>1. con' = con /\ text' = text
    BY <1>10 DEF RunRead, guestVars, consoleVars
  <2>2. CASE Head(incoming).is = "E"
    <3>1. Handle(Head(incoming), calls)
      BY <1>10, <2>2 DEF RunRead
    <3> QED BY <1>1, <1>5, <2>1, <3>1, HandleFresh
  <2>3. CASE Head(incoming).is # "E"
    <3>1. out' = out /\ command' = command
      BY <1>10, <2>3 DEF RunRead
    <3> QED BY <1>1, <1>5, <2>1, <3>1
  <2> QED BY <2>2, <2>3
<1> QED BY <1>2, <1>3, <1>4, <1>6, <1>7, <1>8, <1>9, <1>10 DEF Next, ShellStep

-----------------------------------------------------------------------------

(* Whoever opens and closes the desktop (the host's lines in poll_bridge,  *)
(* the commands of execute, Esc), the text console draws exactly while     *)
(* there is none, and shows what was printed to it: for every size of the  *)
(* screen and of the command line.                                         *)
THEOREM ConsoleScreen == Spec => []ScreenSound
<1>1. Init => ShownInv
  BY ShownStart
<1>2. ShownInv /\ [Next]_vars => ShownInv'
  BY ShownStep
<1>3. ShownInv => ScreenSound
  BY ConSound DEF ShownInv
<1> QED BY <1>1, <1>2, <1>3, PTL DEF Spec

(* However SendAsync and HandleAsync nest, every action the guest sent is  *)
(* on its way exactly once or has been handled: for any number of actions. *)
THEOREM ShellActions == Spec => []ActionsOnce
<1>1. Init => CallsInv
  BY CallsStart
<1>2. CallsInv /\ [Next]_vars => CallsInv'
  BY CallsStep
<1>3. CallsInv => ActionsOnce
  BY CallsSound
<1> QED BY <1>1, <1>2, <1>3, PTL DEF Spec

(* ShowAsync: once nothing is under way, the guest's Terminal shows the    *)
(* command line, or is the built-in one of a desktop opened again.         *)
THEOREM ShellShown == Spec => []ShownIsCurrent
<1>1. Init => ShownInv
  BY ShownStart
<1>2. ShownInv /\ [Next]_vars => ShownInv'
  BY ShownStep
<1>3. ShownInv => ShownIsCurrent
  <2>1. ASSUME ShownInv, out = <<>> PROVE text \in {Safe(command), Builtin}
    <3>1. Len(out) = 0 /\ 1 .. 0 = {}
      BY <2>1
    <3> QED BY <2>1, <3>1 DEF ShownInv, Fresh, NoTerminal
  <2> QED BY <2>1 DEF ShownIsCurrent
<1> QED BY <1>1, <1>2, <1>3, PTL DEF Spec
=============================================================================
