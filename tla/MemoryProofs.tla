---------------------------- MODULE MemoryProofs ----------------------------
(***************************************************************************)
(* Proofs about the kernel's three allocators: Zones, for any number of    *)
(* zones and objects and any width of the generation, Heap, for any heap   *)
(* size, request sizes and alignments, and Frames, for every memory size,  *)
(* every memory map and every request.                                     *)
(***************************************************************************)
EXTENDS Zones, Heap, Frames, FiniteSetTheorems, TLAPS

(* Steps are tried with Zenon first, which is the faster where no          *)
(* arithmetic is needed, then with SMT, then with Zenon for longer.        *)
USE ZenonT(3), SMTT(30), ZenonT(30), Z3T(30)

-----------------------------------------------------------------------------
(* Arithmetic of the packed handle. *)

(* Dividing a packed pair gives back its parts. *)
LEMMA DivMod ==
  ASSUME NEW n \in Nat, n > 0, NEW q \in Nat, NEW r \in 0 .. n - 1
  PROVE  (q * n + r) \div n = q /\ (q * n + r) % n = r
  OBVIOUS

(* Every number is such a pair. *)
LEMMA DivModDef ==
  ASSUME NEW n \in Nat, n > 0, NEW a \in Nat
  PROVE  /\ a \div n \in Nat /\ a % n \in 0 .. n - 1
         /\ a = (a \div n) * n + (a % n)
  OBVIOUS

(* Counting modulo n. *)
LEMMA ModStep ==
  ASSUME NEW n \in Nat, n > 0, NEW a \in Nat
  PROVE  (a + 1) % n = IF a % n = n - 1 THEN 0 ELSE (a % n) + 1
<1> DEFINE q == a \div n
           r == a % n
<1>1. q \in Nat /\ r \in 0 .. n - 1 /\ a = q * n + r
  BY DivModDef
<1>2. CASE r = n - 1
  <2>1. a + 1 = (q + 1) * n + 0
    BY <1>1, <1>2
  <2>2. ((q + 1) * n + 0) % n = 0
    <3>1. q + 1 \in Nat /\ 0 \in 0 .. n - 1
      BY <1>1
    <3> HIDE DEF q
    <3> QED BY <3>1, DivMod
  <2> QED BY <1>2, <2>1, <2>2
<1>3. CASE r # n - 1
  <2>1. a + 1 = q * n + (r + 1) /\ r + 1 \in 0 .. n - 1
    BY <1>1, <1>3
  <2>2. (q * n + (r + 1)) % n = r + 1
    <3> HIDE DEF q, r
    <3> QED BY <1>1, <2>1, DivMod
  <2> QED BY <1>3, <2>1, <2>2
<1> QED BY <1>2, <1>3

(* Numbers less than n apart that agree modulo n are equal. *)
LEMMA ModNear ==
  ASSUME NEW n \in Nat, n > 0, NEW a \in Nat, NEW b \in Nat,
         a <= b, b < a + n, a % n = b % n
  PROVE  a = b
<1> DEFINE p == a \div n
           q == b \div n
           r == a % n
<1>1. p \in Nat /\ q \in Nat /\ r \in 0 .. n - 1 /\ a = p * n + r /\ b = q * n + r
  BY DivModDef
<1> HIDE DEF p, q, r
<1>2. p = q
  <2>1. CASE q >= p + 1
    <3>1. q * n >= (p + 1) * n
      BY <2>1, <1>1
    <3>2. (p + 1) * n = p * n + n
      BY <1>1
    <3> QED BY <3>1, <3>2, <1>1
  <2>2. CASE p >= q + 1
    <3>1. p * n >= (q + 1) * n
      BY <2>2, <1>1
    <3>2. (q + 1) * n = q * n + n
      BY <1>1
    <3> QED BY <3>1, <3>2, <1>1
  <2> QED BY <2>1, <2>2, <1>1
<1> QED BY <1>1, <1>2

Period == GenSpan - 1

(* The fields of a packed handle are what was packed, and it fits. *)
LEMMA Packed ==
  ASSUME NEW z \in Zone, NEW o \in Obj, NEW g \in 1 .. GenSpan - 1
  PROVE  /\ encode(z, o, g) \in Handle
         /\ Decodes(encode(z, o, g))
         /\ ZoneOf(encode(z, o, g)) = z
         /\ ObjOf(encode(z, o, g)) = o
         /\ GenField(encode(z, o, g)) = g
<1> DEFINE m == (z + 1) * FieldSpan + (o + 1)
           h == encode(z, o, g)
<1>1. /\ z + 1 \in 1 .. MaxZones /\ o + 1 \in 1 .. ObjectsPerZone
      /\ z + 1 \in 0 .. FieldSpan - 1 /\ o + 1 \in 0 .. FieldSpan - 1
      /\ z + 1 \in Nat /\ o + 1 \in Nat /\ g \in 0 .. GenSpan - 1
      /\ FieldSpan \in Nat /\ FieldSpan > 0 /\ GenSpan \in Nat /\ GenSpan > 0
  BY ZonesAssumption DEF Zone, Obj
<1>2. h = m * GenSpan + g /\ m \in Nat
  BY <1>1 DEF encode
<1>3. h \div GenSpan = m /\ h % GenSpan = g
  <2> HIDE DEF m, h
  <2> QED BY <1>1, <1>2, DivMod
<1>4. m \div FieldSpan = z + 1 /\ m % FieldSpan = o + 1
  BY <1>1, DivMod
<1>5. (z + 1) % FieldSpan = z + 1
  BY <1>1
<1>6. /\ ZoneField(h) = z + 1 /\ ObjField(h) = o + 1 /\ GenField(h) = g
  BY <1>3, <1>4, <1>5 DEF ZoneField, ObjField, GenField
<1>7. h \in Handle
  <2>1. m <= FieldSpan * FieldSpan - 1
    <3>1. (z + 1) * FieldSpan <= (FieldSpan - 1) * FieldSpan
      BY <1>1
    <3>2. (FieldSpan - 1) * FieldSpan = FieldSpan * FieldSpan - FieldSpan
      BY <1>1
    <3> QED BY <1>1, <3>1, <3>2
  <2>2. m * GenSpan <= (FieldSpan * FieldSpan - 1) * GenSpan
    <3> HIDE DEF m
    <3>1. FieldSpan * FieldSpan - 1 \in Int
      BY <1>1
    <3> QED BY <1>1, <1>2, <2>1, <3>1
  <2>3. (FieldSpan * FieldSpan - 1) * GenSpan = GenSpan * FieldSpan * FieldSpan - GenSpan
    BY <1>1
  <2>4. h <= GenSpan * FieldSpan * FieldSpan - 1
    <3> HIDE DEF m, h
    <3>1. m * GenSpan \in Nat /\ GenSpan * FieldSpan * FieldSpan \in Nat
      BY <1>1, <1>2
    <3> QED BY <1>1, <1>2, <2>2, <2>3, <3>1
  <2>5. h \in Nat /\ GenSpan * FieldSpan * FieldSpan - 1 \in Int
    <3> HIDE DEF m, h
    <3> QED BY <1>1, <1>2
  <2> QED BY <2>4, <2>5 DEF Handle
<1>8. Decodes(h)
  BY <1>1, <1>6 DEF Decodes
<1>9. ZoneOf(h) = z /\ ObjOf(h) = o
  <2>1. z \in Nat /\ o \in Nat
    BY ZonesAssumption DEF Zone, Obj
  <2> HIDE DEF h
  <2> QED BY <2>1, <1>6 DEF ZoneOf, ObjOf
<1> QED BY <1>6, <1>7, <1>8, <1>9

(* Generations count lifetimes, cyclically from 1. *)
LEMMA NextGenCounts ==
  ASSUME NEW f \in Nat, NEW g, g = (f % Period) + 1
  PROVE  NextGen(g) = ((f + 1) % Period) + 1 /\ g \in 1 .. GenSpan - 1
<1>1. Period \in Nat /\ Period > 0 /\ GenSpan = Period + 1
  BY ZonesAssumption DEF Period
<1>2. f % Period \in 0 .. Period - 1
  BY <1>1, DivModDef
<1>3. (f + 1) % Period = IF f % Period = Period - 1 THEN 0 ELSE (f % Period) + 1
  BY <1>1, ModStep
<1>4. g \in 1 .. Period
  BY <1>1, <1>2
<1>5. (g + 1) % GenSpan = IF g = Period THEN 0 ELSE g + 1
  <2>1. CASE g = Period
    BY <2>1, <1>1
  <2>2. CASE g # Period
    BY <2>2, <1>1, <1>4
  <2> QED BY <2>1, <2>2
<1> HIDE DEF Period
<1> QED BY <1>1, <1>2, <1>3, <1>4, <1>5 DEF NextGen

-----------------------------------------------------------------------------

(* What every operation preserves. *)
ZonesInv ==
  /\ TypeOK
  /\ \A z \in Zone, o \in Obj : gen[z][o] = (frees[z][o] % Period) + 1
  /\ \A z \in Zone : owner[z] = NoOwner => \A o \in Obj : frees[z][o] = 0
  /\ \A i \in issued :
       /\ i.handle = encode(i.zone, i.obj, (i.life % Period) + 1)
       /\ i.life <= frees[i.zone][i.obj]

(* The invariant implies the property. *)
LEMMA InvRejects == ZonesInv => StaleRejected
<1> SUFFICES ASSUME ZonesInv, NEW i \in issued
             PROVE  /\ Decodes(i.handle) /\ ZoneOf(i.handle) = i.zone
                    /\ ObjOf(i.handle) = i.obj
                    /\ Live(i.handle) /\ frees[i.zone][i.obj] < i.life + (GenSpan - 1)
                         => frees[i.zone][i.obj] = i.life
  BY DEF StaleRejected
<1>1. /\ i.zone \in Zone /\ i.obj \in Obj /\ i.life \in Nat
      /\ frees[i.zone][i.obj] \in Nat /\ i.life <= frees[i.zone][i.obj]
      /\ i.handle = encode(i.zone, i.obj, (i.life % Period) + 1)
      /\ gen[i.zone][i.obj] = (frees[i.zone][i.obj] % Period) + 1
  BY DEF ZonesInv, TypeOK
<1>2. Period \in Nat /\ Period > 0 /\ Period = GenSpan - 1
  BY ZonesAssumption DEF Period
<1>3. (i.life % Period) + 1 \in 1 .. GenSpan - 1
  BY <1>1, NextGenCounts
<1>4. /\ Decodes(i.handle) /\ ZoneOf(i.handle) = i.zone /\ ObjOf(i.handle) = i.obj
      /\ GenField(i.handle) = (i.life % Period) + 1
  BY <1>1, <1>3, Packed
<1>5. ASSUME Live(i.handle), frees[i.zone][i.obj] < i.life + (GenSpan - 1)
      PROVE  frees[i.zone][i.obj] = i.life
  <2>1. (frees[i.zone][i.obj] % Period) + 1 = (i.life % Period) + 1
    BY <1>1, <1>4, <1>5 DEF Live
  <2>2. i.life % Period \in 0 .. Period - 1 /\ frees[i.zone][i.obj] % Period \in 0 .. Period - 1
    BY <1>1, <1>2, DivModDef
  <2>3. i.life % Period = frees[i.zone][i.obj] % Period
    BY <2>1, <2>2, <1>2
  <2> QED BY <1>1, <1>2, <1>5, <2>3, ModNear
<1> QED BY <1>4, <1>5

(* A handle that decodes names an object. *)
LEMMA DecodedType ==
  ASSUME NEW h \in Handle, Decodes(h)
  PROVE  ZoneOf(h) \in Zone /\ ObjOf(h) \in Obj
  BY ZonesAssumption DEF Decodes, ZoneOf, ObjOf, Zone, Obj

(* Before the first create no zone is owned and no handle issued. *)
LEMMA InitHolds == Init => ZonesInv
<1> SUFFICES ASSUME Init PROVE ZonesInv
  OBVIOUS
<1>1. Period \in Nat /\ Period > 0 /\ 1 \in 1 .. GenSpan - 1
  BY ZonesAssumption DEF Period
<1>2. (0 % Period) + 1 = 1
  BY <1>1
<1>3. TypeOK
  BY <1>1 DEF Init, TypeOK
<1> QED BY <1>2, <1>3 DEF Init, ZonesInv

(* create resets a zone of which no handle was ever issued. *)
LEMMA CreatePreserves ==
  ASSUME ZonesInv, Create
  PROVE  ZonesInv'
<1>1. PICK z \in Zone :
        /\ owner[z] = NoOwner
        /\ owner' = [owner EXCEPT ![z] = Pid(current)]
        /\ used' = [used EXCEPT ![z] = [o \in Obj |-> FALSE]]
        /\ gen' = [gen EXCEPT ![z] = [o \in Obj |-> 1]]
        /\ data' = [data EXCEPT ![z] = [o \in Obj |-> 0]]
  BY DEF Create
<1>2. UNCHANGED <<current, frees, issued>>
  BY DEF Create
<1>3. Period \in Nat /\ Period > 0 /\ 1 \in 1 .. GenSpan - 1
  BY ZonesAssumption DEF Period
<1>4. (0 % Period) + 1 = 1
  BY <1>3
<1>5. TypeOK'
  BY <1>1, <1>2, <1>3 DEF ZonesInv, TypeOK
<1>6. \A y \in Zone, o \in Obj : gen'[y][o] = (frees'[y][o] % Period) + 1
  <2> SUFFICES ASSUME NEW y \in Zone, NEW o \in Obj
               PROVE  gen'[y][o] = (frees[y][o] % Period) + 1
    BY <1>2
  <2>1. CASE y = z
    BY <2>1, <1>1, <1>4 DEF ZonesInv, TypeOK
  <2>2. CASE y # z
    BY <2>2, <1>1 DEF ZonesInv, TypeOK
  <2> QED BY <2>1, <2>2
<1>7. \A y \in Zone : owner'[y] = NoOwner => owner[y] = NoOwner
  BY <1>1 DEF ZonesInv, TypeOK
<1> QED BY <1>2, <1>5, <1>6, <1>7 DEF ZonesInv

(* alloc issues a handle of the present generation of its object. *)
LEMMA AllocPreserves ==
  ASSUME ZonesInv, NEW z \in Zone, Alloc(z)
  PROVE  ZonesInv'
<1>1. PICK o \in Obj :
        /\ used' = [used EXCEPT ![z][o] = TRUE]
        /\ data' = [data EXCEPT ![z][o] = 0]
        /\ issued' = issued \cup
             {[handle |-> encode(z, o, gen[z][o]), zone |-> z, obj |-> o,
               life |-> frees[z][o]]}
  BY DEF Alloc
<1>2. UNCHANGED <<owner, gen, current, frees>>
  BY DEF Alloc
<1>3. gen[z][o] \in 1 .. GenSpan - 1 /\ frees[z][o] \in Nat
      /\ gen[z][o] = (frees[z][o] % Period) + 1
  BY DEF ZonesInv, TypeOK
<1>4. encode(z, o, gen[z][o]) \in Handle
  BY <1>3, Packed
<1>5. TypeOK'
  <2>1. /\ used' \in [Zone -> [Obj -> BOOLEAN]]
        /\ data' \in [Zone -> [Obj -> Data \cup {0}]]
    BY <1>1 DEF ZonesInv, TypeOK
  <2>2. issued' \subseteq [handle : Handle, zone : Zone, obj : Obj, life : Nat]
    BY <1>1, <1>3, <1>4 DEF ZonesInv, TypeOK
  <2> QED BY <2>1, <2>2, <1>2 DEF ZonesInv, TypeOK
<1>6. ASSUME NEW i \in issued'
      PROVE  /\ i.handle = encode(i.zone, i.obj, (i.life % Period) + 1)
             /\ i.life <= frees[i.zone][i.obj]
  <2>1. CASE i \in issued
    BY <2>1 DEF ZonesInv
  <2>2. CASE i \notin issued
    <3>1. /\ i.handle = encode(z, o, gen[z][o]) /\ i.zone = z /\ i.obj = o
          /\ i.life = frees[z][o]
      BY <2>2, <1>1
    <3> QED BY <3>1, <1>3
  <2> QED BY <2>1, <2>2
<1> QED BY <1>2, <1>5, <1>6 DEF ZonesInv

(* free moves its object on to the next generation. *)
LEMMA FreePreserves ==
  ASSUME ZonesInv, NEW h \in Handle, Free(h)
  PROVE  ZonesInv'
<1> DEFINE z == ZoneOf(h)
           o == ObjOf(h)
<1>1. /\ used' = [used EXCEPT ![z][o] = FALSE]
      /\ gen' = [gen EXCEPT ![z][o] = NextGen(@)]
      /\ frees' = [frees EXCEPT ![z][o] = @ + 1]
      /\ UNCHANGED <<owner, data, current, issued>>
      /\ Decodes(h) /\ owner[z] = Pid(current)
  BY DEF Free, Resolves, Live
<1>2. z \in Zone /\ o \in Obj
  BY <1>1, DecodedType
<1> HIDE DEF z, o
<1>3. /\ TypeOK /\ frees[z][o] \in Nat
      /\ gen[z][o] = (frees[z][o] % Period) + 1
  BY <1>2 DEF ZonesInv, TypeOK
<1>4. /\ NextGen(gen[z][o]) = ((frees[z][o] + 1) % Period) + 1
      /\ NextGen(gen[z][o]) \in 1 .. GenSpan - 1
  <2>1. NextGen(gen[z][o]) = ((frees[z][o] + 1) % Period) + 1
    BY <1>3, NextGenCounts
  <2>2. frees[z][o] + 1 \in Nat
    BY <1>3
  <2> QED BY <2>1, <2>2, NextGenCounts
<1>5. TypeOK'
  <2>1. used' \in [Zone -> [Obj -> BOOLEAN]]
    BY <1>1, <1>2, <1>3 DEF TypeOK
  <2>2. gen' \in [Zone -> [Obj -> 1 .. GenSpan - 1]]
    BY <1>1, <1>2, <1>3, <1>4 DEF TypeOK
  <2>3. frees' \in [Zone -> [Obj -> Nat]]
    BY <1>1, <1>2, <1>3 DEF TypeOK
  <2> QED BY <2>1, <2>2, <2>3, <1>1, <1>3 DEF TypeOK
<1>6. \A y \in Zone, n \in Obj :
        /\ gen'[y][n] = IF y = z /\ n = o THEN NextGen(gen[z][o]) ELSE gen[y][n]
        /\ frees'[y][n] = IF y = z /\ n = o THEN frees[z][o] + 1 ELSE frees[y][n]
  BY <1>1, <1>2, <1>3 DEF TypeOK
<1>7. \A y \in Zone, n \in Obj : gen'[y][n] = (frees'[y][n] % Period) + 1
  BY <1>4, <1>6 DEF ZonesInv
<1>8. \A y \in Zone : owner'[y] = NoOwner => \A n \in Obj : frees'[y][n] = 0
  <2>1. owner[z] # NoOwner
    BY <1>1, <1>3, ZonesAssumption DEF Pid, NoOwner, TypeOK
  <2> QED BY <2>1, <1>1, <1>6 DEF ZonesInv
<1>9. ASSUME NEW i \in issued'
      PROVE  /\ i.handle = encode(i.zone, i.obj, (i.life % Period) + 1)
             /\ i.life <= frees'[i.zone][i.obj]
  <2>1. /\ i \in issued /\ i.zone \in Zone /\ i.obj \in Obj /\ i.life \in Nat
        /\ frees[i.zone][i.obj] \in Nat
    BY <1>1, <1>3 DEF TypeOK
  <2>2. frees'[i.zone][i.obj] \in {frees[i.zone][i.obj], frees[i.zone][i.obj] + 1}
    BY <2>1, <1>6
  <2>3. i.life <= frees[i.zone][i.obj]
    BY <2>1 DEF ZonesInv
  <2>4. i.life <= frees'[i.zone][i.obj]
    BY <2>1, <2>2, <2>3
  <2> QED BY <2>1, <2>4 DEF ZonesInv
<1> QED BY <1>5, <1>7, <1>8, <1>9 DEF ZonesInv

(* Every operation preserves the invariant. *)
LEMMA StepPreserves == ZonesInv /\ [Next]_vars => ZonesInv'
<1> SUFFICES ASSUME ZonesInv, [Next]_vars PROVE ZonesInv'
  OBVIOUS
<1>1. CASE Create
  BY <1>1, CreatePreserves
<1>2. ASSUME NEW z \in Zone, Alloc(z) PROVE ZonesInv'
  BY <1>2, AllocPreserves
<1>3. ASSUME NEW h \in Handle, Free(h) PROVE ZonesInv'
  BY <1>3, FreePreserves
<1>4. ASSUME NEW h \in Handle, NEW d \in Data, Write(h, d) PROVE ZonesInv'
  <2>1. /\ data' = [data EXCEPT ![ZoneOf(h)][ObjOf(h)] = d]
        /\ UNCHANGED <<owner, used, gen, current, frees, issued>>
        /\ ZoneOf(h) \in Zone /\ ObjOf(h) \in Obj
    BY <1>4, DecodedType DEF Write, Resolves, Live
  <2>2. TypeOK'
    BY <2>1 DEF ZonesInv, TypeOK
  <2> QED BY <2>1, <2>2 DEF ZonesInv
<1>5. ASSUME NEW t \in Task, Preempt(t) PROVE ZonesInv'
  BY <1>5 DEF Preempt, zoneVars, ZonesInv, TypeOK
<1>6. CASE UNCHANGED vars
  BY <1>6 DEF vars, zoneVars, ZonesInv, TypeOK
<1> QED BY <1>1, <1>2, <1>3, <1>4, <1>5, <1>6 DEF Next

-----------------------------------------------------------------------------

(* A freed handle is rejected until its object was freed GenSpan - 1       *)
(* times more, whatever the sequence of operations and of processes.       *)
THEOREM StaleTheorem == Spec => []StaleRejected
<1>1. Init => ZonesInv
  BY InitHolds
<1>2. ZonesInv /\ [Next]_vars => ZonesInv'
  BY StepPreserves
<1>3. ZonesInv => StaleRejected
  BY InvRejects
<1> QED BY <1>1, <1>2, <1>3, PTL DEF Spec

(* No process changes another's objects, whatever handle it passes. *)
THEOREM OwnerTheorem == Spec => OnlyOwnerTouches
<1> DEFINE A == \A z \in Zone :
       /\ owner[z] # NoOwner => owner'[z] = owner[z]
       /\ <<used[z], gen[z], data[z]>>' # <<used[z], gen[z], data[z]>>
            => owner[z] \in {NoOwner, Pid(current)}
<1>1. Init => ZonesInv
  BY InitHolds
<1>2. ZonesInv /\ [Next]_vars => ZonesInv'
  BY StepPreserves
<1>3. ZonesInv /\ [Next]_vars => [A]_vars
  <2> SUFFICES ASSUME ZonesInv, Next, NEW z \in Zone
               PROVE  /\ owner[z] # NoOwner => owner'[z] = owner[z]
                      /\ owner[z] \notin {NoOwner, Pid(current)} =>
                           used'[z] = used[z] /\ gen'[z] = gen[z] /\ data'[z] = data[z]
    OBVIOUS
  <2>1. TypeOK
    BY DEF ZonesInv
  <2>2. CASE Create
    BY <2>1, <2>2 DEF Create, TypeOK
  <2>3. ASSUME NEW y \in Zone, Alloc(y)
        PROVE  /\ owner' = owner /\ gen' = gen /\ owner[y] = Pid(current)
               /\ z # y => used'[z] = used[z] /\ data'[z] = data[z]
    BY <2>1, <2>3 DEF Alloc, TypeOK
  <2>4. ASSUME NEW h \in Handle, Free(h)
        PROVE  /\ owner' = owner /\ data' = data /\ owner[ZoneOf(h)] = Pid(current)
               /\ z # ZoneOf(h) => used'[z] = used[z] /\ gen'[z] = gen[z]
    BY <2>1, <2>4 DEF Free, Resolves, Live, TypeOK
  <2>5. ASSUME NEW h \in Handle, NEW d \in Data, Write(h, d)
        PROVE  /\ owner' = owner /\ used' = used /\ gen' = gen
               /\ owner[ZoneOf(h)] = Pid(current)
               /\ z # ZoneOf(h) => data'[z] = data[z]
    BY <2>1, <2>5 DEF Write, Resolves, Live, TypeOK
  <2>6. ASSUME NEW t \in Task, Preempt(t)
        PROVE  UNCHANGED <<owner, used, gen, data>>
    BY <2>6 DEF Preempt, zoneVars
  <2> QED BY <2>2, <2>3, <2>4, <2>5, <2>6 DEF Next
<1> QED BY <1>1, <1>2, <1>3, PTL DEF Spec, OnlyOwnerTouches

-----------------------------------------------------------------------------
(* Heap: the inductive invariant, of the words w, the free list's head h   *)
(* and the allocations L.                                                  *)

(* The list from h is f[0], f[1] and so on, its k blocks distinct. *)
Listed(w, h, k, f) ==
  /\ k \in Nat /\ f \in [0 .. k -> Addr \cup {Null}]
  /\ f[0] = h /\ f[k] = Null
  /\ \A i \in 0 .. k - 1 : f[i] \in Addr /\ f[i + 1] = w[f[i] + 1]
  /\ \A i, j \in 0 .. k - 1 : f[i] = f[j] => i = j
FreeSet(k, f) == {f[i] : i \in 0 .. k - 1}
Heads(w, L) == {w[l.at - 1] : l \in L}

Inside(w, b, i) == b <= i /\ i < b + w[b]
Block(w, b) ==
  b \in Addr /\ w[b] \in Nat /\ w[b] >= 2 /\ b % 2 = 0 /\ w[b] % 2 = 0 /\ b + w[b] <= HeapSize
Tiles(w, B) ==
  /\ \A b \in B : Block(w, b)
  /\ \A b, c \in B : b < c => b + w[b] <= c
  /\ \A i \in Addr : \E b \in B : Inside(w, b, i)

(* Allocation l is in block b. *)
Belongs(w, b, l) ==
  /\ l.at \in Nat /\ l.len \in Nat /\ b + 3 <= l.at /\ l.at + l.len <= b + w[b]
  /\ l.at % MaxAlign(l.align) = 0
Owned(w, F, L) ==
  /\ \A l \in L : w[l.at - 1] \in Addr \ F /\ Belongs(w, w[l.at - 1], l)
  /\ \A l, m \in L : w[l.at - 1] = w[m.at - 1] => l = m

Holds(w, h, L, k, f) ==
  /\ w \in [Addr -> Int] /\ Listed(w, h, k, f)
  /\ Tiles(w, FreeSet(k, f) \cup Heads(w, L)) /\ Owned(w, FreeSet(k, f), L)
HeapInv == \E k, f : Holds(word, head, live, k, f)

-----------------------------------------------------------------------------
(* Numbers. *)

(* A multiple leaves no remainder. *)
LEMMA MultipleOf ==
  ASSUME NEW q \in Nat, NEW a \in Nat \ {0}
  PROVE  q * a \in Nat /\ (q * a) % a = 0
<1>1. PICK n \in Nat : n = q * a
  OBVIOUS
<1>2. PICK d \in Nat, e \in Nat : e = n % a /\ e < a /\ n = d * a + e
  BY <1>1
<1>3. d * a \in Nat /\ q * a \in Nat
  BY <1>2
<1>4. ASSUME d < q PROVE FALSE
  <2>1. PICK c \in Nat : q = d + 1 + c
    BY <1>2, <1>4
  <2>2. q * a = d * a + a + c * a /\ c * a \in Nat
    BY <1>2, <2>1
  <2> QED BY <1>1, <1>2, <1>3, <2>2
<1>5. ASSUME q < d PROVE FALSE
  <2>1. PICK c \in Nat : d = q + 1 + c
    BY <1>2, <1>5
  <2>2. d * a = q * a + a + c * a /\ c * a \in Nat
    BY <1>2, <2>1
  <2> QED BY <1>1, <1>2, <1>3, <2>2
<1>6. d = q
  BY <1>2, <1>4, <1>5
<1> QED BY <1>1, <1>2, <1>3, <1>6

(* A multiple of the alignment at or behind an address. *)
LEMMA AlignUpIs ==
  ASSUME NEW v \in Nat, NEW a \in Nat \ {0}
  PROVE  AlignUp(v, a) \in Nat /\ v <= AlignUp(v, a) /\ AlignUp(v, a) % a = 0
<1> DEFINE q == (v + a - 1) \div a
<1>1. v + a - 1 \in Nat /\ q \in Nat
  OBVIOUS
<1>2. v + a - 1 < (q + 1) * a
  BY <1>1
<1>3. (q + 1) * a = q * a + a /\ q * a \in Nat
  BY <1>1
<1>4. (q * a) % a = 0
  BY <1>1, MultipleOf
<1> QED BY <1>2, <1>3, <1>4 DEF AlignUp

(* It is even when the alignment is. *)
LEMMA AlignUpEven ==
  ASSUME NEW v \in Nat, NEW a \in Nat \ {0}, a % 2 = 0
  PROVE  AlignUp(v, a) % 2 = 0
<1> DEFINE q == (v + a - 1) \div a
           c == a \div 2
<1>1. q \in Nat /\ c \in Nat /\ a = 2 * c
  OBVIOUS
<1>2. q * c \in Nat /\ q * a = 2 * (q * c)
  BY <1>1
<1>3. \A n \in Nat : (2 * n) % 2 = 0
  OBVIOUS
<1> HIDE DEF q, c
<1>4. (q * a) % 2 = 0
  BY <1>2, <1>3
<1> QED BY <1>4 DEF AlignUp, q

(* The sizes alloc works with. *)
LEMMA Sizing ==
  ASSUME NEW b \in Nat, b % 2 = 0, NEW size \in Sizes, NEW a \in Aligns
  PROVE  /\ Pointer(b, a) \in Nat /\ b + 4 <= Pointer(b, a) /\ Pointer(b, a) % MaxAlign(a) = 0
         /\ Want(size) \in Nat /\ size <= Want(size) /\ 2 <= Want(size)
         /\ UsedSize(b, size, a) = (Pointer(b, a) - b) + Want(size)
         /\ UsedSize(b, size, a) \in Nat /\ UsedSize(b, size, a) % 2 = 0
<1>1. size \in Nat /\ a \in Nat \ {0} /\ (a = 1 \/ a % 2 = 0)
  BY HeapAssumption
<1>2. MaxAlign(a) \in Nat \ {0} /\ MaxAlign(a) % 2 = 0
  BY <1>1 DEF MaxAlign, Align
<1>3. PICK p : p = Pointer(b, a)
  OBVIOUS
<1>4. p \in Nat /\ b + 3 <= p /\ p % MaxAlign(a) = 0 /\ p % 2 = 0
  BY <1>2, <1>3, AlignUpIs, AlignUpEven DEF Pointer, Header
<1>5. PICK s : s = AlignUp(size, 2)
  OBVIOUS
<1>6. s \in Nat /\ size <= s /\ s % 2 = 0
  BY <1>1, <1>5, AlignUpIs, AlignUpEven
<1>7. PICK t : t = Want(size)
  OBVIOUS
<1>8. t \in Nat /\ size <= t /\ 2 <= t /\ t % 2 = 0
  BY <1>1, <1>5, <1>6, <1>7 DEF Want, Align
<1>9. b + 4 <= p /\ (p - b) + t \in Nat /\ ((p - b) + t) % 2 = 0 /\ (p + t) - b = (p - b) + t
  BY <1>4, <1>8
<1> QED BY <1>3, <1>4, <1>7, <1>8, <1>9 DEF UsedSize

-----------------------------------------------------------------------------
(* Tiles. *)

(* No word is in two blocks. *)
LEMMA Unshared ==
  ASSUME NEW w, NEW B, Tiles(w, B), NEW b \in B, NEW c \in B, NEW i \in Int,
         Inside(w, b, i), Inside(w, c, i)
  PROVE  b = c
<1>1. b \in Int /\ c \in Int /\ w[b] \in Int /\ w[c] \in Int
  BY DEF Tiles, Block, Addr
<1>2. ~(b < c) /\ ~(c < b)
  BY <1>1 DEF Tiles, Inside
<1> QED BY <1>1, <1>2

(* Blocks of the same sizes tile the heap. *)
LEMMA TilesKept ==
  ASSUME NEW w, NEW v, NEW B, Tiles(w, B), \A b \in B : v[b] = w[b]
  PROVE  Tiles(v, B)
<1>1. \A b \in B : Block(v, b)
  BY DEF Tiles, Block
<1>2. \A b, c \in B : b < c => b + v[b] <= c
  BY DEF Tiles
<1>3. \A i \in Addr : \E b \in B : Inside(v, b, i)
  BY DEF Tiles, Inside
<1> QED BY <1>1, <1>2, <1>3 DEF Tiles

(* A block's end becomes a block of its own. *)
LEMMA TilesSplit ==
  ASSUME NEW w, NEW v, NEW B, Tiles(w, B), NEW b \in B, NEW u \in Nat,
         u % 2 = 0, 2 <= u, u + 2 <= w[b], NEW t, t = b + u,
         v[b] = u, v[t] = w[b] - u, \A c \in B : c # b => v[c] = w[c]
  PROVE  t \in Addr /\ t \notin B /\ Tiles(v, B \cup {t})
<1>1. \A c \in B : Block(w, c)
  BY DEF Tiles
<1>2. /\ b \in Nat /\ b % 2 = 0 /\ b + w[b] <= HeapSize /\ w[b] \in Nat /\ w[b] % 2 = 0
      /\ HeapSize \in Nat
  BY <1>1, HeapAssumption DEF Block, Addr
<1>3. t \in Addr /\ t \in Nat /\ b < t /\ t < b + w[b] /\ t % 2 = 0 /\ t + v[t] = b + w[b]
  BY <1>2 DEF Addr
<1>4. t \notin B
  BY <1>1, <1>2, <1>3 DEF Tiles
<1>5. v[t] \in Nat /\ v[t] >= 2 /\ v[t] % 2 = 0
  <2>1. \A x \in Nat : x % 2 = 0 /\ u + 2 <= x => (x - u) \in Nat /\ x - u >= 2 /\ (x - u) % 2 = 0
    OBVIOUS
  <2> QED BY <1>2, <2>1
<1>6. \A c \in B \cup {t} : Block(v, c)
  <2>1. Block(v, t)
    BY <1>2, <1>3, <1>5 DEF Block
  <2>2. Block(v, b)
    BY <1>1, <1>2 DEF Block
  <2>3. ASSUME NEW c \in B, c # b PROVE Block(v, c)
    BY <1>1, <2>3 DEF Block
  <2> QED BY <2>1, <2>2, <2>3
<1>7. \A c, d \in B \cup {t} : c < d => c + v[c] <= d
  <2> SUFFICES ASSUME NEW c \in B \cup {t}, NEW d \in B \cup {t}, c < d
               PROVE  c + v[c] <= d
    OBVIOUS
  <2>1. c \in Nat /\ d \in Nat /\ (c \in B => w[c] \in Nat)
    BY <1>1, <1>3 DEF Block, Addr
  <2>2. CASE c \in B /\ d \in B /\ c # b
    BY <2>2 DEF Tiles
  <2>3. CASE c = b /\ d \in B
    <3>1. b + w[b] <= d
      BY <2>3 DEF Tiles
    <3> QED BY <1>2, <2>1, <2>3, <3>1
  <2>4. CASE c = t /\ d \in B
    <3>1. b + w[b] <= d
      BY <1>2, <1>3, <2>1, <2>4 DEF Tiles
    <3> QED BY <1>3, <2>4, <3>1
  <2>5. CASE c = b /\ d = t
    BY <1>2, <2>5
  <2>6. CASE c \in B /\ c # b /\ d = t
    <3>1. c < b
      <4>1. ASSUME b < c PROVE FALSE
        <5>1. b + w[b] <= c
          BY <2>6, <4>1 DEF Tiles
        <5> QED BY <1>2, <1>3, <2>1, <2>6, <5>1
      <4> QED BY <1>2, <2>1, <2>6, <4>1
    <3>2. c + w[c] <= b
      BY <2>6, <3>1 DEF Tiles
    <3> QED BY <1>2, <1>3, <2>1, <2>6, <3>2
  <2>7. CASE c = t /\ d = t
    BY <2>1, <2>7
  <2> QED BY <2>2, <2>3, <2>4, <2>5, <2>6, <2>7
<1>8. ASSUME NEW i \in Addr PROVE \E c \in B \cup {t} : Inside(v, c, i)
  <2>1. PICK c \in B : Inside(w, c, i)
    BY DEF Tiles
  <2>2. CASE c # b
    BY <2>1, <2>2 DEF Inside
  <2>3. CASE c = b /\ i < t
    BY <1>2, <2>1, <2>3 DEF Inside, Addr
  <2>4. CASE c = b /\ ~(i < t)
    <3>1. Inside(v, t, i)
      BY <1>2, <1>3, <2>1, <2>4 DEF Inside, Addr
    <3> QED BY <3>1
  <2> QED BY <2>2, <2>3, <2>4
<1> QED BY <1>3, <1>4, <1>6, <1>7, <1>8 DEF Tiles

-----------------------------------------------------------------------------
(* Lists. *)

(* A list whose links are unchanged. *)
LEMMA ListKept ==
  ASSUME NEW w, NEW v, NEW h, NEW k, NEW f, Listed(w, h, k, f),
         \A i \in 0 .. k - 1 : v[f[i] + 1] = w[f[i] + 1]
  PROVE  Listed(v, h, k, f)
  BY DEF Listed

(* A block in front of a list. *)
LEMMA ListPush ==
  ASSUME NEW w, NEW v, NEW h, NEW k, NEW f, Listed(w, h, k, f),
         NEW x \in Addr, x \notin FreeSet(k, f), v[x + 1] = h,
         \A i \in 0 .. k - 1 : v[f[i] + 1] = w[f[i] + 1]
  PROVE  \E g : Listed(v, x, k + 1, g) /\ FreeSet(k + 1, g) = FreeSet(k, f) \cup {x}
<1> DEFINE g == [i \in 0 .. k + 1 |-> IF i = 0 THEN x ELSE f[i - 1]]
<1>1. k \in Nat /\ f \in [0 .. k -> Addr \cup {Null}] /\ f[0] = h /\ f[k] = Null
  BY DEF Listed
<1>2. /\ g \in [0 .. k + 1 -> Addr \cup {Null}] /\ g[0] = x /\ g[k + 1] = Null
      /\ \A i \in 0 .. k : i + 1 \in 0 .. k + 1 /\ g[i + 1] = f[i]
  BY <1>1
<1>3. \A i \in 0 .. (k + 1) - 1 : i = 0 \/ (i - 1 \in 0 .. k - 1 /\ i - 1 \in 0 .. k /\ (i - 1) + 1 = i)
  BY <1>1
<1> HIDE DEF g
<1>4. ASSUME NEW i \in 0 .. (k + 1) - 1 PROVE g[i] \in Addr /\ g[i + 1] = v[g[i] + 1]
  <2>1. CASE i = 0
    <3>1. g[0 + 1] = f[0]
      BY <1>1, <1>2
    <3> QED BY <1>1, <1>2, <2>1, <3>1
  <2>2. CASE i # 0
    <3>1. PICK j \in 0 .. k - 1 : j \in 0 .. k /\ j + 1 = i /\ j + 1 \in 0 .. k
      BY <1>1, <1>3, <2>2
    <3>2. g[i] = f[j] /\ g[i + 1] = f[j + 1] /\ f[j] \in Addr /\ f[j + 1] = w[f[j] + 1]
      BY <1>2, <3>1 DEF Listed
    <3> QED BY <3>1, <3>2
  <2> QED BY <2>1, <2>2
<1>5. ASSUME NEW i \in 0 .. (k + 1) - 1, NEW j \in 0 .. (k + 1) - 1, g[i] = g[j] PROVE i = j
  <2>1. \A n \in 0 .. (k + 1) - 1 : n # 0 => n - 1 \in 0 .. k - 1 /\ g[n] = f[n - 1]
    BY <1>1, <1>2, <1>3
  <2>2. \A n \in 0 .. (k + 1) - 1 : n # 0 => g[n] # x
    BY <2>1 DEF FreeSet
  <2>3. CASE i # 0 /\ j # 0
    <3>1. i - 1 = j - 1
      BY <1>5, <2>1, <2>3 DEF Listed
    <3> QED BY <3>1
  <2> QED BY <1>2, <1>5, <2>2, <2>3
<1>6. FreeSet(k + 1, g) = FreeSet(k, f) \cup {x}
  <2>1. ASSUME NEW y \in FreeSet(k + 1, g) PROVE y \in FreeSet(k, f) \cup {x}
    <3>1. PICK i \in 0 .. (k + 1) - 1 : y = g[i]
      BY DEF FreeSet
    <3>2. CASE i # 0
      BY <1>2, <1>3, <3>1, <3>2 DEF FreeSet
    <3> QED BY <1>2, <3>1, <3>2
  <2>2. x \in FreeSet(k + 1, g)
    <3>1. 0 \in 0 .. (k + 1) - 1
      BY <1>1
    <3> QED BY <1>2, <3>1 DEF FreeSet
  <2>3. ASSUME NEW y \in FreeSet(k, f) PROVE y \in FreeSet(k + 1, g)
    <3>1. PICK i \in 0 .. k - 1 : y = f[i]
      BY DEF FreeSet
    <3>2. i + 1 \in 0 .. (k + 1) - 1 /\ i \in 0 .. k
      BY <1>1
    <3> QED BY <1>2, <3>1, <3>2 DEF FreeSet
  <2> QED BY <2>1, <2>2, <2>3
<1>7. k + 1 \in Nat
  BY <1>1
<1>8. Listed(v, x, k + 1, g)
  BY <1>2, <1>4, <1>5, <1>7 DEF Listed
<1> QED BY <1>6, <1>8

(* The words v and the head e are w and h without block n of the list. *)
Unlinks(w, v, h, e, k, f, n) ==
  /\ n \in 0 .. k - 1
  /\ n = 0 => e = f[1]
  /\ n > 0 => e = h /\ v[f[n - 1] + 1] = f[n + 1]
  /\ \A i \in 0 .. k - 1 : i # n /\ i + 1 # n => v[f[i] + 1] = w[f[i] + 1]

(* Block n is unlinked. *)
LEMMA ListTake ==
  ASSUME NEW w, NEW v, NEW h, NEW e, NEW k, NEW f, NEW n, Listed(w, h, k, f),
         Unlinks(w, v, h, e, k, f, n)
  PROVE  \E g : Listed(v, e, k - 1, g) /\ FreeSet(k - 1, g) = FreeSet(k, f) \ {f[n]}
<1> DEFINE g == [i \in 0 .. k - 1 |-> IF i < n THEN f[i] ELSE f[i + 1]]
<1>0. /\ n \in 0 .. k - 1
      /\ n = 0 => e = f[1]
      /\ n > 0 => e = h /\ v[f[n - 1] + 1] = f[n + 1]
      /\ \A i \in 0 .. k - 1 : i # n /\ i + 1 # n => v[f[i] + 1] = w[f[i] + 1]
  BY DEF Unlinks
<1>1. /\ k \in Nat /\ f \in [0 .. k -> Addr \cup {Null}] /\ f[0] = h /\ f[k] = Null
      /\ k - 1 \in Nat /\ n \in Nat /\ n < k
  BY <1>0 DEF Listed
<1>2. /\ g \in [0 .. k - 1 -> Addr \cup {Null}] /\ g[0] = e /\ g[k - 1] = Null
      /\ \A i \in 0 .. k - 1 : g[i] = IF i < n THEN f[i] ELSE f[i + 1]
  <2>1. \A i \in 0 .. k - 1 : i \in 0 .. k /\ i + 1 \in 0 .. k
    BY <1>1
  <2>2. g \in [0 .. k - 1 -> Addr \cup {Null}]
    BY <1>1, <2>1
  <2>3. g[0] = e
    <3>1. CASE n = 0
      BY <1>0, <1>1, <3>1
    <3>2. CASE n > 0
      BY <1>0, <1>1, <3>2
    <3> QED BY <1>1, <3>1, <3>2
  <2>4. g[k - 1] = f[(k - 1) + 1] /\ (k - 1) + 1 = k
    BY <1>1
  <2> QED BY <1>1, <2>2, <2>3, <2>4
<1> HIDE DEF g
<1>3. ASSUME NEW i \in 0 .. (k - 1) - 1 PROVE g[i] \in Addr /\ g[i + 1] = v[g[i] + 1]
  <2>1. i \in Nat /\ i \in 0 .. k - 1 /\ i + 1 \in 0 .. k - 1 /\ (i + 1) + 1 \in 0 .. k
    BY <1>1
  <2>2. /\ f[i] \in Addr /\ f[i + 1] = w[f[i] + 1]
        /\ f[i + 1] \in Addr /\ f[(i + 1) + 1] = w[f[i + 1] + 1]
    BY <2>1 DEF Listed
  <2>3. CASE i + 1 < n
    <3>1. g[i] = f[i] /\ g[i + 1] = f[i + 1] /\ v[f[i] + 1] = w[f[i] + 1]
      BY <1>0, <1>1, <1>2, <2>1, <2>3
    <3> QED BY <2>2, <3>1
  <2>4. CASE i + 1 = n
    <3>1. g[i] = f[i] /\ g[i + 1] = f[n + 1] /\ v[f[i] + 1] = f[n + 1]
      BY <1>0, <1>1, <1>2, <2>1, <2>4
    <3> QED BY <2>2, <3>1
  <2>5. CASE n <= i
    <3>1. g[i] = f[i + 1] /\ g[i + 1] = f[(i + 1) + 1] /\ v[f[i + 1] + 1] = w[f[i + 1] + 1]
      BY <1>0, <1>1, <1>2, <2>1, <2>5
    <3> QED BY <2>2, <3>1
  <2> QED BY <1>1, <2>1, <2>3, <2>4, <2>5
<1>4. \A i \in 0 .. (k - 1) - 1 :
        LET j == IF i < n THEN i ELSE i + 1 IN j \in 0 .. k - 1 /\ j # n /\ g[i] = f[j]
  BY <1>1, <1>2
<1>5. ASSUME NEW i \in 0 .. (k - 1) - 1, NEW j \in 0 .. (k - 1) - 1, g[i] = g[j] PROVE i = j
  <2>1. (IF i < n THEN i ELSE i + 1) = (IF j < n THEN j ELSE j + 1)
    BY <1>4, <1>5 DEF Listed
  <2> QED BY <1>1, <2>1
<1>6. FreeSet(k - 1, g) = FreeSet(k, f) \ {f[n]}
  <2>1. ASSUME NEW y \in FreeSet(k - 1, g) PROVE y \in FreeSet(k, f) \ {f[n]}
    <3>1. PICK i \in 0 .. (k - 1) - 1 : y = g[i]
      BY DEF FreeSet
    <3>2. PICK j \in 0 .. k - 1 : j # n /\ y = f[j]
      BY <1>4, <3>1
    <3> QED BY <1>0, <3>2 DEF FreeSet, Listed
  <2>2. ASSUME NEW y \in FreeSet(k, f), y # f[n] PROVE y \in FreeSet(k - 1, g)
    <3>1. PICK j \in 0 .. k - 1 : y = f[j]
      BY DEF FreeSet
    <3>2. CASE j < n
      <4>1. j \in 0 .. (k - 1) - 1 /\ g[j] = y
        BY <1>1, <1>2, <3>1, <3>2
      <4> QED BY <4>1 DEF FreeSet
    <3>3. CASE n < j
      <4>1. j - 1 \in 0 .. (k - 1) - 1 /\ g[j - 1] = y
        BY <1>1, <1>2, <3>1, <3>3
      <4> QED BY <4>1 DEF FreeSet
    <3> QED BY <1>1, <2>2, <3>1, <3>2, <3>3
  <2> QED BY <2>1, <2>2
<1>7. Listed(v, e, k - 1, g)
  BY <1>1, <1>2, <1>3, <1>5 DEF Listed
<1> QED BY <1>6, <1>7

(* A set of numbers has a least one. *)
LEMMA LeastOf ==
  ASSUME NEW T, T \subseteq Nat, T # {}
  PROVE  \E x \in T : \A y \in T : x <= y
<1> DEFINE R == OpToRel(<, Nat)
<1>1. IsWellFoundedOn(R, Nat)
  BY NatLessThanWellFounded
<1> HIDE DEF R
<1>2. PICK x \in T : \A y \in T : <<y, x>> \notin R
  BY <1>1, WFMin
<1>3. R = {ss \in Nat \X Nat : ss[1] < ss[2]}
  BY DEF R, OpToRel
<1>4. ASSUME NEW y \in T PROVE x <= y
  <2>1. x \in Nat /\ y \in Nat
    OBVIOUS
  <2>2. y < x => <<y, x>> \in R
    BY <2>1, <1>3
  <2> QED BY <2>1, <2>2, <1>2
<1> QED BY <1>4

(* What alloc's scan of the list meets. *)
LEMMA NthIs ==
  ASSUME NEW k, NEW f, Listed(word, head, k, f)
  PROVE  \A n \in 0 .. HeapSize : Nth[n] = IF n <= k THEN f[n] ELSE Null
<1> DEFINE G == [n \in 0 .. HeapSize |-> IF n <= k THEN f[n] ELSE Null]
           Scan(g) == g = [n \in 0 .. HeapSize |->
                             IF n = 0 THEN head
                             ELSE IF g[n - 1] = Null THEN Null ELSE word[g[n - 1] + 1]]
           bad == {n \in 0 .. HeapSize : Nth[n] # G[n]}
<1>0. \A n \in 0 .. HeapSize : n \in Nat
  BY HeapAssumption
<1>1. /\ HeapSize \in Nat /\ k \in Nat /\ f[0] = head /\ f[k] = Null
      /\ \A i \in 0 .. k - 1 : f[i] # Null /\ f[i + 1] = word[f[i] + 1]
  BY HeapAssumption DEF Listed, Addr, Null
<1>2. ASSUME NEW n \in 0 .. HeapSize, n # 0
      PROVE  /\ n - 1 \in 0 .. HeapSize
             /\ G[n] = IF G[n - 1] = Null THEN Null ELSE word[G[n - 1] + 1]
  <2>1. n \in Nat /\ n - 1 \in 0 .. HeapSize /\ (n - 1) + 1 = n
    BY <1>1, <1>2
  <2>2. CASE n <= k
    <3>1. n - 1 \in 0 .. k - 1 /\ n - 1 <= k
      BY <1>1, <1>2, <2>1, <2>2
    <3>2. G[n] = f[n] /\ G[n - 1] = f[n - 1]
      BY <2>1, <2>2, <3>1
    <3>3. f[n - 1] # Null /\ f[n] = word[f[n - 1] + 1]
      BY <1>1, <2>1, <3>1
    <3> QED BY <2>1, <3>2, <3>3
  <2>3. CASE n = k + 1
    <3>1. G[n] = Null /\ G[n - 1] = f[k]
      BY <1>1, <2>1, <2>3
    <3> QED BY <1>1, <2>1, <3>1
  <2>4. CASE k + 1 < n
    <3>1. G[n] = Null /\ G[n - 1] = Null
      BY <1>1, <2>1, <2>4
    <3> QED BY <2>1, <3>1
  <2> QED BY <1>1, <2>1, <2>2, <2>3, <2>4
<1>3. G[0] = head
  BY <1>1
<1>4. Scan(G)
  <2> HIDE DEF G
  <2>1. G = [n \in 0 .. HeapSize |-> G[n]]
    BY DEF G
  <2> QED BY <1>2, <1>3, <2>1
<1>5. Scan(Nth)
  <2> HIDE DEF G
  <2>1. Nth = CHOOSE g : Scan(g)
    BY DEF Nth
  <2> HIDE DEF Scan
  <2> QED BY <1>4, <2>1
<1>6. bad = {}
  <2> SUFFICES ASSUME bad # {} PROVE FALSE
    OBVIOUS
  <2>1. bad \subseteq Nat
    <3> HIDE DEF G
    <3> QED BY <1>0
  <2>2. PICK n \in bad : \A m \in bad : n <= m
    BY <2>1, LeastOf
  <2>3. n \in 0 .. HeapSize /\ Nth[n] # G[n]
    OBVIOUS
  <2> HIDE DEF G
  <2>4. Nth[0] = head
    <3>1. 0 \in 0 .. HeapSize
      BY <1>1
    <3>2. \A m \in 0 .. HeapSize : Nth[m] = IF m = 0 THEN head
                                           ELSE IF Nth[m - 1] = Null THEN Null ELSE word[Nth[m - 1] + 1]
      BY <1>5
    <3> QED BY <3>1, <3>2
  <2>5. n # 0
    BY <1>3, <2>3, <2>4
  <2>6. n - 1 \in 0 .. HeapSize /\ n - 1 \notin bad
    BY <1>1, <1>2, <2>2, <2>3, <2>5
  <2>7. Nth[n - 1] = G[n - 1]
    BY <2>6
  <2>8. Nth[n] = IF Nth[n - 1] = Null THEN Null ELSE word[Nth[n - 1] + 1]
    BY <1>5, <2>3, <2>5
  <2> QED BY <1>2, <2>3, <2>5, <2>7, <2>8
<1> QED BY <1>6

(* The list is no longer than the heap. *)
LEMMA ShortList ==
  ASSUME NEW w, NEW h, NEW k, NEW f, Listed(w, h, k, f)
  PROVE  k <= HeapSize
<1> SUFFICES ASSUME ~(k <= HeapSize) PROVE FALSE
  OBVIOUS
<1>1. HeapSize \in Nat /\ k \in Nat /\ k > HeapSize
  BY HeapAssumption DEF Listed
<1> DEFINE g == [i \in 0 .. k - 1 |-> f[i]]
<1>2. g \in [0 .. k - 1 -> Addr]
  BY DEF Listed
<1>3. ASSUME NEW n \in Nat PROVE IsFiniteSet(0 .. n - 1) /\ Cardinality(0 .. n - 1) = n
  BY FS_Interval
<1>4. IsFiniteSet(Addr) /\ Cardinality(Addr) = HeapSize
  BY <1>1, <1>3 DEF Addr
<1>5. PICK x \in 0 .. k - 1, y \in 0 .. k - 1 : x # y /\ g[x] = g[y]
  <2> HIDE DEF g
  <2> QED BY <1>1, <1>2, <1>3, <1>4, FS_PigeonHole
<1> QED BY <1>5 DEF Listed

-----------------------------------------------------------------------------
(* Steps. *)

(* What is inside a block: its header, and of an allocated one the word    *)
(* that leads back to it.                                                  *)
LEMMA HeaderInside ==
  ASSUME NEW w, NEW b, Block(w, b)
  PROVE  /\ b \in Nat /\ w[b] \in Nat /\ b \in Addr /\ b + 1 \in Addr
         /\ Inside(w, b, b) /\ Inside(w, b, b + 1)
  BY HeapAssumption DEF Block, Inside, Addr

(* The word before a payload in use leads to its block. *)
LEMMA LiveInside ==
  ASSUME NEW w, NEW h, NEW L, NEW k, NEW f, Holds(w, h, L, k, f), NEW l \in L
  PROVE  /\ l.at \in Nat /\ l.at - 1 \in Addr /\ w[l.at - 1] \in Heads(w, L)
         /\ w[l.at - 1] \in Nat /\ w[l.at - 1] \notin FreeSet(k, f) /\ Block(w, w[l.at - 1])
         /\ Inside(w, w[l.at - 1], l.at - 1) /\ Belongs(w, w[l.at - 1], l)
<1>1. PICK b : b = w[l.at - 1]
  OBVIOUS
<1>2. b \in Heads(w, L) /\ b \notin FreeSet(k, f) /\ Belongs(w, b, l)
  BY <1>1 DEF Holds, Owned, Heads
<1>3. Block(w, b)
  BY <1>2 DEF Holds, Tiles
<1>4. b \in Nat /\ w[b] \in Nat /\ b + w[b] <= HeapSize /\ HeapSize \in Nat
  BY <1>3, HeapAssumption DEF Block, Addr
<1>5. l.at \in Nat /\ l.len \in Nat /\ b + 3 <= l.at /\ l.at + l.len <= b + w[b]
  BY <1>2 DEF Belongs
<1>6. l.at - 1 \in Addr /\ Inside(w, b, l.at - 1)
  BY <1>4, <1>5 DEF Addr, Inside
<1> QED BY <1>1, <1>2, <1>3, <1>4, <1>5, <1>6

(* Allocations stay in their blocks when these are not touched. *)
LEMMA OwnedKept ==
  ASSUME NEW w, NEW v, NEW F, NEW G, NEW L, NEW M, Owned(w, F, L), M \subseteq L,
         \A l \in M : /\ v[l.at - 1] = w[l.at - 1] /\ v[w[l.at - 1]] = w[w[l.at - 1]]
                      /\ w[l.at - 1] \notin G
  PROVE  Owned(v, G, M)
<1>1. ASSUME NEW l \in M PROVE v[l.at - 1] \in Addr \ G /\ Belongs(v, v[l.at - 1], l)
  BY DEF Owned, Belongs
<1>2. \A l, m \in M : v[l.at - 1] = v[m.at - 1] => l = m
  BY DEF Owned
<1> QED BY <1>1, <1>2 DEF Owned

(* An owner's writes reach nothing that the allocator reads. *)
LEMMA FillKeeps ==
  ASSUME NEW k, NEW f, Holds(word, head, live, k, f), NEW l \in live, Fill(l)
  PROVE  Holds(word', head', live', k, f)
<1>1. PICK b : b = word[l.at - 1]
  OBVIOUS
<1> DEFINE B == FreeSet(k, f) \cup Heads(word, live)
<1>2. /\ b \in B /\ b \notin FreeSet(k, f) /\ b \in Nat /\ word[b] \in Nat
      /\ l.at \in Nat /\ l.len \in Nat /\ b + 3 <= l.at /\ l.at + l.len <= b + word[b]
  BY <1>1, LiveInside DEF Belongs, Block
<1>3. word \in [Addr -> Int] /\ Tiles(word, B) /\ Listed(word, head, k, f) /\ Owned(word, FreeSet(k, f), live)
  BY DEF Holds
<1>4. /\ word' \in [Addr -> Int] /\ head' = head /\ live' = live
      /\ \A i \in Addr : word'[i] = word[i] \/ (i \in Int /\ Inside(word, b, i) /\ l.at <= i)
  <2>1. /\ word' = [i \in Addr |-> IF i \in l.at .. l.at + l.len - 1 THEN Stored ELSE word[i]]
        /\ head' = head /\ live' = live
    BY DEF Fill
  <2>2. word' \in [Addr -> Int]
    BY <1>3, <2>1 DEF Stored
  <2>3. ASSUME NEW i \in Addr PROVE word'[i] = word[i] \/ (i \in Int /\ Inside(word, b, i) /\ l.at <= i)
    BY <1>2, <2>1 DEF Inside, Addr
  <2> QED BY <2>1, <2>2, <2>3
<1> HIDE DEF B
<1>5. ASSUME NEW c \in B PROVE word'[c] = word[c]
  <2>1. c \in Addr /\ c \in Int /\ Inside(word, c, c)
    BY <1>3, HeaderInside DEF Tiles
  <2>2. ASSUME Inside(word, b, c) PROVE c = b
    BY <1>2, <1>3, <2>1, <2>2, Unshared
  <2> QED BY <1>2, <1>4, <2>1, <2>2
<1>6. ASSUME NEW i \in 0 .. k - 1 PROVE word'[f[i] + 1] = word[f[i] + 1]
  <2>1. f[i] \in B /\ f[i] # b
    BY <1>2 DEF B, FreeSet
  <2>2. f[i] \in Nat /\ f[i] + 1 \in Addr /\ Inside(word, f[i], f[i] + 1)
    BY <1>3, <2>1, HeaderInside DEF Tiles
  <2>3. ~Inside(word, b, f[i] + 1)
    <3>1. f[i] + 1 \in Int
      BY <2>2
    <3> QED BY <1>2, <1>3, <2>1, <2>2, <3>1, Unshared
  <2> QED BY <1>4, <2>2, <2>3
<1>7. ASSUME NEW m \in live PROVE word'[m.at - 1] = word[m.at - 1]
  <2>1. PICK c : c = word[m.at - 1]
    OBVIOUS
  <2>2. c \in B /\ m.at \in Nat /\ m.at - 1 \in Addr /\ m.at - 1 \in Int /\ Inside(word, c, m.at - 1)
    BY <2>1, LiveInside DEF B
  <2>3. ASSUME Inside(word, b, m.at - 1) PROVE m = l
    <3>1. c = b
      BY <1>2, <1>3, <2>2, <2>3, Unshared
    <3> QED BY <1>1, <1>3, <2>1, <3>1 DEF Owned
  <2>4. m = l => ~(l.at <= m.at - 1)
    BY <2>2
  <2> QED BY <1>4, <2>2, <2>3, <2>4
<1>8. Heads(word', live) = Heads(word, live)
  BY <1>7 DEF Heads
<1>9. Tiles(word', B) /\ Listed(word', head, k, f)
  BY <1>3, <1>5, <1>6, TilesKept, ListKept
<1>10. Owned(word', FreeSet(k, f), live)
  <2>1. \A m \in live : word[m.at - 1] \in B /\ word[m.at - 1] \notin FreeSet(k, f)
    BY <1>3 DEF B, Heads, Owned
  <2> QED BY <1>3, <1>5, <1>7, <2>1, OwnedKept
<1> QED BY <1>4, <1>8, <1>9, <1>10 DEF Holds, B

(* A block goes back to the front of the list. *)
LEMMA DeallocKeeps ==
  ASSUME NEW k, NEW f, Holds(word, head, live, k, f), NEW l \in live, dealloc(l)
  PROVE  \E g : Holds(word', head', live', k + 1, g)
<1>1. PICK b : b = word[l.at - 1]
  OBVIOUS
<1> DEFINE B == FreeSet(k, f) \cup Heads(word, live)
<1>2. b \in B /\ b \notin FreeSet(k, f) /\ Block(word, b) /\ b \in Nat /\ b \in Addr /\ b + 1 \in Addr
  BY <1>1, LiveInside, HeaderInside
<1>3. word \in [Addr -> Int] /\ Tiles(word, B) /\ Listed(word, head, k, f) /\ Owned(word, FreeSet(k, f), live)
  BY DEF Holds
<1>4. /\ word' = [word EXCEPT ![b + 1] = head] /\ head' = b /\ live' = live \ {l}
      /\ head \in Int
  BY <1>1, <1>3 DEF dealloc, HeaderOf, Listed, Addr, Null
<1>5. /\ word' \in [Addr -> Int] /\ word'[b + 1] = head
      /\ \A i \in Addr : i # b + 1 => word'[i] = word[i]
  BY <1>2, <1>3, <1>4
<1> HIDE DEF B
<1>6. ASSUME NEW c \in B PROVE word'[c] = word[c]
  <2>1. c \in Addr /\ c \in Int /\ Inside(word, c, c)
    BY <1>3, HeaderInside DEF Tiles
  <2>2. ASSUME c = b + 1 PROVE FALSE
    <3>1. Inside(word, b, c)
      BY <1>2, <2>2, HeaderInside
    <3>2. c = b
      BY <1>2, <1>3, <2>1, <3>1, Unshared
    <3> QED BY <1>2, <2>2, <3>2
  <2> QED BY <1>5, <2>1, <2>2
<1>7. ASSUME NEW i \in 0 .. k - 1 PROVE word'[f[i] + 1] = word[f[i] + 1]
  <2>1. f[i] \in B /\ f[i] # b
    BY <1>2 DEF B, FreeSet
  <2>2. f[i] + 1 \in Addr /\ f[i] \in Nat
    BY <1>3, <2>1, HeaderInside DEF Tiles
  <2> QED BY <1>2, <1>5, <2>1, <2>2
<1>8. ASSUME NEW m \in live, m # l
      PROVE  word'[m.at - 1] = word[m.at - 1] /\ word[m.at - 1] # b /\ word[m.at - 1] \in B
  <2>1. PICK c : c = word[m.at - 1]
    OBVIOUS
  <2>2. c \in B /\ m.at \in Nat /\ m.at - 1 \in Addr /\ m.at - 1 \in Int /\ Inside(word, c, m.at - 1)
    BY <2>1, LiveInside DEF B
  <2>3. c # b
    BY <1>1, <1>3, <1>8, <2>1 DEF Owned
  <2>4. m.at - 1 # b + 1
    <3>1. Inside(word, b, b + 1)
      BY <1>2, HeaderInside
    <3> QED BY <1>2, <1>3, <2>2, <2>3, <3>1, Unshared
  <2> QED BY <1>5, <2>1, <2>2, <2>3, <2>4
<1>9. PICK g : Listed(word', b, k + 1, g) /\ FreeSet(k + 1, g) = FreeSet(k, f) \cup {b}
  BY <1>2, <1>3, <1>5, <1>7, ListPush
<1>10. FreeSet(k + 1, g) \cup Heads(word', live \ {l}) = B
  <2>1. Heads(word', live \ {l}) \cup {b} = Heads(word, live)
    BY <1>1, <1>8 DEF Heads
  <2> QED BY <1>9, <2>1 DEF B
<1>11. Tiles(word', B)
  BY <1>3, <1>6, TilesKept
<1>12. Owned(word', FreeSet(k + 1, g), live \ {l})
  <2>1. ASSUME NEW m \in live \ {l}
        PROVE  /\ word'[m.at - 1] = word[m.at - 1] /\ word'[word[m.at - 1]] = word[word[m.at - 1]]
               /\ word[m.at - 1] \notin FreeSet(k + 1, g)
    BY <1>3, <1>6, <1>8, <1>9 DEF Owned
  <2> QED BY <1>3, <2>1, OwnedKept
<1> QED BY <1>4, <1>5, <1>9, <1>10, <1>11, <1>12 DEF Holds

(* The words once block n of the list is unlinked, q before it and x       *)
(* behind, and once z words are cut off at t.                              *)
Relinked(w, n, q, x) == IF n = 0 THEN w ELSE [w EXCEPT ![q + 1] = x]
Cut(w, z, t, e) == IF z >= 2 THEN [w EXCEPT ![t] = z, ![t + 1] = e] ELSE w

(* The first block that fits is unlinked, and its end goes back to the     *)
(* front of the list when it is large enough for a header.                 *)
LEMMA AllocKeeps ==
  ASSUME NEW k, NEW f, Holds(word, head, live, k, f), NEW size \in Sizes, NEW a \in Aligns,
         alloc(size, a)
  PROVE  \E j, g : Holds(word', head', live', j, g)
<1>0. PICK n \in 0 .. HeapSize :
        LET b == Nth[n]
            p == Pointer(b, a)
            t == p + Want(size)
            u == UsedSize(b, size, a)
            e == IF n = 0 THEN word[b + 1] ELSE head
            x == Relinked(word, n, Nth[n - 1], word[b + 1])
        IN
        /\ b # Null /\ u <= word[b]
        /\ head' = IF word[b] - u >= 2 THEN t ELSE e
        /\ live' = live \cup {[at |-> p, len |-> size, align |-> a]}
        /\ word' = [Cut(x, word[b] - u, t, e) EXCEPT ![b] = u, ![p - 1] = b]
  BY DEF alloc, Fits, Splits, Header, Relinked, Cut
<1>1. PICK b, p, t, u, e, x, y :
        /\ b = Nth[n] /\ p = Pointer(b, a) /\ t = p + Want(size) /\ u = UsedSize(b, size, a)
        /\ e = (IF n = 0 THEN word[b + 1] ELSE head)
        /\ x = Relinked(word, n, Nth[n - 1], word[b + 1]) /\ y = Cut(x, word[b] - u, t, e)
        /\ b # Null /\ u <= word[b]
        /\ head' = (IF word[b] - u >= 2 THEN t ELSE e)
        /\ live' = live \cup {[at |-> p, len |-> size, align |-> a]}
        /\ word' = [y EXCEPT ![b] = u, ![p - 1] = b]
  BY <1>0
<1> DEFINE B == FreeSet(k, f) \cup Heads(word, live)
           r == [at |-> p, len |-> size, align |-> a]
<1>2. word \in [Addr -> Int] /\ Tiles(word, B) /\ Listed(word, head, k, f) /\ Owned(word, FreeSet(k, f), live)
  BY DEF Holds
<1>3. /\ k \in Nat /\ n \in Nat /\ n < k /\ b = f[n] /\ word[b + 1] = f[n + 1]
      /\ n > 0 => n - 1 \in 0 .. k - 1 /\ Nth[n - 1] = f[n - 1] /\ f[n - 1] \in Addr /\ f[n - 1] # b
      /\ f[n + 1] \in Int /\ head \in Int /\ b \in FreeSet(k, f)
  <2>1. k \in Nat /\ n \in Nat /\ f[k] = Null
    BY <1>2, HeapAssumption DEF Listed
  <2>2. n < k /\ b = f[n]
    BY <1>1, <1>2, <2>1, NthIs
  <2>3. n \in 0 .. k - 1 /\ n + 1 \in 0 .. k /\ 0 \in 0 .. k
    BY <2>1, <2>2
  <2>4. ASSUME n > 0 PROVE n - 1 \in 0 .. k - 1 /\ n - 1 \in 0 .. HeapSize /\ n - 1 <= k /\ n - 1 # n
    BY <1>1, <2>1, <2>2, <2>4, HeapAssumption
  <2>5. ASSUME n > 0 PROVE Nth[n - 1] = f[n - 1] /\ f[n - 1] \in Addr /\ f[n - 1] # b
    <3>1. Nth[n - 1] = f[n - 1]
      BY <1>2, <2>4, <2>5, NthIs
    <3> QED BY <1>2, <2>2, <2>3, <2>4, <2>5, <3>1 DEF Listed
  <2>6. \A z \in Addr \cup {Null} : z \in Int
    BY DEF Addr, Null
  <2> QED BY <1>2, <2>1, <2>2, <2>3, <2>4, <2>5, <2>6 DEF Listed, FreeSet
<1> HIDE DEF r
<1>4. Block(word, b) /\ b \in B
  BY <1>2, <1>3 DEF Tiles
<1> HIDE DEF B
<1>5. /\ b \in Nat /\ b \in Addr /\ b % 2 = 0 /\ word[b] \in Nat /\ word[b] % 2 = 0
      /\ b + word[b] <= HeapSize /\ HeapSize \in Nat
  BY <1>4, HeapAssumption DEF Block, Addr
<1>6. /\ p \in Nat /\ b + 4 <= p /\ p % MaxAlign(a) = 0 /\ size \in Nat
      /\ u \in Nat /\ u % 2 = 0 /\ t = b + u /\ p + size <= b + u /\ p + 2 <= b + u
  <2>1. /\ p \in Nat /\ b + 4 <= p /\ p % MaxAlign(a) = 0
        /\ Want(size) \in Nat /\ size <= Want(size) /\ 2 <= Want(size)
        /\ u = (p - b) + Want(size) /\ u \in Nat /\ u % 2 = 0
    BY <1>1, <1>5, Sizing
  <2>2. size \in Nat
    BY HeapAssumption
  <2> QED BY <1>1, <1>5, <2>1, <2>2
<1>7. ASSUME NEW c \in B, c # b, NEW i \in Int, Inside(word, c, i)
      PROVE  ~Inside(word, b, i)
  BY <1>2, <1>4, <1>7, Unshared
<1>8. ASSUME NEW i \in 0 .. k - 1
      PROVE  f[i] \in B /\ f[i] \in Nat /\ f[i] + 1 \in Addr /\ f[i] + 1 \in Int /\ Inside(word, f[i], f[i] + 1)
  <2>1. f[i] \in B
    BY DEF B, FreeSet
  <2>2. f[i] \in Nat /\ f[i] + 1 \in Addr /\ Inside(word, f[i], f[i] + 1)
    BY <1>2, <2>1, HeaderInside DEF Tiles
  <2> QED BY <2>1, <2>2
<1>9. n > 0 => f[n - 1] + 1 \in Addr /\ ~Inside(word, b, f[n - 1] + 1)
  BY <1>3, <1>7, <1>8
<1>10. /\ word' \in [Addr -> Int] /\ word'[b] = u /\ word'[p - 1] = b
       /\ n > 0 => word'[f[n - 1] + 1] = f[n + 1]
       /\ word[b] - u >= 2 => word'[t] = word[b] - u /\ word'[t + 1] = e
       /\ \A i \in Addr : ~Inside(word, b, i) /\ ~(n > 0 /\ i = f[n - 1] + 1) => word'[i] = word[i]
  <2>2. /\ x \in [Addr -> Int]
        /\ n > 0 => x[f[n - 1] + 1] = f[n + 1]
        /\ \A i \in Addr : ~(n > 0 /\ i = f[n - 1] + 1) => x[i] = word[i]
    <3>1. CASE n = 0
      BY <1>1, <1>2, <3>1 DEF Relinked
    <3>2. CASE n > 0
      <4>1. x = [word EXCEPT ![f[n - 1] + 1] = f[n + 1]]
        <5>1. x = Relinked(word, n, Nth[n - 1], word[b + 1])
          BY <1>1
        <5>2. n # 0 /\ Nth[n - 1] = f[n - 1] /\ word[b + 1] = f[n + 1]
          BY <1>3, <3>2
        <5> QED BY <5>1, <5>2 DEF Relinked
      <4> QED BY <1>2, <1>3, <1>9, <3>2, <4>1
    <3> QED BY <1>3, <3>1, <3>2
  <2>3. /\ p - 1 \in Addr /\ p - 1 # b /\ Inside(word, b, b) /\ Inside(word, b, p - 1)
        /\ word[b] - u >= 2 => /\ t \in Addr /\ t + 1 \in Addr /\ t # t + 1
                              /\ t \notin {b, p - 1} /\ t + 1 \notin {b, p - 1}
                              /\ Inside(word, b, t) /\ Inside(word, b, t + 1)
    BY <1>1, <1>5, <1>6 DEF Addr, Inside
  <2>4. e \in Int /\ word[b] - u \in Int
    BY <1>1, <1>3, <1>5, <1>6
  <2>5. /\ y \in [Addr -> Int]
        /\ word[b] - u >= 2 => y[t] = word[b] - u /\ y[t + 1] = e
        /\ \A i \in Addr : ~Inside(word, b, i) => y[i] = x[i]
    <3>1. CASE word[b] - u >= 2
      <4>1. y = [x EXCEPT ![t] = word[b] - u, ![t + 1] = e]
        BY <1>1, <3>1 DEF Cut
      <4> QED BY <2>2, <2>3, <2>4, <3>1, <4>1
    <3>2. CASE ~(word[b] - u >= 2)
      BY <1>1, <2>2, <3>2 DEF Cut
    <3> QED BY <3>1, <3>2
  <2>6. /\ word' \in [Addr -> Int] /\ word'[b] = u /\ word'[p - 1] = b
        /\ \A i \in Addr : i \notin {b, p - 1} => word'[i] = y[i]
    <3>1. word' = [y EXCEPT ![b] = u, ![p - 1] = b]
      BY <1>1
    <3>2. b \in Addr /\ b \in Int /\ u \in Int /\ p - 1 \in Addr /\ p - 1 # b
      BY <1>5, <1>6, <2>3
    <3> QED BY <2>5, <3>1, <3>2
  <2>7. \A i \in Addr : ~Inside(word, b, i) => word'[i] = x[i]
    BY <2>3, <2>5, <2>6
  <2>8. word[b] - u >= 2 => word'[t] = word[b] - u /\ word'[t + 1] = e
    BY <2>3, <2>5, <2>6
  <2> QED BY <1>9, <2>2, <2>6, <2>7, <2>8
<1>11. ASSUME NEW c \in B, c # b PROVE word'[c] = word[c]
  <2>1. c \in Addr /\ c \in Int /\ Inside(word, c, c)
    BY <1>2, HeaderInside DEF Tiles
  <2>2. ASSUME n > 0, c = f[n - 1] + 1 PROVE FALSE
    <3>1. f[n - 1] \in B /\ f[n - 1] \in Nat /\ Inside(word, f[n - 1], c)
      BY <1>3, <1>8, <2>2
    <3>2. c = f[n - 1]
      BY <1>2, <2>1, <3>1, Unshared
    <3> QED BY <2>2, <3>1, <3>2
  <2>3. ~Inside(word, b, c)
    BY <1>7, <1>11, <2>1
  <2> QED BY <1>10, <2>1, <2>2, <2>3
<1>12. ASSUME NEW i \in 0 .. k - 1, i # n, i + 1 # n PROVE word'[f[i] + 1] = word[f[i] + 1]
  <2>1. f[i] # b
    BY <1>2, <1>3, <1>12 DEF Listed
  <2>2. ~Inside(word, b, f[i] + 1)
    BY <1>7, <1>8, <2>1
  <2>3. ASSUME n > 0, f[i] + 1 = f[n - 1] + 1 PROVE FALSE
    <3>1. f[i] = f[n - 1]
      BY <1>3, <1>8, <2>3
    <3>2. i = n - 1
      BY <1>2, <1>3, <2>3, <3>1 DEF Listed
    <3> QED BY <1>3, <1>12, <3>2
  <2> QED BY <1>8, <1>10, <2>2, <2>3
<1>13. ASSUME NEW m \in live
       PROVE  /\ word'[m.at - 1] = word[m.at - 1] /\ word[m.at - 1] \in B
              /\ word[m.at - 1] \notin FreeSet(k, f) /\ word[m.at - 1] # b
  <2>1. PICK c : c = word[m.at - 1]
    OBVIOUS
  <2>2. c \in B /\ c \notin FreeSet(k, f) /\ m.at \in Nat /\ m.at - 1 \in Addr /\ Inside(word, c, m.at - 1)
    BY <2>1, LiveInside DEF B
  <2>3. m.at - 1 \in Int /\ c # b
    BY <1>3, <2>2
  <2>4. ~Inside(word, b, m.at - 1)
    BY <1>7, <2>2, <2>3
  <2>5. ASSUME n > 0, m.at - 1 = f[n - 1] + 1 PROVE FALSE
    <3>1. f[n - 1] \in B /\ Inside(word, f[n - 1], m.at - 1) /\ f[n - 1] \in FreeSet(k, f)
      BY <1>3, <1>8, <2>5 DEF FreeSet
    <3>2. c = f[n - 1]
      BY <1>2, <2>2, <2>3, <3>1, Unshared
    <3> QED BY <2>2, <3>1, <3>2
  <2> QED BY <1>10, <2>1, <2>2, <2>3, <2>4, <2>5
<1>14. PICK g : Listed(word', e, k - 1, g) /\ FreeSet(k - 1, g) = FreeSet(k, f) \ {b}
  <2>1. n \in 0 .. k - 1
    BY <1>3
  <2>2. n = 0 => e = f[1]
    BY <1>1, <1>3
  <2>3. PICK v : v = word'
    OBVIOUS
  <2>4. n > 0 => e = head /\ v[f[n - 1] + 1] = f[n + 1]
    <3>1. n > 0 => n # 0
      BY <1>3
    <3>2. e = (IF n = 0 THEN word[b + 1] ELSE head)
      BY <1>1
    <3>3. n > 0 => v[f[n - 1] + 1] = f[n + 1]
      BY <1>10, <2>3
    <3> HIDE <1>0
    <3> QED BY <3>1, <3>2, <3>3
  <2>5. \A i \in 0 .. k - 1 : i # n /\ i + 1 # n => v[f[i] + 1] = word[f[i] + 1]
    BY <1>12, <2>3
  <2>6. Listed(word, head, k, f)
    BY <1>2
  <2>7. \E g : Listed(v, e, k - 1, g) /\ FreeSet(k - 1, g) = FreeSet(k, f) \ {f[n]}
    <3>1. Unlinks(word, v, head, e, k, f, n)
      BY <2>1, <2>2, <2>4, <2>5 DEF Unlinks
    <3> QED BY <2>6, <3>1, ListTake
  <2> QED BY <1>3, <2>3, <2>7
<1>15. live' = live \cup {r} /\ r.at = p /\ r.len = size /\ r.align = a
  BY <1>1 DEF r
<1>16. Heads(word', live') = Heads(word, live) \cup {b}
  BY <1>10, <1>13, <1>15 DEF Heads
<1>17. ASSUME NEW G, b \notin G, \A c \in G : c \in FreeSet(k, f) \/ c \notin B
       PROVE  Owned(word', G, live')
  <2>1. \A m \in live : /\ word'[m.at - 1] = word[m.at - 1]
                        /\ word'[word[m.at - 1]] = word[word[m.at - 1]]
                        /\ word[m.at - 1] \notin G
    BY <1>11, <1>13, <1>17
  <2>2. Owned(word', G, live)
    BY <1>2, <2>1, OwnedKept
  <2>3. word'[r.at - 1] = b /\ b \in Addr \ G
    BY <1>5, <1>10, <1>15, <1>17
  <2>4. Belongs(word', b, r)
    BY <1>5, <1>6, <1>10, <1>15 DEF Belongs
  <2>5. \A m \in live : word'[m.at - 1] # b
    BY <1>13
  <2> QED BY <1>15, <2>2, <2>3, <2>4, <2>5 DEF Owned
<1>18. CASE word[b] - u >= 2
  <2>1. t \in Addr /\ t \notin B /\ Tiles(word', B \cup {t})
    <3>1. 2 <= u /\ u + 2 <= word[b]
      BY <1>5, <1>6, <1>18
    <3>2. word'[t] = word[b] - u
      BY <1>10, <1>18
    <3> QED BY <1>2, <1>4, <1>6, <1>10, <1>11, <3>1, <3>2, TilesSplit
  <2>2. t \notin FreeSet(k - 1, g) /\ word'[t + 1] = e
    BY <1>10, <1>14, <1>18, <2>1 DEF B
  <2>3. PICK q : Listed(word', t, (k - 1) + 1, q) /\ FreeSet((k - 1) + 1, q) = FreeSet(k - 1, g) \cup {t}
    BY <1>14, <2>1, <2>2, ListPush
  <2>4. FreeSet((k - 1) + 1, q) \cup Heads(word', live') = B \cup {t}
    BY <1>3, <1>14, <1>16, <2>3 DEF B
  <2>5. Owned(word', FreeSet((k - 1) + 1, q), live')
    <3>1. b \notin FreeSet((k - 1) + 1, q)
      BY <1>4, <1>14, <2>1, <2>3
    <3>2. \A c \in FreeSet((k - 1) + 1, q) : c \in FreeSet(k, f) \/ c \notin B
      BY <1>14, <2>1, <2>3
    <3> QED BY <1>17, <3>1, <3>2
  <2> QED BY <1>1, <1>10, <1>18, <2>1, <2>3, <2>4, <2>5 DEF Holds
<1>19. CASE ~(word[b] - u >= 2)
  <2>1. word'[b] = word[b]
    <3>1. \A i, j \in Nat : i % 2 = 0 /\ j % 2 = 0 /\ j <= i /\ ~(i - j >= 2) => j = i
      OBVIOUS
    <3> QED BY <1>1, <1>5, <1>6, <1>10, <1>19, <3>1
  <2>2. Tiles(word', B)
    <3>1. \A c \in B : word'[c] = word[c]
      BY <1>11, <2>1
    <3> QED BY <1>2, <3>1, TilesKept
  <2>3. FreeSet(k - 1, g) \cup Heads(word', live') = B
    BY <1>3, <1>14, <1>16 DEF B
  <2>4. Owned(word', FreeSet(k - 1, g), live')
    BY <1>14, <1>17
  <2> QED BY <1>1, <1>10, <1>14, <1>19, <2>2, <2>3, <2>4 DEF Holds
<1> QED BY <1>18, <1>19

(* The whole heap is one free block. *)
LEMMA HeapStarts == HeapInit => HeapInv
<1> SUFFICES ASSUME HeapInit PROVE HeapInv
  OBVIOUS
<1>1. HeapSize \in Nat /\ HeapSize >= 2 /\ HeapSize % 2 = 0 /\ 0 \in Addr /\ 1 \in Addr
  BY HeapAssumption DEF Addr
<1>2. /\ word \in [Addr -> Int] /\ word[0] = HeapSize /\ word[1] = Null /\ head = 0 /\ live = {}
  BY <1>1 DEF HeapInit, Null
<1> DEFINE f == [i \in 0 .. 1 |-> IF i = 0 THEN 0 ELSE Null]
<1>3. f \in [0 .. 1 -> Addr \cup {Null}] /\ f[0] = 0 /\ f[1] = Null
  BY <1>1
<1>4. \A i \in 0 .. 1 - 1 : i = 0
  OBVIOUS
<1> HIDE DEF f
<1>5. Listed(word, head, 1, f)
  <2>1. \A i \in 0 .. 1 - 1 : f[i] \in Addr /\ f[i + 1] = word[f[i] + 1]
    BY <1>1, <1>2, <1>3, <1>4
  <2> QED BY <1>2, <1>3, <1>4, <2>1 DEF Listed
<1>6. FreeSet(1, f) \cup Heads(word, live) = {0}
  BY <1>2, <1>3, <1>4 DEF FreeSet, Heads
<1>7. Tiles(word, {0})
  <2>1. Block(word, 0)
    BY <1>1, <1>2 DEF Block
  <2>2. \A i \in Addr : Inside(word, 0, i)
    BY <1>1, <1>2 DEF Inside, Addr
  <2> QED BY <2>1, <2>2 DEF Tiles
<1>8. Owned(word, FreeSet(1, f), live)
  BY <1>2 DEF Owned
<1> QED BY <1>2, <1>5, <1>6, <1>7, <1>8 DEF HeapInv, Holds

(* Every step keeps the invariant. *)
LEMMA HeapStep == HeapInv /\ [HeapNext]_heapVars => HeapInv'
<1> SUFFICES ASSUME HeapInv, [HeapNext]_heapVars PROVE HeapInv'
  OBVIOUS
<1>1. PICK k, f : Holds(word, head, live, k, f)
  BY DEF HeapInv
<1>2. \E j, g : Holds(word', head', live', j, g)
  <2>1. ASSUME NEW size \in Sizes, NEW a \in Aligns, alloc(size, a)
        PROVE  \E j, g : Holds(word', head', live', j, g)
    BY <1>1, <2>1, AllocKeeps
  <2>2. ASSUME NEW l \in live, Fill(l) PROVE \E j, g : Holds(word', head', live', j, g)
    BY <1>1, <2>2, FillKeeps
  <2>3. ASSUME NEW l \in live, dealloc(l) PROVE \E j, g : Holds(word', head', live', j, g)
    BY <1>1, <2>3, DeallocKeeps
  <2>4. ASSUME UNCHANGED heapVars PROVE \E j, g : Holds(word', head', live', j, g)
    BY <1>1, <2>4 DEF heapVars
  <2> QED BY <2>1, <2>2, <2>3, <2>4 DEF HeapNext
<1> QED BY <1>2 DEF HeapInv

(* The invariant says what HeapSound does of the free list that alloc      *)
(* scans.                                                                  *)
LEMMA HeapIsSound == HeapInv => HeapSound
<1> SUFFICES ASSUME HeapInv PROVE HeapSound
  OBVIOUS
<1>1. PICK k, f : Holds(word, head, live, k, f)
  BY DEF HeapInv
<1> DEFINE B == FreeSet(k, f) \cup Heads(word, live)
<1>2. Tiles(word, B) /\ Listed(word, head, k, f) /\ Owned(word, FreeSet(k, f), live)
  BY <1>1 DEF Holds
<1>3. FreeBlocks = FreeSet(k, f)
  <2>1. /\ k \in Nat /\ HeapSize \in Nat /\ k <= HeapSize /\ f[k] = Null
        /\ \A i \in 0 .. k - 1 : f[i] # Null /\ i \in 0 .. HeapSize /\ i <= k
    <3>1. k <= HeapSize
      BY <1>2, ShortList
    <3>2. k \in Nat /\ HeapSize \in Nat /\ f[k] = Null /\ \A i \in 0 .. k - 1 : f[i] # Null
      BY <1>2, HeapAssumption DEF Listed, Addr, Null
    <3> QED BY <3>1, <3>2
  <2>2. \A n \in 0 .. HeapSize : Nth[n] = IF n <= k THEN f[n] ELSE Null
    BY <1>2, NthIs
  <2>3. ASSUME NEW y \in FreeBlocks PROVE y \in FreeSet(k, f)
    <3>1. PICK n \in 0 .. HeapSize : y = Nth[n] /\ y # Null
      BY DEF FreeBlocks
    <3>2. n \in 0 .. k - 1 /\ y = f[n]
      BY <2>1, <2>2, <3>1
    <3> QED BY <3>2 DEF FreeSet
  <2>4. ASSUME NEW y \in FreeSet(k, f) PROVE y \in FreeBlocks
    <3>1. PICK i \in 0 .. k - 1 : y = f[i]
      BY DEF FreeSet
    <3>2. i \in 0 .. HeapSize /\ Nth[i] = y /\ y # Null
      BY <2>1, <2>2, <3>1
    <3> QED BY <3>2 DEF FreeBlocks
  <2> QED BY <2>3, <2>4
<1>4. Blocks = B
  BY <1>3 DEF Blocks, HeaderOf, Heads
<1> HIDE DEF B
<1>5. ASSUME NEW b \in B
      PROVE  /\ b \in Addr /\ b \in Nat /\ word[b] \in Nat /\ word[b] >= Header /\ Extent(b) \subseteq Addr
             /\ \A i \in Int : i \in Extent(b) <=> Inside(word, b, i)
  <2>1. b \in Addr /\ b \in Nat /\ word[b] \in Nat /\ word[b] >= 2 /\ b + word[b] <= HeapSize /\ HeapSize \in Nat
    BY <1>2, HeapAssumption DEF Tiles, Block, Addr
  <2> QED BY <2>1 DEF Extent, Inside, Header, Addr
<1>6. Tiled
  <2>1. \A b \in B : b \in Addr /\ word[b] >= Header /\ Extent(b) \subseteq Addr
    BY <1>5
  <2>2. UNION {Extent(b) : b \in B} = Addr
    <3>1. ASSUME NEW i \in Addr PROVE \E b \in B : i \in Extent(b)
      <4>1. PICK b \in B : Inside(word, b, i)
        BY <1>2 DEF Tiles
      <4>2. i \in Int
        BY DEF Addr
      <4> QED BY <1>5, <4>1, <4>2
    <3> QED BY <2>1, <3>1
  <2>3. ASSUME NEW b \in B, NEW c \in B, b # c PROVE Extent(b) \cap Extent(c) = {}
    <3>1. ASSUME NEW i \in Extent(b), i \in Extent(c) PROVE FALSE
      <4>1. i \in Int
        BY <1>5 DEF Addr
      <4> QED BY <1>2, <1>5, <2>3, <3>1, <4>1, Unshared
    <3> QED BY <3>1
  <2> QED BY <1>4, <2>1, <2>2, <2>3 DEF Tiled
<1>7. PayloadApart
  <2>1. ASSUME NEW l \in live
        PROVE  /\ word[l.at - 1] \notin FreeBlocks /\ l.at >= word[l.at - 1] + Header + 1
               /\ l.at .. l.at + l.len - 1 \subseteq Extent(word[l.at - 1])
               /\ l.at % MaxAlign(l.align) = 0
    <3>1. PICK b : b = word[l.at - 1]
      OBVIOUS
    <3>2. b \in B /\ b \notin FreeSet(k, f) /\ Belongs(word, b, l)
      BY <1>1, <3>1, LiveInside DEF B
    <3>3. b \in Nat /\ word[b] \in Nat
      BY <1>5, <3>2
    <3>4. l.at >= b + Header + 1 /\ l.at .. l.at + l.len - 1 \subseteq Extent(b) /\ l.at % MaxAlign(l.align) = 0
      BY <3>2, <3>3 DEF Belongs, Extent, Header
    <3> QED BY <1>3, <3>1, <3>2, <3>4
  <2>2. \A l, m \in live : word[l.at - 1] = word[m.at - 1] => l = m
    BY <1>2 DEF Owned
  <2> QED BY <2>1, <2>2 DEF PayloadApart, HeaderOf
<1> QED BY <1>6, <1>7 DEF HeapSound

(* alloc, dealloc and the owners' writes, in any order and for every heap  *)
(* size, keep the blocks tiling the heap and every payload in a block of   *)
(* its own, clear of the words that the allocator reads (HeapSound).       *)
THEOREM HeapTheorem == HeapSpec => []HeapSound
<1>1. HeapInit => HeapInv
  BY HeapStarts
<1>2. HeapInv /\ [HeapNext]_heapVars => HeapInv'
  BY HeapStep
<1>3. HeapInv => HeapSound
  BY HeapIsSound
<1> QED BY <1>1, <1>2, <1>3, PTL DEF HeapSpec

-----------------------------------------------------------------------------
(* Frames.  The inductive invariant says what the scan knows: the frames   *)
(* right behind it form a run (Trail), they are free (TrailFree), and the  *)
(* part of memory it has passed holds no free run of the requested length  *)
(* (Covered), in the first lap from where it began, in the second lap from *)
(* frame 1, or everywhere.  All but Trail hold until a system call takes a *)
(* frame of that run.                                                      *)

(* No run of the requested length lies free between a and b. *)
NoRun(a, b) ==
  \A s \in Frame : a <= s /\ s + count <= b => \E f \in Run(s, count) : f \in bitmap

(* The last run frames are too few, and free. *)
Trail ==
  /\ run < count
  /\ run < frame
  /\ run > 0 => start = frame - run
TrailFree == \A f \in (frame - run) .. (frame - 1) : f \notin bitmap

(* They are all the free frames behind the scan, back to a. *)
Edge(a) == a <= frame - run /\ (frame - run = a \/ (frame - run) - 1 \in bitmap)

FirstLap == frame = from + scanned /\ NoRun(from, frame) /\ Edge(from)
SecondLap ==
  /\ scanned = (MaxFrames - from) + (frame - 1)
  /\ NoRun(from, MaxFrames) /\ NoRun(1, frame) /\ Edge(1)
Covered == FirstLap \/ SecondLap \/ NoRun(1, MaxFrames)

ScanInv == pc = "scan" => Trail /\ (~collided => TrailFree /\ Covered)
TakeInv ==
  pc = "take" => \A f \in Run(start, count) : f \in Frame /\ (~collided => f \notin bitmap)

FramesInv == FramesTypeOK /\ HandedOnce /\ FreeExact /\ ScanInv /\ TakeInv /\ NoneMeansFull

-----------------------------------------------------------------------------

(* A free frame that leaves the run too short adds no free run to the part *)
(* of memory behind the scan.                                              *)
LEMMA ExtendCovers ==
  ASSUME FramesTypeOK, Trail, NEW a \in Nat, Edge(a), NoRun(a, frame), run + 1 < count
  PROVE  NoRun(a, frame + 1)
<1>. SUFFICES ASSUME NEW s \in Frame, a <= s, s + count <= frame + 1
              PROVE  \E f \in Run(s, count) : f \in bitmap
  BY DEF NoRun
<1>t. /\ frame \in Nat /\ run \in Nat /\ count \in Nat /\ s \in Nat
  BY FramesAssumption DEF FramesTypeOK, Frame
<1>1. CASE s + count <= frame
  BY <1>1 DEF NoRun
<1>2. CASE s + count = frame + 1
  <2>1. s < frame - run
    BY <1>2, <1>t
  <2>2. (frame - run) - 1 \in bitmap
    BY <2>1, <1>t DEF Edge
  <2>3. (frame - run) - 1 \in Run(s, count)
    BY <2>1, <1>2, <1>t DEF Run
  <2>. QED BY <2>2, <2>3
<1>. QED BY <1>1, <1>2, <1>t

(* Neither does a frame in use. *)
LEMMA SkipCovers ==
  ASSUME FramesTypeOK, NEW a \in Nat, NoRun(a, frame), frame \in bitmap
  PROVE  NoRun(a, frame + 1)
<1>. SUFFICES ASSUME NEW s \in Frame, a <= s, s + count <= frame + 1
              PROVE  \E f \in Run(s, count) : f \in bitmap
  BY DEF NoRun
<1>t. /\ frame \in Nat /\ count \in Nat \ {0} /\ s \in Nat
  BY FramesAssumption DEF FramesTypeOK, Frame
<1>1. CASE s + count <= frame
  BY <1>1 DEF NoRun
<1>2. CASE s + count = frame + 1
  BY <1>2, <1>t DEF Run
<1>. QED BY <1>1, <1>2, <1>t

(* A scan that has used up its limit has passed every window. *)
LEMMA LimitCovers ==
  ASSUME FramesTypeOK, HandedOnce, ~collided, Covered, scanned >= ScanLimit,
         NEW s \in Frame, Run(s, count) \subseteq Frame
  PROVE  Run(s, count) \cap bitmap # {}
<1>t. /\ frame \in 1 .. MaxFrames /\ count \in Nat \ {0} /\ s \in Nat
      /\ from \in 1 .. MaxFrames /\ scanned \in Nat /\ MaxFrames \in Nat
  BY FramesAssumption DEF FramesTypeOK, Frame
<1>e. s + count <= MaxFrames
  <2>1. s + count - 1 \in Run(s, count)
    BY <1>t DEF Run
  <2>. QED BY <2>1, <1>t DEF Frame
<1>0. CASE s = 0
  <2>1. 0 \in bitmap
    BY <1>0, FramesAssumption DEF HandedOnce, FramesTypeOK
  <2>2. 0 \in Run(s, count)
    BY <1>0, <1>t DEF Run
  <2>. QED BY <2>1, <2>2
<1>1. CASE s >= 1 /\ NoRun(1, MaxFrames)
  BY <1>1, <1>e, <1>t DEF NoRun
<1>2. CASE FirstLap
  BY <1>2, <1>t DEF FirstLap, ScanLimit
<1>3. CASE s >= 1 /\ SecondLap
  <2>1. frame >= from + count + 1
    BY <1>3, <1>t DEF SecondLap, ScanLimit
  <2>2. CASE s >= from
    <3>1. NoRun(from, MaxFrames)
      BY <1>3 DEF SecondLap
    <3>. QED BY <3>1, <2>2, <1>e, <1>t DEF NoRun
  <2>3. CASE s < from
    <3>1. NoRun(1, frame)
      BY <1>3 DEF SecondLap
    <3>2. s + count <= frame
      BY <2>1, <2>3, <1>t
    <3>. QED BY <3>1, <3>2, <1>3, <1>t DEF NoRun
  <2>. QED BY <2>2, <2>3, <1>t
<1>. QED BY <1>0, <1>1, <1>2, <1>3, <1>t DEF Covered

-----------------------------------------------------------------------------

(* A run within memory is finite and has the length asked for. *)
LEMMA RunCardinality ==
  ASSUME NEW s \in Nat, NEW n \in Nat
  PROVE  IsFiniteSet(Run(s, n)) /\ Cardinality(Run(s, n)) = n
<1>1. s + n - 1 \in Int /\ s \in Int
  OBVIOUS
<1>2. /\ IsFiniteSet(s .. s + n - 1)
      /\ Cardinality(s .. s + n - 1) = IF s > s + n - 1 THEN 0 ELSE (s + n - 1) - s + 1
  BY <1>1, FS_Interval
<1>. QED BY <1>2 DEF Run

(* The cardinalities of disjoint finite sets add up. *)
LEMMA UnionDisjoint ==
  ASSUME NEW S, IsFiniteSet(S), NEW T, IsFiniteSet(T), S \cap T = {}
  PROVE  Cardinality(S \cup T) = Cardinality(S) + Cardinality(T)
<1>1. Cardinality(S \cup T) = Cardinality(S) + Cardinality(T) - Cardinality({})
  BY FS_Union
<1>2. Cardinality({}) = 0 /\ Cardinality(S) \in Nat /\ Cardinality(T) \in Nat
  BY FS_EmptySet, FS_CardinalityType
<1>. QED BY <1>1, <1>2

(* Any set of frames is finite. *)
LEMMA FramesFinite ==
  ASSUME NEW S, S \subseteq Frame
  PROVE  IsFiniteSet(S) /\ Cardinality(S) \in Nat
<1>1. IsFiniteSet(Frame)
  BY FS_Interval, FramesAssumption DEF Frame
<1>2. IsFiniteSet(S)
  BY <1>1, FS_Subset
<1>. QED BY <1>2, FS_CardinalityType

(* Taking a run of clear bits lowers the number of clear bits by its       *)
(* length, and clearing a run of set bits raises it by as much.            *)
LEMMA ClearBits ==
  ASSUME NEW U, U \subseteq Frame, NEW s \in Nat, NEW n \in Nat, Run(s, n) \subseteq Frame
  PROVE  /\ Run(s, n) \cap U = {} =>
              /\ Cardinality(Frame \ (U \cup Run(s, n))) = Cardinality(Frame \ U) - n
              /\ Cardinality(Frame \ U) >= n
         /\ Run(s, n) \subseteq U =>
              Cardinality(Frame \ (U \ Run(s, n))) = Cardinality(Frame \ U) + n
<1>r. IsFiniteSet(Run(s, n)) /\ Cardinality(Run(s, n)) = n
  BY RunCardinality
<1>1. ASSUME Run(s, n) \cap U = {}
      PROVE  /\ Cardinality(Frame \ (U \cup Run(s, n))) = Cardinality(Frame \ U) - n
             /\ Cardinality(Frame \ U) >= n
  <2>. DEFINE A == Frame \ (U \cup Run(s, n))
  <2>1. IsFiniteSet(A) /\ Cardinality(A) \in Nat
    BY FramesFinite
  <2>2. A \cap Run(s, n) = {}
    OBVIOUS
  <2>3. A \cup Run(s, n) = Frame \ U
    BY <1>1
  <2>4. Cardinality(A \cup Run(s, n)) = Cardinality(A) + n
    BY <2>1, <2>2, <1>r, UnionDisjoint
  <2>. HIDE DEF A
  <2>5. Cardinality(Frame \ U) = Cardinality(A) + n
    BY <2>3, <2>4
  <2>6. Cardinality(A) = Cardinality(Frame \ U) - n /\ Cardinality(Frame \ U) >= n
    BY <2>5, <2>1
  <2>. QED BY <2>6 DEF A
<1>2. ASSUME Run(s, n) \subseteq U
      PROVE  Cardinality(Frame \ (U \ Run(s, n))) = Cardinality(Frame \ U) + n
  <2>1. IsFiniteSet(Frame \ U)
    BY FramesFinite
  <2>2. (Frame \ U) \cap Run(s, n) = {}
    BY <1>2
  <2>3. (Frame \ U) \cup Run(s, n) = Frame \ (U \ Run(s, n))
    OBVIOUS
  <2>. QED BY <2>1, <2>2, <2>3, <1>r, UnionDisjoint
<1>. QED BY <1>1, <1>2

-----------------------------------------------------------------------------

(* What rounding an address down to its frame means. *)
LEMMA DivMeaning ==
  ASSUME NEW a \in Nat, NEW f \in Nat
  PROVE  f < a \div FrameSize <=> f * FrameSize + FrameSize <= a
<1>. USE FramesAssumption
<1>. DEFINE q == a \div FrameSize
<1>1. q \in Nat /\ q * FrameSize <= a /\ a < q * FrameSize + FrameSize
  OBVIOUS
<1>. HIDE DEF q
<1>2. ASSUME f + 1 <= q PROVE (f + 1) * FrameSize <= q * FrameSize
  BY <1>2, <1>1
<1>3. ASSUME q <= f PROVE q * FrameSize <= f * FrameSize
  BY <1>3, <1>1
<1>4. (f + 1) * FrameSize = f * FrameSize + FrameSize
  OBVIOUS
<1>5. f * FrameSize \in Nat /\ q * FrameSize \in Nat
  BY <1>1
<1>. QED BY <1>1, <1>2, <1>3, <1>4, <1>5 DEF q

(* And rounding it up. *)
LEMMA DivCeilMeaning ==
  ASSUME NEW a \in Nat, NEW f \in Nat
  PROVE  DivCeil(a) <= f <=> a <= f * FrameSize
<1>. USE FramesAssumption
<1>. DEFINE b == a + FrameSize - 1
<1>1. b \in Nat /\ f * FrameSize \in Nat /\ b \div FrameSize \in Nat
  OBVIOUS
<1>2. f < b \div FrameSize <=> f * FrameSize + FrameSize <= b
  BY <1>1, DivMeaning
<1>. QED BY <1>1, <1>2 DEF DivCeil

(* The fields of ranges and of map entries are addresses and lengths. *)
LEMMA RangeFields ==
  ASSUME NEW r, r \in AddressRange \/ r \in Entry
  PROVE  r.base \in Nat /\ r.len \in Nat
<1>1. CASE r \in AddressRange
  BY <1>1 DEF AddressRange
<1>2. CASE r \in Entry
  BY <1>2 DEF Entry
<1>. QED BY <1>1, <1>2

(* The bytes of a frame lie in a range, or out of it. *)
LEMMA BytesMeaning ==
  ASSUME NEW f \in Nat, NEW r, r.base \in Nat, r.len \in Nat
  PROVE  /\ (\A a \in Bytes(f) : InRange(a, r)) <=>
              r.base <= f * FrameSize /\ f * FrameSize + FrameSize <= r.base + r.len
         /\ r.len > 0 =>
              ((\A a \in Bytes(f) : ~InRange(a, r)) <=>
                 r.base + r.len <= f * FrameSize \/ f * FrameSize + FrameSize <= r.base)
<1>. USE FramesAssumption
<1>. DEFINE b == f * FrameSize
<1>1. b \in Nat
  OBVIOUS
<1>2. Bytes(f) = b .. b + FrameSize - 1
  BY DEF Bytes
<1>. HIDE DEF b
<1>3. b \in Bytes(f) /\ b + FrameSize - 1 \in Bytes(f)
  BY <1>1, <1>2
<1>4. (\A a \in Bytes(f) : InRange(a, r)) <=>
        r.base <= b /\ b + FrameSize <= r.base + r.len
  BY <1>1, <1>2, <1>3 DEF InRange
<1>5. ASSUME r.len > 0, \A a \in Bytes(f) : ~InRange(a, r)
      PROVE  r.base + r.len <= b \/ b + FrameSize <= r.base
  <2>1. CASE r.base \in Bytes(f)
    BY <2>1, <1>5, <1>1, <1>2 DEF InRange
  <2>2. CASE r.base < b
    BY <2>2, <1>5, <1>1, <1>2, <1>3 DEF InRange
  <2>. QED BY <2>1, <2>2, <1>1, <1>2
<1>6. ASSUME r.base + r.len <= b \/ b + FrameSize <= r.base
      PROVE  \A a \in Bytes(f) : ~InRange(a, r)
  BY <1>6, <1>1, <1>2 DEF InRange
<1>. QED BY <1>4, <1>5, <1>6 DEF b

(* The end of a range, saturated or not, is beyond a frame of memory just  *)
(* when the true end is.                                                   *)
LEMMA EndMeaning ==
  ASSUME NEW f \in Frame, NEW r, r.base \in Nat, r.len \in Nat
  PROVE  /\ End(r) \in Nat
         /\ f * FrameSize + FrameSize <= End(r) <=> f * FrameSize + FrameSize <= r.base + r.len
         /\ End(r) <= f * FrameSize <=> r.base + r.len <= f * FrameSize
<1>. USE FramesAssumption
<1>1. f \in Nat /\ f + 1 <= MaxFrames
  BY DEF Frame
<1>2. (f + 1) * FrameSize <= MaxFrames * FrameSize
  BY <1>1
<1>3. (f + 1) * FrameSize = f * FrameSize + FrameSize /\ f * FrameSize \in Nat
  BY <1>1
<1>4. f * FrameSize + FrameSize <= TopAddress
  BY <1>2, <1>3, <1>1
<1>. QED BY <1>1, <1>3, <1>4 DEF End

(* What is painted is what the memory map leaves, byte by byte. *)
LEMMA PaintedIsClear ==
  ASSUME NEW map \in BootMaps
  PROVE  Painted(map) = Clear(map)
<1>. USE FramesAssumption
<1>m. map.limine \in BOOLEAN /\ map.entries \in Seq(Entry)
  OBVIOUS
<1>r. Regions(map) \subseteq Entry
  BY <1>m DEF Regions
<1>1. ASSUME NEW r, r.base \in Nat, r.len \in Nat, NEW f \in Frame, f >= 1
      PROVE  /\ f \in Freed(r) <=> \A a \in Bytes(f) : InRange(a, r)
             /\ r.len > 0 => (f \in Taken(r) <=> ~ \A a \in Bytes(f) : ~InRange(a, r))
  <2>1. f \in Nat /\ r.base \in Nat /\ r.len \in Nat /\ End(r) \in Nat
    BY <1>1, EndMeaning DEF Frame
  <2>2. f \in Freed(r) <=> DivCeil(r.base) <= f /\ f < End(r) \div FrameSize
    BY <1>1 DEF Freed
  <2>3. f \in Taken(r) <=> r.base \div FrameSize <= f /\ f < DivCeil(End(r))
    BY <1>1 DEF Taken
  <2>4. r.base \div FrameSize \in Int /\ DivCeil(End(r)) \in Int
    BY <2>1 DEF DivCeil
  <2>5. f * FrameSize \in Nat
    BY <2>1
  <2>6. DivCeil(r.base) <= f <=> r.base <= f * FrameSize
    BY <2>1, DivCeilMeaning
  <2>7. f < End(r) \div FrameSize <=> f * FrameSize + FrameSize <= r.base + r.len
    BY <1>1, <2>1, DivMeaning, EndMeaning
  <2>8. r.base \div FrameSize <= f <=> ~(f * FrameSize + FrameSize <= r.base)
    BY <2>1, <2>4, DivMeaning
  <2>9. f < DivCeil(End(r)) <=> ~(r.base + r.len <= f * FrameSize)
    BY <1>1, <2>1, <2>4, DivCeilMeaning, EndMeaning
  <2>. QED BY <1>1, <2>1, <2>2, <2>3, <2>6, <2>7, <2>8, <2>9, BytesMeaning
<1>2. ASSUME NEW f \in Frame
      PROVE  f \in Painted(map) <=> f \in Clear(map)
  <2>0. f \in Nat
    BY DEF Frame
  <2>1. CASE f = 0
    BY <2>1 DEF Painted, Clear, Freed
  <2>2. CASE f >= 1
    <3>1. \A r \in Regions(map) : f \in Freed(r) <=> \A a \in Bytes(f) : InRange(a, r)
      BY <2>2, <1>1, <1>r, RangeFields
    <3>2. \A r \in Reserved : f \in Taken(r) <=> ~ \A a \in Bytes(f) : ~InRange(a, r)
      <4>1. \A r \in Reserved : r.base \in Nat /\ r.len \in Nat /\ r.len > 0
        BY RangeFields
      <4>. QED BY <4>1, <2>2, <1>1
    <3>3. f \in Painted(map) <=>
            /\ \E r \in Regions(map) : f \in Freed(r)
            /\ map.limine \/ \A r \in Reserved : f \notin Taken(r)
      <4>1. CASE map.limine
        BY <4>1 DEF Painted
      <4>2. CASE ~map.limine
        BY <4>2 DEF Painted
      <4>. QED BY <4>1, <4>2
    <3>4. f \in Clear(map) <=>
            /\ \E r \in Regions(map) : \A a \in Bytes(f) : InRange(a, r)
            /\ map.limine \/ \A r \in Reserved : \A a \in Bytes(f) : ~InRange(a, r)
      BY <2>0, <2>2 DEF Clear
    <3>. QED BY <3>1, <3>2, <3>3, <3>4
  <2>. QED BY <2>0, <2>1, <2>2
<1>3. Painted(map) \subseteq Frame /\ Clear(map) \subseteq Frame
  BY DEF Painted, Clear, Freed
<1>. QED BY <1>2, <1>3

(* The memory map leaves an allocator in which nothing is handed out. *)
LEMMA FramesStart == FramesInit => FramesInv
<1>. SUFFICES ASSUME FramesInit PROVE FramesInv
  OBVIOUS
<1>. USE FramesAssumption
<1>1. PICK map \in BootMaps : /\ bitmap = Frame \ Painted(map)
                              /\ free = Cardinality(Painted(map))
                              /\ usable = Clear(map)
  BY DEF FramesInit
<1>2. Painted(map) = usable
  BY <1>1, PaintedIsClear
<1>3. usable \subseteq Frame \ {0}
  BY <1>1 DEF Clear
<1>4. Cardinality(usable) \in Nat
  BY <1>3, FramesFinite
<1>5. FramesTypeOK
  <2>1. bitmap \subseteq Frame /\ free \in Int
    BY <1>1, <1>2, <1>4
  <2>2. 1 \in Frame /\ 1 \in 1 .. MaxFrames
    BY DEF Frame
  <2>3. handed \in [Frame -> Nat] /\ collided \in BOOLEAN
    BY DEF FramesInit
  <2>. QED BY <2>1, <2>2, <2>3, <1>3 DEF FramesInit, FramesTypeOK
<1>6. HandedOnce
  BY <1>1, <1>2 DEF FramesInit, HandedOnce
<1>7. Frame \ bitmap = usable
  BY <1>1, <1>2, <1>3
<1>. QED BY <1>1, <1>2, <1>5, <1>6, <1>7
         DEF FramesInit, FramesInv, FreeExact, ScanInv, TakeInv, NoneMeansFull

(* Starting a scan: it has passed nothing yet. *)
LEMMA FramesAlloc ==
  ASSUME FramesInv, NEW n \in Requests, AllocFrames(n)
  PROVE  FramesInv'
<1>. USE FramesAssumption
<1>t. FramesTypeOK /\ HandedOnce /\ FreeExact /\ hint \in 1 .. MaxFrames
  BY DEF FramesInv, FramesTypeOK
<1>s. /\ pc' = "scan" /\ count' = n /\ run' = 0 /\ scanned' = 0 /\ frame' = hint
      /\ from' = hint /\ bitmap' = bitmap /\ hint' = hint /\ start' = 1
      /\ usable' = usable /\ collided' = collided
  BY <1>t DEF AllocFrames, ghosts
<1>1. FramesTypeOK'
  BY <1>s DEF FramesInv, AllocFrames, FramesTypeOK, Frame
<1>2. HandedOnce' /\ FreeExact'
  BY <1>s DEF FramesInv, AllocFrames, HandedOnce, FreeExact
<1>3. Trail' /\ TrailFree'
  BY <1>s, <1>t DEF Trail, TrailFree
<1>4. FirstLap'
  BY <1>s, <1>t DEF FirstLap, NoRun, Edge, Frame
<1>. QED BY <1>s, <1>1, <1>2, <1>3, <1>4 DEF FramesInv, ScanInv, TakeInv, NoneMeansFull, Covered

(* A frame in use: the part of memory passed grows by it. *)
LEMMA SkipPreserves ==
  ASSUME FramesInv, SkipUsed
  PROVE  FramesInv'
<1>. USE FramesAssumption
<1>t. /\ FramesTypeOK /\ from \in 1 .. MaxFrames /\ frame \in 1 .. MaxFrames /\ scanned \in Nat
      /\ count \in Nat \ {0} /\ MaxFrames \in Nat /\ Trail /\ (~collided => Covered)
  BY DEF FramesInv, FramesTypeOK, SkipUsed, ScanInv
<1>s. /\ run' = 0 /\ frame' = At + 1 /\ scanned' = scanned + 1 /\ pc = "scan" /\ pc' = "scan"
      /\ bitmap' = bitmap /\ hint' = hint /\ count' = count /\ start' = start /\ At \in bitmap
      /\ from' = from /\ usable' = usable /\ collided' = collided
  BY DEF SkipUsed, Step, ghosts
<1>a. At \in 1 .. MaxFrames - 1
  BY <1>t DEF At
<1>1. FramesTypeOK'
  BY <1>s, <1>t, <1>a DEF FramesTypeOK, SkipUsed
<1>2. HandedOnce' /\ FreeExact'
  BY <1>s DEF FramesInv, SkipUsed, HandedOnce, FreeExact
<1>3. Trail' /\ TrailFree'
  BY <1>s, <1>t, <1>a DEF Trail, TrailFree
<1>4. ASSUME ~collided PROVE Covered'
  <2>1. CASE frame < MaxFrames
    <3>1. At = frame
      BY <2>1, <1>t DEF At
    <3>2. ASSUME NEW a \in Nat, NoRun(a, frame)
          PROVE  NoRun(a, frame + 1)
      BY <3>1, <3>2, <1>s, <1>t, SkipCovers
    <3>3. CASE FirstLap
      <4>1. NoRun(from, frame + 1)
        BY <3>2, <3>3, <1>t DEF FirstLap
      <4>2. frame' = from' + scanned' /\ Edge(from)'
        BY <3>1, <3>3, <1>s, <1>t DEF FirstLap, Edge, Trail
      <4>. QED BY <4>1, <4>2, <3>1, <1>s DEF FirstLap, NoRun, Covered
    <3>4. CASE SecondLap
      <4>1. NoRun(1, frame + 1)
        BY <3>2, <3>4 DEF SecondLap
      <4>2. scanned' = (MaxFrames - from') + (frame' - 1) /\ Edge(1)'
        BY <3>1, <3>4, <1>s, <1>t DEF SecondLap, Edge, Trail
      <4>3. NoRun(from, MaxFrames)
        BY <3>4 DEF SecondLap
      <4>. QED BY <4>1, <4>2, <4>3, <3>1, <1>s DEF SecondLap, NoRun, Covered
    <3>5. CASE NoRun(1, MaxFrames)
      BY <3>5, <1>s DEF NoRun, Covered
    <3>. QED BY <3>3, <3>4, <3>5, <1>4, <1>t DEF Covered
  <2>2. CASE frame = MaxFrames
    <3>1. At = 1
      BY <2>2, <1>t DEF At
    <3>3. CASE FirstLap
      <4>1. NoRun(1, 2)'
        BY <3>1, <1>s, <1>t DEF NoRun, Run, Frame
      <4>2. scanned' = (MaxFrames - from') + (frame' - 1) /\ Edge(1)'
        BY <3>1, <3>3, <2>2, <1>s, <1>t DEF FirstLap, Edge
      <4>3. NoRun(from, MaxFrames)
        BY <3>3, <2>2 DEF FirstLap
      <4>. QED BY <4>1, <4>2, <4>3, <3>1, <1>s DEF SecondLap, NoRun, Covered
    <3>4. CASE SecondLap
      BY <3>4, <2>2, <1>s DEF SecondLap, NoRun, Covered
    <3>5. CASE NoRun(1, MaxFrames)
      BY <3>5, <1>s DEF NoRun, Covered
    <3>. QED BY <3>3, <3>4, <3>5, <1>4, <1>t DEF Covered
  <2>. QED BY <2>1, <2>2, <1>t
<1>. QED BY <1>s, <1>1, <1>2, <1>3, <1>4 DEF FramesInv, ScanInv, TakeInv, NoneMeansFull

(* A free frame: either it completes the run, or the part of memory passed *)
(* grows by it and the run is still too short.                             *)
LEMMA ExtendPreserves ==
  ASSUME FramesInv, Extend
  PROVE  FramesInv'
<1>. USE FramesAssumption
<1>t. /\ FramesTypeOK /\ from \in 1 .. MaxFrames /\ frame \in 1 .. MaxFrames /\ scanned \in Nat
      /\ count \in Nat \ {0} /\ run \in Nat /\ MaxFrames \in Nat
      /\ Trail /\ (~collided => TrailFree /\ Covered)
  BY DEF FramesInv, FramesTypeOK, Extend, ScanInv
<1>s. /\ run' = RunSoFar + 1 /\ pc = "scan" /\ At \notin bitmap
      /\ start' = (IF RunSoFar = 0 THEN At ELSE start)
      /\ bitmap' = bitmap /\ hint' = hint /\ count' = count
      /\ free' = free /\ handed' = handed
      /\ from' = from /\ usable' = usable /\ collided' = collided
  BY DEF Extend, ghosts
<1>a. At \in 1 .. MaxFrames - 1
  BY <1>t DEF At
<1>r. /\ RunSoFar \in Nat /\ RunSoFar < count /\ RunSoFar < At
      /\ RunSoFar > 0 => start = At - RunSoFar
      /\ ~collided => \A f \in (At - RunSoFar) .. At : f \notin bitmap
  BY <1>t, <1>s DEF RunSoFar, At, Trail, TrailFree
<1>b. start' = At - RunSoFar
  <2>1. At \in Int /\ RunSoFar \in Nat
    BY <1>a, <1>r, <1>t
  <2>2. CASE RunSoFar = 0
    BY <2>1, <2>2, <1>s
  <2>3. CASE RunSoFar > 0
    BY <2>1, <2>3, <1>s, <1>r
  <2>. QED BY <2>1, <2>2, <2>3
<1>2. HandedOnce' /\ FreeExact'
  BY <1>s DEF FramesInv, HandedOnce, FreeExact
<1>3. CASE RunSoFar + 1 = count
  <2>1. pc' = "take" /\ frame' = frame /\ scanned' = scanned
    BY <1>3, <1>s DEF Extend
  <2>2. FramesTypeOK'
    BY <2>1, <1>s, <1>b, <1>r, <1>a, <1>t DEF FramesTypeOK, Frame
  <2>i. At \in Int /\ RunSoFar \in Int /\ start' + count' - 1 = At
    <3>1. At \in Int /\ RunSoFar \in Int
      BY <1>r, <1>a, <1>t
    <3>2. start' = At - RunSoFar /\ count' = RunSoFar + 1
      BY <1>3, <1>s, <1>b
    <3>3. (At - RunSoFar) + (RunSoFar + 1) - 1 = At
      BY <3>1
    <3>. QED BY <3>1, <3>2, <3>3
  <2>3. \A f \in start' .. start' + count' - 1 : f \in Frame /\ (~collided' => f \notin bitmap')
    <3>1. SUFFICES ASSUME NEW f \in (At - RunSoFar) .. At
                   PROVE  f \in Frame /\ (~collided' => f \notin bitmap')
      BY <2>i, <1>b
    <3>2. f \in Int /\ f >= 0 /\ f <= MaxFrames - 1
      BY <2>i, <1>r, <1>a, <1>t
    <3>. QED BY <3>2, <1>r, <1>s DEF Frame
  <2>4. TakeInv'
    BY <2>3 DEF TakeInv, Run
  <2>. QED BY <2>1, <2>2, <2>4, <1>2 DEF FramesInv, ScanInv, NoneMeansFull
<1>4. CASE RunSoFar + 1 # count
  <2>1. pc' = "scan" /\ frame' = At + 1 /\ scanned' = scanned + 1
    BY <1>4, <1>s DEF Extend, Step
  <2>2. FramesTypeOK'
    BY <2>1, <1>s, <1>b, <1>r, <1>a, <1>t DEF FramesTypeOK, Frame
  <2>i. At \in Int /\ RunSoFar \in Int /\ frame' - run' = At - RunSoFar /\ frame' - 1 = At
    BY <2>1, <1>s, <1>r, <1>a, <1>t
  <2>3. Trail'
    <3>1. run' < count' /\ run' < frame' /\ start' = frame' - run'
      <4>1. RunSoFar + 1 < count /\ RunSoFar + 1 < At + 1
        BY <2>i, <1>4, <1>r, <1>t
      <4>. QED BY <4>1, <2>1, <2>i, <1>s, <1>b
    <3>. QED BY <3>1 DEF Trail
  <2>5. ASSUME ~collided PROVE TrailFree'
    BY <2>5, <2>i, <1>r, <1>s DEF TrailFree
  <2>4. ASSUME ~collided PROVE Covered'
    <3>1. CASE frame < MaxFrames
      <4>1. At = frame /\ RunSoFar = run
        BY <3>1, <1>t DEF At, RunSoFar
      <4>2. ASSUME NEW a \in Nat, NoRun(a, frame), Edge(a)
            PROVE  NoRun(a, frame + 1)
        <5>1. run + 1 < count
          BY <4>1, <1>4, <1>r, <1>t
        <5>. QED BY <4>2, <5>1, <1>t, ExtendCovers
      <4>3. CASE FirstLap
        <5>1. NoRun(from, frame + 1)
          BY <4>2, <4>3, <1>t DEF FirstLap
        <5>2. frame' = from' + scanned' /\ Edge(from)'
          BY <4>1, <4>3, <2>1, <1>s, <1>t DEF FirstLap, Edge, Trail
        <5>. QED BY <5>1, <5>2, <4>1, <2>1, <1>s DEF FirstLap, NoRun, Covered
      <4>4. CASE SecondLap
        <5>1. NoRun(1, frame + 1)
          BY <4>2, <4>4 DEF SecondLap
        <5>2. scanned' = (MaxFrames - from') + (frame' - 1) /\ Edge(1)'
          BY <4>1, <4>4, <2>1, <1>s, <1>t DEF SecondLap, Edge, Trail
        <5>3. NoRun(from, MaxFrames)
          BY <4>4 DEF SecondLap
        <5>. QED BY <5>1, <5>2, <5>3, <4>1, <2>1, <1>s DEF SecondLap, NoRun, Covered
      <4>5. CASE NoRun(1, MaxFrames)
        BY <4>5, <1>s DEF NoRun, Covered
      <4>. QED BY <4>3, <4>4, <4>5, <2>4, <1>t DEF Covered
    <3>2. CASE frame = MaxFrames
      <4>1. At = 1 /\ RunSoFar = 0
        BY <3>2, <1>t DEF At, RunSoFar
      <4>3. CASE FirstLap
        <5>1. NoRun(1, 2)'
          BY <4>1, <1>4, <1>s, <1>t DEF NoRun, Frame
        <5>2. scanned' = (MaxFrames - from') + (frame' - 1) /\ Edge(1)'
          BY <4>1, <4>3, <3>2, <2>1, <1>s, <1>t DEF FirstLap, Edge
        <5>3. NoRun(from, MaxFrames)
          BY <4>3, <3>2 DEF FirstLap
        <5>. QED BY <5>1, <5>2, <5>3, <4>1, <2>1, <1>s DEF SecondLap, NoRun, Covered
      <4>4. CASE SecondLap
        BY <4>4, <3>2, <1>s DEF SecondLap, NoRun, Covered
      <4>5. CASE NoRun(1, MaxFrames)
        BY <4>5, <1>s DEF NoRun, Covered
      <4>. QED BY <4>3, <4>4, <4>5, <2>4, <1>t DEF Covered
    <3>. QED BY <3>1, <3>2, <1>t
  <2>. QED BY <2>1, <2>2, <2>3, <2>4, <2>5, <1>2, <1>s
           DEF FramesInv, ScanInv, TakeInv, NoneMeansFull
<1>. QED BY <1>3, <1>4

(* The run found is still clear when it is taken. *)
LEMMA ReturnPreserves ==
  ASSUME FramesInv, Return
  PROVE  FramesInv'
<1>. USE FramesAssumption
<1>t. /\ FramesTypeOK /\ HandedOnce /\ FreeExact /\ start \in Nat /\ count \in Nat \ {0}
      /\ bitmap \subseteq Frame /\ handed \in [Frame -> Nat] /\ free \in Int /\ MaxFrames \in Nat
  BY DEF FramesInv, FramesTypeOK, Frame
<1>r. Run(start, count) \subseteq Frame /\ (~collided => Run(start, count) \cap bitmap = {})
  BY DEF FramesInv, TakeInv, Return
<1>s. /\ bitmap' = bitmap \cup Run(start, count) /\ free' = free - count /\ hint' = start + count
      /\ pc' = "idle" /\ UNCHANGED <<locals, usable, collided>>
      /\ handed' = [f \in Frame |-> IF f \in Run(start, count) THEN handed[f] + 1 ELSE handed[f]]
  BY DEF Return, Take, ghosts
<1>1. FreeExact'
  <2>. SUFFICES ASSUME ~collided PROVE free' = Cardinality(Frame \ bitmap')
    BY <1>s DEF FreeExact
  <2>1. /\ Cardinality(Frame \ (bitmap \cup Run(start, count))) = Cardinality(Frame \ bitmap) - count
        /\ Cardinality(Frame \ bitmap) >= count
    BY <1>t, <1>r, ClearBits
  <2>2. free = Cardinality(Frame \ bitmap)
    BY <1>t DEF FreeExact
  <2>. QED BY <2>1, <2>2, <1>s, <1>t DEF FreeExact
<1>2. start + count <= MaxFrames
  <2>1. start + count - 1 \in Run(start, count)
    BY <1>t DEF Run
  <2>. QED BY <2>1, <1>r, <1>t DEF Frame
<1>3. FramesTypeOK'
  <2>1. handed' \in [Frame -> Nat]
    BY <1>s, <1>t
  <2>2. hint' \in 1 .. MaxFrames
    BY <1>2, <1>s, <1>t
  <2>3. bitmap' \subseteq Frame /\ free' \in Int
    BY <1>r, <1>s, <1>t
  <2>. QED BY <2>1, <2>2, <2>3, <1>s, <1>t DEF FramesTypeOK, locals
<1>4. HandedOnce'
  <2>. SUFFICES ASSUME ~collided, NEW f \in Frame
                PROVE  /\ handed'[f] <= 1
                       /\ handed'[f] = 1 => f \in usable
                       /\ f \in bitmap' <=> (f \notin usable \/ handed'[f] = 1)
    BY <1>s DEF HandedOnce
  <2>1. /\ handed[f] \in Nat /\ handed[f] <= 1 /\ (handed[f] = 1 => f \in usable)
        /\ f \in bitmap <=> (f \notin usable \/ handed[f] = 1)
    BY <1>t DEF HandedOnce
  <2>. QED BY <2>1, <1>r, <1>s
<1>. QED BY <1>1, <1>3, <1>4, <1>s DEF FramesInv, ScanInv, TakeInv, NoneMeansFull

(* Returning None: the scan has passed every window. *)
LEMMA NonePreserves ==
  ASSUME FramesInv, ReturnNone
  PROVE  FramesInv'
<1>1. FramesTypeOK /\ HandedOnce /\ (~collided => Covered) /\ scanned >= ScanLimit
  BY DEF FramesInv, ReturnNone, ScanInv
<1>2. ~collided => \A s \in Frame : Run(s, count) \subseteq Frame => Run(s, count) \cap bitmap # {}
  BY <1>1, LimitCovers
<1>s. pc' = "none" /\ UNCHANGED <<bitmap, free, hint, locals, handed, usable, collided>>
  BY DEF ReturnNone, ghosts
<1>3. NoneMeansFull'
  BY <1>2, <1>s DEF NoneMeansFull, locals
<1>4. FramesTypeOK' /\ HandedOnce' /\ FreeExact'
  BY <1>s DEF FramesInv, FramesTypeOK, HandedOnce, FreeExact, locals
<1>. QED BY <1>3, <1>4, <1>s DEF FramesInv, ScanInv, TakeInv

(* Freeing a run its callers hold. *)
LEMMA FramesFree ==
  ASSUME FramesInv, NEW s \in Frame, NEW n \in Requests, FreeFrames(s, n)
  PROVE  FramesInv'
<1>. USE FramesAssumption
<1>t. /\ FramesTypeOK /\ HandedOnce /\ FreeExact /\ s \in Nat /\ n \in Nat \ {0} /\ ~collided
      /\ bitmap \subseteq Frame /\ handed \in [Frame -> Nat] /\ free \in Int
  BY DEF FramesInv, FramesTypeOK, Frame, FreeFrames, MayCall
<1>r. /\ Run(s, n) \subseteq Frame
      /\ \A f \in Run(s, n) : handed[f] = 1 /\ f \in bitmap
  <2>1. \A f \in Run(s, n) : f \in Frame /\ handed[f] > 0
    BY DEF FreeFrames
  <2>2. \A f \in Frame : handed[f] \in Nat /\ handed[f] <= 1 /\ (handed[f] = 1 => f \in bitmap)
    BY <1>t DEF HandedOnce
  <2>. QED BY <2>1, <2>2
<1>s. /\ bitmap' = bitmap \ Run(s, n) /\ free' = free + n /\ hint' = hint
      /\ pc' = "idle" /\ UNCHANGED <<locals, usable, collided>>
      /\ handed' = [f \in Frame |-> IF f \in Run(s, n) THEN handed[f] - 1 ELSE handed[f]]
  BY DEF FreeFrames, ghosts
<1>1. FreeExact'
  <2>1. Run(s, n) \subseteq bitmap
    BY <1>r
  <2>2. Cardinality(Frame \ (bitmap \ Run(s, n))) = Cardinality(Frame \ bitmap) + n
    BY <2>1, <1>t, <1>r, ClearBits
  <2>3. free = Cardinality(Frame \ bitmap)
    BY <1>t DEF FreeExact
  <2>. QED BY <2>2, <2>3, <1>s, <1>t DEF FreeExact
<1>2. FramesTypeOK'
  <2>1. handed' \in [Frame -> Nat]
    BY <1>r, <1>s, <1>t
  <2>2. bitmap' \subseteq Frame /\ free' \in Int
    <3>1. bitmap' \subseteq Frame
      BY <1>s, <1>t
    <3>2. free' \in Int
      BY <1>s, <1>t
    <3>. QED BY <3>1, <3>2
  <2>. QED BY <2>1, <2>2, <1>s, <1>t DEF FramesTypeOK, locals
<1>3. HandedOnce'
  BY <1>r, <1>s, <1>t DEF HandedOnce
<1>. QED BY <1>1, <1>2, <1>3, <1>s DEF FramesInv, ScanInv, TakeInv, NoneMeansFull

(* A system call takes a frame between two steps of the scan: unless it is *)
(* one the scan has counted, what the scan knows stays true.               *)
LEMMA MaskedPreserves ==
  ASSUME FramesInv, NEW kept \in BOOLEAN, AllocMasked(kept)
  PROVE  FramesInv'
<1>. USE FramesAssumption
<1>1. PICK f \in Frame :
        /\ FirstFit(f)
        /\ bitmap' = IF kept THEN bitmap \cup {f} ELSE bitmap
        /\ free' = IF kept THEN free - 1 ELSE free
        /\ hint' = f + 1
        /\ handed' = IF kept THEN [handed EXCEPT ![f] = @ + 1] ELSE handed
        /\ collided' = (collided \/ (kept /\ f \in InFlight))
        /\ UNCHANGED <<pc, locals, usable>>
  BY DEF AllocMasked
<1>l. UNCHANGED <<pc, count, run, start, frame, scanned, from, usable>>
  BY <1>1 DEF locals
<1>t. /\ FramesTypeOK /\ HandedOnce /\ FreeExact /\ ~collided /\ f \notin bitmap /\ f \in Nat
      /\ f + 1 \in 1 .. MaxFrames
      /\ bitmap \subseteq Frame /\ handed \in [Frame -> Nat] /\ free \in Int
  BY <1>1 DEF FramesInv, FramesTypeOK, Frame, AllocMasked, FirstFit
<1>2. FramesTypeOK'
  <2>1. handed' \in [Frame -> Nat] /\ bitmap' \subseteq Frame /\ free' \in Int
    BY <1>1, <1>t
  <2>2. collided' \in BOOLEAN
    BY <1>1
  <2>. QED BY <2>1, <2>2, <1>1, <1>l, <1>t DEF FramesTypeOK
<1>3. CASE ~kept
  <2>0. bitmap' = bitmap /\ free' = free /\ handed' = handed
    BY <1>1, <1>3
  <2>1. bitmap' = bitmap /\ free' = free /\ handed' = handed /\ ~collided' /\ ~collided
    BY <2>0, <1>1, <1>3, <1>t
  <2>. QED BY <2>1, <1>l, <1>2 DEF FramesInv, HandedOnce, FreeExact, ScanInv, TakeInv,
              NoneMeansFull, Trail, TrailFree, Covered, FirstLap, SecondLap, NoRun, Edge
<1>4. CASE kept
  <2>1. /\ bitmap' = bitmap \cup {f} /\ free' = free - 1 /\ handed' = [handed EXCEPT ![f] = @ + 1]
        /\ collided' <=> f \in InFlight
    BY <1>1, <1>4, <1>t
  <2>2. HandedOnce'
    <3>. SUFFICES ASSUME NEW g \in Frame
                  PROVE  /\ handed'[g] <= 1
                         /\ handed'[g] = 1 => g \in usable
                         /\ g \in bitmap' <=> (g \notin usable \/ handed'[g] = 1)
      BY <1>l DEF HandedOnce
    <3>1. /\ handed[g] \in Nat /\ handed[g] <= 1 /\ (handed[g] = 1 => g \in usable)
          /\ g \in bitmap <=> (g \notin usable \/ handed[g] = 1)
      BY <1>t DEF HandedOnce
    <3>2. handed'[g] = IF g = f THEN handed[g] + 1 ELSE handed[g]
      BY <2>1, <1>t
    <3>. QED BY <3>1, <3>2, <2>1, <1>t
  <2>3. FreeExact'
    <3>1. Run(f, 1) = {f}
      BY <1>t DEF Run
    <3>2. Cardinality(Frame \ (bitmap \cup Run(f, 1))) = Cardinality(Frame \ bitmap) - 1
      <4>1. Run(f, 1) \subseteq Frame /\ Run(f, 1) \cap bitmap = {} /\ 1 \in Nat
        BY <3>1, <1>t
      <4>. QED BY <4>1, <1>t, ClearBits
    <3>. QED BY <3>1, <3>2, <2>1, <1>t DEF FreeExact
  <2>4. ASSUME NEW a, NEW b, NoRun(a, b) PROVE NoRun(a, b)'
    BY <2>4, <2>1, <1>l DEF NoRun
  <2>5. ASSUME NEW a, Edge(a) PROVE Edge(a)'
    BY <2>5, <2>1, <1>l DEF Edge
  <2>6. ScanInv'
    <3>. SUFFICES ASSUME pc = "scan"
                  PROVE  Trail' /\ (~collided' => TrailFree' /\ Covered')
      BY <1>l DEF ScanInv
    <3>1. Trail /\ TrailFree /\ Covered
      BY <1>t DEF FramesInv, ScanInv
    <3>2. Trail'
      BY <3>1, <1>l DEF Trail
    <3>3. ASSUME ~collided' PROVE TrailFree'
      <4>1. f \notin Run(start, run)
        BY <3>3, <2>1 DEF InFlight
      <4>2. run \in Nat /\ frame \in Nat /\ start \in Nat
        BY <1>t DEF FramesTypeOK, Frame
      <4>3. f \notin (frame - run) .. (frame - 1)
        BY <4>1, <4>2, <3>1, <1>t DEF Run, Trail
      <4>. QED BY <4>3, <3>1, <2>1, <1>l DEF TrailFree
    <3>4. Covered'
      <4>1. CASE FirstLap
        BY <4>1, <2>4, <2>5, <1>l DEF FirstLap, Covered
      <4>2. CASE SecondLap
        BY <4>2, <2>4, <2>5, <1>l DEF SecondLap, Covered
      <4>3. CASE NoRun(1, MaxFrames)
        BY <4>3, <2>4 DEF Covered
      <4>. QED BY <4>1, <4>2, <4>3, <3>1 DEF Covered
    <3>. QED BY <3>2, <3>3, <3>4
  <2>7. TakeInv'
    BY <2>1, <1>l, <1>t DEF FramesInv, TakeInv, InFlight
  <2>8. NoneMeansFull'
    BY <2>1, <1>l, <1>t DEF FramesInv, NoneMeansFull
  <2>. QED BY <2>2, <2>3, <2>6, <2>7, <2>8, <1>2 DEF FramesInv
<1>. QED BY <1>3, <1>4

(* Every step preserves the invariant. *)
LEMMA FramesStep == FramesInv /\ [FramesNext]_frameVars => FramesInv'
<1>. SUFFICES ASSUME FramesInv, [FramesNext]_frameVars PROVE FramesInv'
  OBVIOUS
<1>1. CASE UNCHANGED frameVars
  BY <1>1 DEF frameVars, locals, ghosts, FramesInv, FramesTypeOK, HandedOnce, FreeExact, ScanInv, TakeInv,
              NoneMeansFull, Trail, TrailFree, Covered, FirstLap, SecondLap, NoRun, Edge
<1>. QED BY <1>1, FramesAlloc, SkipPreserves, ExtendPreserves, ReturnPreserves,
            NonePreserves, FramesFree, MaskedPreserves DEF FramesNext

(* alloc_frames and free_frames keep the bitmap, the free count and the    *)
(* frames handed out consistent, for every memory size, map and request,   *)
(* until a system call takes a frame the boot task's scan has counted.     *)
THEOREM FramesSafety == FramesSpec => []FramesInv
<1>. QED BY FramesStart, FramesStep, PTL DEF FramesSpec

(* Until then no frame is handed to two callers, and none that is not      *)
(* wholly usable memory, and FRAME_FREE is the number of clear bits.       *)
THEOREM FramesSoundTheorem == FramesSpec => []FramesSound
<1>1. FramesInv => FramesSound
  BY DEF FramesInv, FramesSound
<1>. QED BY <1>1, FramesSafety, PTL

(* alloc_frames fails only when no free run is long enough. *)
THEOREM NoneTheorem == FramesSpec => []NoneMeansFull
<1>1. FramesInv => NoneMeansFull
  BY DEF FramesInv
<1>. QED BY <1>1, FramesSafety, PTL
=============================================================================
