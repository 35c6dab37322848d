------------------------------- MODULE Zones -------------------------------
(***************************************************************************)
(* The process-owned object zones and generation-checked handles of        *)
(* kernel/rust/src/zones.rs.  Each operation runs with interrupts masked   *)
(* once its arguments are decoded, so it is one action of the running      *)
(* task.  Handles are the integers the code packs; a caller may pass any   *)
(* integer.  An object's kind and bytes are abstracted to the value last   *)
(* stored, 0 when cleared.                                                 *)
(***************************************************************************)
EXTENDS Naturals

CONSTANTS MaxZones,       \* MAX_ZONES
          ObjectsPerZone, \* OBJECTS_PER_ZONE
          GenSpan,        \* 2^32, the values of a generation
          FieldSpan,      \* 2^16, the values of a zone or object field
          Task,           \* the tasks
          Data,           \* what an object may hold besides 0
          MaxFrees        \* bound: frees of one object

ASSUME ZonesAssumption ==
  /\ MaxZones \in Nat \ {0} /\ ObjectsPerZone \in Nat \ {0}
  /\ GenSpan \in Nat /\ GenSpan >= 2
  /\ FieldSpan \in Nat /\ MaxZones < FieldSpan /\ ObjectsPerZone < FieldSpan
  /\ Task \subseteq Nat /\ Data \subseteq Nat \ {0}
  /\ MaxFrees \in Nat

Zone == 0 .. MaxZones - 1
Obj == 0 .. ObjectsPerZone - 1
Handle == 0 .. GenSpan * FieldSpan * FieldSpan - 1
NoOwner == 0
Pid(t) == t + 1

VARIABLES
  owner,   \* ZONES[z].owner
  used,    \* ZONES[z].objects[o].used
  gen,     \* ZONES[z].objects[o].generation
  data,    \* ZONES[z].objects[o].data
  current, \* the running task
  frees,   \* history: how often each object was freed
  issued   \* history: every handle alloc returned, and the frees before it

zoneVars == <<owner, used, gen, data>>
vars == <<zoneVars, current, frees, issued>>

-----------------------------------------------------------------------------

encode(z, o, g) == ((z + 1) * FieldSpan + (o + 1)) * GenSpan + g

ZoneField(h) == ((h \div GenSpan) \div FieldSpan) % FieldSpan
ObjField(h) == (h \div GenSpan) % FieldSpan
GenField(h) == h % GenSpan

(* decode returns Some. *)
Decodes(h) == ZoneField(h) \in 1 .. MaxZones /\ ObjField(h) \in 1 .. ObjectsPerZone
ZoneOf(h) == ZoneField(h) - 1
ObjOf(h) == ObjField(h) - 1

(* Mutant: the generation of the handle is not compared. *)
LiveAnyGen(h) == Decodes(h) /\ used[ZoneOf(h)][ObjOf(h)]
(* The handle names the object as it is now. *)
Live(h) ==
  /\ Decodes(h)
  /\ used[ZoneOf(h)][ObjOf(h)]
  /\ gen[ZoneOf(h)][ObjOf(h)] = GenField(h)

(* Mutant: the owner is not compared. *)
ResolvesAnyOwner(h) == Live(h)
(* The test that write, read and free share. *)
Resolves(h) == Live(h) /\ owner[ZoneOf(h)] = Pid(current)

(* wrapping_add(1).max(1) *)
NextGen(g) == IF (g + 1) % GenSpan = 0 THEN 1 ELSE (g + 1) % GenSpan

-----------------------------------------------------------------------------

Init ==
  /\ owner = [z \in Zone |-> NoOwner]
  /\ used = [z \in Zone |-> [o \in Obj |-> FALSE]]
  /\ gen = [z \in Zone |-> [o \in Obj |-> 1]]
  /\ data = [z \in Zone |-> [o \in Obj |-> 0]]
  /\ current \in Task
  /\ frees = [z \in Zone |-> [o \in Obj |-> 0]]
  /\ issued = {}

(* create: the first unowned zone is reset and given to the caller. *)
Create ==
  /\ \E z \in Zone :
       /\ owner[z] = NoOwner
       /\ \A y \in Zone : y < z => owner[y] # NoOwner
       /\ owner' = [owner EXCEPT ![z] = Pid(current)]
       /\ used' = [used EXCEPT ![z] = [o \in Obj |-> FALSE]]
       /\ gen' = [gen EXCEPT ![z] = [o \in Obj |-> 1]]
       /\ data' = [data EXCEPT ![z] = [o \in Obj |-> 0]]
  /\ UNCHANGED <<current, frees, issued>>

(* alloc: the first unused object of the caller's zone. *)
Alloc(z) ==
  /\ owner[z] = Pid(current)
  /\ \E o \in Obj :
       /\ ~used[z][o]
       /\ \A i \in Obj : i < o => used[z][i]
       /\ used' = [used EXCEPT ![z][o] = TRUE]
       /\ data' = [data EXCEPT ![z][o] = 0]
       /\ issued' = issued \cup
            {[handle |-> encode(z, o, gen[z][o]), zone |-> z, obj |-> o,
              life |-> frees[z][o]]}
  /\ UNCHANGED <<owner, gen, current, frees>>

(* write: any task, any handle. *)
Write(h, d) ==
  /\ Resolves(h)
  /\ data' = [data EXCEPT ![ZoneOf(h)][ObjOf(h)] = d]
  /\ UNCHANGED <<owner, used, gen, current, frees, issued>>

(* free: any task, any handle. *)
Free(h) ==
  /\ Resolves(h)
  /\ frees[ZoneOf(h)][ObjOf(h)] < MaxFrees
  /\ used' = [used EXCEPT ![ZoneOf(h)][ObjOf(h)] = FALSE]
  /\ gen' = [gen EXCEPT ![ZoneOf(h)][ObjOf(h)] = NextGen(@)]
  /\ frees' = [frees EXCEPT ![ZoneOf(h)][ObjOf(h)] = @ + 1]
  /\ UNCHANGED <<owner, data, current, issued>>

(* The scheduler gives the CPU to another task. *)
Preempt(t) == t # current /\ current' = t /\ UNCHANGED <<zoneVars, frees, issued>>

Next ==
  \/ Create
  \/ \E z \in Zone : Alloc(z)
  \/ \E h \in Handle : Free(h) \/ \E d \in Data : Write(h, d)
  \/ \E t \in Task : Preempt(t)

Spec == Init /\ [][Next]_vars

-----------------------------------------------------------------------------

TypeOK ==
  /\ owner \in [Zone -> {Pid(t) : t \in Task} \cup {NoOwner}]
  /\ used \in [Zone -> [Obj -> BOOLEAN]]
  /\ gen \in [Zone -> [Obj -> 1 .. GenSpan - 1]]
  /\ data \in [Zone -> [Obj -> Data \cup {0}]]
  /\ current \in Task
  /\ frees \in [Zone -> [Obj -> Nat]]
  /\ issued \subseteq [handle : Handle, zone : Zone, obj : Obj, life : Nat]

(* A handle names the object it was issued for, and as long as the object  *)
(* was freed fewer than GenSpan - 1 times since, it is live only in that   *)
(* lifetime: a freed handle never reaches the object's next user.          *)
StaleRejected ==
  \A i \in issued :
    /\ Decodes(i.handle) /\ ZoneOf(i.handle) = i.zone /\ ObjOf(i.handle) = i.obj
    /\ Live(i.handle) /\ frees[i.zone][i.obj] < i.life + (GenSpan - 1)
         => frees[i.zone][i.obj] = i.life

(* Objects of a zone change only in steps of the zone's owner, whatever    *)
(* handle the others pass; and a zone never changes hands.                 *)
OnlyOwnerTouches ==
  [][\A z \in Zone :
       /\ owner[z] # NoOwner => owner'[z] = owner[z]
       /\ <<used[z], gen[z], data[z]>>' # <<used[z], gen[z], data[z]>>
            => owner[z] \in {NoOwner, Pid(current)}]_vars
=============================================================================
