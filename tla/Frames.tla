------------------------------- MODULE Frames -------------------------------
(***************************************************************************)
(* The physical frame allocator of kernel/rust/src/mem.rs: a bitmap, a     *)
(* free count and a search hint, set up from the memory map of either boot *)
(* loader.  alloc_frames takes no lock, so the scan of the boot task is    *)
(* modelled one loop iteration per step, and the taking of the run it      *)
(* found as a step of its own.  Once the scheduler runs, the system calls  *)
(* of the application call it too, with interrupts masked: one atomic      *)
(* step, but at any point of the boot task's scan.                         *)
(***************************************************************************)
EXTENDS Integers, FiniteSets, Sequences

CONSTANTS MaxFrames, \* MAX_FRAMES
          FrameSize, \* FRAME_SIZE
          TopAddress, \* the largest address, where saturating_add stops
          BootMaps,  \* the memory maps boot loaders pass
          Reserved,  \* the ranges init reserves itself, the kernel image included
          Requests   \* the run lengths callers ask for

AddressRange == [base : Nat, len : Nat]
Entry == [base : Nat, len : Nat, usable : BOOLEAN, whole : BOOLEAN]

ASSUME FramesAssumption ==
  /\ MaxFrames \in Nat /\ MaxFrames >= 2
  /\ FrameSize \in Nat \ {0}
  /\ TopAddress \in Nat /\ MaxFrames * FrameSize <= TopAddress
  /\ BootMaps \subseteq [limine : BOOLEAN, entries : Seq(Entry)]
  /\ Reserved \subseteq AddressRange /\ \A r \in Reserved : r.len > 0
  /\ Requests \subseteq Nat \ {0}

Frame == 0 .. MaxFrames - 1

VARIABLES
  bitmap,  \* FRAME_BITMAP: the frames whose bit is set
  free,    \* FRAME_FREE
  hint,    \* SEARCH_HINT
  pc,      \* where alloc_frames is; "none" once it returned None
  count,   \* its argument
  run,     \* and its local variables
  start,
  frame,
  scanned,
  usable,  \* history: the frames the memory map leaves to the allocator
  from,    \* history: where the scan began
  handed,  \* history: how often a frame was handed out and not yet returned
  collided \* history: a system call took a frame of the run being collected

locals == <<count, run, start, frame, scanned, from>>
ghosts == <<usable, collided>>
frameVars == <<bitmap, free, hint, pc, locals, handed, ghosts>>

Run(s, n) == s .. s + n - 1

-----------------------------------------------------------------------------

(* The regions init reads: MemoryMap::next stops at the first entry of the *)
(* Multiboot map that is malformed or cut off, init_limine asks for each   *)
(* by its number.  Without a Multiboot map the upper memory is the only    *)
(* region.                                                                 *)
Regions(map) ==
  {map.entries[i] : i \in
     {i \in DOMAIN map.entries :
        map.entries[i].usable /\ (map.limine \/ \A j \in 1 .. i : map.entries[j].whole)}}

(* paint_range: the end saturates; to free, both ends are rounded inwards, *)
(* to reserve, outwards; frame 0 is never painted.                         *)
End(r) == IF r.base + r.len > TopAddress THEN TopAddress ELSE r.base + r.len
DivCeil(a) == (a + FrameSize - 1) \div FrameSize
Freed(r) == {f \in Frame : f >= 1 /\ DivCeil(r.base) <= f /\ f < End(r) \div FrameSize}
Taken(r) ==
  {f \in Frame : f >= 1 /\ r.base \div FrameSize <= f /\ f < DivCeil(End(r))}

(* init and init_limine: all is reserved, the usable regions are painted   *)
(* free, and init paints its own ranges over them.                         *)
Painted(map) ==
  (UNION {Freed(r) : r \in Regions(map)})
    \ (IF map.limine THEN {} ELSE UNION {Taken(r) : r \in Reserved})

(* What they should leave, byte by byte: the frames that lie in one usable *)
(* region with all their bytes and touch no range that is reserved.        *)
Bytes(f) == f * FrameSize .. f * FrameSize + FrameSize - 1
InRange(a, r) == r.base <= a /\ a < r.base + r.len
Clear(map) ==
  {f \in Frame \ {0} :
     /\ \E r \in Regions(map) : \A a \in Bytes(f) : InRange(a, r)
     /\ map.limine \/ \A r \in Reserved : \A a \in Bytes(f) : ~InRange(a, r)}

FramesInit ==
  /\ \E map \in BootMaps :
       /\ bitmap = Frame \ Painted(map)
       /\ free = Cardinality(Painted(map))
       /\ usable = Clear(map)
  /\ hint = 1
  /\ pc = "idle" /\ count = 1
  /\ run = 0 /\ start = 1 /\ frame = 1 /\ scanned = 0 /\ from = 1
  /\ handed = [f \in Frame |-> 0]
  /\ collided = FALSE

Returned == pc \in {"idle", "none"}

(* Calls are followed until one has collided with another. *)
MayCall == Returned /\ ~collided

AllocFrames(n) ==
  /\ MayCall
  /\ pc' = "scan"
  /\ count' = n
  /\ run' = 0 /\ start' = 1 /\ scanned' = 0
  /\ frame' = IF hint < 1 THEN 1 ELSE hint
  /\ from' = frame'
  /\ UNCHANGED <<bitmap, free, hint, handed, ghosts>>

(* The wrap at the end of memory starts the run afresh. *)
RunSoFar == IF frame >= MaxFrames THEN 0 ELSE run
At == IF frame >= MaxFrames THEN 1 ELSE frame

(* Mutant: the scan stops after one lap. *)
ScanLimitOneLap == MaxFrames
ScanLimit == MaxFrames + count

Step == scanned + 1

(* A frame in use ends the run. *)
SkipUsed ==
  /\ pc = "scan" /\ scanned < ScanLimit
  /\ At \in bitmap
  /\ run' = 0
  /\ frame' = At + 1 /\ scanned' = Step
  /\ UNCHANGED <<bitmap, free, hint, pc, count, start, from, handed, ghosts>>

(* A free frame extends it, and the run is long enough or not yet. *)
Extend ==
  /\ pc = "scan" /\ scanned < ScanLimit
  /\ At \notin bitmap
  /\ start' = IF RunSoFar = 0 THEN At ELSE start
  /\ run' = RunSoFar + 1
  /\ IF run' = count
       THEN pc' = "take" /\ UNCHANGED <<frame, scanned>>
       ELSE pc' = pc /\ frame' = At + 1 /\ scanned' = Step
  /\ UNCHANGED <<bitmap, free, hint, count, from, handed, ghosts>>

(* Mutant: the free count is not lowered by the whole run. *)
TakeOne ==
  /\ bitmap' = bitmap \cup Run(start, count)
  /\ free' = free - 1
  /\ hint' = start + count
(* The bits of the run are set and the statics updated. *)
Take ==
  /\ bitmap' = bitmap \cup Run(start, count)
  /\ free' = free - count
  /\ hint' = start + count

Return ==
  /\ pc = "take"
  /\ Take
  /\ pc' = "idle"
  /\ handed' = [f \in Frame |-> IF f \in Run(start, count) THEN handed[f] + 1
                                                           ELSE handed[f]]
  /\ UNCHANGED <<locals, ghosts>>

ReturnNone ==
  /\ pc = "scan" /\ scanned >= ScanLimit
  /\ pc' = "none"
  /\ UNCHANGED <<bitmap, free, hint, locals, handed, ghosts>>

(* free_frames of a run its callers hold. *)
FreeFrames(s, n) ==
  /\ MayCall
  /\ \A f \in Run(s, n) : f \in Frame /\ handed[f] > 0
  /\ bitmap' = bitmap \ Run(s, n)
  /\ free' = free + n
  /\ handed' = [f \in Frame |-> IF f \in Run(s, n) THEN handed[f] - 1 ELSE handed[f]]
  /\ pc' = "idle"
  /\ UNCHANGED <<hint, locals, ghosts>>

(* How far a scan that starts at the hint has to go to reach f. *)
Distance(f) == IF f >= hint THEN f - hint ELSE (f - 1) + (MaxFrames - hint)
FirstFit(f) == f \notin bitmap /\ \A g \in Frame \ bitmap : Distance(f) <= Distance(g)

(* The frames the boot task has counted, or is about to take. *)
InFlight ==
  CASE pc = "scan" -> Run(start, run) [] pc = "take" -> Run(start, count) [] OTHER -> {}

(* One alloc_frames(1) of a system call, for the page of mmap or for a     *)
(* page table; when the mapping fails after it, the page is freed again.   *)
AllocMasked(kept) ==
  /\ ~collided
  /\ \E f \in Frame :
    /\ FirstFit(f)
    /\ bitmap' = IF kept THEN bitmap \cup {f} ELSE bitmap
    /\ free' = IF kept THEN free - 1 ELSE free
    /\ hint' = f + 1
    /\ handed' = IF kept THEN [handed EXCEPT ![f] = @ + 1] ELSE handed
    /\ collided' = (collided \/ (kept /\ f \in InFlight))
    /\ UNCHANGED <<pc, locals, usable>>

FramesNext ==
  \/ \E n \in Requests : AllocFrames(n) \/ \E s \in Frame : FreeFrames(s, n)
  \/ SkipUsed \/ Extend \/ Return \/ ReturnNone
  \/ \E kept \in BOOLEAN : AllocMasked(kept)
  \/ collided /\ Returned /\ UNCHANGED frameVars

FramesSpec == FramesInit /\ [][FramesNext]_frameVars

-----------------------------------------------------------------------------

FramesTypeOK ==
  /\ bitmap \subseteq Frame
  /\ free \in Int
  /\ hint \in 1 .. MaxFrames
  /\ pc \in {"idle", "scan", "take", "none"}
  /\ count \in Nat \ {0}
  /\ run \in Nat /\ start \in Frame /\ frame \in 1 .. MaxFrames /\ scanned \in Nat
  /\ usable \subseteq Frame \ {0} /\ from \in 1 .. MaxFrames
  /\ handed \in [Frame -> Nat] /\ collided \in BOOLEAN

(* Every frame is handed to at most one caller at a time, lies in usable   *)
(* memory with all its bytes and in none of the ranges init reserves, and  *)
(* the bitmap marks exactly the other frames and those handed out: what    *)
(* paint_range and alloc_frames promise, unless a system call takes a      *)
(* frame the boot task's scan has already counted.                         *)
HandedOnce ==
  ~collided =>
    \A f \in Frame :
      /\ handed[f] <= 1
      /\ handed[f] = 1 => f \in usable
      /\ f \in bitmap <=> (f \notin usable \/ handed[f] = 1)

(* FRAME_FREE is the number of clear bits: the count the alloc and free    *)
(* paths keep by arithmetic never drifts from the bitmap, or below zero,   *)
(* under the same condition.                                               *)
FreeExact == ~collided => free = Cardinality(Frame \ bitmap)

(* The bitmap, the count and what the callers hold agree after every       *)
(* mixture of runs taken and freed (alloc_frames, free_frames, init).      *)
FramesSound == HandedOnce /\ FreeExact

(* alloc_frames returns None only when no run of the requested length is   *)
(* free anywhere in memory, wherever the hint made the scan begin and      *)
(* whatever system calls took while it ran.                                *)
NoneMeansFull ==
  pc = "none" /\ ~collided =>
    \A s \in Frame : Run(s, count) \subseteq Frame => Run(s, count) \cap bitmap # {}

(* What the SAFETY comments of alloc_frames rely on, and the system calls  *)
(* do not respect: no frame is ever handed to two owners.                  *)
SingleThreaded == \A f \in Frame : handed[f] <= 1
=============================================================================
