----------------------------- MODULE SchedProofs -----------------------------
(***************************************************************************)
(* Proofs about Sched, for any number of task slots and any quantum.       *)
(***************************************************************************)
EXTENDS Sched, Sequences, FiniteSetTheorems, TLAPS

(* Steps are tried with Zenon first, which is the faster where no          *)
(* arithmetic is needed, then with SMT, then with Zenon for longer.        *)
USE ZenonT(3), SMTT(30), ZenonT(30), Z3T(30)

-----------------------------------------------------------------------------
(* Facts about sequences. *)

(* Sequences with equal elements in equal places are equal. *)
LEMMA SeqEqual ==
  ASSUME NEW S, NEW s \in Seq(S), NEW t \in Seq(S),
         Len(s) = Len(t), \A i \in 1 .. Len(s) : s[i] = t[i]
  PROVE  s = t
  OBVIOUS

(* A sequence is a function on the places up to its length. *)
LEMMA LenProperties ==
  ASSUME NEW S, NEW s \in Seq(S)
  PROVE  /\ Len(s) \in Nat /\ DOMAIN s = 1 .. Len(s)
         /\ s \in [1 .. Len(s) -> S]
  OBVIOUS

(* Only the empty sequence has no element. *)
LEMMA EmptySeq ==
  ASSUME NEW S
  PROVE  /\ <<>> \in Seq(S) /\ Len(<<>>) = 0
         /\ \A s \in Seq(S) : Len(s) \in Nat /\ (s = <<>> <=> Len(s) = 0)
  OBVIOUS

(* What Append returns. *)
LEMMA AppendProperties ==
  ASSUME NEW S, NEW s \in Seq(S), NEW x \in S
  PROVE  /\ Append(s, x) \in Seq(S) /\ Len(s) \in Nat /\ Len(Append(s, x)) = Len(s) + 1
         /\ \A i \in 1 .. Len(s) : Append(s, x)[i] = s[i]
         /\ Append(s, x)[Len(s) + 1] = x
  OBVIOUS

(* What Head and Tail return. *)
LEMMA HeadTailProperties ==
  ASSUME NEW S, NEW s \in Seq(S), s # <<>>
  PROVE  /\ Head(s) = s[1] /\ Head(s) \in S
         /\ Tail(s) \in Seq(S) /\ Len(Tail(s)) = Len(s) - 1
         /\ \A i \in 1 .. Len(Tail(s)) : Tail(s)[i] = s[i + 1]
  OBVIOUS


-----------------------------------------------------------------------------
(* The ring is compared with a queue, element by element. *)

(* A function on 1 .. n is a sequence of length n. *)
LEMMA FunctionIsSeq ==
  ASSUME NEW S, NEW n \in Nat, NEW f \in [1 .. n -> S]
  PROVE  f \in Seq(S) /\ Len(f) = n /\ (f = <<>> <=> n = 0)
<1>1. f \in Seq(S) /\ Len(f) = n
  OBVIOUS
<1>2. n = 0 => f = <<>>
  <2>1. ASSUME n = 0 PROVE f = <<>>
    <3>1. <<>> \in Seq(S) /\ Len(<<>>) = 0
      BY EmptySeq
    <3>2. Len(f) = Len(<<>>) /\ \A i \in 1 .. Len(f) : f[i] = <<>>[i]
      BY <1>1, <2>1, <3>1
    <3> QED BY <1>1, <3>1, <3>2, SeqEqual
  <2> QED BY <2>1
<1>3. f = <<>> => n = 0
  BY <1>1, EmptySeq
<1> QED BY <1>1, <1>2, <1>3

(* The elements in their places and a new one behind them. *)
LEMMA PutBehind ==
  ASSUME NEW S, NEW s \in Seq(S), NEW t \in Seq(S), NEW x \in S,
         Len(t) = Len(s) + 1, \A i \in 1 .. Len(s) : t[i] = s[i], t[Len(t)] = x
  PROVE  t = Append(s, x)
<1>1. /\ Append(s, x) \in Seq(S) /\ Len(Append(s, x)) = Len(s) + 1
      /\ \A i \in 1 .. Len(s) : Append(s, x)[i] = s[i]
      /\ Append(s, x)[Len(s) + 1] = x
  BY AppendProperties
<1>2. Len(s) \in Nat
  BY LenProperties
<1>3. \A i \in 1 .. Len(t) : t[i] = Append(s, x)[i]
  BY <1>1, <1>2
<1> QED BY <1>1, <1>3, SeqEqual

(* Every element but the first one place further to the front. *)
LEMMA TakeFront ==
  ASSUME NEW S, NEW s \in Seq(S), NEW t \in Seq(S), s # <<>>,
         Len(t) = Len(s) - 1, \A i \in 1 .. Len(t) : t[i] = s[i + 1]
  PROVE  t = Tail(s)
<1>1. /\ Tail(s) \in Seq(S) /\ Len(Tail(s)) = Len(s) - 1
      /\ \A i \in 1 .. Len(Tail(s)) : Tail(s)[i] = s[i + 1]
  BY HeadTailProperties
<1> QED BY <1>1, SeqEqual

(* Both at once: the front leaves and another comes last. *)
LEMMA RotateQueue ==
  ASSUME NEW S, NEW s \in Seq(S), NEW t \in Seq(S), NEW x \in S, s # <<>>,
         Len(t) = Len(s), \A i \in 1 .. Len(s) - 1 : t[i] = s[i + 1], t[Len(t)] = x
  PROVE  t = Append(Tail(s), x)
<1>1. /\ Tail(s) \in Seq(S) /\ Len(Tail(s)) = Len(s) - 1
      /\ \A i \in 1 .. Len(Tail(s)) : Tail(s)[i] = s[i + 1]
  BY HeadTailProperties
<1>2. Len(s) \in Nat
  BY LenProperties
<1>3. Len(t) = Len(Tail(s)) + 1 /\ \A i \in 1 .. Len(Tail(s)) : t[i] = Tail(s)[i]
  BY <1>1, <1>2
<1> QED BY <1>1, <1>3, PutBehind

-----------------------------------------------------------------------------
(* Arithmetic of the ring. *)

(* A ring index below twice the size wraps at most once. *)
LEMMA ModWrap ==
  ASSUME NEW a \in Task, NEW b \in 0 .. MaxTasks
  PROVE  (a + b) % MaxTasks = IF a + b < MaxTasks THEN a + b ELSE a + b - MaxTasks
  BY SchedAssumption DEF Task

(* Distinct offsets from the same head are distinct slots. *)
LEMMA SlotInjective ==
  ASSUME NEW h \in Task, NEW i \in Task, NEW j \in Task,
         (h + i) % MaxTasks = (h + j) % MaxTasks
  PROVE  i = j
<1>1. i \in 0 .. MaxTasks /\ j \in 0 .. MaxTasks
  BY SchedAssumption DEF Task
<1>2. /\ (h + i) % MaxTasks = IF h + i < MaxTasks THEN h + i ELSE h + i - MaxTasks
      /\ (h + j) % MaxTasks = IF h + j < MaxTasks THEN h + j ELSE h + j - MaxTasks
  BY <1>1, ModWrap
<1>3. (IF h + i < MaxTasks THEN h + i ELSE h + i - MaxTasks)
        = (IF h + j < MaxTasks THEN h + j ELSE h + j - MaxTasks)
  BY <1>2
<1> QED BY <1>3, SchedAssumption DEF Task

(* A slot is an index of the ring array. *)
LEMMA SlotType ==
  ASSUME NEW h \in Task, NEW i \in 0 .. MaxTasks
  PROVE  (h + i) % MaxTasks \in Task
  BY SchedAssumption, ModWrap DEF Task

(* Moving the head by one shifts every offset by one. *)
LEMMA SlotShift ==
  ASSUME NEW h \in Task, NEW i \in 0 .. MaxTasks - 1
  PROVE  (((h + 1) % MaxTasks) + i) % MaxTasks = (h + (i + 1)) % MaxTasks
<1>1. CASE h + 1 < MaxTasks
  <2>1. (h + 1) % MaxTasks = h + 1
    BY <1>1, SchedAssumption, ModWrap, 1 \in 0 .. MaxTasks DEF Task
  <2> QED BY <2>1, SchedAssumption DEF Task
<1>2. CASE h + 1 = MaxTasks
  <2>1. (h + 1) % MaxTasks = 0
    BY <1>2, SchedAssumption, ModWrap, 1 \in 0 .. MaxTasks DEF Task
  <2>2. i % MaxTasks = i
    BY SchedAssumption DEF Task
  <2>3. (h + (i + 1)) % MaxTasks = i
    <3>1. i + 1 \in 0 .. MaxTasks
      BY SchedAssumption
    <3>2. (h + (i + 1)) % MaxTasks
            = IF h + (i + 1) < MaxTasks THEN h + (i + 1) ELSE h + (i + 1) - MaxTasks
      BY <3>1, ModWrap
    <3> QED BY <3>2, <1>2, SchedAssumption DEF Task
  <2> QED BY <2>1, <2>2, <2>3, SchedAssumption DEF Task
<1> QED BY <1>1, <1>2, SchedAssumption DEF Task

(* The queue is no longer than the set of tasks that may be in it. *)
LEMMA QueueFits ==
  ASSUME TypeOK, RunQueueExact, NEW S \in SUBSET Task, 
         \A t \in S : state[t] # "ready"
  PROVE  qLen + Cardinality(S) <= MaxTasks
<1> DEFINE I == 0 .. qLen - 1
           f == [i \in I |-> Queued(i)]
<1>1. qLen \in Nat /\ qLen <= MaxTasks /\ MaxTasks \in Nat /\ qHead \in Task
  BY SchedAssumption DEF TypeOK
<1>2. IsFiniteSet(Task) /\ Cardinality(Task) = MaxTasks
  BY FS_Interval, SchedAssumption DEF Task
<1>3. IsFiniteSet(I) /\ Cardinality(I) = qLen
  BY FS_Interval, <1>1
<1>4. /\ IsFiniteSet(Task \ S)
      /\ Cardinality(Task \ S) = MaxTasks - Cardinality(S)
  <2>1. Task \cap S = S
    OBVIOUS
  <2>2. /\ IsFiniteSet(Task \ S)
        /\ Cardinality(Task \ S) = Cardinality(Task) - Cardinality(Task \cap S)
    BY <1>2, FS_Difference
  <2> QED BY <1>2, <2>1, <2>2
<1>5. Cardinality(S) \in Nat
  BY <1>2, FS_Subset, FS_CardinalityType
<1>6. f \in [I -> Task \ S]
  <2> SUFFICES ASSUME NEW i \in I PROVE Queued(i) \in Task \ S
    OBVIOUS
  <2>1. Slot(i) \in Task
    BY <1>1, SlotType, SchedAssumption DEF Slot
  <2>2. Queued(i) \in Task
    BY <2>1 DEF Queued, TypeOK
  <2> QED BY <2>2 DEF RunQueueExact
<1>7. \A i, j \in I : f[i] = f[j] => i = j
  BY DEF RunQueueExact
<1>8. ~(Cardinality(Task \ S) < Cardinality(I))
  <2> SUFFICES ASSUME Cardinality(Task \ S) < Cardinality(I) PROVE FALSE
    OBVIOUS
  <2> HIDE DEF f, I
  <2>1. \E x, y \in I : x # y /\ f[x] = f[y]
    BY <1>3, <1>4, <1>6, FS_PigeonHole
  <2> QED BY <2>1, <1>7
<1> HIDE DEF I
<1> QED BY <1>1, <1>3, <1>4, <1>5, <1>8

(* The slots of queued tasks are ring indices, and hold tasks. *)
LEMMA QueuedType ==
  ASSUME TypeOK, NEW i \in 0 .. qLen - 1
  PROVE  Slot(i) \in Task /\ Queued(i) \in Task
<1>1. qHead \in Task /\ i \in 0 .. MaxTasks /\ queue \in [Task -> Task]
  BY SchedAssumption DEF TypeOK
<1>2. Slot(i) \in Task
  BY <1>1, SlotType DEF Slot
<1> QED BY <1>1, <1>2 DEF Queued

(* The front of the queue is the slot under the head. *)
LEMMA QueueFront ==
  ASSUME TypeOK
  PROVE  Slot(0) = qHead /\ Queued(0) = queue[qHead]
<1>1. qHead \in Task /\ 0 \in 0 .. MaxTasks
  BY SchedAssumption DEF TypeOK
<1>2. (qHead + 0) % MaxTasks = qHead
  <2>1. (qHead + 0) % MaxTasks
          = IF qHead + 0 < MaxTasks THEN qHead + 0 ELSE qHead + 0 - MaxTasks
    BY <1>1, ModWrap
  <2> QED BY <2>1, <1>1, SchedAssumption DEF Task
<1> QED BY <1>2 DEF Slot, Queued

(* Advancing the head makes every queued task move up one position. *)
LEMMA AdvanceShifts ==
  ASSUME TypeOK, qHead' = Advance, queue' \in [Task -> Task]
  PROVE  /\ qHead' \in Task
         /\ \A i \in 0 .. MaxTasks - 1 : Queued(i)' = queue'[Slot(i + 1)]
<1>1. qHead \in Task /\ 1 \in 0 .. MaxTasks
  BY SchedAssumption DEF TypeOK
<1>2. qHead' \in Task
  BY <1>1, SlotType DEF Advance
<1>3. ASSUME NEW i \in 0 .. MaxTasks - 1
      PROVE  Queued(i)' = queue'[Slot(i + 1)]
  BY <1>1, SlotShift DEF Queued, Slot, Advance
<1> QED BY <1>2, <1>3

(* Writing at the tail of a ring that is not full adds the task there and  *)
(* leaves every queued one in its place.                                   *)
LEMMA EnqueueAppends ==
  ASSUME TypeOK, qLen < MaxTasks, NEW t \in Task
  PROVE  /\ Enqueue(t) \in [Task -> Task] /\ EnqueuedLen = qLen + 1
         /\ Enqueue(t)[Slot(qLen)] = t
         /\ \A i \in 0 .. qLen - 1 : Enqueue(t)[Slot(i)] = Queued(i)
<1>1. qHead \in Task /\ qLen \in Task /\ qLen \in 0 .. MaxTasks /\ queue \in [Task -> Task]
  BY SchedAssumption DEF TypeOK, Task
<1>2. Slot(qLen) \in Task
  BY <1>1, SlotType DEF Slot
<1>3. Enqueue(t) = [queue EXCEPT ![Slot(qLen)] = t]
  BY DEF Enqueue
<1>4. ASSUME NEW i \in 0 .. qLen - 1
      PROVE  Enqueue(t)[Slot(i)] = Queued(i)
  <2>1. i \in Task /\ i # qLen
    BY <1>1, SchedAssumption DEF Task
  <2>2. Slot(i) # Slot(qLen)
    BY <2>1, <1>1, SlotInjective DEF Slot
  <2>3. Slot(i) \in Task
    BY QueuedType
  <2> QED BY <1>1, <1>2, <1>3, <2>2, <2>3 DEF Queued
<1> QED BY <1>1, <1>2, <1>3, <1>4 DEF EnqueuedLen

-----------------------------------------------------------------------------
(* What each handler does to the queue. *)

(* The running task is not queued, so the ring is never full. *)
LEMMA RoomForCurrent ==
  ASSUME SchedInv, fx # None, ~halted
  PROVE  qLen < MaxTasks /\ state[current] = "running"
<1>1. current \in Task /\ state[current] = "running"
  BY DEF SchedInv, TypeOK, OneRunning
<1>2. qLen + Cardinality({current}) <= MaxTasks
  BY <1>1, QueueFits, {current} \in SUBSET Task DEF SchedInv
<1>3. Cardinality({current}) = 1
  BY FS_Singleton
<1> QED BY <1>1, <1>2, <1>3, SchedAssumption DEF SchedInv, TypeOK

(* A free user slot and the boot task leave room for both. *)
LEMMA RoomForUser ==
  ASSUME SchedInv, fx # None, ~halted, current = BootTask, UserSlotFree
  PROVE  qLen + 2 <= MaxTasks
<1>1. /\ BootTask \in Task /\ UserTask \in Task /\ BootTask # UserTask
      /\ qLen \in Nat
  BY SchedAssumption DEF BootTask, UserTask, Task, SchedInv, TypeOK
<1>2. state[BootTask] # "ready" /\ state[UserTask] # "ready"
  BY RoomForCurrent DEF UserSlotFree
<1>3. qLen + Cardinality({BootTask, UserTask}) <= MaxTasks
  BY <1>1, <1>2, QueueFits, {BootTask, UserTask} \in SUBSET Task DEF SchedInv
<1>4. Cardinality({BootTask, UserTask}) = 2
  <2>1. {BootTask, UserTask} = {BootTask} \cup {UserTask}
    OBVIOUS
  <2>2. IsFiniteSet({BootTask}) /\ Cardinality({BootTask}) = 1
    BY FS_Singleton
  <2>3. UserTask \notin {BootTask}
    BY <1>1
  <2> QED BY <2>1, <2>2, <2>3, FS_AddElement
<1> QED BY <1>1, <1>3, <1>4, SchedAssumption

(* A switch: the front task leaves the queue, the others move up, and a    *)
(* requeued task comes last.                                               *)
Switched(requeue) ==
  /\ queue' \in [Task -> Task] /\ qHead' \in Task
  /\ queue'[qHead] = Queued(0) /\ Queued(0) \in Task
  /\ state[Queued(0)] = "ready" /\ Queued(0) # current
  /\ \A i \in 0 .. qLen - 2 : Queued(i)' = Queued(i + 1)
  /\ IF requeue THEN qLen' = qLen /\ Queued(qLen - 1)' = current
                ELSE qLen' = qLen - 1

(* schedule, when a successor is queued, leaves the queue that way. *)
LEMMA SwitchQueue ==
  ASSUME SchedInv, fx # None, ~halted, NEW requeue \in BOOLEAN,
         ~NoSuccessor, Schedule(requeue)
  PROVE  Switched(requeue)
<1>1. /\ queue' = IF requeue THEN Enqueue(current) ELSE queue
      /\ qHead' = Advance
      /\ qLen' = (IF requeue THEN EnqueuedLen ELSE qLen) - 1
  BY DEF Schedule
<1>2. TypeOK /\ qLen \in 1 .. MaxTasks - 1 /\ current \in Task
      /\ state[current] = "running" /\ queue \in [Task -> Task]
  BY RoomForCurrent, SchedAssumption DEF SchedInv, TypeOK, NoSuccessor
<1>3. /\ queue' \in [Task -> Task]
      /\ \A i \in 0 .. qLen - 1 : queue'[Slot(i)] = Queued(i)
      /\ requeue => queue'[Slot(qLen)] = current
      /\ qLen' = IF requeue THEN qLen ELSE qLen - 1
  <2>1. CASE requeue
    <3>1. /\ queue' = Enqueue(current) /\ qLen' = EnqueuedLen - 1
          /\ qLen < MaxTasks /\ qLen \in Nat
      BY <2>1, <1>1, <1>2, SchedAssumption
    <3>2. /\ Enqueue(current) \in [Task -> Task] /\ EnqueuedLen = qLen + 1
          /\ Enqueue(current)[Slot(qLen)] = current
          /\ \A i \in 0 .. qLen - 1 : Enqueue(current)[Slot(i)] = Queued(i)
      BY <3>1, <1>2, EnqueueAppends
    <3> QED BY <2>1, <3>1, <3>2
  <2>2. CASE ~requeue
    BY <2>2, <1>1, <1>2 DEF Queued
  <2> QED BY <2>1, <2>2
<1>4. /\ qHead' \in Task
      /\ \A i \in 0 .. MaxTasks - 1 : Queued(i)' = queue'[Slot(i + 1)]
  BY <1>1, <1>2, <1>3, AdvanceShifts
<1>5. queue'[qHead] = Queued(0) /\ Queued(0) \in Task /\ state[Queued(0)] = "ready"
  <2>1. 0 \in 0 .. qLen - 1
    BY <1>2
  <2> QED BY <1>2, <1>3, <2>1, QueueFront, QueuedType DEF SchedInv, RunQueueExact
<1>6. ASSUME NEW i \in 0 .. qLen - 2
      PROVE  Queued(i)' = Queued(i + 1)
  <2>1. i \in 0 .. MaxTasks - 1 /\ i + 1 \in 0 .. qLen - 1
    BY <1>2, SchedAssumption
  <2> QED BY <1>3, <1>4, <2>1
<1>7. requeue => Queued(qLen - 1)' = current
  <2>1. qLen - 1 \in 0 .. MaxTasks - 1 /\ (qLen - 1) + 1 = qLen
    BY <1>2, SchedAssumption
  <2> QED BY <1>3, <1>4, <2>1
<1> QED BY <1>2, <1>3, <1>4, <1>5, <1>6, <1>7 DEF Switched

-----------------------------------------------------------------------------
(* The invariant. *)

(* Products by the quantum are monotone. *)
LEMMA QuantumMonotone ==
  ASSUME NEW a \in Nat, NEW b \in Nat, a <= b
  PROVE  a * Quantum <= b * Quantum
  BY SchedAssumption

(* A waiting time is a number, grows by no more than the ticks that pass   *)
(* and starts from 0 when its task becomes READY.                          *)
LEMMA WaitBound ==
  ASSUME TypeOK, NEW n \in Nat, Wait(n)
  PROVE  /\ waited' \in [Task -> Nat]
         /\ \A t \in Task : waited'[t] <= waited[t] + n
         /\ \A t \in Task : state[t] # "ready" \/ state'[t] # "ready" => waited'[t] = 0
<1>1. WaitCap \in Nat
  BY SchedAssumption DEF WaitCap
<1>2. \A t \in Task : Longer(t, n) \in Nat /\ Longer(t, n) <= waited[t] + n /\ waited[t] \in Nat
  BY <1>1 DEF TypeOK, Longer
<1>. QED BY <1>2 DEF Wait

(* A switch preserves the invariant, whether or not the outgoing task is   *)
(* requeued and whether or not a tick passes.                              *)
LEMMA SwitchPreserves ==
  ASSUME SchedInv, fx # None, ~halted, NEW requeue \in BOOLEAN,
         ~NoSuccessor, Schedule(requeue), NEW n \in {0, 1}, Wait(n)
  PROVE  SchedInv'
<1> DEFINE next == Queued(0)
<1>1. Switched(requeue)
  BY SwitchQueue
<1>2. /\ next \in Task /\ current \in Task /\ next # current
      /\ state[next] = "ready" /\ state[current] = "running"
  BY <1>1, RoomForCurrent DEF Switched, SchedInv, TypeOK
<1>3. TypeOK /\ RunQueueExact /\ OneRunning /\ ContextOwned /\ BoundedWait
      /\ qLen \in 1 .. MaxTasks - 1
  BY RoomForCurrent, SchedAssumption DEF SchedInv, TypeOK, NoSuccessor
<1>4. /\ current' = next
      /\ state' = [state EXCEPT ![current] = IF requeue THEN "ready" ELSE "dead",
                                ![next] = "running"]
      /\ remaining' = Quantum
      /\ frame' = [frame EXCEPT ![current] = cpu]
      /\ cpu' = frame'[next]
      /\ fx' = next
      /\ fxArea' = [fxArea EXCEPT ![fx] = fpu]
      /\ fpu' = fxArea'[next]
      /\ rsp0' = stackTop[next]
      /\ syscallRsp' = stackTop[next]
      /\ halted' = halted
      /\ stackTop' = stackTop
  BY <1>1 DEF Schedule, Switched, SaveFrame, KernelStack
<1>5. \A t \in Task :
        state'[t] = IF t = next THEN "running"
                    ELSE IF t = current THEN (IF requeue THEN "ready" ELSE "dead")
                    ELSE state[t]
  BY <1>2, <1>3, <1>4 DEF TypeOK
<1>6. /\ fx = current /\ cpu = current /\ fpu = current
      /\ frame[next] = next /\ fxArea[next] = next
  BY <1>2, <1>3 DEF ContextOwned
<1>7. cpu' = next /\ fpu' = next /\ frame'[current] = current /\ fxArea'[current] = current
  BY <1>2, <1>3, <1>4, <1>6 DEF TypeOK
<1>8. \A t \in Task \ {current} : frame'[t] = frame[t] /\ fxArea'[t] = fxArea[t]
  BY <1>3, <1>4, <1>6 DEF TypeOK
<1>9. /\ waited' \in [Task -> Nat]
      /\ \A t \in Task : waited'[t] <= waited[t] + n
      /\ \A t \in Task : state[t] # "ready" \/ state'[t] # "ready" => waited'[t] = 0
  BY <1>3, WaitBound
<1> HIDE DEF next
<1>10. qLen' \in 0 .. MaxTasks
  BY <1>1, <1>3, SchedAssumption DEF Switched
<1>11. TypeOK'
  <2>1. state' \in [Task -> {"empty", "ready", "running", "dead"}]
    BY <1>2, <1>3, <1>4 DEF TypeOK
  <2>2. frame' \in [Task -> Task \cup {None}] /\ fxArea' \in [Task -> Task \cup {None}]
    BY <1>2, <1>3, <1>4, <1>6 DEF TypeOK
  <2>3. waited' \in [Task -> Nat]
    BY <1>3, <1>9 DEF TypeOK
  <2>4. rsp0' \in Task \cup {None, BootStack} /\ syscallRsp' \in Task \cup {None, BootStack}
    BY <1>2, <1>3, <1>4 DEF TypeOK
  <2>5. remaining' \in 1 .. Quantum
    BY <1>4, SchedAssumption
  <2> QED BY <2>1, <2>2, <2>3, <2>4, <2>5, <1>1, <1>2, <1>3, <1>4, <1>7, <1>10
         DEF TypeOK, Switched
<1>12. ASSUME NEW i \in 0 .. qLen - 2
       PROVE  /\ i + 1 \in 0 .. qLen - 1 /\ Queued(i)' = Queued(i + 1)
              /\ Queued(i + 1) \in Task /\ state[Queued(i + 1)] = "ready"
              /\ Queued(i + 1) # next /\ Queued(i + 1) # current
  <2>1. i + 1 \in 0 .. qLen - 1 /\ 0 \in 0 .. qLen - 1 /\ i + 1 # 0
    BY <1>3
  <2>2. Queued(i)' = Queued(i + 1)
    BY <1>1 DEF Switched
  <2>3. Queued(i + 1) \in Task
    BY <2>1, <1>3, QueuedType
  <2> QED BY <2>1, <2>2, <2>3, <1>2, <1>3 DEF RunQueueExact, next
<1>13. ASSUME NEW i \in 0 .. qLen' - 1, i \notin 0 .. qLen - 2
       PROVE  /\ requeue /\ i = qLen - 1 /\ qLen' = qLen /\ Queued(i)' = current
  <2>1. requeue /\ qLen' = qLen /\ i = qLen - 1
    BY <1>1, <1>3, <1>13 DEF Switched
  <2>2. Queued(qLen - 1)' = current
    BY <2>1, <1>1 DEF Switched
  <2> QED BY <2>1, <2>2
<1>14. RunQueueExact'
  <2>1. ASSUME NEW i \in 0 .. qLen' - 1
        PROVE  state'[Queued(i)'] = "ready"
    <3>1. CASE i \in 0 .. qLen - 2
      BY <3>1, <1>5, <1>12
    <3>2. CASE i \notin 0 .. qLen - 2
      BY <3>2, <1>2, <1>5, <1>13
    <3> QED BY <3>1, <3>2
  <2>2. ASSUME NEW i \in 0 .. qLen' - 1, NEW j \in 0 .. qLen' - 1,
               Queued(i)' = Queued(j)'
        PROVE  i = j
    <3>1. CASE i \in 0 .. qLen - 2 /\ j \in 0 .. qLen - 2
      <4>1. i + 1 = j + 1
        BY <3>1, <2>2, <1>3, <1>12 DEF RunQueueExact
      <4> QED BY <4>1
    <3>2. CASE i \in 0 .. qLen - 2 /\ j \notin 0 .. qLen - 2
      BY <3>2, <2>2, <1>12, <1>13
    <3>3. CASE i \notin 0 .. qLen - 2 /\ j \in 0 .. qLen - 2
      BY <3>3, <2>2, <1>12, <1>13
    <3>4. CASE i \notin 0 .. qLen - 2 /\ j \notin 0 .. qLen - 2
      BY <3>4, <1>13
    <3> QED BY <3>1, <3>2, <3>3, <3>4
  <2>3. ASSUME NEW t \in Task, state'[t] = "ready"
        PROVE  \E i \in 0 .. qLen' - 1 : Queued(i)' = t
    <3>1. CASE t = current
      <4>1. requeue
        BY <3>1, <2>3, <1>2, <1>5
      <4>2. qLen' = qLen /\ Queued(qLen - 1)' = current
        BY <4>1, <1>1 DEF Switched
      <4>3. qLen - 1 \in 0 .. qLen' - 1
        BY <4>2, <1>3
      <4> QED BY <3>1, <4>2, <4>3
    <3>2. CASE t # current
      <4>1. t # next /\ state[t] = "ready"
        BY <3>2, <2>3, <1>5
      <4>2. PICK j \in 0 .. qLen - 1 : Queued(j) = t
        BY <4>1, <1>3 DEF RunQueueExact
      <4>3. j # 0
        BY <4>1, <4>2 DEF next
      <4>4. j - 1 \in 0 .. qLen - 2 /\ (j - 1) + 1 = j /\ j - 1 \in 0 .. qLen' - 1
        BY <4>3, <1>1, <1>3 DEF Switched
      <4>5. Queued(j - 1)' = t
        BY <4>2, <4>4, <1>12
      <4> QED BY <4>4, <4>5
    <3> QED BY <3>1, <3>2
  <2> QED BY <2>1, <2>2, <2>3 DEF RunQueueExact
<1>15. OneRunning'
  <2>1. \A t \in Task : state[t] = "running" => t = current
    BY <1>3 DEF OneRunning
  <2>2. ASSUME NEW t \in Task
        PROVE  state'[t] = "running" <=> t = next
    BY <2>1, <1>5
  <2> QED BY <2>2, <1>4 DEF OneRunning
<1>16. ContextOwned'
  <2>1. ASSUME NEW t \in Task, state'[t] = "ready"
        PROVE  frame'[t] = t /\ fxArea'[t] = t
    <3>1. CASE t = current
      BY <3>1, <1>7
    <3>2. CASE t # current
      <4>1. state[t] = "ready"
        BY <3>2, <2>1, <1>5
      <4> QED BY <3>2, <4>1, <1>3, <1>8 DEF ContextOwned
    <3> QED BY <3>1, <3>2
  <2> QED BY <2>1, <1>4, <1>7 DEF ContextOwned
<1>17. BoundedWait'
  <2> SUFFICES ASSUME NEW i \in 0 .. qLen' - 1
               PROVE  waited'[Queued(i)'] + Quantum + i * Quantum <= (MaxTasks - 1) * Quantum
    BY <1>4 DEF BoundedWait
  <2>1. CASE i \in 0 .. qLen - 2
    <3>1. waited'[Queued(i)'] \in Nat /\ waited'[Queued(i)'] <= waited[Queued(i + 1)] + n
      BY <2>1, <1>9, <1>12
    <3>2. waited[Queued(i + 1)] + remaining + (i + 1) * Quantum <= (MaxTasks - 1) * Quantum
      BY <2>1, <1>3, <1>12 DEF BoundedWait
    <3>3. /\ waited[Queued(i + 1)] \in Nat /\ remaining \in Nat /\ remaining >= n
          /\ (i + 1) * Quantum = i * Quantum + Quantum /\ i * Quantum \in Nat
          /\ (MaxTasks - 1) * Quantum \in Nat
      BY <2>1, <1>3, <1>12, SchedAssumption DEF TypeOK
    <3> HIDE DEF next
    <3> QED BY <3>1, <3>2, <3>3, SchedAssumption
  <2>2. CASE i \notin 0 .. qLen - 2
    <3>1. i = qLen - 1 /\ Queued(i)' = current
      BY <2>2, <1>13
    <3>2. waited'[current] = 0
      BY <1>2, <1>9
    <3>3. Quantum + i * Quantum = qLen * Quantum
      BY <3>1, <1>3, SchedAssumption
    <3>4. qLen * Quantum <= (MaxTasks - 1) * Quantum
      BY <1>3, SchedAssumption, QuantumMonotone
    <3>5. i * Quantum \in Nat /\ qLen * Quantum \in Nat /\ (MaxTasks - 1) * Quantum \in Nat
      BY <3>1, <1>3, SchedAssumption
    <3> QED BY <3>1, <3>2, <3>3, <3>4, <3>5, SchedAssumption
  <2> QED BY <2>1, <2>2
<1>18. /\ UserEntryStack' /\ HaltOnlyWhenAlone' /\ (halted => qLen = 0)'
       /\ (state[UserTask] \in {"ready", "running"} => stackTop[UserTask] = UserTask)'
  <2>1. UserTask \in Task
    BY SchedAssumption DEF UserTask, Task
  <2>2. (state[UserTask] \in {"ready", "running"} => stackTop[UserTask] = UserTask)'
    BY <2>1, <1>2, <1>4, <1>5 DEF SchedInv
  <2>3. UserEntryStack'
    <3>1. state'[UserTask] = "running" => UserTask = next
      BY <2>1, <1>2, <1>3, <1>5 DEF OneRunning
    <3> QED BY <3>1, <1>2, <1>4 DEF SchedInv, UserEntryStack
  <2> QED BY <2>2, <2>3, <1>4 DEF HaltOnlyWhenAlone
<1>19. fx' # None
  BY <1>2, <1>4, SchedAssumption DEF Task, None
<1> QED BY <1>11, <1>14, <1>15, <1>16, <1>17, <1>18, <1>19 DEF SchedInv

(* The constants of the model are tasks, or are none. *)
LEMMA TaskFacts ==
  /\ BootTask \in Task /\ UserTask \in Task /\ BootTask # UserTask
  /\ BootTask \notin KernelThread /\ UserTask \notin KernelThread
  /\ KernelThread \subseteq Task /\ None \notin Task
  BY SchedAssumption DEF Task, BootTask, UserTask, KernelThread, None

(* Before init nothing is queued and the boot code runs. *)
LEMMA InitHolds == Init => SchedInv
<1> SUFFICES ASSUME Init PROVE SchedInv
  OBVIOUS
<1>1. TypeOK
  <2>1. 0 \in Task /\ 0 \in 0 .. MaxTasks /\ Quantum \in 1 .. Quantum
    BY SchedAssumption DEF Task
  <2> QED BY <2>1 DEF Init, TypeOK, BootTask
<1>2. RunQueueExact /\ BoundedWait
  BY DEF Init, RunQueueExact, BoundedWait
<1> QED BY <1>1, <1>2, TaskFacts
        DEF Init, SchedInv, OneRunning, ContextOwned, UserEntryStack, HaltOnlyWhenAlone

(* The timer, or a yield, that keeps the running task. *)
LEMMA KeepPreserves ==
  ASSUME SchedInv, fx # None, ~halted, NEW n \in {0, 1}, Wait(n),
         fxArea' = [fxArea EXCEPT ![fx] = fpu],
         UNCHANGED <<state, ringVars, current, halted, frame, cpu, fx, fpu, stackVars>>,
         \/ qLen = 0 /\ remaining' = Quantum
         \/ remaining' = remaining - n /\ remaining' > 0
  PROVE  SchedInv'
<1>1. /\ UNCHANGED <<state, queue, qHead, qLen, current, halted, frame, cpu, fx, fpu>>
      /\ UNCHANGED <<stackTop, rsp0, syscallRsp>>
  BY DEF ringVars, stackVars
<1>2. TypeOK /\ RunQueueExact /\ OneRunning /\ ContextOwned /\ BoundedWait
  BY DEF SchedInv
<1>3. waited' \in [Task -> Nat] /\ \A t \in Task : waited'[t] <= waited[t] + n
  BY <1>2, WaitBound
<1>4. fx = current /\ fpu = current /\ current \in Task
  BY <1>2 DEF ContextOwned, TypeOK
<1>5. TypeOK'
  <2>2. fxArea' \in [Task -> Task \cup {None}]
    BY <1>2, <1>4 DEF TypeOK
  <2>3. remaining' \in 1 .. Quantum
    BY <1>2, SchedAssumption DEF TypeOK
  <2> QED BY <2>2, <2>3, <1>1, <1>3, <1>2 DEF TypeOK
<1>6. RunQueueExact'
  BY <1>1, <1>2 DEF RunQueueExact, Queued, Slot
<1>7. ContextOwned'
  <2>1. \A t \in Task : fxArea[t] = t => fxArea'[t] = t
    BY <1>2, <1>4 DEF TypeOK
  <2> QED BY <2>1, <1>1, <1>2 DEF ContextOwned
<1>8. BoundedWait'
  <2> SUFFICES ASSUME NEW i \in 0 .. qLen - 1
               PROVE  waited'[Queued(i)] + remaining' + i * Quantum <= (MaxTasks - 1) * Quantum
    BY <1>1 DEF BoundedWait, Queued, Slot
  <2>1. remaining' = remaining - n
    BY <1>2 DEF TypeOK
  <2>2. /\ Queued(i) \in Task /\ waited'[Queued(i)] \in Nat
        /\ waited'[Queued(i)] <= waited[Queued(i)] + n
    BY <1>2, <1>3, QueuedType
  <2>3. waited[Queued(i)] + remaining + i * Quantum <= (MaxTasks - 1) * Quantum
    BY <1>2 DEF BoundedWait
  <2>4. /\ waited[Queued(i)] \in Nat /\ remaining \in Nat /\ i * Quantum \in Nat
        /\ (MaxTasks - 1) * Quantum \in Nat
    BY <1>2, <2>2, SchedAssumption DEF TypeOK
  <2> QED BY <2>1, <2>2, <2>3, <2>4
<1> QED BY <1>1, <1>2, <1>5, <1>6, <1>7, <1>8
        DEF SchedInv, OneRunning, UserEntryStack, HaltOnlyWhenAlone

(* The last task's exit. *)
LEMMA HaltPreserves ==
  ASSUME SchedInv, fx # None, ~halted, Wait(0), qLen = 0,
         state' = [state EXCEPT ![current] = "dead"],
         halted' = TRUE,
         fxArea' = [fxArea EXCEPT ![fx] = fpu],
         UNCHANGED <<ringVars, current, remaining, frame, cpu, fx, fpu, stackVars>>
  PROVE  SchedInv'
<1>1. UNCHANGED <<queue, qHead, qLen, current, remaining, frame, cpu, fx, fpu,
                  stackTop, rsp0, syscallRsp>>
  BY DEF ringVars, stackVars
<1>2. TypeOK /\ RunQueueExact /\ OneRunning /\ ContextOwned
  BY DEF SchedInv
<1>3. fx = current /\ fpu = current /\ current \in Task
  BY <1>2 DEF ContextOwned, TypeOK
<1>4. \A t \in Task : state[t] # "ready"
  BY <1>2 DEF RunQueueExact
<1>5. \A t \in Task : state'[t] \in {"empty", "dead"}
  <2> SUFFICES ASSUME NEW t \in Task PROVE state'[t] \in {"empty", "dead"}
    OBVIOUS
  <2>1. state[t] = "running" => t = current
    BY <1>2 DEF OneRunning
  <2> QED BY <2>1, <1>2, <1>4 DEF TypeOK
<1>6. TypeOK'
  <2>1. waited' \in [Task -> Nat]
    BY <1>2, WaitBound
  <2>2. /\ fxArea' \in [Task -> Task \cup {None}]
        /\ state' \in [Task -> {"empty", "ready", "running", "dead"}]
    BY <1>2, <1>3 DEF TypeOK
  <2> QED BY <2>1, <2>2, <1>1, <1>2 DEF TypeOK
<1>7. RunQueueExact' /\ BoundedWait'
  <2>1. \A i : i \notin 0 .. qLen' - 1
    BY <1>1
  <2> QED BY <2>1, <1>5 DEF RunQueueExact, BoundedWait
<1> QED BY <1>1, <1>2, <1>3, <1>5, <1>6, <1>7, TaskFacts
       DEF SchedInv, OneRunning, ContextOwned, UserEntryStack, HaltOnlyWhenAlone

(* spawn_user queues a task that was neither queued nor running. *)
LEMMA SpawnUserPreserves ==
  ASSUME SchedInv, SpawnUser
  PROVE  SchedInv'
<1>1. /\ fx # None /\ ~halted /\ current = BootTask /\ UserSlotFree
      /\ state' = [state EXCEPT ![UserTask] = "ready"]
      /\ queue' = Enqueue(UserTask)
      /\ qLen' = EnqueuedLen
      /\ frame' = [frame EXCEPT ![UserTask] = UserTask]
      /\ fxArea' = [fxArea EXCEPT ![UserTask] = UserTask]
      /\ stackTop' = [stackTop EXCEPT ![UserTask] = UserTask]
      /\ Wait(0)
      /\ UNCHANGED <<qHead, current, remaining, halted, cpu, fx, fpu, rsp0, syscallRsp>>
  BY DEF SpawnUser
<1>2. TypeOK /\ RunQueueExact /\ OneRunning /\ ContextOwned /\ BoundedWait
      /\ UserTask \in Task
  BY TaskFacts DEF SchedInv
<1>w. /\ waited' \in [Task -> Nat]
      /\ \A t \in Task : waited'[t] <= waited[t] + 0
      /\ \A t \in Task : state[t] # "ready" \/ state'[t] # "ready" => waited'[t] = 0
  BY <1>1, <1>2, WaitBound
<1>3. qLen + 2 <= MaxTasks /\ qLen \in Nat /\ state[UserTask] \in {"empty", "dead"}
  BY <1>1, <1>2, RoomForUser DEF TypeOK, UserSlotFree
<1>4. /\ queue' \in [Task -> Task] /\ qLen' = qLen + 1
      /\ queue'[Slot(qLen)] = UserTask
      /\ \A i \in 0 .. qLen - 1 : queue'[Slot(i)] = Queued(i)
  <2>1. qLen < MaxTasks
    BY <1>3, SchedAssumption
  <2> QED BY <2>1, <1>1, <1>2, EnqueueAppends
<1>5. ASSUME NEW i \in 0 .. qLen' - 1
      PROVE  Queued(i)' = IF i = qLen THEN UserTask ELSE Queued(i)
  <2>1. Queued(i)' = queue'[Slot(i)]
    BY <1>1 DEF Queued, Slot
  <2>2. i # qLen => i \in 0 .. qLen - 1
    BY <1>3, <1>4
  <2> QED BY <2>1, <2>2, <1>4
<1>6. \A t \in Task : state'[t] = IF t = UserTask THEN "ready" ELSE state[t]
  BY <1>1, <1>2 DEF TypeOK
<1>7. ASSUME NEW i \in 0 .. qLen - 1
      PROVE  Queued(i) \in Task /\ state[Queued(i)] = "ready" /\ Queued(i) # UserTask
  BY <1>2, <1>3, QueuedType DEF RunQueueExact
<1>8. TypeOK'
  <2>1. waited' \in [Task -> Nat]
    BY <1>w
  <2>2. qLen' \in 0 .. MaxTasks
    BY <1>3, <1>4, SchedAssumption
  <2> QED BY <2>1, <2>2, <1>1, <1>2, <1>4 DEF TypeOK
<1>9. RunQueueExact'
  <2>1. ASSUME NEW i \in 0 .. qLen' - 1
        PROVE  state'[Queued(i)'] = "ready" /\ (i # qLen => i \in 0 .. qLen - 1)
    <3>1. i # qLen => i \in 0 .. qLen - 1
      BY <1>3, <1>4
    <3> QED BY <3>1, <1>2, <1>5, <1>6, <1>7
  <2>2. ASSUME NEW i \in 0 .. qLen' - 1, NEW j \in 0 .. qLen' - 1,
               Queued(i)' = Queued(j)'
        PROVE  i = j
    BY <2>1, <2>2, <1>2, <1>5, <1>7 DEF RunQueueExact
  <2>3. ASSUME NEW t \in Task, state'[t] = "ready"
        PROVE  \E i \in 0 .. qLen' - 1 : Queued(i)' = t
    <3>1. CASE t = UserTask
      <4>1. qLen \in 0 .. qLen' - 1
        BY <1>3, <1>4
      <4>2. queue'[Slot(qLen)] = t /\ qHead' = qHead
        BY <3>1, <1>1, <1>4
      <4>3. ASSUME NEW i \in 0 .. qLen' - 1, i = qLen
            PROVE  Queued(i)' = t
        BY <4>3, <3>1, <1>5
      <4> QED BY <4>1, <4>3
    <3>2. CASE t # UserTask
      <4>1. PICK j \in 0 .. qLen - 1 : Queued(j) = t
        BY <3>2, <2>3, <1>2, <1>6 DEF RunQueueExact
      <4>2. j \in 0 .. qLen' - 1 /\ j # qLen
        BY <1>3, <1>4
      <4> QED BY <4>1, <4>2, <1>5
    <3> QED BY <3>1, <3>2
  <2> QED BY <2>1, <2>2, <2>3 DEF RunQueueExact
<1>10. BoundedWait'
  <2> SUFFICES ASSUME NEW i \in 0 .. qLen' - 1
               PROVE  waited'[Queued(i)'] + remaining + i * Quantum <= (MaxTasks - 1) * Quantum
    BY <1>1 DEF BoundedWait
  <2>1. CASE i # qLen
    <3>1. i \in 0 .. qLen - 1
      BY <2>1, <1>3, <1>4
    <3>1a. Queued(i)' = Queued(i) /\ Queued(i) \in Task
      BY <2>1, <3>1, <1>1, <1>2, <1>5, <1>6, <1>7 DEF TypeOK
    <3>2. /\ waited'[Queued(i)'] <= waited[Queued(i)]
          /\ waited[Queued(i)] \in Nat /\ waited'[Queued(i)'] \in Nat
      BY <3>1a, <1>w, <1>2 DEF TypeOK
    <3>3. waited[Queued(i)] + remaining + i * Quantum <= (MaxTasks - 1) * Quantum
      BY <3>1, <1>2 DEF BoundedWait
    <3>4. remaining \in Nat /\ i * Quantum \in Nat /\ (MaxTasks - 1) * Quantum \in Nat
      BY <3>1, <1>2, SchedAssumption DEF TypeOK
    <3> QED BY <3>2, <3>3, <3>4
  <2>2. CASE i = qLen
    <3>1. waited'[Queued(i)'] = 0
      BY <2>2, <1>w, <1>2, <1>3, <1>5
    <3>2. (i + 1) * Quantum <= (MaxTasks - 1) * Quantum
      <4>1. i + 1 \in Nat /\ MaxTasks - 1 \in Nat /\ i + 1 <= MaxTasks - 1
        BY <2>2, <1>3, SchedAssumption
      <4> QED BY <4>1, QuantumMonotone
    <3>3. (i + 1) * Quantum = i * Quantum + Quantum /\ i * Quantum \in Nat
      BY SchedAssumption
    <3>4. remaining \in 1 .. Quantum /\ (MaxTasks - 1) * Quantum \in Int
      BY <1>2, SchedAssumption DEF TypeOK
    <3> QED BY <3>1, <3>2, <3>3, <3>4, SchedAssumption
  <2> QED BY <2>1, <2>2
<1>11. ContextOwned'
  BY <1>1, <1>2, <1>6 DEF ContextOwned, TypeOK
<1>12. OneRunning'
  <2>1. \A t \in Task : state[t] = "running" <=> t = current
    BY <1>1, <1>2 DEF OneRunning
  <2>2. current # UserTask
    BY <1>1, TaskFacts
  <2> QED BY <2>1, <2>2, <1>1, <1>6 DEF OneRunning
<1> QED BY <1>1, <1>2, <1>6, <1>8, <1>9, <1>10, <1>11, <1>12
       DEF SchedInv, UserEntryStack, HaltOnlyWhenAlone, TypeOK

(* init leaves the boot task running and the kernel threads queued. *)
LEMMA InitSchedPreserves ==
  ASSUME SchedInv, InitSched
  PROVE  SchedInv'
<1>1. /\ fx = None
      /\ state' = [t \in Task |-> IF t = BootTask THEN "running"
                                  ELSE IF t \in KernelThread THEN "ready"
                                  ELSE "empty"]
      /\ queue' = [i \in Task |-> IF i < MaxTasks - 2 THEN i + 1 ELSE 0]
      /\ qLen' = MaxTasks - 2
      /\ fx' = BootTask
      /\ frame' = [t \in Task |-> IF t \in KernelThread THEN t ELSE None]
      /\ fxArea' = [t \in Task |-> IF t \in KernelThread THEN t ELSE None]
      /\ stackTop' = [t \in Task |-> IF t \in KernelThread THEN t ELSE None]
      /\ syscallRsp' = BootStack
      /\ remaining' = Quantum
      /\ Wait(0)
      /\ UNCHANGED <<qHead, current, halted, cpu, fpu, rsp0>>
  BY DEF InitSched
<1>2. /\ TypeOK /\ ContextOwned
      /\ \A t \in Task : state[t] = "empty"
      /\ qHead = 0 /\ current = BootTask /\ ~halted
  BY <1>1 DEF SchedInv
<1>3. waited' \in [Task -> Nat] /\ \A t \in Task : waited'[t] = 0
  BY <1>1, <1>2, WaitBound
<1>4. ASSUME NEW i \in 0 .. qLen' - 1
      PROVE  /\ Queued(i)' = i + 1 /\ i + 1 \in KernelThread /\ i + 1 <= MaxTasks - 1
  <2>1. i \in Task /\ i < MaxTasks - 2 /\ i \in 0 .. MaxTasks /\ 0 \in Task
    BY <1>1, SchedAssumption DEF Task
  <2>2. (0 + i) % MaxTasks = i
    BY <2>1, ModWrap, SchedAssumption
  <2>3. Queued(i)' = queue'[i]
    BY <1>1, <1>2, <2>2 DEF Queued, Slot
  <2>4. queue'[i] = i + 1
    BY <1>1, <2>1
  <2> QED BY <2>1, <2>3, <2>4, SchedAssumption DEF KernelThread
<1>5. TypeOK'
  <2>1. 0 \in Task /\ Quantum \in 1 .. Quantum /\ qLen' \in 0 .. MaxTasks
    BY <1>1, SchedAssumption DEF Task
  <2>2. queue' \in [Task -> Task]
    BY <1>1, <2>1, SchedAssumption DEF Task
  <2>3. \A t \in Task : (IF t \in KernelThread THEN t ELSE None) \in Task \cup {None}
    OBVIOUS
  <2>4. /\ frame' \in [Task -> Task \cup {None}] /\ fxArea' \in [Task -> Task \cup {None}]
        /\ stackTop' \in [Task -> Task \cup {None}]
    BY <1>1, <2>3
  <2>5. state' \in [Task -> {"empty", "ready", "running", "dead"}]
    BY <1>1
  <2>6. waited' \in [Task -> Nat]
    BY <1>3
  <2> QED BY <2>1, <2>2, <2>4, <2>5, <2>6, <1>1, <1>2, TaskFacts DEF TypeOK
<1>6. RunQueueExact'
  <2>1. ASSUME NEW i \in 0 .. qLen' - 1
        PROVE  state'[Queued(i)'] = "ready"
    BY <1>1, <1>4, TaskFacts
  <2>2. ASSUME NEW i \in 0 .. qLen' - 1, NEW j \in 0 .. qLen' - 1,
               Queued(i)' = Queued(j)'
        PROVE  i = j
    BY <2>2, <1>4
  <2>3. ASSUME NEW t \in Task, state'[t] = "ready"
        PROVE  \E i \in 0 .. qLen' - 1 : Queued(i)' = t
    <3>1. t \in KernelThread
      BY <2>3, <1>1
    <3>2. t - 1 \in 0 .. qLen' - 1 /\ (t - 1) + 1 = t
      BY <3>1, <1>1, SchedAssumption DEF KernelThread
    <3> QED BY <3>2, <1>4
  <2> QED BY <2>1, <2>2, <2>3 DEF RunQueueExact
<1>7. BoundedWait'
  <2> SUFFICES ASSUME NEW i \in 0 .. qLen' - 1
               PROVE  waited'[Queued(i)'] + Quantum + i * Quantum <= (MaxTasks - 1) * Quantum
    BY <1>1 DEF BoundedWait
  <2>1. waited'[Queued(i)'] = 0
    BY <1>3, <1>4, TaskFacts
  <2>2. (i + 1) * Quantum <= (MaxTasks - 1) * Quantum
    <3>1. i + 1 \in Nat /\ MaxTasks - 1 \in Nat
      BY SchedAssumption
    <3> QED BY <3>1, <1>4, QuantumMonotone
  <2>3. (i + 1) * Quantum = i * Quantum + Quantum /\ i * Quantum \in Nat
    BY SchedAssumption
  <2> QED BY <2>1, <2>2, <2>3, SchedAssumption
<1>8. ContextOwned' /\ OneRunning'
  BY <1>1, <1>2, TaskFacts DEF ContextOwned, OneRunning, BootTask
<1>9. state'[UserTask] = "empty" /\ fx' # None
  BY <1>1, TaskFacts
<1> QED BY <1>1, <1>2, <1>5, <1>6, <1>7, <1>8, <1>9
        DEF SchedInv, UserEntryStack, HaltOnlyWhenAlone

(* Every step of the scheduler preserves the invariant. *)
LEMMA StepPreserves == SchedInv /\ [Next]_vars => SchedInv'
<1> SUFFICES ASSUME SchedInv, [Next]_vars PROVE SchedInv'
  OBVIOUS
<1>1. ASSUME NEW requeue \in BOOLEAN, NEW n \in {0, 1}, fx # None, ~halted,
             requeue \/ n = 0, Schedule(requeue), Wait(n)
      PROVE  SchedInv'
  <2>1. CASE ~NoSuccessor
    BY <2>1, <1>1, SwitchPreserves
  <2>2. CASE NoSuccessor /\ requeue
    <3>1. /\ qLen = 0 /\ remaining' = Quantum
          /\ fxArea' = [fxArea EXCEPT ![fx] = fpu]
          /\ UNCHANGED <<state, ringVars, current, halted, frame, cpu, fx, fpu, stackVars>>
      BY <2>2, <1>1 DEF Schedule, NoSuccessor
    <3> QED BY <3>1, <1>1, KeepPreserves
  <2>3. CASE NoSuccessor /\ ~requeue
    <3>1. /\ qLen = 0 /\ halted' = TRUE /\ Wait(0)
          /\ state' = [state EXCEPT ![current] = "dead"]
          /\ fxArea' = [fxArea EXCEPT ![fx] = fpu]
          /\ UNCHANGED <<ringVars, current, remaining, frame, cpu, fx, fpu, stackVars>>
      BY <2>3, <1>1 DEF Schedule, NoSuccessor
    <3> QED BY <3>1, <1>1, HaltPreserves
  <2> QED BY <2>1, <2>2, <2>3
<1>2. CASE InitSched
  BY <1>2, InitSchedPreserves
<1>3. CASE Tick
  <2>1. CASE Schedule(TRUE)
    BY <2>1, <1>1, <1>3 DEF Tick
  <2>2. CASE ~Schedule(TRUE)
    <3>1. /\ Charged > 0 /\ remaining' = Charged /\ fx # None /\ ~halted /\ Wait(1)
          /\ fxArea' = [fxArea EXCEPT ![fx] = fpu]
          /\ UNCHANGED <<state, ringVars, current, halted, frame, cpu, fx, fpu, stackVars>>
      BY <2>2, <1>3 DEF Tick
    <3>2. remaining' = remaining - 1 /\ remaining' > 0
      BY <3>1, SchedAssumption DEF Charged, SchedInv, TypeOK
    <3> QED BY <3>1, <3>2, KeepPreserves
  <2> QED BY <2>1, <2>2
<1>4. CASE Yield
  BY <1>4, <1>1 DEF Yield
<1>5. CASE Exit
  BY <1>5, <1>1 DEF Exit
<1>6. CASE SpawnUser
  BY <1>6, SpawnUserPreserves
<1>7. CASE UNCHANGED vars
  <2>1. /\ UNCHANGED <<state, queue, qHead, qLen, current, remaining, halted, frame>>
        /\ UNCHANGED <<cpu, fx, fxArea, fpu, stackTop, rsp0, syscallRsp, waited>>
    BY <1>7 DEF vars, ringVars, stackVars
  <2> QED BY <2>1 DEF SchedInv, TypeOK, RunQueueExact, OneRunning, ContextOwned,
             UserEntryStack, BoundedWait, HaltOnlyWhenAlone, Queued, Slot
<1> QED BY <1>2, <1>3, <1>4, <1>5, <1>6, <1>7 DEF Next

-----------------------------------------------------------------------------

(* The invariant holds in every reachable state, for any number of task    *)
(* slots, any quantum and any set of tasks that may exit.                  *)
THEOREM SchedSafety == Spec => []SchedInv
<1>1. Init => SchedInv
  BY InitHolds
<1>2. SchedInv /\ [Next]_vars => SchedInv'
  BY StepPreserves
<1> QED BY <1>1, <1>2, PTL DEF Spec

(* The run queue of sched.rs never loses, drops or duplicates a task. *)
THEOREM RunQueueTheorem == Spec => []RunQueueExact
<1>1. SchedInv => RunQueueExact
  BY DEF SchedInv
<1> QED BY <1>1, SchedSafety, PTL

(* A switch always resumes the saved context of the task it makes CURRENT. *)
THEOREM ContextTheorem == Spec => []ContextOwned
<1>1. SchedInv => ContextOwned
  BY DEF SchedInv
<1> QED BY <1>1, SchedSafety, PTL

(* A READY task waits at most the full quanta of all the other tasks. *)
THEOREM BoundedWaitTheorem == Spec => []BoundedWait
<1>1. SchedInv => BoundedWait
  BY DEF SchedInv
<1> QED BY <1>1, SchedSafety, PTL

(* No step but spawn_user revives a dead task: a stale ring entry would.   *)
THEOREM DeadTheorem == Spec => DeadStaysDead
<1> DEFINE Legal == \A t \in Task : state[t] = "dead" /\ state'[t] # "dead" => Respawns(t)
<1>1. SchedInv /\ [Next]_vars => [Legal]_vars
  <2> SUFFICES ASSUME SchedInv, Next, NEW t \in Task, state[t] = "dead", state'[t] # "dead"
               PROVE  Respawns(t)
    OBVIOUS
  <2>1. TypeOK
    BY DEF SchedInv
  <2>2. ASSUME NEW requeue \in BOOLEAN, fx # None, ~halted, Schedule(requeue)
        PROVE  FALSE
    <3>1. CASE ~NoSuccessor
      <4>1. Switched(requeue)
        BY <2>2, <3>1, SwitchQueue
      <4>2. state' = [state EXCEPT ![current] = IF requeue THEN "ready" ELSE "dead",
                                   ![Queued(0)] = "running"]
        BY <2>2, <3>1, <4>1 DEF Schedule, Switched
      <4>3. state[current] = "running" /\ state[Queued(0)] = "ready"
        BY <2>2, <4>1, RoomForCurrent DEF Switched
      <4>4. t # current /\ t # Queued(0)
        BY <4>3
      <4> QED BY <2>1, <4>2, <4>4 DEF TypeOK
    <3>2. CASE NoSuccessor
      BY <2>1, <2>2, <3>2 DEF Schedule, TypeOK
    <3> QED BY <3>1, <3>2
  <2>3. CASE InitSched
    BY <2>3 DEF InitSched, SchedInv
  <2>4. CASE Tick
    BY <2>2, <2>4 DEF Tick
  <2>5. CASE Yield
    BY <2>2, <2>5 DEF Yield
  <2>6. CASE Exit
    BY <2>2, <2>6 DEF Exit
  <2>7. CASE SpawnUser
    BY <2>1, <2>7 DEF SpawnUser, Respawns, TypeOK
  <2> QED BY <2>3, <2>4, <2>5, <2>6, <2>7 DEF Next
<1> QED BY <1>1, SchedSafety, PTL DEF Spec, DeadStaysDead

-----------------------------------------------------------------------------
(* The ring implements the round-robin queue. *)

(* Ready is the sequence of the tasks in the ring. *)
ReadySeq ==
  /\ Ready \in Seq(Task) /\ Len(Ready) = qLen /\ qLen \in Nat
  /\ Ready = <<>> <=> qLen = 0
  /\ \A i \in 1 .. qLen : Ready[i] = Queued(i - 1)

(* The ring's types make it one. *)
LEMMA ReadyIsSeq == TypeOK => ReadySeq
<1> SUFFICES ASSUME TypeOK PROVE ReadySeq
  OBVIOUS
<1>1. qLen \in Nat
  BY SchedAssumption DEF TypeOK
<1>2. ASSUME NEW i \in 1 .. qLen
      PROVE  Queued(i - 1) \in Task
  <2>1. i - 1 \in 0 .. qLen - 1
    BY <1>1
  <2> QED BY <2>1, QueuedType
<1>3. Ready \in [1 .. qLen -> Task]
  BY <1>2 DEF Ready
<1> QED BY <1>1, <1>3, FunctionIsSeq DEF Ready, ReadySeq

(* A queued task is one of the READY ones, and the other way round. *)
LEMMA WaitingIsReady ==
  ASSUME SchedInv, NEW t \in Task
  PROVE  Abstract!Waiting(t) <=> state[t] = "ready"
<1>1. /\ Len(Ready) = qLen /\ qLen \in Nat
      /\ \A i \in 1 .. qLen : Ready[i] = Queued(i - 1)
  BY ReadyIsSeq DEF SchedInv, ReadySeq
<1>2. ASSUME NEW i \in 1 .. qLen, Ready[i] = t
      PROVE  state[t] = "ready"
  <2>1. i - 1 \in 0 .. qLen - 1
    BY <1>1
  <2> QED BY <1>1, <1>2, <2>1 DEF SchedInv, RunQueueExact
<1>3. ASSUME state[t] = "ready"
      PROVE  \E i \in 1 .. qLen : Ready[i] = t
  <2>1. PICK j \in 0 .. qLen - 1 : Queued(j) = t
    BY <1>3 DEF SchedInv, RunQueueExact
  <2>2. j + 1 \in 1 .. qLen /\ (j + 1) - 1 = j
    BY <1>1
  <2> QED BY <1>1, <2>1, <2>2
<1> QED BY <1>1, <1>2, <1>3 DEF Abstract!Waiting

(* A switch rotates the queue, or takes its front task. *)
LEMMA SwitchImplements ==
  ASSUME SchedInv, SchedInv', fx # None, ~halted, NEW requeue \in BOOLEAN,
         ~NoSuccessor, Schedule(requeue)
  PROVE  Abstract!Next
<1>1. Switched(requeue)
  BY SwitchQueue
<1>2. /\ Ready \in Seq(Task) /\ Len(Ready) = qLen /\ qLen \in Nat \ {0} /\ Ready # <<>>
      /\ \A i \in 1 .. qLen : Ready[i] = Queued(i - 1)
  BY ReadyIsSeq DEF SchedInv, NoSuccessor, ReadySeq
<1>3. /\ Ready' \in Seq(Task) /\ Len(Ready') = qLen'
      /\ \A i \in 1 .. qLen' : Ready'[i] = Queued(i - 1)'
  <2>1. TypeOK'
    BY DEF SchedInv
  <2>2. ReadySeq'
    BY <2>1, ReadyIsSeq, PTL
  <2> QED BY <2>2 DEF ReadySeq
<1>4. current' = Head(Ready) /\ halted' = halted
  <2>1. Head(Ready) = Queued(0)
    BY <1>2
  <2> QED BY <1>1, <2>1 DEF Schedule, Switched
<1>5. \A i \in 1 .. qLen - 1 : i \in 1 .. qLen' => Ready'[i] = Ready[i + 1]
  <2> SUFFICES ASSUME NEW i \in 1 .. qLen - 1, i \in 1 .. qLen'
               PROVE  Ready'[i] = Ready[i + 1]
    OBVIOUS
  <2>1. i - 1 \in 0 .. qLen - 2 /\ i + 1 \in 1 .. qLen /\ (i - 1) + 1 = i /\ (i + 1) - 1 = i
    BY <1>2
  <2>2. Queued(i - 1)' = Queued(i)
    BY <1>1, <2>1 DEF Switched
  <2> QED BY <1>2, <1>3, <2>1, <2>2
<1>6. CASE requeue
  <2>1. qLen' = qLen /\ Queued(qLen - 1)' = current /\ current \in Task
    BY <1>1, <1>6 DEF Switched, SchedInv, TypeOK
  <2>2. Len(Ready') = Len(Ready) /\ Ready'[Len(Ready')] = current
    BY <1>2, <1>3, <2>1
  <2>3. \A i \in 1 .. Len(Ready) - 1 : Ready'[i] = Ready[i + 1]
    BY <1>2, <1>5, <2>1
  <2>4. Ready' = Append(Tail(Ready), current)
    BY <1>2, <1>3, <2>1, <2>2, <2>3, RotateQueue
  <2> QED BY <1>2, <1>4, <2>4 DEF Abstract!Next, Abstract!Rotate
<1>7. CASE ~requeue
  <2>1. qLen' = qLen - 1
    BY <1>1, <1>7 DEF Switched
  <2>2. Len(Ready') = Len(Ready) - 1 /\ \A i \in 1 .. Len(Ready') : Ready'[i] = Ready[i + 1]
    BY <1>2, <1>3, <1>5, <2>1
  <2>3. Ready' = Tail(Ready)
    BY <1>2, <1>3, <2>2, TakeFront
  <2> QED BY <1>2, <1>4, <2>3 DEF Abstract!Next, Abstract!Leave
<1> QED BY <1>6, <1>7

(* Every other way through schedule stops the queue or leaves it alone. *)
LEMMA ScheduleImplements ==
  ASSUME SchedInv, SchedInv', fx # None, ~halted, NEW requeue \in BOOLEAN, Schedule(requeue)
  PROVE  Abstract!Next \/ UNCHANGED Abstract!vars
<1>1. CASE ~NoSuccessor
  BY <1>1, SwitchImplements
<1>2. CASE NoSuccessor
  <2>1. Ready = <<>> /\ UNCHANGED <<queue, qHead, qLen, current>>
    BY <1>2, ReadyIsSeq DEF Schedule, NoSuccessor, ringVars, SchedInv, ReadySeq
  <2>2. Ready' = Ready
    BY <2>1 DEF Ready, Queued, Slot
  <2>3. CASE requeue
    BY <1>2, <2>1, <2>2, <2>3 DEF Schedule, Abstract!vars
  <2>4. CASE ~requeue
    BY <1>2, <2>1, <2>2, <2>4 DEF Schedule, Abstract!Next, Abstract!Stop
  <2> QED BY <2>3, <2>4
<1> QED BY <1>1, <1>2

(* Every step of the scheduler is a step of the round-robin queue, or      *)
(* leaves it as it is.                                                     *)
LEMMA StepImplements ==
  ASSUME SchedInv, SchedInv', [Next]_vars
  PROVE  Abstract!Next \/ UNCHANGED Abstract!vars
<1>1. /\ Ready' \in Seq(Task) /\ Len(Ready') = qLen'
      /\ \A i \in 1 .. qLen' : Ready'[i] = Queued(i - 1)'
  <2>1. TypeOK'
    BY DEF SchedInv
  <2>2. ReadySeq'
    BY <2>1, ReadyIsSeq, PTL
  <2> QED BY <2>2 DEF ReadySeq
<1>2. CASE InitSched
  <2> DEFINE threads == [i \in 1 .. MaxTasks - 2 |-> i]
  <2>1. qHead = 0 /\ qLen = 0 /\ ~halted /\ TypeOK
    BY <1>2 DEF InitSched, SchedInv
  <2>2. Ready = <<>>
    BY <2>1, ReadyIsSeq DEF ReadySeq
  <2>3. threads \in [1 .. MaxTasks - 2 -> Task] /\ MaxTasks - 2 \in Nat
    BY SchedAssumption DEF Task
  <2>4. threads \in Seq(Task) /\ Len(threads) = MaxTasks - 2
    BY <2>3, FunctionIsSeq
  <2>5. ASSUME NEW i \in 1 .. MaxTasks - 2
        PROVE  Ready'[i] = threads[i]
    <3>1. i - 1 \in Task /\ i - 1 \in 0 .. MaxTasks /\ 0 \in Task
      BY SchedAssumption DEF Task
    <3>2. (0 + (i - 1)) % MaxTasks = i - 1
      BY <3>1, SchedAssumption DEF Task
    <3>3. Queued(i - 1)' = queue'[i - 1]
      BY <1>2, <2>1, <3>2 DEF InitSched, Queued, Slot
    <3>4. queue'[i - 1] = i
      BY <1>2, <3>1, SchedAssumption DEF InitSched
    <3> QED BY <1>1, <1>2, <3>3, <3>4 DEF InitSched
  <2>6. Len(Ready') = MaxTasks - 2
    BY <1>1, <1>2 DEF InitSched
  <2>7. Ready' = threads
    <3> HIDE DEF threads
    <3> QED BY <1>1, <2>4, <2>5, <2>6, SeqEqual
  <2> QED BY <1>2, <2>1, <2>2, <2>7 DEF InitSched, Abstract!Next, Abstract!Start
<1>3. CASE Tick
  <2>1. CASE Schedule(TRUE)
    BY <1>3, <2>1, ScheduleImplements DEF Tick
  <2>2. CASE ~Schedule(TRUE)
    <3>1. UNCHANGED <<queue, qHead, qLen, current, halted>>
      BY <1>3, <2>2 DEF Tick, ringVars
    <3>2. Ready' = Ready
      BY <3>1 DEF Ready, Queued, Slot
    <3> QED BY <3>1, <3>2 DEF Abstract!vars
  <2> QED BY <2>1, <2>2
<1>4. CASE Yield
  BY <1>4, ScheduleImplements DEF Yield
<1>5. CASE Exit
  BY <1>5, ScheduleImplements DEF Exit
<1>6. CASE SpawnUser
  <2>1. /\ UserTask \in Task /\ UserTask # current /\ ~Abstract!Waiting(UserTask)
    <3>1. UserTask \in Task /\ UserTask # BootTask
      BY SchedAssumption DEF UserTask, BootTask, Task
    <3>2. state[UserTask] # "ready"
      BY <1>6 DEF SpawnUser, UserSlotFree
    <3> QED BY <1>6, <3>1, <3>2, WaitingIsReady DEF SpawnUser
  <2>2. TypeOK /\ qLen < MaxTasks /\ qLen \in Nat /\ ~halted
    <3>1. fx # None /\ ~halted /\ current = BootTask /\ UserSlotFree
      BY <1>6 DEF SpawnUser
    <3>2. TypeOK
      BY DEF SchedInv
    <3>3. qLen \in Nat
      BY <3>2, SchedAssumption DEF TypeOK
    <3>4. qLen + 2 <= MaxTasks
      BY <3>1, RoomForUser
    <3> QED BY <3>1, <3>2, <3>3, <3>4, SchedAssumption
  <2>3. /\ queue' = Enqueue(UserTask) /\ qHead' = qHead /\ qLen' = qLen + 1
        /\ current' = current /\ halted' = halted
    BY <1>6, <2>1, <2>2, EnqueueAppends DEF SpawnUser
  <2>4. /\ queue'[Slot(qLen)] = UserTask
        /\ \A i \in 0 .. qLen - 1 : queue'[Slot(i)] = Queued(i)
    BY <2>1, <2>2, <2>3, EnqueueAppends
  <2>5. /\ Ready \in Seq(Task) /\ Len(Ready) = qLen
        /\ \A i \in 1 .. qLen : Ready[i] = Queued(i - 1)
    BY <2>2, ReadyIsSeq DEF ReadySeq
  <2>6. \A i \in 0 .. qLen : Queued(i)' = queue'[Slot(i)]
    BY <2>3 DEF Queued, Slot
  <2>7. Ready'[Len(Ready')] = UserTask
    <3>1. (qLen + 1) - 1 = qLen /\ qLen + 1 \in 1 .. qLen'
      BY <2>2, <2>3
    <3> QED BY <1>1, <2>2, <2>3, <2>4, <2>6, <3>1
  <2>8. \A i \in 1 .. Len(Ready) : Ready'[i] = Ready[i]
    <3> SUFFICES ASSUME NEW i \in 1 .. qLen PROVE Ready'[i] = Ready[i]
      BY <2>5
    <3>1. i - 1 \in 0 .. qLen - 1 /\ i - 1 \in 0 .. qLen /\ i \in 1 .. qLen'
      BY <2>2, <2>3
    <3> QED BY <1>1, <2>4, <2>5, <2>6, <3>1
  <2>9. Ready' = Append(Ready, UserTask)
    <3>1. Ready' \in Seq(Task) /\ Len(Ready') = Len(Ready) + 1
      BY <1>1, <2>3, <2>5
    <3> QED BY <2>1, <2>5, <2>7, <2>8, <3>1, PutBehind
  <2> QED BY <2>1, <2>2, <2>3, <2>9 DEF Abstract!Next, Abstract!Admit
<1>7. CASE UNCHANGED vars
  <2>1. UNCHANGED <<queue, qHead, qLen, current, halted>>
    BY <1>7 DEF vars, ringVars
  <2>2. Ready' = Ready
    BY <2>1 DEF Ready, Queued, Slot
  <2> QED BY <2>1, <2>2 DEF Abstract!vars
<1> QED BY <1>2, <1>3, <1>4, <1>5, <1>6, <1>7 DEF Next

(* The ring of sched.rs, with its head and length, its preemption, exits   *)
(* and respawns, is a first-come queue in which a preempted task goes to   *)
(* the back, for every number of tasks.                                    *)
THEOREM RoundRobinTheorem == Spec => Abstract!Spec
<1>1. Init => Abstract!Init
  <2> SUFFICES ASSUME Init PROVE Abstract!Init
    OBVIOUS
  <2>1. TypeOK
    BY InitHolds DEF SchedInv
  <2> QED BY <2>1, ReadyIsSeq DEF Init, Abstract!Init, ReadySeq
<1>2. SchedInv /\ SchedInv' /\ [Next]_vars => [Abstract!Next]_(Abstract!vars)
  BY StepImplements
<1> QED BY <1>1, <1>2, SchedSafety, PTL DEF Spec, Abstract!Spec
=============================================================================
