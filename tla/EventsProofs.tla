---------------------------- MODULE EventsProofs ----------------------------
(***************************************************************************)
(* Proofs about the ports (Ipc), for any number of ports and tasks, any    *)
(* queue length and any values, and about the tasks that use them          *)
(* (Events): they use the ports only in the ways Ipc allows, so what is    *)
(* proved of the ports holds of them in use, and no event they send is     *)
(* lost, repeated or overtaken.                                            *)
(***************************************************************************)
EXTENDS Events, TLAPS

(* Steps are tried with Zenon first, which is the faster where no          *)
(* arithmetic is needed, then with SMT, then with Zenon for longer.        *)
USE ZenonT(3), SMTT(30), ZenonT(30), Z3T(30)

-----------------------------------------------------------------------------
(* The rings are compared with queues, element by element. *)

(* Equal sequences have equal elements in equal places. *)
LEMMA SeqEqual ==
  ASSUME NEW S, NEW s \in Seq(S), NEW t \in Seq(S),
         Len(s) = Len(t), \A i \in 1 .. Len(s) : s[i] = t[i]
  PROVE  s = t
  OBVIOUS

(* What Append returns. *)
LEMMA AppendProperties ==
  ASSUME NEW S, NEW s \in Seq(S), NEW x \in S
  PROVE  /\ Append(s, x) \in Seq(S) /\ Len(s) \in Nat /\ Len(Append(s, x)) = Len(s) + 1
         /\ \A i \in 1 .. Len(s) : Append(s, x)[i] = s[i]
         /\ Append(s, x)[Len(s) + 1] = x
  OBVIOUS

(* What Tail returns. *)
LEMMA HeadTailProperties ==
  ASSUME NEW S, NEW s \in Seq(S), s # <<>>
  PROVE  /\ Head(s) \in S /\ Tail(s) \in Seq(S) /\ Len(Tail(s)) = Len(s) - 1
         /\ \A i \in 1 .. Len(Tail(s)) : Tail(s)[i] = s[i + 1]
  OBVIOUS

(* Only the empty sequence has no element. *)
LEMMA EmptySeq ==
  ASSUME NEW S
  PROVE  /\ <<>> \in Seq(S) /\ Len(<<>>) = 0
         /\ \A s \in Seq(S) : Len(s) \in Nat /\ (s = <<>> <=> Len(s) = 0)
  OBVIOUS

(* A function on 1 .. n is a sequence of length n. *)
LEMMA FunctionIsSeq ==
  ASSUME NEW S, NEW n \in Nat, NEW f \in [1 .. n -> S]
  PROVE  f \in Seq(S) /\ Len(f) = n /\ (f = <<>> <=> n = 0)
<1>1. f \in Seq(S) /\ Len(f) = n
  OBVIOUS
<1> QED BY <1>1, EmptySeq

(* The elements in their places and a new one behind them. *)
LEMMA PutBehind ==
  ASSUME NEW S, NEW s \in Seq(S), NEW t \in Seq(S), NEW x \in S,
         Len(t) = Len(s) + 1, \A i \in 1 .. Len(s) : t[i] = s[i], t[Len(t)] = x
  PROVE  t = Append(s, x)
<1>1. /\ Append(s, x) \in Seq(S) /\ Len(Append(s, x)) = Len(s) + 1
      /\ \A i \in 1 .. Len(s) : Append(s, x)[i] = s[i]
      /\ Append(s, x)[Len(s) + 1] = x
  BY AppendProperties
<1>2. Len(s) \in Nat
  BY EmptySeq
<1>3. \A i \in 1 .. Len(t) : t[i] = Append(s, x)[i]
  BY <1>1, <1>2
<1> QED BY <1>1, <1>3, SeqEqual

(* Every element but the first one place further to the front. *)
LEMMA TakeFront ==
  ASSUME NEW S, NEW s \in Seq(S), NEW t \in Seq(S), s # <<>>,
         Len(t) = Len(s) - 1, \A i \in 1 .. Len(t) : t[i] = s[i + 1]
  PROVE  t = Tail(s)
<1>1. /\ Tail(s) \in Seq(S) /\ Len(Tail(s)) = Len(s) - 1
      /\ \A i \in 1 .. Len(Tail(s)) : Tail(s)[i] = s[i + 1]
  BY HeadTailProperties
<1> QED BY <1>1, SeqEqual

-----------------------------------------------------------------------------
(* Types. *)

(* The pids, and the two constant records, have their types. *)
LEMMA PidFacts ==
  /\ \A t \in Task : Pid(t) \in PidOrNone /\ Pid(t) # NoPid
  /\ \A t, u \in Task : Pid(t) = Pid(u) => t = u
  /\ NoPid \in PidOrNone
  /\ EmptyEvent \in Event
  /\ Idle \in [id : Id, source : PidOrNone, value : Value]
<1>1. Task \subseteq Nat
  BY IpcAssumption DEF Task
<1>2. (CHOOSE v \in Value : TRUE) \in Value
  BY IpcAssumption
<1>3. 0 \in Id
  BY IpcAssumption DEF Id
<1> QED BY <1>1, <1>2, <1>3 DEF Pid, PidOrNone, NoPid, EmptyEvent, Event, Idle

(* A position of the ring wraps at most once, and positions differ. *)
LEMMA RingIndex ==
  ASSUME NEW h \in 0 .. QueueLen - 1, NEW i \in 0 .. QueueLen
  PROVE  /\ (h + i) % QueueLen = IF h + i < QueueLen THEN h + i ELSE h + i - QueueLen
         /\ (h + i) % QueueLen \in 0 .. QueueLen - 1
<1>1. h \in Nat /\ i \in Nat /\ QueueLen \in Nat \ {0}
  BY IpcAssumption
<1>2. (h + i) % QueueLen = IF h + i < QueueLen THEN h + i ELSE h + i - QueueLen
  BY <1>1
<1> QED BY <1>1, <1>2

(* send_as leaves the ports well typed. *)
LEMMA SendAsType ==
  ASSUME TypeOK, NEW id, NEW e \in Event, SendAs(id, e)
  PROVE  /\ owner' \in [Port -> PidOrNone]
         /\ events' \in [Port -> [0 .. QueueLen - 1 -> Event]]
         /\ head' \in [Port -> 0 .. QueueLen - 1]
         /\ len' \in [Port -> 0 .. QueueLen]
<1>1. CASE Accepts(id)
  <2>1. /\ id \in Port /\ head[id] \in 0 .. QueueLen - 1
        /\ len[id] \in 0 .. QueueLen /\ len[id] < QueueLen
    BY <1>1 DEF TypeOK, Accepts
  <2>2. len[id] + 1 \in 0 .. QueueLen
    BY <2>1, IpcAssumption
  <2>3. TailSlot(id) \in 0 .. QueueLen - 1
    BY <2>1, RingIndex DEF TailSlot
  <2>4. /\ events' = [events EXCEPT ![id] = [events[id] EXCEPT ![TailSlot(id)] = e]]
        /\ len' = [len EXCEPT ![id] = len[id] + 1]
        /\ owner' = owner /\ head' = head
    BY <1>1 DEF SendAs
  <2>5. [events[id] EXCEPT ![TailSlot(id)] = e] \in [0 .. QueueLen - 1 -> Event]
    BY <2>1, <2>3 DEF TypeOK
  <2>6. events' \in [Port -> [0 .. QueueLen - 1 -> Event]]
    BY <2>1, <2>4, <2>5 DEF TypeOK
  <2>7. len' \in [Port -> 0 .. QueueLen]
    BY <2>1, <2>2, <2>4 DEF TypeOK
  <2> QED BY <2>4, <2>6, <2>7 DEF TypeOK
<1>2. CASE ~Accepts(id)
  BY <1>2 DEF TypeOK, SendAs, portVars
<1> QED BY <1>1, <1>2

(* Every step keeps the types. *)
LEMMA TypeKept == TypeOK /\ [Next]_vars => TypeOK'
<1> SUFFICES ASSUME TypeOK, [Next]_vars PROVE TypeOK'
  OBVIOUS
<1>0. current \in Task /\ CurrentPid \in PidOrNone
  BY PidFacts DEF TypeOK, CurrentPid
<1>1. CASE Create
  <2>1. PICK p \in FreePorts :
          /\ owner' = [owner EXCEPT ![p] = CurrentPid]
          /\ events' = [events EXCEPT ![p] = [i \in 0 .. QueueLen - 1 |-> EmptyEvent]]
          /\ head' = [head EXCEPT ![p] = 0]
          /\ len' = [len EXCEPT ![p] = 0]
    BY <1>1 DEF Create
  <2>2. 0 \in 0 .. QueueLen - 1 /\ 0 \in 0 .. QueueLen
    BY IpcAssumption
  <2>3. [i \in 0 .. QueueLen - 1 |-> EmptyEvent] \in [0 .. QueueLen - 1 -> Event]
    BY PidFacts
  <2> QED BY <1>0, <1>1, <2>1, <2>2, <2>3 DEF Create, TypeOK
<1>2. ASSUME NEW id \in Id, Recv(id) PROVE TypeOK'
  <2>1. /\ id \in Port /\ head[id] \in 0 .. QueueLen - 1
        /\ len[id] \in 0 .. QueueLen /\ len[id] # 0
    BY <1>2 DEF Recv, MayReceive, TypeOK
  <2>2. len[id] - 1 \in 0 .. QueueLen /\ 1 \in 0 .. QueueLen
    BY <2>1, IpcAssumption
  <2>3. (head[id] + 1) % QueueLen \in 0 .. QueueLen - 1
    BY <2>1, <2>2, RingIndex
  <2> QED BY <1>2, <2>1, <2>2, <2>3 DEF Recv, TypeOK
<1>3. ASSUME NEW id \in Id, NEW value \in Value, SyscallSend(id, value) PROVE TypeOK'
  <2>1. [source |-> CurrentPid, from |-> Pid(UserTask), value |-> value] \in Event
    BY <1>0, PidFacts DEF Event, Task
  <2> QED BY <1>3, <2>1, SendAsType DEF SyscallSend, TypeOK
<1>4. ASSUME NEW id \in Id, NEW value \in Value, SendSystem(id, value) PROVE TypeOK'
  <2>1. [source |-> NoPid, from |-> NoPid, value |-> value] \in Event
    BY PidFacts DEF Event
  <2> QED BY <1>4, <2>1, SendAsType DEF SendSystem, TypeOK
<1>5. ASSUME NEW t \in KernelTask, NEW id \in Id, NEW value \in Value, BeginSend(t, id, value)
      PROVE  TypeOK'
  BY <1>0, <1>5 DEF BeginSend, ReadPid, TypeOK, portVars
<1>6. ASSUME NEW t \in KernelTask, FinishSend(t) PROVE TypeOK'
  <2>1. [source |-> call[t].source, from |-> Pid(t), value |-> call[t].value] \in Event
    BY PidFacts DEF Event, Task, TypeOK
  <2> QED BY <1>6, <2>1, SendAsType, PidFacts DEF FinishSend, TypeOK
<1>7. ASSUME NEW t \in Task, Preempt(t) PROVE TypeOK'
  BY <1>7 DEF Preempt, TypeOK, portVars
<1>8. CASE UNCHANGED vars
  BY <1>8 DEF vars, portVars, TypeOK
<1> QED BY <1>1, <1>2, <1>3, <1>4, <1>5, <1>6, <1>7, <1>8 DEF Next

-----------------------------------------------------------------------------
(* The rings as sequences. *)

(* The events waiting in a port are a sequence, element by element. *)
WaitingSeq ==
  \A p \in Port :
    /\ Waiting(p) \in Seq(Event) /\ Len(Waiting(p)) = len[p] /\ len[p] \in 0 .. QueueLen
    /\ Waiting(p) = <<>> <=> len[p] = 0
    /\ \A i \in 1 .. len[p] : Waiting(p)[i] = events[p][(head[p] + (i - 1)) % QueueLen]

(* The rings' types make them sequences. *)
LEMMA WaitingIsSeq == TypeOK => WaitingSeq
<1> SUFFICES ASSUME TypeOK, NEW p \in Port
             PROVE  /\ Waiting(p) \in Seq(Event) /\ Len(Waiting(p)) = len[p]
                    /\ len[p] \in 0 .. QueueLen
                    /\ Waiting(p) = <<>> <=> len[p] = 0
                    /\ \A i \in 1 .. len[p] :
                         Waiting(p)[i] = events[p][(head[p] + (i - 1)) % QueueLen]
  BY DEF WaitingSeq
<1>1. /\ head[p] \in 0 .. QueueLen - 1 /\ len[p] \in 0 .. QueueLen
      /\ len[p] \in Nat /\ QueueLen \in Nat
  BY IpcAssumption DEF TypeOK
<1>2. ASSUME NEW i \in 1 .. len[p]
      PROVE  /\ (head[p] + i - 1) % QueueLen = (head[p] + (i - 1)) % QueueLen
             /\ events[p][(head[p] + i - 1) % QueueLen] \in Event
  <2>1. i - 1 \in 0 .. QueueLen /\ head[p] + i - 1 = head[p] + (i - 1)
    BY <1>1
  <2>2. (head[p] + (i - 1)) % QueueLen \in 0 .. QueueLen - 1
    BY <1>1, <2>1, RingIndex
  <2> QED BY <2>1, <2>2 DEF TypeOK
<1>3. Waiting(p) \in [1 .. len[p] -> Event]
  BY <1>2 DEF Waiting
<1>4. /\ Waiting(p) \in Seq(Event) /\ Len(Waiting(p)) = len[p]
      /\ Waiting(p) = <<>> <=> len[p] = 0
  BY <1>1, <1>3, FunctionIsSeq
<1>5. ASSUME NEW i \in 1 .. len[p]
      PROVE  Waiting(p)[i] = events[p][(head[p] + (i - 1)) % QueueLen]
  BY <1>2 DEF Waiting
<1> QED BY <1>1, <1>4, <1>5

(* send_as puts the event behind the others of its port. *)
LEMMA SendAppends ==
  ASSUME TypeOK, TypeOK', NEW id, NEW e \in Event, SendAs(id, e), Accepts(id)
  PROVE  /\ owner' = owner
         /\ \A p \in Port : Waiting(p)' = IF p = id THEN Append(Waiting(id), e) ELSE Waiting(p)
<1>1. WaitingSeq /\ WaitingSeq'
  BY WaitingIsSeq, PTL
<1>2. /\ id \in Port /\ head[id] \in 0 .. QueueLen - 1 /\ QueueLen \in Nat \ {0}
      /\ len[id] \in 0 .. QueueLen - 1
  BY IpcAssumption DEF TypeOK, Accepts
<1>3. /\ events' = [events EXCEPT ![id] = [events[id] EXCEPT ![TailSlot(id)] = e]]
      /\ len' = [len EXCEPT ![id] = len[id] + 1]
      /\ owner' = owner /\ head' = head
  BY DEF SendAs
<1>4. ASSUME NEW p \in Port, p # id PROVE Waiting(p)' = Waiting(p)
  <2>1. len'[p] = len[p] /\ head'[p] = head[p] /\ events'[p] = events[p]
    BY <1>3, <1>4 DEF TypeOK
  <2> QED BY <2>1 DEF Waiting
<1>5. Waiting(id)' = Append(Waiting(id), e)
  <2>1. /\ len'[id] = len[id] + 1 /\ head'[id] = head[id]
        /\ events'[id] = [events[id] EXCEPT ![TailSlot(id)] = e]
        /\ events[id] \in [0 .. QueueLen - 1 -> Event]
    BY <1>2, <1>3 DEF TypeOK
  <2>2. /\ Waiting(id) \in Seq(Event) /\ Len(Waiting(id)) = len[id]
        /\ \A i \in 1 .. len[id] : Waiting(id)[i] = events[id][(head[id] + (i - 1)) % QueueLen]
    BY <1>1, <1>2 DEF WaitingSeq
  <2>3. /\ Waiting(id)' \in Seq(Event) /\ Len(Waiting(id)') = len[id] + 1
        /\ \A i \in 1 .. len[id] + 1 :
             Waiting(id)'[i] = events'[id][(head[id] + (i - 1)) % QueueLen]
    <3>1. /\ Waiting(id)' \in Seq(Event) /\ Len(Waiting(id)') = len'[id]
          /\ \A i \in 1 .. len'[id] :
               Waiting(id)'[i] = events'[id][(head'[id] + (i - 1)) % QueueLen]
      BY <1>1, <1>2 DEF WaitingSeq
    <3> QED BY <2>1, <3>1
  <2>4. ASSUME NEW i \in 1 .. len[id] PROVE Waiting(id)'[i] = Waiting(id)[i]
    <3>1. i - 1 \in 0 .. QueueLen /\ i - 1 < len[id] /\ len[id] \in 0 .. QueueLen
          /\ i \in 1 .. len[id] + 1
      BY <1>2
    <3>2. (head[id] + (i - 1)) % QueueLen \in 0 .. QueueLen - 1
      BY <1>2, <3>1, RingIndex
    <3>3. (head[id] + (i - 1)) % QueueLen # TailSlot(id)
      <4>1. (head[id] + (i - 1)) % QueueLen
              = IF head[id] + (i - 1) < QueueLen THEN head[id] + (i - 1)
                ELSE head[id] + (i - 1) - QueueLen
        BY <1>2, <3>1, RingIndex
      <4>2. TailSlot(id)
              = IF head[id] + len[id] < QueueLen THEN head[id] + len[id]
                ELSE head[id] + len[id] - QueueLen
        BY <1>2, <3>1, RingIndex DEF TailSlot
      <4> HIDE DEF TailSlot
      <4> QED BY <1>2, <3>1, <4>1, <4>2
    <3> QED BY <2>1, <2>2, <2>3, <3>1, <3>2, <3>3
  <2>5. Waiting(id)'[len[id] + 1] = e
    <3>1. (len[id] + 1) - 1 = len[id] /\ len[id] + 1 \in 1 .. len[id] + 1
          /\ len[id] \in 0 .. QueueLen
      BY <1>2
    <3>2. TailSlot(id) \in 0 .. QueueLen - 1
      BY <1>2, <3>1, RingIndex DEF TailSlot
    <3>3. Waiting(id)'[len[id] + 1] = events'[id][TailSlot(id)]
      BY <2>3, <3>1 DEF TailSlot
    <3> QED BY <2>1, <3>2, <3>3
  <2> QED BY <2>2, <2>3, <2>4, <2>5, PutBehind
<1> QED BY <1>3, <1>4, <1>5

(* recv takes the first event of its port. *)
LEMMA RecvTakes ==
  ASSUME TypeOK, TypeOK', NEW id, Recv(id)
  PROVE  /\ id \in Port /\ Waiting(id) # <<>>
         /\ \A p \in Port : Waiting(p)' = IF p = id THEN Tail(Waiting(id)) ELSE Waiting(p)
<1>1. WaitingSeq /\ WaitingSeq'
  BY WaitingIsSeq, PTL
<1>2. /\ id \in Port /\ head[id] \in 0 .. QueueLen - 1 /\ QueueLen \in Nat \ {0}
      /\ len[id] \in 1 .. QueueLen
  BY IpcAssumption DEF TypeOK, Recv, MayReceive
<1>3. ASSUME NEW p \in Port, p # id PROVE Waiting(p)' = Waiting(p)
  <2>1. len'[p] = len[p] /\ head'[p] = head[p] /\ events'[p] = events[p]
    BY <1>3 DEF TypeOK, Recv
  <2> QED BY <2>1 DEF Waiting
<1>4. /\ Waiting(id) \in Seq(Event) /\ Len(Waiting(id)) = len[id] /\ Waiting(id) # <<>>
      /\ \A i \in 1 .. len[id] : Waiting(id)[i] = events[id][(head[id] + (i - 1)) % QueueLen]
  BY <1>1, <1>2 DEF WaitingSeq
<1>5. Waiting(id)' = Tail(Waiting(id))
  <2>1. /\ len'[id] = len[id] - 1 /\ head'[id] = (head[id] + 1) % QueueLen
        /\ events' = events
    BY <1>2 DEF TypeOK, Recv
  <2>2. /\ Waiting(id)' \in Seq(Event) /\ Len(Waiting(id)') = len[id] - 1
        /\ \A i \in 1 .. len[id] - 1 :
             Waiting(id)'[i] = events[id][(((head[id] + 1) % QueueLen) + (i - 1)) % QueueLen]
    <3>1. /\ Waiting(id)' \in Seq(Event) /\ Len(Waiting(id)') = len'[id]
          /\ \A i \in 1 .. len'[id] :
               Waiting(id)'[i] = events'[id][(head'[id] + (i - 1)) % QueueLen]
      BY <1>1, <1>2 DEF WaitingSeq
    <3> QED BY <2>1, <3>1
  <2>3. ASSUME NEW i \in 1 .. len[id] - 1 PROVE Waiting(id)'[i] = Waiting(id)[i + 1]
    <3>1. /\ i - 1 \in 0 .. QueueLen /\ i \in 0 .. QueueLen /\ i + 1 \in 1 .. len[id]
          /\ (i + 1) - 1 = i /\ 1 \in 0 .. QueueLen /\ i < QueueLen
      BY <1>2
    <3>2. (((head[id] + 1) % QueueLen) + (i - 1)) % QueueLen = (head[id] + i) % QueueLen
      <4>1. /\ (head[id] + 1) % QueueLen
                  = IF head[id] + 1 < QueueLen THEN head[id] + 1 ELSE head[id] + 1 - QueueLen
            /\ (head[id] + 1) % QueueLen \in 0 .. QueueLen - 1
        BY <1>2, <3>1, RingIndex
      <4>2. CASE head[id] + 1 < QueueLen
        BY <1>2, <3>1, <4>1, <4>2
      <4>3. CASE ~(head[id] + 1 < QueueLen)
        <5>1. head[id] = QueueLen - 1 /\ (head[id] + 1) % QueueLen = 0
          BY <1>2, <4>1, <4>3
        <5>2. (0 + (i - 1)) % QueueLen = i - 1
          BY <1>2, <3>1
        <5>3. (head[id] + i) % QueueLen = head[id] + i - QueueLen
          <6>1. ~(head[id] + i < QueueLen)
            BY <1>2, <3>1, <5>1
          <6> QED BY <1>2, <3>1, <6>1, RingIndex
        <5> QED BY <1>2, <3>1, <5>1, <5>2, <5>3
      <4> QED BY <4>2, <4>3
    <3>3. Waiting(id)'[i] = events[id][(((head[id] + 1) % QueueLen) + (i - 1)) % QueueLen]
      BY <2>2
    <3>4. Waiting(id)[i + 1] = events[id][(head[id] + ((i + 1) - 1)) % QueueLen]
      BY <1>4, <3>1
    <3> QED BY <3>1, <3>2, <3>3, <3>4
  <2> QED BY <1>4, <2>2, <2>3, TakeFront
<1> QED BY <1>2, <1>3, <1>4, <1>5

-----------------------------------------------------------------------------
(* Whose events. *)

(* A pid that send has read is the thread's own, whoever runs by now; a    *)
(* port nobody owns is empty.                                              *)
CallsGenuine == \A t \in KernelTask : call[t] # Idle => call[t].source = Pid(t)
FreeEmpty == \A p \in Port : owner[p] = NoPid => Waiting(p) = <<>>
IpcInv == SourceGenuine /\ CallsGenuine /\ FreeEmpty

(* An accepted event that names its sender keeps every port genuine. *)
LEMMA SendKeeps ==
  ASSUME IpcInv, TypeOK', NEW id, NEW e \in Event, e.source = e.from, SendAs(id, e)
  PROVE  SourceGenuine' /\ FreeEmpty'
<1>1. CASE Accepts(id)
  <2>1. /\ owner' = owner /\ id \in Port /\ owner[id] # NoPid
        /\ \A p \in Port : Waiting(p)' = IF p = id THEN Append(Waiting(id), e) ELSE Waiting(p)
    BY <1>1, SendAppends DEF IpcInv, SourceGenuine, Accepts
  <2>2. WaitingSeq /\ WaitingSeq'
    BY WaitingIsSeq, PTL DEF IpcInv, SourceGenuine
  <2>3. FreeEmpty'
    BY <2>1 DEF IpcInv, FreeEmpty
  <2>4. ASSUME NEW p \in Port, NEW i \in 1 .. len'[p]
        PROVE  Waiting(p)'[i].source = Waiting(p)'[i].from
    <3>1. /\ Waiting(p) \in Seq(Event) /\ Len(Waiting(p)) = len[p] /\ len[p] \in Nat
          /\ Len(Waiting(p)') = len'[p]
          /\ \A j \in 1 .. len[p] : Waiting(p)[j].source = Waiting(p)[j].from
      BY <2>2, IpcAssumption DEF WaitingSeq, IpcInv, SourceGenuine
    <3>2. CASE p # id
      BY <2>1, <3>1, <3>2
    <3>3. CASE p = id
      <4>1. Waiting(p)' = Append(Waiting(p), e)
        BY <2>1, <3>3
      <4>2. /\ len'[p] = len[p] + 1
            /\ \A j \in 1 .. len[p] : Append(Waiting(p), e)[j] = Waiting(p)[j]
            /\ Append(Waiting(p), e)[len[p] + 1] = e
        BY <3>1, <4>1, AppendProperties
      <4>3. CASE i \in 1 .. len[p]
        BY <3>1, <4>1, <4>2, <4>3
      <4>4. CASE i = len[p] + 1
        BY <4>1, <4>2, <4>4
      <4> QED BY <3>1, <4>2, <4>3, <4>4
    <3> QED BY <3>2, <3>3
  <2> QED BY <2>3, <2>4 DEF SourceGenuine
<1>2. CASE ~Accepts(id)
  <2>1. UNCHANGED portVars
    BY <1>2 DEF SendAs
  <2> QED BY <2>1 DEF portVars, IpcInv, SourceGenuine, FreeEmpty, Waiting
<1> QED BY <1>1, <1>2

(* No step lets a port lie about a sender. *)
LEMMA IpcInvKept == IpcInv /\ [Next]_vars => IpcInv'
<1> SUFFICES ASSUME IpcInv, [Next]_vars PROVE IpcInv'
  OBVIOUS
<1>0. TypeOK /\ TypeOK'
  BY TypeKept DEF IpcInv, SourceGenuine
<1>1. CASE Create
  <2>1. PICK p \in FreePorts :
          /\ owner' = [owner EXCEPT ![p] = CurrentPid]
          /\ events' = [events EXCEPT ![p] = [i \in 0 .. QueueLen - 1 |-> EmptyEvent]]
          /\ head' = [head EXCEPT ![p] = 0]
          /\ len' = [len EXCEPT ![p] = 0]
    BY <1>1 DEF Create
  <2>2. p \in Port /\ call' = call
    BY <1>1 DEF Create, FreePorts
  <2>3. ASSUME NEW q \in Port, q # p PROVE Waiting(q)' = Waiting(q) /\ len'[q] = len[q] /\ owner'[q] = owner[q]
    <3>1. len'[q] = len[q] /\ head'[q] = head[q] /\ events'[q] = events[q] /\ owner'[q] = owner[q]
      BY <1>0, <2>1, <2>3 DEF TypeOK
    <3> QED BY <3>1 DEF Waiting
  <2>4. len'[p] = 0 /\ owner'[p] = CurrentPid /\ CurrentPid # NoPid
    BY <1>0, <2>1, <2>2, PidFacts DEF TypeOK, CurrentPid
  <2>5. SourceGenuine'
    BY <1>0, <2>3, <2>4 DEF IpcInv, SourceGenuine
  <2> QED BY <2>2, <2>3, <2>4, <2>5 DEF IpcInv, FreeEmpty, CallsGenuine
<1>2. ASSUME NEW id \in Id, Recv(id) PROVE IpcInv'
  <2>1. /\ id \in Port /\ Waiting(id) # <<>> /\ owner' = owner /\ call' = call
        /\ \A p \in Port : Waiting(p)' = IF p = id THEN Tail(Waiting(id)) ELSE Waiting(p)
    BY <1>0, <1>2, RecvTakes DEF Recv
  <2>2. WaitingSeq /\ WaitingSeq'
    BY <1>0, WaitingIsSeq, PTL
  <2>3. FreeEmpty'
    BY <2>1 DEF IpcInv, FreeEmpty
  <2>4. ASSUME NEW p \in Port, NEW i \in 1 .. len'[p]
        PROVE  Waiting(p)'[i].source = Waiting(p)'[i].from
    <3>1. /\ Waiting(p) \in Seq(Event) /\ Len(Waiting(p)) = len[p] /\ len[p] \in Nat
          /\ Len(Waiting(p)') = len'[p]
          /\ \A j \in 1 .. len[p] : Waiting(p)[j].source = Waiting(p)[j].from
      BY <2>2, IpcAssumption DEF WaitingSeq, IpcInv, SourceGenuine
    <3>2. CASE p # id
      BY <2>1, <3>1, <3>2
    <3>3. CASE p = id
      <4>1. Waiting(p)' = Tail(Waiting(p)) /\ Waiting(p) # <<>>
        BY <2>1, <3>3
      <4>2. /\ len'[p] = len[p] - 1
            /\ \A j \in 1 .. len[p] - 1 : Tail(Waiting(p))[j] = Waiting(p)[j + 1]
        BY <3>1, <4>1, HeadTailProperties
      <4>3. i + 1 \in 1 .. len[p] /\ i \in 1 .. len[p] - 1
        BY <3>1, <4>2
      <4> QED BY <3>1, <4>1, <4>2, <4>3
    <3> QED BY <3>2, <3>3
  <2> QED BY <1>0, <2>1, <2>3, <2>4 DEF IpcInv, SourceGenuine, CallsGenuine
<1>3. ASSUME NEW id \in Id, NEW value \in Value, SyscallSend(id, value) PROVE IpcInv'
  <2> DEFINE e == [source |-> CurrentPid, from |-> Pid(UserTask), value |-> value]
  <2>1. e \in Event /\ e.source = e.from
    BY <1>3, PidFacts DEF Event, Task, SyscallSend, CurrentPid
  <2>2. SendAs(id, e) /\ call' = call
    BY <1>3 DEF SyscallSend
  <2> HIDE DEF e
  <2> QED BY <1>0, <2>1, <2>2, SendKeeps DEF IpcInv, CallsGenuine
<1>4. ASSUME NEW id \in Id, NEW value \in Value, SendSystem(id, value) PROVE IpcInv'
  <2> DEFINE e == [source |-> NoPid, from |-> NoPid, value |-> value]
  <2>1. e \in Event /\ e.source = e.from
    BY PidFacts DEF Event
  <2>2. SendAs(id, e) /\ call' = call
    BY <1>4 DEF SendSystem
  <2> HIDE DEF e
  <2> QED BY <1>0, <2>1, <2>2, SendKeeps DEF IpcInv, CallsGenuine
<1>5. ASSUME NEW t \in KernelTask, NEW id \in Id, NEW value \in Value, BeginSend(t, id, value)
      PROVE  IpcInv'
  <2>1. /\ call' = [call EXCEPT ![t] = [id |-> id, source |-> Pid(t), value |-> value]]
        /\ UNCHANGED portVars
    BY <1>5 DEF BeginSend, ReadPid, CurrentPid
  <2>2. SourceGenuine' /\ FreeEmpty'
    BY <1>0, <2>1 DEF IpcInv, SourceGenuine, FreeEmpty, Waiting, portVars
  <2>3. CallsGenuine'
    <3> SUFFICES ASSUME NEW u \in KernelTask, call'[u] # Idle PROVE call'[u].source = Pid(u)
      BY DEF CallsGenuine
    <3>1. CASE u = t
      <4>1. call'[u] = [id |-> id, source |-> Pid(t), value |-> value]
        BY <1>0, <2>1, <3>1 DEF TypeOK
      <4> QED BY <3>1, <4>1
    <3>2. CASE u # t
      <4>1. call'[u] = call[u]
        BY <1>0, <2>1, <3>2 DEF TypeOK
      <4> QED BY <4>1 DEF IpcInv, CallsGenuine
    <3> QED BY <3>1, <3>2
  <2> QED BY <2>2, <2>3 DEF IpcInv
<1>6. ASSUME NEW t \in KernelTask, FinishSend(t) PROVE IpcInv'
  <2> DEFINE e == [source |-> call[t].source, from |-> Pid(t), value |-> call[t].value]
  <2>1. e \in Event /\ e.source = e.from
    <3>1. call[t].source = Pid(t)
      BY <1>6 DEF FinishSend, IpcInv, CallsGenuine
    <3> QED BY <1>0, <3>1, PidFacts DEF Event, Task, TypeOK
  <2>2. SendAs(call[t].id, e) /\ call' = [call EXCEPT ![t] = Idle]
    BY <1>6 DEF FinishSend
  <2>3. CallsGenuine'
    <3> SUFFICES ASSUME NEW u \in KernelTask, call'[u] # Idle PROVE call'[u].source = Pid(u)
      BY DEF CallsGenuine
    <3>1. call'[u] = call[u]
      BY <1>0, <2>2 DEF TypeOK
    <3> QED BY <3>1 DEF IpcInv, CallsGenuine
  <2> HIDE DEF e
  <2> QED BY <1>0, <2>1, <2>2, <2>3, SendKeeps DEF IpcInv
<1>7. ASSUME NEW t \in Task, Preempt(t) PROVE IpcInv'
  BY <1>0, <1>7 DEF Preempt, portVars, IpcInv, SourceGenuine, FreeEmpty, Waiting, CallsGenuine
<1>8. CASE UNCHANGED vars
  BY <1>0, <1>8 DEF vars, portVars, IpcInv, SourceGenuine, FreeEmpty, Waiting, CallsGenuine
<1> QED BY <1>1, <1>2, <1>3, <1>4, <1>5, <1>6, <1>7, <1>8 DEF Next

(* The invariant holds at boot, when every port is free. *)
LEMMA IpcInvInit == Init => IpcInv
<1> SUFFICES ASSUME Init PROVE IpcInv
  OBVIOUS
<1>1. TypeOK
  <2>1. 0 \in 0 .. QueueLen - 1 /\ 0 \in 0 .. QueueLen
    BY IpcAssumption
  <2> QED BY <2>1, PidFacts DEF Init, TypeOK, Task
<1>2. WaitingSeq
  BY <1>1, WaitingIsSeq
<1>3. \A p \in Port : len[p] = 0
  BY DEF Init
<1>4. FreeEmpty
  BY <1>2, <1>3 DEF WaitingSeq, FreeEmpty
<1>5. CallsGenuine
  BY DEF Init, CallsGenuine
<1> QED BY <1>1, <1>3, <1>4, <1>5 DEF IpcInv, SourceGenuine

(* Every event a port holds names the process that sent it, however many   *)
(* switches come between send's read of the pid and the masked store.      *)
THEOREM SourceGenuineTheorem == Spec => []SourceGenuine
<1>1. IpcInv => SourceGenuine
  BY DEF IpcInv
<1> QED BY <1>1, IpcInvInit, IpcInvKept, PTL DEF Spec

-----------------------------------------------------------------------------
(* The rings implement queues. *)

(* send_as puts one event in one queue, or does nothing. *)
LEMMA SendImplements ==
  ASSUME IpcInv, TypeOK', NEW id, NEW e \in Event, SendAs(id, e), UNCHANGED current
  PROVE  Abstract!Next \/ UNCHANGED Abstract!vars
<1>0. TypeOK /\ WaitingSeq
  BY WaitingIsSeq DEF IpcInv, SourceGenuine
<1>1. CASE Accepts(id)
  <2>1. /\ owner' = owner /\ id \in Port /\ owner[id] # NoPid
        /\ \A p \in Port : Waiting(p)' = IF p = id THEN Append(Waiting(id), e) ELSE Waiting(p)
    BY <1>0, <1>1, SendAppends DEF Accepts
  <2>2. Len(Waiting(id)) < QueueLen
    BY <1>0, <1>1 DEF Accepts, WaitingSeq
  <2>3. [p \in Port |-> Waiting(p)]'
          = [[p \in Port |-> Waiting(p)] EXCEPT ![id] = Append(@, e)]
    BY <2>1
  <2>4. Abstract!Put(id, e)
    BY <2>1, <2>2, <2>3 DEF Abstract!Put, CurrentPid
  <2> QED BY <2>1, <2>4 DEF Abstract!Next
<1>2. CASE ~Accepts(id)
  <2>1. UNCHANGED portVars
    BY <1>2 DEF SendAs
  <2> QED BY <2>1 DEF portVars, Abstract!vars, Waiting, CurrentPid
<1> QED BY <1>1, <1>2

(* Every step of the ports is a step of the queues, or leaves them alone. *)
LEMMA StepImplements ==
  ASSUME IpcInv, IpcInv', [Next]_vars
  PROVE  Abstract!Next \/ UNCHANGED Abstract!vars
<1>0. TypeOK /\ TypeOK'
  BY DEF IpcInv, SourceGenuine
<1>1. CASE Create
  <2>1. PICK p \in FreePorts :
          /\ owner' = [owner EXCEPT ![p] = CurrentPid]
          /\ events' = [events EXCEPT ![p] = [i \in 0 .. QueueLen - 1 |-> EmptyEvent]]
          /\ head' = [head EXCEPT ![p] = 0]
          /\ len' = [len EXCEPT ![p] = 0]
    BY <1>1 DEF Create
  <2>2. p \in Port /\ owner[p] = NoPid /\ current' = current /\ Waiting(p) = <<>>
    BY <1>1 DEF Create, FreePorts, IpcInv, FreeEmpty
  <2>3. ASSUME NEW q \in Port PROVE Waiting(q)' = Waiting(q)
    <3>1. CASE q # p
      <4>1. len'[q] = len[q] /\ head'[q] = head[q] /\ events'[q] = events[q]
        BY <1>0, <2>1, <3>1 DEF TypeOK
      <4> QED BY <4>1 DEF Waiting
    <3>2. CASE q = p
      <4>1. WaitingSeq'
        BY <1>0, WaitingIsSeq, PTL
      <4>2. len'[q] = 0
        BY <1>0, <2>1, <2>2, <3>2 DEF TypeOK
      <4> QED BY <2>2, <3>2, <4>1, <4>2 DEF WaitingSeq
    <3> QED BY <3>1, <3>2
  <2>4. Abstract!Open(p)
    BY <2>1, <2>2, <2>3 DEF Abstract!Open, CurrentPid
  <2> QED BY <2>2, <2>4 DEF Abstract!Next
<1>2. ASSUME NEW id \in Id, Recv(id) PROVE Abstract!Next
  <2>1. /\ id \in Port /\ Waiting(id) # <<>> /\ owner[id] = CurrentPid
        /\ owner' = owner /\ current' = current
        /\ \A p \in Port : Waiting(p)' = IF p = id THEN Tail(Waiting(id)) ELSE Waiting(p)
    BY <1>0, <1>2, RecvTakes DEF Recv, MayReceive
  <2>2. [p \in Port |-> Waiting(p)]'
          = [[p \in Port |-> Waiting(p)] EXCEPT ![id] = Tail(@)]
    BY <2>1
  <2>3. Abstract!Take(id)
    BY <2>1, <2>2 DEF Abstract!Take, CurrentPid
  <2> QED BY <2>1, <2>3 DEF Abstract!Next
<1>3. ASSUME NEW id \in Id, NEW value \in Value, SyscallSend(id, value)
      PROVE  Abstract!Next \/ UNCHANGED Abstract!vars
  <2>1. [source |-> CurrentPid, from |-> Pid(UserTask), value |-> value] \in Event
    BY <1>0, PidFacts DEF Event, Task, TypeOK, CurrentPid
  <2> QED BY <1>0, <1>3, <2>1, SendImplements DEF SyscallSend
<1>4. ASSUME NEW id \in Id, NEW value \in Value, SendSystem(id, value)
      PROVE  Abstract!Next \/ UNCHANGED Abstract!vars
  <2>1. [source |-> NoPid, from |-> NoPid, value |-> value] \in Event
    BY PidFacts DEF Event
  <2> QED BY <1>0, <1>4, <2>1, SendImplements DEF SendSystem
<1>5. ASSUME NEW t \in KernelTask, NEW id \in Id, NEW value \in Value, BeginSend(t, id, value)
      PROVE  UNCHANGED Abstract!vars
  BY <1>5 DEF BeginSend, portVars, Abstract!vars, Waiting, CurrentPid
<1>6. ASSUME NEW t \in KernelTask, FinishSend(t)
      PROVE  Abstract!Next \/ UNCHANGED Abstract!vars
  <2>1. [source |-> call[t].source, from |-> Pid(t), value |-> call[t].value] \in Event
    BY <1>0, PidFacts DEF Event, Task, TypeOK
  <2> QED BY <1>0, <1>6, <2>1, SendImplements DEF FinishSend
<1>7. ASSUME NEW t \in Task, Preempt(t) PROVE Abstract!Next
  <2>1. CurrentPid' \in {Pid(u) : u \in Task} /\ UNCHANGED portVars
    BY <1>7 DEF Preempt, CurrentPid
  <2>2. Abstract!Preempt
    BY <2>1 DEF Abstract!Preempt, portVars, Waiting
  <2> QED BY <2>2 DEF Abstract!Next
<1>8. CASE UNCHANGED vars
  BY <1>8 DEF vars, portVars, Abstract!vars, Waiting, CurrentPid
<1> QED BY <1>1, <1>2, <1>3, <1>4, <1>5, <1>6, <1>7, <1>8 DEF Next

(* ipc.rs's rings, with their heads and lengths that wrap and their full   *)
(* queues that drop, are bounded first-in first-out queues that only the   *)
(* owner takes from.                                                       *)
THEOREM PortsTheorem == Spec => ImplementsPorts
<1>1. Init => Abstract!Init
  <2> SUFFICES ASSUME Init PROVE Abstract!Init
    OBVIOUS
  <2>1. FreeEmpty
    BY IpcInvInit DEF IpcInv
  <2>2. \A p \in Port : Waiting(p) = <<>>
    BY <2>1 DEF Init, FreeEmpty
  <2> QED BY <2>2 DEF Init, Abstract!Init, CurrentPid, Task
<1>2. IpcInv /\ IpcInv' /\ [Next]_vars => [Abstract!Next]_(Abstract!vars)
  BY StepImplements
<1> QED BY <1>1, <1>2, IpcInvInit, IpcInvKept, PTL DEF Spec, ImplementsPorts, Abstract!Spec

-----------------------------------------------------------------------------
(* The ports in use. *)

(* The port numbers the tasks pass around are port numbers, core_main's    *)
(* port exists when core_main looks it up, and the keyboard's next byte is *)
(* a key.                                                                  *)
EventsInv ==
  /\ current \in Task
  /\ owner \in [Port -> PidOrNone]
  /\ mainPort \in Id /\ bootPort \in Id /\ eventPort \in [Task -> Id]
  /\ nextKey \in Nat \ {0}
  /\ pc = "main" => \E p \in Port : owner[p] = Pid(Boot)

(* They are at boot. *)
LEMMA EventsInvInit == EInit => EventsInv
<1> SUFFICES ASSUME EInit PROVE EventsInv
  OBVIOUS
<1>1. 0 \in Id
  BY IpcAssumption DEF Id
<1>2. Boot \in Task
  BY EventsAssumption DEF Task
<1> QED BY <1>1, <1>2, PidFacts DEF EInit, Init, EventsInv

(* Every step of the tasks is a step of the ports, or none. *)
LEMMA EventsStep ==
  ASSUME EventsInv, [ENext]_allVars
  PROVE  [Next]_vars
<1>0. Boot \in KernelTask /\ Worker \in KernelTask /\ 0 \in Value /\ UserTask \in Task
  BY EventsAssumption DEF Task
<1>1. CASE OpenPort
  BY <1>1 DEF OpenPort, Next
<1>2. CASE StoreMainPort \/ SetEventPort \/ SetBootPort \/ SpawnApp \/ ScanDone \/ Drained
  BY <1>2 DEF StoreMainPort, SetEventPort, SetBootPort, SpawnApp, ScanDone, Drained, vars
<1>3. CASE ScanKey
  <2>1. nextKey \in Value /\ mainPort \in Id /\ SendSystem(mainPort, nextKey)
    BY <1>3, EventsAssumption DEF ScanKey, EventsInv
  <2> QED BY <2>1 DEF Next
<1>4. CASE Drain
  <2>1. eventPort[Boot] \in Id /\ Recv(eventPort[Boot])
    BY <1>0, <1>4 DEF Drain, EventsInv, Task
  <2> QED BY <2>1 DEF Next
<1>5. CASE WorkerPost
  <2>1. mainPort \in Id /\ BeginSend(Worker, mainPort, 0)
    BY <1>5 DEF WorkerPost, EventsInv
  <2> QED BY <1>0, <2>1 DEF Next
<1>6. CASE WorkerPosted
  BY <1>0, <1>6 DEF WorkerPosted, Next
<1>7. CASE OnTick
  <2>1. bootPort \in Id /\ SendSystem(bootPort, 0)
    BY <1>7 DEF OnTick, EventsInv
  <2> QED BY <1>0, <2>1 DEF Next
<1>8. CASE AppSend
  <2>1. eventPort[UserTask] \in Id /\ SyscallSend(eventPort[UserTask], 0)
    BY <1>0, <1>8 DEF AppSend, EventsInv
  <2> QED BY <1>0, <2>1 DEF Next
<1>9. ASSUME NEW t \in Task, Switch(t) PROVE Next
  BY <1>9 DEF Switch, Next
<1>10. CASE UNCHANGED allVars
  BY <1>10 DEF allVars
<1> QED BY <1>1, <1>2, <1>3, <1>4, <1>5, <1>6, <1>7, <1>8, <1>9, <1>10
        DEF ENext, BootStep, WorkerStep

(* The tasks keep their port numbers in order. *)
LEMMA EventsInvKept == EventsInv /\ [ENext]_allVars /\ TypeOK' => EventsInv'
<1> SUFFICES ASSUME EventsInv, [ENext]_allVars, TypeOK' PROVE EventsInv'
  OBVIOUS
<1>0. current' \in Task /\ owner' \in [Port -> PidOrNone] /\ Boot \in Task /\ UserTask \in Task
  BY EventsAssumption DEF TypeOK, Task
<1>1. CASE OpenPort
  <2>1. \E p \in Port : owner'[p] = Pid(Boot)
    BY <1>1 DEF OpenPort, Create, FreePorts, CurrentPid, EventsInv
  <2> QED BY <1>0, <1>1, <2>1 DEF OpenPort, EventsInv
<1>2. CASE StoreMainPort
  <2>1. BootsPort \in Port
    BY <1>2 DEF StoreMainPort, EventsInv, BootsPort
  <2>2. BootsPort \in Id
    BY <2>1, IpcAssumption DEF Port, Id
  <2> QED BY <1>0, <1>2, <2>2 DEF StoreMainPort, EventsInv
<1>3. CASE SetEventPort \/ SetBootPort \/ SpawnApp
  BY <1>0, <1>3 DEF SetEventPort, SetBootPort, SpawnApp, EventsInv
<1>4. CASE ScanKey
  BY <1>0, <1>4 DEF ScanKey, EventsInv
<1>5. CASE ScanDone \/ Drain \/ Drained
  BY <1>0, <1>5 DEF ScanDone, Drain, Drained, EventsInv
<1>6. CASE WorkerPost \/ (\E t \in Task : Switch(t)) \/ UNCHANGED allVars
  <2>1. UNCHANGED <<owner, progVars>>
    BY <1>6 DEF WorkerPost, BeginSend, Switch, Preempt, portVars, allVars, vars
  <2> QED BY <1>0, <2>1 DEF progVars, EventsInv
<1>7. CASE WorkerPosted \/ OnTick \/ AppSend
  <2>1. UNCHANGED <<owner, pc, mainPort, bootPort, eventPort, nextKey>>
    BY <1>7 DEF WorkerPosted, OnTick, AppSend, FinishSend, SendSystem, SyscallSend, SendAs, portVars
  <2> QED BY <1>0, <2>1 DEF EventsInv
<1> QED BY <1>1, <1>2, <1>3, <1>4, <1>5, <1>6, <1>7 DEF ENext, BootStep, WorkerStep

(* The boot, worker and user tasks, the timer and the keyboard together    *)
(* use the ports as Ipc says.                                              *)
THEOREM EventsUsePorts == ESpec => Spec
<1>1. EInit => Init
  BY DEF EInit
<1>2. TypeOK /\ EventsInv /\ [ENext]_allVars => [Next]_vars /\ TypeOK' /\ EventsInv'
  BY EventsStep, TypeKept, EventsInvKept
<1>3. Init => TypeOK
  BY IpcInvInit DEF IpcInv, SourceGenuine
<1> QED BY <1>1, <1>2, <1>3, EventsInvInit, PTL DEF ESpec, Spec

(* Hence in use, too, every waiting event names its sender, ... *)
THEOREM SourceInUse == ESpec => []SourceGenuine
  BY EventsUsePorts, SourceGenuineTheorem, PTL

(* ... and the ports are first-in first-out queues. *)
THEOREM PortsInUse == ESpec => ImplementsPorts
  BY EventsUsePorts, PortsTheorem, PTL
-----------------------------------------------------------------------------
(* Nothing is lost or repeated in use. *)

InGot(k) == \E i \in 1 .. Len(got) : got[i] = k
InPort(k) == \E p \in Port : \E i \in 1 .. len[p] : Waiting(p)[i].value = k
PostAt(p, i) == i \in 1 .. len[p] /\ Waiting(p)[i].from = Pid(Worker)

(* core_main opens the only port there is. *)
OnePort ==
  /\ \A p, q \in Port : owner[p] # NoPid /\ owner[q] # NoPid => p = q
  /\ pc = "create" => \A p \in Port : owner[p] = NoPid

(* The keys received, followed by the keys waiting, increase. *)
KeysInOrder ==
  /\ got \in Seq(Nat \ {0})
  /\ \A i, j \in 1 .. Len(got) : i < j => got[i] < got[j]
  /\ \A p \in Port : \A i, j \in 1 .. len[p] :
       i < j /\ Waiting(p)[i].value # 0 /\ Waiting(p)[j].value # 0
         => Waiting(p)[i].value < Waiting(p)[j].value
  /\ \A p \in Port : \A i \in 1 .. len[p] : \A j \in 1 .. Len(got) :
       Waiting(p)[i].value # 0 => got[j] < Waiting(p)[i].value

(* A key that the keyboard produced is in exactly one kind of place. *)
KeysKept ==
  /\ dropped \subseteq Nat \ {0}
  /\ \A k \in Nat \ {0} : k < nextKey <=> k \in dropped \/ InGot(k) \/ InPort(k)
  /\ \A k \in dropped : ~InGot(k) /\ ~InPort(k)

(* Worker_a's event waits in one slot of one port, or was received, once   *)
(* posted says so; while a post is under way it has not been accepted.     *)
PostKept ==
  /\ posted \in BOOLEAN
  /\ call[Worker] # Idle => ~posted /\ call[Worker].value = 0
  /\ ~posted => gotPost = 0 /\ \A p \in Port, i \in Nat : ~PostAt(p, i)
  /\ posted =>
       \/ gotPost = 1 /\ \A p \in Port, i \in Nat : ~PostAt(p, i)
       \/ /\ gotPost = 0
          /\ \E p \in Port, i \in Nat :
               PostAt(p, i) /\ \A q \in Port, j \in Nat : PostAt(q, j) => q = p /\ j = i

AccountInv == OnePort /\ KeysInOrder /\ KeysKept /\ PostKept

(* What a port holds after an accepted send, slot by slot. *)
LEMMA SlotsAfterSend ==
  ASSUME TypeOK, TypeOK', NEW id, NEW e \in Event, SendAs(id, e), Accepts(id)
  PROVE  /\ owner' = owner /\ id \in Port /\ len[id] \in Nat
         /\ \A p \in Port : \A i \in 1 .. len'[p] :
              \/ i \in 1 .. len[p] /\ Waiting(p)'[i] = Waiting(p)[i]
              \/ p = id /\ i = len[id] + 1 /\ Waiting(p)'[i] = e
         /\ \A p \in Port : \A i \in 1 .. len[p] :
              i \in 1 .. len'[p] /\ Waiting(p)'[i] = Waiting(p)[i]
         /\ len[id] + 1 \in 1 .. len'[id] /\ Waiting(id)'[len[id] + 1] = e
<1>1. /\ owner' = owner /\ id \in Port
      /\ \A p \in Port : Waiting(p)' = IF p = id THEN Append(Waiting(id), e) ELSE Waiting(p)
  BY SendAppends DEF Accepts
<1>2. WaitingSeq /\ WaitingSeq'
  BY WaitingIsSeq, PTL
<1>3. \A p \in Port : /\ Waiting(p) \in Seq(Event) /\ Len(Waiting(p)) = len[p] /\ len[p] \in Nat
                      /\ Len(Waiting(p)') = len'[p]
  BY <1>2, IpcAssumption DEF WaitingSeq
<1>4. /\ Len(Append(Waiting(id), e)) = len[id] + 1
      /\ \A i \in 1 .. len[id] : Append(Waiting(id), e)[i] = Waiting(id)[i]
      /\ Append(Waiting(id), e)[len[id] + 1] = e
  BY <1>1, <1>3, AppendProperties
<1>5. /\ len'[id] = len[id] + 1 /\ Waiting(id)' = Append(Waiting(id), e)
      /\ \A p \in Port : p # id => len'[p] = len[p] /\ Waiting(p)' = Waiting(p)
  BY <1>1, <1>3, <1>4
<1>6. \A p \in Port : \A i \in 1 .. len'[p] :
        \/ i \in 1 .. len[p] /\ Waiting(p)'[i] = Waiting(p)[i]
        \/ p = id /\ i = len[id] + 1 /\ Waiting(p)'[i] = e
  <2> SUFFICES ASSUME NEW p \in Port, NEW i \in 1 .. len'[p]
               PROVE  \/ i \in 1 .. len[p] /\ Waiting(p)'[i] = Waiting(p)[i]
                      \/ p = id /\ i = len[id] + 1 /\ Waiting(p)'[i] = e
    OBVIOUS
  <2>1. CASE p # id
    BY <1>5, <2>1
  <2>2. CASE p = id
    <3>1. i \in 1 .. len[id] + 1 /\ Waiting(p)'[i] = Append(Waiting(id), e)[i] /\ len[id] \in Nat
      BY <1>1, <1>3, <1>5, <2>2
    <3>2. CASE i \in 1 .. len[id]
      BY <1>4, <2>2, <3>1, <3>2
    <3>3. CASE i = len[id] + 1
      BY <1>4, <2>2, <3>1, <3>3
    <3>4. i \in 1 .. len[id] \/ i = len[id] + 1
      BY <3>1
    <3> QED BY <3>2, <3>3, <3>4
  <2> QED BY <2>1, <2>2
<1>7. \A p \in Port : \A i \in 1 .. len[p] :
        i \in 1 .. len'[p] /\ Waiting(p)'[i] = Waiting(p)[i]
  <2> SUFFICES ASSUME NEW p \in Port, NEW i \in 1 .. len[p]
               PROVE  i \in 1 .. len'[p] /\ Waiting(p)'[i] = Waiting(p)[i]
    OBVIOUS
  <2>1. CASE p # id
    BY <1>5, <2>1
  <2>2. CASE p = id
    <3>1. i \in 1 .. len[id] /\ len[id] \in Nat /\ Waiting(p)'[i] = Append(Waiting(id), e)[i]
      BY <1>1, <1>3, <1>5, <2>2
    <3>2. i \in 1 .. len'[p]
      BY <1>5, <2>2, <3>1
    <3> QED BY <1>4, <2>2, <3>1, <3>2
  <2> QED BY <2>1, <2>2
<1>8. len[id] \in Nat /\ len[id] + 1 \in 1 .. len'[id] /\ Waiting(id)'[len[id] + 1] = e
  BY <1>1, <1>3, <1>4, <1>5
<1> QED BY <1>1, <1>6, <1>7, <1>8

(* What a port holds after recv: the others, if only one port has an       *)
(* owner, hold nothing.                                                    *)
LEMMA SlotsAfterRecv ==
  ASSUME IpcInv, TypeOK', OnePort, NEW id, Recv(id)
  PROVE  /\ owner' = owner /\ id \in Port /\ 1 \in 1 .. len[id] /\ len[id] \in Nat
         /\ events[id][head[id]] = Waiting(id)[1] /\ Waiting(id)[1] \in Event
         /\ len'[id] = len[id] - 1
         /\ \A i \in 1 .. len'[id] : i + 1 \in 1 .. len[id] /\ Waiting(id)'[i] = Waiting(id)[i + 1]
         /\ \A p \in Port : p # id => len[p] = 0 /\ len'[p] = 0
<1>0. TypeOK
  BY DEF IpcInv, SourceGenuine
<1>1. /\ id \in Port /\ Waiting(id) # <<>> /\ owner' = owner /\ owner[id] # NoPid
      /\ \A p \in Port : Waiting(p)' = IF p = id THEN Tail(Waiting(id)) ELSE Waiting(p)
  BY <1>0, RecvTakes, PidFacts DEF Recv, MayReceive, CurrentPid, TypeOK
<1>2. WaitingSeq /\ WaitingSeq'
  BY <1>0, WaitingIsSeq, PTL
<1>3. \A p \in Port : /\ Waiting(p) \in Seq(Event) /\ Len(Waiting(p)) = len[p] /\ len[p] \in Nat
                      /\ Len(Waiting(p)') = len'[p] /\ (Waiting(p) = <<>> <=> len[p] = 0)
  BY <1>2, IpcAssumption DEF WaitingSeq
<1>4. /\ Len(Tail(Waiting(id))) = len[id] - 1
      /\ \A i \in 1 .. len[id] - 1 : Tail(Waiting(id))[i] = Waiting(id)[i + 1]
  BY <1>1, <1>3, HeadTailProperties
<1>5. len'[id] = len[id] - 1 /\ Waiting(id)' = Tail(Waiting(id))
  BY <1>1, <1>3, <1>4
<1>6. 1 \in 1 .. len[id] /\ len[id] \in Nat
  BY <1>1, <1>3
<1>7. ASSUME NEW i \in 1 .. len'[id]
      PROVE  i + 1 \in 1 .. len[id] /\ Waiting(id)'[i] = Waiting(id)[i + 1]
  BY <1>4, <1>5, <1>6
<1>8. ASSUME NEW p \in Port, p # id PROVE len[p] = 0 /\ len'[p] = 0
  <2>1. owner[p] = NoPid
    BY <1>1, <1>8 DEF OnePort
  <2>2. Waiting(p) = <<>> /\ Waiting(p)' = Waiting(p)
    BY <1>1, <1>8, <2>1 DEF IpcInv, FreeEmpty
  <2> QED BY <1>3, <2>2
<1>9. events[id][head[id]] = Waiting(id)[1] /\ Waiting(id)[1] \in Event
  <2>1. head[id] \in 0 .. QueueLen - 1 /\ QueueLen \in Nat \ {0}
    BY <1>0, <1>1, IpcAssumption DEF TypeOK
  <2>2. Waiting(id)[1] = events[id][(head[id] + (1 - 1)) % QueueLen]
    BY <1>1, <1>2, <1>6 DEF WaitingSeq
  <2>3. (head[id] + (1 - 1)) % QueueLen = head[id]
    BY <2>1
  <2>4. events[id][head[id]] \in Event
    BY <1>0, <1>1, <2>1 DEF TypeOK
  <2> QED BY <2>2, <2>3, <2>4
<1> QED BY <1>1, <1>5, <1>6, <1>7, <1>8, <1>9

(* Waiting events carry 0 or a key, and a waiting key was produced. *)
LEMMA WaitingValues ==
  ASSUME TypeOK, KeysKept, NEW p \in Port, NEW i \in 1 .. len[p]
  PROVE  /\ Waiting(p)[i] \in Event /\ Waiting(p)[i].value \in Nat
         /\ Waiting(p)[i].value # 0 => Waiting(p)[i].value < nextKey
<1>1. Waiting(p) \in Seq(Event) /\ Len(Waiting(p)) = len[p]
  BY WaitingIsSeq DEF WaitingSeq
<1>2. Waiting(p)[i] \in Event
  BY <1>1
<1>3. Waiting(p)[i].value \in Nat
  BY <1>2, EventsAssumption DEF Event
<1> QED BY <1>2, <1>3 DEF KeysKept, InPort

(* The keys, and the worker's event, where the ports stay as they are. *)
LEMMA PortsUnmoved ==
  ASSUME UNCHANGED portVars
  PROVE  /\ \A k : InPort(k)' <=> InPort(k)
         /\ \A p, i : PostAt(p, i)' <=> PostAt(p, i)
         /\ KeysInOrder /\ got' = got => KeysInOrder'
<1>1. len' = len /\ \A p : Waiting(p)' = Waiting(p)
  BY DEF portVars, Waiting
<1>2. \A k : InPort(k)' <=> InPort(k)
  BY <1>1 DEF InPort
<1>3. \A p, i : PostAt(p, i)' <=> PostAt(p, i)
  BY <1>1 DEF PostAt
<1>4. KeysInOrder /\ got' = got => KeysInOrder'
  BY <1>1 DEF KeysInOrder
<1> QED BY <1>2, <1>3, <1>4

(* An event that is no key changes nothing about the keys. *)
LEMMA KeysAfterOther ==
  ASSUME TypeOK, TypeOK', KeysInOrder, KeysKept, NEW id, NEW e \in Event, e.value = 0,
         SendAs(id, e), UNCHANGED <<got, dropped, nextKey>>
  PROVE  KeysInOrder' /\ KeysKept'
<1>1. CASE Accepts(id)
  <2>1. /\ id \in Port /\ len[id] \in Nat
        /\ \A p \in Port : \A i \in 1 .. len'[p] :
             \/ i \in 1 .. len[p] /\ Waiting(p)'[i] = Waiting(p)[i]
             \/ p = id /\ i = len[id] + 1 /\ Waiting(p)'[i] = e
        /\ \A p \in Port : \A i \in 1 .. len[p] :
             i \in 1 .. len'[p] /\ Waiting(p)'[i] = Waiting(p)[i]
    BY <1>1, SlotsAfterSend
  <2>2. \A p \in Port : \A i \in 1 .. len'[p] : Waiting(p)'[i].value # 0 =>
          i \in 1 .. len[p] /\ Waiting(p)'[i].value = Waiting(p)[i].value
    BY <2>1
  <2>3. KeysInOrder'
    BY <2>2 DEF KeysInOrder
  <2>4. \A k \in Nat \ {0} : InPort(k)' <=> InPort(k)
    BY <2>1, <2>2 DEF InPort
  <2>5. \A k : InGot(k)' <=> InGot(k)
    BY DEF InGot
  <2> QED BY <2>3, <2>4, <2>5 DEF KeysKept
<1>2. CASE ~Accepts(id)
  <2>1. UNCHANGED portVars
    BY <1>2 DEF SendAs
  <2>2. KeysInOrder' /\ \A k : InPort(k)' <=> InPort(k)
    BY <2>1, PortsUnmoved
  <2>3. \A k : InGot(k)' <=> InGot(k)
    BY DEF InGot
  <2> QED BY <2>2, <2>3 DEF KeysKept
<1> QED BY <1>1, <1>2

(* The next key comes last, or is dropped. *)
LEMMA KeysAfterKey ==
  ASSUME TypeOK, TypeOK', KeysInOrder, KeysKept, nextKey \in Nat \ {0},
         NEW id, NEW e \in Event, e.value = nextKey, SendAs(id, e),
         nextKey' = nextKey + 1, got' = got,
         dropped' = IF Accepts(id) THEN dropped ELSE dropped \cup {nextKey}
  PROVE  KeysInOrder' /\ KeysKept'
<1>1. \A k : InGot(k)' <=> InGot(k)
  BY DEF InGot
<1>2. \A i \in 1 .. Len(got) : got[i] \in Nat \ {0} /\ got[i] < nextKey
  BY DEF KeysInOrder, KeysKept, InGot
<1>3. ~InPort(nextKey) /\ ~InGot(nextKey) /\ nextKey \notin dropped
  BY DEF KeysKept
<1>4. \A k \in Nat \ {0} : k < nextKey' <=> k < nextKey \/ k = nextKey
  OBVIOUS
<1>5. CASE Accepts(id)
  <2>1. /\ id \in Port /\ len[id] \in Nat
        /\ \A p \in Port : \A i \in 1 .. len'[p] :
             \/ i \in 1 .. len[p] /\ Waiting(p)'[i] = Waiting(p)[i]
             \/ p = id /\ i = len[id] + 1 /\ Waiting(p)'[i] = e
        /\ \A p \in Port : \A i \in 1 .. len[p] :
             i \in 1 .. len'[p] /\ Waiting(p)'[i] = Waiting(p)[i]
        /\ len[id] + 1 \in 1 .. len'[id] /\ Waiting(id)'[len[id] + 1] = e
    BY <1>5, SlotsAfterSend
  <2>2. KeysInOrder'
    <3>1. ASSUME NEW p \in Port, NEW i \in 1 .. len'[p], NEW j \in 1 .. len'[p], i < j,
                 Waiting(p)'[i].value # 0, Waiting(p)'[j].value # 0
          PROVE  Waiting(p)'[i].value < Waiting(p)'[j].value
      <4>1. CASE j \in 1 .. len[p] /\ Waiting(p)'[j] = Waiting(p)[j]
        <5>1. i \in 1 .. len[p] /\ Waiting(p)'[i] = Waiting(p)[i]
          BY <2>1, <3>1, <4>1
        <5> QED BY <3>1, <4>1, <5>1 DEF KeysInOrder
      <4>2. CASE p = id /\ j = len[id] + 1 /\ Waiting(p)'[j] = e
        <5>1. i \in 1 .. len[p]
          BY <2>1, <3>1, <4>2
        <5>2. Waiting(p)'[i] = Waiting(p)[i]
          BY <2>1, <5>1
        <5> QED BY <3>1, <4>2, <5>1, <5>2, WaitingValues
      <4> QED BY <2>1, <4>1, <4>2
    <3>2. ASSUME NEW p \in Port, NEW i \in 1 .. len'[p], NEW j \in 1 .. Len(got),
                 Waiting(p)'[i].value # 0
          PROVE  got[j] < Waiting(p)'[i].value
      BY <1>2, <2>1, <3>2 DEF KeysInOrder
    <3> QED BY <3>1, <3>2 DEF KeysInOrder
  <2>3. \A k \in Nat \ {0} : InPort(k)' <=> InPort(k) \/ k = nextKey
    BY <2>1 DEF InPort
  <2>4. dropped' = dropped
    BY <1>5
  <2> QED BY <1>1, <1>3, <1>4, <2>2, <2>3, <2>4 DEF KeysKept
<1>6. CASE ~Accepts(id)
  <2>1. UNCHANGED portVars
    BY <1>6 DEF SendAs
  <2>2. KeysInOrder'
    BY <2>1, PortsUnmoved
  <2>3. \A k : InPort(k)' <=> InPort(k)
    BY <2>1, PortsUnmoved
  <2>4. dropped' = dropped \cup {nextKey}
    BY <1>6
  <2> QED BY <1>1, <1>3, <1>4, <2>2, <2>3, <2>4 DEF KeysKept
<1> QED BY <1>5, <1>6

(* What the worker's post depends on, after an event of another's. *)
LEMMA PostAfterOther ==
  ASSUME TypeOK, TypeOK', PostKept, NEW id, NEW e \in Event, e.from # Pid(Worker),
         SendAs(id, e), UNCHANGED <<posted, gotPost>>, call'[Worker] = call[Worker]
  PROVE  PostKept'
<1>1. CASE Accepts(id)
  <2>1. /\ \A p \in Port : \A i \in 1 .. len'[p] :
             \/ i \in 1 .. len[p] /\ Waiting(p)'[i] = Waiting(p)[i]
             \/ p = id /\ i = len[id] + 1 /\ Waiting(p)'[i] = e
        /\ \A p \in Port : \A i \in 1 .. len[p] :
             i \in 1 .. len'[p] /\ Waiting(p)'[i] = Waiting(p)[i]
    BY <1>1, SlotsAfterSend
  <2>2. \A p \in Port, i \in Nat : PostAt(p, i)' <=> PostAt(p, i)
    BY <2>1 DEF PostAt
  <2> QED BY <2>2 DEF PostKept
<1>2. CASE ~Accepts(id)
  <2>1. UNCHANGED portVars
    BY <1>2 DEF SendAs
  <2>2. \A p, i : PostAt(p, i)' <=> PostAt(p, i)
    BY <2>1, PortsUnmoved
  <2> QED BY <2>2 DEF PostKept
<1> QED BY <1>1, <1>2

(* The worker's own post: accepted and noted, or neither. *)
LEMMA PostAfterPost ==
  ASSUME IpcInv, TypeOK', PostKept, WorkerPosted
  PROVE  PostKept'
<1>0. TypeOK /\ Worker \in KernelTask
  BY EventsAssumption DEF IpcInv, SourceGenuine
<1>a. PICK id : id = call[Worker].id
  OBVIOUS
<1>b. PICK e : e = [source |-> call[Worker].source, from |-> Pid(Worker), value |-> call[Worker].value]
  OBVIOUS
<1>1. /\ SendAs(id, e) /\ call' = [call EXCEPT ![Worker] = Idle] /\ call[Worker] # Idle
      /\ posted' = Accepts(id) /\ gotPost' = gotPost
  BY <1>a, <1>b DEF WorkerPosted, FinishSend, PostResult
<1>2. e \in Event
  BY <1>0, <1>b, PidFacts DEF Event, Task, TypeOK
<1>3. ~posted /\ gotPost = 0 /\ \A p \in Port, i \in Nat : ~PostAt(p, i)
  BY <1>1 DEF PostKept
<1>4. call'[Worker] = Idle
  BY <1>0, <1>1 DEF TypeOK
<1>5. e.from = Pid(Worker)
  BY <1>b
<1>6. CASE Accepts(id)
  <2>1. /\ id \in Port /\ len[id] \in Nat
        /\ \A p \in Port : \A i \in 1 .. len'[p] :
             \/ i \in 1 .. len[p] /\ Waiting(p)'[i] = Waiting(p)[i]
             \/ p = id /\ i = len[id] + 1 /\ Waiting(p)'[i] = e
        /\ len[id] + 1 \in 1 .. len'[id] /\ Waiting(id)'[len[id] + 1] = e
    BY <1>0, <1>1, <1>2, <1>6, SlotsAfterSend
  <2>a. PICK n \in Nat : n = len[id] + 1
    BY <2>1
  <2>2. PostAt(id, n)'
    BY <1>5, <2>1, <2>a DEF PostAt
  <2>3. \A q \in Port, j \in Nat : PostAt(q, j)' => q = id /\ j = n
    BY <1>3, <2>1, <2>a DEF PostAt
  <2>4. posted' = TRUE /\ gotPost' = 0
    BY <1>1, <1>3, <1>6
  <2> QED BY <1>4, <2>1, <2>2, <2>3, <2>4 DEF PostKept
<1>7. CASE ~Accepts(id)
  <2>1. UNCHANGED portVars
    BY <1>1, <1>7 DEF SendAs
  <2>2. \A p, i : PostAt(p, i)' <=> PostAt(p, i)
    BY <2>1, PortsUnmoved
  <2>3. posted' = FALSE /\ gotPost' = 0
    BY <1>1, <1>3, <1>7
  <2> QED BY <1>3, <1>4, <2>2, <2>3 DEF PostKept
<1> QED BY <1>6, <1>7

(* A turn of the drain loop takes the least waiting key, or the worker's   *)
(* event, and enters it in the history.                                    *)
LEMMA DrainKeeps ==
  ASSUME IpcInv, TypeOK', AccountInv, Drain
  PROVE  KeysInOrder' /\ KeysKept' /\ PostKept'
<1>a. PICK id : id = eventPort[Boot]
  OBVIOUS
<1>b. PICK e : e = Waiting(id)[1]
  OBVIOUS
<1>0. TypeOK
  BY DEF IpcInv, SourceGenuine
<1>1. /\ Recv(id) /\ UNCHANGED <<nextKey, dropped, posted, call>>
      /\ got' = IF Taken.value > 0 THEN Append(got, Taken.value) ELSE got
      /\ gotPost' = IF Taken.from = Pid(Worker) THEN gotPost + 1 ELSE gotPost
      /\ Taken = events[id][head[id]]
  BY <1>a DEF Drain, Recv, Taken
<1>2. /\ owner' = owner /\ id \in Port /\ 1 \in 1 .. len[id] /\ len[id] \in Nat
      /\ Taken = e /\ e \in Event /\ e = Waiting(id)[1]
      /\ len'[id] = len[id] - 1
      /\ \A i \in 1 .. len'[id] : i + 1 \in 1 .. len[id] /\ Waiting(id)'[i] = Waiting(id)[i + 1]
      /\ \A p \in Port : p # id => len[p] = 0 /\ len'[p] = 0
  BY <1>1, <1>b, SlotsAfterRecv DEF AccountInv
<1>3. e.value \in Nat /\ (e.value # 0 => e.value < nextKey)
  BY <1>0, <1>2, <1>b, WaitingValues DEF AccountInv
<1>4. \A i \in 1 .. len[id] : i # 1 => i - 1 \in 1 .. len'[id] /\ Waiting(id)'[i - 1] = Waiting(id)[i]
  BY <1>2
<1>5. KeysInOrder /\ KeysKept /\ PostKept /\ got \in Seq(Nat \ {0}) /\ Len(got) \in Nat
  BY EmptySeq DEF AccountInv, KeysInOrder
<1>6. ASSUME e.value = 0 PROVE KeysInOrder' /\ KeysKept'
  <2>1. got' = got
    BY <1>1, <1>2, <1>6
  <2>2. KeysInOrder'
    <3>1. \A p \in Port : \A i \in 1 .. len'[p] : p = id
      BY <1>2
    <3>2. \A i, j \in 1 .. len'[id] :
            i < j /\ Waiting(id)'[i].value # 0 /\ Waiting(id)'[j].value # 0
              => Waiting(id)'[i].value < Waiting(id)'[j].value
      BY <1>2, <1>5 DEF KeysInOrder
    <3>3. \A i \in 1 .. len'[id] : \A j \in 1 .. Len(got) :
            Waiting(id)'[i].value # 0 => got[j] < Waiting(id)'[i].value
      BY <1>2, <1>5 DEF KeysInOrder
    <3> QED BY <1>5, <2>1, <3>1, <3>2, <3>3 DEF KeysInOrder
  <2>3. \A k \in Nat \ {0} : InPort(k)' <=> InPort(k)
    <3>1. \A k : InPort(k)' => InPort(k)
      BY <1>2 DEF InPort
    <3>2. \A k \in Nat \ {0} : InPort(k) => InPort(k)'
      <4> SUFFICES ASSUME NEW k \in Nat \ {0}, NEW p \in Port, NEW i \in 1 .. len[p],
                          Waiting(p)[i].value = k
                   PROVE  InPort(k)'
        BY DEF InPort
      <4>1. p = id /\ i # 1
        BY <1>2, <1>6
      <4>2. i - 1 \in 1 .. len'[id] /\ Waiting(id)'[i - 1].value = k
        BY <1>4, <4>1
      <4> QED BY <1>2, <4>2 DEF InPort
    <3> QED BY <3>1, <3>2
  <2>4. \A k : InGot(k)' <=> InGot(k)
    BY <2>1 DEF InGot
  <2>5. KeysKept'
    BY <1>1, <1>5, <2>3, <2>4 DEF KeysKept
  <2> QED BY <2>2, <2>5
<1>7. ASSUME e.value # 0 PROVE KeysInOrder' /\ KeysKept'
  <2>1. got' = Append(got, e.value) /\ e.value \in Nat \ {0}
    BY <1>1, <1>2, <1>3, <1>7
  <2>2. /\ got' \in Seq(Nat \ {0}) /\ Len(got') = Len(got) + 1
        /\ \A j \in 1 .. Len(got) : got'[j] = got[j]
        /\ got'[Len(got) + 1] = e.value
    BY <1>5, <2>1, AppendProperties
  <2>3. \A j \in 1 .. Len(got) : got[j] \in Nat \ {0} /\ got[j] < e.value
    BY <1>2, <1>5, <1>7 DEF KeysInOrder
  <2>4. \A i \in 1 .. len'[id] : Waiting(id)'[i].value # 0 => e.value < Waiting(id)'[i].value
    BY <1>2, <1>5, <1>7 DEF KeysInOrder
  <2>5. KeysInOrder'
    <3>1. \A p \in Port : \A i \in 1 .. len'[p] : p = id
      BY <1>2
    <3>2. \A i, j \in 1 .. len'[id] :
            i < j /\ Waiting(id)'[i].value # 0 /\ Waiting(id)'[j].value # 0
              => Waiting(id)'[i].value < Waiting(id)'[j].value
      BY <1>2, <1>5 DEF KeysInOrder
    <3>3. \A i \in 1 .. len'[id] : \A j \in 1 .. Len(got) :
            Waiting(id)'[i].value # 0 => got[j] < Waiting(id)'[i].value
      BY <1>2, <1>5 DEF KeysInOrder
    <3>4. \A j \in 1 .. Len(got') : j \in 1 .. Len(got) \/ j = Len(got) + 1
      BY <1>5, <2>2
    <3>5. \A i \in 1 .. len'[id] : \A j \in 1 .. Len(got') :
            Waiting(id)'[i].value # 0 => got'[j] < Waiting(id)'[i].value
      BY <2>2, <2>4, <3>3, <3>4
    <3>6. \A i, j \in 1 .. Len(got') : i < j => got'[i] < got'[j]
      <4> SUFFICES ASSUME NEW i \in 1 .. Len(got'), NEW j \in 1 .. Len(got'), i < j
                   PROVE  got'[i] < got'[j]
        OBVIOUS
      <4>1. i \in 1 .. Len(got)
        BY <1>5, <2>2
      <4>2. CASE j \in 1 .. Len(got)
        BY <1>5, <2>2, <4>1, <4>2 DEF KeysInOrder
      <4>3. CASE j = Len(got) + 1
        BY <2>2, <2>3, <4>1, <4>3
      <4> QED BY <3>4, <4>2, <4>3
    <3> QED BY <2>2, <3>1, <3>2, <3>5, <3>6 DEF KeysInOrder
  <2>6. \A k : InGot(k)' <=> InGot(k) \/ k = e.value
    BY <1>5, <2>2 DEF InGot
  <2>7. \A k : InPort(k)' => InPort(k)
    BY <1>2 DEF InPort
  <2>8. \A k : InPort(k) => InPort(k)' \/ k = e.value
    <3> SUFFICES ASSUME NEW k, NEW p \in Port, NEW i \in 1 .. len[p],
                        Waiting(p)[i].value = k, k # e.value
                 PROVE  InPort(k)'
      BY DEF InPort
    <3>1. p = id /\ i # 1
      BY <1>2
    <3>2. i - 1 \in 1 .. len'[id] /\ Waiting(id)'[i - 1].value = k
      BY <1>4, <3>1
    <3> QED BY <1>2, <3>2 DEF InPort
  <2>9. InPort(e.value)
    BY <1>2 DEF InPort
  <2>10. KeysKept'
    BY <1>1, <1>5, <2>1, <2>6, <2>7, <2>8, <2>9 DEF KeysKept
  <2> QED BY <2>5, <2>10
<1>8. PostKept'
  <2>1. /\ \A p \in Port, i \in Nat : PostAt(p, i)' => p = id /\ PostAt(id, i + 1) /\ i + 1 # 1
        /\ \A p \in Port, i \in Nat : PostAt(p, i) => p = id
        /\ \A i \in Nat : PostAt(id, i) /\ i # 1 => i - 1 \in Nat /\ PostAt(id, i - 1)'
        /\ PostAt(id, 1) <=> e.from = Pid(Worker)
    BY <1>2, <1>4 DEF PostAt
  <2>2. posted' = posted /\ call' = call
    BY <1>1
  <2>3. CASE e.from = Pid(Worker)
    <3>1. PostAt(id, 1) /\ gotPost' = gotPost + 1
      BY <1>1, <1>2, <2>1, <2>3
    <3>2. posted /\ gotPost = 0 /\ \A j \in Nat : PostAt(id, j) => j = 1
      BY <1>2, <1>5, <3>1 DEF PostKept
    <3>3. \A p \in Port, i \in Nat : ~PostAt(p, i)'
      BY <2>1, <3>2
    <3> QED BY <1>5, <2>2, <3>1, <3>2, <3>3 DEF PostKept
  <2>4. CASE e.from # Pid(Worker)
    <3>1. ~PostAt(id, 1) /\ gotPost' = gotPost
      BY <1>1, <1>2, <2>1, <2>4
    <3>2. CASE \A p \in Port, i \in Nat : ~PostAt(p, i)
      <4>1. \A p \in Port, i \in Nat : ~PostAt(p, i)'
        BY <1>2, <2>1, <3>2
      <4> QED BY <1>5, <2>2, <3>1, <3>2, <4>1 DEF PostKept
    <3>3. CASE ~\A p \in Port, i \in Nat : ~PostAt(p, i)
      <4>1. posted /\ gotPost = 0
        BY <1>5, <3>3 DEF PostKept
      <4>2. PICK p \in Port, i \in Nat :
              PostAt(p, i) /\ \A q \in Port, j \in Nat : PostAt(q, j) => q = p /\ j = i
        BY <1>5, <3>3, <4>1 DEF PostKept
      <4>3. p = id /\ i # 1
        BY <2>1, <3>1, <4>2
      <4>4. i - 1 \in Nat /\ PostAt(id, i - 1)'
        BY <2>1, <4>2, <4>3
      <4>5. \A q \in Port, j \in Nat : PostAt(q, j)' => q = id /\ j = i - 1
        BY <1>2, <2>1, <4>2, <4>3
      <4> QED BY <1>2, <1>5, <2>2, <3>1, <4>1, <4>4, <4>5 DEF PostKept
    <3> QED BY <3>2, <3>3
  <2> QED BY <2>3, <2>4
<1> QED BY <1>6, <1>7, <1>8

(* Nothing is accounted for yet at boot. *)
LEMMA AccountInit == EInit => AccountInv
<1> SUFFICES ASSUME EInit PROVE AccountInv
  OBVIOUS
<1>1. /\ \A p \in Port : len[p] = 0 /\ owner[p] = NoPid
      /\ got = <<>> /\ dropped = {} /\ nextKey = 1 /\ posted = FALSE /\ gotPost = 0
      /\ call[Worker] = Idle
  BY EventsAssumption DEF EInit, Init
<1>2. got \in Seq(Nat \ {0}) /\ Len(got) = 0
  BY <1>1, EmptySeq
<1>3. OnePort
  BY <1>1 DEF OnePort
<1>4. KeysInOrder
  BY <1>1, <1>2 DEF KeysInOrder
<1>5. KeysKept
  BY <1>1, <1>2 DEF KeysKept, InGot, InPort
<1>6. PostKept
  <2>1. ~posted /\ posted \in BOOLEAN /\ \A p \in Port, i \in Nat : ~PostAt(p, i)
    <3>1. \A p \in Port, i \in Nat : ~PostAt(p, i)
      BY <1>1 DEF PostAt
    <3> QED BY <1>1, <3>1
  <2> QED BY <1>1, <2>1 DEF PostKept
<1> QED BY <1>3, <1>4, <1>5, <1>6 DEF AccountInv

(* core_main opens one port and no other task opens any. *)
LEMMA OnePortKept ==
  ASSUME TypeOK, OnePort, [ENext]_allVars
  PROVE  OnePort'
<1>1. CASE OpenPort
  <2>1. pc' = "main" /\ pc = "create" /\ \E p \in Port : owner' = [owner EXCEPT ![p] = CurrentPid]
    BY <1>1 DEF OpenPort, Create, FreePorts
  <2> QED BY <2>1 DEF OnePort, TypeOK
<1>2. CASE StoreMainPort \/ SetEventPort \/ SetBootPort \/ SpawnApp \/ ScanDone \/ Drained
  <2>1. owner' = owner /\ pc' # "create"
    BY <1>2 DEF StoreMainPort, SetEventPort, SetBootPort, SpawnApp, ScanDone, Drained, vars, portVars
  <2> QED BY <2>1 DEF OnePort
<1>3. CASE ScanKey \/ Drain
  <2>1. owner' = owner /\ pc' = pc
    BY <1>3 DEF ScanKey, Drain, SendSystem, SendAs, Recv, portVars
  <2> QED BY <2>1 DEF OnePort
<1>4. CASE WorkerStep \/ OnTick \/ AppSend
  <2>1. owner' = owner /\ pc' = pc
    BY <1>4 DEF WorkerStep, WorkerPost, WorkerPosted, OnTick, AppSend, BeginSend, FinishSend,
                SendSystem, SyscallSend, SendAs, portVars, progVars
  <2> QED BY <2>1 DEF OnePort
<1>5. CASE (\E t \in Task : Switch(t)) \/ UNCHANGED allVars
  <2>1. owner' = owner /\ pc' = pc
    BY <1>5 DEF Switch, Preempt, portVars, progVars, allVars, vars
  <2> QED BY <2>1 DEF OnePort
<1> QED BY <1>1, <1>2, <1>3, <1>4, <1>5 DEF ENext, BootStep

(* A step that leaves the ports and the histories alone. *)
LEMMA AccountUnmoved ==
  ASSUME KeysInOrder, KeysKept, PostKept, UNCHANGED portVars,
         UNCHANGED <<got, dropped, nextKey, posted, gotPost>>,
         \/ call'[Worker] = call[Worker]
         \/ ~posted /\ call'[Worker].value = 0
  PROVE  KeysInOrder' /\ KeysKept' /\ PostKept'
<1>1. KeysInOrder' /\ KeysKept'
  <2>1. KeysInOrder' /\ \A k : InPort(k)' <=> InPort(k)
    BY PortsUnmoved
  <2>2. \A k : InGot(k)' <=> InGot(k)
    BY DEF InGot
  <2> QED BY <2>1, <2>2 DEF KeysKept
<1>2. \A p, i : PostAt(p, i)' <=> PostAt(p, i)
  BY PortsUnmoved
<1> QED BY <1>1, <1>2 DEF PostKept

(* Every step keeps the accounts. *)
LEMMA AccountKept ==
  ASSUME IpcInv, TypeOK', EventsInv, AccountInv, [ENext]_allVars
  PROVE  AccountInv'
<1>0. /\ TypeOK /\ OnePort /\ KeysInOrder /\ KeysKept /\ PostKept
      /\ Boot \in KernelTask /\ Worker \in KernelTask /\ Boot # Worker /\ 0 \in Value
      /\ call \in [KernelTask -> [id : Id, source : PidOrNone, value : Value]]
  BY EventsAssumption DEF IpcInv, SourceGenuine, TypeOK, AccountInv
<1>1. OnePort'
  BY <1>0, OnePortKept
<1> SUFFICES KeysInOrder' /\ KeysKept' /\ PostKept'
  BY <1>1 DEF AccountInv
<1>2. CASE OpenPort
  <2>1. /\ UNCHANGED <<got, dropped, nextKey, posted, gotPost, call>>
        /\ pc = "create"
    BY <1>2 DEF OpenPort, Create
  <2>2. \A p \in Port : len[p] = 0 /\ len'[p] = 0
    <3>1. WaitingSeq
      BY <1>0, WaitingIsSeq
    <3>2. \A p \in Port : len[p] = 0
      BY <1>0, <2>1, <3>1 DEF OnePort, IpcInv, FreeEmpty, WaitingSeq
    <3>3. \E p \in Port : len' = [len EXCEPT ![p] = 0]
      BY <1>2 DEF OpenPort, Create, FreePorts
    <3> QED BY <1>0, <3>2, <3>3 DEF TypeOK
  <2>3. KeysInOrder'
    BY <1>0, <2>1, <2>2 DEF KeysInOrder
  <2>4. \A k : ~InPort(k) /\ ~InPort(k)'
    BY <2>2 DEF InPort
  <2>5. \A k : InGot(k)' <=> InGot(k)
    BY <2>1 DEF InGot
  <2>6. KeysKept'
    BY <1>0, <2>1, <2>4, <2>5 DEF KeysKept
  <2>7. \A p \in Port, i \in Nat : ~PostAt(p, i) /\ ~PostAt(p, i)'
    BY <2>2 DEF PostAt
  <2>8. PostKept'
    BY <1>0, <2>1, <2>7 DEF PostKept
  <2> QED BY <2>3, <2>6, <2>8
<1>3. CASE StoreMainPort \/ SetEventPort \/ SetBootPort \/ SpawnApp \/ ScanDone \/ Drained
  <2>1. UNCHANGED <<vars, got, dropped, nextKey, posted, gotPost>>
    BY <1>3 DEF StoreMainPort, SetEventPort, SetBootPort, SpawnApp, ScanDone, Drained
  <2> QED BY <1>0, <2>1, AccountUnmoved DEF vars
<1>4. CASE ScanKey
  <2> DEFINE e == [source |-> NoPid, from |-> NoPid, value |-> nextKey]
  <2>1. /\ SendAs(mainPort, e) /\ UNCHANGED <<got, posted, gotPost, call>>
        /\ nextKey' = nextKey + 1
        /\ dropped' = IF Accepts(mainPort) THEN dropped ELSE dropped \cup {nextKey}
        /\ nextKey <= MaxKeys
    BY <1>4 DEF ScanKey, SendSystem
  <2>2. nextKey \in Nat \ {0} /\ nextKey \in Value
    BY <2>1, EventsAssumption DEF EventsInv
  <2>3. e \in Event /\ e.value = nextKey /\ e.from # Pid(Worker)
    BY <1>0, <2>2, PidFacts DEF Event, Task
  <2> HIDE DEF e
  <2>4. KeysInOrder' /\ KeysKept'
    BY <1>0, <2>1, <2>2, <2>3, KeysAfterKey
  <2>5. PostKept'
    BY <1>0, <2>1, <2>3, PostAfterOther
  <2> QED BY <2>4, <2>5
<1>5. CASE Drain
  BY <1>5, DrainKeeps
<1>6. CASE WorkerPost
  <2>1. /\ UNCHANGED <<portVars, got, dropped, nextKey, posted, gotPost>> /\ ~posted
        /\ \E pid : call' = [call EXCEPT ![Worker] = [id |-> mainPort, source |-> pid, value |-> 0]]
    BY <1>6 DEF WorkerPost, BeginSend, progVars
  <2>2. call'[Worker].value = 0
    BY <1>0, <2>1
  <2> QED BY <1>0, <2>1, <2>2, AccountUnmoved
<1>7. CASE WorkerPosted
  <2> DEFINE e == [source |-> call[Worker].source, from |-> Pid(Worker), value |-> call[Worker].value]
  <2>1. SendAs(call[Worker].id, e) /\ UNCHANGED <<got, dropped, nextKey>> /\ call[Worker] # Idle
    BY <1>7 DEF WorkerPosted, FinishSend
  <2>2. e \in Event
    BY <1>0, PidFacts DEF Event, Task
  <2>3. e.value = 0
    BY <1>0, <2>1 DEF PostKept
  <2> HIDE DEF e
  <2>4. KeysInOrder' /\ KeysKept'
    BY <1>0, <2>1, <2>2, <2>3, KeysAfterOther
  <2>5. PostKept'
    BY <1>0, <1>7, PostAfterPost
  <2> QED BY <2>4, <2>5
<1>8. CASE OnTick
  <2> DEFINE e == [source |-> NoPid, from |-> NoPid, value |-> 0]
  <2>1. SendAs(bootPort, e) /\ UNCHANGED <<got, dropped, nextKey, posted, gotPost, call>>
    BY <1>8 DEF OnTick, SendSystem
  <2>2. e \in Event /\ e.value = 0 /\ e.from # Pid(Worker)
    BY <1>0, PidFacts DEF Event, Task
  <2> HIDE DEF e
  <2> QED BY <1>0, <2>1, <2>2, KeysAfterOther, PostAfterOther
<1>9. CASE AppSend
  <2> DEFINE e == [source |-> CurrentPid, from |-> Pid(UserTask), value |-> 0]
  <2>1. SendAs(eventPort[UserTask], e) /\ UNCHANGED <<got, dropped, nextKey, posted, gotPost, call>>
    BY <1>9 DEF AppSend, SyscallSend
  <2>2. e \in Event /\ e.value = 0 /\ e.from # Pid(Worker)
    <3>1. Worker \in Task /\ UserTask \in Task /\ UserTask # Worker /\ current \in Task
      BY <1>0, IpcAssumption DEF Task, TypeOK
    <3>2. Pid(UserTask) # Pid(Worker)
      BY <3>1, PidFacts
    <3> QED BY <1>0, <3>1, <3>2, PidFacts DEF Event, CurrentPid
  <2> HIDE DEF e
  <2> QED BY <1>0, <2>1, <2>2, KeysAfterOther, PostAfterOther
<1>10. CASE (\E t \in Task : Switch(t)) \/ UNCHANGED allVars
  <2>1. UNCHANGED <<portVars, got, dropped, nextKey, posted, gotPost, call>>
    BY <1>10 DEF Switch, Preempt, progVars, allVars, vars
  <2> QED BY <1>0, <2>1, AccountUnmoved
<1> QED BY <1>2, <1>3, <1>4, <1>5, <1>6, <1>7, <1>8, <1>9, <1>10
        DEF ENext, BootStep, WorkerStep

(* The accounts are what EventsAccounted says. *)
LEMMA AccountsBalance == TypeOK /\ EventsInv /\ AccountInv => EventsAccounted
<1> SUFFICES ASSUME TypeOK, EventsInv, AccountInv PROVE EventsAccounted
  OBVIOUS
<1> DEFINE slots == {x \in Port \X (1 .. QueueLen) :
                       x[2] <= len[x[1]] /\ Waiting(x[1])[x[2]].from = Pid(Worker)}
<1>0. KeysInOrder /\ KeysKept /\ PostKept /\ nextKey \in Nat \ {0} /\ QueueLen \in Nat
  BY IpcAssumption DEF AccountInv, EventsInv
<1>1. \A p \in Port, i \in Nat : <<p, i>> \in slots <=> PostAt(p, i)
  <2> SUFFICES ASSUME NEW p \in Port, NEW i \in Nat
               PROVE  <<p, i>> \in slots <=> PostAt(p, i)
    OBVIOUS
  <2>1. len[p] \in 0 .. QueueLen
    BY DEF TypeOK
  <2> QED BY <1>0, <2>1 DEF PostAt
<1>2. \A x \in slots : x[1] \in Port /\ x[2] \in Nat /\ x = <<x[1], x[2]>>
  OBVIOUS
<1> HIDE DEF slots
<1>3. ASSUME \A p \in Port, i \in Nat : ~PostAt(p, i) PROVE slots = {}
  BY <1>1, <1>2, <1>3
<1>4. ASSUME NEW p \in Port, NEW i \in Nat, PostAt(p, i),
             \A q \in Port, j \in Nat : PostAt(q, j) => q = p /\ j = i
      PROVE  \E x \in slots : slots = {x}
  <2>1. slots = {<<p, i>>}
    BY <1>1, <1>2, <1>4
  <2> QED BY <2>1
<1>6. PostedOnce
  <2>1. \/ ~posted /\ gotPost = 0 /\ slots = {}
        \/ posted /\ gotPost = 1 /\ slots = {}
        \/ posted /\ gotPost = 0 /\ \E x \in slots : slots = {x}
    BY <1>0, <1>3, <1>4 DEF PostKept
  <2> QED BY <2>1 DEF PostedOnce, slots
<1>7. \A k : k \in {got[i] : i \in 1 .. Len(got)} <=> InGot(k)
  BY DEF InGot
<1>8. \A k : k \in UNION {Key(p) : p \in Port} <=> InPort(k) /\ k # 0
  BY DEF InPort, Key
<1>9. \A k : InGot(k) => k \in Nat \ {0}
  BY <1>0 DEF InGot, KeysInOrder
<1>10. \A k : InPort(k) => k \in Nat
  BY <1>0, WaitingValues DEF InPort
<1>11. 1 .. nextKey - 1 = dropped \cup {got[i] : i \in 1 .. Len(got)} \cup UNION {Key(p) : p \in Port}
  <2>1. \A k : k \in 1 .. nextKey - 1 <=> k \in Nat \ {0} /\ k < nextKey
    BY <1>0
  <2>2. \A k : k \in dropped => k \in Nat \ {0}
    BY <1>0 DEF KeysKept
  <2> QED BY <1>0, <1>7, <1>8, <1>9, <1>10, <2>1, <2>2 DEF KeysKept
<1>12. dropped \cap ({got[i] : i \in 1 .. Len(got)} \cup UNION {Key(p) : p \in Port}) = {}
  BY <1>0, <1>7, <1>8 DEF KeysKept
<1> QED BY <1>0, <1>6, <1>11, <1>12 DEF EventsAccounted, KeysInOrder

(* Every key that ps2::poll takes is received in the order typed, still    *)
(* waiting, or dropped at a full port, never two of these, and worker_a's  *)
(* event is accepted exactly once, with any number of ports, keys, ticks   *)
(* and sends, and any schedule.                                            *)
THEOREM EventsAreAccounted == ESpec => []EventsAccounted
<1>1. EInit => IpcInv /\ EventsInv /\ AccountInv
  BY IpcInvInit, EventsInvInit, AccountInit DEF EInit
<1>2. IpcInv /\ EventsInv /\ AccountInv /\ [ENext]_allVars => IpcInv' /\ EventsInv' /\ AccountInv'
  <2> SUFFICES ASSUME IpcInv, EventsInv, AccountInv, [ENext]_allVars
               PROVE  IpcInv' /\ EventsInv' /\ AccountInv'
    OBVIOUS
  <2>1. IpcInv'
    BY EventsStep, IpcInvKept
  <2>2. TypeOK'
    BY <2>1 DEF IpcInv, SourceGenuine
  <2> QED BY <2>1, <2>2, EventsInvKept, AccountKept
<1>3. IpcInv /\ EventsInv /\ AccountInv => EventsAccounted
  BY AccountsBalance DEF IpcInv, SourceGenuine
<1> QED BY <1>1, <1>2, <1>3, PTL DEF ESpec
=============================================================================
