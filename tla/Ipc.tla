-------------------------------- MODULE Ipc --------------------------------
(***************************************************************************)
(* The message ports of kernel/rust/src/ipc.rs, used by preemptible kernel *)
(* threads, by the user task through syscalls 3 and 4, and by the timer    *)
(* interrupt.                                                              *)
(*                                                                         *)
(* create, recv and the body of send_as run with interrupts masked: one    *)
(* action each.  send reads the caller's pid BEFORE the mask, so a kernel  *)
(* thread's send is two actions that anything may come between.  A syscall *)
(* runs masked throughout.  Which task runs is any schedule: Sched says    *)
(* which ones happen.                                                      *)
(*                                                                         *)
(* An event's kind is abstracted to the pid of the context that sent it, 0 *)
(* for the kernel itself.                                                  *)
(***************************************************************************)
EXTENDS Naturals, Sequences

CONSTANTS MaxPorts,      \* MAX_PORTS
          QueueLen,      \* QUEUE_LEN
          KernelTask,    \* the kernel threads that use ports
          UserTask,      \* the ring-3 task
          Value          \* the values events carry

ASSUME IpcAssumption ==
  /\ MaxPorts \in Nat \ {0} /\ QueueLen \in Nat \ {0}
  /\ KernelTask \subseteq Nat /\ UserTask \in Nat \ KernelTask
  /\ KernelTask # {} /\ Value # {}

Task == KernelTask \cup {UserTask}
Port == 1 .. MaxPorts
Id == 0 .. MaxPorts + 1           \* port numbers a caller may pass
Pid(t) == t + 1                   \* SLOTS[t].pid
NoPid == 0                        \* a free port, and the source of system events
PidOrNone == {Pid(t) : t \in Task} \cup {NoPid}
Event == [source : PidOrNone, from : PidOrNone, value : Value]
EmptyEvent == [source |-> NoPid, from |-> NoPid, value |-> CHOOSE v \in Value : TRUE]
Idle == [id |-> 0, source |-> NoPid, value |-> CHOOSE v \in Value : TRUE]

VARIABLES
  owner,   \* PORTS[p].owner
  events,  \* PORTS[p].events
  head,    \* PORTS[p].head
  len,     \* PORTS[p].len
  current, \* the running task
  call     \* the send a kernel thread is in: its port and the pid it read

portVars == <<owner, events, head, len>>
vars == <<portVars, current, call>>

TypeOK ==
  /\ owner \in [Port -> PidOrNone]
  /\ events \in [Port -> [0 .. QueueLen - 1 -> Event]]
  /\ head \in [Port -> 0 .. QueueLen - 1]
  /\ len \in [Port -> 0 .. QueueLen]
  /\ current \in Task
  /\ call \in [KernelTask -> [id : Id, source : PidOrNone, value : Value]]

-----------------------------------------------------------------------------

Init ==
  /\ owner = [p \in Port |-> NoPid]
  /\ events = [p \in Port |-> [i \in 0 .. QueueLen - 1 |-> EmptyEvent]]
  /\ head = [p \in Port |-> 0]
  /\ len = [p \in Port |-> 0]
  /\ current \in KernelTask
  /\ call = [t \in KernelTask |-> Idle]

(* sched::current_pid. *)
CurrentPid == Pid(current)

(* The ports create looks for. *)
FreePorts == {p \in Port : owner[p] = NoPid}

(* create, by a kernel thread: the first free port is emptied and given to *)
(* the caller.                                                             *)
Create ==
  /\ current \in KernelTask
  /\ \E p \in FreePorts :
       /\ \A q \in FreePorts : p <= q
       /\ owner' = [owner EXCEPT ![p] = CurrentPid]
       /\ events' = [events EXCEPT ![p] = [i \in 0 .. QueueLen - 1 |-> EmptyEvent]]
       /\ head' = [head EXCEPT ![p] = 0]
       /\ len' = [len EXCEPT ![p] = 0]
  /\ UNCHANGED <<current, call>>

(* The conditions under which send_as stores the event. *)
Accepts(id) == id \in Port /\ owner[id] # NoPid /\ len[id] < QueueLen

(* Mutant: the tail is computed from the array's end, not the head. *)
TailSlotFixed(id) == len[id] % QueueLen
TailSlot(id) == (head[id] + len[id]) % QueueLen

(* send_as: store the event at the tail, or drop it. *)
SendAs(id, event) ==
  \/ /\ Accepts(id)
     /\ events' = [events EXCEPT ![id][TailSlot(id)] = event]
     /\ len' = [len EXCEPT ![id] = @ + 1]
     /\ UNCHANGED <<owner, head>>
  \/ ~Accepts(id) /\ UNCHANGED portVars

(* Mutant: the pid is read from whatever task runs next. *)
ReadPidNext(t) == {Pid(u) : u \in Task}
(* The pid that send, preemptible here, passes to send_as. *)
ReadPid(t) == {CurrentPid}

(* send by kernel thread t: the pid is read first ... *)
BeginSend(t, id, value) ==
  /\ current = t
  /\ call[t] = Idle
  /\ \E pid \in ReadPid(t) :
       call' = [call EXCEPT ![t] = [id |-> id, source |-> pid, value |-> value]]
  /\ UNCHANGED <<portVars, current>>

(* ... and the event is stored with interrupts masked, later. *)
FinishSend(t) ==
  /\ current = t
  /\ call[t] # Idle
  /\ SendAs(call[t].id,
            [source |-> call[t].source, from |-> Pid(t), value |-> call[t].value])
  /\ call' = [call EXCEPT ![t] = Idle]
  /\ UNCHANGED current

(* Syscall 3: both halves with interrupts masked. *)
SyscallSend(id, value) ==
  /\ current = UserTask
  /\ SendAs(id, [source |-> CurrentPid, from |-> Pid(UserTask), value |-> value])
  /\ UNCHANGED <<current, call>>

(* send_system: by the timer interrupt at any point, or by ps2::poll. *)
SendSystem(id, value) ==
  /\ SendAs(id, [source |-> NoPid, from |-> NoPid, value |-> value])
  /\ UNCHANGED <<current, call>>

MayReceive(id) == id \in Port /\ owner[id] = CurrentPid /\ len[id] # 0

(* recv: by a kernel thread, or by the user task through syscall 4, whose *)
(* buffer is checked before the event is taken.                           *)
Recv(id) ==
  /\ MayReceive(id)
  /\ head' = [head EXCEPT ![id] = (@ + 1) % QueueLen]
  /\ len' = [len EXCEPT ![id] = @ - 1]
  /\ UNCHANGED <<owner, events, current, call>>

(* The scheduler gives the CPU to another task. *)
Preempt(t) == current' = t /\ t # current /\ UNCHANGED <<portVars, call>>

Next ==
  \/ Create
  \/ \E id \in Id : Recv(id)
  \/ \E id \in Id, value \in Value : SyscallSend(id, value) \/ SendSystem(id, value)
  \/ \E t \in KernelTask, id \in Id, value \in Value : BeginSend(t, id, value)
  \/ \E t \in KernelTask : FinishSend(t)
  \/ \E t \in Task : Preempt(t)

Spec == Init /\ [][Next]_vars

-----------------------------------------------------------------------------

(* The events in port p, in the order recv returns them. *)
Waiting(p) == [i \in 1 .. len[p] |-> events[p][(head[p] + i - 1) % QueueLen]]

(* Every event in a port names the process that sent it, although send     *)
(* reads the pid before it masks interrupts; the kernel's own events name  *)
(* none.                                                                   *)
SourceGenuine ==
  /\ TypeOK
  /\ \A p \in Port : \A i \in 1 .. len[p] :
       Waiting(p)[i].source = Waiting(p)[i].from

(* The rings implement one first-in first-out queue per port: nothing      *)
(* accepted is lost, overtaken or delivered twice.                         *)
Abstract ==
  INSTANCE PortQueues WITH
    Capacity <- QueueLen, Process <- {Pid(t) : t \in Task}, Nobody <- NoPid,
    box <- [p \in Port |-> Waiting(p)], caller <- CurrentPid

ImplementsPorts == Abstract!Spec
=============================================================================
