------------------------------- MODULE Sched -------------------------------
(***************************************************************************)
(* The preemptive single-CPU scheduler, kernel/rust/src/sched.rs, together *)
(* with the context switch of kernel/asm/isr.S that it steers.             *)
(*                                                                         *)
(* Every entry point runs with interrupts masked (interrupt gates, or      *)
(* irq_save in spawn_user), so each is one atomic action.  Saved contexts  *)
(* are abstracted to the task whose context they are: frame[t] is the task *)
(* on whose stack the frame stored in TASKS[t] lies, fxArea[t] the task    *)
(* whose FP/XMM state the save area of t holds.  The diagnostic counters   *)
(* SWITCHES and Task.ticks are left out, and so is the fninit with which   *)
(* spawn and spawn_user make a fresh FP image.                             *)
(***************************************************************************)
EXTENDS Naturals

CONSTANTS MaxTasks,  \* MAX_TASKS
          Quantum,   \* QUANTUM_TICKS
          Exiters    \* the tasks that may call exit_current

ASSUME SchedAssumption ==
  /\ MaxTasks \in Nat /\ MaxTasks >= 2
  /\ Quantum \in Nat \ {0}
  /\ Exiters \subseteq 0 .. MaxTasks - 1

Task == 0 .. MaxTasks - 1
BootTask == 0
UserTask == MaxTasks - 1          \* the one slot spawn_user fills
KernelThread == 1 .. MaxTasks - 2 \* the threads init spawns
None == MaxTasks                  \* a null pointer
BootStack == MaxTasks + 1         \* the stack the boot code runs on

VARIABLES
  state,      \* TASKS[t].state
  queue,      \* QUEUE: the slots of the ring
  qHead,      \* Q_HEAD
  qLen,       \* Q_LEN
  current,    \* CURRENT
  remaining,  \* REMAINING
  halted,     \* the exiting task found no successor and loops on hlt
  frame,      \* TASKS[t].frame
  cpu,        \* the task whose context the CPU executes
  fx,         \* pippin_current_fx_area
  fxArea,     \* TASKS[t].fx
  fpu,        \* the task whose FP/XMM state the registers hold
  stackTop,   \* TASKS[t].stack_top
  rsp0,       \* TSS.rsp[0], the stack of an interrupt from ring 3
  syscallRsp, \* pippin_syscall_kernel_rsp, the stack of a syscall
  waited      \* history: ticks since the task last became READY

ringVars == <<queue, qHead, qLen>>
stackVars == <<stackTop, rsp0, syscallRsp>>
vars == <<state, ringVars, current, remaining, halted, frame, cpu, fx, fxArea,
          fpu, stackVars, waited>>

-----------------------------------------------------------------------------

(* The ring slot of the i-th queued task, counting from 0. *)
Slot(i) == (qHead + i) % MaxTasks
Queued(i) == queue[Slot(i)]

(* Q_HEAD after dequeue. *)
Advance == (qHead + 1) % MaxTasks

(* Mutant: enqueue writes one slot short of the tail. *)
EnqueueShort(t) == [queue EXCEPT ![(qHead + qLen + MaxTasks - 1) % MaxTasks] = t]
(* The ring as enqueue leaves it: a full ring drops the task silently. *)
Enqueue(t) ==
  IF qLen < MaxTasks THEN [queue EXCEPT ![Slot(qLen)] = t] ELSE queue
EnqueuedLen == IF qLen < MaxTasks THEN qLen + 1 ELSE qLen

(* Mutant: a switch does not store the interrupted frame. *)
SaveFrameNot == frame
(* TASKS[CURRENT].frame = frame. *)
SaveFrame == [frame EXCEPT ![current] = cpu]

(* The stack that set_kernel_stack and pippin_syscall_kernel_rsp receive. *)
KernelStack(next) == stackTop[next]

(* Mutant: the timer does not charge the running task. *)
ChargedNot == remaining
(* REMAINING.saturating_sub(1). *)
Charged == IF remaining > 0 THEN remaining - 1 ELSE 0

(* The test with which spawn_user refuses an occupied slot. *)
UserSlotFree == state[UserTask] \in {"empty", "dead"}

(* The run queue is empty. *)
NoSuccessor == qLen = 0

(* The waiting times after a step that lets n ticks pass; bound: they stop *)
(* counting once they exceed what BoundedWait allows.                      *)
WaitCap == MaxTasks * Quantum
Longer(t, n) == IF waited[t] + n < WaitCap THEN waited[t] + n ELSE WaitCap
Wait(n) ==
  waited' = [t \in Task |-> IF state[t] = "ready" /\ state'[t] = "ready"
                            THEN Longer(t, n) ELSE 0]

(* Before sched::init: the boot code is the only context. *)
Init ==
  /\ state = [t \in Task |-> "empty"]
  /\ queue = [i \in Task |-> 0] /\ qHead = 0 /\ qLen = 0
  /\ current = BootTask /\ remaining = Quantum /\ halted = FALSE
  /\ frame = [t \in Task |-> None] /\ cpu = BootTask
  /\ fx = None /\ fxArea = [t \in Task |-> None] /\ fpu = BootTask
  /\ stackTop = [t \in Task |-> None]
  /\ rsp0 = BootStack /\ syscallRsp = None
  /\ waited = [t \in Task |-> 0]

(* init: adopt the boot context as task 0 and spawn the kernel threads. *)
InitSched ==
  /\ fx = None
  /\ state' = [t \in Task |-> IF t = BootTask THEN "running"
                              ELSE IF t \in KernelThread THEN "ready"
                              ELSE "empty"]
  /\ queue' = [i \in Task |-> IF i < MaxTasks - 2 THEN i + 1 ELSE 0]
  /\ qLen' = MaxTasks - 2
  /\ fx' = BootTask
  /\ frame' = [t \in Task |-> IF t \in KernelThread THEN t ELSE None]
  /\ fxArea' = [t \in Task |-> IF t \in KernelThread THEN t ELSE None]
  /\ stackTop' = [t \in Task |-> IF t \in KernelThread THEN t ELSE None]
  /\ syscallRsp' = BootStack
  /\ remaining' = Quantum
  /\ Wait(0)
  /\ UNCHANGED <<qHead, current, halted, cpu, fpu, rsp0>>

(* schedule, and around it the fxsave and fxrstor of isr_common. *)
Schedule(requeue) ==
  \/ /\ NoSuccessor /\ ~requeue
     /\ state' = [state EXCEPT ![current] = "dead"]
     /\ halted' = TRUE
     /\ fxArea' = [fxArea EXCEPT ![fx] = fpu]
     /\ UNCHANGED <<ringVars, current, remaining, frame, cpu, fx, fpu, stackVars>>
  \/ /\ NoSuccessor /\ requeue
     /\ remaining' = Quantum
     /\ fxArea' = [fxArea EXCEPT ![fx] = fpu]
     /\ UNCHANGED <<state, ringVars, current, halted, frame, cpu, fx, fpu, stackVars>>
  \/ /\ ~NoSuccessor
     /\ queue' = IF requeue THEN Enqueue(current) ELSE queue
     /\ qHead' = Advance
     /\ qLen' = (IF requeue THEN EnqueuedLen ELSE qLen) - 1
     /\ LET next == queue'[qHead] IN
        /\ current' = next
        /\ state' = [state EXCEPT ![current] = IF requeue THEN "ready" ELSE "dead",
                                  ![next] = "running"]
        /\ remaining' = Quantum
        /\ frame' = SaveFrame
        /\ cpu' = frame'[next]
        /\ fx' = next
        /\ fxArea' = [fxArea EXCEPT ![fx] = fpu]
        /\ fpu' = fxArea'[next]
        /\ rsp0' = KernelStack(next)
        /\ syscallRsp' = KernelStack(next)
     /\ UNCHANGED <<halted, stackTop>>

(* on_tick, after init: the timer interrupt charges the quantum. *)
Tick ==
  /\ fx # None /\ ~halted
  /\ \/ Charged = 0 /\ Schedule(TRUE)
     \/ /\ Charged > 0
        /\ remaining' = Charged
        /\ fxArea' = [fxArea EXCEPT ![fx] = fpu]
        /\ UNCHANGED <<state, ringVars, current, halted, frame, cpu, fx, fpu, stackVars>>
  /\ Wait(1)

(* on_yield: vector 0x40, which only ring-0 tasks can raise. *)
Yield ==
  /\ fx # None /\ ~halted
  /\ current # UserTask
  /\ Schedule(TRUE)
  /\ Wait(0)

(* on_exit: vector 0x41, raised by exit_current. *)
Exit ==
  /\ fx # None /\ ~halted
  /\ current \in Exiters
  /\ Schedule(FALSE)
  /\ Wait(0)

(* spawn_user, called by the boot task: refill the user slot. *)
SpawnUser ==
  /\ fx # None /\ ~halted
  /\ current = BootTask
  /\ UserSlotFree
  /\ state' = [state EXCEPT ![UserTask] = "ready"]
  /\ queue' = Enqueue(UserTask)
  /\ qLen' = EnqueuedLen
  /\ frame' = [frame EXCEPT ![UserTask] = UserTask]
  /\ fxArea' = [fxArea EXCEPT ![UserTask] = UserTask]
  /\ stackTop' = [stackTop EXCEPT ![UserTask] = UserTask]
  /\ Wait(0)
  /\ UNCHANGED <<qHead, current, remaining, halted, cpu, fx, fpu, rsp0, syscallRsp>>

Next == InitSched \/ Tick \/ Yield \/ Exit \/ SpawnUser

Spec == Init /\ [][Next]_vars

(* The timer keeps interrupting: a hardware clock at 1000 Hz. *)
FairSpec == Spec /\ WF_vars(InitSched) /\ WF_vars(Tick)

-----------------------------------------------------------------------------

Ready == [i \in 1 .. qLen |-> Queued(i - 1)]

TypeOK ==
  /\ state \in [Task -> {"empty", "ready", "running", "dead"}]
  /\ queue \in [Task -> Task] /\ qHead \in Task /\ qLen \in 0 .. MaxTasks
  /\ current \in Task /\ remaining \in 1 .. Quantum /\ halted \in BOOLEAN
  /\ frame \in [Task -> Task \cup {None}] /\ cpu \in Task
  /\ fx \in Task \cup {None}
  /\ fxArea \in [Task -> Task \cup {None}] /\ fpu \in Task
  /\ stackTop \in [Task -> Task \cup {None}]
  /\ rsp0 \in Task \cup {None, BootStack}
  /\ syscallRsp \in Task \cup {None, BootStack}
  /\ waited \in [Task -> Nat]

(* The ring holds every READY task exactly once and no other task: enqueue *)
(* never drops or duplicates one, whatever the order of preemption, exit   *)
(* and respawn.                                                            *)
RunQueueExact ==
  /\ \A i \in 0 .. qLen - 1 : state[Queued(i)] = "ready"
  /\ \A i, j \in 0 .. qLen - 1 : Queued(i) = Queued(j) => i = j
  /\ \A t \in Task : state[t] = "ready" => \E i \in 0 .. qLen - 1 : Queued(i) = t

(* CURRENT is the one RUNNING task, unless the last task has left. *)
OneRunning ==
  fx # None /\ ~halted => \A t \in Task : state[t] = "running" <=> t = current

(* After any chain of switches the CPU executes the context, uses the FP   *)
(* state and saves into the area of CURRENT, and a READY task still has    *)
(* its own frame and FP state to come back to.                             *)
ContextOwned ==
  /\ cpu = current /\ fpu = current
  /\ fx # None => fx = current
  /\ \A t \in Task : state[t] = "ready" => frame[t] = t /\ fxArea[t] = t

(* A ring-3 task enters the kernel, by interrupt or by syscall, on its own *)
(* kernel stack.                                                           *)
UserEntryStack ==
  state[UserTask] = "running" => rsp0 = UserTask /\ syscallRsp = UserTask

(* A READY task at position i of the queue gets the CPU after at most      *)
(* remaining + i quanta of ticks, so none waits longer than every other    *)
(* task's full quantum.                                                    *)
BoundedWait ==
  \A i \in 0 .. qLen - 1 :
    waited[Queued(i)] + remaining + i * Quantum <= (MaxTasks - 1) * Quantum

(* schedule parks the CPU for good only when no task is left to run. *)
HaltOnlyWhenAlone ==
  halted => \A t \in Task : state[t] \in {"empty", "dead"}

Respawns(t) == t = UserTask /\ state'[t] = "ready" /\ current = BootTask

(* An exited task never runs again; only spawn_user, in the boot task,     *)
(* gives the user slot a new life.                                         *)
DeadStaysDead ==
  [][\A t \in Task : state[t] = "dead" /\ state'[t] # "dead" => Respawns(t)]_vars

(* What every step preserves: the properties above, and what the code     *)
(* relies on before init, after the last exit and for the user stack.      *)
SchedInv ==
  /\ TypeOK /\ RunQueueExact /\ OneRunning /\ ContextOwned
  /\ UserEntryStack /\ BoundedWait /\ HaltOnlyWhenAlone
  /\ fx = None => /\ \A t \in Task : state[t] = "empty"
                  /\ qHead = 0 /\ qLen = 0 /\ current = BootTask /\ ~halted
  /\ halted => qLen = 0
  /\ state[UserTask] \in {"ready", "running"} => stackTop[UserTask] = UserTask

(* Every READY task eventually runs. *)
ReadyRuns ==
  \A t \in Task : state[t] = "ready" ~> state[t] = "running"

(* The ring and its switch implement the round-robin queue. *)
Abstract ==
  INSTANCE RoundRobin WITH
    Boot <- BootTask, Threads <- [i \in 1 .. MaxTasks - 2 |-> i],
    running <- current, ready <- Ready, stopped <- halted

ImplementsRoundRobin == Abstract!FairSpec
=============================================================================
