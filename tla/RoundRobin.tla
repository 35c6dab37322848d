----------------------------- MODULE RoundRobin -----------------------------
(***************************************************************************)
(* What the scheduler promises: one running task, and a first-come queue   *)
(* of the others in which a preempted task goes to the back.               *)
(***************************************************************************)
EXTENDS Naturals, Sequences

CONSTANTS Task,     \* the tasks there can be
          Boot,     \* the task that starts the scheduler
          Threads   \* the sequence of tasks it starts

VARIABLES running, ready, stopped

vars == <<running, ready, stopped>>

Init == running = Boot /\ ready = <<>> /\ stopped = FALSE

Waiting(t) == \E i \in 1 .. Len(ready) : ready[i] = t

(* The scheduler comes up with its threads queued in order. *)
Start == ready = <<>> /\ ready' = Threads /\ UNCHANGED <<running, stopped>>

(* A task that is neither running nor waiting joins at the back. *)
Admit(t) ==
  /\ t # running /\ ~Waiting(t)
  /\ ready' = Append(ready, t)
  /\ UNCHANGED <<running, stopped>>

(* The running task goes to the back and the front one runs. *)
Rotate ==
  /\ ready # <<>>
  /\ running' = Head(ready)
  /\ ready' = Append(Tail(ready), running)
  /\ UNCHANGED stopped

(* The running task leaves for good and the front one runs. *)
Leave ==
  /\ ready # <<>>
  /\ running' = Head(ready)
  /\ ready' = Tail(ready)
  /\ UNCHANGED stopped

(* The last task leaves. *)
Stop == ready = <<>> /\ stopped' = TRUE /\ UNCHANGED <<running, ready>>

Next ==
  /\ ~stopped
  /\ Start \/ (\E t \in Task : Admit(t)) \/ Rotate \/ Leave \/ Stop

Spec == Init /\ [][Next]_vars

(* Nobody keeps the processor while others wait. *)
FairSpec == Spec /\ WF_vars(~stopped /\ (Rotate \/ Leave))
=============================================================================
