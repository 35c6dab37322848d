----------------------------- MODULE PortQueues -----------------------------
(***************************************************************************)
(* What ipc.rs promises: every open port is a bounded first-in first-out   *)
(* queue of events that only its owner may take from.                      *)
(***************************************************************************)
EXTENDS Naturals, Sequences

CONSTANTS Port, Capacity, Event, Process, Nobody

VARIABLES owner,  \* who owns each port, or Nobody
          box,    \* the events waiting in each port
          caller  \* the process on whose behalf the kernel runs

vars == <<owner, box, caller>>

Init ==
  /\ owner = [p \in Port |-> Nobody]
  /\ box = [p \in Port |-> <<>>]
  /\ caller \in Process

Open(p) ==
  /\ owner[p] = Nobody
  /\ owner' = [owner EXCEPT ![p] = caller]
  /\ UNCHANGED <<box, caller>>

Put(p, e) ==
  /\ owner[p] # Nobody
  /\ Len(box[p]) < Capacity
  /\ box' = [box EXCEPT ![p] = Append(@, e)]
  /\ UNCHANGED <<owner, caller>>

Take(p) ==
  /\ owner[p] = caller
  /\ box[p] # <<>>
  /\ box' = [box EXCEPT ![p] = Tail(@)]
  /\ UNCHANGED <<owner, caller>>

Preempt == caller' \in Process /\ UNCHANGED <<owner, box>>

Next ==
  \/ \E p \in Port : Open(p) \/ Take(p) \/ \E e \in Event : Put(p, e)
  \/ Preempt

Spec == Init /\ [][Next]_vars
=============================================================================
