-------------------------------- MODULE Disk --------------------------------
(***************************************************************************)
(* The boot path's reads of the disk: a probe of sector 0 (lib.rs), of     *)
(* which only the log depends, and then fat_bundle (Fat), each of whose    *)
(* reads is a read_sector (Ahci) on a disk that may fail or come late.     *)
(***************************************************************************)
EXTENDS Fat, Ahci

VARIABLE probed   \* the probe has returned

allVars == <<vars, ahciVars, probed>>

DiskInit == Init /\ AhciInit /\ probed = FALSE

(* Mutant: the probe reads another sector. *)
ProbeSectorNext == 1
ProbeSector == 0

Start ==
  /\ \E s \in 0 .. Word - 1 : (IF probed THEN Wants(s) ELSE s = ProbeSector) /\ Begin(s)
  /\ UNCHANGED <<vars, probed>>
Transfer == (WriteTable \/ Issue) /\ UNCHANGED <<vars, probed>>

(* A read returns true, and fat_bundle goes on with what it copied, ... *)
Deliver ==
  /\ Finish
  /\ IF probed THEN Accepts ELSE UNCHANGED vars
  /\ probed' = TRUE

(* ... or false, and fat_bundle returns None; the probe's result is logged. *)
Lose ==
  /\ Fail \/ (Busy /\ at \notin {"none", "parse"})
  /\ IF probed THEN Fails ELSE UNCHANGED vars
  /\ probed' = TRUE

(* A check before the read fails. *)
Refuse ==
  /\ probed /\ pc = "idle" /\ ~\E s \in 0 .. Word - 1 : Wants(s)
  /\ Fails /\ UNCHANGED <<ahciVars, probed>>

Driver == Start \/ Transfer \/ Deliver \/ Lose \/ Refuse
DiskNext == Driver \/ (Adapter /\ UNCHANGED <<vars, probed>>)
=============================================================================
