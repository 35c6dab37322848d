-------------------------------- MODULE Ahci --------------------------------
(***************************************************************************)
(* Reads of the AHCI disk (ahci.rs, read_sector).  A read writes the one   *)
(* command table, sets the command's bit in PxCI and polls until the disk  *)
(* has cleared it; it gives up on an error or after a bounded wait, and    *)
(* then the command stays issued.  The host adapter is external.  The      *)
(* contents of a sector are its number.                                    *)
(***************************************************************************)
EXTENDS Naturals

CONSTANT NoSector

VARIABLES pc,      \* read_sector: "idle", "ready", "issue" or "wait"
          wanted,  \* the sector asked for
          table,   \* the sector in the command table
          buffer,  \* the DMA buffer
          output,  \* what the last read that returned true copied
          ci,      \* PxCI, bit 0
          running, \* the command the disk is busy with: its sector
          error    \* PxIS.TFES

adapter == <<ci, running, error>>
ahciVars == <<pc, wanted, table, buffer, output, adapter>>

AhciInit ==
  /\ pc = "idle" /\ wanted = NoSector
  /\ table = NoSector /\ buffer = NoSector /\ output = NoSector
  /\ ci = FALSE /\ running = NoSector /\ error = FALSE

-----------------------------------------------------------------------------
(* The adapter fetches the command, and ends it well or with an error.     *)
(* After an error the command stays in PxCI, and the adapter may take it   *)
(* up again when the driver has cleared the error.                         *)

Fetch ==
  /\ ci /\ running = NoSector /\ ~error
  /\ running' = table
  /\ UNCHANGED <<pc, wanted, table, buffer, output, ci, error>>
Complete ==
  /\ running # NoSector
  /\ buffer' = running /\ running' = NoSector /\ ci' = FALSE
  /\ UNCHANGED <<pc, wanted, table, output, error>>
Break ==
  /\ running # NoSector
  /\ running' = NoSector /\ error' = TRUE
  /\ UNCHANGED <<pc, wanted, table, buffer, output, ci>>

Adapter == Fetch \/ Complete \/ Break

-----------------------------------------------------------------------------
(* read_sector *)

(* wait_clear: the disk is not busy ... *)
Begin(s) ==
  /\ pc = "idle" /\ running = NoSector
  /\ wanted' = s /\ pc' = "ready"
  /\ UNCHANGED <<table, buffer, output, adapter>>
(* ... or stays busy, and the read returns false. *)
Busy == pc = "idle" /\ running # NoSector /\ UNCHANGED ahciVars

WriteTable ==
  /\ pc = "ready" /\ table' = wanted /\ pc' = "issue"
  /\ UNCHANGED <<wanted, buffer, output, adapter>>
Issue ==
  /\ pc = "issue" /\ error' = FALSE /\ ci' = TRUE /\ pc' = "wait"
  /\ UNCHANGED <<wanted, table, buffer, output, running>>

(* The read returns true. *)
Finish ==
  /\ pc = "wait" /\ ~error /\ ~ci
  /\ pc' = "idle" /\ output' = buffer
  /\ UNCHANGED <<wanted, table, buffer, adapter>>

(* The read returns false: an error, or the end of the wait. *)
Fail ==
  /\ pc = "wait" /\ (error \/ ci) /\ pc' = "idle"
  /\ UNCHANGED <<wanted, table, buffer, output, adapter>>
=============================================================================
