-------------------------------- MODULE Boot --------------------------------
(***************************************************************************)
(* core_main's way through the devices (lib.rs): the search for a disk     *)
(* (ahci.rs, discover), the disk (Disk) and then the mouse and the first   *)
(* polls (Ps2).  What a stage leaves behind and no later one looks at is   *)
(* forgotten when core_main goes on.                                       *)
(***************************************************************************)
EXTENDS Disk, Ps2

CONSTANTS InitialPages, \* INITIAL_MAP_SIZE, in pages
          Bars,         \* the pages at which the adapter's registers may begin
          NoHba

(* An adapter with more than 30 ports has more than a page of registers,   *)
(* and PCI places them at a multiple of their size: they do not straddle   *)
(* the end of the first mapping.                                           *)
ASSUME BootAssumption ==
  /\ InitialPages \in Nat /\ Bars \subseteq Nat
  /\ \A bar \in Bars : bar < InitialPages => bar + 1 < InitialPages

VARIABLES stage,  \* "discover", "disk" or "mouse"
          hba     \* discover: [bar, index, mapped, reached], the last two
                  \* the pages it mapped and those with registers it used

bootVars == <<allVars, ps2Vars, stage, hba>>

Ports == 32
PageBytes == 4096

BootInit ==
  /\ DiskInit /\ Ps2Init
  /\ stage = "discover" /\ hba = NoHba

-----------------------------------------------------------------------------
(* discover *)

Leave(next) == stage' = next /\ hba' = NoHba

(* The adapter has registers at a page of the first four gigabytes, mapped *)
(* already or to be mapped; or None is returned.                           *)
FindHba ==
  /\ stage = "discover" /\ hba = NoHba
  /\ \/ \E bar \in Bars :
          /\ stage' = stage
          /\ hba' = [bar |-> bar, index |-> 0, reached |-> {bar},
                     mapped |-> IF bar >= InitialPages THEN {bar} ELSE {}]
     \/ Leave("mouse")
  /\ UNCHANGED <<allVars, ps2Vars>>

(* Mutant: port 30 is taken to be in the first page. *)
InSecondPageLate(i) == i > 30
InSecondPage(i) == i >= 30

(* The pages of a port's registers, 0x00 to 0x3b. *)
PortPages(bar, i) == {bar + (256 + 128 * i + r) \div PageBytes : r \in {0, 59}}

(* Some(Disk), None, or the next port. *)
NextPort == stage' = stage /\ hba' = [hba EXCEPT !.index = @ + 1]

(* A port that is implemented: it has no disk, or one whose engines do not *)
(* stop, and the search goes on; or it has a disk; or its page cannot be   *)
(* mapped or there are not four frames for the disk, and None is returned. *)
Examine ==
  LET far == InSecondPage(hba.index) /\ hba.bar >= InitialPages IN
    \/ /\ stage' = stage
       /\ hba' = [hba EXCEPT !.index = @ + 1,
                             !.mapped = @ \cup IF far THEN {hba.bar + 1} ELSE {},
                             !.reached = @ \cup PortPages(hba.bar, hba.index)]
    \/ Leave("disk") \/ Leave("mouse")

TryPort ==
  /\ hba # NoHba
  /\ \/ hba.index = Ports /\ Leave("mouse")
     \/ hba.index < Ports /\ (NextPort \/ Examine)
  /\ UNCHANGED <<allVars, ps2Vars>>

-----------------------------------------------------------------------------

UseDisk ==
  /\ stage = "disk" /\ DiskNext
  /\ UNCHANGED <<ps2Vars, stage, hba>>

(* fat_bundle returns, with a bundle or without. *)
LeaveDisk ==
  /\ stage = "disk" /\ at \in {"none", "parse"} /\ stage' = "mouse"
  /\ at' = "mount" /\ boot' = None
  /\ cluster' = 0 /\ index' = 0 /\ round' = 0 /\ entry' = None /\ copied' = 0
  /\ bundle' = <<>> /\ lba' = 0 /\ links' = <<>> /\ rows' = <<>>
  /\ pc' = "idle" /\ wanted' = NoSector /\ table' = NoSector /\ buffer' = NoSector
  /\ output' = NoSector /\ ci' = FALSE /\ running' = NoSector /\ error' = FALSE
  /\ probed' = FALSE
  /\ UNCHANGED <<ps2Vars, hba>>

UseMouse ==
  /\ stage = "mouse" /\ Ps2Next
  /\ UNCHANGED <<allVars, stage, hba>>

BootNext == FindHba \/ TryPort \/ UseDisk \/ LeaveDisk \/ UseMouse

(* core_main runs on; nothing is assumed of the disk, the keyboard or the  *)
(* mouse.                                                                  *)
CoreMain ==
  \/ FindHba \/ TryPort \/ LeaveDisk
  \/ stage = "disk" /\ Driver /\ UNCHANGED <<ps2Vars, stage, hba>>
  \/ stage = "mouse" /\ Ps2Driver /\ UNCHANGED <<allVars, stage, hba>>
BootSpec == BootInit /\ [][BootNext]_bootVars /\ WF_bootVars(CoreMain)

-----------------------------------------------------------------------------

(* discover uses only registers of pages that are mapped, of every port    *)
(* the adapter may have (the second page begins at port 30).               *)
RegistersMapped ==
  hba # NoHba => \A p \in hba.reached : p < InitialPages \/ p \in hba.mapped

(* A read that returns true has copied the sector that was asked for, also *)
(* when a command that an earlier read gave up on completes in its place   *)
(* (read_sector reuses the one slot, table and buffer).                    *)
ReadsOwnSector == [][stage = "disk" /\ Finish => output' = wanted]_bootVars

(* The boot gets past the disk, whatever is on it and whatever it does     *)
(* (links that form a cycle, commands that never complete), and past the   *)
(* mouse, with or without one, and from then on every byte is read.        *)
BootGoesOn == <>[](stage = "mouse" /\ phase = "poll" /\ kbdq = <<>> /\ auxq = <<>>)
=============================================================================
