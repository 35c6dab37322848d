----------------------------- MODULE BootProofs -----------------------------
(***************************************************************************)
(* Proofs about Boot, for volumes of any size and contents, any page at    *)
(* which the adapter may be, and disks that fail or come late; and about   *)
(* Ps2, for any number of keys, packets and polls: what the mouse sends    *)
(* arrives whole and in order as long as nothing disturbs the conversation *)
(* with it.                                                                *)
(***************************************************************************)
EXTENDS Boot, WellFoundedInduction, TLAPS

(* Steps are tried with Zenon first, which is the faster where no          *)
(* arithmetic is needed, then with SMT, then with Zenon for longer.        *)
USE ZenonT(3), SMTT(30), ZenonT(30), Z3T(30)

-----------------------------------------------------------------------------
(* Facts about sequences. *)

(* Sequences with equal elements in equal places are equal. *)
LEMMA SeqEqual ==
  ASSUME NEW S, NEW s \in Seq(S), NEW t \in Seq(S),
         Len(s) = Len(t), \A i \in 1 .. Len(s) : s[i] = t[i]
  PROVE  s = t
  OBVIOUS

(* A sequence is a function on the places up to its length. *)
LEMMA LenProperties ==
  ASSUME NEW S, NEW s \in Seq(S)
  PROVE  /\ Len(s) \in Nat /\ DOMAIN s = 1 .. Len(s)
         /\ s \in [1 .. Len(s) -> S]
  OBVIOUS

(* The elements of a sequence. *)
LEMMA ElementOfSeq ==
  ASSUME NEW S, NEW s \in Seq(S), NEW n \in 1 .. Len(s)
  PROVE  s[n] \in S
  OBVIOUS

(* Only the empty sequence has no element. *)
LEMMA EmptySeq ==
  ASSUME NEW S
  PROVE  /\ <<>> \in Seq(S) /\ Len(<<>>) = 0
         /\ \A s \in Seq(S) : Len(s) \in Nat /\ (s = <<>> <=> Len(s) = 0)
  OBVIOUS

(* What Append returns. *)
LEMMA AppendProperties ==
  ASSUME NEW S, NEW s \in Seq(S), NEW x \in S
  PROVE  /\ Append(s, x) \in Seq(S) /\ Len(s) \in Nat /\ Len(Append(s, x)) = Len(s) + 1
         /\ \A i \in 1 .. Len(s) : Append(s, x)[i] = s[i]
         /\ Append(s, x)[Len(s) + 1] = x
  OBVIOUS

(* What concatenation returns. *)
LEMMA ConcatProperties ==
  ASSUME NEW S, NEW s \in Seq(S), NEW t \in Seq(S)
  PROVE  /\ s \o t \in Seq(S) /\ Len(s \o t) = Len(s) + Len(t)
         /\ \A i \in 1 .. Len(s) + Len(t) :
              (s \o t)[i] = IF i <= Len(s) THEN s[i] ELSE t[i - Len(s)]
  OBVIOUS

(* What Head and Tail return. *)
LEMMA HeadTailProperties ==
  ASSUME NEW S, NEW s \in Seq(S), s # <<>>
  PROVE  /\ Head(s) = s[1] /\ Head(s) \in S
         /\ Tail(s) \in Seq(S) /\ Len(Tail(s)) = Len(s) - 1
         /\ \A i \in 1 .. Len(Tail(s)) : Tail(s)[i] = s[i + 1]
  OBVIOUS


-----------------------------------------------------------------------------
(* discover *)

(* What discover knows of the adapter. *)
HbaInv ==
  hba # NoHba =>
    /\ hba \in [bar : Bars, index : 0 .. Ports, mapped : SUBSET Nat, reached : SUBSET Nat]
    /\ \A p \in hba.reached \cup {hba.bar} : p < InitialPages \/ p \in hba.mapped

(* A port's registers are in the first page below port 30 and in the       *)
(* second from it on.                                                      *)
LEMMA PortPlace ==
  ASSUME NEW bar \in Nat, NEW i \in 0 .. Ports - 1
  PROVE  PortPages(bar, i) = {IF InSecondPage(i) THEN bar + 1 ELSE bar}
<1>1. ASSUME NEW r \in {0, 59}
      PROVE  (256 + 128 * i + r) \div PageBytes = IF i >= 30 THEN 1 ELSE 0
  BY DEF Ports, PageBytes
<1>2. ASSUME NEW r \in {0, 59}
      PROVE  bar + (256 + 128 * i + r) \div PageBytes = IF i >= 30 THEN bar + 1 ELSE bar
  BY <1>1
<1> QED BY <1>2 DEF PortPages, InSecondPage

(* discover maps a page before it uses it. *)
LEMMA HbaKept == HbaInv /\ [BootNext]_bootVars => HbaInv'
<1> SUFFICES ASSUME HbaInv, [BootNext]_bootVars PROVE HbaInv'
  OBVIOUS
<1>1. CASE FindHba
  <2>1. CASE Leave("mouse")
    BY <2>1 DEF Leave, HbaInv
  <2>2. ASSUME NEW bar \in Bars,
               hba' = [bar |-> bar, index |-> 0, reached |-> {bar},
                       mapped |-> IF bar >= InitialPages THEN {bar} ELSE {}]
        PROVE  HbaInv'
    BY <2>2, BootAssumption DEF HbaInv, Ports
  <2> QED BY <1>1, <2>1, <2>2 DEF FindHba
<1>2. CASE TryPort
  <2>0. /\ hba # NoHba
        /\ hba \in [bar : Bars, index : 0 .. Ports, mapped : SUBSET Nat, reached : SUBSET Nat]
        /\ hba.bar \in Nat
        /\ \A p \in hba.reached \cup {hba.bar} : p < InitialPages \/ p \in hba.mapped
    BY <1>2, BootAssumption DEF TryPort, HbaInv
  <2>1. CASE \E s : Leave(s)
    BY <2>1 DEF Leave, HbaInv
  <2>2. CASE hba.index < Ports /\ NextPort
    <3>1. hba.index + 1 \in 0 .. Ports
      BY <2>0, <2>2 DEF Ports
    <3> QED BY <2>0, <2>2, <3>1 DEF NextPort, HbaInv
  <2>3. ASSUME hba.index < Ports,
               hba' = [hba EXCEPT !.index = @ + 1,
                         !.mapped = @ \cup IF InSecondPage(hba.index) /\ hba.bar >= InitialPages
                                           THEN {hba.bar + 1} ELSE {},
                         !.reached = @ \cup PortPages(hba.bar, hba.index)]
        PROVE  HbaInv'
    <3>1. hba.index + 1 \in 0 .. Ports /\ hba.index \in 0 .. Ports - 1
      BY <2>0, <2>3 DEF Ports
    <3>2. PortPages(hba.bar, hba.index)
            = {IF InSecondPage(hba.index) THEN hba.bar + 1 ELSE hba.bar}
      BY <2>0, <3>1, PortPlace
    <3> DEFINE new == IF InSecondPage(hba.index) /\ hba.bar >= InitialPages
                      THEN {hba.bar + 1} ELSE {}
               pages == PortPages(hba.bar, hba.index)
    <3>3. new \subseteq Nat /\ pages \subseteq Nat
      BY <2>0, <3>2
    <3>4. hba' = [hba EXCEPT !.index = @ + 1, !.mapped = @ \cup new, !.reached = @ \cup pages]
      BY <2>3
    <3>5. /\ hba'.bar = hba.bar /\ hba'.index = hba.index + 1
          /\ hba'.mapped = hba.mapped \cup new
          /\ hba'.reached = hba.reached \cup pages
          /\ hba' \in [bar : Bars, index : 0 .. Ports, mapped : SUBSET Nat, reached : SUBSET Nat]
      <4> HIDE DEF new, pages
      <4> QED BY <2>0, <3>1, <3>3, <3>4
    <3>6. /\ hba'.bar = hba.bar
          /\ hba'.mapped = hba.mapped \cup IF InSecondPage(hba.index) /\ hba.bar >= InitialPages
                                           THEN {hba.bar + 1} ELSE {}
          /\ hba'.reached = hba.reached
                              \cup {IF InSecondPage(hba.index) THEN hba.bar + 1 ELSE hba.bar}
          /\ hba' \in [bar : Bars, index : 0 .. Ports, mapped : SUBSET Nat, reached : SUBSET Nat]
      BY <3>2, <3>5
    <3>7. InSecondPage(hba.index) => hba.bar + 1 < InitialPages \/ hba.bar + 1 \in hba'.mapped
      BY <2>0, <3>6, BootAssumption
    <3>8. \A p \in hba'.reached \cup {hba'.bar} : p < InitialPages \/ p \in hba'.mapped
      BY <2>0, <3>6, <3>7
    <3> QED BY <3>6, <3>8 DEF HbaInv
  <2> QED BY <1>2, <2>1, <2>2, <2>3 DEF TryPort, Examine
<1>3. CASE UseDisk \/ LeaveDisk \/ UseMouse \/ UNCHANGED bootVars
  <2>1. hba' = hba
    BY <1>3 DEF UseDisk, LeaveDisk, UseMouse, bootVars
  <2> QED BY <2>1 DEF HbaInv
<1> QED BY <1>1, <1>2, <1>3 DEF BootNext

(* discover uses only registers it has mapped, wherever the adapter is and *)
(* however many ports it has.                                              *)
THEOREM RegistersTheorem == BootSpec => []RegistersMapped
<1>1. BootInit => HbaInv
  BY DEF BootInit, HbaInv
<1>2. HbaInv => RegistersMapped
  BY DEF HbaInv, RegistersMapped
<1> QED BY <1>1, <1>2, HbaKept, PTL DEF BootSpec

-----------------------------------------------------------------------------
(* read_sector *)

(* Where a command that a read gave up on can still be: only the probe's,  *)
(* and the one read that may follow it wants the probe's sector; a later   *)
(* read that fails is the last.                                            *)
CommandInv ==
  /\ pc \in {"idle", "ready", "issue", "wait"}
  /\ ~probed => at = "mount"
  /\ at \in {"none", "parse"} => pc = "idle"
  /\ at = "mount" /\ pc # "idle" => wanted = ProbeSector
  /\ pc \in {"issue", "wait"} => table = wanted
  /\ running # NoSector => ci /\ running = table
  /\ ci /\ pc \in {"idle", "ready", "issue"} /\ at # "none" =>
       at = "mount" /\ table = ProbeSector
  /\ pc = "wait" /\ ~ci => buffer = wanted

(* Every step keeps it so. *)
LEMMA CommandKept == CommandInv /\ [BootNext]_bootVars => CommandInv'
<1> SUFFICES ASSUME CommandInv, [BootNext]_bootVars PROVE CommandInv'
  OBVIOUS
<1>1. CASE FindHba \/ TryPort \/ UseMouse \/ UNCHANGED bootVars
  <2>1. UNCHANGED allVars
    BY <1>1 DEF FindHba, TryPort, UseMouse, bootVars
  <2> QED BY <2>1 DEF allVars, vars, ahciVars, adapter, CommandInv
<1>2. CASE LeaveDisk
  BY <1>2 DEF LeaveDisk, CommandInv
<1>3. CASE Start
  <2>1. PICK s : (IF probed THEN Wants(s) ELSE s = ProbeSector) /\ Begin(s)
    BY <1>3 DEF Start
  <2>2. UNCHANGED <<at, probed>>
    BY <1>3 DEF Start, vars
  <2>3. at \notin {"none", "parse"} /\ (at = "mount" => s = ProbeSector)
    BY <2>1 DEF Wants, ProbeSector, CommandInv
  <2> QED BY <2>1, <2>2, <2>3 DEF Begin, adapter, CommandInv
<1>4. CASE Transfer
  BY <1>4 DEF Transfer, WriteTable, Issue, vars, adapter, CommandInv
<1>5. CASE Deliver
  <2>1. pc' = "idle" /\ ~ci /\ ~ci' /\ running' = running /\ probed'
    BY <1>5 DEF Deliver, Finish, adapter
  <2> QED BY <2>1 DEF CommandInv
<1>6. CASE Lose
  <2>1. pc' = "idle" /\ UNCHANGED <<wanted, table, buffer, adapter>> /\ probed'
    BY <1>6 DEF Lose, Fail, Busy, ahciVars
  <2>2. CASE probed
    BY <1>6, <2>1, <2>2 DEF Lose, Fails, adapter, CommandInv
  <2>3. CASE ~probed
    BY <1>6, <2>1, <2>3 DEF Lose, Fail, Busy, vars, adapter, CommandInv
  <2> QED BY <2>2, <2>3
<1>7. CASE Refuse
  BY <1>7 DEF Refuse, Fails, ahciVars, adapter, CommandInv
<1>8. CASE Adapter /\ UNCHANGED <<vars, probed>>
  BY <1>8 DEF Adapter, Fetch, Complete, Break, vars, CommandInv
<1> QED BY <1>1, <1>2, <1>3, <1>4, <1>5, <1>6, <1>7, <1>8
        DEF BootNext, UseDisk, DiskNext, Driver

(* A read that succeeds has copied its own sector, whenever the disk       *)
(* completes a command that an earlier read gave up on.                    *)
THEOREM OwnSectorTheorem == BootSpec => ReadsOwnSector
<1>1. BootInit => CommandInv
  BY DEF BootInit, DiskInit, Init, AhciInit, CommandInv
<1>2. CommandInv /\ [BootNext]_bootVars => [stage = "disk" /\ Finish => output' = wanted]_bootVars
  BY DEF CommandInv, Finish
<1> QED BY <1>1, <1>2, CommandKept, PTL DEF BootSpec, ReadsOwnSector

-----------------------------------------------------------------------------
(* fat_bundle *)

(* A volume that was mounted. *)
Mounted == boot \in Boots /\ FirstData < boot.total

(* Where fat_bundle is, and where it has read. *)
VolumeInv ==
  /\ cluster \in Nat /\ index \in Nat
  /\ \A c \in DOMAIN links : links[c] \in Links
  /\ at = "mount" => lba = 0
  /\ at \notin {"mount", "none"} => Mounted
  /\ ReadsInVolume

(* A quotient times its divisor is no more than the dividend. *)
LEMMA QuotientBound ==
  ASSUME NEW n \in Nat, NEW s \in Nat \ {0}
  PROVE  n \div s \in Nat /\ (n \div s) * s <= n
  OBVIOUS

(* Whole parts before another part's place are inside all the parts. *)
LEMMA InsideParts ==
  ASSUME NEW k \in Nat, NEW q \in Nat, k < q, NEW s \in Nat, NEW i \in Nat, i < s
  PROVE  k * s \in Nat /\ k * s + i < q * s
<1>1. k + 1 <= q
  OBVIOUS
<1>2. (k + 1) * s <= q * s
  BY <1>1
<1>3. (k + 1) * s = k * s + s
  OBVIOUS
<1>4. k * s \in Nat
  OBVIOUS
<1>5. q * s \in Nat
  OBVIOUS
<1> QED BY <1>2, <1>3, <1>4, <1>5

(* The numbers of a mounted volume. *)
LEMMA VolumeTypes ==
  ASSUME boot \in Boots
  PROVE  /\ boot.reserved \in Nat /\ boot.fatSize \in Nat /\ boot.total \in Nat
         /\ boot.spc \in Nat /\ boot.root \in Nat
         /\ FirstData \in Nat /\ boot.reserved <= FirstData
<1>1. /\ boot.reserved \in Nat /\ boot.fatSize \in Nat /\ boot.total \in Nat
      /\ boot.spc \in Nat /\ boot.root \in Nat /\ boot.fats \in Nat
  BY FatAssumption
<1>2. boot.fats * boot.fatSize \in Nat
  BY <1>1
<1> QED BY <1>1, <1>2 DEF FirstData

(* A sector of a cluster that first_sector accepts is in the data. *)
LEMMA DataSector ==
  ASSUME Mounted, NEW c \in Nat, InData(c), NEW i \in Nat, i < boot.spc
  PROVE  /\ FirstSector(c) + i \in Nat
         /\ FirstData <= FirstSector(c) + i /\ FirstSector(c) + i < boot.total
<1>1. /\ boot.total \in Nat /\ boot.spc \in Nat \ {0} /\ FirstData \in Nat
      /\ FirstData < boot.total
  BY VolumeTypes DEF Mounted
<1>2. boot.total - FirstData \in Nat
  BY <1>1
<1>3. Clusters \in Nat /\ Clusters * boot.spc <= boot.total - FirstData
  BY <1>1, <1>2, QuotientBound DEF Clusters
<1>4. (Clusters + 2) % Word <= Clusters + 2 /\ (Clusters + 2) % Word \in Nat
  BY <1>3, FatAssumption
<1>5. c - 2 \in Nat /\ c - 2 < Clusters
  BY <1>3, <1>4 DEF InData
<1>6. (c - 2) * boot.spc \in Nat /\ (c - 2) * boot.spc + i < Clusters * boot.spc
  BY <1>1, <1>3, <1>5, InsideParts
<1>7. Clusters * boot.spc \in Nat
  BY <1>1, <1>3
<1> HIDE DEF FirstData, Clusters
<1> QED BY <1>1, <1>3, <1>6, <1>7 DEF FirstSector

(* The sector with a link that next accepts is in the first FAT. *)
LEMMA FatSector ==
  ASSUME Mounted, NEW c \in Nat, HasLink(c)
  PROVE  /\ boot.reserved <= boot.reserved + LinkSector(c)
         /\ boot.reserved + LinkSector(c) < boot.reserved + boot.fatSize
<1>1. boot.reserved \in Nat /\ boot.fatSize \in Nat
  BY VolumeTypes DEF Mounted
<1>2. c * LinkBytes \in Nat /\ SectorBytes \in Nat \ {0}
  BY FatAssumption
<1>3. LinkSector(c) \in Nat
  BY <1>2, QuotientBound DEF LinkSector
<1> QED BY <1>1, <1>3 DEF HasLink

(* Following a link reads a sector of the FAT and leads to a number. *)
LEMMA FollowKeeps ==
  ASSUME VolumeInv, Mounted, boot' = boot,
         \E then \in {"dir", "copy", "none"} : Follow(then)
  PROVE  VolumeInv'
<1> PICK then \in {"dir", "copy", "none"} : Follow(then)
  OBVIOUS
<1>1. lba' = boot.reserved + LinkSector(cluster) /\ HasLink(cluster)
  BY DEF Follow
<1>2. ReadsInVolume'
  BY <1>1, FatSector DEF VolumeInv, ReadsInVolume
<1>3. PICK next \in IF cluster \in DOMAIN links THEN {links[cluster]} ELSE Links :
        /\ links' = Known(links, cluster, next)
        /\ IF next = End THEN at' = "none" /\ UNCHANGED <<cluster, index>>
           ELSE at' = then /\ cluster' = next /\ index' = 0
  BY DEF Follow
<1>4. next \in Links
  BY <1>3 DEF VolumeInv
<1>5. cluster' \in Nat /\ index' \in Nat
  BY <1>3, <1>4, FatAssumption DEF VolumeInv
<1>6. \A c \in DOMAIN links' : links'[c] \in Links
  BY <1>3, <1>4 DEF Known, VolumeInv
<1>7. at' # "mount" /\ Mounted'
  BY <1>3 DEF Mounted, FirstData
<1> QED BY <1>2, <1>5, <1>6, <1>7 DEF VolumeInv

(* Every step of fat_bundle reads in the volume. *)
LEMMA AcceptsKeep ==
  ASSUME VolumeInv, Accepts
  PROVE  VolumeInv'
<1>1. CASE Mount
  <2>1. boot' \in Boots /\ links' = links /\ index' = index /\ lba' = lba /\ lba = 0 /\ at' # "mount"
    BY <1>1 DEF Mount, disk, VolumeInv
  <2>2. CASE Mounts'
    <3>1. at' = "dir" /\ cluster' = boot'.root
      BY <1>1, <2>2 DEF Mount
    <3>2. boot'.root \in Nat
      BY <2>1, FatAssumption
    <3>3. Mounted'
      BY <2>1, <2>2 DEF Mounts, Mounted
    <3> QED BY <2>1, <3>1, <3>2, <3>3 DEF VolumeInv, ReadsInVolume
  <2>3. CASE ~Mounts'
    BY <1>1, <2>1, <2>3 DEF Mount, VolumeInv, ReadsInVolume
  <2> QED BY <2>2, <2>3
<1>2. CASE ReadDir
  <2>1. Mounted /\ boot' = boot /\ links' = links /\ lba' = FirstSector(cluster) + index
    BY <1>2 DEF ReadDir, VolumeInv
  <2>2. FirstData <= lba' /\ lba' < boot.total
    BY <1>2, <2>1, DataSector DEF ReadDir, VolumeInv
  <2>3. ReadsInVolume' /\ Mounted'
    BY <2>1, <2>2 DEF ReadsInVolume, Mounted, FirstData
  <2>4. at' # "mount" /\ cluster' \in Nat /\ index' \in Nat
    BY <1>2, FatAssumption DEF ReadDir, VolumeInv
  <2> QED BY <2>1, <2>3, <2>4 DEF VolumeInv
<1>3. CASE DirNext
  <2>1. Mounted /\ boot' = boot
    BY <1>3 DEF DirNext, VolumeInv
  <2>2. Follow("dir") \/ Follow("none")
    BY <1>3 DEF DirNext
  <2> QED BY <2>1, <2>2, FollowKeeps
<1>4. CASE CopySector
  <2>1. Mounted /\ boot' = boot /\ links' = links /\ lba' = FirstSector(cluster) + index
    BY <1>4 DEF CopySector, VolumeInv, disk
  <2>2. FirstData <= lba' /\ lba' < boot.total
    BY <1>4, <2>1, DataSector DEF CopySector, VolumeInv
  <2>3. ReadsInVolume' /\ Mounted'
    BY <2>1, <2>2 DEF ReadsInVolume, Mounted, FirstData
  <2>4. at' # "mount" /\ cluster' \in Nat /\ index' \in Nat
    BY <1>4 DEF CopySector, VolumeInv
  <2> QED BY <2>1, <2>3, <2>4 DEF VolumeInv
<1>5. CASE CopyNext
  <2>1. Mounted /\ boot' = boot
    BY <1>5 DEF CopyNext, VolumeInv
  <2>2. Follow("copy")
    BY <1>5 DEF CopyNext
  <2> QED BY <2>1, <2>2, FollowKeeps
<1> QED BY <1>1, <1>2, <1>3, <1>4, <1>5 DEF Accepts

(* So does every step of the boot. *)
LEMMA VolumeKept == VolumeInv /\ [BootNext]_bootVars => VolumeInv'
<1> SUFFICES ASSUME VolumeInv, [BootNext]_bootVars PROVE VolumeInv'
  OBVIOUS
<1>1. CASE UNCHANGED vars
  BY <1>1 DEF vars, disk, VolumeInv, Mounted, FirstData, ReadsInVolume
<1>2. CASE LeaveDisk
  BY <1>2 DEF LeaveDisk, VolumeInv, ReadsInVolume
<1>3. CASE Fails
  <2>1. UNCHANGED <<boot, cluster, index, lba, links>> /\ at' = "none"
    BY <1>3 DEF Fails, disk
  <2> QED BY <2>1 DEF VolumeInv, ReadsInVolume, FirstData
<1>4. CASE Accepts
  BY <1>4, AcceptsKeep
<1>5. FindHba \/ TryPort \/ UseMouse \/ UNCHANGED bootVars => UNCHANGED vars
  BY DEF FindHba, TryPort, UseMouse, bootVars, allVars
<1>6. UseDisk => UNCHANGED vars \/ Fails \/ Accepts
  BY DEF UseDisk, DiskNext, Driver, Start, Transfer, Deliver, Lose, Refuse
<1> QED BY <1>1, <1>2, <1>3, <1>4, <1>5, <1>6 DEF BootNext

(* Whatever the boot sector and the links say, only the boot sector, the   *)
(* first FAT and the data of the volume are read.                          *)
THEOREM InVolumeTheorem == BootSpec => []ReadsInVolume
<1>1. BootInit => VolumeInv
  BY DEF BootInit, DiskInit, Init, VolumeInv, ReadsInVolume
<1>2. VolumeInv => ReadsInVolume
  BY DEF VolumeInv
<1> QED BY <1>1, <1>2, VolumeKept, PTL DEF BootSpec

-----------------------------------------------------------------------------
(* The file that is copied. *)

(* A function on 1 .. n is a sequence of length n. *)
LEMMA FunctionIsSeq ==
  ASSUME NEW S, NEW n \in Nat, NEW f \in [1 .. n -> S]
  PROVE  f \in Seq(S) /\ Len(f) = n /\ (f = <<>> <=> n = 0)
<1>1. f \in Seq(S) /\ Len(f) = n
  OBVIOUS
<1>2. n = 0 => f = <<>>
  <2>1. ASSUME n = 0 PROVE f = <<>>
    <3>1. <<>> \in Seq(S) /\ Len(<<>>) = 0
      BY EmptySeq
    <3>2. Len(f) = Len(<<>>) /\ \A i \in 1 .. Len(f) : f[i] = <<>>[i]
      BY <1>1, <2>1, <3>1
    <3> QED BY <1>1, <3>1, <3>2, SeqEqual
  <2> QED BY <2>1
<1>3. f = <<>> => n = 0
  BY <1>1, EmptySeq
<1> QED BY <1>1, <1>2, <1>3

(* A set of numbers has a least one. *)
LEMMA LeastOf ==
  ASSUME NEW T, T \subseteq Nat, T # {}
  PROVE  \E x \in T : \A y \in T : x <= y
<1> DEFINE R == OpToRel(<, Nat)
<1>1. IsWellFoundedOn(R, Nat)
  BY NatLessThanWellFounded
<1> HIDE DEF R
<1>2. PICK x \in T : \A y \in T : <<y, x>> \notin R
  BY <1>1, WFMin
<1>3. R = {ss \in Nat \X Nat : ss[1] < ss[2]}
  BY DEF R, OpToRel
<1>4. ASSUME NEW y \in T PROVE x <= y
  <2>1. x \in Nat /\ y \in Nat
    OBVIOUS
  <2>2. y < x => <<y, x>> \in R
    BY <2>1, <1>3
  <2> QED BY <2>1, <2>2, <1>2
<1> QED BY <1>4

(* The first k links of the chain from c have been read. *)
Walked(c, k) == \A m \in 0 .. k - 1 : Chain(c, m) \in DOMAIN links

(* A sector of the directory has been read, and is as it says. *)
RowIs(m, row) == SectorOf(boot.root, m) \in DOMAIN rows /\ rows[SectorOf(boot.root, m)] = row

(* The directory has been read up to sector i of its cluster r. *)
SearchedTo(r, i) ==
  /\ Walked(boot.root, r)
  /\ \A m \in 0 .. r * boot.spc + i - 1 : RowIs(m, Skip)

(* fat_bundle searches the directory. *)
Searching ==
  /\ boot.spc \in Nat /\ round \in 0 .. DirRounds - 1 /\ index \in 0 .. boot.spc
  /\ at = "dirNext" => index = boot.spc /\ boot.spc # 0
  /\ cluster = Chain(boot.root, round) /\ SearchedTo(round, index)
  /\ entry = None /\ copied = 0

(* It has found the file. *)
Found ==
  \E r \in 0 .. DirRounds - 1, i \in 0 .. boot.spc - 1 :
    SearchedTo(r, i) /\ RowIs(r * boot.spc + i, entry)

(* It is at cluster k of the file. *)
CopyingAt(k) ==
  /\ Walked(entry.start, k) /\ cluster = Chain(entry.start, k)
  /\ copied = (k * boot.spc + index) * SectorBytes

(* It copies the file. *)
Copying ==
  /\ boot.spc \in Nat \ {0} /\ index \in 0 .. boot.spc
  /\ at = "copyNext" => index = boot.spc
  /\ entry \in Entries /\ Found
  /\ copied < entry.size /\ entry.size <= MaxBytes
  /\ \E k \in Nat : CopyingAt(k)

(* What has been read so far. *)
ChainInv ==
  /\ at \in {"mount", "dir", "dirNext", "copy", "copyNext", "none", "parse"}
  /\ copied \in Nat /\ bundle \in Seq(Nat \X Nat)
  /\ \A s \in DOMAIN rows : rows[s] \in Entries \cup {EndRow, Skip}
  /\ at = "mount" => round = 0 /\ index = 0 /\ entry = None /\ copied = 0
  /\ at \in {"dir", "dirNext"} => Searching
  /\ at \in {"copy", "copyNext"} => Copying
  /\ FileIsChain

(* A set of numbers with 0 and each successor has every number. *)
LEMMA SetInduction ==
  ASSUME NEW S, 0 \in S, \A n \in Nat : n \in S => n + 1 \in S
  PROVE  Nat \subseteq S
<1> DEFINE T == {n \in Nat : n \notin S}
<1>1. SUFFICES ASSUME T # {} PROVE FALSE
  OBVIOUS
<1>2. PICK x \in T : \A y \in T : x <= y
  BY <1>1, LeastOf
<1>3. x # 0
  OBVIOUS
<1>4. x - 1 \in Nat /\ x - 1 \notin T
  BY <1>2, <1>3
<1> QED BY <1>4

(* The chain's clusters, as one function. *)
ChainTo(f, c, n, g) == g = [k \in 0 .. n |-> IF k = 0 THEN c ELSE f[g[k - 1]]]

(* There is such a function, ... *)
LEMMA ChainExists ==
  ASSUME NEW f, NEW c
  PROVE  \A n \in Nat : \E g : ChainTo(f, c, n, g)
<1> DEFINE S == {n \in Nat : \E g : ChainTo(f, c, n, g)}
<1>1. 0 \in S
  <2> DEFINE h == [k \in 0 .. 0 |-> c]
  <2>1. ChainTo(f, c, 0, h)
    <3>1. \A k \in 0 .. 0 : k = 0
      OBVIOUS
    <3> QED BY <3>1 DEF ChainTo
  <2> QED BY <2>1
<1>2. ASSUME NEW n \in Nat, n \in S PROVE n + 1 \in S
  <2>1. PICK g : ChainTo(f, c, n, g)
    BY <1>2
  <2> DEFINE h == [k \in 0 .. n + 1 |-> IF k <= n THEN g[k] ELSE f[g[n]]]
  <2>2. ASSUME NEW k \in 0 .. n + 1 PROVE h[k] = IF k = 0 THEN c ELSE f[h[k - 1]]
    <3>1. CASE k = 0
      BY <2>1, <3>1 DEF ChainTo
    <3>2. CASE k \in 1 .. n
      <4>1. g[k] = f[g[k - 1]]
        BY <2>1, <3>2 DEF ChainTo
      <4>2. h[k] = g[k] /\ h[k - 1] = g[k - 1]
        BY <3>2
      <4> QED BY <3>2, <4>1, <4>2
    <3>3. CASE k = n + 1
      <4>1. h[k] = f[g[n]] /\ h[k - 1] = g[n]
        BY <3>3
      <4> QED BY <3>3, <4>1
    <3> QED BY <3>1, <3>2, <3>3
  <2>3. h = [k \in 0 .. n + 1 |-> h[k]]
    OBVIOUS
  <2> HIDE DEF h
  <2>4. ChainTo(f, c, n + 1, h)
    BY <2>2, <2>3 DEF ChainTo
  <2> QED BY <2>4
<1> HIDE DEF S
<1>3. Nat \subseteq S
  BY <1>1, <1>2, SetInduction
<1> QED BY <1>3 DEF S

(* ... and the values of any two agree. *)
LEMMA ChainAgrees ==
  ASSUME NEW f, NEW c, NEW n \in Nat, NEW m \in Nat, NEW g, NEW h,
         ChainTo(f, c, n, g), ChainTo(f, c, m, h)
  PROVE  \A k \in Nat : k <= n /\ k <= m => g[k] = h[k]
<1> DEFINE S == {k \in Nat : k <= n /\ k <= m => g[k] = h[k]}
<1>1. 0 \in S
  BY DEF ChainTo
<1>2. ASSUME NEW k \in Nat, k \in S PROVE k + 1 \in S
  <2> SUFFICES ASSUME k + 1 <= n, k + 1 <= m PROVE g[k + 1] = h[k + 1]
    OBVIOUS
  <2>1. g[k] = h[k]
    BY <1>2
  <2>2. g[k + 1] = f[g[k]] /\ h[k + 1] = f[h[k]]
    BY DEF ChainTo
  <2> QED BY <2>1, <2>2
<1> HIDE DEF S
<1>3. Nat \subseteq S
  BY <1>1, <1>2, SetInduction
<1> QED BY <1>3 DEF S

(* A chain goes from a cluster to the one that its link names. *)
LEMMA AlongIs ==
  ASSUME NEW f, NEW c
  PROVE  /\ Along(f, c, 0) = c
         /\ \A n \in Nat : Along(f, c, n + 1) = f[Along(f, c, n)]
<1>1. ASSUME NEW n \in Nat PROVE \E g : ChainTo(f, c, n, g) /\ Along(f, c, n) = g[n]
  <2> DEFINE g == CHOOSE g : ChainTo(f, c, n, g)
  <2>1. ChainTo(f, c, n, g)
    BY ChainExists
  <2>2. Along(f, c, n) = g[n]
    BY DEF Along, ChainTo
  <2> QED BY <2>1, <2>2
<1>2. Along(f, c, 0) = c
  <2>1. PICK g : ChainTo(f, c, 0, g) /\ Along(f, c, 0) = g[0]
    BY <1>1
  <2> QED BY <2>1 DEF ChainTo
<1>3. ASSUME NEW n \in Nat PROVE Along(f, c, n + 1) = f[Along(f, c, n)]
  <2>1. PICK g : ChainTo(f, c, n, g) /\ Along(f, c, n) = g[n]
    BY <1>1
  <2>2. PICK h : ChainTo(f, c, n + 1, h) /\ Along(f, c, n + 1) = h[n + 1]
    BY <1>1
  <2>3. g[n] = h[n]
    BY <2>1, <2>2, ChainAgrees
  <2>4. h[n + 1] = f[h[n]]
    BY <2>2 DEF ChainTo
  <2> QED BY <2>1, <2>2, <2>3, <2>4
<1> QED BY <1>2, <1>3

(* The next cluster of a chain. *)
LEMMA AlongNext ==
  ASSUME NEW f, NEW c, NEW n \in Nat
  PROVE  Along(f, c, n + 1) = f[Along(f, c, n)]
  BY AlongIs

(* One part more. *)
LEMMA NextPart ==
  ASSUME NEW k \in Nat, NEW s \in Nat
  PROVE  k * s \in Nat /\ (k + 1) * s = k * s + s
  OBVIOUS

(* The digits of a number to the base s. *)
LEMMA Digits ==
  ASSUME NEW s \in Nat \ {0}, NEW k \in Nat, NEW i \in Nat, i < s
  PROVE  k * s + i \in Nat /\ (k * s + i) \div s = k /\ (k * s + i) % s = i
<1> DEFINE n == k * s + i
<1>1. n \in Nat
  OBVIOUS
<1> HIDE DEF n
<1>2. PICK d \in Nat, e \in Nat : d = n \div s /\ e = n % s /\ e < s /\ n = d * s + e
  BY <1>1
<1>3. ~(k < d)
  <2>1. k < d => k * s + i < d * s
    BY InsideParts
  <2>2. d * s \in Nat /\ k * s \in Nat
    BY <1>2
  <2> QED BY <1>2, <2>1, <2>2 DEF n
<1>4. ~(d < k)
  <2>1. d < k => d * s + e < k * s
    BY <1>2, InsideParts
  <2>2. d * s \in Nat /\ k * s \in Nat
    BY <1>2
  <2> QED BY <1>2, <2>1, <2>2 DEF n
<1>5. d = k
  BY <1>2, <1>3, <1>4
<1>6. e = i
  <2>1. k * s \in Nat
    OBVIOUS
  <2> QED BY <1>2, <1>5, <2>1 DEF n
<1> QED BY <1>1, <1>2, <1>5, <1>6 DEF n

(* A number below the first k + 1 parts is in one of the parts 0 to k. *)
LEMMA PartOf ==
  ASSUME NEW s \in Nat \ {0}, NEW k \in Nat, NEW n \in Nat, n < (k + 1) * s
  PROVE  n \div s \in 0 .. k
<1>1. n \div s \in Nat /\ (n \div s) * s <= n
  BY QuotientBound
<1> DEFINE d == n \div s
<1> HIDE DEF d
<1>2. d \in Nat /\ d * s <= n
  BY <1>1 DEF d
<1>3. ASSUME k < d PROVE FALSE
  <2>1. (k + 1) * s <= d * s
    BY <1>2, <1>3
  <2>2. (k + 1) * s \in Nat /\ d * s \in Nat
    BY <1>2
  <2> QED BY <1>2, <2>1, <2>2
<1>4. d \in 0 .. k
  BY <1>2, <1>3
<1> QED BY <1>4 DEF d

(* The function g says all that f does. *)
Grows(f, g) == \A x \in DOMAIN f : x \in DOMAIN g /\ g[x] = f[x]

(* A chain stays as it is when more links become known. *)
LEMMA AlongKept ==
  ASSUME NEW f, NEW g, Grows(f, g), NEW c, NEW k \in Nat,
         \A m \in 0 .. k - 1 : Along(f, c, m) \in DOMAIN f
  PROVE  \A m \in 0 .. k : Along(g, c, m) = Along(f, c, m)
<1> DEFINE S == {m \in Nat : m <= k => Along(g, c, m) = Along(f, c, m)}
<1>1. 0 \in S
  BY AlongIs
<1>2. ASSUME NEW m \in Nat, m \in S PROVE m + 1 \in S
  <2> SUFFICES ASSUME m + 1 <= k PROVE Along(g, c, m + 1) = Along(f, c, m + 1)
    OBVIOUS
  <2>1. Along(g, c, m) = Along(f, c, m) /\ Along(f, c, m) \in DOMAIN f
    BY <1>2
  <2>2. Along(g, c, m + 1) = g[Along(g, c, m)]
    BY AlongIs
  <2>3. Along(f, c, m + 1) = f[Along(f, c, m)]
    BY AlongIs
  <2> QED BY <2>1, <2>2, <2>3 DEF Grows
<1> HIDE DEF S
<1>3. Nat \subseteq S
  BY <1>1, <1>2, SetInduction
<1>4. ASSUME NEW m \in 0 .. k PROVE Along(g, c, m) = Along(f, c, m)
  <2>1. m \in S
    BY <1>3
  <2> QED BY <2>1 DEF S
<1> QED BY <1>4

(* The sectors of the clusters that were reached stay where they are. *)
LEMMA SectorsKept ==
  ASSUME boot' = boot, Grows(links, links'), boot.spc \in Nat \ {0},
         NEW c, NEW k \in Nat, Walked(c, k)
  PROVE  /\ Walked(c, k)'
         /\ \A m \in 0 .. k : Chain(c, m)' = Chain(c, m)
         /\ \A n \in Nat : n < (k + 1) * boot.spc => SectorOf(c, n)' = SectorOf(c, n)
<1>1. \A m \in 0 .. k : Along(links', c, m) = Along(links, c, m)
  BY AlongKept DEF Walked, Chain
<1>2. \A m \in 0 .. k : Chain(c, m)' = Chain(c, m)
  BY <1>1 DEF Chain
<1>3. Walked(c, k)'
  <2> SUFFICES ASSUME NEW m \in 0 .. k - 1 PROVE Chain(c, m)' \in DOMAIN links'
    BY DEF Walked
  <2> QED BY <1>2 DEF Walked, Grows
<1>4. ASSUME NEW n \in Nat, n < (k + 1) * boot.spc PROVE SectorOf(c, n)' = SectorOf(c, n)
  <2>1. PICK m \in 0 .. k : m = n \div boot.spc
    BY <1>4, PartOf
  <2>2. PICK y : y = Chain(c, m) /\ y = Chain(c, m)'
    BY <1>2
  <2>3. SectorOf(c, n) = FirstSector(y) + (n % boot.spc)
    BY <2>1, <2>2 DEF SectorOf
  <2>4. SectorOf(c, n)' = FirstSector(y)' + (n % boot.spc)
    BY <2>1, <2>2 DEF SectorOf, FirstSector, FirstData
  <2>5. FirstSector(y)' = FirstSector(y)
    BY DEF FirstSector, FirstData
  <2> QED BY <2>3, <2>4, <2>5
<1> QED BY <1>2, <1>3, <1>4

(* Nothing that was read changes. *)
Steady == boot' = boot /\ Grows(links, links') /\ Grows(rows, rows')

(* The rows of the directory's clusters that were reached stay as they are. *)
LEMMA RowsKept ==
  ASSUME Steady, boot.spc \in Nat \ {0}, NEW r \in Nat, Walked(boot.root, r)
  PROVE  /\ Walked(boot.root, r)'
         /\ \A m \in Nat : \A row : m < (r + 1) * boot.spc /\ RowIs(m, row) => RowIs(m, row)'
<1> PICK c : c = boot.root
  OBVIOUS
<1>1. boot'.root = c
  BY DEF Steady
<1>2. Walked(c, r)' /\ \A m \in Nat : m < (r + 1) * boot.spc => SectorOf(c, m)' = SectorOf(c, m)
  BY SectorsKept DEF Steady
<1>3. Walked(boot.root, r)'
  BY <1>1, <1>2 DEF Walked
<1>4. ASSUME NEW m \in Nat, NEW row, m < (r + 1) * boot.spc, RowIs(m, row) PROVE RowIs(m, row)'
  <2>1. PICK s : s = SectorOf(c, m) /\ s = SectorOf(c, m)'
    BY <1>2, <1>4
  <2>2. s \in DOMAIN rows /\ rows[s] = row
    BY <1>4, <2>1 DEF RowIs
  <2>3. s \in DOMAIN rows' /\ rows'[s] = row
    BY <2>2 DEF Steady, Grows
  <2> QED BY <1>1, <2>1, <2>3 DEF RowIs
<1> QED BY <1>3, <1>4

(* So what was searched stays searched. *)
LEMMA SearchKept ==
  ASSUME Steady, boot.spc \in Nat \ {0}, NEW r \in Nat, NEW i \in 0 .. boot.spc, SearchedTo(r, i)
  PROVE  SearchedTo(r, i)'
<1>1. /\ Walked(boot.root, r)'
      /\ \A m \in Nat : \A row : m < (r + 1) * boot.spc /\ RowIs(m, row) => RowIs(m, row)'
  BY RowsKept DEF SearchedTo
<1>2. boot'.spc = boot.spc /\ r * boot.spc \in Nat /\ (r + 1) * boot.spc = r * boot.spc + boot.spc
  <2>1. r * boot.spc \in Nat /\ (r + 1) * boot.spc = r * boot.spc + boot.spc
    BY NextPart
  <2> QED BY <2>1 DEF Steady
<1>3. ASSUME NEW m \in 0 .. r * boot.spc + i - 1 PROVE RowIs(m, Skip)'
  <2>1. m \in Nat /\ m < (r + 1) * boot.spc
    BY <1>2
  <2>2. RowIs(m, Skip)
    BY DEF SearchedTo
  <2> QED BY <1>1, <2>1, <2>2
<1> QED BY <1>1, <1>2, <1>3 DEF SearchedTo

(* The file that was found stays found. *)
LEMMA FoundKept ==
  ASSUME Steady, boot.spc \in Nat \ {0}, entry' = entry, Found
  PROVE  Found'
<1>1. PICK r \in 0 .. DirRounds - 1, i \in 0 .. boot.spc - 1 :
        SearchedTo(r, i) /\ RowIs(r * boot.spc + i, entry)
  BY DEF Found
<1>2. r \in Nat /\ i \in 0 .. boot.spc /\ boot'.spc = boot.spc
  BY FatAssumption DEF Steady
<1>3. SearchedTo(r, i)'
  BY <1>1, <1>2, SearchKept
<1>4. r * boot.spc + i \in Nat /\ r * boot.spc + i < (r + 1) * boot.spc
  BY <1>2, InsideParts
<1> PICK e, m : e = entry /\ m = r * boot.spc + i
  OBVIOUS
<1>5. RowIs(m, e)'
  BY <1>1, <1>2, <1>4, RowsKept DEF SearchedTo
<1>6. RowIs(r * boot.spc + i, entry)'
  BY <1>2, <1>5 DEF RowIs
<1> QED BY <1>2, <1>3, <1>6 DEF Found

(* What was found is the first row of its name. *)
LEMMA FoundFirst ==
  ASSUME boot.spc \in Nat, Found
  PROVE  EntryIsFirst
<1>1. PICK r \in 0 .. DirRounds - 1, i \in 0 .. boot.spc - 1 :
        SearchedTo(r, i) /\ RowIs(r * boot.spc + i, entry)
  BY DEF Found
<1>2. DirRounds \in Nat /\ r \in Nat /\ r < DirRounds /\ i \in Nat /\ i < boot.spc
  BY FatAssumption
<1>3. r * boot.spc \in Nat /\ r * boot.spc + i < DirRounds * boot.spc /\ DirRounds * boot.spc \in Nat
  BY <1>2, InsideParts
<1> PICK n : n = r * boot.spc + i
  OBVIOUS
<1>4. n \in 0 .. DirRounds * boot.spc - 1
  BY <1>2, <1>3
<1>5. \A m \in 0 .. n - 1 : rows[SectorOf(boot.root, m)] = Skip
  BY <1>1 DEF SearchedTo, RowIs
<1>6. rows[SectorOf(boot.root, n)] = entry
  BY <1>1 DEF RowIs
<1> QED BY <1>4, <1>5, <1>6 DEF EntryIsFirst

(* What is copied so far comes from the clusters that were reached, ... *)
LEMMA CopiedFrom ==
  ASSUME boot.spc \in Nat \ {0}, index \in 0 .. boot.spc, NEW k \in Nat, CopyingAt(k),
         NEW j \in 1 .. copied
  PROVE  (j - 1) \div SectorBytes \in Nat /\ (j - 1) \div SectorBytes < (k + 1) * boot.spc
<1> PICK q, s : q = k * boot.spc + index /\ s = SectorBytes
  OBVIOUS
<1>1. q \in Nat /\ s \in Nat \ {0} /\ copied = q * s /\ q <= (k + 1) * boot.spc
  <2>1. k * boot.spc \in Nat /\ (k + 1) * boot.spc = k * boot.spc + boot.spc
    BY NextPart
  <2> QED BY <2>1, FatAssumption DEF CopyingAt
<1>2. q # 0
  BY <1>1
<1>3. j - 1 \in Nat /\ j - 1 < ((q - 1) + 1) * s /\ q - 1 \in Nat
  <2>1. (q - 1) + 1 = q
    BY <1>1
  <2>2. q * s \in Nat
    BY <1>1
  <2> QED BY <1>1, <1>2, <2>1, <2>2
<1>4. (j - 1) \div s \in 0 .. q - 1
  BY <1>1, <1>3, PartOf
<1>5. (k + 1) * boot.spc \in Nat
  OBVIOUS
<1> QED BY <1>1, <1>4, <1>5

(* ... and so it stays the beginning of the file. *)
LEMMA ContentsKept ==
  ASSUME Steady, boot.spc \in Nat \ {0}, index \in 0 .. boot.spc, NEW k \in Nat, CopyingAt(k),
         entry' = entry, copied' = copied, bundle' = bundle, Found, FileIsChain,
         at' # "parse"
  PROVE  FileIsChain'
<1> PICK c : c = entry.start
  OBVIOUS
<1>1. \A n \in Nat : n < (k + 1) * boot.spc => SectorOf(c, n)' = SectorOf(c, n)
  BY SectorsKept DEF CopyingAt, Steady
<1>2. ASSUME NEW j \in 1 .. copied
      PROVE  bundle'[j] = <<SectorOf(entry.start, (j - 1) \div SectorBytes), ((j - 1) % SectorBytes) + 1>>'
  <2>1. PICK n \in Nat : n = (j - 1) \div SectorBytes /\ n < (k + 1) * boot.spc
    BY CopiedFrom
  <2>2. bundle[j] = <<SectorOf(c, n), ((j - 1) % SectorBytes) + 1>>
    BY <2>1 DEF FileIsChain
  <2>3. SectorOf(entry.start, (j - 1) \div SectorBytes)' = SectorOf(c, n)'
    BY <2>1 DEF SectorOf
  <2> QED BY <1>1, <2>1, <2>2, <2>3
<1>3. boot'.spc \in Nat /\ Found'
  BY FoundKept DEF Steady
<1>4. EntryIsFirst'
  <2>1. (boot.spc \in Nat /\ Found => EntryIsFirst)'
    BY FoundFirst, PTL
  <2> QED BY <1>3, <2>1
<1> QED BY <1>2, <1>4 DEF FileIsChain

(* The sector at which fat_bundle is. *)
LEMMA SectorHere ==
  ASSUME boot.spc \in Nat \ {0}, index \in Nat, index < boot.spc,
         NEW c, NEW k \in Nat, cluster = Chain(c, k)
  PROVE  SectorOf(c, k * boot.spc + index) = FirstSector(cluster) + index
  BY Digits DEF SectorOf

(* Nothing is copied yet. *)
LEMMA NothingYet ==
  ASSUME EntryIsFirst', copied' = 0, Len(bundle') = 0, at' # "parse"
  PROVE  FileIsChain'
<1>1. 0 <= MaxBytes /\ \A j \in 1 .. 0 : FALSE
  BY FatAssumption
<1> QED BY <1>1 DEF FileIsChain

(* The end of the search leaves nothing. *)
LEMMA NothingCopied ==
  ASSUME entry' = None, copied' = copied, bundle' = bundle, copied = 0, at' # "parse", FileIsChain
  PROVE  FileIsChain'
<1>1. EntryIsFirst'
  BY DEF EntryIsFirst
<1> QED BY <1>1 DEF FileIsChain

(* The volume is mounted. *)
LEMMA MountChain ==
  ASSUME VolumeInv, ChainInv, Mount
  PROVE  ChainInv'
<1>1. /\ round = 0 /\ index = 0 /\ entry = None /\ copied = 0 /\ boot' \in Boots
      /\ round' = round /\ index' = index /\ entry' = entry /\ copied' = copied /\ bundle' = bundle
      /\ links' = links /\ rows' = rows
      /\ at' = "none" \/ (at' = "dir" /\ cluster' = boot'.root)
  BY DEF Mount, disk, ChainInv
<1>2. FileIsChain'
  BY <1>1, NothingCopied DEF ChainInv
<1>3. ASSUME at' = "dir" PROVE Searching'
  <2>1. boot'.spc \in Nat
    BY <1>1, FatAssumption
  <2> PICK c : c = boot'.root
    OBVIOUS
  <2>2. Along(links', c, 0) = c
    BY AlongIs
  <2>3. cluster' = Chain(boot.root, round)'
    BY <1>1, <1>3, <2>2 DEF Chain
  <2>4. SearchedTo(round, index)'
    <3>1. 0 * boot'.spc + 0 - 1 = -1
      BY <2>1
    <3> QED BY <1>1, <3>1 DEF SearchedTo, Walked
  <2> QED BY <1>1, <1>3, <2>1, <2>3, <2>4, FatAssumption DEF Searching
<1> QED BY <1>1, <1>2, <1>3 DEF ChainInv

(* What ReadDir does with a row. *)
TakesFile(row) ==
  /\ row \in Entries /\ entry' = row /\ row.size # 0 /\ row.size <= MaxBytes
  /\ at' = "copy" /\ cluster' = row.start /\ index' = 0
RefusesFile(row) == row \in Entries /\ entry' = row /\ at' = "none"
EndsSearch == at' = "none" /\ UNCHANGED entry
SearchesOn(row) ==
  /\ row = Skip /\ index' = index + 1 /\ UNCHANGED <<cluster, entry>>
  /\ at' = IF index' = boot.spc THEN "dirNext" ELSE "dir"

(* A row that was read stays what it was. *)
LEMMA RowRead ==
  ASSUME ChainInv, ReadDir
  PROVE  \E row \in Entries \cup {EndRow, Skip} :
           /\ rows' = Known(rows, lba', row) /\ Grows(rows, rows')
           /\ lba' \in DOMAIN rows' /\ rows'[lba'] = row
           /\ \A s \in DOMAIN rows' : rows'[s] \in Entries \cup {EndRow, Skip}
           /\ TakesFile(row) \/ RefusesFile(row) \/ EndsSearch \/ SearchesOn(row)
<1>1. PICK row \in IF lba' \in DOMAIN rows THEN {rows[lba']} ELSE Entries \cup {EndRow, Skip} :
        /\ rows' = Known(rows, lba', row)
        /\ \/ /\ row \in Entries
              /\ entry' = row
              /\ IF row.size = 0 \/ row.size > MaxBytes
                 THEN at' = "none" /\ UNCHANGED <<cluster, index>>
                 ELSE at' = "copy" /\ cluster' = row.start /\ index' = 0
           \/ EndsDir(row) /\ at' = "none" /\ UNCHANGED <<cluster, index, entry>>
           \/ /\ row \notin Entries /\ ~EndsDir(row) /\ index' = index + 1
              /\ at' = IF index' = boot.spc THEN "dirNext" ELSE "dir"
              /\ UNCHANGED <<cluster, entry>>
  BY DEF ReadDir
<1>2. row \in Entries \cup {EndRow, Skip}
  BY <1>1 DEF ChainInv
<1>3. lba' \in DOMAIN rows => row = rows[lba']
  BY <1>1
<1>4. Grows(rows, rows') /\ DOMAIN rows' = DOMAIN rows \cup {lba'} /\ rows'[lba'] = row
  <2> PICK f, k : f = rows /\ k = lba'
    OBVIOUS
  <2>1. k \in DOMAIN f => row = f[k]
    BY <1>3
  <2>2. /\ Grows(f, Known(f, k, row))
        /\ DOMAIN Known(f, k, row) = DOMAIN f \cup {k} /\ Known(f, k, row)[k] = row
    BY <2>1 DEF Grows, Known
  <2> QED BY <1>1, <2>2
<1>5. \A s \in DOMAIN rows' : rows'[s] \in Entries \cup {EndRow, Skip}
  BY <1>2, <1>4 DEF Grows, ChainInv
<1>6. row \notin Entries /\ ~EndsDir(row) => row = Skip
  BY <1>2 DEF EndsDir
<1>7. row \in Entries => row.size \in Nat /\ MaxBytes \in Nat
  BY FatAssumption
<1>8. TakesFile(row) \/ RefusesFile(row) \/ EndsSearch \/ SearchesOn(row)
  BY <1>1, <1>6, <1>7 DEF TakesFile, RefusesFile, EndsSearch, SearchesOn
<1> QED BY <1>1, <1>2, <1>4, <1>5, <1>8

(* A sector of the directory is searched. *)
LEMMA ReadDirChain ==
  ASSUME VolumeInv, ChainInv, ReadDir
  PROVE  ChainInv'
<1>1. /\ at = "dir" /\ index < boot.spc /\ lba' = FirstSector(cluster) + index
      /\ UNCHANGED <<boot, round, copied, bundle, links>>
  BY DEF ReadDir
<1>2. /\ boot.spc \in Nat \ {0} /\ round \in 0 .. DirRounds - 1 /\ index \in Nat
      /\ cluster = Chain(boot.root, round) /\ SearchedTo(round, index) /\ entry = None /\ copied = 0
  BY <1>1 DEF ChainInv, Searching
<1>3. round \in Nat /\ round * boot.spc \in Nat /\ index \in 0 .. boot.spc
  BY <1>1, <1>2, FatAssumption, NextPart
<1>4. PICK row \in Entries \cup {EndRow, Skip} :
           /\ rows' = Known(rows, lba', row) /\ Grows(rows, rows')
           /\ lba' \in DOMAIN rows' /\ rows'[lba'] = row
           /\ \A s \in DOMAIN rows' : rows'[s] \in Entries \cup {EndRow, Skip}
           /\ TakesFile(row) \/ RefusesFile(row) \/ EndsSearch \/ SearchesOn(row)
  BY RowRead
<1> PICK m, r, i : m = round * boot.spc + index /\ r = round /\ i = index
  OBVIOUS
<1>5. Steady
  BY <1>1, <1>4 DEF Steady, Grows
<1>6. SearchedTo(r, i)'
  BY <1>2, <1>3, <1>5, SearchKept
<1>7. RowIs(m, row)'
  <2>1. SectorOf(boot.root, m) = lba'
    BY <1>1, <1>2, <1>3, SectorHere
  <2>2. SectorOf(boot.root, m)' = SectorOf(boot.root, m)
    BY <1>1 DEF SectorOf, Chain, FirstSector, FirstData
  <2> QED BY <1>4, <2>1, <2>2 DEF RowIs
<1>8. ASSUME entry' = row PROVE Found' /\ EntryIsFirst'
  <2>1. Found'
    <3>1. RowIs(r * boot.spc + i, entry)'
      BY <1>1, <1>7, <1>8 DEF RowIs
    <3>2. r \in 0 .. DirRounds - 1 /\ i \in 0 .. boot'.spc - 1
      BY <1>1, <1>2, <1>3
    <3> QED BY <1>6, <3>1, <3>2 DEF Found
  <2>2. (boot.spc \in Nat /\ Found => EntryIsFirst)'
    BY FoundFirst, PTL
  <2> QED BY <1>1, <1>2, <2>1, <2>2
<1>9. /\ copied' = 0 /\ bundle' \in Seq(Nat \X Nat) /\ Len(bundle') = 0
      /\ \A s \in DOMAIN rows' : rows'[s] \in Entries \cup {EndRow, Skip}
  BY <1>1, <1>2, <1>4 DEF ChainInv, FileIsChain
<1>10. CASE TakesFile(row)
  <2>1. FileIsChain'
    <3>1. EntryIsFirst' /\ at' # "parse"
      BY <1>8, <1>10 DEF TakesFile
    <3> QED BY <1>9, <3>1, NothingYet
  <2> PICK c : c = entry'.start
    OBVIOUS
  <2>2. Along(links', c, 0) = c
    BY AlongIs
  <2>3. CopyingAt(0)'
    <3>1. 0 * boot'.spc + index' = 0 /\ 0 * SectorBytes = 0
      BY <1>1, <1>2, <1>10, FatAssumption DEF TakesFile
    <3>2. cluster' = Chain(entry.start, 0)' /\ Walked(entry.start, 0)'
      BY <1>10, <2>2 DEF TakesFile, Chain, Walked
    <3> QED BY <1>9, <3>1, <3>2 DEF CopyingAt
  <2>4. copied' < entry'.size
    <3>1. entry'.size \in Nat /\ entry'.size # 0
      BY <1>10, FatAssumption DEF TakesFile
    <3> QED BY <1>9, <3>1
  <2>5. Copying'
    BY <1>1, <1>2, <1>8, <1>10, <2>3, <2>4 DEF Copying, TakesFile
  <2> QED BY <1>9, <1>10, <2>1, <2>5 DEF ChainInv, TakesFile
<1>11. CASE RefusesFile(row)
  <2>1. FileIsChain'
    <3>1. EntryIsFirst' /\ at' # "parse"
      BY <1>8, <1>11 DEF RefusesFile
    <3> QED BY <1>9, <3>1, NothingYet
  <2> QED BY <1>9, <1>11, <2>1 DEF ChainInv, RefusesFile
<1>12. CASE EndsSearch
  <2>1. FileIsChain'
    BY <1>1, <1>2, <1>12, NothingCopied DEF ChainInv, EndsSearch
  <2> QED BY <1>9, <1>12, <2>1 DEF ChainInv, EndsSearch
<1>13. CASE SearchesOn(row)
  <2>1. FileIsChain'
    BY <1>1, <1>2, <1>13, NothingCopied DEF ChainInv, SearchesOn
  <2>2. cluster' = Chain(boot.root, round)'
    BY <1>1, <1>2, <1>13 DEF SearchesOn, Chain
  <2>3. SearchedTo(round, index)'
    <3>1. boot' = boot /\ round' = r /\ index' = i + 1
      BY <1>1, <1>13 DEF SearchesOn
    <3>2. ASSUME NEW k \in 0 .. r * boot.spc + (i + 1) - 1 PROVE RowIs(k, Skip)'
      <4>1. k = m \/ k \in 0 .. r * boot.spc + i - 1
        BY <1>2, <1>3
      <4>2. RowIs(m, Skip)'
        BY <1>7, <1>13 DEF SearchesOn
      <4>3. \A n \in 0 .. r * boot.spc + i - 1 : RowIs(n, Skip)'
        BY <1>6, <3>1 DEF SearchedTo
      <4> QED BY <4>1, <4>2, <4>3
    <3>3. Walked(boot.root, r)'
      BY <1>6 DEF SearchedTo
    <3> QED BY <3>1, <3>2, <3>3 DEF SearchedTo
  <2>4. Searching'
    <3>1. index' \in 0 .. boot'.spc /\ boot' = boot /\ round' = round
      BY <1>1, <1>2, <1>13 DEF SearchesOn
    <3> QED BY <1>2, <1>9, <1>13, <2>2, <2>3, <3>1 DEF Searching, SearchesOn
  <2>5. at' \in {"dir", "dirNext"}
    BY <1>13 DEF SearchesOn
  <2> QED BY <1>9, <2>1, <2>4, <2>5 DEF ChainInv
<1> QED BY <1>4, <1>10, <1>11, <1>12, <1>13

(* Following a link keeps what was read, and leads along the chain. *)
LEMMA FollowChain ==
  ASSUME NEW then, Follow(then), rows' = rows, boot' = boot
  PROVE  /\ Steady /\ at' \in {then, "none"}
         /\ at' # "none" => /\ cluster \in DOMAIN links' /\ cluster' = links'[cluster]
                            /\ index' = 0
<1>1. PICK next \in IF cluster \in DOMAIN links THEN {links[cluster]} ELSE Links :
        /\ links' = Known(links, cluster, next)
        /\ IF next = End THEN at' = "none" /\ UNCHANGED <<cluster, index>>
           ELSE at' = then /\ cluster' = next /\ index' = 0
  BY DEF Follow
<1> PICK f, c : f = links /\ c = cluster
  OBVIOUS
<1>2. c \in DOMAIN f => next = f[c]
  BY <1>1
<1>3. /\ Grows(f, Known(f, c, next))
      /\ DOMAIN Known(f, c, next) = DOMAIN f \cup {c} /\ Known(f, c, next)[c] = next
  BY <1>2 DEF Grows, Known
<1>4. Grows(links, links') /\ cluster \in DOMAIN links' /\ links'[cluster] = next
  BY <1>1, <1>3
<1>5. Grows(rows, rows')
  BY DEF Grows
<1> QED BY <1>1, <1>4, <1>5 DEF Steady

(* One link more. *)
LEMMA WalkOn ==
  ASSUME Steady, boot.spc \in Nat \ {0}, NEW c, NEW k \in Nat, Walked(c, k),
         cluster = Chain(c, k), cluster \in DOMAIN links', cluster' = links'[cluster]
  PROVE  Walked(c, k + 1)' /\ cluster' = Chain(c, k + 1)'
<1>1. Walked(c, k)' /\ \A m \in 0 .. k : Chain(c, m)' = Chain(c, m)
  BY SectorsKept DEF Steady
<1>2. Chain(c, k)' = cluster
  BY <1>1
<1>3. Along(links', c, k + 1) = links'[Along(links', c, k)]
  BY AlongNext
<1>4. cluster' = Chain(c, k + 1)'
  BY <1>2, <1>3 DEF Chain
<1>5. \A m \in 0 .. (k + 1) - 1 : m = k \/ m \in 0 .. k - 1
  OBVIOUS
<1>6. Walked(c, k + 1)'
  BY <1>1, <1>2, <1>5 DEF Walked
<1> QED BY <1>4, <1>6

(* The search goes on in the next cluster of the directory. *)
LEMMA DirNextChain ==
  ASSUME VolumeInv, ChainInv, DirNext
  PROVE  ChainInv'
<1>1. /\ at = "dirNext" /\ round' = round + 1
      /\ UNCHANGED <<boot, entry, copied, bundle, rows>>
  BY DEF DirNext
<1>2. /\ boot.spc \in Nat \ {0} /\ round \in 0 .. DirRounds - 1 /\ index = boot.spc
      /\ cluster = Chain(boot.root, round) /\ SearchedTo(round, index) /\ entry = None /\ copied = 0
  BY <1>1 DEF ChainInv, Searching
<1> PICK then : then = IF round' < DirRounds THEN "dir" ELSE "none"
  OBVIOUS
<1>3. Follow(then)
  BY DEF DirNext
<1>4. /\ Steady /\ at' \in {then, "none"}
      /\ at' # "none" => /\ cluster \in DOMAIN links' /\ cluster' = links'[cluster]
                         /\ index' = 0
  BY <1>1, <1>3, FollowChain
<1>5. FileIsChain' /\ copied' \in Nat /\ bundle' \in Seq(Nat \X Nat)
  <2>1. at' # "parse"
    BY <1>4
  <2> QED BY <1>1, <1>2, <2>1, NothingCopied DEF ChainInv
<1>6. \A s \in DOMAIN rows' : rows'[s] \in Entries \cup {EndRow, Skip}
  BY <1>1 DEF ChainInv
<1>7. CASE at' = "none"
  BY <1>5, <1>6, <1>7 DEF ChainInv
<1>8. CASE at' = "dir"
  <2> PICK c, r, i : c = boot.root /\ r = round /\ i = index
    OBVIOUS
  <2>1. r \in Nat /\ round' = r + 1 /\ round' \in 0 .. DirRounds - 1 /\ i \in 0 .. boot.spc
    BY <1>1, <1>2, <1>4, <1>8, FatAssumption
  <2>2. Walked(c, r + 1)' /\ cluster' = Chain(c, r + 1)'
    BY <1>2, <1>4, <1>8, <2>1, WalkOn DEF SearchedTo
  <2>3. SearchedTo(r, i)'
    BY <1>2, <1>4, <2>1, SearchKept
  <2>5. SearchedTo(round, index)'
    <3>1. \A m \in 0 .. (r + 1) * boot.spc + 0 - 1 : RowIs(m, Skip)'
      <4>1. \A m \in 0 .. r * boot'.spc + i - 1 : RowIs(m, Skip)'
        BY <2>3 DEF SearchedTo
      <4>2. PICK e : e = r * boot'.spc + i - 1
        OBVIOUS
      <4>3. e = (r + 1) * boot.spc + 0 - 1
        <5>1. PICK p : p = r * boot.spc
          OBVIOUS
        <5>2. PICK q : q = (r + 1) * boot.spc
          OBVIOUS
        <5>3. p \in Nat /\ q = p + i /\ i \in Nat
          <6>1. r * boot.spc \in Nat /\ (r + 1) * boot.spc = r * boot.spc + boot.spc
            BY <1>2, <2>1, NextPart
          <6> QED BY <1>2, <5>1, <5>2, <6>1
        <5>4. e = p + (i - 1)
          BY <1>1, <4>2, <5>1
        <5>5. e = q + (0 - 1)
          BY <5>3, <5>4
        <5> QED BY <5>2, <5>5
      <4>4. \A m \in 0 .. e : RowIs(m, Skip)'
        BY <4>1, <4>2
      <4> QED BY <4>3, <4>4
    <3>2. boot' = boot /\ round' = r + 1 /\ index' = 0
      BY <1>1, <1>4, <1>8, <2>1
    <3>3. Walked(boot.root, round)'
      BY <2>2, <3>2 DEF Walked
    <3> QED BY <3>1, <3>2, <3>3 DEF SearchedTo
  <2>6. Searching'
    BY <1>1, <1>2, <1>4, <1>8, <2>1, <2>2, <2>5 DEF Searching
  <2> QED BY <1>5, <1>6, <1>8, <2>6 DEF ChainInv
<1> QED BY <1>4, <1>7, <1>8

(* The copy goes on in the next cluster of the file. *)
LEMMA CopyNextChain ==
  ASSUME VolumeInv, ChainInv, CopyNext
  PROVE  ChainInv'
<1>1. at = "copyNext" /\ Follow("copy") /\ UNCHANGED <<boot, round, entry, copied, bundle, rows>>
  BY DEF CopyNext
<1>2. /\ boot.spc \in Nat \ {0} /\ index = boot.spc /\ index \in 0 .. boot.spc
      /\ entry \in Entries /\ Found /\ copied < entry.size /\ entry.size <= MaxBytes
  BY <1>1 DEF ChainInv, Copying
<1>3. PICK k \in Nat : CopyingAt(k)
  BY <1>1 DEF ChainInv, Copying
<1>4. /\ Steady /\ at' \in {"copy", "none"}
      /\ at' # "none" => /\ cluster \in DOMAIN links' /\ cluster' = links'[cluster]
                         /\ index' = 0
  BY <1>1, FollowChain
<1>5. FileIsChain'
  BY <1>1, <1>2, <1>3, <1>4, ContentsKept DEF ChainInv
<1>6. /\ copied' \in Nat /\ bundle' \in Seq(Nat \X Nat)
      /\ \A s \in DOMAIN rows' : rows'[s] \in Entries \cup {EndRow, Skip}
  BY <1>1 DEF ChainInv
<1>7. CASE at' = "none"
  BY <1>5, <1>6, <1>7 DEF ChainInv
<1>8. CASE at' = "copy"
  <2> PICK c : c = entry.start
    OBVIOUS
  <2>1. Walked(c, k + 1)' /\ cluster' = Chain(c, k + 1)'
    BY <1>2, <1>3, <1>4, <1>8, WalkOn DEF CopyingAt
  <2>2. Walked(entry.start, k + 1)' /\ cluster' = Chain(entry.start, k + 1)'
    BY <1>1, <2>1 DEF Walked
  <2>3. (k + 1) * boot.spc + 0 = k * boot.spc + index
    <3>1. k * boot.spc \in Nat /\ (k + 1) * boot.spc = k * boot.spc + boot.spc
      BY <1>2, NextPart
    <3> QED BY <1>2, <3>1
  <2>4. CopyingAt(k + 1)'
    BY <1>1, <1>3, <1>4, <1>8, <2>2, <2>3 DEF CopyingAt
  <2>5. Found'
    BY <1>1, <1>2, <1>4, FoundKept
  <2>6. Copying'
    <3>1. k + 1 \in Nat /\ index' \in 0 .. boot'.spc
      BY <1>1, <1>2, <1>4, <1>8
    <3> QED BY <1>1, <1>2, <1>8, <2>4, <2>5, <3>1 DEF Copying
  <2> QED BY <1>5, <1>6, <1>8, <2>6 DEF ChainInv
<1> QED BY <1>4, <1>7, <1>8

(* A sector of the file is copied. *)
LEMMA CopySectorChain ==
  ASSUME VolumeInv, ChainInv, CopySector
  PROVE  ChainInv'
<1>1. /\ at = "copy" /\ index < boot.spc /\ lba' = FirstSector(cluster) + index
      /\ bundle' = bundle \o [k \in 1 .. Amount |-> <<lba', k>>]
      /\ copied' = copied + Amount /\ index' = index + 1
      /\ at' = IF copied' = entry.size THEN "parse"
               ELSE IF index' = boot.spc THEN "copyNext" ELSE "copy"
      /\ UNCHANGED <<boot, cluster, round, entry, links, rows>> /\ InData(cluster)
  BY DEF CopySector, disk
<1>2. /\ boot.spc \in Nat \ {0} /\ index \in Nat
      /\ entry \in Entries /\ Found /\ copied < entry.size /\ entry.size <= MaxBytes
      /\ copied \in Nat /\ bundle \in Seq(Nat \X Nat) /\ FileIsChain
  BY <1>1 DEF ChainInv, Copying
<1>3. PICK k \in Nat : CopyingAt(k)
  BY <1>1 DEF ChainInv, Copying
<1>q. PICK q : q = k * boot.spc + index
  OBVIOUS
<1>c. PICK c : c = entry.start
  OBVIOUS
<1>a. PICK a : a = Amount
  OBVIOUS
<1>z. PICK s, z : s = SectorBytes /\ z = entry.size
  OBVIOUS
<1>s. s \in Nat \ {0} /\ z \in Nat /\ MaxBytes \in Nat
  BY <1>2, <1>z, FatAssumption
<1>4. q \in Nat /\ copied = q * s
  <2>1. k * boot.spc \in Nat
    BY <1>2, NextPart
  <2>2. q \in Nat
    BY <1>2, <1>q, <2>1
  <2> QED BY <1>3, <1>q, <1>z, <2>2 DEF CopyingAt
<1>5. a \in 1 .. s /\ copied + a <= z /\ (copied + a # z => a = s)
  <2>1. a = IF z - copied < s THEN z - copied ELSE s
    BY <1>a, <1>z DEF Amount
  <2>2. copied \in Nat /\ copied < z
    BY <1>2, <1>z
  <2> QED BY <1>s, <2>1, <2>2
<1>6. lba' \in Nat /\ lba' = SectorOf(c, q)
  <2>1. Mounted /\ cluster \in Nat
    BY <1>1 DEF VolumeInv
  <2>2. FirstSector(cluster) + index \in Nat
    BY <1>1, <1>2, <2>1, DataSector
  <2>3. SectorOf(c, k * boot.spc + index) = FirstSector(cluster) + index
    BY <1>1, <1>2, <1>3, <1>c, SectorHere DEF CopyingAt
  <2> QED BY <1>1, <1>q, <1>c, <2>2, <2>3
<1>x. PICK x : x = lba'
  OBVIOUS
<1>7. /\ bundle' \in Seq(Nat \X Nat) /\ Len(bundle') = copied + a
      /\ \A j \in 1 .. copied : bundle'[j] = bundle[j]
      /\ \A j \in 1 .. a : bundle'[copied + j] = <<x, j>>
  <2> DEFINE new == [j \in 1 .. a |-> <<x, j>>]
  <2>1. a \in Nat
    BY <1>s, <1>5
  <2>2. new \in [1 .. a -> Nat \X Nat]
    BY <1>6, <1>x, <2>1
  <2>3. \A j \in 1 .. a : new[j] = <<x, j>>
    OBVIOUS
  <2>4. bundle' = bundle \o new
    BY <1>1, <1>a, <1>x
  <2> HIDE DEF new
  <2>5. new \in Seq(Nat \X Nat) /\ Len(new) = a
    BY <2>1, <2>2, FunctionIsSeq
  <2>6. Len(bundle) = copied
    BY <1>2 DEF FileIsChain
  <2>7. bundle \in Seq(Nat \X Nat) /\ copied \in Nat
    BY <1>2
  <2>8. /\ bundle \o new \in Seq(Nat \X Nat) /\ Len(bundle \o new) = Len(bundle) + Len(new)
        /\ \A j \in 1 .. Len(bundle) + Len(new) :
             (bundle \o new)[j] = IF j <= Len(bundle) THEN bundle[j] ELSE new[j - Len(bundle)]
    BY <2>5, <2>7, ConcatProperties
  <2>9. \A j \in 1 .. copied : bundle'[j] = bundle[j]
    BY <2>1, <2>4, <2>5, <2>6, <2>7, <2>8
  <2>10. ASSUME NEW j \in 1 .. a PROVE bundle'[copied + j] = <<x, j>>
    <3>1. copied + j \in 1 .. copied + a /\ ~(copied + j <= copied) /\ (copied + j) - copied = j
      BY <2>1, <2>7
    <3>2. bundle'[copied + j] = new[j]
      BY <2>4, <2>5, <2>6, <2>8, <3>1
    <3> QED BY <2>3, <3>2
  <2> QED BY <2>4, <2>5, <2>6, <2>8, <2>9, <2>10
<1>8. \A n : SectorOf(c, n)' = SectorOf(c, n)
  BY <1>1 DEF SectorOf, Chain, FirstSector, FirstData
<1>9. ASSUME NEW j \in 1 .. copied + a
      PROVE  bundle'[j] = <<SectorOf(c, (j - 1) \div s), ((j - 1) % s) + 1>>
  <2>1. CASE j \in 1 .. copied
    BY <1>2, <1>7, <1>c, <1>z, <2>1 DEF FileIsChain
  <2>2. CASE j \notin 1 .. copied
    <3>1. PICK i \in 1 .. a : j = copied + i
      <4>1. j - copied \in 1 .. a /\ j = copied + (j - copied)
        BY <1>2, <1>s, <1>5, <2>2
      <4> QED BY <4>1
    <3>2. j - 1 = copied + (i - 1) /\ i - 1 \in Nat /\ i - 1 < s
      BY <1>2, <1>s, <1>5, <3>1
    <3>3. PICK h \in Nat : h = i - 1
      BY <3>2
    <3>4. (q * s + h) \div s = q /\ (q * s + h) % s = h
      BY <1>s, <1>4, <3>2, <3>3, Digits, ZenonT(20)
    <3>5. (j - 1) \div s = q /\ (j - 1) % s = i - 1
      BY <1>4, <3>2, <3>3, <3>4
    <3>6. bundle'[j] = <<x, i>> /\ (i - 1) + 1 = i
      BY <1>7, <3>1
    <3> QED BY <1>6, <1>x, <3>5, <3>6
  <2> QED BY <2>1, <2>2
<1>10. Found' /\ EntryIsFirst'
  <2>1. Steady
    BY <1>1 DEF Steady, Grows
  <2>2. Found'
    BY <1>1, <1>2, <2>1, FoundKept
  <2>3. (boot.spc \in Nat /\ Found => EntryIsFirst)'
    BY FoundFirst, PTL
  <2> QED BY <1>1, <1>2, <2>2, <2>3
<1>11. FileIsChain'
  <2>1. entry' = entry /\ copied' = copied + a /\ copied + a <= MaxBytes
    BY <1>1, <1>2, <1>a, <1>z, <1>s, <1>5
  <2>2. at' = "parse" => copied' = entry'.size
    BY <1>1
  <2>3. ASSUME NEW j \in 1 .. copied'
        PROVE  bundle'[j] = <<SectorOf(entry.start, (j - 1) \div SectorBytes), ((j - 1) % SectorBytes) + 1>>'
    <3>n. PICK n : n = (j - 1) \div s
      OBVIOUS
    <3>1. bundle'[j] = <<SectorOf(c, n), ((j - 1) % s) + 1>>
      BY <1>9, <2>1, <3>n
    <3>2. SectorOf(c, n)' = SectorOf(c, n)
      BY <1>8
    <3>3. SectorOf(entry.start, (j - 1) \div SectorBytes)' = SectorOf(c, n)'
      BY <1>c, <1>z, <2>1, <3>n DEF SectorOf
    <3> QED BY <1>z, <3>1, <3>2, <3>3
  <2> QED BY <1>7, <1>10, <2>1, <2>2, <2>3 DEF FileIsChain
<1>12. /\ copied' \in Nat /\ bundle' \in Seq(Nat \X Nat)
       /\ \A b \in DOMAIN rows' : rows'[b] \in Entries \cup {EndRow, Skip}
  <2>1. copied' \in Nat
    BY <1>1, <1>2, <1>a, <1>s, <1>5
  <2>2. rows' = rows /\ \A b \in DOMAIN rows : rows[b] \in Entries \cup {EndRow, Skip}
    BY <1>1 DEF ChainInv
  <2> QED BY <1>7, <2>1, <2>2
<1>13. CASE at' = "parse"
  BY <1>11, <1>12, <1>13 DEF ChainInv
<1>14. CASE at' # "parse"
  <2>1. a = s /\ copied + a < z
    <3>1. copied' = copied + a /\ copied' # z
      BY <1>1, <1>a, <1>z, <1>14
    <3>2. copied \in Nat
      BY <1>2
    <3> QED BY <1>s, <1>5, <3>1, <3>2
  <2>2. CopyingAt(k)'
    <3>1. Walked(entry.start, k)' /\ cluster' = Chain(entry.start, k)'
      BY <1>1, <1>3 DEF CopyingAt, Walked, Chain
    <3>2. copied' = (q + 1) * s
      <4>1. (q + 1) * s = q * s + s
        BY <1>s, <1>4, NextPart
      <4> QED BY <1>1, <1>a, <1>4, <2>1, <4>1
    <3>3. k * boot'.spc + index' = q + 1
      <4>1. k * boot.spc \in Nat
        BY <1>2, NextPart
      <4>2. boot' = boot /\ index' = index + 1
        BY <1>1
      <4>3. PICK p \in Nat : p = k * boot.spc
        BY <4>1
      <4>4. k * boot'.spc = p /\ q = p + index
        BY <1>q, <4>2, <4>3
      <4>5. p + index' = q + 1
        BY <1>2, <4>2, <4>4
      <4> QED BY <4>4, <4>5
    <3> QED BY <1>z, <3>1, <3>2, <3>3 DEF CopyingAt
  <2>3. boot' = boot /\ entry' = entry /\ index' \in 0 .. boot.spc
    BY <1>1, <1>2
  <2>4. at' \in {"copy", "copyNext"} /\ (at' = "copyNext" => index' = boot'.spc)
    BY <1>1, <1>14
  <2>5. copied' < entry'.size
    BY <1>1, <1>a, <1>z, <2>1
  <2>6. Copying'
    BY <1>2, <1>10, <2>2, <2>3, <2>4, <2>5 DEF Copying
  <2> QED BY <1>11, <1>12, <2>4, <2>6 DEF ChainInv
<1> QED BY <1>13, <1>14

(* Every step of fat_bundle goes along the chain. *)
LEMMA AcceptsChain ==
  ASSUME VolumeInv, ChainInv, Accepts
  PROVE  ChainInv'
  BY MountChain, ReadDirChain, DirNextChain, CopySectorChain, CopyNextChain DEF Accepts

(* When fat_bundle gives up, what it has read is still the file's beginning. *)
LEMMA FailsChain ==
  ASSUME ChainInv, Fails
  PROVE  ChainInv'
<1>1. UNCHANGED <<boot, cluster, index, round, entry, copied, bundle, links, rows>> /\ at' = "none"
  BY DEF Fails, disk
<1>2. FileIsChain'
  BY <1>1 DEF ChainInv, FileIsChain, EntryIsFirst, SectorOf, Chain, FirstSector, FirstData
<1> QED BY <1>1, <1>2 DEF ChainInv

(* Before fat_bundle nothing is read. *)
LEMMA ChainInit ==
  ASSUME Init
  PROVE  ChainInv
<1>1. FileIsChain
  <2>1. Len(<<>>) = 0
    BY EmptySeq
  <2> QED BY <2>1, FatAssumption DEF Init, FileIsChain, EntryIsFirst
<1>2. <<>> \in Seq(Nat \X Nat)
  BY EmptySeq
<1> QED BY <1>1, <1>2 DEF Init, ChainInv

(* The invariant depends on nothing but the variables of fat_bundle. *)
LEMMA ChainUnmoved ==
  ASSUME ChainInv, UNCHANGED vars
  PROVE  ChainInv'
<1>1. UNCHANGED <<at, boot, cluster, index, round, entry, copied, bundle, links, rows>>
  BY DEF vars, disk
<1>2. FileIsChain'
  BY <1>1 DEF ChainInv, FileIsChain, EntryIsFirst, SectorOf, Chain, FirstSector, FirstData
<1>3. \A c, k : (Walked(c, k)' <=> Walked(c, k)) /\ Chain(c, k)' = Chain(c, k)
  BY <1>1 DEF Walked, Chain
<1>4. \A m, row : RowIs(m, row)' <=> RowIs(m, row)
  BY <1>1 DEF RowIs, SectorOf, Chain, FirstSector, FirstData
<1>5. \A r, i : SearchedTo(r, i)' <=> SearchedTo(r, i)
  BY <1>1, <1>4 DEF SearchedTo, Walked, Chain
<1>6. Found' <=> Found
  BY <1>1, <1>4, <1>5 DEF Found
<1>7. Searching' <=> Searching
  BY <1>1, <1>3, <1>5 DEF Searching
<1>8. \A k : CopyingAt(k)' <=> CopyingAt(k)
  BY <1>1, <1>3 DEF CopyingAt
<1>9. Copying' <=> Copying
  BY <1>1, <1>6, <1>8 DEF Copying
<1> QED BY <1>1, <1>2, <1>7, <1>9 DEF ChainInv

(* Every step of the boot goes along the chain. *)
LEMMA ChainKept == VolumeInv /\ ChainInv /\ [BootNext]_bootVars => ChainInv'
<1> SUFFICES ASSUME VolumeInv, ChainInv, [BootNext]_bootVars PROVE ChainInv'
  OBVIOUS
<1>1. CASE UNCHANGED vars
  BY <1>1, ChainUnmoved
<1>2. CASE LeaveDisk
  <2>1. Init'
    BY <1>2 DEF LeaveDisk, Init
  <2>2. (Init => ChainInv)'
    BY ChainInit, PTL
  <2> QED BY <2>1, <2>2
<1>3. CASE Fails
  BY <1>3, FailsChain
<1>4. CASE Accepts
  BY <1>4, AcceptsChain
<1>5. FindHba \/ TryPort \/ UseMouse \/ UNCHANGED bootVars => UNCHANGED vars
  BY DEF FindHba, TryPort, UseMouse, bootVars, allVars
<1>6. UseDisk => UNCHANGED vars \/ Fails \/ Accepts
  BY DEF UseDisk, DiskNext, Driver, Start, Transfer, Deliver, Lose, Refuse
<1> QED BY <1>1, <1>2, <1>3, <1>4, <1>5, <1>6 DEF BootNext

(* What fat_bundle copies is the beginning of the first file of the name,  *)
(* along its chain, and all of it when the bundle is parsed.               *)
THEOREM FileTheorem == BootSpec => []FileIsChain
<1>1. BootInit => VolumeInv /\ ChainInv
  BY ChainInit DEF BootInit, DiskInit, Init, VolumeInv, ReadsInVolume
<1>2. ChainInv => FileIsChain
  BY DEF ChainInv
<1> QED BY <1>1, <1>2, VolumeKept, ChainKept, PTL DEF BootSpec

-----------------------------------------------------------------------------
(* The invariant. *)

(* The bytes there are, and the sequences of them. *)
Bytes ==
  {Key, Config, Ack, PlainId, WheelId}
    \cup {PacketByte(n, k, sync) : n \in Nat, k \in 1 .. 4, sync \in BOOLEAN}

(* What the driver keeps whatever happens to it. *)
DriverInv ==
  /\ mouse \in {"none", "plain", "wheel"} /\ sent \in Nat
  /\ kbdq \in Seq(Bytes) /\ auxq \in Seq(Bytes) /\ bytes \in Seq(Bytes)
  /\ size \in {3, 4} /\ Len(bytes) < size /\ events \in Seq(Seq(Bytes))
  /\ phase \in {"config", "configRead", "send", "reply", "id", "poll"}
  /\ phase \in {"send", "reply"} => step \in 1 .. Stream
  /\ phase = "id" => step = Stream - 1
  /\ phase # "poll" => bytes = <<>> /\ events = <<>>

(* The commands that an undisturbed mouse has taken, and what it makes of  *)
(* them.                                                                   *)
Done ==
  IF phase \in {"config", "configRead"} THEN 0
  ELSE IF phase = "poll" THEN Stream
  ELSE IF phase = "send" \/ asked # <<>> THEN step - 1 ELSE step

RatesAfter(d) ==
  IF d < 3 THEN <<>> ELSE IF d < 5 THEN <<200>> ELSE IF d < 7 THEN <<200, 100>>
  ELSE <<200, 100, 80>>

DeviceAfter(d) ==
  /\ expects <=> d \in {2, 4, 6}
  /\ streams <=> d = Stream
  /\ rates = RatesAfter(d)

(* From place f on, the queue q holds the bytes of packets of n bytes: each *)
(* followed by the next, the last one by none, and none later than s.      *)
Follows(b, c, n) ==
  IF b.place < n THEN c.place = b.place + 1 /\ c.packet = b.packet
  ELSE c.place = 1 /\ c.packet > b.packet

Flow(q, f, n, s) ==
  /\ \A i \in f .. Len(q) :
       /\ q[i].from = "packet" /\ q[i].place \in 1 .. n
       /\ q[i].packet \in 1 .. s /\ (q[i].place = 1 => q[i].sync)
  /\ \A i \in f .. Len(q) - 1 : Follows(q[i], q[i + 1], n)
  /\ f <= Len(q) => q[Len(q)].place = n

(* The bytes bs begin the packet that goes on in q. *)
Begun(bs, q, s) ==
  /\ \A k \in 1 .. Len(bs) :
       bs[k].from = "packet" /\ bs[k].place = k /\ bs[k].packet = bs[1].packet
  /\ bs # <<>> => q # <<>> /\ q[1].packet = bs[1].packet /\ bs[1].packet \in 1 .. s
  /\ q # <<>> => q[1].place = Len(bs) + 1

(* The bytes in q are of later packets than the events es, ... *)
Later(es, q, s) ==
  es # <<>> => /\ es[Len(es)][1].packet \in 1 .. s
               /\ q # <<>> => es[Len(es)][1].packet < q[1].packet

(* ... which are whole packets, each later than the one before. *)
Whole(e, n) ==
  /\ Len(e) = n
  /\ \A k \in 1 .. n : e[k].from = "packet" /\ e[k].place = k /\ e[k].packet = e[1].packet
InOrder(es, n) ==
  \A i \in 1 .. Len(es) :
    Whole(es[i], n) /\ (i > 1 => es[i][1].packet > es[i - 1][1].packet)

Polled(q, bs, es, n, s) ==
  Flow(q, 1, n, s) /\ Begun(bs, q, s) /\ Later(es, q, s) /\ InOrder(es, n)

Answered ==
  \/ step < Stream - 1 /\ auxq = <<Ack>>
  \/ step = Stream - 1 /\ auxq = <<Ack, IF mouse = "wheel" THEN WheelId ELSE PlainId>>
  \/ step = Stream /\ auxq # <<>> /\ auxq[1] = Ack /\ Flow(auxq, 2, DeviceSize, sent)
     /\ (2 <= Len(auxq) => auxq[2].place = 1)

(* A mouse that is there and was not disturbed answers each command before *)
(* the next one comes, and then sends packets.                             *)
InStep ==
  /\ DeviceAfter(Done)
  /\ phase = "send" /\ step = Stream => size = DeviceSize
  /\ phase = "reply" /\ step = Stream => size = DeviceSize
  /\ phase \in {"config", "configRead", "send"} => asked = <<>> /\ auxq = <<>>
  /\ phase = "reply" => \/ asked = <<step>> /\ auxq = <<>>
                        \/ asked = <<>> /\ Answered
  /\ phase = "id" => asked = <<>> /\ auxq = <<IF mouse = "wheel" THEN WheelId ELSE PlainId>>
  /\ phase = "poll" => /\ asked = <<>> /\ size = DeviceSize
                       /\ Polled(auxq, bytes, events, DeviceSize, sent)

Silent == ~streams /\ auxq = <<>> /\ bytes = <<>> /\ events = <<>>

PacketInv ==
  /\ DriverInv
  /\ ~disturbed => IF mouse = "none" THEN Silent ELSE InStep

(* init_mouse sends nine commands; the last one starts the stream. *)
LEMMA StreamIs == Stream = 9 /\ Commands \in Seq(Nat) /\ Len(Commands) = 9
  BY DEF Stream, Commands

(* The bytes are distinct where it matters. *)
LEMMA ByteKinds ==
  /\ {Key, Config, Ack, PlainId, WheelId} \subseteq Bytes
  /\ Ack # Key /\ Ack # Config /\ Ack # PlainId /\ Ack # WheelId /\ PlainId # WheelId
  /\ Key # WheelId /\ Key # PlainId
  BY DEF Bytes, Key, Config, Ack, PlainId, WheelId

(* A read takes the front of a queue. *)
LEMMA ByteTaken ==
  ASSUME DriverInv, NEW b, NEW aux \in BOOLEAN, Byte(b, aux)
  PROVE  /\ b \in Bytes /\ kbdq' \in Seq(Bytes) /\ auxq' \in Seq(Bytes)
         /\ aux => auxq # <<>> /\ b = auxq[1] /\ auxq' = Tail(auxq)
         /\ ~aux => auxq' = auxq
<1>1. CASE aux
  <2>1. auxq # <<>> /\ b = Head(auxq) /\ auxq' = Tail(auxq) /\ kbdq' = kbdq
    BY <1>1 DEF Byte
  <2>2. auxq \in Seq(Bytes) /\ kbdq \in Seq(Bytes)
    BY DEF DriverInv
  <2>3. Head(auxq) = auxq[1] /\ Head(auxq) \in Bytes /\ Tail(auxq) \in Seq(Bytes)
    BY <2>1, <2>2, HeadTailProperties
  <2> QED BY <1>1, <2>1, <2>2, <2>3
<1>2. CASE ~aux
  <2>1. kbdq # <<>> /\ b = Head(kbdq) /\ kbdq' = Tail(kbdq) /\ auxq' = auxq
    BY <1>2 DEF Byte
  <2>2. auxq \in Seq(Bytes) /\ kbdq \in Seq(Bytes)
    BY DEF DriverInv
  <2>3. Head(kbdq) \in Bytes /\ Tail(kbdq) \in Seq(Bytes)
    BY <2>1, <2>2, HeadTailProperties
  <2> QED BY <1>2, <2>1, <2>2, <2>3
<1> QED BY <1>1, <1>2

(* The bytes of packet s + 1, ... *)
PacketIs(new, n, s) ==
  \A k \in 1 .. n :
    /\ new[k].from = "packet" /\ new[k].packet = s + 1 /\ new[k].place = k
    /\ k = 1 => new[k].sync

(* ... as the mouse sends them. *)
LEMMA PacketBytes ==
  ASSUME sent \in Nat, Packet
  PROVE  \E new \in Seq(Bytes) :
           auxq' = auxq \o new /\ Len(new) = DeviceSize /\ PacketIs(new, DeviceSize, sent)
<1>s. PICK sync \in [2 .. DeviceSize -> BOOLEAN] :
        auxq' = auxq \o [k \in 1 .. DeviceSize |-> PacketByte(sent + 1, k, k = 1 \/ sync[k])]
  BY DEF Packet
<1> DEFINE new == [k \in 1 .. DeviceSize |-> PacketByte(sent + 1, k, k = 1 \/ sync[k])]
<1>1. DeviceSize \in {3, 4}
  BY DEF DeviceSize
<1>2. ASSUME NEW k \in 1 .. DeviceSize
      PROVE  PacketByte(sent + 1, k, k = 1 \/ sync[k]) \in Bytes
  <2>1. k \in 1 .. 4 /\ sent + 1 \in Nat
    BY <1>1
  <2> DEFINE s == k = 1 \/ sync[k]
  <2>2. s \in BOOLEAN
    OBVIOUS
  <2> HIDE DEF s
  <2>3. PacketByte(sent + 1, k, s) \in Bytes
    BY <2>1, <2>2 DEF Bytes
  <2> QED BY <2>3 DEF s
<1>3. new \in Seq(Bytes) /\ Len(new) = DeviceSize
  BY <1>1, <1>2
<1>4. PacketIs(new, DeviceSize, sent)
  BY DEF PacketIs, PacketByte
<1>5. auxq' = auxq \o new
  BY <1>s
<1> HIDE DEF new
<1> QED BY <1>3, <1>4, <1>5

(* init_mouse goes on with an empty buffer. *)
LEMMA GoesOn ==
  ASSUME DriverInv, phase \in {"send", "reply"}, NEW ok \in BOOLEAN, Goes(ok)
  PROVE  /\ bytes' = <<>> /\ size' \in {3, 4} /\ phase' \in {"send", "id", "poll"}
         /\ phase' = "send" => step' \in 1 .. Stream
         /\ phase' = "id" => step' = Stream - 1
<1>1. step \in 1 .. Stream /\ bytes = <<>> /\ size \in {3, 4} /\ Stream = 9
  BY StreamIs DEF DriverInv
<1> QED BY <1>1 DEF Goes, NoWheel

(* Whatever happens, the driver's own state stays in its bounds. *)
LEMMA DriverKept == DriverInv /\ [Ps2Next]_ps2Vars => DriverInv'
<1> SUFFICES ASSUME DriverInv, [Ps2Next]_ps2Vars PROVE DriverInv'
  OBVIOUS
<1>0. <<>> \in Seq(Bytes) /\ Len(<<>>) = 0 /\ <<>> \in Seq(Seq(Bytes)) /\ Stream = 9
  BY StreamIs
<1>1. CASE PressKey \/ Answer \/ Packet
  <2>1. UNCHANGED <<mouse, driver>> /\ sent' \in Nat
    BY <1>1 DEF PressKey, Answer, TakeRate, TakeCommand, Packet, DriverInv
  <2>2. kbdq' \in Seq(Bytes)
    <3>1. kbdq \in Seq(Bytes) /\ Key \in Bytes
      BY ByteKinds DEF DriverInv
    <3>2. kbdq' \in {kbdq, Append(kbdq, Key)}
      BY <1>1 DEF PressKey, Answer, TakeRate, TakeCommand, Packet
    <3> QED BY <3>1, <3>2, AppendProperties
  <2>3. auxq' \in Seq(Bytes)
    <3>1. auxq \in Seq(Bytes) /\ sent \in Nat
      BY DEF DriverInv
    <3>2. CASE PressKey
      BY <3>1, <3>2 DEF PressKey
    <3>3. CASE TakeRate
      BY <3>1, <3>3, ByteKinds DEF TakeRate
    <3>4. CASE TakeCommand
      <4>1. <<Ack>> \in Seq(Bytes) /\ <<Ack, WheelId>> \in Seq(Bytes) /\ <<Ack, PlainId>> \in Seq(Bytes)
        BY ByteKinds
      <4>2. \E t \in {<<Ack>>, <<Ack, WheelId>>, <<Ack, PlainId>>} : auxq' = auxq \o t
        BY <3>4 DEF TakeCommand
      <4> QED BY <3>1, <4>1, <4>2, ConcatProperties
    <3>5. CASE Packet
      <4>1. PICK new \in Seq(Bytes) : auxq' = auxq \o new
        BY <3>1, <3>5, PacketBytes
      <4> QED BY <3>1, <4>1, ConcatProperties
    <3> QED BY <1>1, <3>2, <3>3, <3>4, <3>5 DEF Answer
  <2> QED BY <2>1, <2>2, <2>3 DEF DriverInv, driver
<1>2. CASE AskConfig
  BY <1>2, ByteKinds DEF AskConfig, device, DriverInv
<1>3. CASE ReadConfig
  <2>1. kbdq' \in Seq(Bytes) /\ auxq' \in Seq(Bytes)
    BY <1>3, ByteTaken DEF ReadConfig, Takes
  <2> QED BY <1>0, <1>3, <2>1 DEF ReadConfig, device, DriverInv
<1>4. CASE SendCommand
  BY <1>4 DEF SendCommand, DriverInv
<1>5. CASE ReadReply
  <2>1. PICK b \in Heads, aux \in BOOLEAN : Takes(b, aux, TRUE) /\ Goes(b = Ack)
    BY <1>5 DEF ReadReply
  <2>2. kbdq' \in Seq(Bytes) /\ auxq' \in Seq(Bytes)
    BY <2>1, ByteTaken DEF Takes
  <2>3. phase = "reply" /\ UNCHANGED <<device, events>>
    BY <1>5 DEF ReadReply
  <2>4. /\ bytes' = <<>> /\ size' \in {3, 4} /\ phase' \in {"send", "id", "poll"}
        /\ phase' = "send" => step' \in 1 .. Stream
        /\ phase' = "id" => step' = Stream - 1
    BY <2>1, <2>3, GoesOn
  <2> QED BY <1>0, <2>2, <2>3, <2>4 DEF device, DriverInv
<1>6. CASE ReadId
  <2>1. kbdq' \in Seq(Bytes) /\ auxq' \in Seq(Bytes) /\ size' \in {3, 4}
    BY <1>6, ByteTaken DEF ReadId, Takes, SizeFor
  <2> QED BY <1>0, <1>6, <2>1 DEF ReadId, device, DriverInv
<1>7. CASE TimeOut \/ Refused
  <2>1. UNCHANGED <<device, kbdq, auxq, events>> /\ events = <<>> /\ bytes = <<>>
    BY <1>7 DEF TimeOut, Refused, DriverInv
  <2>2. \/ phase \in {"send", "reply"} /\ Goes(FALSE)
        \/ NoWheel
        \/ phase' = "poll" /\ UNCHANGED <<step, bytes, size>>
    BY <1>7 DEF TimeOut, Refused
  <2>3. /\ bytes' = <<>> /\ size' \in {3, 4} /\ phase' \in {"send", "id", "poll"}
        /\ phase' = "send" => step' \in 1 .. Stream
        /\ phase' = "id" => step' = Stream - 1
    <3>1. CASE phase \in {"send", "reply"} /\ Goes(FALSE)
      BY <3>1, GoesOn
    <3>2. CASE NoWheel
      BY <1>0, <3>2 DEF NoWheel
    <3>3. CASE phase' = "poll" /\ UNCHANGED <<step, bytes, size>>
      BY <2>1, <3>3 DEF DriverInv
    <3> QED BY <2>2, <3>1, <3>2, <3>3
  <2> QED BY <1>0, <2>1, <2>3 DEF device, DriverInv
<1>8. CASE PollByte
  <2>1. PICK b \in Heads, aux \in BOOLEAN :
          /\ Byte(b, aux)
          /\ IF ~FromMouse(aux) \/ (bytes = <<>> /\ ~b.sync) THEN UNCHANGED <<bytes, events>>
             ELSE LET all == Append(bytes, b) IN
                  /\ bytes' = KeptBytes(all)
                  /\ \/ Len(all) = size /\ events' = Append(events, all)
                     \/ events' = events
    BY <1>8 DEF PollByte
  <2>2. b \in Bytes /\ kbdq' \in Seq(Bytes) /\ auxq' \in Seq(Bytes)
    BY <2>1, ByteTaken
  <2>3. /\ bytes \in Seq(Bytes) /\ Len(bytes) < size /\ size \in {3, 4} /\ events \in Seq(Seq(Bytes))
        /\ phase' = "poll" /\ UNCHANGED <<device, size>>
    BY <1>8 DEF PollByte, DriverInv
  <2>4. Append(bytes, b) \in Seq(Bytes) /\ Len(Append(bytes, b)) = Len(bytes) + 1 /\ Len(bytes) \in Nat
    BY <2>2, <2>3, AppendProperties
  <2> DEFINE all == Append(bytes, b)
  <2> HIDE DEF all
  <2>5. /\ bytes' = bytes \/ bytes' = IF Len(all) = size THEN <<>> ELSE all
        /\ events' = events \/ events' = Append(events, all)
    BY <2>1 DEF KeptBytes, all
  <2>6. all \in Seq(Bytes) /\ Len(all) = Len(bytes) + 1
    BY <2>4 DEF all
  <2>7. bytes' \in Seq(Bytes) /\ Len(bytes') < size
    <3>1. CASE bytes' = bytes
      BY <2>3, <3>1
    <3>2. CASE bytes' = <<>>
      BY <1>0, <2>3, <3>2
    <3>3. CASE bytes' = all /\ Len(all) # size
      BY <2>3, <2>4, <2>6, <3>3
    <3> QED BY <2>5, <3>1, <3>2, <3>3
  <2>8. events' \in Seq(Seq(Bytes))
    <3>1. CASE events' = events
      BY <2>3, <3>1
    <3>2. CASE events' = Append(events, all)
      <4>1. Append(events, all) \in Seq(Seq(Bytes))
        BY <2>3, <2>6, AppendProperties
      <4> QED BY <3>2, <4>1
    <3> QED BY <2>5, <3>1, <3>2
  <2> QED BY <2>2, <2>3, <2>7, <2>8 DEF device, DriverInv
<1>9. CASE PollEnd
  BY <1>9 DEF PollEnd, device, DriverInv
<1>10. CASE UNCHANGED ps2Vars
  BY <1>10 DEF ps2Vars, device, driver, DriverInv
<1> QED BY <1>1, <1>2, <1>3, <1>4, <1>5, <1>6, <1>7, <1>8, <1>9, <1>10 DEF Ps2Next, Ps2Driver

(* The places of two sequences in a row. *)
LEMMA BehindIs ==
  ASSUME NEW S, NEW q \in Seq(S), NEW new \in Seq(S)
  PROVE  /\ Len(q) \in Nat /\ Len(q \o new) = Len(q) + Len(new)
         /\ \A i \in 1 .. Len(q) : (q \o new)[i] = q[i]
         /\ \A k \in 1 .. Len(new) : (q \o new)[Len(q) + k] = new[k]
<1>1. Len(q) \in Nat /\ Len(new) \in Nat
  BY LenProperties
<1>2. /\ Len(q \o new) = Len(q) + Len(new)
      /\ \A i \in 1 .. Len(q) + Len(new) :
           (q \o new)[i] = IF i <= Len(q) THEN q[i] ELSE new[i - Len(q)]
  BY ConcatProperties
<1>3. ASSUME NEW k \in 1 .. Len(new) PROVE (q \o new)[Len(q) + k] = new[k]
  <2>1. Len(q) + k \in 1 .. Len(q) + Len(new) /\ ~(Len(q) + k <= Len(q)) /\ (Len(q) + k) - Len(q) = k
    BY <1>1
  <2> QED BY <1>2, <2>1
<1>4. ASSUME NEW i \in 1 .. Len(q) PROVE (q \o new)[i] = q[i]
  BY <1>1, <1>2
<1> QED BY <1>1, <1>2, <1>3, <1>4

(* t is q and behind it the bytes of packet s + 1, ... *)
Longer(q, t, n, s) ==
  /\ Len(q) \in Nat /\ Len(t) = Len(q) + n
  /\ \A i \in 1 .. Len(q) : t[i] = q[i]
  /\ \A k \in 1 .. n :
       /\ t[Len(q) + k].from = "packet" /\ t[Len(q) + k].packet = s + 1 /\ t[Len(q) + k].place = k
       /\ k = 1 => t[Len(q) + k].sync

(* ... and what the mouse leaves when it sends one. *)
LEMMA PacketComes ==
  ASSUME DriverInv, Packet
  PROVE  Longer(auxq, auxq', DeviceSize, sent)
<1>1. sent \in Nat /\ auxq \in Seq(Bytes)
  BY DEF DriverInv
<1>2. PICK new \in Seq(Bytes) :
        auxq' = auxq \o new /\ Len(new) = DeviceSize /\ PacketIs(new, DeviceSize, sent)
  BY <1>1, PacketBytes
<1>3. /\ Len(auxq) \in Nat /\ Len(auxq \o new) = Len(auxq) + Len(new)
      /\ \A i \in 1 .. Len(auxq) : (auxq \o new)[i] = auxq[i]
      /\ \A k \in 1 .. Len(new) : (auxq \o new)[Len(auxq) + k] = new[k]
  BY <1>1, BehindIs
<1>4. /\ Len(auxq) \in Nat /\ Len(auxq') = Len(auxq) + DeviceSize
      /\ \A i \in 1 .. Len(auxq) : auxq'[i] = auxq[i]
      /\ \A k \in 1 .. DeviceSize : auxq'[Len(auxq) + k] = new[k]
  BY <1>2, <1>3
<1>5. ASSUME NEW k \in 1 .. DeviceSize
      PROVE  /\ auxq'[Len(auxq) + k].from = "packet" /\ auxq'[Len(auxq) + k].packet = sent + 1
             /\ auxq'[Len(auxq) + k].place = k /\ (k = 1 => auxq'[Len(auxq) + k].sync)
  <2>1. auxq'[Len(auxq) + k] = new[k]
    BY <1>4
  <2>2. /\ new[k].from = "packet" /\ new[k].packet = sent + 1 /\ new[k].place = k
        /\ k = 1 => new[k].sync
    BY <1>2 DEF PacketIs
  <2> QED BY <2>1, <2>2
<1> QED BY <1>4, <1>5 DEF Longer

(* A packet behind the bytes that wait goes on with them. *)
LEMMA FlowGrows ==
  ASSUME NEW q, NEW t, NEW n \in {3, 4}, NEW s \in Nat, NEW f \in {1, 2}, f <= Len(q) + 1,
         Flow(q, f, n, s), Longer(q, t, n, s)
  PROVE  Flow(t, f, n, s + 1)
<1>1. PICK l : l = Len(q)
  OBVIOUS
<1>2. l \in Nat /\ Len(t) = l + n
  BY <1>1 DEF Longer
<1>3. \A i \in 1 .. l : t[i] = q[i]
  BY <1>1 DEF Longer
<1>4. \A k \in 1 .. n : /\ t[l + k].from = "packet" /\ t[l + k].packet = s + 1 /\ t[l + k].place = k
                        /\ k = 1 => t[l + k].sync
  BY <1>1 DEF Longer
<1>5. ASSUME NEW i \in f .. l + n
      PROVE  i \in f .. l \/ \E k \in 1 .. n : i = l + k
  <2>1. i > l => i - l \in 1 .. n /\ i = l + (i - l)
    BY <1>2
  <2> QED BY <1>2, <2>1
<1>6. ASSUME NEW i \in f .. l + n
      PROVE  /\ t[i].from = "packet" /\ t[i].place \in 1 .. n
             /\ t[i].packet \in 1 .. s + 1 /\ (t[i].place = 1 => t[i].sync)
  <2>1. CASE i \in f .. l
    <3>1. t[i] = q[i]
      BY <1>2, <1>3, <2>1
    <3>2. /\ q[i].from = "packet" /\ q[i].place \in 1 .. n
          /\ q[i].packet \in 1 .. s /\ (q[i].place = 1 => q[i].sync)
      BY <1>1, <2>1 DEF Flow
    <3>3. q[i].packet \in 1 .. s + 1
      BY <3>2
    <3> QED BY <3>1, <3>2, <3>3
  <2>2. ASSUME NEW k \in 1 .. n, i = l + k
        PROVE  /\ t[i].from = "packet" /\ t[i].place \in 1 .. n
               /\ t[i].packet \in 1 .. s + 1 /\ (t[i].place = 1 => t[i].sync)
    <3>1. t[i].from = "packet" /\ t[i].packet = s + 1 /\ t[i].place = k /\ (k = 1 => t[i].sync)
      BY <1>4, <2>2
    <3>2. s + 1 \in 1 .. s + 1
      OBVIOUS
    <3> QED BY <3>1, <3>2
  <2> QED BY <1>5, <2>1, <2>2
<1>7. ASSUME NEW i \in f .. (l + n) - 1
      PROVE  Follows(t[i], t[i + 1], n)
  <2>1. CASE i < l
    <3>1. i \in f .. l - 1 /\ i \in 1 .. l /\ i + 1 \in 1 .. l
      BY <1>2, <2>1
    <3>2. Follows(q[i], q[i + 1], n)
      BY <1>1, <3>1 DEF Flow
    <3> QED BY <1>3, <3>1, <3>2
  <2>2. CASE i = l
    <3>1. i \in 1 .. l /\ f <= l /\ i \in f .. l /\ 1 \in 1 .. n
      BY <1>2, <2>2
    <3>2. t[i] = q[i] /\ q[i].place = n /\ q[i].packet \in 1 .. s
      BY <1>1, <1>3, <2>2, <3>1 DEF Flow
    <3>3. t[i + 1].place = 1 /\ t[i + 1].packet = s + 1
      BY <1>4, <2>2, <3>1
    <3> QED BY <3>2, <3>3 DEF Follows
  <2>3. CASE i > l
    <3>1. PICK k \in 1 .. n : i = l + k /\ k + 1 \in 1 .. n /\ i + 1 = l + (k + 1)
      <4>1. i - l \in 1 .. n /\ i = l + (i - l) /\ (i - l) + 1 \in 1 .. n /\ i + 1 = l + ((i - l) + 1)
        BY <1>2, <2>3
      <4> QED BY <4>1
    <3>2. t[i].place = k /\ t[i].packet = s + 1 /\ t[i + 1].place = k + 1 /\ t[i + 1].packet = s + 1
      BY <1>4, <3>1
    <3>3. k < n
      BY <3>1
    <3> QED BY <3>2, <3>3 DEF Follows
  <2> QED BY <1>2, <2>1, <2>2, <2>3
<1>8. t[l + n].place = n
  <2>1. n \in 1 .. n
    OBVIOUS
  <2> QED BY <1>4, <2>1
<1> QED BY <1>2, <1>6, <1>7, <1>8 DEF Flow
(* t is q without its first byte. *)
Shorter(q, t) ==
  /\ Len(q) \in Nat \ {0} /\ Len(t) = Len(q) - 1
  /\ \A i \in 1 .. Len(t) : t[i] = q[i + 1]

(* Taking the front leaves such a queue. *)
LEMMA TailIs ==
  ASSUME NEW S, NEW q \in Seq(S), q # <<>>
  PROVE  Shorter(q, Tail(q)) /\ Tail(q) \in Seq(S) /\ q[1] \in S
<1>1. Len(q) \in Nat \ {0}
  BY LenProperties, EmptySeq
<1>2. Len(Tail(q)) = Len(q) - 1 /\ Tail(q) \in Seq(S)
  BY HeadTailProperties
<1>3. \A i \in 1 .. Len(Tail(q)) : Tail(q)[i] = q[i + 1]
  BY HeadTailProperties
<1>4. q[1] \in S
  BY <1>1, ElementOfSeq
<1> QED BY <1>1, <1>2, <1>3, <1>4 DEF Shorter

(* A byte leaves the front. *)
LEMMA FlowTaken ==
  ASSUME NEW q, NEW t, NEW n \in {3, 4}, NEW s \in Nat, NEW f \in {1, 2},
         Flow(q, f, n, s), Shorter(q, t)
  PROVE  Flow(t, 1, n, s)
<1>1. PICK l : l = Len(q)
  OBVIOUS
<1>2. l \in Nat \ {0} /\ Len(t) = l - 1 /\ \A i \in 1 .. l - 1 : t[i] = q[i + 1]
  BY <1>1 DEF Shorter
<1>3. ASSUME NEW i \in 1 .. l - 1
      PROVE  /\ t[i].from = "packet" /\ t[i].place \in 1 .. n
             /\ t[i].packet \in 1 .. s /\ (t[i].place = 1 => t[i].sync)
  <2>1. i + 1 \in f .. l /\ t[i] = q[i + 1]
    BY <1>2
  <2> QED BY <1>1, <2>1 DEF Flow
<1>4. ASSUME NEW i \in 1 .. (l - 1) - 1 PROVE Follows(t[i], t[i + 1], n)
  <2>1. i + 1 \in f .. l - 1 /\ t[i] = q[i + 1] /\ t[i + 1] = q[(i + 1) + 1]
    BY <1>2
  <2>2. Follows(q[i + 1], q[(i + 1) + 1], n)
    BY <1>1, <2>1 DEF Flow
  <2> QED BY <2>1, <2>2
<1>5. 1 <= l - 1 => t[l - 1].place = n
  <2>1. 1 <= l - 1 => f <= l /\ t[l - 1] = q[l]
    BY <1>2
  <2> QED BY <1>1, <2>1 DEF Flow
<1> QED BY <1>2, <1>3, <1>4, <1>5 DEF Flow

(* More packets behind the bytes that wait do not change how they go on. *)
LEMMA PolledGrows ==
  ASSUME NEW q \in Seq(Bytes), NEW t, NEW bs \in Seq(Bytes), NEW es,
         NEW n \in {3, 4}, NEW s \in Nat, Polled(q, bs, es, n, s), Longer(q, t, n, s)
  PROVE  Polled(t, bs, es, n, s + 1)
<1>1. Flow(q, 1, n, s) /\ Begun(bs, q, s) /\ Later(es, q, s) /\ InOrder(es, n)
  BY DEF Polled
<1>0. /\ Len(q) \in Nat /\ Len(t) = Len(q) + n
      /\ \A i \in 1 .. Len(q) : t[i] = q[i]
      /\ t[Len(q) + 1].place = 1 /\ t[Len(q) + 1].packet = s + 1
  <2>1. 1 \in 1 .. n
    OBVIOUS
  <2> QED BY <2>1 DEF Longer
<1>2. Flow(t, 1, n, s + 1)
  <2>1. 1 <= Len(q) + 1 /\ 1 \in {1, 2}
    BY <1>0
  <2> QED BY <1>1, <2>1, FlowGrows
<1>3. q # <<>> => t[1] = q[1]
  <2>1. q # <<>> => 1 \in 1 .. Len(q)
    BY <1>0, EmptySeq
  <2> QED BY <1>0, <2>1
<1>4. q = <<>> => t[1].place = 1 /\ t[1].packet = s + 1
  <2>1. q = <<>> => Len(q) + 1 = 1
    BY EmptySeq
  <2> QED BY <1>0, <2>1
<1>5. t # <<>>
  <2>1. Len(t) # 0
    BY <1>0
  <2> QED BY <2>1, EmptySeq
<1>6. Begun(bs, t, s + 1)
  <2>1. \A k \in 1 .. Len(bs) :
          bs[k].from = "packet" /\ bs[k].place = k /\ bs[k].packet = bs[1].packet
    BY <1>1 DEF Begun
  <2>2. bs # <<>> => t[1].packet = bs[1].packet /\ bs[1].packet \in 1 .. s + 1
    BY <1>1, <1>3 DEF Begun
  <2>3. t[1].place = Len(bs) + 1
    <3>1. CASE q # <<>>
      BY <1>1, <1>3, <3>1 DEF Begun
    <3>2. CASE q = <<>>
      <4>1. bs = <<>>
        BY <1>1, <3>2 DEF Begun
      <4>2. Len(bs) + 1 = 1
        BY <4>1, EmptySeq
      <4> QED BY <1>4, <3>2, <4>2
    <3> QED BY <3>1, <3>2
  <2> QED BY <1>5, <2>1, <2>2, <2>3 DEF Begun
<1>7. Later(es, t, s + 1)
  <2>1. ASSUME es # <<>>
        PROVE  es[Len(es)][1].packet \in 1 .. s + 1 /\ es[Len(es)][1].packet < t[1].packet
    <3>1. es[Len(es)][1].packet \in 1 .. s /\ (q # <<>> => es[Len(es)][1].packet < q[1].packet)
      BY <1>1, <2>1 DEF Later
    <3>2. PICK x : x = es[Len(es)][1].packet
      OBVIOUS
    <3>3. x \in 1 .. s /\ (q # <<>> => x < q[1].packet)
      BY <3>1, <3>2
    <3>4. x < t[1].packet
      BY <1>3, <1>4, <3>3
    <3>5. x \in 1 .. s + 1
      BY <3>3
    <3> QED BY <3>2, <3>4, <3>5
  <2> QED BY <2>1 DEF Later
<1> QED BY <1>1, <1>2, <1>6, <1>7 DEF Polled

(* ds is es and e behind it. *)
More(es, e, ds) ==
  /\ Len(es) \in Nat /\ Len(ds) = Len(es) + 1 /\ ds # <<>>
  /\ \A i \in 1 .. Len(es) : ds[i] = es[i]
  /\ ds[Len(es) + 1] = e

(* Putting an element behind makes such a sequence. *)
LEMMA AppendIs ==
  ASSUME NEW S, NEW es \in Seq(S), NEW e \in S
  PROVE  More(es, e, Append(es, e)) /\ Append(es, e) \in Seq(S)
<1>1. Len(es) \in Nat
  BY LenProperties
<1>2. /\ Append(es, e) \in Seq(S) /\ Len(Append(es, e)) = Len(es) + 1
      /\ \A i \in 1 .. Len(es) : Append(es, e)[i] = es[i]
      /\ Append(es, e)[Len(es) + 1] = e
  BY AppendProperties
<1>3. Append(es, e) # <<>>
  BY <1>1, <1>2, EmptySeq
<1> QED BY <1>1, <1>2, <1>3 DEF More

(* One more event, of a later packet. *)
LEMMA OrderGrows ==
  ASSUME NEW es \in Seq(Seq(Bytes)), NEW e, NEW n \in {3, 4}, NEW ds, NEW x \in Nat,
         InOrder(es, n), Whole(e, n), x = e[1].packet,
         es # <<>> => es[Len(es)][1].packet < x /\ es[Len(es)][1].packet \in Nat,
         More(es, e, ds)
  PROVE  InOrder(ds, n)
<1>1. PICK l : l = Len(es)
  OBVIOUS
<1>2. /\ l \in Nat /\ Len(ds) = l + 1 /\ ds[l + 1] = e
      /\ \A i \in 1 .. l : ds[i] = es[i]
  BY <1>1 DEF More
<1>3. ASSUME NEW i \in 1 .. l + 1
      PROVE  Whole(ds[i], n) /\ (i > 1 => ds[i][1].packet > ds[i - 1][1].packet)
  <2>1. CASE i \in 1 .. l
    <3>1. Whole(es[i], n) /\ (i > 1 => es[i][1].packet > es[i - 1][1].packet)
      BY <1>1, <2>1 DEF InOrder
    <3>2. ds[i] = es[i]
      BY <1>2, <2>1
    <3>3. i > 1 => ds[i - 1] = es[i - 1]
      <4>1. i > 1 => i - 1 \in 1 .. l
        BY <1>2, <2>1
      <4> QED BY <1>2, <4>1
    <3> QED BY <3>1, <3>2, <3>3
  <2>2. CASE i = l + 1
    <3>1. ds[i] = e
      BY <1>2, <2>2
    <3>2. ASSUME i > 1 PROVE ds[i][1].packet > ds[i - 1][1].packet
      <4>1. l \in 1 .. l /\ i - 1 = l /\ l # 0
        BY <1>2, <2>2, <3>2
      <4>2. ds[i - 1] = es[l] /\ es # <<>>
        BY <1>1, <1>2, <4>1, EmptySeq
      <4>3. es[l][1].packet < x /\ es[l][1].packet \in Nat
        BY <1>1, <4>2
      <4> QED BY <3>1, <4>2, <4>3
    <3> QED BY <3>1, <3>2
  <2> QED BY <1>2, <2>1, <2>2
<1> QED BY <1>2, <1>3 DEF InOrder

(* Nothing undoes a disturbance, and the mouse stays what it is. *)
LEMMA DisturbedStays ==
  ASSUME [Ps2Next]_ps2Vars PROVE mouse' = mouse /\ (disturbed => disturbed')
<1>1. CASE PressKey \/ Answer \/ Packet
  BY <1>1 DEF PressKey, Answer, TakeRate, TakeCommand, Packet, driver
<1>2. CASE AskConfig \/ SendCommand \/ PollByte \/ PollEnd
  BY <1>2 DEF AskConfig, SendCommand, PollByte, PollEnd, device
<1>3. CASE ReadConfig \/ ReadReply \/ ReadId
  BY <1>3 DEF ReadConfig, ReadReply, ReadId, Takes, device
<1>4. CASE TimeOut \/ Refused
  BY <1>4 DEF TimeOut, Refused, device
<1>5. CASE UNCHANGED ps2Vars
  BY <1>5 DEF ps2Vars, device, driver
<1> QED BY <1>1, <1>2, <1>3, <1>4, <1>5 DEF Ps2Next, Ps2Driver

(* Without a mouse no byte comes from it. *)
LEMMA SilentKept ==
  ASSUME DriverInv, Silent, mouse = "none", [Ps2Next]_ps2Vars
  PROVE  Silent'
<1>1. CASE PressKey \/ Answer \/ Packet
  BY <1>1 DEF PressKey, Answer, TakeRate, TakeCommand, Packet, driver, Silent
<1>2. CASE AskConfig \/ SendCommand \/ PollEnd
  BY <1>2 DEF AskConfig, SendCommand, PollEnd, device, Silent
<1>3. CASE ReadConfig \/ ReadReply \/ ReadId
  <2>1. \E b, aux : Byte(b, aux)
    BY <1>3 DEF ReadConfig, ReadReply, ReadId, Takes
  <2>2. auxq' = <<>>
    BY <2>1 DEF Byte, Silent
  <2>3. bytes' = <<>> /\ events' = events /\ streams' = streams
    BY <1>3 DEF ReadConfig, ReadReply, ReadId, Goes, NoWheel, device, Silent
  <2> QED BY <2>2, <2>3 DEF Silent
<1>4. CASE TimeOut \/ Refused
  BY <1>4 DEF TimeOut, Refused, Goes, NoWheel, device, Silent
<1>5. CASE PollByte
  <2>1. PICK b \in Heads, aux \in BOOLEAN :
          /\ Byte(b, aux)
          /\ ~FromMouse(aux) \/ (bytes = <<>> /\ ~b.sync) => UNCHANGED <<bytes, events>>
    BY <1>5 DEF PollByte
  <2>2. ~aux /\ auxq' = <<>>
    BY <2>1 DEF Byte, Silent
  <2> QED BY <1>5, <2>1, <2>2 DEF PollByte, FromMouse, device, Silent
<1>6. CASE UNCHANGED ps2Vars
  BY <1>6 DEF ps2Vars, device, driver, Silent
<1> QED BY <1>1, <1>2, <1>3, <1>4, <1>5, <1>6 DEF Ps2Next, Ps2Driver

(* InStep looks at these variables only. *)
LEMMA InStepUnmoved ==
  ASSUME InStep,
         UNCHANGED <<mouse, rates, expects, streams, asked, sent, auxq, phase, step, bytes, size, events>>
  PROVE  InStep'
<1>1. DeviceSize' = DeviceSize /\ Done' = Done
  BY DEF DeviceSize, IsWheel, Done
<1>2. \A d : DeviceAfter(d)' <=> DeviceAfter(d)
  BY DEF DeviceAfter, RatesAfter
<1>3. Answered' <=> Answered
  BY <1>1 DEF Answered
<1> QED BY <1>1, <1>2, <1>3 DEF InStep

(* The elements in their places and a new one behind them. *)
LEMMA PutBehind ==
  ASSUME NEW S, NEW s \in Seq(S), NEW t \in Seq(S), NEW x \in S,
         Len(t) = Len(s) + 1, \A i \in 1 .. Len(s) : t[i] = s[i], t[Len(t)] = x
  PROVE  t = Append(s, x)
<1>1. /\ Append(s, x) \in Seq(S) /\ Len(Append(s, x)) = Len(s) + 1
      /\ \A i \in 1 .. Len(s) : Append(s, x)[i] = s[i]
      /\ Append(s, x)[Len(s) + 1] = x
  BY AppendProperties
<1>2. Len(s) \in Nat
  BY LenProperties
<1>3. \A i \in 1 .. Len(t) : t[i] = Append(s, x)[i]
  BY <1>1, <1>2
<1> QED BY <1>1, <1>3, SeqEqual

(* One more rate in a row of them. *)
LEMMA ThirdBehind ==
  ASSUME NEW S, NEW a \in S, NEW b \in S, NEW c \in S
  PROVE  Append(<<a, b>>, c) = <<a, b, c>>
<1> DEFINE s == <<a, b>>
           t == <<a, b, c>>
<1>1. s \in Seq(S) /\ Len(s) = 2 /\ s[1] = a /\ s[2] = b
  OBVIOUS
<1>2. t \in Seq(S) /\ Len(t) = 3 /\ t[1] = a /\ t[2] = b /\ t[3] = c
  OBVIOUS
<1>3. s \in Seq(S) /\ t \in Seq(S) /\ Len(t) = Len(s) + 1 /\ t[Len(t)] = c
  BY <1>1, <1>2
<1>4. \A i \in 1 .. Len(s) : t[i] = s[i]
  BY <1>1, <1>2
<1> HIDE DEF s, t
<1>5. t = Append(s, c)
  BY <1>3, <1>4, PutBehind
<1> QED BY <1>5 DEF s, t

(* The same for the second, ... *)
LEMMA SecondBehind ==
  ASSUME NEW S, NEW a \in S, NEW b \in S
  PROVE  Append(<<a>>, b) = <<a, b>>
<1> DEFINE s == <<a>>
           t == <<a, b>>
<1>1. s \in Seq(S) /\ Len(s) = 1 /\ s[1] = a
  OBVIOUS
<1>2. t \in Seq(S) /\ Len(t) = 2 /\ t[1] = a /\ t[2] = b
  OBVIOUS
<1>3. s \in Seq(S) /\ t \in Seq(S) /\ Len(t) = Len(s) + 1 /\ t[Len(t)] = b
  BY <1>1, <1>2
<1>4. \A i \in 1 .. Len(s) : t[i] = s[i]
  BY <1>1, <1>2
<1> HIDE DEF s, t
<1>5. t = Append(s, b)
  BY <1>3, <1>4, PutBehind
<1> QED BY <1>5 DEF s, t

(* ... and so for the three rates that turn a mouse into a wheel mouse. *)
LEMMA WheelRates ==
  /\ Append(<<>>, 200) = <<200>> /\ Append(<<200>>, 100) = <<200, 100>>
  /\ Append(<<200, 100>>, 80) = <<200, 100, 80>>
<1>1. PICK a \in Nat, b \in Nat, c \in Nat : a = 200 /\ b = 100 /\ c = 80
  OBVIOUS
<1>2. Append(<<a, b>>, c) = <<a, b, c>>
  BY ThirdBehind
<1>3. Append(<<a>>, b) = <<a, b>>
  BY SecondBehind
<1>4. Append(<<200, 100>>, 80) = <<200, 100, 80>>
  BY <1>1, <1>2
<1>5. Append(<<200>>, 100) = <<200, 100>>
  BY <1>1, <1>3
<1>6. Append(<<>>, 200) = <<200>>
  OBVIOUS
<1> QED BY <1>4, <1>5, <1>6

(* The mouse takes a command, or a rate, as init_mouse meant it. *)
LEMMA AnswerInStep ==
  ASSUME DriverInv, InStep, mouse # "none", Answer
  PROVE  InStep'
<1>0. Stream = 9 /\ asked # <<>> /\ UNCHANGED <<mouse, sent, driver>>
  BY StreamIs DEF Answer, TakeRate, TakeCommand
<1>1. /\ phase = "reply" /\ asked = <<step>> /\ auxq = <<>> /\ step \in 1 .. 9
      /\ DeviceAfter(step - 1) /\ Head(asked) = step /\ Tail(asked) = <<>>
      /\ step = 9 => size = DeviceSize
  <2>1. phase = "reply"
    BY <1>0 DEF InStep, DriverInv
  <2>2. asked = <<step>> /\ auxq = <<>> /\ (step = Stream => size = DeviceSize)
    BY <1>0, <2>1 DEF InStep
  <2>3. step \in 1 .. 9
    BY <1>0, <2>1 DEF DriverInv
  <2>4. Done = step - 1 /\ DeviceAfter(Done)
    BY <1>0, <2>1 DEF Done, InStep
  <2>5. Head(asked) = step /\ Tail(asked) = <<>>
    BY <2>2
  <2> QED BY <1>0, <2>1, <2>2, <2>3, <2>4, <2>5
<1>2. phase' = "reply" /\ step' = step /\ size' = size /\ asked' = <<>>
  BY <1>0, <1>1 DEF Answer, TakeRate, TakeCommand, driver
<1>3. CASE TakeRate
  <2>1. expects /\ step \in {3, 5, 7}
    BY <1>1, <1>3 DEF TakeRate, DeviceAfter
  <2>2. auxq' = <<Ack>> /\ ~expects' /\ ~streams'
    <3>1. auxq' = Append(auxq, Ack) /\ ~expects' /\ streams' = streams
      BY <1>3 DEF TakeRate
    <3>2. ~streams
      BY <1>0, <1>1, <2>1 DEF DeviceAfter
    <3> QED BY <1>1, <3>1, <3>2
  <2>3. rates' = RatesAfter(step)
    <3>1. rates' = SubSeq(Append(rates, Commands[step]),
                          IF Len(Append(rates, Commands[step])) > 3 THEN 2 ELSE 1,
                          Len(Append(rates, Commands[step])))
      BY <1>1, <1>3 DEF TakeRate
    <3>2. rates = RatesAfter(step - 1)
      BY <1>1 DEF DeviceAfter
    <3>3. /\ Append(rates, Commands[step]) = RatesAfter(step)
          /\ RatesAfter(step) \in Seq(Nat) /\ Len(RatesAfter(step)) <= 3
      <4>0. Commands[3] = 200 /\ Commands[5] = 100 /\ Commands[7] = 80
        BY DEF Commands
      <4>1. CASE step = 3
        <5>1. rates = <<>> /\ RatesAfter(step) = <<200>>
          BY <3>2, <4>1 DEF RatesAfter
        <5>2. Append(<<>>, 200) = <<200>> /\ <<200>> \in Seq(Nat) /\ Len(<<200>>) <= 3
          <6>1. Append(<<>>, 200) = <<200>>
            BY WheelRates
          <6>2. <<200>> \in Seq(Nat) /\ Len(<<200>>) <= 3
            OBVIOUS
          <6> QED BY <6>1, <6>2
        <5>3. Commands[step] = 200
          BY <4>0, <4>1
        <5> QED BY <5>1, <5>2, <5>3
      <4>2. CASE step = 5
        <5>1. rates = <<200>> /\ RatesAfter(step) = <<200, 100>>
          BY <3>2, <4>2 DEF RatesAfter
        <5>2. Append(<<200>>, 100) = <<200, 100>> /\ <<200, 100>> \in Seq(Nat) /\ Len(<<200, 100>>) <= 3
          <6>1. Append(<<200>>, 100) = <<200, 100>>
            BY WheelRates
          <6>2. <<200, 100>> \in Seq(Nat) /\ Len(<<200, 100>>) <= 3
            OBVIOUS
          <6> QED BY <6>1, <6>2
        <5>3. Commands[step] = 100
          BY <4>0, <4>2
        <5> QED BY <5>1, <5>2, <5>3
      <4>3. CASE step = 7
        <5>1. rates = <<200, 100>> /\ RatesAfter(step) = <<200, 100, 80>>
          BY <3>2, <4>3 DEF RatesAfter
        <5>2. Append(<<200, 100>>, 80) = <<200, 100, 80>> /\ <<200, 100, 80>> \in Seq(Nat) /\ Len(<<200, 100, 80>>) <= 3
          <6>1. Append(<<200, 100>>, 80) = <<200, 100, 80>>
            BY WheelRates
          <6>2. <<200, 100, 80>> \in Seq(Nat) /\ Len(<<200, 100, 80>>) <= 3
            OBVIOUS
          <6> QED BY <6>1, <6>2
        <5>3. Commands[step] = 80
          BY <4>0, <4>3
        <5> QED BY <5>1, <5>2, <5>3
      <4> QED BY <2>1, <4>1, <4>2, <4>3
    <3>4. rates' = SubSeq(RatesAfter(step), 1, Len(RatesAfter(step)))
      BY <3>1, <3>3
    <3> HIDE DEF RatesAfter
    <3> QED BY <3>3, <3>4
  <2>4. DeviceAfter(step)'
    BY <1>0, <1>2, <2>1, <2>2, <2>3 DEF DeviceAfter, RatesAfter
  <2>5. Answered'
    BY <1>0, <1>2, <2>1, <2>2 DEF Answered
  <2>6. DeviceAfter(Done)'
    BY <1>2, <2>4 DEF Done
  <2> QED BY <1>0, <1>2, <2>1, <2>5, <2>6 DEF InStep
<1>4. CASE TakeCommand
  <2>1. ~expects /\ step \in {1, 2, 4, 6, 8, 9}
    BY <1>1, <1>4 DEF TakeCommand, DeviceAfter
  <2>2. /\ (expects' <=> Commands[step] = 243) /\ (streams' <=> streams \/ step = 9) /\ rates' = rates
        /\ auxq' = <<>> \o IF step = 8 THEN <<Ack, IF IsWheel THEN WheelId ELSE PlainId>> ELSE <<Ack>>
    <3>1. /\ expects' = (Commands[Head(asked)] = 243)
          /\ streams' = (streams \/ Head(asked) = Stream) /\ rates' = rates
          /\ auxq' = auxq \o IF Head(asked) = Stream - 1
                             THEN <<Ack, IF IsWheel THEN WheelId ELSE PlainId>> ELSE <<Ack>>
      BY <1>4 DEF TakeCommand
    <3>2. Head(asked) = step /\ Stream - 1 = 8 /\ auxq = <<>>
      BY <1>0, <1>1
    <3>3. expects' <=> Commands[step] = 243
      BY <3>1, <3>2
    <3>4. streams' <=> streams \/ step = 9
      BY <1>0, <3>1, <3>2
    <3> QED BY <3>1, <3>2, <3>3, <3>4
  <2>3. expects' <=> step \in {2, 4, 6}
    BY <2>1, <2>2 DEF Commands
  <2>4. streams' <=> step = 9
    BY <1>0, <1>1, <2>2 DEF DeviceAfter
  <2>5. rates' = RatesAfter(step)
    BY <1>1, <2>1, <2>2 DEF DeviceAfter, RatesAfter
  <2>6. DeviceAfter(step)'
    BY <1>0, <1>2, <2>3, <2>4, <2>5 DEF DeviceAfter, RatesAfter
  <2>7. DeviceAfter(Done)'
    BY <1>2, <2>6 DEF Done
  <2>8. auxq' = IF step = 8 THEN <<Ack, IF mouse = "wheel" THEN WheelId ELSE PlainId>> ELSE <<Ack>>
    <3>1. step = 8 => (IsWheel <=> mouse = "wheel")
      BY <1>1 DEF IsWheel, DeviceAfter, RatesAfter
    <3>2. CASE step = 8 /\ IsWheel
      BY <2>2, <3>1, <3>2
    <3>3. CASE step = 8 /\ ~IsWheel
      BY <2>2, <3>1, <3>3
    <3>4. CASE step # 8
      BY <2>2, <3>4
    <3> QED BY <3>2, <3>3, <3>4
  <2>9. Answered'
    <3>1. CASE step = 9
      <4>1. auxq' = <<Ack>>
        BY <2>8, <3>1
      <4>2. auxq' # <<>> /\ auxq'[1] = Ack /\ Len(auxq') = 1
        BY <4>1
      <4>3. Flow(auxq', 2, DeviceSize', sent') /\ ~(2 <= Len(auxq'))
        BY <4>2 DEF Flow
      <4> QED BY <1>0, <1>2, <3>1, <4>2, <4>3 DEF Answered
    <3>2. CASE step # 9
      BY <1>0, <1>1, <1>2, <2>8, <3>2 DEF Answered
    <3> QED BY <3>1, <3>2
  <2>10. step = 9 => size' = DeviceSize'
    BY <1>0, <1>1, <1>2, <2>2 DEF DeviceSize, IsWheel
  <2> QED BY <1>0, <1>2, <2>7, <2>9, <2>10 DEF InStep
<1> QED BY <1>3, <1>4 DEF Answer

(* The driver and the mouse go through the commands in step. *)
LEMMA CommandsInStep ==
  ASSUME DriverInv, InStep, mouse # "none", ~disturbed, ~disturbed',
         AskConfig \/ ReadConfig \/ SendCommand \/ ReadReply \/ ReadId
  PROVE  InStep'
<1>0. /\ Stream = 9 /\ UNCHANGED <<mouse, rates, expects, streams, sent, events>>
      /\ DeviceAfter(Done) /\ auxq \in Seq(Bytes) /\ phase # "poll" /\ bytes = <<>> /\ events = <<>>
      /\ DeviceSize' = DeviceSize
  BY StreamIs DEF AskConfig, ReadConfig, SendCommand, ReadReply, ReadId, device, InStep, DriverInv,
                  DeviceSize, IsWheel
<1>1. \A d : DeviceAfter(d)' <=> DeviceAfter(d)
  BY <1>0 DEF DeviceAfter, RatesAfter
<1>2. CASE AskConfig
  <2>1. phase = "config" /\ phase' = "configRead" /\ UNCHANGED <<asked, auxq>>
    BY <1>2 DEF AskConfig, device
  <2>2. Done = 0 /\ Done' = 0
    BY <2>1 DEF Done
  <2> QED BY <1>0, <1>1, <2>1, <2>2 DEF InStep
<1>3. CASE ReadConfig
  <2>1. phase = "configRead" /\ phase' = "send" /\ step' = 1 /\ asked' = asked
    BY <1>3 DEF ReadConfig, device
  <2>2. auxq' = auxq
    BY <1>3 DEF ReadConfig, Takes, Byte
  <2>3. Done = 0 /\ Done' = 0
    BY <2>1 DEF Done
  <2> QED BY <1>0, <1>1, <2>1, <2>2, <2>3 DEF InStep
<1>4. CASE SendCommand
  <2>1. /\ phase = "send" /\ phase' = "reply" /\ asked' = Append(asked, step)
        /\ UNCHANGED <<step, size, auxq>> /\ asked = <<>> /\ auxq = <<>>
    BY <1>4 DEF SendCommand, InStep
  <2>2. asked' = <<step>> /\ asked' # <<>>
    BY <2>1
  <2>3. Done' = Done
    BY <2>1, <2>2 DEF Done
  <2> QED BY <1>0, <1>1, <2>1, <2>2, <2>3 DEF InStep
<1>5. CASE ReadReply
  <2>1. PICK b \in Heads, aux \in BOOLEAN : Takes(b, aux, TRUE) /\ Goes(b = Ack)
    BY <1>5 DEF ReadReply
  <2>2. aux /\ auxq # <<>> /\ b = auxq[1] /\ auxq' = Tail(auxq)
    BY <2>1, ByteTaken DEF Takes
  <2>3. phase = "reply" /\ asked = <<>> /\ asked' = asked /\ Answered /\ step \in 1 .. 9
    BY <1>0, <1>5, <2>2 DEF ReadReply, InStep, DriverInv, device
  <2>4. Done = step
    BY <2>3 DEF Done
  <2>5. b = Ack
    BY <2>2, <2>3 DEF Answered
  <2>6. CASE step < 8
    <3>1. auxq = <<Ack>> /\ auxq' = <<>>
      <4>1. auxq = <<Ack>>
        BY <1>0, <2>3, <2>6 DEF Answered
      <4> QED BY <2>2, <4>1
    <3>2. phase' = "send" /\ step' = step + 1
      BY <1>0, <2>1, <2>3, <2>5, <2>6 DEF Goes
    <3>3. Done' = step
      BY <2>3, <3>2 DEF Done
    <3> QED BY <1>0, <1>1, <2>3, <2>4, <2>6, <3>1, <3>2, <3>3 DEF InStep
  <2>7. CASE step = 8
    <3>1. auxq = <<Ack, IF mouse = "wheel" THEN WheelId ELSE PlainId>>
      BY <1>0, <2>3, <2>7 DEF Answered
    <3>2. auxq' = <<IF mouse = "wheel" THEN WheelId ELSE PlainId>>
      BY <2>2, <3>1
    <3>3. phase' = "id" /\ step' = step
      BY <1>0, <2>1, <2>3, <2>5, <2>7 DEF Goes
    <3>4. Done' = step
      BY <2>3, <3>3 DEF Done
    <3> QED BY <1>0, <1>1, <2>3, <2>4, <2>7, <3>2, <3>3, <3>4 DEF InStep
  <2>8. CASE step = 9
    <3>1. /\ Flow(auxq, 2, DeviceSize, sent) /\ (2 <= Len(auxq) => auxq[2].place = 1)
          /\ size = DeviceSize /\ DeviceSize \in {3, 4} /\ sent \in Nat
      <4>1. Flow(auxq, 2, DeviceSize, sent) /\ (2 <= Len(auxq) => auxq[2].place = 1)
        BY <1>0, <2>3, <2>8 DEF Answered
      <4>2. size = DeviceSize
        BY <1>0, <2>3, <2>8 DEF InStep
      <4> QED BY <4>1, <4>2 DEF DriverInv
    <3>2. phase' = "poll" /\ UNCHANGED <<bytes, size>>
      BY <1>0, <2>1, <2>5, <2>8 DEF Goes
    <3>3. /\ Flow(auxq', 1, DeviceSize, sent)
          /\ Len(auxq) \in Nat \ {0} /\ Len(auxq') = Len(auxq) - 1
          /\ \A i \in 1 .. Len(auxq') : auxq'[i] = auxq[i + 1]
      <4>1. Shorter(auxq, auxq') /\ 2 \in {1, 2}
        BY <1>0, <2>2, TailIs
      <4>2. Flow(auxq', 1, DeviceSize, sent)
        BY <3>1, <4>1, FlowTaken
      <4> QED BY <4>1, <4>2 DEF Shorter
    <3>4. auxq' # <<>> => auxq'[1].place = 1
      <4>1. auxq' \in Seq(Bytes)
        BY <2>1, ByteTaken DEF Takes
      <4>2. auxq' # <<>> => Len(auxq') # 0
        BY <4>1, EmptySeq
      <4> QED BY <3>1, <3>3, <4>2
    <3>5. bytes' = <<>> /\ Len(bytes') = 0 /\ events' = <<>>
      BY <1>0, <3>2
    <3>6. Polled(auxq, bytes, events, DeviceSize, sent)'
      <4>1. Begun(bytes', auxq', sent') /\ Later(events', auxq', sent') /\ InOrder(events', DeviceSize')
        BY <3>4, <3>5 DEF Begun, Later, InOrder
      <4> QED BY <1>0, <3>3, <4>1 DEF Polled
    <3>7. Done' = step
      BY <1>0, <2>8, <3>2 DEF Done
    <3> QED BY <1>0, <1>1, <2>3, <2>4, <3>1, <3>2, <3>3, <3>6, <3>7 DEF InStep
  <2> QED BY <2>3, <2>6, <2>7, <2>8
<1>6. CASE ReadId
  <2>1. PICK b \in Heads, aux \in BOOLEAN : Takes(b, aux, TRUE) /\ size' = SizeFor(b)
    BY <1>6 DEF ReadId
  <2>2. aux /\ auxq # <<>> /\ b = auxq[1] /\ auxq' = Tail(auxq)
    BY <2>1, ByteTaken DEF Takes
  <2>3. /\ phase = "id" /\ asked = <<>> /\ asked' = asked /\ step = 8 /\ phase' = "send" /\ step' = 9
        /\ auxq = <<IF mouse = "wheel" THEN WheelId ELSE PlainId>>
    BY <1>0, <1>6 DEF ReadId, InStep, DriverInv, device
  <2>4. auxq' = <<>> /\ b = IF mouse = "wheel" THEN WheelId ELSE PlainId
    BY <2>2, <2>3
  <2>5. Done = 8 /\ Done' = 8
    BY <2>3 DEF Done
  <2>6. size' = DeviceSize
    <3>1. IsWheel <=> mouse = "wheel"
      BY <1>0, <2>5 DEF IsWheel, DeviceAfter, RatesAfter
    <3> QED BY <2>1, <2>4, <3>1, ByteKinds DEF SizeFor, DeviceSize
  <2> QED BY <1>0, <1>1, <2>3, <2>4, <2>5, <2>6 DEF InStep
<1> QED BY <1>2, <1>3, <1>4, <1>5, <1>6

(* The mouse sends a packet. *)
LEMMA PacketInStep ==
  ASSUME DriverInv, InStep, Packet
  PROVE  InStep'
<1>0. /\ Stream = 9 /\ UNCHANGED <<mouse, rates, expects, streams, asked, driver>> /\ streams
      /\ auxq \in Seq(Bytes) /\ sent \in Nat /\ Len(auxq) \in Nat
  BY StreamIs, LenProperties DEF Packet, DriverInv
<1>1. UNCHANGED <<phase, step, bytes, size, events>>
  BY <1>0 DEF driver
<1>2. Done = 9 /\ DeviceAfter(Done) /\ Done' = Done
  BY <1>0, <1>1 DEF InStep, DeviceAfter, Done
<1>3. DeviceAfter(Done)'
  BY <1>0, <1>2 DEF DeviceAfter, RatesAfter
<1>4. phase \in {"reply", "poll"} /\ asked = <<>> /\ (phase = "reply" => step = 9 /\ Answered)
  <2>1. phase \in {"reply", "poll"}
    BY <1>0, <1>2 DEF Done, DriverInv
  <2>2. CASE phase = "poll"
    BY <2>2 DEF InStep
  <2>3. CASE phase = "reply"
    <3>1. step \in 1 .. 9
      BY <1>0, <2>3 DEF DriverInv
    <3>2. asked = <<>>
      BY <1>2, <2>3, <3>1 DEF Done
    <3>3. step = 9
      BY <1>2, <2>3, <3>2 DEF Done
    <3>4. asked # <<step>>
      BY <3>2
    <3> QED BY <2>3, <3>2, <3>3, <3>4 DEF InStep
  <2> QED BY <2>1, <2>2, <2>3
<1>n. Longer(auxq, auxq', DeviceSize, sent)
  BY PacketComes
<1>s. /\ DeviceSize' = DeviceSize /\ DeviceSize \in {3, 4} /\ sent' = sent + 1
  BY <1>0 DEF DeviceSize, IsWheel, Packet
<1>5. CASE phase = "reply"
  <2>1. /\ auxq # <<>> /\ auxq[1] = Ack /\ Flow(auxq, 2, DeviceSize, sent)
        /\ (2 <= Len(auxq) => auxq[2].place = 1)
    BY <1>0, <1>4, <1>5 DEF Answered
  <2>2. Len(auxq) >= 1 /\ 2 <= Len(auxq) + 1
    BY <1>0, <2>1, EmptySeq
  <2>3. /\ Flow(auxq', 2, DeviceSize, sent + 1)
        /\ Len(auxq') = Len(auxq) + DeviceSize
        /\ \A i \in 1 .. Len(auxq) : auxq'[i] = auxq[i]
        /\ auxq'[Len(auxq) + 1].place = 1
    <3>1. 2 \in {1, 2} /\ 1 \in 1 .. DeviceSize
      BY <1>s
    <3>2. Flow(auxq', 2, DeviceSize, sent + 1)
      BY <1>0, <1>n, <1>s, <2>1, <2>2, <3>1, FlowGrows
    <3> QED BY <1>n, <3>1, <3>2 DEF Longer
  <2>4. auxq' # <<>> /\ auxq'[1] = Ack /\ auxq'[2].place = 1
    <3>1. auxq'[1] = auxq[1]
      BY <1>0, <2>2, <2>3
    <3>2. auxq' # <<>>
      <4>1. Len(auxq') # 0
        BY <1>0, <1>s, <2>2, <2>3
      <4> QED BY <4>1, EmptySeq
    <3>3. CASE Len(auxq) = 1
      BY <2>1, <2>3, <3>1, <3>2, <3>3
    <3>4. CASE 2 <= Len(auxq)
      BY <1>0, <2>1, <2>3, <3>1, <3>2, <3>4
    <3> QED BY <1>0, <2>2, <3>3, <3>4
  <2>5. Answered'
    <3>1. Flow(auxq', 2, DeviceSize', sent')
      BY <1>s, <2>3
    <3>2. step' = 9
      BY <1>1, <1>4, <1>5
    <3> QED BY <1>0, <2>4, <3>1, <3>2 DEF Answered
  <2>6. step = 9 /\ size = DeviceSize
    BY <1>0, <1>4, <1>5 DEF InStep
  <2> QED BY <1>0, <1>1, <1>3, <1>4, <1>5, <1>s, <2>5, <2>6 DEF InStep
<1>6. CASE phase = "poll"
  <2>1. Polled(auxq, bytes, events, DeviceSize, sent) /\ size = DeviceSize
    BY <1>6 DEF InStep
  <2>2. bytes \in Seq(Bytes)
    BY DEF DriverInv
  <2>3. Polled(auxq', bytes, events, DeviceSize, sent + 1)
    BY <1>0, <1>n, <1>s, <2>1, <2>2, PolledGrows
  <2>4. Polled(auxq', bytes', events', DeviceSize', sent')
    BY <1>1, <1>s, <2>3
  <2> QED BY <1>0, <1>1, <1>3, <1>4, <1>6, <1>s, <2>1, <2>4 DEF InStep
<1> QED BY <1>4, <1>5, <1>6

(* A byte that is read goes on where the last one ended. *)
LEMMA PolledTakes ==
  ASSUME NEW q \in Seq(Bytes), q # <<>>, NEW bs \in Seq(Bytes), NEW es \in Seq(Seq(Bytes)),
         NEW n \in {3, 4}, NEW s \in Nat, Len(bs) < n, Polled(q, bs, es, n, s),
         NEW t \in Seq(Bytes), Shorter(q, t), NEW all \in Seq(Bytes), More(bs, q[1], all),
         NEW ds, More(es, all, ds)
  PROVE  /\ Len(all) = n => Polled(t, <<>>, es, n, s) /\ Polled(t, <<>>, ds, n, s)
         /\ Len(all) # n => Polled(t, all, es, n, s)
<1>1. Flow(q, 1, n, s) /\ Begun(bs, q, s) /\ Later(es, q, s) /\ InOrder(es, n)
  BY DEF Polled
<1>2. PICK b, l : b = q[1] /\ l = Len(bs)
  OBVIOUS
<1>0. Flow(t, 1, n, s)
  <2>1. 1 \in {1, 2}
    OBVIOUS
  <2> QED BY <1>1, <2>1, FlowTaken
<1>3. /\ Len(q) \in Nat \ {0} /\ Len(t) = Len(q) - 1
      /\ \A i \in 1 .. Len(t) : t[i] = q[i + 1]
  BY DEF Shorter
<1>4. b \in Bytes /\ b.from = "packet" /\ b.packet \in 1 .. s
  <2>1. 1 \in 1 .. Len(q)
    BY <1>3
  <2>2. b \in Bytes
    BY <1>2, <2>1, ElementOfSeq
  <2> QED BY <1>1, <1>2, <2>1, <2>2 DEF Flow
<1>5. b.place = l + 1 /\ (bs # <<>> => bs[1].packet = b.packet)
  BY <1>1, <1>2 DEF Begun
<1>6. /\ l \in Nat /\ Len(all) = l + 1 /\ all # <<>>
      /\ \A k \in 1 .. l : all[k] = bs[k]
      /\ all[l + 1] = b
  BY <1>2 DEF More
<1>7. ASSUME NEW k \in 1 .. l + 1
      PROVE  all[k].from = "packet" /\ all[k].place = k /\ all[k].packet = b.packet
  <2>1. CASE k \in 1 .. l
    <3>1. bs # <<>>
      BY <1>2, <2>1, EmptySeq
    <3>2. bs[k].from = "packet" /\ bs[k].place = k /\ bs[k].packet = bs[1].packet
      BY <1>1, <1>2, <2>1 DEF Begun
    <3> QED BY <1>5, <1>6, <2>1, <3>1, <3>2
  <2>2. CASE k = l + 1
    BY <1>4, <1>5, <1>6, <2>2
  <2> QED BY <1>6, <2>1, <2>2
<1>8. all[1].packet = b.packet
  <2>1. 1 \in 1 .. l + 1
    BY <1>6
  <2> QED BY <1>7, <2>1
<1>9. t # <<>> => Follows(b, t[1], n) /\ t[1].packet \in Nat
  <2>1. ASSUME t # <<>> PROVE 1 \in 1 .. Len(q) - 1 /\ 1 \in 1 .. Len(t) /\ t[1] = q[1 + 1]
    <3>2. Len(t) # 0
      BY <2>1, EmptySeq
    <3>3. 1 \in 1 .. Len(q) - 1 /\ 1 \in 1 .. Len(t)
      BY <1>3, <3>2
    <3> QED BY <1>3, <3>3
  <2>2. t # <<>> => Follows(q[1], q[1 + 1], n)
    BY <1>1, <2>1 DEF Flow
  <2>3. t # <<>> => t[1].packet \in Nat
    <3>1. t # <<>> => t[1].packet \in 1 .. s
      BY <1>0, <2>1 DEF Flow
    <3> QED BY <3>1
  <2> QED BY <1>2, <2>1, <2>2, <2>3
<1>10. t = <<>> => b.place = n
  <2>1. t = <<>> => Len(t) = 0
    BY EmptySeq
  <2>2. t = <<>> => Len(q) = 1 /\ 1 <= Len(q)
    BY <1>3, <2>1
  <2> QED BY <1>1, <1>2, <2>2 DEF Flow
<1>11. es # <<>> => es[Len(es)][1].packet < b.packet /\ es[Len(es)][1].packet \in 1 .. s
  BY <1>1, <1>2 DEF Later
<1>12. ASSUME l + 1 = n PROVE t # <<>> => t[1].place = 1 /\ t[1].packet > b.packet
  BY <1>5, <1>9, <1>12 DEF Follows
<1>13. ASSUME l + 1 = n PROVE Begun(<<>>, t, s)
  <2>1. Len(<<>>) = 0
    BY EmptySeq
  <2> QED BY <1>12, <1>13, <2>1 DEF Begun
<1>14. ASSUME l + 1 = n PROVE Polled(t, <<>>, es, n, s)
  <2>1. Later(es, t, s)
    <3>1. ASSUME es # <<>>, t # <<>> PROVE es[Len(es)][1].packet < t[1].packet
      <4>1. PICK x, y, z : x = es[Len(es)][1].packet /\ y = b.packet /\ z = t[1].packet
        OBVIOUS
      <4>2. x < y /\ x \in 1 .. s
        BY <1>11, <3>1, <4>1
      <4>3. z > y /\ z \in Nat /\ y \in 1 .. s
        BY <1>4, <1>9, <1>12, <1>14, <3>1, <4>1
      <4>4. x < z
        BY <4>2, <4>3
      <4> QED BY <4>1, <4>4
    <3> QED BY <1>11, <3>1 DEF Later
  <2> QED BY <1>0, <1>1, <1>13, <1>14, <2>1 DEF Polled
<1>15. ASSUME l + 1 = n PROVE Polled(t, <<>>, ds, n, s)
  <2>2. Len(ds) = Len(es) + 1 /\ ds[Len(es) + 1] = all /\ ds # <<>>
    BY DEF More
  <2>3. Later(ds, t, s)
    <3>1. ds[Len(ds)][1].packet = b.packet
      BY <1>8, <2>2
    <3>2. t # <<>> => b.packet < t[1].packet
      BY <1>4, <1>9, <1>12, <1>15
    <3> QED BY <1>4, <3>1, <3>2 DEF Later
  <2>4. Whole(all, n)
    BY <1>6, <1>7, <1>8, <1>15 DEF Whole
  <2>5. InOrder(ds, n)
    <3>1. PICK x \in Nat : x = all[1].packet /\ x = b.packet
      BY <1>4, <1>8
    <3>2. es # <<>> => es[Len(es)][1].packet < x /\ es[Len(es)][1].packet \in Nat
      <4>1. PICK y : y = es[Len(es)][1].packet
        OBVIOUS
      <4>2. es # <<>> => y < x /\ y \in 1 .. s
        BY <1>11, <3>1, <4>1
      <4>3. es # <<>> => y < x /\ y \in Nat
        BY <4>2
      <4> QED BY <4>1, <4>3
    <3> QED BY <1>1, <2>4, <3>1, <3>2, OrderGrows
  <2> QED BY <1>0, <1>13, <1>15, <2>3, <2>5 DEF Polled
<1>16. ASSUME l + 1 # n PROVE Polled(t, all, es, n, s)
  <2>1. b.place < n
    BY <1>2, <1>5, <1>6, <1>16
  <2>2. t # <<>>
    BY <1>10, <2>1
  <2>3. t[1].place = b.place + 1 /\ t[1].packet = b.packet
    BY <1>9, <2>1, <2>2 DEF Follows
  <2>4. Begun(all, t, s)
    <3>1. \A k \in 1 .. Len(all) : all[k].from = "packet" /\ all[k].place = k /\ all[k].packet = all[1].packet
      BY <1>6, <1>7, <1>8
    <3>2. t[1].place = Len(all) + 1
      BY <1>5, <1>6, <2>3
    <3> QED BY <1>4, <1>8, <2>2, <2>3, <3>1, <3>2 DEF Begun
  <2>5. Later(es, t, s)
    BY <1>11, <2>3 DEF Later
  <2> QED BY <1>0, <1>1, <2>4, <2>5 DEF Polled
<1> QED BY <1>6, <1>14, <1>15, <1>16

(* poll keeps the packets together. *)
LEMMA PollInStep ==
  ASSUME DriverInv, InStep, PollByte \/ PollEnd
  PROVE  InStep'
<1>1. CASE PollEnd
  BY <1>1, InStepUnmoved DEF PollEnd, device
<1>2. CASE PollByte
  <2>0. /\ phase = "poll" /\ UNCHANGED <<mouse, rates, expects, streams, asked, sent, phase, step, size>>
        /\ DeviceSize' = DeviceSize /\ Done' = Done
    BY <1>2 DEF PollByte, device, DeviceSize, IsWheel, Done
  <2>1. PICK c \in Heads, aux \in BOOLEAN :
          /\ Byte(c, aux)
          /\ IF ~FromMouse(aux) \/ (bytes = <<>> /\ ~c.sync) THEN UNCHANGED <<bytes, events>>
             ELSE LET all == Append(bytes, c) IN
                  /\ bytes' = KeptBytes(all)
                  /\ \/ Len(all) = size /\ events' = Append(events, all)
                     \/ events' = events
    BY <1>2 DEF PollByte
  <2>2. CASE ~aux
    <3>1. auxq' = auxq
      BY <2>1, <2>2, ByteTaken
    <3>2. UNCHANGED <<bytes, events>>
      BY <2>1, <2>2 DEF FromMouse
    <3> QED BY <2>0, <3>1, <3>2, InStepUnmoved
  <2>3. CASE aux
    <3>1. auxq # <<>> /\ c = auxq[1] /\ auxq' = Tail(auxq)
      BY <2>1, <2>3, ByteTaken
    <3>2. bytes = <<>> => c.sync
      <4>1. Flow(auxq, 1, DeviceSize, sent) /\ Begun(bytes, auxq, sent) /\ auxq \in Seq(Bytes)
        BY <2>0 DEF InStep, Polled, DriverInv
      <4>2. 1 \in 1 .. Len(auxq)
        BY <3>1, <4>1, EmptySeq, LenProperties
      <4>3. bytes = <<>> => auxq[1].place = 1
        BY <3>1, <4>1, EmptySeq DEF Begun
      <4> QED BY <3>1, <4>1, <4>2, <4>3 DEF Flow
    <3>3. PICK all : all = Append(bytes, auxq[1])
      OBVIOUS
    <3>4. bytes' = KeptBytes(all) /\ (events' = events \/ (Len(all) = size /\ events' = Append(events, all)))
      BY <2>1, <2>3, <3>1, <3>2, <3>3 DEF FromMouse
    <3>6. /\ Len(all) = DeviceSize => /\ Polled(auxq', <<>>, events, DeviceSize, sent)
                                      /\ Polled(auxq', <<>>, Append(events, all), DeviceSize, sent)
          /\ Len(all) # DeviceSize => Polled(auxq', all, events, DeviceSize, sent)
      <4>1. /\ auxq \in Seq(Bytes) /\ bytes \in Seq(Bytes) /\ events \in Seq(Seq(Bytes)) /\ sent \in Nat
            /\ Len(bytes) < size /\ size \in {3, 4}
        BY DEF DriverInv
      <4>2. size = DeviceSize /\ Polled(auxq, bytes, events, DeviceSize, sent)
        BY <2>0 DEF InStep
      <4>3. Shorter(auxq, auxq') /\ auxq' \in Seq(Bytes) /\ auxq[1] \in Bytes
        BY <3>1, <4>1, TailIs
      <4>4. More(bytes, auxq[1], all) /\ all \in Seq(Bytes)
        BY <3>3, <4>1, <4>3, AppendIs
      <4>5. More(events, all, Append(events, all))
        BY <4>1, <4>4, AppendIs
      <4> QED BY <3>1, <4>1, <4>2, <4>3, <4>4, <4>5, PolledTakes, ZenonT(30)
    <3>7. size = DeviceSize /\ asked = <<>>
      BY <2>0 DEF InStep
    <3>8. Polled(auxq', bytes', events', DeviceSize, sent)
      BY <3>4, <3>6, <3>7 DEF KeptBytes
    <3>9. Polled(auxq, bytes, events, DeviceSize, sent)'
      BY <2>0, <3>8
    <3>5. DeviceAfter(Done)'
      BY <2>0 DEF InStep, DeviceAfter, RatesAfter
    <3> QED BY <2>0, <3>5, <3>7, <3>9 DEF InStep
  <2> QED BY <2>2, <2>3
<1> QED BY <1>1, <1>2

(* Every step of the driver and of the devices keeps the invariant. *)
LEMMA PacketKept == PacketInv /\ [Ps2Next]_ps2Vars => PacketInv'
<1> SUFFICES ASSUME PacketInv, [Ps2Next]_ps2Vars PROVE PacketInv'
  OBVIOUS
<1>1. DriverInv /\ DriverInv'
  BY DriverKept DEF PacketInv
<1>2. mouse' = mouse /\ (disturbed => disturbed')
  BY DisturbedStays
<1>3. ASSUME ~disturbed, ~disturbed', mouse = "none" PROVE Silent'
  BY <1>1, <1>3, SilentKept DEF PacketInv
<1>4. ASSUME ~disturbed, ~disturbed', mouse # "none" PROVE InStep'
  <2>0. InStep
    BY <1>4 DEF PacketInv
  <2>1. CASE PressKey
    BY <2>0, <2>1, InStepUnmoved DEF PressKey, driver
  <2>2. CASE Answer
    BY <1>1, <1>4, <2>0, <2>2, AnswerInStep
  <2>3. CASE Packet
    BY <1>1, <2>0, <2>3, PacketInStep
  <2>4. CASE AskConfig \/ ReadConfig \/ SendCommand \/ ReadReply \/ ReadId
    BY <1>1, <1>4, <2>0, <2>4, CommandsInStep
  <2>5. CASE TimeOut \/ Refused
    BY <1>4, <2>5 DEF TimeOut, Refused
  <2>6. CASE PollByte \/ PollEnd
    BY <1>1, <2>0, <2>6, PollInStep
  <2>7. CASE UNCHANGED ps2Vars
    BY <2>0, <2>7, InStepUnmoved DEF ps2Vars, device, driver
  <2> QED BY <2>1, <2>2, <2>3, <2>4, <2>5, <2>6, <2>7 DEF Ps2Next, Ps2Driver
<1> QED BY <1>1, <1>2, <1>3, <1>4 DEF PacketInv

(* It holds when the driver starts. *)
LEMMA PacketInit == Ps2Init => PacketInv
<1> SUFFICES ASSUME Ps2Init PROVE PacketInv
  OBVIOUS
<1>1. <<>> \in Seq(Bytes) /\ Len(<<>>) = 0 /\ <<>> \in Seq(Seq(Bytes)) /\ Stream = 9
  BY StreamIs
<1>2. DriverInv
  BY <1>1 DEF Ps2Init, DriverInv
<1>3. Silent
  BY DEF Ps2Init, Silent
<1>4. InStep
  <2>1. Done = 0
    BY DEF Ps2Init, Done
  <2>2. DeviceAfter(0)
    BY <1>1 DEF Ps2Init, DeviceAfter, RatesAfter
  <2>3. phase = "config" /\ asked = <<>> /\ auxq = <<>>
    BY DEF Ps2Init
  <2> QED BY <2>1, <2>2, <2>3 DEF InStep
<1> QED BY <1>2, <1>3, <1>4 DEF PacketInv

(* The invariant says that the packets are sound. *)
LEMMA PacketsAre == PacketInv => PacketsSound
<1> SUFFICES ASSUME PacketInv PROVE PacketsSound
  OBVIOUS
<1>1. Len(bytes) < size /\ size \in {3, 4} /\ (phase # "poll" => events = <<>>)
  BY DEF PacketInv, DriverInv
<1>2. events = <<>> => PacketsWhole
  BY DEF PacketsWhole
<1>3. ASSUME ~disturbed PROVE PacketsWhole /\ SizesAgree
  <2>1. CASE mouse = "none"
    BY <1>2, <1>3, <2>1 DEF PacketInv, Silent, SizesAgree
  <2>2. CASE mouse # "none"
    <3>1. InStep /\ Stream = 9
      BY <1>3, <2>2, StreamIs DEF PacketInv
    <3>2. streams => Done = 9
      BY <3>1 DEF InStep, DeviceAfter
    <3>3. PacketsWhole
      <4>1. CASE phase = "poll"
        <5>1. InOrder(events, DeviceSize)
          BY <3>1, <4>1 DEF InStep, Polled
        <5>2. DOMAIN events = 1 .. Len(events) /\ events \in Seq(Seq(Bytes))
          BY LenProperties DEF PacketInv, DriverInv
        <5>3. ASSUME NEW i \in DOMAIN events PROVE DOMAIN events[i] = 1 .. DeviceSize
          BY <5>1, <5>2, <5>3 DEF InOrder, Whole
        <5> QED BY <5>1, <5>2, <5>3 DEF PacketsWhole, InOrder, Whole
      <4> QED BY <1>1, <1>2, <4>1
    <3>4. Done = 9 => size = DeviceSize
      BY <3>1 DEF InStep, Done, PacketInv, DriverInv
    <3> QED BY <3>2, <3>3, <3>4 DEF SizesAgree
  <2> QED BY <2>1, <2>2
<1> QED BY <1>1, <1>3 DEF PacketsSound

(* An undisturbed mouse's packets arrive whole and in order, with any      *)
(* number of keys, packets and polls, and any bytes in them.               *)
THEOREM PacketsTheorem == Ps2Spec => []PacketsSound
<1>1. Ps2Init => PacketInv
  BY PacketInit
<1>2. PacketInv /\ [Ps2Next]_ps2Vars => PacketInv'
  BY PacketKept
<1> QED BY <1>1, <1>2, PacketsAre, PTL DEF Ps2Spec

-----------------------------------------------------------------------------
(* The mouse. *)

(* The boot runs the mouse's driver as it is specified: whatever the disk  *)
(* does before, what is proved of Ps2 holds of the boot.                   *)
THEOREM MouseTheorem == BootSpec => Ps2Spec
<1>1. BootInit => Ps2Init
  BY DEF BootInit
<1>2. [BootNext]_bootVars => [Ps2Next]_ps2Vars
  BY DEF BootNext, FindHba, TryPort, UseDisk, LeaveDisk, UseMouse, bootVars
<1> QED BY <1>1, <1>2, PTL DEF BootSpec, Ps2Spec

(* An undisturbed mouse's packets arrive whole and in order in the booted  *)
(* system too.                                                             *)
THEOREM BootPackets == BootSpec => []PacketsSound
  BY MouseTheorem, PacketsTheorem
=============================================================================
