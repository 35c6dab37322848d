-------------------------------- MODULE Fat --------------------------------
(***************************************************************************)
(* The File Manager's reader of one file in the root directory of a FAT32  *)
(* volume (file.rs, fat_bundle), one sector per step, on a disk of any     *)
(* contents: links that end, leave the volume or form a cycle, directories *)
(* that do not end, reads that fail.                                       *)
(*                                                                         *)
(* The contents of the disk are chosen when they are first read, and kept. *)
(* A byte of a file is known by its sector and its place there.  Numbers   *)
(* are taken modulo Word, as u32 is.                                       *)
(***************************************************************************)
EXTENDS Naturals, Sequences

CONSTANTS Word,        \* 2^32
          SectorBytes, \* 512
          LinkBytes,   \* 4, the bytes of a link in the FAT
          MaxSpc,      \* largest number of sectors per cluster, 64
          DirRounds,   \* clusters of the directory that are searched, 16
          MaxBytes,    \* the size of FAT_BUNDLE, 4096
          Boots,       \* the boot sectors to try
          Links,       \* the values of a link to try
          Entries,     \* the entries of the file to try, [start, size]
          End,         \* a link that ends a chain
          EndRow, Skip, \* a sector of the directory that ends it; one without the file
          None

ASSUME FatAssumption ==
  /\ {Word, SectorBytes, LinkBytes, DirRounds, MaxBytes} \subseteq Nat \ {0}
  /\ End \notin Nat
  /\ Boots \subseteq [reserved : Nat, fats : Nat, fatSize : Nat, total : Nat, spc : Nat, root : Nat]
  /\ Links \subseteq Nat \cup {End} /\ Entries \subseteq [start : Nat, size : Nat]

VARIABLES at,      \* the next step; "none": None is returned; "parse": the file is read
          boot,    \* the boot sector, once it is read
          cluster, index, round, entry, copied, \* the locals of fat_bundle
          bundle,  \* FAT_BUNDLE: where each byte comes from
          lba,     \* history: the sector read last
          links,   \* the FAT as far as it is known
          rows     \* the directory's sectors as far as they are known

disk == <<links, rows>>
vars == <<at, boot, cluster, index, round, entry, copied, bundle, lba, disk>>

Known(f, k, v) == [x \in DOMAIN f \cup {k} |-> IF x = k THEN v ELSE f[x]]

(* Fat32::mount: the data begin after the FATs. *)
FirstData == boot.reserved + boot.fats * boot.fatSize
Clusters == (boot.total - FirstData) \div boot.spc

(* The volume is accepted. *)
Mounts ==
  /\ FirstData < Word
  /\ boot.spc \in {2 ^ k : k \in 0 .. MaxSpc} /\ boot.spc <= MaxSpc
  /\ boot.fats # 0 /\ boot.fatSize # 0 /\ FirstData < boot.total
  /\ boot.root >= 2 /\ boot.root < (Clusters + 2) % Word

(* Mutant: one cluster too many. *)
InDataOneMore(c) == c >= 2 /\ c <= Clusters + 2
(* first_sector: the cluster is one of the volume's. *)
InData(c) == c >= 2 /\ c < (Clusters + 2) % Word
FirstSector(c) == FirstData + (c - 2) * boot.spc

Init ==
  /\ at = "mount" /\ boot = None
  /\ cluster = 0 /\ index = 0 /\ round = 0 /\ entry = None /\ copied = 0
  /\ bundle = <<>> /\ lba = 0 /\ links = <<>> /\ rows = <<>>

(* read_sector fails, or a check of mount, first_sector or next does, and  *)
(* None is returned.                                                       *)
Fails ==
  /\ at \notin {"none", "parse"} /\ at' = "none"
  /\ UNCHANGED <<boot, cluster, index, round, entry, copied, bundle, lba, disk>>

Mount ==
  /\ at = "mount" /\ boot' \in Boots
  /\ IF Mounts' THEN at' = "dir" /\ cluster' = boot'.root
               ELSE at' = "none" /\ UNCHANGED cluster
  /\ UNCHANGED <<index, round, entry, copied, bundle, lba, disk>>

EndsDir(row) == row = EndRow

(* A sector of the directory: it has the file's row, or a row that ends    *)
(* the directory, or neither.                                              *)
ReadDir ==
  /\ at = "dir" /\ InData(cluster) /\ index < boot.spc
  /\ lba' = FirstSector(cluster) + index
  /\ \E row \in IF lba' \in DOMAIN rows THEN {rows[lba']} ELSE Entries \cup {EndRow, Skip} :
       /\ rows' = Known(rows, lba', row)
       /\ \/ /\ row \in Entries
             /\ entry' = row
             /\ IF row.size = 0 \/ row.size > MaxBytes
                THEN at' = "none" /\ UNCHANGED <<cluster, index>>
                ELSE at' = "copy" /\ cluster' = row.start /\ index' = 0
          \/ EndsDir(row) /\ at' = "none" /\ UNCHANGED <<cluster, index, entry>>
          \/ /\ row \notin Entries /\ ~EndsDir(row) /\ index' = index + 1
             /\ at' = IF index' = boot.spc THEN "dirNext" ELSE "dir"
             /\ UNCHANGED <<cluster, entry>>
  /\ UNCHANGED <<boot, round, copied, bundle, links>>

(* Fat32::next: the sector of the FAT with a cluster's link. *)
LinkSector(c) == (c * LinkBytes) \div SectorBytes

HasLink(c) == c * LinkBytes < Word /\ LinkSector(c) < boot.fatSize

Follow(then) ==
  /\ HasLink(cluster)
  /\ lba' = boot.reserved + LinkSector(cluster)
  /\ \E next \in IF cluster \in DOMAIN links THEN {links[cluster]} ELSE Links :
       /\ links' = Known(links, cluster, next)
       /\ IF next = End THEN at' = "none" /\ UNCHANGED <<cluster, index>>
          ELSE at' = then /\ cluster' = next /\ index' = 0

(* Mutant: the rounds are not counted. *)
DirNextUncounted ==
  /\ at = "dirNext" /\ Follow("dir")
  /\ UNCHANGED <<boot, round, entry, copied, bundle, rows>>
DirNext ==
  /\ at = "dirNext" /\ round' = round + 1
  /\ Follow(IF round' < DirRounds THEN "dir" ELSE "none")
  /\ UNCHANGED <<boot, entry, copied, bundle, rows>>

(* Mutant: every sector is copied whole. *)
AmountWhole == SectorBytes
Amount == IF entry.size - copied < SectorBytes THEN entry.size - copied ELSE SectorBytes

CopySector ==
  /\ at = "copy" /\ InData(cluster) /\ index < boot.spc
  /\ lba' = FirstSector(cluster) + index
  /\ bundle' = bundle \o [k \in 1 .. Amount |-> <<lba', k>>]
  /\ copied' = copied + Amount
  /\ index' = index + 1
  /\ at' = IF copied' = entry.size THEN "parse"
           ELSE IF index' = boot.spc THEN "copyNext" ELSE "copy"
  /\ UNCHANGED <<boot, cluster, round, entry, disk>>

CopyNext ==
  /\ at = "copyNext" /\ Follow("copy")
  /\ UNCHANGED <<boot, round, entry, copied, bundle, rows>>

(* The sector that is read next, when the checks before the read pass. *)
Wants(s) ==
  \/ at = "mount" /\ s = 0
  \/ at \in {"dir", "copy"} /\ InData(cluster) /\ s = FirstSector(cluster) + index
  \/ at \in {"dirNext", "copyNext"} /\ HasLink(cluster) /\ s = boot.reserved + LinkSector(cluster)

Accepts == Mount \/ ReadDir \/ DirNext \/ CopySector \/ CopyNext

-----------------------------------------------------------------------------

(* The n-th cluster of the chain from c, by the links that were read. *)
Along(f, c, n) ==
  LET chain[k \in 0 .. n] == IF k = 0 THEN c ELSE f[chain[k - 1]] IN chain[n]
Chain(c, n) == Along(links, c, n)
SectorOf(c, n) == FirstSector(Chain(c, n \div boot.spc)) + (n % boot.spc)

(* Whatever the boot sector and the links say, only the boot sector, the   *)
(* first FAT and the data of the volume are ever read.                     *)
ReadsInVolume ==
  \/ lba = 0
  \/ boot.reserved <= lba /\ lba < boot.reserved + boot.fatSize
  \/ FirstData <= lba /\ lba < boot.total

(* The file is the first row of its name: all the sectors of the directory *)
(* before it were read and have neither it nor the directory's end.        *)
EntryIsFirst ==
  entry # None =>
    \E n \in 0 .. DirRounds * boot.spc - 1 :
      /\ \A m \in 0 .. n - 1 : rows[SectorOf(boot.root, m)] = Skip
      /\ rows[SectorOf(boot.root, n)] = entry

(* What is copied is the beginning of the file: each byte comes from the   *)
(* sector that the chain of links puts it in, and at the end there are     *)
(* exactly as many as the directory says, no more than FAT_BUNDLE holds.   *)
FileIsChain ==
  /\ EntryIsFirst
  /\ at = "parse" => copied = entry.size
  /\ Len(bundle) = copied /\ copied <= MaxBytes
  /\ \A j \in 1 .. copied :
       bundle[j] = <<SectorOf(entry.start, (j - 1) \div SectorBytes), ((j - 1) % SectorBytes) + 1>>
=============================================================================
