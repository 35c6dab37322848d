------------------------------ MODULE MCFrames ------------------------------
(***************************************************************************)
(* Memory maps of seven frames of four bytes.  The first has a hole and    *)
(* regions that end inside a frame; the second is cut off by a malformed   *)
(* entry after its first region; the third is the fallback without a map,  *)
(* one region from 1 MiB (here byte 4) whose end saturates; the last is    *)
(* Limine's, in which nothing is reserved besides.                         *)
(***************************************************************************)
EXTENDS Frames

Region(b, l, u, w) == [base |-> b, len |-> l, usable |-> u, whole |-> w]
Holed ==
  <<Region(0, 14, TRUE, TRUE), Region(14, 2, FALSE, TRUE), Region(15, 13, TRUE, TRUE)>>
CutOff == <<Region(0, 22, TRUE, TRUE), Region(22, 1, FALSE, FALSE), Region(23, 5, TRUE, TRUE)>>
UpperOnly == <<Region(4, 40, TRUE, TRUE)>>

MCBootMaps ==
  {[limine |-> FALSE, entries |-> e] : e \in {Holed, CutOff, UpperOnly}}
    \cup {[limine |-> TRUE, entries |-> Holed]}
MCReserved == {[base |-> 0, len |-> 4], [base |-> 3, len |-> 2], [base |-> 21, len |-> 1]}
=============================================================================
