------------------------------- MODULE MCBoot -------------------------------
(* Small volumes for Boot: with and without a reserved sector, with one    *)
(* and two FATs, one or two sectors per cluster, a last cluster that is    *)
(* cut off, a FAT too small for the clusters, and the largest total.       *)
EXTENDS Boot

SmallBoots ==
  [reserved : {0, 1}, fats : {0, 1, 2}, fatSize : {1, 2}, total : {2, 7, 8, 31},
   spc : {0, 1, 2, 3}, root : {1, 2, 4}]
SmallLinks == {0, 2, 3, 5, 20, End}
SmallEntries == [start : {0, 2, 3}, size : {0, 1, 9, 12, 13}]
=============================================================================
