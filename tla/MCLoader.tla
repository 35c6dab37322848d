------------------------------ MODULE MCLoader ------------------------------
(* Images for TLC.  The good ones cross a page, share a page between two   *)
(* segments, overlap, carry headers that are skipped, fill the region; each *)
(* of the others has one defect parse_segments looks for.                  *)
EXTENDS Loader

(* A segment of 3 file bytes and 1 zero byte, across two pages. *)
Text ==
  [load |-> TRUE, exec |-> TRUE, offset |-> 1, vaddr |-> 97, filesz |-> 2, memsz |-> 3, align |-> 2]
Data ==
  [load |-> TRUE, exec |-> FALSE, offset |-> 0, vaddr |-> 98, filesz |-> 1, memsz |-> 2, align |-> 0]
Note == [Text EXCEPT !.load = FALSE, !.vaddr = 7, !.filesz = 9]
Empty == [Text EXCEPT !.memsz = 0, !.vaddr = 7, !.filesz = 9]
Wide == [Text EXCEPT !.vaddr = 96, !.offset = 0, !.filesz = 4, !.memsz = 6]

Image(headers) == [sound |-> TRUE, headers |-> headers, entry |-> 98, len |-> 4]
Defects ==
  {[Text EXCEPT !.filesz = 4], [Text EXCEPT !.offset = 3], [Text EXCEPT !.vaddr = 95],
   [Text EXCEPT !.vaddr = 101], [Text EXCEPT !.memsz = 500], [Text EXCEPT !.align = 3],
   [Text EXCEPT !.align = 4, !.offset = 2], [Text EXCEPT !.exec = FALSE]}
MCImages ==
  {Image(<<Text>>), Image(<<Note, Text, Data>>), Image(<<Wide, Empty>>),
   [Image(<<Text>>) EXCEPT !.sound = FALSE], Image(<<>>), Image(<<Note>>),
   Image(<<Note, Note, Note, Text>>), [Image(<<Text>>) EXCEPT !.entry = 100],
   [Image(<<Text>>) EXCEPT !.entry = 96]}
  \cup {Image(<<d>>) : d \in Defects}
=============================================================================
