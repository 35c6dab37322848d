-------------------------------- MODULE Heap --------------------------------
(***************************************************************************)
(* The first-fit heap of kernel/rust/src/heap.rs, in 8-byte words.  A free *)
(* block starts with its size and the address of the next free block; an   *)
(* allocated one keeps its size there, and the word before the pointer     *)
(* handed out leads back to it.  All three live in the heap itself, which  *)
(* the owners of allocations write to, so the memory is modelled word by   *)
(* word.  Each operation runs with interrupts masked: one action.          *)
(***************************************************************************)
EXTENDS Integers

CONSTANTS HeapSize, \* HEAP_SIZE in words
          Sizes,    \* layout.size(), in words
          Aligns    \* layout.align(), in words: powers of two

ASSUME HeapAssumption ==
  /\ HeapSize \in Nat /\ HeapSize >= 2 /\ HeapSize % 2 = 0
  /\ Sizes \subseteq Nat
  /\ Aligns \subseteq Nat \ {0} /\ \A a \in Aligns : a = 1 \/ a % 2 = 0

Addr == 0 .. HeapSize - 1
Null == -1
Stored == -2   \* what an owner stores
Align == 2     \* ALIGN
Header == 2    \* size_of::<Block>()

VARIABLES
  word, \* HEAP
  head, \* FREE_HEAD
  live  \* the allocations not yet freed: pointer, length and alignment

heapVars == <<word, head, live>>

-----------------------------------------------------------------------------

AlignUp(v, a) == ((v + a - 1) \div a) * a

(* The blocks of the free list in list order, Null after the last. *)
Nth ==
  LET nth[n \in 0 .. HeapSize] ==
        IF n = 0 THEN head
        ELSE IF nth[n - 1] = Null THEN Null ELSE word[nth[n - 1] + 1]
  IN  nth
FreeBlocks == {Nth[n] : n \in 0 .. HeapSize} \ {Null}

Want(size) == IF AlignUp(size, Align) < Align THEN Align ELSE AlignUp(size, Align)
MaxAlign(a) == IF a < Align THEN Align ELSE a

(* Where the payload of an allocation in block b begins. *)
Pointer(b, a) == AlignUp(b + Header + 1, MaxAlign(a))
UsedSize(b, size, a) == (Pointer(b, a) + Want(size)) - b

(* Block b is large enough, its alignment padding included. *)
Fits(b, size, a) == UsedSize(b, size, a) <= word[b]

(* Mutant: a remainder that is exactly a header is not split off, and its  *)
(* words are not counted to the block either.                              *)
SplitsLarger(b, size, a) == word[b] - UsedSize(b, size, a) > Header
Splits(b, size, a) == word[b] - UsedSize(b, size, a) >= Header

-----------------------------------------------------------------------------

HeapInit ==
  /\ word = [i \in Addr |-> IF i = 0 THEN HeapSize ELSE IF i = 1 THEN Null ELSE 0]
  /\ head = 0
  /\ live = {}

(* alloc: block b, the first that fits, is unlinked, split and marked. *)
alloc(size, a) ==
  \E n \in 0 .. HeapSize :
    LET b == Nth[n]
        p == Pointer(b, a)
        tail == p + Want(size)
        next == word[b + 1]
        rest == IF n = 0 THEN next ELSE head
        unlinked == IF n = 0 THEN word ELSE [word EXCEPT ![Nth[n - 1] + 1] = next]
        split == IF Splits(b, size, a)
                   THEN [unlinked EXCEPT ![tail] = word[b] - UsedSize(b, size, a),
                                         ![tail + 1] = rest]
                   ELSE unlinked
    IN
    /\ b # Null /\ Fits(b, size, a)
    /\ \A m \in 0 .. n - 1 : ~Fits(Nth[m], size, a)
    /\ head' = IF Splits(b, size, a) THEN tail ELSE rest
    /\ word' = [split EXCEPT ![b] = UsedSize(b, size, a), ![p - 1] = b]
    /\ live' = live \cup {[at |-> p, len |-> size, align |-> a]}

(* An owner writes its payload. *)
Fill(l) ==
  /\ l \in live
  /\ word' = [i \in Addr |-> IF i \in l.at .. l.at + l.len - 1 THEN Stored ELSE word[i]]
  /\ UNCHANGED <<head, live>>

(* The block that dealloc finds from a pointer. *)
HeaderOf(p) == word[p - 1]

dealloc(l) ==
  /\ l \in live
  /\ word' = [word EXCEPT ![HeaderOf(l.at) + 1] = head]
  /\ head' = HeaderOf(l.at)
  /\ live' = live \ {l}

HeapNext ==
  \/ \E size \in Sizes, a \in Aligns : alloc(size, a)
  \/ \E l \in live : Fill(l) \/ dealloc(l)

HeapSpec == HeapInit /\ [][HeapNext]_heapVars

-----------------------------------------------------------------------------

Extent(b) == b .. b + word[b] - 1
Blocks == FreeBlocks \cup {HeaderOf(l.at) : l \in live}

(* The free blocks and the allocated ones tile the heap: they do not       *)
(* overlap and no word is lost, however the heap was split and freed.      *)
Tiled ==
  /\ \A b \in Blocks : b \in Addr /\ word[b] >= Header /\ Extent(b) \subseteq Addr
  /\ UNION {Extent(b) : b \in Blocks} = Addr
  /\ \A b, c \in Blocks : b # c => Extent(b) \cap Extent(c) = {}

(* Every allocation lies in a block of its own, aligned, behind the header *)
(* and the word that leads back to it: its owner can write all of it       *)
(* without touching what the allocator reads.                              *)
PayloadApart ==
  /\ \A l, m \in live : HeaderOf(l.at) = HeaderOf(m.at) => l = m
  /\ \A l \in live :
       LET b == HeaderOf(l.at) IN
       /\ b \notin FreeBlocks
       /\ l.at >= b + Header + 1
       /\ l.at .. l.at + l.len - 1 \subseteq Extent(b)
       /\ l.at % MaxAlign(l.align) = 0

(* After every sequence of alloc, dealloc and writes by the owners, the    *)
(* blocks tile the heap and every payload is apart from what the allocator *)
(* reads and from the other payloads.                                      *)
HeapSound == Tiled /\ PayloadApart
=============================================================================
