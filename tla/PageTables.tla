----------------------------- MODULE PageTables -----------------------------
(***************************************************************************)
(* The page tables of kernel/rust/src/mm.rs, four levels deep as in the    *)
(* hardware, with Fan entries per table instead of 512.  A memory is a     *)
(* record: the frames allocated, the tables by the frame that holds them,  *)
(* the data bytes of every frame, the root in CR3, and whether the         *)
(* operation under way has found all the frames it asked for.  Pages and   *)
(* frames are numbers; the direct map ("the first GiB") is the part below  *)
(* one directory, and all frames lie in it.                                *)
(***************************************************************************)
EXTENDS Integers, FiniteSets, FiniteSetsExt

CONSTANTS Fan,      \* entries of a table, 512 in the hardware
          PageSize  \* PAGE_SIZE in bytes

Slot == 0 .. Fan - 1
Frame == 0 .. Fan * Fan - 1        \* below INITIAL_MAP_SIZE
UserTop == Fan * Fan * Fan * (Fan \div 2)
TopAddress == Fan * Fan * Fan * Fan * PageSize - 1

Zero == [present |-> FALSE, user |-> FALSE, huge |-> FALSE, to |-> 0]
Link(f) == [present |-> TRUE, user |-> FALSE, huge |-> FALSE, to |-> f]
UserLink(f) == [Link(f) EXCEPT !.user = TRUE]
Huge(f) == [Link(f) EXCEPT !.huge = TRUE]
ZeroTable == [i \in Slot |-> Zero]
ZeroPage == [i \in 0 .. PageSize - 1 |-> 0]

(* The pages one entry of a level stands for, and level_index. *)
Reach(level) == Fan ^ (3 - level)
LevelIndex(v, level) == (v \div Reach(level)) % Fan

-----------------------------------------------------------------------------

Unused(m) == Frame \ m.used

(* alloc_zeroed_frame.  Where the allocator's hint makes it look first is  *)
(* left out: it returns the lowest free frame, and fails if there is none. *)
Alloc(m) == Min(Unused(m))
Allocated(m) ==
  [m EXCEPT !.used = @ \cup {Alloc(m)}, !.tab[Alloc(m)] = ZeroTable,
            !.bytes[Alloc(m)] = ZeroPage]
Failed(m) == [m EXCEPT !.ok = FALSE]

(* The table of each level on the way to page v, and v's entry in it. *)
Pdpt(m, v) == m.tab[m.root][LevelIndex(v, 0)].to
Pd(m, v) == m.tab[Pdpt(m, v)][LevelIndex(v, 1)].to
Pt(m, v) == m.tab[Pd(m, v)][LevelIndex(v, 2)].to
TableOf(m, v, level) ==
  CASE level = 0 -> m.root [] level = 1 -> Pdpt(m, v)
    [] level = 2 -> Pd(m, v) [] level = 3 -> Pt(m, v)
EntryOf(m, v, level) == m.tab[TableOf(m, v, level)][LevelIndex(v, level)]
SetEntry(m, v, level, e) == [m EXCEPT !.tab[TableOf(m, v, level)][LevelIndex(v, level)] = e]

(* Mutant: the pages of the table are opened to the user with it. *)
SplitOpen(e, level) ==
  [i \in Slot |-> IF level = 1 THEN [UserLink(e.to + i * Reach(2)) EXCEPT !.huge = TRUE]
                                ELSE UserLink(e.to + i)]
(* The table that replaces a huge page: the same pages one level down. *)
Split(e, level) ==
  [i \in Slot |-> IF level = 1 THEN Huge(e.to + i * Reach(2)) ELSE Link(e.to + i)]

(* One level of map_user_page: a huge page is split, a missing table is    *)
(* created, and either way the entry is opened to the user.                *)
OpenLevel(m, v, level) ==
  LET e == EntryOf(m, v, level) IN
  IF ~m.ok THEN m
  ELSE IF e.present /\ ~e.huge
         THEN SetEntry(m, v, level, [e EXCEPT !.user = TRUE])
  ELSE IF Unused(m) = {} THEN Failed(m)
  ELSE LET a == SetEntry(Allocated(m), v, level, UserLink(Alloc(m)))
       IN  IF e.huge THEN [a EXCEPT !.tab[Alloc(m)] = Split(e, level)] ELSE a

(* map_user_page: the levels one after the other, each over the memory the *)
(* one above has left, and then the page's own entry.                      *)
MapUserPage(m, v, f) ==
  LET opened == {OpenLevel(c, v, 2) : c \in {OpenLevel(b, v, 1) : b \in {OpenLevel(m, v, 0)}}}
      mapped == {IF o.ok THEN SetEntry(o, v, 3, UserLink(f)) ELSE o : o \in opened}
  IN  CHOOSE n \in mapped : TRUE

(* The walk of user_page_mapped, which stops at a huge page. *)
UserPageMapped(m, v) ==
  LET Open(level) == EntryOf(m, v, level).present /\ EntryOf(m, v, level).user
      Large(level) == EntryOf(m, v, level).huge
  IN
  /\ v < UserTop /\ Open(0) /\ Open(1)
  /\ Large(1) \/ (Open(2) /\ (Large(2) \/ Open(3)))

UserRangeMapped(m, ptr, len) ==
  \/ len = 0
  \/ /\ ptr + (len - 1) <= TopAddress
     /\ \A v \in ptr \div PageSize .. (ptr + (len - 1)) \div PageSize : UserPageMapped(m, v)

(* unmap_user_page finds a page to unmap. *)
Unmaps(m, v) ==
  LET Goes(level) == EntryOf(m, v, level).present /\ ~EntryOf(m, v, level).huge
  IN  Goes(0) /\ Goes(1) /\ Goes(2) /\ EntryOf(m, v, 3).present /\ EntryOf(m, v, 3).user

(* unmap_user_page for each of some pages, with the free_frames that       *)
(* follows it.                                                             *)
Unmapped(m, pages) ==
  LET gone == {v \in pages : Unmaps(m, v)}
      slots == {<<Pt(m, v), LevelIndex(v, 3)>> : v \in gone}
  IN  [m EXCEPT !.used = @ \ {EntryOf(m, v, 3).to : v \in gone},
                !.tab = [t \in Frame |->
                           [i \in Slot |-> IF <<t, i>> \in slots THEN Zero ELSE m.tab[t][i]]]]

(* One level of map_mmio_page, and the whole.  It tells a missing table by *)
(* the address in the entry, and opens nothing to the user.                *)
LinkLevel(m, v, level) ==
  IF ~m.ok \/ EntryOf(m, v, level).to # 0 THEN m
  ELSE IF Unused(m) = {} THEN Failed(m)
  ELSE SetEntry(Allocated(m), v, level, Link(Alloc(m)))
MapMmioPage(m, v) ==
  LET l == LinkLevel(LinkLevel(m, v, 1), v, 2)
  IN  IF v < Fan * Fan \/ Pdpt(m, v) = 0 THEN Failed(m)
      ELSE IF l.ok THEN SetEntry(l, v, 3, Link(v)) ELSE l

-----------------------------------------------------------------------------

(* install_initial: the root, one table of each middle level and a leaf    *)
(* table per slot, in allocation order; the direct map below slot 0 and    *)
(* again in the higher half.                                               *)
InstallInitial(m) ==
  LET r == Alloc(m)
      leaf(i) == r + 3 + i
  IN  [m EXCEPT !.root = r,
                !.used = @ \cup r .. r + 2 + Fan,
                !.tab = [f \in Frame |->
                  CASE f = r -> [i \in Slot |-> IF i \in {0, Fan \div 2} THEN Link(r + 1) ELSE Zero]
                    [] f = r + 1 -> [ZeroTable EXCEPT ![0] = Link(r + 2)]
                    [] f = r + 2 -> [i \in Slot |-> Link(leaf(i))]
                    [] f \in r + 3 .. r + 2 + Fan ->
                         [i \in Slot |-> Link((f - leaf(0)) * Fan + i)]
                    [] OTHER -> ZeroTable]]

(* Limine's tables, which the kernel keeps: identity mapped with large     *)
(* pages, the user region in one huge page.                                *)
LimineTables(m) ==
  LET r == Alloc(m)
  IN  [m EXCEPT !.root = r,
                !.used = @ \cup r .. r + 2,
                !.tab = [f \in Frame |->
                  CASE f = r -> [i \in Slot |-> IF i \in {0, Fan \div 2} THEN Link(r + 1) ELSE Zero]
                    [] f = r + 1 ->
                         [i \in Slot |-> IF i = 0 THEN Link(r + 2) ELSE Huge(i * Reach(1))]
                    [] f = r + 2 -> [i \in Slot |-> Huge(i * Reach(2))]
                    [] OTHER -> ZeroTable]]

(* The frame page v is mapped to, through whatever size of page. *)
Translate(m, v) ==
  CASE EntryOf(m, v, 1).huge -> EntryOf(m, v, 1).to + (v % Reach(1))
    [] EntryOf(m, v, 2).huge -> EntryOf(m, v, 2).to + (v % Reach(2))
    [] OTHER -> EntryOf(m, v, 3).to
=============================================================================
