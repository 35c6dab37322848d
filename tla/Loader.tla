------------------------------- MODULE Loader -------------------------------
(***************************************************************************)
(* The application loader of kernel/rust/src/elf.rs over the page tables   *)
(* of PageTables, with the application's mmap system call                  *)
(* (kernel/rust/src/syscall.rs) and the device pages the kernel maps.  The *)
(* boot task loads, reaps and loads again; the application writes its      *)
(* pages, maps its own page and exits at any point in between.             *)
(*                                                                         *)
(* An image is a record: whether the ELF header and the header table pass  *)
(* the checks that only look at one field, the program headers, the entry  *)
(* point and the length.  Byte k of a file has the value k + 1, and what a *)
(* running application stores the value Dirt, so that a byte of a page     *)
(* tells where it came from.                                               *)
(***************************************************************************)
EXTENDS PageTables, Sequences, SequencesExt

CONSTANTS Held,        \* frames that are not free when the tables are built
          Boots,       \* the boot protocols: "multiboot", "limine"
          Images,      \* the files an application may be loaded from
          AppMin, AppMax,           \* APP_MIN, APP_MAX in bytes
          StackTop, StackPages,     \* STACK_TOP in pages, STACK_PAGES
          Mmap,        \* the page of USER_MMAP
          Device,      \* the pages of device memory
          MaxHeaders,  \* MAX_PROGRAM_HEADERS
          MaxMapped    \* MAX_MAPPED_PAGES

AppPage == AppMin \div PageSize .. (AppMax - 1) \div PageSize
StackPage == StackTop - StackPages .. StackTop - 1
Stack == [i \in 1 .. StackPages |-> StackTop - StackPages + i - 1]
UserPage == AppPage \cup StackPage \cup {Mmap}
Dirt == 99

ASSUME LoaderAssumption ==
  /\ Fan \in Nat \ {0, 1} /\ PageSize \in Nat \ {0}
  /\ Held \subseteq Frame /\ 0 \in Held
  /\ AppMin \in Nat /\ AppMin % PageSize = 0 /\ AppMax \in Nat /\ AppMin < AppMax
  /\ StackPages \in Nat \ {0}
  /\ Mmap \notin AppPage \cup StackPage /\ AppPage \cap StackPage = {}
  /\ UserPage \cup Device \subseteq Fan * Fan .. UserTop - 1
  /\ UserPage \cap Device = {}

VARIABLES
  mem,        \* the memory: frames, page tables, data
  start,      \* the memory when the kernel entered its main loop
  userMapped, \* USER_MAPPED
  active,     \* ACTIVE_MAPPINGS, empty for None
  pc,         \* where load_and_spawn is
  image,      \* the image it loads
  todo,       \* the pages of this phase it has still to map
  copied,     \* how far it has copied: segment, bytes of it
  mappings,   \* the frame of every page it has mapped
  task        \* the user task's slot

vars == <<mem, start, userMapped, active, pc, image, todo, copied, mappings, task>>
loading == <<pc, image, todo, copied, mappings>>

-----------------------------------------------------------------------------

PowerOfTwo(n) == \E k \in 0 .. 16 : n = 2 ^ k

(* A program header parse_segments keeps or skips, and one it refuses. *)
Kept(h) == h.load /\ h.memsz # 0
WellPlaced(h, len) ==
  /\ h.filesz <= h.memsz
  /\ h.vaddr + h.memsz <= TopAddress
  /\ AppMin <= h.vaddr /\ h.vaddr + h.memsz <= AppMax
  /\ h.offset + h.filesz <= len
  /\ h.align <= 1 \/ (PowerOfTwo(h.align) /\ (h.vaddr - h.offset) % h.align = 0)
Segments(img) == SelectSeq(img.headers, Kept)

(* parse_segments succeeds. *)
Parses(img) ==
  /\ img.sound
  /\ Len(img.headers) \in 1 .. MaxHeaders
  /\ \A i \in DOMAIN Segments(img) : WellPlaced(Segments(img)[i], img.len)
  /\ Segments(img) # <<>>
  /\ AppMin <= img.entry /\ img.entry < AppMax
  /\ \E i \in DOMAIN Segments(img) :
       LET s == Segments(img)[i]
       IN  s.exec /\ s.vaddr <= img.entry /\ img.entry < s.vaddr + s.memsz

(* The pages the loop over the segments visits, from align_down to         *)
(* align_up.                                                               *)
PagesOf(s) ==
  LET first == s.vaddr \div PageSize
      end == (s.vaddr + s.memsz + PageSize - 1) \div PageSize
  IN  [i \in 1 .. end - first |-> first + i - 1]
ImagePages(img) == FoldLeft(LAMBDA pages, s : pages \o PagesOf(s), <<>>, Segments(img))

(* rollback *)
Released(m, maps) == Unmapped(m, DOMAIN maps)
NoMappings == [v \in {} |-> 0]

(* alloc_zeroed_frame and map_user_page, as map_page and the mmap call     *)
(* make them: when a table cannot be had the frame is given back, and the  *)
(* tables installed so far stay.                                           *)
(* Mutant: the frame is not given back. *)
MapFreshLeaky(m, v) == MapUserPage(Allocated(m), v, Alloc(m))
MapFresh(m, v) ==
  LET n == MapUserPage(Allocated(m), v, Alloc(m))
  IN  IF n.ok THEN n ELSE [n EXCEPT !.used = @ \ {Alloc(m)}]
Settled(m) == [m EXCEPT !.ok = TRUE]

-----------------------------------------------------------------------------

(* The memory before any table is built. *)
Blank ==
  [used |-> Held, root |-> 0, ok |-> TRUE,
   tab |-> [f \in Frame |-> ZeroTable], bytes |-> [f \in Frame |-> ZeroPage]]

Init ==
  /\ \E b \in Boots : mem = IF b = "multiboot" THEN InstallInitial(Blank) ELSE LimineTables(Blank)
  /\ start = mem
  /\ userMapped = FALSE
  /\ active = NoMappings
  /\ pc = "idle" /\ image = <<>> /\ todo = <<>> /\ copied = <<1, 0>> /\ mappings = NoMappings
  /\ task = "empty"

Idle == pc' = "idle" /\ image' = <<>> /\ todo' = <<>> /\ copied' = <<1, 0>> /\ mappings' = NoMappings

(* Mutant: an application that still runs is replaced. *)
FinishedAny == TRUE
(* release_finished_app succeeds. *)
Finished == active = NoMappings \/ task = "dead"

(* load_and_spawn up to its first map_page: the previous application is    *)
(* released, then the image is refused or its pages are listed.            *)
LoadBegin(img) ==
  /\ pc = "idle" /\ Finished
  /\ mem' = Released(mem, active)
  /\ active' = NoMappings
  /\ IF Parses(img)
       THEN /\ pc' = "segments" /\ image' = img /\ todo' = ImagePages(img)
            /\ UNCHANGED <<copied, mappings>>
       ELSE UNCHANGED loading
  /\ UNCHANGED <<start, userMapped, task>>

Mapping == pc \in {"segments", "stack"} /\ todo # <<>>

(* The page is mapped already: two segments share it. *)
MapAgain ==
  /\ Mapping /\ Head(todo) \in DOMAIN mappings
  /\ todo' = Tail(todo)
  /\ UNCHANGED <<mem, start, userMapped, active, pc, image, copied, mappings, task>>

Full == Cardinality(DOMAIN mappings) >= MaxMapped

MapPage ==
  LET v == Head(todo) IN
  /\ Mapping /\ v \notin DOMAIN mappings
  /\ ~Full /\ Unused(mem) # {} /\ MapFresh(mem, v).ok
  /\ mem' = MapFresh(mem, v)
  /\ mappings' = [x \in DOMAIN mappings \cup {v} |-> IF x = v THEN Alloc(mem) ELSE mappings[x]]
  /\ todo' = Tail(todo)
  /\ UNCHANGED <<start, userMapped, active, pc, image, copied, task>>

(* map_page fails, for want of a frame or of room, and load_and_spawn      *)
(* rolls back what it mapped.                                              *)
MapFails ==
  LET v == Head(todo) IN
  /\ Mapping /\ v \notin DOMAIN mappings
  /\ \/ (Full \/ Unused(mem) = {}) /\ mem' = Released(mem, mappings)
     \/ /\ ~Full /\ Unused(mem) # {} /\ ~MapFresh(mem, v).ok
        /\ mem' = Released(Settled(MapFresh(mem, v)), mappings)
  /\ Idle
  /\ UNCHANGED <<start, userMapped, active, task>>

(* How much of a segment one round of the copying loop moves. *)
(* Mutant: it always fills the page. *)
AmountPage(s, done) == PageSize - ((s.vaddr + done) % PageSize)
Amount(s, done) == Min({PageSize - ((s.vaddr + done) % PageSize), s.filesz - done})

(* One round of the loop: from the file into the frame of one page. *)
CopyChunk ==
  LET s == Segments(image)[copied[1]]
      done == copied[2]
      at == s.vaddr + done
      f == mappings[at \div PageSize]
      amount == Amount(s, done)
  IN
  /\ pc = "segments" /\ todo = <<>>
  /\ copied[1] <= Len(Segments(image)) /\ done < s.filesz
  /\ mem' = [mem EXCEPT !.bytes[f] =
       [i \in DOMAIN @ |-> IF at % PageSize <= i /\ i < (at % PageSize) + amount
                             THEN 1 + s.offset + done + (i - (at % PageSize)) ELSE @[i]]]
  /\ copied' = <<copied[1], done + amount>>
  /\ UNCHANGED <<start, userMapped, active, pc, image, todo, mappings, task>>

(* On to the next segment, and after the last one to the stack. *)
CopyNext ==
  /\ pc = "segments" /\ todo = <<>>
  /\ IF copied[1] > Len(Segments(image))
       THEN pc' = "stack" /\ todo' = Stack /\ UNCHANGED copied
       ELSE /\ copied[2] >= Segments(image)[copied[1]].filesz
            /\ copied' = <<copied[1] + 1, 0>> /\ UNCHANGED <<pc, todo>>
  /\ UNCHANGED <<mem, start, userMapped, active, image, mappings, task>>

(* spawn_user puts the application on the ready queue at once; it refuses  *)
(* while the slot is taken.                                                *)
Spawn ==
  /\ pc = "stack" /\ todo = <<>>
  /\ IF task = "ready"
       THEN mem' = Released(mem, mappings) /\ Idle /\ UNCHANGED task
       ELSE task' = "ready" /\ pc' = "spawned" /\ UNCHANGED <<mem, image, todo, copied, mappings>>
  /\ UNCHANGED <<start, userMapped, active>>

(* Only then is ACTIVE_MAPPINGS set. *)
Record ==
  /\ pc = "spawned"
  /\ active' = mappings
  /\ Idle
  /\ UNCHANGED <<mem, start, userMapped, task>>

(* Mutant: the test for a recorded application is inverted. *)
ReapInverted ==
  /\ pc = "idle" /\ active = NoMappings /\ task = "dead"
  /\ mem' = Released(mem, active)
  /\ active' = NoMappings
  /\ UNCHANGED <<start, userMapped, loading, task>>
(* reap_if_exited, called by every round of the main loop. *)
Reap ==
  /\ pc = "idle" /\ active # NoMappings /\ task = "dead"
  /\ mem' = Released(mem, active)
  /\ active' = NoMappings
  /\ UNCHANGED <<start, userMapped, loading, task>>

(* The boot task maps a page of device memory, the framebuffer's when the  *)
(* desktop opens.  Only over install_initial's tables: see the README.     *)
MapDevice(v) ==
  /\ pc = "idle" /\ ~EntryOf(mem, v, 1).huge
  /\ mem' = Settled(MapMmioPage(mem, v))
  /\ UNCHANGED <<start, userMapped, active, loading, task>>

(* System call 2 of the application, with interrupts masked. *)
SyscallMmap ==
  /\ task = "ready" /\ ~userMapped /\ Unused(mem) # {}
  /\ mem' = Settled(MapFresh(mem, Mmap))
  /\ userMapped' = MapFresh(mem, Mmap).ok
  /\ UNCHANGED <<start, active, loading, task>>

(* The application stores to a page of its own. *)
AppWrites(v) ==
  /\ task = "ready" /\ UserPageMapped(mem, v)
  /\ mem' = [mem EXCEPT !.bytes[Translate(mem, v)] = [i \in DOMAIN @ |-> Dirt]]
  /\ UNCHANGED <<start, userMapped, active, loading, task>>

(* System call 0. *)
SyscallExit ==
  /\ task = "ready" /\ task' = "dead"
  /\ UNCHANGED <<mem, start, userMapped, active, loading>>

Next ==
  \/ \E img \in Images : LoadBegin(img)
  \/ MapAgain \/ MapPage \/ MapFails \/ CopyChunk \/ CopyNext \/ Spawn \/ Record \/ Reap
  \/ \E v \in Device : MapDevice(v)
  \/ \E v \in UserPage : AppWrites(v)
  \/ SyscallMmap \/ SyscallExit

Spec == Init /\ [][Next]_vars

(* The boot task is scheduled, and so it finishes a load and comes round   *)
(* to reap_if_exited.                                                      *)
FairSpec ==
  Spec /\ WF_vars(MapAgain \/ MapPage \/ MapFails \/ CopyChunk \/ CopyNext \/ Spawn \/ Record \/ Reap)

-----------------------------------------------------------------------------

TypeOK ==
  /\ mem.used \subseteq Frame /\ mem.root = start.root /\ mem.ok
  /\ mem.tab \in [Frame -> [Slot -> [present : BOOLEAN, user : BOOLEAN, huge : BOOLEAN,
                                     to : 0 .. Fan * Fan * Fan * Fan]]]
  /\ userMapped \in BOOLEAN
  /\ \A maps \in {active, mappings} : DOMAIN maps \subseteq UserPage
  /\ Cardinality(DOMAIN mappings) <= MaxMapped
  /\ pc \in {"idle", "segments", "stack", "spawned"}
  /\ task \in {"empty", "ready", "dead"}

(* The pages the loader and the mmap call have mapped. *)
Mapped == DOMAIN active \cup DOMAIN mappings \cup (IF userMapped THEN {Mmap} ELSE {})
Present(e) == e.present /\ ~e.huge

(* The tables reachable from the root, by level. *)
Tables ==
  LET below(S) == UNION {{mem.tab[t][i].to : i \in {j \in Slot : Present(mem.tab[t][j])}} : t \in S}
      pdpts == below({mem.root})
      pds == below(pdpts)
  IN  {mem.root} \cup pdpts \cup pds \cup below(pds)

(* Every frame allocated since the main loop began is one page table or    *)
(* one mapped page, whatever allocation failed on the way: no frame is     *)
(* lost, used twice or left behind by an application or a failed load.     *)
FramesAccounted ==
  LET frames == {Translate(mem, v) : v \in Mapped} IN
  /\ TypeOK
  /\ mem.used \ Held = Tables \cup frames
  /\ Tables \cap frames = {} /\ Cardinality(frames) = Cardinality(Mapped)

(* A system call is let through to exactly the memory that was mapped for  *)
(* the application: not to the pages next to it that share a table or came *)
(* out of a split huge page, not past the top of the address space.  The   *)
(* kernel's own view of low memory, at both its addresses, survives every  *)
(* change to the tables it shares with the application.                    *)
UserAccessExact ==
  /\ \A v \in 0 .. Fan * Fan * Fan * Fan - 1 : UserPageMapped(mem, v) <=> v \in Mapped
  /\ \A first \in UserPage \cup {TopAddress \div PageSize}, o \in 0 .. PageSize - 1,
        len \in 0 .. 2 * PageSize :
       LET ptr == first * PageSize + o IN
       UserRangeMapped(mem, ptr, len)
         <=> \A a \in ptr .. ptr + len - 1 : a <= TopAddress /\ a \div PageSize \in Mapped
  /\ \A v \in Frame : Translate(mem, v) = v /\ Translate(mem, v + UserTop) = v

(* No page is taken from an application, or replaced, while it runs.       *)
LivePagesKept ==
  [][task = "ready" => \A v \in Mapped : Translate(mem', v) = Translate(mem, v)]_vars

(* What the file says the byte at address a is, for the last segment that  *)
(* brings one; all other bytes of the application's pages are zero.        *)
FileByte(img, a) ==
  LET S == {i \in DOMAIN Segments(img) :
              LET s == Segments(img)[i] IN s.vaddr <= a /\ a < s.vaddr + s.filesz}
      s == Segments(img)[Max(S)]
  IN  IF S = {} THEN 0 ELSE 1 + s.offset + (a - s.vaddr)

(* An application starts in the memory its file describes, whatever ran or *)
(* failed to load in the same frames before: every byte of its segments    *)
(* and stack comes from the file or is zero, and its entry is mapped.      *)
ImageInPlace ==
  [][pc' = "spawned" /\ pc # "spawned" =>
       /\ DOMAIN mappings = ToSet(ImagePages(image)) \cup StackPage
       /\ UserPageMapped(mem, image.entry \div PageSize)
       /\ \A v \in DOMAIN mappings, o \in 0 .. PageSize - 1 :
            mem.bytes[Translate(mem, v)][o] = FileByte(image, v * PageSize + o)]_vars

(* The pages of an application that exited are reclaimed, also when        *)
(* nothing else is ever loaded.                                            *)
ExitedReclaimed ==
  task = "dead" ~> (task # "dead" \/ Mapped \ {Mmap} = {})

(* docs/apps.md: when the next application is loaded, the mappings of the  *)
(* process that exited have been reclaimed.                                *)
ReclaimedBeforeLaunch == pc = "segments" => Mapped = DOMAIN mappings
=============================================================================
