# Pippin in TLA+

Pippin is a small operating system for one x86-64 CPU: a Rust kernel with C,
C++ and assembly parts, a compositor with its own window server, and C# programs
(a window broker, a client library, a shell) that run on the host and talk to the
guest over the serial line COM2. This directory holds TLA+ specifications of its
stateful parts, the TLC models that check them on small instances, and TLAPS proofs
for every instance. Source paths are relative to the repository root; `kernel` files
without a directory are in `kernel/rust/src/`.

`PROJECT.json` is the index: components, runs with their properties, one mutant per
property, the source lines of every definition, hazards and theorems. The counterexamples
of section 5 are beside it and not among its runs.

## 1. The system and its inventory

| Part | Code | State | Operations | Concurrency and failure | Modules |
| --- | --- | --- | --- | --- | --- |
| Scheduler, context switch | `sched.rs`, `kernel/asm/isr.S` | task slots, ready ring, `CURRENT`, quantum, saved frames, FP areas, kernel stacks | `init`, `on_tick`, `on_yield`, `on_exit`, `spawn_user` | timer against yield, exit and respawn | `Sched`, `RoundRobin`, `SchedProofs` |
| Message ports | `ipc.rs`, system calls 3 and 4 | ports with an owner and a ring of events | `create`, `send`, `send_system`, `recv` | preempted senders, the timer interrupt, full rings | `Ipc`, `PortQueues`, `EventsProofs` |
| Event Manager, main loop | `event.rs`, `lib.rs`, `interrupts.rs` | boot port, progress of the workers | `core_main`, `worker_a`, `on_tick`, keyboard bytes | a port used before it exists, a full port | `Events`, `EventsProofs` |
| PS/2 driver | `ps2.rs` | `MOUSE_BYTES`, `MOUSE_INDEX`, packet size | `init_mouse`, `poll` | two devices on one data register, late answers | `Ps2` in `Boot`, `BootProofs`, `Events` |
| Object zones | `zones.rs` | zones with an owner, objects with a generation | `create`, `alloc`, `write`, `read`, `free` | stale and forged handles, wrap | `Zones`, `MemoryProofs` |
| Frame allocator | `mem.rs` | bitmap, free count, hint, boot memory map | set-up, `alloc_frames`, `free_frames` | system calls inside the scan | `Frames`, `MemoryProofs` |
| Application loader | `elf.rs`, `mm.rs`, system calls 0 and 2 | page tables, `ACTIVE_MAPPINGS`, `USER_MAPPED` | parse, load, roll back, reap, mmap, exit, device pages | every allocation may fail | `PageTables`, `Loader` |
| Kernel heap | `heap.rs` | the heap's words, the free list | `alloc`, `dealloc` | reuse of freed memory | `Heap`, `MemoryProofs` |
| Window server | `window_server.rs` | windows, stack, focus, grab, surfaces, event queue | the `W*` commands, pointer packets, keys | commands of several clients against the pointer | `WindowServer`, `WindowProofs` |
| Window broker | `apps/csharp/Pippin.Broker/Program.cs`, `bridge.rs` | client tasks, the guest lock, owners, the acknowledgement channel | connect, handshake, command, event, disconnect | tasks interleave; clients go away, the guest stops, lines come late | `Broker`, `BrokerProofs` |
| Client library and toolkit | `Pippin.Window/WindowClient.cs`, `Pippin.UI/Window.cs` | size, pending events, close request, widget state | show, handle an event, redraw, close | resizes and clicks while a picture is being sent | `App`, `Widgets` |
| Compositor and desktop | `compositor.rs`, `desktop.rs` | native windows, focus, filter, text fields, scroll, press | open, close, minimise, press, release, keys, Tab | windows replaced or removed between press and release | `Desktop`, `DesktopProofs` |
| Command shell, text display, host shell | `cli.rs`, `display.rs`, `desktop.rs`, `Pippin.Shell/Program.cs` | command line, text screen and VGA registers, keyboard capture, action queue, the shell's stack of pending sends | keyboard and serial input, `execute`, opening and closing the desktop, `poll_bridge`, `SendAsync`, `HandleAsync` | four sources open and close the desktop; an action arrives while an acknowledgement is awaited | `TextConsole`, `Console`, `Shell`, `ShellProofs` |
| Files and disk | `file.rs`, `ahci.rs` | the adapter's ports and mapped pages, the walk of a FAT chain, the command table, the DMA buffer | `discover`, `read_sector`, `fat_bundle` | corrupt links, failing and late reads, mappings that fail | `Fat`, `Ahci`, `Disk`, `Boot`, `BootProofs` |
| Control layout | `kernel/cpp`, `ffi.rs` | none | layouts evaluated by the compiler | none | not modelled |
| UI widgets, examples | `Pippin.UI`, `apps/csharp` | pressed, checked, focus | mouse handlers | clicks before, during and after a picture is sent | `Widgets` in `App` |
| Boot, CPU tables | `kernel/c`, `gdt.rs`, `idt.rs`, `apic.rs`, `acpi.rs`, `cpu.rs` | registers | straight-line setup | none | not modelled |
| PCI, serial | `kernel/cpp`, `serial.rs` | device registers | register I/O | none | not modelled |

The parts meet in five places. The timer and the system calls enter the scheduler
and the ports. The loader takes frames from the allocator and gives a task to the
scheduler. `core_main` takes disk and mouse one after the other. Input goes from
`ps2::poll` through the boot port to the command shell, and from there to the compositor,
the window server or COM2. The broker and the shells are at the other end of COM2.

## 2. The modules

**Sched.** Each entry of `sched.rs` is one action, because each runs with interrupts
masked. A saved context or FP area is abstracted to the task it belongs to, so that a
switch that restores the wrong one is visible. `waited` is a history variable, saturated
one past the bound. `RoundRobin` is the promise, one running task and a first-come
queue; `Sched` refines it with the ring read from its head as the queue.

**Ipc.** A kernel thread's `send` is two actions, since it reads its pid before interrupts
are masked; system calls and interrupts are one. `PortQueues` is the promise, an owned
queue per port. **Events** composes `core_main`, `worker_a`, the timer, the keyboard and
the application on the boot port of `Ipc`.

**Zones.** Handles are the integers the code packs, with a generation of width `GenSpan`.

**Frames.** The bitmap is set up from a memory map of either boot loader, in bytes: usable
regions shrink to whole frames, reserved ones grow to them. The scan of `alloc_frames`
takes one iteration per step. A system call allocates in one step, since it runs with
interrupts masked, but between any two steps of the scan. `collided` is a history variable: such a call
took a frame the scan had already counted. From then on nothing is claimed, and the
behaviour is not followed beyond the calls under way (section 5).

**PageTables.** Tables of four levels, with `Fan` entries each: opening a level with an
allocation that may fail, splitting huge pages, the user bit of every level, unmapping, the
walk that checks a system call's pointer. `install_initial` and the tables Limine leaves
are two initial states. **Loader** parses the program headers, loads byte by byte, rolls back,
reaps and loads again, with mmap and exit of the application in between. A byte
of a page tells where it came from, so a page that was not zeroed is visible. Device pages
are mapped over the tables of `install_initial` only: `map_mmio_page` does not look
for huge pages, and what it meets under Limine depends on Limine.

**Heap.** The heap's memory word by word: headers are words that owners could overwrite.
`HeapAssumption` says that the heap is a whole number of alignment units and that an
alignment is one word or an even number of them, as `HEAP_SIZE` and powers of two are.

**WindowServer.** One action per command of the protocol and per kind of pointer packet.
Positions are abstracted to which window, and which part of it, the pointer is on.

**Broker.** One process per client task, the task that reads the guest, and the guest. A
client may disconnect at any step. The guest lock, the channel of acknowledgements,
`TryAdd`/`TryRemove` of owners and the `finally` blocks are separate steps. `stray` is a
history variable: the guest has sent, or will send, a line that answers no command. `crossed` is
another: something done for one client has removed another's entry in `owners` or destroyed
another's window. What is claimed of ownership is claimed until then (section 5). A stopped guest
closes the channel; `ChannelClosedException` derives from `InvalidOperationException`, so its
clients get `ERR|Rejected`. A command knows whether its line fits the 384 bytes of `bridge.rs`
(`fits`): the broker counts characters, so a line that passes its check of 380 may be longer in bytes,
and the guest drops such a line and answers nothing. Clients in `Ascii` write none. Clients in `Reads`
read what they are sent; to any other, a write need not end while the connection is open (`Stalled`
says so of the task that reads the guest). Unread bytes lost by a socket reset are not modelled.

**App.** One toolkit window over `WindowServer` (which it EXTENDS) and a broker that
answers in order. It sends WB and the WPs one by one, with pending events between.
Other clients create, show, hide and destroy windows of their own meanwhile (`Other`); they take
the focus, cover the window, fill the table so that the application's WC is refused, and their WD ends
the press of any window. `lost` is a history variable: a WD has ended a press of this one.
**Widgets** holds the mouse handlers of panels, buttons, check boxes and text fields; an event changes the
widgets, and what they answer decides whether the window is drawn again. A picture is the
size and the state of the widgets at the time it was painted (`Look`), so an old or a mixed one is visible.

**Desktop.** Native windows as records with rows of controls; presses, releases, keys, Tab,
wheel, and the updates that host processes send. `DesktopAssumption` says of the built-in windows what
`shell.cc` and `Compositor::new` make of them: distinct ids, no more than fit, unscrolled and at their own
size.

**TextConsole** is the VGA text screen as cells and a cursor. **Console** is the kernel's command
shell over it: keyboard and serial bytes with the prefix and CR/LF state, `execute`, and
the desktop that replaces the text screen and gives it back, the VGA registers included.
The registers are those of the firmware's text mode, with the lock bit on the CRTC that
has to be cleared before they can be written.
**Shell** EXTENDS `Console`. The host shell's recursion (`SendAsync` handles actions it meets
while waiting for an acknowledgement, and handling sends again) is an explicit stack. It
starts after the handshake; actions read during it are discarded by the code.

**Ps2.** `init_mouse` one command and one answer at a time, then `poll` byte by byte. The
controller, keyboard and mouse are external; a read takes a byte of either device. The
controller may refuse a byte, and the mouse may be missing or late.

**Fat.** `fat_bundle` sector by sector. The disk's contents are chosen when they are
first read and kept, so every disk over the small sets is covered.
**Ahci.** `read_sector`, against an external adapter that may be slow, break off or complete
a command after its read gave up. **Disk** puts the reads of `Fat` on `Ahci` in the order
of `core_main`: a probe of sector 0, whose result is only logged, then `fat_bundle`.
**Boot** puts `discover`, over 32 ports whose registers lie in two pages that may fail to be
mapped, before `Disk`, and `Ps2` behind it. `BootAssumption` says that registers that begin below the
initial mapping's end do not cross it: PCI aligns them to their size, which is two pages.

## 3. The runs

| Run (module) | Question | Bounds and why they suffice |
| --- | --- | --- |
| `sched` (`Sched`) | Is the ring exact, does each task run its own context on its own stack, is waiting bounded, does only the last exit park the CPU (`SchedInv`); does every ready task run (`ReadyRuns`); is the promise kept (`ImplementsRoundRobin`)? | the code's 4 slots, quantum 3 (first, middle and last tick); all 4 tasks may exit and the application is respawned |
| `events` (`Events`) | Are order and sender right under preemption (`EventsAccounted`, `SourceGenuine`, `ImplementsPorts`); is worker_a heard exactly once, does each key arrive or get dropped at a full port (`EventsHeard`)? | a port of 2 places, so that it fills, empties and wraps; 3 keys |
| `zones` (`Zones`) | Is a stale handle refused until the generation wraps (`StaleRejected`), and a zone changed by its owner only (`OnlyOwnerTouches`)? | generations of 3 and 3 frees reach the wrap |
| `frames` (`MCFrames`) | Is no frame handed out twice or out of reserved memory, is the count exact (`FramesSound`); does None mean full (`NoneMeansFull`)? | 7 frames of 4 bytes, 4 memory maps with holes, regions that end inside frames, a malformed entry and an end past the last address; requests of 1 to 3, so that the scan wraps and meets the hole |
| `loader` (`MCLoader`) | Is every frame accounted for after failure, exit and reload (`FramesAccounted`, `ExitedReclaimed`); do system calls reach exactly the mapped pages (`UserAccessExact`); does an application start in what its file describes and keep its pages (`ImageInPlace`, `LivePagesKept`)? | 4 entries per table, 2 bytes per page, 14 free frames, too few for some loads; 17 images: segments that cross, share and overlap pages, and one defect each |
| `heap` (`Heap`) | Do blocks tile the heap, out of the owners' reach (`HeapSound`)? | 20 words, 2 sizes, 2 alignments: split, reuse, exact fit (`heap.rs` never joins freed blocks) |
| `window_server` (`MCWindowServer`) | Focus on top and told (`FocusSound`), captures sound (`CaptureSound`), events to the right windows (`EventsSound`)? | 3 ids for 2 windows, so that the table fills; ids symmetric |
| `broker` (`Broker`) | Are answers paired (`AnswersPaired`), and until an id is crossed, events private (`EventsPrivate`) and only own windows commanded (`CommandsOwn`); while the reading task neither fails nor hangs and the lines fit, is every command answered and every client cleaned up (`AnsweredWhileRead`)? | 2 clients that compete for 1 id, one of which need not read and the other of which may write a line that does not fit; 1 unasked line under way; stray lines (`Noisy`) with 1 client, whose pairing is lost anyway |
| `app` (`App`) | Is the picture whole and that of the widgets when the application has caught up, is no widget left pressed unless a WD has ended the press (`SettledPicture`); does a close end it (`Closes`)? | 2 sizes, 2 drags, 2 pending events; a text field, a button and a check box; 3 ids for 2 windows and 2 commands of other clients, enough to create a window and destroy it while the button is down |
| `desktop` (`MCDesktop`) | Is the focus in a scope on screen (`FocusInScope`), are edits sound (`EditsSound`), is the scroll bounded and does it follow Tab (`ScrollSound`), does a control fire only on press and release (`FiresSound`)? | 3 windows, a search field, one result that matches, three lines of which two are shown |
| `shell` (`MCShell`) | Is every action handled exactly once (`ActionsOnce`, `ActionsHandled`); is what is shown current (`ShownIsCurrent`); does the text screen come back as it was, and is it never drawn over the desktop (`ScreenSound`)? | 3 keys and Esc, or 2 keys and any other input, with a host; 5 inputs without one; a screen of 2 by 2, so that it wraps and scrolls; a command line of 3 |
| `boot` (`MCBoot`) | Are registers touched in mapped pages only (`RegistersMapped`), reads in the volume (`ReadsInVolume`) and answered with their own sector (`ReadsOwnSector`), is the file that of its chain (`FileIsChain`), are mouse events whole packets (`PacketsSound`), does the boot get past disk and mouse (`BootGoesOn`)? | the 32 ports of the code; `u32` cut to 32, sectors of 4 bytes, 2 directory rounds, files of 1 to 3 sectors and one byte more than fits; 1 or 2 sectors per cluster, a FAT that is too small; 2 keys, 2 packets, polls of 3 bytes |

The largest, `app`, has 570,486 states; `boot` has 373,185, `zones` 357,014 and `broker` 64,357. Several
properties are conjunctions: `SchedInv`, for one, holds all the invariants of the scheduler,
and the first invariant of most runs includes the type invariant. The parts are definitions
of their own in the modules, so that each can be checked alone. With a second window id
`broker` has six times the states and its liveness check takes longer than is useful;
for its three safety properties the instance does not matter, since they are proved.

`CHECK_DEADLOCK FALSE` is used where the system may stop: the CPU is parked, a
reader is done, or the bounded supply of keys, clients and drags is used up.

## 4. Fairness

- `Sched`: the timer ticks for ever, and boot runs to `init`.
- `Events`: the scheduler switches to each thread again and again (what `ReadyRuns` in
  `sched` shows), and strong fairness for a thread's own steps, since it is preempted
  again and again but not for ever.
- `Loader`, `Boot`: code that runs on once called. `Boot` assumes nothing of disk, keyboard
  and mouse: the waits of the code are bounded, and their ends are steps of the code.
- `Broker`: each task steps when it can and the guest handles its lines. The guest lock is
  a `SemaphoreSlim`, which serves waiters, so taking it is strongly fair. Writes to clients have no
  timeout (`Program.cs:163`), so an answer is sure to be written only to a client in `Reads`, and the
  reading task is sure to go on only while it is not `Stalled`. `AnsweredWhileRead` has as premises
  what the code does not ensure: the reading task does not fail, it is not stalled for
  ever, and lines fit. Section 5 shows that each of the three is needed. A client that does not
  read its answers is allowed, and shown to hold up nobody else.
- `App`, `Shell`: the one `async` flow steps when it can; the guest answers.

## 5. Where the code and its documents disagree

Each of these is one property that a document or comment of the repository states (the
last three: that the code itself draws or intends), and that TLC refutes with a counterexample.
`tlc -config <file> <module>` prints it. Where the configuration is that of a run, or names another property,
its `INVARIANTS` and `PROPERTIES` are to be replaced by `INVARIANT` and the name of the property,
or by `PROPERTY` for the `Answered...` ones.

| Configuration (module) | Property | The document, and what the code does |
| --- | --- | --- |
| `MCFrames` (`MCFrames`) | `SingleThreaded` | `mem.rs:303`: "statics used single-threaded during boot, before the scheduler". `alloc_frames` is also called by `Desktop::open` (through `mm.rs:89`) and by the mmap system call (`syscall.rs:47`), and a preemption inside a scan hands one frame to both. |
| `MCLoaderDoc` (`MCLoader`) | `ReclaimedBeforeLaunch` | `docs/apps.md:41`: mappings "are reclaimed before the next app launch". The mmap page (`syscall.rs:45-54`) is not in `ACTIVE_MAPPINGS` and stays mapped. |
| `MCBrokerStray` (`Broker`) | `Paired` | `docs/windowing.md:71-73`: `OK` or `ERR` to each client's message. A second `R\|2`, sent after 400 ms, or an `E\|` line of the desktop is taken for an acknowledgement (`Program.cs:51, 61`), and every later answer belongs to the command before. |
| `MCBrokerOrphan` (`Broker`) | `DestroyedOnDisconnect` | `docs/windowing.md:71`: "On disconnect it destroys the client's windows." When the `OK` of a WC cannot be sent, the owner is removed first (`Program.cs:108-111`) and no WD follows. |
| `MCBrokerDestroy` (`Broker`) | `DestroysOwn` | `docs/windowing.md:93`: "The broker validates ownership". The clean-up gives the id up and then sends WD without looking again (`Program.cs:120-121`), and may destroy a window created in between. Clients draw ids at random, so this is rare. |
| `MCBrokerUnread` (`Broker`) | `AnsweredWhenFit` | `docs/windowing.md:73`: "The broker replies `OK` or `ERR` to each client." The reading task catches `IOException` only (`Program.cs:48`); an event for a disposed client ends it, and no command is answered any more. |
| `MCBrokerUnread` (`Broker`) | `AnsweredWhenPumped` | The same sentence. `SendGuestAsync` counts 380 characters (`Program.cs:129`), the guest 384 bytes (`bridge.rs:6`), and a line that is longer in bytes is dropped without an answer (`bridge.rs:24-36`). Its sender waits with the guest lock, and everyone else for the lock. The document also says that commands are ASCII; `WindowClient` keeps to that, the broker does not check it. |
| `MCBroker` (`Broker`) | `AnsweredWhenBoth` | The same sentence. The reading task waits for the write of an event to end (`Program.cs:47, 163`); a client that does not read its socket stops it, and with it the answers to all the others. |
| `MCAppShrink` (`App`) | `Redrawn` | `docs/windowing.md:54`: "The client redraws after resize". A window made smaller between WB and a WP has the WP rejected, and the exception ends the application. |
| `MCDesktop` (`MCDesktop`) | `PressSeesFilter` | `docs/control-manager.md:429`: "hidden results do not receive hover or clicks". `pointer_down` removes the window from the stack (`compositor.rs:1018`) before the filter looks it up there. |
| `MCDesktopHeader` (`MCDesktop`) | `HeaderNoFocus` | `docs/control-manager.md:188, 193`: controls are clipped below the title bar and hit-testing follows. `pointer_down` does not check `content_clip`. |
| `MCShellCapture` (`MCShell`) | `CaptureTied` | `cli.rs:225`: "Keep keyboard capture tied to the actual Terminal surface". Nothing sends the `X\|terminal` that ends the capture when the Terminal is closed with its button. |
| `MCBoot` (`MCBoot`) | `SizesAgree` | `ps2.rs:56`: "Failure is non-fatal: Pippin simply keeps 3-byte mode." A key byte read as the answer to a command (`ps2.rs:40`) leaves the mouse at four bytes and the driver at three. |
| `MCAppShrink` (`App`) | `FocusDrawn` | `TextField.Paint` draws the border by `Focused`. A press beside a focused field takes its focus (`Widgets.cs:229-233`) but answers false, so `Window.cs:37` does not draw again and the old border stays. |
| `MCAppShrink` (`App`) | `OneFocus` | A field gives its focus up when a press misses it, so that one field has it. `Panel.MouseDown` stops at the first child that answers (`Widgets.cs:27`), and a later field that had the focus keeps it. |
| `MCAppShrink` (`App`) | `HeldSound` | A button holds the press from MouseDown to MouseUp (`Widgets.cs`). WD of any window clears `pressed` (`window_server.rs:162-163`), also when the button is down on another client's; that window is never told MouseUp, and its widget stays pressed until the next click. |

Two further behaviours of the broker need three clients and were met while proving
ownership; they are why `EventsPrivate` and `CommandsOwn` are claimed only until `crossed`.

- *Events.* The reading task has looked up the owner d of an event and waits to send it. The connection
  of d is gone, its `finally` gives the id up, and the WC of client e enters the id again. The
  send fails, and `owners.TryRemove(id)` (`Program.cs:48`) removes the entry whoever has it, now e's. The window of e is
  created without an owner, the WC of a client f passes the check (`Program.cs:94`), and
  until the guest refuses it the events of e's window go to f, though e is connected.
- *Commands.* The WD of client c2 has passed the check and waits for the lock when c2 goes away and a
  failed event disowns its id. The WC of c3 is accepted for the same id; the late clean-up of a third
  client, which had the id before, destroys c2's window (`DestroysOwn` above); the guest
  creates c3's; and the waiting WD of c2 destroys it.

Ids are drawn at random by the clients, so both are as rare as `DestroysOwn`.

## 6. The proofs

All hold for every value of the constants under the named ASSUMEs of the modules. Each module
of proofs begins with a USE of the provers: a leaf is tried with Zenon for a moment, then with SMT, then with Zenon again.

- **SchedProofs.** `SchedSafety`: `Spec => []SchedInv`. `RunQueueExact` is not inductive: that
  an enqueue never overwrites the ring needs that its entries are distinct ready tasks
  other than `CURRENT`, and that their number is `count`. `SchedInv` adds this, and the
  position of each task in the ring for `BoundedWait`. The ring is treated through
  lemmas on `Slot` (`SlotInjective`, `SlotShift`, `EnqueueAppends`, `AdvanceShifts`); every
  switching action goes through `SwitchPreserves`. From it `RunQueueTheorem`,
  `ContextTheorem`, `BoundedWaitTheorem`, the action property `DeadTheorem` (a dead task
  is revived by `spawn_user` only), and `RoundRobinTheorem`: the ring read from its head is the
  queue of `RoundRobin`, step by step.
- **EventsProofs.** `SourceGenuineTheorem` needs that a pid a sender has read before it was
  preempted is its own, and that a port without an owner is empty (`IpcInv`).
  `PortsTheorem`: a ring read from its head is the queue of `PortQueues`. `EventsUsePorts`
  shows that the composition takes only steps of `Ipc`, from `EventsInv` (the port numbers passed
  around are port numbers, and `core_main`'s port exists when it is looked up); so
  both theorems carry over (`SourceInUse`, `PortsInUse`). `EventsAreAccounted`: keys arrive in order, once, and none
  vanishes. `AccountInv` says where each can be: the keys that wait are
  in one port only, in order and all later than those received, and the worker's event
  is in no slot, in exactly one, or received, as `posted` and the call under way say.
- **MemoryProofs.** Zones: `StaleTheorem`, `OwnerTheorem`. `ZonesInv` ties the generation of an object to the
  count of its frees modulo `GenSpan`; the lemmas are about `\div` and `%` on packed
  handles (`Packed`, `ModNear`). Heap: `HeapTheorem`. `HeapSound` speaks of the free list as a set, the code
  follows words; `HeapInv` says that there is a numbering of the free list, from its head to null
  without repetition (`Listed`), that free and allocated blocks together tile the heap, each by its own
  size word (`Tiles`), and that the word before each payload leads to its
  block (`Owned`). Unlinking, splitting and freeing are lemmas about such a list
  (`ListTake`, `AllocKeeps`, `DeallocKeeps`); that an owner's writes disturb none of it is `FillKeeps`.
  Frames: `FramesSafety`, and from it `FramesSoundTheorem` and `NoneTheorem`. `FramesInv` adds what the
  scan knows: the frames of the current run are clear unless a system call collided
  (`TrailFree`), and every run it has passed has a used frame (`Covered`). That the
  set-up clears exactly the whole usable frames rests on lemmas about rounding (`DivMeaning`,
  `DivCeilMeaning`).
- **WindowProofs.** `FocusIsSound`, `CaptureIsSound` and, a property of steps, `EventsAreSound`, from one invariant.
  `WindowInv` adds to the two invariants that ids on the stack are distinct (in the type
  invariant) and that a press is of the window that was told MouseDown. `OnTop` says without CHOOSE
  which window `Topmost` returns; what removing, raising and changing a window do to
  the stack are lemmas, and each command is one of these and a list of events.
- **BrokerProofs.** `AnswersPairedTheorem`. That answers are paired is not inductive: it needs where
  the lines of a command can be. `BrokerInv` says that the guest lock is held by the one
  client that waits for an answer, and that without stray lines one command or its answer is
  under way, in guest input, guest output or the acknowledgement channel, and belongs to that client
  or the handshake (`OneUnderWay`); or none is, because the guest has stopped or has dropped a line that did not
  fit, and then no line is under way that the client could take for its answer. Every action has one of three shapes with regard to these lines (it leaves
  them alone, sends a command, or takes an answer), and each shape is proved once.
  `EventsArePrivate` and `CommandsReachOwn` rest on `OwnInv`: until `stray` or `crossed`, a client that
  has a window in the guest, an event of one under way, or a command on one past the check is in
  `owners` for it or gone (`Keeps`, `Standing`), and what the reading task is about to send has an owner who is
  its receiver or gone (`PumpOwn`).
- **BootProofs.** Each theorem has its own invariant. `RegistersTheorem`: pages reached are low or mapped
  (`HbaInv`). `OwnSectorTheorem`: a command that outlives its read can only be the probe's, and the
  one read that may follow wants the same sector (`CommandInv`). `InVolumeTheorem`: from `mount` on
  the geometry is one that was accepted (`VolumeInv`); the lemmas bound the sector of a cluster and of a FAT link.
  `FileTheorem`: `ChainInv` says how many links have been followed, that they are kept as they were
  read, and that what is copied is the clusters up to there. `PacketsTheorem`, of `Ps2` alone: `PacketInv` says, for an
  undisturbed conversation, which commands the mouse has taken at each step of `init_mouse` and hence
  its packet size, and, once it streams, that the bytes not yet read, those in the buffer and those of the
  events are consecutive (`Polled`). `MouseTheorem`: `BootSpec => Ps2Spec`, so that it holds of the boot
  (`BootPackets`).
- **ShellProofs.** `ConsoleScreen`: `ConInv` says that the console is in one of two states. Without the desktop it draws, in
  text mode, and every cell has the glyph of the rows printed so far (`Text`); with the desktop the
  same is true of the saved cells and registers, and the screen is the picture. Each byte
  keeps `Text` through wrapping and scrolling (`PutShows`), and each of the ways in and out of the desktop leads from
  one state to the other, for every size of the screen. `ShellActions`: `CallsInv` puts the key of
  each action at its place, in the input or in one of the nested calls; `Once` says that no key is at two
  places, none at a place and handled, and none missing. Arriving, being set aside by a waiting call, a call
  starting, returning and handling are lemmas about that table (`ArriveAction`, `TakeKept`, `Push`, `Pop`), and every step of the
  shell is one of them. `ShellShown`: the last surface of the Terminal that is under way has the
  current command line, and if none is, the guest shows it (`Fresh`).
- **DesktopProofs.** `DesktopFocus`, `DesktopEdits`, `DesktopScroll` and, a property of steps, `DesktopFires`, from
  one invariant. `DeskOK` says of a desktop that its windows are distinct and typed, that each is scrolled
  within its bounds, that edits belong to editable rows, and that the focus is in its scope. It is shown
  of each operation the handlers are made of (`RepairKeeps`, `RestoredKeeps`, `SurfacedKeeps`, `ChromeKeeps`, ...). Two facts had
  to be added: a maximised window has a size to go back to, and a test window has no text field, which
  is why it may be closed without telling the edits. Windows are reasoned about by id and not by place
  (`Sets`, `Drops`, `Adds`), since nearly every handler raises one. `DeskInv` adds that a pressed control is the one
  the button went down on, which `FiresSound` needs, and what Tab leaves in view. `MaxScroll` is the greatest of a
  set of heights, which exists by induction on the number of rows (`Most`).

The library's induction theorems cannot be used, but what they would give can be derived from
the well-foundedness of the numbers: every non-empty set of numbers has a least one
(`LeastOf`), which gives `SetInduction`, and with it the values of the recursive function
behind `Chain`, the numbering of the free list and the greatest of a finite list.

Only model-checked: all liveness (`ReadyRuns`, `EventsHeard`, `ExitedReclaimed`,
`AnsweredWhileRead`, `Closes`, `ActionsHandled`, `BootGoesOn`, and the fairness in
`ImplementsRoundRobin`), which needs ENABLED; the four invariants of `Loader`, whose page tables are walked
by arithmetic on four levels of indices and whose frames are found by `Min`; and
`SettledPicture` of `App`, which filters sequences of events.

## 7. What is not modelled

- *Painting*, fonts, themes and text (a third of `compositor.rs`, the end of `window_server.rs`): functions
  of the state that is modelled. Positions are abstracted to the part under the pointer, so dragging and
  clamping are left out.
- *Control layout*: constant expressions that the compiler evaluates, with static assertions.
- *CPU tables and set-up* (`gdt.rs`, `idt.rs`, `apic.rs`, `acpi.rs`, `cpu.rs`, PIC and PIT in
  `interrupts.rs`, `kernel/c`): straight-line register writes. What they establish (one timer, masked system calls)
  is how the actions are cut.
- *Serial driver, PCI enumeration, foreign function declarations*: register I/O without state of their own.
- *The parser of the bundle's text* (`file.rs`): one pass over bytes that keeps nothing; the checks of single
  fields of the ELF header are one flag.
- The shell's handshake; the broker's 45 s limit; lost PS/2 bytes; unread bytes lost by a
  socket reset. In `Shell`, lines longer than the buffer of `bridge.rs`: the host shell has no limit of its own and
  nothing is shown of such a line. (In `Broker` they are modelled.)
- The `console` command (`cli.rs:445`) drops the desktop and with it the windows of the broker's clients. `Console` has
  this; the guest of `Broker` loses its windows only by stopping.
- `Ahci` writes the command table in one step: the adapter looks at it only once the command is issued.
- `Ps2` has one step, `Refused`, for a controller that does not take the request for its configuration byte and for one that does
  not deliver the byte in time (`ps2.rs:58`); `init_mouse` returns false for both.
- The order of keys under the host shell's recursion is not promised by any document,
  and the code does not keep it; no property states it.

## 8. What could come next

1. *Compose.* The toolkit over `Broker` instead of a broker that answers in order, and a second toolkit
   window in place of the arbitrary commands of `Other`; both need a smaller `Broker`, whose liveness is what takes the time.
2. *Refine.* An abstract window server (a stack of windows with a focus) and an abstract broker (a map
   of owners, without stray lines).
3. *Prove.* `FramesAccounted` of `Loader`, over page tables whose walk is a recursive function;
   `SettledPicture` of `App`; the abstract window server of point 2.
