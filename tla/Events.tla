------------------------------- MODULE Events -------------------------------
(***************************************************************************)
(* The Event Manager in use: core_main (kernel/rust/src/lib.rs) opens the  *)
(* boot port while worker_a already tries to post to it, then alternates   *)
(* between polling the PS/2 controller and draining the port; the timer    *)
(* interrupt and the native application send to the same port.             *)
(*                                                                         *)
(* Value 0 stands for a timer tick or an application value, k > 0 for the  *)
(* k-th byte the keyboard produced.  The slot's event_port is written by   *)
(* its own task only, so event::poll's read of it is joined to recv.       *)
(***************************************************************************)
EXTENDS Ipc, Integers

CONSTANTS Boot,      \* the task of core_main
          Worker,    \* the task of worker_a
          PollLimit, \* the bytes one ps2::poll takes at most
          MaxKeys,   \* bound: bytes the keyboard produces
          MaxTicks,  \* bound: 10 Hz ticks
          AppSends   \* bound: sends of the application

ASSUME EventsAssumption ==
  /\ {Boot, Worker} = KernelTask /\ Boot # Worker
  /\ MaxKeys \in Nat /\ Value = 0 .. MaxKeys

VARIABLES
  pc,        \* where core_main is
  mainPort,  \* MAIN_PORT
  bootPort,  \* BOOT_PORT
  eventPort, \* SLOTS[t].event_port
  posted,    \* worker_a's local of that name
  scanned,   \* bytes taken by this ps2::poll
  nextKey,   \* the keyboard's next byte
  dropped,   \* history: keys that found the port full
  got,       \* history: keys core_main received, in order
  gotPost,   \* history: how often it received worker_a's event
  ticks,     \* ticks the timer may still send
  app        \* sends the application may still do; -1 before its start

progVars == <<pc, mainPort, bootPort, eventPort, posted, scanned, nextKey,
              dropped, got, gotPost, ticks, app>>
allVars == <<vars, progVars>>

EInit ==
  /\ Init /\ current = Boot
  /\ pc = "create" /\ mainPort = 0 /\ bootPort = 0
  /\ eventPort = [t \in Task |-> 0]
  /\ posted = FALSE /\ scanned = 0 /\ nextKey = 1
  /\ dropped = {} /\ got = <<>> /\ gotPost = 0
  /\ ticks = MaxTicks /\ app = -1

-----------------------------------------------------------------------------
(* core_main. *)

OpenPort ==
  /\ current = Boot /\ pc = "create"
  /\ Create
  /\ pc' = "main"
  /\ UNCHANGED <<mainPort, bootPort, eventPort, posted, scanned, nextKey,
                 dropped, got, gotPost, ticks, app>>

(* The port create returned. *)
BootsPort == CHOOSE p \in Port : owner[p] = Pid(Boot)

StoreMainPort ==
  /\ current = Boot /\ pc = "main"
  /\ mainPort' = BootsPort
  /\ pc' = "slot"
  /\ UNCHANGED <<vars, bootPort, eventPort, posted, scanned, nextKey,
                 dropped, got, gotPost, ticks, app>>

SetEventPort ==
  /\ current = Boot /\ pc = "slot"
  /\ eventPort' = [eventPort EXCEPT ![Boot] = mainPort]
  /\ pc' = "boot"
  /\ UNCHANGED <<vars, mainPort, bootPort, posted, scanned, nextKey,
                 dropped, got, gotPost, ticks, app>>

SetBootPort ==
  /\ current = Boot /\ pc = "boot"
  /\ bootPort' = mainPort
  /\ pc' = "spawn"
  /\ UNCHANGED <<vars, mainPort, eventPort, posted, scanned, nextKey,
                 dropped, got, gotPost, ticks, app>>

(* load_and_spawn passes the application the boot port. *)
SpawnApp ==
  /\ current = Boot /\ pc = "spawn"
  /\ eventPort' = [eventPort EXCEPT ![UserTask] = mainPort]
  /\ app' = AppSends
  /\ pc' = "scan"
  /\ UNCHANGED <<vars, mainPort, bootPort, posted, scanned, nextKey,
                 dropped, got, gotPost, ticks>>

(* ps2::poll takes one more byte; its event is lost when the port is full. *)
ScanKey ==
  /\ current = Boot /\ pc = "scan"
  /\ scanned < PollLimit /\ nextKey <= MaxKeys
  /\ SendSystem(mainPort, nextKey)
  /\ dropped' = IF Accepts(mainPort) THEN dropped ELSE dropped \cup {nextKey}
  /\ nextKey' = nextKey + 1
  /\ scanned' = scanned + 1
  /\ UNCHANGED <<pc, mainPort, bootPort, eventPort, posted, got, gotPost, ticks, app>>

(* ps2::poll finds no byte, or has taken its fill. *)
ScanDone ==
  /\ current = Boot /\ pc = "scan"
  /\ pc' = "drain"
  /\ scanned' = 0
  /\ UNCHANGED <<vars, mainPort, bootPort, eventPort, posted, nextKey,
                 dropped, got, gotPost, ticks, app>>

(* Mutant: the drain loop reads the next slot of the ring. *)
TakenNext == events[eventPort[Boot]][(head[eventPort[Boot]] + 1) % QueueLen]
(* The event that recv returns to event::poll. *)
Taken == events[eventPort[Boot]][head[eventPort[Boot]]]

(* One turn of the drain loop. *)
Drain ==
  /\ current = Boot /\ pc = "drain"
  /\ Recv(eventPort[Boot])
  /\ got' = IF Taken.value > 0 THEN Append(got, Taken.value) ELSE got
  /\ gotPost' = IF Taken.from = Pid(Worker) THEN gotPost + 1 ELSE gotPost
  /\ UNCHANGED <<pc, mainPort, bootPort, eventPort, posted, scanned, nextKey,
                 dropped, ticks, app>>

(* The drain loop ends when poll returns None; after hlt it starts over. *)
Drained ==
  /\ current = Boot /\ pc = "drain"
  /\ ~MayReceive(eventPort[Boot])
  /\ pc' = "scan"
  /\ UNCHANGED <<vars, mainPort, bootPort, eventPort, posted, scanned, nextKey,
                 dropped, got, gotPost, ticks, app>>

-----------------------------------------------------------------------------
(* worker_a: post until the port takes the event. *)

WorkerPost ==
  /\ ~posted
  /\ BeginSend(Worker, mainPort, 0)
  /\ UNCHANGED progVars

(* Mutant: the worker takes a rejected post for done. *)
PostResultIgnored == TRUE
(* What event::post returns to the worker. *)
PostResult == Accepts(call[Worker].id)

WorkerPosted ==
  /\ FinishSend(Worker)
  /\ posted' = PostResult
  /\ UNCHANGED <<pc, mainPort, bootPort, eventPort, scanned, nextKey, dropped,
                 got, gotPost, ticks, app>>

-----------------------------------------------------------------------------

(* event::on_tick, in the timer interrupt. *)
OnTick ==
  /\ ticks > 0 /\ bootPort # 0
  /\ SendSystem(bootPort, 0)
  /\ ticks' = ticks - 1
  /\ UNCHANGED <<pc, mainPort, bootPort, eventPort, posted, scanned, nextKey,
                 dropped, got, gotPost, app>>

(* The application sends to the port it was given, and exits at last. *)
AppSend ==
  /\ app > 0
  /\ SyscallSend(eventPort[UserTask], 0)
  /\ app' = app - 1
  /\ UNCHANGED <<pc, mainPort, bootPort, eventPort, posted, scanned, nextKey,
                 dropped, got, gotPost, ticks>>

(* The scheduler runs any live task. *)
Switch(t) ==
  /\ t = UserTask => app > 0
  /\ Preempt(t)
  /\ UNCHANGED progVars

BootStep ==
  \/ OpenPort \/ StoreMainPort \/ SetEventPort \/ SetBootPort \/ SpawnApp
  \/ ScanKey \/ ScanDone \/ Drain \/ Drained

WorkerStep == WorkerPost \/ WorkerPosted

ENext ==
  \/ BootStep \/ WorkerStep \/ OnTick \/ AppSend
  \/ \E t \in Task : Switch(t)

ESpec == EInit /\ [][ENext]_allVars

(* Round robin runs each kernel thread again and again, each time for a    *)
(* quantum of several timer ticks, so it gets on with its program.         *)
EFairSpec ==
  /\ ESpec
  /\ \A t \in KernelTask : WF_allVars(Switch(t))
  /\ SF_allVars(BootStep) /\ SF_allVars(WorkerStep)

-----------------------------------------------------------------------------

Key(p) == {Waiting(p)[i].value : i \in 1 .. len[p]} \ {0}

(* However often worker_a's post is rejected and retried, its event is     *)
(* accepted exactly once, when posted says so.                             *)
PostedOnce ==
  LET slots == {x \in Port \X (1 .. QueueLen) :
                  x[2] <= len[x[1]] /\ Waiting(x[1])[x[2]].from = Pid(Worker)}
  IN  \/ ~posted /\ gotPost = 0 /\ slots = {}
      \/ posted /\ gotPost = 1 /\ slots = {}
      \/ posted /\ gotPost = 0 /\ \E x \in slots : slots = {x}

(* Keys reach core_main in the order they were typed and at most once, and *)
(* a key that ps2::poll took is delivered, still waiting, or was dropped   *)
(* because the port was full: nothing vanishes in between, and worker_a's  *)
(* event is accepted once.                                                 *)
EventsAccounted ==
  /\ PostedOnce
  /\ \A i, j \in 1 .. Len(got) : i < j => got[i] < got[j]
  /\ 1 .. nextKey - 1 = dropped \cup {got[i] : i \in 1 .. Len(got)}
                          \cup UNION {Key(p) : p \in Port}
  /\ dropped \cap ({got[i] : i \in 1 .. Len(got)} \cup UNION {Key(p) : p \in Port}) = {}

(* worker_a's event reaches core_main, although the worker starts before   *)
(* the port exists and the port may be full when it tries, and no second   *)
(* one ever does; and every key that the port accepted is delivered.       *)
EventsHeard ==
  /\ <>[](gotPost = 1)
  /\ \A k \in 1 .. MaxKeys :
       (k < nextKey /\ k \notin dropped) ~> (\E i \in 1 .. Len(got) : got[i] = k)
=============================================================================
