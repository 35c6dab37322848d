------------------------------- MODULE Broker -------------------------------
(***************************************************************************)
(* The window broker, apps/csharp/Pippin.Broker/Program.cs: one task per   *)
(* client connection, one task that reads the guest's lines, and the guest *)
(* at the other end of COM2.                                               *)
(*                                                                         *)
(* A step runs from one await to the next.  Lines are records; an answer   *)
(* of the guest carries the command it answers, which the program cannot   *)
(* see, so that the properties can compare the two.  A client is one       *)
(* connection.  Taking guestLock and writing the line are one step:        *)
(* nothing else looks at the line in between.                              *)
(***************************************************************************)
EXTENDS Naturals, FiniteSets, Sequences

CONSTANTS Client, Id, None,
          MaxWindows, \* the guest's MAX_WINDOWS
          MaxHellos,  \* bound on the handshakes tried
          MaxEvents,  \* bound on the lines under way when the guest sends one unasked
          Noisy,      \* bound: the clients of a behaviour in which the guest answers
                      \* a handshake after 400 ms or its desktop sends E| lines
          MayStop,    \* the guest may stop
          Reads,      \* the clients that read what they are sent until they close
          Ascii       \* the clients that write ASCII, as those of WindowClient do

ASSUME BrokerAssumption ==
  /\ None \notin Client \cup Id
  /\ MaxWindows \in Nat /\ MaxHellos \in Nat /\ MaxEvents \in Nat \ {0}
  /\ Noisy \subseteq Client /\ MayStop \in BOOLEAN
  /\ Reads \subseteq Client /\ Ascii \subseteq Client

Op == {"WC", "WD", "other"}
(* fits: the line has at most the MAX_LINE bytes of the guest's buffer,    *)
(* where the broker counts characters.                                     *)
Command == [op : Op, id : Id, by : Client, fits : BOOLEAN]
Hello == [op |-> "H2", id |-> None, by |-> None, fits |-> TRUE]

VARIABLES
  hello,     \* the handshake: "send", "wait", then "serving"
  hellos,    \* handshakes tried
  stray,     \* history: a line that answers no command was, or will be, sent
  conn,      \* conn[c]: the client's end of the socket is open
  task,      \* task[c]: HandleClientAsync: where it waits, its command, its answer
  owners,    \* owners[id], None when absent
  crossed,   \* history: what is done for one client has removed another's entry in
             \* owners, or a clean-up has destroyed another's window
  lock,      \* the client whose task holds guestLock
  acks,      \* the acknowledgements channel
  acksDone,  \* the channel is completed
  pump,      \* the reading task: idle, sending an event, ended or failed
  toGuest,   \* lines written to the guest
  fromGuest, \* lines written by the guest
  guestUp,   \* the guest runs
  guest      \* guest[id]: the client whose command created the window

hostVars == <<hello, hellos, stray, conn, task, owners, crossed, lock, acks, acksDone, pump>>
helloVars == <<hello, hellos, stray>>
ownVars == <<owners, crossed>>
lineVars == <<toGuest, fromGuest, guestUp, guest>>
vars == <<hostVars, lineVars>>

Idle == [state |-> "idle", id |-> None, to |-> None, of |-> None]
NoTask == [at |-> "none", cmd |-> Hello, answer |-> None, mine |-> {}]
Line(kind, id, for) == [kind |-> kind, id |-> id, for |-> for]

Init ==
  /\ hello = "send" /\ hellos = 0 /\ stray = FALSE
  /\ conn = [c \in Client |-> FALSE] /\ task = [c \in Client |-> NoTask]
  /\ owners = [id \in Id |-> None] /\ crossed = FALSE /\ lock = None
  /\ acks = <<>> /\ acksDone = FALSE /\ pump = Idle
  /\ toGuest = <<>> /\ fromGuest = <<>>
  /\ guestUp = TRUE /\ guest = [id \in Id |-> None]

MayStray == \A c \in Client \ Noisy : task[c] = NoTask

-----------------------------------------------------------------------------
(* The handshake of RunAsync. *)

HelloSend ==
  /\ hello = "send" /\ hellos < MaxHellos
  /\ hello' = "wait" /\ hellos' = hellos + 1
  /\ toGuest' = Append(toGuest, Hello)
  /\ UNCHANGED <<stray, conn, task, ownVars, lock, acks, acksDone, pump, fromGuest, guestUp, guest>>

(* The token runs out after 400 ms; the answer will come all the same. *)
HelloTimeout ==
  /\ MayStray /\ hello = "wait" /\ hellos < MaxHellos
  /\ hello' = "send" /\ stray' = TRUE
  /\ UNCHANGED <<hellos, conn, task, ownVars, lock, acks, acksDone, pump, lineVars>>

HelloAnswer ==
  /\ hello = "wait" /\ acks # <<>>
  /\ hello' = IF Head(acks).kind = "R2" THEN "serving" ELSE "send"
  /\ acks' = Tail(acks)
  /\ UNCHANGED <<hellos, stray, conn, task, ownVars, lock, acksDone, pump, lineVars>>

-----------------------------------------------------------------------------
(* HandleClientAsync. *)

Goto(c, at) == task' = [task EXCEPT ![c].at = at]
Answer(c, a) == task' = [task EXCEPT ![c].at = "answer", ![c].answer = a]

Connect(c) ==
  /\ hello = "serving" /\ task[c].at = "none" /\ (stray => c \in Noisy)
  /\ conn' = [conn EXCEPT ![c] = TRUE]
  /\ Goto(c, "read")
  /\ UNCHANGED <<helloVars, ownVars, lock, acks, acksDone, pump, lineVars>>

(* The client closes its end; the task finds out when it reads or writes. *)
Disconnect(c) ==
  /\ conn[c]
  /\ conn' = [conn EXCEPT ![c] = FALSE]
  /\ UNCHANGED <<helloVars, task, ownVars, lock, acks, acksDone, pump, lineVars>>

(* Mutant: a second client may take an id over. *)
MayCommandAnyone(c, op, id) == IF op = "WC" THEN TRUE ELSE owners[id] = c
(* Mutant: any known id will do. *)
MayCommandKnown(c, op, id) == (op = "WC") = (owners[id] = None)
(* The ownership check. *)
MayCommand(c, op, id) == owners[id] = IF op = "WC" THEN None ELSE c

(* A line is read and passes the check, which enters a new id. *)
Accept(c, op, id, fits) ==
  /\ task[c].at = "read" /\ conn[c] /\ (c \in Ascii => fits)
  /\ MayCommand(c, op, id)
  /\ owners' = IF op = "WC" THEN [owners EXCEPT ![id] = c] ELSE owners
  /\ task' = [task EXCEPT ![c].at = "lock",
                          ![c].cmd = [op |-> op, id |-> id, by |-> c, fits |-> fits]]
  /\ UNCHANGED <<helloVars, conn, crossed, lock, acks, acksDone, pump, lineVars>>

(* A line is read and has a bad id or another owner's. *)
Refuse(c, op, id) ==
  /\ task[c].at = "read" /\ conn[c]
  /\ ~MayCommand(c, op, id)
  /\ Answer(c, "ERR")
  /\ UNCHANGED <<helloVars, conn, ownVars, lock, acks, acksDone, pump, lineVars>>

(* owners.TryRemove(id), on behalf of client c, whoever the owner is. *)
Disown(c, id) ==
  /\ owners' = [owners EXCEPT ![id] = None]
  /\ crossed' = (crossed \/ owners[id] \notin {c, None})
DisownCreated(c) ==
  IF task[c].cmd.op = "WC" THEN Disown(c, task[c].cmd.id) ELSE UNCHANGED ownVars

(* SendGuestAsync throws at once: the line is too long. *)
TooLong(c) ==
  /\ task[c].at = "lock"
  /\ DisownCreated(c)
  /\ Answer(c, "ERR")
  /\ UNCHANGED <<helloVars, conn, lock, acks, acksDone, pump, lineVars>>

(* Mutant: the lock is not waited for. *)
LockFreeAlways == TRUE
(* guestLock.WaitAsync *)
LockFree == lock = None

(* SendGuestAsync up to the read of its answer; the write throws when the  *)
(* guest has closed its end.                                               *)
SendGuest(c) ==
  /\ task[c].at = "lock" /\ LockFree
  /\ IF guestUp
     THEN /\ lock' = c /\ toGuest' = Append(toGuest, task[c].cmd)
          /\ Goto(c, "ack") /\ UNCHANGED ownVars
     ELSE /\ UNCHANGED <<lock, toGuest>>
          /\ Answer(c, "ERR") /\ DisownCreated(c)
  /\ UNCHANGED <<helloVars, conn, acks, acksDone, pump, fromGuest, guestUp, guest>>

(* Mutant: an answer that throws leaves the lock taken. *)
UnlockedOnlyOk(ok) == IF ok THEN None ELSE lock
(* guestLock.Release, in a finally block *)
Unlocked(ok) == None

(* SendGuestAsync gets its answer: A, or N or anything else, which throw. *)
GetAck(c) ==
  /\ task[c].at = "ack" /\ acks # <<>>
  /\ acks' = Tail(acks)
  /\ LET ok == Head(acks).kind = "A" IN
     /\ lock' = Unlocked(ok)
     /\ IF ok THEN UNCHANGED ownVars ELSE DisownCreated(c)
     /\ task' = [task EXCEPT ![c].at = "answer", ![c].answer = IF ok THEN "OK" ELSE "ERR",
                             ![c].mine = {Head(acks).for}]
  /\ UNCHANGED <<helloVars, conn, acksDone, pump, lineVars>>

(* The channel is completed: ReadAsync throws. *)
GetClosed(c) ==
  /\ task[c].at = "ack" /\ acks = <<>> /\ acksDone
  /\ lock' = None
  /\ DisownCreated(c)
  /\ Answer(c, "ERR")
  /\ UNCHANGED <<helloVars, conn, acks, acksDone, pump, lineVars>>

(* The client is answered; a destroyed window's id is given up after that. *)
Reply(c) ==
  /\ task[c].at = "answer" /\ conn[c]
  /\ IF task[c].answer = "OK" /\ task[c].cmd.op = "WD" THEN Disown(c, task[c].cmd.id)
     ELSE UNCHANGED ownVars
  /\ task' = [task EXCEPT ![c] = [NoTask EXCEPT !.at = "read"]]
  /\ UNCHANGED <<helloVars, conn, lock, acks, acksDone, pump, lineVars>>

Owned(c) == {id \in Id : owners[id] = c}

(* The answer cannot be sent.  For an OK the catch block runs, with its    *)
(* DisownCreated, and fails in turn; then finally lists what is owned.     *)
ReplyFails(c) ==
  /\ task[c].at = "answer" /\ ~conn[c]
  /\ IF task[c].answer = "OK" THEN DisownCreated(c) ELSE UNCHANGED ownVars
  /\ task' = [task EXCEPT ![c] = [NoTask EXCEPT !.at = "finally",
                                               !.mine = {id \in Id : owners'[id] = c}]]
  /\ UNCHANGED <<helloVars, conn, lock, acks, acksDone, pump, lineVars>>

ReadEnds(c) ==
  /\ task[c].at = "read" /\ ~conn[c]
  /\ task' = [task EXCEPT ![c].at = "finally", ![c].mine = Owned(c)]
  /\ UNCHANGED <<helloVars, conn, ownVars, lock, acks, acksDone, pump, lineVars>>

(* finally: the next window is disowned, then destroyed. *)
Finally(c, id) ==
  /\ task[c].at = "finally" /\ id \in task[c].mine
  /\ Disown(c, id)
  /\ task' = [task EXCEPT ![c].at = "drop", ![c].mine = @ \ {id},
                          ![c].cmd = [op |-> "WD", id |-> id, by |-> c, fits |-> TRUE]]
  /\ UNCHANGED <<helloVars, conn, lock, acks, acksDone, pump, lineVars>>

DropSend(c) ==
  /\ task[c].at = "drop" /\ LockFree
  /\ IF guestUp THEN /\ lock' = c /\ toGuest' = Append(toGuest, task[c].cmd)
                     /\ Goto(c, "dropAck")
     ELSE UNCHANGED <<lock, toGuest>> /\ Goto(c, "finally")
  /\ UNCHANGED <<helloVars, conn, ownVars, acks, acksDone, pump, fromGuest, guestUp, guest>>

(* Whatever the answer is. *)
DropAck(c) ==
  /\ task[c].at = "dropAck" /\ (acks # <<>> \/ acksDone)
  /\ acks' = IF acks = <<>> THEN acks ELSE Tail(acks)
  /\ lock' = None
  /\ Goto(c, "finally")
  /\ UNCHANGED <<helloVars, conn, ownVars, acksDone, pump, lineVars>>

(* The task ends, and disposes of the Client. *)
Dispose(c) ==
  /\ task[c].at = "finally" /\ task[c].mine = {}
  /\ Goto(c, "done")
  /\ UNCHANGED <<helloVars, conn, ownVars, lock, acks, acksDone, pump, lineVars>>

-----------------------------------------------------------------------------
(* The task that reads the guest's lines. *)

(* An event of an unknown window is dropped; any line that is no event     *)
(* counts as an acknowledgement.                                           *)
PumpRead ==
  /\ pump = Idle /\ fromGuest # <<>>
  /\ fromGuest' = Tail(fromGuest)
  /\ LET line == Head(fromGuest) IN
     IF line.kind = "EV"
     THEN /\ UNCHANGED acks
          /\ pump' = IF owners[line.id] = None THEN Idle
                     ELSE [state |-> "send", id |-> line.id, to |-> owners[line.id],
                           of |-> line.for]
     ELSE acks' = Append(acks, line) /\ UNCHANGED pump
  /\ UNCHANGED <<helloVars, conn, task, ownVars, lock, acksDone, toGuest, guestUp, guest>>

(* A closed socket throws IOException, which is caught; a disposed Client  *)
(* throws ObjectDisposedException, which ends the task.                    *)
PumpSend ==
  /\ pump.state = "send"
  /\ pump' = IF task[pump.to].at = "done" THEN [Idle EXCEPT !.state = "failed"] ELSE Idle
  /\ IF task[pump.to].at # "done" /\ ~conn[pump.to] THEN Disown(pump.to, pump.id)
     ELSE UNCHANGED ownVars
  /\ UNCHANGED <<helloVars, conn, task, lock, acks, acksDone, lineVars>>

PumpEnd ==
  /\ pump = Idle /\ fromGuest = <<>> /\ ~guestUp
  /\ pump' = [Idle EXCEPT !.state = "ended"] /\ acksDone' = TRUE
  /\ UNCHANGED <<helloVars, conn, task, ownVars, lock, acks, lineVars>>

-----------------------------------------------------------------------------
(* The guest: Bridge::poll, with WindowServer reduced to the ids it holds. *)

Accepts(cmd) ==
  CASE cmd.op = "WC" -> guest[cmd.id] = None
                        /\ Cardinality({id \in Id : guest[id] # None}) < MaxWindows
    [] OTHER -> guest[cmd.id] # None

(* The answer goes out first, then the events of the command.  A line can  *)
(* be refused for its other fields, too, except the one of a clean-up.  A  *)
(* line that does not fit is dropped: nothing is answered.                 *)
GuestHandle ==
  /\ guestUp /\ toGuest # <<>>
  /\ toGuest' = Tail(toGuest)
  /\ LET cmd == Head(toGuest) IN
     \/ /\ cmd = Hello
        /\ fromGuest' = Append(fromGuest, Line("R2", None, cmd))
        /\ UNCHANGED <<guest, crossed>>
     \/ /\ ~cmd.fits
        /\ UNCHANGED <<fromGuest, guest, crossed>>
     \/ /\ cmd # Hello /\ cmd.fits /\ Accepts(cmd)
        /\ guest' = [guest EXCEPT ![cmd.id] = CASE cmd.op = "WC" -> cmd.by
                                                [] cmd.op = "WD" -> None [] OTHER -> @]
        /\ fromGuest' = fromGuest \o <<Line("A", None, cmd)>>
                          \o (IF cmd.op = "WC" THEN <<Line("EV", cmd.id, cmd.by)>> ELSE <<>>)
        /\ crossed' = (crossed \/ (task[cmd.by].at = "dropAck" /\ guest[cmd.id] # cmd.by))
     \/ /\ cmd # Hello /\ cmd.fits /\ (task[cmd.by].at = "dropAck" => ~Accepts(cmd))
        /\ fromGuest' = Append(fromGuest, Line("N", None, cmd))
        /\ UNCHANGED <<guest, crossed>>
  /\ UNCHANGED <<helloVars, conn, task, owners, lock, acks, acksDone, pump, guestUp>>

(* The pointer or the keyboard: an event of some window. *)
GuestEvent(id) ==
  /\ guestUp /\ guest[id] # None /\ Len(fromGuest) < MaxEvents
  /\ fromGuest' = Append(fromGuest, Line("EV", id, guest[id]))
  /\ UNCHANGED <<hostVars, toGuest, guestUp, guest>>

(* handle_desktop_action: a control of the built-in desktop is used. *)
GuestAction ==
  /\ MayStray /\ guestUp /\ Len(toGuest) + Len(fromGuest) + Len(acks) < MaxEvents
  /\ fromGuest' = Append(fromGuest, Line("E", None, Hello)) /\ stray' = TRUE
  /\ UNCHANGED <<hello, hellos, conn, task, ownVars, lock, acks, acksDone, pump,
                 toGuest, guestUp, guest>>

GuestStop ==
  /\ MayStop /\ guestUp /\ hello = "serving"
  /\ guestUp' = FALSE /\ toGuest' = <<>> /\ guest' = [id \in Id |-> None]
  /\ UNCHANGED <<hostVars, fromGuest>>

-----------------------------------------------------------------------------

ClientStep(c) ==
  \/ GetAck(c) \/ GetClosed(c) \/ ReplyFails(c) \/ ReadEnds(c)
  \/ (\E id \in Id : Finally(c, id)) \/ DropAck(c) \/ Dispose(c)

Next ==
  \/ HelloSend \/ HelloTimeout \/ HelloAnswer
  \/ \E c \in Client :
       \/ Connect(c) \/ Disconnect(c)
       \/ \E op \in Op, id \in Id :
            (\E fits \in BOOLEAN : Accept(c, op, id, fits)) \/ Refuse(c, op, id)
       \/ TooLong(c) \/ SendGuest(c) \/ DropSend(c) \/ Reply(c) \/ ClientStep(c)
  \/ PumpRead \/ PumpSend \/ PumpEnd
  \/ GuestHandle \/ GuestAction \/ GuestStop \/ \E id \in Id : GuestEvent(id)

(* The reading task writes to a client that may have stopped reading: the  *)
(* write has no timeout, and need not end while the connection is open.    *)
Stalled == pump.state = "send" /\ conn[pump.to] /\ pump.to \notin Reads

(* Every task of the runtime gets to run, a waiter of guestLock gets it in *)
(* its turn (SemaphoreSlim queues its waiters), and the guest polls COM2.  *)
(* A write to a client ends if the client reads, or closes.                *)
Fairness ==
  /\ WF_vars(PumpRead) /\ WF_vars(PumpSend /\ ~Stalled) /\ WF_vars(PumpEnd)
  /\ WF_vars(GuestHandle)
  /\ \A c \in Client : /\ WF_vars(ClientStep(c))
                       /\ SF_vars(SendGuest(c)) /\ SF_vars(DropSend(c))
  /\ \A c \in Reads : WF_vars(Reply(c))

Spec == Init /\ [][Next]_vars
FairSpec == Spec /\ Fairness

-----------------------------------------------------------------------------

TypeOK ==
  /\ hello \in {"send", "wait", "serving"} /\ hellos \in 0 .. MaxHellos
  /\ conn \in [Client -> BOOLEAN]
  /\ \A c \in Client :
       /\ task[c].at \in {"none", "read", "lock", "ack", "answer", "finally", "drop",
                          "dropAck", "done"}
       /\ task[c].cmd \in Command \cup {Hello}
       /\ task[c].answer \in {None, "OK", "ERR"}
  /\ owners \in [Id -> Client \cup {None}]
  /\ lock \in Client \cup {None}
  /\ guest \in [Id -> Client \cup {None}]
  /\ \A c \in Client : lock = c <=> task[c].at \in {"ack", "dropAck"}

(* Commands are answered with the guest's verdict on that very command:    *)
(* SendGuestAsync takes the next line of the channel as its own answer,    *)
(* and no other line may get between the two.                              *)
Paired == \A c \in Client : task[c].at = "answer" => task[c].mine \subseteq {task[c].cmd}

(* So it is as long as the guest sends answers and events only. *)
AnswersPaired == TypeOK /\ (~stray => Paired)

(* While the client of a window is connected, no one else gets the         *)
(* window's events, although the reading task looks the owner up first and *)
(* sends later, as long as answers are paired and nothing done for one     *)
(* client has hit another's id.                                            *)
EventsPrivate ==
  ~stray /\ ~crossed /\ pump.state = "send" /\ pump.to # pump.of => ~conn[pump.of]

(* A command that a client sends only ever reaches its own window, although *)
(* the check comes before the wait for the lock, on the same conditions.   *)
(* (The destruction at the end of a connection is DestroysOwn, below.)     *)
CommandsOwn ==
  [][\A c \in Client : ~stray /\ ~crossed /\ task[c].at = "ack" /\ toGuest # <<>> /\ Head(toGuest) = task[c].cmd
       => \A id \in Id : guest'[id] # guest[id] => guest[id] \in {None, c} \/ ~guestUp']_vars

(* A window goes away by its own client's command only, or with the guest: *)
(* docs/windowing.md says that the broker validates ownership.             *)
DestroysOwn ==
  [][\A id \in Id : guest[id] # None /\ guest'[id] = None
       => ~guestUp' \/ Head(toGuest).by = guest[id]]_vars

(* On disconnect the broker destroys the client's windows: none is left    *)
(* when the client's task is done.                                         *)
DestroyedOnDisconnect ==
  \A c \in Client : task[c].at = "done" => \A id \in Id : guest[id] # c

(* Every command of a client that reads is answered, or the client is      *)
(* gone.  HandleClientAsync answers on every path, but its turn and the    *)
(* guest's answer have to come first.                                      *)
Answered == \A c \in Reads : task[c].at = "lock" ~> task[c].at \in {"read", "done"}

(* Every line that is on its way to the guest fits into its buffer. *)
AllFit == \A i \in DOMAIN toGuest : toGuest[i].fits

(* The reading task may fail, a line may not fit, and a write to a client  *)
(* that does not read may hang: each of the three alone would have to be   *)
(* harmless for these to hold.                                             *)
AnsweredWhenFit == []AllFit /\ []<>~Stalled => Answered
AnsweredWhenPumped == [](pump.state # "failed") /\ []<>~Stalled => Answered
AnsweredWhenBoth == [](pump.state # "failed" /\ AllFit) => Answered

(* As long as the reading task neither fails nor hangs in a write, and the *)
(* lines fit, every command gets the guest's verdict or fails, even if the *)
(* guest stops; whoever reads its answer can go on, and a closed           *)
(* connection is cleaned up after.  So a client that does not read its     *)
(* answers holds up nobody else, for its task has released guestLock by    *)
(* then.                                                                   *)
AnsweredWhileRead ==
  [](pump.state # "failed" /\ AllFit) /\ []<>~Stalled =>
    /\ Answered
    /\ \A c \in Client : task[c].at = "lock" ~> task[c].at = "answer"
    /\ \A c \in Client : task[c].at # "none" /\ ~conn[c] ~> task[c].at = "done"
=============================================================================
