---------------------------- MODULE BrokerProofs ----------------------------
(***************************************************************************)
(* Proofs about Broker, for any number of clients, windows and handshakes: *)
(* guestLock keeps at most one command under way, so that the next line    *)
(* that is no event answers it; and until something done for one client    *)
(* hits another's id, events and commands stay with the client that owns   *)
(* the window.                                                             *)
(***************************************************************************)
EXTENDS Broker, Integers, TLAPS

(* Steps are tried with Zenon first, which is the faster where no          *)
(* arithmetic is needed, then with SMT, then with Zenon for longer.        *)
USE ZenonT(3), SMTT(30), ZenonT(30), Z3T(30)

-----------------------------------------------------------------------------
(* Facts about sequences. *)

(* A sequence is a function on the places up to its length. *)
LEMMA LenProperties ==
  ASSUME NEW S, NEW s \in Seq(S)
  PROVE  /\ Len(s) \in Nat /\ DOMAIN s = 1 .. Len(s)
         /\ s \in [1 .. Len(s) -> S]
  OBVIOUS

(* Only the empty sequence has no element. *)
LEMMA EmptySeq ==
  ASSUME NEW S
  PROVE  /\ <<>> \in Seq(S) /\ Len(<<>>) = 0
         /\ \A s \in Seq(S) : Len(s) \in Nat /\ (s = <<>> <=> Len(s) = 0)
  OBVIOUS

(* What Append returns. *)
LEMMA AppendProperties ==
  ASSUME NEW S, NEW s \in Seq(S), NEW x \in S
  PROVE  /\ Append(s, x) \in Seq(S) /\ Len(s) \in Nat /\ Len(Append(s, x)) = Len(s) + 1
         /\ \A i \in 1 .. Len(s) : Append(s, x)[i] = s[i]
         /\ Append(s, x)[Len(s) + 1] = x
  OBVIOUS

(* Append puts one element behind a sequence. *)
LEMMA AppendIsConcat ==
  ASSUME NEW S, NEW s \in Seq(S), NEW x \in S
  PROVE  Append(s, x) = s \o <<x>>
<1>1. /\ s \o <<x>> \in Seq(S) /\ Append(s, x) \in Seq(S)
      /\ Len(s \o <<x>>) = Len(s) + 1 /\ Len(Append(s, x)) = Len(s) + 1
  OBVIOUS
<1>2. \A i \in 1 .. Len(s) + 1 : (s \o <<x>>)[i] = Append(s, x)[i]
  OBVIOUS
<1> QED BY <1>1, <1>2

(* The empty sequence adds nothing. *)
LEMMA ConcatEmptySeq ==
  ASSUME NEW S, NEW s \in Seq(S)
  PROVE  s \o <<>> = s /\ <<>> \o s = s
<1>1. /\ s \o <<>> \in Seq(S) /\ Len(s \o <<>>) = Len(s)
      /\ \A i \in 1 .. Len(s) : (s \o <<>>)[i] = s[i]
  OBVIOUS
<1>2. /\ <<>> \o s \in Seq(S) /\ Len(<<>> \o s) = Len(s)
      /\ \A i \in 1 .. Len(s) : (<<>> \o s)[i] = s[i]
  OBVIOUS
<1> QED BY <1>1, <1>2

(* What Head and Tail return. *)
LEMMA HeadTailProperties ==
  ASSUME NEW S, NEW s \in Seq(S), s # <<>>
  PROVE  /\ Head(s) = s[1] /\ Head(s) \in S
         /\ Tail(s) \in Seq(S) /\ Len(Tail(s)) = Len(s) - 1
         /\ \A i \in 1 .. Len(Tail(s)) : Tail(s)[i] = s[i + 1]
  OBVIOUS


-----------------------------------------------------------------------------
(* Lines of the guest. *)

Said == Command \cup {Hello}
LineType == [kind : {"EV", "A", "N", "R2", "E"}, id : Id \cup {None}, for : Said \cup Client]

(* The lines of s are all events, or all but one, which answers x. *)
NoAnswer(s) == \A i \in 1 .. Len(s) : s[i].kind = "EV"
OneAnswer(s, x) ==
  \E i \in 1 .. Len(s) :
    /\ s[i].kind # "EV" /\ s[i].for = x
    /\ \A j \in 1 .. Len(s) : j # i => s[j].kind = "EV"

(* Another event changes nothing; an answer is one more. *)
LEMMA MoreLines ==
  ASSUME NEW s \in Seq(LineType), NEW l \in LineType, NEW x
  PROVE  /\ l.kind = "EV" /\ NoAnswer(s) => NoAnswer(Append(s, l))
         /\ l.kind = "EV" /\ OneAnswer(s, x) => OneAnswer(Append(s, l), x)
         /\ l.kind # "EV" /\ l.for = x /\ NoAnswer(s) => OneAnswer(Append(s, l), x)
<1>1. /\ Len(Append(s, l)) = Len(s) + 1 /\ Len(s) \in Nat
      /\ \A i \in 1 .. Len(s) : Append(s, l)[i] = s[i]
      /\ Append(s, l)[Len(s) + 1] = l
  BY AppendProperties, LenProperties
<1>2. \A i \in 1 .. Len(s) + 1 : i \in 1 .. Len(s) \/ i = Len(s) + 1
  BY <1>1
<1>3. Len(s) + 1 \in 1 .. Len(s) + 1 /\ \A i \in 1 .. Len(s) : i \in 1 .. Len(s) + 1 /\ i # Len(s) + 1
  BY <1>1
<1>4. l.kind = "EV" /\ NoAnswer(s) => NoAnswer(Append(s, l))
  BY <1>1, <1>2 DEF NoAnswer
<1>5. l.kind = "EV" /\ OneAnswer(s, x) => OneAnswer(Append(s, l), x)
  <2> SUFFICES ASSUME l.kind = "EV", OneAnswer(s, x) PROVE OneAnswer(Append(s, l), x)
    OBVIOUS
  <2>1. PICK i \in 1 .. Len(s) : /\ s[i].kind # "EV" /\ s[i].for = x
                                 /\ \A j \in 1 .. Len(s) : j # i => s[j].kind = "EV"
    BY DEF OneAnswer
  <2> QED BY <1>1, <1>2, <1>3, <2>1 DEF OneAnswer
<1>6. l.kind # "EV" /\ l.for = x /\ NoAnswer(s) => OneAnswer(Append(s, l), x)
  BY <1>1, <1>2, <1>3 DEF NoAnswer, OneAnswer
<1> QED BY <1>4, <1>5, <1>6

(* Reading the first line. *)
LEMMA FewerLines ==
  ASSUME NEW s \in Seq(LineType), s # <<>>, NEW x
  PROVE  /\ Head(s) \in LineType /\ Tail(s) \in Seq(LineType)
         /\ NoAnswer(s) => Head(s).kind = "EV" /\ NoAnswer(Tail(s))
         /\ OneAnswer(s, x) /\ Head(s).kind = "EV" => OneAnswer(Tail(s), x)
         /\ OneAnswer(s, x) /\ Head(s).kind # "EV" => Head(s).for = x /\ NoAnswer(Tail(s))
<1>1. /\ Head(s) \in LineType /\ Tail(s) \in Seq(LineType) /\ Len(Tail(s)) = Len(s) - 1
      /\ \A i \in 1 .. Len(Tail(s)) : Tail(s)[i] = s[i + 1]
  BY HeadTailProperties
<1>2. Len(s) \in Nat \ {0} /\ Head(s) = s[1]
  BY EmptySeq, LenProperties
<1>3. \A i \in 1 .. Len(s) - 1 : Tail(s)[i] = s[i + 1] /\ i + 1 \in 1 .. Len(s) /\ i + 1 # 1
  BY <1>1, <1>2
<1>4. NoAnswer(s) => Head(s).kind = "EV" /\ NoAnswer(Tail(s))
  BY <1>1, <1>2, <1>3 DEF NoAnswer
<1>5. ASSUME OneAnswer(s, x), Head(s).kind = "EV" PROVE OneAnswer(Tail(s), x)
  <2>1. PICK i \in 1 .. Len(s) : /\ s[i].kind # "EV" /\ s[i].for = x
                                 /\ \A j \in 1 .. Len(s) : j # i => s[j].kind = "EV"
    BY <1>5 DEF OneAnswer
  <2>2. i # 1
    BY <1>2, <1>5, <2>1
  <2>3. i - 1 \in 1 .. Len(s) - 1 /\ (i - 1) + 1 = i
    BY <1>2, <2>2
  <2>4. Tail(s)[i - 1] = s[i]
    BY <1>3, <2>3
  <2>5. ASSUME NEW j \in 1 .. Len(s) - 1, j # i - 1 PROVE Tail(s)[j].kind = "EV"
    BY <1>3, <2>1, <2>3, <2>5
  <2> QED BY <1>1, <2>1, <2>3, <2>4, <2>5 DEF OneAnswer
<1>6. ASSUME OneAnswer(s, x), Head(s).kind # "EV" PROVE Head(s).for = x /\ NoAnswer(Tail(s))
  <2>1. PICK i \in 1 .. Len(s) : /\ s[i].kind # "EV" /\ s[i].for = x
                                 /\ \A j \in 1 .. Len(s) : j # i => s[j].kind = "EV"
    BY <1>6 DEF OneAnswer
  <2>2. i = 1
    BY <1>2, <1>6, <2>1
  <2> QED BY <1>1, <1>2, <1>3, <2>1, <2>2 DEF NoAnswer
<1> QED BY <1>1, <1>4, <1>5, <1>6

-----------------------------------------------------------------------------
(* The invariant. *)

At == {"none", "read", "lock", "ack", "answer", "finally", "drop", "dropAck", "done"}
Verdict == {None, "OK", "ERR"}
Mine == SUBSET (Said \cup Client \cup Id)
TaskType == [at : At, cmd : Said, answer : Verdict, mine : Mine]

Types ==
  /\ hello \in {"send", "wait", "serving"} /\ hellos \in 0 .. MaxHellos
  /\ stray \in BOOLEAN /\ crossed \in BOOLEAN /\ acksDone \in BOOLEAN /\ guestUp \in BOOLEAN
  /\ conn \in [Client -> BOOLEAN] /\ task \in [Client -> TaskType]
  /\ owners \in [Id -> Client \cup {None}] /\ lock \in Client \cup {None}
  /\ acks \in Seq(LineType) /\ toGuest \in Seq(Said) /\ fromGuest \in Seq(LineType)
  /\ guest \in [Id -> Client \cup {None}]

(* The holder of guestLock is the one task that waits for an answer; no    *)
(* task runs before the handshake; after the guest has stopped nothing is  *)
(* sent to it, and when the channel is completed nothing comes from it.    *)
Order ==
  /\ \A c \in Client : lock = c <=> task[c].at \in {"ack", "dropAck"}
  /\ hello # "serving" => \A c \in Client : task[c].at = "none"
  /\ ~guestUp => toGuest = <<>> /\ hello = "serving"
  /\ acksDone => fromGuest = <<>> /\ ~guestUp
  /\ \A c \in Client :
       /\ task[c].at \in {"none", "read", "lock", "ack"} => task[c].mine = {}
       /\ task[c].at \in {"lock", "ack", "drop", "dropAck"} => task[c].cmd \in Command

(* No command or answer is under way, or one command or its answer is. *)
Quiet == toGuest = <<>> /\ NoAnswer(fromGuest) /\ acks = <<>>
UnderWay(x) ==
  \/ toGuest = <<x>> /\ NoAnswer(fromGuest) /\ acks = <<>>
  \/ toGuest = <<>> /\ OneAnswer(fromGuest, x) /\ acks = <<>>
  \/ toGuest = <<>> /\ NoAnswer(fromGuest) /\ \E l \in LineType : acks = <<l>> /\ l.for = x

(* The one is that of the task with the lock, or the handshake; there is   *)
(* none when the guest has stopped, or has dropped a line that did not fit. *)
OneUnderWay ==
  /\ lock = None /\ hello # "wait" => Quiet
  /\ hello = "wait" => UnderWay(Hello)
  /\ \A c \in Client : lock = c => UnderWay(task[c].cmd) \/ (Quiet /\ (~guestUp \/ ~task[c].cmd.fits))

BrokerInv == Types /\ Order /\ (~stray => Paired /\ OneUnderWay)

-----------------------------------------------------------------------------
(* Types. *)

(* The handshake is no command, and no client is None. *)
LEMMA SaidFacts ==
  /\ Hello \in Said /\ Hello \notin Command /\ NoTask \in TaskType
  /\ \A c \in Client : c # None
  /\ \A op \in Op, id \in Id, c \in Client, f \in BOOLEAN :
       [op |-> op, id |-> id, by |-> c, fits |-> f] \in Command
  /\ Hello.fits
<1>1. Hello \notin Command /\ Hello.fits
  BY DEF Hello, Command, Op
<1> QED BY <1>1, BrokerAssumption DEF Said, Command, NoTask, TaskType, At, Verdict, Mine

(* One task moves on: its new fields; the others stay where they are. *)
Has(r, a, k, w, m) == r.at = a /\ r.cmd = k /\ r.answer = w /\ r.mine = m
Moved(c, a, k, w, m) ==
  /\ task' \in [Client -> TaskType] /\ Has(task'[c], a, k, w, m)
  /\ \A d \in Client : d # c => task'[d] = task[d]

(* The forms an assignment to a task takes. *)
LEMMA MoveForms ==
  ASSUME Types, NEW c \in Client, NEW a \in At, NEW k \in Said, NEW w \in Verdict, NEW m \in Mine
  PROVE  /\ task' = [task EXCEPT ![c].at = a]
              => Moved(c, a, task[c].cmd, task[c].answer, task[c].mine)
         /\ task' = [task EXCEPT ![c].at = a, ![c].answer = w]
              => Moved(c, a, task[c].cmd, w, task[c].mine)
         /\ task' = [task EXCEPT ![c].at = a, ![c].cmd = k]
              => Moved(c, a, k, task[c].answer, task[c].mine)
         /\ task' = [task EXCEPT ![c].at = a, ![c].mine = m]
              => Moved(c, a, task[c].cmd, task[c].answer, m)
         /\ task' = [task EXCEPT ![c].at = a, ![c].answer = w, ![c].mine = m]
              => Moved(c, a, task[c].cmd, w, m)
         /\ task' = [task EXCEPT ![c].at = a, ![c].mine = m, ![c].cmd = k]
              => Moved(c, a, k, task[c].answer, m)
         /\ task' = [task EXCEPT ![c] = [NoTask EXCEPT !.at = a]]
              => Moved(c, a, Hello, None, {})
         /\ task' = [task EXCEPT ![c] = [NoTask EXCEPT !.at = a, !.mine = m]]
              => Moved(c, a, Hello, None, m)
<1>0. task \in [Client -> TaskType] /\ task[c] \in TaskType
  BY DEF Types
<1>1. ASSUME task' = [task EXCEPT ![c].at = a]
      PROVE  Moved(c, a, task[c].cmd, task[c].answer, task[c].mine)
  <2> DEFINE r == [task[c] EXCEPT !.at = a]
  <2>1. task' = [task EXCEPT ![c] = r]
    BY <1>0, <1>1
  <2>2. r \in TaskType /\ Has(r, a, task[c].cmd, task[c].answer, task[c].mine)
    BY <1>0 DEF TaskType, Has
  <2> HIDE DEF r
  <2> QED BY <1>0, <2>1, <2>2 DEF Moved
<1>2. ASSUME task' = [task EXCEPT ![c].at = a, ![c].answer = w]
      PROVE  Moved(c, a, task[c].cmd, w, task[c].mine)
  <2> DEFINE r == [task[c] EXCEPT !.at = a, !.answer = w]
  <2>1. task' = [task EXCEPT ![c] = r]
    BY <1>0, <1>2
  <2>2. r \in TaskType /\ Has(r, a, task[c].cmd, w, task[c].mine)
    BY <1>0 DEF TaskType, Has
  <2> HIDE DEF r
  <2> QED BY <1>0, <2>1, <2>2 DEF Moved
<1>3. ASSUME task' = [task EXCEPT ![c].at = a, ![c].cmd = k]
      PROVE  Moved(c, a, k, task[c].answer, task[c].mine)
  <2> DEFINE r == [task[c] EXCEPT !.at = a, !.cmd = k]
  <2>1. task' = [task EXCEPT ![c] = r]
    BY <1>0, <1>3
  <2>2. r \in TaskType /\ Has(r, a, k, task[c].answer, task[c].mine)
    BY <1>0 DEF TaskType, Has
  <2> HIDE DEF r
  <2> QED BY <1>0, <2>1, <2>2 DEF Moved
<1>4. ASSUME task' = [task EXCEPT ![c].at = a, ![c].mine = m]
      PROVE  Moved(c, a, task[c].cmd, task[c].answer, m)
  <2> DEFINE r == [task[c] EXCEPT !.at = a, !.mine = m]
  <2>1. task' = [task EXCEPT ![c] = r]
    BY <1>0, <1>4
  <2>2. r \in TaskType /\ Has(r, a, task[c].cmd, task[c].answer, m)
    BY <1>0 DEF TaskType, Has
  <2> HIDE DEF r
  <2> QED BY <1>0, <2>1, <2>2 DEF Moved
<1>5. ASSUME task' = [task EXCEPT ![c].at = a, ![c].answer = w, ![c].mine = m]
      PROVE  Moved(c, a, task[c].cmd, w, m)
  <2> DEFINE r == [task[c] EXCEPT !.at = a, !.answer = w, !.mine = m]
  <2>1. task' = [task EXCEPT ![c] = r]
    BY <1>0, <1>5
  <2>2. r \in TaskType /\ Has(r, a, task[c].cmd, w, m)
    BY <1>0 DEF TaskType, Has
  <2> HIDE DEF r
  <2> QED BY <1>0, <2>1, <2>2 DEF Moved
<1>6. ASSUME task' = [task EXCEPT ![c].at = a, ![c].mine = m, ![c].cmd = k]
      PROVE  Moved(c, a, k, task[c].answer, m)
  <2> DEFINE r == [task[c] EXCEPT !.at = a, !.mine = m, !.cmd = k]
  <2>1. task' = [task EXCEPT ![c] = r]
    BY <1>0, <1>6
  <2>2. r \in TaskType /\ Has(r, a, k, task[c].answer, m)
    BY <1>0 DEF TaskType, Has
  <2> HIDE DEF r
  <2> QED BY <1>0, <2>1, <2>2 DEF Moved
<1>7. ASSUME task' = [task EXCEPT ![c] = [NoTask EXCEPT !.at = a]]
      PROVE  Moved(c, a, Hello, None, {})
  <2> DEFINE r == [NoTask EXCEPT !.at = a]
  <2>1. r \in TaskType /\ Has(r, a, Hello, None, {})
    BY SaidFacts DEF NoTask, TaskType, Verdict, Mine, Has
  <2>2. task' = [task EXCEPT ![c] = r]
    BY <1>7
  <2> HIDE DEF r
  <2> QED BY <1>0, <2>1, <2>2 DEF Moved
<1>8. ASSUME task' = [task EXCEPT ![c] = [NoTask EXCEPT !.at = a, !.mine = m]]
      PROVE  Moved(c, a, Hello, None, m)
  <2> DEFINE r == [NoTask EXCEPT !.at = a, !.mine = m]
  <2>1. r \in TaskType /\ Has(r, a, Hello, None, m)
    BY SaidFacts DEF NoTask, TaskType, Verdict, Has
  <2>2. task' = [task EXCEPT ![c] = r]
    BY <1>8
  <2> HIDE DEF r
  <2> QED BY <1>0, <2>1, <2>2 DEF Moved
<1> QED BY <1>1, <1>2, <1>3, <1>4, <1>5, <1>6, <1>7, <1>8

-----------------------------------------------------------------------------
(* The shapes of a client task's steps. *)

Kept ==
  /\ conn' \in [Client -> BOOLEAN] /\ owners' \in [Id -> Client \cup {None}]
  /\ crossed' \in BOOLEAN

(* A step that leaves the guest alone and the lock where it is. *)
QuietShape(c) ==
  /\ UNCHANGED <<helloVars, lock, acks, acksDone, lineVars>> /\ Kept
  /\ hello = "serving" /\ task[c].at \notin {"ack", "dropAck"}
  /\ \E a \in At \ {"none", "ack", "dropAck"}, k \in Said, w \in Verdict, m \in Mine :
       /\ Moved(c, a, k, w, m)
       /\ a \in {"read", "lock", "answer"} => m = {}
       /\ a \in {"lock", "drop"} => k \in Command

(* A step that takes the lock and writes a line. *)
SendShape(c) ==
  /\ UNCHANGED <<helloVars, acks, acksDone, fromGuest, guestUp, guest>> /\ Kept
  /\ hello = "serving" /\ lock = None /\ guestUp
  /\ lock' = c /\ toGuest' = Append(toGuest, task[c].cmd) /\ task[c].cmd \in Command
  /\ \E a \in {"ack", "dropAck"} :
       /\ Moved(c, a, task[c].cmd, task[c].answer, task[c].mine)
       /\ a = "ack" => task[c].mine = {}

(* A step that has its answer, or finds that none will come, and releases  *)
(* the lock.                                                               *)
AnswerShape(c) ==
  /\ UNCHANGED <<helloVars, acksDone, lineVars>> /\ Kept
  /\ hello = "serving" /\ lock = c /\ lock' = None
  /\ \/ acks # <<>> /\ acks' = Tail(acks)
     \/ acks = <<>> /\ acks' = acks /\ acksDone
  /\ \E a \in {"answer", "finally"}, w \in Verdict, m \in Mine :
       /\ Moved(c, a, task[c].cmd, w, m)
       /\ a = "answer" => m = {} \/ (acks # <<>> /\ m \subseteq {Head(acks).for})

(* Owners stay clients. *)
LEMMA DisownType ==
  ASSUME Types, NEW c, NEW id
  PROVE  /\ Disown(c, id) => owners' \in [Id -> Client \cup {None}] /\ crossed' \in BOOLEAN
         /\ DisownCreated(c) => owners' \in [Id -> Client \cup {None}] /\ crossed' \in BOOLEAN
  BY DEF Types, Disown, DisownCreated, ownVars

(* A task's fields; a task that has begun runs after the handshake. *)
LEMMA TaskFacts ==
  ASSUME Types, Order, NEW c \in Client
  PROVE  /\ task[c].at \in At /\ task[c].cmd \in Said /\ task[c].answer \in Verdict
         /\ task[c].mine \in Mine /\ {} \in Mine /\ SUBSET Id \subseteq Mine
         /\ task[c].at # "none" => hello = "serving"
         /\ {None, "OK", "ERR"} \subseteq Verdict
<1>1. task[c] \in TaskType
  BY DEF Types
<1> QED BY <1>1 DEF TaskType, Order, Mine, Verdict

LEMMA ConnectQuiet ==
  ASSUME Types, Order, NEW c \in Client, Connect(c)
  PROVE  QuietShape(c)
<1>1. Moved(c, "read", task[c].cmd, task[c].answer, task[c].mine)
  BY MoveForms, TaskFacts DEF Connect, Goto, At
<1>2. task[c].mine = {} /\ task[c].at = "none" /\ hello = "serving"
  BY DEF Connect, Order
<1>3. Kept
  BY DEF Connect, Types, Kept, ownVars
<1> QED BY <1>1, <1>2, <1>3, TaskFacts DEF Connect, QuietShape, At

LEMMA AcceptQuiet ==
  ASSUME Types, Order, NEW c \in Client, NEW op \in Op, NEW id \in Id, NEW f \in BOOLEAN,
         Accept(c, op, id, f)
  PROVE  QuietShape(c)
<1> DEFINE k == [op |-> op, id |-> id, by |-> c, fits |-> f]
<1>1. k \in Command /\ k \in Said
  BY SaidFacts DEF Said
<1>2. Kept
  BY DEF Accept, Types, Kept, ownVars
<1>3. task[c].at = "read" /\ task' = [task EXCEPT ![c].at = "lock", ![c].cmd = k]
  BY DEF Accept
<1> HIDE DEF k
<1>4. Moved(c, "lock", k, task[c].answer, task[c].mine)
  BY <1>1, <1>3, MoveForms, TaskFacts DEF At
<1>5. task[c].mine = {} /\ hello = "serving"
  BY <1>3, TaskFacts DEF Order
<1> QED BY <1>1, <1>2, <1>3, <1>4, <1>5, TaskFacts DEF Accept, QuietShape, At

LEMMA RefuseQuiet ==
  ASSUME Types, Order, NEW c \in Client,
         \/ \E op \in Op, id \in Id : Refuse(c, op, id)
         \/ TooLong(c)
         \/ SendGuest(c) /\ ~guestUp
  PROVE  QuietShape(c)
<1>1. Kept
  BY DisownType DEF Refuse, TooLong, SendGuest, Types, Kept, ownVars
<1>2. task[c].at \in {"read", "lock"} /\ Answer(c, "ERR")
  BY DEF Refuse, TooLong, SendGuest
<1>3. Moved(c, "answer", task[c].cmd, "ERR", task[c].mine)
  BY <1>2, MoveForms, TaskFacts DEF Answer, At
<1>4. task[c].mine = {} /\ hello = "serving"
  BY <1>2, TaskFacts DEF Order
<1>5. UNCHANGED <<helloVars, lock, acks, acksDone, lineVars>>
  BY DEF Refuse, TooLong, SendGuest, lineVars, ownVars
<1> QED BY <1>1, <1>2, <1>3, <1>4, <1>5, TaskFacts DEF QuietShape, At

LEMMA ReplyQuiet ==
  ASSUME Types, Order, NEW c \in Client, Reply(c)
  PROVE  QuietShape(c)
<1>1. Kept
  BY DisownType DEF Reply, Types, Kept, ownVars
<1>2. Moved(c, "read", Hello, None, {}) /\ Hello \in Said
  BY MoveForms, TaskFacts, SaidFacts DEF Reply, At
<1>3. task[c].at = "answer" /\ hello = "serving"
  BY TaskFacts DEF Reply
<1> QED BY <1>1, <1>2, <1>3, TaskFacts DEF Reply, QuietShape, At

LEMMA EndQuiet ==
  ASSUME Types, Order, NEW c \in Client, ReplyFails(c) \/ ReadEnds(c)
  PROVE  QuietShape(c)
<1>1. Kept
  BY DisownType DEF ReplyFails, ReadEnds, Types, Kept, ownVars
<1>2. task[c].at \in {"answer", "read"} /\ hello = "serving"
  BY TaskFacts DEF ReplyFails, ReadEnds
<1>3. \E k \in Said, w \in Verdict, m \in Mine : Moved(c, "finally", k, w, m)
  <2>1. CASE ReplyFails(c)
    <3> DEFINE m == {id \in Id : owners'[id] = c}
    <3>1. m \in Mine
      BY TaskFacts
    <3>2. task' = [task EXCEPT ![c] = [NoTask EXCEPT !.at = "finally", !.mine = m]]
      BY <2>1 DEF ReplyFails
    <3> HIDE DEF m
    <3>3. Moved(c, "finally", Hello, None, m)
      BY <3>1, <3>2, MoveForms, TaskFacts, SaidFacts DEF At
    <3> QED BY <3>1, <3>3, TaskFacts, SaidFacts
  <2>2. CASE ReadEnds(c)
    <3>1. Owned(c) \in Mine
      BY TaskFacts DEF Owned
    <3>2. task' = [task EXCEPT ![c].at = "finally", ![c].mine = Owned(c)]
      BY <2>2 DEF ReadEnds
    <3>3. Moved(c, "finally", task[c].cmd, task[c].answer, Owned(c))
      BY <3>1, <3>2, MoveForms, TaskFacts DEF At
    <3> QED BY <3>1, <3>3, TaskFacts
  <2> QED BY <2>1, <2>2
<1>4. UNCHANGED <<helloVars, lock, acks, acksDone, lineVars>>
  BY DEF ReplyFails, ReadEnds
<1> QED BY <1>1, <1>2, <1>3, <1>4, TaskFacts DEF QuietShape, At

LEMMA FinallyQuiet ==
  ASSUME Types, Order, NEW c \in Client, NEW id \in Id, Finally(c, id)
  PROVE  QuietShape(c)
<1> DEFINE k == [op |-> "WD", id |-> id, by |-> c, fits |-> TRUE]
           m == task[c].mine \ {id}
<1>1. k \in Command /\ k \in Said
  BY SaidFacts DEF Said, Op
<1>2. m \in Mine
  BY TaskFacts DEF Mine
<1>3. Kept
  BY DisownType DEF Finally, Types, Kept, ownVars
<1>4. task[c].at = "finally" /\ hello = "serving"
  BY TaskFacts DEF Finally
<1>5. task' = [task EXCEPT ![c].at = "drop", ![c].mine = m, ![c].cmd = k]
  <2>1. task' = [task EXCEPT ![c].at = "drop", ![c].mine = @ \ {id}, ![c].cmd = k]
    BY DEF Finally
  <2>2. task \in [Client -> TaskType] /\ task[c] \in TaskType
    BY DEF Types
  <2> QED BY <2>1, <2>2 DEF TaskType
<1> HIDE DEF k, m
<1>6. Moved(c, "drop", k, task[c].answer, m)
  BY <1>1, <1>2, <1>5, MoveForms, TaskFacts DEF At
<1>7. UNCHANGED <<helloVars, lock, acks, acksDone, lineVars>>
  BY DEF Finally
<1> QED BY <1>1, <1>2, <1>3, <1>4, <1>6, <1>7, TaskFacts DEF QuietShape, At

LEMMA DropQuiet ==
  ASSUME Types, Order, NEW c \in Client, (DropSend(c) /\ ~guestUp) \/ Dispose(c)
  PROVE  QuietShape(c)
<1>1. Kept
  BY DEF DropSend, Dispose, Types, Kept, ownVars
<1>2. task[c].at \in {"drop", "finally"} /\ (Goto(c, "finally") \/ Goto(c, "done"))
  BY DEF DropSend, Dispose
<1>3. \/ Moved(c, "finally", task[c].cmd, task[c].answer, task[c].mine)
      \/ Moved(c, "done", task[c].cmd, task[c].answer, task[c].mine)
  BY <1>2, MoveForms, TaskFacts DEF Goto, At
<1>4. UNCHANGED <<helloVars, lock, acks, acksDone, lineVars>>
  BY DEF DropSend, Dispose, lineVars, ownVars
<1> QED BY <1>1, <1>2, <1>3, <1>4, TaskFacts DEF QuietShape, At

LEMMA Sends ==
  ASSUME Types, Order, NEW c \in Client, SendGuest(c) \/ DropSend(c), guestUp
  PROVE  SendShape(c)
<1>1. Kept
  BY DEF SendGuest, DropSend, Types, Kept, ownVars
<1>2. \/ task[c].at = "lock" /\ Goto(c, "ack")
      \/ task[c].at = "drop" /\ Goto(c, "dropAck")
  BY DEF SendGuest, DropSend
<1>3. task[c].cmd \in Command /\ hello = "serving"
  BY <1>2, TaskFacts DEF Order
<1>4. \E a \in {"ack", "dropAck"} :
        /\ Moved(c, a, task[c].cmd, task[c].answer, task[c].mine)
        /\ a = "ack" => task[c].mine = {}
  BY <1>2, MoveForms, TaskFacts DEF Goto, At, Order
<1>5. /\ UNCHANGED <<helloVars, acks, acksDone, fromGuest, guestUp, guest>>
      /\ lock = None /\ lock' = c /\ toGuest' = Append(toGuest, task[c].cmd)
  BY DEF SendGuest, DropSend, LockFree
<1> QED BY <1>1, <1>3, <1>4, <1>5 DEF SendShape

LEMMA Answers ==
  ASSUME Types, Order, NEW c \in Client, GetAck(c) \/ GetClosed(c) \/ DropAck(c)
  PROVE  AnswerShape(c)
<1>1. Kept
  BY DisownType DEF GetAck, GetClosed, DropAck, Types, Kept, ownVars
<1>2. task[c].at \in {"ack", "dropAck"} /\ lock = c /\ hello = "serving"
  BY TaskFacts DEF GetAck, GetClosed, DropAck, Order
<1>3. /\ UNCHANGED <<helloVars, acksDone, lineVars>> /\ lock' = None
      /\ \/ acks # <<>> /\ acks' = Tail(acks)
         \/ acks = <<>> /\ acks' = acks /\ acksDone
  BY DEF GetAck, GetClosed, DropAck, Unlocked
<1>4. \E a \in {"answer", "finally"}, w \in Verdict, m \in Mine :
        /\ Moved(c, a, task[c].cmd, w, m)
        /\ a = "answer" => m = {} \/ (acks # <<>> /\ m \subseteq {Head(acks).for})
  <2>1. CASE GetAck(c)
    <3> DEFINE m == {Head(acks).for}
               w == IF Head(acks).kind = "A" THEN "OK" ELSE "ERR"
    <3>1. acks # <<>> /\ Head(acks) \in LineType
      BY <2>1, FewerLines DEF GetAck, Types
    <3>2. m \in Mine /\ w \in Verdict
      BY <3>1 DEF LineType, Mine, Verdict
    <3>3. task' = [task EXCEPT ![c].at = "answer", ![c].answer = w, ![c].mine = m]
      BY <2>1 DEF GetAck
    <3>4. m \subseteq {Head(acks).for}
      OBVIOUS
    <3> HIDE DEF m, w
    <3>5. Moved(c, "answer", task[c].cmd, w, m)
      BY <3>2, <3>3, MoveForms, TaskFacts DEF At
    <3> QED BY <3>1, <3>2, <3>4, <3>5
  <2>2. CASE GetClosed(c)
    <3>1. task[c].at = "ack" /\ Answer(c, "ERR")
      BY <2>2 DEF GetClosed
    <3>2. Moved(c, "answer", task[c].cmd, "ERR", task[c].mine)
      BY <3>1, MoveForms, TaskFacts DEF Answer, At
    <3>3. task[c].mine = {}
      BY <3>1 DEF Order
    <3> QED BY <3>2, <3>3, TaskFacts
  <2>3. CASE DropAck(c)
    <3>1. Moved(c, "finally", task[c].cmd, task[c].answer, task[c].mine)
      BY <2>3, MoveForms, TaskFacts DEF DropAck, Goto, At
    <3> QED BY <3>1, TaskFacts
  <2> QED BY <2>1, <2>2, <2>3
<1> QED BY <1>1, <1>2, <1>3, <1>4 DEF AnswerShape

-----------------------------------------------------------------------------
(* Every shape keeps the invariant. *)

(* A step of one task: its fields after the step, and those of the others. *)
LEMMA MovedFacts ==
  ASSUME Types, NEW c \in Client, NEW a, NEW k, NEW w, NEW m, Moved(c, a, k, w, m)
  PROVE  /\ task' \in [Client -> TaskType]
         /\ task'[c].at = a /\ task'[c].cmd = k /\ task'[c].mine = m
         /\ \A d \in Client : d # c => task'[d] = task[d]
  BY DEF Moved, Has

LEMMA QuietKeeps ==
  ASSUME BrokerInv, NEW c \in Client, QuietShape(c)
  PROVE  BrokerInv'
<1>1. PICK a \in At \ {"none", "ack", "dropAck"}, k \in Said, w \in Verdict, m \in Mine :
        /\ Moved(c, a, k, w, m)
        /\ a \in {"read", "lock", "answer"} => m = {}
        /\ a \in {"lock", "drop"} => k \in Command
  BY DEF QuietShape
<1>2. /\ task' \in [Client -> TaskType]
      /\ task'[c].at = a /\ task'[c].cmd = k /\ task'[c].mine = m
      /\ \A d \in Client : d # c => task'[d] = task[d]
  BY <1>1, MovedFacts DEF BrokerInv
<1>3. /\ UNCHANGED <<hello, hellos, stray, lock, acks, acksDone, toGuest, fromGuest, guestUp, guest>>
      /\ Kept /\ hello = "serving" /\ task[c].at \notin {"ack", "dropAck"}
  BY DEF QuietShape, helloVars, lineVars, ownVars
<1>4. Types'
  BY <1>2, <1>3 DEF BrokerInv, Types, Kept, ownVars
<1>5. Order'
  <2>1. lock # c
    BY <1>3 DEF BrokerInv, Order
  <2>2. \A d \in Client : lock' = d <=> task'[d].at \in {"ack", "dropAck"}
    BY <1>1, <1>2, <1>3, <2>1 DEF BrokerInv, Order
  <2>3. \A d \in Client :
          /\ task'[d].at \in {"none", "read", "lock", "ack"} => task'[d].mine = {}
          /\ task'[d].at \in {"lock", "ack", "drop", "dropAck"} => task'[d].cmd \in Command
    BY <1>1, <1>2, <1>3 DEF BrokerInv, Order
  <2> QED BY <1>3, <2>2, <2>3 DEF BrokerInv, Order
<1>6. ASSUME ~stray' PROVE Paired' /\ OneUnderWay'
  <2>1. Paired /\ OneUnderWay
    BY <1>3, <1>6 DEF BrokerInv
  <2>2. Paired'
    BY <1>1, <1>2, <2>1 DEF Paired
  <2>3. lock # c
    BY <1>3 DEF BrokerInv, Order
  <2>4. OneUnderWay'
    BY <1>2, <1>3, <2>1, <2>3 DEF OneUnderWay, Quiet, UnderWay
  <2> QED BY <2>2, <2>4
<1> QED BY <1>4, <1>5, <1>6 DEF BrokerInv

LEMMA SendKeeps ==
  ASSUME BrokerInv, NEW c \in Client, SendShape(c)
  PROVE  BrokerInv'
<1>1. PICK a \in {"ack", "dropAck"} :
        /\ Moved(c, a, task[c].cmd, task[c].answer, task[c].mine)
        /\ a = "ack" => task[c].mine = {}
  BY DEF SendShape
<1>2. /\ task' \in [Client -> TaskType]
      /\ task'[c].at = a /\ task'[c].cmd = task[c].cmd /\ task'[c].mine = task[c].mine
      /\ \A d \in Client : d # c => task'[d] = task[d]
  BY <1>1, MovedFacts DEF BrokerInv
<1>3. /\ UNCHANGED <<hello, hellos, stray, acks, acksDone, fromGuest, guestUp, guest>> /\ Kept
      /\ hello = "serving" /\ lock = None /\ guestUp
      /\ lock' = c /\ toGuest' = Append(toGuest, task[c].cmd) /\ task[c].cmd \in Command
  BY DEF SendShape, helloVars, ownVars
<1>4. Types'
  <2>1. toGuest' \in Seq(Said)
    BY <1>3 DEF BrokerInv, Types, Said
  <2> QED BY <1>2, <1>3, <2>1 DEF BrokerInv, Types, Kept, ownVars
<1>5. Order'
  <2>1. \A d \in Client : task[d].at \notin {"ack", "dropAck"}
    BY <1>3, SaidFacts DEF BrokerInv, Order
  <2>2. \A d \in Client : lock' = d <=> task'[d].at \in {"ack", "dropAck"}
    BY <1>1, <1>2, <1>3, <2>1
  <2>3. \A d \in Client :
          /\ task'[d].at \in {"none", "read", "lock", "ack"} => task'[d].mine = {}
          /\ task'[d].at \in {"lock", "ack", "drop", "dropAck"} => task'[d].cmd \in Command
    BY <1>1, <1>2, <1>3 DEF BrokerInv, Order
  <2> QED BY <1>3, <2>2, <2>3 DEF BrokerInv, Order
<1>6. ASSUME ~stray' PROVE Paired' /\ OneUnderWay'
  <2>1. Paired /\ OneUnderWay
    BY <1>3, <1>6 DEF BrokerInv
  <2>2. Paired'
    BY <1>1, <1>2, <2>1 DEF Paired
  <2>3. Quiet
    BY <1>3, <2>1 DEF OneUnderWay
  <2>4. toGuest' = <<task[c].cmd>> /\ NoAnswer(fromGuest)' /\ acks' = <<>>
    BY <1>3, <2>3 DEF Quiet, NoAnswer
  <2>5. OneUnderWay'
    BY <1>2, <1>3, <2>4, SaidFacts DEF OneUnderWay, UnderWay
  <2> QED BY <2>2, <2>5
<1> QED BY <1>4, <1>5, <1>6 DEF BrokerInv

LEMMA AnswerKeeps ==
  ASSUME BrokerInv, NEW c \in Client, AnswerShape(c)
  PROVE  BrokerInv'
<1>1. PICK a \in {"answer", "finally"}, w \in Verdict, m \in Mine :
        /\ Moved(c, a, task[c].cmd, w, m)
        /\ a = "answer" => m = {} \/ (acks # <<>> /\ m \subseteq {Head(acks).for})
  BY DEF AnswerShape
<1>2. /\ task' \in [Client -> TaskType]
      /\ task'[c].at = a /\ task'[c].cmd = task[c].cmd /\ task'[c].mine = m
      /\ \A d \in Client : d # c => task'[d] = task[d]
  BY <1>1, MovedFacts DEF BrokerInv
<1>3. /\ UNCHANGED <<hello, hellos, stray, acksDone, toGuest, fromGuest, guestUp, guest>> /\ Kept
      /\ hello = "serving" /\ lock = c /\ lock' = None
      /\ \/ acks # <<>> /\ acks' = Tail(acks)
         \/ acks = <<>> /\ acks' = acks /\ acksDone
  BY DEF AnswerShape, helloVars, lineVars, ownVars
<1>4. Types'
  <2>1. acks' \in Seq(LineType)
    BY <1>3, FewerLines DEF BrokerInv, Types
  <2> QED BY <1>2, <1>3, <2>1 DEF BrokerInv, Types, Kept, ownVars
<1>5. Order'
  <2>1. \A d \in Client : d # c => task[d].at \notin {"ack", "dropAck"}
    BY <1>3 DEF BrokerInv, Order
  <2>2. \A d \in Client : lock' = d <=> task'[d].at \in {"ack", "dropAck"}
    BY <1>1, <1>2, <1>3, <2>1, SaidFacts
  <2>3. \A d \in Client :
          /\ task'[d].at \in {"none", "read", "lock", "ack"} => task'[d].mine = {}
          /\ task'[d].at \in {"lock", "ack", "drop", "dropAck"} => task'[d].cmd \in Command
    BY <1>1, <1>2, <1>3 DEF BrokerInv, Order
  <2> QED BY <1>3, <2>2, <2>3 DEF BrokerInv, Order
<1>6. ASSUME ~stray' PROVE Paired' /\ OneUnderWay'
  <2>1. Paired /\ OneUnderWay
    BY <1>3, <1>6 DEF BrokerInv
  <2>2. UnderWay(task[c].cmd) \/ Quiet
    BY <1>3, <2>1 DEF OneUnderWay
  <2>3. CASE acks # <<>>
    <3>1. PICK l \in LineType : acks = <<l>> /\ l.for = task[c].cmd
      BY <2>2, <2>3 DEF UnderWay, Quiet
    <3>2. toGuest = <<>> /\ NoAnswer(fromGuest)
      BY <2>2, <2>3 DEF UnderWay, Quiet
    <3>3. Head(acks) = l /\ Tail(acks) = <<>>
      BY <3>1
    <3>4. Quiet'
      BY <1>3, <2>3, <3>2, <3>3 DEF Quiet, NoAnswer
    <3>5. a = "answer" => m \subseteq {task[c].cmd}
      BY <1>1, <3>1, <3>3
    <3>6. Paired'
      BY <1>1, <1>2, <2>1, <3>5 DEF Paired
    <3> QED BY <1>3, <3>4, <3>6, SaidFacts DEF OneUnderWay
  <2>4. CASE acks = <<>>
    <3>1. acks' = <<>> /\ acksDone
      BY <1>3, <2>4
    <3>2. toGuest = <<>> /\ fromGuest = <<>>
      BY <3>1 DEF BrokerInv, Order
    <3>3. Quiet'
      BY <1>3, <3>1, <3>2 DEF Quiet, NoAnswer
    <3>4. Paired'
      BY <1>1, <1>2, <2>1, <2>4 DEF Paired
    <3> QED BY <1>3, <3>3, <3>4, SaidFacts DEF OneUnderWay
  <2> QED BY <2>3, <2>4
<1> QED BY <1>4, <1>5, <1>6 DEF BrokerInv

-----------------------------------------------------------------------------
(* The handshake, the reading task and the guest. *)

(* Before clients are served no task holds the lock. *)
LEMMA NoLockYet == ASSUME BrokerInv, hello # "serving" PROVE lock = None /\ guestUp
<1>1. lock \in Client => task[lock].at \in {"ack", "dropAck"} /\ task[lock].at = "none"
  BY DEF BrokerInv, Order
<1> QED BY <1>1 DEF BrokerInv, Types, Order

(* The variables that the order of a task's steps is about. *)
LEMMA OrderStays ==
  ASSUME Order, UNCHANGED <<task, lock>>,
         hello' # "serving" => hello # "serving",
         ~guestUp' => toGuest' = <<>> /\ hello' = "serving",
         acksDone' => fromGuest' = <<>> /\ ~guestUp'
  PROVE  Order'
  BY DEF Order

LEMMA HelloSendKeeps == BrokerInv /\ HelloSend => BrokerInv'
<1> SUFFICES ASSUME BrokerInv, HelloSend PROVE BrokerInv'
  OBVIOUS
<1>1. /\ hello = "send" /\ hellos < MaxHellos /\ hello' = "wait" /\ hellos' = hellos + 1
      /\ toGuest' = Append(toGuest, Hello)
      /\ UNCHANGED <<stray, conn, task, owners, crossed, lock, acks, acksDone, fromGuest, guestUp, guest>>
  BY DEF HelloSend, ownVars
<1>2. lock = None /\ guestUp
  BY <1>1, NoLockYet
<1>3. toGuest' \in Seq(Said) /\ hellos' \in 0 .. MaxHellos
  BY <1>1, SaidFacts, BrokerAssumption DEF BrokerInv, Types
<1>4. Types'
  BY <1>1, <1>3 DEF BrokerInv, Types
<1>5. Order'
  BY <1>1, <1>2, OrderStays DEF BrokerInv, Order
<1>6. ASSUME ~stray' PROVE Paired' /\ OneUnderWay'
  <2>1. Paired /\ Quiet
    BY <1>1, <1>2, <1>6 DEF BrokerInv, OneUnderWay
  <2>2. UnderWay(Hello)'
    BY <1>1, <2>1 DEF Quiet, UnderWay, NoAnswer
  <2> QED BY <1>1, <1>2, <2>1, <2>2, SaidFacts DEF Paired, OneUnderWay
<1> QED BY <1>4, <1>5, <1>6 DEF BrokerInv

LEMMA HelloTimeoutKeeps == BrokerInv /\ HelloTimeout => BrokerInv'
<1> SUFFICES ASSUME BrokerInv, HelloTimeout PROVE BrokerInv'
  OBVIOUS
<1>1. /\ hello = "wait" /\ hello' = "send" /\ stray'
      /\ UNCHANGED <<hellos, conn, task, owners, crossed, lock, acks, acksDone, toGuest, fromGuest, guestUp, guest>>
  BY DEF HelloTimeout, lineVars, ownVars
<1>2. Types'
  BY <1>1 DEF BrokerInv, Types, HelloTimeout, ownVars
<1>3. Order'
  BY <1>1, NoLockYet, OrderStays DEF BrokerInv, Order
<1> QED BY <1>1, <1>2, <1>3 DEF BrokerInv

LEMMA HelloAnswerKeeps == BrokerInv /\ HelloAnswer => BrokerInv'
<1> SUFFICES ASSUME BrokerInv, HelloAnswer PROVE BrokerInv'
  OBVIOUS
<1>1. /\ hello = "wait" /\ hello' \in {"send", "serving"} /\ acks # <<>> /\ acks' = Tail(acks)
      /\ UNCHANGED <<hellos, stray, conn, task, owners, crossed, lock, acksDone, toGuest, fromGuest, guestUp, guest>>
  BY DEF HelloAnswer, lineVars, ownVars
<1>2. lock = None /\ guestUp
  BY <1>1, NoLockYet
<1>3. acks' \in Seq(LineType)
  BY <1>1, FewerLines DEF BrokerInv, Types
<1>4. Types'
  BY <1>1, <1>3 DEF BrokerInv, Types
<1>5. Order'
  BY <1>1, <1>2, OrderStays DEF BrokerInv, Order
<1>6. ASSUME ~stray' PROVE Paired' /\ OneUnderWay'
  <2>1. Paired /\ UnderWay(Hello)
    BY <1>1, <1>6 DEF BrokerInv, OneUnderWay
  <2>2. PICK l \in LineType : acks = <<l>>
    BY <1>1, <2>1 DEF UnderWay
  <2>3. toGuest = <<>> /\ NoAnswer(fromGuest)
    BY <1>1, <2>1 DEF UnderWay
  <2>4. Quiet'
    BY <1>1, <2>2, <2>3 DEF Quiet, NoAnswer
  <2> QED BY <1>1, <1>2, <2>1, <2>4, SaidFacts DEF Paired, OneUnderWay
<1> QED BY <1>4, <1>5, <1>6 DEF BrokerInv

(* A step of the guest or of the reading task that moves the one command   *)
(* under way along, or leaves it where it is.                              *)
LEMMA UnderWayMoves ==
  ASSUME BrokerInv, Types', Order', UNCHANGED <<hello, task, lock>>,
         ~stray' => ~stray,
         ~stray /\ Quiet => Quiet',
         guestUp' => guestUp,
         \A x \in Said : ~stray /\ UnderWay(x)
           => UnderWay(x)' \/ (Quiet' /\ ((~guestUp' /\ hello = "serving") \/ ~x.fits))
  PROVE  BrokerInv'
<1>1. ASSUME ~stray' PROVE Paired' /\ OneUnderWay'
  <2>1. ~stray /\ Paired /\ OneUnderWay
    BY <1>1 DEF BrokerInv
  <2>2. Paired'
    BY <2>1 DEF Paired
  <2>3. lock' = None /\ hello' # "wait" => Quiet'
    BY <2>1 DEF OneUnderWay
  <2>4. hello' = "wait" => UnderWay(Hello)'
    BY <2>1, SaidFacts DEF OneUnderWay
  <2>5. ASSUME NEW c \in Client, lock' = c
        PROVE  (UnderWay(task[c].cmd) \/ (Quiet /\ (~guestUp \/ ~task[c].cmd.fits)))'
    <3>1. task[c].cmd \in Said /\ task'[c].cmd = task[c].cmd
      BY TaskFacts DEF BrokerInv
    <3>2. UnderWay(task[c].cmd) \/ (Quiet /\ (~guestUp \/ ~task[c].cmd.fits))
      BY <2>1, <2>5 DEF OneUnderWay
    <3>3. ASSUME NEW x \in Said, x = task[c].cmd
          PROVE  UnderWay(x)' \/ (Quiet' /\ (~guestUp' \/ ~x.fits))
      BY <2>1, <3>2, <3>3
    <3> QED BY <3>1, <3>3 DEF UnderWay
  <2> QED BY <2>2, <2>3, <2>4, <2>5 DEF OneUnderWay
<1> QED BY <1>1 DEF BrokerInv

(* Steps that touch no line. *)
LEMMA OthersKeep ==
  ASSUME BrokerInv,
         (\E c \in Client : Disconnect(c)) \/ PumpSend \/ PumpEnd \/ UNCHANGED vars
  PROVE  BrokerInv'
<1>1. /\ UNCHANGED <<hello, hellos, stray, task, lock, acks, toGuest, fromGuest, guestUp, guest>>
      /\ acksDone' \in BOOLEAN /\ (acksDone' => acksDone \/ (fromGuest = <<>> /\ ~guestUp))
  <2>1. acksDone \in BOOLEAN
    BY DEF BrokerInv, Types
  <2>2. CASE \E c \in Client : Disconnect(c)
    BY <2>1, <2>2 DEF Disconnect, helloVars, lineVars, ownVars
  <2>3. CASE PumpSend
    BY <2>1, <2>3 DEF PumpSend, helloVars, lineVars, ownVars
  <2>4. CASE PumpEnd
    BY <2>4 DEF PumpEnd, helloVars, lineVars, ownVars
  <2>5. CASE UNCHANGED vars
    BY <2>1, <2>5 DEF vars, hostVars, lineVars, ownVars
  <2> QED BY <2>2, <2>3, <2>4, <2>5
<1>2. conn' \in [Client -> BOOLEAN] /\ owners' \in [Id -> Client \cup {None}] /\ crossed' \in BOOLEAN
  BY DEF BrokerInv, Types, Disconnect, PumpSend, PumpEnd, Disown, vars, hostVars, ownVars
<1>3. Types'
  BY <1>1, <1>2 DEF BrokerInv, Types
<1>4. Order'
  BY <1>1, OrderStays DEF BrokerInv, Order
<1>5. (Quiet => Quiet') /\ \A x \in Said : UnderWay(x) => UnderWay(x)'
  BY <1>1 DEF Quiet, UnderWay
<1> QED BY <1>1, <1>3, <1>4, <1>5, UnderWayMoves

LEMMA PumpReadKeeps == ASSUME BrokerInv, PumpRead PROVE BrokerInv'
<1> DEFINE line == Head(fromGuest)
<1>1. /\ fromGuest # <<>> /\ fromGuest' = Tail(fromGuest)
      /\ acks' = IF line.kind = "EV" THEN acks ELSE Append(acks, line)
      /\ UNCHANGED <<hello, hellos, stray, conn, task, owners, crossed, lock, acksDone, toGuest, guestUp, guest>>
  BY DEF PumpRead, helloVars, ownVars
<1>2. line \in LineType /\ Tail(fromGuest) \in Seq(LineType)
  BY <1>1, FewerLines DEF BrokerInv, Types
<1>3. acks' \in Seq(LineType)
  BY <1>1, <1>2 DEF BrokerInv, Types
<1>4. Types'
  BY <1>1, <1>2, <1>3 DEF BrokerInv, Types
<1>5. ~acksDone
  BY <1>1 DEF BrokerInv, Order
<1>6. Order'
  BY <1>1, <1>5, OrderStays DEF BrokerInv, Order
<1>7. Quiet => Quiet'
  BY <1>1, FewerLines DEF BrokerInv, Types, Quiet
<1>8. ASSUME NEW x \in Said, UnderWay(x) PROVE UnderWay(x)'
  <2>1. CASE toGuest = <<x>> /\ NoAnswer(fromGuest) /\ acks = <<>>
    BY <1>1, <2>1, FewerLines DEF BrokerInv, Types, UnderWay
  <2>2. CASE toGuest = <<>> /\ OneAnswer(fromGuest, x) /\ acks = <<>>
    <3>1. CASE line.kind = "EV"
      BY <1>1, <2>2, <3>1, FewerLines DEF BrokerInv, Types, UnderWay
    <3>2. CASE line.kind # "EV"
      <4>1. line.for = x /\ NoAnswer(Tail(fromGuest))
        BY <1>1, <2>2, <3>2, FewerLines DEF BrokerInv, Types
      <4>2. acks' = <<line>>
        BY <1>1, <2>2, <3>2
      <4> QED BY <1>1, <1>2, <2>2, <4>1, <4>2 DEF UnderWay
    <3> QED BY <3>1, <3>2
  <2>3. CASE toGuest = <<>> /\ NoAnswer(fromGuest) /\ \E l \in LineType : acks = <<l>> /\ l.for = x
    <3>1. line.kind = "EV" /\ NoAnswer(Tail(fromGuest))
      BY <1>1, <2>3, FewerLines DEF BrokerInv, Types
    <3> QED BY <1>1, <2>3, <3>1 DEF UnderWay
  <2> QED BY <1>8, <2>1, <2>2, <2>3 DEF UnderWay
<1> QED BY <1>1, <1>4, <1>6, <1>7, <1>8, UnderWayMoves

LEMMA GuestEventKeeps == ASSUME BrokerInv, NEW id \in Id, GuestEvent(id) PROVE BrokerInv'
<1> DEFINE line == Line("EV", id, guest[id])
<1>1. /\ guestUp /\ fromGuest' = Append(fromGuest, line)
      /\ UNCHANGED <<hello, hellos, stray, conn, task, owners, crossed, lock, acks, acksDone, toGuest, guestUp, guest>>
  BY DEF GuestEvent, hostVars, ownVars
<1>2. line \in LineType /\ line.kind = "EV"
  BY DEF GuestEvent, BrokerInv, Types, Line, LineType
<1> HIDE DEF line
<1>3. fromGuest' \in Seq(LineType)
  BY <1>1, <1>2 DEF BrokerInv, Types
<1>4. Types'
  BY <1>1, <1>3 DEF BrokerInv, Types
<1>5. Order'
  BY <1>1, OrderStays DEF BrokerInv, Order
<1>6. /\ NoAnswer(fromGuest) => NoAnswer(fromGuest')
      /\ \A x \in Said : OneAnswer(fromGuest, x) => OneAnswer(fromGuest', x)
  BY <1>1, <1>2, MoreLines DEF BrokerInv, Types
<1>7. (Quiet => Quiet') /\ \A x \in Said : UnderWay(x) => UnderWay(x)'
  BY <1>1, <1>6 DEF Quiet, UnderWay
<1> QED BY <1>1, <1>4, <1>5, <1>7, UnderWayMoves

LEMMA GuestActionKeeps == ASSUME BrokerInv, GuestAction PROVE BrokerInv'
<1> DEFINE line == Line("E", None, Hello)
<1>1. /\ guestUp /\ fromGuest' = Append(fromGuest, line) /\ stray' = TRUE
      /\ UNCHANGED <<hello, hellos, conn, task, owners, crossed, lock, acks, acksDone, toGuest, guestUp, guest>>
  BY DEF GuestAction, ownVars
<1>2. line \in LineType
  BY SaidFacts DEF Line, LineType
<1> HIDE DEF line
<1>3. fromGuest' \in Seq(LineType)
  BY <1>1, <1>2 DEF BrokerInv, Types
<1>4. Types'
  BY <1>1, <1>3 DEF BrokerInv, Types
<1>5. Order'
  BY <1>1, OrderStays DEF BrokerInv, Order
<1> QED BY <1>1, <1>4, <1>5 DEF BrokerInv

LEMMA GuestStopKeeps == ASSUME BrokerInv, GuestStop PROVE BrokerInv'
<1>1. /\ guestUp /\ hello = "serving" /\ ~guestUp' /\ guestUp' \in BOOLEAN /\ toGuest' = <<>>
      /\ guest' = [id \in Id |-> None]
      /\ UNCHANGED <<hello, hellos, stray, conn, task, owners, crossed, lock, acks, acksDone, fromGuest>>
  BY DEF GuestStop, hostVars, ownVars
<1>2. Types'
  BY <1>1 DEF BrokerInv, Types
<1>3. Order'
  BY <1>1, OrderStays DEF BrokerInv, Order
<1>4. /\ Quiet => Quiet'
      /\ \A x \in Said : UnderWay(x) => UnderWay(x)' \/ Quiet'
  BY <1>1 DEF Quiet, UnderWay
<1> QED BY <1>1, <1>2, <1>3, <1>4, UnderWayMoves

(* The guest answers the command it takes: one answer, then events. *)
LEMMA GuestAnswerKeeps ==
  ASSUME BrokerInv, GuestHandle, Head(toGuest).fits
  PROVE  BrokerInv'
<1> DEFINE cmd == Head(toGuest)
<1>1. /\ guestUp /\ toGuest # <<>> /\ toGuest' = Tail(toGuest)
      /\ UNCHANGED <<hello, hellos, stray, conn, task, owners, lock, acks, acksDone, guestUp>>
      /\ crossed' \in BOOLEAN
  BY DEF GuestHandle, helloVars, BrokerInv, Types
<1>2. cmd \in Said /\ toGuest' \in Seq(Said)
  BY <1>1, HeadTailProperties DEF BrokerInv, Types
<1>3. cmd # Hello => cmd \in Command /\ cmd.id \in Id /\ cmd.by \in Client
  BY <1>2 DEF Said, Command
<1>4. guest' \in [Id -> Client \cup {None}]
  <2>1. CASE guest' = guest
    BY <2>1 DEF BrokerInv, Types
  <2>2. CASE cmd # Hello /\ guest' = [guest EXCEPT ![cmd.id] =
               CASE cmd.op = "WC" -> cmd.by [] cmd.op = "WD" -> None [] OTHER -> guest[cmd.id]]
    BY <1>3, <2>2 DEF BrokerInv, Types
  <2> QED BY <2>1, <2>2 DEF GuestHandle
<1>5. \E l \in LineType :
        /\ l.kind # "EV" /\ l.for = cmd
        /\ \/ fromGuest' = Append(fromGuest, l)
           \/ \E e \in LineType : e.kind = "EV" /\ fromGuest' = Append(Append(fromGuest, l), e)
  <2> DEFINE r == Line("R2", None, cmd)
             y == Line("A", None, cmd)
             n == Line("N", None, cmd)
             e == Line("EV", cmd.id, cmd.by)
  <2>1. r \in LineType /\ r.kind # "EV" /\ r.for = cmd
    BY <1>2 DEF Line, LineType
  <2>2. y \in LineType /\ y.kind # "EV" /\ y.for = cmd
    BY <1>2 DEF Line, LineType
  <2>3. n \in LineType /\ n.kind # "EV" /\ n.for = cmd
    BY <1>2 DEF Line, LineType
  <2>4. cmd # Hello => e \in LineType /\ e.kind = "EV"
    BY <1>3 DEF Line, LineType
  <2>5. \/ fromGuest' = Append(fromGuest, r) \/ fromGuest' = Append(fromGuest, n)
        \/ cmd # Hello /\ fromGuest' = fromGuest \o <<y>> \o (IF cmd.op = "WC" THEN <<e>> ELSE <<>>)
    BY DEF GuestHandle
  <2> HIDE DEF r, y, n, e, cmd
  <2>6. fromGuest \o <<y>> = Append(fromGuest, y) /\ Append(fromGuest, y) \in Seq(LineType)
    BY <2>2, AppendIsConcat DEF BrokerInv, Types
  <2>7. /\ Append(fromGuest, y) \o <<>> = Append(fromGuest, y)
        /\ cmd # Hello => Append(fromGuest, y) \o <<e>> = Append(Append(fromGuest, y), e)
    BY <2>4, <2>6, AppendIsConcat, ConcatEmptySeq
  <2>8. CASE fromGuest' = Append(fromGuest, r) \/ fromGuest' = Append(fromGuest, n)
    BY <2>1, <2>3, <2>8
  <2>9. CASE cmd # Hello /\ fromGuest' = fromGuest \o <<y>> \o (IF cmd.op = "WC" THEN <<e>> ELSE <<>>)
    <3>1. CASE cmd.op = "WC"
      BY <2>2, <2>4, <2>6, <2>7, <2>9, <3>1
    <3>2. CASE cmd.op # "WC"
      BY <2>2, <2>6, <2>7, <2>9, <3>2
    <3> QED BY <3>1, <3>2
  <2> QED BY <2>5, <2>8, <2>9
<1>6. PICK l \in LineType :
        /\ l.kind # "EV" /\ l.for = cmd
        /\ \/ fromGuest' = Append(fromGuest, l)
           \/ \E e \in LineType : e.kind = "EV" /\ fromGuest' = Append(Append(fromGuest, l), e)
  BY <1>5
<1> HIDE DEF cmd
<1>7. fromGuest \in Seq(LineType) /\ Append(fromGuest, l) \in Seq(LineType)
  BY DEF BrokerInv, Types
<1>8. fromGuest' \in Seq(LineType)
  BY <1>6, <1>7
<1>9. NoAnswer(fromGuest) => OneAnswer(fromGuest', cmd)
  <2>1. NoAnswer(fromGuest) => OneAnswer(Append(fromGuest, l), cmd)
    BY <1>6, <1>7, MoreLines
  <2> QED BY <1>6, <1>7, <2>1, MoreLines
<1>10. Types'
  BY <1>1, <1>2, <1>4, <1>8 DEF BrokerInv, Types
<1>11. Order'
  BY <1>1, OrderStays DEF BrokerInv, Order
<1>12. ~Quiet
  BY <1>1 DEF Quiet
<1>13. ASSUME NEW x \in Said, UnderWay(x) PROVE UnderWay(x)'
  <2>1. toGuest = <<x>> /\ NoAnswer(fromGuest) /\ acks = <<>>
    BY <1>1, <1>13 DEF UnderWay
  <2>2. cmd = x /\ toGuest' = <<>>
    BY <1>1, <2>1 DEF cmd
  <2> QED BY <1>1, <1>9, <2>1, <2>2 DEF UnderWay
<1> QED BY <1>1, <1>10, <1>11, <1>12, <1>13, UnderWayMoves

(* It drops a line that does not fit: then nothing is under way. *)
LEMMA GuestDropKeeps ==
  ASSUME BrokerInv, GuestHandle, ~Head(toGuest).fits
  PROVE  BrokerInv'
<1> DEFINE cmd == Head(toGuest)
<1>1. /\ guestUp /\ toGuest # <<>> /\ toGuest' = Tail(toGuest)
      /\ UNCHANGED <<hello, hellos, stray, conn, task, owners, lock, acks, acksDone, guestUp>>
  BY DEF GuestHandle, helloVars
<1>2. UNCHANGED <<fromGuest, guest, crossed>>
  BY SaidFacts DEF GuestHandle
<1>3. toGuest' \in Seq(Said)
  BY <1>1, HeadTailProperties DEF BrokerInv, Types
<1>4. Types'
  BY <1>1, <1>2, <1>3 DEF BrokerInv, Types
<1>5. Order'
  BY <1>1, <1>2, OrderStays DEF BrokerInv, Order
<1>6. ~Quiet
  BY <1>1 DEF Quiet
<1>7. ASSUME NEW x \in Said, UnderWay(x) PROVE Quiet' /\ ~x.fits
  <2>1. toGuest = <<x>> /\ NoAnswer(fromGuest) /\ acks = <<>>
    BY <1>1, <1>7 DEF UnderWay
  <2>2. cmd = x /\ toGuest' = <<>>
    BY <1>1, <2>1
  <2> QED BY <1>1, <1>2, <2>1, <2>2 DEF Quiet, NoAnswer
<1> QED BY <1>1, <1>4, <1>5, <1>6, <1>7, UnderWayMoves

LEMMA GuestHandleKeeps == ASSUME BrokerInv, GuestHandle PROVE BrokerInv'
  BY GuestAnswerKeeps, GuestDropKeeps

-----------------------------------------------------------------------------
(* The theorem. *)

LEMMA BrokerStep == BrokerInv /\ [Next]_vars => BrokerInv'
<1> SUFFICES ASSUME BrokerInv, [Next]_vars PROVE BrokerInv'
  OBVIOUS
<1>0. Types /\ Order
  BY DEF BrokerInv
<1>1. CASE HelloSend \/ HelloTimeout \/ HelloAnswer
  BY <1>1, HelloSendKeeps, HelloTimeoutKeeps, HelloAnswerKeeps
<1>2. ASSUME NEW c \in Client, Connect(c) PROVE BrokerInv'
  BY <1>0, <1>2, ConnectQuiet, QuietKeeps
<1>3. ASSUME NEW c \in Client, NEW op \in Op, NEW id \in Id, NEW f \in BOOLEAN,
             Accept(c, op, id, f)
      PROVE  BrokerInv'
  BY <1>0, <1>3, AcceptQuiet, QuietKeeps
<1>4. ASSUME NEW c \in Client,
             (\E op \in Op, id \in Id : Refuse(c, op, id)) \/ TooLong(c)
      PROVE  BrokerInv'
  BY <1>0, <1>4, RefuseQuiet, QuietKeeps
<1>5. ASSUME NEW c \in Client, SendGuest(c) \/ DropSend(c) PROVE BrokerInv'
  <2>1. CASE guestUp
    BY <1>0, <1>5, <2>1, Sends, SendKeeps
  <2>2. CASE ~guestUp
    BY <1>0, <1>5, <2>2, RefuseQuiet, DropQuiet, QuietKeeps
  <2> QED BY <2>1, <2>2
<1>6. ASSUME NEW c \in Client, Reply(c) \/ ClientStep(c) PROVE BrokerInv'
  <2>1. CASE GetAck(c) \/ GetClosed(c) \/ DropAck(c)
    BY <1>0, <2>1, Answers, AnswerKeeps
  <2>2. CASE Reply(c)
    BY <1>0, <2>2, ReplyQuiet, QuietKeeps
  <2>3. CASE ReplyFails(c) \/ ReadEnds(c)
    BY <1>0, <2>3, EndQuiet, QuietKeeps
  <2>4. ASSUME NEW id \in Id, Finally(c, id) PROVE BrokerInv'
    BY <1>0, <2>4, FinallyQuiet, QuietKeeps
  <2>5. CASE Dispose(c)
    BY <1>0, <2>5, DropQuiet, QuietKeeps
  <2> QED BY <1>6, <2>1, <2>2, <2>3, <2>4, <2>5 DEF ClientStep
<1>7. CASE PumpRead \/ GuestHandle \/ GuestAction \/ GuestStop
  BY <1>7, PumpReadKeeps, GuestHandleKeeps, GuestActionKeeps, GuestStopKeeps
<1>8. ASSUME NEW id \in Id, GuestEvent(id) PROVE BrokerInv'
  BY <1>8, GuestEventKeeps
<1>9. CASE (\E c \in Client : Disconnect(c)) \/ PumpSend \/ PumpEnd \/ UNCHANGED vars
  BY <1>9, OthersKeep
<1> QED BY <1>1, <1>2, <1>3, <1>4, <1>5, <1>6, <1>7, <1>8, <1>9 DEF Next

LEMMA BrokerInit == Init => BrokerInv
<1> SUFFICES ASSUME Init PROVE BrokerInv
  OBVIOUS
<1>1. NoTask \in TaskType /\ NoTask.at = "none" /\ NoTask.mine = {}
  BY SaidFacts DEF NoTask
<1>2. \A c \in Client : task[c] = NoTask
  BY DEF Init
<1>3. Types
  <2>1. task \in [Client -> TaskType]
    BY <1>1 DEF Init
  <2>2. conn \in [Client -> BOOLEAN] /\ owners \in [Id -> Client \cup {None}]
        /\ guest \in [Id -> Client \cup {None}]
    BY DEF Init
  <2>3. hellos \in 0 .. MaxHellos
    BY BrokerAssumption DEF Init
  <2>4. acks \in Seq(LineType) /\ toGuest \in Seq(Said) /\ fromGuest \in Seq(LineType)
    BY DEF Init
  <2> QED BY <2>1, <2>2, <2>3, <2>4 DEF Init, Types
<1>4. Order
  BY <1>1, <1>2, SaidFacts DEF Init, Order
<1>5. Paired
  BY <1>1, <1>2 DEF Paired
<1>6. OneUnderWay
  <2>1. Quiet /\ lock = None /\ hello # "wait"
    BY DEF Init, Quiet, NoAnswer
  <2> QED BY <2>1, SaidFacts DEF OneUnderWay
<1> QED BY <1>3, <1>4, <1>5, <1>6 DEF BrokerInv

(* However many clients, windows and handshakes there are, and whether or  *)
(* not the guest stops: a command gets the answer to that very command, as *)
(* long as the guest sends answers and events only (SendGuestAsync).       *)
THEOREM AnswersPairedTheorem == Spec => []AnswersPaired
<1>1. BrokerInv => AnswersPaired
  <2> SUFFICES ASSUME BrokerInv PROVE AnswersPaired
    OBVIOUS
  <2>1. ASSUME NEW c \in Client
        PROVE  /\ task[c].at \in At /\ task[c].cmd \in Said /\ task[c].answer \in Verdict
    BY TaskFacts DEF BrokerInv
  <2>2. TypeOK
    BY <2>1 DEF BrokerInv, Types, Order, TypeOK, At, Said, Verdict
  <2> QED BY <2>2 DEF BrokerInv, AnswersPaired
<1>2. Spec => []BrokerInv
  BY BrokerInit, BrokerStep, PTL DEF Spec
<1> QED BY <1>1, <1>2, PTL
-----------------------------------------------------------------------------
(* Ownership: what the owners table says of the guest's windows. *)

(* An event of client c's window id is on its way; the answer on its way   *)
(* is positive; an event comes after the positive answer.                  *)
Coming(c, id) == \E i \in 1 .. Len(fromGuest) : fromGuest[i] = Line("EV", id, c)
Positive ==
  \/ \E i \in 1 .. Len(fromGuest) : fromGuest[i].kind = "A"
  \/ \E i \in 1 .. Len(acks) : acks[i].kind = "A"
Trailing(c, id) ==
  \/ \E i, j \in 1 .. Len(fromGuest) :
       i < j /\ fromGuest[i].kind = "A" /\ fromGuest[j] = Line("EV", id, c)
  \/ (\E i \in 1 .. Len(acks) : acks[i].kind = "A") /\ Coming(c, id)

Late == {"finally", "drop", "dropAck", "done"}
For(c, op, id) == task[c].cmd.op = op /\ task[c].cmd.id = id

(* Before its connection a client has nothing; the clean-up comes after it. *)
Standing(c) ==
  /\ task[c].at = "none" => ~conn[c] /\ \A id \in Id : ~Coming(c, id) /\ guest[id] # c /\ owners[id] # c
  /\ task[c].at \in Late => ~conn[c]
  /\ task[c].at \in {"lock", "ack", "drop", "dropAck"} => task[c].cmd.by = c

(* The events of a connected client's window find its entry, ...           *)
Routed(c, id) == conn[c] /\ (Coming(c, id) \/ guest[id] = c) => owners[id] = c
(* ... which is there before the window is, ...                            *)
Creating(c, id) ==
  conn[c] /\ For(c, "WC", id) =>
    /\ task[c].at = "lock" => owners[id] = c /\ guest[id] # c /\ ~Coming(c, id)
    /\ task[c].at = "ack" => owners[id] = c /\ (guest[id] = c \/ Coming(c, id) => Positive)
(* ... and outlasts the last event of the window.                          *)
Destroying(c, id) ==
  For(c, "WD", id) =>
    /\ task[c].at = "ack" /\ Positive => guest[id] # c /\ ~Trailing(c, id)
    /\ task[c].at = "answer" /\ task[c].answer = "OK" => guest[id] # c /\ ~Coming(c, id)

(* A command that has passed the check finds the client's own window, ...  *)
Pending(c, id) ==
  /\ For(c, "WD", id) \/ For(c, "other", id)
  /\ task[c].at = "lock" \/ (task[c].at = "ack" /\ toGuest # <<>>)
  => guest[id] = c
(* ... since an entry means a window, except while one is made or destroyed *)
(* and after the connection.                                               *)
Unsettled(c, id) ==
  \/ task[c].at \in Late
  \/ For(c, "WC", id) /\ (task[c].at = "lock" \/ (task[c].at = "ack" /\ ~Positive))
  \/ For(c, "WD", id) /\ \/ task[c].at = "ack" /\ Positive
                         \/ task[c].at = "answer" /\ task[c].answer = "OK"
Settled(c, id) == owners[id] = c => guest[id] = c \/ Unsettled(c, id)

Keeps(c, id) ==
  /\ Routed(c, id) /\ Creating(c, id) /\ Destroying(c, id)
  /\ guestUp => Pending(c, id) /\ Settled(c, id)

(* The reading task sends what it has read to the owner it has found. *)
PumpOwn ==
  pump.state = "send" =>
    /\ pump.of \in Client /\ task[pump.of].at # "none"
    /\ pump.to # pump.of => ~conn[pump.of]

(* Events are of windows of clients. *)
Named ==
  \A i \in 1 .. Len(fromGuest) : fromGuest[i].kind = "EV" =>
    \E c \in Client, id \in Id : fromGuest[i] = Line("EV", id, c)

OwnFacts ==
  /\ PumpOwn /\ Named
  /\ \A c \in Client : Standing(c) /\ \A id \in Id : Keeps(c, id)
OwnInv == ~stray /\ ~crossed => OwnFacts

-----------------------------------------------------------------------------
(* How the lines under way change. *)

LEMMA RestOf ==
  ASSUME NEW s \in Seq(LineType), s # <<>>
  PROVE  /\ Len(s) \in Nat \ {0} /\ Len(Tail(s)) = Len(s) - 1 /\ Head(s) = s[1]
         /\ \A i \in 1 .. Len(Tail(s)) : i + 1 \in 1 .. Len(s) /\ 1 < i + 1 /\ Tail(s)[i] = s[i + 1]
         /\ \A i \in 1 .. Len(s) : i = 1 \/ (i - 1 \in 1 .. Len(Tail(s)) /\ Tail(s)[i - 1] = s[i])
<1>1. /\ Len(Tail(s)) = Len(s) - 1 /\ \A i \in 1 .. Len(Tail(s)) : Tail(s)[i] = s[i + 1]
  BY HeadTailProperties
<1>2. Len(s) \in Nat \ {0} /\ Head(s) = s[1]
  BY EmptySeq, LenProperties
<1>3. ASSUME NEW i \in 1 .. Len(s), i # 1 PROVE i - 1 \in 1 .. Len(Tail(s)) /\ Tail(s)[i - 1] = s[i]
  <2>1. i - 1 \in 1 .. Len(s) - 1 /\ (i - 1) + 1 = i
    BY <1>2, <1>3
  <2> QED BY <1>1, <2>1
<1> QED BY <1>1, <1>2, <1>3

LEMMA OneMore ==
  ASSUME NEW s \in Seq(LineType), NEW l \in LineType
  PROVE  /\ Len(s) \in Nat /\ Len(Append(s, l)) = Len(s) + 1 /\ Append(s, l)[Len(s) + 1] = l
         /\ \A i \in 1 .. Len(s) : i \in 1 .. Len(Append(s, l)) /\ Append(s, l)[i] = s[i]
         /\ \A i \in 1 .. Len(Append(s, l)) : i = Len(s) + 1 \/ (i \in 1 .. Len(s) /\ Append(s, l)[i] = s[i])
<1>1. /\ Len(Append(s, l)) = Len(s) + 1 /\ Len(s) \in Nat
      /\ \A i \in 1 .. Len(s) : Append(s, l)[i] = s[i]
      /\ Append(s, l)[Len(s) + 1] = l
  BY AppendProperties, LenProperties
<1>2. \A i \in 1 .. Len(s) + 1 : i \in 1 .. Len(s) \/ i = Len(s) + 1
  BY <1>1
<1>3. \A i \in 1 .. Len(s) : i \in 1 .. Len(s) + 1
  BY <1>1
<1> QED BY <1>1, <1>2, <1>3

(* The reading task takes a line, and keeps it if it is an answer. *)
LEMMA ReadLines ==
  ASSUME Types, PumpRead, NEW c, NEW id
  PROVE  /\ Coming(c, id)' => Coming(c, id)
         /\ Positive' <=> Positive
         /\ Trailing(c, id)' => Trailing(c, id)
<1> DEFINE line == Head(fromGuest)
<1>1. /\ fromGuest # <<>> /\ fromGuest' = Tail(fromGuest)
      /\ acks' = IF line.kind = "EV" THEN acks ELSE Append(acks, line)
  BY DEF PumpRead
<1>2. /\ fromGuest \in Seq(LineType) /\ acks \in Seq(LineType) /\ line \in LineType
  BY <1>1, FewerLines DEF Types
<1>3. /\ Len(fromGuest) \in Nat \ {0} /\ Len(fromGuest') = Len(fromGuest) - 1 /\ line = fromGuest[1]
      /\ \A i \in 1 .. Len(fromGuest') :
           i + 1 \in 1 .. Len(fromGuest) /\ 1 < i + 1 /\ fromGuest'[i] = fromGuest[i + 1]
      /\ \A i \in 1 .. Len(fromGuest) :
           i = 1 \/ (i - 1 \in 1 .. Len(fromGuest') /\ fromGuest'[i - 1] = fromGuest[i])
  BY <1>1, <1>2, RestOf
<1>4. 1 \in 1 .. Len(fromGuest)
  BY <1>3
<1>5. /\ Len(acks) \in Nat
      /\ line.kind # "EV" => Len(acks) + 1 \in 1 .. Len(acks') /\ acks'[Len(acks) + 1] = line
      /\ \A i \in 1 .. Len(acks) : i \in 1 .. Len(acks') /\ acks'[i] = acks[i]
      /\ \A i \in 1 .. Len(acks') : (line.kind # "EV" /\ acks'[i] = line) \/ (i \in 1 .. Len(acks) /\ acks'[i] = acks[i])
  <2>1. CASE line.kind = "EV"
    BY <1>1, <1>2, <2>1, LenProperties
  <2>2. CASE line.kind # "EV"
    <3>1. acks' = Append(acks, line)
      BY <1>1, <2>2
    <3> HIDE DEF line
    <3>2. Len(acks) + 1 \in 1 .. Len(acks')
      BY <1>2, <3>1, OneMore
    <3> QED BY <1>2, <2>2, <3>1, <3>2, OneMore
  <2> QED BY <2>1, <2>2
<1> HIDE DEF line
<1>6. Coming(c, id)' => Coming(c, id)
  BY <1>3 DEF Coming, Line
<1>7. ASSUME Positive' PROVE Positive
  <2>1. ASSUME NEW i \in 1 .. Len(fromGuest'), fromGuest'[i].kind = "A" PROVE Positive
    BY <1>3, <2>1 DEF Positive
  <2>2. ASSUME NEW i \in 1 .. Len(acks'), acks'[i].kind = "A" PROVE Positive
    BY <1>3, <1>4, <1>5, <2>2 DEF Positive
  <2> QED BY <1>7, <2>1, <2>2 DEF Positive
<1>8. ASSUME Positive PROVE Positive'
  <2>1. ASSUME NEW i \in 1 .. Len(fromGuest), fromGuest[i].kind = "A" PROVE Positive'
    <3>1. CASE i = 1
      BY <1>3, <1>5, <2>1, <3>1 DEF Positive
    <3>2. CASE i # 1
      BY <1>3, <2>1, <3>2 DEF Positive
    <3> QED BY <3>1, <3>2
  <2>2. ASSUME NEW i \in 1 .. Len(acks), acks[i].kind = "A" PROVE Positive'
    BY <1>5, <2>2 DEF Positive
  <2> QED BY <1>8, <2>1, <2>2 DEF Positive
<1>9. ASSUME Trailing(c, id)' PROVE Trailing(c, id)
  <2>1. CASE (\E i, j \in 1 .. Len(fromGuest) :
                i < j /\ fromGuest[i].kind = "A" /\ fromGuest[j] = Line("EV", id, c))'
    <3>1. PICK i \in 1 .. Len(fromGuest'), j \in 1 .. Len(fromGuest') :
            i < j /\ fromGuest'[i].kind = "A" /\ fromGuest'[j] = Line("EV", id, c)
      BY <2>1 DEF Line
    <3>2. i + 1 < j + 1
      BY <3>1, <1>3
    <3> QED BY <1>3, <3>1, <3>2 DEF Trailing
  <2>2. CASE (\E i \in 1 .. Len(acks') : acks'[i].kind = "A") /\ Coming(c, id)'
    <3>1. PICK i \in 1 .. Len(acks') : acks'[i].kind = "A"
      BY <2>2
    <3>2. CASE line.kind # "EV" /\ acks'[i] = line
      <4>1. PICK j \in 1 .. Len(fromGuest') : fromGuest'[j] = Line("EV", id, c)
        BY <2>2 DEF Coming, Line
      <4> QED BY <1>3, <1>4, <3>1, <3>2, <4>1 DEF Trailing
    <3>3. CASE i \in 1 .. Len(acks) /\ acks'[i] = acks[i]
      BY <1>6, <2>2, <3>1, <3>3 DEF Trailing
    <3> QED BY <1>5, <3>2, <3>3
  <2> QED BY <1>9, <2>1, <2>2 DEF Trailing
<1> QED BY <1>6, <1>7, <1>8, <1>9

(* An event is added at the end. *)
LEMMA EventLines ==
  ASSUME NEW s \in Seq(LineType), fromGuest = s, NEW e \in LineType, e.kind = "EV",
         fromGuest' = Append(s, e), acks' = acks, NEW c, NEW id
  PROVE  /\ Coming(c, id)' => Coming(c, id) \/ e = Line("EV", id, c)
         /\ Positive' <=> Positive
         /\ Trailing(c, id)' => Trailing(c, id) \/ e = Line("EV", id, c)
<1>1. /\ Len(fromGuest) \in Nat /\ Len(fromGuest') = Len(fromGuest) + 1
      /\ fromGuest'[Len(fromGuest) + 1] = e
      /\ \A i \in 1 .. Len(fromGuest) : i \in 1 .. Len(fromGuest') /\ fromGuest'[i] = fromGuest[i]
      /\ \A i \in 1 .. Len(fromGuest') :
           i = Len(fromGuest) + 1 \/ (i \in 1 .. Len(fromGuest) /\ fromGuest'[i] = fromGuest[i])
  BY OneMore
<1>2. Coming(c, id)' => Coming(c, id) \/ e = Line("EV", id, c)
  BY <1>1 DEF Coming, Line
<1>3. Positive' <=> Positive
  BY <1>1 DEF Positive
<1>4. ASSUME Trailing(c, id)' PROVE Trailing(c, id) \/ e = Line("EV", id, c)
  <2>1. CASE (\E i, j \in 1 .. Len(fromGuest) :
                i < j /\ fromGuest[i].kind = "A" /\ fromGuest[j] = Line("EV", id, c))'
    <3>1. PICK i \in 1 .. Len(fromGuest'), j \in 1 .. Len(fromGuest') :
            i < j /\ fromGuest'[i].kind = "A" /\ fromGuest'[j] = Line("EV", id, c)
      BY <2>1 DEF Line
    <3>2. CASE j = Len(fromGuest) + 1
      BY <1>1, <3>1, <3>2
    <3>3. CASE j # Len(fromGuest) + 1
      BY <1>1, <3>1, <3>3 DEF Trailing
    <3> QED BY <3>2, <3>3
  <2>2. CASE (\E i \in 1 .. Len(acks') : acks'[i].kind = "A") /\ Coming(c, id)'
    BY <1>2, <2>2 DEF Trailing
  <2> QED BY <1>4, <2>1, <2>2 DEF Trailing
<1> QED BY <1>2, <1>3, <1>4

(* The guest has answered, and perhaps added the event of a new window. *)
LEMMA AnswerLines ==
  ASSUME NEW s \in Seq(LineType), fromGuest = s, NoAnswer(s), acks = <<>>, acks' = acks,
         NEW l \in LineType, l.kind # "EV", NEW e \in LineType, e.kind = "EV",
         fromGuest' \in {Append(s, l), Append(Append(s, l), e)}, NEW c, NEW id
  PROVE  /\ Coming(c, id)' => Coming(c, id) \/ (fromGuest' # Append(s, l) /\ e = Line("EV", id, c))
         /\ Positive' <=> l.kind = "A"
         /\ Trailing(c, id)' => fromGuest' # Append(s, l) /\ e = Line("EV", id, c)
<1> DEFINE t == Append(s, l)
<1>1. t \in Seq(LineType)
  OBVIOUS
<1>2. /\ Len(s) \in Nat /\ Len(t) = Len(s) + 1 /\ t[Len(s) + 1] = l
      /\ \A i \in 1 .. Len(t) : i = Len(s) + 1 \/ (i \in 1 .. Len(s) /\ t[i] = s[i])
  BY OneMore
<1> HIDE DEF t
<1>3. /\ Len(t) + 1 \in 1 .. Len(Append(t, e)) /\ Append(t, e)[Len(t) + 1] = e
      /\ \A i \in 1 .. Len(t) : i \in 1 .. Len(Append(t, e)) /\ Append(t, e)[i] = t[i]
      /\ \A i \in 1 .. Len(Append(t, e)) : i = Len(t) + 1 \/ (i \in 1 .. Len(t) /\ Append(t, e)[i] = t[i])
  BY <1>1, OneMore
<1>4. /\ Len(s) + 1 \in 1 .. Len(fromGuest') /\ fromGuest'[Len(s) + 1] = l
      /\ \A i \in 1 .. Len(fromGuest') :
           \/ i \in 1 .. Len(s) /\ fromGuest'[i] = s[i]
           \/ i = Len(s) + 1 /\ fromGuest'[i] = l
           \/ i = Len(s) + 2 /\ fromGuest'[i] = e /\ fromGuest' # Append(s, l)
  <2>1. CASE fromGuest' = t
    BY <1>2, <2>1
  <2>2. CASE fromGuest' = Append(t, e) /\ fromGuest' # t
    BY <1>2, <1>3, <2>2 DEF t
  <2> QED BY <2>1, <2>2 DEF t
<1>5. \A i \in 1 .. Len(s) : s[i].kind = "EV"
  BY DEF NoAnswer
<1>6. Len(acks) = 0 /\ Len(acks') = 0
  OBVIOUS
<1>7. Line("EV", id, c).kind = "EV"
  BY DEF Line
<1>8. ASSUME Coming(c, id)' PROVE Coming(c, id) \/ (fromGuest' # Append(s, l) /\ e = Line("EV", id, c))
  <2>1. PICK i \in 1 .. Len(fromGuest') : fromGuest'[i] = Line("EV", id, c)
    BY <1>8 DEF Coming, Line
  <2>2. CASE i \in 1 .. Len(s) /\ fromGuest'[i] = s[i]
    BY <2>1, <2>2 DEF Coming
  <2> QED BY <1>4, <1>7, <2>1, <2>2
<1>9. Positive' <=> l.kind = "A"
  BY <1>4, <1>5, <1>6 DEF Positive
<1>10. ASSUME Trailing(c, id)' PROVE fromGuest' # Append(s, l) /\ e = Line("EV", id, c)
  <2>1. PICK i \in 1 .. Len(fromGuest'), j \in 1 .. Len(fromGuest') :
          i < j /\ fromGuest'[i].kind = "A" /\ fromGuest'[j] = Line("EV", id, c)
    BY <1>6, <1>10 DEF Trailing, Line
  <2>2. ~(i \in 1 .. Len(s) /\ fromGuest'[i] = s[i])
    BY <1>5, <2>1
  <2>3. i >= Len(s) + 1
    BY <1>2, <1>4, <2>2
  <2>4. ~(j \in 1 .. Len(s)) /\ j # Len(s) + 1
    BY <1>2, <2>1, <2>3
  <2> QED BY <1>4, <2>1, <2>4
<1> QED BY <1>8, <1>9, <1>10

-----------------------------------------------------------------------------
(* A step and the clients that do not take it. *)

(* Client d loses an entry in owners at most, and that after its connection. *)
Framed(d) ==
  /\ task'[d] = task[d] /\ (conn'[d] => conn[d])
  /\ \A id \in Id : /\ owners'[id] = d => owners[id] = d
                    /\ conn'[d] /\ owners[id] = d => owners'[id] = d
  /\ UNCHANGED <<guest, guestUp, fromGuest>>
  /\ task[d].at = "ack" => UNCHANGED <<toGuest, acks>>

LEMMA FrameKeeps ==
  ASSUME NEW d \in Client, Framed(d), Standing(d), NEW id \in Id, Keeps(d, id)
  PROVE  Standing(d)' /\ Keeps(d, id)'
<1>1. /\ task'[d] = task[d] /\ (conn'[d] => conn[d])
      /\ \A i \in Id : /\ owners'[i] = d => owners[i] = d
                       /\ conn'[d] /\ owners[i] = d => owners'[i] = d
      /\ guest' = guest /\ guestUp' = guestUp /\ fromGuest' = fromGuest
  BY DEF Framed
<1>2. task[d].at = "ack" => toGuest' = toGuest /\ acks' = acks
  BY DEF Framed
<1>3. \A i : Coming(d, i)' <=> Coming(d, i)
  BY <1>1 DEF Coming, Line
<1>4. task[d].at = "ack" => (Positive' <=> Positive)
  BY <1>1, <1>2 DEF Positive
<1>5. task[d].at = "ack" => (Trailing(d, id)' <=> Trailing(d, id))
  BY <1>1, <1>2, <1>3 DEF Trailing, Line
<1>6. Standing(d)'
  BY <1>1, <1>3 DEF Standing
<1>7. (For(d, "WC", id)' <=> For(d, "WC", id)) /\ (For(d, "WD", id)' <=> For(d, "WD", id))
      /\ (For(d, "other", id)' <=> For(d, "other", id))
  BY <1>1 DEF For
<1>8. Routed(d, id)'
  BY <1>1, <1>3 DEF Keeps, Routed
<1>9. Creating(d, id)'
  BY <1>1, <1>3, <1>4, <1>7 DEF Keeps, Creating
<1>10. Destroying(d, id)'
  BY <1>1, <1>3, <1>4, <1>5, <1>7 DEF Keeps, Destroying
<1>11. ASSUME guestUp' PROVE Pending(d, id)' /\ Settled(d, id)'
  <2>1. Pending(d, id) /\ Settled(d, id)
    BY <1>1, <1>11 DEF Keeps
  <2>2. Pending(d, id)'
    BY <1>1, <1>2, <1>7, <2>1 DEF Pending
  <2>3. Settled(d, id)'
    BY <1>1, <1>2, <1>4, <1>7, <2>1 DEF Settled, Unsettled
  <2> QED BY <2>2, <2>3
<1> QED BY <1>6, <1>8, <1>9, <1>10, <1>11 DEF Keeps

(* A step of client c's task, or of its connection, seen from the others. *)
Alone(c) ==
  /\ \A d \in Client : d # c =>
       /\ task'[d] = task[d] /\ conn'[d] = conn[d]
       /\ \A id \in Id : owners'[id] = d <=> owners[id] = d
  /\ UNCHANGED <<guest, guestUp, fromGuest, pump>>
  /\ UNCHANGED <<toGuest, acks>> \/ lock \in {None, c}
  /\ task'[c].at # "none" /\ (conn'[c] /\ task[c].at # "none" => conn[c])

LEMMA AloneKeeps ==
  ASSUME BrokerInv, OwnFacts, NEW c \in Client, Alone(c),
         Standing(c)', \A id \in Id : Keeps(c, id)'
  PROVE  OwnFacts'
<1>1. ASSUME NEW d \in Client, d # c PROVE Framed(d)
  <2>1. /\ task'[d] = task[d] /\ conn'[d] = conn[d]
        /\ \A id \in Id : owners'[id] = d <=> owners[id] = d
        /\ UNCHANGED <<guest, guestUp, fromGuest>>
    BY <1>1 DEF Alone
  <2>2. task[d].at = "ack" => lock = d
    BY DEF BrokerInv, Order
  <2>3. task[d].at = "ack" => UNCHANGED <<toGuest, acks>>
    BY <1>1, <2>2, SaidFacts DEF Alone
  <2> QED BY <2>1, <2>3 DEF Framed
<1>2. ASSUME NEW d \in Client, d # c PROVE Standing(d)'
  <2>1. Standing(d) /\ Framed(d) /\ \A id \in Id : Keeps(d, id)
    BY <1>1, <1>2 DEF OwnFacts
  <2>2. \A i : Coming(d, i)' <=> Coming(d, i)
    BY DEF Alone, Coming, Line
  <2> QED BY <2>1, <2>2 DEF Standing, Framed
<1>3. ASSUME NEW d \in Client, d # c, NEW id \in Id PROVE Keeps(d, id)'
  BY <1>1, <1>3, FrameKeeps DEF OwnFacts
<1>4. PumpOwn'
  <2>1. CASE pump.state = "send"
    <3>1. /\ pump' = pump /\ pump.of \in Client /\ task[pump.of].at # "none"
          /\ pump.to # pump.of => ~conn[pump.of]
      BY <2>1 DEF OwnFacts, PumpOwn, Alone
    <3>2. task'[pump.of].at # "none" /\ (conn'[pump.of] => conn[pump.of])
      BY <3>1 DEF Alone
    <3> QED BY <3>1, <3>2 DEF PumpOwn
  <2>2. CASE pump.state # "send"
    BY <2>2 DEF PumpOwn, Alone
  <2> QED BY <2>1, <2>2
<1>5. Named'
  BY DEF OwnFacts, Named, Alone, Line
<1> QED BY <1>2, <1>3, <1>4, <1>5 DEF OwnFacts

(* An entry removed on behalf of c is c's, unless the history says so. *)
LEMMA DisownOwn ==
  ASSUME Types, NEW c \in Client, NEW i, Disown(c, i), ~crossed'
  PROVE  /\ ~crossed
         /\ \A id \in Id : owners'[id] = IF id = i THEN None ELSE owners[id]
         /\ \A id \in Id : owners'[id] = c => owners[id] = c /\ id # i
         /\ \A d \in Client, id \in Id : d # c => (owners'[id] = d <=> owners[id] = d)
<1>1. ~crossed /\ owners[i] \in {c, None}
  BY DEF Disown, Types
<1>2. \A id \in Id : owners'[id] = IF id = i THEN None ELSE owners[id]
  BY DEF Disown, Types
<1> QED BY <1>1, <1>2, SaidFacts

LEMMA DisownCreatedOwn ==
  ASSUME Types, NEW c \in Client, DisownCreated(c), ~crossed'
  PROVE  /\ ~crossed
         /\ \A id \in Id : owners'[id] = IF For(c, "WC", id) THEN None ELSE owners[id]
         /\ \A id \in Id : owners'[id] = c => owners[id] = c /\ ~For(c, "WC", id)
         /\ \A d \in Client, id \in Id : d # c => (owners'[id] = d <=> owners[id] = d)
<1>1. CASE task[c].cmd.op = "WC"
  <2>1. Disown(c, task[c].cmd.id)
    BY <1>1 DEF DisownCreated
  <2>2. \A id \in Id : For(c, "WC", id) <=> id = task[c].cmd.id
    BY <1>1 DEF For
  <2> QED BY <2>1, <2>2, DisownOwn
<1>2. CASE task[c].cmd.op # "WC"
  <2>1. owners' = owners /\ crossed' = crossed
    BY <1>2 DEF DisownCreated, ownVars
  <2>2. \A id \in Id : ~For(c, "WC", id)
    BY <1>2 DEF For
  <2> QED BY <2>1, <2>2
<1> QED BY <1>1, <1>2

(* What the task's next place does not say anything of. *)
LEMMA LateKeeps ==
  ASSUME NEW c \in Client, NEW id \in Id, task'[c].at \in Late, ~conn'[c],
         task'[c].at \in {"drop", "dropAck"} => task'[c].cmd.by = c
  PROVE  Standing(c)' /\ Keeps(c, id)'
<1>1. Standing(c)'
  BY DEF Standing, Late
<1>2. Routed(c, id)' /\ Creating(c, id)' /\ Destroying(c, id)'
  BY DEF Routed, Creating, Destroying, Late
<1>3. Pending(c, id)' /\ Settled(c, id)'
  BY DEF Pending, Settled, Unsettled, Late
<1> QED BY <1>1, <1>2, <1>3 DEF Keeps

(* The clean-up. *)
LEMMA LateOwn ==
  ASSUME BrokerInv, OwnFacts, ~crossed', NEW c \in Client,
         \/ ReplyFails(c) \/ ReadEnds(c) \/ (\E id \in Id : Finally(c, id))
         \/ DropSend(c) \/ DropAck(c) \/ Dispose(c)
  PROVE  OwnFacts'
<1> USE DEF BrokerInv
<1>0. Types /\ Order /\ Standing(c)
  BY DEF OwnFacts
<1>1. ~conn[c] /\ conn' = conn
  BY <1>0 DEF Standing, Late, ReplyFails, ReadEnds, Finally, DropSend, DropAck, Dispose
<1>2. /\ UNCHANGED <<guest, guestUp, fromGuest, pump>>
      /\ UNCHANGED <<toGuest, acks>> \/ lock \in {None, c}
  <2>1. CASE ReplyFails(c) \/ ReadEnds(c) \/ (\E id \in Id : Finally(c, id)) \/ Dispose(c)
    BY <2>1 DEF ReplyFails, ReadEnds, Finally, Dispose, lineVars
  <2>2. CASE DropSend(c) \/ DropAck(c)
    <3>1. lock \in {None, c}
      BY <1>0, <2>2 DEF DropSend, DropAck, LockFree, Order
    <3> QED BY <2>2, <3>1 DEF DropSend, DropAck, lineVars
  <2> QED BY <2>1, <2>2
<1>3. \A d \in Client, id \in Id : d # c => (owners'[id] = d <=> owners[id] = d)
  <2>1. CASE ReplyFails(c)
    <3>1. DisownCreated(c) \/ owners' = owners
      BY <2>1 DEF ReplyFails, ownVars
    <3> QED BY <1>0, <3>1, DisownCreatedOwn
  <2>2. ASSUME NEW i \in Id, Finally(c, i) PROVE \A d \in Client, id \in Id : d # c => (owners'[id] = d <=> owners[id] = d)
    <3>1. Disown(c, i)
      BY <2>2 DEF Finally
    <3> QED BY <1>0, <3>1, DisownOwn
  <2>3. CASE ReadEnds(c) \/ DropSend(c) \/ DropAck(c) \/ Dispose(c)
    BY <2>3 DEF ReadEnds, DropSend, DropAck, Dispose, ownVars
  <2> QED BY <2>1, <2>2, <2>3
<1>4. /\ task'[c].at \in Late
      /\ task'[c].at \in {"drop", "dropAck"} => task'[c].cmd.by = c
      /\ \A d \in Client : d # c => task'[d] = task[d]
  <2>0. task \in [Client -> TaskType] /\ task[c] \in TaskType
    BY <1>0 DEF Types
  <2>1. CASE ReplyFails(c)
    <3> DEFINE m == {id \in Id : owners'[id] = c}
    <3>1. task' = [task EXCEPT ![c] = [NoTask EXCEPT !.at = "finally", !.mine = m]]
      BY <2>1 DEF ReplyFails
    <3>2. m \in Mine
      BY DEF Mine
    <3> HIDE DEF m
    <3>3. Moved(c, "finally", Hello, None, m)
      BY <1>0, <3>1, <3>2, MoveForms, SaidFacts DEF At, Verdict
    <3> QED BY <3>3 DEF Moved, Has, Late
  <2>2. CASE ReadEnds(c)
    BY <2>0, <2>2 DEF ReadEnds, Late, TaskType
  <2>3. ASSUME NEW id \in Id, Finally(c, id)
        PROVE  /\ task'[c].at = "drop" /\ task'[c].cmd.by = c
               /\ \A d \in Client : d # c => task'[d] = task[d]
    BY <2>0, <2>3 DEF Finally, TaskType
  <2>4. CASE DropSend(c) \/ DropAck(c) \/ Dispose(c)
    <3>1. PICK a \in Late : Goto(c, a) /\ (a \in {"drop", "dropAck"} => task[c].at = "drop")
      BY <2>4 DEF DropSend, DropAck, Dispose, Late
    <3>2. task'[c].at = a /\ task'[c].cmd = task[c].cmd /\ \A d \in Client : d # c => task'[d] = task[d]
      BY <2>0, <3>1 DEF Goto, TaskType
    <3> QED BY <1>0, <3>1, <3>2 DEF Standing
  <2> QED BY <2>1, <2>2, <2>3, <2>4 DEF Late
<1>5. Alone(c)
  BY <1>1, <1>2, <1>3, <1>4 DEF Alone, Late
<1>6. \A id \in Id : Standing(c)' /\ Keeps(c, id)'
  BY <1>1, <1>4, LateKeeps
<1>7. Standing(c)'
  BY <1>1, <1>4 DEF Standing, Late
<1> QED BY <1>5, <1>6, <1>7, AloneKeeps

(* The lines stay as they are. *)
LEMMA LinesStay ==
  ASSUME fromGuest' = fromGuest, NEW c
  PROVE  \A i : Coming(c, i)' <=> Coming(c, i)
  BY DEF Coming, Line

(* The client comes, or goes. *)
LEMMA ConnectOwn ==
  ASSUME BrokerInv, OwnFacts, NEW c \in Client, Connect(c)
  PROVE  OwnFacts'
<1>0. Types /\ Standing(c)
  BY DEF OwnFacts, BrokerInv
<1>1. /\ UNCHANGED <<owners, guest, guestUp, fromGuest, pump, toGuest, acks>>
      /\ task[c].at = "none" /\ task' = [task EXCEPT ![c].at = "read"]
      /\ conn' = [conn EXCEPT ![c] = TRUE]
  BY DEF Connect, lineVars, ownVars, Goto
<1>2. /\ task'[c].at = "read" /\ \A d \in Client : d # c => task'[d] = task[d] /\ conn'[d] = conn[d]
  <2>1. task \in [Client -> TaskType] /\ task[c] \in TaskType /\ conn \in [Client -> BOOLEAN]
    BY <1>0 DEF Types
  <2> QED BY <1>1, <2>1 DEF TaskType
<1>3. Alone(c)
  BY <1>1, <1>2 DEF Alone
<1>4. \A id \in Id : ~Coming(c, id) /\ guest[id] # c /\ owners[id] # c
  BY <1>0, <1>1 DEF Standing
<1>5. \A id \in Id : ~Coming(c, id)' /\ guest'[id] # c /\ owners'[id] # c
  BY <1>1, <1>4, LinesStay
<1>6. Standing(c)'
  BY <1>2 DEF Standing, Late
<1>7. ASSUME NEW id \in Id PROVE Keeps(c, id)'
  <2>1. Routed(c, id)' /\ Creating(c, id)' /\ Destroying(c, id)'
    BY <1>2, <1>5 DEF Routed, Creating, Destroying
  <2>2. Pending(c, id)' /\ Settled(c, id)'
    BY <1>2, <1>5 DEF Pending, Settled
  <2> QED BY <2>1, <2>2 DEF Keeps
<1> QED BY <1>3, <1>6, <1>7, AloneKeeps

(* A command is let through. *)
LEMMA AcceptOwn ==
  ASSUME BrokerInv, OwnFacts, NEW c \in Client, NEW op \in Op, NEW i \in Id,
         NEW f \in BOOLEAN, Accept(c, op, i, f)
  PROVE  OwnFacts'
<1>0. Types /\ Standing(c)
  BY DEF OwnFacts, BrokerInv
<1>1. /\ UNCHANGED <<conn, guest, guestUp, fromGuest, pump, toGuest, acks>>
      /\ task[c].at = "read" /\ conn[c] /\ MayCommand(c, op, i)
      /\ owners' = IF op = "WC" THEN [owners EXCEPT ![i] = c] ELSE owners
      /\ task' = [task EXCEPT ![c].at = "lock", ![c].cmd = [op |-> op, id |-> i, by |-> c, fits |-> f]]
  BY DEF Accept, lineVars
<1>2. /\ task'[c].at = "lock" /\ task'[c].cmd.op = op /\ task'[c].cmd.id = i /\ task'[c].cmd.by = c
      /\ \A d \in Client : d # c => task'[d] = task[d]
  <2>1. task \in [Client -> TaskType] /\ task[c] \in TaskType
    BY <1>0 DEF Types
  <2> QED BY <1>1, <2>1 DEF TaskType
<1>3. /\ op = "WC" => owners[i] = None /\ \A id \in Id : owners'[id] = IF id = i THEN c ELSE owners[id]
      /\ op # "WC" => owners[i] = c /\ owners' = owners
  BY <1>0, <1>1 DEF MayCommand, Types
<1>4. \A d \in Client, id \in Id : d # c => (owners'[id] = d <=> owners[id] = d)
  BY <1>3, SaidFacts
<1>5. Alone(c)
  BY <1>1, <1>2, <1>4 DEF Alone
<1>6. Standing(c)'
  BY <1>2 DEF Standing, Late
<1>7. ASSUME NEW id \in Id PROVE Keeps(c, id)'
  <2>1. Keeps(c, id) /\ (Coming(c, id)' <=> Coming(c, id))
    BY <1>1, LinesStay DEF OwnFacts
  <2>2. \A o : For(c, o, id)' <=> op = o /\ i = id
    BY <1>2 DEF For
  <2>3. owners[id] = c => owners'[id] = c
    BY <1>3
  <2>4. op = "WC" /\ id = i => owners'[id] = c /\ guest[id] # c /\ ~Coming(c, id)
    BY <1>1, <1>3, <2>1, SaidFacts DEF Keeps, Routed
  <2>5. Routed(c, id)'
    BY <1>1, <2>1, <2>3 DEF Keeps, Routed
  <2>6. Creating(c, id)' /\ Destroying(c, id)'
    BY <1>1, <1>2, <2>1, <2>2, <2>4 DEF Creating, Destroying
  <2>7. ASSUME guestUp' PROVE Pending(c, id)' /\ Settled(c, id)'
    <3>1. owners[id] = c => guest[id] = c
      BY <1>1, <2>1, <2>7 DEF Keeps, Settled, Unsettled, Late
    <3>2. Pending(c, id)'
      BY <1>1, <1>2, <1>3, <2>2, <3>1 DEF Pending
    <3>3. Settled(c, id)'
      BY <1>1, <1>2, <1>3, <2>2, <3>1, SaidFacts DEF Settled, Unsettled
    <3> QED BY <3>2, <3>3
  <2> QED BY <2>5, <2>6, <2>7 DEF Keeps
<1> QED BY <1>5, <1>6, <1>7, AloneKeeps

(* A command is not carried out: it is refused or too long, the guest has  *)
(* stopped, or its answer is no.  The entry that the check made goes.      *)
LEMMA ErrKeeps ==
  ASSUME NEW c \in Client, NEW id \in Id, Keeps(c, id),
         task[c].at \in {"read", "lock", "ack"},
         task'[c].at = "answer", task'[c].answer = "ERR", task'[c].cmd = task[c].cmd,
         UNCHANGED <<conn, guest, guestUp, fromGuest>>,
         task[c].at = "read" => owners' = owners,
         task[c].at # "read" => owners'[id] = IF For(c, "WC", id) THEN None ELSE owners[id],
         task[c].at = "ack" => ~Positive
  PROVE  Keeps(c, id)'
<1>1. Coming(c, id)' <=> Coming(c, id)
  BY LinesStay
<1>2. \A o : For(c, o, id)' <=> For(c, o, id)
  BY DEF For
<1>3. Routed(c, id)'
  BY <1>1 DEF Keeps, Routed, Creating
<1>4. Creating(c, id)' /\ Destroying(c, id)' /\ Pending(c, id)'
  BY DEF Creating, Destroying, Pending
<1>5. ASSUME guestUp' PROVE Settled(c, id)'
  <2>1. Settled(c, id) /\ guestUp
    BY <1>5 DEF Keeps
  <2>2. owners'[id] = c => owners[id] = c /\ ~(task[c].at # "read" /\ For(c, "WC", id))
    BY SaidFacts
  <2>3. ASSUME owners'[id] = c PROVE guest[id] = c
    BY <2>1, <2>2, <2>3 DEF Settled, Unsettled, Late
  <2> QED BY <2>3 DEF Settled
<1> QED BY <1>3, <1>4, <1>5 DEF Keeps

LEMMA ErrOwn ==
  ASSUME BrokerInv, OneUnderWay, OwnFacts, ~crossed', NEW c \in Client,
         \/ \E op \in Op, id \in Id : Refuse(c, op, id)
         \/ TooLong(c) \/ GetClosed(c)
         \/ SendGuest(c) /\ ~guestUp
         \/ GetAck(c) /\ Head(acks).kind # "A"
  PROVE  OwnFacts'
<1>0. Types /\ Order /\ Standing(c) /\ \A id \in Id : Keeps(c, id)
  BY DEF OwnFacts, BrokerInv
<1>1. /\ UNCHANGED <<conn, guest, guestUp, fromGuest, pump>>
      /\ UNCHANGED <<toGuest, acks>> \/ lock \in {None, c}
  <2>1. GetAck(c) => lock = c
    BY <1>0 DEF GetAck, Order
  <2> QED BY <2>1 DEF Refuse, TooLong, GetClosed, SendGuest, GetAck, lineVars
<1>2. /\ task[c].at \in {"read", "lock", "ack"}
      /\ task[c].at = "read" => owners' = owners
      /\ task[c].at # "read" => DisownCreated(c)
  BY DEF Refuse, TooLong, GetClosed, SendGuest, GetAck, ownVars
<1>3. /\ task'[c].at = "answer" /\ task'[c].answer = "ERR" /\ task'[c].cmd = task[c].cmd
      /\ \A d \in Client : d # c => task'[d] = task[d]
  <2>1. task \in [Client -> TaskType] /\ task[c] \in TaskType
    BY <1>0 DEF Types
  <2>2. \/ Answer(c, "ERR")
        \/ task' = [task EXCEPT ![c].at = "answer", ![c].answer = "ERR", ![c].mine = {Head(acks).for}]
    BY DEF Refuse, TooLong, GetClosed, SendGuest, GetAck
  <2> QED BY <2>1, <2>2 DEF Answer, TaskType
<1>4. /\ \A d \in Client, id \in Id : d # c => (owners'[id] = d <=> owners[id] = d)
      /\ task[c].at # "read" => \A id \in Id : owners'[id] = IF For(c, "WC", id) THEN None ELSE owners[id]
  BY <1>0, <1>2, DisownCreatedOwn
<1>5. ASSUME task[c].at = "ack" PROVE ~Positive
  <2>1. lock = c /\ (UnderWay(task[c].cmd) \/ Quiet)
    BY <1>0, <1>5 DEF Order, OneUnderWay
  <2>2. CASE GetClosed(c)
    <3>1. acks = <<>> /\ fromGuest = <<>> /\ ~guestUp
      BY <1>0, <2>2 DEF GetClosed, Order
    <3> QED BY <3>1 DEF Positive
  <2>3. CASE GetAck(c) /\ Head(acks).kind # "A"
    <3>1. acks # <<>>
      BY <2>3 DEF GetAck
    <3>2. PICK l \in LineType : acks = <<l>>
      BY <2>1, <3>1 DEF UnderWay, Quiet
    <3>3. NoAnswer(fromGuest) /\ Len(acks) = 1 /\ acks[1].kind # "A"
      BY <2>1, <2>3, <3>1, <3>2 DEF UnderWay, Quiet
    <3>4. \A i \in 1 .. Len(acks) : i = 1
      BY <3>3
    <3> QED BY <3>3, <3>4 DEF NoAnswer, Positive
  <2> QED BY <1>5, <2>2, <2>3 DEF Refuse, TooLong, SendGuest
<1>6. Alone(c)
  BY <1>1, <1>3, <1>4 DEF Alone
<1>7. Standing(c)'
  BY <1>3 DEF Standing, Late
<1>8. ASSUME NEW id \in Id PROVE Keeps(c, id)'
  BY <1>0, <1>1, <1>2, <1>3, <1>4, <1>5, ErrKeeps
<1> QED BY <1>6, <1>7, <1>8, AloneKeeps

(* A command is written to the guest. *)
LEMMA SendOwn ==
  ASSUME BrokerInv, OneUnderWay, OwnFacts, NEW c \in Client, SendGuest(c), guestUp
  PROVE  OwnFacts'
<1>0. Types /\ Order /\ Standing(c) /\ \A id \in Id : Keeps(c, id)
  BY DEF OwnFacts, BrokerInv
<1>1. /\ UNCHANGED <<conn, owners, guest, guestUp, fromGuest, pump, acks>> /\ lock = None
      /\ task[c].at = "lock" /\ task' = [task EXCEPT ![c].at = "ack"]
      /\ toGuest' = Append(toGuest, task[c].cmd)
  BY DEF SendGuest, LockFree, Goto, ownVars
<1>2. /\ task'[c].at = "ack" /\ task'[c].cmd = task[c].cmd
      /\ \A d \in Client : d # c => task'[d] = task[d]
  <2>1. task \in [Client -> TaskType] /\ task[c] \in TaskType
    BY <1>0 DEF Types
  <2> QED BY <1>1, <2>1 DEF TaskType
<1>3. toGuest' # <<>>
  BY <1>0, <1>1, TaskFacts, AppendProperties DEF Types
<1>4. Quiet
  <2>1. hello = "serving"
    BY <1>0, <1>1, TaskFacts
  <2> QED BY <1>1, <2>1 DEF OneUnderWay
<1>5. ~Positive'
  BY <1>1, <1>4 DEF Positive, Quiet, NoAnswer
<1>6. Alone(c)
  BY <1>1, <1>2 DEF Alone
<1>7. Standing(c)'
  BY <1>0, <1>1, <1>2 DEF Standing, Late
<1>8. ASSUME NEW id \in Id PROVE Keeps(c, id)'
  <2>1. Keeps(c, id) /\ (Coming(c, id)' <=> Coming(c, id))
    BY <1>0, <1>1, LinesStay
  <2>2. \A o : For(c, o, id)' <=> For(c, o, id)
    BY <1>2 DEF For
  <2>3. Routed(c, id)'
    BY <1>1, <2>1 DEF Keeps, Routed
  <2>4. Creating(c, id)' /\ Destroying(c, id)'
    BY <1>1, <1>2, <1>3, <1>5, <2>1, <2>2 DEF Keeps, Creating, Destroying
  <2>5. Pending(c, id)'
    BY <1>1, <1>2, <2>1, <2>2 DEF Keeps, Pending
  <2>6. Settled(c, id)'
    BY <1>1, <1>2, <1>5, <2>1, <2>2 DEF Keeps, Settled, Unsettled, Late
  <2> QED BY <2>3, <2>4, <2>5, <2>6 DEF Keeps
<1> QED BY <1>6, <1>7, <1>8, AloneKeeps

(* A command has been carried out. *)
LEMMA OkOwn ==
  ASSUME BrokerInv, OneUnderWay, OwnFacts, NEW c \in Client, GetAck(c), Head(acks).kind = "A"
  PROVE  OwnFacts'
<1>0. Types /\ Order /\ Standing(c) /\ \A id \in Id : Keeps(c, id)
  BY DEF OwnFacts, BrokerInv
<1>1. /\ UNCHANGED <<conn, owners, guest, guestUp, fromGuest, pump>> /\ lock = c
      /\ task[c].at = "ack" /\ acks # <<>>
      /\ task' = [task EXCEPT ![c].at = "answer", ![c].answer = "OK", ![c].mine = {Head(acks).for}]
  BY <1>0 DEF GetAck, lineVars, ownVars, Order
<1>2. /\ task'[c].at = "answer" /\ task'[c].cmd = task[c].cmd /\ task'[c].answer = "OK"
      /\ \A d \in Client : d # c => task'[d] = task[d]
  <2>1. task \in [Client -> TaskType] /\ task[c] \in TaskType
    BY <1>0 DEF Types
  <2> QED BY <1>1, <2>1 DEF TaskType
<1>3. Positive /\ \A id \in Id : ~Trailing(c, id) => ~Coming(c, id)
  <2>1. PICK l \in LineType : acks = <<l>>
    BY <1>1 DEF OneUnderWay, UnderWay, Quiet
  <2>2. 1 \in 1 .. Len(acks) /\ acks[1].kind = "A"
    BY <2>1
  <2> QED BY <2>2 DEF Positive, Trailing
<1>4. Alone(c)
  BY <1>1, <1>2 DEF Alone
<1>5. Standing(c)'
  BY <1>2 DEF Standing, Late
<1>6. ASSUME NEW id \in Id PROVE Keeps(c, id)'
  <2>1. Keeps(c, id) /\ (Coming(c, id)' <=> Coming(c, id))
    BY <1>0, <1>1, LinesStay
  <2>2. \A o : For(c, o, id)' <=> For(c, o, id)
    BY <1>2 DEF For
  <2>3. Routed(c, id)'
    BY <1>1, <2>1 DEF Keeps, Routed
  <2>4. Creating(c, id)' /\ Pending(c, id)'
    BY <1>2 DEF Creating, Pending
  <2>5. Destroying(c, id)'
    BY <1>1, <1>2, <1>3, <2>1, <2>2 DEF Keeps, Destroying
  <2>6. guestUp' => Settled(c, id)'
    BY <1>1, <1>2, <1>3, <2>1, <2>2 DEF Keeps, Settled, Unsettled, Late
  <2> QED BY <2>3, <2>4, <2>5, <2>6 DEF Keeps
<1> QED BY <1>4, <1>5, <1>6, AloneKeeps

(* The client is told. *)
LEMMA ReplyOwn ==
  ASSUME BrokerInv, OwnFacts, ~crossed', NEW c \in Client, Reply(c)
  PROVE  OwnFacts'
<1>0. Types /\ Standing(c) /\ \A id \in Id : Keeps(c, id)
  BY DEF OwnFacts, BrokerInv
<1> DEFINE gone(id) == task[c].answer = "OK" /\ For(c, "WD", id)
<1>1. /\ UNCHANGED <<conn, guest, guestUp, fromGuest, pump, toGuest, acks>>
      /\ task[c].at = "answer"
      /\ task' = [task EXCEPT ![c] = [NoTask EXCEPT !.at = "read"]]
  BY DEF Reply, lineVars
<1>2. /\ task'[c].at = "read" /\ \A d \in Client : d # c => task'[d] = task[d]
  <2>1. Moved(c, "read", Hello, None, {})
    BY <1>0, <1>1, MoveForms, SaidFacts DEF At, Verdict, Mine
  <2> QED BY <2>1 DEF Moved, Has
<1>3. /\ \A d \in Client, id \in Id : d # c => (owners'[id] = d <=> owners[id] = d)
      /\ \A id \in Id : owners'[id] = IF gone(id) THEN None ELSE owners[id]
  <2>1. CASE task[c].answer = "OK" /\ task[c].cmd.op = "WD"
    <3>1. Disown(c, task[c].cmd.id)
      BY <2>1 DEF Reply
    <3> QED BY <1>0, <2>1, <3>1, DisownOwn DEF For
  <2>2. CASE ~(task[c].answer = "OK" /\ task[c].cmd.op = "WD")
    BY <2>2 DEF Reply, ownVars, For
  <2> QED BY <2>1, <2>2
<1>4. Alone(c)
  BY <1>1, <1>2, <1>3 DEF Alone
<1>5. Standing(c)'
  BY <1>2 DEF Standing, Late
<1>6. ASSUME NEW id \in Id PROVE Keeps(c, id)'
  <2>1. Keeps(c, id) /\ (Coming(c, id)' <=> Coming(c, id))
    BY <1>0, <1>1, LinesStay
  <2>2. Routed(c, id)'
    BY <1>1, <1>3, <2>1 DEF Keeps, Routed, Destroying
  <2>3. Creating(c, id)' /\ Destroying(c, id)' /\ Pending(c, id)'
    BY <1>2 DEF Creating, Destroying, Pending
  <2>4. guestUp' => Settled(c, id)'
    BY <1>1, <1>3, <2>1, SaidFacts DEF Keeps, Settled, Unsettled, Late
  <2> QED BY <2>2, <2>3, <2>4 DEF Keeps
<1> QED BY <1>4, <1>5, <1>6, AloneKeeps

(* Steps that no client's task takes, and that leave the lines and the     *)
(* guest alone: an entry may go, after its client's connection.            *)
LEMMA AllFramed ==
  ASSUME OwnFacts, PumpOwn', \A d \in Client : Framed(d), fromGuest' = fromGuest
  PROVE  OwnFacts'
<1>1. ASSUME NEW d \in Client PROVE Standing(d)'
  <2>1. Standing(d) /\ Framed(d)
    BY DEF OwnFacts
  <2> QED BY <2>1, LinesStay DEF Standing, Framed
<1>2. ASSUME NEW d \in Client, NEW id \in Id PROVE Keeps(d, id)'
  BY FrameKeeps DEF OwnFacts
<1>3. Named'
  BY DEF OwnFacts, Named, Line
<1> QED BY <1>1, <1>2, <1>3 DEF OwnFacts

LEMMA OthersOwn ==
  ASSUME BrokerInv, OwnFacts, ~crossed',
         \/ HelloSend \/ HelloTimeout \/ HelloAnswer
         \/ (\E c \in Client : Disconnect(c)) \/ PumpSend \/ PumpEnd \/ UNCHANGED vars
  PROVE  OwnFacts'
<1>0. Types /\ Order
  BY DEF BrokerInv
<1>1. UNCHANGED <<task, guest, guestUp, fromGuest>>
  BY DEF HelloSend, HelloTimeout, HelloAnswer, Disconnect, PumpSend, PumpEnd, vars, hostVars, lineVars
<1>2. \A d \in Client : conn'[d] => conn[d]
  <2>1. CASE \E c \in Client : Disconnect(c)
    BY <1>0, <2>1 DEF Disconnect, Types
  <2>2. CASE ~\E c \in Client : Disconnect(c)
    BY <2>2 DEF HelloSend, HelloTimeout, HelloAnswer, PumpSend, PumpEnd, vars, hostVars
  <2> QED BY <2>1, <2>2
<1>3. ASSUME NEW d \in Client, task[d].at = "ack" PROVE UNCHANGED <<toGuest, acks>>
  <2>1. hello = "serving"
    BY <1>0, <1>3 DEF Order
  <2> QED BY <2>1 DEF HelloSend, HelloTimeout, HelloAnswer, Disconnect, PumpSend, PumpEnd, vars, hostVars, lineVars
<1>4. ASSUME NEW d \in Client, NEW id \in Id
      PROVE  /\ owners'[id] = d => owners[id] = d
             /\ conn'[d] /\ owners[id] = d => owners'[id] = d
  <2>1. CASE PumpSend /\ Disown(pump.to, pump.id) /\ ~conn[pump.to]
    <3>1. conn' = conn /\ owners[pump.id] \in {pump.to, None}
      BY <1>0, <2>1 DEF PumpSend, Disown, Types
    <3>2. owners'[id] = IF id = pump.id THEN None ELSE owners[id]
      BY <1>0, <2>1 DEF Disown, Types
    <3> QED BY <2>1, <3>1, <3>2, SaidFacts
  <2>2. CASE owners' = owners
    BY <2>2
  <2> QED BY <2>1, <2>2 DEF HelloSend, HelloTimeout, HelloAnswer, Disconnect, PumpSend, PumpEnd,
             vars, hostVars, ownVars
<1>5. \A d \in Client : Framed(d)
  BY <1>1, <1>2, <1>3, <1>4 DEF Framed
<1>6. PumpOwn'
  <2>1. CASE PumpSend \/ PumpEnd
    <3>1. pump'.state # "send"
      BY <2>1 DEF PumpSend, PumpEnd, Idle
    <3> QED BY <3>1 DEF PumpOwn
  <2>2. CASE pump' = pump
    BY <1>1, <1>2, <2>2 DEF OwnFacts, PumpOwn
  <2> QED BY <2>1, <2>2 DEF HelloSend, HelloTimeout, HelloAnswer, Disconnect, vars, hostVars
<1> QED BY <1>1, <1>5, <1>6, AllFramed

(* The guest stops, and its windows are gone. *)
LEMMA StopOwn ==
  ASSUME BrokerInv, OwnFacts, GuestStop
  PROVE  OwnFacts'
<1>1. /\ UNCHANGED <<task, conn, owners, fromGuest, acks, pump>> /\ ~guestUp'
      /\ \A id \in Id : guest'[id] = None
  BY DEF GuestStop, hostVars
<1>2. PumpOwn' /\ Named'
  BY <1>1 DEF OwnFacts, PumpOwn, Named, Line
<1>3. (Positive' <=> Positive) /\ \A c, i : Trailing(c, i)' <=> Trailing(c, i)
  BY <1>1 DEF Positive, Trailing, Coming, Line
<1>4. ASSUME NEW d \in Client PROVE Standing(d)'
  BY <1>1, LinesStay, SaidFacts DEF OwnFacts, Standing
<1>5. ASSUME NEW d \in Client, NEW id \in Id PROVE Keeps(d, id)'
  <2>1. Keeps(d, id) /\ guest'[id] # d /\ (Coming(d, id)' <=> Coming(d, id))
    BY <1>1, LinesStay, SaidFacts DEF OwnFacts
  <2>2. \A o : For(d, o, id)' <=> For(d, o, id)
    BY <1>1 DEF For
  <2>3. Routed(d, id)' /\ Creating(d, id)' /\ Destroying(d, id)'
    BY <1>1, <1>3, <2>1, <2>2 DEF Keeps, Routed, Creating, Destroying
  <2> QED BY <1>1, <2>3 DEF Keeps
<1> QED BY <1>2, <1>4, <1>5 DEF OwnFacts

(* The reading task. *)
LEMMA ReadOwn ==
  ASSUME BrokerInv, OwnFacts, PumpRead
  PROVE  OwnFacts'
<1> DEFINE line == Head(fromGuest)
<1>0. Types
  BY DEF BrokerInv
<1>1. /\ UNCHANGED <<task, conn, owners, guest, guestUp, toGuest>>
      /\ pump = Idle /\ fromGuest # <<>> /\ fromGuest' = Tail(fromGuest)
  BY DEF PumpRead, ownVars
<1>2. /\ Len(fromGuest) \in Nat \ {0} /\ line = fromGuest[1]
      /\ \A i \in 1 .. Len(fromGuest') : i + 1 \in 1 .. Len(fromGuest) /\ fromGuest'[i] = fromGuest[i + 1]
  BY <1>0, <1>1, RestOf DEF Types
<1>3. Named'
  <2>1. ASSUME NEW i \in 1 .. Len(fromGuest'), fromGuest'[i].kind = "EV"
        PROVE  \E c \in Client, id \in Id : fromGuest'[i] = Line("EV", id, c)
    BY <1>2, <2>1 DEF OwnFacts, Named
  <2> QED BY <2>1 DEF Named, Line
<1>4. PumpOwn'
  <2>1. CASE line.kind # "EV" \/ owners[line.id] = None
    <3>1. pump'.state # "send"
      BY <1>1, <2>1 DEF PumpRead, Idle
    <3> QED BY <3>1 DEF PumpOwn
  <2>2. CASE line.kind = "EV" /\ owners[line.id] # None
    <3>1. 1 \in 1 .. Len(fromGuest)
      BY <1>2
    <3>2. PICK c \in Client, id \in Id : line = Line("EV", id, c)
      BY <1>2, <2>2, <3>1 DEF OwnFacts, Named
    <3>3. pump' = [state |-> "send", id |-> line.id, to |-> owners[line.id], of |-> line.for]
      BY <2>2 DEF PumpRead
    <3>4. line.id = id /\ line.for = c
      BY <3>2 DEF Line
    <3>5. Coming(c, id)
      BY <1>2, <3>1, <3>2 DEF Coming
    <3>6. task[c].at # "none" /\ (conn[c] => owners[id] = c)
      BY <3>5 DEF OwnFacts, Standing, Keeps, Routed
    <3>7. pump'.of = c /\ pump'.to = owners[id]
      BY <3>3, <3>4
    <3> QED BY <1>1, <3>6, <3>7 DEF PumpOwn
  <2> QED BY <2>1, <2>2
<1>5. \A c, id : /\ Coming(c, id)' => Coming(c, id)
                 /\ Positive' <=> Positive
                 /\ Trailing(c, id)' => Trailing(c, id)
  BY <1>0, ReadLines
<1>6. ASSUME NEW d \in Client PROVE Standing(d)'
  BY <1>1, <1>5 DEF OwnFacts, Standing
<1>7. ASSUME NEW d \in Client, NEW id \in Id PROVE Keeps(d, id)'
  <2>1. Keeps(d, id)
    BY DEF OwnFacts
  <2>2. \A o : For(d, o, id)' <=> For(d, o, id)
    BY <1>1 DEF For
  <2>3. Routed(d, id)' /\ Creating(d, id)' /\ Destroying(d, id)'
    BY <1>1, <1>5, <2>1, <2>2 DEF Keeps, Routed, Creating, Destroying
  <2>4. guestUp' => Pending(d, id)' /\ Settled(d, id)'
    BY <1>1, <1>5, <2>1, <2>2 DEF Keeps, Pending, Settled, Unsettled
  <2> QED BY <2>3, <2>4 DEF Keeps
<1> QED BY <1>3, <1>4, <1>6, <1>7 DEF OwnFacts

(* An event of a window. *)
LEMMA EventOwn ==
  ASSUME BrokerInv, OwnFacts, NEW i \in Id, GuestEvent(i)
  PROVE  OwnFacts'
<1> DEFINE e == Line("EV", i, guest[i])
<1>0. Types
  BY DEF BrokerInv
<1>1. /\ UNCHANGED <<task, conn, owners, guest, guestUp, toGuest, acks, pump>>
      /\ guest[i] \in Client /\ fromGuest' = Append(fromGuest, e)
  BY <1>0 DEF GuestEvent, hostVars, Types
<1>2. e \in LineType /\ e.kind = "EV" /\ fromGuest \in Seq(LineType)
  BY <1>0, <1>1 DEF Line, LineType, Types
<1>3. \A c, id : e = Line("EV", id, c) => id = i /\ c = guest[i]
  BY DEF Line
<1>4. Named'
  <2>1. \E c \in Client, id \in Id : e = Line("EV", id, c)
    BY <1>1
  <2> HIDE DEF e
  <2>2. /\ Len(fromGuest') = Len(fromGuest) + 1 /\ fromGuest'[Len(fromGuest) + 1] = e
        /\ \A j \in 1 .. Len(fromGuest') :
             j = Len(fromGuest) + 1 \/ (j \in 1 .. Len(fromGuest) /\ fromGuest'[j] = fromGuest[j])
    BY <1>1, <1>2, OneMore
  <2>3. ASSUME NEW j \in 1 .. Len(fromGuest'), fromGuest'[j].kind = "EV"
        PROVE  \E c \in Client, id \in Id : fromGuest'[j] = Line("EV", id, c)
    BY <2>1, <2>2, <2>3 DEF OwnFacts, Named
  <2> QED BY <2>3 DEF Named, Line
<1> HIDE DEF e
<1>5. \A c, id : /\ Coming(c, id)' => Coming(c, id) \/ (id = i /\ c = guest[i])
                 /\ Positive' <=> Positive
                 /\ Trailing(c, id)' => Trailing(c, id) \/ (id = i /\ c = guest[i])
  BY <1>1, <1>2, <1>3, EventLines
<1>6. PumpOwn'
  BY <1>1 DEF OwnFacts, PumpOwn
<1>7. ASSUME NEW d \in Client PROVE Standing(d)'
  BY <1>1, <1>5 DEF OwnFacts, Standing
<1>8. ASSUME NEW d \in Client, NEW id \in Id PROVE Keeps(d, id)'
  <2>1. Keeps(d, id)
    BY DEF OwnFacts
  <2>2. \A o : For(d, o, id)' <=> For(d, o, id)
    BY <1>1 DEF For
  <2>3. Routed(d, id)' /\ Creating(d, id)' /\ Destroying(d, id)'
    BY <1>1, <1>5, <2>1, <2>2 DEF Keeps, Routed, Creating, Destroying
  <2>4. guestUp' => Pending(d, id)' /\ Settled(d, id)'
    BY <1>1, <1>5, <2>1, <2>2 DEF Keeps, Pending, Settled, Unsettled
  <2> QED BY <2>3, <2>4 DEF Keeps
<1> QED BY <1>4, <1>6, <1>7, <1>8 DEF OwnFacts

(* The guest carries a command out, or refuses it. *)
LEMMA HandleFacts ==
  ASSUME BrokerInv, OneUnderWay, OwnFacts, GuestHandle
  PROVE  /\ toGuest = <<Head(toGuest)>> /\ toGuest' = <<>>
         /\ NoAnswer(fromGuest) /\ acks = <<>> /\ ~Positive
         /\ Head(toGuest) \in Said
         /\ \A d \in Client : task[d].at = "ack" => lock = d /\ Head(toGuest) = task[d].cmd
         /\ Head(toGuest) # Hello =>
              /\ lock \in Client /\ Head(toGuest) = task[lock].cmd /\ Head(toGuest).by = lock
              /\ task[lock].at \in {"ack", "dropAck"}
<1>0. Types /\ Order
  BY DEF BrokerInv
<1>1. toGuest # <<>> /\ toGuest' = Tail(toGuest) /\ ~Quiet
  BY DEF GuestHandle, Quiet
<1>2. ASSUME NEW x, UnderWay(x) PROVE toGuest = <<x>> /\ NoAnswer(fromGuest) /\ acks = <<>>
  BY <1>1, <1>2 DEF UnderWay
<1>3. \A d \in Client : lock = d => UnderWay(task[d].cmd)
  BY <1>1 DEF OneUnderWay
<1>4. hello = "wait" => UnderWay(Hello)
  BY DEF OneUnderWay
<1>5. lock = None => hello = "wait"
  BY <1>1 DEF OneUnderWay
<1>6. lock \in Client \cup {None}
  BY <1>0 DEF Types
<1>7. PICK x : UnderWay(x)
  BY <1>3, <1>4, <1>5, <1>6
<1>8. toGuest = <<x>> /\ NoAnswer(fromGuest) /\ acks = <<>> /\ Head(toGuest) = x /\ toGuest' = <<>>
  BY <1>1, <1>2, <1>7
<1>9. ~Positive
  BY <1>8 DEF NoAnswer, Positive
<1>10. \A d \in Client : lock = d => Head(toGuest) = task[d].cmd
  BY <1>2, <1>3
<1>11. hello = "wait" => Head(toGuest) = Hello
  BY <1>2, <1>4
<1>12. Head(toGuest) \in Said
  BY <1>0, <1>1, HeadTailProperties DEF Types
<1>13. ASSUME Head(toGuest) # Hello
       PROVE  /\ lock \in Client /\ Head(toGuest) = task[lock].cmd /\ Head(toGuest).by = lock
              /\ task[lock].at \in {"ack", "dropAck"}
  <2>1. lock \in Client
    BY <1>5, <1>6, <1>11, <1>13
  <2>2. task[lock].at \in {"ack", "dropAck"}
    BY <1>0, <2>1 DEF Order
  <2> QED BY <1>10, <2>1, <2>2 DEF OwnFacts, Standing
<1>14. \A d \in Client : task[d].at = "ack" => lock = d
  BY <1>0 DEF Order
<1> QED BY <1>8, <1>9, <1>10, <1>12, <1>13, <1>14

(* It says no. *)
LEMMA RefusedOwn ==
  ASSUME BrokerInv, OneUnderWay, OwnFacts, GuestHandle, guest' = guest,
         NEW l \in LineType, l.kind \notin {"A", "EV"}, fromGuest' = Append(fromGuest, l)
  PROVE  OwnFacts'
<1>0. Types
  BY DEF BrokerInv
<1>1. /\ UNCHANGED <<task, conn, owners, guestUp, acks, pump>> /\ guestUp
  BY DEF GuestHandle
<1>2. /\ toGuest # <<>> /\ toGuest' = <<>> /\ NoAnswer(fromGuest) /\ acks = <<>> /\ ~Positive
  <2>1. toGuest # <<>>
    BY DEF GuestHandle
  <2> QED BY <2>1, HandleFacts
<1> DEFINE e == Line("EV", None, Hello)
<1>3. e \in LineType /\ e.kind = "EV" /\ fromGuest \in Seq(LineType)
  BY <1>0, SaidFacts DEF Line, LineType, Types
<1> HIDE DEF e
<1>4. \A c, id : /\ Coming(c, id)' => Coming(c, id)
                 /\ ~Positive' /\ ~Trailing(c, id)'
  BY <1>1, <1>2, <1>3, AnswerLines
<1>5. Named'
  <2>1. \A i \in 1 .. Len(fromGuest') : fromGuest'[i] = l \/ (i \in 1 .. Len(fromGuest) /\ fromGuest'[i] = fromGuest[i])
    BY <1>3, OneMore
  <2>2. ASSUME NEW j \in 1 .. Len(fromGuest'), fromGuest'[j].kind = "EV"
        PROVE  \E c \in Client, id \in Id : fromGuest'[j] = Line("EV", id, c)
    BY <2>1, <2>2 DEF OwnFacts, Named
  <2> QED BY <2>2 DEF Named, Line
<1>6. PumpOwn'
  BY <1>1 DEF OwnFacts, PumpOwn
<1>7. ASSUME NEW d \in Client PROVE Standing(d)'
  BY <1>1, <1>4 DEF OwnFacts, Standing
<1>8. ASSUME NEW d \in Client, NEW id \in Id PROVE Keeps(d, id)'
  <2>1. Keeps(d, id)
    BY DEF OwnFacts
  <2>2. \A o : For(d, o, id)' <=> For(d, o, id)
    BY <1>1 DEF For
  <2>3. Routed(d, id)' /\ Creating(d, id)' /\ Destroying(d, id)'
    BY <1>1, <1>2, <1>4, <2>1, <2>2 DEF Keeps, Routed, Creating, Destroying
  <2>4. Pending(d, id)' /\ Settled(d, id)'
    BY <1>1, <1>2, <1>4, <2>1, <2>2 DEF Keeps, Pending, Settled, Unsettled
  <2> QED BY <2>3, <2>4 DEF Keeps
<1> QED BY <1>5, <1>6, <1>7, <1>8 DEF OwnFacts

(* It says nothing to a line that does not fit. *)
LEMMA SilentOwn ==
  ASSUME BrokerInv, OneUnderWay, OwnFacts, GuestHandle, UNCHANGED <<guest, fromGuest>>
  PROVE  OwnFacts'
<1>1. UNCHANGED <<task, conn, owners, guestUp, acks, pump>> /\ guestUp /\ toGuest' = <<>>
  BY HandleFacts DEF GuestHandle
<1>2. PumpOwn' /\ Named'
  BY <1>1 DEF OwnFacts, PumpOwn, Named, Line
<1>3. (Positive' <=> Positive) /\ \A c, i : Trailing(c, i)' <=> Trailing(c, i)
  BY <1>1 DEF Positive, Trailing, Coming, Line
<1>4. ASSUME NEW d \in Client PROVE Standing(d)'
  BY <1>1, LinesStay DEF OwnFacts, Standing
<1>5. ASSUME NEW d \in Client, NEW id \in Id PROVE Keeps(d, id)'
  <2>1. Keeps(d, id) /\ (Coming(d, id)' <=> Coming(d, id))
    BY LinesStay DEF OwnFacts
  <2>2. \A o : For(d, o, id)' <=> For(d, o, id)
    BY <1>1 DEF For
  <2>3. Routed(d, id)' /\ Creating(d, id)' /\ Destroying(d, id)'
    BY <1>1, <1>3, <2>1, <2>2 DEF Keeps, Routed, Creating, Destroying
  <2>4. Pending(d, id)' /\ Settled(d, id)'
    BY <1>1, <1>3, <2>1, <2>2 DEF Keeps, Pending, Settled, Unsettled
  <2> QED BY <2>3, <2>4 DEF Keeps
<1> QED BY <1>2, <1>4, <1>5 DEF OwnFacts

(* It says yes, to a command of the task that holds the lock. *)
LEMMA CarriedOutOwn ==
  ASSUME BrokerInv, OneUnderWay, OwnFacts, ~crossed', GuestHandle,
         NEW cmd, cmd = Head(toGuest), cmd # Hello, Accepts(cmd),
         guest' = [guest EXCEPT ![cmd.id] = CASE cmd.op = "WC" -> cmd.by
                                              [] cmd.op = "WD" -> None [] OTHER -> @],
         fromGuest' = fromGuest \o <<Line("A", None, cmd)>>
                        \o (IF cmd.op = "WC" THEN <<Line("EV", cmd.id, cmd.by)>> ELSE <<>>),
         crossed' = (crossed \/ (task[cmd.by].at = "dropAck" /\ guest[cmd.id] # cmd.by))
  PROVE  OwnFacts'
<1>0. Types
  BY DEF BrokerInv
<1>1. /\ UNCHANGED <<task, conn, owners, guestUp, acks, pump>> /\ guestUp /\ toGuest # <<>>
  BY DEF GuestHandle
<1>2. /\ toGuest' = <<>> /\ NoAnswer(fromGuest) /\ acks = <<>> /\ ~Positive
      /\ cmd \in Said
      /\ \A d \in Client : task[d].at = "ack" => lock = d
      /\ lock \in Client /\ cmd = task[lock].cmd /\ cmd.by = lock
      /\ task[lock].at \in {"ack", "dropAck"}
  BY HandleFacts
<1>3. PICK c \in Client : c = lock
  BY <1>2
<1> DEFINE l == Line("A", None, cmd)
           e == Line("EV", cmd.id, c)
<1>4. cmd.id \in Id /\ cmd.op \in Op
  BY <1>2 DEF Said, Command
<1>5. /\ l \in LineType /\ l.kind = "A" /\ e \in LineType /\ e.kind = "EV"
      /\ fromGuest \in Seq(LineType)
  BY <1>0, <1>2, <1>4 DEF Line, LineType, Types
<1>6. \A d, id : e = Line("EV", id, d) => id = cmd.id /\ d = c
  BY DEF Line
<1>7. e = Line("EV", cmd.id, c)
  OBVIOUS
<1>8. /\ fromGuest' \in {Append(fromGuest, l), Append(Append(fromGuest, l), e)}
      /\ cmd.op # "WC" => fromGuest' = Append(fromGuest, l)
  <2>1. fromGuest' = fromGuest \o <<l>> \o (IF cmd.op = "WC" THEN <<e>> ELSE <<>>)
    BY <1>2, <1>3
  <2> HIDE DEF l, e
  <2>2. fromGuest \o <<l>> = Append(fromGuest, l) /\ Append(fromGuest, l) \in Seq(LineType)
    BY <1>5, AppendIsConcat
  <2>3. /\ Append(fromGuest, l) \o <<>> = Append(fromGuest, l)
        /\ Append(fromGuest, l) \o <<e>> = Append(Append(fromGuest, l), e)
    BY <1>5, <2>2, AppendIsConcat, ConcatEmptySeq
  <2> QED BY <2>1, <2>2, <2>3
<1> HIDE DEF l, e
<1>9. \A d, id : /\ Coming(d, id)' => Coming(d, id) \/ (cmd.op = "WC" /\ id = cmd.id /\ d = c)
                 /\ Positive'
                 /\ Trailing(d, id)' => cmd.op = "WC" /\ id = cmd.id /\ d = c
  <2>1. ASSUME NEW d, NEW id
        PROVE  /\ Coming(d, id)' => Coming(d, id) \/ (fromGuest' # Append(fromGuest, l) /\ e = Line("EV", id, d))
               /\ Positive'
               /\ Trailing(d, id)' => fromGuest' # Append(fromGuest, l) /\ e = Line("EV", id, d)
    BY <1>1, <1>2, <1>5, <1>8, AnswerLines
  <2> QED BY <1>6, <1>8, <2>1
<1>10. Named'
  <2>1. Append(fromGuest, l) \in Seq(LineType) /\ l.kind # "EV"
    BY <1>5
  <2>2. \A i \in 1 .. Len(Append(fromGuest, l)) :
          \/ Append(fromGuest, l)[i] = l
          \/ i \in 1 .. Len(fromGuest) /\ Append(fromGuest, l)[i] = fromGuest[i]
    BY <1>5, OneMore
  <2>3. \A i \in 1 .. Len(Append(Append(fromGuest, l), e)) :
          \/ Append(Append(fromGuest, l), e)[i] = e
          \/ i \in 1 .. Len(Append(fromGuest, l)) /\ Append(Append(fromGuest, l), e)[i] = Append(fromGuest, l)[i]
    BY <1>5, <2>1, OneMore
  <2>4. ASSUME NEW j \in 1 .. Len(fromGuest'), fromGuest'[j].kind = "EV"
        PROVE  \E d \in Client, id \in Id : fromGuest'[j] = Line("EV", id, d)
    <3>1. fromGuest'[j] = e \/ (j \in 1 .. Len(fromGuest) /\ fromGuest'[j] = fromGuest[j])
      BY <1>8, <2>1, <2>2, <2>3, <2>4
    <3> QED BY <1>4, <1>7, <2>4, <3>1 DEF OwnFacts, Named
  <2> QED BY <2>4 DEF Named, Line
<1>11. PumpOwn'
  BY <1>1 DEF OwnFacts, PumpOwn
<1>12. /\ Standing(c) /\ Keeps(c, cmd.id) /\ For(c, cmd.op, cmd.id)
       /\ task[c].at = "ack" /\ cmd.op # "WC" => guest[cmd.id] = c
  <2>1. Standing(c) /\ Keeps(c, cmd.id) /\ For(c, cmd.op, cmd.id)
    BY <1>2, <1>3, <1>4 DEF OwnFacts, For
  <2> QED BY <1>1, <1>4, <2>1 DEF Keeps, Pending, Op
<1>13. task[c].at = "dropAck" => guest[cmd.id] = c
  BY <1>2, <1>3
<1>14. /\ \A id \in Id : id # cmd.id => guest'[id] = guest[id]
       /\ cmd.op = "WC" => guest[cmd.id] = None /\ guest'[cmd.id] = c
       /\ cmd.op = "WD" => guest'[cmd.id] = None
       /\ cmd.op = "other" => guest' = guest
  <2>1. cmd.op = "WC" => guest[cmd.id] = None
    BY DEF Accepts
  <2>2. guest \in [Id -> Client \cup {None}]
    BY <1>0 DEF Types
  <2> QED BY <1>2, <1>3, <1>4, <2>1, <2>2
<1>15. \A d \in Client, id \in Id : d # c => (guest'[id] = d <=> guest[id] = d)
  BY <1>2, <1>3, <1>4, <1>12, <1>13, <1>14, SaidFacts DEF Op
<1>16. ASSUME NEW d \in Client, d # c PROVE Standing(d)'
  BY <1>1, <1>9, <1>15, <1>16 DEF OwnFacts, Standing
<1>17. Standing(c)'
  BY <1>1, <1>2, <1>3, <1>12 DEF Standing
<1>18. ASSUME NEW d \in Client, d # c, NEW id \in Id PROVE Keeps(d, id)'
  <2>1. Keeps(d, id) /\ task[d].at # "ack"
    BY <1>2, <1>3, <1>18 DEF OwnFacts
  <2>2. \A o : For(d, o, id)' <=> For(d, o, id)
    BY <1>1 DEF For
  <2>3. (guest'[id] = d <=> guest[id] = d) /\ (Coming(d, id)' => Coming(d, id))
    BY <1>9, <1>15, <1>18
  <2>4. Routed(d, id)' /\ Creating(d, id)' /\ Destroying(d, id)'
    BY <1>1, <2>1, <2>2, <2>3 DEF Keeps, Routed, Creating, Destroying
  <2>5. Pending(d, id)' /\ Settled(d, id)'
    BY <1>1, <2>1, <2>2, <2>3 DEF Keeps, Pending, Settled, Unsettled
  <2> QED BY <2>4, <2>5 DEF Keeps
<1>19. ASSUME NEW id \in Id PROVE Keeps(c, id)'
  <2>1. CASE task[c].at = "dropAck"
    <3>1. ~conn[c]
      BY <1>12, <2>1 DEF Standing, Late
    <3>2. task'[c].at \in Late /\ ~conn'[c] /\ task'[c].cmd.by = c
      BY <1>1, <1>2, <1>3, <2>1, <3>1 DEF Late
    <3> QED BY <3>2, LateKeeps
  <2>2. CASE task[c].at = "ack"
    <3>1. Keeps(c, id)
      BY DEF OwnFacts
    <3>2. \A o : For(c, o, id)' <=> o = cmd.op /\ id = cmd.id
      BY <1>1, <1>2, <1>3 DEF For
    <3>3. \A o : For(c, o, id) <=> o = cmd.op /\ id = cmd.id
      BY <1>2, <1>3 DEF For
    <3>4. CASE id # cmd.id
      <4>1. guest'[id] = guest[id] /\ (Coming(c, id)' => Coming(c, id))
        BY <1>9, <1>14, <3>4
      <4>2. Routed(c, id)' /\ Creating(c, id)' /\ Destroying(c, id)'
        BY <1>1, <3>1, <3>2, <3>4, <4>1 DEF Keeps, Routed, Creating, Destroying
      <4>3. Pending(c, id)'
        BY <3>2, <3>4 DEF Pending
      <4>4. Settled(c, id)'
        BY <1>1, <2>2, <3>1, <3>3, <3>4, <4>1 DEF Keeps, Settled, Unsettled, Late
      <4> QED BY <4>2, <4>3, <4>4 DEF Keeps
    <3>5. CASE id = cmd.id
      <4>1. Pending(c, id)'
        BY <1>1, <1>2, <1>9, <2>2 DEF Pending
      <4>2. CASE cmd.op = "WC"
        <5>1. guest'[id] = c /\ (conn[c] => owners[id] = c)
          BY <1>14, <2>2, <3>1, <3>3, <3>5, <4>2 DEF Keeps, Creating
        <5>2. Routed(c, id)' /\ Settled(c, id)'
          BY <1>1, <5>1 DEF Routed, Settled
        <5>3. Positive' /\ ~For(c, "WD", id)' /\ task'[c].at = "ack"
          <6>1. Positive'
            BY <1>9
          <6>2. For(c, "WD", id)' <=> "WD" = cmd.op /\ id = cmd.id
            BY <3>2
          <6> QED BY <1>1, <2>2, <4>2, <6>1, <6>2
        <5>4. Creating(c, id)' /\ Destroying(c, id)'
          BY <1>1, <5>1, <5>3 DEF Creating, Destroying
        <5> QED BY <4>1, <5>2, <5>4 DEF Keeps
      <4>3. CASE cmd.op = "WD"
        <5>1. guest'[id] # c /\ ~Trailing(c, id)' /\ (Coming(c, id)' => Coming(c, id))
          BY <1>9, <1>14, <3>5, <4>3, SaidFacts
        <5>2. Routed(c, id)' /\ Creating(c, id)' /\ Destroying(c, id)'
          BY <1>1, <2>2, <3>1, <3>2, <4>3, <5>1 DEF Keeps, Routed, Creating, Destroying
        <5>3. Settled(c, id)'
          BY <1>1, <1>9, <2>2, <3>2, <3>5, <4>3 DEF Settled, Unsettled
        <5> QED BY <4>1, <5>2, <5>3 DEF Keeps
      <4>4. CASE cmd.op = "other"
        <5>1. guest' = guest /\ (Coming(c, id)' => Coming(c, id))
          BY <1>9, <1>14, <4>4
        <5>2. Routed(c, id)' /\ Creating(c, id)' /\ Destroying(c, id)'
          BY <1>1, <3>1, <3>2, <4>4, <5>1 DEF Keeps, Routed, Creating, Destroying
        <5>3. Settled(c, id)'
          BY <1>1, <2>2, <3>1, <3>3, <4>4, <5>1 DEF Keeps, Settled, Unsettled, Late
        <5> QED BY <4>1, <5>2, <5>3 DEF Keeps
      <4> QED BY <1>4, <4>2, <4>3, <4>4 DEF Op
    <3> QED BY <3>4, <3>5
  <2> QED BY <1>2, <1>3, <2>1, <2>2
<1> QED BY <1>10, <1>11, <1>16, <1>17, <1>18, <1>19 DEF OwnFacts

LEMMA HandleOwn ==
  ASSUME BrokerInv, OneUnderWay, OwnFacts, ~crossed', GuestHandle
  PROVE  OwnFacts'
<1> DEFINE cmd == Head(toGuest)
<1>0. cmd \in Said
  BY HandleFacts
<1>1. CASE cmd = Hello /\ fromGuest' = Append(fromGuest, Line("R2", None, cmd)) /\ guest' = guest
  <2>1. Line("R2", None, cmd) \in LineType /\ Line("R2", None, cmd).kind = "R2"
    BY <1>0 DEF Line, LineType
  <2> HIDE DEF cmd
  <2> QED BY <1>1, <2>1, RefusedOwn
<1>2. CASE /\ cmd # Hello
           /\ fromGuest' = Append(fromGuest, Line("N", None, cmd)) /\ guest' = guest
  <2>1. Line("N", None, cmd) \in LineType /\ Line("N", None, cmd).kind = "N"
    BY <1>0 DEF Line, LineType
  <2> HIDE DEF cmd
  <2> QED BY <1>2, <2>1, RefusedOwn
<1>3. CASE /\ cmd # Hello /\ Accepts(cmd)
           /\ guest' = [guest EXCEPT ![cmd.id] = CASE cmd.op = "WC" -> cmd.by
                                                   [] cmd.op = "WD" -> None [] OTHER -> @]
           /\ fromGuest' = fromGuest \o <<Line("A", None, cmd)>>
                             \o (IF cmd.op = "WC" THEN <<Line("EV", cmd.id, cmd.by)>> ELSE <<>>)
           /\ crossed' = (crossed \/ (task[cmd.by].at = "dropAck" /\ guest[cmd.id] # cmd.by))
  BY <1>3, CarriedOutOwn
<1>4. CASE UNCHANGED <<guest, fromGuest>>
  BY <1>4, SilentOwn
<1> QED BY <1>1, <1>2, <1>3, <1>4 DEF GuestHandle

-----------------------------------------------------------------------------
(* The theorems on ownership. *)

LEMMA OwnStep == BrokerInv /\ OwnInv /\ [Next]_vars => OwnInv'
<1> SUFFICES ASSUME BrokerInv, OwnInv, [Next]_vars, ~stray', ~crossed' PROVE OwnFacts'
  BY DEF OwnInv
<1>1. ~GuestAction
  BY DEF GuestAction
<1>2. ~stray
  <2>1. stray' = stray \/ HelloTimeout \/ GuestAction
    <3>1. CASE HelloSend \/ HelloAnswer \/ UNCHANGED vars
      BY <3>1 DEF HelloSend, HelloAnswer, vars, hostVars, helloVars
    <3>2. ASSUME NEW c \in Client, Connect(c) \/ Disconnect(c) \/ TooLong(c) \/ SendGuest(c) \/ DropSend(c)
          PROVE  stray' = stray
      BY <3>2 DEF Connect, Disconnect, TooLong, SendGuest, DropSend, DisownCreated, helloVars
    <3>3. ASSUME NEW c \in Client, NEW op \in Op, NEW i \in Id,
                 (\E f \in BOOLEAN : Accept(c, op, i, f)) \/ Refuse(c, op, i)
          PROVE  stray' = stray
      BY <3>3 DEF Accept, Refuse, helloVars
    <3>4. ASSUME NEW c \in Client, Reply(c) \/ ClientStep(c)
          PROVE  stray' = stray
      BY <3>4 DEF ClientStep, GetAck, GetClosed, Reply, ReplyFails, ReadEnds, Finally, DropAck, Dispose,
                 DisownCreated, helloVars
    <3>5. CASE PumpRead \/ PumpSend \/ PumpEnd \/ GuestHandle \/ GuestStop \/ \E i \in Id : GuestEvent(i)
      BY <3>5 DEF PumpRead, PumpSend, PumpEnd, GuestHandle, GuestStop, GuestEvent, hostVars, helloVars
    <3> QED BY <3>1, <3>2, <3>3, <3>4, <3>5 DEF Next
  <2> QED BY <2>1 DEF HelloTimeout, GuestAction
<1>3. ~crossed
  <2>1. crossed' = crossed \/ (\E c, i : Disown(c, i)) \/ GuestHandle
    <3>1. CASE HelloSend \/ HelloTimeout \/ HelloAnswer \/ UNCHANGED vars
      BY <3>1 DEF HelloSend, HelloTimeout, HelloAnswer, vars, hostVars, ownVars
    <3>2. ASSUME NEW c \in Client, Connect(c) \/ Disconnect(c) \/ TooLong(c) \/ SendGuest(c) \/ DropSend(c)
          PROVE  crossed' = crossed \/ \E d, j : Disown(d, j)
      BY <3>2 DEF Connect, Disconnect, TooLong, SendGuest, DropSend, DisownCreated, ownVars
    <3>3. ASSUME NEW c \in Client, NEW op \in Op, NEW i \in Id,
                 (\E f \in BOOLEAN : Accept(c, op, i, f)) \/ Refuse(c, op, i)
          PROVE  crossed' = crossed \/ \E d, j : Disown(d, j)
      BY <3>3 DEF Accept, Refuse, ownVars
    <3>4. ASSUME NEW c \in Client, Reply(c) \/ ClientStep(c)
          PROVE  crossed' = crossed \/ \E d, j : Disown(d, j)
      BY <3>4 DEF ClientStep, GetAck, GetClosed, Reply, ReplyFails, ReadEnds, Finally, DropAck, Dispose,
                 DisownCreated, ownVars
    <3>5. CASE PumpRead \/ PumpSend \/ PumpEnd \/ GuestAction \/ GuestStop \/ \E i \in Id : GuestEvent(i)
      BY <3>5 DEF PumpRead, PumpSend, PumpEnd, GuestAction, GuestStop, GuestEvent, hostVars, ownVars
    <3> QED BY <3>1, <3>2, <3>3, <3>4, <3>5 DEF Next
  <2>2. crossed => crossed'
    BY <2>1 DEF Disown, GuestHandle
  <2> QED BY <2>2
<1>4. OwnFacts /\ OneUnderWay
  BY <1>2, <1>3 DEF OwnInv, BrokerInv
<1>5. ASSUME NEW c \in Client, Connect(c) PROVE OwnFacts'
  BY <1>4, <1>5, ConnectOwn
<1>6. ASSUME NEW c \in Client, NEW op \in Op, NEW id \in Id, NEW f \in BOOLEAN,
             Accept(c, op, id, f)
      PROVE  OwnFacts'
  BY <1>4, <1>6, AcceptOwn
<1>7. ASSUME NEW c \in Client,
             (\E op \in Op, id \in Id : Refuse(c, op, id)) \/ TooLong(c)
      PROVE  OwnFacts'
  BY <1>4, <1>7, ErrOwn
<1>8. ASSUME NEW c \in Client, SendGuest(c) PROVE OwnFacts'
  BY <1>4, <1>8, SendOwn, ErrOwn
<1>9. ASSUME NEW c \in Client, DropSend(c) PROVE OwnFacts'
  BY <1>4, <1>9, LateOwn
<1>10. ASSUME NEW c \in Client, Reply(c) \/ ClientStep(c) PROVE OwnFacts'
  <2>1. CASE GetAck(c)
    BY <1>4, <2>1, OkOwn, ErrOwn
  <2>2. CASE GetClosed(c)
    BY <1>4, <2>2, ErrOwn
  <2>3. CASE Reply(c)
    BY <1>4, <2>3, ReplyOwn
  <2>4. CASE ReplyFails(c) \/ ReadEnds(c) \/ (\E id \in Id : Finally(c, id)) \/ DropAck(c) \/ Dispose(c)
    BY <1>4, <2>4, LateOwn
  <2> QED BY <1>10, <2>1, <2>2, <2>3, <2>4 DEF ClientStep
<1>11. CASE \/ HelloSend \/ HelloTimeout \/ HelloAnswer
            \/ (\E c \in Client : Disconnect(c)) \/ PumpSend \/ PumpEnd \/ UNCHANGED vars
  BY <1>4, <1>11, OthersOwn
<1>12. CASE PumpRead \/ GuestHandle \/ GuestStop
  BY <1>4, <1>12, ReadOwn, HandleOwn, StopOwn
<1>13. ASSUME NEW id \in Id, GuestEvent(id) PROVE OwnFacts'
  BY <1>4, <1>13, EventOwn
<1> QED BY <1>1, <1>5, <1>6, <1>7, <1>8, <1>9, <1>10, <1>11, <1>12, <1>13 DEF Next

LEMMA OwnInit == Init => OwnInv
<1> SUFFICES ASSUME Init PROVE OwnFacts
  BY DEF OwnInv
<1>1. /\ \A c \in Client : task[c] = NoTask /\ ~conn[c]
      /\ \A id \in Id : owners[id] = None /\ guest[id] = None
      /\ fromGuest = <<>> /\ pump = Idle
  BY DEF Init
<1>2. PumpOwn /\ Named
  BY <1>1 DEF PumpOwn, Named, Idle
<1>3. ASSUME NEW c \in Client PROVE /\ task[c].at = "none" /\ Standing(c)
                                    /\ \A id \in Id : ~Coming(c, id) /\ guest[id] # c /\ owners[id] # c
  BY <1>1, SaidFacts DEF Standing, Coming, NoTask, Late
<1>4. ASSUME NEW c \in Client, NEW id \in Id PROVE Keeps(c, id)
  BY <1>3 DEF Keeps, Routed, Creating, Destroying, Pending, Settled
<1> QED BY <1>2, <1>3, <1>4 DEF OwnFacts

LEMMA OwnHolds == Spec => [](BrokerInv /\ OwnInv)
<1>1. Init => BrokerInv /\ OwnInv
  BY BrokerInit, OwnInit
<1>2. BrokerInv /\ OwnInv /\ [Next]_vars => (BrokerInv /\ OwnInv)'
  BY BrokerStep, OwnStep
<1> QED BY <1>1, <1>2, PTL DEF Spec

(* However many clients there are: while the client of a window is         *)
(* connected no one else gets the window's events, as long as the guest    *)
(* sends answers and events only and nothing done for one client has hit   *)
(* another's id (the reading task's lookup and its later send).            *)
THEOREM EventsArePrivate == Spec => []EventsPrivate
<1>1. OwnInv => EventsPrivate
  BY DEF OwnInv, OwnFacts, PumpOwn, EventsPrivate
<1> QED BY <1>1, OwnHolds, PTL

(* However many clients there are: a command that passed the ownership     *)
(* check reaches the client's own window, although it waited for guestLock *)
(* in between, on the same conditions.                                     *)
THEOREM CommandsReachOwn == Spec => CommandsOwn
<1> DEFINE Reach == \A c \in Client : ~stray /\ ~crossed /\ task[c].at = "ack" /\ toGuest # <<>> /\ Head(toGuest) = task[c].cmd
             => \A id \in Id : guest'[id] # guest[id] => guest[id] \in {None, c} \/ ~guestUp'
<1>1. BrokerInv /\ OwnInv /\ [Next]_vars => Reach
  <2> SUFFICES ASSUME BrokerInv, OwnInv, [Next]_vars, NEW c \in Client, ~stray, ~crossed,
                      task[c].at = "ack", toGuest # <<>>, Head(toGuest) = task[c].cmd,
                      NEW id \in Id, guest'[id] # guest[id], guestUp'
               PROVE  guest[id] \in {None, c}
    OBVIOUS
  <2>1. GuestHandle
    <3>1. guest' = guest \/ GuestHandle \/ GuestStop
      <4>1. CASE HelloSend \/ HelloTimeout \/ HelloAnswer \/ UNCHANGED vars
        BY <4>1 DEF HelloSend, HelloTimeout, HelloAnswer, vars, hostVars, lineVars
      <4>2. ASSUME NEW d \in Client, Connect(d) \/ Disconnect(d) \/ TooLong(d) \/ SendGuest(d) \/ DropSend(d)
            PROVE  guest' = guest
        BY <4>2 DEF Connect, Disconnect, TooLong, SendGuest, DropSend, DisownCreated, lineVars
      <4>3. ASSUME NEW d \in Client, NEW op \in Op, NEW i \in Id,
                   (\E f \in BOOLEAN : Accept(d, op, i, f)) \/ Refuse(d, op, i)
            PROVE  guest' = guest
        BY <4>3 DEF Accept, Refuse, lineVars
      <4>4. ASSUME NEW d \in Client, Reply(d) \/ ClientStep(d)
            PROVE  guest' = guest
        BY <4>4 DEF ClientStep, GetAck, GetClosed, Reply, ReplyFails, ReadEnds, Finally, DropAck, Dispose,
                   DisownCreated, lineVars
      <4>5. CASE PumpRead \/ PumpSend \/ PumpEnd \/ GuestAction \/ \E i \in Id : GuestEvent(i)
        BY <4>5 DEF PumpRead, PumpSend, PumpEnd, GuestAction, GuestEvent, hostVars, lineVars
      <4> QED BY <4>1, <4>2, <4>3, <4>4, <4>5 DEF Next
    <3> QED BY <3>1 DEF GuestStop
  <2>2. task[c].cmd \in Command /\ guestUp
    BY <2>1 DEF BrokerInv, Order, GuestHandle
  <2>3. Keeps(c, id) /\ guest \in [Id -> Client \cup {None}]
    BY DEF OwnInv, OwnFacts, BrokerInv, Types
  <2>4. /\ guest' = [guest EXCEPT ![task[c].cmd.id] = CASE task[c].cmd.op = "WC" -> task[c].cmd.by
                                                       [] task[c].cmd.op = "WD" -> None [] OTHER -> @]
        /\ Accepts(task[c].cmd)
    BY <2>1 DEF GuestHandle
  <2>5. id = task[c].cmd.id /\ task[c].cmd.op # "other"
    BY <2>2, <2>3, <2>4
  <2>6. CASE task[c].cmd.op = "WC"
    BY <2>4, <2>5, <2>6 DEF Accepts
  <2>7. CASE task[c].cmd.op = "WD"
    BY <2>2, <2>3, <2>5, <2>7 DEF Keeps, Pending, For
  <2> QED BY <2>2, <2>5, <2>6, <2>7 DEF Command, Op
<1>2. BrokerInv /\ OwnInv /\ [Next]_vars => [Reach]_vars
  BY <1>1
<1> HIDE DEF Reach
<1>3. Spec => [][Reach]_vars
  BY <1>2, OwnHolds, PTL DEF Spec
<1> QED BY <1>3 DEF CommandsOwn, Reach
=============================================================================
