-------------------------------- MODULE Ps2 --------------------------------
(***************************************************************************)
(* The PS/2 driver (ps2.rs): init_mouse asks the mouse, command by         *)
(* command, to send a fourth byte for its wheel, and poll puts the bytes   *)
(* of the mouse together into events.  The controller and its two devices  *)
(* are external: each device has a queue of bytes, and a read takes one    *)
(* from either.  init_mouse does not look which; poll does.                *)
(* The controller may refuse a byte of init_mouse (wait_input_clear), and  *)
(* the mouse may be missing or late.                                       *)
(***************************************************************************)
EXTENDS Naturals, Sequences

CONSTANTS MaxKeys, MaxPackets,
          PollBytes   \* bytes that one poll reads, 32

VARIABLES mouse,    \* the device: "none", "plain" or "wheel"
          rates,    \* the last sample rates it was given
          expects,  \* its next byte is a sample rate
          streams,  \* it sends packets
          asked,    \* the commands it has not answered
          sent, typed, \* packets sent, keys pressed
          kbdq, auxq,  \* the bytes the controller has
          phase,    \* the next step of init_mouse; "poll" after it
          step,     \* the command it is at
          bytes,    \* MOUSE_BYTES up to MOUSE_INDEX
          size,     \* MOUSE_PACKET_SIZE
          reads,    \* bytes read by this poll
          events,   \* history: the packets of mouse events
          disturbed \* history: init_mouse took a key for an answer, was refused
                    \* a byte, or gave up on a mouse that is there

device == <<mouse, rates, expects, streams, asked, sent, typed>>
driver == <<phase, step, bytes, size, reads, events, disturbed>>
ps2Vars == <<device, kbdq, auxq, driver>>

(* Bytes: a key, the configuration, an answer, a byte of a packet.  sync   *)
(* is bit 3, which the first byte of a packet has and others may have.     *)
Key == [from |-> "key", sync |-> FALSE]
Config == [from |-> "config", sync |-> FALSE]
Ack == [from |-> "ack", sync |-> TRUE]
PlainId == [from |-> "id0", sync |-> FALSE]
WheelId == [from |-> "id3", sync |-> FALSE]
PacketByte(n, k, sync) == [from |-> "packet", packet |-> n, place |-> k, sync |-> sync]

(* The commands of init_mouse to the mouse: defaults (0xf6), three times   *)
(* 0xf3 and a sample rate, its id (0xf2), streaming (0xf4).                *)
Commands == <<246, 243, 200, 243, 100, 243, 80, 242, 244>>
Stream == Len(Commands)

(* The mouse after three rates in the right order sends four bytes. *)
IsWheel == mouse = "wheel" /\ rates = <<200, 100, 80>>
DeviceSize == IF IsWheel THEN 4 ELSE 3

Ps2Init ==
  /\ mouse \in {"none", "plain", "wheel"} /\ rates = <<>> /\ expects = FALSE
  /\ streams = FALSE /\ asked = <<>>
  /\ sent = 0 /\ typed = 0 /\ kbdq = <<>> /\ auxq = <<>>
  /\ phase = "config" /\ step = 0 /\ bytes = <<>> /\ size = 3 /\ reads = 0 /\ events = <<>>
  /\ disturbed = FALSE

-----------------------------------------------------------------------------
(* The devices. *)

PressKey ==
  /\ typed < MaxKeys
  /\ typed' = typed + 1 /\ kbdq' = Append(kbdq, Key)
  /\ UNCHANGED <<mouse, rates, expects, streams, asked, sent, auxq, driver>>

(* The mouse takes a byte, as the sample rate when it expects one and as a *)
(* command otherwise, and answers.                                         *)
TakeRate ==
  /\ mouse # "none" /\ asked # <<>> /\ expects
  /\ LET all == Append(rates, Commands[Head(asked)]) IN
       rates' = SubSeq(all, IF Len(all) > 3 THEN 2 ELSE 1, Len(all))
  /\ expects' = FALSE /\ auxq' = Append(auxq, Ack) /\ asked' = Tail(asked)
  /\ UNCHANGED <<mouse, streams, sent, typed, kbdq, driver>>
TakeCommand ==
  /\ mouse # "none" /\ asked # <<>> /\ ~expects
  /\ expects' = (Commands[Head(asked)] = 243)
  /\ streams' = (streams \/ Head(asked) = Stream)
  /\ auxq' = auxq \o IF Head(asked) = Stream - 1
                     THEN <<Ack, IF IsWheel THEN WheelId ELSE PlainId>> ELSE <<Ack>>
  /\ asked' = Tail(asked)
  /\ UNCHANGED <<mouse, rates, sent, typed, kbdq, driver>>
Answer == TakeRate \/ TakeCommand

(* The mouse moves. *)
Packet ==
  /\ streams /\ sent < MaxPackets
  /\ sent' = sent + 1
  /\ \E sync \in [2 .. DeviceSize -> BOOLEAN] :
       auxq' = auxq \o [k \in 1 .. DeviceSize |-> PacketByte(sent', k, k = 1 \/ sync[k])]
  /\ UNCHANGED <<mouse, rates, expects, streams, asked, typed, kbdq, driver>>

(* inb(0x60): the next byte, of either device. *)
Byte(b, aux) ==
  \/ aux /\ auxq # <<>> /\ b = Head(auxq) /\ auxq' = Tail(auxq) /\ kbdq' = kbdq
  \/ ~aux /\ kbdq # <<>> /\ b = Head(kbdq) /\ kbdq' = Tail(kbdq) /\ auxq' = auxq
Heads == {Head(q) : q \in {kbdq, auxq} \ {<<>>}}

-----------------------------------------------------------------------------
(* init_mouse *)

(* A byte that is read should have come from the mouse, or not. *)
Takes(b, aux, fromMouse) == Byte(b, aux) /\ disturbed' = (disturbed \/ aux # fromMouse \/ b = Key)

(* The configuration is asked for, read, changed and written back. *)
AskConfig ==
  /\ phase = "config"
  /\ kbdq' = Append(kbdq, Config) /\ phase' = "configRead"
  /\ UNCHANGED <<device, auxq, step, bytes, size, reads, events, disturbed>>
ReadConfig ==
  /\ phase = "configRead" /\ \E b \in Heads, aux \in BOOLEAN : Takes(b, aux, FALSE)
  /\ phase' = "send" /\ step' = 1
  /\ UNCHANGED <<device, bytes, size, reads, events>>

(* mouse_command: the command goes to the mouse ... *)
SendCommand ==
  /\ phase = "send"
  /\ asked' = Append(asked, step) /\ phase' = "reply"
  /\ UNCHANGED <<mouse, rates, expects, streams, sent, typed, kbdq, auxq, step, bytes, size, reads, events, disturbed>>

(* ... and where init_mouse goes on when it succeeded or failed: without   *)
(* the wheel, to the last command.                                         *)
NoWheel == phase' = "send" /\ step' = Stream /\ size' = 3 /\ bytes' = <<>>

Goes(ok) ==
  \/ /\ step = Stream \/ (step = 1 /\ ~ok)
     /\ phase' = "poll" /\ UNCHANGED <<step, bytes, size>>
  \/ /\ step < Stream /\ ok
     /\ IF step = Stream - 1 THEN phase' = "id" /\ step' = step ELSE phase' = "send" /\ step' = step + 1
     /\ UNCHANGED <<bytes, size>>
  \/ step \in 2 .. Stream - 1 /\ ~ok /\ NoWheel

ReadReply ==
  /\ phase = "reply"
  /\ \E b \in Heads, aux \in BOOLEAN : Takes(b, aux, TRUE) /\ Goes(b = Ack)
  /\ UNCHANGED <<device, reads, events>>

(* matches!(mouse_id(), Some(3) | Some(4)) *)
SizeFor(b) == IF b = WheelId THEN 4 ELSE 3

ReadId ==
  /\ phase = "id"
  /\ \E b \in Heads, aux \in BOOLEAN : Takes(b, aux, TRUE) /\ size' = SizeFor(b)
  /\ bytes' = <<>> /\ phase' = "send" /\ step' = Stream
  /\ UNCHANGED <<device, reads, events>>

(* wait_output_full gives up; the answer may still come. *)
TimeOut ==
  /\ phase \in {"reply", "id"} /\ kbdq = <<>> /\ auxq = <<>>
  /\ IF phase = "reply" THEN Goes(FALSE) ELSE NoWheel
  /\ disturbed' = (disturbed \/ mouse # "none")
  /\ UNCHANGED <<device, kbdq, auxq, reads, events>>

(* wait_input_clear gives up, and the byte is not sent. *)
Refused ==
  /\ phase \in {"config", "send"}
  /\ IF phase = "send" THEN Goes(FALSE) ELSE phase' = "poll" /\ UNCHANGED <<step, bytes, size>>
  /\ disturbed' = TRUE
  /\ UNCHANGED <<device, kbdq, auxq, reads, events>>

-----------------------------------------------------------------------------
(* poll *)

(* MOUSE_INDEX goes back to 0 when the packet is full. *)
KeptBytes(all) == IF Len(all) = size THEN <<>> ELSE all

(* Mutant: the bit that tells the devices apart is not looked at. *)
FromMouseAlways(aux) == TRUE
(* status & 0x20 *)
FromMouse(aux) == aux

(* A byte: a key event is sent; a mouse byte is skipped when it cannot     *)
(* start a packet, and else kept; a full packet is sent.  The port may be  *)
(* full, and the event is lost.                                            *)
PollByte ==
  /\ phase = "poll" /\ reads < PollBytes /\ reads' = reads + 1
  /\ \E b \in Heads, aux \in BOOLEAN :
       /\ Byte(b, aux)
       /\ IF ~FromMouse(aux) \/ (bytes = <<>> /\ ~b.sync) THEN UNCHANGED <<bytes, events>>
          ELSE LET all == Append(bytes, b) IN
               /\ bytes' = KeptBytes(all)
               /\ \/ Len(all) = size /\ events' = Append(events, all)
                  \/ events' = events
  /\ UNCHANGED <<device, phase, step, size, disturbed>>

PollEnd ==
  /\ phase = "poll" /\ reads > 0
  /\ reads = PollBytes \/ (kbdq = <<>> /\ auxq = <<>>)
  /\ reads' = 0
  /\ UNCHANGED <<device, kbdq, auxq, phase, step, bytes, size, events, disturbed>>

Ps2Driver ==
  AskConfig \/ ReadConfig \/ SendCommand \/ ReadReply \/ ReadId \/ TimeOut \/ Refused \/ PollByte \/ PollEnd
Ps2Next == Ps2Driver \/ PressKey \/ Answer \/ Packet

Ps2Spec == Ps2Init /\ [][Ps2Next]_ps2Vars

-----------------------------------------------------------------------------

(* Every mouse event is one packet of the mouse, whole and in order, and a *)
(* later event is a later packet: keys between the bytes, a poll that ends *)
(* in a packet and events lost at a full port do not shift the packets     *)
(* (poll, MOUSE_INDEX).                                                    *)
PacketsWhole ==
  \A i \in DOMAIN events :
    /\ Len(events[i]) = DeviceSize
    /\ \A k \in DOMAIN events[i] :
         LET b == events[i][k] IN
           /\ b.from = "packet" /\ b.place = k
           /\ b.packet = events[i][1].packet
           /\ (i > 1 /\ k = 1) => b.packet > events[i - 1][1].packet

(* The driver and the mouse agree on the size of a packet when the mouse   *)
(* starts to send them (init_mouse).                                       *)
SizesAgree == streams => size = DeviceSize

(* MOUSE_INDEX stays inside MOUSE_BYTES whatever init_mouse met, and       *)
(* unless it was disturbed, by a key, a late answer or a refused byte, the *)
(* driver and the mouse agree on the size of a packet and every event is   *)
(* one whole packet (init_mouse, poll).                                    *)
PacketsSound ==
  /\ Len(bytes) < size /\ size \in {3, 4}
  /\ disturbed \/ (PacketsWhole /\ SizesAgree)
=============================================================================
