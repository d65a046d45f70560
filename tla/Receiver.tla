------------------------------ MODULE Receiver ------------------------------
(***************************************************************************)
(* src/net/receiver.c: receiver_consume_data is called with the bytes of   *)
(* each recv of one client and goes on where the last call stopped, which  *)
(* the client's receiver_state_t remembers (receiver_state.line, a switch  *)
(* over line numbers). One action is one stretch of the function between   *)
(* two points where its state can be told apart from outside.              *)
(***************************************************************************)
EXTENDS Naturals, Sequences

CONSTANTS
  Byte,                 \* the bytes that clients send
  Low,                  \* 0x80: the bit of a length byte that is no digit
  MaxPacketSize,        \* g_server_config.max_recv_packet_size
  MaxRecv,              \* g_server_config.recv_buffer_size
  MaxBytes              \* bound: bytes one client sends in all

ASSUME ReceiverAssumption ==
  /\ Byte \subseteq Nat
  /\ Low \in Nat \ {0}
  /\ MaxPacketSize \in Nat /\ MaxRecv \in Nat /\ MaxBytes \in Nat

VARIABLES
  pc,                   \* where the function is, or how its last call ended
  line,                 \* receiver_state.line: where the next call goes on
  data,                 \* the bytes of this recv not consumed yet
  packet_length,        \* receiver_state.packet_length
  left_to_read,         \* receiver_state.left_to_read
  packet,               \* what is in the buffer receiver_state.packet
  should_return,        \* receiver_state.should_return
  head,                 \* history: the length byte of the packet in work
  received,             \* history: how many bytes came
  dispatched            \* history: the packets given to dispatch_packet

state == <<line, packet_length, left_to_read, packet, should_return>>
vars == <<pc, data, state, head, received, dispatched>>

Bytes == UNION {[1 .. n -> Byte] : n \in 0 .. MaxBytes}

TypeOK ==
  /\ pc \in {"idle", "length", "body", "copy", "dispatch", "protocol_error", "fatal"}
  /\ line \in {"start", "copy"}
  /\ data \in Bytes
  /\ packet_length \in 0 .. Low - 1
  /\ left_to_read \in 0 .. MaxPacketSize
  /\ packet \in Bytes
  /\ should_return \in BOOLEAN
  /\ head \in Byte \cup {0}
  /\ received \in 0 .. MaxBytes
  /\ dispatched \in Seq(Bytes)

\* A client_t is zeroed when it is accepted.
Init ==
  /\ pc = "idle" /\ line = "start" /\ data = <<>>
  /\ packet_length = 0 /\ left_to_read = 0 /\ packet = <<>> /\ should_return = FALSE
  /\ head = 0 /\ received = 0 /\ dispatched = <<>>

Smaller(m, n) == IF m < n THEN m ELSE n

\* The value of the seven low bits of a length byte.
Digits(b) == b % Low

\* The top of the loop over len, which begins with the switch on line.
Resume(l) == IF l = "start" THEN "length" ELSE "copy"

\* A recv completed with bytes; there is at least one (server.c takes none for
\* the end of the stream) and the receiver is not called while it runs.
Consume(bytes) ==
  /\ pc = "idle" /\ pc' = Resume(line)
  /\ bytes # <<>> /\ received + Len(bytes) <= MaxBytes
  /\ data' = bytes
  /\ received' = received + Len(bytes)
  /\ UNCHANGED <<state, head, dispatched>>

\* The loop over the bytes of the length. It tests varint.current_byte, which
\* nobody assigns, so the first byte always ends it.
FetchLength ==
  /\ pc = "length" /\ pc' = "body"
  /\ packet_length' = Digits(Head(data))
  /\ head' = Head(data)
  /\ data' = Tail(data)
  /\ UNCHANGED <<line, left_to_read, packet, should_return, received, dispatched>>

\* The whole packet is in this recv and is used where it is.
FastPath ==
  /\ pc = "body" /\ pc' = "dispatch"
  /\ packet_length <= Len(data)
  /\ packet' = SubSeq(data, 1, packet_length)
  /\ data' = SubSeq(data, packet_length + 1, Len(data))
  /\ UNCHANGED <<line, packet_length, left_to_read, should_return, head, received, dispatched>>

\* It is not: a buffer of its own is taken for it ...
SlowPath ==
  /\ pc = "body" /\ pc' = "copy"
  /\ packet_length > Len(data)
  /\ packet_length <= MaxPacketSize
  /\ packet' = <<>> /\ should_return' = TRUE
  /\ left_to_read' = packet_length
  /\ UNCHANGED <<line, data, packet_length, head, received, dispatched>>

\* ... unless it is too long, which is a failed CHECK and ends the server.
TooLong ==
  /\ pc = "body" /\ pc' = "fatal"
  /\ packet_length > Len(data)
  /\ packet_length > MaxPacketSize
  /\ data' = <<>> /\ line' = "start"
  /\ UNCHANGED <<packet_length, left_to_read, packet, should_return, head, received, dispatched>>

\* Mutant: every piece is copied to the beginning of the buffer.
FillFront(n) == SubSeq(data, 1, n)

\* memcpy at the offset packet_length - left_to_read, as much as there is.
Fill(n) == SubSeq(packet, 1, packet_length - left_to_read) \o SubSeq(data, 1, n)

CanCopy == Smaller(Len(data), left_to_read)

\* Mutant: the copying loop goes on for ever instead of returning.
CopyWaits ==
  /\ pc = "copy"
  /\ packet' = Fill(CanCopy)
  /\ left_to_read' = left_to_read - CanCopy
  /\ data' = SubSeq(data, CanCopy + 1, Len(data))
  /\ pc' = IF left_to_read' = 0 THEN "dispatch" ELSE "copy"
  /\ line' = "copy"
  /\ UNCHANGED <<packet_length, should_return, head, received, dispatched>>

\* One turn of the copying loop: the packet is whole, or the call returns.
Copy ==
  /\ pc = "copy"
  /\ packet' = Fill(CanCopy)
  /\ left_to_read' = left_to_read - CanCopy
  /\ data' = SubSeq(data, CanCopy + 1, Len(data))
  /\ IF left_to_read' = 0 THEN pc' = "dispatch" /\ UNCHANGED line
                          ELSE pc' = "idle" /\ line' = "copy"
  /\ UNCHANGED <<packet_length, should_return, head, received, dispatched>>

\* Mutant: one packet is dispatched in each call.
DispatchedOne ==
  /\ pc = "dispatch" /\ pc' = "idle"
  /\ dispatched' = Append(dispatched, packet)
  /\ should_return' = FALSE /\ packet' = <<>>
  /\ line' = "start"
  /\ UNCHANGED <<data, packet_length, left_to_read, head, received>>

\* dispatch_packet returns without error. The buffer is given back, the state
\* is reset, and the loop goes on as long as there are bytes.
Dispatched ==
  /\ pc = "dispatch" /\ pc' = IF data = <<>> THEN "idle" ELSE "length"
  /\ dispatched' = Append(dispatched, packet)
  /\ should_return' = FALSE /\ packet' = <<>>
  /\ line' = "start"
  /\ UNCHANGED <<data, packet_length, left_to_read, head, received>>

\* dispatch_packet fails: on a packet the protocol does not allow or, when the
\* reply cannot be queued, fatally. The rest of the bytes is dropped.
Refused(end) ==
  /\ pc = "dispatch" /\ pc' = end
  /\ dispatched' = Append(dispatched, packet)
  /\ should_return' = FALSE /\ packet' = <<>>
  /\ line' = "start"
  /\ data' = <<>>
  /\ UNCHANGED <<packet_length, left_to_read, head, received>>

Step == \/ FetchLength \/ FastPath \/ SlowPath \/ TooLong \/ Copy \/ Dispatched
        \/ \E end \in {"protocol_error", "fatal"} : Refused(end)

Recv == \E bytes \in UNION {[1 .. n -> Byte] : n \in 1 .. MaxRecv} : Consume(bytes)

Next == Recv \/ Step

Spec == Init /\ [][Next]_vars

\* A call that began runs; whether there is another is up to the client.
FairSpec == Spec /\ WF_vars(Step)
-----------------------------------------------------------------------------
Ended == pc \in {"protocol_error", "fatal"}

\* A packet of which the length was read and that was not dispatched.
InPacket == line = "copy" \/ pc \in {"body", "copy", "dispatch"}

\* The bytes that are in no packet yet: those of the packet in work, its length
\* in front, and those of this recv.
Undelivered ==
  IF Ended THEN <<>>
  ELSE (IF ~InPacket THEN <<>>
        ELSE <<head>> \o
             (IF pc = "body" THEN <<>>
              ELSE SubSeq(packet, 1, IF pc = "dispatch" THEN Len(packet)
                                     ELSE packet_length - left_to_read)))
       \o data

Frames == INSTANCE FrameStream WITH
  BodyLength <- Digits, stream <- Undelivered, packets <- dispatched, broken <- Ended

\* What is dispatched depends on the bytes alone and not on how the recvs cut
\* them: no byte is lost, read twice or put into the wrong packet when a call
\* stops in the middle of a packet and a later one goes on.
ImplementsFrameStream == Frames!StreamSpec

\* Between two calls no whole packet is left waiting for bytes that are not
\* needed for it.
NothingLeftBehind == pc = "idle" => ~Frames!FrameReady

\* The buffer of its own is held exactly while a packet is being pieced
\* together, over all the calls this takes, and is never too small for it.
BufferWhilePiecing ==
  /\ pc \in {"idle", "length"} => (should_return <=> line = "copy")
  /\ should_return => packet_length <= MaxPacketSize

\* What holds between and during all calls.
ReceiverConsistent == TypeOK /\ NothingLeftBehind /\ BufferWhilePiecing

\* A call returns: it never waits for bytes inside.
CallsReturn == pc \in {"length", "copy"} ~> pc \in {"idle", "protocol_error", "fatal"}

-----------------------------------------------------------------------------
(* What the comments say and the code does not do.                         *)

\* receiver.c:51, "check if we finished": a length goes on as long as its bytes
\* have the high bit, so a body never begins after such a byte.
LengthIsWhole == pc = "body" => head < Low
=============================================================================
