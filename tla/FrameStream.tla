---------------------------- MODULE FrameStream ----------------------------
(***************************************************************************)
(* What receiver.c promises the rest of the server: a stream of bytes is   *)
(* cut into packets, each after a length, in order, whatever the pieces    *)
(* are in which the bytes come.                                            *)
(***************************************************************************)
EXTENDS Naturals, Sequences

CONSTANTS
  Byte,                 \* the bytes of a stream
  BodyLength(_)         \* the length that a length byte stands for

VARIABLES
  stream,               \* bytes that came and are in no packet yet
  packets,              \* the packets handed on, oldest first
  broken                \* the stream was given up

streamVars == <<stream, packets, broken>>

FrameLength == BodyLength(stream[1])
FrameReady == stream # <<>> /\ Len(stream) > FrameLength

StreamInit == stream = <<>> /\ packets = <<>> /\ broken = FALSE

\* The client sent something.
Arrive ==
  /\ ~broken
  /\ stream' \in Seq(Byte)
  /\ Len(stream') >= Len(stream)
  /\ SubSeq(stream', 1, Len(stream)) = stream
  /\ UNCHANGED <<packets, broken>>

\* The oldest packet is handed on, all of it and no more.
Deliver ==
  /\ ~broken
  /\ FrameReady
  /\ packets' = Append(packets, SubSeq(stream, 2, FrameLength + 1))
  /\ stream' = SubSeq(stream, FrameLength + 2, Len(stream))
  /\ UNCHANGED broken

\* The oldest packet was handed on and refused, or is too long to be waited for.
Break ==
  /\ ~broken
  /\ stream # <<>>
  /\ broken' = TRUE
  /\ packets' \in {packets} \cup
       (IF FrameReady THEN {Append(packets, SubSeq(stream, 2, FrameLength + 1))} ELSE {})
  /\ stream' = <<>>

StreamNext == Arrive \/ Deliver \/ Break

StreamSpec == StreamInit /\ [][StreamNext]_streamVars
=============================================================================
