--------------------------- MODULE ReceiverProofs ---------------------------
(***************************************************************************)
(* What src/net/receiver.c guarantees for any bytes, sizes and cuts.       *)
(***************************************************************************)
EXTENDS Receiver, SequenceTheorems, TLAPS

\* The copying loop has the packet, or will have it again with the next bytes.
Piecing == pc = "copy" \/ (pc = "idle" /\ line = "copy")

\* Where calls stop and go on.
LineInv ==
  /\ pc = "idle" => data = <<>>
  /\ pc = "length" => data # <<>>
  /\ pc \notin {"idle", "copy", "dispatch"} => line = "start"

\* The packet in work is as long as its first byte says, and what is in its buffer
\* is as much of it as was read.
PacketInv ==
  /\ InPacket => head \in Byte /\ packet_length = Digits(head)
  /\ Piecing => left_to_read \in 1 .. packet_length /\ Len(packet) = packet_length - left_to_read
  /\ pc = "dispatch" => Len(packet) = packet_length

\* Every byte in a buffer came in some recv.
RoomInv ==
  /\ Len(data) <= received
  /\ pc = "body" => Len(data) + 1 <= received
  /\ Piecing \/ pc = "dispatch" => Len(packet) + Len(data) + 1 <= received

\* Whether the packet has a buffer of its own.
BufferInv ==
  /\ Piecing => should_return = TRUE
  /\ ~Piecing /\ pc # "dispatch" => should_return = FALSE
  /\ should_return = TRUE => packet_length <= MaxPacketSize

IInv == TypeOK /\ LineInv /\ PacketInv /\ RoomInv /\ BufferInv

-----------------------------------------------------------------------------
(* Sequences of bytes.                                                     *)

LEMMA BytesAre ==
  \A x : x \in Bytes <=> x \in Seq(Byte) /\ Len(x) <= MaxBytes
<1>1. ASSUME NEW x \in Bytes
      PROVE  x \in Seq(Byte) /\ Len(x) <= MaxBytes
  <2>1. PICK n \in 0 .. MaxBytes : x \in [1 .. n -> Byte]
    BY DEF Bytes
  <2>2. n \in Nat /\ n <= MaxBytes
    BY ReceiverAssumption
  <2>3. x \in Seq(Byte)
    BY <2>1, <2>2, SeqDef
  <2>4. Len(x) = n
    BY <2>1, <2>2, <2>3, LenProperties
  <2> QED BY <2>2, <2>3, <2>4
<1>2. ASSUME NEW x \in Seq(Byte), Len(x) <= MaxBytes
      PROVE  x \in Bytes
  <2>1. Len(x) \in Nat /\ x \in [1 .. Len(x) -> Byte]
    BY LenProperties
  <2>2. Len(x) \in 0 .. MaxBytes
    BY <1>2, <2>1, ReceiverAssumption
  <2> QED BY <2>1, <2>2 DEF Bytes
<1> QED BY <1>1, <1>2

LEMMA EmptyBytes == <<>> \in Bytes /\ <<>> \in Seq(Bytes) /\ Len(<<>>) = 0
<1>1. <<>> \in Seq(Byte) /\ <<>> \in Seq(Bytes) /\ Len(<<>>) = 0
  BY EmptySeq
<1>2. 0 <= MaxBytes
  BY ReceiverAssumption
<1> QED BY <1>1, <1>2, BytesAre

\* k bytes that move from the one sequence to the other.
LEMMA Moved ==
  ASSUME NEW p \in Nat, NEW d \in Nat, NEW r \in Nat, NEW k \in Nat,
         p + d + 1 <= r, k <= d
  PROVE  d - k <= r /\ p + k <= r /\ (p + k) + (d - k) + 1 <= r
OBVIOUS

\* A sequence cut in two.
LEMMA CutInTwo ==
  ASSUME NEW S, NEW s \in Seq(S), NEW n \in Nat, n <= Len(s)
  PROVE  /\ SubSeq(s, 1, n) \in Seq(S) /\ Len(SubSeq(s, 1, n)) = n
         /\ SubSeq(s, n + 1, Len(s)) \in Seq(S)
         /\ Len(SubSeq(s, n + 1, Len(s))) = Len(s) - n
         /\ SubSeq(s, 1, n) \o SubSeq(s, n + 1, Len(s)) = s
<1>0. Len(s) \in Nat
  BY LenProperties
<1>1. \A i \in 1 .. Len(s) : s[i] \in S
  BY ElementOfSeq
<1>2. SubSeq(s, 1, n) \in Seq(S) /\ Len(SubSeq(s, 1, n)) = n
  <2>1. \A i \in 1 .. n : s[i] \in S
    BY <1>0, <1>1
  <2>2. Len(SubSeq(s, 1, n)) = IF 1 <= n THEN n - 1 + 1 ELSE 0
    BY <2>1, SubSeqProperties
  <2> QED BY <2>1, <2>2, SubSeqProperties
<1>3. /\ SubSeq(s, n + 1, Len(s)) \in Seq(S)
      /\ Len(SubSeq(s, n + 1, Len(s))) = Len(s) - n
  <2>1. \A i \in n + 1 .. Len(s) : s[i] \in S
    BY <1>0, <1>1
  <2>2. n + 1 \in Int /\ Len(s) \in Int
    BY <1>0
  <2>3. Len(SubSeq(s, n + 1, Len(s)))
          = IF n + 1 <= Len(s) THEN Len(s) - (n + 1) + 1 ELSE 0
    BY <2>1, <2>2, SubSeqProperties
  <2> QED BY <1>0, <2>1, <2>2, <2>3, SubSeqProperties
<1>4. SubSeq(s, 1, n) \o SubSeq(s, n + 1, Len(s)) = SubSeq(s, 1, Len(s))
  <2>1. 1 \in 1 .. Len(s) + 1 /\ n \in 1 - 1 .. Len(s) /\ Len(s) \in n .. Len(s)
    BY <1>0
  <2> QED BY <2>1, ConcatAdjacentSubSeq
<1> QED BY <1>2, <1>3, <1>4, SubSeqFull

\* A length byte, a packet and what follows it, one after the other.
Framed(h, p, d) == (<<h>> \o p) \o d

LEMMA FramedIs ==
  ASSUME NEW S, NEW h \in S, NEW p \in Seq(S), NEW d \in Seq(S)
  PROVE  /\ Framed(h, p, d) \in Seq(S)
         /\ Len(Framed(h, p, d)) = 1 + Len(p) + Len(d)
         /\ Framed(h, p, d)[1] = h
         /\ SubSeq(Framed(h, p, d), 2, Len(p) + 1) = p
         /\ SubSeq(Framed(h, p, d), Len(p) + 2, Len(Framed(h, p, d))) = d
<1> DEFINE s == Framed(h, p, d)
<1>0. Len(p) \in Nat /\ Len(d) \in Nat
  BY LenProperties
<1>1. <<h>> \in Seq(S) /\ Len(<<h>>) = 1 /\ <<h>>[1] = h
  OBVIOUS
<1>2. /\ <<h>> \o p \in Seq(S) /\ Len(<<h>> \o p) = 1 + Len(p)
      /\ \A i \in 1 .. 1 + Len(p) : (<<h>> \o p)[i] = IF i <= 1 THEN <<h>>[i] ELSE p[i - 1]
  BY <1>1, ConcatProperties
<1>3. /\ s \in Seq(S) /\ Len(s) = 1 + Len(p) + Len(d)
      /\ \A i \in 1 .. 1 + Len(p) + Len(d) :
           s[i] = IF i <= 1 + Len(p) THEN (<<h>> \o p)[i] ELSE d[i - (1 + Len(p))]
  BY <1>2, ConcatProperties DEF Framed
<1>4. s[1] = h
  BY <1>0, <1>1, <1>2, <1>3
<1>5. ASSUME NEW i \in 1 .. Len(p) PROVE s[i + 1] = p[i]
  <2>1. i + 1 \in 1 .. 1 + Len(p) /\ i + 1 \in 1 .. 1 + Len(p) + Len(d) /\ i + 1 <= 1 + Len(p)
        /\ ~(i + 1 <= 1) /\ i + 1 - 1 = i
    BY <1>0
  <2> QED BY <2>1, <1>2, <1>3
<1>6. ASSUME NEW i \in 1 .. Len(d) PROVE s[i + 1 + Len(p)] = d[i]
  <2>1. i + 1 + Len(p) \in 1 .. 1 + Len(p) + Len(d) /\ ~(i + 1 + Len(p) <= 1 + Len(p))
        /\ i + 1 + Len(p) - (1 + Len(p)) = i
    BY <1>0
  <2> QED BY <2>1, <1>3
<1> HIDE DEF s
<1>7. \A i \in 1 .. Len(s) : s[i] \in S
  BY <1>3, ElementOfSeq
<1>8. SubSeq(s, 2, Len(p) + 1) = p
  <2>1. \A i \in 2 .. Len(p) + 1 : s[i] \in S
    BY <1>0, <1>3, <1>7
  <2>2. 2 \in Int /\ Len(p) + 1 \in Int
    BY <1>0
  <2>3. /\ SubSeq(s, 2, Len(p) + 1) \in Seq(S)
        /\ Len(SubSeq(s, 2, Len(p) + 1)) = IF 2 <= Len(p) + 1 THEN Len(p) + 1 - 2 + 1 ELSE 0
        /\ \A i \in 1 .. Len(p) + 1 - 2 + 1 : SubSeq(s, 2, Len(p) + 1)[i] = s[2 + i - 1]
    BY <2>1, <2>2, SubSeqProperties
  <2>4. Len(SubSeq(s, 2, Len(p) + 1)) = Len(p)
    BY <1>0, <2>3
  <2>5. ASSUME NEW i \in 1 .. Len(p) PROVE SubSeq(s, 2, Len(p) + 1)[i] = p[i]
    <3>1. i \in 1 .. Len(p) + 1 - 2 + 1 /\ 2 + i - 1 = i + 1
      BY <1>0
    <3> QED BY <3>1, <2>3, <1>5
  <2> QED BY <2>3, <2>4, <2>5, SeqEqual
<1>9. SubSeq(s, Len(p) + 2, Len(s)) = d
  <2> DEFINE r == SubSeq(s, Len(p) + 2, Len(s))
  <2>1. \A i \in Len(p) + 2 .. Len(s) : s[i] \in S
    BY <1>0, <1>3, <1>7
  <2>2. Len(p) + 2 \in Int /\ Len(s) \in Int
    BY <1>0, <1>3
  <2>3. /\ r \in Seq(S)
        /\ Len(r) = IF Len(p) + 2 <= Len(s) THEN Len(s) - (Len(p) + 2) + 1 ELSE 0
        /\ \A i \in 1 .. Len(s) - (Len(p) + 2) + 1 : r[i] = s[Len(p) + 2 + i - 1]
    BY <2>1, <2>2, SubSeqProperties
  <2> HIDE DEF r
  <2>4. Len(r) = Len(d)
    BY <1>0, <1>3, <2>3
  <2>5. ASSUME NEW i \in 1 .. Len(d) PROVE r[i] = d[i]
    <3>1. i \in 1 .. Len(s) - (Len(p) + 2) + 1 /\ Len(p) + 2 + i - 1 = i + 1 + Len(p)
      BY <1>0, <1>3
    <3> QED BY <3>1, <2>3, <1>6
  <2>6. r = d
    BY <2>3, <2>4, <2>5, SeqEqual
  <2> QED BY <2>6 DEF r
<1> QED BY <1>3, <1>4, <1>8, <1>9 DEF s

LEMMA FramedSome ==
  ASSUME NEW S, NEW h \in S, NEW p \in Seq(S), NEW d \in Seq(S)
  PROVE  Framed(h, p, d) # <<>>
<1>1. Len(Framed(h, p, d)) = 1 + Len(p) + Len(d)
  BY FramedIs
<1>2. Len(p) \in Nat /\ Len(d) \in Nat
  BY LenProperties
<1> QED BY <1>1, <1>2, EmptySeq

LEMMA FramedShifts ==
  ASSUME NEW S, NEW h \in S, NEW p \in Seq(S), NEW a \in Seq(S), NEW b \in Seq(S)
  PROVE  Framed(h, p \o a, b) = Framed(h, p, a \o b)
<1>1. <<h>> \in Seq(S) /\ <<h>> \o p \in Seq(S)
  <2>1. <<h>> \in Seq(S)
    OBVIOUS
  <2> QED BY <2>1, ConcatProperties
<1>2. <<h>> \o (p \o a) = (<<h>> \o p) \o a
  BY <1>1, ConcatAssociative
<1>3. ((<<h>> \o p) \o a) \o b = (<<h>> \o p) \o (a \o b)
  <2>1. PICK c \in Seq(S) : c = <<h>> \o p
    BY <1>1
  <2>2. (c \o a) \o b = c \o (a \o b)
    BY ConcatAssociative
  <2> QED BY <2>1, <2>2
<1> QED BY <1>2, <1>3 DEF Framed

\* What is copied from the front of d to the end of p changes nothing together.
LEMMA FramedMoves ==
  ASSUME NEW S, NEW h \in S, NEW p \in Seq(S), NEW d \in Seq(S), NEW n \in Nat, n <= Len(d)
  PROVE  Framed(h, p \o SubSeq(d, 1, n), SubSeq(d, n + 1, Len(d))) = Framed(h, p, d)
<1>1. PICK a \in Seq(S) : a = SubSeq(d, 1, n)
  BY CutInTwo
<1>2. PICK b \in Seq(S) : b = SubSeq(d, n + 1, Len(d))
  BY CutInTwo
<1>3. a \o b = d
  BY <1>1, <1>2, CutInTwo
<1>4. Framed(h, p \o a, b) = Framed(h, p, a \o b)
  BY FramedShifts
<1> QED BY <1>1, <1>2, <1>3, <1>4

LEMMA HeadFirst ==
  ASSUME NEW S, NEW s \in Seq(S), s # <<>>
  PROVE  Framed(Head(s), <<>>, Tail(s)) = s
<1>1. Len(s) \in Nat \ {0}
  BY EmptySeq
<1>2. 1 \in 1 .. Len(s) /\ Len(s) \in 1 .. Len(s)
  BY <1>1
<1>3. SubSeq(s, 1, Len(s)) = <<s[1]>> \o SubSeq(s, 1 + 1, Len(s))
  BY <1>2, SubSeqRecursiveFirst
<1>4. Tail(s) = SubSeq(s, 2, Len(s)) /\ Head(s) = s[1] /\ s[1] \in S
  BY <1>2, TailIsSubSeq, ElementOfSeq
<1>5. <<s[1]>> \in Seq(S)
  BY <1>4
<1>6. <<s[1]>> \o <<>> = <<s[1]>>
  BY <1>5, ConcatEmptySeq
<1> QED BY <1>3, <1>4, <1>6, SubSeqFull DEF Framed

LEMMA Prefix ==
  ASSUME NEW S, NEW s \in Seq(S), NEW t \in Seq(S)
  PROVE  /\ s \o t \in Seq(S) /\ Len(s \o t) >= Len(s)
         /\ SubSeq(s \o t, 1, Len(s)) = s
<1>1. Len(s) \in Nat /\ Len(t) \in Nat
  BY LenProperties
<1>2. s \o t \in Seq(S) /\ Len(s \o t) = Len(s) + Len(t)
  BY ConcatProperties
<1>3. SubSeq(s \o t, 1, Len(s)) = s
  <2>1. CASE Len(s) = 0
    BY <2>1, SubSeqEmpty, EmptySeq
  <2>2. CASE Len(s) # 0
    <3>1. 1 \in 1 .. Len(s) /\ Len(s) \in 1 .. Len(s)
      BY <1>1, <2>2
    <3> QED BY <3>1, SubSeqOfConcat1, SubSeqFull
  <2> QED BY <2>1, <2>2
<1> QED BY <1>1, <1>2, <1>3

-----------------------------------------------------------------------------
(* The invariant is inductive.                                             *)

LEMMA InitInv == Init => IInv
<1> SUFFICES ASSUME Init PROVE IInv
  OBVIOUS
<1>1. <<>> \in Bytes /\ <<>> \in Seq(Bytes) /\ Len(<<>>) = 0
  BY EmptyBytes
<1>2. TypeOK
  <2>1. 0 \in 0 .. Low - 1 /\ 0 \in 0 .. MaxPacketSize /\ 0 \in 0 .. MaxBytes
    BY ReceiverAssumption
  <2> QED BY <1>1, <2>1 DEF Init, TypeOK
<1>3. ~Piecing /\ ~InPacket
  BY DEF Init, Piecing, InPacket
<1> QED BY <1>1, <1>2, <1>3, ReceiverAssumption
        DEF Init, IInv, LineInv, PacketInv, RoomInv, BufferInv

LEMMA DigitsType ==
  ASSUME NEW b \in Byte
  PROVE  Digits(b) \in 0 .. Low - 1
BY ReceiverAssumption DEF Digits

\* Types in the words of the sequence facts.
LEMMA TypeFacts ==
  ASSUME TypeOK
  PROVE  /\ data \in Seq(Byte) /\ Len(data) \in Nat /\ Len(data) <= MaxBytes
         /\ packet \in Seq(Byte) /\ Len(packet) \in Nat /\ Len(packet) <= MaxBytes
         /\ packet_length \in Nat /\ left_to_read \in Nat /\ left_to_read <= MaxPacketSize
         /\ received \in Nat /\ received <= MaxBytes
<1>1. data \in Seq(Byte) /\ Len(data) <= MaxBytes /\ packet \in Seq(Byte) /\ Len(packet) <= MaxBytes
  BY BytesAre DEF TypeOK
<1>2. packet_length \in Nat /\ left_to_read \in Nat /\ left_to_read <= MaxPacketSize
      /\ received \in Nat /\ received <= MaxBytes
  BY ReceiverAssumption DEF TypeOK
<1> QED BY <1>1, <1>2, LenProperties

LEMMA ConsumeKeeps ==
  ASSUME IInv, Recv
  PROVE  IInv'
<1> USE DEF IInv
<1>0. PICK n \in 1 .. MaxRecv : \E bytes \in [1 .. n -> Byte] : Consume(bytes)
  BY DEF Recv
<1>1. PICK bytes \in [1 .. n -> Byte] : Consume(bytes)
  BY <1>0
<1>2. bytes \in Seq(Byte) /\ Len(bytes) \in Nat /\ bytes # <<>>
  <2>1. n \in Nat
    BY ReceiverAssumption
  <2>2. bytes \in Seq(Byte)
    BY <2>1, SeqDef
  <2> QED BY <1>1, <2>2, LenProperties DEF Consume
<1>3. data = <<>> /\ pc = "idle" /\ data' = bytes /\ received' = received + Len(bytes)
      /\ received + Len(bytes) <= MaxBytes
      /\ UNCHANGED <<line, packet_length, left_to_read, packet, should_return, head, dispatched>>
  BY <1>1 DEF Consume, LineInv, state
<1>4. received \in Nat /\ Len(packet) \in Nat /\ Len(data) = 0 /\ MaxBytes \in Nat
  BY <1>3, TypeFacts, EmptySeq, ReceiverAssumption
<1>5. CASE line = "start"
  <2>1. pc' = "length" /\ ~Piecing' /\ ~InPacket'
    BY <1>1, <1>3, <1>5 DEF Consume, Resume, Piecing, InPacket
  <2>2. TypeOK'
    <3>1. data' \in Bytes /\ received' \in 0 .. MaxBytes
      BY <1>2, <1>3, <1>4, BytesAre
    <3> QED BY <1>3, <2>1, <3>1 DEF TypeOK
  <2>3. LineInv' /\ PacketInv'
    BY <1>2, <1>3, <1>5, <2>1 DEF LineInv, PacketInv
  <2>4. RoomInv'
    BY <1>2, <1>3, <1>4, <2>1 DEF RoomInv
  <2>5. BufferInv'
    BY <1>3, <1>5, <2>1 DEF BufferInv, Piecing
  <2> QED BY <2>2, <2>3, <2>4, <2>5
<1>6. CASE line = "copy"
  <2>1. pc' = "copy" /\ Piecing /\ Piecing' /\ InPacket /\ InPacket'
    BY <1>1, <1>3, <1>6 DEF Consume, Resume, Piecing, InPacket
  <2>2. TypeOK'
    <3>1. data' \in Bytes /\ received' \in 0 .. MaxBytes
      BY <1>2, <1>3, <1>4, BytesAre
    <3> QED BY <1>3, <2>1, <3>1 DEF TypeOK
  <2>3. LineInv' /\ PacketInv'
    BY <1>2, <1>3, <1>6, <2>1 DEF LineInv, PacketInv
  <2>4. RoomInv'
    BY <1>2, <1>3, <1>4, <2>1 DEF RoomInv
  <2>5. BufferInv'
    BY <1>3, <1>6, <2>1 DEF BufferInv
  <2> QED BY <2>2, <2>3, <2>4, <2>5
<1> QED BY <1>5, <1>6 DEF TypeOK

LEMMA FetchLengthKeeps ==
  ASSUME IInv, FetchLength
  PROVE  IInv'
<1> USE DEF IInv
<1>1. pc = "length" /\ pc' = "body" /\ line = "start" /\ data # <<>>
      /\ packet_length' = Digits(head') /\ head' = Head(data) /\ data' = Tail(data)
      /\ UNCHANGED <<line, left_to_read, packet, should_return, received, dispatched>>
  BY DEF FetchLength, LineInv
<1>2. data \in Seq(Byte) /\ Len(data) \in Nat /\ Len(data) <= MaxBytes /\ received \in Nat
  BY TypeFacts
<1>3. head' \in Byte /\ data' \in Seq(Byte) /\ Len(data') = Len(data) - 1
  BY <1>1, <1>2, HeadTailProperties
<1>4. ~Piecing /\ ~Piecing'
  BY <1>1 DEF Piecing
<1>5. TypeOK'
  <2>1. data' \in Bytes
    BY <1>2, <1>3, BytesAre, ReceiverAssumption
  <2>2. packet_length' \in 0 .. Low - 1
    BY <1>1, <1>3, DigitsType
  <2> QED BY <1>1, <1>3, <2>1, <2>2 DEF TypeOK
<1>6. LineInv' /\ PacketInv' /\ BufferInv'
  BY <1>1, <1>3, <1>4 DEF LineInv, PacketInv, BufferInv, TypeOK
<1>7. RoomInv'
  BY <1>1, <1>2, <1>3, <1>4 DEF RoomInv
<1> QED BY <1>5, <1>6, <1>7

LEMMA FastPathKeeps ==
  ASSUME IInv, FastPath
  PROVE  IInv'
<1> USE DEF IInv
<1>1. pc = "body" /\ pc' = "dispatch" /\ line = "start" /\ packet_length <= Len(data)
      /\ packet' = SubSeq(data, 1, packet_length)
      /\ data' = SubSeq(data, packet_length + 1, Len(data))
      /\ UNCHANGED <<line, packet_length, left_to_read, should_return, head, received, dispatched>>
  BY DEF FastPath, LineInv
<1>2. data \in Seq(Byte) /\ Len(data) \in Nat /\ Len(data) <= MaxBytes /\ received \in Nat
      /\ packet_length \in Nat
  BY TypeFacts
<1>3. packet' \in Seq(Byte) /\ Len(packet') = packet_length
      /\ data' \in Seq(Byte) /\ Len(data') = Len(data) - packet_length
  BY <1>1, <1>2, CutInTwo
<1>4. ~Piecing /\ ~Piecing' /\ InPacket
  BY <1>1 DEF Piecing, InPacket
<1>5. TypeOK'
  <2>1. Len(data') <= MaxBytes /\ Len(packet') <= MaxBytes
    <3> HIDE DEF IInv
    <3> QED BY <1>1, <1>2, <1>3, ReceiverAssumption
  <2>2. data' \in Bytes /\ packet' \in Bytes
    BY <1>3, <2>1, BytesAre
  <2> QED BY <1>1, <2>2 DEF TypeOK
<1>6. LineInv' /\ PacketInv' /\ BufferInv'
  BY <1>1, <1>3, <1>4 DEF LineInv, PacketInv, BufferInv
<1>7. RoomInv'
  <2>1. Len(data) + 1 <= received
    BY <1>1 DEF RoomInv
  <2>2. Len(data') <= received /\ Len(packet') + Len(data') + 1 <= received
    <3> HIDE DEF IInv
    <3>1. 0 \in Nat /\ 0 + Len(data) + 1 <= received
      BY <1>2, <2>1
    <3>2. Len(data) - packet_length <= received
          /\ (0 + packet_length) + (Len(data) - packet_length) + 1 <= received
      BY <1>1, <1>2, <3>1, Moved
    <3> QED BY <1>2, <1>3, <3>2
  <2> QED BY <1>1, <1>4, <2>2 DEF RoomInv
<1> QED BY <1>5, <1>6, <1>7

LEMMA SlowPathKeeps ==
  ASSUME IInv, SlowPath
  PROVE  IInv'
<1> USE DEF IInv
<1>1. pc = "body" /\ pc' = "copy" /\ line = "start" /\ packet_length > Len(data)
      /\ packet_length <= MaxPacketSize /\ packet' = <<>> /\ should_return' = TRUE
      /\ left_to_read' = packet_length
      /\ UNCHANGED <<line, data, packet_length, head, received, dispatched>>
  BY DEF SlowPath, LineInv
<1>2. data \in Seq(Byte) /\ Len(data) \in Nat /\ received \in Nat /\ packet_length \in Nat
  BY TypeFacts
<1>3. packet' \in Bytes /\ Len(packet') = 0
  BY <1>1, EmptyBytes
<1>4. Piecing' /\ InPacket
  BY <1>1 DEF Piecing, InPacket
<1>5. TypeOK'
  <2>1. left_to_read' \in 0 .. MaxPacketSize
    BY <1>1, <1>2, ReceiverAssumption
  <2> QED BY <1>1, <1>3, <2>1 DEF TypeOK
<1>6. LineInv' /\ BufferInv'
  BY <1>1, <1>4 DEF LineInv, BufferInv
<1>7. PacketInv'
  BY <1>1, <1>2, <1>3, <1>4 DEF PacketInv
<1>8. RoomInv'
  BY <1>1, <1>2, <1>3, <1>4 DEF RoomInv
<1> QED BY <1>5, <1>6, <1>7, <1>8

\* Giving up, for a packet that is too long or refused.
LEMMA GivingUpKeeps ==
  ASSUME IInv, TooLong \/ \E end \in {"protocol_error", "fatal"} : Refused(end)
  PROVE  IInv'
<1> USE DEF IInv
<1>1. /\ pc' \in {"protocol_error", "fatal"} /\ data' = <<>> /\ line' = "start"
      /\ should_return' = FALSE /\ packet' \in {packet, <<>>}
      /\ dispatched' \in {dispatched, Append(dispatched, packet)}
      /\ UNCHANGED <<packet_length, left_to_read, head, received>>
  <2>1. CASE TooLong
    <3>1. should_return = FALSE
      BY <2>1 DEF TooLong, BufferInv, Piecing
    <3> QED BY <2>1, <3>1 DEF TooLong
  <2>2. CASE \E end \in {"protocol_error", "fatal"} : Refused(end)
    BY <2>2 DEF Refused
  <2> QED BY <2>1, <2>2
<1>2. <<>> \in Bytes /\ Len(<<>>) = 0
  BY EmptyBytes
<1>3. dispatched' \in Seq(Bytes)
  BY <1>1, AppendProperties DEF TypeOK
<1>4. ~Piecing' /\ ~InPacket'
  BY <1>1 DEF Piecing, InPacket
<1>5. TypeOK'
  BY <1>1, <1>2, <1>3 DEF TypeOK
<1>6. LineInv' /\ PacketInv' /\ BufferInv'
  BY <1>1, <1>4 DEF LineInv, PacketInv, BufferInv
<1>7. RoomInv'
  BY <1>1, <1>2, <1>4, TypeFacts DEF RoomInv
<1> QED BY <1>5, <1>6, <1>7

\* What a turn of the copying loop takes.
LEMMA CopyTakes ==
  ASSUME IInv, Copy
  PROVE  /\ InPacket /\ Piecing /\ pc = "copy"
         /\ CanCopy \in Nat /\ CanCopy <= Len(data) /\ CanCopy <= left_to_read
         /\ CanCopy = left_to_read \/ CanCopy = Len(data)
         /\ packet' = packet \o SubSeq(data, 1, CanCopy)
         /\ data' = SubSeq(data, CanCopy + 1, Len(data))
         /\ left_to_read' = left_to_read - CanCopy
         /\ SubSeq(data, 1, CanCopy) \in Seq(Byte)
         /\ packet' \in Seq(Byte) /\ Len(packet') = Len(packet) + CanCopy
         /\ data' \in Seq(Byte) /\ Len(data') = Len(data) - CanCopy
         /\ UNCHANGED <<packet_length, should_return, head, received, dispatched>>
<1> USE DEF IInv
<1>1. pc = "copy" /\ InPacket /\ Piecing
  BY DEF Copy, InPacket, Piecing
<1>2. /\ data \in Seq(Byte) /\ Len(data) \in Nat
      /\ packet \in Seq(Byte) /\ Len(packet) \in Nat
      /\ left_to_read \in Nat
  BY TypeFacts
<1>3. /\ CanCopy \in Nat /\ CanCopy <= Len(data) /\ CanCopy <= left_to_read
      /\ CanCopy = left_to_read \/ CanCopy = Len(data)
  BY <1>2 DEF CanCopy, Smaller
<1>4. SubSeq(packet, 1, packet_length - left_to_read) = packet
  BY <1>1, <1>2, SubSeqFull DEF PacketInv
<1>5. /\ packet' = packet \o SubSeq(data, 1, CanCopy)
      /\ data' = SubSeq(data, CanCopy + 1, Len(data))
      /\ left_to_read' = left_to_read - CanCopy
      /\ UNCHANGED <<packet_length, should_return, head, received, dispatched>>
  BY <1>4 DEF Copy, Fill
<1> HIDE DEF IInv
<1>6. /\ SubSeq(data, 1, CanCopy) \in Seq(Byte) /\ Len(SubSeq(data, 1, CanCopy)) = CanCopy
      /\ data' \in Seq(Byte) /\ Len(data') = Len(data) - CanCopy
  BY <1>2, <1>3, <1>5, CutInTwo
<1>7. packet' \in Seq(Byte) /\ Len(packet') = Len(packet) + CanCopy
  BY <1>2, <1>5, <1>6, ConcatProperties
<1> QED BY <1>1, <1>3, <1>5, <1>6, <1>7

LEMMA CopyKeeps ==
  ASSUME IInv, Copy
  PROVE  IInv'
<1>1. /\ InPacket /\ Piecing /\ pc = "copy"
      /\ CanCopy \in Nat /\ CanCopy <= Len(data) /\ CanCopy <= left_to_read
      /\ CanCopy = left_to_read \/ CanCopy = Len(data)
      /\ left_to_read' = left_to_read - CanCopy
      /\ packet' \in Seq(Byte) /\ Len(packet') = Len(packet) + CanCopy
      /\ data' \in Seq(Byte) /\ Len(data') = Len(data) - CanCopy
      /\ UNCHANGED <<packet_length, should_return, head, received, dispatched>>
  BY CopyTakes
<1>2. /\ Len(data) \in Nat /\ Len(packet) \in Nat /\ received \in Nat
      /\ left_to_read \in Nat /\ left_to_read <= MaxPacketSize /\ MaxPacketSize \in Nat
      /\ packet_length \in Nat /\ received <= MaxBytes /\ MaxBytes \in Nat
  BY TypeFacts, ReceiverAssumption DEF IInv
<1>3. \/ left_to_read' = 0 /\ pc' = "dispatch" /\ line' = line
      \/ left_to_read' # 0 /\ pc' = "idle" /\ line' = "copy"
  BY DEF Copy
<1>4. /\ left_to_read \in 1 .. packet_length /\ Len(packet) = packet_length - left_to_read
      /\ head \in Byte /\ packet_length = Digits(head)
      /\ Len(packet) + Len(data) + 1 <= received
      /\ should_return = TRUE /\ packet_length <= MaxPacketSize
  BY <1>1 DEF IInv, PacketInv, RoomInv, BufferInv
<1> DEFINE k == CanCopy
<1> HIDE DEF k
<1>5. /\ k \in Nat /\ k <= Len(data) /\ k <= left_to_read /\ (k = left_to_read \/ k = Len(data))
      /\ left_to_read' = left_to_read - k
      /\ Len(packet') = Len(packet) + k /\ Len(data') = Len(data) - k
  BY <1>1 DEF k
<1>6. TypeOK'
  <2>1. left_to_read' \in 0 .. MaxPacketSize
    BY <1>2, <1>5
  <2>a. Len(data) - k <= received /\ Len(packet) + k <= received
    BY <1>2, <1>4, <1>5, Moved
  <2>2. Len(data') <= MaxBytes /\ Len(packet') <= MaxBytes
    BY <1>2, <1>5, <2>a
  <2>3. data' \in Bytes /\ packet' \in Bytes
    BY <1>1, <2>2, BytesAre
  <2> QED BY <1>1, <1>3, <2>1, <2>3 DEF IInv, TypeOK
<1>7. LineInv'
  <2>1. left_to_read' # 0 => Len(data') = 0
    BY <1>2, <1>5
  <2>2. left_to_read' # 0 => data' = <<>>
    BY <1>1, <2>1, EmptySeq
  <2> QED BY <1>3, <2>2 DEF LineInv
<1>8. PacketInv'
  <2>1. left_to_read' # 0 => left_to_read' \in 1 .. packet_length
    BY <1>2, <1>4, <1>5
  <2>2. Len(packet') = packet_length - left_to_read'
    BY <1>2, <1>4, <1>5
  <2>3. left_to_read' = 0 => Len(packet') = packet_length
    BY <1>2, <2>2
  <2>4. Piecing' => left_to_read' # 0
    BY <1>3 DEF Piecing
  <2>5. pc' = "dispatch" => left_to_read' = 0
    BY <1>3
  <2> QED BY <1>1, <1>4, <2>1, <2>2, <2>3, <2>4, <2>5 DEF PacketInv
<1>9. RoomInv'
  <2>a. Len(data) - k <= received
        /\ (Len(packet) + k) + (Len(data) - k) + 1 <= received
    BY <1>2, <1>4, <1>5, Moved
  <2>1. Len(data') <= received /\ Len(packet') + Len(data') + 1 <= received
    BY <1>5, <2>a
  <2> QED BY <1>1, <1>3, <2>1 DEF RoomInv
<1>10. BufferInv'
  <2>1. Piecing' \/ pc' = "dispatch"
    BY <1>3 DEF Piecing
  <2> QED BY <1>1, <1>4, <2>1 DEF BufferInv
<1> QED BY <1>6, <1>7, <1>8, <1>9, <1>10 DEF IInv

LEMMA DispatchedKeeps ==
  ASSUME IInv, Dispatched
  PROVE  IInv'
<1> USE DEF IInv
<1>1. /\ pc' = IF data = <<>> THEN "idle" ELSE "length"
      /\ dispatched' = Append(dispatched, packet)
      /\ should_return' = FALSE /\ packet' = <<>> /\ line' = "start"
      /\ UNCHANGED <<data, packet_length, left_to_read, head, received>>
  BY DEF Dispatched
<1>2. <<>> \in Bytes
  BY EmptyBytes
<1>3. dispatched' \in Seq(Bytes)
  BY <1>1, AppendProperties DEF TypeOK
<1>4. ~Piecing' /\ ~InPacket' /\ pc' \in {"idle", "length"}
  BY <1>1 DEF Piecing, InPacket
<1>5. TypeOK'
  BY <1>1, <1>2, <1>3, <1>4 DEF TypeOK
<1>6. LineInv' /\ PacketInv' /\ BufferInv' /\ RoomInv'
  BY <1>1, <1>4 DEF LineInv, PacketInv, BufferInv, RoomInv
<1> QED BY <1>5, <1>6

\* The invariant that everything below follows from.
THEOREM Invariance == Spec => []IInv
<1>1. IInv /\ [Next]_vars => IInv'
  <2> SUFFICES ASSUME IInv, [Next]_vars PROVE IInv'
    OBVIOUS
  <2>1. CASE UNCHANGED vars
    BY <2>1 DEF vars, state, IInv, TypeOK, LineInv, PacketInv, RoomInv, BufferInv,
       Piecing, InPacket
  <2>2. CASE Recv
    BY <2>2, ConsumeKeeps
  <2>3. CASE FetchLength
    BY <2>3, FetchLengthKeeps
  <2>4. CASE FastPath
    BY <2>4, FastPathKeeps
  <2>5. CASE SlowPath
    BY <2>5, SlowPathKeeps
  <2>6. CASE TooLong \/ \E end \in {"protocol_error", "fatal"} : Refused(end)
    BY <2>6, GivingUpKeeps
  <2>7. CASE Copy
    BY <2>7, CopyKeeps
  <2>8. CASE Dispatched
    BY <2>8, DispatchedKeeps
  <2> QED BY <2>1, <2>2, <2>3, <2>4, <2>5, <2>6, <2>7, <2>8 DEF Next, Step
<1> QED BY InitInv, <1>1, PTL DEF Spec

-----------------------------------------------------------------------------
(* What can be seen from outside.                                          *)

\* The undelivered bytes, by the place of the call.
View ==
  /\ pc \in {"protocol_error", "fatal"} => Undelivered = <<>>
  /\ ~InPacket /\ ~Ended => Undelivered = data
  /\ pc = "body" => Undelivered = Framed(head, <<>>, data)
  /\ Piecing \/ pc = "dispatch" => Undelivered = Framed(head, packet, data)

LEMMA ViewNow == IInv => View
<1> SUFFICES ASSUME IInv PROVE View
  OBVIOUS
<1>0. data \in Seq(Byte) /\ packet \in Seq(Byte)
  BY TypeFacts DEF IInv
<1>1. ASSUME pc \in {"protocol_error", "fatal"} PROVE Undelivered = <<>>
  BY <1>1 DEF Undelivered, Ended
<1>2. ASSUME ~InPacket, ~Ended PROVE Undelivered = data
  <2>1. Undelivered = <<>> \o data
    BY <1>2 DEF Undelivered
  <2> QED BY <1>0, <2>1, ConcatEmptySeq
<1>3. ASSUME pc = "body" PROVE Undelivered = Framed(head, <<>>, data)
  BY <1>3 DEF Undelivered, Ended, InPacket, Framed
<1>4. ASSUME Piecing \/ pc = "dispatch" PROVE Undelivered = Framed(head, packet, data)
  <2>1. ~Ended /\ InPacket /\ pc # "body"
    BY <1>4 DEF Ended, InPacket, Piecing
  <2>2. (IF pc = "dispatch" THEN Len(packet) ELSE packet_length - left_to_read) = Len(packet)
    BY <1>4 DEF IInv, PacketInv
  <2>3. Undelivered = (<<head>> \o SubSeq(packet, 1, Len(packet))) \o data
    BY <2>1, <2>2 DEF Undelivered
  <2> QED BY <1>0, <2>3, SubSeqFull DEF Framed
<1> QED BY <1>1, <1>2, <1>3, <1>4 DEF View

LEMMA ViewThen == IInv' => View'
BY ViewNow, PTL

\* A recv adds its bytes at the end of what is undelivered.
LEMMA ConsumeArrives ==
  ASSUME IInv, IInv', Recv
  PROVE  Frames!Arrive
<1>0. PICK n \in 1 .. MaxRecv : \E bytes \in [1 .. n -> Byte] : Consume(bytes)
  BY DEF Recv
<1>1. PICK bytes \in [1 .. n -> Byte] : Consume(bytes)
  BY <1>0
<1>2. /\ pc = "idle" /\ data = <<>> /\ data' = bytes /\ pc' = Resume(line)
      /\ UNCHANGED <<line, packet, head, dispatched>>
  BY <1>1 DEF Consume, IInv, LineInv, state
<1>3. data' \in Seq(Byte) /\ packet \in Seq(Byte) /\ <<>> \in Seq(Byte)
  <2>1. n \in Nat
    BY ReceiverAssumption
  <2>2. bytes \in Seq(Byte)
    BY <2>1, SeqDef
  <2> QED BY <1>2, <2>2, TypeFacts, EmptySeq DEF IInv
<1>4. Undelivered \in Seq(Byte) /\ Undelivered' = Undelivered \o data'
  <2>1. CASE line = "copy"
    <3>1. Piecing /\ Piecing' /\ InPacket
      BY <1>2, <2>1 DEF Piecing, InPacket, Resume
    <3>2. Undelivered = Framed(head, packet, <<>>) /\ Undelivered' = Framed(head, packet, data')
      BY <1>2, <3>1, ViewNow, ViewThen DEF View
    <3>3. head \in Byte
      BY <3>1 DEF IInv, PacketInv
    <3>4. <<head>> \o packet \in Seq(Byte)
      BY <1>3, <3>3, ConcatProperties
    <3> QED BY <1>3, <3>2, <3>4, ConcatEmptySeq DEF Framed
  <2>2. CASE line = "start"
    <3>1. ~InPacket /\ ~Ended /\ ~InPacket' /\ ~Ended'
      BY <1>2, <2>2 DEF InPacket, Ended, Resume
    <3>2. Undelivered = <<>> /\ Undelivered' = data'
      BY <1>2, <3>1, ViewNow, ViewThen DEF View
    <3> QED BY <1>3, <3>2, ConcatEmptySeq
  <2> QED BY <2>1, <2>2 DEF IInv, TypeOK
<1> DEFINE u == Undelivered
<1>5. ~Ended /\ Ended' = Ended
  BY <1>2 DEF Ended, Resume
<1>6. /\ u \o data' \in Seq(Byte) /\ Len(u \o data') >= Len(u)
      /\ SubSeq(u \o data', 1, Len(u)) = u
  BY <1>3, <1>4, Prefix
<1> QED BY <1>2, <1>4, <1>5, <1>6 DEF Frames!Arrive

\* Reading the length, finding the packet in the recv, taking a buffer and copying
\* into it do not change what is undelivered.
LEMMA WorkHides ==
  ASSUME IInv, IInv', FetchLength \/ FastPath \/ SlowPath \/ Copy
  PROVE  UNCHANGED <<Undelivered, dispatched, Ended>>
<1>0. /\ data \in Seq(Byte) /\ Len(data) \in Nat /\ packet \in Seq(Byte) /\ packet_length \in Nat
      /\ <<>> \in Seq(Byte)
  BY TypeFacts, EmptySeq DEF IInv
<1>1. CASE FetchLength
  <2>1. /\ pc = "length" /\ pc' = "body" /\ line = "start" /\ data # <<>>
        /\ head' = Head(data) /\ data' = Tail(data) /\ dispatched' = dispatched
    BY <1>1 DEF FetchLength, IInv, LineInv
  <2>2. Undelivered = data /\ Undelivered' = Framed(head', <<>>, data')
    BY <2>1, ViewNow, ViewThen DEF View, InPacket, Ended
  <2>3. Framed(head', <<>>, data') = data
    BY <1>0, <2>1, HeadFirst
  <2> QED BY <2>1, <2>2, <2>3 DEF Ended
<1>2. CASE FastPath
  <2>1. /\ pc = "body" /\ pc' = "dispatch" /\ packet_length <= Len(data)
        /\ packet' = SubSeq(data, 1, packet_length)
        /\ data' = SubSeq(data, packet_length + 1, Len(data))
        /\ head' = head /\ dispatched' = dispatched
    BY <1>2 DEF FastPath
  <2>2. Undelivered = Framed(head, <<>>, data) /\ Undelivered' = Framed(head, packet', data')
    BY <2>1, ViewNow, ViewThen DEF View
  <2>3. head \in Byte
    BY <2>1 DEF IInv, PacketInv, InPacket
  <2>4. Framed(head, <<>> \o packet', data') = Framed(head, <<>>, data)
    BY <1>0, <2>1, <2>3, FramedMoves
  <2>5. <<>> \o packet' = packet'
    BY <1>0, <2>1, CutInTwo, ConcatEmptySeq
  <2> QED BY <2>1, <2>2, <2>4, <2>5 DEF Ended
<1>3. CASE SlowPath
  <2>1. /\ pc = "body" /\ pc' = "copy" /\ packet' = <<>>
        /\ data' = data /\ head' = head /\ dispatched' = dispatched
    BY <1>3 DEF SlowPath
  <2>2. Undelivered = Framed(head, <<>>, data) /\ Undelivered' = Framed(head, <<>>, data)
    BY <2>1, ViewNow, ViewThen DEF View, Piecing
  <2> QED BY <2>1, <2>2 DEF Ended
<1>4. CASE Copy
  <2>1. /\ InPacket /\ Piecing /\ pc = "copy"
        /\ CanCopy \in Nat /\ CanCopy <= Len(data)
        /\ packet' = packet \o SubSeq(data, 1, CanCopy)
        /\ data' = SubSeq(data, CanCopy + 1, Len(data))
        /\ head' = head /\ dispatched' = dispatched
    BY <1>4, CopyTakes
  <2>2. (pc' = "idle" /\ line' = "copy") \/ pc' = "dispatch"
    BY <1>4 DEF Copy
  <2>3. Undelivered = Framed(head, packet, data) /\ Undelivered' = Framed(head, packet', data')
    BY <2>1, <2>2, ViewNow, ViewThen DEF View, Piecing
  <2>4. head \in Byte
    BY <2>1 DEF IInv, PacketInv
  <2> DEFINE k == CanCopy
  <2> HIDE DEF k
  <2>5. Framed(head, packet \o SubSeq(data, 1, k), SubSeq(data, k + 1, Len(data)))
          = Framed(head, packet, data)
    BY <1>0, <2>1, <2>4, FramedMoves DEF k
  <2> QED BY <2>1, <2>2, <2>3, <2>5 DEF Ended, k
<1> QED BY <1>1, <1>2, <1>3, <1>4

\* A packet that is dispatched is the oldest one of the stream and all of it.
LEMMA WholePacket ==
  ASSUME IInv, pc = "dispatch"
  PROVE  /\ Undelivered # <<>> /\ Frames!FrameReady /\ ~Ended
         /\ packet = SubSeq(Undelivered, 2, Frames!FrameLength + 1)
         /\ data = SubSeq(Undelivered, Frames!FrameLength + 2, Len(Undelivered))
<1>1. /\ data \in Seq(Byte) /\ Len(data) \in Nat /\ packet \in Seq(Byte) /\ Len(packet) \in Nat
  BY TypeFacts DEF IInv
<1>2. head \in Byte /\ Len(packet) = Digits(head)
  BY DEF IInv, PacketInv, InPacket
<1>3. Undelivered = Framed(head, packet, data)
  BY ViewNow DEF View
<1> DEFINE u == Undelivered
           f == Framed(head, packet, data)
<1>a. /\ f \in Seq(Byte) /\ Len(f) = 1 + Len(packet) + Len(data) /\ f[1] = head
      /\ SubSeq(f, 2, Len(packet) + 1) = packet
      /\ SubSeq(f, Len(packet) + 2, Len(f)) = data
  <2>1. head \in Byte /\ packet \in Seq(Byte) /\ data \in Seq(Byte)
    BY <1>1, <1>2
  <2>2. f \in Seq(Byte) /\ f[1] = head
    BY ONLY <2>1, FramedIs
  <2>3. Len(f) = 1 + Len(packet) + Len(data)
    BY ONLY <2>1, FramedIs
  <2>4. SubSeq(f, 2, Len(packet) + 1) = packet
    BY ONLY <2>1, FramedIs
  <2>5. SubSeq(f, Len(packet) + 2, Len(f)) = data
    BY ONLY <2>1, FramedIs
  <2> QED BY <2>2, <2>3, <2>4, <2>5
<1>4. /\ u \in Seq(Byte) /\ Len(u) = 1 + Len(packet) + Len(data) /\ u[1] = head
      /\ SubSeq(u, 2, Len(packet) + 1) = packet
      /\ SubSeq(u, Len(packet) + 2, Len(u)) = data
  <2> HIDE DEF f
  <2>1. u = f
    BY <1>3 DEF f
  <2> QED BY <1>a, <2>1
<1>5. Frames!FrameLength = Len(packet)
  BY <1>2, <1>4 DEF Frames!FrameLength
<1>6. u # <<>> /\ Len(u) > Len(packet)
  <2> HIDE DEF u
  <2> QED BY <1>1, <1>4, EmptySeq
<1> QED BY <1>4, <1>5, <1>6 DEF Frames!FrameReady, Ended

LEMMA DispatchedDelivers ==
  ASSUME IInv, IInv', Dispatched
  PROVE  Frames!Deliver
<1>1. /\ pc = "dispatch" /\ pc' \in {"idle", "length"} /\ line' = "start"
      /\ dispatched' = Append(dispatched, packet) /\ data' = data
  BY DEF Dispatched
<1>2. Undelivered' = data
  BY <1>1, ViewThen DEF View, InPacket, Ended
<1> QED BY <1>1, <1>2, WholePacket DEF Frames!Deliver, Ended

LEMMA RefusedBreaks ==
  ASSUME IInv, IInv', NEW end \in {"protocol_error", "fatal"}, Refused(end)
  PROVE  Frames!Break
<1>1. /\ pc = "dispatch" /\ pc' = end /\ dispatched' = Append(dispatched, packet)
  BY DEF Refused
<1>2. Undelivered' = <<>> /\ Ended' = TRUE
  BY <1>1, ViewThen DEF View, Ended
<1> QED BY <1>1, <1>2, WholePacket DEF Frames!Break

LEMMA TooLongBreaks ==
  ASSUME IInv, IInv', TooLong
  PROVE  Frames!Break
<1>1. pc = "body" /\ pc' = "fatal" /\ dispatched' = dispatched
  BY DEF TooLong
<1>2. Undelivered' = <<>> /\ Ended' = TRUE /\ ~Ended
  BY <1>1, ViewThen DEF View, Ended
<1>3. Undelivered = Framed(head, <<>>, data) /\ head \in Byte
  BY <1>1, ViewNow DEF View, IInv, PacketInv, InPacket
<1>4. data \in Seq(Byte) /\ Len(data) \in Nat /\ <<>> \in Seq(Byte) /\ Len(<<>>) = 0
  BY TypeFacts, EmptySeq DEF IInv
<1>5. Framed(head, <<>>, data) # <<>>
  BY <1>3, <1>4, FramedSome
<1>6. Undelivered # <<>>
  BY <1>3, <1>5
<1> QED BY <1>1, <1>2, <1>6 DEF Frames!Break

\* receiver.c hands on the packets of the stream of bytes, in order and whole, however
\* the recvs cut it and wherever its calls stop.
THEOREM ReceiverFramesStream == Spec => ImplementsFrameStream
<1>1. Init => Frames!StreamInit
  <2> SUFFICES ASSUME Init PROVE Undelivered = <<>> /\ dispatched = <<>> /\ Ended = FALSE
    BY DEF Frames!StreamInit
  <2>1. ~InPacket /\ ~Ended /\ data = <<>> /\ dispatched = <<>>
    BY DEF Init, InPacket, Ended
  <2> QED BY <2>1, InitInv, ViewNow DEF View
<1>2. IInv /\ IInv' /\ [Next]_vars => [Frames!StreamNext]_(Frames!streamVars)
  <2> SUFFICES ASSUME IInv, IInv', [Next]_vars
               PROVE  Frames!StreamNext \/ UNCHANGED <<Undelivered, dispatched, Ended>>
    BY DEF Frames!streamVars
  <2>1. CASE UNCHANGED vars
    BY <2>1 DEF vars, state, Undelivered, InPacket, Ended
  <2>2. CASE Recv
    BY <2>2, ConsumeArrives DEF Frames!StreamNext
  <2>3. CASE FetchLength \/ FastPath \/ SlowPath \/ Copy
    BY <2>3, WorkHides
  <2>4. CASE TooLong
    BY <2>4, TooLongBreaks DEF Frames!StreamNext
  <2>5. CASE Dispatched
    BY <2>5, DispatchedDelivers DEF Frames!StreamNext
  <2>6. CASE \E end \in {"protocol_error", "fatal"} : Refused(end)
    BY <2>6, RefusedBreaks DEF Frames!StreamNext
  <2> QED BY <2>1, <2>2, <2>3, <2>4, <2>5, <2>6 DEF Next, Step
<1> QED BY Invariance, <1>1, <1>2, PTL DEF Spec, ImplementsFrameStream, Frames!StreamSpec

\* Types are right; between calls no whole packet waits; and a buffer is held exactly
\* while a packet is being pieced together.
THEOREM ReceiverStaysConsistent == Spec => []ReceiverConsistent
<1>1. IInv => ReceiverConsistent
  <2> SUFFICES ASSUME IInv PROVE ReceiverConsistent
    OBVIOUS
  <2>1. NothingLeftBehind
    <3> SUFFICES ASSUME pc = "idle" PROVE ~Frames!FrameReady
      BY DEF NothingLeftBehind
    <3>0. /\ data = <<>> /\ data \in Seq(Byte) /\ Len(data) = 0
          /\ packet \in Seq(Byte) /\ Len(packet) \in Nat
          /\ packet_length \in Nat /\ left_to_read \in Nat
      BY TypeFacts, EmptySeq DEF IInv, LineInv
    <3>1. CASE line = "start"
      <4>1. Undelivered = <<>>
        BY <3>0, <3>1, ViewNow DEF View, InPacket, Ended
      <4> QED BY <4>1 DEF Frames!FrameReady
    <3>2. CASE line = "copy"
      <4>1. Undelivered = Framed(head, packet, data) /\ head \in Byte
            /\ packet_length = Digits(head) /\ left_to_read \in 1 .. packet_length
            /\ Len(packet) = packet_length - left_to_read
        BY <3>2, ViewNow DEF View, Piecing, InPacket, IInv, PacketInv
      <4>a. /\ Len(Framed(head, packet, data)) = 1 + Len(packet) + Len(data)
            /\ Framed(head, packet, data)[1] = head
        <5>1. head \in Byte /\ packet \in Seq(Byte) /\ data \in Seq(Byte)
          BY <3>0, <4>1
        <5> QED BY ONLY <5>1, FramedIs
      <4>2. Len(Undelivered) = 1 + Len(packet) + Len(data) /\ Undelivered[1] = head
        BY <4>1, <4>a
      <4>3. Frames!FrameLength = packet_length
        BY <4>1, <4>2 DEF Frames!FrameLength
      <4>4. ~(1 + Len(packet) + Len(data) > packet_length)
        BY <3>0, <4>1
      <4> QED BY <4>2, <4>3, <4>4 DEF Frames!FrameReady
    <3> QED BY <3>1, <3>2 DEF IInv, TypeOK
  <2>2. BufferWhilePiecing
    <3>1. pc \in {"idle", "length"} /\ line = "copy" => should_return = TRUE
      BY DEF IInv, BufferInv, LineInv, Piecing
    <3>2. pc \in {"idle", "length"} /\ line # "copy" => should_return = FALSE
      BY DEF IInv, BufferInv, Piecing
    <3>3. should_return = TRUE \/ should_return = FALSE
      BY DEF IInv, TypeOK
    <3>4. should_return = TRUE => packet_length <= MaxPacketSize
      BY DEF IInv, BufferInv
    <3> QED BY <3>1, <3>2, <3>3, <3>4, Zenon DEF BufferWhilePiecing
  <2> QED BY <2>1, <2>2 DEF IInv, ReceiverConsistent
<1> QED BY Invariance, <1>1, PTL
=============================================================================
