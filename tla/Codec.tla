------------------------------- MODULE Codec --------------------------------
(***************************************************************************)
(* src/minecraft/protocol/protocol.c and the readers and writers that      *)
(* scripts/protodef.py generates: a packet of ours is written field by     *)
(* field into a send buffer, or one of a peer is read field by field out   *)
(* of a receive buffer, its arrays into the tick arena. One behaviour is   *)
(* one packet. Reader and writer keep a cursor and the size that is left   *)
(* by hand, and the two must agree.                                        *)
(***************************************************************************)
EXTENDS Encoding, SequencesExt

CONSTANTS
  ToClient, ToServer,   \* layouts of packets: sequences of kinds of fields
  Budget,               \* max_send_packet_size, the packet id taken off
  Wire, MaxData,        \* bound: bytes a peer may make up, and how many
  ArenaSize,            \* max_size of the tick arena
  ArenaUsed,            \* what earlier packets of the tick may have taken of it
  Values(_)             \* bound: values that fields of each kind may have

ASSUME CodecAssumption ==
  /\ ToClient \cup ToServer \subseteq Seq(Kinds)
  /\ Budget \in Nat /\ MaxData \in Nat
  /\ Wire \subseteq Byte
  /\ ArenaSize \in Nat /\ ArenaUsed \subseteq 0 .. ArenaSize

\* Values have the types of their fields, and lengths are integers.
ASSUME ValuesAssumption ==
  /\ Values("varint") \subseteq Int32
  /\ Values("be") \subseteq 0 .. Power(Base)[FixedLength] - 1
  /\ Values("raw") \subseteq [1 .. FixedLength -> Byte]
  /\ \A kind \in Arrays : \A v \in Values(kind) : v \in Seq(Byte) /\ Len(v) < Half
  /\ Values("rest") \cup Values("option") \subseteq Seq(Byte)

\* In a packet of ours only the first field may be a variable integer that is
\* not a length, and the buffer has room for it (compress,
\* login_plugin_request). An option ends a packet (login_plugin_response), and
\* no packet of a peer that is dispatched has a rest.
ASSUME LayoutAssumption ==
  /\ MaxGroups <= Budget
  /\ \A l \in ToClient : \A i \in DOMAIN l : l[i] = "varint" => i = 1
  /\ \A l \in ToServer : \A i \in DOMAIN l : l[i] # "rest" /\ (l[i] = "option" => i = Len(l))

VARIABLES
  pc,                   \* what is done with the packet
  origin,               \* "ours"; "peer", a packet well encoded; "bytes", any bytes
  layout,
  values,               \* the values that are, or were, encoded
  data,                 \* the buffer: what is written so far; what was received
  total,                \* size of the packet received, there may be more in data
  size,                 \* size: what is left of the buffer or packet
  pos,                  \* data: bytes read
  left,                 \* value in the loop of protocol_write_varlong
  got,                  \* the values read
  offset,               \* arena->current_offset
  arrays,               \* extents in the arena: what was taken before, our arrays
  negative              \* history: kinds of arrays read with a length below 0

vars == <<pc, origin, layout, values, data, total, size, pos, left, got, offset, arrays, negative>>
arena == <<offset, arrays, negative>>
reading == <<total, pos, got, arena>>
packet == <<origin, layout, values, data, total, left>>

TypeOK ==
  /\ pc \in {"compose", "read", "accepted", "rejected",
             "write", "varint", "elements", "sent", "full", "crashed"}
  /\ origin \in {"ours", "peer", "bytes"}
  /\ layout \in Seq(Kinds)
  /\ data \in Seq(Byte)
  /\ Len(values) <= Len(layout) /\ Len(got) <= Len(layout)
  /\ total \in Nat
  /\ {pos, size, left} \subseteq Int
  /\ offset \in 0 .. ArenaSize
  /\ \A i \in DOMAIN arrays : arrays[i].at \in 0 .. ArenaSize
  /\ negative \subseteq Arrays

Init ==
  /\ values = <<>> /\ pos = 0 /\ left = 0 /\ got = <<>> /\ negative = {}
  /\ offset \in ArenaUsed
  /\ arrays = <<[at |-> 0, len |-> offset]>>
  /\ \/ origin = "ours" /\ pc = "write" /\ layout \in ToClient
        /\ data = <<>> /\ total = 0 /\ size = Budget
     \/ origin = "peer" /\ pc = "compose" /\ layout \in ToServer
        /\ data = <<>> /\ total = 0 /\ size = 0
     \/ origin = "bytes" /\ pc = "read" /\ layout \in ToServer
        /\ data \in [1 .. MaxData -> Wire] /\ total \in 0 .. MaxData /\ size = total
-----------------------------------------------------------------------------
(* The loads and stores of a little-endian machine, and be16toh, htobe64.  *)

HostBytes(x) == [i \in 1 .. FixedLength |-> (x \div Power(Base)[i - 1]) % Base]

\* The number whose digits to base b these are, the lowest first.
Positional(digits, b) ==
  LET sum[n \in 0 .. Len(digits)] ==
        IF n = 0 THEN 0 ELSE sum[n - 1] + digits[n] * Power(b)[n - 1]
  IN  sum[Len(digits)]

FromHost(bs) == Positional(bs, Base)

\* Mutant: the bytes stay in the order of the host, as for floats.
SwappedNot(x) == x

Swapped(x) == FromHost(Reverse(HostBytes(x)))
-----------------------------------------------------------------------------
(* Writing                                                                 *)

\* The field being written or read.
WriteKind == layout[Len(values)]
Written   == Last(values)

AfterField == IF Len(values) = Len(layout) THEN "sent" ELSE "write"

\* A fixed field and the elements of an array: checked, then written.
Store(bytes, next) ==
  /\ IF Len(bytes) > size
     THEN pc' = "full" /\ UNCHANGED <<data, size>>
     ELSE pc' = next /\ data' = data \o bytes /\ size' = size - Len(bytes)
  /\ UNCHANGED <<origin, layout, left, reading>>

WriteVarint(v) ==
  /\ pc' = "varint" /\ left' = v
  /\ UNCHANGED <<origin, layout, data, size, reading>>

WriteField ==
  /\ pc = "write" /\ Len(values) < Len(layout)
  /\ LET kind == layout[Len(values) + 1]
         next == IF Len(values) + 1 = Len(layout) THEN "sent" ELSE "write"
     IN  \E v \in Values(kind) :
           /\ values' = Append(values, v)
           /\ \/ kind = "varint" /\ WriteVarint(v)
              \/ kind \in Arrays /\ WriteVarint(Len(v))
              \/ kind = "be" /\ Store(HostBytes(Swapped(v)), next)
              \/ kind \in {"raw", "rest"} /\ Store(v, next)

MoreBit(v) == IF v \div More # 0 THEN More ELSE 0

LoopEnds(v) == v \div More = 0

\* A turn of the loop of protocol_write_varlong: size is counted and not
\* looked at, and the shift keeps the sign. MaxGroups bytes past the buffer
\* stand for the end of its mapping.
WriteByte ==
  /\ pc = "varint"
  /\ data' = Append(data, (left % More) + MoreBit(left))
  /\ size' = size - 1
  /\ left' = left \div More
  /\ pc' = IF LoopEnds(left) THEN (IF WriteKind = "varint" THEN AfterField ELSE "elements")
           ELSE IF Len(data) >= Budget + MaxGroups THEN "crashed" ELSE "varint"
  /\ UNCHANGED <<origin, layout, values, reading>>

\* Mutant: elements are written without a look at the size.
WriteElementsUnchecked ==
  /\ pc = "elements"
  /\ pc' = AfterField /\ data' = data \o Written /\ size' = size - Len(Written)
  /\ UNCHANGED <<origin, layout, left, reading, values>>

WriteElements ==
  /\ pc = "elements"
  /\ Store(Written, AfterField)
  /\ UNCHANGED values
-----------------------------------------------------------------------------
(* Reading                                                                 *)

\* A peer encodes a packet, and all of it has arrived.
Compose ==
  /\ pc = "compose"
  /\ IF Len(values) < Len(layout)
     THEN /\ \E v \in Values(layout[Len(values) + 1]) :
               /\ values' = Append(values, v)
               /\ data' = data \o FieldBytes(layout[Len(values) + 1], v)
          /\ UNCHANGED <<pc, size, total>>
     ELSE /\ pc' = "read" /\ size' = Len(data) /\ total' = Len(data)
          /\ UNCHANGED <<values, data>>
  /\ UNCHANGED <<origin, layout, left, pos, got, arena>>

Kind == layout[Len(got) + 1]
Reads(kinds) == pc = "read" /\ Len(got) < Len(layout) /\ Kind \in kinds

\* Buffers are mapped full of zeros and are longer than any packet.
At(p) == IF p <= Len(data) THEN data[p] ELSE 0
Bytes(p, n) == [i \in 1 .. n |-> At(p + i)]

Signed(u) == IF u >= Half THEN u - Words ELSE u

\* Mutant: the last group that would fit is refused.
VarintLengthsShort(p, n) ==
  {k \in 1 .. MaxGroups - 1 : k <= n /\ At(p + k) < More /\ \A j \in 1 .. k - 1 : At(p + j) >= More}

\* Where protocol_read_varint may end: within the size and within Width bits.
VarintLengths(p, n) ==
  {k \in 1 .. MaxGroups : k <= n /\ At(p + k) < More /\ \A j \in 1 .. k - 1 : At(p + j) >= More}

\* protocol_read_varint; bits above the width are lost.
Varint(bytes) == Signed(Positional([i \in DOMAIN bytes |-> bytes[i] % More], More) % Words)

\* The next field is read: by bytes of the buffer, left of the size.
Take(value, by, less) ==
  /\ got' = Append(got, value)
  /\ pos' = pos + by
  /\ size' = size - less

ReadVarint ==
  /\ Reads({"varint"})
  /\ \E k \in VarintLengths(pos, size) : Take(Varint(Bytes(pos, k)), k, k)
  /\ UNCHANGED <<pc, packet, arena>>

ReadFixed ==
  /\ Reads({"be", "raw"})
  /\ size >= FixedLength
  /\ LET bytes == Bytes(pos, FixedLength)
     IN  Take(IF Kind = "be" THEN Swapped(FromHost(bytes)) ELSE bytes, FixedLength, FixedLength)
  /\ UNCHANGED <<pc, packet, arena>>

\* Only the byte that says whether there is a value is read: the generator
\* drops the code that would read the value.
ReadOption ==
  /\ Reads({"option"})
  /\ size >= 1
  /\ Take(Bytes(pos, 1), 1, 1)
  /\ UNCHANGED <<pc, packet, arena>>

\* tick_arena_alloc_unlocked has room: a length below 0 is a size near 2^64,
\* too much unless the sum with the offset wraps.
Room(len) == offset + len \in 0 .. ArenaSize

\* Mutant: the elements are not taken off the size.
LeftOfSizeBare(k, len) == k

\* What an array of len elements takes off the size.
LeftOfSize(k, len) == k + len

\* Elements that are copied: none when the length is below 0.
Copied(len) == IF len < 0 THEN 0 ELSE len

\* Mutant: the arena is not moved on.
AllocateSame(len) ==
  /\ offset' = offset
  /\ arrays' = Append(arrays, [at |-> offset, len |-> Copied(len)])

Allocate(len) ==
  /\ offset' = offset + len
  /\ arrays' = Append(arrays, [at |-> offset, len |-> Copied(len)])

\* An array that passes the comparison of its length and gets its elements.
\* A string is read by a function of its own: the caller moves on by what that
\* took off its size, or gives up if this is below 0. A buffer is read in
\* place: the cursor moves by the elements copied.
ReadArray ==
  /\ Reads(Arrays)
  /\ \E k \in VarintLengths(pos, size) :
       LET len == Varint(Bytes(pos, k)) IN
       /\ len <= size - k
       /\ Room(len)
       /\ Allocate(len)
       /\ negative' = IF len < 0 THEN negative \cup {Kind} ELSE negative
       /\ IF Kind = "string" /\ k + len < 0
          THEN pc' = "rejected" /\ UNCHANGED <<got, pos, size>>
          ELSE /\ Take(Bytes(pos + k, Copied(len)),
                       IF Kind = "string" THEN k + len ELSE k + Copied(len), LeftOfSize(k, len))
               /\ UNCHANGED pc
  /\ UNCHANGED packet

Readable ==
  CASE Kind \in {"be", "raw"} -> size >= FixedLength
    [] Kind = "option" -> size >= 1
    [] Kind = "varint" -> VarintLengths(pos, size) # {}
    [] Kind \in Arrays -> \E k \in VarintLengths(pos, size) :
                            LET len == Varint(Bytes(pos, k)) IN len <= size - k /\ Room(len)

\* The generated reader returns -1.
Reject ==
  /\ Reads(Kinds) /\ ~Readable
  /\ pc' = "rejected"
  /\ UNCHANGED <<packet, size, pos, got, arena>>

\* read_size == size.
Verdict == IF size = 0 THEN "accepted" ELSE "rejected"

Finish ==
  /\ pc = "read" /\ Len(got) = Len(layout)
  /\ pc' = Verdict
  /\ UNCHANGED <<packet, size, pos, got, arena>>

Next ==
  \/ WriteField \/ WriteByte \/ WriteElements
  \/ Compose
  \/ ReadVarint \/ ReadFixed \/ ReadOption \/ ReadArray \/ Reject \/ Finish

Spec == Init /\ [][Next]_vars
-----------------------------------------------------------------------------
\* A packet that was written whole is the encoding of its values, and within
\* the buffer: although the loop of a variable integer does not look at the
\* size, a comparison after it does.
WrittenIsEncoding ==
  pc = "sent" => data = Encode(layout, values) /\ Len(data) <= Budget

\* Short of a negative value nothing is written further than one variable
\* integer past the buffer.
OnlyNegativesRunAway ==
  Len(data) > Budget + MaxGroups /\ origin = "ours" => left < 0

\* Cursor and size agree, so that every byte read is one of the packet. A
\* string with a length below 0 takes both back; only a buffer with such a
\* length parts them.
CursorAgrees ==
  origin # "ours" /\ pc # "compose" /\ "buffer" \notin negative =>
    size >= 0 /\ pos >= 0 /\ pos + size = total

\* A packet that is accepted was read to its last byte and not further.
NothingLeftOver == pc = "accepted" /\ "buffer" \notin negative => pos = total

\* What the reader keeps by hand, it keeps right.
ReaderConsistent == TypeOK /\ CursorAgrees /\ NothingLeftOver

\* Elements of the arrays among the fields of a packet.
ElementsOf(l, vs) ==
  LET sum[n \in 0 .. Len(vs)] ==
        IF n = 0 THEN 0 ELSE sum[n - 1] + (IF l[n] \in Arrays THEN Len(vs[n]) ELSE 0)
  IN  sum[Len(vs)]

\* The arena has room for the arrays, and no option has a value.
Fair ==
  /\ arrays[1].len + ElementsOf(layout, values) <= ArenaSize
  /\ \A i \in DOMAIN values : layout[i] = "option" => Len(values[i]) = 1

\* What a peer encoded is read as what the peer meant. What it encoded with a
\* value in an option is always refused.
Understood ==
  origin = "peer" =>
    /\ Fair => pc # "rejected"
    /\ pc = "accepted" => got = values

\* The arrays of a packet lie in the arena behind one another and behind what
\* earlier packets have there; a length below 0 moves the arena back.
ArraysApart ==
  negative = {} =>
    /\ \A i, j \in DOMAIN arrays : i < j => arrays[i].at + arrays[i].len <= arrays[j].at
    /\ \A i \in DOMAIN arrays : arrays[i].at + arrays[i].len <= ArenaSize
=============================================================================
