------------------------------ MODULE Encoding ------------------------------
(***************************************************************************)
(* What a packet looks like on the wire: the encoding that client and      *)
(* server agree on, as a function of the values. A byte carries GroupBits  *)
(* bits of a variable integer (7) below its high bit; integers have Width  *)
(* bits (32).                                                              *)
(***************************************************************************)
EXTENDS Integers, Sequences

CONSTANTS
  GroupBits,
  Width,
  FixedLength           \* bytes of a field of fixed length

ASSUME EncodingAssumption ==
  /\ GroupBits \in Nat \ {0}
  /\ Width \in Nat \ {0}
  /\ FixedLength \in Nat \ {0}

\* The powers of b, as a function that a proof can unfold.
Power(b) == LET p[n \in Nat] == IF n = 0 THEN 1 ELSE b * p[n - 1] IN p

\* The high bit of a byte, "more bytes follow", and the values of a byte.
More == Power(2)[GroupBits]
Base == 2 * More
Byte == 0 .. Base - 1

Words == Power(2)[Width]
Half  == Power(2)[Width - 1]
Int32 == -Half .. Half - 1

\* Bytes of the longest variable integer.
MaxGroups == (Width + GroupBits - 1) \div GroupBits

Kinds == {"varint", "be", "raw", "string", "buffer", "rest", "option"}
Arrays == {"string", "buffer"}

\* The groups of the two's complement from the lowest on, as few as will do.
VarintBytes(v) ==
  LET u == v % Words
      n == CHOOSE n \in 1 .. MaxGroups :
             u < Power(More)[n] /\ (n = 1 \/ u >= Power(More)[n - 1])
  IN  [i \in 1 .. n |-> ((u \div Power(More)[i - 1]) % More) + (IF i < n THEN More ELSE 0)]

BigEndian(v) == [i \in 1 .. FixedLength |-> (v \div Power(Base)[FixedLength - i]) % Base]

\* An array is its length and its elements; an option is a byte that says
\* whether there is a value, and the value.
FieldBytes(kind, v) ==
  CASE kind = "varint" -> VarintBytes(v)
    [] kind = "be" -> BigEndian(v)
    [] kind \in Arrays -> VarintBytes(Len(v)) \o v
    [] kind \in {"raw", "rest", "option"} -> v

Encode(layout, vs) ==
  LET upto[n \in 0 .. Len(vs)] ==
        IF n = 0 THEN <<>> ELSE upto[n - 1] \o FieldBytes(layout[n], vs[n])
  IN  upto[Len(vs)]
=============================================================================
