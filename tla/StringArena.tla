----------------------------- MODULE StringArena -----------------------------
(***************************************************************************)
(* src/lib/stb_ds.h, stbds_string_arena: strings that are freed together.  *)
(* A block is filled from its end. The arena is a record that the hash     *)
(* index carries with it.                                                  *)
(***************************************************************************)
EXTENDS Naturals, Sequences

CONSTANTS
  BlockMin,             \* STBDS_STRING_ARENA_BLOCKSIZE_MIN
  BlockMax              \* STBDS_STRING_ARENA_BLOCKSIZE_MAX

ASSUME BlockAssumption == BlockMin \in Nat \ {0} /\ BlockMax \in Nat

\* memset of a stbds_string_arena, and stbds_strreset once all blocks are freed.
NoStrings == [storage |-> <<>>, remaining |-> 0, block |-> 0]

\* The powers of 2, as a function that a proof can unfold.
Power2 == LET p[n \in Nat] == IF n = 0 THEN 1 ELSE 2 * p[n - 1] IN p

BlockSize(a) == BlockMin * Power2[a.block \div 2]

NewBlock(size, strings) == [size |-> size, strings |-> strings]

\* The string goes to the end of what remains of the first block.
Placed(a, str, len) ==
  [a EXCEPT !.remaining = @ - len,
            !.storage[1].strings = @ \cup {[str |-> str, at |-> a.remaining - len, len |-> len]}]

\* The next size: each is used twice.
NextSize(a) == [a EXCEPT !.block = IF BlockSize(a) < BlockMax THEN @ + 1 ELSE @]

\* A string longer than a block has its own, behind the block being filled.
OwnBlock(a, str, len) ==
  LET own == NewBlock(len, {[str |-> str, at |-> 0, len |-> len]})
      s   == a.storage
  IN  [a EXCEPT !.storage = IF s = <<>> THEN <<own>> ELSE <<Head(s), own>> \o Tail(s)]

\* stbds_stralloc of a string of len bytes, its end included.
StrAlloc(a, str, len) ==
  IF len <= a.remaining THEN Placed(a, str, len)
  ELSE IF len > BlockSize(a) THEN OwnBlock(NextSize(a), str, len)
  ELSE Placed([NextSize(a) EXCEPT !.storage = <<NewBlock(BlockSize(a), {})>> \o @,
                                  !.remaining = BlockSize(a)], str, len)
-----------------------------------------------------------------------------
Bytes(s) == s.at .. s.at + s.len - 1

\* Strings lie inside their block and share no byte, and what remains of the
\* first block is free.
StringsIntact(a) ==
  /\ \A i \in DOMAIN a.storage : LET b == a.storage[i] IN
       /\ \A s \in b.strings : Bytes(s) \subseteq 0 .. b.size - 1
       /\ \A s, t \in b.strings : s # t => Bytes(s) \cap Bytes(t) = {}
  /\ a.storage # <<>> =>
       \A s \in a.storage[1].strings : Bytes(s) \cap (0 .. a.remaining - 1) = {}

StringsOf(a) == UNION {{s.str : s \in a.storage[i].strings} : i \in DOMAIN a.storage}
=============================================================================
