------------------------------- MODULE HashMap -------------------------------
(***************************************************************************)
(* src/lib/stb_ds.h, the hash maps (hm, sh): an array of entries and, in   *)
(* its header, an index of buckets probed quadratically, with tombstones,  *)
(* that grows, shrinks and is rebuilt. One operation is one action: a map  *)
(* has a single user. A key stands for its bytes; Hash is the raw value of *)
(* stbds_hash_bytes or stbds_hash_string for them. An entry is its key:    *)
(* what else it has is stored by the caller at the answered index.         *)
(***************************************************************************)
EXTENDS Integers, Sequences, SequencesExt, FiniteSetsExt, StringArena

CONSTANTS
  Keys,
  BucketLength,         \* STBDS_BUCKET_LENGTH
  Seeds,                \* values of stbds_hash_seed when an index is made
  Hash(_, _),           \* hash of a key under a seed
  KeyLen,               \* bytes of each key, its end included
  MaxCopies             \* bound: strings in an arena

ASSUME MapAssumption ==
  /\ BucketLength \in {4, 8}
  /\ KeyLen \in [Keys -> Nat \ {0}]
  /\ MaxCopies \in Nat
  /\ \A k \in Keys : \A seed \in Seeds : Hash(k, seed) \in Nat

\* string.mode: SH_NONE and SH_DEFAULT keep what the caller passed.
Modes == {"caller", "strdup", "arena"}

VARIABLES
  arr,                  \* the entries, the default entry left out
  capacity,             \* stbds_array_header.capacity, 0 when there is no array
  temp,                 \* stbds_array_header.temp, the answer of an operation
  index,                \* stbds_array_header.hash_table
  copies                \* copies of each key that stbds_strdup made and nobody freed

vars == <<arr, capacity, temp, index, copies>>

Empty   == [hash |-> 0, index |-> -1]
Deleted == [hash |-> 1, index |-> -2]
InUse(c) == c.index >= 0

NoIndex == [slots |-> 0, used |-> 0, tombs |-> 0, seed |-> 0, cells |-> <<>>,
            mode |-> "caller", string |-> NoStrings]

\* used_count_threshold, tombstone_count_threshold, used_count_shrink_threshold.
UsedMax(n) == n - n \div 4
TombMax(n) == n \div 8 + n \div 16

\* Mutant: a table shrinks as soon as the smaller one would take its entries.
UsedMinEager(n) == IF n <= BucketLength THEN 0 ELSE UsedMax(n \div 2) + 1

UsedMin(n) == IF n <= BucketLength THEN 0 ELSE n \div 4

\* 0 and 1 mark empty and deleted cells.
Stored(k, seed) == IF Hash(k, seed) < 2 THEN Hash(k, seed) + 2 ELSE Hash(k, seed)

\* Mutant: each step of the probe has the same length.
ProbeLinear(n, h, i) ==
  LET home == h % n
      turn == i \div BucketLength
  IN  ((home \div BucketLength + 2 * turn) % (n \div BucketLength)) * BucketLength
        + ((home + i) % BucketLength)

\* The i-th cell a probe looks at: the bucket of its home from there on and
\* around, then buckets at growing distances.
Probe(n, h, i) ==
  LET home == h % n
      turn == i \div BucketLength
  IN  ((home \div BucketLength + (turn * (turn + 1)) \div 2) % (n \div BucketLength)) * BucketLength
        + ((home + i) % BucketLength)

CellAt(t, h, i) == t.cells[Probe(t.slots, h, i)]

Holds(t, es, k, i) ==
  LET c == CellAt(t, Stored(k, t.seed), i)
  IN  c.hash = Stored(k, t.seed) /\ es[c.index + 1] = k

\* Where the probe for a key ends: at the key or at an empty cell.
ProbeEnds(t, es, k) ==
  {i \in 0 .. t.slots - 1 : \/ CellAt(t, Stored(k, t.seed), i) = Empty
                            \/ Holds(t, es, k, i)}

\* stbds_hm_find_slot: the slot, -1 when the key is not there.
FindSlot(t, es, k) ==
  LET i == Min(ProbeEnds(t, es, k))
  IN  IF Holds(t, es, k, i) THEN Probe(t.slots, Stored(k, t.seed), i) ELSE -1
-----------------------------------------------------------------------------
(* stbds_make_hash_index                                                   *)

Fill(t, c) ==
  LET i == Min({j \in 0 .. t.slots - 1 : CellAt(t, c.hash, j) = Empty})
  IN  [t EXCEPT !.cells[Probe(t.slots, c.hash, i)] = c]

NewIndex(n, seed, mode) ==
  [slots |-> n, used |-> 0, tombs |-> 0, seed |-> seed,
   cells |-> [s \in 0 .. n - 1 |-> Empty], mode |-> mode, string |-> NoStrings]

\* With an old table its cells are copied, tombstones left behind.
Rebuilt(n, ot) ==
  LET upto[s \in 0 .. ot.slots] ==
        IF s = 0
        THEN [NewIndex(n, ot.seed, ot.mode) EXCEPT !.used = ot.used, !.string = ot.string]
        ELSE IF InUse(ot.cells[s - 1]) THEN Fill(upto[s - 1], ot.cells[s - 1])
        ELSE upto[s - 1]
  IN  upto[ot.slots]

\* stbds_arrgrowf for an array of len elements.
GrownCapacity(len, cap, add, min) ==
  LET need == Max({len + add, min})
  IN  IF need <= cap THEN cap ELSE Max({need, 2 * cap, 4})
-----------------------------------------------------------------------------
\* The default entry takes one element.
Length == IF capacity = 0 THEN 0 ELSE Len(arr) + 1

\* The capacity once a default entry is sure to be there.
WithDefault == IF capacity = 0 THEN GrownCapacity(0, 0, 0, 1) ELSE capacity

TypeOK ==
  /\ arr \in Seq(Keys)
  /\ capacity \in Nat
  /\ temp \in Int
  /\ copies \in [Keys -> Nat]
  /\ index.slots \in Nat /\ index.used \in Nat /\ index.tombs \in Nat
  /\ index.mode \in Modes
  /\ index.slots > 0 => index.seed \in Seeds /\ index.slots % BucketLength = 0
  /\ DOMAIN index.cells = IF index.slots = 0 THEN {} ELSE 0 .. index.slots - 1

\* T* map = NULL.
Init ==
  /\ arr = <<>> /\ capacity = 0 /\ temp = 0
  /\ index = NoIndex
  /\ copies = [k \in Keys |-> 0]

\* stbds_shmode_func, called for a pointer that has no map yet.
New(mode) ==
  /\ capacity = 0
  /\ capacity' = WithDefault
  /\ \E seed \in Seeds : index' = NewIndex(BucketLength, seed, mode)
  /\ UNCHANGED <<arr, temp, copies>>

\* stbds_hmput_default.
Default ==
  /\ capacity = 0
  /\ capacity' = WithDefault
  /\ UNCHANGED <<arr, temp, index, copies>>

\* stbds_hmget_key.
Get(k) ==
  /\ capacity' = WithDefault
  /\ temp' = IF index.slots = 0 THEN -1
             ELSE LET s == FindSlot(index, arr, k)
                  IN  IF s < 0 THEN -1 ELSE index.cells[s].index
  /\ UNCHANGED <<arr, index, copies>>

\* The index an insertion works on: made if there is none, doubled if full.
ForPut(t) ==
  {IF t.slots = 0 THEN NewIndex(BucketLength, seed, "caller")
   ELSE IF t.used >= UsedMax(t.slots) THEN Rebuilt(2 * t.slots, t)
   ELSE t : seed \in Seeds}

\* Mutant: the first tombstone is taken before the key is looked for.
PutStopsEarly(t, k) ==
  {i \in 0 .. t.slots - 1 : \/ ~InUse(CellAt(t, Stored(k, t.seed), i))
                            \/ Holds(t, arr, k, i)}

PutStops(t, k) == ProbeEnds(t, arr, k)

\* The key is there: its value is stored at the answered index.
Update(t, k, i) ==
  /\ temp' = CellAt(t, Stored(k, t.seed), i).index
  /\ capacity' = WithDefault
  /\ index' = t
  /\ UNCHANGED <<arr, copies>>

\* found_empty_slot: a tombstone met on the way is used again.
Reused(t, tomb) == IF tomb = {} THEN t ELSE [t EXCEPT !.tombs = @ - 1]

InsertCapacity == GrownCapacity(Len(arr) + 1, WithDefault, 1, 0)

\* Strings in the blocks of an arena.
Strings(a) ==
  SumFunctionOnSet([b \in DOMAIN a.storage |-> Cardinality(a.storage[b].strings)],
                   DOMAIN a.storage)

\* The key is new, and the empty cell i ends its probe.
Insert(t, k, i) ==
  LET h    == Stored(k, t.seed)
      tomb == {j \in 0 .. i - 1 : CellAt(t, h, j) = Deleted}
      at   == Probe(t.slots, h, IF tomb = {} THEN i ELSE Min(tomb))
      u    == [Reused(t, tomb) EXCEPT !.used = @ + 1,
                                      !.cells[at] = [hash |-> h, index |-> Len(arr)]]
  IN
  /\ arr' = Append(arr, k)
  /\ temp' = Len(arr)
  /\ capacity' = InsertCapacity
  /\ t.mode = "arena" => Strings(t.string) < MaxCopies
  /\ index' = IF t.mode = "arena" THEN [u EXCEPT !.string = StrAlloc(@, k, KeyLen[k])] ELSE u
  /\ copies' = IF t.mode = "strdup" THEN [copies EXCEPT ![k] = @ + 1] ELSE copies

\* stbds_hmput_key.
Put(k) ==
  \E t \in ForPut(index) :
    LET i == Min(PutStops(t, k))
    IN  IF Holds(t, arr, k, i) THEN Update(t, k, i) ELSE Insert(t, k, i)

\* The last step of stbds_hmdel_key: shrink, or get rid of tombstones.
Trimmed(t) ==
  IF t.used < UsedMin(t.slots) /\ t.slots > BucketLength THEN Rebuilt(t.slots \div 2, t)
  ELSE IF t.tombs > TombMax(t.slots) THEN Rebuilt(t.slots, t)
  ELSE t

\* Mutant: the moved entry keeps its old index.
MovedNot(t, es, k, old) == t

\* The entry that filled the gap is told its new index.
Moved(t, es, k, old) == [t EXCEPT !.cells[FindSlot(t, es, k)].index = old]

\* Mutant: the copy that is freed is that of the entry moved into the gap.
FreedMoved(old) == [copies EXCEPT ![Last(arr)] = @ - 1]

Freed(old) == [copies EXCEPT ![arr[old + 1]] = @ - 1]

Unlink(slot) ==
  LET old == index.cells[slot].index
      t   == [index EXCEPT !.used = @ - 1, !.tombs = @ + 1, !.cells[slot] = Deleted]
      es  == [arr EXCEPT ![old + 1] = Last(arr)]
  IN
  /\ arr' = Front(es)
  /\ temp' = 1
  /\ index' = Trimmed(IF old # Len(arr) - 1 THEN Moved(t, es, Last(arr), old) ELSE t)
  /\ copies' = IF index.mode = "strdup" THEN Freed(old) ELSE copies
  /\ UNCHANGED capacity

\* stbds_hmdel_key.
Del(k) ==
  LET slot == IF index.slots = 0 THEN -1 ELSE FindSlot(index, arr, k)
  IN  IF slot >= 0 THEN Unlink(slot) ELSE temp' = 0 /\ UNCHANGED <<arr, capacity, index, copies>>

\* stbds_hmfree_func; stbds_strreset frees the blocks of the arena.
Free ==
  /\ arr' = <<>> /\ capacity' = 0 /\ temp' = 0
  /\ index' = NoIndex
  /\ copies' = IF index.mode = "strdup"
               THEN [k \in Keys |-> copies[k] - Cardinality({i \in DOMAIN arr : arr[i] = k})]
               ELSE copies

Next ==
  \/ \E mode \in {"strdup", "arena"} : New(mode)
  \/ Default
  \/ \E k \in Keys : Get(k) \/ Put(k) \/ Del(k)
  \/ Free

Spec == Init /\ [][Next]_vars
-----------------------------------------------------------------------------
\* The index and the array say the same: every entry is in exactly one cell,
\* under its hash, and the counts are those of the cells.
IndexIsArray ==
  /\ index.used = Len(arr)
  /\ index.used = Cardinality({s \in DOMAIN index.cells : InUse(index.cells[s])})
  /\ index.tombs = Cardinality({s \in DOMAIN index.cells : index.cells[s] = Deleted})
  /\ \A i \in DOMAIN arr : \E s \in DOMAIN index.cells :
       index.cells[s] = [hash |-> Stored(arr[i], index.seed), index |-> i - 1]

\* The array has room for every element it says it has.
RoomForLength == Length <= capacity

\* Array, header and index are about the same entries.
MapConsistent == TypeOK /\ IndexIsArray /\ RoomForLength

\* No probe goes round for ever: whatever was put and deleted before, every
\* key that is not there meets an empty cell and every other one its own
\* (the comment at line 934: "at least one slot is empty").
ProbesEnd ==
  index.slots > 0 => \A k \in Keys :
    LET ends == ProbeEnds(index, arr, k) IN
    /\ ends # {}
    /\ Holds(index, arr, k, Min(ends)) <=> \E i \in DOMAIN arr : arr[i] = k

\* Resizing has a hysteresis (line 321): after a resize an eighth of the table
\* has to be put or deleted before there is another.
ResizesAreApart ==
  [][LET n == index'.slots IN
     index.slots > 0 /\ n > 0 /\ n # index.slots =>
       /\ index'.used - 1 + n \div 8 <= UsedMax(n)
       /\ n > BucketLength => index'.used - n \div 8 >= UsedMin(n)]_vars

\* A map that copies its keys has one copy of each key in it and no other, at
\* every moment: nothing leaks and nothing is freed twice.
CopiesAreKeys ==
  \A k \in Keys : copies[k] =
    IF index.mode = "strdup" /\ \E i \in DOMAIN arr : arr[i] = k THEN 1 ELSE 0

\* Keys in an arena stay there as they were written (line 288: "Every string
\* key ever used by this hash table remains in the arena").
ArenaKeepsKeys ==
  index.mode = "arena" =>
    /\ StringsIntact(index.string)
    /\ {arr[i] : i \in DOMAIN arr} \subseteq StringsOf(index.string)

\* Whoever owns the bytes of the keys, they last as long as the entries.
KeysKept == CopiesAreKeys /\ ArenaKeepsKeys

M == INSTANCE OrderedMap WITH entries <- arr, result <- temp

\* Index, tombstones and rebuilds are invisible: the map is an ordered map.
ImplementsOrderedMap == M!MapSpec
=============================================================================
