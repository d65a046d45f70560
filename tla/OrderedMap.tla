----------------------------- MODULE OrderedMap -----------------------------
(***************************************************************************)
(* What the documentation of src/lib/stb_ds.h promises of a hash map: an   *)
(* array of entries with distinct keys, which is walked like an array; a   *)
(* new entry goes to the end and the last one fills the gap of a deleted   *)
(* one. Every operation answers with a number. An entry is its key.        *)
(***************************************************************************)
EXTENDS Integers, Sequences, SequencesExt

CONSTANT Keys

VARIABLES
  entries,              \* the array
  result                \* the answer of the last operation

mapVars == <<entries, result>>

\* The index of a key, -1 when it has none.
IndexOf(es, k) ==
  LET found == {i \in DOMAIN es : es[i] = k}
  IN  IF found = {} THEN -1 ELSE (CHOOSE i \in found : TRUE) - 1

MapInit == entries = <<>> /\ result = 0

MapGet(k) == result' = IndexOf(entries, k) /\ UNCHANGED entries

MapPut(k) ==
  LET i == IndexOf(entries, k) IN
  /\ result' = IF i >= 0 THEN i ELSE Len(entries)
  /\ entries' = IF i >= 0 THEN entries ELSE Append(entries, k)

MapDel(k) ==
  LET i == IndexOf(entries, k) IN
  /\ result' = IF i >= 0 THEN 1 ELSE 0
  /\ entries' = IF i >= 0 THEN Front([entries EXCEPT ![i + 1] = Last(entries)])
                          ELSE entries

MapFree == entries' = <<>> /\ result' = 0

MapNext == \/ \E k \in Keys : MapGet(k) \/ MapPut(k) \/ MapDel(k)
           \/ MapFree

MapSpec == MapInit /\ [][MapNext]_mapVars
=============================================================================
