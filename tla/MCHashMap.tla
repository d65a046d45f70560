------------------------------ MODULE MCHashMap ------------------------------
EXTENDS HashMap

\* Raw hashes: 0 and 2 are stored alike, several share a home and a bucket.
MCHash(k, seed) == (<<0, 2, 3, 11, 7, 6, 19>>[k] * (2 * seed + 1)) % 32

MCKeyLen == [k \in Keys |-> <<1, 2, 1, 3, 1, 5, 1>>[k]]
=============================================================================
