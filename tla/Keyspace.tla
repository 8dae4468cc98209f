------------------------------ MODULE Keyspace ------------------------------
(***************************************************************************)
(* The identifier space shared by node ids and DHT keys.                   *)
(*                                                                         *)
(* An identifier is a bit vector, represented by the set of positions of   *)
(* its one bits: 5 = 101b is {0, 2}, and node 0, the bootstrap node, is    *)
(* {}.  XOR is then the symmetric difference, and a distance is itself an  *)
(* identifier, compared by its highest differing bit.                      *)
(***************************************************************************)
EXTENDS Integers, FiniteSetsExt

CONSTANTS
    ID_BITS,  \* bits that identifiers use
    BIT_SIZE  \* constants.ts: number of bits getBucketIndex scans

\* A node listens on port 3000 + id (node.ts:710), so an id has at most 16 bits,
\* and a key is taken modulo HASH_SIZE = 32; getBucketIndex scans BIT_SIZE = 32.
ASSUME KeyspaceAssumption ==
    /\ ID_BITS \in Nat \ {0}
    /\ BIT_SIZE \in Nat
    /\ ID_BITS < BIT_SIZE

Id == SUBSET (0 .. ID_BITS - 1)

BootstrapId == {}

XOR(a, b) == (a \ b) \cup (b \ a)

\* a < b, for distances.
Less(a, b) == a # b /\ Max(XOR(a, b)) \in b

Closer(p, q, key) == Less(XOR(p, key), XOR(q, key))

\* The numeric value of an identifier, to check the representation against.
Number(id) == MapThenSumSet(LAMBDA i : 2^i, id)

\* Mutant of Closest: the comparator of the sort is swapped.
ClosestSwapped(S, key, n) ==
    {p \in S : Cardinality({q \in S : Closer(p, q, key)}) < n}

\* The n members of S closest to key.  Distances to one key are distinct, so
\* sorting by distance and slicing has exactly one result.
Closest(S, key, n) ==
    {p \in S : Cardinality({q \in S : Closer(q, p, key)}) < n}

\* Mutants of BucketIndex: an equal id falls through to the lowest bucket, as
\* getKBucketIndex in utils/nodeUtils.ts has it, or one past the highest.
BucketIndexOwnLowest(self, target) ==
    IF target = self THEN 0 ELSE Max(XOR(self, target))
BucketIndexOwnPastTop(self, target) ==
    IF target = self THEN BIT_SIZE ELSE Max(XOR(self, target))

\* The highest bit in which target differs from self; BIT_SIZE - 1 for self.
BucketIndex(self, target) ==
    IF target = self THEN BIT_SIZE - 1 ELSE Max(XOR(self, target))
=============================================================================
