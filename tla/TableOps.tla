------------------------------ MODULE TableOps ------------------------------
(***************************************************************************)
(* The operations of RoutingTable as functions of the table, for the       *)
(* modules that keep the table of one node or of several.  A table maps    *)
(* the index of every bucket created so far to the list of its peers.      *)
(***************************************************************************)
EXTENDS KBucket

Indices == 0 .. BIT_SIZE - 1

EmptyTable == [i \in {} |-> <<>>]

BucketAt(tbl, i) == IF i \in DOMAIN tbl THEN tbl[i] ELSE <<>>

SetBucket(tbl, i, bucket) ==
    [j \in DOMAIN tbl \cup {i} |-> IF j = i THEN bucket ELSE tbl[j]]

Peers(tbl) == UNION {Range(tbl[i]) : i \in DOMAIN tbl}

Updated(me, tbl, p) ==
    LET i == BucketIndex(me, p)
    IN  SetBucket(tbl, i, UpdateBucketNode(me, BucketAt(tbl, i), p))

Removed(me, tbl, p) ==
    LET i == BucketIndex(me, p)
    IN  SetBucket(tbl, i, RemoveNode(BucketAt(tbl, i), p))

ProbedBy(me, tbl, p) == Probed(me, BucketAt(tbl, BucketIndex(me, p)), p)

(***************************************************************************)
(* findNode: the bucket of the key, then rounds that add the next existing *)
(* bucket above and the next one below, until count peers are gathered or  *)
(* no bucket is left; the result is the count closest of those gathered.   *)
(* A peer whose id equals the key is skipped.                              *)
(***************************************************************************)
Within(tbl, home, rounds) ==
    LET above == {i \in DOMAIN tbl : i > home}
        below == {i \in DOMAIN tbl : i < home}
    IN  (DOMAIN tbl \cap {home})
        \cup {i \in above : Cardinality({j \in above : j < i}) < rounds}
        \cup {i \in below : Cardinality({j \in below : j > i}) < rounds}

Gathered(tbl, home, rounds, key) ==
    (UNION {Range(tbl[i]) : i \in Within(tbl, home, rounds)}) \ {key}

\* Mutant of FindNode: the loop ends when either side is exhausted.
FindNodeOneSided(me, tbl, key, count) ==
    LET home == BucketIndex(me, key)
        Stops(r) ==
            \/ Cardinality(Gathered(tbl, home, r, key)) >= count
            \/ {i \in DOMAIN tbl : i > home} \subseteq Within(tbl, home, r)
            \/ {i \in DOMAIN tbl : i < home} \subseteq Within(tbl, home, r)
        last == CHOOSE r \in 0 .. Cardinality(DOMAIN tbl) :
                    Stops(r) /\ \A s \in 0 .. r - 1 : ~Stops(s)
    IN  Closest(Gathered(tbl, home, last, key), key, count)

FindNode(me, tbl, key, count) ==
    LET home == BucketIndex(me, key)
        Stops(r) == \/ Cardinality(Gathered(tbl, home, r, key)) >= count
                    \/ Within(tbl, home, r) = DOMAIN tbl
        last == CHOOSE r \in 0 .. Cardinality(DOMAIN tbl) :
                    Stops(r) /\ \A s \in 0 .. r - 1 : ~Stops(s)
    IN  Closest(Gathered(tbl, home, last, key), key, count)
=============================================================================
