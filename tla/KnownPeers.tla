----------------------------- MODULE KnownPeers -----------------------------
(***************************************************************************)
(* What a routing table promises its node, without buckets, order or       *)
(* pings: a set of known peers, at most K_BUCKET_SIZE of them at each      *)
(* logarithmic distance.  A peer enters while there is room at its         *)
(* distance and leaves only when its connection closes.                    *)
(***************************************************************************)
EXTENDS Keyspace

CONSTANTS K_BUCKET_SIZE, Contacts, self

VARIABLE known

AtDistanceOf(p) ==
    {q \in known : BucketIndex(self, q) = BucketIndex(self, p)}

Init == known = {}

Learn(p) ==
    /\ Cardinality(AtDistanceOf(p)) < K_BUCKET_SIZE
    /\ known' = known \cup {p}

Forget(p) ==
    /\ p # self
    /\ known' = known \ {p}

Next == \E p \in Contacts : Learn(p) \/ Forget(p)

Spec == Init /\ [][Next]_known
=============================================================================
