------------------------------- MODULE KBucket -------------------------------
(***************************************************************************)
(* One k-bucket: the list of at most K_BUCKET_SIZE peers that KBucket.nodes *)
(* holds.  A peer is its id: its port is 3000 + id, its address is the     *)
(* same for all nodes, and lastSeen steers no decision.                    *)
(***************************************************************************)
EXTENDS Keyspace, SequencesExt

CONSTANT K_BUCKET_SIZE

ASSUME KBucketAssumption == K_BUCKET_SIZE \in Nat \ {0, 1}

Position(bucket, p) == CHOOSE i \in DOMAIN bucket : bucket[i] = p

\* nodes.filter((n) => n.nodeId !== p): a bucket holds an id at most once
\* (NoDuplicates in RoutingTable), so there is one entry to drop.
RemoveNode(bucket, p) ==
    IF p \in Range(bucket) THEN RemoveAt(bucket, Position(bucket, p)) ELSE bucket

\* Mutant of MoveToFront: the old entry is not filtered out.
MoveToFrontKeepsOld(bucket, p) == <<p>> \o bucket

MoveToFront(bucket, p) == <<p>> \o RemoveNode(bucket, p)

IsNewcomer(bucket, p) == p \notin Range(bucket) /\ Len(bucket) >= K_BUCKET_SIZE

\* Mutants of UpdateBucketNode: the shift and push that the code has commented
\* out, and a size test that admits one peer too many.
UpdateBucketNodeEvicts(self, bucket, p) ==
    IF p \in Range(bucket) THEN MoveToFront(bucket, p)
    ELSE IF Len(bucket) < K_BUCKET_SIZE THEN Append(bucket, p)
    ELSE Append(Tail(bucket), p)
UpdateBucketNodeOverfills(self, bucket, p) ==
    IF p \in Range(bucket) THEN MoveToFront(bucket, p)
    ELSE IF Len(bucket) <= K_BUCKET_SIZE THEN Append(bucket, p)
    ELSE bucket

\* A newcomer to a full bucket is dropped.  The test for the own id reverses
\* the list in place and returns without restoring it when it succeeds.
UpdateBucketNode(self, bucket, p) ==
    IF p \in Range(bucket) THEN MoveToFront(bucket, p)
    ELSE IF Len(bucket) < K_BUCKET_SIZE THEN Append(bucket, p)
    ELSE IF Last(bucket) = self THEN Reverse(bucket)
    ELSE bucket

\* The peers the update pings: the head of a full bucket on a newcomer.
Probed(self, bucket, p) ==
    IF IsNewcomer(bucket, p) /\ Last(bucket) # self THEN {Head(bucket)} ELSE {}
=============================================================================
