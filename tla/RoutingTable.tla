---------------------------- MODULE RoutingTable ----------------------------
(***************************************************************************)
(* The routing table of one node: a map from bucket index to k-bucket.     *)
(*                                                                         *)
(* The table changes when a contact is reported (a received message, a     *)
(* discovery result, the start-up contact), when the WebSocket connection  *)
(* of a peer closes, and when a peer that a full bucket pinged answers.    *)
(***************************************************************************)
EXTENDS TableOps

CONSTANTS
    Contacts,   \* ids that may be reported as contacts
    self        \* the id of the node that owns the table

\* The own id may be among the contacts: start() reports node 0 at node 0 too
\* (node.ts:113), and a node that is told to ping itself hears from itself
\* (base.controller.ts:665-678).
ASSUME RoutingTableAssumption ==
    /\ self \in Id
    /\ Contacts \subseteq Id

VARIABLES
    table,   \* [bucket index -> sequence of ids], on the buckets created so far
    probes   \* peers pinged by a full bucket that have not answered yet

vars == <<table, probes>>

-----------------------------------------------------------------------------

Init ==
    /\ table = EmptyTable
    /\ probes = {}

UpdateTables(p) ==
    /\ table' = Updated(self, table, p)
    /\ probes' = probes \cup ProbedBy(self, table, p)

\* The handler returns early for the node's own id.
HandleTcpDisconnect(p) ==
    /\ p # self
    /\ table' = Removed(self, table, p)
    /\ UNCHANGED probes

\* The PONG of a pinged peer reports that peer like any message does.
ProbeAnswered(p) ==
    /\ p \in probes
    /\ table' = Updated(self, table, p)
    /\ probes' = (probes \cup ProbedBy(self, table, p)) \ {p}

\* The rejection is only logged: the peer that did not answer stays.
ProbeTimeout(p) ==
    /\ p \in probes
    /\ probes' = probes \ {p}
    /\ UNCHANGED table

Next ==
    \E p \in Contacts :
        \/ UpdateTables(p)
        \/ HandleTcpDisconnect(p)
        \/ ProbeAnswered(p)
        \/ ProbeTimeout(p)

Spec == Init /\ [][Next]_vars

-----------------------------------------------------------------------------

(***************************************************************************)
(* Properties                                                              *)
(***************************************************************************)

\* The table maps bucket indices to lists of contacts.
TypeOK ==
    /\ DOMAIN table \subseteq Indices
    /\ \A i \in DOMAIN table : table[i] \in Seq(Contacts)
    /\ probes \subseteq Contacts

\* No id is listed twice in a bucket, whatever order of messages, late pings
\* and disconnections the buckets saw: removeNode and moveToFront rely on it.
NoDuplicates == \A i \in DOMAIN table : IsInjective(table[i])

\* Every peer is in the one bucket where findBucket looks for it, so that no
\* peer is known twice and a disconnection finds the peer it is about.
InHomeBucket ==
    \A i \in DOMAIN table : \A p \in Range(table[i]) : BucketIndex(self, p) = i

\* A bucket never outgrows K_BUCKET_SIZE.
BucketsBounded == \A i \in DOMAIN table : Len(table[i]) <= K_BUCKET_SIZE

BucketsInv == NoDuplicates /\ InHomeBucket /\ BucketsBounded

\* The in-place reverse of updateBucketNode is never left behind: the own id
\* is alone in its bucket, so a full bucket does not contain it.
FullBucketIsForeign ==
    \A i \in DOMAIN table :
        Len(table[i]) >= K_BUCKET_SIZE => self \notin Range(table[i])

\* A peer the table knows stays known until its own connection closes: no
\* message, newcomer or failed ping evicts it.
NoEviction ==
    [][\A p \in Peers(table) : p \in Peers(table') \/ HandleTcpDisconnect(p)]_vars

\* findNode does not give up early: it returns count peers, or every known
\* peer other than the key when there are fewer.
FindNodeComplete ==
    \A key \in Id, count \in 1 .. BIT_SIZE :
        LET eligible == Peers(table) \ {key}
            found    == FindNode(self, table, key, count)
        IN  /\ found \subseteq eligible
            /\ Cardinality(found) = Min({count, Cardinality(eligible)})

\* findNode prefers the key's own bucket: a peer of that bucket is left out
\* only for peers that are closer to the key.
KeyBucketFirst ==
    \A key \in Id, count \in 1 .. BIT_SIZE :
        LET found == FindNode(self, table, key, count)
        IN  \A p \in Range(BucketAt(table, BucketIndex(self, key))) \ {key} :
                p \notin found => \A q \in found : Closer(q, p, key)

\* The table implements the promise of KnownPeers.
Promise == INSTANCE KnownPeers WITH known <- Peers(table)

ImplementsKnownPeers == Promise!Spec
=============================================================================
