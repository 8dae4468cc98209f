------------------------- MODULE RoutingTableProofs -------------------------
(***************************************************************************)
(* Proofs about the routing table of one node, for every number of bits,   *)
(* bucket size, node id and set of contacts.                               *)
(***************************************************************************)
EXTENDS RoutingTable, TableLemmas

\* The lemmas of TableLemmas apply to this table.
LEMMA ContactsAreIds == self \in Id /\ Contacts \in SUBSET Id
BY RoutingTableAssumption

\* The inductive invariant.
IInv == TypeOK /\ BucketsInv

\* It says that the table is well-formed in the sense of those lemmas.
LEMMA IInvIsTableOK == IInv <=> TableOK(self, Contacts, table) /\ probes \subseteq Contacts
BY DEF IInv, TypeOK, BucketsInv, NoDuplicates, InHomeBucket, BucketsBounded,
       TableOK, BucketOK

(***************************************************************************)
(* The state machine                                                       *)
(***************************************************************************)

\* The table starts empty.
LEMMA InitIInv == Init => IInv
<1> SUFFICES ASSUME Init PROVE TableOK(self, Contacts, table) /\ probes \subseteq Contacts
    BY IInvIsTableOK
<1> QED BY DEF Init, EmptyTable, TableOK

\* Each action leaves the buckets well-formed.
LEMMA NextIInv == IInv /\ [Next]_vars => IInv'
<1> SUFFICES ASSUME TableOK(self, Contacts, table), probes \subseteq Contacts, [Next]_vars
             PROVE  TableOK(self, Contacts, table') /\ probes' \subseteq Contacts
    <2>1. IInv' <=> TableOK(self, Contacts, table') /\ probes' \subseteq Contacts
        BY DEF IInv, TypeOK, BucketsInv, NoDuplicates, InHomeBucket,
               BucketsBounded, TableOK, BucketOK
    <2> QED BY <2>1, IInvIsTableOK
<1>1. ASSUME NEW p \in Contacts, UpdateTables(p)
      PROVE  TableOK(self, Contacts, table') /\ probes' \subseteq Contacts
    BY <1>1, ContactsAreIds, UpdatedProperties, ProbedByContacts DEF UpdateTables
<1>2. ASSUME NEW p \in Contacts, HandleTcpDisconnect(p)
      PROVE  TableOK(self, Contacts, table') /\ probes' \subseteq Contacts
    BY <1>2, ContactsAreIds, RemovedProperties DEF HandleTcpDisconnect
<1>3. ASSUME NEW p \in Contacts, ProbeAnswered(p)
      PROVE  TableOK(self, Contacts, table') /\ probes' \subseteq Contacts
    <2>1. TableOK(self, Contacts, table')
        BY <1>3, ContactsAreIds, UpdatedProperties DEF ProbeAnswered
    <2>2. probes' \subseteq Contacts
        BY <1>3, ContactsAreIds, ProbedByContacts DEF ProbeAnswered
    <2> QED BY <2>1, <2>2
<1>4. ASSUME NEW p \in Contacts, ProbeTimeout(p)
      PROVE  TableOK(self, Contacts, table') /\ probes' \subseteq Contacts
    BY <1>4 DEF ProbeTimeout
<1>5. CASE UNCHANGED vars
    BY <1>5 DEF vars
<1> QED BY <1>1, <1>2, <1>3, <1>4, <1>5 DEF Next

\* The table is well-formed after every sequence of messages, pings and disconnections.
THEOREM InductiveInvariant == Spec => []IInv
BY InitIInv, NextIInv, PTL DEF Spec

\* The table maps bucket indices to lists of contacts.
THEOREM TypeCorrect == Spec => []TypeOK
<1>1. IInv => TypeOK
    BY DEF IInv
<1> QED BY <1>1, InductiveInvariant, PTL

\* No bucket lists an id twice, holds a peer of another distance, or outgrows
\* K_BUCKET_SIZE, for every sequence of messages, pings and disconnections.
THEOREM BucketsCorrect == Spec => []BucketsInv
<1>1. IInv => BucketsInv
    BY DEF IInv
<1> QED BY <1>1, InductiveInvariant, PTL

\* The own id is never in a full bucket, so the early return of
\* updateBucketNode that leaves the list reversed is dead code.
THEOREM ReverseIsDead == Spec => []FullBucketIsForeign
<1>1. IInv => FullBucketIsForeign
    <2> SUFFICES ASSUME TableOK(self, Contacts, table), NEW i \in DOMAIN table,
                        Len(table[i]) >= K_BUCKET_SIZE, self \in Range(table[i])
                 PROVE  FALSE
        BY IInvIsTableOK DEF FullBucketIsForeign
    <2> DEFINE b == table[i]
    <2>1. BucketOK(self, Contacts, i, b)
        BY DEF TableOK
    <2>2. i = BIT_SIZE - 1
        BY <2>1 DEF BucketOK, BucketIndex
    <2>3. \A p \in Range(b) : p = self
        <3> TAKE p \in Range(b)
        <3>1. p \in Id
            BY <2>1, RangeOfSeq, RoutingTableAssumption DEF BucketOK
        <3> QED BY <2>1, <2>2, <3>1, RoutingTableAssumption, BucketIndexProperties
                DEF BucketOK
    <2>4. DOMAIN b = 1 .. Len(b) /\ Len(b) \in Nat /\ Len(b) >= 2
        BY <2>1, KBucketAssumption, LenProperties DEF BucketOK
    <2>5. 1 \in DOMAIN b /\ 2 \in DOMAIN b
        BY <2>4
    <2>6. b[1] = self /\ b[2] = self
        BY <2>3, <2>5 DEF Range
    <2> QED BY <2>1, <2>5, <2>6 DEF BucketOK, IsInjective
<1> QED BY <1>1, InductiveInvariant, PTL

\* The smaller of two numbers.
LEMMA MinOfTwo ==
    ASSUME NEW a \in Nat, NEW b \in Nat
    PROVE  Min({a, b}) = IF a <= b THEN a ELSE b
<1> DEFINE m == IF a <= b THEN a ELSE b
<1>1. m \in {a, b} /\ m <= a /\ m <= b
    OBVIOUS
<1>2. \A x \in {a, b} : (\A y \in {a, b} : x =< y) => x = m
    OBVIOUS
<1> HIDE DEF m
<1>3. \E x \in {a, b} : \A y \in {a, b} : x =< y
    BY <1>1
<1> QED BY <1>2, <1>3 DEF Min, m

\* findNode stops neither too early nor too late: it returns as many of the listed
\* peers as asked for, or all of them, in every reachable table.
THEOREM FindNodeIsComplete == Spec => []FindNodeComplete
<1>1. IInv => FindNodeComplete
    <2> SUFFICES ASSUME TableOK(self, Contacts, table),
                        NEW key \in Id, NEW count \in 1 .. BIT_SIZE
                 PROVE  LET eligible == Peers(table) \ {key}
                            found == FindNode(self, table, key, count)
                        IN  /\ found \subseteq eligible
                            /\ Cardinality(found) = Min({count, Cardinality(eligible)})
        BY IInvIsTableOK DEF FindNodeComplete
    <2> DEFINE eligible == Peers(table) \ {key}
               found == FindNode(self, table, key, count)
    <2>1. count \in Nat
        BY KeyspaceAssumption
    <2>2. /\ found \subseteq eligible
          /\ Cardinality(found) =
                IF count <= Cardinality(eligible) THEN count ELSE Cardinality(eligible)
        BY <2>1, ContactsAreIds, FindNodeProperties
    <2>3. eligible \in SUBSET Id
        BY ContactsAreIds, PeersInContacts
    <2> HIDE DEF eligible, found
    <2>4. Cardinality(eligible) \in Nat
        BY <2>3, IdsAreFinite
    <2>5. Cardinality(found) = Min({count, Cardinality(eligible)})
        BY <2>1, <2>2, <2>4, MinOfTwo
    <2> QED BY <2>2, <2>5 DEF eligible, found
<1> QED BY <1>1, InductiveInvariant, PTL

\* findNode leaves out a peer of the key's own bucket only for closer ones.
THEOREM KeyBucketIsFirst == Spec => []KeyBucketFirst
<1>1. IInv => KeyBucketFirst
    <2> SUFFICES ASSUME TableOK(self, Contacts, table),
                        NEW key \in Id, NEW count \in 1 .. BIT_SIZE
                 PROVE  LET found == FindNode(self, table, key, count)
                        IN  \A p \in Range(BucketAt(table, BucketIndex(self, key))) \ {key} :
                               p \notin found => \A q \in found : Closer(q, p, key)
        BY IInvIsTableOK DEF KeyBucketFirst
    <2>1. count \in Nat
        BY KeyspaceAssumption
    <2> QED BY <2>1, ContactsAreIds, FindNodeProperties
<1> QED BY <1>1, InductiveInvariant, PTL

\* Only the closing of its own connection makes the table forget a peer.
THEOREM NobodyEvicted == Spec => NoEviction
<1>1. IInv /\ [Next]_vars =>
        [\A p \in Peers(table) : p \in Peers(table') \/ HandleTcpDisconnect(p)]_vars
    <2> SUFFICES ASSUME TableOK(self, Contacts, table), Next, NEW q \in Peers(table)
                 PROVE  q \in Peers(table') \/ HandleTcpDisconnect(q)
        BY IInvIsTableOK
    <2>1. ASSUME NEW p \in Contacts, UpdateTables(p) \/ ProbeAnswered(p)
          PROVE  q \in Peers(table')
        BY <2>1, ContactsAreIds, UpdatedProperties DEF UpdateTables, ProbeAnswered
    <2>2. ASSUME NEW p \in Contacts, HandleTcpDisconnect(p)
          PROVE  q \in Peers(table') \/ HandleTcpDisconnect(q)
        <3>1. Peers(table') = Peers(table) \ {p}
            BY <2>2, ContactsAreIds, RemovedProperties DEF HandleTcpDisconnect
        <3> QED BY <2>2, <3>1
    <2>3. ASSUME NEW p \in Contacts, ProbeTimeout(p)
          PROVE  q \in Peers(table')
        BY <2>3 DEF ProbeTimeout
    <2> QED BY <2>1, <2>2, <2>3 DEF Next
<1> QED BY <1>1, InductiveInvariant, PTL DEF Spec, NoEviction

\* A list of n entries has at most n distinct ones.
LEMMA RangeCardinality ==
    ASSUME NEW S, NEW b \in Seq(S)
    PROVE  IsFiniteSet(Range(b)) /\ Cardinality(Range(b)) <= Len(b)
<1>1. Len(b) \in Nat /\ DOMAIN b = 1 .. Len(b)
    BY LenProperties
<1>2. b \in Surjection(1 .. Len(b), Range(b))
    BY <1>1, SeqOfRange, LenProperties, ElementOfSeq DEF Surjection, Range
<1>3. IsFiniteSet(1 .. Len(b)) /\ Cardinality(1 .. Len(b)) <= Len(b)
    BY <1>1, FS_Interval
<1>4. IsFiniteSet(Range(b)) /\ Cardinality(Range(b)) <= Cardinality(1 .. Len(b))
    BY <1>2, <1>3, FS_Surjection
<1> QED BY <1>1, <1>3, <1>4, FS_CardinalityType

\* The operators that KnownPeers extends are those of this module.
LEMMA SameCardinality == \A S : Promise!Cardinality(S) = Cardinality(S)
BY DEF Promise!Cardinality, Cardinality

\* Both instances of the keyspace count the same buckets.
LEMMA SameBucketIndex == \A p, q : Promise!BucketIndex(p, q) = BucketIndex(p, q)
BY DEF Promise!BucketIndex, BucketIndex, Promise!XOR, XOR, Promise!Max, Max

\* The peers that KnownPeers counts are those of one bucket.
LEMMA PeersAtDistance ==
    ASSUME TableOK(self, Contacts, table), NEW p
    PROVE  Promise!AtDistanceOf(p) = Range(BucketAt(table, BucketIndex(self, p)))
<1>1. \A q : q \in Peers(table) <=> q \in Range(BucketAt(table, BucketIndex(self, q)))
    BY ContactsAreIds, KnownInHomeBucket
<1>2. \A q \in Range(BucketAt(table, BucketIndex(self, p))) :
          BucketIndex(self, q) = BucketIndex(self, p)
    BY DEF BucketAt, TableOK, BucketOK, Range
<1> QED BY <1>1, <1>2, SameBucketIndex DEF Promise!AtDistanceOf

\* The routing table implements a set of peers bounded at each distance that
\* nobody is evicted from.
THEOREM TableImplementsKnownPeers == Spec => ImplementsKnownPeers
<1>1. Init => Promise!Init
    BY DEF Init, EmptyTable, Promise!Init, Peers
<1>2. IInv /\ [Next]_vars => [Promise!Next]_(Peers(table))
    <2> SUFFICES ASSUME TableOK(self, Contacts, table), [Next]_vars
                 PROVE  Promise!Next \/ Peers(table') = Peers(table)
        BY IInvIsTableOK
    <2>1. ASSUME NEW p \in Contacts, table' = Updated(self, table, p)
          PROVE  Promise!Next \/ Peers(table') = Peers(table)
        <3> DEFINE b == BucketAt(table, BucketIndex(self, p))
        <3>1. CASE Peers(table') = Peers(table) \cup {p} /\ Len(b) < K_BUCKET_SIZE
            <4>1. b \in Seq(Contacts)
                BY ContactsAreIds, BucketAtOK DEF BucketOK
            <4>2. /\ IsFiniteSet(Range(b))
                  /\ Cardinality(Range(b)) <= Len(b)
                  /\ Len(b) \in Nat
                BY <4>1, RangeCardinality, LenProperties
            <4>3. Cardinality(Range(b)) < K_BUCKET_SIZE
                <5>1. Cardinality(Range(b)) \in Nat
                    BY <4>2, FS_CardinalityType
                <5> QED BY <3>1, <4>2, <5>1, KBucketAssumption
            <4>4. Promise!Learn(p)
                BY <3>1, <4>3, PeersAtDistance, SameCardinality DEF Promise!Learn
            <4> QED BY <4>4 DEF Promise!Next
        <3> DEFINE t == Updated(self, table, p)
        <3>2. \/ Peers(t) = Peers(table)
              \/ Peers(t) = Peers(table) \cup {p} /\ Len(b) < K_BUCKET_SIZE
            BY ContactsAreIds, UpdatedProperties
        <3>3. table' = t
            BY <2>1
        <3> HIDE DEF t
        <3> QED BY <3>1, <3>2, <3>3
    <2>2. ASSUME NEW p \in Contacts, HandleTcpDisconnect(p)
          PROVE  Promise!Next
        <3>1. Peers(table') = Peers(table) \ {p} /\ p # self
            BY <2>2, ContactsAreIds, RemovedProperties DEF HandleTcpDisconnect
        <3> QED BY <3>1 DEF Promise!Next, Promise!Forget
    <2>3. CASE table' = table
        BY <2>3
    <2> QED BY <2>1, <2>2, <2>3
            DEF Next, vars, UpdateTables, ProbeAnswered, ProbeTimeout
<1> QED BY <1>1, <1>2, InductiveInvariant, PTL
        DEF Spec, ImplementsKnownPeers, Promise!Spec
=============================================================================
