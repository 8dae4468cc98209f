--------------------------- MODULE DiscoveryProofs ---------------------------
(***************************************************************************)
(* Proofs about Discovery, for every set of nodes, bucket size, number of  *)
(* peers addressed at a time, traffic, rounds and restarts.                *)
(***************************************************************************)
EXTENDS Discovery, TableLemmas

(***************************************************************************)
(* Operators of the model                                                  *)
(***************************************************************************)

\* The list that the sort makes has members of the set only.
LEMMA SortedIsSeq ==
    ASSUME NEW key \in Id, NEW S \in SUBSET Id
    PROVE  Sorted(S, key) \in Seq(S)
<1> DEFINE N == Cardinality(S)
           Ranked(p, i) == Cardinality({q \in S : Closer(q, p, key)}) = i - 1
<1>1. N \in Nat
    BY IdsAreFinite
<1>2. \A i \in 1 .. N : \E p \in S : Ranked(p, i)
    <2> SUFFICES ASSUME NEW i \in 1 .. N PROVE \E p \in S : Ranked(p, i)
        OBVIOUS
    <2>1. i - 1 \in 0 .. N - 1
        BY <1>1
    <2> QED BY <2>1, RanksAreTaken DEF Before
<1>3. Sorted(S, key) = [i \in 1 .. N |-> CHOOSE p \in S : Ranked(p, i)]
    BY DEF Sorted
<1> HIDE DEF N, Ranked
<1>4. Sorted(S, key) \in [1 .. N -> S]
    BY <1>2, <1>3
<1> QED BY <1>1, <1>4, IsASeq

\* findNode names nodes, and never the one whose id it was given.
LEMMA NearestIsSeq ==
    ASSUME NEW n \in Node, NEW tbl, TableOK(n, Node, tbl), NEW key \in Node
    PROVE  Nearest(n, tbl, key) \in Seq(Node \ {key})
<1> DEFINE found == FindNode(n, tbl, key, ALPHA)
<1>1. n \in Id /\ key \in Id /\ Node \in SUBSET Id /\ ALPHA \in Nat
    BY DiscoveryAssumption
<1>2. found \subseteq Peers(tbl) \ {key} /\ Peers(tbl) \subseteq Node
    BY <1>1, FindNodeProperties, PeersInContacts
<1> HIDE DEF found
<1>3. Sorted(found, key) \in Seq(found)
    BY <1>1, <1>2, SortedIsSeq
<1>4. found \subseteq Node \ {key}
    BY <1>2
<1>5. Sorted(found, key) \in Seq(Node \ {key})
    BY <1>3, <1>4, SeqMonotonic
<1> QED BY <1>5 DEF Nearest, found

\* A set with 0 and the successor of each of its numbers has all numbers.
LEMMA NumbersFrom0 ==
    ASSUME NEW S, 0 \in S, \A k \in Nat : k \in S => k + 1 \in S
    PROVE  Nat \subseteq S
<1> DEFINE R == {ss \in Nat \X Nat : ss[1] < ss[2]}
           T == Nat \ S
<1> SUFFICES ASSUME T # {} PROVE FALSE
    OBVIOUS
<1>1. \E t \in T : \A u \in T : ~ (<<u, t>> \in R)
    <2>1. T \subseteq Nat /\ \E t : t \in T
        OBVIOUS
    <2>2. IsWellFoundedOn(R, Nat)
        BY NatOrderWellFounded
    <2> HIDE DEF R, T
    <2> QED BY <2>1, <2>2, WFMin
<1>2. PICK t \in T : \A u \in T : ~ (<<u, t>> \in R)
    BY <1>1
<1>3. t # 0 /\ t - 1 \in Nat /\ t - 1 < t
    OBVIOUS
<1>4. t - 1 \in S
    BY <1>2, <1>3
<1>5. (t - 1) + 1 \in S
    BY <1>3, <1>4
<1> QED BY <1>5

\* The stages of updateTables in one bucket: what it is after the first k contacts.
Stages(n, tbl, contacts, i, f) ==
    f = [k \in 0 .. Len(contacts) |->
            IF k = 0 THEN BucketAt(tbl, i)
            ELSE IF BucketIndex(n, contacts[k]) # i THEN f[k - 1]
            ELSE UpdateBucketNode(n, f[k - 1], contacts[k])]

\* There are such stages: the recursion of UpdatedBucket defines a function.
LEMMA StagesExist ==
    ASSUME NEW n, NEW tbl, NEW contacts, Len(contacts) \in Nat, NEW i
    PROVE  \E f : Stages(n, tbl, contacts, i, f)
<1> DEFINE b == BucketAt(tbl, i)
           U(k, c) == IF BucketIndex(n, contacts[k]) # i THEN c
                      ELSE UpdateBucketNode(n, c, contacts[k])
           Up(m, f) == f = [k \in 0 .. m |-> IF k = 0 THEN b ELSE U(k, f[k - 1])]
           S == {m \in Nat : \E f : Up(m, f)}
<1>1. \A m, f : Up(m, f) <=> f = [k \in 0 .. m |-> IF k = 0 THEN b ELSE U(k, f[k - 1])]
    OBVIOUS
<1>2. \A f : Stages(n, tbl, contacts, i, f) <=> Up(Len(contacts), f)
    BY DEF Stages
<1> HIDE DEF b, U, Up
<1>3. 0 \in S
    <2> DEFINE f == [k \in 0 .. 0 |-> b]
    <2>1. f = [k \in 0 .. 0 |-> IF k = 0 THEN b ELSE U(k, f[k - 1])]
        OBVIOUS
    <2> HIDE DEF f
    <2>2. Up(0, f)
        BY <1>1, <2>1
    <2> QED BY <2>2
<1>4. ASSUME NEW m \in Nat, m \in S PROVE m + 1 \in S
    <2>1. PICK f : Up(m, f)
        BY <1>4
    <2>2. f = [k \in 0 .. m |-> IF k = 0 THEN b ELSE U(k, f[k - 1])]
        BY <1>1, <2>1
    <2> DEFINE g == [k \in 0 .. m + 1 |-> IF k <= m THEN f[k] ELSE U(k, f[k - 1])]
               h == [k \in 0 .. m + 1 |-> IF k = 0 THEN b ELSE U(k, g[k - 1])]
    <2>3. \A k \in 0 .. m + 1 : g[k] = h[k]
        <3> SUFFICES ASSUME NEW k \in 0 .. m + 1 PROVE g[k] = h[k]
            OBVIOUS
        <3>1. CASE k = 0
            BY <2>2, <3>1
        <3>2. CASE k # 0 /\ k <= m
            <4>1. k \in 0 .. m /\ k - 1 \in 0 .. m + 1 /\ k - 1 <= m
                BY <3>2
            <4>2. f[k] = U(k, f[k - 1])
                BY <2>2, <3>2, <4>1
            <4>3. g[k - 1] = f[k - 1] /\ g[k] = f[k] /\ h[k] = U(k, g[k - 1])
                BY <3>2, <4>1
            <4> QED BY <4>2, <4>3
        <3>3. CASE k # 0 /\ ~ (k <= m)
            <4>1. k - 1 \in 0 .. m + 1 /\ k - 1 <= m
                BY <3>3
            <4>2. g[k - 1] = f[k - 1] /\ g[k] = U(k, f[k - 1]) /\ h[k] = U(k, g[k - 1])
                BY <3>3, <4>1
            <4> QED BY <4>2
        <3> QED BY <3>1, <3>2, <3>3
    <2>4. g = h
        <3>1. DOMAIN g = 0 .. m + 1 /\ DOMAIN h = 0 .. m + 1
            OBVIOUS
        <3>2. g = [k \in 0 .. m + 1 |-> g[k]] /\ h = [k \in 0 .. m + 1 |-> h[k]]
            OBVIOUS
        <3> HIDE DEF g, h
        <3> QED BY <2>3, <3>2
    <2>5. g = [k \in 0 .. m + 1 |-> IF k = 0 THEN b ELSE U(k, g[k - 1])]
        BY <2>4
    <2> HIDE DEF g
    <2>6. Up(m + 1, g)
        BY <1>1, <2>5
    <2> QED BY <2>6
<1>5. Len(contacts) \in S
    <2> HIDE DEF S
    <2> QED BY <1>3, <1>4, NumbersFrom0
<1> QED BY <1>2, <1>5

\* A bucket that a list of contacts is reported to forgets nobody and gains contacts
\* only.
LEMMA UpdatedBucketGrows ==
    ASSUME NEW n \in Node, NEW tbl, TableOK(n, Node, tbl), NEW contacts \in Seq(Node),
           NEW i \in Indices
    PROVE  LET b == BucketAt(tbl, i)
               u == UpdatedBucket(n, tbl, contacts, i)
           IN  /\ BucketOK(n, Node, i, u)
               /\ Range(b) \subseteq Range(u) /\ Range(u) \subseteq Range(b) \cup Range(contacts)
               /\ Len(b) <= Len(u)
<1> DEFINE N == Len(contacts)
           b == BucketAt(tbl, i)
           f == CHOOSE f : Stages(n, tbl, contacts, i, f)
           Fine(c) == /\ BucketOK(n, Node, i, c)
                      /\ Range(b) \subseteq Range(c)
                      /\ Range(c) \subseteq Range(b) \cup Range(contacts)
                      /\ Len(b) <= Len(c)
           S == {k \in Nat : k <= N => Fine(f[k])}
<1>1. N \in Nat /\ Node \in SUBSET Id /\ n \in Id
    BY LenProperties, DiscoveryAssumption
<1>2. UpdatedBucket(n, tbl, contacts, i) = f[N]
    BY DEF UpdatedBucket, Stages
<1>3. Stages(n, tbl, contacts, i, f)
    BY <1>1, StagesExist
<1> HIDE DEF f
<1>4. /\ f[0] = b
      /\ \A k \in 1 .. N :
            f[k] = IF BucketIndex(n, contacts[k]) # i THEN f[k - 1]
                   ELSE UpdateBucketNode(n, f[k - 1], contacts[k])
    <2> HIDE DEF b, N
    <2>1. f = [k \in 0 .. N |->
                  IF k = 0 THEN b
                  ELSE IF BucketIndex(n, contacts[k]) # i THEN f[k - 1]
                  ELSE UpdateBucketNode(n, f[k - 1], contacts[k])]
        BY <1>3 DEF Stages, b, N
    <2>2. 0 \in 0 .. N /\ \A k \in 1 .. N : k \in 0 .. N /\ k # 0
        BY <1>1
    <2> QED BY <2>1, <2>2
<1>5. BucketOK(n, Node, i, b)
    <2>1. BucketOK(n, Node, i, <<>>)
        BY KBucketAssumption DEF BucketOK, IsInjective, Range
    <2> QED BY <2>1 DEF TableOK, BucketAt
<1>6. 0 \in S
    <2> HIDE DEF b
    <2>1. Len(b) \in Nat
        BY <1>5, LenProperties DEF BucketOK
    <2> QED BY <1>4, <1>5, <2>1
<1>7. ASSUME NEW k \in Nat, k \in S PROVE k + 1 \in S
    <2> SUFFICES ASSUME k + 1 <= N PROVE Fine(f[k + 1])
        OBVIOUS
    <2>1. Fine(f[k]) /\ k + 1 \in 1 .. N /\ (k + 1) - 1 = k
        BY <1>1, <1>7
    <2> DEFINE c == contacts[k + 1]
    <2>2. c \in Node /\ c \in Range(contacts)
        BY <2>1, ElementOfSeq, LenProperties DEF Range
    <2>3. f[k + 1] = IF BucketIndex(n, c) # i THEN f[k] ELSE UpdateBucketNode(n, f[k], c)
        BY <1>4, <2>1
    <2>4. CASE BucketIndex(n, c) # i
        BY <2>1, <2>3, <2>4
    <2>5. CASE BucketIndex(n, c) = i
        <3> HIDE DEF b, c
        <3> DEFINE u == UpdateBucketNode(n, f[k], c)
        <3>1. /\ BucketOK(n, Node, i, u)
              /\ Range(f[k]) \subseteq Range(u) /\ Range(u) \subseteq Range(f[k]) \cup {c}
              /\ Len(f[k]) <= Len(u)
            BY <1>1, <2>1, <2>2, <2>5, BucketGrows
        <3> HIDE DEF u
        <3>2. Len(b) \in Nat /\ Len(f[k]) \in Nat /\ Len(u) \in Nat
            BY <1>5, <2>1, <3>1, LenProperties DEF BucketOK
        <3>3. f[k + 1] = u
            BY <2>3, <2>5 DEF u
        <3> QED BY <2>1, <2>2, <3>1, <3>2, <3>3
    <2> QED BY <2>4, <2>5
<1>8. N \in S
    <2> HIDE DEF S
    <2> QED BY <1>1, <1>6, <1>7, NumbersFrom0
<1> QED BY <1>1, <1>2, <1>8

\* updateTables of the peers that answered forgets nobody and adds these peers only.
LEMMA UpdatedAllGrows ==
    ASSUME NEW n \in Node, NEW tbl, TableOK(n, Node, tbl), NEW contacts \in Seq(Node)
    PROVE  LET u == UpdatedAll(n, tbl, contacts)
           IN  Grown(n, Node, tbl, u) /\ Peers(u) \subseteq Peers(tbl) \cup Range(contacts)
<1> DEFINE u == UpdatedAll(n, tbl, contacts)
           D == DOMAIN tbl \cup {BucketIndex(n, c) : c \in Range(contacts)}
<1>1. D \subseteq Indices
    <2>1. \A c \in Range(contacts) : BucketIndex(n, c) \in Indices
        BY RangeOfSeq, DiscoveryAssumption, BucketIndexProperties
    <2> QED BY <2>1 DEF TableOK
<1>2. DOMAIN u = D /\ \A i \in D : u[i] = UpdatedBucket(n, tbl, contacts, i)
    BY DEF UpdatedAll
<1>3. DOMAIN tbl \subseteq D
    OBVIOUS
<1> HIDE DEF D, u
<1>4. \A i \in D :
          /\ BucketOK(n, Node, i, u[i])
          /\ Range(BucketAt(tbl, i)) \subseteq Range(u[i])
          /\ Range(u[i]) \subseteq Range(BucketAt(tbl, i)) \cup Range(contacts)
          /\ Len(BucketAt(tbl, i)) <= Len(u[i])
    BY <1>1, <1>2, UpdatedBucketGrows
<1>5. \A i : Range(BucketAt(tbl, i)) \subseteq Peers(tbl)
    <2>1. Range(<<>>) = {}
        BY DEF Range
    <2> QED BY <2>1 DEF BucketAt, Peers
<1>6. TableOK(n, Node, u)
    BY <1>1, <1>2, <1>4 DEF TableOK
<1>7. Peers(u) \subseteq Peers(tbl) \cup Range(contacts)
    BY <1>2, <1>4, <1>5 DEF Peers
<1>8. Peers(tbl) \subseteq Peers(u)
    BY <1>2, <1>3, <1>4 DEF Peers, BucketAt
<1>9. \A i \in Indices : Len(BucketAt(tbl, i)) <= Len(BucketAt(u, i))
    <2> SUFFICES ASSUME NEW i \in Indices PROVE Len(BucketAt(tbl, i)) <= Len(BucketAt(u, i))
        OBVIOUS
    <2>1. CASE i \in D
        BY <1>2, <1>4, <2>1 DEF BucketAt
    <2>2. CASE i \notin D
        <3>1. BucketAt(tbl, i) = <<>> /\ BucketAt(u, i) = <<>>
            BY <1>2, <1>3, <2>2 DEF BucketAt
        <3> QED BY <3>1
    <2> QED BY <2>1, <2>2
<1> QED BY <1>6, <1>7, <1>8, <1>9 DEF Grown, u

(***************************************************************************)
(* The invariant                                                           *)
(***************************************************************************)

Tables ==
    /\ DOMAIN table = Node
    /\ \A n \in Node : TableOK(n, Node, table[n])

Round == [id : Nat, node : Node, shortlist : Seq(Node), contacts : Seq(Node),
          iteration : Nat, waiting : SUBSET Nat, closer : BOOLEAN]

\* A slice that has named somebody closer has had an answer, and the first answer
\* of a slice is a new contact.
Gaining(r) ==
    \/ /\ ~ r.closer
       /\ r.iteration <= Len(r.contacts)
       /\ \A i \in r.waiting : r.shortlist[i] \notin Range(r.contacts)
    \/ r.iteration < Len(r.contacts)

Going(r) ==
    /\ r \in Round
    /\ r.waiting # {} /\ r.waiting \subseteq Slice(r)
    /\ Gaining(r)

Rounds ==
    /\ started \in 0 .. MaxRounds
    /\ \A r \in rounds : Going(r) /\ r.id < started
    /\ \A r, q \in rounds : r.id = q.id => r = q

\* A message with the number of a round in progress is about one of its queries.
About(m, r) ==
    /\ m.id[2] \in DOMAIN r.shortlist
    /\ m.type = "FIND_NODE" => m.from = r.node /\ m.to = r.shortlist[m.id[2]]
    /\ m.type = "REPLY" => m.to = r.node /\ m.from = r.shortlist[m.id[2]]

Datagram(m) ==
    /\ m.from \in Node /\ m.to \in Node /\ m.id[1] \in Nat
    /\ m.type \in {"FIND_NODE", "REPLY"}
    /\ m.type = "REPLY" => m.nodes \in Seq(Node \ {m.to})

Datagrams ==
    \A m \in network :
       /\ Datagram(m) /\ m.id[1] < started
       /\ \A r \in rounds : r.id = m.id[1] => About(m, r)

Hearing ==
    /\ heard \in [Node -> SUBSET Node]
    /\ \A n \in Node : Peers(table[n]) \subseteq heard[n] \cup {BootstrapId}
    /\ \A r \in rounds : Range(r.contacts) \subseteq heard[r.node]

\* Whoever has answered has met the node that asked.
Meeting ==
    /\ \A r \in rounds : \A c \in Range(r.contacts) :
          /\ c \notin shrunk => Met(c, table[c], r.node)
          /\ r.node \notin shrunk => Met(r.node, table[r.node], c)
    /\ \A m \in network :
          m.type = "REPLY" /\ m.from \notin shrunk => Met(m.from, table[m.from], m.to)

Known(n, p) == p \in Peers(table[n]) \/ <<n, p>> \in cutOff

\* A peer that is dialled, or connected, is listed until a connection closes.
Links ==
    /\ connections \in [Node -> SUBSET Node]
    /\ \A e \in connecting \cup open \cup closing : e \in Node \X Node \X Nat /\ e[1] # e[2]
    /\ \A e \in connecting : Known(e[1], e[2])
    /\ \A n \in Node : n \notin connections[n] /\ \A p \in connections[n] : Known(n, p)
    /\ restarts \in 0 .. MaxRestarts

IInv == Tables /\ Rounds /\ Datagrams /\ Hearing /\ Meeting /\ Links

(***************************************************************************)
(* What a round does                                                       *)
(***************************************************************************)

\* Round r, which has become s, ends or goes on as one of new, once the tables of its
\* node have become tbl and sent is in the network; its table becomes u.
GoesTo(r, s, tbl, sent, u, new) ==
    /\ rounds' = (rounds \ {r}) \cup new
    /\ \A q \in new : /\ Going(q) /\ q.id = s.id /\ q.node = s.node
                      /\ q.shortlist = s.shortlist /\ q.contacts = s.contacts
    /\ \A p, q \in new : p = q
    /\ table' = [table EXCEPT ![r.node] = u]
    /\ Grown(r.node, Node, tbl, u)
    /\ Peers(u) \subseteq Peers(tbl) \cup Range(s.contacts)
    /\ \A m \in network' :
          \/ m \in sent
          \/ /\ m.type = "FIND_NODE" /\ m.id[1] = s.id
             /\ m.id[2] \in DOMAIN s.shortlist
             /\ m.from = s.node /\ m.to = s.shortlist[m.id[2]]
    /\ connecting' \subseteq connecting \cup Dialled(r, u)
    /\ UNCHANGED <<open, closing, connections, cutOff, restarts, shrunk>>

Goes(r, s, tbl, sent) == \E u, new : GoesTo(r, s, tbl, sent, u, new)

\* A table does not shrink by staying as it is.
LEMMA GrownSame ==
    ASSUME NEW n \in Node, NEW tbl, TableOK(n, Node, tbl)
    PROVE  Grown(n, Node, tbl, tbl)
<1>1. \A i : Len(BucketAt(tbl, i)) \in Nat
    BY TableLengths
<1> QED BY <1>1 DEF Grown

\* The end of a round.
LEMMA EndRoundGoes ==
    ASSUME NEW r, r.node \in Node, NEW s, s.contacts \in Seq(Node),
           NEW tbl, TableOK(r.node, Node, tbl), NEW sent,
           EndRound(r, s, tbl, sent)
    PROVE  Goes(r, s, tbl, sent)
<1> DEFINE u == UpdatedAll(r.node, tbl, s.contacts)
<1>1. /\ rounds' = (rounds \ {r}) \cup {}
      /\ table' = [table EXCEPT ![r.node] = u]
      /\ connecting' = connecting \cup Dialled(r, u)
      /\ network' = sent
      /\ UNCHANGED <<open, closing, connections, cutOff, restarts, shrunk>>
    BY DEF EndRound
<1>2. Grown(r.node, Node, tbl, u) /\ Peers(u) \subseteq Peers(tbl) \cup Range(s.contacts)
    BY UpdatedAllGrows
<1> HIDE DEF u
<1>3. GoesTo(r, s, tbl, sent, u, {})
    BY <1>1, <1>2 DEF GoesTo
<1> QED BY <1>3 DEF Goes

\* A slice is asked, or there is nobody to ask.
LEMMA SearchGoes ==
    ASSUME NEW r, r.node \in Node, NEW s \in Round, s.node = r.node,
           s.iteration <= Len(s.contacts),
           NEW tbl, TableOK(r.node, Node, tbl), NEW sent,
           Search(r, s, tbl, sent)
    PROVE  Goes(r, s, tbl, sent)
<1>0. s.contacts \in Seq(Node) /\ s.shortlist \in Seq(Node)
    BY DEF Round
<1>1. CASE Asked(s) = {}
    BY <1>0, <1>1, EndRoundGoes DEF Search
<1>2. CASE Asked(s) # {}
    <2> DEFINE q == [s EXCEPT !.waiting = Asked(s), !.closer = FALSE]
               asked == {[type |-> "FIND_NODE", id |-> <<s.id, i>>, from |-> s.node,
                          to |-> s.shortlist[i]] : i \in Asked(s)}
    <2>1. /\ rounds' = (rounds \ {r}) \cup {q}
          /\ table' = [table EXCEPT ![r.node] = tbl]
          /\ network' = sent \cup asked
          /\ UNCHANGED <<links, restarts, shrunk>>
        BY <1>2 DEF Search
    <2>2. Asked(s) \subseteq Slice(s) /\ Slice(s) \subseteq DOMAIN s.shortlist
        BY DEF Asked, Slice
    <2>3. DOMAIN s.shortlist \subseteq Nat
        BY <1>0, LenProperties
    <2>4. /\ q \in Round /\ q.id = s.id /\ q.node = s.node /\ q.iteration = s.iteration
          /\ q.shortlist = s.shortlist /\ q.contacts = s.contacts
          /\ q.waiting = Asked(s) /\ ~ q.closer
        BY <2>2, <2>3 DEF Round
    <2> HIDE DEF q
    <2>5. Slice(q) = Slice(s)
        BY <2>4 DEF Slice
    <2>6. Gaining(q)
        BY <2>4 DEF Gaining, Asked
    <2>7. Going(q)
        BY <1>2, <2>2, <2>4, <2>5, <2>6 DEF Going
    <2>8. \A m \in asked :
             /\ m.type = "FIND_NODE" /\ m.id[1] = s.id
             /\ m.id[2] \in DOMAIN s.shortlist
             /\ m.from = s.node /\ m.to = s.shortlist[m.id[2]]
        BY <2>2
    <2> HIDE DEF asked
    <2>9. Grown(r.node, Node, tbl, tbl)
        BY GrownSame
    <2>10. GoesTo(r, s, tbl, sent, tbl, {q})
        BY <2>1, <2>4, <2>7, <2>8, <2>9 DEF GoesTo, links
    <2> QED BY <2>10 DEF Goes
<1> QED BY <1>1, <1>2

\* One of the queries has settled.
LEMMA ProceedGoes ==
    ASSUME NEW r, r.node \in Node, NEW s \in Round, s.node = r.node,
           s.waiting \subseteq Slice(s), Gaining(s),
           NEW tbl, TableOK(r.node, Node, tbl), NEW sent,
           Proceed(r, s, tbl, sent)
    PROVE  Goes(r, s, tbl, sent)
<1>0. s.contacts \in Seq(Node) /\ Len(s.contacts) \in Nat /\ s.iteration \in Nat
    BY LenProperties DEF Round
<1>1. CASE /\ s.waiting # {}
           /\ rounds' = (rounds \ {r}) \cup {s}
           /\ table' = [table EXCEPT ![r.node] = tbl]
           /\ network' = sent
           /\ UNCHANGED <<links, restarts, shrunk>>
    <2>1. Going(s)
        BY <1>1 DEF Going
    <2>2. Grown(r.node, Node, tbl, tbl)
        BY GrownSame
    <2>3. GoesTo(r, s, tbl, sent, tbl, {s})
        BY <1>1, <2>1, <2>2 DEF GoesTo, links
    <2> QED BY <2>3 DEF Goes
<1>2. CASE s.closer /\ Search(r, [s EXCEPT !.iteration = @ + 1], tbl, sent)
    <2> DEFINE q == [s EXCEPT !.iteration = @ + 1]
    <2>1. /\ q \in Round /\ q.iteration = s.iteration + 1
          /\ q.id = s.id /\ q.node = s.node
          /\ q.shortlist = s.shortlist /\ q.contacts = s.contacts
        BY DEF Round
    <2>2. s.iteration + 1 <= Len(s.contacts)
        BY <1>0, <1>2 DEF Gaining
    <2>3. Search(r, q, tbl, sent)
        BY <1>2
    <2> HIDE DEF q
    <2>4. Goes(r, q, tbl, sent)
        BY <2>1, <2>2, <2>3, SearchGoes
    <2>5. PICK u, new : GoesTo(r, q, tbl, sent, u, new)
        BY <2>4 DEF Goes
    <2>6. GoesTo(r, s, tbl, sent, u, new)
        BY <2>1, <2>5 DEF GoesTo
    <2> QED BY <2>6 DEF Goes
<1>3. CASE EndRound(r, s, tbl, sent)
    BY <1>0, <1>3, EndRoundGoes
<1> QED BY <1>1, <1>2, <1>3 DEF Proceed

\* A query settles without an answer.
LEMMA UnansweredGoesOn ==
    ASSUME NEW r, Going(r), NEW i
    PROVE  LET s == [r EXCEPT !.waiting = @ \ {i}]
           IN  /\ s \in Round /\ s.id = r.id /\ s.node = r.node
               /\ s.shortlist = r.shortlist /\ s.contacts = r.contacts
               /\ s.waiting \subseteq Slice(s) /\ Gaining(s)
<1> DEFINE s == [r EXCEPT !.waiting = @ \ {i}]
<1>1. /\ s \in Round /\ s.id = r.id /\ s.node = r.node
      /\ s.shortlist = r.shortlist /\ s.contacts = r.contacts /\ s.iteration = r.iteration
      /\ s.waiting = r.waiting \ {i} /\ s.closer = r.closer
    BY DEF Going, Round
<1> HIDE DEF s
<1>2. Slice(s) = Slice(r)
    BY <1>1 DEF Slice
<1>3. s.waiting \subseteq Slice(s) /\ Gaining(s)
    BY <1>1, <1>2 DEF Going, Gaining
<1> QED BY <1>1, <1>3 DEF s

\* A query is answered: the first answer of a slice is from a new contact.
LEMMA AnsweredGoesOn ==
    ASSUME NEW r, Going(r), NEW i \in r.waiting, NEW nodes \in Seq(Node)
    PROVE  LET s == Answered(r, i, nodes)
           IN  /\ s \in Round /\ s.id = r.id /\ s.node = r.node
               /\ Range(s.contacts) = Range(r.contacts) \cup {r.shortlist[i]}
               /\ \A j \in DOMAIN r.shortlist :
                     j \in DOMAIN s.shortlist /\ s.shortlist[j] = r.shortlist[j]
               /\ s.waiting \subseteq Slice(s) /\ Gaining(s)
<1> DEFINE s == Answered(r, i, nodes)
           p == r.shortlist[i]
           c == IF p \in Range(r.contacts) THEN r.contacts ELSE Append(r.contacts, p)
           near == \E q \in Range(nodes) :
                      BucketIndex(r.node, q) < BucketIndex(r.node, r.shortlist[1])
           closer == r.closer \/ near
<1>1. r \in Round /\ r.contacts \in Seq(Node) /\ r.shortlist \in Seq(Node) /\ r.iteration \in Nat
    BY DEF Going, Round
<1>2. Slice(r) \subseteq DOMAIN r.shortlist
    BY DEF Slice
<1>3. i \in DOMAIN r.shortlist /\ p \in Node
    BY <1>1, <1>2, ElementOfSeq, LenProperties DEF Going
<1>4. s = [r EXCEPT !.waiting = @ \ {i}, !.contacts = c, !.shortlist = @ \o nodes,
                    !.closer = closer]
    BY DEF Answered
<1>5. closer \in BOOLEAN
    OBVIOUS
<1> HIDE DEF s, p, closer
<1>6. /\ c \in Seq(Node) /\ Range(c) = Range(r.contacts) \cup {p}
      /\ Len(c) \in Nat /\ Len(r.contacts) \in Nat
      /\ p \notin Range(r.contacts) => Len(c) = Len(r.contacts) + 1
      /\ p \in Range(r.contacts) => c = r.contacts
    <2>1. CASE p \in Range(r.contacts)
        BY <1>1, <2>1, LenProperties
    <2>2. CASE p \notin Range(r.contacts)
        <3> DEFINE o == r.contacts
        <3>1. /\ Append(o, p) \in Seq(Node) /\ Len(Append(o, p)) = Len(o) + 1
              /\ DOMAIN Append(o, p) = 1 .. Len(o) + 1 /\ DOMAIN o = 1 .. Len(o)
              /\ \A j \in 1 .. Len(o) : Append(o, p)[j] = o[j]
              /\ Append(o, p)[Len(o) + 1] = p /\ Len(o) \in Nat
            BY <1>1, <1>3, AppendProperties, LenProperties
        <3> HIDE DEF o
        <3>2. \A j \in 1 .. Len(o) + 1 : Append(o, p)[j] \in Range(o) \cup {p}
            BY <3>1 DEF Range
        <3>3. \A q \in Range(o) \cup {p} : \E j \in 1 .. Len(o) + 1 : Append(o, p)[j] = q
            <4>1. \A q \in Range(o) : \E j \in 1 .. Len(o) : o[j] = q
                BY <3>1 DEF Range
            <4>2. 1 .. Len(o) \subseteq 1 .. Len(o) + 1 /\ Len(o) + 1 \in 1 .. Len(o) + 1
                BY <3>1
            <4> QED BY <3>1, <4>1, <4>2
        <3>4. Range(Append(o, p)) = Range(o) \cup {p}
            BY <3>1, <3>2, <3>3 DEF Range
        <3> QED BY <2>2, <3>1, <3>4 DEF o
    <2> QED BY <2>1, <2>2
<1> HIDE DEF c
<1> DEFINE l == r.shortlist \o nodes
<1>7. /\ l \in Seq(Node)
      /\ \A j \in DOMAIN r.shortlist : j \in DOMAIN l /\ l[j] = r.shortlist[j]
    <2> DEFINE o == r.shortlist
    <2>1. /\ o \o nodes \in Seq(Node) /\ Len(o \o nodes) = Len(o) + Len(nodes)
          /\ \A j \in 1 .. Len(o) + Len(nodes) :
                (o \o nodes)[j] = IF j <= Len(o) THEN o[j] ELSE nodes[j - Len(o)]
        BY <1>1, ConcatProperties
    <2>2. Len(o) \in Nat /\ Len(nodes) \in Nat /\ DOMAIN o = 1 .. Len(o)
          /\ DOMAIN (o \o nodes) = 1 .. Len(o) + Len(nodes)
        BY <1>1, <2>1, LenProperties
    <2> HIDE DEF o
    <2> QED BY <2>1, <2>2 DEF o
<1> HIDE DEF l
<1>8. /\ s \in Round /\ s.id = r.id /\ s.node = r.node /\ s.iteration = r.iteration
      /\ s.shortlist = l /\ s.contacts = c /\ s.waiting = r.waiting \ {i} /\ s.closer = closer
    BY <1>1, <1>4, <1>5, <1>6, <1>7 DEF Round, l
<1>9. Slice(r) \subseteq Slice(s)
    BY <1>7, <1>8 DEF Slice
<1>10. Gaining(s)
    <2>1. p \notin Range(r.contacts) => s.iteration < Len(s.contacts)
        BY <1>1, <1>6, <1>8 DEF Going, Gaining
    <2>2. p \in Range(r.contacts) => s.iteration < Len(s.contacts)
        BY <1>6, <1>8 DEF Going, Gaining, p
    <2> QED BY <2>1, <2>2 DEF Gaining
<1>11. s.waiting \subseteq Slice(s)
    BY <1>8, <1>9 DEF Going
<1> QED BY <1>6, <1>7, <1>8, <1>10, <1>11 DEF s, p

(***************************************************************************)
(* The steps                                                               *)
(***************************************************************************)

\* No table shrinks in the step.
Growth ==
    /\ DOMAIN table' = Node
    /\ \A n \in Node : Grown(n, Node, table[n], table'[n])

\* Then whoever is listed, or has been met, stays so.
LEMMA GrowthKeeps ==
    ASSUME Tables, Growth
    PROVE  /\ Tables'
           /\ \A n \in Node : Peers(table[n]) \subseteq Peers(table'[n])
           /\ \A n, p \in Node : Met(n, table[n], p) => Met(n, table'[n], p)
<1>1. Tables' /\ \A n \in Node : Peers(table[n]) \subseteq Peers(table'[n])
    BY DEF Tables, Growth, Grown
<1>2. ASSUME NEW n \in Node, NEW p \in Node, Met(n, table[n], p)
      PROVE  Met(n, table'[n], p)
    <2> DEFINE t == table[n]
               u == table'[n]
    <2>1. n \in Id /\ p \in Id /\ Node \in SUBSET Id
        BY DiscoveryAssumption
    <2>2. TableOK(n, Node, t) /\ Grown(n, Node, t, u) /\ Met(n, t, p)
        BY <1>2 DEF Tables, Growth
    <2> HIDE DEF t, u
    <2>3. Met(n, u, p)
        BY <2>1, <2>2, GrownFurther
    <2> QED BY <2>3 DEF u
<1> QED BY <1>1, <1>2

\* One table has grown, and the others are as they were.
LEMMA OneGrows ==
    ASSUME Tables, NEW n \in Node, NEW u, Grown(n, Node, table[n], u),
           table' = [table EXCEPT ![n] = u]
    PROVE  Growth /\ table'[n] = u /\ \A p \in Node : p # n => table'[p] = table[p]
<1>1. /\ DOMAIN table' = Node /\ table'[n] = u
      /\ \A p \in Node : p # n => table'[p] = table[p]
    BY DEF Tables
<1>2. \A p \in Node : Grown(p, Node, table[p], table[p])
    BY GrownSame DEF Tables
<1>3. \A p \in Node : Grown(p, Node, table[p], table'[p])
    BY <1>1, <1>2
<1> QED BY <1>1, <1>3 DEF Growth

\* Connections are to listed peers while no table shrinks and only listed peers are
\* dialled.
LEMMA LinksKept ==
    ASSUME Tables, Links, Growth,
           UNCHANGED <<open, closing, connections, cutOff, restarts>>,
           \A e \in connecting' :
              \/ e \in connecting
              \/ \E r : r.node \in Node /\ r.id \in Nat /\ e \in Dialled(r, table'[r.node])
    PROVE  Links'
<1>1. /\ \A n \in Node : Peers(table[n]) \subseteq Peers(table'[n])
      /\ \A n \in Node : Peers(table'[n]) \subseteq Node
    BY GrowthKeeps, PeersInContacts DEF Tables
<1>2. \A n \in Node : \A p : Known(n, p) => Known(n, p)'
    BY <1>1 DEF Known
<1>3. ASSUME NEW e \in connecting'
      PROVE  e \in Node \X Node \X Nat /\ e[1] # e[2] /\ Known(e[1], e[2])'
    <2>1. CASE e \in connecting
        <3>1. e \in Node \X Node \X Nat /\ e[1] # e[2] /\ Known(e[1], e[2])
            BY <2>1 DEF Links
        <3>2. e[1] \in Node
            BY <3>1
        <3> QED BY <1>2, <3>1, <3>2
    <2>2. CASE e \notin connecting
        <3>1. PICK r : r.node \in Node /\ r.id \in Nat /\ e \in Dialled(r, table'[r.node])
            BY <2>2
        <3>2. PICK p \in Peers(table'[r.node]) \ (connections[r.node] \cup {r.node}) :
                 e = <<r.node, p, r.id>>
            BY <3>1 DEF Dialled
        <3>3. p \in Node /\ p # r.node /\ e[1] = r.node /\ e[2] = p
            BY <1>1, <3>1, <3>2
        <3> QED BY <3>1, <3>2, <3>3 DEF Known
    <2> QED BY <2>1, <2>2
<1>4. \A n \in Node : n \notin connections'[n] /\ \A p \in connections'[n] : Known(n, p)'
    BY <1>2 DEF Links
<1>5. \A e \in (connecting \cup open \cup closing)' : e \in Node \X Node \X Nat /\ e[1] # e[2]
    BY <1>3 DEF Links
<1> QED BY <1>3, <1>4, <1>5 DEF Links

\* A round that ends or goes on keeps the invariant, if what it has gathered has been
\* heard and met, and what is on its way to it is about its queries.
LEMMA RoundKeeps ==
    ASSUME IInv, NEW r, r.node \in Node, r.id \in Nat, NEW s \in Round, s.node = r.node,
           \A q \in rounds : q # r => q.id # s.id,
           started <= started', started' \in 0 .. MaxRounds, s.id < started',
           NEW tbl, Grown(r.node, Node, table[r.node], tbl),
           NEW sent, \A m \in sent : m \in network /\ (m.id[1] = s.id => About(m, s)),
           heard' \in [Node -> SUBSET Node], \A n \in Node : heard[n] \subseteq heard'[n],
           Peers(tbl) \subseteq heard'[r.node] \cup {BootstrapId},
           Range(s.contacts) \subseteq heard'[r.node],
           \A c \in Range(s.contacts) : /\ c \notin shrunk => Met(c, table[c], r.node)
                                        /\ r.node \notin shrunk => Met(r.node, tbl, c),
           Goes(r, s, tbl, sent)
    PROVE  IInv'
<1>1. PICK u, new : GoesTo(r, s, tbl, sent, u, new)
    BY DEF Goes
<1> DEFINE n == r.node
<1>2. /\ Tables /\ Rounds /\ Datagrams /\ Hearing /\ Meeting /\ Links
      /\ n \in Node /\ n \in Id /\ Node \in SUBSET Id
    BY DiscoveryAssumption DEF IInv
<1>3. TableOK(n, Node, table[n]) /\ TableOK(n, Node, tbl) /\ Grown(n, Node, tbl, u)
    BY <1>1, <1>2 DEF Tables, Grown, GoesTo
<1>4. Grown(n, Node, table[n], u) /\ \A p \in Id : Met(n, tbl, p) => Met(n, u, p)
    BY <1>2, <1>3, GrownFurther
<1>5. Growth /\ table'[n] = u /\ \A p \in Node : p # n => table'[p] = table[p]
    BY <1>1, <1>2, <1>4, OneGrows DEF GoesTo
<1>6. /\ Tables'
      /\ \A p \in Node : Peers(table[p]) \subseteq Peers(table'[p])
      /\ \A p, q \in Node : Met(p, table[p], q) => Met(p, table'[p], q)
    BY <1>2, <1>5, GrowthKeeps
<1>7. /\ \A q \in rounds' : q \in rounds \/ q \in new
      /\ \A q \in rounds' : q \notin new => q # r
      /\ \A q \in new : /\ Going(q) /\ q.id = s.id /\ q.node = n
                        /\ q.shortlist = s.shortlist /\ q.contacts = s.contacts
      /\ \A p, q \in new : p = q
      /\ UNCHANGED <<open, closing, connections, cutOff, restarts, shrunk>>
    BY <1>1 DEF GoesTo
<1>8. Rounds'
    <2>1. \A q \in rounds' : Going(q) /\ q.id < started'
        <3> SUFFICES ASSUME NEW q \in rounds' PROVE Going(q) /\ q.id < started'
            OBVIOUS
        <3>1. CASE q \in rounds
            <4>1. Going(q) /\ q.id < started /\ q.id \in Nat /\ started \in Nat
                BY <1>2, <3>1 DEF Rounds, Going, Round
            <4> QED BY <4>1
        <3>2. CASE q \in new
            BY <1>7, <3>2
        <3> QED BY <1>7, <3>1, <3>2
    <2>2. \A p, q \in rounds' : p.id = q.id => p = q
        <3> SUFFICES ASSUME NEW p \in rounds', NEW q \in rounds', p.id = q.id PROVE p = q
            OBVIOUS
        <3>1. CASE p \in new /\ q \in new
            BY <1>7, <3>1
        <3>2. CASE p \notin new /\ q \notin new
            BY <1>2, <1>7, <3>2 DEF Rounds
        <3>3. CASE p \in new /\ q \notin new
            BY <1>7, <3>3
        <3>4. CASE p \notin new /\ q \in new
            BY <1>7, <3>4
        <3> QED BY <3>1, <3>2, <3>3, <3>4
    <2> QED BY <2>1, <2>2 DEF Rounds
<1>9. Datagrams'
    <2> SUFFICES ASSUME NEW m \in network'
                 PROVE  /\ Datagram(m) /\ m.id[1] < started'
                        /\ \A q \in rounds' : q.id = m.id[1] => About(m, q)
        BY DEF Datagrams
    <2>1. CASE m \in sent
        <3>1. Datagram(m) /\ m.id[1] < started
            BY <1>2, <2>1 DEF Datagrams
        <3>2. m.id[1] \in Nat
            BY <3>1 DEF Datagram
        <3>3. started \in Nat
            BY <1>2 DEF Rounds
        <3>4. m.id[1] < started'
            BY <3>1, <3>2, <3>3
        <3>5. ASSUME NEW q \in rounds', q.id = m.id[1] PROVE About(m, q)
            <4>1. CASE q \in new
                BY <1>7, <2>1, <3>5, <4>1 DEF About
            <4>2. CASE q \in rounds
                BY <1>2, <2>1, <3>5, <4>2 DEF Datagrams
            <4> QED BY <1>7, <4>1, <4>2
        <3> QED BY <3>4, <3>5, <3>1
    <2>2. CASE /\ m.type = "FIND_NODE" /\ m.id[1] = s.id
               /\ m.id[2] \in DOMAIN s.shortlist
               /\ m.from = s.node /\ m.to = s.shortlist[m.id[2]]
        <3>1. s.shortlist \in Seq(Node) /\ s.id \in Nat
            BY DEF Round
        <3>2. m.id[2] \in Nat /\ m.to \in Node
            BY <2>2, <3>1, ElementOfSeq, LenProperties
        <3>3. m.id[1] \in Nat /\ m.id[1] = s.id
            BY <2>2, <3>1, <3>2
        <3>4. Datagram(m)
            BY <1>2, <2>2, <3>2, <3>3 DEF Datagram
        <3>5. ASSUME NEW q \in rounds', q.id = m.id[1] PROVE About(m, q)
            <4>1. q \in new
                BY <1>7, <3>3, <3>5
            <4> QED BY <1>7, <2>2, <4>1 DEF About
        <3> QED BY <3>3, <3>4, <3>5
    <2> QED BY <1>1, <2>1, <2>2 DEF GoesTo
<1>10. Hearing'
    <2>1. \A p \in Node : Peers(table'[p]) \subseteq heard'[p] \cup {BootstrapId}
        <3> SUFFICES ASSUME NEW p \in Node
                     PROVE  Peers(table'[p]) \subseteq heard'[p] \cup {BootstrapId}
            OBVIOUS
        <3>1. CASE p = n
            BY <1>1, <1>5, <3>1 DEF GoesTo
        <3>2. CASE p # n
            BY <1>2, <1>5, <3>2 DEF Hearing
        <3> QED BY <3>1, <3>2
    <2>2. ASSUME NEW q \in rounds' PROVE Range(q.contacts) \subseteq heard'[q.node]
        <3>1. CASE q \in new
            BY <1>7, <3>1
        <3>2. CASE q \in rounds
            <4>1. q.node \in Node /\ Range(q.contacts) \subseteq heard[q.node]
                BY <1>2, <3>2 DEF Hearing, Rounds, Going, Round
            <4> QED BY <4>1
        <3> QED BY <1>7, <3>1, <3>2
    <2> QED BY <2>1, <2>2 DEF Hearing
<1>11. Meeting'
    <2>1. ASSUME NEW q \in rounds', NEW c \in Range(q.contacts)
          PROVE  /\ c \notin shrunk => Met(c, table'[c], q.node)
                 /\ q.node \notin shrunk => Met(q.node, table'[q.node], c)
        <3>1. CASE q \in new
            <4>1. c \in Range(s.contacts) /\ c \in Node /\ c \in Id /\ q.node = n
                BY <1>2, <1>7, <2>1, <3>1, RangeOfSeq DEF Round
            <4> QED BY <1>2, <1>4, <1>5, <1>6, <4>1
        <3>2. CASE q \in rounds
            <4>1. q.node \in Node /\ c \in Node
                BY <1>2, <3>2, RangeOfSeq DEF Rounds, Going, Round
            <4>2. /\ c \notin shrunk => Met(c, table[c], q.node)
                  /\ q.node \notin shrunk => Met(q.node, table[q.node], c)
                BY <1>2, <3>2 DEF Meeting
            <4> QED BY <1>6, <4>1, <4>2
        <3> QED BY <1>7, <3>1, <3>2
    <2>2. ASSUME NEW m \in network', m.type = "REPLY", m.from \notin shrunk
          PROVE  Met(m.from, table'[m.from], m.to)
        <3>1. m \in network
            BY <1>1, <2>2 DEF GoesTo
        <3>2. m.from \in Node /\ m.to \in Node /\ Met(m.from, table[m.from], m.to)
            BY <1>2, <2>2, <3>1 DEF Datagrams, Datagram, Meeting
        <3> QED BY <1>6, <3>2
    <2> QED BY <1>7, <2>1, <2>2 DEF Meeting
<1>12. Links'
    <2>1. r.id \in Nat /\ connecting' \subseteq connecting \cup Dialled(r, u) /\ u = table'[n]
        BY <1>1, <1>5 DEF GoesTo
    <2>2. \A e \in connecting' :
             \/ e \in connecting
             \/ \E q : q.node \in Node /\ q.id \in Nat /\ e \in Dialled(q, table'[q.node])
        BY <1>2, <2>1
    <2> QED BY <1>2, <1>5, <1>7, <2>2, LinksKept
<1> QED BY <1>6, <1>8, <1>9, <1>10, <1>11, <1>12 DEF IInv

\* A round starts.
LEMMA StartRoundKeeps ==
    ASSUME IInv, NEW n \in Discoverers, StartRound(n)
    PROVE  IInv'
<1> DEFINE r == [id |-> started, node |-> n, shortlist |-> Nearest(n, table[n], n),
                 contacts |-> <<>>, iteration |-> 0, waiting |-> {}, closer |-> FALSE]
<1>1. n \in Node /\ TableOK(n, Node, table[n]) /\ started \in Nat /\ started < MaxRounds
      /\ started' = started + 1 /\ heard' = heard /\ MaxRounds \in Nat
    BY DiscoveryAssumption DEF IInv, Tables, Rounds, StartRound
<1>2. Nearest(n, table[n], n) \in Seq(Node)
    <2> DEFINE l == Nearest(n, table[n], n)
    <2>1. l \in Seq(Node \ {n})
        BY <1>1, NearestIsSeq
    <2> HIDE DEF l
    <2>2. l \in Seq(Node)
        BY <2>1, SeqMonotonic
    <2> QED BY <2>2 DEF l
<1>3. Range(<<>>) = {} /\ Len(<<>>) = 0
    BY DEF Range
<1>4. r \in Round /\ r.node = n /\ r.id = started /\ r.iteration = 0 /\ r.contacts = <<>>
    BY <1>1, <1>2 DEF Round
<1>5. Search(r, r, table[n], network)
    BY DEF StartRound
<1> HIDE DEF r
<1>6. Goes(r, r, table[n], network)
    BY <1>1, <1>3, <1>4, <1>5, SearchGoes
<1>7. \A q \in rounds : q.id # r.id
    BY <1>1, <1>4 DEF IInv, Rounds, Going, Round
<1>8. \A m \in network : m.id[1] # r.id
    <2> SUFFICES ASSUME NEW m \in network PROVE m.id[1] # r.id
        OBVIOUS
    <2>1. Datagram(m) /\ m.id[1] < started
        BY DEF IInv, Datagrams
    <2>2. m.id[1] \in Nat
        BY <2>1 DEF Datagram
    <2> QED BY <1>1, <1>4, <2>1, <2>2
<1>9. /\ heard \in [Node -> SUBSET Node]
      /\ Peers(table[n]) \subseteq heard[n] \cup {BootstrapId}
    BY <1>1 DEF IInv, Hearing
<1>10. started <= started' /\ started' \in 0 .. MaxRounds /\ r.id < started'
    BY <1>1, <1>4
<1>11. Grown(n, Node, table[n], table[n])
    BY <1>1, GrownSame
<1> QED BY <1>1, <1>3, <1>4, <1>6, <1>7, <1>8, <1>9, <1>10, <1>11, RoundKeeps

\* A query times out.
LEMMA QueryTimeoutKeeps ==
    ASSUME IInv, NEW r \in rounds, NEW i \in r.waiting, QueryTimeout(r, i)
    PROVE  IInv'
<1> DEFINE s == [r EXCEPT !.waiting = @ \ {i}]
           n == r.node
<1>1. /\ Going(r) /\ r \in Round /\ n \in Node /\ r.id \in Nat /\ r.id < started
      /\ \A q \in rounds : q # r => q.id # r.id
      /\ started \in 0 .. MaxRounds /\ MaxRounds \in Nat /\ UNCHANGED <<started, heard>>
    BY DiscoveryAssumption DEF IInv, Rounds, Going, Round, QueryTimeout
<1>2. /\ s \in Round /\ s.id = r.id /\ s.node = n
      /\ s.shortlist = r.shortlist /\ s.contacts = r.contacts
      /\ s.waiting \subseteq Slice(s) /\ Gaining(s)
    BY <1>1, UnansweredGoesOn
<1>3. Proceed(r, s, table[n], network)
    BY DEF QueryTimeout
<1> HIDE DEF s
<1>4. TableOK(n, Node, table[n]) /\ Grown(n, Node, table[n], table[n])
    BY <1>1, GrownSame DEF IInv, Tables
<1>5. Goes(r, s, table[n], network)
    BY <1>1, <1>2, <1>3, <1>4, ProceedGoes
<1>6. \A m \in network : m.id[1] = s.id => About(m, s)
    BY <1>2 DEF IInv, Datagrams, About
<1>7. /\ heard \in [Node -> SUBSET Node]
      /\ Peers(table[n]) \subseteq heard[n] \cup {BootstrapId}
      /\ Range(s.contacts) \subseteq heard[n]
    BY <1>1, <1>2 DEF IInv, Hearing
<1>8. \A c \in Range(s.contacts) : /\ c \notin shrunk => Met(c, table[c], n)
                                   /\ n \notin shrunk => Met(n, table[n], c)
    BY <1>2 DEF IInv, Meeting
<1>9. started <= started' /\ started' \in 0 .. MaxRounds /\ s.id < started'
    BY <1>1, <1>2
<1> QED BY <1>1, <1>2, <1>4, <1>5, <1>6, <1>7, <1>8, <1>9, RoundKeeps

\* A message from p reaches n, which reports p, and answers it if it asks.
LEMMA MessageKeeps ==
    ASSUME IInv, NEW n \in Node, NEW p \in Node,
           table' = [table EXCEPT ![n] = Updated(n, table[n], p)],
           heard' = [heard EXCEPT ![n] = @ \cup {p}],
           \A m \in network' :
              \/ m \in network
              \/ /\ m.type = "REPLY" /\ m.from = n /\ m.to = p
                 /\ m.nodes \in Seq(Node \ {p})
                 /\ \E o \in network : /\ o.type = "FIND_NODE" /\ o.id = m.id
                                       /\ o.from = p /\ o.to = n,
           UNCHANGED <<rounds, started, links, restarts, shrunk>>
    PROVE  IInv'
<1> DEFINE u == Updated(n, table[n], p)
<1>1. /\ Tables /\ Rounds /\ Datagrams /\ Hearing /\ Meeting /\ Links
      /\ n \in Id /\ Node \in SUBSET Id /\ TableOK(n, Node, table[n])
    BY DiscoveryAssumption DEF IInv, Tables
<1>2. /\ Grown(n, Node, table[n], u) /\ Met(n, u, p)
      /\ Peers(u) \subseteq Peers(table[n]) \cup {p}
    BY <1>1, UpdatedGrows
<1> HIDE DEF u
<1>3. Growth /\ table'[n] = u /\ \A q \in Node : q # n => table'[q] = table[q]
    BY <1>1, <1>2, OneGrows DEF u
<1>4. /\ Tables'
      /\ \A q \in Node : Peers(table[q]) \subseteq Peers(table'[q])
      /\ \A q, c \in Node : Met(q, table[q], c) => Met(q, table'[q], c)
    BY <1>1, <1>3, GrowthKeeps
<1>5. Rounds'
    BY <1>1 DEF Rounds
<1>6. Datagrams'
    <2> SUFFICES ASSUME NEW m \in network'
                 PROVE  /\ Datagram(m) /\ m.id[1] < started
                        /\ \A r \in rounds : r.id = m.id[1] => About(m, r)
        BY DEF Datagrams
    <2>1. CASE m \in network
        BY <1>1, <2>1 DEF Datagrams
    <2>2. CASE m \notin network
        <3>1. /\ m.type = "REPLY" /\ m.from = n /\ m.to = p
              /\ m.nodes \in Seq(Node \ {p})
            BY <2>2
        <3>2. PICK o \in network : /\ o.type = "FIND_NODE" /\ o.id = m.id
                                   /\ o.from = p /\ o.to = n
            BY <2>2
        <3>3. /\ Datagram(o) /\ o.id[1] < started
              /\ \A r \in rounds : r.id = o.id[1] => About(o, r)
            BY <1>1 DEF Datagrams
        <3>4. Datagram(m)
            BY <3>1, <3>2, <3>3 DEF Datagram
        <3>5. \A r \in rounds : About(o, r) => About(m, r)
            BY <3>1, <3>2 DEF About
        <3> QED BY <3>2, <3>3, <3>4, <3>5
    <2> QED BY <2>1, <2>2
<1>7. Hearing'
    <2>1. heard' \in [Node -> SUBSET Node] /\ \A q \in Node : heard[q] \subseteq heard'[q]
        BY <1>1 DEF Hearing
    <2>2. p \in heard'[n]
        BY <1>1 DEF Hearing
    <2>3. \A q \in Node : Peers(table'[q]) \subseteq heard'[q] \cup {BootstrapId}
        <3> SUFFICES ASSUME NEW q \in Node
                     PROVE  Peers(table'[q]) \subseteq heard'[q] \cup {BootstrapId}
            OBVIOUS
        <3>1. Peers(table[q]) \subseteq heard[q] \cup {BootstrapId}
            BY <1>1 DEF Hearing
        <3>2. CASE q = n
            BY <1>2, <1>3, <2>1, <2>2, <3>1, <3>2
        <3>3. CASE q # n
            BY <1>3, <2>1, <3>1, <3>3
        <3> QED BY <3>2, <3>3
    <2>4. \A r \in rounds : r.node \in Node /\ Range(r.contacts) \subseteq heard[r.node]
        BY <1>1 DEF Hearing, Rounds, Going, Round
    <2> QED BY <2>1, <2>3, <2>4 DEF Hearing
<1>8. Meeting'
    <2>1. ASSUME NEW r \in rounds, NEW c \in Range(r.contacts)
          PROVE  /\ c \notin shrunk => Met(c, table'[c], r.node)
                 /\ r.node \notin shrunk => Met(r.node, table'[r.node], c)
        <3>1. r.node \in Node /\ c \in Node
            BY <1>1, RangeOfSeq DEF Rounds, Going, Round
        <3>2. /\ c \notin shrunk => Met(c, table[c], r.node)
              /\ r.node \notin shrunk => Met(r.node, table[r.node], c)
            BY <1>1 DEF Meeting
        <3> QED BY <1>4, <3>1, <3>2
    <2>2. ASSUME NEW m \in network', m.type = "REPLY", m.from \notin shrunk
          PROVE  Met(m.from, table'[m.from], m.to)
        <3>1. CASE m \in network
            <4>1. m.from \in Node /\ m.to \in Node /\ Met(m.from, table[m.from], m.to)
                BY <1>1, <2>2, <3>1 DEF Datagrams, Datagram, Meeting
            <4> QED BY <1>4, <4>1
        <3>2. CASE m \notin network
            BY <1>2, <1>3, <3>2
        <3> QED BY <3>1, <3>2
    <2> QED BY <2>1, <2>2 DEF Meeting
<1>9. Links'
    BY <1>1, <1>3, LinksKept DEF links
<1> QED BY <1>4, <1>5, <1>6, <1>7, <1>8, <1>9 DEF IInv

\* A node is asked.
LEMMA HandleFindNodeKeeps ==
    ASSUME IInv, NEW m \in network, HandleFindNode(m)
    PROVE  IInv'
<1> DEFINE n == m.to
           p == m.from
           u == Updated(n, table[n], p)
           reply == [type |-> "REPLY", id |-> m.id, from |-> n, to |-> p,
                     nodes |-> Nearest(n, u, p)]
<1>1. n \in Node /\ p \in Node /\ m.type = "FIND_NODE"
    BY DEF HandleFindNode, IInv, Datagrams, Datagram
<1>2. /\ table' = [table EXCEPT ![n] = u]
      /\ heard' = [heard EXCEPT ![n] = @ \cup {p}]
      /\ network' = (network \ {m}) \cup {reply}
      /\ UNCHANGED <<rounds, started, links, restarts, shrunk>>
    BY DEF HandleFindNode
<1>3. TableOK(n, Node, u)
    <2>1. n \in Id /\ Node \in SUBSET Id /\ TableOK(n, Node, table[n])
        BY <1>1, DiscoveryAssumption DEF IInv, Tables
    <2> QED BY <1>1, <2>1, UpdatedProperties
<1> HIDE DEF n, p, u
<1>4. Nearest(n, u, p) \in Seq(Node \ {p})
    BY <1>1, <1>3, NearestIsSeq
<1>5. /\ reply.type = "REPLY" /\ reply.from = n /\ reply.to = p /\ reply.id = m.id
      /\ reply.nodes \in Seq(Node \ {p})
    BY <1>4
<1> HIDE DEF reply
<1>6. \A o \in network' :
         \/ o \in network
         \/ /\ o.type = "REPLY" /\ o.from = n /\ o.to = p
            /\ o.nodes \in Seq(Node \ {p})
            /\ \E q \in network : /\ q.type = "FIND_NODE" /\ q.id = o.id
                                  /\ q.from = p /\ q.to = n
    BY <1>1, <1>2, <1>5 DEF n, p
<1>7. table' = [table EXCEPT ![n] = Updated(n, table[n], p)]
    BY <1>2 DEF u
<1> QED BY <1>1, <1>2, <1>6, <1>7, MessageKeeps

\* An answer arrives.
LEMMA HandleReplyKeeps ==
    ASSUME IInv, NEW m \in network, HandleReply(m)
    PROVE  IInv'
<1> DEFINE n == m.to
           p == m.from
           i == m.id[2]
           tbl == Updated(n, table[n], p)
           awaited == {r \in rounds : r.id = m.id[1] /\ i \in r.waiting}
<1>1. /\ m.type = "REPLY"
      /\ heard' = [heard EXCEPT ![n] = @ \cup {p}]
      /\ started' = started
      /\ \/ \E r \in awaited : Proceed(r, Answered(r, i, m.nodes), tbl, network \ {m})
         \/ /\ table' = [table EXCEPT ![n] = tbl]
            /\ network' = network \ {m}
            /\ UNCHANGED <<rounds, links, restarts, shrunk>>
    BY DEF HandleReply
<1>2. n \in Node /\ p \in Node /\ m.nodes \in Seq(Node \ {n})
    BY <1>1 DEF IInv, Datagrams, Datagram
<1>3. CASE /\ table' = [table EXCEPT ![n] = tbl]
           /\ network' = network \ {m}
           /\ UNCHANGED <<rounds, links, restarts, shrunk>>
    <2> HIDE DEF n, p
    <2>1. \A o \in network' : o \in network
        BY <1>3
    <2> QED BY <1>1, <1>2, <1>3, <2>1, MessageKeeps
<1>4. ASSUME NEW r \in awaited, Proceed(r, Answered(r, i, m.nodes), tbl, network \ {m})
      PROVE  IInv'
    <2> DEFINE s == Answered(r, i, m.nodes)
    <2>1. r \in rounds /\ r.id = m.id[1] /\ i \in r.waiting
        OBVIOUS
    <2>2. /\ Going(r) /\ r \in Round /\ r.node \in Node /\ r.id \in Nat /\ r.id < started
          /\ \A q \in rounds : q # r => q.id # r.id
          /\ started \in 0 .. MaxRounds /\ MaxRounds \in Nat
        BY <2>1, DiscoveryAssumption DEF IInv, Rounds, Going, Round
    <2>3. r.node = n /\ p = r.shortlist[i]
        BY <1>1, <2>1 DEF IInv, Datagrams, About
    <2>4. m.nodes \in Seq(Node)
        BY <1>2, SeqMonotonic
    <2>5. Proceed(r, s, tbl, network \ {m})
        BY <1>4
    <2> HIDE DEF awaited, i, p, n
    <2>6. /\ s \in Round /\ s.id = r.id /\ s.node = r.node
          /\ Range(s.contacts) = Range(r.contacts) \cup {p}
          /\ \A j \in DOMAIN r.shortlist :
                j \in DOMAIN s.shortlist /\ s.shortlist[j] = r.shortlist[j]
          /\ s.waiting \subseteq Slice(s) /\ Gaining(s)
        <3> DEFINE nodes == m.nodes
        <3>1. Going(r) /\ i \in r.waiting /\ nodes \in Seq(Node)
            BY <2>1, <2>2, <2>4
        <3>2. s = Answered(r, i, nodes)
            OBVIOUS
        <3> HIDE DEF s, nodes
        <3> QED BY <2>3, <3>1, <3>2, AnsweredGoesOn
    <2> HIDE DEF s
    <2>7. n \in Id /\ Node \in SUBSET Id /\ TableOK(n, Node, table[n])
        BY <1>2, DiscoveryAssumption DEF IInv, Tables
    <2>8. /\ Grown(n, Node, table[n], tbl) /\ Met(n, tbl, p)
          /\ Peers(tbl) \subseteq Peers(table[n]) \cup {p}
        BY <1>2, <2>7, UpdatedGrows
    <2> HIDE DEF tbl
    <2>9. \A q \in Id : Met(n, table[n], q) => Met(n, tbl, q)
        BY <2>7, <2>8, GrownFurther
    <2>10. Goes(r, s, tbl, network \ {m})
        <3>1. TableOK(r.node, Node, tbl)
            BY <2>3, <2>8 DEF Grown
        <3> QED BY <2>2, <2>5, <2>6, <3>1, ProceedGoes
    <2>11. \A o \in network \ {m} : o \in network /\ (o.id[1] = s.id => About(o, s))
        <3> SUFFICES ASSUME NEW o \in network, o.id[1] = s.id PROVE About(o, s)
            OBVIOUS
        <3>1. About(o, r)
            BY <2>1, <2>6 DEF IInv, Datagrams
        <3> QED BY <2>6, <3>1 DEF About
    <2>12. /\ heard' \in [Node -> SUBSET Node] /\ \A q \in Node : heard[q] \subseteq heard'[q]
           /\ heard'[n] = heard[n] \cup {p}
        BY <1>1, <1>2 DEF IInv, Hearing
    <2>13. /\ Peers(tbl) \subseteq heard'[n] \cup {BootstrapId}
           /\ Range(s.contacts) \subseteq heard'[n]
        <3>1. /\ Peers(table[n]) \subseteq heard[n] \cup {BootstrapId}
              /\ Range(r.contacts) \subseteq heard[n]
            BY <1>2, <2>1, <2>3 DEF IInv, Hearing
        <3> QED BY <2>6, <2>8, <2>12, <3>1
    <2>14. ASSUME NEW c \in Range(s.contacts)
           PROVE  /\ c \notin shrunk => Met(c, table[c], n)
                  /\ n \notin shrunk => Met(n, tbl, c)
        <3>1. CASE c = p
            <4>1. m.from \notin shrunk => Met(m.from, table[m.from], m.to)
                BY <1>1 DEF IInv, Meeting
            <4> QED BY <2>8, <3>1, <4>1 DEF p, n
        <3>2. CASE c \in Range(r.contacts)
            <4>1. /\ c \notin shrunk => Met(c, table[c], n)
                  /\ n \notin shrunk => Met(n, table[n], c)
                BY <2>1, <2>3, <3>2 DEF IInv, Meeting
            <4>2. c \in Id
                BY <2>2, <2>7, <3>2, RangeOfSeq DEF Round
            <4> QED BY <2>9, <4>1, <4>2
        <3> QED BY <2>6, <3>1, <3>2
    <2>15. started <= started' /\ started' \in 0 .. MaxRounds /\ s.id < started'
        BY <1>1, <2>2, <2>6
    <2> QED BY <2>2, <2>3, <2>6, <2>8, <2>10, <2>11, <2>12, <2>13, <2>14, <2>15, RoundKeeps
<1> QED BY <1>1, <1>3, <1>4

\* A message of another kind arrives.
LEMMA ContactKeeps ==
    ASSUME IInv, NEW n \in Node, NEW p \in Node, Contact(n, p)
    PROVE  IInv'
<1>1. /\ table' = [table EXCEPT ![n] = Updated(n, table[n], p)]
      /\ heard' = [heard EXCEPT ![n] = @ \cup {p}]
      /\ network' = network
      /\ UNCHANGED <<rounds, started, links, restarts, shrunk>>
    BY DEF Contact
<1>2. \A m \in network' : m \in network
    BY <1>1
<1> QED BY <1>1, <1>2, MessageKeeps

\* A connection opens.
LEMMA ConnectedKeeps ==
    ASSUME IInv, NEW e \in connecting, Connected(e)
    PROVE  IInv'
<1>1. /\ connecting' = connecting \ {e} /\ open' = open \cup {e}
      /\ connections' = [connections EXCEPT ![e[1]] = @ \cup {e[2]}]
      /\ UNCHANGED <<table, rounds, started, network, closing, restarts, heard, shrunk, cutOff>>
    BY DEF Connected
<1>2. Tables' /\ Rounds' /\ Datagrams' /\ Hearing' /\ Meeting'
    BY <1>1 DEF IInv, Tables, Rounds, Datagrams, Hearing, Meeting
<1>3. Links /\ e \in Node \X Node \X Nat /\ e[1] # e[2] /\ Known(e[1], e[2])
    BY DEF IInv, Links
<1>4. \A n \in Node : \A p : Known(n, p) => Known(n, p)'
    BY <1>1 DEF Known
<1>5. e[1] \in Node /\ e[2] \in Node
    BY <1>3
<1>6. /\ connections' \in [Node -> SUBSET Node]
      /\ \A n \in Node : connections'[n] = IF n = e[1] THEN connections[n] \cup {e[2]}
                                           ELSE connections[n]
    BY <1>1, <1>3, <1>5 DEF Links
<1>7. \A n \in Node : n \notin connections'[n] /\ \A p \in connections'[n] : Known(n, p)'
    BY <1>3, <1>4, <1>5, <1>6 DEF Links
<1>8. \A d \in connecting' : d \in connecting /\ d[1] \in Node /\ Known(d[1], d[2])'
    <2>1. \A d \in connecting' : d \in connecting /\ d \in Node \X Node \X Nat /\ Known(d[1], d[2])
        BY <1>1, <1>3 DEF Links
    <2>2. \A d \in connecting' : d[1] \in Node
        BY <2>1
    <2> QED BY <1>4, <2>1, <2>2
<1>9. \A d \in (connecting \cup open \cup closing)' : d \in Node \X Node \X Nat /\ d[1] # d[2]
    BY <1>1, <1>3 DEF Links
<1>10. restarts' \in 0 .. MaxRestarts
    BY <1>1, <1>3 DEF Links
<1> QED BY <1>2, <1>6, <1>7, <1>8, <1>9, <1>10 DEF IInv, Links

\* A connection is refused.
LEMMA RefusedKeeps ==
    ASSUME IInv, NEW e \in connecting, Refused(e)
    PROVE  IInv'
<1>1. /\ connecting' = connecting \ {e}
      /\ UNCHANGED <<table, rounds, started, network, open, closing, connections, restarts,
                     heard, shrunk, cutOff>>
    BY DEF Refused
<1>2. Tables' /\ Rounds' /\ Datagrams' /\ Hearing' /\ Meeting'
    BY <1>1 DEF IInv, Tables, Rounds, Datagrams, Hearing, Meeting
<1>3. Links'
    BY <1>1 DEF IInv, Links, Known
<1> QED BY <1>2, <1>3 DEF IInv

\* One table loses peers, and the rounds of the node may be lost with them.
LEMMA ShrinkKeeps ==
    ASSUME IInv, NEW n \in Node, NEW u, TableOK(n, Node, u),
           table' = [table EXCEPT ![n] = u], shrunk' = shrunk \cup {n},
           rounds' \subseteq rounds,
           heard' \in [Node -> SUBSET Node],
           \A q \in Node : q # n => heard'[q] = heard[q],
           Peers(u) \subseteq heard'[n] \cup {BootstrapId},
           \A r \in rounds' : r.node = n => heard'[n] = heard[n],
           UNCHANGED <<started, network>>
    PROVE  Tables' /\ Rounds' /\ Datagrams' /\ Hearing' /\ Meeting'
<1>1. /\ DOMAIN table' = Node /\ table'[n] = u
      /\ \A q \in Node : q # n => table'[q] = table[q]
    BY DEF IInv, Tables
<1>2. Tables'
    BY <1>1 DEF IInv, Tables
<1>3. Rounds'
    BY DEF IInv, Rounds
<1>4. Datagrams'
    BY DEF IInv, Datagrams
<1>5. Hearing'
    <2>1. \A q \in Node : Peers(table'[q]) \subseteq heard'[q] \cup {BootstrapId}
        BY <1>1 DEF IInv, Hearing
    <2>2. \A r \in rounds' : Range(r.contacts) \subseteq heard'[r.node]
        <3> SUFFICES ASSUME NEW r \in rounds' PROVE Range(r.contacts) \subseteq heard'[r.node]
            OBVIOUS
        <3>1. r.node \in Node /\ Range(r.contacts) \subseteq heard[r.node]
            BY DEF IInv, Hearing, Rounds, Going, Round
        <3> QED BY <3>1
    <2> QED BY <2>1, <2>2 DEF Hearing
<1>6. Meeting'
    <2>1. ASSUME NEW r \in rounds', NEW c \in Range(r.contacts)
          PROVE  /\ c \notin shrunk' => Met(c, table'[c], r.node)
                 /\ r.node \notin shrunk' => Met(r.node, table'[r.node], c)
        <3>1. r.node \in Node /\ c \in Node
            BY RangeOfSeq DEF IInv, Rounds, Going, Round
        <3>2. /\ c \notin shrunk => Met(c, table[c], r.node)
              /\ r.node \notin shrunk => Met(r.node, table[r.node], c)
            BY DEF IInv, Meeting
        <3> QED BY <1>1, <3>1, <3>2
    <2>2. ASSUME NEW m \in network', m.type = "REPLY", m.from \notin shrunk'
          PROVE  Met(m.from, table'[m.from], m.to)
        <3>1. m \in network /\ m.from \notin shrunk /\ m.from # n
            BY <2>2
        <3>2. m.from \in Node /\ Met(m.from, table[m.from], m.to)
            BY <2>2, <3>1 DEF IInv, Datagrams, Datagram, Meeting
        <3> QED BY <1>1, <3>1, <3>2
    <2> QED BY <2>1, <2>2 DEF Meeting
<1> QED BY <1>2, <1>3, <1>4, <1>5, <1>6

\* A connection closes.
LEMMA DisconnectKeeps ==
    ASSUME IInv, NEW e \in closing, Disconnect(e)
    PROVE  IInv'
<1>0. Links /\ e \in Node \X Node \X Nat
    BY DEF IInv, Links
<1>1. PICK n \in Node, p \in Node : e[1] = n /\ e[2] = p
    BY <1>0
<1> DEFINE u == Removed(n, table[n], p)
<1>2. /\ closing' = closing \ {e}
      /\ connections' = [connections EXCEPT ![n] = @ \ {p}]
      /\ table' = [table EXCEPT ![n] = u]
      /\ shrunk' = shrunk \cup {n}
      /\ cutOff' = (cutOff \ {<<n, p>>}) \cup Redialled(e)
      /\ UNCHANGED <<rounds, started, network, connecting, open, restarts, heard>>
    BY <1>1 DEF Disconnect
<1>3. TableOK(n, Node, u) /\ Peers(u) = Peers(table[n]) \ {p}
    <2>1. n \in Id /\ Node \in SUBSET Id /\ TableOK(n, Node, table[n])
        BY DiscoveryAssumption DEF IInv, Tables
    <2> QED BY <2>1, RemovedProperties
<1> HIDE DEF u
<1>4. Tables' /\ Rounds' /\ Datagrams' /\ Hearing' /\ Meeting'
    <2>1. heard' \in [Node -> SUBSET Node] /\ Peers(u) \subseteq heard'[n] \cup {BootstrapId}
        BY <1>2, <1>3 DEF IInv, Hearing
    <2> QED BY <1>2, <1>3, <2>1, ShrinkKeeps
<1>5. /\ connections' \in [Node -> SUBSET Node]
      /\ connections'[n] = connections[n] \ {p} /\ table'[n] = u
      /\ \A q \in Node : q # n => connections'[q] = connections[q] /\ table'[q] = table[q]
    BY <1>0, <1>2 DEF IInv, Links, Tables
<1>6. \A q \in Node : \A x : Known(q, x) /\ <<q, x>> # <<n, p>> => Known(q, x)'
    BY <1>2, <1>3, <1>5 DEF Known
<1>7. ASSUME NEW d \in connecting PROVE Known(d[1], d[2])'
    <2>1. d[1] \in Node /\ Known(d[1], d[2])
        BY <1>0 DEF Links
    <2>2. CASE <<d[1], d[2]>> = <<n, p>>
        <3>1. <<n, p>> \in Redialled(e)
            BY <1>1, <2>2 DEF Redialled
        <3>2. d[1] = n /\ d[2] = p
            BY <2>2
        <3> QED BY <1>2, <3>1, <3>2 DEF Known
    <2>3. CASE <<d[1], d[2]>> # <<n, p>>
        BY <1>6, <2>1, <2>3
    <2> QED BY <2>2, <2>3
<1>8. ASSUME NEW q \in Node PROVE q \notin connections'[q] /\ \A x \in connections'[q] : Known(q, x)'
    <2>1. q \notin connections[q] /\ \A x \in connections[q] : Known(q, x)
        BY <1>0 DEF Links
    <2>2. \A x \in connections'[q] : x \in connections[q] /\ <<q, x>> # <<n, p>>
        BY <1>5
    <2> QED BY <1>5, <1>6, <2>1, <2>2
<1>9. \A d \in (connecting \cup open \cup closing)' : d \in Node \X Node \X Nat /\ d[1] # d[2]
    BY <1>0, <1>2 DEF Links
<1>10. Links'
    BY <1>0, <1>2, <1>5, <1>7, <1>8, <1>9 DEF Links
<1> QED BY <1>4, <1>10 DEF IInv

\* What start() leaves is a table of node 0 at most.
LEMMA StartTableProperties ==
    ASSUME NEW n \in Node
    PROVE  TableOK(n, Node, StartTable(n)) /\ Peers(StartTable(n)) \subseteq {BootstrapId}
<1>1. TableOK(n, Node, EmptyTable) /\ Peers(EmptyTable) = {}
    BY DEF TableOK, EmptyTable, Peers
<1>2. n \in Id /\ Node \in SUBSET Id /\ BootstrapId \in Node
    BY DiscoveryAssumption
<1> HIDE DEF EmptyTable
<1> QED BY <1>1, <1>2, UpdatedProperties DEF StartTable

\* A node restarts.
LEMMA RestartKeeps ==
    ASSUME IInv, NEW n \in Node, Restart(n)
    PROVE  IInv'
<1> DEFINE u == StartTable(n)
<1>1. /\ restarts < MaxRestarts /\ restarts' = restarts + 1
      /\ table' = [table EXCEPT ![n] = u]
      /\ rounds' = {r \in rounds : r.node # n}
      /\ connecting' = {e \in connecting : n \notin {e[1], e[2]}}
      /\ open' = {e \in open : n \notin {e[1], e[2]}}
      /\ closing' = {e \in closing : e[1] # n} \cup {e \in open : e[2] = n}
      /\ connections' = [connections EXCEPT ![n] = {}]
      /\ cutOff' = {e \in cutOff : e[1] # n}
      /\ heard' = [heard EXCEPT ![n] = {}]
      /\ shrunk' = shrunk \cup {n}
      /\ UNCHANGED <<started, network>>
    BY DEF Restart
<1>2. TableOK(n, Node, u) /\ Peers(u) \subseteq {BootstrapId}
    BY StartTableProperties
<1> HIDE DEF u
<1>3. Tables' /\ Rounds' /\ Datagrams' /\ Hearing' /\ Meeting'
    <2>1. heard' \in [Node -> SUBSET Node] /\ Peers(u) \subseteq heard'[n] \cup {BootstrapId}
        BY <1>1, <1>2 DEF IInv, Hearing
    <2>2. \A q \in Node : q # n => heard'[q] = heard[q]
        BY <1>1 DEF IInv, Hearing
    <2>3. rounds' \subseteq rounds /\ \A r \in rounds' : r.node # n
        BY <1>1
    <2> QED BY <1>1, <1>2, <2>1, <2>2, <2>3, ShrinkKeeps
<1>4. Links
    BY DEF IInv
<1>5. /\ connections' \in [Node -> SUBSET Node] /\ connections'[n] = {}
      /\ \A q \in Node : q # n => connections'[q] = connections[q] /\ table'[q] = table[q]
    BY <1>1, <1>4 DEF IInv, Links, Tables
<1>6. \A q \in Node : \A p : q # n /\ Known(q, p) => Known(q, p)'
    BY <1>1, <1>5 DEF Known
<1>7. \A e \in connecting' : Known(e[1], e[2])'
    <2>1. \A e \in connecting' : e \in connecting /\ e[1] # n
        BY <1>1
    <2>2. \A e \in connecting : e[1] \in Node /\ Known(e[1], e[2])
        BY <1>4 DEF Links
    <2> QED BY <1>6, <2>1, <2>2
<1>8. /\ \A q \in Node : q \notin connections'[q] /\ \A p \in connections'[q] : Known(q, p)'
      /\ \A e \in (connecting \cup open \cup closing)' : e \in Node \X Node \X Nat /\ e[1] # e[2]
    <2>1. \A q \in Node : q \notin connections'[q] /\ \A p \in connections'[q] : Known(q, p)'
        BY <1>4, <1>5, <1>6 DEF Links
    <2> QED BY <1>1, <1>4, <2>1 DEF Links
<1>9. restarts' \in 0 .. MaxRestarts
    <2>1. restarts \in 0 .. MaxRestarts /\ MaxRestarts \in Nat
        BY <1>4, DiscoveryAssumption DEF Links
    <2> QED BY <1>1, <2>1
<1>10. Links'
    BY <1>5, <1>7, <1>8, <1>9 DEF Links
<1> QED BY <1>3, <1>10 DEF IInv

\* The invariant holds initially.
LEMMA InitIInv == Init => IInv
<1> SUFFICES ASSUME Init PROVE IInv
    OBVIOUS
<1>1. Tables
    BY StartTableProperties DEF Init, Tables
<1>2. Rounds /\ Datagrams
    <2>1. started \in 0 .. MaxRounds
        BY DiscoveryAssumption DEF Init
    <2> QED BY <2>1 DEF Init, Rounds, Datagrams
<1>3. Hearing /\ Meeting
    <2>1. \A n \in Node : Peers(table[n]) \subseteq heard[n] \cup {BootstrapId}
        BY StartTableProperties DEF Init
    <2> QED BY <2>1 DEF Init, Hearing, Meeting
<1>4. Links
    <2>1. restarts \in 0 .. MaxRestarts
        BY DiscoveryAssumption DEF Init
    <2> QED BY <2>1 DEF Init, Links
<1> QED BY <1>1, <1>2, <1>3, <1>4 DEF IInv

\* A step that changes nothing keeps the invariant.
LEMMA StutterKeeps == IInv /\ UNCHANGED vars => IInv'
BY DEF IInv, Tables, Rounds, Datagrams, Hearing, Meeting, Links, Known, links, vars

\* Every step keeps the invariant.
LEMMA NextKeeps == IInv /\ [Next]_vars => IInv'
<1> SUFFICES ASSUME IInv, [Next]_vars PROVE IInv'
    OBVIOUS
<1>1. CASE \E n \in Discoverers : StartRound(n)
    BY <1>1, StartRoundKeeps
<1>2. CASE \E m \in network : HandleFindNode(m) \/ HandleReply(m)
    BY <1>2, HandleFindNodeKeeps, HandleReplyKeeps
<1>3. CASE \E r \in rounds : \E i \in r.waiting : QueryTimeout(r, i)
    BY <1>3, QueryTimeoutKeeps
<1>4. CASE \E e \in connecting : Connected(e) \/ Refused(e)
    BY <1>4, ConnectedKeeps, RefusedKeeps
<1>5. CASE \E e \in closing : Disconnect(e)
    BY <1>5, DisconnectKeeps
<1>6. CASE \E n, p \in Node : Contact(n, p)
    BY <1>6, ContactKeeps
<1>7. CASE \E n \in Restarting : Restart(n)
    BY <1>7, RestartKeeps, DiscoveryAssumption
<1>8. CASE UNCHANGED vars
    BY <1>8, StutterKeeps
<1> QED BY <1>1, <1>2, <1>3, <1>4, <1>5, <1>6, <1>7, <1>8 DEF Next

\* The invariant holds throughout.
LEMMA Invariance == Spec => []IInv
BY InitIInv, NextKeeps, PTL DEF Spec

(***************************************************************************)
(* Results                                                                 *)
(***************************************************************************)

\* Rounds, tables and messages are about nodes only, and a query waits at a position
\* of the slice that its round is at, whatever is answered late, twice or never.
THEOREM DiscoveryTyped == Spec => []TypeOK
<1>1. IInv => TypeOK
    <2> SUFFICES ASSUME IInv PROVE TypeOK
        OBVIOUS
    <2>1. \A n \in Node : Peers(table[n]) \subseteq Node
        BY PeersInContacts DEF IInv, Tables
    <2>2. ASSUME NEW r \in rounds
          PROVE  /\ r.id \in 0 .. MaxRounds - 1 /\ r.node \in Node
                 /\ Range(r.shortlist) \subseteq Node /\ Range(r.contacts) \subseteq Node
                 /\ r.waiting # {} /\ r.waiting \subseteq Slice(r)
        <3>1. /\ r \in Round /\ r.id < started /\ started \in 0 .. MaxRounds /\ MaxRounds \in Nat
              /\ r.waiting # {} /\ r.waiting \subseteq Slice(r)
            BY DiscoveryAssumption DEF IInv, Rounds, Going
        <3>2. /\ r.id \in Nat /\ r.node \in Node
              /\ r.shortlist \in Seq(Node) /\ r.contacts \in Seq(Node)
            BY <3>1 DEF Round
        <3>3. r.id \in 0 .. MaxRounds - 1
            BY <3>1, <3>2
        <3> QED BY <3>1, <3>2, <3>3, RangeOfSeq
    <2>3. ASSUME NEW m \in network
          PROVE  /\ m.from \in Node /\ m.to \in Node
                 /\ m.type = "REPLY" => Range(m.nodes) \subseteq Node \ {m.to}
        <3>1. Datagram(m)
            BY DEF IInv, Datagrams
        <3> QED BY <3>1, RangeOfSeq DEF Datagram
    <2>4. /\ connecting \cup open \cup closing \subseteq Node \X Node \X Nat
          /\ connections \in [Node -> SUBSET Node]
          /\ started \in 0 .. MaxRounds /\ restarts \in 0 .. MaxRestarts
        BY DEF IInv, Links, Rounds
    <2> QED BY <2>1, <2>2, <2>3, <2>4 DEF TypeOK
<1> QED BY <1>1, Invariance, PTL

\* A round has gained a contact with every slice that made it go on.
THEOREM EverySliceGains == Spec => []RoundsAreShort
<1>1. IInv => RoundsAreShort
    <2> SUFFICES ASSUME IInv, NEW r \in rounds PROVE r.iteration <= Len(r.contacts)
        BY DEF RoundsAreShort
    <2>1. r \in Round /\ Gaining(r)
        BY DEF IInv, Rounds, Going
    <2>2. r.iteration \in Nat /\ Len(r.contacts) \in Nat
        BY <2>1, LenProperties DEF Round
    <2> QED BY <2>1, <2>2 DEF Gaining
<1> QED BY <1>1, Invariance, PTL

\* Nobody is listed because others named it: but for the bootstrap node, a node lists
\* only peers it has had a message from since its start.
THEOREM ListedAreHeard == Spec => []NoHearsay
<1>1. IInv => NoHearsay
    BY DEF IInv, Hearing, NoHearsay
<1> QED BY <1>1, Invariance, PTL

\* Whoever answered a round and whoever runs it list each other, unless a bucket is
\* full or a table has lost peers.
THEOREM RoundsIntroduce == Spec => []MeetBothWays
<1>1. IInv => MeetBothWays
    BY DEF IInv, Meeting, MeetBothWays, Met, Full
<1> QED BY <1>1, Invariance, PTL

\* Nobody is connected and forgotten, but for a peer that the close event of an earlier
\* socket took off the table while it was being dialled again.
THEOREM ConnectedStayListed == Spec => []ConnectedIsListed
<1>1. IInv => ConnectedIsListed
    BY DEF IInv, Links, Known, ConnectedIsListed
<1> QED BY <1>1, Invariance, PTL
=============================================================================
