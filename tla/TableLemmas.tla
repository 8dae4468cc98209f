---------------------------- MODULE TableLemmas -----------------------------
(***************************************************************************)
(* Lemmas about buckets and routing tables, for every number of bits,      *)
(* bucket size, node id and set of contacts.  What is proved of one table  *)
(* in RoutingTableProofs and of many in DhtStoreProofs and DiscoveryProofs *)
(* rests on them.                                                          *)
(***************************************************************************)
EXTENDS TableOps, FiniteSetTheorems, SequenceTheorems, TLAPS

(***************************************************************************)
(* The keyspace                                                            *)
(***************************************************************************)

\* The order of the natural numbers as a relation, for WFMin.
LEMMA NatOrderWellFounded ==
    IsWellFoundedOn({ss \in Nat \X Nat : ss[1] < ss[2]}, Nat)
BY NatLessThanWellFounded DEF OpToRel

\* A non-empty set of numbers up to n has a largest element, and Max is it.
LEMMA MaxOfBounded ==
    ASSUME NEW n \in Nat, NEW S \in SUBSET (0 .. n), S # {}
    PROVE  /\ Max(S) \in S
           /\ \A i \in S : i <= Max(S)
<1> DEFINE R == {ss \in Nat \X Nat : ss[1] < ss[2]}
<1> DEFINE T == {k \in Nat : n - k \in S}
<1>1. \E k \in Nat : k \in T
    <2>1. PICK i \in S : i \in 0 .. n
        OBVIOUS
    <2>2. n - i \in Nat /\ n - (n - i) = i
        BY <2>1
    <2> QED BY <2>1, <2>2
<1>2. \E t \in T : \A u \in T : ~(<<u, t>> \in R)
    <2>1. T \subseteq Nat
        OBVIOUS
    <2>2. IsWellFoundedOn(R, Nat)
        BY NatOrderWellFounded
    <2> HIDE DEF R, T
    <2> QED BY <1>1, <2>1, <2>2, WFMin
<1>3. PICK t \in T : \A u \in T : ~(<<u, t>> \in R)
    BY <1>2
<1>4. n - t \in S /\ t \in Nat
    BY <1>3
<1>5. \A j \in S : n - t >= j
    <2> TAKE j \in S
    <2>1. j \in 0 .. n
        OBVIOUS
    <2>2. n - j \in Nat /\ n - (n - j) = j
        BY <2>1
    <2>3. n - j \in T
        BY <2>2
    <2>4. ~(n - j < t)
        BY <1>3, <2>2, <2>3
    <2> QED BY <1>4, <2>1, <2>2, <2>4
<1>6. \E m \in S : \A j \in S : m >= j
    BY <1>4, <1>5
<1>7. Max(S) \in S /\ \A j \in S : Max(S) >= j
    BY <1>6 DEF Max
<1>8. \A j \in S : j \in Int
    OBVIOUS
<1> QED BY <1>7, <1>8

\* getBucketIndex finds a bucket of the table, and only the node's own id
\* lands in the last one.
LEMMA BucketIndexProperties ==
    ASSUME NEW me \in Id, NEW p \in Id
    PROVE  /\ BucketIndex(me, p) \in Indices
           /\ BucketIndex(me, p) = BIT_SIZE - 1 => p = me
<1> USE KeyspaceAssumption
<1>1. CASE p = me
    BY <1>1 DEF BucketIndex, Indices
<1>2. CASE p # me
    <2>1. XOR(me, p) \in SUBSET (0 .. ID_BITS - 1) /\ XOR(me, p) # {}
        BY <1>2 DEF XOR, Id
    <2>2. Max(XOR(me, p)) \in XOR(me, p)
        BY <2>1, MaxOfBounded
    <2>3. Max(XOR(me, p)) \in 0 .. ID_BITS - 1
        BY <2>1, <2>2
    <2> QED BY <1>2, <2>3 DEF BucketIndex, Indices
<1> QED BY <1>1, <1>2

(***************************************************************************)
(* One bucket                                                              *)
(***************************************************************************)

\* removeNode drops exactly the peer, and the rest keeps no duplicate.
LEMMA RemoveNodeProperties ==
    ASSUME NEW S, NEW b \in Seq(S), IsInjective(b), NEW p
    PROVE  LET r == RemoveNode(b, p)
           IN  /\ r \in Seq(S)
               /\ IsInjective(r)
               /\ Range(r) = Range(b) \ {p}
               /\ p \in Range(b) => Len(r) = Len(b) - 1
               /\ Len(r) <= Len(b)
<1> DEFINE r == RemoveNode(b, p)
<1>0. Len(b) \in Nat /\ DOMAIN b = 1 .. Len(b) /\ \A i \in 1 .. Len(b) : b[i] \in S
    BY LenProperties, ElementOfSeq
<1>1. CASE p \notin Range(b)
    <2>1. Range(b) = Range(b) \ {p}
        BY <1>1
    <2>2. r = b
        BY <1>1 DEF RemoveNode
    <2> HIDE DEF r
    <2>3. Len(r) <= Len(b)
        BY <1>0, <2>2
    <2> QED BY <1>1, <2>1, <2>2, <2>3 DEF r
<1>2. CASE p \in Range(b)
    <2> DEFINE k == Position(b, p)
    <2>1. k \in 1 .. Len(b) /\ b[k] = p
        BY <1>0, <1>2 DEF Position, Range
    <2> HIDE DEF k
    <2> DEFINE x == SubSeq(b, 1, k - 1)
               y == SubSeq(b, k + 1, Len(b))
    <2>2. r = x \o y
        BY <1>2 DEF RemoveNode, RemoveAt, k
    <2>3. /\ x \in Seq(S)
          /\ Len(x) = k - 1
          /\ \A i \in 1 .. k - 1 : x[i] = b[i]
        <3>1. \A i \in 1 .. k - 1 : b[i] \in S
            BY <1>0, <2>1
        <3>2. 1 \in Int /\ k - 1 \in Int /\ k - 1 - 1 + 1 = k - 1
            BY <2>1
        <3>3. /\ SubSeq(b, 1, k - 1) \in Seq(S)
              /\ Len(SubSeq(b, 1, k - 1)) = IF 1 <= k - 1 THEN k - 1 - 1 + 1 ELSE 0
              /\ \A i \in 1 .. k - 1 - 1 + 1 : SubSeq(b, 1, k - 1)[i] = b[1 + i - 1]
            BY ONLY <3>1, <3>2, SubSeqProperties
        <3> QED BY <2>1, <3>3
    <2>4. /\ y \in Seq(S)
          /\ Len(y) = Len(b) - k
          /\ \A i \in 1 .. Len(b) - k : y[i] = b[k + i]
        <3>1. \A i \in k + 1 .. Len(b) : b[i] \in S
            BY <1>0, <2>1
        <3>2. k + 1 \in Int /\ Len(b) \in Int
            BY <1>0, <2>1
        <3>3. /\ SubSeq(b, k + 1, Len(b)) \in Seq(S)
              /\ Len(SubSeq(b, k + 1, Len(b))) =
                    IF k + 1 <= Len(b) THEN Len(b) - (k + 1) + 1 ELSE 0
              /\ \A i \in 1 .. Len(b) - (k + 1) + 1 :
                    SubSeq(b, k + 1, Len(b))[i] = b[(k + 1) + i - 1]
            BY ONLY <3>1, <3>2, SubSeqProperties
        <3>4. Len(b) - (k + 1) + 1 = Len(b) - k
            BY <1>0, <2>1
        <3>5. \A i \in 1 .. Len(b) - k : (k + 1) + i - 1 = k + i
            BY <1>0, <2>1
        <3> HIDE DEF y
        <3>6. Len(y) = IF k + 1 <= Len(b) THEN Len(b) - (k + 1) + 1 ELSE 0
            BY ONLY <3>3 DEF y
        <3>7. Len(y) = Len(b) - k
            <4>1. k \in Int /\ Len(b) \in Int /\ k <= Len(b)
                BY <1>0, <2>1
            <4>2. CASE k + 1 <= Len(b)
                BY <3>4, <3>6, <4>2
            <4>3. CASE ~(k + 1 <= Len(b))
                BY <3>6, <4>1, <4>3
            <4> QED BY <4>2, <4>3
        <3> QED BY <3>3, <3>4, <3>5, <3>7 DEF y
    <2> HIDE DEF x, y, r
    <2>5. /\ r \in Seq(S)
          /\ Len(r) = Len(b) - 1
          /\ \A i \in 1 .. Len(b) - 1 : r[i] = IF i < k THEN b[i] ELSE b[i + 1]
        <3>1. /\ x \o y \in Seq(S)
              /\ Len(x \o y) = Len(x) + Len(y)
              /\ \A i \in 1 .. Len(x) + Len(y) :
                    (x \o y)[i] = IF i <= Len(x) THEN x[i] ELSE y[i - Len(x)]
            BY <2>3, <2>4, ConcatProperties
        <3> QED BY <1>0, <2>1, <2>2, <2>3, <2>4, <3>1
    <2>6. DOMAIN r = 1 .. Len(b) - 1
        BY <1>0, <2>1, <2>5, LenProperties
    <2>7. IsInjective(r)
        <3>1. \A i, j \in 1 .. Len(b) : b[i] = b[j] => i = j
            BY <1>0 DEF IsInjective
        <3>2. SUFFICES ASSUME NEW i \in 1 .. Len(b) - 1, NEW j \in 1 .. Len(b) - 1,
                              r[i] = r[j]
                       PROVE  i = j
            BY <2>6 DEF IsInjective
        <3> QED BY <1>0, <2>1, <2>5, <3>1, <3>2
    <2>8. Range(r) = Range(b) \ {p}
        <3>1. \A i \in 1 .. Len(b) - 1 : r[i] \in Range(b) \ {p}
            BY <1>0, <2>1, <2>5 DEF Range, IsInjective
        <3>2. ASSUME NEW q \in Range(b), q # p
              PROVE  \E i \in 1 .. Len(b) - 1 : r[i] = q
            <4>1. PICK j \in 1 .. Len(b) : b[j] = q
                BY <1>0 DEF Range
            <4>2. CASE j < k
                BY <1>0, <2>1, <2>5, <4>1, <4>2
            <4>3. CASE j > k
                <5>1. j - 1 \in 1 .. Len(b) - 1 /\ ~(j - 1 < k) /\ j - 1 + 1 = j
                    BY <1>0, <2>1, <4>1, <4>3
                <5> QED BY <2>5, <4>1, <5>1
            <4> QED BY <2>1, <3>2, <4>1, <4>2, <4>3
        <3> QED BY <2>6, <3>1, <3>2 DEF Range
    <2> QED BY <1>0, <2>5, <2>7, <2>8 DEF r
<1> QED BY <1>1, <1>2

\* Every outcome of updateBucketNode is a duplicate-free bucket within the
\* bound that keeps all its peers and gains at most the contact, and gains it
\* only while there is room.
LEMMA UpdateBucketNodeProperties ==
    ASSUME NEW S, NEW b \in Seq(S), IsInjective(b), Len(b) <= K_BUCKET_SIZE,
           NEW me, NEW p \in S
    PROVE  LET u == UpdateBucketNode(me, b, p)
           IN  /\ u \in Seq(S)
               /\ IsInjective(u)
               /\ Len(u) <= K_BUCKET_SIZE
               /\ \/ Range(u) = Range(b)
                  \/ Range(u) = Range(b) \cup {p} /\ Len(b) < K_BUCKET_SIZE
<1> USE KBucketAssumption
<1> DEFINE u == UpdateBucketNode(me, b, p)
<1>0. Len(b) \in Nat /\ DOMAIN b = 1 .. Len(b) /\ \A i \in 1 .. Len(b) : b[i] \in S
    BY LenProperties, ElementOfSeq
<1>1. CASE p \in Range(b)
    <2> DEFINE r == RemoveNode(b, p)
    <2>1. /\ r \in Seq(S)
          /\ IsInjective(r)
          /\ Range(r) = Range(b) \ {p}
          /\ Len(r) = Len(b) - 1
        BY <1>1, RemoveNodeProperties
    <2>2. u = <<p>> \o r
        BY <1>1 DEF UpdateBucketNode, MoveToFront
    <2> HIDE DEF u, r
    <2>3. /\ <<p>> \o r \in Seq(S)
          /\ Len(<<p>> \o r) = 1 + Len(r)
          /\ \A i \in 1 .. 1 + Len(r) :
                (<<p>> \o r)[i] = IF i <= 1 THEN p ELSE r[i - 1]
        <3>1. <<p>> \in Seq(S) /\ Len(<<p>>) = 1 /\ <<p>>[1] = p
            OBVIOUS
        <3>2. /\ <<p>> \o r \in Seq(S)
              /\ Len(<<p>> \o r) = Len(<<p>>) + Len(r)
              /\ \A i \in 1 .. Len(<<p>>) + Len(r) :
                    (<<p>> \o r)[i] =
                        IF i <= Len(<<p>>) THEN <<p>>[i] ELSE r[i - Len(<<p>>)]
            BY ONLY <2>1, <3>1, ConcatProperties
        <3>3. Len(r) \in Nat
            BY <2>1, LenProperties
        <3> QED BY <3>1, <3>2, <3>3
    <2>4. /\ Len(r) \in Nat
          /\ DOMAIN r = 1 .. Len(r)
          /\ DOMAIN u = 1 .. 1 + Len(r)
        BY <2>1, <2>2, <2>3, LenProperties
    <2>5. IsInjective(u)
        <3>1. \A i \in 1 .. Len(r) : r[i] # p
            BY <2>1, <2>4 DEF Range
        <3>2. \A i, j \in 1 .. Len(r) : r[i] = r[j] => i = j
            BY <2>1, <2>4 DEF IsInjective
        <3>3. SUFFICES ASSUME NEW i \in 1 .. 1 + Len(r), NEW j \in 1 .. 1 + Len(r),
                              u[i] = u[j]
                       PROVE  i = j
            BY <2>4 DEF IsInjective
        <3>4. ASSUME NEW n \in 1 .. 1 + Len(r)
              PROVE  \/ n = 1 /\ u[n] = p
                     \/ n - 1 \in 1 .. Len(r) /\ u[n] = r[n - 1]
            BY <2>2, <2>3, <2>4
        <3>5. i = 1 <=> j = 1
            BY <3>1, <3>3, <3>4
        <3>6. CASE i # 1 /\ j # 1
            <4>1. i - 1 \in 1 .. Len(r) /\ j - 1 \in 1 .. Len(r) /\ r[i - 1] = r[j - 1]
                BY <3>3, <3>4, <3>6
            <4>2. i - 1 = j - 1
                BY <3>2, <4>1
            <4> QED BY <2>4, <4>2
        <3> QED BY <3>5, <3>6
    <2>6. Range(u) = Range(b)
        <3>1. Range(<<p>>) = {p}
            BY DEF Range
        <3>2. Range(<<p>> \o r) = Range(<<p>>) \cup Range(r)
            <4> DEFINE h == <<p>>
            <4>1. h \in Seq(S)
                OBVIOUS
            <4> HIDE DEF h
            <4>2. Range(h \o r) = Range(h) \cup Range(r)
                BY ONLY <2>1, <4>1, RangeConcatenation
            <4> QED BY <4>2 DEF h
        <3> QED BY <1>1, <2>1, <2>2, <3>1, <3>2
    <2>7. Len(u) <= K_BUCKET_SIZE
        BY <1>0, <2>1, <2>2, <2>3
    <2> QED BY <2>2, <2>3, <2>5, <2>6, <2>7 DEF u
<1>2. CASE p \notin Range(b) /\ Len(b) < K_BUCKET_SIZE
    <2>1. u = Append(b, p)
        BY <1>2 DEF UpdateBucketNode
    <2> HIDE DEF u
    <2>2. /\ u \in Seq(S)
          /\ Len(u) = Len(b) + 1
          /\ DOMAIN u = 1 .. Len(b) + 1
          /\ \A i \in 1 .. Len(b) : u[i] = b[i]
          /\ u[Len(b) + 1] = p
        BY <1>0, <2>1, AppendProperties
    <2>3. IsInjective(u)
        <3>1. \A i \in 1 .. Len(b) : b[i] # p
            BY <1>0, <1>2 DEF Range
        <3>2. \A i, j \in 1 .. Len(b) : b[i] = b[j] => i = j
            BY <1>0 DEF IsInjective
        <3>3. SUFFICES ASSUME NEW i \in 1 .. Len(b) + 1, NEW j \in 1 .. Len(b) + 1,
                              u[i] = u[j]
                       PROVE  i = j
            BY <2>2 DEF IsInjective
        <3> QED BY <1>0, <2>2, <3>1, <3>2, <3>3
    <2>4. Range(u) = Range(b) \cup {p}
        <3>1. \A i \in DOMAIN u : u[i] \in Range(b) \cup {p}
            BY <1>0, <2>2 DEF Range
        <3>2. \A q \in Range(b) : \E i \in DOMAIN u : u[i] = q
            BY <1>0, <2>2 DEF Range
        <3>3. \E i \in DOMAIN u : u[i] = p
            BY <1>0, <2>2
        <3> QED BY <3>1, <3>2, <3>3 DEF Range
    <2>5. Len(u) <= K_BUCKET_SIZE
        BY <1>0, <1>2, <2>2
    <2> QED BY <1>2, <2>2, <2>3, <2>4, <2>5 DEF u
<1>3. CASE p \notin Range(b) /\ ~(Len(b) < K_BUCKET_SIZE) /\ Last(b) = me
    <2>1. u = Reverse(b)
        BY <1>3 DEF UpdateBucketNode
    <2> HIDE DEF u
    <2>2. /\ u = [i \in 1 .. Len(b) |-> b[(Len(b) - i) + 1]]
          /\ \A i \in 1 .. Len(b) : (Len(b) - i) + 1 \in 1 .. Len(b)
        BY <1>0, <2>1 DEF Reverse
    <2>3. u \in Seq(S) /\ Len(u) = Len(b) /\ DOMAIN u = 1 .. Len(b)
        <3>1. u \in [1 .. Len(b) -> S]
            BY <1>0, <2>2
        <3> QED BY <1>0, <3>1, IsASeq, LenProperties
    <2>4. IsInjective(u)
        <3>1. \A i, j \in 1 .. Len(b) : b[i] = b[j] => i = j
            BY <1>0 DEF IsInjective
        <3>2. SUFFICES ASSUME NEW i \in 1 .. Len(b), NEW j \in 1 .. Len(b), u[i] = u[j]
                       PROVE  i = j
            BY <2>3 DEF IsInjective
        <3>3. (Len(b) - i) + 1 = (Len(b) - j) + 1
            BY <2>2, <3>1, <3>2
        <3> QED BY <1>0, <3>3
    <2>5. Range(u) = Range(b)
        <3>1. \A i \in 1 .. Len(b) : u[i] \in Range(b)
            BY <1>0, <2>2 DEF Range
        <3>2. ASSUME NEW j \in 1 .. Len(b)
              PROVE  \E i \in 1 .. Len(b) : u[i] = b[j]
            <4>1. /\ (Len(b) - j) + 1 \in 1 .. Len(b)
                  /\ (Len(b) - ((Len(b) - j) + 1)) + 1 = j
                BY <1>0
            <4> QED BY <2>2, <4>1
        <3> QED BY <1>0, <2>3, <3>1, <3>2 DEF Range
    <2> QED BY <1>0, <2>3, <2>4, <2>5 DEF u
<1>4. CASE p \notin Range(b) /\ ~(Len(b) < K_BUCKET_SIZE) /\ Last(b) # me
    <2>1. u = b
        BY <1>4 DEF UpdateBucketNode
    <2> HIDE DEF u
    <2>2. Len(u) <= K_BUCKET_SIZE
        BY <2>1
    <2> QED BY <2>1, <2>2 DEF u
<1> QED BY <1>1, <1>2, <1>3, <1>4

(***************************************************************************)
(* The whole table                                                         *)
(***************************************************************************)

\* What the invariants say of one bucket and of the table, as predicates, so
\* that the lemmas can speak of the table before and after an operation.
BucketOK(me, C, i, b) ==
    /\ b \in Seq(C)
    /\ IsInjective(b)
    /\ Len(b) <= K_BUCKET_SIZE
    /\ \A p \in Range(b) : BucketIndex(me, p) = i

TableOK(me, C, tbl) ==
    /\ DOMAIN tbl \subseteq Indices
    /\ \A i \in DOMAIN tbl : BucketOK(me, C, i, tbl[i])

\* findBucket returns a well-formed bucket, also when it creates it.
LEMMA BucketAtOK ==
    ASSUME NEW me \in Id, NEW C \in SUBSET Id,
           NEW tbl, TableOK(me, C, tbl), NEW p \in C
    PROVE  LET i == BucketIndex(me, p)
           IN  /\ i \in Indices
               /\ BucketOK(me, C, i, BucketAt(tbl, i))
<1> DEFINE i == BucketIndex(me, p)
<1>1. i \in Indices
    BY BucketIndexProperties
<1>2. CASE i \in DOMAIN tbl
    BY <1>1, <1>2 DEF BucketAt, TableOK
<1>3. CASE i \notin DOMAIN tbl
    <2>1. BucketAt(tbl, i) = <<>>
        BY <1>3 DEF BucketAt
    <2>2. BucketOK(me, C, i, <<>>)
        BY KBucketAssumption DEF BucketOK, IsInjective, Range
    <2> QED BY <1>1, <2>1, <2>2
<1> QED BY <1>2, <1>3

\* Replacing one bucket by a well-formed one keeps the table well-formed and
\* changes the known peers only by that bucket.
LEMMA SetBucketProperties ==
    ASSUME NEW me \in Id, NEW C \in SUBSET Id,
           NEW tbl, TableOK(me, C, tbl), NEW i \in Indices, NEW b, BucketOK(me, C, i, b)
    PROVE  /\ TableOK(me, C, SetBucket(tbl, i, b))
           /\ Peers(SetBucket(tbl, i, b)) =
                 {q \in Peers(tbl) : q \notin Range(BucketAt(tbl, i))} \cup Range(b)
<1> DEFINE t == SetBucket(tbl, i, b)
<1>1. /\ DOMAIN t = DOMAIN tbl \cup {i}
      /\ t[i] = b
      /\ \A j \in DOMAIN tbl : j # i => t[j] = tbl[j]
    BY DEF SetBucket
<1> HIDE DEF t
<1>2. TableOK(me, C, t)
    BY <1>1 DEF TableOK
<1>3. ASSUME NEW q
      PROVE  q \in Peers(t) <=>
                \/ q \in Range(b)
                \/ q \in Peers(tbl) /\ q \notin Range(BucketAt(tbl, i))
    <2>1. q \in Peers(t) <=> q \in Range(b) \/ \E j \in DOMAIN tbl : j # i /\ q \in Range(tbl[j])
        BY <1>1 DEF Peers
    <2>2. ASSUME NEW j \in DOMAIN tbl, j # i, q \in Range(tbl[j])
          PROVE  q \in Peers(tbl) /\ q \notin Range(BucketAt(tbl, i))
        <3>1. BucketIndex(me, q) = j
            BY <2>2 DEF TableOK, BucketOK
        <3>2. i \in DOMAIN tbl => \A r \in Range(tbl[i]) : BucketIndex(me, r) = i
            BY DEF TableOK, BucketOK
        <3>3. Range(<<>>) = {}
            BY DEF Range
        <3> QED BY <2>2, <3>1, <3>2, <3>3 DEF BucketAt, Peers
    <2>3. ASSUME q \in Peers(tbl), q \notin Range(BucketAt(tbl, i))
          PROVE  \E j \in DOMAIN tbl : j # i /\ q \in Range(tbl[j])
        BY <2>3 DEF BucketAt, Peers
    <2> QED BY <2>1, <2>2, <2>3
<1> QED BY <1>2, <1>3 DEF t

\* A peer is known exactly if the bucket of its distance lists it.
LEMMA KnownInHomeBucket ==
    ASSUME NEW me \in Id, NEW C \in SUBSET Id,
           NEW tbl, TableOK(me, C, tbl), NEW p
    PROVE  p \in Peers(tbl) <=> p \in Range(BucketAt(tbl, BucketIndex(me, p)))
<1>1. Range(<<>>) = {}
    BY DEF Range
<1> QED BY <1>1 DEF Peers, BucketAt, TableOK, BucketOK

\* updateTables keeps the table well-formed, forgets nobody, and learns at
\* most the contact, for which its bucket had room.
LEMMA UpdatedProperties ==
    ASSUME NEW me \in Id, NEW C \in SUBSET Id,
           NEW tbl, TableOK(me, C, tbl), NEW p \in C
    PROVE  LET t == Updated(me, tbl, p)
           IN  /\ TableOK(me, C, t)
               /\ \/ Peers(t) = Peers(tbl)
                  \/ /\ Peers(t) = Peers(tbl) \cup {p}
                     /\ Len(BucketAt(tbl, BucketIndex(me, p))) < K_BUCKET_SIZE
<1> DEFINE i == BucketIndex(me, p)
           b == BucketAt(tbl, i)
           u == UpdateBucketNode(me, b, p)
           t == Updated(me, tbl, p)
<1>1. i \in Indices /\ BucketOK(me, C, i, b)
    BY BucketAtOK
<1>2. t = SetBucket(tbl, i, u)
    BY DEF Updated
<1>3. /\ u \in Seq(C)
      /\ IsInjective(u)
      /\ Len(u) <= K_BUCKET_SIZE
      /\ \/ Range(u) = Range(b)
         \/ Range(u) = Range(b) \cup {p} /\ Len(b) < K_BUCKET_SIZE
    <2> HIDE DEF b
    <2> QED BY <1>1, UpdateBucketNodeProperties DEF BucketOK
<1>4. Range(b) \subseteq Peers(tbl)
    <2>1. Range(<<>>) = {}
        BY DEF Range
    <2> QED BY <2>1 DEF BucketAt, Peers
<1> HIDE DEF b, u, t
<1>5. \A q \in Range(u) : BucketIndex(me, q) = i
    BY <1>1, <1>3 DEF BucketOK
<1> HIDE DEF i
<1>6. BucketOK(me, C, i, u)
    BY <1>3, <1>5 DEF BucketOK
<1>7. /\ TableOK(me, C, t)
      /\ Peers(t) = {q \in Peers(tbl) : q \notin Range(b)} \cup Range(u)
    BY <1>1, <1>2, <1>6, SetBucketProperties DEF b
<1>8. \/ Peers(t) = Peers(tbl)
      \/ Peers(t) = Peers(tbl) \cup {p} /\ Len(b) < K_BUCKET_SIZE
    BY <1>3, <1>4, <1>7
<1> QED BY <1>7, <1>8 DEF t, b, i

\* A disconnection keeps the table well-formed and forgets just that peer.
LEMMA RemovedProperties ==
    ASSUME NEW me \in Id, NEW C \in SUBSET Id,
           NEW tbl, TableOK(me, C, tbl), NEW p \in C
    PROVE  LET t == Removed(me, tbl, p)
           IN  TableOK(me, C, t) /\ Peers(t) = Peers(tbl) \ {p}
<1> DEFINE i == BucketIndex(me, p)
           b == BucketAt(tbl, i)
           r == RemoveNode(b, p)
           t == Removed(me, tbl, p)
<1>1. i \in Indices /\ BucketOK(me, C, i, b)
    BY BucketAtOK
<1>2. t = SetBucket(tbl, i, r)
    BY DEF Removed
<1>3. /\ r \in Seq(C)
      /\ IsInjective(r)
      /\ Len(r) <= Len(b)
      /\ Range(r) = Range(b) \ {p}
    <2> HIDE DEF b
    <2> QED BY <1>1, RemoveNodeProperties DEF BucketOK
<1>4. Range(b) \subseteq Peers(tbl)
    <2>1. Range(<<>>) = {}
        BY DEF Range
    <2> QED BY <2>1 DEF BucketAt, Peers
<1>5. p \in Peers(tbl) => p \in Range(b)
    BY KnownInHomeBucket
<1> HIDE DEF b, r, t, i
<1>6. BucketOK(me, C, i, r)
    <2>1. Len(r) <= K_BUCKET_SIZE
        <3>1. Len(r) \in Nat /\ Len(b) \in Nat
            BY <1>1, <1>3, LenProperties DEF BucketOK
        <3> QED BY <1>1, <1>3, <3>1, KBucketAssumption DEF BucketOK
    <2> QED BY <1>1, <1>3, <2>1 DEF BucketOK
<1>7. /\ TableOK(me, C, t)
      /\ Peers(t) = {q \in Peers(tbl) : q \notin Range(b)} \cup Range(r)
    BY <1>1, <1>2, <1>6, SetBucketProperties DEF b
<1>8. Peers(t) = Peers(tbl) \ {p}
    BY <1>3, <1>4, <1>5, <1>7
<1> QED BY <1>7, <1>8 DEF t

\* A full bucket only pings a contact it lists.
LEMMA ProbedByContacts ==
    ASSUME NEW me \in Id, NEW C \in SUBSET Id,
           NEW tbl, TableOK(me, C, tbl), NEW p \in C
    PROVE  ProbedBy(me, tbl, p) \subseteq C
<1> DEFINE b == BucketAt(tbl, BucketIndex(me, p))
<1>1. b \in Seq(C)
    BY BucketAtOK DEF BucketOK
<1> HIDE DEF b
<1>2. CASE Len(b) >= K_BUCKET_SIZE
    <2>1. b # <<>>
        BY <1>2, KBucketAssumption
    <2>2. Head(b) \in C
        BY <1>1, <2>1, HeadTailProperties
    <2> QED BY <2>2 DEF ProbedBy, Probed, b
<1>3. CASE ~(Len(b) >= K_BUCKET_SIZE)
    BY <1>3 DEF ProbedBy, Probed, IsNewcomer, b
<1> QED BY <1>2, <1>3

(***************************************************************************)
(* The order of distances                                                  *)
(***************************************************************************)

\* There are finitely many ids.
LEMMA IdsAreFinite == \A S \in SUBSET Id : IsFiniteSet(S) /\ Cardinality(S) \in Nat
<1>1. IsFiniteSet(0 .. ID_BITS - 1)
    BY KeyspaceAssumption, FS_Interval
<1>2. IsFiniteSet(Id)
    BY <1>1, FS_SUBSET DEF Id
<1> QED BY <1>2, FS_Subset, FS_CardinalityType

\* A non-empty set of bits has a highest one.
LEMMA MaxOfBits ==
    ASSUME NEW S \in SUBSET (0 .. ID_BITS - 1), S # {}
    PROVE  Max(S) \in S /\ \A i \in S : i <= Max(S)
<1>1. ID_BITS - 1 \in Nat
    BY KeyspaceAssumption
<1> QED BY <1>1, MaxOfBounded

\* The highest differing bit of two ids decides which one is less.
LEMMA LessTotal ==
    ASSUME NEW a \in Id, NEW b \in Id
    PROVE  /\ a # b => Less(a, b) \/ Less(b, a)
           /\ ~ (Less(a, b) /\ Less(b, a))
<1>1. CASE a = b
    BY <1>1 DEF Less
<1>2. CASE a # b
    <2>1. XOR(a, b) \in SUBSET (0 .. ID_BITS - 1) /\ XOR(a, b) # {} /\ XOR(b, a) = XOR(a, b)
        BY <1>2 DEF XOR, Id
    <2>2. Max(XOR(a, b)) \in XOR(a, b)
        BY <2>1, MaxOfBits
    <2> QED BY <1>2, <2>1, <2>2 DEF Less, XOR
<1> QED BY <1>1, <1>2

\* Less is Less of the highest differing bit, and no bit above it differs.
LEMMA LessWitness ==
    ASSUME NEW a \in Id, NEW b \in Id
    PROVE  Less(a, b) <=> \E m \in 0 .. ID_BITS - 1 :
                             /\ m \in b /\ m \notin a
                             /\ \A i \in 0 .. ID_BITS - 1 : i > m => (i \in a <=> i \in b)
<1>1. CASE a = b
    BY <1>1 DEF Less
<1>2. CASE a # b
    <2> DEFINE X == XOR(a, b)
    <2>1. X \in SUBSET (0 .. ID_BITS - 1) /\ X # {}
        BY <1>2 DEF XOR, Id
    <2>2. Max(X) \in X /\ \A i \in X : i <= Max(X)
        BY <2>1, MaxOfBits
    <2>3. \A i : i \in X <=> (i \in a /\ i \notin b) \/ (i \in b /\ i \notin a)
        BY DEF XOR
    <2>4. Less(a, b) <=> Max(X) \in b
        BY <1>2 DEF Less
    <2> HIDE DEF X
    <2>5. PICK x \in 0 .. ID_BITS - 1 : x = Max(X)
        BY <2>1, <2>2
    <2>6. ASSUME x \in b
          PROVE  \E m \in 0 .. ID_BITS - 1 :
                    /\ m \in b /\ m \notin a
                    /\ \A i \in 0 .. ID_BITS - 1 : i > m => (i \in a <=> i \in b)
        BY <2>2, <2>3, <2>5, <2>6
    <2>7. ASSUME NEW m \in 0 .. ID_BITS - 1, m \in b, m \notin a,
                 \A i \in 0 .. ID_BITS - 1 : i > m => (i \in a <=> i \in b)
          PROVE  x \in b
        BY <2>2, <2>3, <2>5, <2>7
    <2> QED BY <2>4, <2>5, <2>6, <2>7
<1> QED BY <1>1, <1>2

\* So the order of distances is transitive.
LEMMA LessTransitive ==
    ASSUME NEW a \in Id, NEW b \in Id, NEW c \in Id, Less(a, b), Less(b, c)
    PROVE  Less(a, c)
<1>1. PICK m \in 0 .. ID_BITS - 1 :
          /\ m \in b /\ m \notin a
          /\ \A i \in 0 .. ID_BITS - 1 : i > m => (i \in a <=> i \in b)
    BY LessWitness
<1>2. PICK n \in 0 .. ID_BITS - 1 :
          /\ n \in c /\ n \notin b
          /\ \A i \in 0 .. ID_BITS - 1 : i > n => (i \in b <=> i \in c)
    BY LessWitness
<1>3. m # n
    BY <1>1, <1>2
<1>4. CASE m > n
    <2>1. m \in c /\ \A i \in 0 .. ID_BITS - 1 : i > m => (i \in a <=> i \in c)
        BY <1>1, <1>2, <1>4, KeyspaceAssumption
    <2> QED BY <1>1, <2>1, LessWitness
<1>5. CASE n > m
    <2>1. n \notin a /\ \A i \in 0 .. ID_BITS - 1 : i > n => (i \in a <=> i \in c)
        BY <1>1, <1>2, <1>5, KeyspaceAssumption
    <2> QED BY <1>2, <2>1, LessWitness
<1> QED BY <1>3, <1>4, <1>5, KeyspaceAssumption

\* Closeness to a key is a strict total order: distances to a key are distinct.
LEMMA CloserOrder ==
    ASSUME NEW key \in Id
    PROVE  /\ \A p \in Id : ~ Closer(p, p, key)
           /\ \A p, q \in Id : p # q => Closer(p, q, key) \/ Closer(q, p, key)
           /\ \A p, q \in Id : ~ (Closer(p, q, key) /\ Closer(q, p, key))
           /\ \A p, q, r \in Id : Closer(p, q, key) /\ Closer(q, r, key) => Closer(p, r, key)
<1>1. \A p \in Id : XOR(p, key) \in Id
    BY DEF XOR, Id
<1>2. \A p, q \in Id : p # q => XOR(p, key) # XOR(q, key)
    BY DEF XOR, Id
<1>3. \A p \in Id : ~ Closer(p, p, key)
    BY DEF Closer, Less
<1>4. ASSUME NEW p \in Id, NEW q \in Id
      PROVE  /\ p # q => Closer(p, q, key) \/ Closer(q, p, key)
             /\ ~ (Closer(p, q, key) /\ Closer(q, p, key))
    BY <1>1, <1>2, LessTotal DEF Closer
<1>5. ASSUME NEW p \in Id, NEW q \in Id, NEW r \in Id, Closer(p, q, key), Closer(q, r, key)
      PROVE  Closer(p, r, key)
    BY <1>1, <1>5, LessTransitive DEF Closer
<1> QED BY <1>3, <1>4, <1>5

(***************************************************************************)
(* Sorting and slicing                                                     *)
(***************************************************************************)

Before(S, key, p) == {q \in S : Closer(q, p, key)}

\* The position of a peer in the sorted list.
LEMMA RankProperties ==
    ASSUME NEW key \in Id, NEW S \in SUBSET Id
    PROVE  /\ \A p \in S : Cardinality(Before(S, key, p)) \in 0 .. Cardinality(S) - 1
           /\ \A p, q \in S : Closer(p, q, key) =>
                 Cardinality(Before(S, key, p)) < Cardinality(Before(S, key, q))
<1>1. IsFiniteSet(S) /\ Cardinality(S) \in Nat
    BY IdsAreFinite
<1>2. \A p : /\ IsFiniteSet(Before(S, key, p))
             /\ Cardinality(Before(S, key, p)) \in Nat
    BY IdsAreFinite DEF Before
<1>3. ASSUME NEW p \in S
      PROVE  Cardinality(Before(S, key, p)) \in 0 .. Cardinality(S) - 1
    <2>1. Before(S, key, p) \in SUBSET (S \ {p})
        BY CloserOrder DEF Before
    <2>2. IsFiniteSet(S \ {p}) /\ Cardinality(S \ {p}) = Cardinality(S) - 1
        BY <1>1, FS_RemoveElement
    <2>3. Cardinality(Before(S, key, p)) <= Cardinality(S \ {p})
        BY <2>1, <2>2, FS_Subset
    <2> QED BY <1>1, <1>2, <2>2, <2>3
<1>4. ASSUME NEW p \in S, NEW q \in S, Closer(p, q, key)
      PROVE  Cardinality(Before(S, key, p)) < Cardinality(Before(S, key, q))
    <2>1. Before(S, key, p) \cup {p} \in SUBSET Before(S, key, q) /\ p \notin Before(S, key, p)
        BY <1>4, CloserOrder DEF Before
    <2>2. Cardinality(Before(S, key, p) \cup {p}) = Cardinality(Before(S, key, p)) + 1
        BY <1>2, <2>1, FS_AddElement
    <2>3. Cardinality(Before(S, key, p) \cup {p}) <= Cardinality(Before(S, key, q))
        BY <1>2, <2>1, FS_Subset
    <2> QED BY <1>2, <2>2, <2>3
<1> QED BY <1>3, <1>4

\* Every rank below the size of the set is the rank of exactly one member.
LEMMA RanksAreTaken ==
    ASSUME NEW key \in Id, NEW S \in SUBSET Id
    PROVE  /\ \A p, q \in S :
                 Cardinality(Before(S, key, p)) = Cardinality(Before(S, key, q)) => p = q
           /\ \A i \in 0 .. Cardinality(S) - 1 :
                 \E p \in S : Cardinality(Before(S, key, p)) = i
<1> DEFINE N == Cardinality(S)
           f == [p \in S |-> Cardinality(Before(S, key, p))]
<1>1. IsFiniteSet(S) /\ N \in Nat
    BY IdsAreFinite
<1>2. f \in [S -> 0 .. N - 1]
    BY RankProperties
<1>3. \A p, q \in S : Closer(p, q, key) => f[p] < f[q]
    BY RankProperties
<1> HIDE DEF N, f
<1>4. \A p, q \in S : f[p] = f[q] => p = q
    <2> SUFFICES ASSUME NEW p \in S, NEW q \in S, p # q PROVE f[p] # f[q]
        OBVIOUS
    <2>1. Closer(p, q, key) \/ Closer(q, p, key)
        BY CloserOrder
    <2>2. f[p] \in 0 .. N - 1 /\ f[q] \in 0 .. N - 1
        BY <1>2
    <2> QED BY <1>1, <1>3, <2>1, <2>2
<1>5. f \in Injection(S, 0 .. N - 1)
    BY <1>2, <1>4 DEF Injection, IsInjective
<1>6. IsFiniteSet(0 .. N - 1) /\ Cardinality(0 .. N - 1) = N
    BY <1>1, FS_Interval
<1>7. f \in Surjection(S, 0 .. N - 1)
    BY <1>5, <1>6, FS_Injection DEF N
<1> QED BY <1>4, <1>7 DEF N, f, Surjection

\* Closest returns as many members as asked for if there are, and prefers those
\* that are closer.
LEMMA ClosestProperties ==
    ASSUME NEW key \in Id, NEW S \in SUBSET Id, NEW n \in Nat
    PROVE  /\ Closest(S, key, n) \subseteq S
           /\ Cardinality(Closest(S, key, n)) = IF n <= Cardinality(S) THEN n ELSE Cardinality(S)
           /\ \A p \in S \ Closest(S, key, n), q \in Closest(S, key, n) : Closer(q, p, key)
<1> DEFINE N == Cardinality(S)
           R == Closest(S, key, n)
           m == IF n <= N THEN n ELSE N
           f == [p \in S |-> Cardinality(Before(S, key, p))]
           g == [p \in R |-> f[p]]
<1>1. IsFiniteSet(S) /\ N \in Nat
    BY IdsAreFinite
<1>2. R = {p \in S : f[p] < n}
    BY DEF Closest, Before
<1>3. f \in [S -> 0 .. N - 1]
    BY RankProperties
<1>4. \A p, q \in S : Closer(p, q, key) => f[p] < f[q]
    BY RankProperties
<1> HIDE DEF N, R, f
<1>5. /\ \A p, q \in S : f[p] = f[q] => p = q
      /\ \A i \in 0 .. N - 1 : \E p \in S : f[p] = i
    BY RanksAreTaken DEF f, N
<1>9. m \in Nat /\ m <= N /\ m <= n
    BY <1>1
<1>10. \A i \in 0 .. m - 1 : \E p \in R : f[p] = i
    <2> SUFFICES ASSUME NEW i \in 0 .. m - 1 PROVE \E p \in R : f[p] = i
        OBVIOUS
    <2>1. i \in 0 .. N - 1 /\ i < n
        BY <1>1, <1>9
    <2>2. PICK p \in S : f[p] = i
        BY <1>5, <2>1
    <2> QED BY <1>2, <2>1, <2>2
<1>11. \A p \in R : f[p] \in 0 .. m - 1
    <2> SUFFICES ASSUME NEW p \in R PROVE f[p] \in 0 .. m - 1
        OBVIOUS
    <2>1. f[p] \in 0 .. N - 1 /\ f[p] < n
        BY <1>2, <1>3
    <2> QED BY <1>1, <2>1
<1> HIDE DEF m
<1>12. g \in Injection(R, 0 .. m - 1)
    BY <1>2, <1>5, <1>11 DEF Injection, IsInjective
<1>13. g \in Surjection(R, 0 .. m - 1)
    BY <1>10, <1>11 DEF Surjection
<1>14. IsFiniteSet(R)
    BY <1>1, <1>2, FS_Subset
<1>15. Cardinality(R) = Cardinality(0 .. m - 1)
    BY <1>12, <1>13, <1>14, FS_Surjection
<1>16. Cardinality(R) = m
    BY <1>9, <1>15, FS_Interval
<1>17. ASSUME NEW p \in S \ R, NEW q \in R PROVE Closer(q, p, key)
    <2>1. q \in S /\ f[q] < n /\ ~ (f[p] < n) /\ f[p] \in Nat /\ f[q] \in Nat
        BY <1>1, <1>2, <1>3
    <2>2. ~ Closer(p, q, key) /\ p # q
        BY <1>4, <2>1
    <2> QED BY <2>1, <2>2, CloserOrder
<1> QED BY <1>2, <1>16, <1>17 DEF R, N, m

\* Asked for one, Closest returns one, if there is any.
LEMMA ClosestOfSome ==
    ASSUME NEW key \in Id, NEW S \in SUBSET Id, S # {}
    PROVE  Closest(S, key, 1) # {}
<1>1. IsFiniteSet(S) /\ Cardinality(S) \in Nat /\ Cardinality(S) # 0
    BY IdsAreFinite, FS_EmptySet
<1>2. Cardinality(Closest(S, key, 1)) = 1
    BY <1>1, ClosestProperties
<1> QED BY <1>2, FS_EmptySet

(***************************************************************************)
(* findNode                                                                *)
(***************************************************************************)

\* With as many rounds as there are buckets, none is left out.
LEMMA WithinAll ==
    ASSUME NEW tbl, DOMAIN tbl \subseteq Indices, NEW home \in Indices
    PROVE  /\ Cardinality(DOMAIN tbl) \in Nat
           /\ Within(tbl, home, Cardinality(DOMAIN tbl)) = DOMAIN tbl
<1> DEFINE D == DOMAIN tbl
           N == Cardinality(D)
           above == {i \in D : i > home}
           below == {i \in D : i < home}
<1>1. IsFiniteSet(D) /\ N \in Nat
    <2>1. IsFiniteSet(Indices)
        BY KeyspaceAssumption, FS_Interval DEF Indices
    <2>2. IsFiniteSet(D)
        BY <2>1, FS_Subset
    <2> QED BY <2>2, FS_CardinalityType
<1>2. \A i \in D : i \in Int
    BY DEF Indices
<1>3. home \in Int
    BY DEF Indices
<1>4. ASSUME NEW i \in D, NEW T \in SUBSET (D \ {i}) PROVE Cardinality(T) < N
    <2>1. IsFiniteSet(D \ {i}) /\ Cardinality(D \ {i}) = N - 1
        BY <1>1, FS_RemoveElement
    <2>2. Cardinality(T) \in Nat /\ Cardinality(T) <= Cardinality(D \ {i})
        BY <2>1, FS_Subset, FS_CardinalityType
    <2> QED BY <1>1, <2>1, <2>2
<1>5. \A i \in D : {j \in above : j < i} \in SUBSET (D \ {i})
                   /\ {j \in below : j > i} \in SUBSET (D \ {i})
    BY <1>2
<1>6. \A i \in D : i = home \/ i \in above \/ i \in below
    BY <1>2, <1>3
<1>7. Within(tbl, home, N) =
          (D \cap {home}) \cup {i \in above : Cardinality({j \in above : j < i}) < N}
                          \cup {i \in below : Cardinality({j \in below : j > i}) < N}
    BY DEF Within
<1>8. above \subseteq D /\ below \subseteq D
    OBVIOUS
<1> HIDE DEF N, D, above, below
<1>9. Within(tbl, home, N) = D
    BY <1>4, <1>5, <1>6, <1>7, <1>8
<1> QED BY <1>1, <1>9 DEF N, D

\* The loop ends: with enough peers, or with no bucket left.
LEMMA FindNodeStops ==
    ASSUME NEW me \in Id, NEW tbl, DOMAIN tbl \subseteq Indices, NEW key \in Id, NEW count
    PROVE  \E r \in Nat :
              /\ FindNode(me, tbl, key, count) =
                    Closest(Gathered(tbl, BucketIndex(me, key), r, key), key, count)
              /\ \/ Cardinality(Gathered(tbl, BucketIndex(me, key), r, key)) >= count
                 \/ Within(tbl, BucketIndex(me, key), r) = DOMAIN tbl
<1> DEFINE home == BucketIndex(me, key)
           Stops(r) == \/ Cardinality(Gathered(tbl, home, r, key)) >= count
                       \/ Within(tbl, home, r) = DOMAIN tbl
           N == Cardinality(DOMAIN tbl)
           last == CHOOSE r \in 0 .. N : Stops(r) /\ \A s \in 0 .. r - 1 : ~Stops(s)
           R == {ss \in Nat \X Nat : ss[1] < ss[2]}
           T == {r \in 0 .. N : Stops(r)}
<1>1. home \in Indices
    BY BucketIndexProperties
<1>2. N \in Nat /\ Stops(N)
    BY <1>1, WithinAll
<1>3. FindNode(me, tbl, key, count) = Closest(Gathered(tbl, home, last, key), key, count)
    BY DEF FindNode
<1> HIDE DEF home, N, Stops
<1>4. \E t \in T : \A u \in T : ~ (<<u, t>> \in R)
    <2>1. T \subseteq Nat /\ N \in T
        BY <1>2
    <2>2. IsWellFoundedOn(R, Nat)
        BY NatOrderWellFounded
    <2> HIDE DEF R, T
    <2> QED BY <2>1, <2>2, WFMin
<1>5. PICK t \in T : \A u \in T : ~ (<<u, t>> \in R)
    BY <1>4
<1>6. t \in 0 .. N /\ Stops(t)
    BY <1>5
<1>7. \A s \in 0 .. t - 1 : ~ Stops(s)
    <2> SUFFICES ASSUME NEW s \in 0 .. t - 1, Stops(s) PROVE FALSE
        OBVIOUS
    <2>1. s \in 0 .. N /\ s \in Nat /\ t \in Nat /\ s < t
        BY <1>2, <1>6
    <2> QED BY <1>5, <2>1
<1>8. last \in 0 .. N /\ Stops(last)
    BY <1>6, <1>7
<1>9. last \in Nat
    BY <1>2, <1>8
<1> QED BY <1>3, <1>8, <1>9 DEF home, Stops

\* findNode gathers the bucket of the key and whatever the rounds add to it.
LEMMA GatheredProperties ==
    ASSUME NEW me \in Id, NEW C \in SUBSET Id, NEW tbl, TableOK(me, C, tbl),
           NEW key \in Id, NEW r \in Nat
    PROVE  LET G == Gathered(tbl, BucketIndex(me, key), r, key)
           IN  /\ G \subseteq Peers(tbl) \ {key}
               /\ Range(BucketAt(tbl, BucketIndex(me, key))) \ {key} \subseteq G
               /\ Within(tbl, BucketIndex(me, key), r) = DOMAIN tbl => G = Peers(tbl) \ {key}
<1> DEFINE home == BucketIndex(me, key)
           W == Within(tbl, home, r)
           G == Gathered(tbl, home, r, key)
<1>1. \A q : q \in G <=> q # key /\ \E i \in W : q \in Range(tbl[i])
    BY DEF Gathered
<1>2. W \subseteq DOMAIN tbl /\ (home \in DOMAIN tbl => home \in W)
    BY DEF Within
<1>3. \A q : q \in Peers(tbl) <=> \E i \in DOMAIN tbl : q \in Range(tbl[i])
    BY DEF Peers
<1>4. \A q \in Range(BucketAt(tbl, home)) : home \in DOMAIN tbl /\ q \in Range(tbl[home])
    <2>1. Range(<<>>) = {}
        BY DEF Range
    <2> QED BY <2>1 DEF BucketAt
<1> HIDE DEF G, W, home
<1>5. G \subseteq Peers(tbl) \ {key}
    BY <1>1, <1>2, <1>3
<1>6. Range(BucketAt(tbl, home)) \ {key} \subseteq G
    BY <1>1, <1>2, <1>4
<1>7. W = DOMAIN tbl => G = Peers(tbl) \ {key}
    BY <1>1, <1>3
<1> QED BY <1>5, <1>6, <1>7 DEF G, W, home

\* A well-formed table lists ids.
LEMMA PeersInContacts ==
    ASSUME NEW me, NEW C, NEW tbl, TableOK(me, C, tbl)
    PROVE  Peers(tbl) \subseteq C
BY RangeOfSeq DEF Peers, TableOK, BucketOK

\* findNode returns count listed peers other than the key, or all of them if there
\* are fewer, and leaves out a peer of the key's bucket for closer ones only.
LEMMA FindNodeProperties ==
    ASSUME NEW me \in Id, NEW C \in SUBSET Id, NEW tbl, TableOK(me, C, tbl),
           NEW key \in Id, NEW count \in Nat
    PROVE  LET eligible == Peers(tbl) \ {key}
               found == FindNode(me, tbl, key, count)
           IN  /\ found \subseteq eligible
               /\ Cardinality(found) =
                     IF count <= Cardinality(eligible) THEN count ELSE Cardinality(eligible)
               /\ \A p \in Range(BucketAt(tbl, BucketIndex(me, key))) \ {key} :
                     p \notin found => \A q \in found : Closer(q, p, key)
<1> DEFINE eligible == Peers(tbl) \ {key}
           found == FindNode(me, tbl, key, count)
           bucket == Range(BucketAt(tbl, BucketIndex(me, key))) \ {key}
<1>1. DOMAIN tbl \subseteq Indices /\ eligible \in SUBSET Id
    BY PeersInContacts DEF TableOK
<1>2. PICK r \in Nat :
          /\ found = Closest(Gathered(tbl, BucketIndex(me, key), r, key), key, count)
          /\ \/ Cardinality(Gathered(tbl, BucketIndex(me, key), r, key)) >= count
             \/ Within(tbl, BucketIndex(me, key), r) = DOMAIN tbl
    BY <1>1, FindNodeStops
<1> DEFINE G == Gathered(tbl, BucketIndex(me, key), r, key)
<1>3. /\ G \subseteq eligible
      /\ bucket \subseteq G
      /\ Within(tbl, BucketIndex(me, key), r) = DOMAIN tbl => G = eligible
    BY GatheredProperties
<1>4. found = Closest(G, key, count) /\ (Cardinality(G) >= count \/ G = eligible)
    BY <1>2, <1>3
<1> HIDE DEF G, found, eligible, bucket
<1>5. G \in SUBSET Id /\ Cardinality(G) \in Nat /\ IsFiniteSet(eligible)
      /\ Cardinality(eligible) \in Nat /\ Cardinality(G) <= Cardinality(eligible)
    BY <1>1, <1>3, IdsAreFinite, FS_Subset
<1>6. /\ found \subseteq G
      /\ Cardinality(found) = IF count <= Cardinality(G) THEN count ELSE Cardinality(G)
      /\ \A p \in G \ found, q \in found : Closer(q, p, key)
    BY <1>4, <1>5, ClosestProperties
<1>7. Cardinality(found) =
          IF count <= Cardinality(eligible) THEN count ELSE Cardinality(eligible)
    BY <1>4, <1>5, <1>6
<1> QED BY <1>3, <1>6, <1>7 DEF found, eligible, bucket

(***************************************************************************)
(* Buckets with room for all                                               *)
(***************************************************************************)

\* A bucket lists as many peers as it has entries.
LEMMA InjectiveCardinality ==
    ASSUME NEW S, NEW b \in Seq(S), IsInjective(b)
    PROVE  IsFiniteSet(Range(b)) /\ Cardinality(Range(b)) = Len(b)
<1>1. Len(b) \in Nat /\ DOMAIN b = 1 .. Len(b)
    BY LenProperties
<1>2. b \in Surjection(1 .. Len(b), Range(b)) /\ b \in Injection(1 .. Len(b), Range(b))
    BY <1>1, SeqOfRange, LenProperties, ElementOfSeq DEF Surjection, Injection, IsInjective, Range
<1>3. IsFiniteSet(1 .. Len(b)) /\ Cardinality(1 .. Len(b)) = Len(b)
    BY <1>1, FS_Interval
<1> QED BY <1>2, <1>3, FS_Surjection

(***************************************************************************)
(* A table that only contacts are reported to                              *)
(***************************************************************************)

\* t is what a table may become while nobody is removed from it: no peer is
\* forgotten, and no bucket shrinks.
Grown(me, C, tbl, t) ==
    /\ TableOK(me, C, t)
    /\ Peers(tbl) \subseteq Peers(t)
    /\ \A i \in Indices : Len(BucketAt(tbl, i)) <= Len(BucketAt(t, i))

\* p is on the table, or there was no room for it.
Met(me, tbl, p) ==
    p \in Peers(tbl) \/ Len(BucketAt(tbl, BucketIndex(me, p))) >= K_BUCKET_SIZE

\* A report to a bucket forgets nobody, and lists the contact unless it is full.
LEMMA BucketGrows ==
    ASSUME NEW me \in Id, NEW C \in SUBSET Id, NEW i, NEW b, BucketOK(me, C, i, b),
           NEW p \in C, BucketIndex(me, p) = i
    PROVE  LET u == UpdateBucketNode(me, b, p)
           IN  /\ BucketOK(me, C, i, u)
               /\ Range(b) \subseteq Range(u) /\ Range(u) \subseteq Range(b) \cup {p}
               /\ Len(b) <= Len(u)
               /\ p \in Range(u) \/ Len(u) >= K_BUCKET_SIZE
<1> DEFINE u == UpdateBucketNode(me, b, p)
<1>1. /\ u \in Seq(C) /\ IsInjective(u) /\ Len(u) <= K_BUCKET_SIZE
      /\ \/ Range(u) = Range(b)
         \/ Range(u) = Range(b) \cup {p} /\ Len(b) < K_BUCKET_SIZE
    BY UpdateBucketNodeProperties DEF BucketOK
<1>2. b \in Seq(C) /\ IsInjective(b) /\ Len(b) \in Nat /\ Len(u) \in Nat
    BY <1>1, LenProperties DEF BucketOK
<1>3. Len(b) <= Len(u) /\ (p \in Range(u) \/ Len(u) >= K_BUCKET_SIZE)
    <2>1. CASE p \in Range(b)
        <3>1. p \in Range(u) /\ Range(u) = Range(b)
            BY <1>1, <2>1
        <3>2. Len(u) = Len(b)
            BY <1>1, <1>2, <3>1, InjectiveCardinality
        <3> QED BY <1>2, <3>1, <3>2
    <2>2. CASE p \notin Range(b) /\ Len(b) < K_BUCKET_SIZE
        <3>1. u = Append(b, p)
            BY <2>2 DEF UpdateBucketNode
        <3>2. Len(u) = Len(b) + 1 /\ DOMAIN u = 1 .. Len(b) + 1 /\ u[Len(b) + 1] = p
            BY <1>2, <3>1, AppendProperties
        <3> QED BY <1>2, <3>2 DEF Range
    <2>3. CASE p \notin Range(b) /\ Len(b) >= K_BUCKET_SIZE
        <3>1. u = Reverse(b) \/ u = b
            BY <1>2, <2>3, KBucketAssumption DEF UpdateBucketNode
        <3>2. Len(Reverse(b)) = Len(b)
            BY <1>2 DEF Reverse
        <3> QED BY <1>2, <2>3, <3>1, <3>2
    <2> QED BY <1>2, <2>1, <2>2, <2>3, KBucketAssumption
<1> HIDE DEF u
<1>4. \A q \in Range(u) : BucketIndex(me, q) = i
    BY <1>1 DEF BucketOK
<1> QED BY <1>1, <1>3, <1>4 DEF u, BucketOK

\* The lists of a well-formed table have lengths.
LEMMA TableLengths ==
    ASSUME NEW me, NEW C, NEW tbl, TableOK(me, C, tbl), NEW i
    PROVE  Len(BucketAt(tbl, i)) \in Nat
<1>1. Len(<<>>) = 0
    OBVIOUS
<1> QED BY <1>1, LenProperties DEF BucketAt, TableOK, BucketOK

\* Growing composes, and who has been met stays so.
LEMMA GrownFurther ==
    ASSUME NEW me \in Id, NEW C \in SUBSET Id, NEW tbl, TableOK(me, C, tbl), NEW t, NEW u,
           Grown(me, C, tbl, t)
    PROVE  /\ Grown(me, C, t, u) => Grown(me, C, tbl, u)
           /\ \A p \in Id : Met(me, tbl, p) => Met(me, t, p)
<1>1. \A i : Len(BucketAt(tbl, i)) \in Nat /\ Len(BucketAt(t, i)) \in Nat
    BY TableLengths DEF Grown
<1>2. ASSUME Grown(me, C, t, u) PROVE Grown(me, C, tbl, u)
    <2>1. \A i : Len(BucketAt(u, i)) \in Nat
        BY <1>2, TableLengths DEF Grown
    <2> QED BY <1>1, <1>2, <2>1 DEF Grown
<1>3. ASSUME NEW p \in Id, Met(me, tbl, p) PROVE Met(me, t, p)
    <2>1. BucketIndex(me, p) \in Indices
        BY BucketIndexProperties
    <2> QED BY <1>1, <1>3, <2>1, KBucketAssumption DEF Met, Grown
<1> QED BY <1>2, <1>3

\* updateTables forgets nobody, and the contact has been met.
LEMMA UpdatedGrows ==
    ASSUME NEW me \in Id, NEW C \in SUBSET Id,
           NEW tbl, TableOK(me, C, tbl), NEW p \in C
    PROVE  LET t == Updated(me, tbl, p)
           IN  /\ Grown(me, C, tbl, t) /\ Met(me, t, p)
               /\ Peers(t) \subseteq Peers(tbl) \cup {p}
<1> DEFINE i == BucketIndex(me, p)
           b == BucketAt(tbl, i)
           u == UpdateBucketNode(me, b, p)
           t == Updated(me, tbl, p)
<1>1. i \in Indices /\ BucketOK(me, C, i, b)
    BY BucketAtOK
<1>2. /\ Len(b) <= Len(u)
      /\ p \in Range(u) \/ Len(u) >= K_BUCKET_SIZE
    <2> HIDE DEF b
    <2> QED BY <1>1, BucketGrows
<1>3. TableOK(me, C, t) /\ Peers(tbl) \subseteq Peers(t) /\ Peers(t) \subseteq Peers(tbl) \cup {p}
    BY UpdatedProperties
<1>4. t = SetBucket(tbl, i, u)
    BY DEF Updated
<1> HIDE DEF i, b, u, t
<1>5. /\ i \in DOMAIN t /\ t[i] = u /\ BucketAt(t, i) = u
      /\ \A j \in Indices : j # i => BucketAt(t, j) = BucketAt(tbl, j)
    BY <1>4 DEF SetBucket, BucketAt
<1>6. \A j \in Indices : Len(BucketAt(tbl, j)) <= Len(BucketAt(t, j))
    <2> SUFFICES ASSUME NEW j \in Indices
                 PROVE  Len(BucketAt(tbl, j)) <= Len(BucketAt(t, j))
        OBVIOUS
    <2>1. CASE j = i
        BY <1>2, <1>5, <2>1 DEF b
    <2>2. CASE j # i
        <3>1. Len(BucketAt(tbl, j)) \in Nat
            BY TableLengths
        <3> QED BY <1>5, <2>2, <3>1
    <2> QED BY <2>1, <2>2
<1>7. Met(me, t, p)
    BY <1>2, <1>5 DEF Met, Peers, i
<1> QED BY <1>3, <1>6, <1>7 DEF t, Grown
=============================================================================
