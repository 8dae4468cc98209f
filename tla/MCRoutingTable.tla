--------------------------- MODULE MCRoutingTable ---------------------------
(***************************************************************************)
(* Instances of RoutingTable for TLC: 3-bit identifiers, so that bucket 2  *)
(* has four possible peers for two places.                                 *)
(***************************************************************************)
EXTENDS RoutingTable

\* The table of the bootstrap node, which reports itself.
MCBootstrap      == {}
MCBootstrapPeers == Id

\* The set representation of identifiers agrees with the numbers of the code.
ASSUME RepresentationIsFaithful ==
    \A a, b \in Id :
        /\ Less(a, b) <=> Number(a) < Number(b)
        /\ Number(XOR(a, b)) =
             MapThenSumSet(LAMBDA i : 2^i *
                 (((Number(a) \div 2^i) + (Number(b) \div 2^i)) % 2),
                 0 .. ID_BITS - 1)

\* Dropping one occurrence is the filter of removeNode on duplicate-free lists.
ASSUME RemoveNodeIsFilter ==
    \A bucket \in BoundedSeq(0 .. 3, 3) : \A p \in 0 .. 3 :
        IsInjective(bucket) =>
            RemoveNode(bucket, p) = SelectSeq(bucket, LAMBDA q : q # p)
=============================================================================
