----------------------------- MODULE MCDhtStore -----------------------------
(***************************************************************************)
(* Instances of DhtStore for TLC: three nodes of a 2-bit or a 3-bit space. *)
(***************************************************************************)
EXTENDS DhtStore

CONSTANTS v1, v2

MCThreeNodes == {{}, {0}, {1}}
MCValue      == {v1, v2}
MCOneValue   == {v1}
MCTraffic    == {<<n, p>> \in MCThreeNodes \X MCThreeNodes : n # p}
MCHashOne    == v1 :> {0, 1}

\* Nodes 0, 3 and 4: the API of node 4 is called, which is far from both keys, so
\* that it keeps no copy, and knows node 0 before the closer node 3.  What a node
\* that is not called knows has no effect: the peers it answers with are ignored.
MCFarNodes   == {{}, {0, 1}, {2}}
MCFarCaller  == {{2}}
MCFarHash    == (v1 :> {1}) @@ (v2 :> {0})
MCReplicaHash == v1 :> {0}
MCFarTraffic == {<<{2}, {0, 1}>>}

\* The instances are ones that the theorem about WriterFindsItsValue speaks of.
ASSUME InstancesAskEveryone == Cardinality(Node) <= QUERIED
=============================================================================
