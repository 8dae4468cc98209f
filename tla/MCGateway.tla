------------------------------ MODULE MCGateway -----------------------------
(***************************************************************************)
(* Instances of Gateway for TLC: nodes 0, 1 and 2.                         *)
(***************************************************************************)
EXTENDS Gateway, TLC

CONSTANTS A, B   \* chains

MCNode  == {{}, {0}, {1}}
MCNode0 == {{}}
MCNode1 == {{0}}

\* Nodes 1 and 2 are gateways of chain A; none is one of chain B.
MCServes == [n \in Node |-> IF n = BootstrapId THEN {} ELSE {A}]

\* Node 0 is the only gateway.
MCServesZero == [n \in Node |-> IF n = BootstrapId THEN {A} ELSE {}]

\* The key of chain A is used by nothing else.  The key of chain B is also that
\* of a value, and the own key of every gateway of chain A.
MCPrimaryA == A :> {0, 1}
MCPrimary  == (A :> {0, 1}) @@ (B :> {0})
MCSpecific == [c \in Chain |-> [n \in Node |-> {0}]]
MCTextKeys == {{0}}

\* Node 1 knows node 0, which start() reports, and perhaps node 2; the others
\* know everybody, and node 0 also lists itself.
TableOf(n, S) == FoldSet(LAMBDA p, tbl : Updated(n, tbl, p), EmptyTable, S)

MCTables ==
    [n \in Node |->
       IF n = {0} THEN {TableOf(n, {{}}), TableOf(n, {{}, {1}})}
       ELSE {TableOf(n, (Node \ {n}) \cup {{}})}]
=============================================================================
