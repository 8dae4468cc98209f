--------------------------- MODULE GatewayRegistry --------------------------
(***************************************************************************)
(* What the gateway operations promise, without messages, stores and       *)
(* tables: a lookup returns gateways that were registered for the chain it *)
(* asks for, and no node twice.  It promises neither all of them, nor the  *)
(* newest.                                                                 *)
(***************************************************************************)
CONSTANTS
    Node,   \* ids of nodes
    Chain,  \* blockchain ids
    Stamp,  \* times of registration
    None    \* no answer yet

VARIABLES
    made,   \* the gateway records made so far
    answer  \* [Node -> what its latest lookup returned]

vars == <<made, answer>>

\* A registration of a node for a chain, told apart by its stamp.
Record == [chain : Chain, node : Node, stamp : Stamp]

OnePerNode(S) == \A g, h \in S : g.node = h.node => g = h

Init ==
    /\ made = {}
    /\ answer = [n \in Node |-> None]

Register(r) ==
    /\ made' = made \cup {r}
    /\ UNCHANGED answer

Answer(n, c, found) ==
    /\ found \subseteq {g \in made : g.chain = c}
    /\ OnePerNode(found)
    /\ answer' = [answer EXCEPT ![n] = [chain |-> c, found |-> found]]
    /\ UNCHANGED made

\* The node starts anew.
Forget(n) ==
    /\ answer' = [answer EXCEPT ![n] = None]
    /\ UNCHANGED made

Next ==
    \/ \E r \in Record : Register(r)
    \/ \E n \in Node, c \in Chain, found \in SUBSET made : Answer(n, c, found)
    \/ \E n \in Node : Forget(n)

Spec == Init /\ [][Next]_vars
=============================================================================
