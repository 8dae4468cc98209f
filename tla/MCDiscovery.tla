---------------------------- MODULE MCDiscovery ----------------------------
(***************************************************************************)
(* Nodes 0, 4, 5 and 6: node 4 runs the rounds, and nodes 5 and 6 are both *)
(* closer to it than node 0.                                               *)
(***************************************************************************)
EXTENDS Discovery

MCNode        == {{}, {2}, {0, 2}, {1, 2}}
MCDiscoverers == {{2}}

\* The node that runs the rounds, and one that answers.
MCRestarting  == {{2}, {1, 2}}

\* Node 0 knows nodes 5 and 6, and node 6 knows node 5.
MCTraffic     == {<<{}, {0, 2}>>, <<{}, {1, 2}>>, <<{1, 2}, {0, 2}>>}
=============================================================================
