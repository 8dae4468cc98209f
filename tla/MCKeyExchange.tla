--------------------------- MODULE MCKeyExchange ----------------------------
(***************************************************************************)
(* Instances of KeyExchange for TLC: two and three nodes.                  *)
(***************************************************************************)
EXTENDS KeyExchange

MCTwoNodes   == 0 .. 1
MCThreeNodes == 0 .. 2
=============================================================================
