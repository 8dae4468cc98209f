--------------------------- MODULE MCWsTransport ----------------------------
(***************************************************************************)
(* Instances of WsTransport for TLC: three nodes.                          *)
(***************************************************************************)
EXTENDS WsTransport

MCNode  == 0 .. 2
MCLists == {<<1, 0>>, <<0, 2>>}
MCUnsteady == {1, 2}
MCSenders == {0, 1}
=============================================================================
