--------------------------- MODULE MCKeyDirectory ---------------------------
(***************************************************************************)
(* An instance of KeyDirectory for TLC, with hashes of the deployed code:  *)
(* the key of node 7 is read where node 3 stores its own, and where the    *)
(* records of the gateways of the chain sepolia are.                       *)
(***************************************************************************)
EXTENDS KeyDirectory, TLC

CONSTANTS none, undefined

MCNode      == {3, 7}
MCStoredAt  == 3 :> 23 @@ 7 :> 2
MCReadAt    == 3 :> 13 @@ 7 :> 23
MCGatewayAt == 3 :> {} @@ 7 :> {23}
MCOther     == 3 :> <<7>> @@ 7 :> <<3>>
MCCallers   == {3}
=============================================================================
