--------------------------- MODULE MCUdpTransport ---------------------------
(***************************************************************************)
(* Instance of UdpTransport for TLC.  Calls share no state, so one call    *)
(* shows what several would.                                               *)
(***************************************************************************)
EXTENDS UdpTransport

CONSTANT c1

MCCall == {c1}
=============================================================================
