--------------------------- MODULE MCRelayTransport ---------------------------
(* RelayTransport with the code's times in ticks of four seconds. *)
EXTENDS RelayTransport
=============================================================================
