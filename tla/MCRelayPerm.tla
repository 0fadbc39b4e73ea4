---------------------------- MODULE MCRelayPerm ----------------------------
(* RelayPerm on a small instance. *)
EXTENDS RelayPerm, TLC

Sym == Permutations(Handlers)
=============================================================================
