------------------------------- MODULE MCDisco -------------------------------
(* An instance of Disco for TLC: a LAN address, a remote one and the relay. *)
EXTENDS Disco

CONSTANTS lan, wan, relay

\* The peer uses our relay, or the controller knows its remote address only.
MCCandSets == {{lan, wan, relay}, {wan}}
MCHintSets == {{lan}}
MCOrder == <<lan, wan, relay>>
==============================================================================
