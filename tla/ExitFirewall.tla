---------------------------- MODULE ExitFirewall ----------------------------
(***************************************************************************)
(* The exit of a machine together with the packets its kill switch lets    *)
(* pass: ExitGuard decides which rules are in force, Firewall what they    *)
(* do.  An interface of the firewall is a room of the exit.                *)
(***************************************************************************)
EXTENDS ExitGuard, Firewall

ASSUME RoomInterfaces == Interfaces = Rooms /\ Phys = NoRoom

\* What SetKillSwitch was given.
Given(k) == [ifs |-> k.ifs, lan |-> k.lan]

------------------------------------------------------------------------------
(* Properties. *)

\* While rules of the kill switch are in force, whoever installed them, and
\* whatever has become of the daemon and its rooms since, nothing leaves the
\* machine but the node's own packets, those into the rooms, loopback, the LAN
\* if it is allowed, and address configuration; and the rules never cut these
\* off, in either direction, over IPv4 or IPv6.
NoLeak == rules.on => <<conf.os, Given(rules)>> \notin Leaky \cup Cutting

\* Rules that take the place of others, as rooms come and go, leave no moment
\* in which the internet is open or a room that stays is cut off.
NoGap ==
    [][rules.on /\ rules'.on => <<conf.os, Given(rules), Given(rules')>> \notin Slipping]_vars
=============================================================================
