---------------------------- MODULE MCExitGuard ----------------------------
(* ExitGuard, with the packets of Firewall, on small instances. *)
EXTENDS ExitFirewall

\* A kill switch in the config, on both systems.
Machines ==
    {[os |-> "linux", ks |-> TRUE, lan |-> TRUE, dns |-> FALSE, user |-> FALSE],
     [os |-> "windows", ks |-> TRUE, lan |-> FALSE, dns |-> FALSE, user |-> FALSE]}

\* The admins of one room pick an exit.
OnePick == {{}, {1}}
=============================================================================
