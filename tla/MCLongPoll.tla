----------------------------- MODULE MCLongPoll -----------------------------
(* LongPoll on small instances. *)
EXTENDS LongPoll

OneSubnet == {[lo |-> 8, hi |-> 15]}

\* A node that moved: the same offers from two addresses.
TwoReports ==
    {[addr |-> "a", routes |-> {}, exit |-> FALSE],
     [addr |-> "b", routes |-> {}, exit |-> FALSE]}
=============================================================================
