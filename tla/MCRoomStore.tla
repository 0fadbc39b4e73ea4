---------------------------- MODULE MCRoomStore ----------------------------
(* RoomStore on small instances. *)
EXTENDS RoomStore, TLC

Net(l, h) == [lo |-> l, hi |-> h]

\* A /29, the /29 after it and the /28 that holds both.
MCSubnets == {Net(8, 15), Net(16, 23), Net(8, 23)}

\* A node that offers nothing, a subnet router whose LAN is outside every
\* room and whose second prefix covers the rooms, and an exit.
Lan == Net(40, 47)
Wide == Net(0, 31)
MCReports ==
    {[addr |-> "a", routes |-> {}, exit |-> FALSE],
     [addr |-> "b", routes |-> {Lan, Wide}, exit |-> TRUE]}

\* A host of the /29 and its last address, which is none.
FewAddresses == {10, 15}

MCUses == {0, 1}
MCValues == {0, 1}

Sym == Permutations(Nodes) \cup Permutations(Rooms)
=============================================================================
