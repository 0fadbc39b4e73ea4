------------------------------ MODULE RoomView ------------------------------
(***************************************************************************)
(* What a node promises about the signed configs of one room, whoever      *)
(* hands them to it: it never takes one older than the newest it took, and *)
(* it stops the room on one that leaves it out.  RoomSync, with its        *)
(* threads, netmaps and gossip, implements this.                           *)
(***************************************************************************)
EXTENDS Naturals, Sequences

CONSTANT MaxConfigs      \* bound of the model: configs signed for the room

VARIABLES
    lists,      \* lists[v]: does the config of version v list this node?
    accepted,   \* the newest version the node took (0: none)
    running,    \* the version of the config the room runs with (0: stopped)
    taken       \* history: every version taken since the node started

viewVars == <<lists, accepted, running, taken>>

ViewInit ==
    /\ lists = <<>>
    /\ accepted = 0 /\ running = 0 /\ taken = {}

\* The controller signs one more config.
Sign(in) ==
    /\ Len(lists) < MaxConfigs
    /\ lists' = Append(lists, in)
    /\ UNCHANGED <<accepted, running, taken>>

\* The node takes version v.  If v lists it the room runs with v, or stays
\* as it was or down when the network devices refuse the change.
Take(v) ==
    /\ v \in 1 .. Len(lists) /\ v >= accepted
    /\ accepted' = v
    /\ taken' = taken \cup {v}
    /\ running' \in IF lists[v] THEN {v, running, 0} ELSE {0}
    /\ UNCHANGED lists

\* Left, turned off, or no longer in the netmap.
Stop ==
    /\ running' = 0
    /\ UNCHANGED <<lists, accepted, taken>>

\* The process starts again with nothing in memory.
Forget ==
    /\ accepted' = 0 /\ running' = 0 /\ taken' = {}
    /\ UNCHANGED lists

ViewNext ==
    \/ \E in \in BOOLEAN : Sign(in)
    \/ \E v \in 1 .. Len(lists) : Take(v)
    \/ Stop
    \/ Forget

ViewSpec == ViewInit /\ [][ViewNext]_viewVars

\* A config that leaves the node out puts an end to every config before it:
\* what runs lists the node, is not newer than what was taken, and nothing
\* taken since then left the node out.
Revoked ==
    running # 0 =>
        /\ lists[running] /\ running <= accepted /\ accepted \in taken
        /\ \A v \in taken : v >= running => lists[v]
=============================================================================
