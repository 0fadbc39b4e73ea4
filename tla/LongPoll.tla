------------------------------ MODULE LongPoll ------------------------------
(***************************************************************************)
(* How a change of the database reaches the nodes: the hub of              *)
(* internal/controller/hub.go, the long poll of service.go (Poll, netMap), *)
(* the watcher for changes made by the command line in another process,    *)
(* and the controller's restarts.                                          *)
(*                                                                         *)
(* A change commits in one step and reaches the hub in a later one, since  *)
(* hub.set follows the commit.  A poll is a handler goroutine: transaction *)
(* one (the report), transaction two only when the report changed          *)
(* something, hub.wait, the read of the netmap and the answer.             *)
(***************************************************************************)
EXTENDS RoomStore

CONSTANTS
    Pollers,      \* bound of the model: the nodes whose polls are followed
    MaxCrashes    \* bound of the model: restarts of the controller

ASSUME PollAssumption == Pollers \subseteq Nodes /\ MaxCrashes \in Nat

VARIABLES
    hub,        \* hub.version
    toSet,      \* versions committed or read whose hub.set is still to run
    poll,       \* each node's poll handler: [pc, since, mine]
    view,       \* each node's last netmap (its version is the next since)
    crashes

pollVars == <<hub, toSet, poll, view, crashes>>
vars == <<storeVars, pollVars>>

Pcs == {"idle", "announce", "set", "enter", "blocked", "read"}

------------------------------------------------------------------------------
(* The netmap. *)

\* netMap: one read transaction, so version and content belong together.  A
\* room the node is not active in comes without a config; useExit is sent
\* even when that exit is no longer approved.
NetMap(n) ==
    [version |-> version,
     rooms |-> [r \in {x \in Rooms : IsMember(x, n)} |->
        IF n \in Active(r)
        THEN [status |-> "active", config |-> Config(r),
              useExit |-> members[r][n].useExit]
        ELSE [status |-> members[r][n].status]],
     peers |-> [p \in {x \in Nodes \ {n} : ShareActiveRoom(n, x)} |-> reach[p].addr]]

EmptyMap == [version |-> 0, rooms |-> <<>>, peers |-> <<>>]

------------------------------------------------------------------------------
(* The hub. *)

\* Closing the channel releases every waiting handler in the same step.
Release == [n \in Pollers |->
    IF poll[n].pc = "blocked" THEN [poll[n] EXCEPT !.pc = "read"] ELSE poll[n]]

\* Seeded fault: the version is raised and the channel left open.
hubSetSilent(v) ==
    /\ v \in toSet
    /\ toSet' = toSet \ {v}
    /\ hub' = IF v > hub THEN v ELSE hub
    /\ UNCHANGED <<storeVars, poll, view, crashes>>

\* hub.set, run by the goroutine that committed v: it only ever raises.
hubSet(v) ==
    /\ v \in toSet
    /\ toSet' = toSet \ {v}
    /\ IF v > hub THEN hub' = v /\ poll' = Release
                  ELSE UNCHANGED <<hub, poll>>
    /\ UNCHANGED <<storeVars, view, crashes>>

------------------------------------------------------------------------------
(* Changes by others than the pollers. *)

\* Under the bound there is room for one more change, next to the bumps that
\* pending polls still have to make.
RoomForChange ==
    version + Cardinality({n \in Pollers : poll[n].pc = "announce"}) < MaxVersion

\* A change made by this process: its goroutine will call hub.set.
ServerChange ==
    /\ RoomForChange
    /\ Manage(TRUE) \/ NodeRequest
    /\ toSet' = toSet \cup {version'}
    /\ UNCHANGED <<hub, poll, view, crashes>>

\* A zpt-controller command: its own process has its own hub.
CommandLineChange ==
    /\ RoomForChange
    /\ Manage(FALSE)
    /\ UNCHANGED pollVars

TimePasses ==
    /\ Expire
    /\ UNCHANGED pollVars

\* Seeded fault: the tick looks at the version in memory.
WatchOwnVersion ==
    /\ version > hub
    /\ toSet' = toSet \cup {hub}
    /\ UNCHANGED <<storeVars, hub, poll, view, crashes>>

\* WatchExternalChanges: one tick reads the counter; the hub.set follows.
Watch ==
    /\ version > hub
    /\ toSet' = toSet \cup {version}
    /\ UNCHANGED <<storeVars, hub, poll, view, crashes>>

------------------------------------------------------------------------------
(* The poll handler of node n. *)

\* The first transaction stores the report and tells whether it changed.
PollStart(n, rep) ==
    /\ poll[n].pc = "idle"
    /\ reach[n] # rep => RoomForChange
    /\ UpdateNodeEndpoints(n, rep)
    /\ poll' = [poll EXCEPT ![n] =
            [pc |-> IF reach[n] # rep THEN "announce" ELSE "enter",
             since |-> view[n].version, mine |-> 0]]
    /\ UNCHANGED <<hub, toSet, view, crashes>>

\* The second: bump the version for everybody.
PollAnnounce(n) ==
    /\ poll[n].pc = "announce"
    /\ Touch
    /\ poll' = [poll EXCEPT ![n] = [pc |-> "set", since |-> poll[n].since, mine |-> version']]
    /\ UNCHANGED <<hub, toSet, view, crashes>>

\* The request's context ends between the two (the node hung up, or its 25
\* seconds are over): BeginTx fails and so does the poll.
PollCancel(n) ==
    /\ poll[n].pc = "announce"
    /\ poll' = [poll EXCEPT ![n].pc = "idle"]
    /\ UNCHANGED <<storeVars, hub, toSet, view, crashes>>

\* hub.set of the poll's own bump.
PollSet(n) ==
    /\ poll[n].pc = "set"
    /\ LET v == poll[n].mine IN
       /\ hub' = IF v > hub THEN v ELSE hub
       /\ poll' = [(IF v > hub THEN Release ELSE poll) EXCEPT ![n].pc = "read"]
    /\ UNCHANGED <<storeVars, toSet, view, crashes>>

\* hub.wait: newer data, or a node ahead of us, is answered at once.
hubWait(n) ==
    /\ poll[n].pc = "enter"
    /\ poll' = [poll EXCEPT ![n].pc = IF hub # poll[n].since THEN "read" ELSE "blocked"]
    /\ UNCHANGED <<storeVars, hub, toSet, view, crashes>>

\* The 25 seconds of api.PollTimeout are over: answered all the same.
PollTimeout(n) ==
    /\ poll[n].pc = "blocked"
    /\ poll' = [poll EXCEPT ![n].pc = "read"]
    /\ UNCHANGED <<storeVars, hub, toSet, view, crashes>>

\* Seeded fault: the version is read in a transaction of its own, before
\* the content; here, one change earlier.
PollAnswerTorn(n) ==
    /\ poll[n].pc = "read"
    /\ view' = [view EXCEPT ![n] = [@ EXCEPT !.version = version]]
    /\ poll' = [poll EXCEPT ![n].pc = "idle"]
    /\ UNCHANGED <<storeVars, hub, toSet, crashes>>

\* The netmap is read and the node gets it.
PollAnswer(n) ==
    /\ poll[n].pc = "read"
    /\ view' = [view EXCEPT ![n] = NetMap(n)]
    /\ poll' = [poll EXCEPT ![n].pc = "idle"]
    /\ UNCHANGED <<storeVars, hub, toSet, crashes>>

\* The answer is lost on the way; the node asks again with its old since.
PollLost(n) ==
    /\ poll[n].pc = "read"
    /\ poll' = [poll EXCEPT ![n].pc = "idle"]
    /\ UNCHANGED <<storeVars, hub, toSet, view, crashes>>

\* The controller stops anywhere and starts again: NewService reads the
\* counter; handlers and hub.set calls under way are gone.
Restart ==
    /\ crashes < MaxCrashes
    /\ crashes' = crashes + 1
    /\ hub' = version
    /\ toSet' = {}
    /\ poll' = [n \in Pollers |-> [poll[n] EXCEPT !.pc = "idle"]]
    /\ UNCHANGED <<storeVars, view>>

------------------------------------------------------------------------------
Init ==
    /\ StoreInit
    /\ hub = version
    /\ toSet = {}
    /\ poll = [n \in Pollers |-> [pc |-> "idle", since |-> 0, mine |-> 0]]
    /\ view = [n \in Pollers |-> EmptyMap]
    /\ crashes = 0

PollStep(n) ==
    \/ \E rep \in Reports : PollStart(n, rep)
    \/ PollAnnounce(n)
    \/ PollCancel(n)
    \/ PollSet(n)
    \/ hubWait(n)
    \/ PollTimeout(n)
    \/ PollAnswer(n)
    \/ PollLost(n)

Next ==
    \/ ServerChange
    \/ CommandLineChange
    \/ TimePasses
    \/ Watch
    \/ \E v \in toSet : hubSet(v)
    \/ \E n \in Pollers : PollStep(n)
    \/ Restart

Spec == Init /\ [][Next]_vars

\* The hub and the watcher keep running, a node keeps polling and its handler
\* keeps going, and answers are not lost, nor polls cancelled, for ever.
\* PollTimeout is left out: what holds does not wait for the end of a poll.
HubStep == Watch \/ \E v \in toSet : hubSet(v)

HandlerStep(n) ==
    \/ \E rep \in Reports : PollStart(n, rep)
    \/ PollSet(n)
    \/ hubWait(n)

Fairness ==
    /\ WF_vars(HubStep)
    /\ \A n \in Pollers :
        /\ WF_vars(HandlerStep(n))
        /\ SF_vars(PollAnnounce(n))
        /\ SF_vars(PollAnswer(n))

FairSpec == Spec /\ Fairness

------------------------------------------------------------------------------
(* Properties. *)

\* The shape of the hub, the handlers and the views; and nothing runs ahead
\* of the database: neither the hub, nor a pending hub.set, nor a node.
PollTypeOK ==
    /\ hub \in 0 .. version
    /\ toSet \subseteq 1 .. version
    /\ poll \in [Pollers -> [pc : Pcs, since : 0 .. version, mine : 0 .. version]]
    /\ \A n \in Pollers : view[n].version \in 0 .. version
    /\ crashes \in 0 .. MaxCrashes

\* A handler that waits in hub.wait waits for something newer than what its
\* node has: no change slips between the check of the version and the wait
\* on the channel, whatever order the hub.set calls run in.
NoMissedWake ==
    \A n \in Pollers : poll[n].pc = "blocked" =>
        poll[n].since = hub /\ view[n].version = hub

\* What a netmap says of the node's rooms, without what peers report of
\* themselves (their addresses, the routes and exits they offer).
RoomsOf(nm) ==
    [r \in DOMAIN nm.rooms |->
        LET st == nm.rooms[r] IN
        IF st.status = "active"
        THEN [status |-> "active", useExit |-> st.useExit,
              version |-> st.config.version, subnet |-> st.config.subnet,
              settings |-> st.config.settings,
              ips |-> [m \in DOMAIN st.config.members |-> st.config.members[m].ip]]
        ELSE [status |-> st.status]]

\* The counter identifies the rooms: a node whose netmap carries the current
\* version has the current members, addresses and settings of all its rooms,
\* through crashes, lost answers and changes by another process.  That is
\* what lets hub.wait compare versions instead of netmaps.
VersionTellsRooms ==
    \A n \in Pollers : view[n].version = version =>
        RoomsOf(view[n]) = RoomsOf(NetMap(n))

\* Every change reaches every node without waiting for a poll to time out:
\* once changes stop, each node that ever joined gets the current version,
\* and so (VersionTellsRooms) the current rooms.  Of its peers' addresses
\* this cannot be said: a poll cancelled between its two transactions has
\* stored a new address and told nobody.
ChangesReachNodes ==
    <>[](\A n \in Pollers : Known(n) => view[n].version = version)
=============================================================================
