------------------------------ MODULE ExitGuard ------------------------------
(***************************************************************************)
(* The exit in use, the kill switch and the DNS servers of one machine:    *)
(* what apply() and supervise of node/node.go do about them, the routes of *)
(* room/routes_linux.go and exit_windows.go, and the zpt commands that     *)
(* write the choices to the state file and remove firewall rules on their  *)
(* own.                                                                    *)
(*                                                                         *)
(* One controller with rooms numbered in the order of their names, each    *)
(* with one other member that may be an exit.  A netmap is four sets of    *)
(* rooms: those whose config lists the node, those whose member is an      *)
(* approved exit, those where an admin picked it for this node, and those  *)
(* where the node's address is its second one.  Configs all verify here    *)
(* (RoomSync has the others).  An interface is its room: on Windows, where *)
(* the rules name the adapter, a room that restarts keeps it.              *)
(***************************************************************************)
EXTENDS Naturals

CONSTANTS
    Rooms,          \* numbers in the order of the rooms' names
    Confs,          \* machines: the system and the node's config: kill_switch,
                    \* its allow_lan, dns, userspace
    RoomDNS,        \* rooms with DNS servers of their own
    ExitDNS,        \* rooms whose exit answers DNS
    PickSets,       \* sets of rooms where admins may pick an exit at one time
    MaxEvents       \* bound of the model: changes at the controller, zpt
                    \* commands, device and firewall errors, ends of the daemon

NoRoom == 0

ConfSpace ==
    [os : {"linux", "windows"}, ks : BOOLEAN, lan : BOOLEAN, dns : BOOLEAN, user : BOOLEAN]

ASSUME ExitAssumption ==
    /\ Rooms \subseteq Nat \ {NoRoom}
    /\ Confs \subseteq ConfSpace
    /\ RoomDNS \subseteq Rooms /\ ExitDNS \subseteq Rooms
    /\ PickSets \subseteq SUBSET Rooms /\ {} \in PickSets
    /\ MaxEvents \in Nat

VARIABLES
    conf,       \* the machine and the node's config, constant
    net,        \* the controller's netmap: [in, exit, pick, alt]
    file,       \* state.json: [choice, dns, pins, off]
    up,         \* the daemon runs
    seen,       \* supervise: the state it last acted on (prevPins)
    thread,     \* "sync" and "sup": [pc, nm, st]
    last,       \* n.last
    runs,       \* n.rooms
    at,         \* of these, those with the second address
    wants,      \* cfg.Exit: rooms meant to carry the internet
    exits,      \* room.exit: rooms that do
    routes,     \* [dev, rules]: the exit table's default route and whether
                \* it is looked at (Windows: whether the node's sockets bypass)
    dns,        \* room.dns: where the servers each room carries come from
    key,        \* n.ksKey: [on, ifs, lan]
    rules,      \* the kill switch rules of the system, in the same form
    gone,       \* history: a command removed rules the daemon counts on
    budget      \* what is left of the bound

roomVars == <<runs, at, wants, exits, routes>>
ksVars == <<key, rules, gone>>
daemonVars == <<up, seen, thread, last>>
vars == <<conf, net, file, daemonVars, roomVars, dns, ksVars, budget>>

Open == [on |-> FALSE, ifs |-> {}, lan |-> FALSE]
\* Before the first netmap, which no room outlives, n.last has no entry; that
\* and an empty netmap come to the same.
EmptyMap == [in |-> {}, exit |-> {}, pick |-> {}, alt |-> {}]
NetMaps == [in : SUBSET Rooms, exit : SUBSET Rooms, pick : SUBSET Rooms, alt : SUBSET Rooms]

ExitAuto == [kind |-> "auto", room |-> NoRoom, ks |-> FALSE, lan |-> FALSE]
ExitOff == [kind |-> "off", room |-> NoRoom, ks |-> FALSE, lan |-> FALSE]
Choices ==
    {ExitAuto, ExitOff}
    \cup {c \in [kind : {"pick"}, room : Rooms, ks : BOOLEAN, lan : BOOLEAN] : c.lan => c.ks}
Files == [choice : Choices, dns : {"auto", "off", "own"}, pins : SUBSET Rooms, off : SUBSET Rooms]

Unseen == [choice |-> ExitAuto, dns |-> "auto", pins |-> {}, off |-> {}]

AtRest(t) ==
    [pc |-> IF t = "sync" THEN "poll" ELSE "idle", nm |-> EmptyMap, st |-> Unseen]
Threads == {"sync", "sup"}

------------------------------------------------------------------------------
(* Decisions under n.mu. *)

\* Rooms apply() wants up.
Desired(nm, st) == (nm.in \cap st.pins) \ st.off

\* Rooms with an approved exit that the user, or else an admin, chose.
Chosen(nm, c) ==
    nm.exit \cap CASE c.kind = "off"  -> {}
                   [] c.kind = "pick" -> {c.room}
                   [] c.kind = "auto" -> nm.pick

\* Rooms that get their exit: none while another room has one (n.rooms as it
\* was before this apply).
exitPeerLocked(nm, st) ==
    {r \in Desired(nm, st) \cap Chosen(nm, st.choice) : wants \subseteq {r}}

\* Seeded fault: the kill switch is on only while a room has its exit.
KillSwitchWhileUsed(nm, st) ==
    ~conf.user
    /\ \/ st.choice.kind = "pick" /\ st.choice.ks /\ Chosen(nm, st.choice) # {}
       \/ st.choice.kind = "auto" /\ conf.ks /\ nm.pick \cap nm.in \cap st.pins # {}

\* An exit is wanted with the kill switch; nm is n.last.
KillSwitchWanted(nm, st) ==
    /\ ~conf.user
    /\ \/ st.choice.kind = "pick" /\ st.choice.ks
       \/ st.choice.kind = "auto" /\ conf.ks /\ nm.pick \cap nm.in \cap st.pins # {}

KillSwitchKey(nm, st, rs) ==
    IF KillSwitchWanted(nm, st)
    THEN [on |-> TRUE, ifs |-> rs,
          lan |-> IF st.choice.kind = "pick" THEN st.choice.lan ELSE conf.lan]
    ELSE Open

\* Seeded fault: the key is remembered even when the rules were not installed.
updateKillSwitchBlind(nm, st, rs, fails) ==
    LET k == KillSwitchKey(nm, st, rs) IN
    /\ key' = k
    /\ IF k = key \/ fails THEN UNCHANGED <<rules, gone>>
       ELSE rules' = k /\ gone' = FALSE

\* Seeded fault: rooms that start later are not let through.
updateKillSwitchOnce(nm, st, rs, fails) ==
    LET k == KillSwitchKey(nm, st, rs) IN
    IF k.on = key.on \/ (fails /\ k.on) THEN UNCHANGED ksVars
    ELSE key' = k /\ rules' = k /\ gone' = FALSE

\* Nothing to do when the key is the same; SetKillSwitch replaces the rules
\* at once or, if it fails, leaves them, to be tried at the next apply.
updateKillSwitchLocked(nm, st, rs, fails) ==
    LET k == KillSwitchKey(nm, st, rs) IN
    IF k = key \/ (fails /\ k.on) THEN UNCHANGED ksVars
    ELSE key' = k /\ rules' = k /\ gone' = FALSE

\* The device's own servers are picked: zpt dns, else the config.
OwnServers(st) == IF st.dns = "auto" THEN conf.dns ELSE st.dns = "own"

\* The servers the room that carries the internet carries.
ExitServers(st, r) ==
    CASE OwnServers(st) -> "own"
      [] ~OwnServers(st) /\ st.dns # "off" /\ r \in RoomDNS -> "room"
      [] ~OwnServers(st) /\ (st.dns = "off" \/ r \notin RoomDNS) /\ r \in ExitDNS -> "exit"
      [] OTHER -> "none"

\* Seeded fault: the exit room is not preferred.
DNSCarrierFirst(st, rs, ws) ==
    LET able == {r \in rs : OwnServers(st) \/ (st.dns # "off" /\ r \in RoomDNS)}
    IN IF able # {} THEN {CHOOSE r \in able : \A q \in able : r <= q} ELSE ws

\* The room that carries DNS (none: {}): the last exit room by name, else the
\* first room with servers.
DNSCarrier(st, rs, ws) ==
    LET able == {r \in rs : OwnServers(st) \/ (st.dns # "off" /\ r \in RoomDNS)}
    IN IF ws # {} THEN {CHOOSE r \in ws : \A q \in ws : q <= r}
       ELSE IF able # {} THEN {CHOOSE r \in able : \A q \in able : r <= q}
       ELSE {}

\* SetDNS: the servers go to the carrier, nil to every other room.
SetDNS(carrier, servers) == [r \in Rooms |-> IF r \in carrier THEN servers[r] ELSE "none"]

updateDNSLocked(st, rs, ws) ==
    dns' = SetDNS(DNSCarrier(st, rs, ws),
                  [r \in Rooms |-> IF ws # {} THEN ExitServers(st, r)
                                   ELSE IF OwnServers(st) THEN "own" ELSE "room"])

------------------------------------------------------------------------------
(* The devices. *)

\* Seeded fault: the route is left when the rules cannot be added.
exitRoutesLeft(out, on, bad, undone) ==
    routes' =
        [dev |-> IF on \cup bad # {} THEN CHOOSE r \in on \cup bad : TRUE
                 ELSE IF routes.dev \in out THEN NoRoom ELSE routes.dev,
         rules |-> on # {}]

\* The ip rules on Linux stay while exitRooms is not empty.
ipRules(out, on, bad, undone) ==
    on # {} \/ (routes.rules /\ ((out # {} \/ (bad # {} /\ undone)) => ~(exits \subseteq out)))

\* The node's own sockets on Windows: any room that stops ends the bypass.
SetBypass(out, on, bad) == on # {} \/ (routes.rules /\ out = {} /\ bad = {})

\* enableExit and disableExit.  out: rooms that stop carrying the traffic,
\* on: rooms that start, bad: rooms where enableExit failed, at its first
\* command or later (undone).
exitRoutes(out, on, bad, undone) ==
    routes' =
        [dev |-> IF on # {} THEN CHOOSE r \in on : TRUE
                 ELSE IF routes.dev \in out THEN NoRoom ELSE routes.dev,
         rules |-> IF conf.os = "linux" THEN ipRules(out, on, bad, undone)
                                        ELSE SetBypass(out, on, bad)]

\* One device error at most in one apply(): <<where, room>>.
Errors ==
    ({"peers", "up", "exit", "undone"} \X Rooms) \cup ({"none", "ks"} \X {NoRoom})

\* Rooms that go on with their interface: a new address restarts a room.
Kept(nm, st) == {r \in runs \cap Desired(nm, st) : r \in at <=> r \in nm.alt}

\* Rooms whose exit is turned off, by SetExit or Close.
Loses(nm, st, stuck) ==
    exits \ (stuck \cup (Kept(nm, st) \cap exitPeerLocked(nm, st)))

\* Rooms that start, all but the one where room.Up fails.
Up(nm, st, failing) == (Desired(nm, st) \ Kept(nm, st)) \ failing

\* Rooms where SetPeers fails go on as they are.
SetPeersFails(nm, st, failing) == Kept(nm, st) \cap failing

\* One run of apply() under n.mu.  An error in SetPeers leaves the room as it
\* is, one in room.Up leaves it down, one in enableExit leaves it without exit
\* until the next apply().
ApplyLocked(nm, st, err) ==
    LET Hit(e) == IF err[1] = e THEN {err[2]} ELSE {}
        kept == Kept(nm, st)
        stuck == SetPeersFails(nm, st, Hit("peers"))
        now == kept \cup Up(nm, st, Hit("up"))
        exit == exitPeerLocked(nm, st) \cap (now \ stuck)
        out == Loses(nm, st, stuck)
        on == exit \ (exits \ out)
        bad == IF conf.user THEN {} ELSE on \cap (Hit("exit") \cup Hit("undone"))
        ws == (wants \cap stuck) \cup exit
    IN
    /\ last' = nm
    /\ runs' = now
    /\ at' = (at \cap kept) \cup (nm.alt \cap (now \ kept))
    /\ wants' = ws
    /\ exits' = (exits \ out) \cup (on \ bad)
    /\ IF conf.user THEN UNCHANGED routes
       ELSE exitRoutes(out, on \ bad, bad, err[1] = "undone")
    /\ updateKillSwitchLocked(nm, st, now, err[1] = "ks")
    /\ updateDNSLocked(st, now, ws)

Spend(err) ==
    IF err[1] = "none" THEN UNCHANGED budget
    ELSE budget > 0 /\ budget' = budget - 1

------------------------------------------------------------------------------
(* The daemon's threads. *)

\* sync: every poll ends in a netmap; apply() loads the state before it takes
\* n.mu (in the same step here; RoomSync takes the two apart).
PollAnswered ==
    /\ up /\ thread["sync"].pc = "poll"
    /\ thread' = [thread EXCEPT !["sync"] = [pc |-> "apply", nm |-> net, st |-> file]]
    /\ UNCHANGED <<conf, net, file, up, seen, last, roomVars, dns, ksVars, budget>>

\* apply() returns, whatever failed in it.
Return(t) ==
    /\ up /\ thread[t].pc = "apply"
    /\ thread' = [thread EXCEPT ![t] =
            [pc |-> IF t = "sync" THEN "poll" ELSE "final", nm |-> EmptyMap, st |-> Unseen]]
    /\ UNCHANGED up

Apply(t) ==
    /\ Return(t)
    /\ \E err \in Errors : Spend(err) /\ ApplyLocked(thread[t].nm, thread[t].st, err)
    /\ UNCHANGED <<conf, net, file, seen>>

\* supervise: the choices, pins or rooms turned off changed.
SupRead ==
    /\ up /\ thread["sup"].pc = "idle" /\ file # seen
    /\ seen' = file
    /\ thread' = [thread EXCEPT !["sup"] =
            [pc |-> "snapshot", nm |-> EmptyMap, st |-> Unseen]]
    /\ UNCHANGED <<conf, net, file, up, last, roomVars, dns, ksVars, budget>>

\* reapplyAll: the last netmap, picked under n.mu, and apply()'s LoadState.
Snapshot ==
    /\ up /\ thread["sup"].pc = "snapshot"
    /\ thread' = [thread EXCEPT !["sup"] = [pc |-> "apply", nm |-> last, st |-> file]]
    /\ UNCHANGED <<conf, net, file, up, seen, last, roomVars, dns, ksVars, budget>>

\* Then the kill switch and DNS, by the state read first.
SupFinal ==
    /\ up /\ thread["sup"].pc = "final"
    /\ thread' = [thread EXCEPT !["sup"] = AtRest("sup")]
    /\ \E err \in {"none", "ks"} \X {NoRoom} :
        /\ Spend(err)
        /\ updateKillSwitchLocked(last, seen, runs, err[1] = "ks")
    /\ updateDNSLocked(seen, runs, wants)
    /\ UNCHANGED <<conf, net, file, up, seen, last, roomVars>>

------------------------------------------------------------------------------
(* The controller and the commands. *)

Flip(s, r) == IF r \in s THEN s \ {r} ELSE s \cup {r}

Change(nm) ==
    /\ budget > 0
    /\ net' = nm
    /\ budget' = budget - 1
    /\ UNCHANGED <<conf, file, daemonVars, roomVars, dns, ksVars>>

\* The node is let in or out, its address changes.
SetMember(r) ==
    Change([net EXCEPT !.in = Flip(@, r)]) \/ Change([net EXCEPT !.alt = Flip(@, r)])

\* The exit is approved or revoked; a pick survives that.
SetExitNode(r) == Change([net EXCEPT !.exit = Flip(@, r)])

\* An admin picks the exit for this node or takes it back.
SetMemberExit(r) ==
    /\ r \notin net.pick => r \in net.in \cap net.exit
    /\ Flip(net.pick, r) \in PickSets
    /\ Change([net EXCEPT !.pick = Flip(@, r)])

Save(st) ==
    /\ budget > 0
    /\ file' = st
    /\ budget' = budget - 1
    /\ UNCHANGED <<conf, net, daemonVars, roomVars, dns>>

\* zpt exit: off and auto also remove the rules, which on Windows only the
\* process that installed them can do.
cmdExit(c) ==
    /\ Save([file EXCEPT !.choice = c])
    /\ IF c.kind # "pick" /\ conf.os = "linux"
       THEN rules' = Open /\ gone' = (gone \/ key.on) /\ UNCHANGED key
       ELSE UNCHANGED ksVars

cmdDNS(d) == d # file.dns /\ Save([file EXCEPT !.dns = d]) /\ UNCHANGED ksVars

\* zpt join and zpt leave.  With its last room the controller goes: RoomSync
\* has that.
cmdJoinLeave(r) ==
    /\ Flip(file.pins, r) # {}
    /\ Save([file EXCEPT !.pins = Flip(@, r)])
    /\ UNCHANGED ksVars

\* zpt room off and on.
cmdRoomToggle(r) == Save([file EXCEPT !.off = Flip(@, r)]) /\ UNCHANGED ksVars

------------------------------------------------------------------------------
(* The daemon ends and starts. *)

Forget ==
    /\ up' = FALSE
    /\ seen' = Unseen /\ last' = EmptyMap
    /\ thread' = [t \in Threads |-> AtRest(t)]
    /\ runs' = {} /\ at' = {} /\ wants' = {} /\ exits' = {}
    /\ dns' = [r \in Rooms |-> "none"]
    /\ key' = Open /\ gone' = FALSE
    /\ budget > 0 /\ budget' = budget - 1
    /\ UNCHANGED <<conf, net, file>>

\* room.Close takes the exit route and its rules away.
ClosedRoutes ==
    IF conf.user \/ exits = {} THEN routes ELSE [dev |-> NoRoom, rules |-> FALSE]

\* Close: once the threads are done, rooms stop and the kill switch goes.
Close ==
    /\ up /\ \A t \in Threads : thread[t].pc \in {"poll", "idle"}
    /\ Forget
    /\ rules' = IF key.on THEN Open ELSE rules
    /\ routes' = ClosedRoutes

\* A crash: interfaces go, with the routes into them; on Linux the ip rules
\* and the firewall rules stay, on Windows both belong to the process.
Crash ==
    /\ up
    /\ Forget
    /\ rules' = IF conf.os = "linux" THEN rules ELSE Open
    /\ routes' = [dev |-> NoRoom, rules |-> conf.os = "linux" /\ routes.rules]

Start ==
    /\ ~up
    /\ up' = TRUE
    /\ UNCHANGED <<conf, net, file, seen, thread, last, roomVars, dns, ksVars, budget>>

------------------------------------------------------------------------------
Init ==
    /\ conf \in Confs
    /\ net \in {[in |-> Rooms, exit |-> Rooms, pick |-> p, alt |-> {}] : p \in PickSets}
    /\ file = [choice |-> ExitAuto, dns |-> "auto", pins |-> Rooms, off |-> {}]
    /\ up = TRUE
    /\ seen = Unseen /\ last = EmptyMap
    /\ thread = [t \in Threads |-> AtRest(t)]
    /\ runs = {} /\ at = {} /\ wants = {} /\ exits = {}
    /\ routes = [dev |-> NoRoom, rules |-> FALSE]
    /\ dns = [r \in Rooms |-> "none"]
    /\ key = Open /\ rules = Open /\ gone = FALSE
    /\ budget = MaxEvents

Next ==
    \/ PollAnswered \/ SupRead \/ Snapshot \/ SupFinal
    \/ \E t \in Threads : Apply(t)
    \/ \E r \in Rooms : SetMember(r) \/ SetExitNode(r) \/ SetMemberExit(r)
                       \/ cmdJoinLeave(r) \/ cmdRoomToggle(r)
    \/ \E c \in Choices : cmdExit(c)
    \/ \E d \in {"auto", "off", "own"} : cmdDNS(d)
    \/ Close \/ Crash \/ Start

Spec == Init /\ [][Next]_vars

\* What the threads do.  Apply(t) is the only step that is a Return(t), and is
\* possible whenever that is: errors need not happen.
SyncStep == PollAnswered \/ Return("sync")
SupStep == SupRead \/ Snapshot \/ Return("sup") \/ SupFinal

\* Both goroutines run and the controller answers the polls.
Fairness == WF_thread(SyncStep) /\ WF_thread(SupStep)

FairSpec == Spec /\ Fairness

------------------------------------------------------------------------------
(* Properties. *)

Keys == [on : BOOLEAN, ifs : SUBSET Rooms, lan : BOOLEAN]
Pcs == {"poll", "idle", "apply", "snapshot", "final"}

\* The shape of the state: what carries the internet is meant to and runs, and
\* a daemon that is down holds nothing.
ExitTypeOK ==
    /\ conf \in Confs
    /\ net \in NetMaps /\ last \in NetMaps
    /\ file \in Files /\ seen \in Files
    /\ up \in BOOLEAN
    /\ thread \in [Threads -> [pc : Pcs, nm : NetMaps, st : Files]]
    /\ runs \subseteq Rooms /\ at \subseteq runs
    /\ wants \subseteq runs /\ exits \subseteq wants
    /\ routes \in [dev : Rooms \cup {NoRoom}, rules : BOOLEAN]
    /\ dns \in [Rooms -> {"none", "own", "room", "exit"}]
    /\ key \in Keys /\ rules \in Keys
    /\ gone \in BOOLEAN
    /\ budget \in 0 .. MaxEvents
    /\ ~up => runs = {} /\ key = Open

\* The rules are those the daemon believes in force (ksKey), through failed
\* installations, changing rooms and restarts, as long as no command removed
\* them behind its back.
KeyMeansRules == key.on /\ ~gone => rules = key

\* Only one room at a time carries the internet traffic.
OneExit == \A r, q \in wants : r = q

\* A room that carries the traffic has the default route, and the rules that
\* lead to it (without the node's own packets) are there; no route leads into
\* a room that does not.
ExitPath ==
    ~conf.user =>
        /\ \A r \in exits : routes.rules /\ routes.dev = r
        /\ routes.dev # NoRoom => routes.dev \in exits

\* At most one room carries DNS, and with an exit it is the exit's room: no
\* query goes round it.
DNSWithExit ==
    /\ \A r, q \in Rooms : dns[r] # "none" /\ dns[q] # "none" => r = q
    /\ \A r \in Rooms : dns[r] # "none" /\ wants # {} => r \in wants

\* The kill switch was chosen and no thread knows otherwise.
Guarded ==
    /\ file.choice.kind = "pick" /\ file.choice.ks /\ ~conf.user
    /\ seen.choice = file.choice
    /\ \A t \in Threads : thread[t].pc = "apply" => thread[t].st.choice = file.choice

\* The kill switch chosen with the exit holds when that exit is revoked, its
\* room stops, restarts or fails: only the command, or the end of the daemon,
\* takes the rules away.
StaysBlocked ==
    [][Guarded /\ rules.on /\ ~rules'.on => file' # file \/ ~up']_vars

\* The exit the user or the admin chose comes to carry the traffic, and an
\* exit that is no longer chosen stops; and the daemon comes to hold the kill
\* switch that is wanted, for the rooms that run.
ExitSettles ==
    []<>(up => /\ exits = Desired(net, file) \cap Chosen(net, file.choice)
               /\ key = KillSwitchKey(net, file, runs))

\* While an exit is wanted with the kill switch, its rules are in force, or
\* come to be: the internet does not stay open.
KillSwitchHolds ==
    []<>(up /\ KillSwitchWanted(net, file) => rules.on)
=============================================================================
