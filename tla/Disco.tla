------------------------------- MODULE Disco -------------------------------
(***************************************************************************)
(* Path discovery to one peer: discoMgr of internal/node/disco.go, the     *)
(* endpoints that apply() gives the rooms (node.go, room.go) and the       *)
(* relay addresses of internal/magicsock.                                  *)
(*                                                                         *)
(* Time goes by in ticks of discoMgr.run; ages are counted in ticks.  An   *)
(* address is alive while packets to it reach the peer.  A ping sent to a  *)
(* live address is answered, and the answer may come at any time later,    *)
(* also when the path has died since, or not at all.                       *)
(***************************************************************************)
EXTENDS Naturals, FiniteSets, Sequences

CONSTANTS
    Order,         \* the peer's addresses, in the order they are pinged
    Lan, Relay,    \* the addresses of a network of ours; the relay's one
    NoPath,        \* no confirmed path
    Guess,         \* the endpoint chosen from the netmap (chooseEndpoint)
    CandSets,      \* the address lists that netmaps give
    HintSets,      \* those of the DHT and of the peer's card
    Ctrls,         \* controllers (each with a room we share with the peer)
    First,         \* the one that lists the peer first
    Search,        \* discoSearch, ... in ticks
    Recheck, Stale, PingTTL, Eager,
    MaxPending,    \* maxPendingPings
    MaxLearned,    \* maxCandidates, of the addresses pings came from
    MaxChanges     \* bound of the model: paths that come and go, new netmaps

Addrs == {Order[i] : i \in DOMAIN Order}
Direct == Addrs \ Relay

ASSUME DiscoAssumption ==
    /\ \A i, j \in DOMAIN Order : Order[i] = Order[j] => i = j
    /\ Lan \subseteq Direct /\ Relay \subseteq Addrs
    /\ First \in Ctrls /\ CandSets \cup HintSets \subseteq SUBSET Addrs
    /\ {NoPath, Guess} \cap Addrs = {}
    /\ {Search, Recheck, Stale, PingTTL, Eager, MaxPending, MaxLearned, MaxChanges} \subseteq Nat
    /\ Search <= Recheck /\ Recheck < Stale /\ PingTTL < Stale

VARIABLES
    alive,      \* the addresses that work now
    dead,       \* ticks since an address stopped working (0 while it works)
    known,      \* d.byCtrl: the controllers that list the peer
    cand,       \* dp.candidates
    learned,    \* dp.learned
    hints,      \* dp.hints and dp.gossip
    best,       \* dp.best: [addr, rtt, age]
    sent,       \* dp.sent: pending pings [to, age, reached]
    wait,       \* ticks since dp.lastPing
    since,      \* ticks since the peer appeared, up to Eager
    ep,         \* each room: the peer's endpoint as last configured
    changed,    \* pathsChanged was started and has not run yet
    changes     \* what is left of MaxChanges

envVars == <<alive, dead>>
peerVars == <<known, cand, learned, hints, best, sent, wait, since>>
vars == <<envVars, peerVars, ep, changed, changes>>

None == [addr |-> NoPath, rtt |-> 0, age |-> 0]
Places == cand \cup learned \cup hints      \* what is known of the peer's addresses
Known == \E c \in Ctrls : known[c]

------------------------------------------------------------------------------
(* Pings. *)

\* The targets that come before a in the order of pinging.
Before(a, to) ==
    {b \in to : \E i, j \in DOMAIN Order : i < j /\ Order[i] = b /\ Order[j] = a}

\* pingsLocked: targets in order, as long as fewer than MaxPending wait.
Pings(to, pending) ==
    LET room == MaxPending - Cardinality(pending)
    IN  {[to |-> a, age |-> 0, reached |-> a \in alive] :
            a \in {x \in to : Cardinality(Before(x, to)) < room}}

\* Seeded fault: a relayed path is kept like a direct one.
TargetsBestOnly(b) == IF b.addr = NoPath THEN Places ELSE {b.addr}

\* What tick pings: everything without a path or with a relayed one, else
\* only the path in use.
Targets(b) == IF b.addr \in Direct THEN {b.addr} ELSE Places

\* How often: rarely with a direct path, and with a relayed one after Eager.
Interval(b, s) ==
    IF b.addr \in Direct \/ (b.addr \in Relay /\ s >= Eager) THEN Recheck ELSE Search

\* Ages grow by one and stop at the highest one that matters.
Older(n, cap) == IF n < cap THEN n + 1 ELSE cap

\* tick drops a path not confirmed for discoStale.
Kept(b) == IF b.addr # NoPath /\ b.age >= Stale THEN None ELSE b

\* A tick later (a pathsChanged that was started has run by then): old pings
\* are forgotten, a stale path dropped, and when the interval is over the
\* targets are pinged.
tick ==
    LET aged == IF best.addr = NoPath THEN best ELSE [best EXCEPT !.age = @ + 1]
        now == Kept(aged)
        pending == {[s EXCEPT !.age = @ + 1] : s \in {p \in sent : p.age < PingTTL}}
        again == wait + 1 >= Interval(now, Older(since, Eager))
    IN  /\ ~changed
        /\ dead' = [a \in Addrs |-> IF a \in alive THEN 0 ELSE Older(dead[a], Stale + PingTTL)]
        /\ IF ~Known THEN UNCHANGED <<best, sent, wait, since, changed>>
           ELSE /\ best' = now
                /\ changed' = (now # aged)
                /\ since' = Older(since, Eager)
                /\ wait' = IF again THEN 0 ELSE wait + 1
                /\ sent' = IF again THEN pending \cup Pings(Targets(now), pending) ELSE pending
        /\ UNCHANGED <<alive, known, cand, learned, hints, ep, changes>>

\* handle, a ping from address a: it is answered, the address learned, and
\* pinged at once when there is no path.
handlePing(a) ==
    /\ Known /\ a \in alive
    /\ learned' = IF a \notin cand /\ Cardinality(learned) < MaxLearned
                  THEN learned \cup {a} ELSE learned
    /\ sent' = IF best.addr = NoPath THEN sent \cup Pings({a}, sent) ELSE sent
    /\ UNCHANGED <<envVars, known, cand, hints, best, wait, since, ep, changed, changes>>

\* better: any path beats none or a stale one, direct beats relayed, LAN
\* beats remote, else it takes 30% less time.
better(p, cur) ==
    \/ cur.addr = NoPath \/ cur.age >= Stale
    \/ /\ p.addr # cur.addr
       /\ IF (p.addr \in Relay) # (cur.addr \in Relay) THEN cur.addr \in Relay
          ELSE IF (p.addr \in Lan) # (cur.addr \in Lan) THEN p.addr \in Lan
          ELSE p.rtt * 10 < cur.rtt * 7

\* Seeded fault: any answer of the peer confirms the path in use.
ConfirmedByAny(p) ==
    IF better(p, best) THEN p ELSE [best EXCEPT !.age = 0, !.rtt = p.rtt]

\* The path after path p was confirmed.
Confirmed(p) ==
    IF better(p, best) THEN p
    ELSE IF p.addr = best.addr THEN [best EXCEPT !.age = 0, !.rtt = p.rtt]
    ELSE best

\* handle, a pong to ping s, from the address it went to (others are
\* ignored, like one to a forgotten ping).
handlePong(s) ==
    /\ Known /\ s.reached
    /\ sent' = sent \ {s}
    /\ best' = Confirmed([addr |-> s.to, rtt |-> s.age, age |-> 0])
    /\ changed' = (changed \/ best'.addr # best.addr)
    /\ UNCHANGED <<envVars, known, cand, learned, hints, wait, since, ep, changes>>

------------------------------------------------------------------------------
(* Netmaps and endpoints. *)

\* endpoint: the confirmed path is used while it is fresh.
Fresh == Known /\ best.addr # NoPath /\ best.age < Stale

\* peerEndpoint: else the guess that chooseEndpoint makes from the netmap.
Endpoint == IF Fresh THEN best.addr ELSE Guess

\* SetPeers gives the device what peersDiff finds changed: afterwards the
\* rooms of c have the peer with that endpoint, or not at all (NoPath).
SetPeers(c, e) == [ep EXCEPT ![c] = e]

\* apply of a netmap of c that lists the peer with addresses to: the rooms'
\* endpoints are chosen first, then setPeers tells disco; a peer that nobody
\* listed before is a new one.
setPeers(c, to) ==
    /\ changes > 0 /\ changes' = changes - 1
    /\ ep' = SetPeers(c, Endpoint)
    /\ known' = [known EXCEPT ![c] = TRUE]
    /\ cand' = to
    /\ IF Known THEN UNCHANGED <<learned, hints, best, sent, wait, since>>
       ELSE /\ learned' = {} /\ hints' = {} /\ best' = None /\ sent' = {}
            /\ wait' = Recheck /\ since' = 0
    /\ UNCHANGED <<envVars, changed>>

\* apply of a netmap that does not: the room loses the peer, and disco
\* forgets it when no other controller lists it.
Forget(c) ==
    /\ changes > 0 /\ changes' = changes - 1
    /\ known[c]
    /\ ep' = SetPeers(c, NoPath)
    /\ known' = [known EXCEPT ![c] = FALSE]
    /\ IF \E d \in Ctrls \ {c} : known[d]
       THEN UNCHANGED <<cand, learned, hints, best, sent, wait, since>>
       ELSE /\ cand' = {} /\ learned' = {} /\ hints' = {} /\ best' = None /\ sent' = {}
            /\ wait' = 0 /\ since' = 0
    /\ UNCHANGED <<envVars, changed>>

\* addHints, addGossipHints: other addresses, instead of those given before.
addHints(to) ==
    /\ changes > 0 /\ changes' = changes - 1
    /\ Known
    /\ hints' = to \ cand
    /\ UNCHANGED <<envVars, known, cand, learned, best, sent, wait, since, ep, changed>>

\* Seeded fault: only the first controller's rooms are re-applied.
pathsChangedFirst ==
    /\ changed /\ changed' = FALSE
    /\ ep' = [c \in Ctrls |-> IF known[c] /\ c = First THEN Endpoint ELSE ep[c]]
    /\ UNCHANGED <<envVars, peerVars, changes>>

\* pathsChanged: reapplyAll gives every room that has the peer the endpoint
\* of this moment.
pathsChanged ==
    /\ changed /\ changed' = FALSE
    /\ ep' = [c \in Ctrls |-> IF known[c] THEN Endpoint ELSE NoPath]
    /\ UNCHANGED <<envVars, peerVars, changes>>

\* A path comes up or dies: a NAT, a cable, the relay.
PathFlips(a) ==
    /\ changes > 0 /\ changes' = changes - 1
    /\ alive' = IF a \in alive THEN alive \ {a} ELSE alive \cup {a}
    /\ dead' = [dead EXCEPT ![a] = 0]
    /\ UNCHANGED <<peerVars, ep, changed>>

------------------------------------------------------------------------------
\* One controller has listed the peer for the first time.
Init ==
    /\ alive \in SUBSET Addrs
    /\ dead = [a \in Addrs |-> IF a \in alive THEN 0 ELSE Stale + PingTTL]
    /\ known = [c \in Ctrls |-> c = First]
    /\ cand \in CandSets
    /\ learned = {} /\ hints = {} /\ best = None /\ sent = {}
    /\ wait = Recheck /\ since = 0
    /\ ep = [c \in Ctrls |-> IF c = First THEN Guess ELSE NoPath]
    /\ changed = FALSE
    /\ changes = MaxChanges

Next ==
    \/ tick
    \/ \E a \in Addrs : handlePing(a) \/ PathFlips(a)
    \/ \E s \in sent : handlePong(s)
    \/ \E c \in Ctrls : Forget(c) \/ \E to \in CandSets : setPeers(c, to)
    \/ \E to \in HintSets : addHints(to)
    \/ pathsChanged

Spec == Init /\ [][Next]_vars

\* An answer over a path that works.
Answered(a) == a \in alive /\ \E s \in sent : s.to = a /\ handlePong(s)

\* The ticker and the goroutine run; of the pings to a path that goes on
\* working some are answered in time.
Fairness ==
    /\ WF_vars(tick) /\ WF_vars(pathsChanged)
    /\ \A a \in Addrs : SF_vars(Answered(a))

FairSpec == Spec /\ Fairness

------------------------------------------------------------------------------
(* Properties. *)

\* However late the answers came, no room is left on a path for longer than
\* discoStale and discoPingTTL after it died, but for a change on its way.
DeadPathLeft ==
    \A c \in Ctrls : ep[c] \in Addrs => changed \/ dead[ep[c]] < Stale + PingTTL

\* Two rooms never go on with different paths to the peer: each has the
\* confirmed one, but for a change on its way.
RoomsAgree ==
    changed \/ \A c \in Ctrls : known[c] => ep[c] \in {Endpoint, Guess}

\* A path that works is found and used: a room is again and again on one,
\* as long as one of the addresses known works, and not through the relay as
\* long as a direct one does.
PathFound ==
    []<>(alive \cap Places # {} =>
            \A c \in Ctrls : known[c] =>
                ep[c] \in IF alive \cap Places \cap Direct # {} THEN alive \ Relay ELSE alive)

------------------------------------------------------------------------------
(* The inductive invariant of PathProofs. *)

Ping == [to : Addrs, age : 0 .. PingTTL, reached : BOOLEAN]

\* The shape of the state; a peer nobody lists has no path and no pings.
DiscoTypeOK ==
    /\ alive \subseteq Addrs
    /\ dead \in [Addrs -> 0 .. Stale + PingTTL]
    /\ known \in [Ctrls -> BOOLEAN]
    /\ cand \subseteq Addrs /\ learned \subseteq Addrs /\ hints \subseteq Addrs
    /\ best \in [addr : Addrs \cup {NoPath}, rtt : Nat, age : 0 .. Stale]
    /\ sent \subseteq Ping
    /\ ep \in [Ctrls -> Addrs \cup {Guess, NoPath}]
    /\ changed \in BOOLEAN
    /\ ~Known => best = None /\ sent = {}

\* An answer on its way, and the path in use, vouch for a path that worked
\* when the ping was sent.
Vouched ==
    /\ \A a \in alive : dead[a] = 0
    /\ \A s \in sent : s.reached => dead[s.to] <= s.age
    /\ best.addr # NoPath => best.age < Stale /\ dead[best.addr] <= best.age + PingTTL

\* A room without the peer has no endpoint, one with it the path in use or a
\* guess, but for a change on its way.
RoomsFollow ==
    \A c \in Ctrls :
        /\ ~known[c] => ep[c] = NoPath
        /\ known[c] => ep[c] \in Addrs \cup {Guess}
        /\ (known[c] /\ ~changed /\ ep[c] \in Addrs) => ep[c] = best.addr

DiscoInv == DiscoTypeOK /\ Vouched /\ RoomsFollow
==============================================================================
