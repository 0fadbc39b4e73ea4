----------------------------- MODULE RoomDevice -----------------------------
(***************************************************************************)
(* The device of one room on one machine, between the system and           *)
(* AmneziaWG: the access rules and the packet filter of internal/acl, the  *)
(* broadcasts shared by internal/tunwrap, the userspace exit's diversion,  *)
(* and the router of room/room.go.                                         *)
(*                                                                         *)
(* The room carries IPv4 only.  A packet is its protocol, addresses, ports *)
(* and whether it is a first fragment; the packets of the system and of    *)
(* the room are given.  AmneziaWG has authenticated where a packet came    *)
(* from.  Read (AmneziaWG takes packets), Write (it hands packets over)    *)
(* and apply() (which changes rules, mode, peers and routing) run in       *)
(* goroutines of their own.                                                *)
(***************************************************************************)
EXTENDS Naturals, Sequences, FiniteSets, SequencesExt

CONSTANTS
    Self,           \* this machine's address in the room
    Subnet,         \* the addresses of the room, its broadcast included
    Groups,         \* broadcast and multicast addresses
    MDNS,           \* of these, that of mDNS
    GossipPort,
    OutPackets,     \* packets the system sends into the room
    Wires,          \* what may arrive: [wrapped, from, pkt]
    Configs,        \* the room's configs: [pol, routes, exit], of a policy its
                    \* rules and members
    PeerSets,       \* members broadcasts may be shared with
    Machines,       \* [mode, userExit]: broadcast mode the room starts with,
                    \* whether this machine is an exit with our own NAT
    FlowTTL,        \* flowTTL in ticks, longer than a second each
    MaxFlows,       \* maxFlows
    MaxPPS,         \* MaxPPS
    Batch,          \* buffers AmneziaWG reads into at a time
    MaxChanges,     \* bounds of the model: changes of the config, and
    MaxFaults       \* failures of the router

NoPolicy == [rules |-> {}, members |-> <<>>]

Flow(p) == [proto |-> p.proto, src |-> p.src, dst |-> p.dst, sport |-> p.sport, dport |-> p.dport]
Reply(p) == [proto |-> p.proto, src |-> p.dst, dst |-> p.src, sport |-> p.dport, dport |-> p.sport]

\* The flows that may come to be remembered or asked for.
Flows ==
    {Flow(p) : p \in OutPackets} \cup {Flow(w.pkt) : w \in Wires}
    \cup {Reply(w.pkt) : w \in Wires}

Absent == FlowTTL + 2       \* the age of a flow that is not in the table

ASSUME DeviceAssumption ==
    /\ Self \in Subnet /\ MDNS \in Groups
    /\ \A w \in Wires : ~w.wrapped => w.pkt.src = w.from    \* AllowedIPs
    /\ FlowTTL \in Nat \ {0} /\ MaxFlows \in Nat /\ MaxPPS \in Nat
    /\ Batch \in Nat \ {0} /\ MaxChanges \in Nat /\ MaxFaults \in Nat
    /\ IsFiniteSet(OutPackets) /\ IsFiniteSet(Wires)
    /\ UNION PeerSets \in PeerSets /\ \A ps \in PeerSets : IsFiniteSet(ps)
    /\ Machines \subseteq [mode : {"on", "off", "mdns"}, userExit : BOOLEAN]

VARIABLES
    want,       \* the room's config: [pol, routes, exit]
    started,    \* the room has its first rules
    filter,     \* acl.Filter, see NewFilter
    mode,       \* broadcast mode
    peers,      \* whom broadcasts are shared with
    pending,    \* wrapped broadcasts on their way: <<packet, peer>>
    counter,    \* broadcasts of this second
    writer,     \* Write: [pc, cur, old, wire, why]
    router,     \* r.routing, r.exitSrv
    kernel,     \* the router's nftables table
    nat,        \* the userspace exit: on, and the networks it leaves alone
    userExit,   \* r.userExit, constant
    budget,     \* what is left of the bounds
    faults

packetVars == <<pending, counter, writer>>
routerVars == <<router, kernel, nat, userExit, faults>>
vars == <<want, started, filter, mode, peers, packetVars, routerVars, budget>>

------------------------------------------------------------------------------
(* The access rules.  A selector is its kind and what it names; a network is
   the set of its addresses. *)

member(pol, addr) == addr \in DOMAIN pol.members

matches(pol, sel, addr, to) ==
    CASE sel[1] = "*"        -> TRUE
      [] sel[1] = "internet" -> to /\ addr \notin Subnet
      [] sel[1] = "tag"      -> member(pol, addr) /\ sel[2] \in pol.members[addr].tags
      [] sel[1] = "net"      -> addr \in sel[2]
      [] sel[1] = "addr"     -> addr = sel[2]
      [] sel[1] = "name"     -> member(pol, addr) /\ pol.members[addr].name = sel[2]

any(pol, sels, addr, to) == \E s \in sels : matches(pol, s, addr, to)

\* A rule without ports allows them all.
Allowed(pol, src, dst, proto, port) ==
    pol.rules # {} =>
        \E r \in pol.rules :
            /\ any(pol, r.from, src, FALSE) /\ any(pol, r.to, dst, TRUE)
            /\ r.ports = {} \/ \E q \in r.ports :
                    q.proto = proto /\ (proto = "icmp" \/ (q.first <= port /\ port <= q.last))

------------------------------------------------------------------------------
(* The packet filter.  Its last two fields are history: talk, the age of the
   last packet of a conversation (one that this machine began or the rules let
   in), and missed, the conversations that found the table full. *)

NewFilter(pol) ==
    [on |-> pol.rules # {}, pol |-> pol, flows |-> [k \in Flows |-> Absent],
     swept |-> FALSE, talk |-> [k \in Flows |-> Absent], missed |-> {}]

Updated(f, flows, swept, talk, missed) ==
    [on |-> f.on, pol |-> f.pol, flows |-> flows, swept |-> swept,
     talk |-> talk, missed |-> missed]

Size(flows) == Cardinality({k \in Flows : flows[k] # Absent})

\* A full table is swept, at most once a second.
sweptFlows(f) ==
    IF Size(f.flows) >= MaxFlows /\ ~f.swept
    THEN [k \in Flows |-> IF f.flows[k] > FlowTTL THEN Absent ELSE f.flows[k]]
    ELSE f.flows

\* Seeded fault: off by one at the limit.
rememberOneMore(f, k) ==
    LET flows == sweptFlows(f) IN
    Updated(f, IF Size(flows) <= MaxFlows THEN [flows EXCEPT ![k] = 0] ELSE flows,
            f.swept \/ Size(f.flows) >= MaxFlows, f.talk, f.missed)

\* A flow is not remembered, and one in the table not renewed, while the table
\* is full.
rememberLocked(f, k) ==
    LET flows == sweptFlows(f)
        fits == Size(flows) < MaxFlows
    IN Updated(f, IF fits THEN [flows EXCEPT ![k] = 0] ELSE flows,
               f.swept \/ Size(f.flows) >= MaxFlows,
               [f.talk EXCEPT ![k] = 0],
               IF fits THEN f.missed \ {k} ELSE f.missed \cup {k})

\* A packet this machine sends.
Outbound(f, p) == rememberLocked(f, Flow(p))

Answers(f, p) == f.flows[Reply(p)] < FlowTTL

\* Pings match by addresses only.
PingOf(k, p) ==
    k.proto = "icmp" /\ p.proto = "icmp" /\ k.src = p.dst /\ k.dst = p.src

AnswersPing(f, p) == \E k \in Flows : PingOf(k, p) /\ f.flows[k] < FlowTTL

Gossip(p) == p.proto \in {"tcp", "udp"} /\ p.dst = Self /\ p.dport = GossipPort

\* A broadcast is addressed to this member.
ByRules(pol, p) ==
    Allowed(pol, p.src, IF p.dst \in Groups THEN Self ELSE p.dst, p.proto, p.dport)

\* Whether a packet passes; later fragments carry no ports and do.
Inbound(f, p) ==
    ~p.first \/ Answers(f, p) \/ AnswersPing(f, p) \/ Gossip(p) \/ ByRules(f.pol, p)

\* Seeded fault: an answer does not renew its flow.
InboundStill(f, p) == f

\* The table after a packet that passed: an answer renews its flow, a packet
\* the rules allow is remembered.
InboundFlows(f, p) ==
    IF ~p.first THEN f
    ELSE IF Answers(f, p)
         THEN Updated(f, [f.flows EXCEPT ![Reply(p)] = 0], f.swept, f.talk, f.missed)
    ELSE IF AnswersPing(f, p) \/ Gossip(p) THEN f
    ELSE rememberLocked(f, Flow(p))

\* History: a packet that passed continues its conversation.
Continued(f, p) ==
    IF p.first /\ f.talk[Reply(p)] < FlowTTL
    THEN Updated(f, f.flows, f.swept, [f.talk EXCEPT ![Reply(p)] = 0], f.missed)
    ELSE f

\* A tick: flows age, and conversations end when they should be forgotten.
Aged(f) ==
    LET talk == [k \in Flows |-> IF f.talk[k] + 1 < FlowTTL THEN f.talk[k] + 1 ELSE Absent]
    IN Updated(f, [k \in Flows |-> IF f.flows[k] <= FlowTTL THEN f.flows[k] + 1 ELSE f.flows[k]],
               FALSE, talk, {k \in f.missed : talk[k] # Absent})

------------------------------------------------------------------------------
(* Read: AmneziaWG takes packets. *)

\* An outgoing packet that is a broadcast to share.
shouldForward(p) ==
    /\ p.src = Self /\ p.dst \in Groups /\ p.proto # "igmp"
    /\ CASE mode = "off"  -> FALSE
         [] mode = "mdns" -> p.dst = MDNS /\ p.proto = "udp" /\ p.dport = 5353
         [] mode = "on"   -> TRUE

\* Wrapped, for every peer; nothing past the limit of a second.
allow == counter < MaxPPS
wrap(p) == SetToSeq({<<p, peer>> : peer \in peers})

\* As many as there are buffers.
drainLocked(q, n) ==
    IF Len(q) <= Batch - n THEN <<>> ELSE SubSeq(q, Batch - n + 1, Len(q))

\* One packet from the system.
ReadPacket(p) ==
    /\ IF shouldForward(p)
       THEN /\ pending' = drainLocked(IF allow THEN pending \o wrap(p) ELSE pending, 0)
            /\ counter' = IF allow THEN counter + 1 ELSE counter
            /\ UNCHANGED filter
       ELSE /\ pending' = drainLocked(pending, 1)
            /\ filter' = IF filter.on THEN Outbound(filter, p) ELSE filter
            /\ UNCHANGED counter
    /\ UNCHANGED <<want, started, mode, peers, writer, routerVars, budget>>

\* What waits goes first; then Read waits for the system.
Read ==
    \/ /\ pending # <<>>
       /\ pending' = drainLocked(pending, 0)
       /\ UNCHANGED <<want, started, filter, mode, peers, counter, writer, routerVars, budget>>
    \/ pending = <<>> /\ \E p \in OutPackets : ReadPacket(p)

------------------------------------------------------------------------------
(* Write: AmneziaWG hands over what arrived. *)

NoFilter == NewFilter(NoPolicy)
NoWire == [wrapped |-> FALSE]
Writer(pc, cur, old, wire, why) ==
    [pc |-> pc, cur |-> cur, old |-> old, wire |-> wire, why |-> why]
Resting == Writer("idle", TRUE, NoFilter, NoWire, {})

\* A broadcast in its sender's name.
Genuine(w) == w.pkt.src = w.from /\ w.from \in Subnet /\ w.pkt.dst \in Groups

\* The packet inside, if it is acceptable.
unwrap(w) == IF w.wrapped => mode # "off" /\ Genuine(w) THEN {w.pkt} ELSE {}

Reasons == {"open", "rules", "answer", "gossip", "fragment", "switched"}

\* Why a packet may be handed over: the room has no rules, or not yet; they
\* allow it; it answers a conversation; it spreads the room's config; it is a
\* later fragment; broadcasts were off when it was looked at.
Why(f, w) ==
    {r \in Reasons :
        \/ r = "open" /\ ~f.on
        \/ r = "rules" /\ ByRules(f.pol, w.pkt)
        \/ r = "answer" /\ \E k \in Flows :
                (k = Reply(w.pkt) \/ PingOf(k, w.pkt)) /\ f.talk[k] < FlowTTL
        \/ r = "gossip" /\ Gossip(w.pkt)
        \/ r = "fragment" /\ ~w.pkt.first
        \/ r = "switched" /\ w.wrapped /\ mode = "off"}

\* A batch: the filter is loaded once.
WriteStart ==
    /\ writer.pc = "idle"
    /\ writer' = Writer("next", TRUE, NoFilter, NoWire, {})
    /\ UNCHANGED <<want, started, filter, mode, peers, pending, counter, routerVars, budget>>

\* A packet of the batch meets the filter; what cannot be unwrapped does not.
WriteFilter(w) ==
    LET f == IF writer.cur THEN filter ELSE writer.old
        view == unwrap(w)
        passes == f.on /\ view # {} => Inbound(f, w.pkt)
        g == IF f.on /\ view # {} /\ passes
             THEN Continued(InboundFlows(f, w.pkt), w.pkt) ELSE f
    IN
    /\ writer.pc = "next"
    /\ filter' = IF writer.cur THEN g ELSE filter
    /\ writer' = LET old == IF writer.cur THEN writer.old ELSE g IN
                 IF passes THEN Writer("keep", writer.cur, old, w, Why(f, w))
                           ELSE Writer("next", writer.cur, old, NoWire, {})
    /\ UNCHANGED <<want, started, mode, peers, pending, counter, routerVars, budget>>

\* The userspace exit keeps what goes to the internet.
Diverted(w) ==
    /\ nat.on /\ ~w.wrapped
    /\ w.pkt.src \in Subnet /\ w.pkt.dst \notin Subnet \cup Groups \cup nat.keep

\* Unwrapped once more: what goes to the system, or to the exit's NAT.
HandedOver(w) == IF Diverted(w) THEN {w.pkt} ELSE unwrap(w)

WriteKeep ==
    /\ writer.pc = "keep"
    /\ writer' = Writer("next", writer.cur, writer.old, NoWire, {})
    /\ UNCHANGED <<want, started, filter, mode, peers, pending, counter, routerVars, budget>>

WriteEnd ==
    /\ writer.pc = "next"
    /\ writer' = Resting
    /\ UNCHANGED <<want, started, filter, mode, peers, pending, counter, routerVars, budget>>

------------------------------------------------------------------------------
(* What apply() does to the room. *)

Spend == budget > 0 /\ budget' = budget - 1

\* Seeded fault: conversations outlive the rules they were held under.
replaceFilterKept(pol) ==
    /\ filter' = Updated(NewFilter(pol), filter.flows, FALSE, [k \in Flows |-> Absent], {})
    /\ UNCHANGED writer

\* A new filter starts empty; a batch in progress keeps the old one.
replaceFilter(pol) ==
    /\ filter' = NewFilter(pol)
    /\ writer' = IF writer.pc # "idle" /\ writer.cur
                 THEN Writer(writer.pc, FALSE, filter, writer.wire, writer.why) ELSE writer

\* The rules or members of the room changed; apply() skips equal policies.
SetPolicy ==
    /\ started => filter.pol # want.pol
    /\ replaceFilter(want.pol)
    /\ started' = TRUE
    /\ UNCHANGED <<want, mode, peers, pending, counter, routerVars, budget>>

SetMode(m) ==
    /\ m # mode /\ Spend
    /\ mode' = m
    /\ UNCHANGED <<want, started, filter, peers, pending, counter, writer, routerVars>>

SetPeers(ps) ==
    /\ ps # peers /\ Spend
    /\ peers' = ps
    /\ UNCHANGED <<want, started, filter, mode, pending, counter, writer, routerVars>>

KernelOff == [routes |-> {}, exit |-> FALSE]
NatOff == [on |-> FALSE, keep |-> {}]

\* The nftables rules a config asks for.
KernelFor(c) == [routes |-> c.routes, exit |-> c.exit /\ ~userExit]

\* Seeded fault: a failed enableRouter is remembered as done.
SetRouterOnce(fails) ==
    /\ router # [routes |-> want.routes, exit |-> want.exit]
    /\ router' = [routes |-> want.routes, exit |-> want.exit]
    /\ IF fails = "enable"
       THEN faults > 0 /\ faults' = faults - 1 /\ UNCHANGED <<kernel, nat>>
       ELSE /\ kernel' = KernelFor(want)
            /\ nat' = IF want.exit /\ userExit THEN [on |-> TRUE, keep |-> want.routes] ELSE NatOff
            /\ UNCHANGED faults
    /\ UNCHANGED <<want, started, filter, mode, peers, packetVars, userExit, budget>>

\* enableRouter or disableRouter, then our own NAT.  fails: enableRouter fails
\* and SetRouter returns, or exitnat.New does and the room is no exit yet.
SetRouter(fails) ==
    LET off == KernelFor(want) = KernelOff
        keepNat == want.exit /\ userExit
        natFails == fails = "nat"
    IN
    /\ router # [routes |-> want.routes, exit |-> want.exit]
    /\ fails = "enable" => ~off
    /\ fails = "nat" => keepNat /\ ~nat.on
    /\ IF fails = "enable" THEN UNCHANGED <<router, kernel, nat>>
       ELSE /\ kernel' =
                IF ~off THEN KernelFor(want)
                ELSE IF router.routes # {} \/ (router.exit /\ ~userExit) THEN KernelOff
                ELSE kernel
            /\ nat' = IF keepNat /\ ~natFails THEN [on |-> TRUE, keep |-> want.routes] ELSE NatOff
            /\ router' = [routes |-> want.routes, exit |-> want.exit /\ ~natFails]
    /\ IF fails = "none" THEN UNCHANGED faults ELSE faults > 0 /\ faults' = faults - 1
    /\ UNCHANGED <<want, started, filter, mode, peers, packetVars, userExit, budget>>

\* A new config of the room.
NewConfig(c) ==
    /\ c # want /\ Spend
    /\ want' = c
    /\ UNCHANGED <<started, filter, mode, peers, pending, counter, writer, routerVars>>

\* A batch takes less than a tick.
Tick ==
    /\ writer.pc = "idle"
    /\ filter' = Aged(filter)
    /\ counter' = 0
    /\ UNCHANGED <<want, started, mode, peers, pending, writer, routerVars, budget>>

------------------------------------------------------------------------------
Init ==
    /\ want \in Configs
    /\ started = FALSE /\ filter = NoFilter
    /\ peers = UNION PeerSets
    /\ pending = <<>> /\ counter = 0
    /\ writer = Resting
    /\ router = KernelOff /\ kernel = KernelOff /\ nat = NatOff
    /\ \E m \in Machines : mode = m.mode /\ userExit = m.userExit
    /\ budget = MaxChanges /\ faults = MaxFaults

Next ==
    \/ Read
    \/ WriteStart \/ WriteKeep \/ WriteEnd
    \/ \E w \in Wires : WriteFilter(w)
    \/ SetPolicy
    \/ \E m \in {"on", "off", "mdns"} : SetMode(m)
    \/ \E ps \in PeerSets : SetPeers(ps)
    \/ \E fails \in {"none", "enable", "nat"} : SetRouter(fails)
    \/ \E c \in Configs : NewConfig(c)
    \/ Tick

Spec == Init /\ [][Next]_vars

\* apply() runs for every netmap.
Fairness == WF_vars(\E fails \in {"none", "enable", "nat"} : SetRouter(fails))

FairSpec == Spec /\ Fairness

------------------------------------------------------------------------------
(* Properties. *)

Filters == [on : BOOLEAN, pol : {c.pol : c \in Configs} \cup {NoPolicy},
            flows : [Flows -> 0 .. Absent], swept : BOOLEAN,
            talk : [Flows -> 0 .. Absent], missed : SUBSET Flows]

\* The shape of the state: the table never outgrows its limit, what waits is
\* for one broadcast's peers at most, the writer's packet is one that arrived.
DeviceTypeOK ==
    /\ want \in Configs /\ started \in BOOLEAN
    /\ filter \in Filters /\ Size(filter.flows) <= MaxFlows
    /\ mode \in {"on", "off", "mdns"} /\ peers \in PeerSets
    /\ \A i \in DOMAIN pending : pending[i] \in OutPackets \X UNION PeerSets
    /\ \E ps \in PeerSets : Len(pending) <= Cardinality(ps)
    /\ counter \in 0 .. MaxPPS
    /\ writer.pc \in {"idle", "next", "keep"} /\ writer.cur \in BOOLEAN
    /\ writer.old \in Filters
    /\ writer.wire \in (IF writer.pc = "keep" THEN Wires ELSE {NoWire})
    /\ \A c \in {kernel, router} : \E d \in Configs : c.routes \in {{}, d.routes}
    /\ nat.on => userExit

\* Whatever is handed to the system or to the exit's NAT comes from the member
\* it names and has a reason: the rules in force (when its batch began) allow
\* it, or it belongs to a conversation that began under them and was kept up
\* within flowTTL, or it is a config on its way, or a later fragment.  The
\* one exception is a broadcast that arrives as broadcasts are switched on.
Admitted ==
    writer.pc = "keep" =>
        \A p \in HandedOver(writer.wire) : writer.why # {} /\ p.src = writer.wire.from

\* "Replies to allowed connections always pass" (acl.go): a conversation stays
\* in the table for flowTTL after its last packet in either direction, unless
\* the table was full when it was last to be remembered.
RepliesPass ==
    filter.on =>
        \A k \in Flows \ filter.missed :
            filter.talk[k] < FlowTTL => filter.flows[k] < FlowTTL

\* The machine comes to route what the room's config asks, and only that, also
\* when a step of turning routing on or off failed.
RouterSettles ==
    []<>(/\ kernel = KernelFor(want)
         /\ nat.on <=> (want.exit /\ userExit)
         /\ nat.on => nat.keep = want.routes)
=============================================================================
