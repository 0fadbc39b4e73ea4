------------------------------ MODULE Firewall ------------------------------
(***************************************************************************)
(* The kill switch: the nftables chain of room/killswitch_linux.go and the *)
(* Windows Filtering Platform filters of internal/wgfirewall, what they  *)
(* let pass, and how one set of rules takes the place of another.  The     *)
(* state that decides which rules are wanted is ExitGuard's.               *)
(*                                                                         *)
(* An address stands for the only thing the rules ask of it: a host of the *)
(* internet, of the LAN, broadcast, link-local, the router or DHCP         *)
(* multicast groups.  A rule set is what SetKillSwitch was given: the      *)
(* interfaces of the rooms (on Windows by LUID) and whether the LAN stays  *)
(* reachable (the networks of lanPrefixesLocked).                          *)
(***************************************************************************)
EXTENDS Naturals, Sequences

CONSTANT Interfaces     \* the interfaces rooms may have

Phys == 0               \* the machine's own network

ASSUME InterfacesAssumption == Phys \notin Interfaces

NdTypes == {0, 133, 134, 135, 136, 137}     \* 0: no ICMPv6 of that kind

\* lanPrefixesLocked, by the addresses its networks contain: this machine's
\* networks, broadcast, multicast and IPv6 link-local.
LanPrefixes == {"lan", "broadcast", "linklocal", "routers", "dhcpgroup"}

\* The packets the rules are tried on.  ll: the local address is link-local;
\* own: of the node itself (marked, on Linux).
DatagramsV4 ==
    [out : BOOLEAN, v6 : {FALSE}, iface : Interfaces \cup {Phys}, own : {FALSE},
     lo : {FALSE}, proto : {"udp"}, lport : {0, 68}, rport : {0, 67}, nd : {0},
     ll : {FALSE}, remote : {"host", "lan", "broadcast"}]

DatagramsV6 ==
    [out : BOOLEAN, v6 : {TRUE}, iface : Interfaces \cup {Phys}, own : {FALSE},
     lo : {FALSE}, proto : {"udp"}, lport : {0, 546}, rport : {0, 547}, nd : {0},
     ll : {TRUE}, remote : {"host", "linklocal", "dhcpgroup"}]

Discovery ==
    [out : BOOLEAN, v6 : {TRUE}, iface : {Phys}, own : {FALSE},
     lo : {FALSE}, proto : {"icmp6"}, lport : {0}, rport : {0}, nd : NdTypes,
     ll : {TRUE}, remote : {"host", "linklocal", "routers"}]

OwnOrLoopback ==
    [out : BOOLEAN, v6 : BOOLEAN, iface : {Phys}, own : BOOLEAN,
     lo : BOOLEAN, proto : {"udp"}, lport : {0}, rport : {0}, nd : {0},
     ll : {FALSE}, remote : {"host"}]

Packets == DatagramsV4 \cup DatagramsV6 \cup Discovery \cup OwnOrLoopback

------------------------------------------------------------------------------
(* Windows.  A filter of one layer (direction and family) has conditions on
   fields of the packet; values given for one field are alternatives. *)

Filter(layer, weight, permit, cond) ==
    [out |-> layer[1], v6 |-> layer[2], weight |-> weight,
     permit |-> permit, cond |-> cond]

Layers == BOOLEAN \X BOOLEAN
ConnectV4 == <<TRUE, FALSE>>
AcceptV4 == <<FALSE, FALSE>>
ConnectV6 == <<TRUE, TRUE>>
AcceptV6 == <<FALSE, TRUE>>

permitTunInterface(weight, luid) ==
    {Filter(l, weight, TRUE, [iface |-> {luid}]) : l \in Layers}

permitWireGuardService(weight) ==
    {Filter(l, weight, TRUE, [own |-> {TRUE}]) : l \in Layers}

permitLoopback(weight) ==
    {Filter(l, weight, TRUE, [lo |-> {TRUE}]) : l \in Layers}

permitDHCPIPv4(weight) ==
    {Filter(ConnectV4, weight, TRUE,
        [proto |-> {"udp"}, lport |-> {68}, rport |-> {67}, remote |-> {"broadcast"}]),
     Filter(AcceptV4, weight, TRUE,
        [proto |-> {"udp"}, lport |-> {68}, rport |-> {67}])}

permitDHCPIPv6(weight) ==
    {Filter(ConnectV6, weight, TRUE,
        [proto |-> {"udp"}, lport |-> {546}, rport |-> {547},
         remote |-> {"dhcpgroup"}, ll |-> {TRUE}]),
     Filter(AcceptV6, weight, TRUE,
        [proto |-> {"udp"}, lport |-> {546}, rport |-> {547},
         remote |-> {"linklocal"}, ll |-> {TRUE}])}

NdpSolicitation(weight) ==      \* router solicitation, out
    {Filter(ConnectV6, weight, TRUE,
        [proto |-> {"icmp6"}, nd |-> {133}, remote |-> {"routers"}])}

NdpFromRouter(weight) ==        \* router advertisement and redirect, in
    {Filter(AcceptV6, weight, TRUE,
        [proto |-> {"icmp6"}, nd |-> {t}, remote |-> {"linklocal"}]) : t \in {134, 137}}

NdpNeighbor(weight) ==          \* solicitation and advertisement, both ways
    {Filter(l, weight, TRUE, [proto |-> {"icmp6"}, nd |-> {t}]) :
        l \in {ConnectV6, AcceptV6}, t \in {135, 136}}

permitNdp(weight) ==
    NdpSolicitation(weight) \cup NdpFromRouter(weight) \cup NdpNeighbor(weight)

permitRemoteNets(weight, nets) ==
    IF nets = {} THEN {}
    ELSE {Filter(l, weight, TRUE, [remote |-> nets]) : l \in Layers}

\* Seeded fault: only IPv4 is blocked.
blockV4(weight) ==
    {Filter(l, weight, FALSE, [iface |-> Interfaces \cup {Phys}]) :
        l \in {ConnectV4, AcceptV4}}

\* No condition: every packet of the layer.
blockAll(weight) ==
    {Filter(l, weight, FALSE, [iface |-> Interfaces \cup {Phys}]) : l \in Layers}

\* The filters EnableFirewall installs (doNotRestrict is false and no
\* DNS servers are given: blockDNS is not reached).
Filters(luids, allowed) ==
    permitWireGuardService(15)
    \cup permitLoopback(13)
    \cup (UNION {permitTunInterface(12, i) : i \in luids})
    \cup permitRemoteNets(12, allowed)
    \cup permitDHCPIPv4(12) \cup permitDHCPIPv6(12) \cup permitNdp(12)
    \cup blockAll(0)

Matches(f, p) ==
    /\ f.out = p.out /\ f.v6 = p.v6
    /\ \A c \in DOMAIN f.cond : p[c] \in f.cond[c]

\* Of the filters of our sublayer that match, the heaviest decides; a packet
\* none of them matches passes.
WindowsPasses(filters, p) ==
    LET hits == {f \in filters : Matches(f, p)}
    IN hits # {} =>
        \E f \in hits : f.permit /\ \A g \in hits : g.weight <= f.weight

------------------------------------------------------------------------------
(* Linux: an output chain, the first rule that matches decides. *)

LinuxPasses(ifs, allowed, p) ==
    \/ ~p.out
    \/ p.lo
    \/ p.own
    \/ p.proto = "udp" /\ p.rport \in {67, 547}
    \/ p.proto = "icmp6" /\ p.nd \in {133, 135, 136}
    \/ p.iface \in ifs
    \/ p.remote \in allowed

------------------------------------------------------------------------------
(* Rule sets, and one taking the place of another. *)

Systems == {"linux", "windows"}
Rulesets == [ifs : SUBSET Interfaces, lan : BOOLEAN]

Allowed(rs) == IF rs.lan THEN LanPrefixes ELSE {}

\* The packets a rule set lets pass, in either direction.
Passing(s, rs) ==
    LET filters == Filters(rs.ifs, Allowed(rs))
    IN {p \in Packets : IF s = "linux" THEN LinuxPasses(rs.ifs, Allowed(rs), p)
                                       ELSE WindowsPasses(filters, p)}

\* Seeded fault: the old session is closed before the new one is installed.
ReplacingGap(s, old, new) ==
    IF s = "linux" THEN <<{old}, {new}>> ELSE <<{old}, {}, {new}>>

\* The sessions in force while rules are replaced.  nft replaces its table in
\* one transaction.  EnableFirewall installs the filters of a new session in
\* one transaction, and then closes the old session; an error closes the new.
Replacing(s, old, new) ==
    IF s = "linux" THEN <<{old}, {new}>> ELSE <<{old}, {old, new}, {new}>>

\* What must get through whatever else is blocked: the node's own packets,
\* those of the rooms, loopback, and the LAN where it is allowed.
MustPass(rs, p) ==
    \/ p.own \/ p.lo
    \/ p.iface \in rs.ifs
    \/ rs.lan /\ p.remote \in {"lan", "broadcast", "linklocal"}

\* What may get out besides: address configuration, which never reaches a
\* host of the internet beyond the first hop.
Configuration(p) ==
    \/ p.proto = "udp" /\ p.rport \in {67, 547}
    \/ p.proto = "icmp6" /\ p.nd # 0
    \/ p.remote \in {"routers", "dhcpgroup"}

\* The rule sets that let a packet out that they should not.
Leaky ==
    UNION {{<<s, rs>> : p \in {q \in Passing(s, rs) :
                q.out /\ ~MustPass(rs, q) /\ ~Configuration(q)}} :
        s \in Systems, rs \in Rulesets}

\* The rule sets that cut off a packet that they should let through.
Cutting ==
    UNION {{<<s, rs>> : p \in {q \in Packets : MustPass(rs, q)} \ Passing(s, rs)} :
        s \in Systems, rs \in Rulesets}

\* The packets that get out, at some stage of a replacement, although neither
\* rule set allows them, or are cut off although both must let them through.
\* Sessions have sublayers of their own: a packet has to pass each.
Slips(s, old, new) ==
    LET byOld == Passing(s, old)
        byNew == Passing(s, new)
        stages == Replacing(s, old, new)
        Passes(i, p) == /\ old \in stages[i] => p \in byOld
                        /\ new \in stages[i] => p \in byNew
    IN {p \in Packets : \E i \in 1 .. Len(stages) :
            \/ /\ Passes(i, p) /\ p.out
               /\ ~MustPass(old, p) /\ ~MustPass(new, p) /\ ~Configuration(p)
            \/ MustPass(old, p) /\ MustPass(new, p) /\ ~Passes(i, p)}

\* The replacements in which a packet slips through or is lost.
Slipping ==
    UNION {{<<s, old, new>> : p \in Slips(s, old, new)} :
        s \in Systems, old \in Rulesets, new \in Rulesets}
=============================================================================
