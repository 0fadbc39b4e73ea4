---------------------------- MODULE MCRoomDevice ----------------------------
(* RoomDevice on a small instance: two other members, a host of the internet. *)
EXTENDS RoomDevice

CONSTANTS me, ann, bob, host, group

Packet(proto, src, sport, dst, dport) ==
    [proto |-> proto, src |-> src, dst |-> dst, sport |-> sport, dport |-> dport, first |-> TRUE]

MCSubnet == {me, ann, bob}
MCGroups == {group}

\* A connection to ann, a broadcast.
Sent ==
    {Packet("tcp", me, 1, ann, 22),
     Packet("udp", me, 5353, group, 5353)}

Plain(p) == [wrapped |-> FALSE, from |-> p.src, pkt |-> p]
Wrapped(from, p) == [wrapped |-> TRUE, from |-> from, pkt |-> p]

\* Her answer, a connection from her, gossip, a later fragment, her packet to
\* the internet, her broadcast and one in her name.
Arriving ==
    {Plain(Packet("tcp", ann, 22, me, 1)),
     Plain(Packet("tcp", ann, 1, me, 22)), Plain(Packet("udp", ann, 1, me, 4798)),
     Plain([Packet("tcp", ann, 0, me, 0) EXCEPT !.first = FALSE]),
     Plain(Packet("tcp", ann, 1, host, 80)),
     Wrapped(ann, Packet("udp", ann, 5353, group, 5353)),
     Wrapped(bob, Packet("udp", ann, 5353, group, 5353))}

Members ==
    [a \in {me, ann} |-> IF a = me THEN [name |-> "me", tags |-> {}]
                                   ELSE [name |-> "ann", tags |-> {"dev"}]]

Rule(from, to, ports) == [from |-> from, to |-> to, ports |-> ports]
Ports(proto, first, last) == [proto |-> proto, first |-> first, last |-> last]

\* Ssh for a tag; broadcasts for all, and pings to the internet for a member.
Services ==
    [rules |-> {Rule({<<"tag", "dev">>}, {<<"addr", me>>}, {Ports("tcp", 20, 22)})},
     members |-> Members]
Broadcasts ==
    [rules |-> {Rule({<<"name", "ann">>}, {<<"internet">>}, {Ports("icmp", 0, 0)}),
                Rule({<<"*">>}, {<<"net", {me, bob}>>}, {Ports("udp", 5353, 5353)})},
     members |-> Members]

\* Rules without routing, routing without rules.
MCConfigs ==
    [pol : {Services, Broadcasts}, routes : {{}}, exit : {FALSE}]
    \cup [pol : {NoPolicy}, routes : {{}, {host}}, exit : BOOLEAN]

MCMachines == {[mode |-> "on", userExit |-> FALSE], [mode |-> "off", userExit |-> TRUE]}

MCPeerSets == {{ann, bob}, {ann}}
=============================================================================
