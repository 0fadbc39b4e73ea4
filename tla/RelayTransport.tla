--------------------------- MODULE RelayTransport ---------------------------
(***************************************************************************)
(* How a node reaches the relay, over UDP or through a VLESS stream:       *)
(* relayTransport, relayWrite, waitUDPSilent and vlessSession of           *)
(* internal/node/relaytransport.go, with what they see of relay.Client:    *)
(* its requests (hellos, keepalives), its answers and Ready.               *)
(*                                                                         *)
(* UDP and TCP may be blocked and come back at any time.  Times are in     *)
(* ticks: Grace is udpRelayGrace (8 s), Keepalive keepaliveEvery (20 s)    *)
(* and Silence silenceLimit (60 s).                                        *)
(***************************************************************************)
EXTENDS Naturals

CONSTANTS
    Modes,      \* values of relay_transport: some of "auto", "udp", "vless"
    Grace,      \* udpRelayGrace
    Keepalive,  \* keepaliveEvery
    Silence     \* silenceLimit

ASSUME TransportAssumption ==
    /\ Modes \subseteq {"auto", "udp", "vless"}
    /\ Grace \in Nat \ {0} /\ Keepalive \in Nat \ {0} /\ Silence \in Nat
    /\ Keepalive + 1 < Silence

VARIABLES
    mode,       \* the node's relay_transport
    udp,        \* does UDP to the relay work?
    tcp,        \* does TCP to the VLESS server work?
    pc,         \* relayTransport: "wait" (in waitUDPSilent), "dial", "stream",
                \* "backoff", or "off" when it returned
    heard,      \* ticks since Client.heard; Silence: no session, or too long ago
    ping,       \* ticks since Run's lastPing
    due,        \* an answer to this tick's request is under way
    ok,         \* waitUDPSilent: ticks since lastOK
    unheard     \* history: ticks in this waitUDPSilent with no answer over UDP

transportVars == <<mode, udp, tcp, pc, heard, ping, due, ok, unheard>>
network == <<mode, udp, tcp>>

Later(x, limit) == IF x < limit THEN x + 1 ELSE x

\* A wait is over once it is this long: silenceLimit, during which the client
\* is still Ready, then udpRelayGrace.
Longest == Silence + Grace

Ready == heard < Silence

\* Seeded fault: the stream, when there is one, is not written to.
PathUpDirect == udp

\* relayWrite: the stream if there is one, else a datagram.
PathUp == IF pc = "stream" THEN tcp ELSE udp

NetworkChange ==
    /\ \/ udp' = ~udp /\ tcp' = tcp
       \/ tcp' = ~tcp /\ udp' = udp
    /\ UNCHANGED <<mode, pc, heard, ping, due, ok, unheard>>

\* Client.Handle: a welcome or a keepalive's answer.
Hear ==
    /\ due /\ PathUp
    /\ due' = FALSE
    /\ heard' = 0
    /\ unheard' = IF pc = "wait" THEN 0 ELSE unheard
    /\ UNCHANGED <<network, pc, ping, ok>>

\* Seeded fault: only more than udpRelayGrace is silence.
SilentLate == ok > Grace

\* waitUDPSilent's second condition.
Silent == ok >= Grace

\* A tick passes; an answer that could not come is lost.  Client.Run asks
\* again: a hello while there is no session, a keepalive when it is time.
Tick ==
    /\ ~(due /\ PathUp)
    /\ ~(pc = "wait" /\ Silent)
    /\ heard' = Later(heard, Silence)
    /\ due' = (~Ready \/ ping >= Keepalive)
    /\ ping' = IF Ready /\ ping >= Keepalive THEN 0 ELSE Later(ping, Keepalive)
    /\ ok' = IF pc # "wait" \/ heard' < Silence THEN 0 ELSE Later(ok, Grace + 1)
    /\ unheard' = IF pc = "wait" THEN Later(unheard, Longest + 2) ELSE 0
    /\ UNCHANGED <<network, pc>>

\* waitUDPSilent returns.
GiveUp ==
    /\ pc = "wait" /\ Silent
    /\ pc' = "dial"
    /\ ok' = 0 /\ unheard' = 0
    /\ UNCHANGED <<network, heard, ping, due>>

\* vlessSession: the stream is up and the client says hello over it.
DialWorks ==
    /\ pc = "dial" /\ tcp
    /\ pc' = "stream"
    /\ due' = TRUE
    /\ UNCHANGED <<network, heard, ping, ok, unheard>>

DialFails ==
    /\ pc = "dial" /\ ~tcp
    /\ pc' = "backoff"
    /\ UNCHANGED <<network, heard, ping, due, ok, unheard>>

\* The top of relayTransport's loop: UDP is tried first, unless the
\* configuration says "vless".
Loop == IF mode = "vless" THEN "dial" ELSE "wait"

\* The backoff is over.
Retry ==
    /\ pc = "backoff"
    /\ pc' = Loop
    /\ UNCHANGED <<network, heard, ping, due, ok, unheard>>

\* ReadPacket fails: the stream is gone and frames go out over UDP.
StreamBreaks ==
    /\ pc = "stream" /\ ~tcp
    /\ pc' = Loop
    /\ due' = FALSE
    /\ UNCHANGED <<network, heard, ping, ok, unheard>>

TransportInit ==
    /\ mode \in Modes
    /\ udp \in BOOLEAN /\ tcp \in BOOLEAN
    /\ pc = IF mode = "udp" THEN "off" ELSE Loop
    /\ heard = Silence /\ ping = Keepalive
    /\ due = TRUE
    /\ ok = 0 /\ unheard = 0

TransportNext ==
    \/ NetworkChange \/ Hear \/ Tick
    \/ GiveUp \/ DialWorks \/ DialFails \/ Retry \/ StreamBreaks

TransportSpec == TransportInit /\ [][TransportNext]_transportVars

\* Time passes however fast the network changes, the two goroutines run, and
\* an answer to a request over a path that works arrives.
TransportFairness ==
    /\ WF_transportVars(Hear) /\ SF_transportVars(Tick) /\ WF_transportVars(GiveUp)
    /\ WF_transportVars(DialWorks) /\ WF_transportVars(DialFails)
    /\ WF_transportVars(Retry) /\ WF_transportVars(StreamBreaks)

TransportFairSpec == TransportSpec /\ TransportFairness

------------------------------------------------------------------------------
(* Properties. *)

\* A node in "auto" mode never waits for UDP as long as silenceLimit plus
\* udpRelayGrace without an answer over UDP, whatever it heard through a
\* stream before.
FallbackBounded == unheard < Longest

\* Once one of the paths the node's mode allows stays up, the node has a
\* session with the relay again and again, however both flapped before.
ReachesRelay ==
    \/ mode # "udp" /\ <>[]tcp
    \/ mode = "udp" /\ <>[]udp
    \/ <>[](udp /\ ~tcp)
    => []<>Ready

------------------------------------------------------------------------------
(* The inductive invariant of PathProofs. *)

TransportTypeOK ==
    /\ mode \in Modes /\ udp \in BOOLEAN /\ tcp \in BOOLEAN /\ due \in BOOLEAN
    /\ pc \in {"wait", "dial", "stream", "backoff", "off"}
    /\ heard \in 0 .. Silence /\ ping \in 0 .. Keepalive
    /\ ok \in 0 .. Grace /\ unheard \in Nat

\* While the client is Ready nothing was unheard for longer than it says, and
\* lastOK is now (or will be, right after an answer); afterwards the two
\* clocks run together.
WaitInv ==
    /\ pc # "wait" => ok = 0 /\ unheard = 0
    /\ (pc = "wait" /\ Ready) => unheard <= heard /\ (heard = 0 \/ ok = 0)
    /\ (pc = "wait" /\ ~Ready) => unheard < Silence + ok

TransportInv == TransportTypeOK /\ WaitInv
=============================================================================
