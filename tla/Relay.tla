------------------------------- MODULE Relay -------------------------------
(***************************************************************************)
(* The relay's sessions: internal/relay/server.go and client.go, over a    *)
(* network that loses, duplicates and reorders datagrams, with nodes whose *)
(* outside address changes (a NAT rebinds, a VLESS stream comes up or      *)
(* breaks) and a relay that restarts with no sessions.                     *)
(*                                                                         *)
(* A frame is sealed to its session, a hello to the relay and a welcome to *)
(* the node: a frame stands for its session id, and whoever does not hold  *)
(* that session cannot open it.  A session id is 8 random bytes: a new one *)
(* differs from every id still in use.  Who may send to whom is the module *)
(* RelayPerm; here every pair may.                                         *)
(*                                                                         *)
(* One tick is keepaliveEvery; a datagram that has not arrived by its end  *)
(* is lost.                                                                *)
(***************************************************************************)
EXTENDS Naturals, FiniteSets

CONSTANTS
    Nodes,
    Followed,     \* the nodes whose registration is followed to its end
    Sessions,     \* session ids
    Addrs,        \* outside addresses a node may have, StreamAddr among them
    StreamAddr,   \* the pseudo address of the node's VLESS stream
    NoSession,
    Silence,      \* silenceLimit, in ticks
    Idle,         \* sessionIdle, in ticks
    MaxNet,       \* bound of the model: datagrams under way
    MaxEvents     \* bound: packets sent, changes of address, restarts of the relay

ASSUME RelayAssumption ==
    /\ StreamAddr \in Addrs /\ Addrs # {StreamAddr} /\ Followed \subseteq Nodes
    /\ NoSession \notin Sessions \cup Nodes
    /\ Silence \in Nat \ {0} /\ Idle \in Nat \ {0}
    /\ MaxNet \in Nat /\ MaxEvents \in Nat

VARIABLES
    byID,       \* server: [Sessions -> [node, addr, idle]], Closed where none
    byNode,     \* server: each node's session
    client,     \* each node: [sess, quiet], quiet the ticks since heard
    where,      \* each node's current outside address
    net,        \* datagrams under way
    budget      \* what is left of MaxEvents

server == <<byID, byNode>>
vars == <<byID, byNode, client, where, net, budget>>

Nobody == [node |-> NoSession, addr |-> StreamAddr, idle |-> 0]
Open(s) == byID[s] # Nobody

\* Datagrams, by what they are; send and recv frames name the other node.
HelloMsg(n, a) == [type |-> "hello", node |-> n, sess |-> NoSession, addr |-> a]
WelcomeMsg(n, s, a) == [type |-> "welcome", node |-> n, sess |-> s, addr |-> a]
Frame(type, s, n, a) == [type |-> type, node |-> n, sess |-> s, addr |-> a]

\* A received datagram may be received again; the one it gives rise to, if
\* any, is sent.
Taken(m) == net' \in {net, net \ {m}}
Sent(m) == net' = net \cup {m} /\ Cardinality(net') <= MaxNet
Answered(m, out) ==
    /\ \E rest \in {net, net \ {m}} : net' = rest \cup {out}
    /\ Cardinality(net') <= MaxNet

InUse ==
    {s \in Sessions : Open(s)} \cup {client[n].sess : n \in Nodes} \cup {m.sess : m \in net}

------------------------------------------------------------------------------
(* The client. *)

\* Run registers when there is no session or the relay fell silent.
WantsHello(n) == client[n].sess = NoSession \/ client[n].quiet >= Silence

Hello(n) ==
    /\ WantsHello(n)
    /\ Sent(HelloMsg(n, where[n]))
    /\ UNCHANGED <<server, client, where, budget>>

\* ... and keeps the session alive otherwise.
Ping(n) ==
    /\ ~WantsHello(n)
    /\ Sent(Frame("ping", client[n].sess, n, where[n]))
    /\ UNCHANGED <<server, client, where, budget>>

\* Client.Send: any session will do, the relay's answer is not awaited.
Send(n, d) ==
    /\ client[n].sess # NoSession /\ budget > 0
    /\ Sent(Frame("send", client[n].sess, d, where[n]))
    /\ budget' = budget - 1
    /\ UNCHANGED <<server, client, where>>

\* Handle: a welcome replaces whatever session there was.
TakeWelcome(n, m) ==
    /\ m \in net /\ m.type = "welcome" /\ m.node = n /\ m.addr = where[n]
    /\ client' = [client EXCEPT ![n] = [sess |-> m.sess, quiet |-> 0]]
    /\ Taken(m)
    /\ UNCHANGED <<server, where, budget>>

\* Handle: a frame of the session is proof that the relay is there.
TakeFrame(n, m) ==
    /\ m \in net /\ m.type \in {"pong", "recv"} /\ m.addr = where[n]
    /\ m.sess = client[n].sess
    /\ client' = [client EXCEPT ![n].quiet = 0]
    /\ Taken(m)
    /\ UNCHANGED <<server, where, budget>>

\* The NAT gives the node another address, or its VLESS stream broke and
\* frames go out over UDP again.
Move(n, a) ==
    /\ budget > 0 /\ a # where[n] /\ a # StreamAddr
    /\ where' = [where EXCEPT ![n] = a]
    /\ budget' = budget - 1
    /\ UNCHANGED <<server, client, net>>

\* vlessSession: the stream is up, and the client registers over it at once.
StreamUp(n) ==
    /\ budget > 0 /\ where[n] # StreamAddr
    /\ where' = [where EXCEPT ![n] = StreamAddr]
    /\ Sent(HelloMsg(n, StreamAddr))
    /\ budget' = budget - 1
    /\ UNCHANGED <<server, client>>

------------------------------------------------------------------------------
(* The server. *)

\* Seeded fault: the session a new one replaces stays open.
ReplacedKept(n, s, a) ==
    [byID EXCEPT ![s] = [node |-> n, addr |-> a, idle |-> 0]]

\* The new session takes the place of the node's old one.
Replaced(n, s, a) ==
    [x \in Sessions |->
        IF x = s THEN [node |-> n, addr |-> a, idle |-> 0]
        ELSE IF x = byNode[n] THEN Nobody ELSE byID[x]]

\* Server.hello: every hello gets a session of its own, duplicates too.
Register(m, s) ==
    /\ m \in net /\ m.type = "hello" /\ s \notin InUse
    /\ s = CHOOSE x \in Sessions : x \notin InUse    \* which one makes no difference
    /\ byID' = Replaced(m.node, s, m.addr)
    /\ byNode' = [byNode EXCEPT ![m.node] = s]
    /\ Answered(m, WelcomeMsg(m.node, s, m.addr))
    /\ UNCHANGED <<client, where, budget>>

\* Seeded fault: the address of the hello is kept for the session's life.
HeardFromFixed(m) == [byID EXCEPT ![m.sess].idle = 0]

\* The session follows the address its frames come from.
HeardFrom(m) ==
    [byID EXCEPT ![m.sess] = [node |-> @.node, addr |-> m.addr, idle |-> 0]]

\* Server.Handle of a keepalive; a frame of no open session is dropped.
AnswerPing(m) ==
    /\ m \in net /\ m.type = "ping" /\ Open(m.sess)
    /\ byID' = HeardFrom(m)
    /\ Answered(m, Frame("pong", m.sess, m.node, m.addr))
    /\ UNCHANGED <<byNode, client, where, budget>>

\* Server.Handle of a SEND frame: on to the destination's session, if any.
Forward(m) ==
    /\ m \in net /\ m.type = "send" /\ Open(m.sess)
    /\ byID' = HeardFrom(m)
    /\ LET d == byNode[m.node] IN
       IF d = NoSession THEN Taken(m)
       ELSE Answered(m, Frame("recv", d, byID[m.sess].node, byID'[d].addr))
    /\ UNCHANGED <<byNode, client, where, budget>>

\* expireLoop.
Expire ==
    LET dead == {s \in Sessions : Open(s) /\ byID[s].idle >= Idle} IN
    /\ dead # {}
    /\ byID' = [s \in Sessions |-> IF s \in dead THEN Nobody ELSE byID[s]]
    /\ byNode' = [n \in Nodes |-> IF byNode[n] \in dead THEN NoSession ELSE byNode[n]]
    /\ UNCHANGED <<client, where, net, budget>>

\* The relay starts again.
Restart ==
    /\ budget > 0
    /\ byID' = [s \in Sessions |-> Nobody]
    /\ byNode' = [n \in Nodes |-> NoSession]
    /\ budget' = budget - 1
    /\ UNCHANGED <<client, where, net>>

------------------------------------------------------------------------------
(* The network and time. *)

Older(x, limit) == IF x < limit THEN x + 1 ELSE x

Tick ==
    /\ net' = {}
    /\ client' = [n \in Nodes |-> [client[n] EXCEPT !.quiet = Older(@, Silence)]]
    /\ byID' = [s \in Sessions |->
            IF Open(s) THEN [byID[s] EXCEPT !.idle = Older(@, Idle)] ELSE Nobody]
    /\ UNCHANGED <<byNode, where, budget>>

------------------------------------------------------------------------------
Init ==
    /\ byID = [s \in Sessions |-> Nobody]
    /\ byNode = [n \in Nodes |-> NoSession]
    /\ client = [n \in Nodes |-> [sess |-> NoSession, quiet |-> 0]]
    /\ where = [n \in Nodes |-> CHOOSE a \in Addrs : a # StreamAddr]
    /\ net = {}
    /\ budget = MaxEvents

ClientStep(n) ==
    \/ Hello(n) \/ Ping(n) \/ StreamUp(n)
    \/ \E d \in Nodes \ {n} : Send(n, d)
    \/ \E a \in Addrs : Move(n, a)
    \/ \E m \in net : TakeWelcome(n, m) \/ TakeFrame(n, m)

Next ==
    \/ \E n \in Nodes : ClientStep(n)
    \/ \E m \in net, s \in Sessions : Register(m, s)
    \/ \E m \in net : AnswerPing(m) \/ Forward(m)
    \/ Expire
    \/ Restart
    \/ Tick

Spec == Init /\ [][Next]_vars

\* The clock, expireLoop and the client's loop run; a datagram of the client
\* finds room in the bounded network again and again; a hello gets through
\* now and then, and so do the welcome of the latest session and a keepalive.
Fairness ==
    /\ WF_vars(Tick) /\ WF_vars(Expire)
    /\ \A n \in Followed :
        /\ SF_vars(Hello(n) \/ Ping(n))
        /\ SF_vars(\E s \in Sessions : Register(HelloMsg(n, where[n]), s))
        /\ SF_vars(TakeWelcome(n, WelcomeMsg(n, byNode[n], where[n])))
        /\ SF_vars(AnswerPing(Frame("ping", client[n].sess, n, where[n])))

FairSpec == Spec /\ Fairness

------------------------------------------------------------------------------
(* Properties. *)

Msgs ==
    [type : {"hello", "welcome", "ping", "pong", "send", "recv"}, node : Nodes,
     sess : Sessions \cup {NoSession}, addr : Addrs]

\* The shape of the state; only a hello belongs to no session.
RelayTypeOK ==
    /\ byID \in [Sessions -> [node : Nodes \cup {NoSession}, addr : Addrs, idle : 0 .. Idle]]
    /\ byNode \in [Nodes -> Sessions \cup {NoSession}]
    /\ client \in [Nodes -> [sess : Sessions \cup {NoSession}, quiet : 0 .. Silence]]
    /\ where \in [Nodes -> Addrs]
    /\ net \subseteq Msgs
    /\ \A m \in net : m.sess = NoSession <=> m.type = "hello"

\* The server's two indexes agree: the sessions that are open are exactly the
\* ones the nodes have, each of its own node, through duplicated hellos,
\* expiry and restarts.  Otherwise a replaced session would go on sending in
\* the node's name, or a node would be reachable by no session.
OneSession ==
    /\ \A s \in Sessions : Open(s) => byNode[byID[s].node] = s
    /\ \A n \in Nodes : byNode[n] # NoSession => byID[byNode[n]].node = n

\* Why: an entry is a node's session or empty, and the types hold.
OpenOwned == \A s \in Sessions : byID[s].node = NoSession => byID[s] = Nobody
RelayInv == RelayTypeOK /\ OneSession /\ OpenOwned

\* The relay reaches the node: its session is the server's, at its address.
Registered(n) ==
    /\ client[n].sess # NoSession
    /\ byNode[n] = client[n].sess
    /\ byID[client[n].sess].addr = where[n]

\* A node that lost its session (lost welcome, restart, expiry, another
\* address) gets one again, every time.
Registers == \A n \in Followed : []<>Registered(n)
=============================================================================
