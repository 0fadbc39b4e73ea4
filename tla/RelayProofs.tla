----------------------------- MODULE RelayProofs -----------------------------
(***************************************************************************)
(* The relay server, for any number of nodes, sessions, datagrams and      *)
(* goroutines: its two indexes agree, and its cached permissions are at    *)
(* most a minute old.  The inductive invariants are RelayInv (the types,   *)
(* the agreement itself, and that an entry without a node is empty) and    *)
(* PermInv (an answer, in the cache or on its way there, is never younger  *)
(* than the state it tells of).                                            *)
(***************************************************************************)
EXTENDS Relay, RelayPerm, TLAPS

------------------------------------------------------------------------------
(* Sessions. *)

Entry == [node : Nodes \cup {NoSession}, addr : Addrs, idle : 0 .. Idle]
NetOK(ms) ==
    ms \subseteq Msgs /\ \A m \in ms : m.sess = NoSession <=> m.type = "hello"

\* The parts of the type invariant that the steps below deal with one by one.
LEMMA TypeParts ==
    RelayTypeOK <=>
        /\ byID \in [Sessions -> Entry]
        /\ byNode \in [Nodes -> Sessions \cup {NoSession}]
        /\ client \in [Nodes -> [sess : Sessions \cup {NoSession}, quiet : 0 .. Silence]]
        /\ where \in [Nodes -> Addrs]
        /\ NetOK(net)
BY DEF RelayTypeOK, Entry, NetOK

\* The node of an open session is a node, and has that session.
LEMMA OpenFacts ==
    ASSUME RelayInv, NEW s \in Sessions, Open(s)
    PROVE  byID[s].node \in Nodes /\ byNode[byID[s].node] = s
BY RelayAssumption DEF RelayInv, RelayTypeOK, OpenOwned, OneSession, Open

\* The empty entry is an entry.
LEMMA NobodyEntry == Nobody \in Entry
BY RelayAssumption DEF Nobody, Entry

\* Ages stay within their limit.
LEMMA OlderBound ==
    ASSUME NEW limit \in Nat, NEW x \in 0 .. limit
    PROVE  Older(x, limit) \in 0 .. limit
BY DEF Older

\* The network stays well formed when one datagram goes and another comes.
LEMMA NetSteps ==
    ASSUME NetOK(net), NEW m, NEW out \in Msgs, out.sess = NoSession <=> out.type = "hello"
    PROVE  Answered(m, out) => NetOK(net')
BY DEF NetOK, Answered

\* A datagram that is sent is well formed like the others.
LEMMA SentStep ==
    ASSUME NetOK(net), NEW out \in Msgs, out.sess = NoSession <=> out.type = "hello", Sent(out)
    PROVE  NetOK(net')
BY DEF NetOK, Sent

\* A datagram taken away leaves the network well formed.
LEMMA TakenStep ==
    ASSUME NetOK(net), NEW m, Taken(m)
    PROVE  NetOK(net')
BY DEF NetOK, Taken

\* A hello belongs to no session.
LEMMA HelloFacts ==
    ASSUME NEW n \in Nodes, NEW a \in Addrs
    PROVE  /\ HelloMsg(n, a) \in Msgs /\ HelloMsg(n, a).sess = NoSession
           /\ HelloMsg(n, a).type = "hello"
BY DEF HelloMsg, Msgs

\* Welcomes and frames belong to a session.
LEMMA MsgFacts ==
    ASSUME NEW n \in Nodes, NEW a \in Addrs, NEW s \in Sessions
    PROVE  /\ WelcomeMsg(n, s, a) \in Msgs /\ WelcomeMsg(n, s, a).sess # NoSession
           /\ WelcomeMsg(n, s, a).type # "hello"
           /\ \A t \in {"ping", "pong", "send", "recv"} :
                 /\ Frame(t, s, n, a) \in Msgs /\ Frame(t, s, n, a).sess # NoSession
                 /\ Frame(t, s, n, a).type # "hello"
BY RelayAssumption DEF WelcomeMsg, Frame, Msgs

\* At the start there are no sessions.
LEMMA RelayInitially == Init => RelayInv
<1> SUFFICES ASSUME Init PROVE RelayInv
    OBVIOUS
<1>1. RelayTypeOK
    BY RelayAssumption, NobodyEntry, TypeParts DEF Init, NetOK
<1>2. OneSession /\ OpenOwned
    BY DEF Init, OneSession, OpenOwned, Open
<1> QED BY <1>1, <1>2 DEF RelayInv

\* Steps of a client leave the server alone.
LEMMA ClientSteps ==
    ASSUME RelayInv, NEW n \in Nodes, ClientStep(n)
    PROVE  RelayInv'
<1>0. /\ byID \in [Sessions -> Entry]
      /\ byNode \in [Nodes -> Sessions \cup {NoSession}]
      /\ client \in [Nodes -> [sess : Sessions \cup {NoSession}, quiet : 0 .. Silence]]
      /\ where \in [Nodes -> Addrs]
      /\ NetOK(net)
    BY TypeParts DEF RelayInv
<1>1. ASSUME UNCHANGED server, NetOK(net'), where' \in [Nodes -> Addrs],
             client' \in [Nodes -> [sess : Sessions \cup {NoSession}, quiet : 0 .. Silence]]
      PROVE  RelayInv'
    BY <1>0, <1>1
       DEF RelayInv, RelayTypeOK, OneSession, OpenOwned, Open, server, Entry, NetOK
<1>2. CASE Hello(n)
    BY <1>0, <1>1, <1>2, SentStep, HelloFacts DEF Hello
<1>3. CASE Ping(n)
    <2>1. client[n].sess \in Sessions /\ where[n] \in Addrs
        BY <1>0, <1>3 DEF Ping, WantsHello
    <2> QED BY <1>0, <1>1, <1>3, <2>1, SentStep, MsgFacts DEF Ping
<1>4. CASE StreamUp(n)
    <2>1. NetOK(net')
        BY <1>0, <1>4, SentStep, HelloFacts, RelayAssumption DEF StreamUp
    <2> QED BY <1>0, <1>1, <1>4, <2>1, RelayAssumption DEF StreamUp
<1>5. CASE \E d \in Nodes \ {n} : Send(n, d)
    <2> PICK d \in Nodes \ {n} : Send(n, d)
        BY <1>5
    <2>1. client[n].sess \in Sessions /\ where[n] \in Addrs
        BY <1>0 DEF Send
    <2>2. NetOK(net')
        BY <1>0, <2>1, SentStep, MsgFacts DEF Send
    <2> QED BY <1>0, <1>1, <2>2 DEF Send
<1>6. CASE \E a \in Addrs : Move(n, a)
    BY <1>0, <1>1, <1>6 DEF Move
<1>7. CASE \E m \in net : TakeWelcome(n, m)
    <2> PICK m \in net : TakeWelcome(n, m)
        BY <1>7
    <2>1. m.sess \in Sessions \cup {NoSession}
        BY <1>0 DEF NetOK, Msgs
    <2>2. NetOK(net')
        BY <1>0, TakenStep DEF TakeWelcome
    <2> QED BY <1>0, <1>1, <2>1, <2>2, RelayAssumption DEF TakeWelcome
<1>8. CASE \E m \in net : TakeFrame(n, m)
    <2> PICK m \in net : TakeFrame(n, m)
        BY <1>8
    <2>1. NetOK(net')
        BY <1>0, TakenStep DEF TakeFrame
    <2> QED BY <1>0, <1>1, <2>1, RelayAssumption DEF TakeFrame
<1> QED BY <1>2, <1>3, <1>4, <1>5, <1>6, <1>7, <1>8 DEF ClientStep

\* A hello replaces the node's session in both indexes.
LEMMA RegisterStep ==
    ASSUME RelayInv, NEW m \in net, NEW s \in Sessions, Register(m, s)
    PROVE  RelayInv'
<1> DEFINE n == m.node
           e == [node |-> n, addr |-> m.addr, idle |-> 0]
<1>0. /\ byID \in [Sessions -> Entry]
      /\ byNode \in [Nodes -> Sessions \cup {NoSession}]
      /\ NetOK(net)
    BY TypeParts DEF RelayInv
<1>1. n \in Nodes /\ m.addr \in Addrs /\ n # NoSession
    BY <1>0, RelayAssumption DEF NetOK, Msgs
<1>2. e \in Entry /\ e # Nobody
    BY <1>1, RelayAssumption DEF Entry, Nobody
<1>3. ~Open(s)
    BY DEF Register, InUse
<1>4. \A x \in Sessions :
          byID'[x] = IF x = s THEN e ELSE IF x = byNode[n] THEN Nobody ELSE byID[x]
    BY DEF Register, Replaced
<1>5. byID' \in [Sessions -> Entry]
    BY <1>0, <1>2, NobodyEntry DEF Register, Replaced
<1>6. \A k \in Nodes : byNode'[k] = IF k = n THEN s ELSE byNode[k]
    BY <1>0 DEF Register
<1>7. NetOK(net')
    BY <1>0, <1>1, NetSteps, MsgFacts DEF Register
<1>8. RelayTypeOK'
    BY <1>0, <1>5, <1>7 DEF RelayInv, RelayTypeOK, Register, Entry, NetOK
<1>9. OneSession'
    <2>1. ASSUME NEW x \in Sessions, byID'[x] # Nobody
          PROVE  byNode'[byID'[x].node] = x
        <3>1. CASE x = s
            BY <1>1, <1>4, <1>6, <3>1
        <3>2. CASE x # s
            <4>1. byID'[x] = byID[x] /\ x # byNode[n] /\ Open(x)
                BY <1>4, <2>1, <3>2 DEF Open
            <4>2. byID[x].node \in Nodes /\ byNode[byID[x].node] = x
                BY <4>1, OpenFacts
            <4>3. byID[x].node # n
                BY <4>1, <4>2
            <4> QED BY <1>6, <4>1, <4>2, <4>3
        <3> QED BY <3>1, <3>2
    <2>2. ASSUME NEW k \in Nodes, byNode'[k] # NoSession
          PROVE  byID'[byNode'[k]].node = k
        <3>1. CASE k = n
            BY <1>4, <1>6, <3>1
        <3>2. CASE k # n
            <4>1. byNode'[k] = byNode[k] /\ byNode[k] \in Sessions /\ byID[byNode[k]].node = k
                BY <1>0, <1>6, <2>2, <3>2 DEF RelayInv, OneSession
            <4>2. byNode[k] # s
                BY <1>3, <4>1, RelayAssumption DEF Open, Nobody
            <4>3. byNode[k] # byNode[n]
                BY <1>1, <2>2, <3>2, <4>1 DEF RelayInv, OneSession
            <4> QED BY <1>4, <4>1, <4>2, <4>3
        <3> QED BY <3>1, <3>2
    <2> QED BY <2>1, <2>2 DEF OneSession, Open
<1>10. OpenOwned'
    BY <1>1, <1>4 DEF RelayInv, OpenOwned
<1> QED BY <1>8, <1>9, <1>10 DEF RelayInv

\* A frame of an open session changes that session's address and age only.
LEMMA HeardStep ==
    ASSUME RelayInv, NEW m \in net, Open(m.sess), m.type # "hello", byID' = HeardFrom(m),
           UNCHANGED <<byNode, client, where>>, NetOK(net')
    PROVE  RelayInv'
<1>0. /\ byID \in [Sessions -> Entry]
      /\ m.sess \in Sessions /\ m.addr \in Addrs
    BY TypeParts DEF RelayInv, NetOK, Msgs
<1>1. \A x \in Sessions : byID'[x] =
          IF x = m.sess THEN [node |-> byID[x].node, addr |-> m.addr, idle |-> 0] ELSE byID[x]
    BY <1>0 DEF HeardFrom
<1>2. \A x \in Sessions :
          byID'[x] \in Entry /\ byID'[x].node = byID[x].node /\ (x # m.sess => byID'[x] = byID[x])
    <2> TAKE x \in Sessions
    <2>1. byID[x] \in Entry
        BY <1>0
    <2>2. CASE x = m.sess
        <3>1. byID'[x] = [node |-> byID[x].node, addr |-> m.addr, idle |-> 0]
            BY <1>1, <2>2
        <3> QED BY <1>0, <2>1, <2>2, <3>1, RelayAssumption DEF Entry
    <2>3. CASE x # m.sess
        BY <1>1, <2>1, <2>3
    <2> QED BY <2>2, <2>3
<1>3. byID' \in [Sessions -> Entry]
    BY <1>0, <1>2 DEF HeardFrom
<1>4. byID[m.sess].node \in Nodes
    BY <1>0, OpenFacts
<1>5. RelayTypeOK'
    BY <1>3 DEF RelayInv, RelayTypeOK, Entry, NetOK
<1>6. OpenOwned'
    BY <1>2, <1>4, RelayAssumption DEF RelayInv, OpenOwned
<1>7. OneSession'
    <2>1. ASSUME NEW x \in Sessions, byID'[x] # Nobody
          PROVE  Open(x)
        BY <1>2, <2>1 DEF Open
    <2>2. \A k \in Nodes : byNode[k] # NoSession => byNode[k] \in Sessions
        BY DEF RelayInv, RelayTypeOK
    <2> QED BY <1>2, <2>1, <2>2 DEF RelayInv, OneSession, Open
<1> QED BY <1>5, <1>6, <1>7 DEF RelayInv

\* A keepalive or a SEND frame, whether or not the destination has a session.
LEMMA FrameStep ==
    ASSUME RelayInv, NEW m \in net, AnswerPing(m) \/ Forward(m)
    PROVE  RelayInv'
<1>0. /\ byID \in [Sessions -> Entry]
      /\ byNode \in [Nodes -> Sessions \cup {NoSession}]
      /\ NetOK(net)
    BY TypeParts DEF RelayInv
<1>1. m.node \in Nodes /\ m.addr \in Addrs /\ m.type # "hello" /\ m.sess \in Sessions
    BY <1>0 DEF AnswerPing, Forward, NetOK, Msgs
<1>2. CASE AnswerPing(m)
    BY <1>0, <1>1, <1>2, HeardStep, NetSteps, MsgFacts DEF AnswerPing
<1>3. CASE Forward(m)
    <2> DEFINE d == byNode[m.node]
    <2>1. byID[m.sess].node \in Nodes
        BY <1>1, <1>3, OpenFacts DEF Forward
    <2>2. CASE d = NoSession
        BY <1>0, <1>1, <1>3, <2>2, HeardStep, TakenStep DEF Forward
    <2>3. CASE d # NoSession
        <3>1. d \in Sessions
            BY <1>0, <1>1, <2>3
        <3>2. byID'[d].addr \in Addrs
            BY <1>0, <1>1, <1>3, <3>1 DEF Forward, HeardFrom, Entry
        <3>3. NetOK(net')
            BY <1>0, <1>3, <2>1, <2>3, <3>1, <3>2, NetSteps, MsgFacts DEF Forward
        <3> QED BY <1>1, <1>3, <3>3, HeardStep DEF Forward
    <2> QED BY <2>2, <2>3
<1> QED BY <1>2, <1>3

\* expireLoop deletes a session from both indexes.
LEMMA ExpireStep == RelayInv /\ Expire => RelayInv'
<1> SUFFICES ASSUME RelayInv, Expire PROVE RelayInv'
    OBVIOUS
<1> DEFINE dead == {s \in Sessions : Open(s) /\ byID[s].idle >= Idle}
<1>0. /\ byID \in [Sessions -> Entry]
      /\ byNode \in [Nodes -> Sessions \cup {NoSession}]
    BY TypeParts DEF RelayInv
<1>1. /\ byID' = [s \in Sessions |-> IF s \in dead THEN Nobody ELSE byID[s]]
      /\ byNode' = [n \in Nodes |-> IF byNode[n] \in dead THEN NoSession ELSE byNode[n]]
      /\ UNCHANGED <<client, where, net>>
    BY DEF Expire
<1>2. \A n \in Nodes : byNode[n] \in dead => byNode[n] # NoSession
    BY RelayAssumption
<1>3. byID' \in [Sessions -> Entry] /\ byNode' \in [Nodes -> Sessions \cup {NoSession}]
    BY <1>0, <1>1, NobodyEntry
<1>4. RelayTypeOK'
    BY <1>1, <1>3 DEF RelayInv, RelayTypeOK, Entry
<1>5. OpenOwned'
    BY <1>1 DEF RelayInv, OpenOwned
<1>6. OneSession'
    <2>1. ASSUME NEW x \in Sessions, byID'[x] # Nobody
          PROVE  byNode'[byID'[x].node] = x
        <3>1. x \notin dead /\ byID'[x] = byID[x] /\ Open(x)
            BY <1>1, <2>1 DEF Open
        <3>2. byID[x].node \in Nodes /\ byNode[byID[x].node] = x
            BY <3>1, OpenFacts
        <3> QED BY <1>1, <3>1, <3>2
    <2>2. ASSUME NEW k \in Nodes, byNode'[k] # NoSession
          PROVE  byID'[byNode'[k]].node = k
        <3>1. byNode'[k] = byNode[k] /\ byNode[k] \notin dead /\ byNode[k] \in Sessions
            BY <1>0, <1>1, <2>2
        <3> QED BY <1>1, <2>2, <3>1 DEF RelayInv, OneSession
    <2> QED BY <2>1, <2>2 DEF OneSession, Open
<1> QED BY <1>4, <1>5, <1>6 DEF RelayInv

\* Time passes: datagrams are lost and ages grow.
LEMMA TickStep == RelayInv /\ Tick => RelayInv'
<1> SUFFICES ASSUME RelayInv, Tick PROVE RelayInv'
    OBVIOUS
<1>0. /\ byID \in [Sessions -> Entry]
      /\ byNode \in [Nodes -> Sessions \cup {NoSession}]
      /\ client \in [Nodes -> [sess : Sessions \cup {NoSession}, quiet : 0 .. Silence]]
      /\ Idle \in Nat /\ Silence \in Nat
    BY TypeParts, RelayAssumption DEF RelayInv
<1>1. \A s \in Sessions :
          /\ byID'[s] \in Entry
          /\ byID'[s].node = byID[s].node
          /\ ~Open(s) => byID'[s] = Nobody
          /\ Open(s) => byID[s].node \in Nodes
    <2> TAKE s \in Sessions
    <2>1. byID[s] \in Entry /\ byID[s].idle \in 0 .. Idle
        BY <1>0 DEF Entry
    <2>2. CASE Open(s)
        <3>1. byID'[s] = [byID[s] EXCEPT !.idle = Older(byID[s].idle, Idle)]
            BY <2>2 DEF Tick
        <3>2. Older(byID[s].idle, Idle) \in 0 .. Idle
            BY <1>0, <2>1, OlderBound
        <3> QED BY <2>1, <2>2, <3>1, <3>2, OpenFacts DEF Entry
    <2>3. CASE ~Open(s)
        BY <2>3, NobodyEntry DEF Tick, Open
    <2> QED BY <2>2, <2>3
<1>2. byID' \in [Sessions -> Entry]
    BY <1>1 DEF Tick
<1>3. client' \in [Nodes -> [sess : Sessions \cup {NoSession}, quiet : 0 .. Silence]]
    BY <1>0, OlderBound DEF Tick
<1>4. RelayTypeOK'
    BY <1>2, <1>3 DEF RelayInv, RelayTypeOK, Tick, Entry
<1>5. OpenOwned'
    BY <1>1, RelayAssumption DEF RelayInv, OpenOwned
<1>6. OneSession'
    <2>1. \A k \in Nodes : byNode[k] # NoSession => byNode[k] \in Sessions
        BY <1>0
    <2> QED BY <1>1, <2>1 DEF RelayInv, OneSession, Open, Tick
<1> QED BY <1>4, <1>5, <1>6 DEF RelayInv

\* The relay starts with empty indexes.
LEMMA RestartStep == RelayInv /\ Restart => RelayInv'
<1> SUFFICES ASSUME RelayInv, Restart PROVE RelayInv'
    OBVIOUS
<1>1. byID' \in [Sessions -> Entry]
    BY NobodyEntry DEF Restart
<1>2. RelayTypeOK'
    BY <1>1 DEF RelayInv, RelayTypeOK, Restart, Entry
<1>3. OneSession' /\ OpenOwned'
    BY DEF Restart, OneSession, OpenOwned, Open
<1> QED BY <1>2, <1>3 DEF RelayInv

\* RelayInv is inductive.
LEMMA RelayStep == RelayInv /\ [Next]_vars => RelayInv'
<1> SUFFICES ASSUME RelayInv, [Next]_vars PROVE RelayInv'
    OBVIOUS
<1>1. CASE \E n \in Nodes : ClientStep(n)
    BY <1>1, ClientSteps
<1>2. CASE \E m \in net, s \in Sessions : Register(m, s)
    BY <1>2, RegisterStep
<1>3. CASE \E m \in net : AnswerPing(m) \/ Forward(m)
    BY <1>3, FrameStep
<1>4. CASE Expire
    BY <1>4, ExpireStep
<1>5. CASE Restart
    BY <1>5, RestartStep
<1>6. CASE Tick
    BY <1>6, TickStep
<1>7. CASE UNCHANGED vars
    BY <1>7 DEF vars, RelayInv, RelayTypeOK, OneSession, OpenOwned, Open
<1> QED BY <1>1, <1>2, <1>3, <1>4, <1>5, <1>6, <1>7 DEF Next

\* RelayInv holds of every reachable state.
THEOREM RelayInvariant == Spec => []RelayInv
<1> QED BY RelayInitially, RelayStep, PTL DEF Spec

\* The server's and the clients' state keeps its types, for any number of
\* nodes, sessions and datagrams on their way.
THEOREM SessionsTyped == Spec => []RelayTypeOK
<1>1. RelayInv => RelayTypeOK
    BY DEF RelayInv
<1> QED BY RelayInvariant, <1>1, PTL

\* The server's byID and byNode agree at all times: a node has one open
\* session at most, the last one it registered, and no session outlives it.
THEOREM SessionsAgree == Spec => []OneSession
<1>1. RelayInv => OneSession
    BY DEF RelayInv
<1> QED BY RelayInvariant, <1>1, PTL

------------------------------------------------------------------------------
(* Permissions. *)

\* An age only grows, and not past Keep.
LEMMA AgedFacts ==
    ASSUME NEW x \in 0 .. Keep
    PROVE  Aged(x) \in 0 .. Keep /\ x <= Aged(x)
BY PermAssumption DEF Aged

\* Two ages keep their order when both grow.
LEMMA AgedMonotone ==
    ASSUME NEW x \in 0 .. Keep, NEW y \in 0 .. Keep, x <= y
    PROVE  Aged(x) <= Aged(y)
BY PermAssumption DEF Aged

\* At the start nothing is cached and nothing asked.
LEMMA PermInitially == PermInit => PermInv
BY PermAssumption DEF PermInit, PermInv, PermTypeOK, AgeInv, AnswersFresh, NoAnswer, Waiting, Pcs

\* The rooms change while answers are under way.
LEMMA ChangeStep == PermInv /\ Change => PermInv'
<1> SUFFICES ASSUME PermInv, Change PROVE PermInv'
    OBVIOUS
<1>1. gap' \in [BOOLEAN -> 0 .. Keep] /\ gap'[~share] = 0 /\ gap'[share] = gap[share]
    BY PermAssumption DEF PermInv, PermTypeOK, Change
<1>2. \A b \in BOOLEAN : gap'[b] <= gap[b]
    <2> TAKE b \in BOOLEAN
    <2>1. gap[b] \in 0 .. Keep
        BY DEF PermInv, PermTypeOK
    <2>2. CASE b = share
        BY <1>1, <2>1, <2>2
    <2>3. CASE b = ~share
        BY <1>1, <2>1, <2>3
    <2> QED BY <2>2, <2>3 DEF PermInv, PermTypeOK
<1>3. PermTypeOK'
    BY <1>1 DEF PermInv, PermTypeOK, Change
<1>4. AgeInv'
    <2>1. cache.known => gap'[cache.ok] <= cache.age
        BY <1>1, <1>2 DEF PermInv, PermTypeOK, AgeInv
    <2>2. \A h \in Handlers :
              handler[h].pc = "store" => gap'[handler[h].ok] <= handler[h].age
        BY <1>1, <1>2 DEF PermInv, PermTypeOK, AgeInv
    <2> QED BY <2>1, <2>2 DEF AgeInv, Change
<1>5. AnswersFresh'
    BY <1>1, <1>2, PermAssumption DEF PermInv, PermTypeOK, AnswersFresh, Change
<1> QED BY <1>3, <1>4, <1>5 DEF PermInv

\* A goroutine's steps: a hit uses an answer younger than Keep, a miss asks,
\* and what is stored carries the time taken before the question.
LEMMA HandlerStep ==
    ASSUME NEW h \in Handlers, PermInv, Look(h) \/ Ask(h) \/ Store(h) \/ Done(h)
    PROVE  PermInv'
<1> DEFINE Answer == [pc : Pcs, ok : BOOLEAN, age : 0 .. Keep]
<1>0. /\ gap \in [BOOLEAN -> 0 .. Keep] /\ gap[share] = 0 /\ share \in BOOLEAN
      /\ cache.age \in 0 .. Keep /\ cache.ok \in BOOLEAN
      /\ handler \in [Handlers -> Answer]
    BY DEF PermInv, PermTypeOK
\* What is left to show of a step that gives h the answer a and the cache c.
<1>1. ASSUME NEW a \in Answer,
             handler' = [handler EXCEPT ![h] = a],
             UNCHANGED <<share, gap>>,
             cache' \in [known : BOOLEAN, ok : BOOLEAN, age : 0 .. Keep],
             cache'.known => gap[cache'.ok] <= cache'.age,
             a.pc = "idle" => a = Waiting,
             a.pc = "store" => gap[a.ok] <= a.age,
             (a.pc = "decided" /\ a.age = 0) => gap[a.ok] < Keep
      PROVE  PermInv'
    <2>1. \A x \in Handlers : handler'[x] = IF x = h THEN a ELSE handler[x]
        BY <1>0, <1>1
    <2>2. handler' \in [Handlers -> Answer]
        BY <1>0, <1>1
    <2>3. PermTypeOK'
        BY <1>1, <2>1, <2>2 DEF PermInv, PermTypeOK
    <2>4. AgeInv'
        BY <1>1, <2>1 DEF PermInv, AgeInv
    <2>5. AnswersFresh'
        BY <1>1, <2>1 DEF PermInv, AnswersFresh
    <2> QED BY <2>3, <2>4, <2>5 DEF PermInv
<1>2. CASE Look(h)
    <2>1. CASE Hit
        <3> DEFINE a == [pc |-> "decided", ok |-> cache.ok, age |-> 0]
        <3>1. a \in Answer
            BY <1>0, PermAssumption DEF Pcs
        <3>2. gap[cache.ok] < Keep
            BY <1>0, <2>1, PermAssumption DEF PermInv, AgeInv, Hit
        <3>3. handler' = [handler EXCEPT ![h] = a] /\ UNCHANGED <<share, gap, cache>>
            BY <1>2, <2>1 DEF Look
        <3> QED BY <1>1, <3>1, <3>2, <3>3 DEF PermInv, PermTypeOK, AgeInv
    <2>2. CASE ~Hit
        <3> DEFINE a == [pc |-> "ask", ok |-> FALSE, age |-> 0]
        <3>1. a \in Answer
            BY PermAssumption DEF Pcs
        <3>2. handler' = [handler EXCEPT ![h] = a] /\ UNCHANGED <<share, gap, cache>>
            BY <1>2, <2>2 DEF Look
        <3> QED BY <1>1, <3>1, <3>2 DEF PermInv, PermTypeOK, AgeInv
    <2> QED BY <2>1, <2>2
<1>3. CASE Ask(h)
    <2> DEFINE a == [pc |-> "store", ok |-> share, age |-> handler[h].age]
    <2>1. a \in Answer /\ gap[share] <= handler[h].age
        BY <1>0 DEF Pcs
    <2>2. handler' = [handler EXCEPT ![h] = a] /\ UNCHANGED <<share, gap, cache>>
        BY <1>3 DEF Ask
    <2> QED BY <1>1, <2>1, <2>2 DEF PermInv, PermTypeOK, AgeInv
<1>4. CASE Store(h)
    <2> DEFINE a == [pc |-> "decided", ok |-> handler[h].ok, age |-> handler[h].age]
               c == [known |-> TRUE, ok |-> handler[h].ok, age |-> handler[h].age]
    <2>1. a \in Answer /\ c \in [known : BOOLEAN, ok : BOOLEAN, age : 0 .. Keep]
        BY <1>0 DEF Pcs
    <2>2. gap[handler[h].ok] <= handler[h].age
        BY <1>4 DEF Store, PermInv, AgeInv
    <2>3. handler[h].age = 0 => gap[handler[h].ok] < Keep
        BY <1>0, <2>2, PermAssumption
    <2>4. handler' = [handler EXCEPT ![h] = a] /\ cache' = c /\ UNCHANGED <<share, gap>>
        <3>1. handler[h] \in Answer
            BY <1>0
        <3>2. [handler[h] EXCEPT !.pc = "decided"] = a
            BY <3>1
        <3>3. handler' = [handler EXCEPT ![h] = [handler[h] EXCEPT !.pc = "decided"]]
            BY <1>4 DEF Store
        <3> QED BY <1>4, <3>2, <3>3 DEF Store
    <2> QED BY <1>1, <2>1, <2>2, <2>3, <2>4
<1>5. CASE Done(h)
    <2>1. Waiting \in Answer
        BY PermAssumption DEF Waiting, Pcs
    <2> QED BY <1>1, <1>5, <2>1 DEF Done, Waiting, PermInv, PermTypeOK, AgeInv
<1> QED BY <1>2, <1>3, <1>4, <1>5

\* Everything grows a tick older together.
LEMMA PermTickStep == PermInv /\ PermTick => PermInv'
<1> SUFFICES ASSUME PermInv, PermTick PROVE PermInv'
    OBVIOUS
<1>1. /\ gap' \in [BOOLEAN -> 0 .. Keep] /\ gap'[share] = 0
      /\ gap'[~share] = Aged(gap[~share])
    BY AgedFacts DEF PermInv, PermTypeOK, PermTick
<1>2. \A b \in BOOLEAN : gap'[b] = 0 \/ gap'[b] = Aged(gap[b])
    BY <1>1 DEF PermInv, PermTypeOK
<1>3. cache' \in [known : BOOLEAN, ok : BOOLEAN, age : 0 .. Keep]
    BY AgedFacts DEF PermInv, PermTypeOK, PermTick
<1>4. handler' \in [Handlers -> [pc : Pcs, ok : BOOLEAN, age : 0 .. Keep]]
    BY AgedFacts DEF PermInv, PermTypeOK, PermTick
<1>5. PermTypeOK'
    BY <1>1, <1>3, <1>4 DEF PermInv, PermTypeOK, PermTick, Waiting
<1>6. cache'.known => gap'[cache'.ok] <= cache'.age
    <2> SUFFICES ASSUME cache'.known PROVE gap'[cache'.ok] <= cache'.age
        OBVIOUS
    <2>1. cache.known /\ cache'.ok = cache.ok /\ cache'.age = Aged(cache.age)
        BY DEF PermInv, PermTypeOK, PermTick
    <2>2. gap[cache.ok] <= cache.age /\ gap[cache.ok] \in 0 .. Keep /\ cache.age \in 0 .. Keep
          /\ cache.ok \in BOOLEAN
        BY <2>1 DEF PermInv, PermTypeOK, AgeInv
    <2>3. Aged(gap[cache.ok]) <= Aged(cache.age) /\ Aged(cache.age) \in 0 .. Keep
        BY <2>2, AgedMonotone, AgedFacts
    <2> QED BY <1>2, <2>1, <2>2, <2>3
<1>7. ASSUME NEW h \in Handlers, handler'[h].pc = "store"
      PROVE  gap'[handler'[h].ok] <= handler'[h].age
    <2>1. handler[h].pc = "store" /\ handler'[h].ok = handler[h].ok
          /\ handler'[h].age = Aged(handler[h].age)
        BY <1>7 DEF PermInv, PermTypeOK, PermTick
    <2>2. gap[handler[h].ok] <= handler[h].age /\ gap[handler[h].ok] \in 0 .. Keep
          /\ handler[h].age \in 0 .. Keep /\ handler[h].ok \in BOOLEAN
        BY <2>1 DEF PermInv, PermTypeOK, AgeInv
    <2>3. Aged(gap[handler[h].ok]) <= Aged(handler[h].age) /\ Aged(handler[h].age) \in 0 .. Keep
        BY <2>2, AgedMonotone, AgedFacts
    <2> QED BY <1>2, <2>1, <2>2, <2>3
<1>8. \A h \in Handlers : handler'[h].pc = "decided" => handler'[h].age # 0
    BY PermAssumption DEF PermInv, PermTypeOK, PermTick, Aged
<1>9. AgeInv'
    BY <1>6, <1>7 DEF AgeInv
<1>10. AnswersFresh'
    BY <1>8 DEF AnswersFresh
<1> QED BY <1>5, <1>9, <1>10 DEF PermInv

\* PermInv is inductive.
LEMMA PermStep == PermInv /\ [PermNext]_permVars => PermInv'
<1> SUFFICES ASSUME PermInv, [PermNext]_permVars PROVE PermInv'
    OBVIOUS
<1>1. CASE Change
    BY <1>1, ChangeStep
<1>2. CASE \E h \in Handlers : Look(h) \/ Ask(h) \/ Store(h) \/ Done(h)
    BY <1>2, HandlerStep
<1>3. CASE ForgetAnswer
    BY <1>3, PermAssumption
       DEF ForgetAnswer, NoAnswer, PermInv, PermTypeOK, AgeInv, AnswersFresh
<1>4. CASE PermTick
    BY <1>4, PermTickStep
<1>5. CASE UNCHANGED permVars
    BY <1>5 DEF permVars, PermInv, PermTypeOK, AgeInv, AnswersFresh
<1> QED BY <1>1, <1>2, <1>3, <1>4, <1>5 DEF PermNext

\* PermInv holds of every reachable state.
THEOREM PermInvariant == PermSpec => []PermInv
<1> QED BY PermInitially, PermStep, PTL DEF PermSpec

\* Cached answers and those on their way stay within their minute.
THEOREM PermissionsTyped == PermSpec => []PermTypeOK
<1>1. PermInv => PermTypeOK
    BY DEF PermInv
<1> QED BY PermInvariant, <1>1, PTL

\* Frames are decided on by what held less than a minute before, however many
\* goroutines overwrite each other's answers in Server.allowed.
THEOREM PermissionsFresh == PermSpec => []AnswersFresh
<1>1. PermInv => AnswersFresh
    BY DEF PermInv
<1> QED BY PermInvariant, <1>1, PTL
=============================================================================
