----------------------------- MODULE PathProofs -----------------------------
(***************************************************************************)
(* How a node finds a path, for any number of addresses, controllers and   *)
(* pings and for any times: a wait for the relay over UDP is bounded       *)
(* (RelayTransport), no room is left on a dead path, and all rooms follow  *)
(* the same one (Disco).                                                   *)
(*                                                                         *)
(* TransportInv relates the two clocks of a wait: Client.heard and lastOK. *)
(* DiscoInv says what an answer vouches for: that a path worked when the   *)
(* ping was sent, which is at most discoPingTTL ago.                       *)
(***************************************************************************)
EXTENDS RelayTransport, Disco, TLAPS

------------------------------------------------------------------------------
(* The relay, over UDP or through a stream. *)

\* A clock of a wait grows by one or stands at its limit.
LEMMA LaterFacts ==
    ASSUME NEW limit \in Nat, NEW x \in Nat
    PROVE  /\ Later(x, limit) \in Nat
           /\ Later(x, limit) <= x + 1
           /\ x <= limit => Later(x, limit) <= limit
           /\ x < limit => Later(x, limit) = x + 1
BY DEF Later

\* Before the first wait nothing was unheard.
LEMMA TransportInitially == TransportInit => TransportInv
BY TransportAssumption
   DEF TransportInit, TransportInv, TransportTypeOK, WaitInv, Loop, Ready

\* A tick of a wait: Ready or not, the clocks keep their order.
LEMMA TransportTickStep == TransportInv /\ Tick => TransportInv'
<1> SUFFICES ASSUME TransportInv, Tick PROVE TransportInv'
    OBVIOUS
<1>0. /\ TransportTypeOK /\ WaitInv
      /\ heard \in Nat /\ ok \in Nat /\ unheard \in Nat /\ ping \in Nat
      /\ heard <= Silence /\ ok <= Grace /\ ping <= Keepalive
      /\ Silence \in Nat /\ Grace \in Nat /\ Keepalive \in Nat /\ Longest \in Nat
      /\ 2 < Silence /\ Grace > 0
    BY TransportAssumption DEF TransportInv, TransportTypeOK, Longest
<1>1. /\ heard' = Later(heard, Silence)
      /\ ping' = 0 \/ ping' = Later(ping, Keepalive)
      /\ ok' = IF pc # "wait" \/ heard' < Silence THEN 0 ELSE Later(ok, Grace + 1)
      /\ unheard' = IF pc = "wait" THEN Later(unheard, Longest + 2) ELSE 0
      /\ UNCHANGED <<mode, udp, tcp, pc>>
      /\ pc = "wait" => ok < Grace
    BY <1>0 DEF Tick, network, Silent
<1>2. heard' \in Nat /\ heard' <= Silence /\ ping' \in Nat /\ ping' <= Keepalive
    <2>1. Later(heard, Silence) \in Nat /\ Later(heard, Silence) <= Silence
        BY <1>0, LaterFacts
    <2>2. Later(ping, Keepalive) \in Nat /\ Later(ping, Keepalive) <= Keepalive
        BY <1>0, LaterFacts
    <2> QED BY <1>0, <1>1, <2>1, <2>2
<1>3. unheard' \in Nat /\ (pc = "wait" => unheard' <= unheard + 1)
    BY <1>0, <1>1, LaterFacts
<1>4. /\ ok' \in 0 .. Grace
      /\ heard' < Silence => ok' = 0
      /\ (pc = "wait" /\ heard' = Silence) => ok' = ok + 1
    BY <1>0, <1>1, <1>2 DEF Later
<1>5. due' \in BOOLEAN
    BY Zenon DEF Tick
<1>6. TransportTypeOK'
    BY <1>0, <1>1, <1>2, <1>3, <1>4, <1>5 DEF TransportTypeOK
<1>7. WaitInv'
    <2>1. CASE pc # "wait"
        BY <1>1, <2>1 DEF WaitInv
    <2>2. CASE pc = "wait" /\ heard < Silence
        <3>1. heard' = heard + 1 /\ unheard <= heard /\ (heard = 0 \/ ok = 0)
            BY <1>0, <1>1, <2>2, LaterFacts DEF WaitInv, Ready
        <3> QED BY <1>0, <1>1, <1>2, <1>3, <1>4, <2>2, <3>1 DEF WaitInv, Ready
    <2>3. CASE pc = "wait" /\ heard = Silence
        <3>1. heard' = Silence /\ unheard < Silence + ok
            BY <1>0, <1>1, <2>3 DEF WaitInv, Ready, Later
        <3> QED BY <1>0, <1>1, <1>3, <1>4, <2>3, <3>1 DEF WaitInv, Ready
    <2> QED BY <1>0, <2>1, <2>2, <2>3
<1> QED BY <1>6, <1>7 DEF TransportInv

\* TransportInv is inductive.
LEMMA TransportStep == TransportInv /\ [TransportNext]_transportVars => TransportInv'
<1> SUFFICES ASSUME TransportInv, [TransportNext]_transportVars PROVE TransportInv'
    OBVIOUS
<1> USE TransportAssumption DEF TransportInv, TransportTypeOK, WaitInv, Ready
<1>1. CASE NetworkChange
    <2>1. udp' \in BOOLEAN /\ tcp' \in BOOLEAN
        BY <1>1, Zenon DEF NetworkChange
    <2> QED BY <1>1, <2>1 DEF NetworkChange
<1>2. CASE Hear
    <2>1. due' \in BOOLEAN
        BY <1>2, Zenon DEF Hear
    <2>2. /\ heard' = 0 /\ unheard' = IF pc = "wait" THEN 0 ELSE unheard
          /\ UNCHANGED <<mode, udp, tcp, pc, ping, ok>>
        BY <1>2 DEF Hear, network
    <2> QED BY <2>1, <2>2
<1>3. CASE Tick
    BY <1>3, TransportTickStep
<1>4. CASE GiveUp
    BY <1>4 DEF GiveUp, network
<1>5. CASE DialWorks \/ DialFails
    BY <1>5 DEF DialWorks, DialFails, network
<1>6. CASE Retry
    BY <1>6 DEF Retry, Loop, network
<1>7. CASE StreamBreaks
    <2>1. due' \in BOOLEAN
        BY <1>7, Zenon DEF StreamBreaks
    <2>2. /\ pc # "wait" /\ pc' \in {"dial", "wait"}
          /\ UNCHANGED <<mode, udp, tcp, heard, ping, ok, unheard>>
        BY <1>7 DEF StreamBreaks, Loop, network
    <2> QED BY <2>1, <2>2
<1>8. CASE UNCHANGED transportVars
    BY <1>8 DEF transportVars
<1> QED BY <1>1, <1>2, <1>3, <1>4, <1>5, <1>6, <1>7, <1>8 DEF TransportNext

\* TransportInv holds of every reachable state.
THEOREM TransportInvariant == TransportSpec => []TransportInv
<1> QED BY TransportInitially, TransportStep, PTL DEF TransportSpec

\* waitUDPSilent returns before silenceLimit and udpRelayGrace have passed
\* without an answer over UDP, for any values of the two, whatever Client.heard
\* was when the wait began.
THEOREM FallbackIsBounded == TransportSpec => []FallbackBounded
<1>1. TransportInv => FallbackBounded
    BY TransportAssumption
       DEF TransportInv, TransportTypeOK, WaitInv, FallbackBounded, Ready, Longest
<1> QED BY <1>1, TransportInvariant, PTL

------------------------------------------------------------------------------
(* Paths to a peer. *)

\* What the proofs use of the constants.
LEMMA DiscoConstants ==
    /\ Stale \in Nat /\ PingTTL \in Nat /\ Recheck \in Nat /\ Eager \in Nat
    /\ Stale > 0
    /\ NoPath \notin Addrs /\ Guess \notin Addrs
    /\ First \in Ctrls
    /\ \A to \in CandSets \cup HintSets : to \subseteq Addrs
BY DiscoAssumption

\* Ages grow by one and stop at their cap.
LEMMA OlderFacts ==
    ASSUME NEW cap \in Nat, NEW n \in 0 .. cap
    PROVE  Older(n, cap) \in 0 .. cap /\ Older(n, cap) <= n + 1
BY DEF Older

\* A ping is new, and one that will be answered goes to a live address.
LEMMA PingsFacts ==
    ASSUME NEW to \in SUBSET Addrs, NEW pending
    PROVE  /\ Pings(to, pending) \subseteq Ping
           /\ \A s \in Pings(to, pending) : s.age = 0 /\ (s.reached => s.to \in alive)
<1> DEFINE NewPing(a) == [to |-> a, age |-> 0, reached |-> a \in alive]
           T == {x \in to : Cardinality(Before(x, to)) < MaxPending - Cardinality(pending)}
<1>1. Pings(to, pending) = {NewPing(a) : a \in T}
    BY DEF Pings
<1>2. \A a \in T : a \in Addrs
    OBVIOUS
<1>3. ASSUME NEW a \in Addrs
      PROVE  /\ NewPing(a) \in Ping /\ NewPing(a).age = 0
             /\ NewPing(a).to = a /\ (NewPing(a).reached => a \in alive)
    <2>1. CASE a \in alive
        <3>1. NewPing(a) = [to |-> a, age |-> 0, reached |-> TRUE]
            BY <2>1
        <3> QED BY <2>1, <3>1, DiscoConstants DEF Ping
    <2>2. CASE a \notin alive
        <3>0. (a \in alive) = FALSE
            BY <2>2
        <3>1. NewPing(a) = [to |-> a, age |-> 0, reached |-> FALSE]
            BY <3>0, Zenon
        <3> QED BY <2>2, <3>1, DiscoConstants DEF Ping
    <2> QED BY <2>1, <2>2
<1> HIDE DEF NewPing, T
<1> SUFFICES ASSUME NEW s \in Pings(to, pending)
             PROVE  s \in Ping /\ s.age = 0 /\ (s.reached => s.to \in alive)
    OBVIOUS
<1>4. PICK a \in T : s = NewPing(a)
    BY <1>1
<1> QED BY <1>2, <1>3, <1>4

\* The empty path.
LEMMA NoneFacts ==
    None \in [addr : Addrs \cup {NoPath}, rtt : Nat, age : 0 .. Stale] /\ None.addr = NoPath
BY DiscoConstants DEF None

\* A path that is confirmed again is one still.
LEMMA ConfirmedAgain ==
    ASSUME NEW b \in [addr : Addrs \cup {NoPath}, rtt : Nat, age : 0 .. Stale], NEW t \in Nat
    PROVE  [b EXCEPT !.age = 0, !.rtt = t]
             = [addr |-> b.addr, rtt |-> t, age |-> 0]
<1> DEFINE c == [b EXCEPT !.age = 0, !.rtt = t]
           d == [addr |-> b.addr, rtt |-> t, age |-> 0]
<1>1. DOMAIN b = {"addr", "rtt", "age"}
    OBVIOUS
<1>2. DOMAIN c = DOMAIN d
    BY <1>1
<1>3. c["addr"] = d["addr"] /\ c["rtt"] = d["rtt"] /\ c["age"] = d["age"]
    BY <1>1
<1>4. c = [k \in DOMAIN b |-> c[k]] /\ d = [k \in DOMAIN b |-> d[k]]
    BY <1>1
<1> HIDE DEF c, d
<1>5. c = d
    BY <1>1, <1>3, <1>4
<1> QED BY <1>5 DEF c, d

\* The endpoint is the path in use, or the guess.
LEMMA EndpointFacts ==
    ASSUME DiscoInv
    PROVE  /\ Endpoint \in Addrs \cup {Guess}
           /\ Endpoint \in Addrs => Known /\ Endpoint = best.addr
           /\ (Known /\ best.addr # NoPath) => Endpoint = best.addr
BY DiscoConstants DEF DiscoInv, DiscoTypeOK, Vouched, Endpoint, Fresh

\* At the start the peer is new to the one controller that lists it.
LEMMA DiscoInitially == Init => DiscoInv
<1> SUFFICES ASSUME Init PROVE DiscoInv
    OBVIOUS
<1>1. known[First] /\ Known
    BY DiscoConstants DEF Init, Known
<1>2. DiscoTypeOK
    <2>1. known \in [Ctrls -> BOOLEAN] /\ changed \in BOOLEAN
        BY Zenon DEF Init
    <2>2. dead \in [Addrs -> 0 .. Stale + PingTTL]
        BY DiscoConstants DEF Init
    <2>3. ep \in [Ctrls -> Addrs \cup {Guess, NoPath}]
        BY DEF Init
    <2>4. /\ alive \subseteq Addrs /\ cand \subseteq Addrs
          /\ learned = {} /\ hints = {} /\ sent = {} /\ best = None
        BY DiscoConstants DEF Init
    <2> QED BY <1>1, <2>1, <2>2, <2>3, <2>4, NoneFacts DEF DiscoTypeOK
<1>3. Vouched
    BY NoneFacts DEF Init, Vouched
<1>4. RoomsFollow
    BY DiscoConstants, NoneFacts DEF Init, RoomsFollow
<1> QED BY <1>2, <1>3, <1>4 DEF DiscoInv

\* A tick: everything grows older together, and what is too old goes.
LEMMA DiscoTickStep == DiscoInv /\ tick => DiscoInv'
<1> SUFFICES ASSUME DiscoInv, tick PROVE DiscoInv'
    OBVIOUS
<1> DEFINE aged == IF best.addr = NoPath THEN best ELSE [best EXCEPT !.age = @ + 1]
           now == Kept(aged)
           pending == {[s EXCEPT !.age = @ + 1] : s \in {p \in sent : p.age < PingTTL}}
           Best == [addr : Addrs \cup {NoPath}, rtt : Nat, age : 0 .. Stale]
<1>0. /\ DiscoTypeOK /\ Vouched /\ RoomsFollow
      /\ best \in Best /\ sent \subseteq Ping /\ dead \in [Addrs -> 0 .. Stale + PingTTL]
    BY DEF DiscoInv, DiscoTypeOK
<1>1. /\ dead' = [a \in Addrs |-> IF a \in alive THEN 0 ELSE Older(dead[a], Stale + PingTTL)]
      /\ UNCHANGED <<alive, known, cand, learned, hints, ep>>
      /\ ~changed /\ (Known' <=> Known)
    BY DEF tick, Known
<1>2. /\ dead' \in [Addrs -> 0 .. Stale + PingTTL]
      /\ \A a \in Addrs : dead'[a] <= dead[a] + 1
      /\ \A a \in alive : dead'[a] = 0
    <2>1. \A a \in Addrs : /\ dead[a] \in 0 .. Stale + PingTTL
                           /\ Older(dead[a], Stale + PingTTL) \in 0 .. Stale + PingTTL
                           /\ Older(dead[a], Stale + PingTTL) <= dead[a] + 1
        <3>1. Stale + PingTTL \in Nat
            BY DiscoConstants
        <3> QED BY <1>0, <3>1, OlderFacts
    <2> QED BY <1>0, <1>1, <2>1, DiscoConstants DEF DiscoTypeOK
<1>3. CASE ~Known
    <2>1. UNCHANGED <<best, sent, changed>> /\ best = None /\ sent = {}
        BY <1>0, <1>3 DEF tick, DiscoTypeOK
    <2>2. DiscoTypeOK'
        BY <1>0, <1>1, <1>2, <2>1 DEF DiscoTypeOK, None
    <2>3. Vouched'
        BY <1>1, <1>2, <2>1, NoneFacts DEF Vouched
    <2>4. RoomsFollow'
        BY <1>0, <1>1, <2>1 DEF RoomsFollow
    <2> QED BY <2>2, <2>3, <2>4 DEF DiscoInv
<1>4. CASE Known
    <2>1. /\ best' = now /\ changed' = (now # aged)
          /\ \/ sent' = pending
             \/ sent' = pending \cup Pings(Targets(now), pending)
        BY <1>4 DEF tick
    <2>2. /\ aged.addr = best.addr /\ aged \in [addr : Addrs \cup {NoPath}, rtt : Nat, age : Nat]
          /\ best.addr # NoPath => aged.age = best.age + 1
        BY <1>0, DiscoConstants
    <2>3. \/ now = None
          \/ now = aged /\ (best.addr # NoPath => aged.age < Stale)
        BY <2>2, DiscoConstants DEF Kept
    <2>4. now \in Best /\ (now # aged \/ now.addr = best.addr)
        <3>1. CASE now = None
            BY <3>1, NoneFacts, <2>2
        <3>2. CASE now = aged /\ best.addr = NoPath
            BY <1>0, <3>2
        <3>3. CASE now = aged /\ best.addr # NoPath /\ aged.age < Stale
            BY <1>0, <2>2, <3>3, DiscoConstants
        <3> QED BY <2>3, <3>1, <3>2, <3>3
    <2>5. now.addr # NoPath => /\ now.age < Stale /\ now.addr \in Addrs
                               /\ dead'[now.addr] <= now.age + PingTTL
        <3> SUFFICES ASSUME now.addr # NoPath
                     PROVE  /\ now.age < Stale /\ now.addr \in Addrs
                            /\ dead'[now.addr] <= now.age + PingTTL
            OBVIOUS
        <3>1. now = aged /\ now.addr = best.addr /\ best.addr # NoPath
            BY <2>2, <2>3, NoneFacts
        <3>2. /\ best.addr \in Addrs /\ dead[best.addr] <= best.age + PingTTL
              /\ dead[best.addr] \in Nat /\ dead'[best.addr] \in Nat /\ best.age \in Nat
            BY <1>0, <1>2, <3>1, DiscoConstants DEF Vouched
        <3> HIDE DEF now, aged
        <3> QED BY <1>2, <2>2, <2>3, <3>1, <3>2, NoneFacts, DiscoConstants
    <2> HIDE DEF now, aged, pending
    <2>6. Targets(now) \subseteq Addrs
        BY <1>0, <2>4 DEF Targets, Places, DiscoTypeOK, Direct
    <2>7. pending \subseteq Ping /\ \A s \in pending : s.reached => dead'[s.to] <= s.age
        <3> SUFFICES ASSUME NEW s \in pending
                     PROVE  s \in Ping /\ (s.reached => dead'[s.to] <= s.age)
            OBVIOUS
        <3>1. PICK p \in sent : p.age < PingTTL /\ s = [p EXCEPT !.age = @ + 1]
            BY DEF pending
        <3>2. p \in Ping /\ p.to \in Addrs /\ p.age \in Nat /\ dead[p.to] \in Nat
              /\ dead'[p.to] \in Nat
            BY <1>0, <1>2, DiscoConstants DEF Ping
        <3>3. s \in Ping /\ s.to = p.to /\ s.reached = p.reached /\ s.age = p.age + 1
            BY <3>1, <3>2, DiscoConstants DEF Ping
        <3>4. p.reached => dead[p.to] <= p.age
            BY <1>0 DEF Vouched
        <3>5. p.reached => dead'[p.to] <= p.age + 1
            BY <1>2, <3>2, <3>4
        <3> QED BY <3>3, <3>5
    <2>8. sent' \subseteq Ping /\ \A s \in sent' : s.reached => dead'[s.to] <= s.age
        <3>1. \A s \in Pings(Targets(now), pending) : s.reached => dead'[s.to] <= s.age
            BY <1>2, <2>6, PingsFacts
        <3> QED BY <2>1, <2>6, <2>7, <3>1, PingsFacts
    <2>9. changed' \in BOOLEAN
        BY <2>1, Zenon
    <2>10. DiscoTypeOK'
        BY <1>0, <1>1, <1>2, <1>4, <2>1, <2>4, <2>8, <2>9 DEF DiscoTypeOK
    <2>11. Vouched'
        BY <1>1, <1>2, <2>1, <2>5, <2>8 DEF Vouched
    <2>12. RoomsFollow'
        BY <1>0, <1>1, <2>1, <2>4 DEF RoomsFollow
    <2> QED BY <2>10, <2>11, <2>12 DEF DiscoInv
<1> QED BY <1>3, <1>4

\* A ping from the peer may be answered by one of ours.
LEMMA DiscoPingStep ==
    ASSUME DiscoInv, NEW a \in Addrs, handlePing(a)
    PROVE  DiscoInv'
<1>1. /\ Known /\ a \in alive /\ (Known' <=> Known)
      /\ UNCHANGED <<alive, dead, known, cand, hints, best, ep, changed>>
      /\ sent' = sent \/ sent' = sent \cup Pings({a}, sent)
      /\ learned' = learned \/ learned' = learned \cup {a}
    BY DEF handlePing, envVars, Known
<1>2. /\ Pings({a}, sent) \subseteq Ping
      /\ \A s \in Pings({a}, sent) : s.age = 0 /\ (s.reached => s.to \in alive)
    BY PingsFacts
<1>3. DiscoTypeOK'
    BY <1>1, <1>2 DEF DiscoInv, DiscoTypeOK
<1>4. Vouched'
    BY <1>1, <1>2 DEF DiscoInv, Vouched
<1>5. RoomsFollow'
    BY <1>1 DEF DiscoInv, RoomsFollow
<1> QED BY <1>3, <1>4, <1>5 DEF DiscoInv

\* A late answer vouches for what was true when its ping was sent.
LEMMA DiscoPongStep ==
    ASSUME DiscoInv, NEW s \in sent, handlePong(s)
    PROVE  DiscoInv'
<1> DEFINE p == [addr |-> s.to, rtt |-> s.age, age |-> 0]
           Best == [addr : Addrs \cup {NoPath}, rtt : Nat, age : 0 .. Stale]
<1>0. /\ s \in Ping /\ s.to \in Addrs /\ s.age \in 0 .. PingTTL /\ s.reached
      /\ best \in Best /\ dead[s.to] <= s.age /\ dead[s.to] \in Nat /\ s.to # NoPath
    BY DiscoConstants DEF DiscoInv, DiscoTypeOK, Vouched, handlePong, Ping
<1>1. /\ sent' = sent \ {s} /\ best' = Confirmed(p)
      /\ changed' = (changed \/ best'.addr # best.addr)
      /\ Known /\ (Known' <=> Known)
      /\ UNCHANGED <<alive, dead, known, cand, learned, hints, ep>>
    BY DEF handlePong, envVars, Known
<1>2. \/ best' = p
      \/ best' = [best EXCEPT !.age = 0, !.rtt = s.age] /\ best.addr = s.to
      \/ best' = best
    BY <1>1 DEF Confirmed
<1>3. /\ best' \in Best
      /\ best'.addr # NoPath => best'.age < Stale /\ dead[best'.addr] <= best'.age + PingTTL
    <2>1. CASE best' = p
        <3>1. best'.addr = s.to /\ best'.rtt = s.age /\ best'.age = 0
            BY <2>1
        <3>2. best' \in Best
            BY <1>0, <2>1, DiscoConstants
        <3> QED BY <1>0, <3>1, <3>2, DiscoConstants
    <2>2. CASE best' = [best EXCEPT !.age = 0, !.rtt = s.age] /\ best.addr = s.to
        <3>0. best' = p
            BY <1>0, <2>2, ConfirmedAgain, DiscoConstants
        <3>1. best'.addr = s.to /\ best'.rtt = s.age /\ best'.age = 0
            BY <3>0
        <3>2. best' \in Best
            BY <1>0, <3>0, DiscoConstants
        <3> QED BY <1>0, <3>1, <3>2, DiscoConstants
    <2>3. CASE best' = best
        BY <1>0, <2>3 DEF DiscoInv, Vouched
    <2> QED BY <1>2, <2>1, <2>2, <2>3
<1>4. changed' \in BOOLEAN
    BY <1>1, Zenon
<1>5. DiscoTypeOK'
    BY <1>1, <1>3, <1>4 DEF DiscoInv, DiscoTypeOK
<1>6. Vouched'
    BY <1>1, <1>3 DEF DiscoInv, Vouched
<1>7. RoomsFollow'
    BY <1>1 DEF DiscoInv, RoomsFollow
<1> QED BY <1>5, <1>6, <1>7 DEF DiscoInv

\* A netmap lists the peer: the room gets the endpoint of this moment.
LEMMA SetPeersStep ==
    ASSUME DiscoInv, NEW c \in Ctrls, NEW to \in CandSets, setPeers(c, to)
    PROVE  DiscoInv'
<1>0. /\ known \in [Ctrls -> BOOLEAN] /\ ep \in [Ctrls -> Addrs \cup {Guess, NoPath}]
      /\ to \subseteq Addrs
    BY DiscoConstants DEF DiscoInv, DiscoTypeOK
<1>1. /\ ep' = [ep EXCEPT ![c] = Endpoint] /\ known' = [known EXCEPT ![c] = TRUE]
      /\ cand' = to /\ UNCHANGED <<alive, dead, changed>>
      /\ \/ Known /\ UNCHANGED <<learned, hints, best, sent>>
         \/ ~Known /\ learned' = {} /\ hints' = {} /\ best' = None /\ sent' = {}
    BY DEF setPeers, SetPeers, envVars
<1>2. known'[c] /\ Known'
    BY <1>0, <1>1 DEF Known
<1>3. ~Known => UNCHANGED <<best, sent>>
    BY <1>1 DEF DiscoInv, DiscoTypeOK
<1>4. UNCHANGED <<best, sent>>
    BY <1>1, <1>3
<1>5. DiscoTypeOK'
    BY <1>0, <1>1, <1>2, <1>4, EndpointFacts DEF DiscoInv, DiscoTypeOK
<1>6. Vouched'
    BY <1>1, <1>4 DEF DiscoInv, Vouched
<1>7. RoomsFollow'
    BY <1>0, <1>1, <1>4, EndpointFacts DEF DiscoInv, RoomsFollow
<1> QED BY <1>5, <1>6, <1>7 DEF DiscoInv

\* A netmap without the peer: the room loses it, and disco with the last one.
LEMMA ForgetStep ==
    ASSUME DiscoInv, NEW c \in Ctrls, Forget(c)
    PROVE  DiscoInv'
<1>0. /\ known \in [Ctrls -> BOOLEAN] /\ ep \in [Ctrls -> Addrs \cup {Guess, NoPath}]
    BY DEF DiscoInv, DiscoTypeOK
<1>1. /\ ep' = [ep EXCEPT ![c] = NoPath] /\ known' = [known EXCEPT ![c] = FALSE]
      /\ UNCHANGED <<alive, dead, changed>>
      /\ IF \E d \in Ctrls \ {c} : known[d]
         THEN UNCHANGED <<cand, learned, hints, best, sent>>
         ELSE cand' = {} /\ learned' = {} /\ hints' = {} /\ best' = None /\ sent' = {}
    BY DEF Forget, SetPeers, envVars
<1>2. CASE \E d \in Ctrls \ {c} : known[d]
    <2>1. UNCHANGED <<cand, learned, hints, best, sent>> /\ Known'
        BY <1>0, <1>1, <1>2 DEF Known
    <2>2. DiscoTypeOK'
        BY <1>0, <1>1, <2>1 DEF DiscoInv, DiscoTypeOK
    <2>3. Vouched'
        BY <1>1, <2>1 DEF DiscoInv, Vouched
    <2>4. RoomsFollow'
        BY <1>0, <1>1, <2>1 DEF DiscoInv, RoomsFollow
    <2> QED BY <2>2, <2>3, <2>4 DEF DiscoInv
<1>3. CASE ~\E d \in Ctrls \ {c} : known[d]
    <2>1. \A d \in Ctrls : ~known'[d]
        BY <1>0, <1>1, <1>3
    <2>2. cand' = {} /\ learned' = {} /\ hints' = {} /\ best' = None /\ sent' = {}
        BY <1>1, <1>3
    <2>3. DiscoTypeOK'
        BY <1>0, <1>1, <2>2, NoneFacts DEF DiscoInv, DiscoTypeOK, None
    <2>4. Vouched'
        BY <1>1, <2>2, NoneFacts DEF DiscoInv, Vouched
    <2>5. RoomsFollow'
        BY <1>0, <1>1, <2>1 DEF DiscoInv, RoomsFollow
    <2> QED BY <2>3, <2>4, <2>5 DEF DiscoInv
<1> QED BY <1>2, <1>3

\* Every room that has the peer gets the endpoint of this moment.
LEMMA PathsChangedStep == DiscoInv /\ pathsChanged => DiscoInv'
<1> SUFFICES ASSUME DiscoInv, pathsChanged PROVE DiscoInv'
    OBVIOUS
<1>1. /\ ep' = [c \in Ctrls |-> IF known[c] THEN Endpoint ELSE NoPath]
      /\ changed' = FALSE
      /\ UNCHANGED <<alive, dead, known, cand, learned, hints, best, sent>>
      /\ (Known' <=> Known)
    BY DEF pathsChanged, envVars, peerVars, Known
<1>2. changed' \in BOOLEAN
    BY <1>1, Zenon
<1>3. DiscoTypeOK'
    BY <1>1, <1>2, EndpointFacts DEF DiscoInv, DiscoTypeOK
<1>4. Vouched'
    BY <1>1 DEF DiscoInv, Vouched
<1>5. RoomsFollow'
    BY <1>1, EndpointFacts DEF DiscoInv, RoomsFollow
<1> QED BY <1>3, <1>4, <1>5 DEF DiscoInv

\* A path that comes up or dies did so just now.
LEMMA PathFlipsStep ==
    ASSUME DiscoInv, NEW a \in Addrs, PathFlips(a)
    PROVE  DiscoInv'
<1>0. alive \subseteq Addrs /\ dead \in [Addrs -> 0 .. Stale + PingTTL]
      /\ sent \subseteq Ping /\ (best.addr # NoPath => best.addr \in Addrs)
      /\ (best.addr # NoPath => best.age \in Nat)
    BY DiscoConstants DEF DiscoInv, DiscoTypeOK
<1>1. /\ alive' \subseteq alive \cup {a} /\ dead' = [dead EXCEPT ![a] = 0]
      /\ UNCHANGED <<known, cand, learned, hints, best, sent, ep, changed>>
      /\ (Known' <=> Known)
    BY DEF PathFlips, peerVars, Known
<1>2. /\ dead' \in [Addrs -> 0 .. Stale + PingTTL] /\ dead'[a] = 0
      /\ \A b \in Addrs : dead'[b] <= dead[b]
    BY <1>0, <1>1, DiscoConstants
<1>3. DiscoTypeOK'
    BY <1>0, <1>1, <1>2 DEF DiscoInv, DiscoTypeOK, None
<1>4. Vouched'
    <2>1. \A b \in alive' : dead'[b] = 0
        BY <1>0, <1>1 DEF DiscoInv, Vouched
    <2>2. ASSUME NEW s \in sent, s.reached PROVE dead'[s.to] <= s.age
        <3>1. dead[s.to] <= s.age /\ s.to \in Addrs /\ s.age \in Nat
            BY <1>0, <2>2, DiscoConstants DEF DiscoInv, Vouched, Ping
        <3> QED BY <1>0, <1>2, <3>1, DiscoConstants
    <2>3. best.addr # NoPath => dead'[best.addr] <= best.age + PingTTL
        <3> SUFFICES ASSUME best.addr # NoPath PROVE dead'[best.addr] <= best.age + PingTTL
            OBVIOUS
        <3>1. dead[best.addr] <= best.age + PingTTL /\ best.addr \in Addrs /\ best.age \in Nat
            BY <1>0 DEF DiscoInv, Vouched
        <3>2. dead[best.addr] \in Nat /\ dead'[best.addr] \in Nat
            BY <1>0, <1>2, <3>1, DiscoConstants
        <3> QED BY <1>2, <3>1, <3>2, DiscoConstants
    <2> QED BY <1>1, <2>1, <2>2, <2>3 DEF DiscoInv, Vouched
<1>5. RoomsFollow'
    BY <1>1 DEF DiscoInv, RoomsFollow
<1> QED BY <1>3, <1>4, <1>5 DEF DiscoInv

\* DiscoInv is inductive.
LEMMA DiscoStep == DiscoInv /\ [Next]_vars => DiscoInv'
<1> SUFFICES ASSUME DiscoInv, [Next]_vars PROVE DiscoInv'
    OBVIOUS
<1>1. CASE tick
    BY <1>1, DiscoTickStep
<1>2. CASE \E a \in Addrs : handlePing(a) \/ PathFlips(a)
    BY <1>2, DiscoPingStep, PathFlipsStep
<1>3. CASE \E s \in sent : handlePong(s)
    BY <1>3, DiscoPongStep
<1>4. CASE \E c \in Ctrls : Forget(c) \/ \E to \in CandSets : setPeers(c, to)
    BY <1>4, ForgetStep, SetPeersStep
<1>5. ASSUME NEW to \in HintSets, addHints(to) PROVE DiscoInv'
    <2>1. /\ hints' \subseteq Addrs /\ (Known' <=> Known)
          /\ UNCHANGED <<alive, dead, known, cand, learned, best, sent, ep, changed>>
        BY <1>5, DiscoConstants DEF addHints, envVars, Known
    <2> QED BY <2>1 DEF DiscoInv, DiscoTypeOK, Vouched, RoomsFollow, None
<1>6. CASE pathsChanged
    BY <1>6, PathsChangedStep
<1>7. CASE UNCHANGED vars
    <2>1. UNCHANGED <<alive, dead, known, cand, learned, hints, best, sent, ep, changed>>
          /\ (Known' <=> Known)
        BY <1>7 DEF vars, envVars, peerVars, Known
    <2> QED BY <2>1 DEF DiscoInv, DiscoTypeOK, Vouched, RoomsFollow, None
<1> QED BY <1>1, <1>2, <1>3, <1>4, <1>5, <1>6, <1>7 DEF Next

\* DiscoInv holds of every reachable state.
THEOREM DiscoInvariant == Spec => []DiscoInv
<1> QED BY DiscoInitially, DiscoStep, PTL DEF Spec

\* For any number of addresses, controllers and pings, and any discoStale and
\* discoPingTTL: however late pongs come, a room leaves a path within the two
\* of its death, as soon as the pathsChanged under way has run.
THEOREM DeadPathsAreLeft == Spec => []DeadPathLeft
<1>1. DiscoInv => DeadPathLeft
    <2> SUFFICES ASSUME DiscoInv, NEW c \in Ctrls, ep[c] \in Addrs, ~changed
                 PROVE  dead[ep[c]] < Stale + PingTTL
        BY DEF DeadPathLeft
    <2>1. ep[c] = best.addr /\ best.addr # NoPath
        BY DiscoConstants DEF DiscoInv, DiscoTypeOK, RoomsFollow
    <2>2. best.age < Stale /\ dead[best.addr] <= best.age + PingTTL
        BY <2>1 DEF DiscoInv, Vouched
    <2>3. best.age \in Nat /\ dead[best.addr] \in Nat
        BY <2>1, DiscoConstants DEF DiscoInv, DiscoTypeOK
    <2> QED BY <2>1, <2>2, <2>3, DiscoConstants
<1> QED BY <1>1, DiscoInvariant, PTL

\* All rooms that have the peer, of whichever controller, follow the one
\* confirmed path: reapplyAll and apply never leave two of them apart.
THEOREM RoomsFollowOnePath == Spec => []RoomsAgree
<1>1. DiscoInv => RoomsAgree
    <2> SUFFICES ASSUME DiscoInv, NEW c \in Ctrls, known[c], ~changed
                 PROVE  ep[c] \in {Endpoint, Guess}
        BY DEF RoomsAgree
    <2>1. CASE ep[c] \in Addrs
        <3>1. ep[c] = best.addr /\ best.addr # NoPath /\ Known
            BY <2>1, DiscoConstants DEF DiscoInv, RoomsFollow, Known
        <3> QED BY <3>1, EndpointFacts
    <2>2. CASE ep[c] = Guess
        BY <2>2
    <2> QED BY <2>1, <2>2 DEF DiscoInv, RoomsFollow
<1> QED BY <1>1, DiscoInvariant, PTL
=============================================================================
