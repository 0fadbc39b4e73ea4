-------------------------- MODULE RoomDeviceProofs --------------------------
(***************************************************************************)
(* For every finite set of packets, every policy, flowTTL and maxFlows:    *)
(* what a room's device hands to the system has a reason under the rules,  *)
(* an answer to a conversation passes for flowTTL, and neither the table   *)
(* of flows nor what waits to be sent outgrows its limit.                  *)
(***************************************************************************)
EXTENDS RoomDevice, FiniteSetTheorems, TLAPS

\* A conversation that is not in the table was never remembered for want of
\* space, and the table never says that one is younger than it is.
FilterOK(f) ==
    /\ f.flows \in [Flows -> Nat]
    /\ f.talk \in [Flows -> Nat]
    /\ \A k \in Flows : k \notin f.missed => (f.talk[k] < FlowTTL => f.flows[k] <= f.talk[k])
    /\ \A k \in Flows : f.flows[k] < FlowTTL => f.talk[k] <= f.flows[k]

\* A packet without a reason is one that unwrap will refuse, whatever the mode
\* is by then.
KeptHasReason ==
    writer.pc = "keep" =>
        /\ writer.wire \in Wires
        /\ writer.why = {} => writer.wire.wrapped /\ ~Genuine(writer.wire)

DeviceInv == FilterOK(filter) /\ FilterOK(writer.old) /\ KeptHasReason

------------------------------------------------------------------------------
(* The filter's operators keep it so. *)

\* The flows of the packets sent and of those that arrive are in the table.
LEMMA FlowsOfPackets ==
    /\ \A p \in OutPackets : Flow(p) \in Flows
    /\ \A w \in Wires : Flow(w.pkt) \in Flows /\ Reply(w.pkt) \in Flows
BY DEF Flows

\* The ages that count as absent are over flowTTL.
LEMMA AbsentIsOld == Absent \in Nat /\ Absent > FlowTTL /\ FlowTTL \in Nat /\ FlowTTL > 0
BY DeviceAssumption DEF Absent

\* A new filter (acl.New) is empty.
LEMMA NewFilterOK == ASSUME NEW pol PROVE FilterOK(NewFilter(pol))
BY AbsentIsOld DEF FilterOK, NewFilter

\* A sweep takes only what has been silent for longer than flowTTL.
LEMMA SweepKeeps ==
    ASSUME NEW f, FilterOK(f)
    PROVE  /\ sweptFlows(f) \in [Flows -> Nat]
           /\ \A k \in Flows : sweptFlows(f)[k] = f.flows[k]
                               \/ (sweptFlows(f)[k] > FlowTTL /\ f.flows[k] > FlowTTL)
BY AbsentIsOld DEF sweptFlows, FilterOK

\* rememberLocked, whether the table had space or not.
LEMMA RememberOK ==
    ASSUME NEW f, FilterOK(f), NEW k \in Flows
    PROVE  FilterOK(rememberLocked(f, k))
<1> DEFINE s == sweptFlows(f)
           g == rememberLocked(f, k)
<1>1. /\ s \in [Flows -> Nat]
      /\ \A j \in Flows : s[j] = f.flows[j] \/ (s[j] > FlowTTL /\ f.flows[j] > FlowTTL)
  BY SweepKeeps
<1>2. f.flows \in [Flows -> Nat] /\ f.talk \in [Flows -> Nat]
  BY DEF FilterOK
<1>3. /\ \A j \in Flows : j \notin f.missed => (f.talk[j] < FlowTTL => f.flows[j] <= f.talk[j])
      /\ \A j \in Flows : f.flows[j] < FlowTTL => f.talk[j] <= f.flows[j]
  BY DEF FilterOK
<1>4. g.talk = [f.talk EXCEPT ![k] = 0]
  BY DEF rememberLocked, Updated
<1>5. CASE Size(s) < MaxFlows
  <2>1. g.flows = [s EXCEPT ![k] = 0] /\ g.missed = f.missed \ {k}
    BY <1>5 DEF rememberLocked, Updated
  <2> HIDE DEF s, g
  <2> QED
    <3>1. g.flows \in [Flows -> Nat] /\ g.talk \in [Flows -> Nat]
      BY <2>1, <1>1, <1>2, <1>4
    <3>2. ASSUME NEW j \in Flows
          PROVE  /\ j \notin g.missed => (g.talk[j] < FlowTTL => g.flows[j] <= g.talk[j])
                 /\ g.flows[j] < FlowTTL => g.talk[j] <= g.flows[j]
      BY <2>1, <1>1, <1>2, <1>3, <1>4, AbsentIsOld
    <3> QED  BY <3>1, <3>2 DEF FilterOK, g
<1>6. CASE ~(Size(s) < MaxFlows)
  <2>1. g.flows = s /\ g.missed = f.missed \cup {k}
    BY <1>6 DEF rememberLocked, Updated
  <2> HIDE DEF s, g
  <2> QED
    <3>1. g.flows \in [Flows -> Nat] /\ g.talk \in [Flows -> Nat]
      BY <2>1, <1>1, <1>2, <1>4
    <3>2. ASSUME NEW j \in Flows
          PROVE  /\ j \notin g.missed => (g.talk[j] < FlowTTL => g.flows[j] <= g.talk[j])
                 /\ g.flows[j] < FlowTTL => g.talk[j] <= g.flows[j]
      BY <2>1, <1>1, <1>2, <1>3, <1>4, AbsentIsOld
    <3> QED  BY <3>1, <3>2 DEF FilterOK, g
<1> QED  BY <1>5, <1>6

\* A conversation that goes on without its flow had found the table full.
LEMMA ContinuedOK ==
    ASSUME NEW f, FilterOK(f), NEW p, Reply(p) \in Flows,
           f.talk[Reply(p)] < FlowTTL => f.flows[Reply(p)] = 0 \/ Reply(p) \in f.missed
    PROVE  FilterOK(Continued(f, p))
<1> DEFINE k == Reply(p)
           g == Continued(f, p)
<1>1. f.flows \in [Flows -> Nat] /\ f.talk \in [Flows -> Nat] /\ k \in Flows
  BY DEF FilterOK
<1>2. CASE p.first /\ f.talk[k] < FlowTTL
  <2>1. g.flows = f.flows /\ g.talk = [f.talk EXCEPT ![k] = 0] /\ g.missed = f.missed
    BY <1>2 DEF Continued, Updated
  <2>2. f.flows[k] = 0 \/ k \in f.missed
    BY <1>2
  <2>3. \A j \in Flows : /\ j \notin f.missed => (f.talk[j] < FlowTTL => f.flows[j] <= f.talk[j])
                         /\ f.flows[j] < FlowTTL => f.talk[j] <= f.flows[j]
    BY DEF FilterOK
  <2> HIDE DEF k, g
  <2>4. ASSUME NEW j \in Flows
        PROVE  /\ j \notin g.missed => (g.talk[j] < FlowTTL => g.flows[j] <= g.talk[j])
               /\ g.flows[j] < FlowTTL => g.talk[j] <= g.flows[j]
    BY <2>1, <2>2, <2>3, <1>1
  <2>5. g.flows \in [Flows -> Nat] /\ g.talk \in [Flows -> Nat]
    BY <2>1, <1>1
  <2> QED  BY <2>4, <2>5 DEF FilterOK, g
<1>3. CASE ~(p.first /\ f.talk[k] < FlowTTL)
  BY <1>3 DEF Continued
<1> QED  BY <1>2, <1>3

\* An answer renews its flow.
LEMMA RenewedOK ==
    ASSUME NEW f, FilterOK(f), NEW k \in Flows, NEW g,
           g.flows = [f.flows EXCEPT ![k] = 0], g.talk = [f.talk EXCEPT ![k] = 0],
           g.missed = f.missed
    PROVE  FilterOK(g)
<1>1. f.flows \in [Flows -> Nat] /\ f.talk \in [Flows -> Nat]
  BY DEF FilterOK
<1>2. g.flows \in [Flows -> Nat] /\ g.talk \in [Flows -> Nat]
  BY <1>1
<1>3. ASSUME NEW j \in Flows
      PROVE  /\ j \notin g.missed => (g.talk[j] < FlowTTL => g.flows[j] <= g.talk[j])
             /\ g.flows[j] < FlowTTL => g.talk[j] <= g.flows[j]
  BY <1>1 DEF FilterOK
<1> QED  BY <1>2, <1>3 DEF FilterOK

\* Inbound's effect on the table, for a packet that passed.
LEMMA InboundOK ==
    ASSUME NEW f, FilterOK(f), NEW w \in Wires
    PROVE  FilterOK(Continued(InboundFlows(f, w.pkt), w.pkt))
<1> DEFINE p == w.pkt
           k == Reply(p)
<1>0. k \in Flows /\ Flow(p) \in Flows
  BY FlowsOfPackets
<1>1. f.flows \in [Flows -> Nat] /\ f.talk \in [Flows -> Nat] /\ f.flows[k] \in Nat /\ f.talk[k] \in Nat
  BY <1>0 DEF FilterOK
<1>2. \A j \in Flows : /\ j \notin f.missed => (f.talk[j] < FlowTTL => f.flows[j] <= f.talk[j])
                       /\ f.flows[j] < FlowTTL => f.talk[j] <= f.flows[j]
  BY DEF FilterOK
<1>3. CASE ~p.first
  <2>1. InboundFlows(f, p) = f
    BY <1>3 DEF InboundFlows
  <2>2. Continued(f, p) = f
    BY <1>3 DEF Continued
  <2> QED  BY <2>1, <2>2
<1>4. CASE p.first /\ Answers(f, p)
  <2> DEFINE h == Updated(f, [f.flows EXCEPT ![k] = 0], f.swept, f.talk, f.missed)
             g == Continued(h, p)
  <2>1. InboundFlows(f, p) = h
    BY <1>4 DEF InboundFlows
  <2>2. f.flows[k] < FlowTTL /\ f.talk[k] < FlowTTL
    BY <1>4, <1>0, <1>1, <1>2, AbsentIsOld DEF Answers
  <2>3. h.flows = [f.flows EXCEPT ![k] = 0] /\ h.talk = f.talk /\ h.missed = f.missed
    BY DEF Updated
  <2>4. g = Updated(h, h.flows, h.swept, [h.talk EXCEPT ![k] = 0], h.missed)
    BY <1>4, <2>2, <2>3 DEF Continued
  <2>5. g.flows = [f.flows EXCEPT ![k] = 0] /\ g.talk = [f.talk EXCEPT ![k] = 0] /\ g.missed = f.missed
    BY <2>3, <2>4 DEF Updated
  <2> HIDE DEF h, k, g
  <2>6. FilterOK(g)
    BY <2>5, <1>0, RenewedOK
  <2> QED  BY <2>1, <2>6 DEF g, k
<1>5. CASE p.first /\ ~Answers(f, p)
  <2>0. f.talk[k] < FlowTTL => k \in f.missed
    BY <1>5, <1>0, <1>1, <1>2, AbsentIsOld DEF Answers
  <2>1. CASE AnswersPing(f, p) \/ Gossip(p)
    <3>1. InboundFlows(f, p) = f
      BY <1>5, <2>1 DEF InboundFlows
    <3> QED  BY <3>1, <2>0, <1>0, ContinuedOK
  <2>2. CASE ~(AnswersPing(f, p) \/ Gossip(p))
    <3> DEFINE h == rememberLocked(f, Flow(p))
    <3>1. InboundFlows(f, p) = h
      BY <1>5, <2>2 DEF InboundFlows
    <3>2. FilterOK(h)
      BY <1>0, RememberOK
    <3>3. h.talk = [f.talk EXCEPT ![Flow(p)] = 0]
      BY DEF rememberLocked, Updated
    <3>4. h.missed = f.missed \cup {Flow(p)}
          \/ (h.missed = f.missed \ {Flow(p)} /\ h.flows = [sweptFlows(f) EXCEPT ![Flow(p)] = 0])
      BY DEF rememberLocked, Updated
    <3>5. sweptFlows(f) \in [Flows -> Nat]
      BY SweepKeeps
    <3>6. h.talk[k] < FlowTTL => h.flows[k] = 0 \/ k \in h.missed
      <4> HIDE DEF h, k, p
      <4>1. CASE k = Flow(p)
        BY <4>1, <3>4, <3>5, <1>0
      <4>2. CASE k # Flow(p)
        BY <4>2, <3>3, <3>4, <2>0, <1>0, <1>1
      <4> QED  BY <4>1, <4>2
    <3> HIDE DEF h
    <3> QED  BY <3>1, <3>2, <3>6, <1>0, ContinuedOK
  <2> QED  BY <2>1, <2>2
<1> QED  BY <1>3, <1>4, <1>5

\* Time passes for the table and for the conversations alike.
LEMMA AgedOK == ASSUME NEW f, FilterOK(f) PROVE FilterOK(Aged(f))
<1> DEFINE g == Aged(f)
           t == [k \in Flows |-> IF f.talk[k] + 1 < FlowTTL THEN f.talk[k] + 1 ELSE Absent]
<1>1. /\ g.flows = [k \in Flows |-> IF f.flows[k] <= FlowTTL THEN f.flows[k] + 1 ELSE f.flows[k]]
      /\ g.talk = t
      /\ g.missed = {k \in f.missed : t[k] # Absent}
  BY DEF Aged, Updated
<1>2. f.flows \in [Flows -> Nat] /\ f.talk \in [Flows -> Nat]
  BY DEF FilterOK
<1>3. \A j \in Flows : /\ j \notin f.missed => (f.talk[j] < FlowTTL => f.flows[j] <= f.talk[j])
                       /\ f.flows[j] < FlowTTL => f.talk[j] <= f.flows[j]
  BY DEF FilterOK
<1>4. g.flows \in [Flows -> Nat] /\ g.talk \in [Flows -> Nat]
  BY <1>1, <1>2, AbsentIsOld
<1>5. \A j \in Flows : t[j] = IF f.talk[j] + 1 < FlowTTL THEN f.talk[j] + 1 ELSE Absent
  OBVIOUS
<1> HIDE DEF g, t
<1>6. ASSUME NEW j \in Flows
      PROVE  /\ j \notin g.missed => (g.talk[j] < FlowTTL => g.flows[j] <= g.talk[j])
             /\ g.flows[j] < FlowTTL => g.talk[j] <= g.flows[j]
  BY <1>1, <1>2, <1>3, <1>5, AbsentIsOld
<1> QED  BY <1>4, <1>6 DEF FilterOK, g

\* A packet that passes the filter has a reason, unless it is a broadcast that
\* was not looked at because it will be refused.
LEMMA PassingHasReason ==
    ASSUME NEW f, FilterOK(f), NEW w \in Wires,
           f.on /\ unwrap(w) # {} => Inbound(f, w.pkt),
           Why(f, w) = {}
    PROVE  w.wrapped /\ ~Genuine(w)
<1> DEFINE k == Reply(w.pkt)
<1>1. \A r \in Reasons : r \notin Why(f, w)
  OBVIOUS
<1>2. f.on
  BY <1>1 DEF Why, Reasons
<1>3. ~Gossip(w.pkt) /\ ~ByRules(f.pol, w.pkt) /\ w.pkt.first /\ ~(w.wrapped /\ mode = "off")
  BY <1>1 DEF Why, Reasons
<1>4. \A j \in Flows : (j = Reply(w.pkt) \/ PingOf(j, w.pkt)) => ~(f.talk[j] < FlowTTL)
  BY <1>1 DEF Why, Reasons
<1>5. \A j \in Flows : f.flows[j] < FlowTTL => f.talk[j] < FlowTTL
  BY AbsentIsOld DEF FilterOK
<1>6. ~Answers(f, w.pkt)
  BY <1>4, <1>5, FlowsOfPackets DEF Answers
<1>7. ~AnswersPing(f, w.pkt)
  BY <1>4, <1>5 DEF AnswersPing
<1>8. unwrap(w) = {}
  BY <1>2, <1>3, <1>6, <1>7 DEF Inbound
<1> QED  BY <1>3, <1>8 DEF unwrap

------------------------------------------------------------------------------
(* The invariant. *)

\* Nothing is in the filters before the first packet.
LEMMA DeviceInvInit == Init => DeviceInv
<1> SUFFICES ASSUME Init PROVE DeviceInv
  OBVIOUS
<1>1. filter = NoFilter /\ writer.old = NoFilter /\ writer.pc = "idle"
  BY DEF Init, Resting, Writer
<1> QED  BY <1>1, NewFilterOK DEF DeviceInv, KeptHasReason, NoFilter

\* Every step of AmneziaWG's reader and writer and of apply() keeps it.
LEMMA DeviceInvNext == DeviceInv /\ [Next]_vars => DeviceInv'
<1> SUFFICES ASSUME DeviceInv, [Next]_vars PROVE DeviceInv'
  OBVIOUS
<1> USE DEF DeviceInv
<1>1. CASE UNCHANGED <<filter, writer>>
  BY <1>1 DEF FilterOK, KeptHasReason
<1>2. ASSUME NEW p \in OutPackets, ReadPacket(p)
      PROVE  DeviceInv'
  <2>1. filter' = filter \/ filter' = rememberLocked(filter, Flow(p))
    BY <1>2 DEF ReadPacket, Outbound
  <2>2. FilterOK(filter')
    BY <2>1, RememberOK, FlowsOfPackets
  <2>3. writer' = writer
    BY <1>2 DEF ReadPacket
  <2> QED  BY <2>2, <2>3 DEF FilterOK, KeptHasReason
<1>3. CASE WriteStart
  <2>1. filter' = filter /\ writer'.old = NoFilter /\ writer'.pc = "next"
    BY <1>3 DEF WriteStart, Writer
  <2> QED  BY <2>1, NewFilterOK DEF FilterOK, KeptHasReason, NoFilter
<1>4. CASE WriteKeep
  <2>1. filter' = filter /\ writer'.old = writer.old /\ writer'.pc = "next"
    BY <1>4 DEF WriteKeep, Writer
  <2> QED  BY <2>1 DEF FilterOK, KeptHasReason
<1>5. CASE WriteEnd
  <2>1. filter' = filter /\ writer'.old = NoFilter /\ writer'.pc = "idle"
    BY <1>5 DEF WriteEnd, Writer, Resting
  <2> QED  BY <2>1, NewFilterOK DEF FilterOK, KeptHasReason, NoFilter
<1>6. ASSUME NEW w \in Wires, WriteFilter(w)
      PROVE  DeviceInv'
  <2> DEFINE f == IF writer.cur THEN filter ELSE writer.old
             passes == f.on /\ unwrap(w) # {} => Inbound(f, w.pkt)
             g == IF f.on /\ unwrap(w) # {} /\ passes
                  THEN Continued(InboundFlows(f, w.pkt), w.pkt) ELSE f
             old == IF writer.cur THEN writer.old ELSE g
  <2>1. FilterOK(f)
    OBVIOUS
  <2>2. FilterOK(g)
    BY <2>1, InboundOK
  <2>3. filter' = IF writer.cur THEN g ELSE filter
    BY <1>6 DEF WriteFilter
  <2>4. writer' = IF passes THEN Writer("keep", writer.cur, old, w, Why(f, w))
                            ELSE Writer("next", writer.cur, old, NoWire, {})
    BY <1>6 DEF WriteFilter
  <2>5. writer'.old = old
    BY <2>4 DEF Writer
  <2>6. writer'.pc = "keep" => passes /\ writer'.wire = w /\ writer'.why = Why(f, w)
    BY <2>4 DEF Writer
  <2>7. passes /\ Why(f, w) = {} => w.wrapped /\ ~Genuine(w)
    BY <2>1, PassingHasReason
  <2>8. FilterOK(filter') /\ FilterOK(writer'.old)
    BY <2>2, <2>3, <2>5
  <2> HIDE DEF f, passes, g, old
  <2>9. KeptHasReason'
    BY <2>6, <2>7 DEF KeptHasReason, Genuine
  <2> QED  BY <2>8, <2>9 DEF FilterOK
<1>7. CASE SetPolicy
  <2>1. filter' = NewFilter(want.pol)
    BY <1>7 DEF SetPolicy, replaceFilter
  <2>2. writer' = writer \/ writer' = Writer(writer.pc, FALSE, filter, writer.wire, writer.why)
    BY <1>7 DEF SetPolicy, replaceFilter
  <2>3. /\ writer'.old = writer.old \/ writer'.old = filter
        /\ writer'.pc = writer.pc /\ writer'.wire = writer.wire /\ writer'.why = writer.why
    BY <2>2 DEF Writer
  <2>4. FilterOK(filter') /\ FilterOK(writer'.old)
    BY <2>1, <2>3, NewFilterOK
  <2>5. KeptHasReason'
    BY <2>3 DEF KeptHasReason, Genuine
  <2> QED  BY <2>4, <2>5 DEF FilterOK
<1>8. CASE Tick
  <2>1. filter' = Aged(filter) /\ writer' = writer
    BY <1>8 DEF Tick
  <2>2. FilterOK(filter')
    BY <2>1, AgedOK
  <2> QED  BY <2>1, <2>2 DEF FilterOK, KeptHasReason
<1>9. CASE UNCHANGED vars
  BY <1>1, <1>9 DEF vars, packetVars
<1>10. ASSUME Read PROVE DeviceInv'
  BY <1>1, <1>2, <1>10 DEF Read
<1>11. ASSUME NEW m, SetMode(m) PROVE DeviceInv'
  BY <1>1, <1>11 DEF SetMode
<1>12. ASSUME NEW ps, SetPeers(ps) PROVE DeviceInv'
  BY <1>1, <1>12 DEF SetPeers
<1>13. ASSUME NEW fails, SetRouter(fails) PROVE DeviceInv'
  BY <1>1, <1>13 DEF SetRouter, packetVars
<1>14. ASSUME NEW c, NewConfig(c) PROVE DeviceInv'
  BY <1>1, <1>14 DEF NewConfig
<1> QED
  BY <1>3, <1>4, <1>5, <1>6, <1>7, <1>8, <1>9, <1>10, <1>11, <1>12, <1>13, <1>14 DEF Next

\* The filter and the writer agree in every reachable state.
LEMMA DeviceInvariant == Spec => []DeviceInv
BY DeviceInvInit, DeviceInvNext, PTL DEF Spec

------------------------------------------------------------------------------
\* RepliesPass: for every flowTTL and maxFlows and all packets, a conversation
\* that found space in the table is answered until flowTTL after its last
\* packet, in either direction (acl.Filter's Outbound and Inbound).
THEOREM ConversationsAreAnswered == Spec => []RepliesPass
<1>1. DeviceInv => RepliesPass
  BY AbsentIsOld DEF DeviceInv, FilterOK, RepliesPass
<1> QED  BY <1>1, DeviceInvariant, PTL

\* Admitted: for all policies and packets, whatever tunwrap's Write hands over
\* comes from the member it names and has a reason under the rules its batch
\* began with, however the mode, the policy and the routing change meanwhile.
THEOREM DeviceAdmits == Spec => []Admitted
<1>1. ASSUME DeviceInv, writer.pc = "keep", NEW p \in HandedOver(writer.wire)
      PROVE  writer.why # {} /\ p.src = writer.wire.from
  <2> DEFINE w == writer.wire
  <2>1. w \in Wires /\ (writer.why = {} => w.wrapped /\ ~Genuine(w))
    BY <1>1 DEF DeviceInv, KeptHasReason
  <2>2. ~w.wrapped => w.pkt.src = w.from
    BY <2>1, DeviceAssumption
  <2>3. CASE Diverted(w)
    BY <2>1, <2>2, <2>3, <1>1 DEF HandedOver, Diverted
  <2>4. CASE ~Diverted(w)
    <3>1. p \in unwrap(w)
      BY <2>4, <1>1 DEF HandedOver
    <3>2. p = w.pkt /\ (w.wrapped => Genuine(w))
      BY <3>1 DEF unwrap
    <3> QED  BY <3>2, <2>1, <2>2 DEF Genuine
  <2> QED  BY <2>3, <2>4
<1>2. DeviceInv => Admitted
  BY <1>1 DEF Admitted
<1> QED  BY <1>2, DeviceInvariant, PTL

------------------------------------------------------------------------------
(* The table of flows keeps to its limit. *)

InTable(flows) == {k \in Flows : flows[k] # Absent}

\* An image of a finite set is finite.
LEMMA FlowImages ==
    /\ IsFiniteSet({Flow(p) : p \in OutPackets})
    /\ IsFiniteSet({Flow(w.pkt) : w \in Wires}) /\ IsFiniteSet({Reply(w.pkt) : w \in Wires})
<1>1. [p \in OutPackets |-> Flow(p)] \in Surjection(OutPackets, {Flow(p) : p \in OutPackets})
  BY DEF Surjection
<1>2. [w \in Wires |-> Flow(w.pkt)] \in Surjection(Wires, {Flow(w.pkt) : w \in Wires})
  BY DEF Surjection
<1>3. [w \in Wires |-> Reply(w.pkt)] \in Surjection(Wires, {Reply(w.pkt) : w \in Wires})
  BY DEF Surjection
<1>4. IsFiniteSet(OutPackets) /\ IsFiniteSet(Wires)
  BY DeviceAssumption
<1>5. IsFiniteSet({Flow(p) : p \in OutPackets})
  BY <1>1, <1>4, FS_Surjection
<1>6. IsFiniteSet({Flow(w.pkt) : w \in Wires})
  BY <1>2, <1>4, FS_Surjection
<1>7. IsFiniteSet({Reply(w.pkt) : w \in Wires})
  BY <1>3, <1>4, FS_Surjection
<1> QED BY <1>5, <1>6, <1>7

\* There are finitely many flows, so a table has a size.
LEMMA TableSize ==
    \A flows : /\ IsFiniteSet(InTable(flows)) /\ Size(flows) = Cardinality(InTable(flows))
               /\ Size(flows) \in Nat
<1>1. IsFiniteSet(Flows)
  BY FlowImages, FS_Union DEF Flows
<1>2. ASSUME NEW flows PROVE IsFiniteSet(InTable(flows)) /\ Cardinality(InTable(flows)) \in Nat
  <2>1. InTable(flows) \in SUBSET Flows
    BY DEF InTable
  <2> QED BY <1>1, <2>1, FS_Subset, FS_CardinalityType
<1> QED BY <1>2 DEF Size, InTable

\* A table with no other flows is no larger.
LEMMA NoMoreFlows ==
    ASSUME NEW a, NEW b, InTable(a) \subseteq InTable(b)
    PROVE  Size(a) <= Size(b)
BY TableSize, FS_Subset

\* One flow adds at most one.
LEMMA OneMoreFlow ==
    ASSUME NEW a, NEW b, NEW k, InTable(a) \subseteq InTable(b) \cup {k}
    PROVE  Size(a) <= Size(b) + 1
<1>1. IsFiniteSet(InTable(b)) /\ Size(b) = Cardinality(InTable(b)) /\ Size(b) \in Nat
  BY TableSize
<1>2. /\ IsFiniteSet(InTable(b) \cup {k})
      /\ Cardinality(InTable(b) \cup {k}) <= Size(b) + 1
      /\ Cardinality(InTable(b) \cup {k}) \in Nat
  BY <1>1, FS_AddElement, FS_CardinalityType
<1>3. Cardinality(InTable(a)) <= Cardinality(InTable(b) \cup {k})
  BY <1>2, FS_Subset
<1>4. Size(a) = Cardinality(InTable(a)) /\ Size(a) \in Nat
  BY TableSize
<1> QED BY <1>1, <1>2, <1>3, <1>4

\* A filter's fields.
LEMMA FilterFields ==
    ASSUME NEW f, NEW flows \in [Flows -> 0 .. Absent], NEW swept \in BOOLEAN,
           NEW talk \in [Flows -> 0 .. Absent], NEW missed \in SUBSET Flows, f \in Filters
    PROVE  Updated(f, flows, swept, talk, missed) \in Filters
BY DEF Filters, Updated

\* A flow that is renewed has age 0.
LEMMA RenewedAges ==
    \A flows \in [Flows -> 0 .. Absent] : \A k : [flows EXCEPT ![k] = 0] \in [Flows -> 0 .. Absent]
<1>1. 0 \in 0 .. Absent
  BY AbsentIsOld
<1>2. \A S : \A flows \in [Flows -> S] : \A k : \A x \in S : [flows EXCEPT ![k] = x] \in [Flows -> S]
  OBVIOUS
<1> QED BY <1>1, <1>2, Zenon

\* acl.New makes an empty filter.
LEMMA NewFilterTyped ==
    ASSUME NEW pol \in {c.pol : c \in Configs} \cup {NoPolicy}
    PROVE  NewFilter(pol) \in Filters /\ Size(NewFilter(pol).flows) <= MaxFlows
<1>1. NewFilter(pol) \in Filters
  BY AbsentIsOld DEF NewFilter, Filters
<1>2. NewFilter(pol).flows = [k \in Flows |-> Absent]
  BY DEF NewFilter
<1>3. InTable(NewFilter(pol).flows) = {}
  BY <1>2 DEF InTable
<1> QED BY <1>1, <1>3, TableSize, FS_EmptySet, DeviceAssumption

\* A sweep only takes flows.
LEMMA SweepShrinks ==
    ASSUME NEW f \in Filters
    PROVE  /\ sweptFlows(f) \in [Flows -> 0 .. Absent]
           /\ Size(sweptFlows(f)) <= Size(f.flows)
<1>1. f.flows \in [Flows -> 0 .. Absent]
  BY DEF Filters
<1>2. sweptFlows(f) \in [Flows -> 0 .. Absent]
  BY <1>1, AbsentIsOld DEF sweptFlows
<1>3. InTable(sweptFlows(f)) \subseteq InTable(f.flows)
  BY DEF sweptFlows, InTable
<1> QED BY <1>2, <1>3, NoMoreFlows

\* rememberLocked never fills the table past maxFlows.
LEMMA RememberFits ==
    ASSUME NEW f \in Filters, NEW k \in Flows
    PROVE  /\ rememberLocked(f, k) \in Filters
           /\ Size(f.flows) <= MaxFlows => Size(rememberLocked(f, k).flows) <= MaxFlows
<1> DEFINE s == sweptFlows(f)
           fits == Size(s) < MaxFlows
           flows == IF fits THEN [s EXCEPT ![k] = 0] ELSE s
           missed == IF fits THEN f.missed \ {k} ELSE f.missed \cup {k}
           talk == [f.talk EXCEPT ![k] = 0]
           swept == f.swept \/ Size(f.flows) >= MaxFlows
<1>1. s \in [Flows -> 0 .. Absent] /\ Size(s) <= Size(f.flows)
  BY SweepShrinks
<1>2. f.talk \in [Flows -> 0 .. Absent] /\ f.missed \in SUBSET Flows /\ f.swept \in BOOLEAN
  BY DEF Filters
<1>3. rememberLocked(f, k) = Updated(f, flows, swept, talk, missed)
  BY DEF rememberLocked
<1>4. flows \in [Flows -> 0 .. Absent] /\ talk \in [Flows -> 0 .. Absent]
  BY <1>1, <1>2, AbsentIsOld
<1>5. missed \in SUBSET Flows
  BY <1>2
<1>6. swept \in BOOLEAN
  BY <1>2
<1>7. rememberLocked(f, k) \in Filters
  <2> HIDE DEF flows, talk, missed, swept
  <2> QED BY <1>3, <1>4, <1>5, <1>6, FilterFields
<1>8. rememberLocked(f, k).flows = flows
  BY <1>3 DEF Updated
<1>9. ASSUME Size(f.flows) <= MaxFlows PROVE Size(flows) <= MaxFlows
  <2>0. MaxFlows \in Nat /\ Size(s) \in Nat /\ Size(f.flows) \in Nat /\ Size(flows) \in Nat
    BY TableSize, DeviceAssumption
  <2>1. CASE fits
    <3>1. InTable(flows) \subseteq InTable(s) \cup {k}
      BY <1>1, <2>1 DEF InTable
    <3>2. Size(flows) <= Size(s) + 1
      BY <3>1, OneMoreFlow
    <3> HIDE DEF flows, s
    <3> QED BY <2>0, <2>1, <3>2
  <2>2. CASE ~fits
    BY <1>1, <1>9, <2>0, <2>2
  <2> QED BY <2>1, <2>2
<1> QED BY <1>7, <1>8, <1>9

\* What an arriving packet does to the table.
LEMMA InboundFits ==
    ASSUME NEW f \in Filters, NEW w \in Wires
    PROVE  LET g == Continued(InboundFlows(f, w.pkt), w.pkt)
           IN g \in Filters /\ (Size(f.flows) <= MaxFlows => Size(g.flows) <= MaxFlows)
<1> DEFINE p == w.pkt
           h == InboundFlows(f, p)
           g == Continued(h, p)
<1>0. Flow(p) \in Flows /\ Reply(p) \in Flows
  BY FlowsOfPackets
<1>1. h \in Filters /\ (Size(f.flows) <= MaxFlows => Size(h.flows) <= MaxFlows)
  <2>1. CASE h = f
    BY <2>1
  <2>2. CASE h = rememberLocked(f, Flow(p))
    BY <1>0, <2>2, RememberFits
  <2>3. CASE Answers(f, p) /\ h = Updated(f, [f.flows EXCEPT ![Reply(p)] = 0], f.swept, f.talk, f.missed)
    <3> DEFINE flows == [f.flows EXCEPT ![Reply(p)] = 0]
    <3>1. /\ f.flows \in [Flows -> 0 .. Absent] /\ f.talk \in [Flows -> 0 .. Absent]
          /\ f.missed \in SUBSET Flows /\ f.swept \in BOOLEAN
      BY DEF Filters
    <3>2. flows \in [Flows -> 0 .. Absent]
      BY <3>1, RenewedAges
    <3>3. h \in Filters
      BY <2>3, <3>1, <3>2, FilterFields
    <3>4. h.flows = flows
      BY <2>3 DEF Updated
    <3>5. f.flows[Reply(p)] # Absent
      BY <1>0, <2>3, <3>1, AbsentIsOld DEF Answers
    <3>6. InTable(flows) \subseteq InTable(f.flows)
      BY <1>0, <3>1, <3>5 DEF InTable
    <3>7. Size(flows) <= Size(f.flows) /\ Size(flows) \in Nat /\ Size(f.flows) \in Nat
      BY <3>6, NoMoreFlows, TableSize
    <3> HIDE DEF flows
    <3> QED BY <3>3, <3>4, <3>7, DeviceAssumption
  <2> QED BY <2>1, <2>2, <2>3 DEF InboundFlows
<1> HIDE DEF h
<1>2. CASE g = h
  BY <1>1, <1>2 DEF h
<1>3. CASE g = Updated(h, h.flows, h.swept, [h.talk EXCEPT ![Reply(p)] = 0], h.missed)
  <2>1. /\ h.flows \in [Flows -> 0 .. Absent] /\ h.talk \in [Flows -> 0 .. Absent]
        /\ h.missed \in SUBSET Flows /\ h.swept \in BOOLEAN
    BY <1>1 DEF Filters
  <2>2. [h.talk EXCEPT ![Reply(p)] = 0] \in [Flows -> 0 .. Absent]
    BY <2>1, RenewedAges
  <2>3. g \in Filters
    BY <1>1, <1>3, <2>1, <2>2, FilterFields
  <2>4. g.flows = h.flows
    BY <1>3 DEF Updated
  <2> QED BY <1>1, <2>3, <2>4 DEF h
<1> QED BY <1>2, <1>3 DEF Continued, h

\* Time takes no flow and adds none.
LEMMA AgedFits ==
    ASSUME NEW f \in Filters
    PROVE  Aged(f) \in Filters /\ (Size(f.flows) <= MaxFlows => Size(Aged(f).flows) <= MaxFlows)
<1> DEFINE flows == [k \in Flows |-> IF f.flows[k] <= FlowTTL THEN f.flows[k] + 1 ELSE f.flows[k]]
           talk == [k \in Flows |-> IF f.talk[k] + 1 < FlowTTL THEN f.talk[k] + 1 ELSE Absent]
           missed == {k \in f.missed : talk[k] # Absent}
<1>1. /\ f.flows \in [Flows -> 0 .. Absent] /\ f.talk \in [Flows -> 0 .. Absent]
      /\ f.missed \in SUBSET Flows
  BY DEF Filters
<1>2. flows \in [Flows -> 0 .. Absent] /\ talk \in [Flows -> 0 .. Absent]
  BY <1>1, DeviceAssumption DEF Absent
<1>3. missed \in SUBSET Flows
  BY <1>1
<1>4. Aged(f) = Updated(f, flows, FALSE, talk, missed)
  BY DEF Aged
<1>5. InTable(flows) \subseteq InTable(f.flows)
  BY <1>1, DeviceAssumption DEF InTable, Absent
<1> HIDE DEF flows, talk, missed
<1>6. Aged(f) \in Filters
  <2>1. PICK swept \in BOOLEAN : swept = FALSE
    OBVIOUS
  <2>2. Updated(f, flows, swept, talk, missed) \in Filters
    BY <1>2, <1>3, FilterFields
  <2> QED BY <1>4, <2>1, <2>2, Zenon
<1>7. Aged(f).flows = flows
  BY <1>4 DEF Updated
<1>8. Size(flows) <= Size(f.flows) /\ Size(flows) \in Nat /\ Size(f.flows) \in Nat
  BY <1>5, NoMoreFlows, TableSize
<1> QED BY <1>6, <1>7, <1>8, DeviceAssumption

------------------------------------------------------------------------------
(* What waits to be sent is for the peers of one broadcast. *)

Sendings == OutPackets \X UNION PeerSets

\* SetToSeq lists a finite set.
LEMMA ListOfSet ==
    ASSUME NEW S, IsFiniteSet(S)
    PROVE  SetToSeq(S) \in Seq(S) /\ Len(SetToSeq(S)) = Cardinality(S)
<1>1. Cardinality(S) \in Nat /\ ExistsBijection(1..Cardinality(S), S)
  BY FS_CardinalityType
<1>2. \E f \in [1..Cardinality(S) -> S] : IsInjective(f)
  BY <1>1 DEF ExistsBijection, Bijection, Injection
<1>3. SetToSeq(S) \in [1..Cardinality(S) -> S]
  BY <1>2 DEF SetToSeq
<1> QED BY <1>1, <1>3

\* A wrapped broadcast goes to each peer at most once.
LEMMA WrapFits ==
    ASSUME NEW p \in OutPackets, peers \in PeerSets
    PROVE  /\ wrap(p) \in Seq(Sendings) /\ Len(wrap(p)) <= Cardinality(peers)
           /\ Cardinality(peers) \in Nat
<1> DEFINE S == {<<p, peer>> : peer \in peers}
<1>1. IsFiniteSet(peers)
  BY DeviceAssumption
<1>2. [peer \in peers |-> <<p, peer>>] \in Surjection(peers, S)
  BY DEF Surjection
<1>3. IsFiniteSet(S) /\ Cardinality(S) <= Cardinality(peers)
  BY <1>1, <1>2, FS_Surjection
<1>4. S \subseteq Sendings
  BY DEF Sendings
<1> HIDE DEF S
<1>5. SetToSeq(S) \in Seq(S) /\ Len(SetToSeq(S)) = Cardinality(S)
  BY <1>3, ListOfSet
<1>6. SetToSeq(S) \in Seq(Sendings)
  BY <1>4, <1>5
<1>7. wrap(p) = SetToSeq(S)
  BY DEF wrap, S
<1> QED BY <1>1, <1>3, <1>5, <1>6, <1>7, FS_CardinalityType

\* Draining leaves a tail.
LEMMA DrainFits ==
    ASSUME NEW q \in Seq(Sendings), NEW n \in {0, 1}
    PROVE  drainLocked(q, n) \in Seq(Sendings) /\ Len(drainLocked(q, n)) <= Len(q)
<1>1. Batch \in Nat \ {0} /\ Len(q) \in Nat
  BY DeviceAssumption
<1>2. CASE Len(q) <= Batch - n
  BY <1>1, <1>2 DEF drainLocked
<1>3. CASE ~(Len(q) <= Batch - n)
  <2> DEFINE m == Batch - n + 1
  <2>1. m \in 1..Len(q)
    BY <1>1, <1>3
  <2> HIDE DEF m
  <2>2. drainLocked(q, n) = SubSeq(q, m, Len(q))
    BY <1>3 DEF drainLocked, m
  <2>3. Len(SubSeq(q, m, Len(q))) = Len(q) - m + 1 /\ SubSeq(q, m, Len(q)) \in Seq(Sendings)
    BY <1>1, <2>1
  <2> QED BY <1>1, <2>1, <2>2, <2>3
<1> QED BY <1>2, <1>3

WaitingOK ==
    pending \in Seq(Sendings) /\ \E ps \in PeerSets : Len(pending) <= Cardinality(ps)

\* One packet from the system replaces what waited.
LEMMA ReadFits ==
    ASSUME DeviceTypeOK, pending = <<>>, NEW p \in OutPackets, ReadPacket(p)
    PROVE  WaitingOK'
<1>0. peers \in PeerSets
  BY DEF DeviceTypeOK
<1>1. PICK q \in {<<>>, wrap(p)}, n \in {0, 1} : pending' = drainLocked(q, n)
  <2>1. <<>> \o wrap(p) = wrap(p)
    BY <1>0, WrapFits
  <2> QED BY <2>1 DEF ReadPacket
<1>2. q \in Seq(Sendings) /\ Len(q) <= Cardinality(peers) /\ Cardinality(peers) \in Nat
  <2>1. /\ wrap(p) \in Seq(Sendings) /\ Len(wrap(p)) <= Cardinality(peers)
        /\ Cardinality(peers) \in Nat
    BY <1>0, WrapFits
  <2>2. << >> \in Seq(Sendings) /\ Len(<< >>) <= Cardinality(peers)
    BY <2>1
  <2> QED BY <1>1, <2>1, <2>2
<1>3. pending' \in Seq(Sendings) /\ Len(pending') <= Len(q)
  BY <1>1, <1>2, DrainFits
<1>4. Len(pending') <= Cardinality(peers)
  BY <1>2, <1>3
<1> QED BY <1>0, <1>3, <1>4 DEF WaitingOK

\* The rest of the shape of the state.
PlainOK ==
    /\ want \in Configs /\ started \in BOOLEAN
    /\ mode \in {"on", "off", "mdns"} /\ peers \in PeerSets
    /\ counter \in 0 .. MaxPPS
FilterFits == filter \in Filters /\ Size(filter.flows) <= MaxFlows
WriterOK ==
    /\ writer.pc \in {"idle", "next", "keep"} /\ writer.cur \in BOOLEAN
    /\ writer.old \in Filters
    /\ writer.wire \in (IF writer.pc = "keep" THEN Wires ELSE {NoWire})
RouterOK ==
    /\ \A c \in {kernel, router} : \E d \in Configs : c.routes \in {{}, d.routes}
    /\ nat.on => userExit

\* The parts are the whole.
LEMMA ShapeParts ==
    PlainOK /\ FilterFits /\ WaitingOK /\ WriterOK /\ RouterOK => DeviceTypeOK
<1>1. WaitingOK => \A i \in DOMAIN pending : pending[i] \in OutPackets \X UNION PeerSets
  BY DEF WaitingOK, Sendings
<1> QED BY <1>1 DEF PlainOK, FilterFits, WaitingOK, WriterOK, RouterOK, DeviceTypeOK

ShapeOK == PlainOK /\ FilterFits /\ WaitingOK /\ WriterOK /\ RouterOK

\* The device starts with no filter, no routing and nothing on its way.
LEMMA ShapeInit == Init => ShapeOK
<1>1. SUFFICES ASSUME Init PROVE ShapeOK
  OBVIOUS
<1>2. NoFilter \in Filters /\ Size(NoFilter.flows) <= MaxFlows
  BY NewFilterTyped DEF NoFilter
<1>3. PlainOK
  <2>1. started \in BOOLEAN
    BY <1>1, Zenon DEF Init
  <2>2. PICK m \in Machines : mode = m.mode
    BY <1>1 DEF Init
  <2>3. m \in [mode : {"on", "off", "mdns"}, userExit : BOOLEAN]
    BY DeviceAssumption
  <2>4. mode \in {"on", "off", "mdns"}
    BY <2>2, <2>3
  <2>5. counter \in 0 .. MaxPPS
    BY <1>1, DeviceAssumption DEF Init
  <2>6. want \in Configs /\ peers \in PeerSets
    BY <1>1, DeviceAssumption DEF Init
  <2> QED BY <2>1, <2>4, <2>5, <2>6 DEF PlainOK
<1>4. FilterFits
  BY <1>1, <1>2 DEF Init, FilterFits
<1>5. WaitingOK
  <2>1. pending = <<>> /\ UNION PeerSets \in PeerSets /\ IsFiniteSet(UNION PeerSets)
    BY <1>1, DeviceAssumption DEF Init
  <2>2. Cardinality(UNION PeerSets) \in Nat
    BY <2>1, FS_CardinalityType
  <2> QED BY <2>1, <2>2 DEF WaitingOK
<1>6. WriterOK
  BY <1>1, <1>2 DEF Init, Resting, Writer, WriterOK
<1>7. RouterOK
  BY <1>1 DEF Init, KernelOff, NatOff, RouterOK
<1> QED BY <1>3, <1>4, <1>5, <1>6, <1>7 DEF ShapeOK

\* Every step keeps each part.
LEMMA ShapeNext == ShapeOK /\ [Next]_vars => ShapeOK'
<1>1. SUFFICES ASSUME ShapeOK, [Next]_vars PROVE ShapeOK'
  OBVIOUS
<1>0. PlainOK /\ FilterFits /\ WaitingOK /\ WriterOK /\ RouterOK /\ DeviceTypeOK
  BY <1>1, ShapeParts DEF ShapeOK
<1>p. ASSUME UNCHANGED <<want, started, mode, peers, counter>> PROVE PlainOK'
  BY <1>0, <1>p DEF PlainOK
<1>f. ASSUME UNCHANGED filter PROVE FilterFits'
  BY <1>0, <1>f DEF FilterFits, Size
<1>w. ASSUME UNCHANGED writer PROVE WriterOK'
  BY <1>0, <1>w DEF WriterOK
<1>s. ASSUME UNCHANGED pending PROVE WaitingOK'
  BY <1>0, <1>s DEF WaitingOK
<1>r. ASSUME UNCHANGED routerVars PROVE RouterOK'
  BY <1>0, <1>r DEF RouterOK, routerVars
<1>n. NoFilter \in Filters /\ Size(NoFilter.flows) <= MaxFlows
  BY NewFilterTyped DEF NoFilter
<1>2. CASE pending # <<>> /\ Read
  <2>1. pending' = drainLocked(pending, 0)
        /\ UNCHANGED <<want, started, filter, mode, peers, counter, writer, routerVars, budget>>
    BY <1>2 DEF Read
  <2>2. PICK ps \in PeerSets : Len(pending) <= Cardinality(ps)
    BY <1>0 DEF WaitingOK
  <2>3. Cardinality(ps) \in Nat
    BY DeviceAssumption, FS_CardinalityType
  <2>4. pending \in Seq(Sendings)
    BY <1>0 DEF WaitingOK
  <2>5. pending' \in Seq(Sendings) /\ Len(pending') <= Len(pending)
    BY <2>1, <2>4, DrainFits
  <2>6. Len(pending') <= Cardinality(ps)
    BY <2>2, <2>3, <2>4, <2>5
  <2>7. WaitingOK'
    BY <2>5, <2>6 DEF WaitingOK
  <2> QED BY <1>p, <1>f, <1>w, <1>r, <2>1, <2>7 DEF ShapeOK
<1>3. ASSUME pending = <<>>, NEW p \in OutPackets, ReadPacket(p) PROVE ShapeOK'
  <2>1. UNCHANGED <<want, started, mode, peers, writer, routerVars, budget>>
    BY <1>3 DEF ReadPacket
  <2>2. WaitingOK'
    BY <1>0, <1>3, ReadFits
  <2>3. FilterFits'
    <3>1. filter' = filter \/ filter' = rememberLocked(filter, Flow(p))
      BY <1>3 DEF ReadPacket, Outbound
    <3>2. Flow(p) \in Flows
      BY FlowsOfPackets
    <3>3. rememberLocked(filter, Flow(p)) \in Filters
          /\ Size(rememberLocked(filter, Flow(p)).flows) <= MaxFlows
      BY <1>0, <3>2, RememberFits DEF FilterFits
    <3>4. filter' \in Filters /\ Size(filter'.flows) <= MaxFlows
      BY <1>0, <3>1, <3>3 DEF FilterFits
    <3> QED BY <3>4 DEF FilterFits, Size
  <2>4. PlainOK'
    <3>1. counter' = counter \/ (counter < MaxPPS /\ counter' = counter + 1)
      BY <1>3 DEF ReadPacket, allow
    <3>2. counter' \in 0 .. MaxPPS
      BY <1>0, <3>1, DeviceAssumption DEF PlainOK
    <3> QED BY <1>0, <2>1, <3>2 DEF PlainOK
  <2> QED BY <1>w, <1>r, <2>1, <2>2, <2>3, <2>4 DEF ShapeOK
<1>4. CASE WriteStart \/ WriteKeep \/ WriteEnd
  <2>1. UNCHANGED <<want, started, filter, mode, peers, pending, counter, routerVars, budget>>
    BY <1>4 DEF WriteStart, WriteKeep, WriteEnd
  <2>2. PICK pc \in {"idle", "next"}, cur \in {TRUE, writer.cur}, old \in {NoFilter, writer.old} :
           writer' = Writer(pc, cur, old, NoWire, {})
    BY <1>4 DEF WriteStart, WriteKeep, WriteEnd, Resting
  <2>3. cur \in BOOLEAN
    BY <1>0, <2>2, Zenon DEF WriterOK
  <2>4. old \in Filters
    BY <1>0, <1>n, <2>2 DEF WriterOK
  <2>5. writer'.pc = pc /\ writer'.cur = cur /\ writer'.old = old /\ writer'.wire = NoWire
    BY <2>2 DEF Writer
  <2>6. writer'.cur \in BOOLEAN
    BY <2>3, <2>5, Zenon
  <2>7. WriterOK'
    BY <2>2, <2>4, <2>5, <2>6 DEF WriterOK, NoWire
  <2> QED BY <1>p, <1>f, <1>s, <1>r, <2>1, <2>7 DEF ShapeOK
<1>5. ASSUME NEW w \in Wires, WriteFilter(w) PROVE ShapeOK'
  <2> DEFINE f == IF writer.cur THEN filter ELSE writer.old
             passes == f.on /\ unwrap(w) # {} => Inbound(f, w.pkt)
             g == IF f.on /\ unwrap(w) # {} /\ passes
                  THEN Continued(InboundFlows(f, w.pkt), w.pkt) ELSE f
             old == IF writer.cur THEN writer.old ELSE g
  <2>1. UNCHANGED <<want, started, mode, peers, pending, counter, routerVars, budget>>
    BY <1>5 DEF WriteFilter
  <2>2. filter' = IF writer.cur THEN g ELSE filter
    BY <1>5 DEF WriteFilter
  <2>3. writer' = IF passes THEN Writer("keep", writer.cur, old, w, Why(f, w))
                            ELSE Writer("next", writer.cur, old, NoWire, {})
    BY <1>5 DEF WriteFilter
  <2>4. f \in Filters /\ (writer.cur => Size(f.flows) <= MaxFlows)
    BY <1>0 DEF FilterFits, WriterOK
  <2> HIDE DEF f
  <2>5. g \in Filters /\ (Size(f.flows) <= MaxFlows => Size(g.flows) <= MaxFlows)
    BY <2>4, InboundFits
  <2> HIDE DEF g, passes
  <2>6. filter' \in Filters /\ Size(filter'.flows) <= MaxFlows
    BY <1>0, <2>2, <2>4, <2>5 DEF FilterFits
  <2>7. FilterFits'
    BY <2>6 DEF FilterFits, Size
  <2>8. old \in Filters
    BY <1>0, <2>5 DEF WriterOK
  <2> HIDE DEF old
  <2>9. /\ writer'.cur = writer.cur /\ writer'.old = old
        /\ \/ writer'.pc = "keep" /\ writer'.wire = w
           \/ writer'.pc = "next" /\ writer'.wire = NoWire
    BY <2>3 DEF Writer
  <2>10. writer'.cur \in BOOLEAN
    BY <1>0, <2>9, Zenon DEF WriterOK
  <2>11. WriterOK'
    BY <2>8, <2>9, <2>10 DEF WriterOK, NoWire
  <2> QED BY <1>p, <1>s, <1>r, <2>1, <2>7, <2>11 DEF ShapeOK
<1>6. CASE SetPolicy
  <2>1. /\ filter' = NewFilter(want.pol) /\ started' = TRUE
        /\ UNCHANGED <<want, mode, peers, pending, counter, routerVars, budget>>
    BY <1>6 DEF SetPolicy, replaceFilter
  <2>2. want.pol \in {c.pol : c \in Configs}
    BY <1>0 DEF PlainOK
  <2>3. filter' \in Filters /\ Size(filter'.flows) <= MaxFlows
    BY <2>1, <2>2, NewFilterTyped
  <2>4. FilterFits'
    BY <2>3 DEF FilterFits, Size
  <2>5. writer' = writer \/ writer' = Writer(writer.pc, FALSE, filter, writer.wire, writer.why)
    BY <1>6 DEF SetPolicy, replaceFilter
  <2>6. /\ writer'.old = writer.old \/ writer'.old = filter
        /\ writer'.pc = writer.pc /\ writer'.wire = writer.wire
    BY <2>5 DEF Writer
  <2>7. writer'.cur = writer.cur \/ writer'.cur = FALSE
    BY <2>5 DEF Writer
  <2>8. writer'.cur \in BOOLEAN
    BY <1>0, <2>7, Zenon DEF WriterOK
  <2>9. WriterOK'
    BY <1>0, <2>6, <2>8 DEF WriterOK, FilterFits, NoWire
  <2>10. started' \in BOOLEAN
    BY <2>1, Zenon
  <2>11. PlainOK'
    BY <1>0, <2>1, <2>10 DEF PlainOK
  <2> QED BY <1>s, <1>r, <2>1, <2>4, <2>9, <2>11 DEF ShapeOK
<1>7. ASSUME NEW m \in {"on", "off", "mdns"}, SetMode(m) PROVE ShapeOK'
  <2>1. /\ mode' = m
        /\ UNCHANGED <<want, started, filter, peers, pending, counter, writer, routerVars>>
    BY <1>7 DEF SetMode
  <2>2. PlainOK'
    BY <1>0, <2>1 DEF PlainOK
  <2> QED BY <1>f, <1>w, <1>s, <1>r, <2>1, <2>2 DEF ShapeOK
<1>8. ASSUME NEW ps \in PeerSets, SetPeers(ps) PROVE ShapeOK'
  <2>1. /\ peers' = ps
        /\ UNCHANGED <<want, started, filter, mode, pending, counter, writer, routerVars>>
    BY <1>8 DEF SetPeers
  <2>2. PlainOK'
    BY <1>0, <2>1 DEF PlainOK
  <2> QED BY <1>f, <1>w, <1>s, <1>r, <2>1, <2>2 DEF ShapeOK
<1>9. ASSUME NEW fails, SetRouter(fails) PROVE ShapeOK'
  <2>1. UNCHANGED <<want, started, filter, mode, peers, packetVars, userExit, budget>>
    BY <1>9 DEF SetRouter
  <2>2. kernel' \in {kernel, KernelFor(want), KernelOff}
    BY <1>9 DEF SetRouter
  <2>3. router' = router \/ \E e : router' = [routes |-> want.routes, exit |-> e]
    BY <1>9 DEF SetRouter
  <2>4. nat' = nat \/ nat' = NatOff \/ (userExit /\ nat' = [on |-> TRUE, keep |-> want.routes])
    BY <1>9 DEF SetRouter
  <2>5. \E d \in Configs : kernel'.routes \in {{}, d.routes}
    BY <1>0, <2>2 DEF RouterOK, PlainOK, KernelFor, KernelOff
  <2>6. \E d \in Configs : router'.routes \in {{}, d.routes}
    BY <1>0, <2>3 DEF RouterOK, PlainOK
  <2>7. nat'.on => userExit'
    <3>1. NatOff.on = FALSE
      BY DEF NatOff
    <3> QED BY <1>0, <2>1, <2>4, <3>1 DEF RouterOK
  <2>8. RouterOK'
    BY <2>5, <2>6, <2>7 DEF RouterOK
  <2> QED BY <1>p, <1>f, <1>w, <1>s, <2>1, <2>8 DEF ShapeOK, packetVars
<1>10. ASSUME NEW c \in Configs, NewConfig(c) PROVE ShapeOK'
  <2>1. /\ want' = c
        /\ UNCHANGED <<started, filter, mode, peers, pending, counter, writer, routerVars>>
    BY <1>10 DEF NewConfig
  <2>2. PlainOK'
    BY <1>0, <2>1 DEF PlainOK
  <2> QED BY <1>f, <1>w, <1>s, <1>r, <2>1, <2>2 DEF ShapeOK
<1>11. CASE Tick
  <2>1. /\ filter' = Aged(filter) /\ counter' = 0
        /\ UNCHANGED <<want, started, mode, peers, pending, writer, routerVars, budget>>
    BY <1>11 DEF Tick
  <2>2. filter' \in Filters /\ Size(filter'.flows) <= MaxFlows
    BY <1>0, <2>1, AgedFits DEF FilterFits
  <2>3. FilterFits'
    BY <2>2 DEF FilterFits, Size
  <2>4. PlainOK'
    BY <1>0, <2>1, DeviceAssumption DEF PlainOK
  <2> QED BY <1>w, <1>s, <1>r, <2>1, <2>3, <2>4 DEF ShapeOK
<1>12. CASE UNCHANGED vars
  BY <1>p, <1>f, <1>w, <1>s, <1>r, <1>12 DEF vars, packetVars, ShapeOK
<1>13. CASE Read
  BY <1>2, <1>3, <1>13 DEF Read
<1> QED BY <1>1, <1>4, <1>5, <1>6, <1>7, <1>8, <1>9, <1>10, <1>11, <1>12, <1>13 DEF Next

\* The flow table never has more than maxFlows flows, sends wait for the peers
\* of one broadcast at most, the broadcasts of a second keep to MaxPPS, and a
\* packet between the filter and the system is one that arrived.
THEOREM DeviceKeepsItsBounds == Spec => []DeviceTypeOK
<1>1. ShapeOK => DeviceTypeOK
  BY ShapeParts DEF ShapeOK
<1> QED BY <1>1, ShapeInit, ShapeNext, PTL DEF Spec

=============================================================================
