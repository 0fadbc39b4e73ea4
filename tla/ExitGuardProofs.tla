-------------------------- MODULE ExitGuardProofs --------------------------
(***************************************************************************)
(* For any number of rooms, machines and events: the kill switch the       *)
(* daemon believes in is the one in force and outlives its exit; and as    *)
(* long as admins pick one exit at a time, one room carries the internet   *)
(* traffic, with the routes and the DNS servers that belong to it.  The    *)
(* rules themselves, of any set of interfaces and on either system, let    *)
(* nothing out that they should not, alone or while they are replaced.     *)
(***************************************************************************)
EXTENDS ExitFirewall, TLAPS

------------------------------------------------------------------------------
(* Types. *)

LEMMA Shapes ==
    /\ EmptyMap \in NetMaps /\ Unseen \in Files /\ Open \in Keys
    /\ ExitAuto \in Choices /\ ExitOff \in Choices
    /\ \A t \in Threads : AtRest(t) \in [pc : Pcs, nm : NetMaps, st : Files]
<1>1. EmptyMap \in NetMaps
  BY DEF EmptyMap, NetMaps
<1>2. ExitAuto \in Choices /\ ExitOff \in Choices
  BY DEF Choices
<1>3. Unseen \in Files
  BY <1>2 DEF Unseen, Files
<1>4. Open \in Keys
  BY DEF Open, Keys
<1>5. \A t \in Threads : AtRest(t) \in [pc : Pcs, nm : NetMaps, st : Files]
  BY <1>1, <1>3 DEF AtRest, Pcs
<1> QED  BY <1>1, <1>2, <1>3, <1>4, <1>5

\* A choice of the user (zpt exit).
LEMMA ChoiceShape ==
    ASSUME NEW c \in Choices
    PROVE  c.kind \in {"auto", "off", "pick"} /\ c.ks \in BOOLEAN /\ c.lan \in BOOLEAN
<1>1. CASE c = ExitAuto
  BY <1>1 DEF ExitAuto
<1>2. CASE c = ExitOff
  BY <1>2 DEF ExitOff
<1>3. CASE c \in [kind : {"pick"}, room : Rooms, ks : BOOLEAN, lan : BOOLEAN]
  BY <1>3
<1>4. \/ c = ExitAuto \/ c = ExitOff
      \/ c \in [kind : {"pick"}, room : Rooms, ks : BOOLEAN, lan : BOOLEAN]
  BY DEF Choices
<1> QED  BY <1>1, <1>2, <1>3, <1>4

\* updateKillSwitchLocked asks for a well-formed set of rules.
LEMMA KeyShape ==
    ASSUME ExitTypeOK, NEW nm, NEW st \in Files, NEW rs \in SUBSET Rooms
    PROVE  KillSwitchKey(nm, st, rs) \in Keys
<1>1. conf.lan \in BOOLEAN
  BY ExitAssumption DEF ExitTypeOK, ConfSpace
<1>2. st.choice.lan \in BOOLEAN
  BY ChoiceShape DEF Files
<1>3. CASE KillSwitchWanted(nm, st)
  <2>1. CASE st.choice.kind = "pick"
    BY <1>2, <1>3, <2>1 DEF KillSwitchKey, Keys
  <2>2. CASE st.choice.kind # "pick"
    BY <1>1, <1>3, <2>2 DEF KillSwitchKey, Keys
  <2> QED  BY <2>1, <2>2
<1>4. CASE ~KillSwitchWanted(nm, st)
  BY <1>4, Shapes DEF KillSwitchKey
<1> QED  BY <1>3, <1>4

LEMMA KillSwitchTyped ==
    ASSUME ExitTypeOK, NEW nm, NEW st \in Files, NEW rs \in SUBSET Rooms, NEW fails,
           updateKillSwitchLocked(nm, st, rs, fails)
    PROVE  key' \in Keys /\ rules' \in Keys /\ gone' \in BOOLEAN
<1> DEFINE k == KillSwitchKey(nm, st, rs)
<1>1. k \in Keys
  BY KeyShape
<1>2. UNCHANGED ksVars \/ (key' = k /\ rules' = k /\ gone' = FALSE)
  BY DEF updateKillSwitchLocked
<1> HIDE DEF k
<1> QED  BY <1>1, <1>2 DEF ExitTypeOK, ksVars

LEMMA DNSTyped ==
    ASSUME NEW st, NEW rs, NEW ws, updateDNSLocked(st, rs, ws)
    PROVE  dns' \in [Rooms -> {"none", "own", "room", "exit"}]
<1>1. \A r : ExitServers(st, r) \in {"none", "own", "room", "exit"}
  BY DEF ExitServers
<1> QED  BY <1>1 DEF updateDNSLocked, SetDNS

------------------------------------------------------------------------------
(* apply(). *)

\* What an apply() does to the rooms: out lose their exit, on get one, or are to
\* (where enableExit failed: bad), exit of those whose peers could be set, and
\* stuck go on as they are.
Applied(nm, st, out, on, bad, exit, stuck) ==
    /\ out = exits \ (stuck \cup (Kept(nm, st) \cap exitPeerLocked(nm, st)))
    /\ exit \subseteq exitPeerLocked(nm, st)
    /\ exit \cap stuck = {}
    /\ on = exit \ (exits \ out)
    /\ bad \subseteq on /\ (conf.user => bad = {})
    /\ runs' \subseteq Rooms /\ at' \subseteq runs'
    /\ wants' = (wants \cap stuck) \cup exit
    /\ wants' \subseteq runs'
    /\ exits' = (exits \ out) \cup (on \ bad)
    /\ exits' \subseteq wants'
    /\ IF conf.user THEN routes' = routes
       ELSE \E u : exitRoutes(out, on \ bad, bad, u)

LEMMA ApplyRooms ==
    ASSUME ExitTypeOK, NEW nm \in NetMaps, NEW st \in Files, NEW err \in Errors,
           ApplyLocked(nm, st, err)
    PROVE  \E out, on, bad, exit, stuck \in SUBSET Rooms :
              Applied(nm, st, out, on, bad, exit, stuck)
<1> DEFINE Hit(e) == IF err[1] = e THEN {err[2]} ELSE {}
           kept == Kept(nm, st)
           stuck == SetPeersFails(nm, st, Hit("peers"))
           now == kept \cup Up(nm, st, Hit("up"))
           exit == exitPeerLocked(nm, st) \cap (now \ stuck)
           out == Loses(nm, st, stuck)
           on == exit \ (exits \ out)
           bad == IF conf.user THEN {} ELSE on \cap (Hit("exit") \cup Hit("undone"))
<1>1. kept \subseteq runs /\ kept \subseteq Rooms
  BY DEF Kept, ExitTypeOK
<1>2. stuck \subseteq kept
  BY DEF SetPeersFails
<1>3. Desired(nm, st) \subseteq Rooms
  BY DEF Desired, NetMaps
<1>4. now \subseteq Rooms
  BY <1>1, <1>3 DEF Up
<1>5. out = exits \ (stuck \cup (kept \cap exitPeerLocked(nm, st)))
  BY DEF Loses
<1>6. exits \subseteq wants /\ wants \subseteq runs /\ runs \subseteq Rooms
  BY DEF ExitTypeOK
<1>7. bad \subseteq on /\ (conf.user => bad = {})
  OBVIOUS
<1>8. /\ runs' = now
      /\ at' = (at \cap kept) \cup (nm.alt \cap (now \ kept))
      /\ wants' = (wants \cap stuck) \cup exit
      /\ exits' = (exits \ out) \cup (on \ bad)
  BY DEF ApplyLocked
<1>9. IF conf.user THEN routes' = routes
      ELSE exitRoutes(out, on \ bad, bad, err[1] = "undone")
  BY DEF ApplyLocked
<1> HIDE DEF kept, stuck, now, out, bad
<1>10. exit \subseteq now /\ exit \cap stuck = {} /\ exit \subseteq exitPeerLocked(nm, st)
  OBVIOUS
<1>11. now \cap kept = kept /\ kept \subseteq now
  BY DEF now
<1>12. \A r \in kept \cap exitPeerLocked(nm, st) : r \in stuck \/ r \in exit
  BY <1>11
<1>13. exits \ out \subseteq wants'
  BY <1>5, <1>6, <1>8, <1>12
<1>14. on \subseteq exit
  OBVIOUS
<1> HIDE DEF exit, on
<1>15. at' \subseteq runs' /\ wants' \subseteq runs' /\ exits' \subseteq wants'
  BY <1>2, <1>7, <1>8, <1>10, <1>11, <1>13, <1>14
<1>16. /\ out \in SUBSET Rooms /\ on \in SUBSET Rooms /\ bad \in SUBSET Rooms
       /\ exit \in SUBSET Rooms /\ stuck \in SUBSET Rooms
  BY <1>1, <1>2, <1>4, <1>5, <1>6, <1>7, <1>10, <1>14
<1>17. on = exit \ (exits \ out)
  BY DEF on
<1>18. IF conf.user THEN routes' = routes ELSE \E u : exitRoutes(out, on \ bad, bad, u)
  BY <1>9
<1>19. out = exits \ (stuck \cup (Kept(nm, st) \cap exitPeerLocked(nm, st)))
  BY <1>5 DEF kept
<1>20. runs' \subseteq Rooms
  BY <1>4, <1>8
<1>21. wants' = (wants \cap stuck) \cup exit /\ exits' = (exits \ out) \cup (on \ bad)
  BY <1>8
<1>22. Applied(nm, st, out, on, bad, exit, stuck)
  BY <1>7, <1>10, <1>15, <1>17, <1>18, <1>19, <1>20, <1>21 DEF Applied
<1> QED  BY <1>16, <1>22

\* enableExit and disableExit keep the shape of the routes.
LEMMA RoutesTyped ==
    ASSUME ExitTypeOK, NEW out, NEW on \in SUBSET Rooms, NEW bad, NEW u,
           exitRoutes(out, on, bad, u)
    PROVE  routes' \in [dev : Rooms \cup {NoRoom}, rules : BOOLEAN]
<1> DEFINE d == IF on # {} THEN CHOOSE r \in on : TRUE
                ELSE IF routes.dev \in out THEN NoRoom ELSE routes.dev
           b == IF conf.os = "linux" THEN ipRules(out, on, bad, u) ELSE SetBypass(out, on, bad)
<1>1. routes' = [dev |-> d, rules |-> b]
  BY DEF exitRoutes
<1>2. d \in Rooms \cup {NoRoom}
  BY DEF ExitTypeOK
<1>3. b \in BOOLEAN
  BY DEF ipRules, SetBypass, ExitTypeOK
<1> HIDE DEF d, b
<1> QED  BY <1>1, <1>2, <1>3

LEMMA SpendTyped ==
    ASSUME ExitTypeOK, NEW err, Spend(err)
    PROVE  budget' \in 0 .. MaxEvents
BY ExitAssumption DEF ExitTypeOK, Spend

LEMMA ApplyTyped ==
    ASSUME ExitTypeOK, NEW t \in Threads, Apply(t)
    PROVE  ExitTypeOK'
<1> DEFINE nm == thread[t].nm
           st == thread[t].st
           T == [pc : Pcs, nm : NetMaps, st : Files]
<1>1. nm \in NetMaps /\ st \in Files
  BY DEF ExitTypeOK
<1>2. PICK err \in Errors : Spend(err) /\ ApplyLocked(nm, st, err)
  BY DEF Apply, Return
<1>3. /\ up /\ conf' = conf /\ net' = net /\ file' = file /\ up' = up /\ seen' = seen
      /\ thread' = [thread EXCEPT ![t] =
            [pc |-> IF t = "sync" THEN "poll" ELSE "final", nm |-> EmptyMap, st |-> Unseen]]
  BY DEF Apply, Return
<1>4. thread' \in [Threads -> T]
  <2>1. [pc |-> IF t = "sync" THEN "poll" ELSE "final", nm |-> EmptyMap, st |-> Unseen] \in T
    BY Shapes DEF Pcs
  <2> QED  BY <2>1, <1>3 DEF ExitTypeOK
<1>5. budget' \in 0 .. MaxEvents
  BY <1>2, SpendTyped
<1>6. last' = nm /\ updateKillSwitchLocked(nm, st, runs', err[1] = "ks")
      /\ updateDNSLocked(st, runs', wants')
  BY <1>2 DEF ApplyLocked
<1> HIDE DEF nm, st
<1>7. /\ runs' \subseteq Rooms /\ at' \subseteq runs'
      /\ wants' \subseteq runs' /\ exits' \subseteq wants'
      /\ routes' \in [dev : Rooms \cup {NoRoom}, rules : BOOLEAN]
  <2>0. PICK out, on, bad, exit, stuck \in SUBSET Rooms :
            Applied(nm, st, out, on, bad, exit, stuck)
    BY <1>1, <1>2, ApplyRooms
  <2>1. /\ runs' \subseteq Rooms /\ at' \subseteq runs'
        /\ wants' \subseteq runs' /\ exits' \subseteq wants'
        /\ IF conf.user THEN routes' = routes
           ELSE \E u : exitRoutes(out, on \ bad, bad, u)
    BY <2>0 DEF Applied
  <2>2. CASE conf.user
    BY <2>1, <2>2 DEF ExitTypeOK
  <2>3. CASE ~conf.user
    <3>1. PICK u : exitRoutes(out, on \ bad, bad, u)
      BY <2>1, <2>3
    <3>2. on \ bad \in SUBSET Rooms
      OBVIOUS
    <3> QED  BY <2>1, <3>1, <3>2, RoutesTyped
  <2> QED  BY <2>2, <2>3
<1>8. key' \in Keys /\ rules' \in Keys /\ gone' \in BOOLEAN
  BY <1>1, <1>6, <1>7, KillSwitchTyped
<1>9. dns' \in [Rooms -> {"none", "own", "room", "exit"}]
  BY <1>6, DNSTyped
<1>10. up' /\ last' \in NetMaps
  BY <1>1, <1>3, <1>6
<1> QED
  BY <1>3, <1>4, <1>5, <1>7, <1>8, <1>9, <1>10 DEF ExitTypeOK

------------------------------------------------------------------------------
(* The other steps keep the types. *)

LEMMA FlipTyped == ASSUME NEW s \in SUBSET Rooms, NEW r \in Rooms PROVE Flip(s, r) \in SUBSET Rooms
BY DEF Flip

LEMMA InitTyped == Init => ExitTypeOK
<1> SUFFICES ASSUME Init PROVE ExitTypeOK
  OBVIOUS
<1>1. net \in NetMaps /\ last \in NetMaps
  <2>1. PICK p \in PickSets : net = [in |-> Rooms, exit |-> Rooms, pick |-> p, alt |-> {}]
    BY DEF Init
  <2>2. p \in SUBSET Rooms
    BY ExitAssumption
  <2>3. net \in NetMaps
    BY <2>1, <2>2 DEF NetMaps
  <2> QED  BY <2>3, Shapes DEF Init
<1>2. file \in Files /\ seen \in Files
  BY Shapes DEF Init, Files
<1>3. thread \in [Threads -> [pc : Pcs, nm : NetMaps, st : Files]]
  BY Shapes DEF Init
<1>4. routes \in [dev : Rooms \cup {NoRoom}, rules : BOOLEAN]
  BY DEF Init
<1>5. dns \in [Rooms -> {"none", "own", "room", "exit"}]
  BY DEF Init
<1>6. key \in Keys /\ rules \in Keys /\ gone \in BOOLEAN
  BY Shapes DEF Init
<1>7. budget \in 0 .. MaxEvents
  BY ExitAssumption DEF Init
<1>8. conf \in Confs /\ up /\ runs = {} /\ at = {} /\ wants = {} /\ exits = {}
  BY DEF Init
<1> QED  BY <1>1, <1>2, <1>3, <1>4, <1>5, <1>6, <1>7, <1>8 DEF ExitTypeOK

\* The threads, without apply().
LEMMA ThreadsTyped ==
    ASSUME ExitTypeOK, PollAnswered \/ SupRead \/ Snapshot \/ SupFinal
    PROVE  ExitTypeOK'
<1> DEFINE T == [pc : Pcs, nm : NetMaps, st : Files]
<1>0. file \in Files /\ net \in NetMaps /\ last \in NetMaps /\ seen \in Files
      /\ thread \in [Threads -> T] /\ "sync" \in Threads /\ "sup" \in Threads
  BY DEF ExitTypeOK, Threads
<1>1. CASE PollAnswered
  <2>1. [pc |-> "apply", nm |-> net, st |-> file] \in T
    BY <1>0 DEF Pcs
  <2>2. thread' \in [Threads -> T]
    BY <1>0, <1>1, <2>1 DEF PollAnswered
  <2> QED  BY <1>1, <2>2 DEF PollAnswered, ExitTypeOK, roomVars, ksVars
<1>2. CASE SupRead
  <2>1. [pc |-> "snapshot", nm |-> EmptyMap, st |-> Unseen] \in T
    BY Shapes DEF Pcs
  <2>2. thread' \in [Threads -> T]
    BY <1>0, <1>2, <2>1 DEF SupRead
  <2> QED  BY <1>0, <1>2, <2>2 DEF SupRead, ExitTypeOK, roomVars, ksVars
<1>3. CASE Snapshot
  <2>1. [pc |-> "apply", nm |-> last, st |-> file] \in T
    BY <1>0 DEF Pcs
  <2>2. thread' \in [Threads -> T]
    BY <1>0, <1>3, <2>1 DEF Snapshot
  <2> QED  BY <1>3, <2>2 DEF Snapshot, ExitTypeOK, roomVars, ksVars
<1>4. CASE SupFinal
  <2>1. thread' \in [Threads -> T]
    <3>1. thread' = [thread EXCEPT !["sup"] = AtRest("sup")]
      BY <1>4 DEF SupFinal
    <3>2. AtRest("sup") \in T
      BY <1>0, Shapes
    <3> QED  BY <1>0, <3>1, <3>2
  <2>2. PICK err \in {"none", "ks"} \X {NoRoom} :
            Spend(err) /\ updateKillSwitchLocked(last, seen, runs, err[1] = "ks")
    BY <1>4 DEF SupFinal
  <2>3. budget' \in 0 .. MaxEvents
    BY <2>2, SpendTyped
  <2>4. key' \in Keys /\ rules' \in Keys /\ gone' \in BOOLEAN
    <3>1. runs \in SUBSET Rooms
      BY DEF ExitTypeOK
    <3> QED  BY <1>0, <2>2, <3>1, KillSwitchTyped
  <2>5. dns' \in [Rooms -> {"none", "own", "room", "exit"}]
    BY <1>4, DNSTyped DEF SupFinal
  <2>6. up /\ UNCHANGED <<conf, net, file, up, seen, last, runs, at, wants, exits, routes>>
    BY <1>4 DEF SupFinal, roomVars
  <2> QED  BY <2>1, <2>3, <2>4, <2>5, <2>6 DEF ExitTypeOK
<1> QED  BY <1>1, <1>2, <1>3, <1>4

\* The controller's changes.
LEMMA ChangesTyped ==
    ASSUME ExitTypeOK, NEW r \in Rooms, SetMember(r) \/ SetExitNode(r) \/ SetMemberExit(r)
    PROVE  ExitTypeOK'
<1>1. net \in NetMaps
  BY DEF ExitTypeOK
<1>2. /\ Flip(net.in, r) \in SUBSET Rooms /\ Flip(net.alt, r) \in SUBSET Rooms
      /\ Flip(net.exit, r) \in SUBSET Rooms /\ Flip(net.pick, r) \in SUBSET Rooms
  BY <1>1, FlipTyped DEF NetMaps
<1>3. /\ [net EXCEPT !.in = Flip(@, r)] \in NetMaps
      /\ [net EXCEPT !.alt = Flip(@, r)] \in NetMaps
      /\ [net EXCEPT !.exit = Flip(@, r)] \in NetMaps
      /\ [net EXCEPT !.pick = Flip(@, r)] \in NetMaps
  BY <1>1, <1>2 DEF NetMaps
<1>4. PICK nm \in NetMaps : Change(nm)
  BY <1>3 DEF SetMember, SetExitNode, SetMemberExit
<1>5. budget' \in 0 .. MaxEvents
  BY <1>4, ExitAssumption DEF Change, ExitTypeOK
<1>6. UNCHANGED <<conf, file, up, seen, thread, last, runs, at, wants, exits, routes, dns,
                  key, rules, gone>>
  BY <1>4 DEF Change, daemonVars, roomVars, ksVars
<1>7. net' \in NetMaps
  BY <1>4 DEF Change
<1> QED  BY <1>5, <1>6, <1>7 DEF ExitTypeOK

\* The commands.
LEMMA SaveTyped ==
    ASSUME ExitTypeOK, NEW st \in Files, Save(st),
           key' = key, rules' \in Keys, gone' \in BOOLEAN
    PROVE  ExitTypeOK'
<1>1. budget' \in 0 .. MaxEvents
  BY ExitAssumption DEF Save, ExitTypeOK
<1>2. UNCHANGED <<conf, net, up, seen, thread, last, runs, at, wants, exits, routes, dns>>
  BY DEF Save, daemonVars, roomVars
<1>3. file' \in Files
  BY DEF Save
<1> QED  BY <1>1, <1>2, <1>3 DEF ExitTypeOK

LEMMA CommandsTyped ==
    ASSUME ExitTypeOK,
           \/ \E r \in Rooms : cmdJoinLeave(r) \/ cmdRoomToggle(r)
           \/ \E c \in Choices : cmdExit(c)
           \/ \E d \in {"auto", "off", "own"} : cmdDNS(d)
    PROVE  ExitTypeOK'
<1>1. file \in Files /\ rules \in Keys /\ gone \in BOOLEAN /\ key.on \in BOOLEAN
  BY DEF ExitTypeOK, Keys
<1>2. ASSUME NEW r \in Rooms, cmdJoinLeave(r) \/ cmdRoomToggle(r) PROVE ExitTypeOK'
  <2>1. Flip(file.pins, r) \in SUBSET Rooms /\ Flip(file.off, r) \in SUBSET Rooms
    BY <1>1, FlipTyped DEF Files
  <2>2. /\ [file EXCEPT !.pins = Flip(@, r)] \in Files
        /\ [file EXCEPT !.off = Flip(@, r)] \in Files
    BY <1>1, <2>1 DEF Files
  <2>3. PICK st \in Files : Save(st)
    BY <1>2, <2>2 DEF cmdJoinLeave, cmdRoomToggle
  <2>4. UNCHANGED <<key, rules, gone>>
    BY <1>2 DEF cmdJoinLeave, cmdRoomToggle, ksVars
  <2> QED  BY <1>1, <2>3, <2>4, SaveTyped
<1>3. ASSUME NEW c \in Choices, cmdExit(c) PROVE ExitTypeOK'
  <2>1. [file EXCEPT !.choice = c] \in Files
    BY <1>1 DEF Files
  <2>2. Save([file EXCEPT !.choice = c])
    BY <1>3 DEF cmdExit
  <2>3. key' = key /\ rules' \in Keys
    BY <1>1, <1>3, Shapes DEF cmdExit, ksVars
  <2>4. gone' \in BOOLEAN
    BY <1>1, <1>3 DEF cmdExit, ksVars
  <2> QED  BY <2>1, <2>2, <2>3, <2>4, SaveTyped
<1>4. ASSUME NEW d \in {"auto", "off", "own"}, cmdDNS(d) PROVE ExitTypeOK'
  <2>1. [file EXCEPT !.dns = d] \in Files
    BY <1>1 DEF Files
  <2>2. Save([file EXCEPT !.dns = d]) /\ UNCHANGED <<key, rules, gone>>
    BY <1>4 DEF cmdDNS, ksVars
  <2> QED  BY <1>1, <2>1, <2>2, SaveTyped
<1> QED  BY <1>2, <1>3, <1>4

\* The end of the daemon.
LEMMA ForgetTyped ==
    ASSUME ExitTypeOK, Forget, rules' \in Keys,
           routes' \in [dev : Rooms \cup {NoRoom}, rules : BOOLEAN]
    PROVE  ExitTypeOK'
<1>1. budget' \in 0 .. MaxEvents
  BY ExitAssumption DEF Forget, ExitTypeOK
<1>2. thread' \in [Threads -> [pc : Pcs, nm : NetMaps, st : Files]]
  BY Shapes DEF Forget
<1>3. dns' \in [Rooms -> {"none", "own", "room", "exit"}]
  BY DEF Forget
<1>4. seen' \in Files /\ last' \in NetMaps /\ key' \in Keys /\ key' = Open
  BY Shapes DEF Forget
<1>5. /\ up' = FALSE /\ gone' = FALSE
      /\ runs' = {} /\ at' = {} /\ wants' = {} /\ exits' = {}
      /\ UNCHANGED <<conf, net, file>>
  BY DEF Forget
<1> QED  BY <1>1, <1>2, <1>3, <1>4, <1>5 DEF ExitTypeOK

LEMMA EndsTyped ==
    ASSUME ExitTypeOK, Close \/ Crash \/ Start
    PROVE  ExitTypeOK'
<1> DEFINE R == [dev : Rooms \cup {NoRoom}, rules : BOOLEAN]
<1>0. routes \in R /\ rules \in Keys
  BY DEF ExitTypeOK
<1>1. CASE Close
  <2>1. rules' \in Keys
    BY <1>0, <1>1, Shapes DEF Close
  <2>2. routes' \in R
    BY <1>0, <1>1 DEF Close, ClosedRoutes
  <2> QED  BY <1>1, <2>1, <2>2, ForgetTyped DEF Close
<1>2. CASE Crash
  <2>1. rules' \in Keys
    BY <1>0, <1>2, Shapes DEF Crash
  <2>2. routes' \in R
    <3>1. routes.rules \in BOOLEAN
      BY <1>0
    <3>2. (conf.os = "linux" /\ routes.rules) \in BOOLEAN
      BY <3>1
    <3> QED  BY <1>2, <3>2 DEF Crash
  <2> QED  BY <1>2, <2>1, <2>2, ForgetTyped DEF Crash
<1>3. CASE Start
  BY <1>3 DEF Start, ExitTypeOK, roomVars, ksVars
<1> QED  BY <1>1, <1>2, <1>3

LEMMA NextTyped == ExitTypeOK /\ [Next]_vars => ExitTypeOK'
<1> SUFFICES ASSUME ExitTypeOK, [Next]_vars PROVE ExitTypeOK'
  OBVIOUS
<1>1. CASE UNCHANGED vars
  BY <1>1 DEF vars, daemonVars, roomVars, ksVars, ExitTypeOK
<1>2. ASSUME NEW r \in Rooms, SetMember(r) \/ SetExitNode(r) \/ SetMemberExit(r)
      PROVE  ExitTypeOK'
  BY <1>2, ChangesTyped
<1>3. ASSUME NEW t \in Threads, Apply(t) PROVE ExitTypeOK'
  BY <1>3, ApplyTyped
<1> QED
  BY <1>1, <1>2, <1>3, ThreadsTyped, CommandsTyped, EndsTyped DEF Next

\* ExitTypeOK, of every machine and any number of rooms: what carries the
\* internet is meant to and runs, and a daemon that is down holds nothing.
THEOREM ExitTyped == Spec => []ExitTypeOK
BY InitTyped, NextTyped, PTL DEF Spec

------------------------------------------------------------------------------
(* The kill switch. *)

\* SetKillSwitch brings rules and key together, or leaves both alone.
LEMMA KeyRulesKept ==
    ASSUME KeyMeansRules, NEW nm, NEW st, NEW rs, NEW fails,
           updateKillSwitchLocked(nm, st, rs, fails)
    PROVE  KeyMeansRules'
BY DEF updateKillSwitchLocked, KeyMeansRules, ksVars

\* KeyMeansRules: for every machine, any number of rooms and any sequence of
\* netmaps, commands, failures and restarts, the rules in force are those the
\* daemon believes in (n.ksKey), unless a zpt command removed them.
THEOREM KeyIsInForce == Spec => []KeyMeansRules
<1>1. Init => KeyMeansRules
  BY DEF Init, KeyMeansRules, Open
<1>2. KeyMeansRules /\ [Next]_vars => KeyMeansRules'
  <2> SUFFICES ASSUME KeyMeansRules, [Next]_vars PROVE KeyMeansRules'
    OBVIOUS
  <2>1. CASE UNCHANGED <<key, rules, gone>>
    BY <2>1 DEF KeyMeansRules
  <2>2. ASSUME NEW t \in Threads, Apply(t) PROVE KeyMeansRules'
    <3>1. PICK err \in Errors : ApplyLocked(thread[t].nm, thread[t].st, err)
      BY <2>2 DEF Apply, Return
    <3>2. updateKillSwitchLocked(thread[t].nm, thread[t].st, runs', err[1] = "ks")
      BY <3>1 DEF ApplyLocked
    <3> QED  BY <3>2, KeyRulesKept
  <2>3. CASE SupFinal
    BY <2>3, KeyRulesKept DEF SupFinal
  <2>4. ASSUME NEW c \in Choices, cmdExit(c) PROVE KeyMeansRules'
    <3>1. UNCHANGED <<key, rules, gone>> \/ (key' = key /\ gone' = (gone \/ key.on))
      BY <2>4 DEF cmdExit, ksVars
    <3> QED  BY <2>1, <3>1 DEF KeyMeansRules
  <2>5. CASE Close \/ Crash
    <3>1. key' = Open
      BY <2>5 DEF Close, Crash, Forget
    <3>2. ~key'.on
      BY <3>1 DEF Open
    <3> QED  BY <3>2 DEF KeyMeansRules
  <2>6. ASSUME NEW r \in Rooms, SetMember(r) \/ SetExitNode(r) \/ SetMemberExit(r)
        PROVE  KeyMeansRules'
    BY <2>1, <2>6 DEF SetMember, SetExitNode, SetMemberExit, Change, ksVars
  <2>7. ASSUME NEW r \in Rooms, cmdJoinLeave(r) \/ cmdRoomToggle(r) PROVE KeyMeansRules'
    BY <2>1, <2>7 DEF cmdJoinLeave, cmdRoomToggle, ksVars
  <2>8. ASSUME NEW d, cmdDNS(d) PROVE KeyMeansRules'
    BY <2>1, <2>8 DEF cmdDNS, ksVars
  <2>9. CASE PollAnswered \/ SupRead \/ Snapshot \/ Start \/ UNCHANGED vars
    BY <2>1, <2>9 DEF PollAnswered, SupRead, Snapshot, Start, ksVars, vars
  <2> QED
    BY <2>2, <2>3, <2>4, <2>5, <2>6, <2>7, <2>8, <2>9 DEF Next
<1> QED  BY <1>1, <1>2, PTL DEF Spec

\* With a kill switch chosen, updateKillSwitchLocked does not open the machine.
LEMMA ChosenStaysOn ==
    ASSUME NEW nm, NEW st, NEW rs, NEW fails,
           updateKillSwitchLocked(nm, st, rs, fails),
           st.choice.kind = "pick", st.choice.ks, ~conf.user, rules.on
    PROVE  rules'.on
<1> DEFINE k == KillSwitchKey(nm, st, rs)
<1>1. k.on
  BY DEF KillSwitchKey, KillSwitchWanted
<1>2. rules' = rules \/ rules' = k
  BY DEF updateKillSwitchLocked, ksVars
<1> HIDE DEF k
<1> QED  BY <1>1, <1>2

\* StaysBlocked: on every machine, with any number of rooms, the kill switch a
\* user chose with an exit outlives the exit, its room and its approval.
THEOREM ChosenKillSwitchStays == Spec => StaysBlocked
<1>1. ASSUME ExitTypeOK, [Next]_vars, Guarded, rules.on, ~rules'.on
      PROVE  file' # file \/ ~up'
  <2>0. /\ file.choice.kind = "pick" /\ file.choice.ks /\ ~conf.user
        /\ seen.choice = file.choice
    BY <1>1 DEF Guarded
  <2>1. rules' # rules
    BY <1>1
  <2>2. ASSUME NEW t \in Threads, Apply(t) PROVE FALSE
    <3>1. PICK err \in Errors : ApplyLocked(thread[t].nm, thread[t].st, err)
      BY <2>2 DEF Apply, Return
    <3>2. updateKillSwitchLocked(thread[t].nm, thread[t].st, runs', err[1] = "ks")
      BY <3>1 DEF ApplyLocked
    <3>3. thread[t].st.choice = file.choice
      BY <1>1, <2>2 DEF Guarded, Apply, Return
    <3> QED  BY <1>1, <2>0, <3>2, <3>3, ChosenStaysOn
  <2>3. CASE SupFinal
    BY <1>1, <2>0, <2>3, ChosenStaysOn DEF SupFinal
  <2>4. ASSUME NEW c \in Choices, cmdExit(c) PROVE file' # file
    <3>1. c.kind # "pick"
      BY <2>1, <2>4 DEF cmdExit, ksVars
    <3>2. file' = [file EXCEPT !.choice = c] /\ file \in Files
      BY <1>1, <2>4 DEF cmdExit, Save, ExitTypeOK
    <3>3. file'.choice = c
      BY <3>2 DEF Files
    <3> QED  BY <2>0, <3>1, <3>3
  <2>5. CASE Close \/ Crash
    BY <2>5 DEF Close, Crash, Forget
  <2>6. ASSUME NEW r \in Rooms, SetMember(r) \/ SetExitNode(r) \/ SetMemberExit(r)
        PROVE  FALSE
    BY <2>1, <2>6 DEF SetMember, SetExitNode, SetMemberExit, Change, ksVars
  <2>7. ASSUME NEW r \in Rooms, cmdJoinLeave(r) \/ cmdRoomToggle(r) PROVE FALSE
    BY <2>1, <2>7 DEF cmdJoinLeave, cmdRoomToggle, ksVars
  <2>8. ASSUME NEW d, cmdDNS(d) PROVE FALSE
    BY <2>1, <2>8 DEF cmdDNS, ksVars
  <2>9. ~(PollAnswered \/ SupRead \/ Snapshot \/ Start \/ UNCHANGED vars)
    BY <2>1 DEF PollAnswered, SupRead, Snapshot, Start, ksVars, vars
  <2> QED
    BY <1>1, <2>2, <2>3, <2>4, <2>5, <2>6, <2>7, <2>8, <2>9 DEF Next
<1>2. ExitTypeOK /\ [Next]_vars =>
        [Guarded /\ rules.on /\ ~rules'.on => file' # file \/ ~up']_vars
  BY <1>1
<1> QED  BY <1>2, ExitTyped, PTL DEF Spec, StaysBlocked

------------------------------------------------------------------------------
(* One exit, its routes and its DNS servers. *)

\* Admins pick an exit for this node in one room at most at a time.
SinglePick == \A ps \in PickSets : \A r, q \in ps : r = q

\* Every netmap under way carries picks that admins made together.
PicksTogether ==
    /\ net.pick \in PickSets /\ last.pick \in PickSets
    /\ \A t \in Threads : thread[t].nm.pick \in PickSets

OneExitInv == ExitTypeOK /\ PicksTogether /\ OneExit /\ ExitPath /\ DNSWithExit

LEMMA OneExitInit == Init => OneExitInv
<1> SUFFICES ASSUME Init PROVE OneExitInv
  OBVIOUS
<1>1. ExitTypeOK
  BY InitTyped
<1>2. PicksTogether
  <2>1. net.pick \in PickSets
    BY DEF Init
  <2>2. last.pick = {}
    BY DEF Init, EmptyMap
  <2>3. \A t \in Threads : thread[t].nm.pick = {}
    BY DEF Init, AtRest, EmptyMap
  <2> QED  BY <2>1, <2>2, <2>3, ExitAssumption DEF PicksTogether
<1>3. OneExit /\ DNSWithExit
  BY DEF Init, OneExit, DNSWithExit
<1>4. ExitPath
  BY DEF Init, ExitPath
<1> QED  BY <1>1, <1>2, <1>3, <1>4 DEF OneExitInv

\* exitPeerLocked leaves at most one room, and none next to a room that has it.
LEMMA OnePeer ==
    ASSUME SinglePick, NEW nm, nm.pick \in PickSets, NEW st \in Files
    PROVE  \A r, q \in exitPeerLocked(nm, st) : r = q
<1>1. st.choice.kind \in {"auto", "off", "pick"}
  BY ChoiceShape DEF Files
<1>2. \A r, q \in Chosen(nm, st.choice) : r = q
  BY <1>1 DEF Chosen, SinglePick
<1> QED  BY <1>2 DEF exitPeerLocked

\* enableExit and disableExit follow the one room that carries the traffic.
LEMMA PathFollows ==
    ASSUME ExitTypeOK, ExitPath, ~conf.user,
           NEW out \in SUBSET Rooms, NEW on \in SUBSET Rooms, NEW bad \in SUBSET Rooms, NEW u,
           exitRoutes(out, on \ bad, bad, u), out \subseteq exits, bad \subseteq on,
           on \cap (exits \ out) = {},
           \A r, q \in (exits \ out) \cup on : r = q,
           exits' = (exits \ out) \cup (on \ bad)
    PROVE  ExitPath'
<1> DEFINE new == on \ bad
<1>1. /\ routes'.dev = IF new # {} THEN CHOOSE r \in new : TRUE
                       ELSE IF routes.dev \in out THEN NoRoom ELSE routes.dev
      /\ routes'.rules = IF conf.os = "linux" THEN ipRules(out, new, bad, u)
                         ELSE SetBypass(out, new, bad)
  BY DEF exitRoutes
<1>2. /\ \A r \in exits : routes.rules /\ routes.dev = r
      /\ routes.dev # NoRoom => routes.dev \in exits
  BY DEF ExitPath
<1>3. CASE new # {}
  <2>1. PICK n : n \in new /\ routes'.dev = n
    BY <1>1, <1>3
  <2>2. routes'.rules
    BY <1>1, <1>3 DEF ipRules, SetBypass
  <2>3. exits' = {n}
    BY <2>1
  <2> QED  BY <2>1, <2>2, <2>3 DEF ExitPath
<1>4. CASE new = {}
  <2>1. exits' = exits \ out
    BY <1>4
  <2>2. ASSUME NEW r \in exits \ out
        PROVE  routes'.rules /\ routes'.dev = r
    <3>1. routes.rules /\ routes.dev = r /\ r \notin out
      BY <1>2, <2>2
    <3>2. routes'.dev = r
      BY <1>1, <1>4, <3>1
    <3>3. on = {} /\ bad = {}
      BY <2>2
    <3>4. ~(exits \subseteq out)
      BY <2>2
    <3>5. out = {}
      BY <1>2, <2>2
    <3>6. ipRules(out, new, bad, u) /\ SetBypass(out, new, bad)
      BY <3>1, <3>3, <3>4, <3>5 DEF ipRules, SetBypass
    <3> QED  BY <1>1, <3>2, <3>6
  <2>3. routes'.dev # NoRoom => routes'.dev \in exits \ out
    BY <1>1, <1>2, <1>4
  <2> QED  BY <2>1, <2>2, <2>3 DEF ExitPath
<1> QED  BY <1>3, <1>4

\* updateDNSLocked gives the servers to one room, the exit's if there is one.
LEMMA OneCarrier ==
    ASSUME NEW st, NEW rs, NEW ws, updateDNSLocked(st, rs, ws),
           \A r, q \in ws : r = q, ws \subseteq Rooms
    PROVE  /\ \A r, q \in Rooms : dns'[r] # "none" /\ dns'[q] # "none" => r = q
           /\ \A r \in Rooms : dns'[r] # "none" /\ ws # {} => r \in ws
<1> DEFINE c == DNSCarrier(st, rs, ws)
           able == {r \in rs : OwnServers(st) \/ (st.dns # "off" /\ r \in RoomDNS)}
<1>1. \A r \in Rooms : dns'[r] # "none" => r \in c
  BY DEF updateDNSLocked, SetDNS
<1>2. \A r, q \in c : r = q
  BY DEF DNSCarrier
<1>3. ASSUME ws # {} PROVE c = ws
  <2>1. PICK w : w \in ws
    BY <1>3
  <2>2. ws = {w} /\ w \in Nat
    <3>1. w \in Rooms
      BY <2>1
    <3>2. w \in Nat
      BY <3>1, ExitAssumption
    <3> QED  BY <2>1, <3>2
  <2>3. \A q \in ws : q <= w
    BY <2>2
  <2>4. (CHOOSE r \in ws : \A q \in ws : q <= r) \in ws
    BY <2>1, <2>3
  <2>5. c = {CHOOSE r \in ws : \A q \in ws : q <= r}
    BY <1>3 DEF DNSCarrier
  <2> QED  BY <2>2, <2>4, <2>5
<1> HIDE DEF c
<1> QED  BY <1>1, <1>2, <1>3

LEMMA ApplyOneExit ==
    ASSUME SinglePick, OneExitInv, NEW t \in Threads, Apply(t)
    PROVE  OneExitInv'
<1> DEFINE nm == thread[t].nm
           st == thread[t].st
<1>0. ExitTypeOK /\ PicksTogether /\ OneExit /\ ExitPath /\ DNSWithExit
  BY DEF OneExitInv
<1>1. nm \in NetMaps /\ st \in Files /\ nm.pick \in PickSets
  BY <1>0 DEF ExitTypeOK, PicksTogether
<1>2. PICK err \in Errors : ApplyLocked(nm, st, err)
  BY DEF Apply, Return
<1>3. last' = nm /\ updateDNSLocked(st, runs', wants')
  BY <1>2 DEF ApplyLocked
<1>4. ExitTypeOK'
  BY <1>0, ApplyTyped
<1>5. PicksTogether'
  <2>1. net' = net /\ thread' = [thread EXCEPT ![t] =
            [pc |-> IF t = "sync" THEN "poll" ELSE "final", nm |-> EmptyMap, st |-> Unseen]]
    BY DEF Apply, Return
  <2>2. EmptyMap.pick \in PickSets
    BY ExitAssumption DEF EmptyMap
  <2>3. \A x \in Threads : thread'[x].nm.pick \in PickSets
    BY <1>0, <2>1, <2>2 DEF PicksTogether, ExitTypeOK
  <2> QED  BY <1>0, <1>1, <1>3, <2>1, <2>3 DEF PicksTogether
<1> HIDE DEF nm, st
<1>6. PICK out, on, bad, exit, stuck \in SUBSET Rooms :
          Applied(nm, st, out, on, bad, exit, stuck)
  BY <1>0, <1>1, <1>2, ApplyRooms
<1>7. \A r \in exit : wants \subseteq {r}
  BY <1>6 DEF exitPeerLocked, Applied
<1>8. \A r, q \in wants' : r = q
  <2>1. \A r, q \in exit : r = q
    BY <1>1, <1>6, OnePeer DEF Applied
  <2> QED  BY <1>0, <1>6, <1>7, <2>1 DEF OneExit, Applied
<1>9. ExitPath'
  <2>1. conf' = conf
    BY DEF Apply, Return
  <2>2. CASE conf.user
    BY <2>1, <2>2 DEF ExitPath
  <2>3. CASE ~conf.user
    <3>1. PICK u : exitRoutes(out, on \ bad, bad, u)
      BY <1>6, <2>3 DEF Applied
    <3>2. /\ out \subseteq exits /\ on \cap (exits \ out) = {} /\ bad \subseteq on
          /\ exits' = (exits \ out) \cup (on \ bad)
      BY <1>6 DEF Applied
    <3>3. exits \ out \subseteq wants' /\ on \subseteq wants'
      BY <1>6 DEF Applied
    <3>4. \A r, q \in (exits \ out) \cup on : r = q
      BY <1>8, <3>3
    <3>5. ExitTypeOK /\ ExitPath
      BY <1>0
    <3> QED  BY <2>3, <3>1, <3>2, <3>4, <3>5, PathFollows
  <2> QED  BY <2>2, <2>3
<1>10. DNSWithExit'
  <2>1. wants' \subseteq Rooms
    BY <1>4 DEF ExitTypeOK
  <2> QED  BY <1>3, <1>8, <2>1, OneCarrier DEF DNSWithExit
<1> QED
  BY <1>4, <1>5, <1>8, <1>9, <1>10 DEF OneExitInv, OneExit

LEMMA OneExitNext ==
    ASSUME SinglePick, OneExitInv, [Next]_vars
    PROVE  OneExitInv'
<1>0. ExitTypeOK /\ PicksTogether /\ OneExit /\ ExitPath /\ DNSWithExit
  BY DEF OneExitInv
<1>1. ExitTypeOK'
  BY <1>0, NextTyped
<1>2. ASSUME UNCHANGED <<conf, exits, wants, routes, dns>> PROVE (OneExit /\ ExitPath /\ DNSWithExit)'
  BY <1>0, <1>2 DEF OneExit, ExitPath, DNSWithExit
<1>3. ASSUME UNCHANGED <<net, last, thread>> PROVE PicksTogether'
  BY <1>0, <1>3 DEF PicksTogether
<1>4. ASSUME NEW t \in Threads, NEW v, v.nm.pick \in PickSets,
             thread' = [thread EXCEPT ![t] = v], UNCHANGED <<net, last>>
      PROVE  PicksTogether'
  BY <1>0, <1>4 DEF PicksTogether, ExitTypeOK
<1>5. {} \in PickSets /\ EmptyMap.pick = {} /\ "sync" \in Threads /\ "sup" \in Threads
  BY ExitAssumption DEF EmptyMap, Threads
<1>6. CASE PollAnswered
  <2>1. PicksTogether'
    <3> DEFINE v == [pc |-> "apply", nm |-> net, st |-> file]
    <3>1. v.nm.pick \in PickSets
      BY <1>0 DEF PicksTogether
    <3>2. thread' = [thread EXCEPT !["sync"] = v] /\ UNCHANGED <<net, last>>
      BY <1>6 DEF PollAnswered
    <3> HIDE DEF v
    <3> QED  BY <1>4, <1>5, <3>1, <3>2
  <2> QED  BY <1>1, <1>2, <1>6, <2>1 DEF PollAnswered, OneExitInv, roomVars
<1>7. CASE SupRead
  <2>1. PicksTogether'
    <3> DEFINE v == [pc |-> "snapshot", nm |-> EmptyMap, st |-> Unseen]
    <3>1. v.nm.pick \in PickSets
      BY <1>5
    <3>2. thread' = [thread EXCEPT !["sup"] = v] /\ UNCHANGED <<net, last>>
      BY <1>7 DEF SupRead
    <3> HIDE DEF v
    <3> QED  BY <1>4, <1>5, <3>1, <3>2
  <2> QED  BY <1>1, <1>2, <1>7, <2>1 DEF SupRead, OneExitInv, roomVars
<1>8. CASE Snapshot
  <2>1. PicksTogether'
    <3> DEFINE v == [pc |-> "apply", nm |-> last, st |-> file]
    <3>1. v.nm.pick \in PickSets
      BY <1>0 DEF PicksTogether
    <3>2. thread' = [thread EXCEPT !["sup"] = v] /\ UNCHANGED <<net, last>>
      BY <1>8 DEF Snapshot
    <3> HIDE DEF v
    <3> QED  BY <1>4, <1>5, <3>1, <3>2
  <2> QED  BY <1>1, <1>2, <1>8, <2>1 DEF Snapshot, OneExitInv, roomVars
<1>9. CASE SupFinal
  <2>1. PicksTogether'
    <3>1. AtRest("sup").nm.pick \in PickSets
      BY <1>5 DEF AtRest
    <3>2. thread' = [thread EXCEPT !["sup"] = AtRest("sup")] /\ UNCHANGED <<net, last>>
      BY <1>9 DEF SupFinal
    <3> QED  BY <1>4, <1>5, <3>1, <3>2
  <2>2. UNCHANGED <<conf, exits, wants, routes>> /\ updateDNSLocked(seen, runs, wants)
    BY <1>9 DEF SupFinal, roomVars
  <2>3. wants \subseteq Rooms
    BY <1>0 DEF ExitTypeOK
  <2>4. DNSWithExit'
    BY <1>0, <2>2, <2>3, OneCarrier DEF DNSWithExit, OneExit
  <2>5. OneExit' /\ ExitPath'
    BY <1>0, <2>2 DEF OneExit, ExitPath
  <2> QED  BY <1>1, <2>1, <2>4, <2>5 DEF OneExitInv
<1>10. ASSUME NEW r \in Rooms, SetMember(r) \/ SetExitNode(r) \/ SetMemberExit(r)
       PROVE  OneExitInv'
  <2>1. net \in NetMaps
    BY <1>0 DEF ExitTypeOK
  <2>2. net'.pick = net.pick \/ net'.pick \in PickSets
    <3>1. CASE SetMember(r)
      BY <2>1, <3>1 DEF SetMember, Change, NetMaps
    <3>2. CASE SetExitNode(r)
      BY <2>1, <3>2 DEF SetExitNode, Change, NetMaps
    <3>3. CASE SetMemberExit(r)
      BY <2>1, <3>3 DEF SetMemberExit, Change, NetMaps
    <3> QED  BY <1>10, <3>1, <3>2, <3>3
  <2>3. UNCHANGED <<conf, exits, wants, routes, dns, last, thread>>
    BY <1>10 DEF SetMember, SetExitNode, SetMemberExit, Change, roomVars, daemonVars
  <2>4. PicksTogether'
    BY <1>0, <2>2, <2>3 DEF PicksTogether
  <2> QED  BY <1>1, <1>2, <2>3, <2>4 DEF OneExitInv
<1>11. ASSUME NEW st, Save(st) PROVE OneExitInv'
  <2>1. UNCHANGED <<conf, exits, wants, routes, dns, net, last, thread>>
    BY <1>11 DEF Save, daemonVars, roomVars
  <2> QED  BY <1>1, <1>2, <1>3, <2>1 DEF OneExitInv
<1>12. CASE Close \/ Crash
  <2>1. Forget
    BY <1>12 DEF Close, Crash
  <2>2. \A t \in Threads : thread'[t].nm.pick \in PickSets
    BY <1>5, <2>1 DEF Forget, AtRest
  <2>3. PicksTogether'
    BY <1>0, <1>5, <2>1, <2>2 DEF PicksTogether, Forget
  <2>4. OneExit' /\ DNSWithExit'
    BY <2>1 DEF Forget, OneExit, DNSWithExit
  <2>5. ExitPath'
    <3>1. conf' = conf /\ exits' = {}
      BY <2>1 DEF Forget
    <3>2. ~conf.user => routes'.dev = NoRoom
      BY <1>0, <1>12 DEF Close, Crash, ClosedRoutes, ExitPath
    <3> QED  BY <3>1, <3>2 DEF ExitPath
  <2> QED  BY <1>1, <2>3, <2>4, <2>5 DEF OneExitInv
<1>13. CASE Start \/ UNCHANGED vars
  <2>1. UNCHANGED <<conf, exits, wants, routes, dns, net, last, thread>>
    BY <1>13 DEF Start, vars, daemonVars, roomVars
  <2> QED  BY <1>1, <1>2, <1>3, <2>1 DEF OneExitInv
<1>14. ASSUME NEW r \in Rooms, cmdJoinLeave(r) \/ cmdRoomToggle(r) PROVE OneExitInv'
  BY <1>11, <1>14 DEF cmdJoinLeave, cmdRoomToggle
<1>15. ASSUME NEW c, cmdExit(c) \/ cmdDNS(c) PROVE OneExitInv'
  BY <1>11, <1>15 DEF cmdExit, cmdDNS
<1> QED
  BY <1>6, <1>7, <1>8, <1>9, <1>10, <1>12, <1>13, <1>14, <1>15, ApplyOneExit DEF Next

\* Where admins pick one exit at a time, the invariant holds throughout.
LEMMA OneExitInvariant == ASSUME SinglePick PROVE Spec => []OneExitInv
<1>1. OneExitInv /\ [Next]_vars => OneExitInv'
  BY OneExitNext
<1> QED  BY <1>1, OneExitInit, PTL DEF Spec

\* OneExit: for any number of rooms, as long as admins pick an exit for the
\* node in one room at a time, exitPeerLocked lets one room carry the internet.
THEOREM OneRoomCarries == ASSUME SinglePick PROVE Spec => []OneExit
<1>1. OneExitInv => OneExit
  BY DEF OneExitInv
<1> QED  BY <1>1, OneExitInvariant, PTL

\* ExitPath: then the default route and the ip rules (the socket bypass on
\* Windows) are those of the room that carries the traffic, through failures of
\* enableExit, restarts of rooms and crashes.
THEOREM RoutesFollowExit == ASSUME SinglePick PROVE Spec => []ExitPath
<1>1. OneExitInv => ExitPath
  BY DEF OneExitInv
<1> QED  BY <1>1, OneExitInvariant, PTL

\* DNSWithExit: then one room at most carries DNS, and it is the exit's.
THEOREM DNSFollowsExit == ASSUME SinglePick PROVE Spec => []DNSWithExit
<1>1. OneExitInv => DNSWithExit
  BY DEF OneExitInv
<1> QED  BY <1>1, OneExitInvariant, PTL

------------------------------------------------------------------------------
(* The rules of the kill switch. *)

\* What the rules ask of a packet.
LEMMA PacketShape ==
    ASSUME NEW p \in Packets
    PROVE  /\ p.out \in BOOLEAN /\ p.v6 \in BOOLEAN
           /\ p.iface \in Interfaces \cup {Phys}
<1>1. CASE p \in DatagramsV4
  <2>1. p.out \in BOOLEAN /\ p.v6 \in {FALSE} /\ p.iface \in Interfaces \cup {Phys}
    BY <1>1 DEF DatagramsV4
  <2> QED  BY <2>1, Zenon
<1>2. CASE p \in DatagramsV6
  <2>1. p.out \in BOOLEAN /\ p.v6 \in {TRUE} /\ p.iface \in Interfaces \cup {Phys}
    BY <1>2 DEF DatagramsV6
  <2> QED  BY <2>1, Zenon
<1>3. CASE p \in Discovery
  <2>1. p.out \in BOOLEAN /\ p.v6 \in {TRUE} /\ p.iface \in {Phys}
    BY <1>3 DEF Discovery
  <2> QED  BY <2>1, Zenon
<1>4. CASE p \in OwnOrLoopback
  <2>1. p.out \in BOOLEAN /\ p.v6 \in BOOLEAN /\ p.iface \in {Phys}
    BY <1>4 DEF OwnOrLoopback
  <2> QED  BY <2>1, Zenon
<1> QED  BY <1>1, <1>2, <1>3, <1>4, Zenon DEF Packets

\* A packet is the node's own, or loopback, or not.
LEMMA OwnOrNot ==
    ASSUME NEW p \in Packets
    PROVE  p.own \in BOOLEAN /\ p.lo \in BOOLEAN
<1>1. CASE p \in DatagramsV4
  <2>1. p.own \in {FALSE} /\ p.lo \in {FALSE}
    BY <1>1 DEF DatagramsV4
  <2> QED  BY <2>1, Zenon
<1>2. CASE p \in DatagramsV6
  <2>1. p.own \in {FALSE} /\ p.lo \in {FALSE}
    BY <1>2 DEF DatagramsV6
  <2> QED  BY <2>1, Zenon
<1>3. CASE p \in Discovery
  <2>1. p.own \in {FALSE} /\ p.lo \in {FALSE}
    BY <1>3 DEF Discovery
  <2> QED  BY <2>1, Zenon
<1>4. CASE p \in OwnOrLoopback
  BY <1>4 DEF OwnOrLoopback
<1> QED  BY <1>1, <1>2, <1>3, <1>4, Zenon DEF Packets

\* The fields of a filter.
LEMMA FilterFields ==
    ASSUME NEW l, NEW w, NEW b, NEW c
    PROVE  /\ Filter(l, w, b, c).out = l[1] /\ Filter(l, w, b, c).v6 = l[2]
           /\ Filter(l, w, b, c).weight = w /\ Filter(l, w, b, c).permit = b
           /\ Filter(l, w, b, c).cond = c
BY DEF Filter

\* What a filter with one condition matches.
LEMMA OneCondition ==
    ASSUME NEW p, NEW S, NEW l, NEW w, NEW b
    PROVE  /\ Matches(Filter(l, w, b, [iface |-> S]), p)
                <=> l[1] = p.out /\ l[2] = p.v6 /\ p.iface \in S
           /\ Matches(Filter(l, w, b, [own |-> S]), p)
                <=> l[1] = p.out /\ l[2] = p.v6 /\ p.own \in S
           /\ Matches(Filter(l, w, b, [lo |-> S]), p)
                <=> l[1] = p.out /\ l[2] = p.v6 /\ p.lo \in S
           /\ Matches(Filter(l, w, b, [remote |-> S]), p)
                <=> l[1] = p.out /\ l[2] = p.v6 /\ p.remote \in S
<1>1. Matches(Filter(l, w, b, [iface |-> S]), p)
                <=> l[1] = p.out /\ l[2] = p.v6 /\ p.iface \in S
  BY FilterFields DEF Matches
<1>2. Matches(Filter(l, w, b, [own |-> S]), p)
                <=> l[1] = p.out /\ l[2] = p.v6 /\ p.own \in S
  BY FilterFields DEF Matches
<1>3. Matches(Filter(l, w, b, [lo |-> S]), p)
                <=> l[1] = p.out /\ l[2] = p.v6 /\ p.lo \in S
  BY FilterFields DEF Matches
<1>4. Matches(Filter(l, w, b, [remote |-> S]), p)
                <=> l[1] = p.out /\ l[2] = p.v6 /\ p.remote \in S
  BY FilterFields DEF Matches
<1> QED BY <1>1, <1>2, <1>3, <1>4

------------------------------------------------------------------------------
\* What permitDHCPIPv6 asks, in either direction.
LeaseV6(A) ==
    [proto |-> {"udp"}, lport |-> {546}, rport |-> {547}, remote |-> A, ll |-> {TRUE}]

\* The filters of permitDHCPIPv6.
LEMMA LeaseFilters ==
    ASSUME NEW f \in permitDHCPIPv6(12)
    PROVE  \/ f = Filter(ConnectV6, 12, TRUE, LeaseV6({"dhcpgroup"}))
           \/ f = Filter(AcceptV6, 12, TRUE, LeaseV6({"linklocal"}))
<1>1. permitDHCPIPv6(12) = {Filter(ConnectV6, 12, TRUE, LeaseV6({"dhcpgroup"})),
                            Filter(AcceptV6, 12, TRUE, LeaseV6({"linklocal"}))}
  BY Zenon DEF permitDHCPIPv6, LeaseV6
<1> QED  BY <1>1, Zenon

\* What such a filter matches is DHCP.
LEMMA LeaseConditions ==
    ASSUME NEW p, NEW l, NEW w, NEW b, NEW A, Matches(Filter(l, w, b, LeaseV6(A)), p)
    PROVE  p.proto \in {"udp"} /\ p.rport \in {547}
<1>1. /\ "proto" \in DOMAIN LeaseV6(A) /\ "rport" \in DOMAIN LeaseV6(A)
      /\ LeaseV6(A)["proto"] = {"udp"} /\ LeaseV6(A)["rport"] = {547}
  BY DEF LeaseV6
<1>2. Filter(l, w, b, LeaseV6(A)).cond = LeaseV6(A)
  BY DEF Filter
<1>3. \A x \in DOMAIN LeaseV6(A) : p[x] \in LeaseV6(A)[x]
  BY <1>2, Zenon DEF Matches
<1>4. p["proto"] \in {"udp"} /\ p["rport"] \in {547}
  BY <1>1, <1>3
<1> QED  BY <1>4

\* A packet of a layer of Windows is in the layer a filter of every layer names.
LEMMA LayerOf ==
    ASSUME NEW p \in Packets
    PROVE  <<p.out, p.v6>> \in Layers /\ <<p.out, p.v6>>[1] = p.out /\ <<p.out, p.v6>>[2] = p.v6
<1>1. p.out \in BOOLEAN /\ p.v6 \in BOOLEAN
  BY PacketShape
<1> QED  BY <1>1, Zenon DEF Layers

\* What a permitting filter lets out is wanted, or address configuration.
LEMMA PermitIsWanted ==
    ASSUME NEW rs \in Rulesets, NEW p \in Packets, p.out,
           NEW f \in Filters(rs.ifs, Allowed(rs)), f.permit, Matches(f, p)
    PROVE  MustPass(rs, p) \/ Configuration(p)
<1>1. CASE f \in permitWireGuardService(15)
  <2>1. PICK l \in Layers : f = Filter(l, 15, TRUE, [own |-> {TRUE}])
    BY <1>1, Zenon DEF permitWireGuardService
  <2>2. p.own \in {TRUE}
    BY <2>1, OneCondition, Zenon
  <2> QED  BY <2>2, Zenon DEF MustPass
<1>2. CASE f \in permitLoopback(13)
  <2>1. PICK l \in Layers : f = Filter(l, 13, TRUE, [lo |-> {TRUE}])
    BY <1>2, Zenon DEF permitLoopback
  <2>2. p.lo \in {TRUE}
    BY <2>1, OneCondition, Zenon
  <2> QED  BY <2>2, Zenon DEF MustPass
<1>3. CASE f \in UNION {permitTunInterface(12, i) : i \in rs.ifs}
  <2>1. PICK i \in rs.ifs : f \in permitTunInterface(12, i)
    BY <1>3, Zenon
  <2>2. PICK l \in Layers : f = Filter(l, 12, TRUE, [iface |-> {i}])
    BY <2>1, Zenon DEF permitTunInterface
  <2>3. p.iface \in {i}
    BY <2>2, OneCondition, Zenon
  <2> QED  BY <2>3, Zenon DEF MustPass
<1>4. CASE f \in permitRemoteNets(12, Allowed(rs))
  <2>1. PICK l \in Layers : f = Filter(l, 12, TRUE, [remote |-> Allowed(rs)])
    BY <1>4, Zenon DEF permitRemoteNets
  <2>2. p.remote \in Allowed(rs)
    BY <2>1, OneCondition, Zenon
  <2> QED  BY <2>2, Zenon DEF MustPass, Configuration, Allowed, LanPrefixes
<1>5. CASE f \in permitDHCPIPv4(12)
  <2>1. p.proto = "udp" /\ p.rport = 67
    BY <1>5 DEF permitDHCPIPv4, Filter, Matches
  <2> QED  BY <2>1 DEF Configuration
<1>6. CASE f \in permitDHCPIPv6(12)
  <2>1. \/ f = Filter(ConnectV6, 12, TRUE, LeaseV6({"dhcpgroup"}))
        \/ f = Filter(AcceptV6, 12, TRUE, LeaseV6({"linklocal"}))
    BY <1>6, LeaseFilters, Zenon
  <2>2. PICK b \in BOOLEAN : b = TRUE
    BY Zenon
  <2>3. \/ Matches(Filter(ConnectV6, 12, b, LeaseV6({"dhcpgroup"})), p)
        \/ Matches(Filter(AcceptV6, 12, b, LeaseV6({"linklocal"})), p)
    BY <2>1, <2>2, Zenon
  <2>4. p.proto \in {"udp"} /\ p.rport \in {547}
    BY <2>3, LeaseConditions
  <2> QED  BY <2>4 DEF Configuration
<1>7. CASE f \in permitNdp(12)
  <2>1. CASE f \in NdpSolicitation(12)
    <3>1. p.proto = "icmp6" /\ p.nd = 133
      BY <2>1 DEF NdpSolicitation, Filter, Matches
    <3> QED  BY <3>1 DEF Configuration
  <2>2. CASE f \in NdpFromRouter(12)
    <3>1. p.proto = "icmp6" /\ p.nd \in {134, 137}
      BY <2>2 DEF NdpFromRouter, Filter, Matches
    <3> QED  BY <3>1 DEF Configuration
  <2>3. CASE f \in NdpNeighbor(12)
    <3>1. p.proto = "icmp6" /\ p.nd \in {135, 136}
      BY <2>3 DEF NdpNeighbor, Filter, Matches
    <3> QED  BY <3>1 DEF Configuration
  <2> QED  BY <1>7, <2>1, <2>2, <2>3, Zenon DEF permitNdp
<1>8. f \notin blockAll(0)
  <2> SUFFICES ASSUME f \in blockAll(0) PROVE FALSE
    OBVIOUS
  <2>1. PICK l \in Layers : f = Filter(l, 0, FALSE, [iface |-> Interfaces \cup {Phys}])
    BY Zenon DEF blockAll
  <2>2. ~Filter(l, 0, FALSE, [iface |-> Interfaces \cup {Phys}]).permit
    BY DEF Filter
  <2> QED  BY <2>1, <2>2, Zenon
<1>9. \/ f \in permitWireGuardService(15)
      \/ f \in permitLoopback(13)
      \/ f \in UNION {permitTunInterface(12, i) : i \in rs.ifs}
      \/ f \in permitRemoteNets(12, Allowed(rs))
      \/ f \in permitDHCPIPv4(12)
      \/ f \in permitDHCPIPv6(12)
      \/ f \in permitNdp(12)
      \/ f \in blockAll(0)
  BY DEF Filters
<1> QED  BY <1>1, <1>2, <1>3, <1>4, <1>5, <1>6, <1>7, <1>8, <1>9, Zenon

\* Every packet meets a filter that blocks.
LEMMA EveryPacketBlocked ==
    ASSUME NEW rs \in Rulesets, NEW p \in Packets
    PROVE  \E f \in Filters(rs.ifs, Allowed(rs)) : Matches(f, p)
<1>1. PICK l \in Layers : l[1] = p.out /\ l[2] = p.v6
  BY LayerOf, Zenon
<1>2. p.iface \in Interfaces \cup {Phys}
  BY PacketShape
<1>3. PICK f : f = Filter(l, 0, FALSE, [iface |-> Interfaces \cup {Phys}])
  BY Zenon
<1>4. f \in blockAll(0)
  BY <1>3, Zenon DEF blockAll
<1>5. f \in Filters(rs.ifs, Allowed(rs))
  BY <1>4 DEF Filters
<1>6. PICK b \in BOOLEAN : b = FALSE
  BY Zenon
<1>7. Matches(Filter(l, 0, b, [iface |-> Interfaces \cup {Phys}]), p)
  BY <1>1, <1>2, OneCondition, Zenon
<1>8. Matches(f, p)
  BY <1>3, <1>6, <1>7, Zenon
<1> QED  BY <1>5, <1>8, Zenon

\* Nothing leaves that should not.
LEMMA OnlyWantedLeaves ==
    ASSUME NEW s \in Systems, NEW rs \in Rulesets, NEW p \in Passing(s, rs), p.out
    PROVE  MustPass(rs, p) \/ Configuration(p)
<1>1. p \in Packets
  BY Zenon DEF Passing
<1>2. CASE s = "linux"
  <2>1. LinuxPasses(rs.ifs, Allowed(rs), p)
    BY <1>2, Zenon DEF Passing
  <2> QED  BY <2>1 DEF LinuxPasses, MustPass, Configuration, Allowed, LanPrefixes
<1>3. CASE s # "linux"
  <2>1. WindowsPasses(Filters(rs.ifs, Allowed(rs)), p)
    BY <1>3, Zenon DEF Passing
  <2>2. PICK f \in Filters(rs.ifs, Allowed(rs)) : Matches(f, p) /\ f.permit
    BY <1>1, <2>1, EveryPacketBlocked, Zenon DEF WindowsPasses
  <2> QED  BY <1>1, <2>2, PermitIsWanted, Zenon
<1> QED  BY <1>2, <1>3

\* The weights: only the node's own packets and loopback are above 12.
LEMMA Weights ==
    ASSUME NEW rs \in Rulesets, NEW f \in Filters(rs.ifs, Allowed(rs))
    PROVE  \/ f.weight = 15 /\ f \in permitWireGuardService(15)
           \/ f.weight = 13 /\ f \in permitLoopback(13)
           \/ f.weight = 12
           \/ f.weight = 0
<1>0. PICK b \in BOOLEAN : b = TRUE
  BY Zenon
<1>1. CASE f \in permitWireGuardService(15)
  <2>1. PICK l \in Layers : f = Filter(l, 15, b, [own |-> {TRUE}])
    BY <1>0, <1>1, Zenon DEF permitWireGuardService
  <2>2. f.weight = 15
    BY <2>1 DEF Filter
  <2> QED  BY <1>1, <2>2, Zenon
<1>2. CASE f \in permitLoopback(13)
  <2>1. PICK l \in Layers : f = Filter(l, 13, b, [lo |-> {TRUE}])
    BY <1>0, <1>2, Zenon DEF permitLoopback
  <2>2. f.weight = 13
    BY <2>1 DEF Filter
  <2> QED  BY <1>2, <2>2, Zenon
<1>3. CASE f \in UNION {permitTunInterface(12, i) : i \in rs.ifs}
  BY <1>3 DEF permitTunInterface, Filter
<1>4. CASE f \in permitRemoteNets(12, Allowed(rs))
  BY <1>4 DEF permitRemoteNets, Filter
<1>5. CASE f \in permitDHCPIPv4(12)
  BY <1>5 DEF permitDHCPIPv4, Filter
<1>6. CASE f \in permitDHCPIPv6(12)
  <2>1. \/ f = Filter(ConnectV6, 12, TRUE, LeaseV6({"dhcpgroup"}))
        \/ f = Filter(AcceptV6, 12, TRUE, LeaseV6({"linklocal"}))
    BY <1>6, LeaseFilters, Zenon
  <2>2. \/ f = Filter(ConnectV6, 12, b, LeaseV6({"dhcpgroup"}))
        \/ f = Filter(AcceptV6, 12, b, LeaseV6({"linklocal"}))
    BY <1>0, <2>1, Zenon
  <2> QED  BY <2>2 DEF Filter
<1>7. CASE f \in permitNdp(12)
  BY <1>7 DEF permitNdp, NdpSolicitation, NdpFromRouter, NdpNeighbor, Filter
<1>8. CASE f \in blockAll(0)
  BY <1>8 DEF blockAll, Filter
<1> QED  BY <1>1, <1>2, <1>3, <1>4, <1>5, <1>6, <1>7, <1>8 DEF Filters

\* The heaviest filter a wanted packet meets permits it.
LEMMA WantedIsPermitted ==
    ASSUME NEW rs \in Rulesets, NEW p \in Packets, MustPass(rs, p)
    PROVE  \E f \in Filters(rs.ifs, Allowed(rs)) :
              /\ Matches(f, p) /\ f.permit
              /\ \A g \in Filters(rs.ifs, Allowed(rs)) : Matches(g, p) => g.weight <= f.weight
<1>1. PICK l \in Layers : l[1] = p.out /\ l[2] = p.v6
  BY LayerOf, Zenon
<1>2. PICK b \in BOOLEAN : b = TRUE
  BY Zenon
<1>3. \A w, c : Filter(l, w, b, c).weight = w /\ Filter(l, w, b, c).permit
  <2>1. \A w, c : Filter(l, w, b, c).weight = w /\ Filter(l, w, b, c).permit = b
    BY DEF Filter
  <2> QED  BY <1>2, <2>1, Zenon
<1>4. ASSUME NEW f \in permitWireGuardService(15), Matches(f, p) PROVE p.own
  <2>1. PICK k \in Layers : f = Filter(k, 15, b, [own |-> {TRUE}])
    BY <1>2, <1>4, Zenon DEF permitWireGuardService
  <2>2. p.own \in {TRUE}
    BY <1>4, <2>1, OneCondition, Zenon
  <2> QED  BY <2>2, Zenon
<1>5. ASSUME NEW f \in permitLoopback(13), Matches(f, p) PROVE p.lo
  <2>1. PICK k \in Layers : f = Filter(k, 13, b, [lo |-> {TRUE}])
    BY <1>2, <1>5, Zenon DEF permitLoopback
  <2>2. p.lo \in {TRUE}
    BY <1>5, <2>1, OneCondition, Zenon
  <2> QED  BY <2>2, Zenon
<1>6. CASE p.own
  <2>1. PICK f : f = Filter(l, 15, b, [own |-> {TRUE}])
    BY Zenon
  <2>2. f \in permitWireGuardService(15)
    BY <1>2, <2>1, Zenon DEF permitWireGuardService
  <2>3. p.own \in {TRUE}
    BY <1>6, OwnOrNot, Zenon
  <2>4. Matches(f, p) /\ f.permit /\ f.weight = 15
    BY <1>1, <1>3, <2>1, <2>3, OneCondition, Zenon
  <2>5. f \in Filters(rs.ifs, Allowed(rs))
    BY <2>2 DEF Filters
  <2>6. \A g \in Filters(rs.ifs, Allowed(rs)) : g.weight <= 15
    BY Weights
  <2> QED  BY <2>4, <2>5, <2>6
<1>7. CASE ~p.own /\ p.lo
  <2>1. PICK f : f = Filter(l, 13, b, [lo |-> {TRUE}])
    BY Zenon
  <2>2. f \in permitLoopback(13)
    BY <1>2, <2>1, Zenon DEF permitLoopback
  <2>3. p.lo \in {TRUE}
    BY <1>7, OwnOrNot, Zenon
  <2>4. Matches(f, p) /\ f.permit /\ f.weight = 13
    BY <1>1, <1>3, <2>1, <2>3, OneCondition, Zenon
  <2>5. f \in Filters(rs.ifs, Allowed(rs))
    BY <2>2 DEF Filters
  <2>6. \A g \in Filters(rs.ifs, Allowed(rs)) : Matches(g, p) => g.weight <= 13
    BY <1>4, <1>7, Weights
  <2> QED  BY <2>4, <2>5, <2>6
<1>8. ASSUME ~p.own, ~p.lo,
             NEW f \in Filters(rs.ifs, Allowed(rs)), Matches(f, p), f.permit, f.weight = 12
      PROVE  \A g \in Filters(rs.ifs, Allowed(rs)) : Matches(g, p) => g.weight <= f.weight
  BY <1>4, <1>5, <1>8, Weights
<1>9. CASE ~p.own /\ ~p.lo /\ p.iface \in rs.ifs
  <2>1. PICK f : f = Filter(l, 12, b, [iface |-> {p.iface}])
    BY Zenon
  <2>2. f \in permitTunInterface(12, p.iface)
    BY <1>2, <2>1, Zenon DEF permitTunInterface
  <2>3. Matches(f, p) /\ f.permit /\ f.weight = 12
    BY <1>1, <1>3, <2>1, OneCondition, Zenon
  <2>4. f \in UNION {permitTunInterface(12, i) : i \in rs.ifs}
    BY <1>9, <2>2, Zenon
  <2>5. f \in Filters(rs.ifs, Allowed(rs))
    BY <2>4 DEF Filters
  <2> QED  BY <1>8, <1>9, <2>3, <2>5, Zenon
<1>10. CASE ~p.own /\ ~p.lo /\ p.remote \in Allowed(rs)
  <2>1. PICK f : f = Filter(l, 12, b, [remote |-> Allowed(rs)])
    BY Zenon
  <2>2. Allowed(rs) # {}
    BY <1>10, Zenon
  <2>3. f \in permitRemoteNets(12, Allowed(rs))
    BY <1>2, <2>1, <2>2, Zenon DEF permitRemoteNets
  <2>4. Matches(f, p) /\ f.permit /\ f.weight = 12
    BY <1>1, <1>3, <1>10, <2>1, OneCondition, Zenon
  <2>5. f \in Filters(rs.ifs, Allowed(rs))
    BY <2>3 DEF Filters
  <2> QED  BY <1>8, <1>10, <2>4, <2>5, Zenon
<1>11. rs.lan /\ p.remote \in {"lan", "broadcast", "linklocal"} => p.remote \in Allowed(rs)
  BY Zenon DEF Allowed, LanPrefixes
<1> QED  BY <1>6, <1>7, <1>9, <1>10, <1>11, Zenon DEF MustPass

\* What must pass does.
LEMMA WantedPasses ==
    ASSUME NEW s \in Systems, NEW rs \in Rulesets, NEW p \in Packets, MustPass(rs, p)
    PROVE  p \in Passing(s, rs)
<1>1. CASE s = "linux"
  <2>1. LinuxPasses(rs.ifs, Allowed(rs), p)
    BY DEF LinuxPasses, MustPass, Allowed, LanPrefixes
  <2> QED  BY <1>1, <2>1, Zenon DEF Passing
<1>2. CASE s # "linux"
  <2>1. WindowsPasses(Filters(rs.ifs, Allowed(rs)), p)
    BY WantedIsPermitted, Zenon DEF WindowsPasses
  <2> QED  BY <1>2, <2>1, Zenon DEF Passing
<1> QED  BY <1>1, <1>2

\* No rule set leaks or cuts.
LEMMA RulesAreTight == Leaky = {} /\ Cutting = {}
<1>1. ASSUME NEW x \in Leaky PROVE FALSE
  <2>1. PICK s \in Systems, rs \in Rulesets :
          \E p \in Passing(s, rs) : p.out /\ ~MustPass(rs, p) /\ ~Configuration(p)
    BY <1>1 DEF Leaky
  <2> QED  BY <2>1, OnlyWantedLeaves, Zenon
<1>2. ASSUME NEW x \in Cutting PROVE FALSE
  <2>1. PICK s \in Systems, rs \in Rulesets :
          \E p \in Packets : MustPass(rs, p) /\ p \notin Passing(s, rs)
    BY <1>2 DEF Cutting
  <2> QED  BY <2>1, WantedPasses, Zenon
<1> QED  BY <1>1, <1>2, Zenon

\* No replacement opens a gap: each of its stages has one of the two rule sets.
LEMMA ReplacingIsTight == Slipping = {}
<1>1. ASSUME NEW x \in Slipping PROVE FALSE
  <2>1. PICK s \in Systems, old \in Rulesets, new \in Rulesets :
          \E p : p \in Slips(s, old, new)
    BY <1>1 DEF Slipping
  <2>2. PICK p : p \in Slips(s, old, new)
    BY <2>1, Zenon
  <2> DEFINE Passes(st) == /\ old \in st => p \in Passing(s, old)
                           /\ new \in st => p \in Passing(s, new)
  <2>3. PICK i \in 1 .. Len(Replacing(s, old, new)) :
          \/ /\ Passes(Replacing(s, old, new)[i]) /\ p.out
             /\ ~MustPass(old, p) /\ ~MustPass(new, p) /\ ~Configuration(p)
          \/ MustPass(old, p) /\ MustPass(new, p) /\ ~Passes(Replacing(s, old, new)[i])
    BY <2>2, Zenon DEF Slips
  <2>4. p \in Packets
    BY <2>2, Zenon DEF Slips
  <2>5. old \in Replacing(s, old, new)[i] \/ new \in Replacing(s, old, new)[i]
    BY DEF Replacing
  <2> QED  BY <2>3, <2>4, <2>5, OnlyWantedLeaves, WantedPasses, Zenon
<1> QED  BY <1>1, Zenon

\* The rules in force, and the machine they are on, are among those Firewall
\* is about: what SetKillSwitch was given.
RulesKnown == conf.os \in Systems /\ Given(rules) \in Rulesets

LEMMA GivenKnown == ExitTypeOK => RulesKnown
<1> SUFFICES ASSUME ExitTypeOK PROVE RulesKnown
  OBVIOUS
<1>1. conf.os \in Systems
  BY ExitAssumption DEF ExitTypeOK, ConfSpace, Systems
<1>2. rules.ifs \in SUBSET Interfaces /\ rules.lan \in BOOLEAN
  BY RoomInterfaces DEF ExitTypeOK, Keys
<1>3. Given(rules) \in Rulesets
  BY <1>2 DEF Given, Rulesets
<1> QED  BY <1>1, <1>3 DEF RulesKnown

\* Whatever rules of the kill switch are in force, and whatever became of the
\* daemon that had SetKillSwitch install them: for any number of rooms they
\* let nothing out but what they must and address configuration, and cut
\* nothing off that must get through.
THEOREM NothingLeaks == Spec => [](RulesKnown /\ NoLeak)
<1>1. NoLeak
  BY RulesAreTight, Zenon DEF NoLeak
<1> QED  BY <1>1, ExitTyped, GivenKnown, PTL

\* While SetKillSwitch replaces the rules, in one transaction of nft or with
\* two Windows sessions side by side, nothing gets out that neither set of
\* rules allows, and nothing is cut off that both must let through.
THEOREM NoMomentIsOpen == Spec => []RulesKnown /\ NoGap
<1>1. rules.on /\ rules'.on => <<conf.os, Given(rules), Given(rules')>> \notin Slipping
  BY ReplacingIsTight, Zenon
<1> QED  BY <1>1, ExitTyped, GivenKnown, PTL DEF NoGap
=============================================================================
