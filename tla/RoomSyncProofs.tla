--------------------------- MODULE RoomSyncProofs ---------------------------
(***************************************************************************)
(* Proofs about RoomSync, for any number of sync goroutines and any bounds:*)
(* the state keeps its shape, every step is one RoomView allows, and hence *)
(* a config that leaves the node out ends the ones before it.              *)
(***************************************************************************)
EXTENDS RoomSync, TLAPS

------------------------------------------------------------------------------
(* The shape of the state. *)

\* A netmap the controller could send stays one when it signs another config.
LEMMA MoreConfigs ==
    ASSUME lists \in Seq(BOOLEAN), NEW b \in BOOLEAN, lists' = Append(lists, b)
    PROVE  /\ Len(lists') = Len(lists) + 1 /\ lists' \in Seq(BOOLEAN)
           /\ Threads \subseteq Threads' /\ NetMaps \subseteq NetMaps'
           /\ \A v \in 1 .. Len(lists) : lists'[v] = lists[v]
BY DEF Threads, NetMaps, Statuses

\* The idle applier and the fixed netmaps have the right shape.
LEMMA RestOK ==
    ASSUME lists \in Seq(BOOLEAN)
    PROVE  /\ AtRest \in Threads /\ Carries(AtRest.nm)
           /\ NoMap \in NetMaps /\ Carries(NoMap)
           /\ EmptyMap \in NetMaps /\ Carries(EmptyMap)
           /\ NoState \in Files /\ Unseen \in Files
<1>1. Len(lists) \in Nat
  OBVIOUS
<1>2. NoMap \in NetMaps /\ EmptyMap \in NetMaps
  BY <1>1 DEF NetMaps, NoMap, EmptyMap, Statuses
<1>3. NoState \in Files /\ Unseen \in Files
  BY DEF NoState, Unseen, Files
<1>4. Carries(NoMap) /\ Carries(EmptyMap)
  BY DEF Carries, NoMap, EmptyMap
<1> QED
  BY <1>2, <1>3, <1>4 DEF Threads, AtRest, Pcs

\* The initial state has the right shape.
LEMMA TypeInit == Init => SyncTypeOK
<1> SUFFICES ASSUME Init PROVE SyncTypeOK
  OBVIOUS
<1>1. lists \in Seq(BOOLEAN) /\ Len(lists) = 0
  BY DEF Init
<1> QED
  BY <1>1, RestOK, SyncAssumption DEF Init, Statuses, SyncTypeOK, NetMap, Carries

\* A step of one applier that leaves it, and the rest, in shape.
LEMMA ThreadStep ==
    ASSUME SyncTypeOK, NEW t \in Appliers, NEW th \in Threads, Carries(th.nm),
           thread' = [thread EXCEPT ![t] = th], lists' = lists,
           status' = status, file' = file, last' = last,
           accepted' = accepted, running' = running, taken' = taken,
           seen' \in Files, syncer' \in Syncers \cup {NoSyncer}
    PROVE  SyncTypeOK'
<1>1. NetMaps' = NetMaps /\ Threads' = Threads
  BY DEF NetMaps, Threads
<1>2. thread' \in [Appliers -> Threads]
  BY DEF SyncTypeOK
<1>3. \A u \in Appliers : thread'[u] = IF u = t THEN th ELSE thread[u]
  BY DEF SyncTypeOK
<1>4. \A u \in Appliers : Carries(thread[u].nm)'
  BY <1>3 DEF SyncTypeOK, Carries
<1> QED
  BY <1>1, <1>2, <1>4 DEF SyncTypeOK, Carries, NetMap

\* What apply() does under n.mu: it stops the room, leaves it as it is, or
\* takes a config that is not older than the accepted one.
LEMMA ApplyCases ==
    ASSUME SyncTypeOK, NEW nm \in NetMaps, Carries(nm), NEW st \in Files,
           NEW r, ApplyLocked(nm, st, r)
    PROVE  /\ last' = nm /\ running' = r
           /\ \/ r = 0 /\ accepted' = accepted /\ taken' = taken
              \/ r = running /\ accepted' = accepted /\ taken' = taken
              \/ /\ nm.ver \in 1 .. Len(lists) /\ nm.ver >= accepted
                 /\ accepted' = nm.ver /\ taken' = taken \cup {nm.ver}
                 /\ Runs(nm.ver, r)
<1>1. Len(lists) \in Nat /\ accepted \in 0 .. Len(lists)
  BY DEF SyncTypeOK
<1>2. CASE ~Wanted(nm, st)
  BY <1>2 DEF ApplyLocked
<1>3. CASE Wanted(nm, st) /\ Rollback(nm.ver)
  BY <1>3 DEF ApplyLocked
<1>4. CASE Wanted(nm, st) /\ ~Rollback(nm.ver)
  <2>1. nm.ver \in 1 .. Len(lists)
    BY <1>1, <1>4 DEF Wanted, Carries, NetMaps
  <2>2. nm.ver >= accepted
    BY <1>1, <1>4, <2>1 DEF Rollback
  <2>3. /\ last' = nm /\ running' = r
        /\ accepted' = nm.ver /\ taken' = taken \cup {nm.ver}
        /\ Runs(nm.ver, r)
    BY <1>4, Zenon DEF ApplyLocked
  <2> QED
    BY <2>1, <2>2, <2>3
<1> QED
  BY <1>2, <1>3, <1>4

\* Applying a netmap keeps the shape: the room runs with nothing, with what
\* it ran with, or with the config just taken.
LEMMA ApplyType ==
    ASSUME SyncTypeOK, NEW t \in Appliers, Apply(t)
    PROVE  SyncTypeOK'
<1> DEFINE nm == thread[t].nm
           th == [AtRest EXCEPT !.pc = Return(t)]
<1>1. nm \in NetMaps /\ Carries(nm) /\ lists \in Seq(BOOLEAN)
  BY DEF SyncTypeOK, Threads
<1>2. PICK r \in 0 .. MaxConfigs : ApplyLocked(nm, thread[t].st, r)
  BY DEF Apply
<1>3. Len(lists) \in Nat /\ accepted \in 0 .. Len(lists) /\ running \in 0 .. Len(lists)
  BY <1>1 DEF SyncTypeOK
<1>4. thread[t].st \in Files
  BY DEF SyncTypeOK, Threads
<1>5. /\ accepted' \in 0 .. Len(lists) /\ running' \in 0 .. Len(lists)
      /\ taken' \subseteq 1 .. accepted' /\ last' = nm
  <2> HIDE DEF nm
  <2>1. taken \subseteq 1 .. accepted
    BY DEF SyncTypeOK
  <2>2. /\ last' = nm /\ running' = r
        /\ \/ r = 0 /\ accepted' = accepted /\ taken' = taken
           \/ r = running /\ accepted' = accepted /\ taken' = taken
           \/ /\ nm.ver \in 1 .. Len(lists) /\ nm.ver >= accepted
              /\ accepted' = nm.ver /\ taken' = taken \cup {nm.ver}
              /\ Runs(nm.ver, r)
    BY <1>1, <1>2, <1>4, ApplyCases
  <2>3. Runs(nm.ver, r) => r \in {nm.ver, running, 0}
    BY DEF Runs
  <2>4. accepted' \in 0 .. Len(lists) /\ running' \in 0 .. Len(lists)
    BY <1>3, <2>2, <2>3
  <2>5. taken' \subseteq 1 .. accepted'
    <3>1. \/ taken' = taken /\ accepted' = accepted
          \/ /\ nm.ver \in 1 .. Len(lists) /\ nm.ver >= accepted
             /\ accepted' = nm.ver /\ taken' = taken \cup {nm.ver}
      BY <2>2
    <3>2. CASE taken' = taken /\ accepted' = accepted
      BY <2>1, <3>2
    <3>3. CASE /\ nm.ver \in 1 .. Len(lists) /\ nm.ver >= accepted
               /\ accepted' = nm.ver /\ taken' = taken \cup {nm.ver}
      <4>1. accepted \in Nat /\ nm.ver \in Nat /\ 1 <= nm.ver
        BY <1>3, <3>3
      <4>2. ASSUME NEW w \in taken' PROVE w \in 1 .. nm.ver
        BY <2>1, <3>3, <4>1, <4>2
      <4> QED
        BY <3>3, <4>2
    <3> QED
      BY <3>1, <3>2, <3>3
  <2> QED
    BY <2>2, <2>4, <2>5
<1>6. th \in Threads /\ Carries(th.nm)
  BY <1>1, RestOK DEF Threads, AtRest, Return, Pcs
<1>7. thread' = [thread EXCEPT ![t] = th]
      /\ UNCHANGED <<lists, status, file, seen, syncer>>
  BY DEF Apply, ctlVars, supVars
<1>8. NetMaps' = NetMaps /\ Threads' = Threads
  BY <1>7 DEF NetMaps, Threads
<1>9. \A u \in Appliers : thread'[u] = IF u = t THEN th ELSE thread[u]
  BY <1>7 DEF SyncTypeOK
<1>10. thread' \in [Appliers -> Threads]
  BY <1>6, <1>7 DEF SyncTypeOK
<1>11. \A u \in Appliers : Carries(thread[u].nm)'
  BY <1>6, <1>9 DEF SyncTypeOK, Carries
<1> HIDE DEF nm, th
<1> QED
  BY <1>1, <1>5, <1>7, <1>8, <1>10, <1>11 DEF SyncTypeOK, Carries, NetMap

\* Steps of the controller, the commands and the restart keep the shape.
LEMMA OutsideType ==
    ASSUME SyncTypeOK
    PROVE  /\ \A st \in Statuses : SignConfig(st) => SyncTypeOK'
           /\ \A st \in Files : Command(st) => SyncTypeOK'
           /\ Restart => SyncTypeOK'
<1>1. ASSUME NEW st \in Statuses, SignConfig(st) PROVE SyncTypeOK'
  <2>1. /\ lists' \in Seq(BOOLEAN) /\ Len(lists') = Len(lists) + 1
        /\ Threads \subseteq Threads' /\ NetMaps \subseteq NetMaps'
    BY <1>1, MoreConfigs DEF SignConfig, SyncTypeOK
  <2>2. Len(lists) \in Nat /\ Len(lists) < MaxConfigs
    BY <1>1 DEF SignConfig, SyncTypeOK
  <2>3. UNCHANGED <<file, thread, seen, syncer, last, accepted, running, taken>>
    BY <1>1 DEF SignConfig, supVars, nodeVars
  <2>4. thread' \in [Appliers -> Threads']
    BY <2>1, <2>3 DEF SyncTypeOK
  <2> QED
    BY <1>1, <2>1, <2>2, <2>3, <2>4, SyncAssumption DEF SyncTypeOK, SignConfig, Carries, NetMap
<1>2. ASSUME NEW st \in Files, Command(st) PROVE SyncTypeOK'
  BY <1>2 DEF SyncTypeOK, Command, ctlVars, supVars, nodeVars, Carries, NetMaps, Threads, NetMap
<1>3. ASSUME Restart PROVE SyncTypeOK'
  <2>1. NetMaps' = NetMaps /\ Threads' = Threads
    BY <1>3 DEF Restart, NetMaps, Threads, ctlVars
  <2>2. AtRest \in Threads /\ Carries(AtRest.nm) /\ NoMap \in NetMaps
        /\ Carries(NoMap) /\ Unseen \in Files
    BY RestOK DEF SyncTypeOK
  <2>3. thread' \in [Appliers -> Threads]
        /\ \A u \in Appliers : Carries(thread[u].nm)'
    BY <1>3, <2>2 DEF Restart, Carries
  <2> QED
    BY <1>3, <2>1, <2>2, <2>3 DEF Restart, SyncTypeOK, ctlVars, Carries, NetMap
<1> QED
  BY <1>1, <1>2, <1>3

\* Steps that only move an applier keep the shape.
LEMMA MoveType ==
    ASSUME SyncTypeOK, NEW t \in Appliers
    PROVE  /\ Load(t) => SyncTypeOK'
           /\ Snapshot(t) => SyncTypeOK'
<1>1. /\ thread[t] \in Threads /\ Carries(thread[t].nm) /\ file \in Files
      /\ seen \in Files /\ syncer \in Syncers \cup {NoSyncer}
      /\ last \in NetMaps /\ Carries(last)
  BY DEF SyncTypeOK
<1>2. ASSUME Load(t) PROVE SyncTypeOK'
  <2> DEFINE th == [thread[t] EXCEPT !.pc = "apply", !.st = file]
  <2>1. th \in Threads /\ Carries(th.nm)
    BY <1>1 DEF Threads, Pcs, Carries
  <2>2. thread' = [thread EXCEPT ![t] = th]
    BY <1>2 DEF Load, SyncTypeOK
  <2> HIDE DEF th
  <2> QED
    BY <1>1, <1>2, <2>1, <2>2, ThreadStep DEF Load, ctlVars, supVars, nodeVars
<1>3. ASSUME Snapshot(t) PROVE SyncTypeOK'
  <2> DEFINE th == IF last = NoMap THEN [thread[t] EXCEPT !.pc = Return(t)]
                   ELSE [thread[t] EXCEPT !.pc = "load", !.nm = last]
  <2>1. th \in Threads /\ Carries(th.nm)
    BY <1>1 DEF Threads, Pcs, Carries, Return
  <2>2. thread' = [thread EXCEPT ![t] = th]
    BY <1>3 DEF Snapshot, SyncTypeOK
  <2> HIDE DEF th
  <2> QED
    BY <1>1, <1>3, <2>1, <2>2, ThreadStep DEF Snapshot, ctlVars, supVars, nodeVars
<1> QED
  BY <1>2, <1>3

\* Steps of sync and supervise keep the shape.
LEMMA LoopType ==
    ASSUME SyncTypeOK
    PROVE  /\ \A t \in Syncers : PollAnswered(t) => SyncTypeOK'
           /\ \A t \in Syncers : SyncEnds(t) => SyncTypeOK'
           /\ \A t \in Syncers : SupStart(t) => SyncTypeOK'
           /\ SupRead => SyncTypeOK'
           /\ SupCancel => SyncTypeOK'
           /\ SupSleep => SyncTypeOK'
<1>1. /\ thread \in [Appliers -> Threads] /\ file \in Files /\ seen \in Files
      /\ syncer \in Syncers \cup {NoSyncer}
      /\ \A t \in Appliers : thread[t] \in Threads /\ Carries(thread[t].nm)
  BY DEF SyncTypeOK
<1>2. "sup" \in Appliers /\ \A t \in Syncers : t \in Appliers /\ t # "sup"
  BY SyncAssumption DEF Appliers
<1>3. \A t \in Appliers, pc \in Pcs :
        [thread[t] EXCEPT !.pc = pc] \in Threads
        /\ Carries([thread[t] EXCEPT !.pc = pc].nm)
  BY <1>1 DEF Threads, Carries
<1>4. ASSUME NEW t \in Syncers, PollAnswered(t) PROVE SyncTypeOK'
  <2> DEFINE th == [thread[t] EXCEPT !.pc = "load", !.nm = NetMap]
  <2>1. lists \in Seq(BOOLEAN) /\ Len(lists) \in Nat /\ status \in Statuses
    BY DEF SyncTypeOK
  <2>2. NetMap \in NetMaps
    BY <2>1 DEF NetMap, NetMaps, Statuses
  <2>3. Carries(NetMap)
    BY DEF SyncTypeOK
  <2>4. th \in Threads /\ Carries(th.nm)
    BY <1>1, <1>2, <2>2, <2>3 DEF Threads, Pcs, Carries
  <2>5. thread' = [thread EXCEPT ![t] = th]
    BY <1>1, <1>2, <1>4 DEF PollAnswered
  <2> HIDE DEF th
  <2> QED
    BY <1>1, <1>2, <1>4, <2>4, <2>5, ThreadStep DEF PollAnswered, ctlVars, supVars, nodeVars
<1>5. ASSUME NEW t \in Syncers, SyncEnds(t) PROVE SyncTypeOK'
  <2> DEFINE th == [thread[t] EXCEPT !.pc = "idle"]
  <2>1. th \in Threads /\ Carries(th.nm)
    BY <1>2, <1>3 DEF Pcs
  <2>2. thread' = [thread EXCEPT ![t] = th]
    BY <1>1, <1>2, <1>5 DEF SyncEnds, Goto
  <2> HIDE DEF th
  <2> QED
    BY <1>1, <1>2, <1>5, <2>1, <2>2, ThreadStep DEF SyncEnds, ctlVars, supVars, nodeVars
<1>6. ASSUME NEW t \in Syncers, SupStart(t) PROVE SyncTypeOK'
  <2>1. NetMaps' = NetMaps /\ Threads' = Threads
    BY <1>6 DEF SupStart, NetMaps, Threads, ctlVars
  <2>2. \A u \in Appliers : thread'[u] =
            IF u = t THEN [thread[u] EXCEPT !.pc = "poll"]
            ELSE IF u = "sup" THEN [thread[u] EXCEPT !.pc = "idle"] ELSE thread[u]
    BY <1>1, <1>2, <1>6 DEF SupStart
  <2>3. \A u \in Appliers : thread'[u] \in Threads /\ Carries(thread[u].nm)'
    <3> SUFFICES ASSUME NEW u \in Appliers
                 PROVE  thread'[u] \in Threads /\ Carries(thread'[u].nm)
      BY DEF Carries
    <3>1. "poll" \in Pcs /\ "idle" \in Pcs
      BY DEF Pcs
    <3>2. \/ thread'[u] = thread[u]
          \/ \E pc \in Pcs : thread'[u] = [thread[u] EXCEPT !.pc = pc]
      BY <2>2, <3>1
    <3> QED
      BY <1>1, <1>3, <3>2
  <2>4. thread' \in [Appliers -> Threads]
    <3>1. thread' = [u \in Appliers |-> thread'[u]]
      BY <1>1, <1>6 DEF SupStart
    <3> QED
      BY <2>3, <3>1
  <2> QED
    BY <1>1, <1>6, <2>1, <2>3, <2>4 DEF SupStart, SyncTypeOK, ctlVars, nodeVars, Carries, NetMap
<1>7. ASSUME SupRead PROVE SyncTypeOK'
  <2> DEFINE th == [thread["sup"] EXCEPT !.pc =
                        IF file # seen THEN "snapshot" ELSE "syncers"]
  <2>1. th \in Threads /\ Carries(th.nm)
    BY <1>2, <1>3 DEF Pcs
  <2>2. thread' = [thread EXCEPT !["sup"] = th]
    BY <1>1, <1>2, <1>7 DEF SupRead, Goto
  <2> HIDE DEF th
  <2> QED
    BY <1>1, <1>2, <1>7, <2>1, <2>2, ThreadStep DEF SupRead, ctlVars, nodeVars
<1>8. ASSUME SupCancel PROVE SyncTypeOK'
  <2> DEFINE th == [thread["sup"] EXCEPT !.pc = "load", !.nm = EmptyMap]
  <2>1. EmptyMap \in NetMaps /\ Carries(EmptyMap)
    BY RestOK DEF SyncTypeOK
  <2>2. th \in Threads /\ Carries(th.nm)
    BY <1>1, <1>2, <2>1 DEF Threads, Pcs, Carries
  <2>3. thread' = [thread EXCEPT !["sup"] = th]
    BY <1>1, <1>2, <1>8 DEF SupCancel
  <2> HIDE DEF th
  <2> QED
    BY <1>1, <1>2, <1>8, <2>2, <2>3, ThreadStep DEF SupCancel, ctlVars, nodeVars
<1>9. ASSUME SupSleep PROVE SyncTypeOK'
  <2> DEFINE th == [thread["sup"] EXCEPT !.pc = "idle"]
  <2>1. th \in Threads /\ Carries(th.nm)
    BY <1>2, <1>3 DEF Pcs
  <2>2. thread' = [thread EXCEPT !["sup"] = th]
    BY <1>1, <1>2, <1>9 DEF SupSleep, Goto
  <2> HIDE DEF th
  <2> QED
    BY <1>1, <1>2, <1>9, <2>1, <2>2, ThreadStep DEF SupSleep, ctlVars, supVars, nodeVars
<1> QED
  BY <1>4, <1>5, <1>6, <1>7, <1>8, <1>9

\* Steps of gossip and path discovery keep the shape.
LEMMA ExtraType ==
    ASSUME SyncTypeOK
    PROVE  /\ PathFound => SyncTypeOK'
           /\ \A v \in 1 .. Len(lists) : GossipFetched(v) => SyncTypeOK'
           /\ GossipMerged => SyncTypeOK'
<1>1. /\ thread \in [Appliers -> Threads] /\ seen \in Files
      /\ syncer \in Syncers \cup {NoSyncer}
      /\ \A t \in Appliers : thread[t] \in Threads /\ Carries(thread[t].nm)
      /\ lists \in Seq(BOOLEAN)
  BY DEF SyncTypeOK
<1>2. \A t \in Extra : t \in Appliers
  BY DEF Appliers
<1>3. ASSUME PathFound PROVE SyncTypeOK'
  <2> DEFINE th == [thread["path"] EXCEPT !.pc = "snapshot"]
  <2>1. th \in Threads /\ Carries(th.nm) /\ "path" \in Appliers
    BY <1>1, <1>2, <1>3 DEF PathFound, Threads, Pcs, Carries
  <2>2. thread' = [thread EXCEPT !["path"] = th]
    BY <1>1, <1>2, <1>3 DEF PathFound, Goto
  <2> HIDE DEF th
  <2> QED
    BY <1>1, <1>3, <2>1, <2>2, ThreadStep DEF PathFound, ctlVars, supVars, nodeVars
<1>4. ASSUME NEW v \in 1 .. Len(lists), GossipFetched(v) PROVE SyncTypeOK'
  <2> DEFINE nm == [status |-> "active", ver |-> v]
             th == [thread["gossip"] EXCEPT !.pc = "fetched", !.nm = nm]
  <2>1. nm \in NetMaps /\ Carries(nm) /\ "gossip" \in Appliers
    BY <1>1, <1>2, <1>4 DEF GossipFetched, NetMaps, Statuses, Carries
  <2>2. thread' = [thread EXCEPT !["gossip"] = th]
    BY <1>1, <2>1, <1>4 DEF GossipFetched
  <2>3. th \in Threads /\ th.nm = nm
    <3> HIDE DEF nm
    <3> QED
      BY <1>1, <2>1 DEF Threads, Pcs
  <2> HIDE DEF th, nm
  <2> QED
    BY <1>1, <1>4, <2>1, <2>2, <2>3, ThreadStep DEF GossipFetched, ctlVars, supVars, nodeVars
<1>5. ASSUME GossipMerged PROVE SyncTypeOK'
  <2> DEFINE th == IF running # 0 /\ last.status # "none"
                   THEN [thread["gossip"] EXCEPT !.pc = "load"] ELSE AtRest
  <2>1. "gossip" \in Appliers /\ AtRest \in Threads /\ Carries(AtRest.nm)
    BY <1>1, <1>2, <1>5, RestOK DEF GossipMerged
  <2>2. thread' = [thread EXCEPT !["gossip"] = th]
    BY <1>1, <2>1, <1>5 DEF GossipMerged
  <2>3. [thread["gossip"] EXCEPT !.pc = "load"] \in Threads
        /\ Carries([thread["gossip"] EXCEPT !.pc = "load"].nm)
    BY <1>1, <2>1 DEF Threads, Pcs, Carries
  <2>4. th \in Threads /\ Carries(th.nm)
    BY <2>1, <2>3
  <2> HIDE DEF th
  <2> QED
    BY <1>1, <1>5, <2>1, <2>2, <2>4, ThreadStep DEF GossipMerged, ctlVars, supVars, nodeVars
<1> QED
  BY <1>3, <1>4, <1>5

\* Every step keeps the shape.
LEMMA TypeStep == SyncTypeOK /\ [Next]_vars => SyncTypeOK'
<1> SUFFICES ASSUME SyncTypeOK, [Next]_vars PROVE SyncTypeOK'
  OBVIOUS
<1>1. CASE UNCHANGED vars
  BY <1>1 DEF vars, ctlVars, supVars, nodeVars, SyncTypeOK, NetMaps, Threads, NetMap, Carries
<1>2. CASE Next
  <2>1. CASE (\E st \in Statuses : SignConfig(st)) \/ (\E st \in Files : Command(st)) \/ Restart
    BY <2>1, OutsideType
  <2>2. CASE \E t \in Appliers : Load(t) \/ Apply(t) \/ Snapshot(t)
    BY <2>2, MoveType, ApplyType
  <2>3. CASE \/ \E t \in Syncers : PollAnswered(t) \/ SyncEnds(t) \/ SupStart(t)
             \/ SupRead \/ SupCancel \/ SupSleep
    BY <2>3, LoopType
  <2>4. CASE PathFound \/ (\E v \in 1 .. Len(lists) : GossipFetched(v)) \/ GossipMerged
    BY <2>4, ExtraType
  <2> QED
    BY <1>2, <2>1, <2>2, <2>3, <2>4 DEF Next
<1> QED
  BY <1>1, <1>2

\* The node's state keeps its shape, and no applier ever holds an active
\* membership without a config or a config without one.
THEOREM SyncTyped == Spec => []SyncTypeOK
  BY TypeInit, TypeStep, PTL DEF Spec

------------------------------------------------------------------------------
(* RoomSync implements RoomView. *)

\* Every step of the node is a step of RoomView or leaves its state alone.
LEMMA ViewStep == SyncTypeOK /\ [Next]_vars => [View!ViewNext]_(View!viewVars)
<1> SUFFICES ASSUME SyncTypeOK, [Next]_vars
             PROVE  View!ViewNext \/ UNCHANGED View!viewVars
  BY DEF View!viewVars
<1> USE DEF View!viewVars
<1>1. CASE UNCHANGED vars
  BY <1>1 DEF vars, ctlVars, nodeVars
<1>2. ASSUME NEW st \in Statuses, SignConfig(st)
      PROVE  View!ViewNext
  BY <1>2 DEF SignConfig, nodeVars, View!ViewNext, View!Sign
<1>3. ASSUME NEW t \in Appliers, Apply(t)
      PROVE  View!ViewNext \/ UNCHANGED View!viewVars
  <2> DEFINE nm == thread[t].nm
  <2>1. nm \in NetMaps /\ Carries(nm) /\ thread[t].st \in Files
    BY DEF SyncTypeOK, Threads
  <2>2. PICK r \in 0 .. MaxConfigs : ApplyLocked(nm, thread[t].st, r)
    BY <1>3 DEF Apply
  <2>3. lists' = lists
    BY <1>3 DEF Apply, ctlVars
  <2> HIDE DEF nm
  <2>4. /\ running' = r
        /\ \/ r = 0 /\ accepted' = accepted /\ taken' = taken
           \/ r = running /\ accepted' = accepted /\ taken' = taken
           \/ /\ nm.ver \in 1 .. Len(lists) /\ nm.ver >= accepted
              /\ accepted' = nm.ver /\ taken' = taken \cup {nm.ver}
              /\ Runs(nm.ver, r)
    BY <2>1, <2>2, ApplyCases
  <2>5. CASE r = 0 /\ accepted' = accepted /\ taken' = taken
    BY <2>3, <2>4, <2>5 DEF View!ViewNext, View!Stop
  <2>6. CASE r = running /\ accepted' = accepted /\ taken' = taken
    BY <2>3, <2>4, <2>6
  <2>7. CASE /\ nm.ver \in 1 .. Len(lists) /\ nm.ver >= accepted
             /\ accepted' = nm.ver /\ taken' = taken \cup {nm.ver}
             /\ Runs(nm.ver, r)
    <3>1. View!Take(nm.ver)
      BY <2>3, <2>4, <2>7 DEF View!Take, Runs
    <3> QED
      BY <2>7, <3>1 DEF View!ViewNext
  <2> QED
    BY <2>4, <2>5, <2>6, <2>7
<1>4. ASSUME Restart PROVE View!ViewNext
  BY <1>4 DEF Restart, ctlVars, View!ViewNext, View!Forget
<1>5. CASE \/ \E st \in Files : Command(st)
           \/ \E t \in Appliers : Load(t) \/ Snapshot(t)
           \/ \E t \in Syncers : PollAnswered(t) \/ SyncEnds(t) \/ SupStart(t)
  BY <1>5 DEF Command, Load, Snapshot, PollAnswered, SyncEnds, SupStart, ctlVars, nodeVars
<1>6. CASE \/ SupRead \/ SupCancel \/ SupSleep \/ PathFound \/ GossipMerged
           \/ \E v \in 1 .. Len(lists) : GossipFetched(v)
  BY <1>6 DEF SupRead, SupCancel, SupSleep, PathFound, GossipMerged, GossipFetched,
              ctlVars, nodeVars
<1> QED
  BY <1>1, <1>2, <1>3, <1>4, <1>5, <1>6 DEF Next

\* Whatever the interleaving of sync, supervise, gossip and path discovery,
\* the node behaves as RoomView: no rollback, and a config without the node
\* stops the room.
THEOREM SyncImplementsView == Spec => ImplementsView
<1>1. Init => View!ViewInit
  BY DEF Init, View!ViewInit
<1> QED
  BY <1>1, SyncTyped, ViewStep, PTL DEF Spec, ImplementsView, View!ViewSpec

\* RoomView keeps revocations: a step that takes a config either lists the
\* node, or stops the room.
LEMMA RevokedStep ==
    SyncTypeOK /\ View!Revoked /\ [View!ViewNext]_(View!viewVars) => View!Revoked'
<1> SUFFICES ASSUME SyncTypeOK, View!Revoked, View!ViewNext \/ UNCHANGED View!viewVars
             PROVE  View!Revoked'
  BY DEF View!viewVars
<1>1. /\ lists \in Seq(BOOLEAN) /\ Len(lists) \in Nat
      /\ accepted \in 0 .. Len(lists) /\ running \in 0 .. Len(lists)
      /\ taken \subseteq 1 .. accepted
  BY DEF SyncTypeOK
<1>2. CASE UNCHANGED View!viewVars
  BY <1>2 DEF View!viewVars, View!Revoked
<1>3. ASSUME NEW in \in BOOLEAN, View!Sign(in) PROVE View!Revoked'
  <2>1. \A v \in 1 .. Len(lists) : lists'[v] = lists[v]
    BY <1>1, <1>3 DEF View!Sign
  <2>2. accepted' = accepted /\ running' = running /\ taken' = taken
    BY <1>3 DEF View!Sign
  <2>3. \A v \in taken : v \in 1 .. Len(lists)
    BY <1>1
  <2> SUFFICES ASSUME running # 0
               PROVE  /\ lists'[running] /\ running <= accepted /\ accepted \in taken
                      /\ \A v \in taken : v >= running => lists'[v]
    BY <2>2 DEF View!Revoked
  <2>4. /\ lists[running] /\ running <= accepted /\ accepted \in taken
        /\ \A v \in taken : v >= running => lists[v]
    BY DEF View!Revoked
  <2>5. lists'[running] = lists[running]
    BY <1>1, <2>1
  <2>6. \A v \in taken : lists'[v] = lists[v]
    BY <2>1, <2>3
  <2> QED
    BY <2>4, <2>5, <2>6
<1>4. ASSUME NEW v \in 1 .. Len(lists), View!Take(v) PROVE View!Revoked'
  <2>1. CASE ~lists[v]
    BY <1>4, <2>1 DEF View!Take, View!Revoked
  <2>2. CASE lists[v] /\ running' = v
    <3>1. /\ lists' = lists /\ accepted' = v /\ taken' = taken \cup {v}
          /\ v >= accepted
      BY <1>4 DEF View!Take
    <3>2. \A w \in taken' : w >= v => w = v
      BY <1>1, <3>1
    <3> QED
      BY <1>1, <2>2, <3>1, <3>2 DEF View!Revoked
  <2>3. CASE lists[v] /\ running' # v
    BY <1>1, <1>4, <2>3 DEF View!Take, View!Revoked
  <2> QED
    BY <2>1, <2>2, <2>3
<1>5. CASE View!Stop \/ View!Forget
  BY <1>5 DEF View!Stop, View!Forget, View!Revoked
<1> QED
  BY <1>2, <1>3, <1>4, <1>5 DEF View!ViewNext

\* A node whose exclusion from the room arrived, by whatever way, does not run
\* the room with an earlier config afterwards, however late a stale netmap is
\* applied.
THEOREM ExclusionIsFinal == Spec => []StaysRevoked
<1>1. Init => View!Revoked
  BY DEF Init, View!Revoked
<1>2. SyncTypeOK /\ View!Revoked /\ [Next]_vars => View!Revoked'
  BY ViewStep, RevokedStep
<1> QED
  BY <1>1, <1>2, SyncTyped, PTL DEF Spec, StaysRevoked
=============================================================================
