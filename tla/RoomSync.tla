------------------------------ MODULE RoomSync ------------------------------
(***************************************************************************)
(* One node following one room of one controller: the threads of           *)
(* internal/node/node.go and gossip.go that all end in apply(), the        *)
(* state file written by the zpt commands, and the controller that signs   *)
(* configs and answers polls.                                              *)
(*                                                                         *)
(* apply() reads the state file before it takes the node's mutex, and its  *)
(* callers pick the netmap before that: each of these is a step, and other *)
(* threads run between them.  Under the mutex, apply() is one step.        *)
(*                                                                         *)
(* A config stands for its version: RoomStore shows that two configs of    *)
(* one version have the same roster.                                       *)
(***************************************************************************)
EXTENDS Naturals, Sequences

CONSTANTS
    Syncers,       \* sync goroutines: a cancelled one may still run beside the next
    Extra,         \* the other appliers that run, of {"gossip", "path"}
    NoSyncer,      \* no sync goroutine
    MaxConfigs,    \* bound of the model: configs signed for the room
    MaxCommands,   \* bound: zpt commands that rewrite the state file
    MaxFaults      \* bound: SetPeers or room.Up errors and restarts of the node

ASSUME SyncAssumption ==
    /\ Extra \subseteq {"gossip", "path"}
    /\ Syncers \cap {"sup", "gossip", "path", NoSyncer} = {}
    /\ NoSyncer \notin {"sup", "gossip", "path"}
    /\ MaxConfigs \in Nat /\ MaxCommands \in Nat /\ MaxFaults \in Nat

VARIABLES
    lists,      \* the controller: lists[v] iff config v has this node as active
    status,     \* the controller: this node's membership of the room
    file,       \* state.json: [pinned, off]
    thread,     \* each applier: [pc, nm, st]
    seen,       \* supervise: the pins it last acted on (prevPins)
    syncer,     \* supervise: the controller's sync goroutine; the others are cancelled
    last,       \* n.last: the netmap applied last
    accepted,   \* n.versions; n.signed always holds the config of that version
    running,    \* n.rooms: the config the room runs with (0: not running)
    taken,      \* history: versions accepted since the start
    budget      \* what is left of the bounds: [cmd, fault]

ctlVars == <<lists, status>>
nodeVars == <<last, accepted, running, taken>>
supVars == <<seen, syncer>>
vars == <<ctlVars, file, thread, supVars, nodeVars, budget>>

Appliers == Syncers \cup {"sup"} \cup Extra

NoMap == [status |-> "unknown", ver |-> 0]      \* nothing applied yet
EmptyMap == [status |-> "none", ver |-> 0]      \* &api.NetMap{}
NoState == [pinned |-> FALSE, off |-> FALSE]
Unseen == [pinned |-> FALSE, off |-> TRUE]      \* prevPins = "" at the start
AtRest == [pc |-> "idle", nm |-> NoMap, st |-> NoState]

\* What the controller answers: a config only to an active member.
NetMap ==
    [status |-> status, ver |-> IF status = "active" THEN Len(lists) ELSE 0]

Goto(t, pc) == thread' = [thread EXCEPT ![t].pc = pc]

------------------------------------------------------------------------------
(* The controller and the commands. *)

\* The room's config changes: the node is approved or removed, or another
\* member changes.
SignConfig(st) ==
    /\ Len(lists) < MaxConfigs
    /\ status' = st
    /\ lists' = Append(lists, st = "active")
    /\ UNCHANGED <<file, thread, supVars, nodeVars, budget>>

\* zpt join, zpt leave, zpt room off and on; the daemon reads the file later.
Command(st) ==
    /\ budget.cmd > 0
    /\ (st.pinned # file.pinned /\ st.off = file.off)
       \/ (st.pinned = file.pinned /\ st.off # file.off)
    /\ file' = st
    /\ budget' = [budget EXCEPT !.cmd = @ - 1]
    /\ UNCHANGED <<ctlVars, thread, supVars, nodeVars>>

------------------------------------------------------------------------------
(* apply(). *)

\* LoadState, before n.mu is taken.
Load(t) ==
    /\ thread[t].pc = "load"
    /\ thread' = [thread EXCEPT ![t].pc = "apply", ![t].st = file]
    /\ UNCHANGED <<ctlVars, file, supVars, nodeVars, budget>>

\* The room is wanted here and the netmap carries a config for it.
Wanted(nm, st) == st.pinned /\ ~st.off /\ nm.status = "active"

\* Seeded fault: an older config is taken like any other.
RollbackLet(v) == FALSE

\* roomFromConfig refuses a config older than the one accepted.
Rollback(v) == v < accepted

\* Seeded fault: a config that leaves the node out keeps the room as it is.
RunsKept(v, r) ==
    IF lists[v] THEN r \in {v, running, 0} ELSE r = running

\* The room after config v was accepted: up with v; as it was (SetPeers
\* failed) or down (room.Up failed); down when v does not list the node.
Runs(v, r) ==
    IF lists[v] THEN r \in {v, running, 0} ELSE r = 0

\* A config that lists the node and that the room does not come to run with
\* is an error of the devices.
Spend(v, r) ==
    IF lists[v] /\ r # v
    THEN budget.fault > 0 /\ budget' = [budget EXCEPT !.fault = @ - 1]
    ELSE UNCHANGED budget

\* One run of apply() under n.mu; r is what the room runs with afterwards.
ApplyLocked(nm, st, r) ==
    /\ last' = nm
    /\ running' = r
    /\ \/ /\ ~Wanted(nm, st)
          /\ r = 0
          /\ UNCHANGED <<accepted, taken, budget>>
       \/ /\ Wanted(nm, st) /\ Rollback(nm.ver)
          /\ r = running
          /\ UNCHANGED <<accepted, taken, budget>>
       \/ /\ Wanted(nm, st) /\ ~Rollback(nm.ver)
          /\ accepted' = nm.ver
          /\ taken' = taken \cup {nm.ver}
          /\ Runs(nm.ver, r)
          /\ Spend(nm.ver, r)

\* Where an applier goes on after apply(): sync to its loop's condition,
\* supervise to its syncers.
Return(t) ==
    CASE t \in Syncers -> "poll"
      [] t = "sup" -> "syncers"
      [] OTHER -> "idle"

Apply(t) ==
    /\ thread[t].pc = "apply"
    /\ \E r \in 0 .. MaxConfigs : ApplyLocked(thread[t].nm, thread[t].st, r)
    /\ thread' = [thread EXCEPT ![t] = [AtRest EXCEPT !.pc = Return(t)]]
    /\ UNCHANGED <<ctlVars, file, supVars>>

\* reapplyAll: the last netmap is picked under n.mu, which is then released;
\* none yet, nothing to apply.
Snapshot(t) ==
    /\ thread[t].pc = "snapshot"
    /\ thread' = [thread EXCEPT ![t] =
            IF last = NoMap THEN [@ EXCEPT !.pc = Return(t)]
                            ELSE [@ EXCEPT !.pc = "load", !.nm = last]]
    /\ UNCHANGED <<ctlVars, file, supVars, nodeVars, budget>>

------------------------------------------------------------------------------
(* sync: the long poll. *)

\* Seeded fault: only an answer that differs from the last is applied.
PollAnsweredNews(t) ==
    /\ thread[t].pc = "poll" /\ t = syncer /\ NetMap # last
    /\ thread' = [thread EXCEPT ![t].pc = "load", ![t].nm = NetMap]
    /\ UNCHANGED <<ctlVars, file, supVars, nodeVars, budget>>

\* The answer; polls end in one whether or not anything changed.
PollAnswered(t) ==
    /\ thread[t].pc = "poll" /\ t = syncer
    /\ thread' = [thread EXCEPT ![t].pc = "load", ![t].nm = NetMap]
    /\ UNCHANGED <<ctlVars, file, supVars, nodeVars, budget>>

\* A cancelled poll fails, and the loop's condition ctx.Err() == nil too.
SyncEnds(t) ==
    /\ thread[t].pc = "poll" /\ t # syncer
    /\ Goto(t, "idle")
    /\ UNCHANGED <<ctlVars, file, supVars, nodeVars, budget>>

------------------------------------------------------------------------------
(* supervise: once a second. *)

\* LoadState; new pins re-apply the last netmap first.
SupRead ==
    /\ thread["sup"].pc = "idle"
    /\ seen' = file
    /\ Goto("sup", IF file # seen THEN "snapshot" ELSE "syncers")
    /\ UNCHANGED <<ctlVars, file, syncer, nodeVars, budget>>

\* A sync goroutine for a controller in the state, if there is none.
SupStart(t) ==
    /\ thread["sup"].pc = "syncers"
    /\ seen.pinned /\ syncer = NoSyncer
    /\ thread[t].pc = "idle"
    /\ syncer' = t
    /\ thread' = [thread EXCEPT !["sup"].pc = "idle", ![t].pc = "poll"]
    /\ UNCHANGED <<ctlVars, file, seen, nodeVars, budget>>

\* A controller that is gone from it: cancel, do not wait, apply an empty
\* netmap to tear its rooms down.
SupCancel ==
    /\ thread["sup"].pc = "syncers"
    /\ ~seen.pinned /\ syncer # NoSyncer
    /\ syncer' = NoSyncer
    /\ thread' = [thread EXCEPT !["sup"].pc = "load", !["sup"].nm = EmptyMap]
    /\ UNCHANGED <<ctlVars, file, seen, nodeVars, budget>>

SupSleep ==
    /\ thread["sup"].pc = "syncers"
    /\ seen.pinned <=> syncer # NoSyncer
    /\ Goto("sup", "idle")
    /\ UNCHANGED <<ctlVars, file, supVars, nodeVars, budget>>

------------------------------------------------------------------------------
(* The other appliers. *)

\* Disco finds a better path and calls reapplyAll.
PathFound ==
    /\ "path" \in Extra /\ thread["path"].pc = "idle"
    /\ Goto("path", "snapshot")
    /\ UNCHANGED <<ctlVars, file, supVars, nodeVars, budget>>

\* gossipListen and gossipFetch: a peer announced a version newer than ours
\* and sent its signed config v, which is behind the controller or, when the
\* peer restarted in between, behind its own announcement.
GossipFetched(v) ==
    /\ "gossip" \in Extra /\ thread["gossip"].pc = "idle"
    /\ running # 0 /\ accepted < Len(lists)
    /\ thread' = [thread EXCEPT !["gossip"].pc = "fetched",
                                !["gossip"].nm = [status |-> "active", ver |-> v]]
    /\ UNCHANGED <<ctlVars, file, supVars, nodeVars, budget>>

\* applyGossip: the config takes the place of the room's entry in the last
\* netmap; nothing to do when the room stopped meanwhile or has no entry.
GossipMerged ==
    /\ "gossip" \in Extra /\ thread["gossip"].pc = "fetched"
    /\ thread' = [thread EXCEPT !["gossip"] =
            IF running # 0 /\ last.status # "none" THEN [@ EXCEPT !.pc = "load"]
                                                  ELSE AtRest]
    /\ UNCHANGED <<ctlVars, file, supVars, nodeVars, budget>>

\* The daemon stops and starts: only the state file survives.
Restart ==
    /\ budget.fault > 0
    /\ budget' = [budget EXCEPT !.fault = @ - 1]
    /\ thread' = [t \in Appliers |-> AtRest]
    /\ seen' = Unseen /\ syncer' = NoSyncer
    /\ last' = NoMap /\ accepted' = 0 /\ running' = 0 /\ taken' = {}
    /\ UNCHANGED <<ctlVars, file>>

------------------------------------------------------------------------------
Init ==
    /\ lists = <<>> /\ status = "none"
    /\ file = NoState
    /\ thread = [t \in Appliers |-> AtRest]
    /\ seen = Unseen /\ syncer = NoSyncer
    /\ last = NoMap /\ accepted = 0 /\ running = 0 /\ taken = {}
    /\ budget = [cmd |-> MaxCommands, fault |-> MaxFaults]

Statuses == {"active", "pending", "none"}
Files == [pinned : BOOLEAN, off : BOOLEAN]

Next ==
    \/ \E st \in Statuses : SignConfig(st)
    \/ \E st \in Files : Command(st)
    \/ \E t \in Appliers : Load(t) \/ Apply(t) \/ Snapshot(t)
    \/ \E t \in Syncers : PollAnswered(t) \/ SyncEnds(t) \/ SupStart(t)
    \/ SupRead \/ SupCancel \/ SupSleep
    \/ PathFound
    \/ \E v \in 1 .. Len(lists) : GossipFetched(v)
    \/ GossipMerged
    \/ Restart

Spec == Init /\ [][Next]_vars

\* What a goroutine does next, when it is up to it.
RunStep(t) ==
    \/ Load(t) \/ Apply(t) \/ Snapshot(t)
    \/ t \in Syncers /\ (PollAnswered(t) \/ SyncEnds(t))
    \/ t = "sup" /\ (SupRead \/ SupCancel \/ SupSleep \/ \E s \in Syncers : SupStart(s))
    \/ t = "gossip" /\ GossipMerged

\* The daemon's goroutines run and the mutex is fair to them; the controller
\* answers.  Commands, configs, failures, gossip and restarts come as they
\* like.
Fairness == \A t \in Appliers : WF_vars(RunStep(t))

FairSpec == Spec /\ Fairness

------------------------------------------------------------------------------
(* Properties. *)

NetMaps == [status : Statuses \cup {"unknown"}, ver : 0 .. Len(lists)]
Pcs == {"idle", "poll", "snapshot", "fetched", "load", "apply", "syncers"}
Threads == [pc : Pcs, nm : NetMaps, st : Files]

\* A netmap carries a config exactly for an active member.
Carries(nm) == nm.status = "active" <=> nm.ver # 0

\* The shape of the state: every netmap at hand is one the controller could
\* have sent, with a config exactly when the node is an active member.
SyncTypeOK ==
    /\ lists \in Seq(BOOLEAN) /\ Len(lists) <= MaxConfigs
    /\ status \in Statuses
    /\ file \in Files
    /\ thread \in [Appliers -> Threads]
    /\ seen \in Files
    /\ syncer \in Syncers \cup {NoSyncer}
    /\ last \in NetMaps
    /\ accepted \in 0 .. Len(lists)
    /\ running \in 0 .. Len(lists)
    /\ taken \subseteq 1 .. accepted
    /\ Carries(NetMap) /\ Carries(last)
    /\ \A t \in Appliers : Carries(thread[t].nm)

View == INSTANCE RoomView WITH
    MaxConfigs <- MaxConfigs, lists <- lists, accepted <- accepted,
    running <- running, taken <- taken

\* Whatever the interleaving of the appliers, the room only ever moves as
\* RoomView lets it: no older config is taken after a newer one, and one that
\* leaves the node out stops the room in the same step.
ImplementsView == View!ViewSpec

\* A config that leaves the node out ends every config before it, also when
\* it came by gossip and a stale netmap from a slow thread follows it.
StaysRevoked == View!Revoked

\* What the room should run with, going by the controller and the file.
Desired == IF status = "active" /\ ~file.off THEN Len(lists) ELSE 0

\* A pinned room comes to run as the controller and the file say, again and
\* again, through device errors, stale snapshots, restarts and configs from
\* peers: polls that time out re-apply what they are answered.
Follows == []<>(file.pinned => running = Desired)
=============================================================================
