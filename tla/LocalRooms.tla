----------------------------- MODULE LocalRooms -----------------------------
(***************************************************************************)
(* A room without a controller: internal/node/local.go, localsync.go,      *)
(* admins.go and cards.go, and the commands of cmd/zpt/local.go.           *)
(*                                                                         *)
(* Every node keeps the room in its state file.  Admins hold the signing   *)
(* key, accept members who ask over UDP (lost, delayed and repeated) and   *)
(* sign the next version; configs spread by gossip through the room.  The  *)
(* daemon changes the file under a lock; a zpt command loads the file,     *)
(* works on its copy and saves it, holding no lock.                        *)
(*                                                                         *)
(* An invite is named by the admin who issued it; of an address in the     *)
(* room only the host number is kept.                                      *)
(***************************************************************************)
EXTENDS Naturals, FiniteSets

CONSTANTS
    Nodes,
    Owner,         \* the node that created the room
    NoNode,        \* no pending request to join
    Hosts,         \* the host addresses of the subnet are 1 .. Hosts
    MaxUses,       \* bound of the model: uses of the owner's invite
    MaxEvents      \* bound: zpt commands, restarts and expiries together

ASSUME LocalAssumption ==
    /\ Owner \in Nodes /\ NoNode \notin Nodes
    /\ Hosts \in Nat \ {0}
    /\ MaxUses \in Nat /\ MaxEvents \in Nat

VARIABLES
    file,       \* state.json of each node: its LocalRoom
    run,        \* each daemon: what it accepted and runs
    cli,        \* each node's zpt command: the copy it loaded, or Idle
    link,       \* the admin whose link a node joined with: its requests come
                \* from then on, repeated and late
    replies,    \* answers on their way to nodes that wait for one
    expired,    \* admins whose invite is past its time
    signed,     \* history: every config ever signed
    issued,     \* history: uses an admin gave out
    admitted,   \* history: members an admin let in
    kicked,     \* history: members removed by some config
    lost,       \* history: a command saved over a change it had not seen
    events      \* what is left of MaxEvents

netVars == <<link, replies, expired>>
histVars == <<signed, issued, admitted, kicked, lost>>
vars == <<file, run, cli, netVars, histVars, events>>

Addresses == 0 .. Hosts                          \* 0: none
Configs == [ver : Nat, ip : [Nodes -> Addresses], adm : SUBSET Nodes, by : Nodes]
NoConfig == [ver |-> 0, ip |-> [n \in Nodes |-> 0], adm |-> {}, by |-> Owner]

\* A LocalRoom.  from and ip are its Join: the admin asked and the address
\* given; from is NoNode when there is no Join.
NoRoom == [entry |-> FALSE, key |-> FALSE, cfg |-> NoConfig, from |-> NoNode,
           ip |-> 0, inv |-> 0, peers |-> {}]

\* n.versions and what roomFromConfig took from the config (cfg), n.signed,
\* n.cards; the room is "down", "prov" (the owner is the only peer) or "up".
Stopped == [cfg |-> NoConfig, signed |-> NoConfig, room |-> "down", cards |-> {}]

Idle == [on |-> FALSE, copy |-> NoRoom]

Members(c) == {n \in Nodes : c.ip[n] # 0}

\* CreateLocalRoom: the owner is host 1, an admin, and signs version 1.
CreateLocalRoom ==
    [ver |-> 1, ip |-> [n \in Nodes |-> IF n = Owner THEN 1 ELSE 0],
     adm |-> {Owner}, by |-> Owner]

------------------------------------------------------------------------------
(* Signing. *)

\* Seeded fault: the address after the number of members.
FreeAddressesByCount(c) ==
    {a \in 1 .. Hosts : a = Cardinality(Members(c)) + 1}

\* addMember's choice: the lowest address no member has; none: full.
FreeAddresses(c) ==
    {a \in 1 .. Hosts : /\ \A n \in Nodes : c.ip[n] # a
                        /\ \A b \in 1 .. a - 1 : \E n \in Nodes : c.ip[n] = b}

\* Seeded fault: anyone with the room signs.
CanSignAny(f) == f.entry

\* sign refuses a node without the key.
CanSign(f) == f.key

\* Update: the next version with other members or admins, signed by n.
Update(c, n, ip, adm) == [ver |-> c.ver + 1, ip |-> ip, adm |-> adm, by |-> n]

------------------------------------------------------------------------------
(* The commands. *)

\* zpt join with a link that admin a printed: refused when the file already
\* has an entry of the room, whatever its state.
joinLocal(m, a) ==
    /\ ~file[m].entry
    /\ issued[a] > 0
    /\ file' = [file EXCEPT ![m] = [NoRoom EXCEPT !.entry = TRUE, !.from = a]]
    /\ link' = [link EXCEPT ![m] = a]
    /\ UNCHANGED <<run, cli, replies, expired, histVars, events>>

\* openLocal: the command reads the state file ...
openLocal(n) ==
    /\ events > 0 /\ events' = events - 1
    /\ ~cli[n].on /\ file[n].entry
    /\ cli' = [cli EXCEPT ![n] = [on |-> TRUE, copy |-> file[n]]]
    /\ UNCHANGED <<file, run, netVars, histVars>>

\* ... and saves its changed copy.
save(n, copy) ==
    /\ cli[n].on
    /\ file' = [file EXCEPT ![n] = copy]
    /\ lost' = (lost \/ file[n] # cli[n].copy)
    /\ cli' = [cli EXCEPT ![n] = Idle]
    /\ UNCHANGED <<run, netVars, admitted, events>>

\* NewInvite: one use, for the default time.
NewInvite(f) == [f EXCEPT !.inv = 1]

\* zpt room invite: an admin who is a member of the room (one invite per
\* admin here).
cmdInvite(n) ==
    /\ CanSign(cli[n].copy) /\ cli[n].copy.cfg.ip[n] # 0
    /\ issued[n] = 0
    /\ save(n, NewInvite(cli[n].copy))
    /\ issued' = [issued EXCEPT ![n] = 1]
    /\ UNCHANGED <<signed, kicked>>

\* zpt room admin: marks the command's own node too; a member that already
\* is an admin is an error.
cmdAdmin(n, m) ==
    LET c == cli[n].copy.cfg
        next == Update(c, n, c.ip, c.adm \cup ({n, m} \cap Members(c)))
    IN  /\ CanSign(cli[n].copy)
        /\ m \in Members(c) \ c.adm
        /\ save(n, [cli[n].copy EXCEPT !.cfg = next])
        /\ signed' = signed \cup {next}
        /\ UNCHANGED <<issued, kicked>>

\* zpt room kick: not oneself.
cmdKick(n, m) ==
    LET c == cli[n].copy.cfg
        next == Update(c, n, [c.ip EXCEPT ![m] = 0], c.adm \ {m})
    IN  /\ CanSign(cli[n].copy)
        /\ m \in Members(c) \ {n}
        /\ save(n, [cli[n].copy EXCEPT !.cfg = next, !.peers = @ \ {m}])
        /\ signed' = signed \cup {next}
        /\ kicked' = kicked \cup {m}
        /\ UNCHANGED issued

\* Every other command that rewrites the file (zpt exit, dns, leave,
\* room off), and one that fails leaves the file alone.
cmdOther(n) ==
    /\ save(n, cli[n].copy)
    /\ UNCHANGED <<signed, issued, kicked>>

------------------------------------------------------------------------------
(* Joining. *)

\* The answer to a request, ip 0 for a refusal; handleJoinReply drops one
\* that its node does not wait for.
Answer(m, a, ip) ==
    replies' = IF file[m].from = a /\ file[m].ip = 0
               THEN replies \cup {[to |-> m, from |-> a, ip |-> ip]} ELSE replies

\* Seeded fault: a use is checked and never taken.
TakeUseFree(f) == f

\* useInvite takes one use.
TakeUse(f) == [f EXCEPT !.inv = @ - 1]

\* useInvite's condition.
Usable(a) == file[a].inv > 0 /\ a \notin expired

\* handleJoin at an admin: asked by a member, the same answer again.
AnswerAgain(m, a) ==
    /\ file[a].cfg.ip[m] # 0
    /\ Answer(m, a, file[a].cfg.ip[m])
    /\ UNCHANGED <<file, signed, admitted>>

\* A use is taken, the member added, the next version signed and saved.
Accept(m, a) ==
    /\ file[a].cfg.ip[m] = 0 /\ Usable(a)
    /\ \E ip \in FreeAddresses(file[a].cfg) :
         LET c == file[a].cfg
             next == Update(c, a, [c.ip EXCEPT ![m] = ip], c.adm)
         IN  /\ file' = [file EXCEPT ![a] =
                    [TakeUse(file[a]) EXCEPT !.cfg = next, !.peers = file[a].peers \cup {m}]]
             /\ signed' = signed \cup {next}
             /\ Answer(m, a, ip)
    /\ admitted' = [admitted EXCEPT ![a] = @ + 1]

\* No address left (the use is taken all the same), or no such invite.
Refuse(m, a) ==
    /\ file[a].cfg.ip[m] = 0
    /\ Usable(a) => FreeAddresses(file[a].cfg) = {}
    /\ file' = [file EXCEPT ![a] = IF Usable(a) THEN TakeUse(@) ELSE @]
    /\ Answer(m, a, 0)
    /\ UNCHANGED <<signed, admitted>>

\* ensureJoining, sendJoin: a node that used the link asks the admin every
\* few seconds; its requests may come late, also after the answer.
sendJoin(m, a) == link[m] = a

\* A request arrives; only an admin answers.
handleJoin(m, a) ==
    /\ sendJoin(m, a)
    /\ file[a].key /\ file[a].cfg.ver > 0
    /\ AnswerAgain(m, a) \/ Accept(m, a) \/ Refuse(m, a)
    /\ UNCHANGED <<run, cli, link, expired, issued, kicked, lost, events>>

\* An answer arrives: only from the admin asked, and only while waiting; a
\* refusal ends the request and leaves the entry.
handleJoinReply(r) ==
    /\ file[r.to].from = r.from /\ file[r.to].ip = 0
    /\ file' = [file EXCEPT ![r.to] = IF r.ip = 0 THEN [@ EXCEPT !.from = NoNode]
                                                 ELSE [@ EXCEPT !.ip = r.ip]]
    /\ replies' = {x \in replies : x.to # r.to}
    /\ UNCHANGED <<run, cli, link, expired, histVars, events>>

\* The invite's time is over.
Expire(a) ==
    /\ events > 0 /\ events' = events - 1
    /\ issued[a] > 0 /\ a \notin expired
    /\ expired' = expired \cup {a}
    /\ UNCHANGED <<file, run, cli, link, replies, histVars>>

------------------------------------------------------------------------------
(* Accepting configs. *)

\* Seeded fault: gossip goes on serving the first config.
AcceptedFirst(n, c) ==
    IF c.ver < run[n].cfg.ver THEN run[n]
    ELSE [run[n] EXCEPT !.cfg = c,
                        !.signed = IF @.ver = 0 THEN c ELSE @,
                        !.room = IF c.ip[n] # 0 THEN "up" ELSE "down"]

\* roomFromConfig and apply at node n: an older config is refused; gossip
\* goes on serving the config it had of the same version.
Accepted(n, c) ==
    IF c.ver < run[n].cfg.ver THEN run[n]
    ELSE [run[n] EXCEPT
            !.cfg = c,
            !.signed = IF c.ver > run[n].cfg.ver \/ @.ver = 0 THEN c ELSE @,
            !.room = IF c.ip[n] # 0 THEN "up" ELSE "down"]

\* syncLocal: the file's config is applied; an accepted join brings the room
\* up with the owner as its only peer.
syncLocal(n) ==
    /\ \/ /\ file[n].cfg.ver > 0
          /\ run' = [run EXCEPT ![n] = Accepted(n, file[n].cfg)]
       \/ /\ file[n].cfg.ver = 0 /\ file[n].from # NoNode /\ file[n].ip # 0
          /\ run[n].room = "down"
          /\ run' = [run EXCEPT ![n].room = "prov"]
    /\ run' # run
    /\ UNCHANGED <<file, cli, netVars, histVars, events>>

\* The address node x gives y in its room, 0 when y is not a peer or x
\* itself; in a provisional room only the admin asked is one.
AddressOf(x, y) ==
    CASE run[x].room = "up" -> run[x].cfg.ip[y]
      [] run[x].room = "prov" ->
            IF y = x THEN file[x].ip
            ELSE IF y = file[x].from THEN run[y].cfg.ip[y] ELSE 0
      [] OTHER -> 0

\* x and y have a session: each is a peer of the other under the address it
\* uses, and one knows where to find the other.
Connected(x, y) ==
    /\ x # y
    /\ AddressOf(x, y) # 0 /\ AddressOf(x, y) = AddressOf(y, y)
    /\ AddressOf(y, x) # 0 /\ AddressOf(y, x) = AddressOf(x, x)
    /\ y \in file[x].peers \/ x \in file[y].peers \/ file[x].from = y \/ file[y].from = x

\* Seeded fault: what gossip brought is written whatever the file has.
persistLocalAny(f, c) ==
    [f EXCEPT !.cfg = c,
              !.peers = IF f.from = NoNode THEN @ ELSE @ \cup {f.from},
              !.from = NoNode, !.ip = 0]

\* persistLocal: only a newer config, which ends a join.
persistLocal(f, c) ==
    IF f.cfg.ver >= c.ver THEN f
    ELSE [f EXCEPT !.cfg = c,
                   !.peers = IF f.from = NoNode THEN @ ELSE @ \cup {f.from},
                   !.from = NoNode, !.ip = 0]

\* gossipAnnounce, gossipListen: a peer announces a newer version.
Announced(n, p) == Connected(n, p) /\ run[p].signed.ver > run[n].cfg.ver

\* It is fetched, applied and recorded.
gossipFetch(n, p) ==
    /\ Announced(n, p)
    /\ run' = [run EXCEPT ![n] = Accepted(n, run[p].signed)]
    /\ file' = [file EXCEPT ![n] = persistLocal(@, run[p].signed)]
    /\ UNCHANGED <<cli, netVars, histVars, events>>

\* serveSignKey: to the addresses that the accepted config names as admins.
serveSignKey(a, n) == file[a].key /\ n \in run[a].cfg.adm

\* ensureSignKey, fetchSignKey: the file's config makes this node an admin;
\* every other admin it names is asked in turn.
fetchSignKey(n, a) ==
    /\ ~file[n].key /\ file[n].cfg.ip[n] # 0
    /\ n \in file[n].cfg.adm /\ a \in file[n].cfg.adm
    /\ Connected(n, a) /\ serveSignKey(a, n)
    /\ file' = [file EXCEPT ![n].key = TRUE]
    /\ UNCHANGED <<run, cli, netVars, histVars, events>>

\* Seeded fault: the node's own card only.
cardsForSelf(n) == {n}

\* cardsFor: the node's own card and those of members it keeps.
cardsFor(n) == {n} \cup {c \in run[n].cards : run[n].cfg.ip[c] # 0}

\* mergeCards keeps those of other members.
Merged(n, cards) == {c \in cards : c # n /\ run[n].cfg.ip[c] # 0}

\* swapCards and serveCards: n gives its cards and takes p's; the answer may
\* not come.  learnLocalPeers records them.
swapCards(n, p, answered) ==
    LET got == [x \in {n, p} |-> IF x = p THEN Merged(p, cardsFor(n))
                                 ELSE IF answered THEN Merged(n, cardsFor(p)) ELSE {}]
    IN  /\ Connected(n, p)
        /\ \E x \in {n, p} : ~(got[x] \subseteq run[x].cards \cap file[x].peers)
        /\ run' = [x \in Nodes |-> IF x \in {n, p}
                     THEN [run[x] EXCEPT !.cards = @ \cup got[x]] ELSE run[x]]
        /\ file' = [x \in Nodes |-> IF x \in {n, p}
                     THEN [file[x] EXCEPT !.peers = @ \cup got[x]] ELSE file[x]]
        /\ UNCHANGED <<cli, netVars, histVars, events>>

\* A daemon stops and starts: only its state file survives.
Restart(n) ==
    /\ events > 0 /\ events' = events - 1
    /\ run[n] # Stopped
    /\ run' = [run EXCEPT ![n] = Stopped]
    /\ UNCHANGED <<file, cli, netVars, histVars>>

------------------------------------------------------------------------------
\* The owner created the room and printed an invite.
Init ==
    /\ \E uses \in 1 .. MaxUses :
         /\ file = [n \in Nodes |-> IF n = Owner
                      THEN [NoRoom EXCEPT !.entry = TRUE, !.key = TRUE,
                                          !.cfg = CreateLocalRoom, !.inv = uses]
                      ELSE NoRoom]
         /\ issued = [n \in Nodes |-> IF n = Owner THEN uses ELSE 0]
    /\ run = [n \in Nodes |-> Stopped]
    /\ cli = [n \in Nodes |-> Idle]
    /\ link = [n \in Nodes |-> NoNode] /\ replies = {} /\ expired = {}
    /\ signed = {CreateLocalRoom}
    /\ admitted = [n \in Nodes |-> 0]
    /\ kicked = {} /\ lost = FALSE
    /\ events = MaxEvents

Next ==
    \/ \E m, a \in Nodes : joinLocal(m, a) \/ handleJoin(m, a)
    \/ \E n \in Nodes : \/ openLocal(n) \/ cmdInvite(n) \/ cmdOther(n)
                        \/ syncLocal(n) \/ Restart(n) \/ Expire(n)
    \/ \E n, m \in Nodes : cmdAdmin(n, m) \/ cmdKick(n, m)
    \/ \E r \in replies : handleJoinReply(r)
    \/ \E n, p \in Nodes : gossipFetch(n, p) \/ fetchSignKey(n, p)
    \/ \E n, p \in Nodes, answered \in BOOLEAN : swapCards(n, p, answered)

Spec == Init /\ [][Next]_vars

\* What the daemons do by themselves: requests are repeated every 3 s until
\* answered, versions announced every 20 s, cards swapped every minute, the
\* key asked for and the file read again and again.  Each step brings some
\* node forward, so that together they need no more than that one of them
\* is taken while one can be.
DaemonStep ==
    \/ \E m, a \in Nodes : handleJoin(m, a)
    \/ \E r \in replies : handleJoinReply(r)
    \/ \E n \in Nodes : syncLocal(n)
    \/ \E n, p \in Nodes : gossipFetch(n, p) \/ fetchSignKey(n, p) \/ swapCards(n, p, TRUE)

FairSpec == Spec /\ WF_vars(DaemonStep)

------------------------------------------------------------------------------
(* Properties. *)

\* The shape of the state: what files, daemons and commands hold are configs
\* that were signed, and a room runs only on a node with an address in it.
LocalTypeOK ==
    /\ \A n \in Nodes : \A f \in {file[n], cli[n].copy} :
         /\ f.cfg = NoConfig \/ f.cfg \in signed
         /\ f.ip \in Addresses /\ f.inv \in 0 .. issued[n]
         /\ f.entry \/ f = NoRoom
         /\ f.ip # 0 => f.from # NoNode
    /\ \A n \in Nodes :
         /\ run[n].cfg = NoConfig \/ {run[n].cfg, run[n].signed} \subseteq signed
         /\ run[n].signed.ver = run[n].cfg.ver
         /\ run[n].cards \subseteq Nodes \ {n}
         /\ run[n].room = "up" => run[n].cfg.ip[n] # 0
    /\ \A r \in replies : link[r.to] = r.from /\ r.ip \in Addresses

\* Whatever was signed by whom, through kicks and commands that lost an
\* update: a config gives every member an address of its own.
AddressesApart ==
    \A c \in signed : \A m, n \in Members(c) : c.ip[m] = c.ip[n] => m = n

\* The signing key spreads only along the configs: whoever signed one was
\* made an admin by an older one.
SignersAreAdmins ==
    \A c \in signed :
        c.ver = 1 \/ \E d \in signed : d.ver < c.ver /\ c.by \in d.adm

\* Repeated and late requests spend no second use, and an invite lets in no
\* more members than its uses, unless a command saved over the change.
InviteUsesHold ==
    lost \/ \A a \in Nodes : admitted[a] + file[a].inv <= issued[a]

\* The daemon replaces a config in the file only by a newer one; going back
\* takes a command that saves an older copy.
FileMovesForward ==
    [][\A n \in Nodes :
          \/ file'[n].cfg = file[n].cfg
          \/ file'[n].cfg.ver > file[n].cfg.ver
          \/ cli[n].on /\ ~cli'[n].on]_vars

\* Two admins signed different configs of one version.
Forked == \E c, d \in signed : c # d /\ c.ver = d.ver

\* What keeps a room from settling in the code as it is: a lost update, a
\* fork, a kick (nobody tells the one kicked, nor those only it knew).
Trouble == lost \/ Forked \/ kicked # {}

\* The invite of node m has no use left for it.
NoUse(m) ==
    \E a \in Nodes : /\ link[m] = a /\ file[a].cfg.ip[m] = 0
                     /\ file[a].inv = 0 \/ a \in expired

Newest == CHOOSE c \in signed : \A d \in signed : d.ver <= c.ver

\* Whoever asks with a good invite comes to run the room, however often
\* requests and answers are lost or repeated and daemons restart; and every
\* member comes to run the newest config, to hold the key if it makes the node
\* an admin, and to know where to find every other member.
RoomSettles ==
    []<>(\/ Trouble
         \/ /\ \A m \in Nodes : link[m] = NoNode \/ run[m].room = "up" \/ NoUse(m)
            /\ \A n \in Members(Newest) :
                /\ run[n].cfg = Newest
                /\ n \in Newest.adm => file[n].key
                /\ Members(Newest) \ {n} \subseteq file[n].peers)

==============================================================================
