------------------------------ MODULE RoomStore ------------------------------
(***************************************************************************)
(* The controller's rooms, members and invites: the database of            *)
(* internal/store and the operations of internal/controller/service.go     *)
(* that change it.  Every operation of the code is one SQLite transaction  *)
(* over a single connection, hence one action here; an operation the code  *)
(* refuses (ErrForbidden, ErrInvalid, ErrNotFound) rolls back, which is    *)
(* the absence of a step.                                                  *)
(*                                                                         *)
(* The UNIQUE (room_id, ip) constraint of schema.sql is left out on        *)
(* purpose: AddressesUnique then says that the service's own checks keep   *)
(* addresses apart and the constraint is never what stops a transaction.   *)
(***************************************************************************)
EXTENDS Integers, FiniteSets

CONSTANTS
    Rooms,        \* room ids; a new room draws a fresh one (hash of its secret)
    Nodes,        \* node ids (hash of the node's public key)
    Users,        \* panel users
    Admins,       \* the users with is_admin, the CLI's cliAdmin among them
    Tokens,       \* invite tokens; a new invite draws a fresh one
    Subnets,      \* the subnets a room may be given, as address intervals
    Reports,      \* what a node may report: [addr, routes, exit]
    Addresses,    \* the addresses an admin may type for a member
    Uses,         \* the number of uses an admin may give an invite
    Fields,       \* room settings that are signed with the config
    Values,       \* values of a setting
    MaxMembers,   \* member quota of a room (0: no limit)
    MaxRooms,     \* room quota of a user who is no admin (0: no limit)
    MaxVersion,   \* bound of the model: changes the database goes through
    NoNode        \* "": no exit picked

VARIABLES
    rooms,        \* table rooms
    members,      \* table members, by room and node
    invites,      \* table invites, by token
    reach,        \* table nodes: what each node last reported
    version,      \* meta.version: the global change counter
    admitted,     \* history: members each invite let in
    barred        \* history: <<room, node>> an admin banned and nobody unbanned

dbVars == <<rooms, members, invites, reach, version>>
storeVars == <<rooms, members, invites, reach, version, admitted, barred>>

------------------------------------------------------------------------------
(* Addresses and prefixes. *)

\* netip.Prefix.Overlaps on intervals.
Overlaps(p, q) == p.lo <= q.hi /\ q.lo <= p.hi

\* usableHost: inside the prefix, neither its network nor its last address.
usableHost(p, a) == p.lo < a /\ a < p.hi

\* Every prefix some node may offer to route.
Nets == UNION {rep.routes : rep \in Reports}

NoSubnet == [lo |-> 0, hi |-> 0]
NoMember == [status |-> "none", ip |-> 0, routes |-> {}, exit |-> FALSE,
             useExit |-> NoNode]
NoInvite == [room |-> NoNode, left |-> 0, auto |-> FALSE, granted |-> 0,
             expired |-> FALSE]
NoReport == [addr |-> "", routes |-> {}, exit |-> FALSE]

\* What the proofs need of the parameters.
ASSUME StoreAssumption ==
    /\ Admins \subseteq Users
    /\ \A p \in Subnets : p.lo \in Nat /\ p.hi \in Nat /\ p.lo < p.hi
    /\ Addresses \subseteq Nat
    /\ Uses \subseteq Int
    /\ MaxMembers \in Nat /\ MaxRooms \in Nat /\ MaxVersion \in Nat
    /\ NoNode \notin Nodes /\ NoNode \notin Rooms
    /\ \A rep \in Reports : \A p \in rep.routes : p.lo \in Nat /\ p.hi \in Nat
    /\ \A rep \in Reports : rep.exit \in BOOLEAN /\ rep # NoReport
    /\ "name" \in Fields
    /\ 0 \in Values

------------------------------------------------------------------------------
(* Rows: what the queries of the store return. *)

Live(r) == rooms[r].state = "live"
IsMember(r, n) == members[r][n].status # "none"
ListMembers(r) == {n \in Nodes : IsMember(r, n)}
Active(r) == {n \in Nodes : members[r][n].status = "active"}
Known(n) == reach[n] # NoReport
AllSubnets == {rooms[r].subnet : r \in {x \in Rooms : Live(x)}}
ListRooms(u) == {r \in Rooms : Live(r) /\ rooms[r].owner = u}

\* The relay asks this before it forwards a packet.
ShareActiveRoom(a, b) == \E r \in Rooms : {a, b} \subseteq Active(r)

canManage(u, r) == u \in Admins \/ rooms[r].owner = u

\* roomFor: the room exists and the caller manages it.
roomFor(u, r) == Live(r) /\ canManage(u, r)

\* Seeded fault: pending and banned members' addresses count as free.
FreeIPsOfInactive(r) ==
    {a \in rooms[r].subnet.lo .. rooms[r].subnet.hi :
        /\ usableHost(rooms[r].subnet, a)
        /\ \A n \in Active(r) : members[r][n].ip # a}

\* The addresses allocateIP can still hand out; members of every status
\* keep theirs.
FreeIPs(r) ==
    {a \in rooms[r].subnet.lo .. rooms[r].subnet.hi :
        /\ usableHost(rooms[r].subnet, a)
        /\ \A n \in ListMembers(r) : members[r][n].ip # a}

\* allocateIP: the lowest free one.
allocateIP(r) == CHOOSE a \in FreeIPs(r) : \A b \in FreeIPs(r) : a <= b

\* The config the controller signs for a room: active members only, routes
\* and exit only when approved and still offered.
Config(r) ==
    [version |-> rooms[r].version,
     subnet  |-> rooms[r].subnet,
     settings |-> rooms[r].settings,
     members |-> [n \in Active(r) |->
                    [ip |-> members[r][n].ip,
                     routes |-> members[r][n].routes \cap reach[n].routes,
                     exit |-> members[r][n].exit /\ reach[n].exit]]]

------------------------------------------------------------------------------
(* Writes. *)

\* change(): the transaction's last statement bumps the global counter.
BumpVersion == version < MaxVersion /\ version' = version + 1

\* tx.BumpRoom on a room whose row has just been rewritten as rm.
BumpRoom(rm) == [rm EXCEPT !.version = @ + 1]

PutRoom(r, rm) == rooms' = [rooms EXCEPT ![r] = BumpRoom(rm)]
PutMember(r, n, m) == members' = [members EXCEPT ![r][n] = m]

\* An admin's change of one member row: UpdateMember or DeleteMember, then
\* BumpRoom and the global bump.
ChangeMember(r, n, m) ==
    /\ PutMember(r, n, m)
    /\ PutRoom(r, rooms[r])
    /\ BumpVersion
    /\ UNCHANGED <<invites, reach, admitted>>

------------------------------------------------------------------------------
(* Rooms. *)

\* CreateRoom; pickSubnet is the choice of p among the free ones.  The CLI
\* process has no quotas set (panel = FALSE).
CreateRoom(u, r, p, policy, panel) ==
    /\ rooms[r].state = "none"
    /\ (panel /\ MaxRooms > 0 /\ u \notin Admins) =>
            Cardinality(ListRooms(u)) < MaxRooms
    /\ \A q \in AllSubnets : ~Overlaps(q, p)
    /\ rooms' = [rooms EXCEPT ![r] =
            [state |-> "live", subnet |-> p, owner |-> u, policy |-> policy,
             version |-> 1, settings |-> rooms[r].settings]]
    /\ BumpVersion
    /\ UNCHANGED <<members, invites, reach, admitted, barred>>

\* UpdateRoom: name, broadcast and the join policy.
UpdateRoom(u, r, policy, v) ==
    /\ roomFor(u, r)
    /\ PutRoom(r, [rooms[r] EXCEPT !.policy = policy, !.settings["name"] = v])
    /\ BumpVersion
    /\ UNCHANGED <<members, invites, reach, admitted, barred>>

\* Seeded fault: the setting is written and BumpRoom forgotten.
SetRoomFieldUnversioned(u, r, f, v) ==
    /\ roomFor(u, r)
    /\ rooms' = [rooms EXCEPT ![r].settings[f] = v]
    /\ BumpVersion
    /\ UNCHANGED <<members, invites, reach, admitted, barred>>

\* SetRoomDNS, SetRoomDHT, SetRoomACL: one column each, the same steps.
SetRoomField(u, r, f, v) ==
    /\ roomFor(u, r)
    /\ PutRoom(r, [rooms[r] EXCEPT !.settings[f] = v])
    /\ BumpVersion
    /\ UNCHANGED <<members, invites, reach, admitted, barred>>

\* DeleteRoom: members and invites go with the room (ON DELETE CASCADE).
DeleteRoom(u, r) ==
    /\ roomFor(u, r)
    /\ rooms' = [rooms EXCEPT ![r].state = "deleted"]
    /\ members' = [members EXCEPT ![r] = [n \in Nodes |-> NoMember]]
    /\ invites' = [t \in Tokens |->
            IF invites[t].room = r THEN [invites[t] EXCEPT !.room = NoNode, !.left = 0]
            ELSE invites[t]]
    /\ barred' = {b \in barred : b[1] # r}
    /\ BumpVersion
    /\ UNCHANGED <<reach, admitted>>

------------------------------------------------------------------------------
(* Invites. *)

\* uses <= 0 means unlimited, stored as -1.
CreateInvite(u, r, t, uses, auto) ==
    /\ roomFor(u, r)
    /\ invites[t] = NoInvite
    /\ LET left == IF uses <= 0 THEN -1 ELSE uses IN
       invites' = [invites EXCEPT ![t] =
            [room |-> r, left |-> left, auto |-> auto, granted |-> left,
             expired |-> FALSE]]
    /\ BumpVersion
    /\ UNCHANGED <<rooms, members, reach, admitted, barred>>

\* UPDATE ... WHERE room_id AND id: another room's invite is not touched.
RevokeInvite(u, r, t) ==
    /\ roomFor(u, r)
    /\ invites' = IF invites[t].room = r
                  THEN [invites EXCEPT ![t].left = 0] ELSE invites
    /\ BumpVersion
    /\ UNCHANGED <<rooms, members, reach, admitted, barred>>

\* expires_at passes.
ExpireInvite(t) ==
    /\ invites[t].room # NoNode /\ ~invites[t].expired
    /\ invites' = [invites EXCEPT ![t].expired = TRUE]
    /\ UNCHANGED <<rooms, members, reach, version, admitted, barred>>

\* The invite a join with token t for room r may use.
InviteValid(r, t) ==
    invites[t].room = r /\ ~invites[t].expired /\ invites[t].left # 0

\* Seeded fault: the last use is never spent.
UseInviteKeepsLast(t) ==
    IF invites[t].left > 1 THEN [invites[t] EXCEPT !.left = @ - 1] ELSE invites[t]

\* The invite's row after the use.
UseInvite(t) ==
    IF invites[t].left > 0 THEN [invites[t] EXCEPT !.left = @ - 1] ELSE invites[t]

------------------------------------------------------------------------------
(* Members: the admin's operations. *)

\* MemberAction approve and unban: both make the member active.
Approve(u, r, n) ==
    /\ roomFor(u, r) /\ IsMember(r, n)
    /\ ChangeMember(r, n, [members[r][n] EXCEPT !.status = "active"])
    /\ barred' = barred \ {<<r, n>>}

\* MemberAction ban: the row, its address and its approvals stay.
Ban(u, r, n) ==
    /\ roomFor(u, r) /\ IsMember(r, n)
    /\ ChangeMember(r, n, [members[r][n] EXCEPT !.status = "banned"])
    /\ barred' = barred \cup {<<r, n>>}

\* MemberAction kick.
Kick(u, r, n) ==
    /\ roomFor(u, r) /\ IsMember(r, n)
    /\ ChangeMember(r, n, NoMember)
    /\ barred' = barred \ {<<r, n>>}

\* MemberAction routes: what the member offers now, without the room's own
\* subnet; refused when nothing is left.
ApproveRoutes(u, r, n) ==
    /\ roomFor(u, r) /\ IsMember(r, n)
    /\ LET ok == {p \in reach[n].routes : ~Overlaps(p, rooms[r].subnet)} IN
       /\ ok # {}
       /\ ChangeMember(r, n, [members[r][n] EXCEPT !.routes = ok])
    /\ UNCHANGED barred

\* MemberAction noroutes.
WithdrawRoutes(u, r, n) ==
    /\ roomFor(u, r) /\ IsMember(r, n)
    /\ ChangeMember(r, n, [members[r][n] EXCEPT !.routes = {}])
    /\ UNCHANGED barred

\* MemberAction exit (needs the offer) and noexit.
SetExit(u, r, n, on) ==
    /\ roomFor(u, r) /\ IsMember(r, n)
    /\ on => reach[n].exit
    /\ ChangeMember(r, n, [members[r][n] EXCEPT !.exit = on])
    /\ UNCHANGED barred

\* SetMemberExit: x is an approved, offering, active exit other than n.
SetMemberExit(u, r, n, x) ==
    /\ roomFor(u, r) /\ IsMember(r, n)
    /\ x # NoNode => /\ x # n /\ x \in Active(r)
                     /\ members[r][x].exit /\ reach[x].exit
    /\ ChangeMember(r, n, [members[r][n] EXCEPT !.useExit = x])
    /\ UNCHANGED barred

\* UpdateMember: the address must be a host of the room nobody else has
\* (name and tags are not told apart).
UpdateMember(u, r, n, a) ==
    /\ roomFor(u, r) /\ IsMember(r, n)
    /\ usableHost(rooms[r].subnet, a)
    /\ a # members[r][n].ip => \A o \in ListMembers(r) : members[r][o].ip # a
    /\ ChangeMember(r, n, [members[r][n] EXCEPT !.ip = a])
    /\ UNCHANGED barred

------------------------------------------------------------------------------
(* The node's operations. *)

\* The quota and the subnet leave room for one more member.
HasRoom(r) ==
    /\ MaxMembers > 0 => Cardinality(ListMembers(r)) < MaxMembers
    /\ FreeIPs(r) # {}

\* Join by a node that is a member already and not banned: its report is
\* stored and no use of the invite is spent.
Rejoin(n, r, rep) ==
    /\ Live(r) /\ IsMember(r, n) /\ members[r][n].status # "banned"
    /\ reach' = [reach EXCEPT ![n] = rep]
    /\ BumpVersion
    /\ UNCHANGED <<rooms, members, invites, admitted, barred>>

\* Join by a node that is not a member.
Join(n, r, t, rep) ==
    /\ Live(r) /\ ~IsMember(r, n)
    /\ InviteValid(r, t)
    /\ HasRoom(r)
    /\ LET active == invites[t].auto \/ rooms[r].policy = "auto" IN
       PutMember(r, n, [NoMember EXCEPT
            !.status = IF active THEN "active" ELSE "pending",
            !.ip = allocateIP(r)])
    /\ invites' = [invites EXCEPT ![t] = UseInvite(t)]
    /\ admitted' = [admitted EXCEPT ![t] = @ + 1]
    /\ reach' = [reach EXCEPT ![n] = rep]
    /\ PutRoom(r, rooms[r])
    /\ BumpVersion
    /\ UNCHANGED barred

\* Seeded fault: leaving deletes a banned row as well.
LeaveLiftsBan(n, r) ==
    /\ IsMember(r, n)
    /\ PutMember(r, n, NoMember) /\ PutRoom(r, rooms[r])
    /\ BumpVersion
    /\ UNCHANGED <<invites, reach, admitted, barred>>

\* Leave: a ban stays even if the node leaves (the call still bumps the
\* global counter).
Leave(n, r) ==
    /\ IsMember(r, n)
    /\ IF members[r][n].status = "banned"
       THEN UNCHANGED <<rooms, members>>
       ELSE PutMember(r, n, NoMember) /\ PutRoom(r, rooms[r])
    /\ BumpVersion
    /\ UNCHANGED <<invites, reach, admitted, barred>>

\* Poll's first transaction: UpdateNodeEndpoints, without a bump.
UpdateNodeEndpoints(n, rep) ==
    /\ Known(n)
    /\ reach' = [reach EXCEPT ![n] = rep]
    /\ UNCHANGED <<rooms, members, invites, version, admitted, barred>>

\* Poll's second transaction after a changed report: change() of nothing.
Touch ==
    /\ BumpVersion
    /\ UNCHANGED <<rooms, members, invites, reach, admitted, barred>>

------------------------------------------------------------------------------
StoreInit ==
    /\ rooms = [r \in Rooms |->
            [state |-> "none", subnet |-> NoSubnet, owner |-> NoNode,
             policy |-> "manual", version |-> 0,
             settings |-> [f \in Fields |-> 0]]]
    /\ members = [r \in Rooms |-> [n \in Nodes |-> NoMember]]
    /\ invites = [t \in Tokens |-> NoInvite]
    /\ reach = [n \in Nodes |-> NoReport]
    /\ version = 1
    /\ admitted = [t \in Tokens |-> 0]
    /\ barred = {}

\* What the panel (panel) or the command line (~panel) may do.
ManageRoom(panel) ==
    \E u \in Users, r \in Rooms :
        \/ \E p \in Subnets, policy \in {"manual", "auto"} :
                CreateRoom(u, r, p, policy, panel)
        \/ \E v \in Values, policy \in {"manual", "auto"} : UpdateRoom(u, r, policy, v)
        \/ \E f \in Fields \ {"name"}, v \in Values : SetRoomField(u, r, f, v)
        \/ DeleteRoom(u, r)

ManageInvite ==
    \E u \in Users, r \in Rooms, t \in Tokens :
        \/ \E uses \in Uses, auto \in BOOLEAN : CreateInvite(u, r, t, uses, auto)
        \/ RevokeInvite(u, r, t)

ManageMember ==
    \E u \in Users, r \in Rooms, n \in Nodes :
        \/ Approve(u, r, n)
        \/ Ban(u, r, n)
        \/ Kick(u, r, n)
        \/ ApproveRoutes(u, r, n)
        \/ WithdrawRoutes(u, r, n)
        \/ \E on \in BOOLEAN : SetExit(u, r, n, on)
        \/ \E x \in Nodes \cup {NoNode} : SetMemberExit(u, r, n, x)
        \/ \E a \in Addresses : UpdateMember(u, r, n, a)

Manage(panel) == ManageRoom(panel) \/ ManageInvite \/ ManageMember

NodeRequest ==
    \E n \in Nodes, r \in Rooms :
        \/ \E rep \in Reports : Rejoin(n, r, rep)
        \/ \E t \in Tokens, rep \in Reports : Join(n, r, t, rep)
        \/ Leave(n, r)

Expire == \E t \in Tokens : ExpireInvite(t)

Report == \E n \in Nodes, rep \in Reports : UpdateNodeEndpoints(n, rep)

StoreNext ==
    \/ \E panel \in BOOLEAN : Manage(panel)
    \/ NodeRequest
    \/ Expire
    \/ Report
    \/ Touch

StoreSpec == StoreInit /\ [][StoreNext]_storeVars

------------------------------------------------------------------------------
(* Properties. *)

Statuses == {"none", "pending", "active", "banned"}

RoomRow == [state : {"none", "live", "deleted"}, subnet : Subnets \cup {NoSubnet},
            owner : Users \cup {NoNode}, policy : {"manual", "auto"},
            version : Nat, settings : [Fields -> Values]]
MemberRow == [status : Statuses, ip : Nat, routes : SUBSET Nets, exit : BOOLEAN,
              useExit : Nodes \cup {NoNode}]
InviteRow == [room : Rooms \cup {NoNode}, left : Nat \cup {-1}, auto : BOOLEAN,
              granted : Nat \cup {-1}, expired : BOOLEAN]

\* The shape of the tables: rows of the columns' types, histories included.
StoreTypeOK ==
    /\ rooms \in [Rooms -> RoomRow]
    /\ members \in [Rooms -> [Nodes -> MemberRow]]
    /\ invites \in [Tokens -> InviteRow]
    /\ reach \in [Nodes -> Reports \cup {NoReport}]
    /\ version \in Nat
    /\ admitted \in [Tokens -> Nat]
    /\ barred \subseteq (Rooms \X Nodes)

\* No two members of a room have the same address, whatever their status,
\* and every member's address is a host of the room's subnet: allocateIP and
\* UpdateMember check it, no lock or constraint of this model does.
AddressesUnique ==
    \A r \in Rooms : \A n \in ListMembers(r) :
        /\ usableHost(rooms[r].subnet, members[r][n].ip)
        /\ \A o \in ListMembers(r) \ {n} : members[r][o].ip # members[r][n].ip

\* The subnets of two rooms never overlap, whether the subnet was typed or
\* picked (CreateRoom against AllSubnets; a deleted room frees its own).
SubnetsDisjoint ==
    \A r, s \in Rooms :
        (r # s /\ Live(r) /\ Live(s)) => ~Overlaps(rooms[r].subnet, rooms[s].subnet)

\* An approved route never covers the room's own subnet: a member cannot
\* draw the traffic of its own room, however its offers changed since.
RoutesOutsideSubnet ==
    \A r \in Rooms : \A n \in Nodes :
        \A p \in members[r][n].routes : ~Overlaps(p, rooms[r].subnet)

\* An invite with a limit lets in at most that many members, counting those
\* who left or were kicked and came back.
InviteBudget ==
    \A t \in Tokens :
        invites[t].granted > 0 => admitted[t] + invites[t].left <= invites[t].granted

\* A ban holds until an admin lifts it: nothing a node does (leave, join
\* again with a fresh invite) turns a banned row into another.
BansHold == \A b \in barred : members[b[1]][b[2]].status = "banned"

\* What a config says of its members' addresses and of the room.
Roster(r) ==
    [subnet |-> rooms[r].subnet, settings |-> rooms[r].settings,
     ips |-> [n \in Active(r) |-> members[r][n].ip]]

\* The room version never goes back, and a step that leaves it alone leaves
\* the roster alone: two signed configs of one version name the same members,
\* addresses and settings, so "not older" is enough for a node to accept one.
RosterVersioned ==
    [][\A r \in Rooms :
        /\ rooms'[r].version >= rooms[r].version
        /\ (Live(r) /\ rooms'[r].version = rooms[r].version) =>
              (rooms'[r].state = "deleted" \/ Roster(r)' = Roster(r))]_storeVars

------------------------------------------------------------------------------
(* The inductive invariant of ControllerProofs. *)

\* Members are rows of live rooms, an absent row is blank, a live room has a
\* subnet: what CreateRoom, Join and DeleteRoom rely on of each other.
RowsInv ==
    \A r \in Rooms :
        /\ Live(r) => rooms[r].subnet \in Subnets
        /\ \A n \in Nodes :
            /\ IsMember(r, n) => Live(r)
            /\ ~IsMember(r, n) => members[r][n] = NoMember

\* An invite row and the members it let in: a blank row let nobody in, a
\* created one has a limit other than 0 and stays within it.
InviteInv ==
    \A t \in Tokens :
        /\ invites[t] = NoInvite => admitted[t] = 0
        /\ invites[t].room # NoNode => invites[t].granted # 0
        /\ invites[t].granted > 0 => invites[t].left >= 0
        /\ invites[t].granted > 0 => admitted[t] + invites[t].left <= invites[t].granted

RoomInv == RowsInv /\ AddressesUnique /\ SubnetsDisjoint /\ RoutesOutsideSubnet /\ BansHold

StoreInv == StoreTypeOK /\ RoomInv /\ InviteInv
=============================================================================
