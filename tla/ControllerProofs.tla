--------------------------- MODULE ControllerProofs --------------------------
(***************************************************************************)
(* The controller, for every set of rooms, nodes, users, tokens, subnets   *)
(* and reports, every quota, and any number of changes and restarts.       *)
(*                                                                         *)
(* First the store by itself (StoreSpec): its types, addresses, networks,  *)
(* routes, bans, invites and room versions.  Then the composition (Spec):  *)
(* every step of it is a transaction of the store or none, so that it      *)
(* keeps what the store keeps; the hub and the long poll never let a       *)
(* handler wait past a change, and a version stands for the rooms it was   *)
(* read with.                                                              *)
(***************************************************************************)
EXTENDS LongPoll, TLAPS, WellFoundedInduction

------------------------------------------------------------------------------
(* Rows. *)

\* The rows of the initial tables have the columns' types.
LEMMA BlankRows ==
    /\ NoMember \in MemberRow
    /\ NoInvite \in InviteRow
    /\ \A f : f \in [Fields -> Values] =>
        [state |-> "none", subnet |-> NoSubnet, owner |-> NoNode,
         policy |-> "manual", version |-> 0, settings |-> f] \in RoomRow
  BY DEF NoMember, NoInvite, MemberRow, InviteRow, RoomRow, Statuses

\* The empty database is well typed.
LEMMA TypeInit == StoreInit => StoreTypeOK
<1>. SUFFICES ASSUME StoreInit PROVE StoreTypeOK
  OBVIOUS
<1>1. [f \in Fields |-> 0] \in [Fields -> Values]
  BY StoreAssumption DEF StoreAssumption
<1>2. rooms \in [Rooms -> RoomRow]
  BY <1>1, BlankRows DEF StoreInit
<1>3. members \in [Rooms -> [Nodes -> MemberRow]] /\ invites \in [Tokens -> InviteRow]
  BY BlankRows DEF StoreInit
<1>. QED
  BY <1>2, <1>3 DEF StoreInit, StoreTypeOK

\* The global counter stays a natural number.
LEMMA BumpType == StoreTypeOK /\ BumpVersion => version' \in Nat
  BY DEF StoreTypeOK, BumpVersion

\* BumpRoom keeps a room row well typed and raises only its version.
LEMMA RoomRowBumped ==
    ASSUME NEW rm \in RoomRow
    PROVE  /\ BumpRoom(rm) \in RoomRow
           /\ BumpRoom(rm).state = rm.state /\ BumpRoom(rm).subnet = rm.subnet
           /\ BumpRoom(rm).settings = rm.settings
           /\ BumpRoom(rm).version = rm.version + 1
  BY DEF BumpRoom, RoomRow

\* An admin's change of a member row by a well typed one keeps the tables
\* well typed.
LEMMA ChangeMemberType ==
    ASSUME StoreTypeOK, NEW r \in Rooms, NEW n \in Nodes, NEW m \in MemberRow,
           ChangeMember(r, n, m), barred' \subseteq (Rooms \X Nodes)
    PROVE  StoreTypeOK'
<1>1. rooms' \in [Rooms -> RoomRow]
  BY RoomRowBumped DEF ChangeMember, PutRoom, StoreTypeOK
<1>2. members' \in [Rooms -> [Nodes -> MemberRow]]
  BY DEF ChangeMember, PutMember, StoreTypeOK
<1>. QED
  BY <1>1, <1>2 DEF StoreTypeOK, ChangeMember, BumpVersion

\* One lemma for the three operations that rewrite a room row.
LEMMA PutRoomType ==
    ASSUME StoreTypeOK, NEW r \in Rooms, NEW rm \in RoomRow, PutRoom(r, rm)
    PROVE  rooms' \in [Rooms -> RoomRow]
  BY RoomRowBumped DEF PutRoom, StoreTypeOK

\* A route a node reported is one of Nets.
LEMMA ReportRow ==
    ASSUME StoreTypeOK, NEW n \in Nodes
    PROVE  reach[n].routes \subseteq Nets
<1>1. CASE reach[n] = NoReport
  <2>1. NoReport.routes = {}
    BY DEF NoReport
  <2>. QED
    BY <1>1, <2>1
<1>2. CASE reach[n] \in Reports
  <2>1. reach[n].routes \in {rep.routes : rep \in Reports}
    BY <1>2
  <2>. QED
    BY <2>1 DEF Nets
<1>. QED
  BY <1>1, <1>2 DEF StoreTypeOK

\* A nonempty set of naturals has a least element.
LEMMA LeastNatural ==
    ASSUME NEW S, S \subseteq Nat, S # {}
    PROVE  \E a \in S : \A b \in S : a <= b
<1>. DEFINE R == OpToRel(<, Nat)
<1>1. IsWellFoundedOn(R, Nat)
  BY NatLessThanWellFounded
<1>2. PICK x \in S : \A y \in S : ~(<<y, x>> \in R)
  <2>. HIDE DEF R
  <2>. QED
    BY <1>1, WFMin
<1>3. \A y \in S : ~(y < x)
  BY <1>2 DEF OpToRel
<1>. QED
  BY <1>3

\* Every address FreeIPs holds is a host of the subnet that no member has.
LEMMA FreeAddress ==
    ASSUME NEW r \in Rooms, FreeIPs(r) # {}, StoreTypeOK, Live(r),
           rooms[r].subnet \in Subnets
    PROVE  /\ allocateIP(r) \in Nat
           /\ usableHost(rooms[r].subnet, allocateIP(r))
           /\ \A n \in ListMembers(r) : members[r][n].ip # allocateIP(r)
<1>1. PICK a \in FreeIPs(r) : \A b \in FreeIPs(r) : a <= b
  <2>1. FreeIPs(r) \subseteq Nat
    BY StoreAssumption DEF StoreAssumption, FreeIPs
  <2>. QED
    BY <2>1, LeastNatural
<1>2. allocateIP(r) \in FreeIPs(r)
  BY <1>1 DEF allocateIP
<1>. QED
  BY <1>2, StoreAssumption DEF FreeIPs, StoreAssumption

------------------------------------------------------------------------------
(* Type correctness, one operation at a time. *)

\* CreateRoom, UpdateRoom, SetRoomField and DeleteRoom keep the types.
LEMMA RoomOpsType ==
    ASSUME StoreTypeOK, NEW panel \in BOOLEAN, ManageRoom(panel)
    PROVE  StoreTypeOK'
<1>. PICK u \in Users, r \in Rooms :
        \/ \E p \in Subnets, policy \in {"manual", "auto"} :
                CreateRoom(u, r, p, policy, panel)
        \/ \E v \in Values, policy \in {"manual", "auto"} : UpdateRoom(u, r, policy, v)
        \/ \E f \in Fields \ {"name"}, v \in Values : SetRoomField(u, r, f, v)
        \/ DeleteRoom(u, r)
  BY DEF ManageRoom
<1>0. rooms[r] \in RoomRow
  BY DEF StoreTypeOK
<1>1. ASSUME NEW p \in Subnets, NEW policy \in {"manual", "auto"},
             CreateRoom(u, r, p, policy, panel)
      PROVE  StoreTypeOK'
  <2>1. [state |-> "live", subnet |-> p, owner |-> u, policy |-> policy,
         version |-> 1, settings |-> rooms[r].settings] \in RoomRow
    BY <1>0 DEF RoomRow
  <2>. QED
    BY <1>1, <2>1 DEF CreateRoom, StoreTypeOK, BumpVersion
<1>2. ASSUME NEW v \in Values, NEW policy \in {"manual", "auto"},
             UpdateRoom(u, r, policy, v)
      PROVE  StoreTypeOK'
  <2>1. [rooms[r] EXCEPT !.policy = policy, !.settings["name"] = v] \in RoomRow
    BY <1>0, StoreAssumption DEF RoomRow, StoreAssumption
  <2>. QED
    <3>1. rooms' \in [Rooms -> RoomRow]
      BY <1>2, <2>1, PutRoomType DEF UpdateRoom
    <3>. QED
      BY <1>2, <3>1, BumpType DEF UpdateRoom, StoreTypeOK
<1>3. ASSUME NEW f \in Fields, NEW v \in Values, SetRoomField(u, r, f, v)
      PROVE  StoreTypeOK'
  <2>1. [rooms[r] EXCEPT !.settings[f] = v] \in RoomRow
    BY <1>0 DEF RoomRow
  <2>. QED
    BY <1>3, <2>1, PutRoomType DEF SetRoomField, StoreTypeOK, BumpVersion
<1>4. ASSUME DeleteRoom(u, r) PROVE StoreTypeOK'
  <2>1. rooms' \in [Rooms -> RoomRow]
    <3>1. [rooms[r] EXCEPT !.state = "deleted"] \in RoomRow
      BY <1>0 DEF RoomRow
    <3>. QED
      BY <1>4, <3>1 DEF DeleteRoom, StoreTypeOK
  <2>2. members' \in [Rooms -> [Nodes -> MemberRow]]
    BY <1>4, BlankRows DEF DeleteRoom, StoreTypeOK
  <2>3. invites' \in [Tokens -> InviteRow]
    <3>1. \A i \in InviteRow : [i EXCEPT !.room = NoNode, !.left = 0] \in InviteRow
      BY DEF InviteRow
    <3>. QED
      BY <1>4, <3>1 DEF DeleteRoom, StoreTypeOK
  <2>4. barred' \subseteq (Rooms \X Nodes)
    BY <1>4 DEF DeleteRoom, StoreTypeOK
  <2>5. version' \in Nat /\ reach' = reach /\ admitted' = admitted
    BY <1>4, BumpType DEF DeleteRoom
  <2>. QED
    BY <2>1, <2>2, <2>3, <2>4, <2>5 DEF StoreTypeOK
<1>. QED
  BY <1>1, <1>2, <1>3, <1>4

\* Creating, revoking and expiring invites keeps the types.
LEMMA InviteOpsType ==
    ASSUME StoreTypeOK, ManageInvite \/ Expire PROVE StoreTypeOK'
<1>1. ASSUME NEW u \in Users, NEW r \in Rooms, NEW t \in Tokens, NEW uses \in Uses,
             NEW auto \in BOOLEAN, CreateInvite(u, r, t, uses, auto)
      PROVE  StoreTypeOK'
  <2>. DEFINE left == IF uses <= 0 THEN -1 ELSE uses
  <2>1. [room |-> r, left |-> left, auto |-> auto, granted |-> left,
         expired |-> FALSE] \in InviteRow
    BY StoreAssumption DEF InviteRow, StoreAssumption
  <2>. QED
    BY <1>1, <2>1 DEF CreateInvite, StoreTypeOK, BumpVersion
<1>2. \A i \in InviteRow : /\ [i EXCEPT !.left = 0] \in InviteRow
                           /\ [i EXCEPT !.expired = TRUE] \in InviteRow
  BY DEF InviteRow
<1>3. ASSUME NEW u \in Users, NEW r \in Rooms, NEW t \in Tokens, RevokeInvite(u, r, t)
      PROVE  StoreTypeOK'
  <2>1. invites' \in [Tokens -> InviteRow]
    <3>1. [invites EXCEPT ![t].left = 0] \in [Tokens -> InviteRow]
      BY <1>2 DEF StoreTypeOK
    <3>. QED
      BY <1>3, <3>1 DEF RevokeInvite, StoreTypeOK
  <2>. QED
    BY <1>3, <2>1 DEF RevokeInvite, StoreTypeOK, BumpVersion
<1>4. ASSUME NEW t \in Tokens, ExpireInvite(t) PROVE StoreTypeOK'
  BY <1>2, <1>4 DEF ExpireInvite, StoreTypeOK
<1>. QED
  BY <1>1, <1>3, <1>4 DEF ManageInvite, Expire

\* The admin's operations on members keep the types.
LEMMA MemberOpsType ==
    ASSUME StoreTypeOK, ManageMember PROVE StoreTypeOK'
<1>. PICK u \in Users, r \in Rooms, n \in Nodes :
        \/ Approve(u, r, n) \/ Ban(u, r, n) \/ Kick(u, r, n)
        \/ ApproveRoutes(u, r, n) \/ WithdrawRoutes(u, r, n)
        \/ \E on \in BOOLEAN : SetExit(u, r, n, on)
        \/ \E x \in Nodes \cup {NoNode} : SetMemberExit(u, r, n, x)
        \/ \E a \in Addresses : UpdateMember(u, r, n, a)
  BY DEF ManageMember
<1>0. members[r][n] \in MemberRow
  BY DEF StoreTypeOK
<1>1. \A st \in Statuses : [members[r][n] EXCEPT !.status = st] \in MemberRow
  BY <1>0 DEF MemberRow
<1>2. CASE Approve(u, r, n)
  BY <1>1, <1>2, ChangeMemberType DEF Approve, Statuses, StoreTypeOK
<1>3. CASE Ban(u, r, n)
  BY <1>1, <1>3, ChangeMemberType DEF Ban, Statuses, StoreTypeOK
<1>4. CASE Kick(u, r, n)
  BY <1>4, BlankRows, ChangeMemberType DEF Kick, StoreTypeOK
<1>5. CASE ApproveRoutes(u, r, n)
  <2>. DEFINE ok == {p \in reach[n].routes : ~Overlaps(p, rooms[r].subnet)}
  <2>1. [members[r][n] EXCEPT !.routes = ok] \in MemberRow
    BY <1>0, ReportRow DEF MemberRow
  <2>. QED
    BY <1>5, <2>1, ChangeMemberType DEF ApproveRoutes, StoreTypeOK
<1>6. CASE WithdrawRoutes(u, r, n)
  <2>1. [members[r][n] EXCEPT !.routes = {}] \in MemberRow
    BY <1>0 DEF MemberRow
  <2>. QED
    BY <1>6, <2>1, ChangeMemberType DEF WithdrawRoutes, StoreTypeOK
<1>7. ASSUME NEW on \in BOOLEAN, SetExit(u, r, n, on) PROVE StoreTypeOK'
  <2>1. [members[r][n] EXCEPT !.exit = on] \in MemberRow
    BY <1>0 DEF MemberRow
  <2>. QED
    BY <1>7, <2>1, ChangeMemberType DEF SetExit, StoreTypeOK
<1>8. ASSUME NEW x \in Nodes \cup {NoNode}, SetMemberExit(u, r, n, x) PROVE StoreTypeOK'
  <2>1. [members[r][n] EXCEPT !.useExit = x] \in MemberRow
    BY <1>0 DEF MemberRow
  <2>. QED
    BY <1>8, <2>1, ChangeMemberType DEF SetMemberExit, StoreTypeOK
<1>9. ASSUME NEW a \in Addresses, UpdateMember(u, r, n, a) PROVE StoreTypeOK'
  <2>1. [members[r][n] EXCEPT !.ip = a] \in MemberRow
    BY <1>0, StoreAssumption DEF MemberRow, StoreAssumption
  <2>. QED
    BY <1>9, <2>1, ChangeMemberType DEF UpdateMember, StoreTypeOK
<1>. QED
  BY <1>2, <1>3, <1>4, <1>5, <1>6, <1>7, <1>8, <1>9

\* Join, a repeated join and leave keep the types.
LEMMA NodeOpsType ==
    ASSUME StoreTypeOK, NodeRequest,
           \A r \in Rooms : Live(r) => rooms[r].subnet \in Subnets
    PROVE  StoreTypeOK'
<1>. PICK n \in Nodes, r \in Rooms :
        \/ \E rep \in Reports : Rejoin(n, r, rep)
        \/ \E t \in Tokens, rep \in Reports : Join(n, r, t, rep)
        \/ Leave(n, r)
  BY DEF NodeRequest
<1>0. rooms[r] \in RoomRow
  BY DEF StoreTypeOK
<1>1. ASSUME NEW rep \in Reports, Rejoin(n, r, rep) PROVE StoreTypeOK'
  BY <1>1 DEF Rejoin, StoreTypeOK, BumpVersion
<1>2. ASSUME NEW t \in Tokens, NEW rep \in Reports, Join(n, r, t, rep) PROVE StoreTypeOK'
  <2>1. rooms' \in [Rooms -> RoomRow]
    BY <1>0, <1>2, PutRoomType DEF Join
  <2>2. members' \in [Rooms -> [Nodes -> MemberRow]]
    <3>1. allocateIP(r) \in Nat
      BY <1>2, FreeAddress DEF Join, HasRoom
    <3>2. \A st \in Statuses, a \in Nat :
            [NoMember EXCEPT !.status = st, !.ip = a] \in MemberRow
      BY DEF NoMember, MemberRow
    <3>3. PICK m \in MemberRow : PutMember(r, n, m)
      BY <1>2, <3>1, <3>2 DEF Join, Statuses
    <3>. QED
      BY <3>3 DEF PutMember, StoreTypeOK
  <2>3. invites' \in [Tokens -> InviteRow]
    <3>1. UseInvite(t) \in InviteRow
      <4>1. invites[t] \in InviteRow
        BY DEF StoreTypeOK
      <4>. QED
        BY <4>1 DEF UseInvite, InviteRow
    <3>. QED
      BY <1>2, <3>1 DEF Join, StoreTypeOK
  <2>4. version' \in Nat /\ barred' = barred
    BY <1>2, BumpType DEF Join
  <2>5. reach' \in [Nodes -> Reports \cup {NoReport}]
    BY <1>2 DEF Join, StoreTypeOK
  <2>6. admitted' \in [Tokens -> Nat]
    <3>1. admitted' = [admitted EXCEPT ![t] = @ + 1]
      BY <1>2 DEF Join
    <3>. QED
      BY <3>1 DEF StoreTypeOK
  <2>. QED
    BY <2>1, <2>2, <2>3, <2>4, <2>5, <2>6 DEF StoreTypeOK
<1>3. ASSUME Leave(n, r) PROVE StoreTypeOK'
  <2>1. rooms' \in [Rooms -> RoomRow]
    BY <1>0, <1>3, PutRoomType DEF Leave, StoreTypeOK
  <2>2. members' \in [Rooms -> [Nodes -> MemberRow]]
    BY <1>3, BlankRows DEF Leave, PutMember, StoreTypeOK
  <2>. QED
    BY <1>3, <2>1, <2>2 DEF Leave, StoreTypeOK, BumpVersion
<1>. QED
  BY <1>1, <1>2, <1>3

\* Poll's two transactions keep the types.
LEMMA ReportType ==
    ASSUME StoreTypeOK, Report \/ Touch PROVE StoreTypeOK'
  BY DEF Report, UpdateNodeEndpoints, Touch, BumpVersion, StoreTypeOK

------------------------------------------------------------------------------
(* The invariant, one group of operations at a time. *)

\* The empty database satisfies the invariant.
LEMMA InitInv == StoreInit => RoomInv /\ InviteInv
<1>. SUFFICES ASSUME StoreInit PROVE RoomInv /\ InviteInv
  OBVIOUS
<1>1. \A r \in Rooms : ~Live(r) /\ rooms[r].subnet = NoSubnet
  BY DEF StoreInit, Live
<1>2. \A r \in Rooms, n \in Nodes : ~IsMember(r, n) /\ members[r][n] = NoMember
  BY DEF StoreInit, IsMember, NoMember
<1>3. RowsInv /\ SubnetsDisjoint
  BY <1>1, <1>2 DEF RowsInv, SubnetsDisjoint
<1>4. AddressesUnique /\ RoutesOutsideSubnet
  BY <1>2 DEF AddressesUnique, RoutesOutsideSubnet, ListMembers, NoMember
<1>5. BansHold
  BY DEF StoreInit, BansHold
<1>6. InviteInv
  BY DEF StoreInit, InviteInv, NoInvite
<1>. QED
  BY <1>3, <1>4, <1>5, <1>6 DEF RoomInv

\* The bans in force after row m is written: the old ones of other rows, and
\* this one only if m is a banned row.
BarredAfter(r, n, m) ==
    \A b \in barred' :
        (b \in barred /\ b # <<r, n>>) \/ (b = <<r, n>> /\ m.status = "banned")

\* A member row is written into a live room: the case of every operation on
\* members, of the admin or of the node.
LEMMA PutMemberInv ==
    ASSUME StoreTypeOK, RoomInv, NEW r \in Rooms, NEW n \in Nodes, NEW m \in MemberRow,
           Live(r), PutMember(r, n, m), PutRoom(r, rooms[r]),
           \/ m = NoMember
           \/ /\ m.status # "none"
              /\ usableHost(rooms[r].subnet, m.ip)
              /\ \A o \in ListMembers(r) \ {n} : members[r][o].ip # m.ip
              /\ \A p \in m.routes : ~Overlaps(p, rooms[r].subnet),
           BarredAfter(r, n, m)
    PROVE  RoomInv'
<1>1. \A s \in Rooms : rooms'[s].state = rooms[s].state /\ rooms'[s].subnet = rooms[s].subnet
  BY RoomRowBumped DEF PutRoom, StoreTypeOK
<1>2. \A s \in Rooms, o \in Nodes :
        members'[s][o] = IF s = r /\ o = n THEN m ELSE members[s][o]
  BY DEF PutMember, StoreTypeOK
<1>3. \A s \in Rooms : Live(s)' <=> Live(s)
  BY <1>1 DEF Live
<1>4. RowsInv'
  BY <1>1, <1>2, <1>3 DEF RowsInv, IsMember, RoomInv
<1>5. AddressesUnique'
  <2>1. SUFFICES ASSUME NEW s \in Rooms, NEW o \in Nodes, IsMember(s, o)',
                        NEW q \in Nodes, IsMember(s, q)', q # o
                 PROVE  members'[s][q].ip # members'[s][o].ip
    <3>1. ASSUME NEW s \in Rooms, NEW o \in Nodes, IsMember(s, o)'
          PROVE  usableHost(rooms'[s].subnet, members'[s][o].ip)
      BY <1>1, <1>2, <3>1 DEF IsMember, AddressesUnique, ListMembers, RoomInv, NoMember
    <3>. QED
      BY <3>1 DEF AddressesUnique, ListMembers
  <2>2. CASE s = r /\ (o = n \/ q = n)
    BY <1>2, <2>1, <2>2 DEF IsMember, ListMembers, NoMember
  <2>3. CASE ~(s = r /\ (o = n \/ q = n))
    BY <1>2, <2>1, <2>3 DEF IsMember, ListMembers, AddressesUnique, RoomInv
  <2>. QED
    BY <2>2, <2>3
<1>6. SubnetsDisjoint'
  BY <1>1, <1>3 DEF SubnetsDisjoint, RoomInv
<1>7. RoutesOutsideSubnet'
  BY <1>1, <1>2 DEF RoutesOutsideSubnet, RoomInv, NoMember
<1>8. BansHold'
  <2>1. SUFFICES ASSUME NEW b \in barred' PROVE members'[b[1]][b[2]].status = "banned"
    BY DEF BansHold
  <2>2. CASE b = <<r, n>> /\ m.status = "banned"
    BY <1>2, <2>2
  <2>3. CASE b \in barred /\ b # <<r, n>>
    <3>1. b[1] \in Rooms /\ b[2] \in Nodes /\ b = <<b[1], b[2]>>
      BY <2>3 DEF StoreTypeOK
    <3>2. ~(b[1] = r /\ b[2] = n)
      BY <2>3, <3>1
    <3>. QED
      BY <1>2, <2>3, <3>1, <3>2 DEF BansHold, RoomInv
  <2>. QED
    BY <2>2, <2>3 DEF BarredAfter
<1>. QED
  BY <1>4, <1>5, <1>6, <1>7, <1>8 DEF RoomInv

\* Approve, ban, kick, routes, exits and addresses keep the room invariant:
\* the checks in MemberAction and UpdateMember are enough for it.
LEMMA MemberOpsInv ==
    ASSUME StoreTypeOK, RoomInv, ManageMember PROVE RoomInv'
<1>. PICK u \in Users, r \in Rooms, n \in Nodes :
        \/ Approve(u, r, n) \/ Ban(u, r, n) \/ Kick(u, r, n)
        \/ ApproveRoutes(u, r, n) \/ WithdrawRoutes(u, r, n)
        \/ \E on \in BOOLEAN : SetExit(u, r, n, on)
        \/ \E x \in Nodes \cup {NoNode} : SetMemberExit(u, r, n, x)
        \/ \E a \in Addresses : UpdateMember(u, r, n, a)
  BY DEF ManageMember
<1>. DEFINE row == members[r][n]
<1>0. row \in MemberRow
  BY DEF StoreTypeOK
\* What every one of these operations starts from.
<1>1. roomFor(u, r) /\ IsMember(r, n)
  BY DEF Approve, Ban, Kick, ApproveRoutes, WithdrawRoutes, SetExit, SetMemberExit,
         UpdateMember
<1>2. /\ Live(r)
      /\ row.status # "none"
      /\ usableHost(rooms[r].subnet, row.ip)
      /\ \A o \in ListMembers(r) \ {n} : members[r][o].ip # row.ip
      /\ \A p \in row.routes : ~Overlaps(p, rooms[r].subnet)
  BY <1>1 DEF roomFor, IsMember, ListMembers, RoomInv, AddressesUnique, RoutesOutsideSubnet
<1>b. <<r, n>> \in barred => row.status = "banned"
  <2>1. \A b \in barred : members[b[1]][b[2]].status = "banned"
    BY DEF RoomInv, BansHold
  <2>2. <<r, n>>[1] = r /\ <<r, n>>[2] = n
    OBVIOUS
  <2>. QED
    BY <2>1, <2>2
\* A row that differs from the old one in fields the invariant does not read.
<1>3. ASSUME NEW m \in MemberRow, ChangeMember(r, n, m), UNCHANGED barred,
             m.status = row.status, m.ip = row.ip,
             \A p \in m.routes : ~Overlaps(p, rooms[r].subnet)
      PROVE  RoomInv'
  <2>1. BarredAfter(r, n, m)
    BY <1>b, <1>3 DEF BarredAfter
  <2>. QED
    BY <1>2, <1>3, <2>1, PutMemberInv DEF ChangeMember
<1>4. CASE Approve(u, r, n)
  <2>. DEFINE m == [row EXCEPT !.status = "active"]
  <2>1. m \in MemberRow /\ m.status = "active" /\ m.ip = row.ip /\ m.routes = row.routes
    BY <1>0 DEF MemberRow, Statuses
  <2>2. ChangeMember(r, n, m) /\ barred' = barred \ {<<r, n>>}
    BY <1>4 DEF Approve
  <2>. HIDE DEF m
  <2>3. PutMember(r, n, m) /\ PutRoom(r, rooms[r])
    BY <2>2 DEF ChangeMember
  <2>4. BarredAfter(r, n, m)
    BY <2>1, <2>2 DEF BarredAfter
  <2>. QED
    BY <1>2, <2>1, <2>3, <2>4, PutMemberInv
<1>5. CASE Ban(u, r, n)
  <2>. DEFINE m == [row EXCEPT !.status = "banned"]
  <2>1. m \in MemberRow /\ m.status = "banned" /\ m.ip = row.ip /\ m.routes = row.routes
    BY <1>0 DEF MemberRow, Statuses
  <2>2. ChangeMember(r, n, m) /\ barred' = barred \cup {<<r, n>>}
    BY <1>5 DEF Ban
  <2>. HIDE DEF m
  <2>3. PutMember(r, n, m) /\ PutRoom(r, rooms[r])
    BY <2>2 DEF ChangeMember
  <2>4. BarredAfter(r, n, m)
    BY <2>1, <2>2 DEF BarredAfter
  <2>. QED
    BY <1>2, <2>1, <2>3, <2>4, PutMemberInv
<1>6. CASE Kick(u, r, n)
  <2>1. ChangeMember(r, n, NoMember) /\ barred' = barred \ {<<r, n>>}
    BY <1>6 DEF Kick
  <2>2. BarredAfter(r, n, NoMember)
    BY <2>1 DEF BarredAfter
  <2>3. PutMember(r, n, NoMember) /\ PutRoom(r, rooms[r])
    BY <2>1 DEF ChangeMember
  <2>. QED
    BY <1>2, <2>2, <2>3, BlankRows, PutMemberInv
<1>7. CASE ApproveRoutes(u, r, n)
  <2>. DEFINE ok == {p \in reach[n].routes : ~Overlaps(p, rooms[r].subnet)}
              m == [row EXCEPT !.routes = ok]
  <2>1. m \in MemberRow /\ m.status = row.status /\ m.ip = row.ip /\ m.routes = ok
    BY <1>0, ReportRow DEF MemberRow
  <2>2. ChangeMember(r, n, m) /\ UNCHANGED barred
    BY <1>7 DEF ApproveRoutes
  <2>. HIDE DEF m
  <2>. QED
    BY <1>3, <2>1, <2>2
<1>8. CASE WithdrawRoutes(u, r, n)
  <2>. DEFINE m == [row EXCEPT !.routes = {}]
  <2>1. m \in MemberRow /\ m.status = row.status /\ m.ip = row.ip /\ m.routes = {}
    BY <1>0 DEF MemberRow
  <2>2. ChangeMember(r, n, m) /\ UNCHANGED barred
    BY <1>8 DEF WithdrawRoutes
  <2>. HIDE DEF m
  <2>. QED
    BY <1>3, <2>1, <2>2
<1>9. ASSUME NEW on \in BOOLEAN, SetExit(u, r, n, on) PROVE RoomInv'
  <2>. DEFINE m == [row EXCEPT !.exit = on]
  <2>1. m \in MemberRow /\ m.status = row.status /\ m.ip = row.ip /\ m.routes = row.routes
    BY <1>0 DEF MemberRow
  <2>2. ChangeMember(r, n, m) /\ UNCHANGED barred
    BY <1>9 DEF SetExit
  <2>. HIDE DEF m
  <2>. QED
    BY <1>2, <1>3, <2>1, <2>2
<1>10. ASSUME NEW x \in Nodes \cup {NoNode}, SetMemberExit(u, r, n, x) PROVE RoomInv'
  <2>. DEFINE m == [row EXCEPT !.useExit = x]
  <2>1. m \in MemberRow /\ m.status = row.status /\ m.ip = row.ip /\ m.routes = row.routes
    BY <1>0 DEF MemberRow
  <2>2. ChangeMember(r, n, m) /\ UNCHANGED barred
    BY <1>10 DEF SetMemberExit
  <2>. HIDE DEF m
  <2>. QED
    BY <1>2, <1>3, <2>1, <2>2
<1>11. ASSUME NEW a \in Addresses, UpdateMember(u, r, n, a) PROVE RoomInv'
  <2>. DEFINE m == [row EXCEPT !.ip = a]
  <2>1. m \in MemberRow /\ m.status = row.status /\ m.ip = a /\ m.routes = row.routes
    BY <1>0, StoreAssumption DEF MemberRow, StoreAssumption
  <2>2. ChangeMember(r, n, m) /\ UNCHANGED barred
    BY <1>11 DEF UpdateMember
  <2>3. usableHost(rooms[r].subnet, a)
    BY <1>11 DEF UpdateMember
  <2>4. \A o \in ListMembers(r) \ {n} : members[r][o].ip # a
    BY <1>2, <1>11 DEF UpdateMember
  <2>. HIDE DEF m
  <2>5. PutMember(r, n, m) /\ PutRoom(r, rooms[r])
    BY <2>2 DEF ChangeMember
  <2>6. BarredAfter(r, n, m)
    BY <1>b, <2>1, <2>2 DEF BarredAfter
  <2>. QED
    BY <1>2, <2>1, <2>3, <2>4, <2>5, <2>6, PutMemberInv
<1>. QED
  BY <1>4, <1>5, <1>6, <1>7, <1>8, <1>9, <1>10, <1>11

\* Steps that leave members, bans and every room's state and subnet alone.
LEMMA QuietInv ==
    ASSUME RoomInv, UNCHANGED <<members, barred>>,
           \A r \in Rooms : rooms'[r].state = rooms[r].state
                           /\ rooms'[r].subnet = rooms[r].subnet
    PROVE  RoomInv'
<1>1. \A r \in Rooms : (Live(r)' <=> Live(r)) /\ ListMembers(r)' = ListMembers(r)
  BY DEF Live, ListMembers, IsMember
<1>2. \A r \in Rooms, n \in Nodes : IsMember(r, n)' <=> IsMember(r, n)
  BY DEF IsMember
<1>3. RowsInv'
  BY <1>1, <1>2 DEF RoomInv, RowsInv
<1>4. AddressesUnique' /\ SubnetsDisjoint' /\ RoutesOutsideSubnet'
  BY <1>1 DEF RoomInv, AddressesUnique, SubnetsDisjoint, RoutesOutsideSubnet
<1>5. BansHold'
  BY DEF RoomInv, BansHold
<1>. QED
  BY <1>3, <1>4, <1>5 DEF RoomInv

\* Creating, changing and deleting rooms keeps the room invariant.
LEMMA RoomOpsInv ==
    ASSUME StoreTypeOK, RoomInv, NEW panel \in BOOLEAN, ManageRoom(panel)
    PROVE  RoomInv'
<1>. PICK u \in Users, r \in Rooms :
        \/ \E p \in Subnets, policy \in {"manual", "auto"} :
                CreateRoom(u, r, p, policy, panel)
        \/ \E v \in Values, policy \in {"manual", "auto"} : UpdateRoom(u, r, policy, v)
        \/ \E f \in Fields \ {"name"}, v \in Values : SetRoomField(u, r, f, v)
        \/ DeleteRoom(u, r)
  BY DEF ManageRoom
<1>0. rooms[r] \in RoomRow /\ rooms \in [Rooms -> RoomRow]
  BY DEF StoreTypeOK
<1>1. ASSUME NEW p \in Subnets, NEW policy \in {"manual", "auto"},
             CreateRoom(u, r, p, policy, panel)
      PROVE  RoomInv'
  <2>1. /\ rooms'[r].state = "live" /\ rooms'[r].subnet = p
        /\ \A s \in Rooms \ {r} : rooms'[s] = rooms[s]
    BY <1>0, <1>1 DEF CreateRoom
  <2>2. /\ ~Live(r) /\ UNCHANGED <<members, barred>>
        /\ \A q \in AllSubnets : ~Overlaps(q, p)
    BY <1>1 DEF CreateRoom, Live
  <2>3. \A n \in Nodes : ~IsMember(r, n) /\ members[r][n] = NoMember
    BY <2>2 DEF RoomInv, RowsInv
  <2>4. \A s \in Rooms \ {r} : Live(s)' <=> Live(s)
    BY <2>1 DEF Live
  <2>5. \A s \in Rooms, n \in Nodes : IsMember(s, n)' <=> IsMember(s, n)
    BY <2>2 DEF IsMember
  <2>6. RowsInv'
    BY <2>1, <2>2, <2>3, <2>4, <2>5 DEF RoomInv, RowsInv, Live
  <2>7. AddressesUnique'
    BY <2>1, <2>2, <2>3, <2>5 DEF RoomInv, AddressesUnique, ListMembers
  <2>8. SubnetsDisjoint'
    <3>1. \A s \in Rooms \ {r} : Live(s) => ~Overlaps(rooms[s].subnet, p) /\ ~Overlaps(p, rooms[s].subnet)
      <4>1. \A s \in Rooms \ {r} : Live(s) => rooms[s].subnet \in AllSubnets
        BY DEF AllSubnets
      <4>2. \A q : Overlaps(q, p) <=> Overlaps(p, q)
        BY DEF Overlaps
      <4>. QED
        BY <2>2, <4>1, <4>2
    <3>. QED
      BY <2>1, <2>4, <3>1 DEF RoomInv, SubnetsDisjoint
  <2>9. RoutesOutsideSubnet'
    BY <2>1, <2>2, <2>3 DEF RoomInv, RoutesOutsideSubnet, NoMember
  <2>10. BansHold'
    BY <2>2 DEF RoomInv, BansHold
  <2>. QED
    BY <2>6, <2>7, <2>8, <2>9, <2>10 DEF RoomInv
<1>2. ASSUME NEW v \in Values, NEW policy \in {"manual", "auto"},
             UpdateRoom(u, r, policy, v)
      PROVE  RoomInv'
  <2>. DEFINE rm == [rooms[r] EXCEPT !.policy = policy, !.settings["name"] = v]
  <2>1. rm \in RoomRow /\ rm.state = rooms[r].state /\ rm.subnet = rooms[r].subnet
    BY <1>0, StoreAssumption DEF RoomRow, StoreAssumption
  <2>2. PutRoom(r, rm) /\ UNCHANGED <<members, barred>>
    BY <1>2 DEF UpdateRoom
  <2>. HIDE DEF rm
  <2>. QED
    BY <1>0, <2>1, <2>2, RoomRowBumped, QuietInv DEF PutRoom
<1>3. ASSUME NEW f \in Fields, NEW v \in Values, SetRoomField(u, r, f, v)
      PROVE  RoomInv'
  <2>. DEFINE rm == [rooms[r] EXCEPT !.settings[f] = v]
  <2>1. rm \in RoomRow /\ rm.state = rooms[r].state /\ rm.subnet = rooms[r].subnet
    BY <1>0 DEF RoomRow
  <2>2. PutRoom(r, rm) /\ UNCHANGED <<members, barred>>
    BY <1>3 DEF SetRoomField
  <2>. HIDE DEF rm
  <2>. QED
    BY <1>0, <2>1, <2>2, RoomRowBumped, QuietInv DEF PutRoom
<1>4. ASSUME DeleteRoom(u, r) PROVE RoomInv'
  <2>1. /\ rooms'[r].state = "deleted"
        /\ \A s \in Rooms \ {r} : rooms'[s] = rooms[s]
    BY <1>0, <1>4 DEF DeleteRoom, RoomRow
  <2>2. \A s \in Rooms, n \in Nodes :
            members'[s][n] = IF s = r THEN NoMember ELSE members[s][n]
    BY <1>4 DEF DeleteRoom, StoreTypeOK
  <2>3. /\ ~Live(r)'
        /\ \A s \in Rooms \ {r} : Live(s)' <=> Live(s)
    BY <2>1 DEF Live
  <2>4. \A s \in Rooms, n \in Nodes : IsMember(s, n)' <=> s # r /\ IsMember(s, n)
    BY <2>2 DEF IsMember, NoMember
  <2>5. RowsInv'
    BY <2>1, <2>2, <2>3, <2>4 DEF RoomInv, RowsInv
  <2>6. AddressesUnique'
    BY <2>1, <2>2, <2>4 DEF RoomInv, AddressesUnique, ListMembers
  <2>7. SubnetsDisjoint'
    BY <2>1, <2>3 DEF RoomInv, SubnetsDisjoint
  <2>8. RoutesOutsideSubnet'
    BY <2>1, <2>2 DEF RoomInv, RoutesOutsideSubnet, NoMember
  <2>9. BansHold'
    <3>1. \A b \in barred' : b \in barred /\ b[1] # r
      BY <1>4 DEF DeleteRoom
    <3>2. \A b \in barred : b[1] \in Rooms /\ b[2] \in Nodes
      BY DEF StoreTypeOK
    <3>. QED
      BY <2>2, <3>1, <3>2 DEF RoomInv, BansHold
  <2>. QED
    BY <2>5, <2>6, <2>7, <2>8, <2>9 DEF RoomInv
<1>. QED
  BY <1>1, <1>2, <1>3, <1>4

\* Join and leave keep the room invariant: the address allocated is free,
\* and a banned row survives.
LEMMA NodeOpsInv ==
    ASSUME StoreTypeOK, RoomInv, NodeRequest PROVE RoomInv'
<1>. PICK n \in Nodes, r \in Rooms :
        \/ \E rep \in Reports : Rejoin(n, r, rep)
        \/ \E t \in Tokens, rep \in Reports : Join(n, r, t, rep)
        \/ Leave(n, r)
  BY DEF NodeRequest
<1>b. <<r, n>> \in barred => members[r][n].status = "banned"
  <2>1. \A b \in barred : members[b[1]][b[2]].status = "banned"
    BY DEF RoomInv, BansHold
  <2>2. <<r, n>>[1] = r /\ <<r, n>>[2] = n
    OBVIOUS
  <2>. QED
    BY <2>1, <2>2
<1>1. ASSUME NEW rep \in Reports, Rejoin(n, r, rep) PROVE RoomInv'
  BY <1>1, QuietInv DEF Rejoin
<1>2. ASSUME NEW t \in Tokens, NEW rep \in Reports, Join(n, r, t, rep) PROVE RoomInv'
  <2>1. Live(r) /\ ~IsMember(r, n) /\ FreeIPs(r) # {} /\ PutRoom(r, rooms[r])
        /\ UNCHANGED barred
    BY <1>2 DEF Join, HasRoom
  <2>2. /\ allocateIP(r) \in Nat
        /\ usableHost(rooms[r].subnet, allocateIP(r))
        /\ \A o \in ListMembers(r) : members[r][o].ip # allocateIP(r)
    BY <2>1, FreeAddress DEF RoomInv, RowsInv
  <2>3. PICK m : /\ PutMember(r, n, m) /\ m \in MemberRow
                 /\ m.status \in {"active", "pending"}
                 /\ m.ip = allocateIP(r) /\ m.routes = {}
    <3>1. \A st \in {"active", "pending"}, a \in Nat :
            LET m == [NoMember EXCEPT !.status = st, !.ip = a] IN
            m \in MemberRow /\ m.status = st /\ m.ip = a /\ m.routes = {}
      BY DEF NoMember, MemberRow, Statuses
    <3>2. PICK st \in {"active", "pending"} :
            PutMember(r, n, [NoMember EXCEPT !.status = st, !.ip = allocateIP(r)])
      BY <1>2 DEF Join
    <3> DEFINE m == [NoMember EXCEPT !.status = st, !.ip = allocateIP(r)]
    <3>3. m \in MemberRow /\ m.status = st /\ m.ip = allocateIP(r) /\ m.routes = {}
      BY <2>2, <3>1
    <3>4. PutMember(r, n, m)
      BY <3>2
    <3> HIDE DEF m
    <3>. QED
      BY <3>3, <3>4
  <2>4. BarredAfter(r, n, m)
    BY <1>b, <2>1 DEF BarredAfter, IsMember
  <2>. QED
    BY <2>1, <2>2, <2>3, <2>4, PutMemberInv
<1>3. ASSUME Leave(n, r) PROVE RoomInv'
  <2>1. CASE members[r][n].status = "banned"
    BY <1>3, <2>1, QuietInv DEF Leave
  <2>2. CASE members[r][n].status # "banned"
    <3>1. /\ IsMember(r, n) /\ PutMember(r, n, NoMember) /\ PutRoom(r, rooms[r])
          /\ UNCHANGED barred
      BY <1>3, <2>2 DEF Leave
    <3>2. BarredAfter(r, n, NoMember)
      BY <1>b, <2>2, <3>1 DEF BarredAfter
    <3>3. Live(r)
      BY <3>1 DEF RoomInv, RowsInv
    <3>. QED
      BY <3>1, <3>2, <3>3, BlankRows, PutMemberInv
  <2>. QED
    BY <2>1, <2>2
<1>. QED
  BY <1>1, <1>2, <1>3

\* Steps that leave the invites and what they let in alone.
LEMMA InvitesUntouched ==
    ASSUME InviteInv, UNCHANGED <<invites, admitted>> PROVE InviteInv'
  BY DEF InviteInv

\* One invite is rewritten: the rest of InviteInv carries over.
LEMMA OneInvite ==
    ASSUME StoreTypeOK, InviteInv, NEW t \in Tokens, NEW i \in InviteRow, NEW k \in Nat,
           invites' = [invites EXCEPT ![t] = i],
           admitted' = [admitted EXCEPT ![t] = k],
           i = NoInvite => k = 0,
           i.room # NoNode => i.granted # 0,
           i.granted > 0 => i.left >= 0 /\ k + i.left <= i.granted
    PROVE  InviteInv'
<1>1. \A x \in Tokens :
        /\ invites'[x] = (IF x = t THEN i ELSE invites[x])
        /\ admitted'[x] = (IF x = t THEN k ELSE admitted[x])
  BY DEF StoreTypeOK
<1>. QED
  BY <1>1 DEF InviteInv

\* Creating, revoking and expiring invites keeps the invite invariant.
LEMMA InviteOpsInv ==
    ASSUME StoreTypeOK, InviteInv, ManageInvite \/ Expire PROVE InviteInv'
<1>0. \A t \in Tokens :
        /\ invites[t] \in InviteRow /\ admitted[t] \in Nat
        /\ admitted = [admitted EXCEPT ![t] = admitted[t]]
  BY DEF StoreTypeOK
<1>1. ASSUME NEW u \in Users, NEW r \in Rooms, NEW t \in Tokens, NEW uses \in Uses,
             NEW auto \in BOOLEAN, CreateInvite(u, r, t, uses, auto)
      PROVE  InviteInv'
  <2>. DEFINE left == IF uses <= 0 THEN -1 ELSE uses
              i == [room |-> r, left |-> left, auto |-> auto, granted |-> left,
                    expired |-> FALSE]
  <2>1. left \in Int /\ left # 0 /\ (left > 0 \/ left = -1)
    BY StoreAssumption DEF StoreAssumption
  <2>2. /\ i \in InviteRow /\ i.room = r /\ i.granted = left /\ i.left = left
    BY <2>1 DEF InviteRow
  <2>3. invites' = [invites EXCEPT ![t] = i] /\ admitted' = admitted /\ invites[t] = NoInvite
    BY <1>1 DEF CreateInvite
  <2>4. admitted[t] = 0
    BY <2>3 DEF InviteInv
  <2>. HIDE DEF i, left
  <2>5. admitted' = [admitted EXCEPT ![t] = 0]
    BY <1>0, <2>3, <2>4
  <2>6. /\ i.room # NoNode => i.granted # 0
        /\ i.granted > 0 => i.left >= 0 /\ 0 + i.left <= i.granted
    BY <2>1, <2>2
  <2>. QED
    BY <2>2, <2>3, <2>5, <2>6, OneInvite
<1>2. ASSUME NEW t \in Tokens, NEW i \in InviteRow,
             invites' = [invites EXCEPT ![t] = i], admitted' = admitted,
             i.room = invites[t].room, i.granted = invites[t].granted,
             i.left = 0 \/ i.left = invites[t].left,
             invites[t].room # NoNode
      PROVE  InviteInv'
  <2>1. i # NoInvite
    BY <1>2 DEF NoInvite
  <2>2. /\ i.room # NoNode => i.granted # 0
        /\ i.granted > 0 => i.left >= 0 /\ admitted[t] + i.left <= i.granted
    BY <1>0, <1>2 DEF InviteInv, InviteRow
  <2>. QED
    BY <1>0, <1>2, <2>1, <2>2, OneInvite
<1>3. ASSUME NEW u \in Users, NEW r \in Rooms, NEW t \in Tokens, RevokeInvite(u, r, t)
      PROVE  InviteInv'
  <2>1. CASE invites[t].room # r
    BY <1>3, <2>1, InvitesUntouched DEF RevokeInvite
  <2>2. CASE invites[t].room = r
    <3>. DEFINE i == [invites[t] EXCEPT !.left = 0]
    <3>1. /\ i \in InviteRow /\ i.left = 0
          /\ i.room = invites[t].room /\ i.granted = invites[t].granted
      BY <1>0 DEF InviteRow
    <3>2. invites' = [invites EXCEPT ![t] = i] /\ admitted' = admitted
      BY <1>3, <2>2 DEF RevokeInvite
    <3>3. invites[t].room # NoNode
      BY <2>2, StoreAssumption DEF StoreAssumption
    <3>. HIDE DEF i
    <3>. QED
      BY <1>2, <3>1, <3>2, <3>3
  <2>. QED
    BY <2>1, <2>2
<1>4. ASSUME NEW t \in Tokens, ExpireInvite(t) PROVE InviteInv'
  <2>. DEFINE i == [invites[t] EXCEPT !.expired = TRUE]
  <2>1. /\ i \in InviteRow /\ i.left = invites[t].left
        /\ i.room = invites[t].room /\ i.granted = invites[t].granted
    BY <1>0 DEF InviteRow
  <2>2. /\ invites' = [invites EXCEPT ![t] = i] /\ admitted' = admitted
        /\ invites[t].room # NoNode
    BY <1>4 DEF ExpireInvite
  <2>. HIDE DEF i
  <2>. QED
    BY <1>2, <2>1, <2>2
<1>. QED
  BY <1>1, <1>3, <1>4 DEF ManageInvite, Expire

\* Rooms and nodes keep the invite invariant; Join spends what it counts.
LEMMA OtherOpsInviteInv ==
    ASSUME StoreTypeOK, InviteInv, NEW panel \in BOOLEAN,
           ManageRoom(panel) \/ NodeRequest
    PROVE  InviteInv'
<1>1. ASSUME NEW u \in Users, NEW r \in Rooms, DeleteRoom(u, r) PROVE InviteInv'
  <2>1. \A t \in Tokens : invites'[t] =
            IF invites[t].room = r THEN [invites[t] EXCEPT !.room = NoNode, !.left = 0]
            ELSE invites[t]
    BY <1>1 DEF DeleteRoom
  <2>2. admitted' = admitted
    BY <1>1 DEF DeleteRoom
  <2>3. SUFFICES ASSUME NEW t \in Tokens, invites[t].room = r
                 PROVE  /\ invites'[t] # NoInvite
                        /\ invites'[t].room = NoNode
                        /\ invites'[t].granted > 0 =>
                             /\ invites'[t].left >= 0
                             /\ admitted'[t] + invites'[t].left <= invites'[t].granted
    BY <2>1, <2>2 DEF InviteInv
  <2>4. invites[t] \in InviteRow /\ admitted[t] \in Nat
    BY DEF StoreTypeOK
  <2>5. /\ invites'[t].room = NoNode /\ invites'[t].left = 0
        /\ invites'[t].granted = invites[t].granted
    BY <2>1, <2>3, <2>4 DEF InviteRow
  <2>6. invites[t].granted # 0
    BY <2>3, StoreAssumption DEF StoreAssumption, InviteInv
  <2>7. invites'[t] # NoInvite
    BY <2>5, <2>6 DEF NoInvite
  <2>8. invites[t].granted > 0 => admitted[t] + 0 <= invites[t].granted
    BY <2>4 DEF InviteInv, InviteRow
  <2>. QED
    BY <2>2, <2>4, <2>5, <2>7, <2>8
<1>2. ASSUME NEW n \in Nodes, NEW r \in Rooms, NEW t \in Tokens, NEW rep \in Reports,
             Join(n, r, t, rep)
      PROVE  InviteInv'
  <2>1. /\ invites[t].room = r /\ invites[t].left # 0
        /\ invites' = [invites EXCEPT ![t] = UseInvite(t)]
        /\ admitted' = [admitted EXCEPT ![t] = @ + 1]
    BY <1>2 DEF Join, InviteValid
  <2>2. invites[t] \in InviteRow /\ admitted[t] \in Nat
    BY DEF StoreTypeOK
  <2>3. /\ UseInvite(t) \in InviteRow
        /\ UseInvite(t).room = r /\ UseInvite(t).granted = invites[t].granted
        /\ invites[t].left > 0 => UseInvite(t).left = invites[t].left - 1
    BY <2>1, <2>2 DEF UseInvite, InviteRow
  <2>4. UseInvite(t) # NoInvite /\ invites[t].granted # 0
    BY <2>1, <2>3, StoreAssumption DEF NoInvite, StoreAssumption, InviteInv
  <2>5. invites[t].granted > 0 =>
            UseInvite(t).left >= 0 /\ (admitted[t] + 1) + UseInvite(t).left <= invites[t].granted
    <3>1. /\ invites[t].left \in Int /\ invites[t].granted \in Int
          /\ invites[t].granted > 0 => invites[t].left >= 0
          /\ invites[t].granted > 0 => admitted[t] + invites[t].left <= invites[t].granted
      BY <2>2 DEF InviteInv, InviteRow
    <3>. QED
      BY <2>1, <2>2, <2>3, <3>1
  <2>6. admitted[t] + 1 \in Nat
    BY <2>2
  <2>. QED
    BY <2>1, <2>3, <2>4, <2>5, <2>6, OneInvite
<1>3. CASE UNCHANGED <<invites, admitted>>
  BY <1>3, InvitesUntouched
<1>4. CASE ManageRoom(panel)
  BY <1>1, <1>3, <1>4 DEF ManageRoom, CreateRoom, UpdateRoom, SetRoomField
<1>5. CASE NodeRequest
  BY <1>2, <1>3, <1>5 DEF NodeRequest, Rejoin, Leave
<1>. QED
  BY <1>4, <1>5

\* The admin's operations on members do not touch invites.
LEMMA MemberOpsInviteInv ==
    ASSUME InviteInv, ManageMember PROVE InviteInv'
<1>. PICK u \in Users, r \in Rooms, n \in Nodes :
        \/ Approve(u, r, n) \/ Ban(u, r, n) \/ Kick(u, r, n)
        \/ ApproveRoutes(u, r, n) \/ WithdrawRoutes(u, r, n)
        \/ \E on \in BOOLEAN : SetExit(u, r, n, on)
        \/ \E x \in Nodes \cup {NoNode} : SetMemberExit(u, r, n, x)
        \/ \E a \in Addresses : UpdateMember(u, r, n, a)
  BY DEF ManageMember
<1>1. ASSUME NEW m, ChangeMember(r, n, m) PROVE InviteInv'
  BY <1>1, InvitesUntouched DEF ChangeMember
<1>2. CASE Approve(u, r, n) \/ Ban(u, r, n) \/ Kick(u, r, n)
  BY <1>1, <1>2 DEF Approve, Ban, Kick
<1>3. CASE ApproveRoutes(u, r, n) \/ WithdrawRoutes(u, r, n)
  BY <1>1, <1>3 DEF ApproveRoutes, WithdrawRoutes
<1>4. CASE \E on \in BOOLEAN : SetExit(u, r, n, on)
  BY <1>1, <1>4 DEF SetExit
<1>5. CASE \E x \in Nodes \cup {NoNode} : SetMemberExit(u, r, n, x)
  BY <1>1, <1>5 DEF SetMemberExit
<1>6. CASE \E a \in Addresses : UpdateMember(u, r, n, a)
  BY <1>1, <1>6 DEF UpdateMember
<1>. QED
  BY <1>2, <1>3, <1>4, <1>5, <1>6

------------------------------------------------------------------------------
(* The theorems. *)

\* Every operation keeps the whole invariant.
LEMMA StepInv == StoreInv /\ [StoreNext]_storeVars => StoreInv'
<1>. SUFFICES ASSUME StoreInv, [StoreNext]_storeVars PROVE StoreInv'
  OBVIOUS
<1>0. StoreTypeOK /\ RoomInv /\ InviteInv
  BY DEF StoreInv
<1>1. ASSUME NEW panel \in BOOLEAN, ManageRoom(panel) PROVE StoreInv'
  BY <1>0, <1>1, RoomOpsType, RoomOpsInv, OtherOpsInviteInv DEF StoreInv
<1>2. CASE ManageInvite \/ Expire
  <2>1. UNCHANGED <<rooms, members, barred>>
    BY <1>2 DEF ManageInvite, Expire, CreateInvite, RevokeInvite, ExpireInvite
  <2>2. RoomInv'
    BY <1>0, <2>1, QuietInv
  <2>. QED
    BY <1>0, <1>2, <2>2, InviteOpsType, InviteOpsInv DEF StoreInv
<1>3. CASE ManageMember
  BY <1>0, <1>3, MemberOpsType, MemberOpsInv, MemberOpsInviteInv DEF StoreInv
<1>4. CASE NodeRequest
  <2>1. \A r \in Rooms : Live(r) => rooms[r].subnet \in Subnets
    BY <1>0 DEF RoomInv, RowsInv
  <2>2. InviteInv'
    BY <1>0, <1>4, OtherOpsInviteInv
  <2>. QED
    BY <1>0, <1>4, <2>1, <2>2, NodeOpsType, NodeOpsInv DEF StoreInv
<1>5. CASE Report \/ Touch
  <2>1. UNCHANGED <<rooms, members, invites, admitted, barred>>
    BY <1>5 DEF Report, Touch, UpdateNodeEndpoints
  <2>2. RoomInv' /\ InviteInv'
    BY <1>0, <2>1, QuietInv, InvitesUntouched
  <2>. QED
    BY <1>0, <1>5, <2>2, ReportType DEF StoreInv
<1>6. CASE UNCHANGED storeVars
  <2>1. RoomInv' /\ InviteInv'
    BY <1>0, <1>6, QuietInv, InvitesUntouched DEF storeVars
  <2>2. StoreTypeOK'
    BY <1>0, <1>6 DEF storeVars, StoreTypeOK
  <2>. QED
    BY <2>1, <2>2 DEF StoreInv
<1>. QED
  BY <1>1, <1>2, <1>3, <1>4, <1>5, <1>6 DEF StoreNext, Manage

\* The invariant the other theorems follow from: the tables keep their types,
\* members belong to live rooms, addresses, subnets and routes stay apart,
\* bans hold and invites stay within their limit.
THEOREM StoreInvariant == StoreSpec => []StoreInv
<1>1. StoreInit => StoreInv
  BY TypeInit, InitInv DEF StoreInv
<1>. QED
  BY <1>1, StepInv, PTL DEF StoreSpec

\* Every reachable database is well typed, whatever the parameters.
THEOREM StoreTyped == StoreSpec => []StoreTypeOK
<1>1. StoreInv => StoreTypeOK
  BY DEF StoreInv
<1>. QED
  BY <1>1, StoreInvariant, PTL

\* The service's own checks keep the addresses of a room apart and inside
\* its subnet, for any subnets, quotas and order of requests.
THEOREM AddressesStayUnique == StoreSpec => []AddressesUnique
<1>1. StoreInv => AddressesUnique
  BY DEF StoreInv, RoomInv
<1>. QED
  BY <1>1, StoreInvariant, PTL

\* The subnets of live rooms never overlap, whoever creates, changes or
\* deletes rooms.
THEOREM NetworksStayApart == StoreSpec => []SubnetsDisjoint
<1>1. StoreInv => SubnetsDisjoint
  BY DEF StoreInv, RoomInv
<1>. QED
  BY <1>1, StoreInvariant, PTL

\* An approved route never overlaps the subnet of its own room, whatever the
\* node offers afterwards.
THEOREM RoutesStayOutside == StoreSpec => []RoutesOutsideSubnet
<1>1. StoreInv => RoutesOutsideSubnet
  BY DEF StoreInv, RoomInv
<1>. QED
  BY <1>1, StoreInvariant, PTL

\* A banned node stays banned until an admin lifts the ban, also when it
\* leaves and comes back with another invite.
THEOREM BansStay == StoreSpec => []BansHold
<1>1. StoreInv => BansHold
  BY DEF StoreInv, RoomInv, InviteInv
<1>. QED
  BY <1>1, StoreInvariant, PTL

\* An invite with a limit never lets in more members than the limit.
THEOREM AdmissionIsBounded == StoreSpec => []InviteBudget
<1>1. StoreInv => InviteBudget
  BY DEF StoreInv, RoomInv, InviteInv, InviteBudget
<1>. QED
  BY <1>1, StoreInvariant, PTL

------------------------------------------------------------------------------
(* Room versions. *)

\* A room that was never created has the version it starts with.
NewRoomsBlank == \A r \in Rooms : rooms[r].state = "none" => rooms[r].version = 0

\* What a transaction may do to room r: raise its version, delete it, or
\* create it.
RoomWrite(r) ==
    /\ rooms'[r].state # "none"
    /\ \/ rooms'[r].version = rooms[r].version + 1
       \/ rooms'[r].state = "deleted" /\ rooms'[r].version = rooms[r].version
       \/ rooms[r].state = "none" /\ rooms'[r].version = 1

\* The rest of the rooms, and their members, are left alone.
OnlyRoom(r) == \A s \in Rooms \ {r} : rooms'[s] = rooms[s] /\ members'[s] = members[s]

\* PutRoom, with the members of the same room written or not.
LEMMA PutRoomWrites ==
    ASSUME StoreTypeOK, NEW r \in Rooms, NEW rm \in RoomRow, PutRoom(r, rm),
           rm.state = "live", rm.version = rooms[r].version,
           \A s \in Rooms \ {r} : members'[s] = members[s]
    PROVE  RoomWrite(r) /\ OnlyRoom(r)
<1>1. rooms'[r] = BumpRoom(rm) /\ \A s \in Rooms \ {r} : rooms'[s] = rooms[s]
  BY DEF StoreTypeOK, PutRoom
<1>2. BumpRoom(rm).version = rm.version + 1 /\ BumpRoom(rm).state = "live"
  BY DEF BumpRoom, RoomRow
<1> QED  BY <1>1, <1>2 DEF RoomWrite, OnlyRoom

\* PutMember leaves the members of other rooms alone.
LEMMA PutMemberOthers ==
    ASSUME StoreTypeOK, NEW r \in Rooms, NEW n \in Nodes, NEW m, PutMember(r, n, m)
    PROVE  \A s \in Rooms \ {r} : members'[s] = members[s]
BY DEF StoreTypeOK, PutMember

\* The panel and the command line write rooms one at a time.
LEMMA RoomOpsWrite ==
    ASSUME StoreTypeOK, NEW panel \in BOOLEAN, ManageRoom(panel)
    PROVE  \E r \in Rooms : RoomWrite(r) /\ OnlyRoom(r)
<1> PICK u \in Users, r \in Rooms :
        \/ \E p \in Subnets, policy \in {"manual", "auto"} :
                CreateRoom(u, r, p, policy, panel)
        \/ \E v \in Values, policy \in {"manual", "auto"} : UpdateRoom(u, r, policy, v)
        \/ \E f \in Fields \ {"name"}, v \in Values : SetRoomField(u, r, f, v)
        \/ DeleteRoom(u, r)
  BY DEF ManageRoom
<1>0. rooms \in [Rooms -> RoomRow] /\ rooms[r] \in RoomRow
      /\ members \in [Rooms -> [Nodes -> MemberRow]]
  BY DEF StoreTypeOK
<1>1. ASSUME NEW p \in Subnets, NEW policy \in {"manual", "auto"},
             CreateRoom(u, r, p, policy, panel)
      PROVE  RoomWrite(r) /\ OnlyRoom(r)
  BY <1>0, <1>1 DEF CreateRoom, RoomWrite, OnlyRoom
<1>2. ASSUME NEW v \in Values, NEW policy \in {"manual", "auto"}, UpdateRoom(u, r, policy, v)
      PROVE  RoomWrite(r) /\ OnlyRoom(r)
  <2> DEFINE rm == [rooms[r] EXCEPT !.policy = policy, !.settings["name"] = v]
  <2>1. rm \in RoomRow /\ rm.state = rooms[r].state /\ rm.version = rooms[r].version
    BY <1>0 DEF RoomRow
  <2>2. PutRoom(r, rm) /\ rooms[r].state = "live" /\ UNCHANGED members
    BY <1>2 DEF UpdateRoom, roomFor, Live
  <2> QED  BY <2>1, <2>2, PutRoomWrites
<1>3. ASSUME NEW f \in Fields, NEW v \in Values, SetRoomField(u, r, f, v)
      PROVE  RoomWrite(r) /\ OnlyRoom(r)
  <2> DEFINE rm == [rooms[r] EXCEPT !.settings[f] = v]
  <2>1. rm \in RoomRow /\ rm.state = rooms[r].state /\ rm.version = rooms[r].version
    BY <1>0 DEF RoomRow
  <2>2. PutRoom(r, rm) /\ rooms[r].state = "live" /\ UNCHANGED members
    BY <1>3 DEF SetRoomField, roomFor, Live
  <2> QED  BY <2>1, <2>2, PutRoomWrites
<1>4. ASSUME DeleteRoom(u, r) PROVE RoomWrite(r) /\ OnlyRoom(r)
  <2>1. rooms'[r].state = "deleted" /\ rooms'[r].version = rooms[r].version
    BY <1>0, <1>4 DEF DeleteRoom, RoomRow
  <2>2. OnlyRoom(r)
    BY <1>0, <1>4 DEF DeleteRoom, OnlyRoom
  <2> QED  BY <2>1, <2>2 DEF RoomWrite
<1> QED  BY <1>1, <1>2, <1>3, <1>4

\* So do the admin's changes of members.
LEMMA MemberOpsWrite ==
    ASSUME StoreTypeOK, RowsInv, ManageMember
    PROVE  \E r \in Rooms : RoomWrite(r) /\ OnlyRoom(r)
<1> PICK u \in Users, r \in Rooms, n \in Nodes :
        \/ Approve(u, r, n) \/ Ban(u, r, n) \/ Kick(u, r, n)
        \/ ApproveRoutes(u, r, n) \/ WithdrawRoutes(u, r, n)
        \/ \E on \in BOOLEAN : SetExit(u, r, n, on)
        \/ \E x \in Nodes \cup {NoNode} : SetMemberExit(u, r, n, x)
        \/ \E a \in Addresses : UpdateMember(u, r, n, a)
  BY DEF ManageMember
<1>1. Live(r) /\ \E m : ChangeMember(r, n, m)
  <2>1. Approve(u, r, n) => Live(r) /\ \E m : ChangeMember(r, n, m)
    BY Zenon DEF Approve, roomFor
  <2>2. Ban(u, r, n) => Live(r) /\ \E m : ChangeMember(r, n, m)
    BY Zenon DEF Ban, roomFor
  <2>3. Kick(u, r, n) => Live(r) /\ \E m : ChangeMember(r, n, m)
    BY Zenon DEF Kick, roomFor
  <2>4. ApproveRoutes(u, r, n) => Live(r) /\ \E m : ChangeMember(r, n, m)
    BY Zenon DEF ApproveRoutes, roomFor
  <2>5. WithdrawRoutes(u, r, n) => Live(r) /\ \E m : ChangeMember(r, n, m)
    BY Zenon DEF WithdrawRoutes, roomFor
  <2>6. \A on : SetExit(u, r, n, on) => Live(r) /\ \E m : ChangeMember(r, n, m)
    BY Zenon DEF SetExit, roomFor
  <2>7. \A x : SetMemberExit(u, r, n, x) => Live(r) /\ \E m : ChangeMember(r, n, m)
    BY Zenon DEF SetMemberExit, roomFor
  <2>8. \A a : UpdateMember(u, r, n, a) => Live(r) /\ \E m : ChangeMember(r, n, m)
    BY Zenon DEF UpdateMember, roomFor
  <2> QED  BY <2>1, <2>2, <2>3, <2>4, <2>5, <2>6, <2>7, <2>8
<1>2. PICK m : PutMember(r, n, m) /\ PutRoom(r, rooms[r])
  BY <1>1 DEF ChangeMember
<1>3. rooms[r] \in RoomRow /\ rooms[r].state = "live"
  BY <1>1 DEF StoreTypeOK, Live
<1> QED  BY <1>2, <1>3, PutRoomWrites, PutMemberOthers

\* A node's request writes its room, or no room at all.
LEMMA NodeOpsWrite ==
    ASSUME StoreTypeOK, RowsInv, NodeRequest
    PROVE  \/ UNCHANGED <<rooms, members>>
           \/ \E r \in Rooms : RoomWrite(r) /\ OnlyRoom(r)
<1> PICK n \in Nodes, r \in Rooms :
        \/ \E rep \in Reports : Rejoin(n, r, rep)
        \/ \E t \in Tokens, rep \in Reports : Join(n, r, t, rep)
        \/ Leave(n, r)
  BY DEF NodeRequest
<1>1. CASE \E rep \in Reports : Rejoin(n, r, rep)
  BY <1>1 DEF Rejoin
<1>2. ASSUME NEW m, PutMember(r, n, m), PutRoom(r, rooms[r]), Live(r)
      PROVE  RoomWrite(r) /\ OnlyRoom(r)
  <2>1. rooms[r] \in RoomRow /\ rooms[r].state = "live"
    BY <1>2 DEF StoreTypeOK, Live
  <2> QED  BY <1>2, <2>1, PutRoomWrites, PutMemberOthers
<1>3. ASSUME NEW t \in Tokens, NEW rep \in Reports, Join(n, r, t, rep)
      PROVE  RoomWrite(r) /\ OnlyRoom(r)
  <2>1. Live(r) /\ PutRoom(r, rooms[r]) /\ \E m : PutMember(r, n, m)
    BY <1>3, Zenon DEF Join
  <2> QED  BY <1>2, <2>1
<1>4. CASE Leave(n, r)
  <2>1. Live(r)
    BY <1>4 DEF Leave, RowsInv
  <2>2. UNCHANGED <<rooms, members>> \/ (PutMember(r, n, NoMember) /\ PutRoom(r, rooms[r]))
    BY <1>4 DEF Leave
  <2> QED  BY <1>2, <2>1, <2>2
<1> QED  BY <1>1, <1>3, <1>4

\* Every transaction writes one room, or none.
LEMMA StepsWriteRooms ==
    ASSUME StoreInv, [StoreNext]_storeVars
    PROVE  \/ UNCHANGED <<rooms, members>>
           \/ \E r \in Rooms : RoomWrite(r) /\ OnlyRoom(r)
<1>0. StoreTypeOK /\ RowsInv
  BY DEF StoreInv, RoomInv
<1>1. ASSUME NEW panel \in BOOLEAN, Manage(panel)
      PROVE  UNCHANGED <<rooms, members>> \/ \E r \in Rooms : RoomWrite(r) /\ OnlyRoom(r)
  <2>1. CASE ManageRoom(panel)
    BY <1>0, <2>1, RoomOpsWrite
  <2>2. CASE ManageInvite
    BY <2>2 DEF ManageInvite, CreateInvite, RevokeInvite
  <2>3. CASE ManageMember
    BY <1>0, <2>3, MemberOpsWrite
  <2> QED  BY <1>1, <2>1, <2>2, <2>3 DEF Manage
<1>2. CASE NodeRequest
  BY <1>0, <1>2, NodeOpsWrite
<1>3. CASE Expire
  BY <1>3 DEF Expire, ExpireInvite
<1>4. CASE Report
  BY <1>4 DEF Report, UpdateNodeEndpoints
<1>5. CASE Touch \/ UNCHANGED storeVars
  BY <1>5 DEF Touch, storeVars
<1> QED  BY <1>1, <1>2, <1>3, <1>4, <1>5 DEF StoreNext

\* A room's version never goes back, and whatever changes its members, their
\* addresses, its subnet or its settings raises it (tx.BumpRoom in every
\* transaction that needs it): a node may take a signed config of the version
\* it has for the one it has.
THEOREM VersionsTellRosters == StoreSpec => RosterVersioned
<1>1. StoreInit => NewRoomsBlank
  BY DEF StoreInit, NewRoomsBlank
<1>2. StoreInv /\ NewRoomsBlank /\ [StoreNext]_storeVars => NewRoomsBlank'
  BY StepsWriteRooms DEF NewRoomsBlank, RoomWrite, OnlyRoom
<1>3. StoreInv /\ NewRoomsBlank /\ [StoreNext]_storeVars =>
        [\A r \in Rooms :
            /\ rooms'[r].version >= rooms[r].version
            /\ (Live(r) /\ rooms'[r].version = rooms[r].version) =>
                  (rooms'[r].state = "deleted" \/ Roster(r)' = Roster(r))]_storeVars
  <2> SUFFICES ASSUME StoreInv, NewRoomsBlank, [StoreNext]_storeVars, NEW r \in Rooms
               PROVE  /\ rooms'[r].version >= rooms[r].version
                      /\ (Live(r) /\ rooms'[r].version = rooms[r].version) =>
                            (rooms'[r].state = "deleted" \/ Roster(r)' = Roster(r))
    OBVIOUS
  <2>0. rooms[r].version \in Nat
    BY DEF StoreInv, StoreTypeOK, RoomRow
  <2>1. CASE RoomWrite(r)
    BY <2>0, <2>1 DEF RoomWrite, NewRoomsBlank, Live
  <2>2. CASE rooms'[r] = rooms[r] /\ members'[r] = members[r]
    <3>1. Active(r)' = Active(r)
      BY <2>2 DEF Active
    <3>2. Roster(r)' = Roster(r)
      BY <2>2, <3>1 DEF Roster
    <3> QED  BY <2>0, <2>2, <3>2
  <2> QED  BY <2>1, <2>2, StepsWriteRooms DEF OnlyRoom
<1> QED  BY <1>1, <1>2, <1>3, StoreInvariant, PTL DEF StoreSpec, RosterVersioned

------------------------------------------------------------------------------
(* The controller is the store, with a hub and handlers around it. *)

\* Every step of the composition is a transaction of the store, or none.
LEMMA StepsAreTransactions == [Next]_vars => [StoreNext]_storeVars
<1> SUFFICES ASSUME [Next]_vars PROVE [StoreNext]_storeVars
  OBVIOUS
<1>1. CASE ServerChange
  BY <1>1 DEF ServerChange, StoreNext
<1>2. CASE CommandLineChange
  BY <1>2 DEF CommandLineChange, StoreNext
<1>3. CASE TimePasses
  BY <1>3 DEF TimePasses, StoreNext
<1>4. ASSUME NEW n \in Pollers, PollStep(n) PROVE [StoreNext]_storeVars
  <2>1. n \in Nodes
    BY PollAssumption
  <2>2. ASSUME NEW rep \in Reports, PollStart(n, rep) PROVE StoreNext
    BY <2>1, <2>2 DEF PollStart, StoreNext, Report
  <2>3. CASE PollAnnounce(n)
    BY <2>3 DEF PollAnnounce, StoreNext
  <2>4. CASE PollCancel(n) \/ PollSet(n) \/ hubWait(n) \/ PollTimeout(n)
             \/ PollAnswer(n) \/ PollLost(n)
    BY <2>4 DEF PollCancel, PollSet, hubWait, PollTimeout, PollAnswer, PollLost
  <2> QED  BY <1>4, <2>2, <2>3, <2>4 DEF PollStep
<1>5. CASE Watch \/ Restart \/ \E v \in toSet : hubSet(v)
  BY <1>5 DEF Watch, Restart, hubSet
<1>6. CASE UNCHANGED vars
  BY <1>6 DEF vars
<1> QED  BY <1>1, <1>2, <1>3, <1>4, <1>5, <1>6 DEF Next

\* The controller implements its store: with handlers, the hub, the command
\* line and restarts around it, rooms, members and invites still change by the
\* transactions of RoomStore only.
THEOREM PollImplementsStore == Spec => StoreSpec
<1>1. Init => StoreInit
  BY DEF Init
<1> QED  BY <1>1, StepsAreTransactions, PTL DEF Spec, StoreSpec

\* So the store's invariant, of addresses, subnets, routes, bans and invites,
\* holds of the controller as it serves its nodes.
THEOREM PollKeepsStore == Spec => []StoreInv
BY PollImplementsStore, StoreInvariant, PTL

------------------------------------------------------------------------------
(* Types. *)

\* Every change that others make bumps the counter.
LEMMA ChangeBumps ==
    ASSUME NEW panel, Manage(panel) \/ NodeRequest
    PROVE  BumpVersion
<1>1. ASSUME ManageRoom(panel) PROVE BumpVersion
  <2>1. \A u, r, p, policy : CreateRoom(u, r, p, policy, panel) => BumpVersion
    BY DEF CreateRoom
  <2>2. \A u, r, policy, v : UpdateRoom(u, r, policy, v) => BumpVersion
    BY Zenon DEF UpdateRoom
  <2>3. \A u, r, f, v : SetRoomField(u, r, f, v) => BumpVersion
    BY Zenon DEF SetRoomField
  <2>4. \A u, r : DeleteRoom(u, r) => BumpVersion
    BY DEF DeleteRoom
  <2> QED  BY <1>1, <2>1, <2>2, <2>3, <2>4, Zenon DEF ManageRoom
<1>2. ASSUME ManageInvite PROVE BumpVersion
  <2>1. \A u, r, t, uses, auto : CreateInvite(u, r, t, uses, auto) => BumpVersion
    BY Zenon DEF CreateInvite
  <2>2. \A u, r, t : RevokeInvite(u, r, t) => BumpVersion
    BY Zenon DEF RevokeInvite
  <2> QED  BY <1>2, <2>1, <2>2, Zenon DEF ManageInvite
<1>3. ASSUME ManageMember PROVE BumpVersion
  <2>1. \A r, n, m : ChangeMember(r, n, m) => BumpVersion
    BY Zenon DEF ChangeMember
  <2>2. \A u, r, n : Approve(u, r, n) \/ Ban(u, r, n) \/ Kick(u, r, n) => BumpVersion
    BY <2>1, Zenon DEF Approve, Ban, Kick
  <2>3. \A u, r, n : ApproveRoutes(u, r, n) \/ WithdrawRoutes(u, r, n) => BumpVersion
    BY <2>1, Zenon DEF ApproveRoutes, WithdrawRoutes
  <2>4. \A u, r, n, x : SetExit(u, r, n, x) \/ SetMemberExit(u, r, n, x) \/ UpdateMember(u, r, n, x)
                        => BumpVersion
    <3>1. \A u, r, n, x : SetExit(u, r, n, x) => BumpVersion
      BY <2>1, Zenon DEF SetExit
    <3>2. \A u, r, n, x : SetMemberExit(u, r, n, x) => BumpVersion
      BY <2>1, Zenon DEF SetMemberExit
    <3>3. \A u, r, n, x : UpdateMember(u, r, n, x) => BumpVersion
      BY <2>1, Zenon DEF UpdateMember
    <3> QED  BY <3>1, <3>2, <3>3, Zenon
  <2> QED  BY <1>3, <2>2, <2>3, <2>4, Zenon DEF ManageMember
<1>4. ASSUME NodeRequest PROVE BumpVersion
  BY <1>4 DEF NodeRequest, Rejoin, Join, Leave
<1> QED  BY <1>1, <1>2, <1>3, <1>4 DEF Manage

\* A handler asks with the version its node has.
Asking == \A n \in Pollers : poll[n].pc # "idle" => poll[n].since = view[n].version

PollRow == [pc : Pcs, since : 0 .. version, mine : 0 .. version]

PollInv ==
    /\ version \in Nat \ {0} /\ view = [n \in Pollers |-> view[n]]
    /\ PollTypeOK /\ Asking /\ NoMissedWake

LEMMA PollInvInit == Init => PollInv
<1> SUFFICES ASSUME Init PROVE PollInv
  OBVIOUS
<1>1. version = 1 /\ hub = 1 /\ toSet = {} /\ crashes = 0
  BY DEF Init, StoreInit
<1>2. \A n \in Pollers : poll[n] = [pc |-> "idle", since |-> 0, mine |-> 0]
  BY DEF Init
<1>3. poll \in [Pollers -> PollRow]
  BY <1>1 DEF Init, PollRow, Pcs
<1>4. \A n \in Pollers : view[n].version = 0
  BY DEF Init, EmptyMap
<1>5. PollTypeOK
  BY <1>1, <1>3, <1>4, PollAssumption DEF PollTypeOK, PollRow
<1>6. Asking /\ NoMissedWake
  BY <1>2 DEF Asking, NoMissedWake
<1>7. view = [n \in Pollers |-> view[n]]
  BY DEF Init
<1> QED  BY <1>1, <1>5, <1>6, <1>7 DEF PollInv

\* A change by others: the counter rises, the handlers and views stay.
LEMMA ChangeKeeps ==
    ASSUME PollInv, BumpVersion, UNCHANGED <<hub, poll, view, crashes>>,
           toSet' = toSet \/ toSet' = toSet \cup {version'}
    PROVE  PollInv'
<1>0. version \in Nat /\ version' = version + 1
  BY DEF PollInv, BumpVersion
<1>1. poll' \in [Pollers -> PollRow']
  <2>1. 0 .. version \subseteq 0 .. version'
    BY <1>0
  <2>2. PollRow \subseteq PollRow'
    BY <2>1 DEF PollRow
  <2> QED  BY <2>2 DEF PollInv, PollTypeOK, PollRow
<1>2. /\ hub \in 0 .. version /\ toSet \subseteq 1 .. version
      /\ \A n \in Pollers : view[n].version \in 0 .. version
      /\ crashes \in 0 .. MaxCrashes
  BY DEF PollInv, PollTypeOK
<1>3. PollTypeOK'
  <2>1. hub' \in 0 .. version' /\ crashes' \in 0 .. MaxCrashes
    BY <1>0, <1>2
  <2>2. toSet' \subseteq 1 .. version'
    <3>1. \A v \in 1 .. version : v \in 1 .. version'
      BY <1>0
    <3>2. version' \in 1 .. version'
      BY <1>0
    <3> QED  BY <1>2, <3>1, <3>2
  <2>3. \A n \in Pollers : view'[n].version \in 0 .. version'
    BY <1>0, <1>2
  <2> QED  BY <1>1, <2>1, <2>2, <2>3 DEF PollTypeOK, PollRow
<1>4. Asking' /\ NoMissedWake'
  BY DEF PollInv, Asking, NoMissedWake
<1> QED  BY <1>0, <1>3, <1>4 DEF PollInv

\* A step of one handler that leaves hub, counter and views alone.
LEMMA HandlerKeeps ==
    ASSUME PollInv, NEW n \in Pollers, NEW row \in PollRow,
           poll' = [poll EXCEPT ![n] = row],
           UNCHANGED <<version, hub, toSet, view, crashes>>,
           row.pc # "idle" => row.since = view[n].version,
           row.pc = "blocked" => row.since = hub
    PROVE  PollInv'
<1>1. poll \in [Pollers -> PollRow]
  BY DEF PollInv, PollTypeOK, PollRow
<1>2. poll' \in [Pollers -> PollRow]
  BY <1>1
<1>3. PollTypeOK'
  BY <1>2 DEF PollInv, PollTypeOK, PollRow
<1>4. \A m \in Pollers : poll'[m] = IF m = n THEN row ELSE poll[m]
  BY <1>1
<1>5. Asking'
  BY <1>4 DEF PollInv, Asking
<1>6. NoMissedWake'
  BY <1>4 DEF PollInv, NoMissedWake
<1> QED  BY <1>3, <1>5, <1>6 DEF PollInv

\* Closing the channel lets every handler that waits go on.
LEMMA ReleaseRows ==
    ASSUME PollInv
    PROVE  /\ Release \in [Pollers -> PollRow]
           /\ \A n \in Pollers : /\ Release[n].pc # "blocked"
                                 /\ Release[n].since = poll[n].since
                                 /\ Release[n].pc # "idle" => poll[n].pc # "idle"
<1>1. poll \in [Pollers -> PollRow]
  BY DEF PollInv, PollTypeOK, PollRow
<1>2. ASSUME NEW n \in Pollers
      PROVE  /\ Release[n] \in PollRow
             /\ Release[n].pc # "blocked" /\ Release[n].since = poll[n].since
             /\ Release[n].pc # "idle" => poll[n].pc # "idle"
  <2>1. poll[n] \in PollRow
    BY <1>1
  <2>2. CASE poll[n].pc = "blocked"
    <3>1. Release[n] = [poll[n] EXCEPT !.pc = "read"]
      BY <2>2 DEF Release
    <3> QED  BY <2>1, <2>2, <3>1 DEF PollRow, Pcs
  <2>3. CASE poll[n].pc # "blocked"
    <3>1. Release[n] = poll[n]
      BY <2>3 DEF Release
    <3> QED  BY <2>1, <2>3, <3>1
  <2> QED  BY <2>2, <2>3
<1>3. Release = [n \in Pollers |-> Release[n]]
  BY DEF Release
<1> QED  BY <1>2, <1>3

\* hub.set, of a change or of a poll's own bump: rows as Release leaves them,
\* but for the handler that goes on to read.
LEMMA RaiseKeeps ==
    ASSUME PollInv, NEW v \in 0 .. version, hub' = v, poll' \in [Pollers -> PollRow],
           UNCHANGED <<version, view, crashes>>, toSet' \subseteq toSet,
           \A n \in Pollers : /\ poll'[n].pc # "blocked"
                              /\ poll'[n].since = poll[n].since
                              /\ poll'[n].pc # "idle" => poll[n].pc # "idle"
    PROVE  PollInv'
<1>1. PollTypeOK'
  BY DEF PollInv, PollTypeOK, PollRow
<1>2. Asking' /\ NoMissedWake'
  BY DEF PollInv, Asking, NoMissedWake
<1> QED  BY <1>1, <1>2 DEF PollInv

LEMMA HubKeeps ==
    ASSUME PollInv, Watch \/ \E v \in toSet : hubSet(v)
    PROVE  PollInv'
<1>0. version \in Nat \ {0} /\ toSet \subseteq 1 .. version /\ hub \in 0 .. version
  BY DEF PollInv, PollTypeOK
<1>1. CASE Watch
  <2>1. UNCHANGED <<version, hub, poll, view, crashes>>
    BY <1>1 DEF Watch, storeVars
  <2>2. toSet' \subseteq 1 .. version
    BY <1>0, <1>1 DEF Watch
  <2>3. PollTypeOK'
    BY <2>1, <2>2 DEF PollInv, PollTypeOK
  <2>4. Asking' /\ NoMissedWake'
    BY <2>1 DEF PollInv, Asking, NoMissedWake
  <2> QED  BY <2>1, <2>3, <2>4 DEF PollInv
<1>2. ASSUME NEW v \in toSet, hubSet(v) PROVE PollInv'
  <2>1. UNCHANGED <<version, view, crashes>> /\ toSet' \subseteq toSet /\ v \in 0 .. version
    BY <1>0, <1>2 DEF hubSet, storeVars
  <2>2. CASE v > hub
    <3>1. hub' = v /\ poll' = Release
      BY <1>2, <2>2 DEF hubSet
    <3>2. /\ poll' \in [Pollers -> PollRow]
          /\ \A n \in Pollers : /\ poll'[n].pc # "blocked"
                                /\ poll'[n].since = poll[n].since
                                /\ poll'[n].pc # "idle" => poll[n].pc # "idle"
      BY <3>1, ReleaseRows
    <3> QED  BY <2>1, <3>1, <3>2, RaiseKeeps
  <2>3. CASE ~(v > hub)
    <3>1. UNCHANGED <<hub, poll>>
      BY <1>2, <2>3 DEF hubSet
    <3>2. PollTypeOK'
      BY <2>1, <3>1 DEF PollInv, PollTypeOK
    <3>3. Asking' /\ NoMissedWake'
      BY <2>1, <3>1 DEF PollInv, Asking, NoMissedWake
    <3> QED  BY <2>1, <3>2, <3>3 DEF PollInv
  <2> QED  BY <2>2, <2>3
<1> QED  BY <1>1, <1>2

LEMMA HandlerStepKeeps ==
    ASSUME PollInv, NEW n \in Pollers, PollStep(n)
    PROVE  PollInv'
<1>0. /\ poll \in [Pollers -> PollRow] /\ poll[n] \in PollRow
      /\ version \in Nat \ {0} /\ hub \in 0 .. version
      /\ view[n].version \in 0 .. version
      /\ poll[n].pc # "idle" => poll[n].since = view[n].version
  BY DEF PollInv, PollTypeOK, PollRow, Asking
<1>1. ASSUME NEW rep \in Reports, PollStart(n, rep) PROVE PollInv'
  <2> DEFINE row == [pc |-> IF reach[n] # rep THEN "announce" ELSE "enter",
                     since |-> view[n].version, mine |-> 0]
  <2>1. row \in PollRow
    BY <1>0 DEF PollRow, Pcs
  <2>2. poll' = [poll EXCEPT ![n] = row] /\ UNCHANGED <<version, hub, toSet, view, crashes>>
    BY <1>1 DEF PollStart, UpdateNodeEndpoints
  <2>3. row.since = view[n].version /\ row.pc # "blocked"
    OBVIOUS
  <2> HIDE DEF row
  <2> QED  BY <2>1, <2>2, <2>3, HandlerKeeps
<1>2. CASE PollAnnounce(n)
  <2> DEFINE row == [pc |-> "set", since |-> poll[n].since, mine |-> version']
  <2>1. version' = version + 1 /\ UNCHANGED <<hub, toSet, view, crashes>>
    BY <1>2 DEF PollAnnounce, Touch, BumpVersion
  <2>2. poll' = [poll EXCEPT ![n] = row] /\ poll[n].pc = "announce"
    BY <1>2 DEF PollAnnounce
  <2>3. PollRow \subseteq PollRow'
    <3>1. 0 .. version \subseteq 0 .. version'
      BY <1>0, <2>1
    <3> QED  BY <3>1 DEF PollRow
  <2>4. row \in PollRow'
    <3>1. poll[n].since \in 0 .. version'
      BY <1>0, <2>1 DEF PollRow
    <3>2. version' \in 0 .. version'
      BY <1>0, <2>1
    <3> QED  BY <3>1, <3>2 DEF PollRow, Pcs
  <2>5. row.since = view[n].version /\ row.pc = "set"
    BY <1>0, <2>2
  <2> HIDE DEF row
  <2>6. poll' \in [Pollers -> PollRow']
    BY <1>0, <2>2, <2>3, <2>4
  <2>7. PollTypeOK'
    <3>1. /\ hub \in 0 .. version /\ toSet \subseteq 1 .. version
          /\ \A m \in Pollers : view[m].version \in 0 .. version
          /\ crashes \in 0 .. MaxCrashes
      BY DEF PollInv, PollTypeOK
    <3>2. hub' \in 0 .. version' /\ crashes' \in 0 .. MaxCrashes
      BY <1>0, <2>1, <3>1
    <3>3. toSet' \subseteq 1 .. version'
      BY <1>0, <2>1, <3>1
    <3>4. \A m \in Pollers : view'[m].version \in 0 .. version'
      BY <1>0, <2>1, <3>1
    <3> QED  BY <2>6, <3>2, <3>3, <3>4 DEF PollTypeOK, PollRow
  <2>8. \A m \in Pollers : poll'[m] = IF m = n THEN row ELSE poll[m]
    BY <1>0, <2>2
  <2>9. Asking'
    BY <2>1, <2>5, <2>8 DEF PollInv, Asking
  <2>10. NoMissedWake'
    BY <2>1, <2>5, <2>8 DEF PollInv, NoMissedWake
  <2> QED  BY <1>0, <2>1, <2>7, <2>9, <2>10 DEF PollInv
<1>3. ASSUME NEW pc \in Pcs, poll' = [poll EXCEPT ![n].pc = pc],
             UNCHANGED <<version, hub, toSet, view, crashes>>,
             pc # "idle" => poll[n].pc # "idle",
             pc = "blocked" => poll[n].since = hub
      PROVE  PollInv'
  <2> DEFINE row == [poll[n] EXCEPT !.pc = pc]
  <2>1. row \in PollRow /\ row.pc = pc /\ row.since = poll[n].since
    BY <1>0 DEF PollRow
  <2>2. poll' = [poll EXCEPT ![n] = row]
    BY <1>3
  <2> HIDE DEF row
  <2> QED  BY <1>0, <1>3, <2>1, <2>2, HandlerKeeps
<1>4. CASE PollCancel(n) \/ PollLost(n)
  BY <1>3, <1>4 DEF PollCancel, PollLost, storeVars, Pcs
<1>5. CASE PollTimeout(n)
  BY <1>3, <1>5 DEF PollTimeout, storeVars, Pcs
<1>6. CASE hubWait(n)
  <2>1. /\ poll[n].pc = "enter" /\ UNCHANGED <<version, hub, toSet, view, crashes>>
        /\ poll' = [poll EXCEPT ![n].pc = IF hub # poll[n].since THEN "read" ELSE "blocked"]
    BY <1>6 DEF hubWait, storeVars
  <2>2. CASE hub # poll[n].since
    <3>1. poll' = [poll EXCEPT ![n].pc = "read"]
      BY <2>1, <2>2
    <3> QED  BY <1>3, <2>1, <3>1 DEF Pcs
  <2>3. CASE hub = poll[n].since
    <3>1. poll' = [poll EXCEPT ![n].pc = "blocked"]
      BY <2>1, <2>3
    <3> QED  BY <1>3, <2>1, <2>3, <3>1 DEF Pcs
  <2> QED  BY <2>2, <2>3
<1>7. CASE PollSet(n)
  <2> DEFINE v == poll[n].mine
             base == IF v > hub THEN Release ELSE poll
  <2>1. /\ poll[n].pc = "set" /\ UNCHANGED <<version, toSet, view, crashes>>
        /\ hub' = (IF v > hub THEN v ELSE hub)
        /\ poll' = [base EXCEPT ![n].pc = "read"]
    BY <1>7 DEF PollSet, storeVars
  <2>2. v \in 0 .. version
    BY <1>0 DEF PollRow
  <2>3. CASE v > hub
    <3>1. /\ Release \in [Pollers -> PollRow]
          /\ \A m \in Pollers : /\ Release[m].pc # "blocked"
                                /\ Release[m].since = poll[m].since
                                /\ Release[m].pc # "idle" => poll[m].pc # "idle"
      BY ReleaseRows
    <3> DEFINE row == [Release[n] EXCEPT !.pc = "read"]
    <3>2. poll' = [Release EXCEPT ![n] = row] /\ hub' = v
      BY <2>1, <2>3
    <3>3. row \in PollRow /\ row.pc = "read" /\ row.since = poll[n].since
      BY <3>1 DEF PollRow, Pcs
    <3> HIDE DEF row
    <3>4. \A m \in Pollers : poll'[m] = IF m = n THEN row ELSE Release[m]
      BY <3>1, <3>2
    <3>5. poll' \in [Pollers -> PollRow]
      BY <3>1, <3>2, <3>3
    <3>6. \A m \in Pollers : /\ poll'[m].pc # "blocked"
                             /\ poll'[m].since = poll[m].since
                             /\ poll'[m].pc # "idle" => poll[m].pc # "idle"
      BY <2>1, <3>1, <3>3, <3>4
    <3> HIDE DEF v
    <3> QED  BY <2>1, <2>2, <3>2, <3>5, <3>6, RaiseKeeps
  <2>4. CASE ~(v > hub)
    <3>1. poll' = [poll EXCEPT ![n].pc = "read"] /\ hub' = hub
      BY <2>1, <2>4
    <3> QED  BY <1>3, <2>1, <3>1 DEF Pcs
  <2> QED  BY <2>3, <2>4
<1>8. CASE PollAnswer(n)
  <2> DEFINE row == [poll[n] EXCEPT !.pc = "idle"]
  <2>1. /\ UNCHANGED <<version, hub, toSet, crashes>>
        /\ poll' = [poll EXCEPT ![n] = row] /\ view' = [view EXCEPT ![n] = NetMap(n)]
    BY <1>8 DEF PollAnswer, storeVars
  <2>2. row \in PollRow /\ row.pc = "idle"
    BY <1>0 DEF PollRow, Pcs
  <2> HIDE DEF row
  <2>3. \A m \in Pollers : poll'[m] = IF m = n THEN row ELSE poll[m]
    BY <1>0, <2>1
  <2>4. poll' \in [Pollers -> PollRow]
    BY <1>0, <2>1, <2>2
  <2>5. \A m \in Pollers : m # n => view'[m] = view[m]
    BY <2>1
  <2>6. \A m \in Pollers : view'[m].version \in 0 .. version
    <3>1. NetMap(n).version = version
      BY DEF NetMap
    <3>2. view'[n] = NetMap(n)
      BY <2>1 DEF PollInv
    <3> QED  BY <1>0, <2>5, <3>1, <3>2 DEF PollInv, PollTypeOK
  <2>7. PollTypeOK'
    BY <2>1, <2>4, <2>6 DEF PollInv, PollTypeOK, PollRow
  <2>8. Asking' /\ NoMissedWake'
    BY <2>1, <2>2, <2>3, <2>5 DEF PollInv, Asking, NoMissedWake
  <2>9. view' = [m \in Pollers |-> view'[m]]
    BY <2>1 DEF PollInv
  <2> QED  BY <2>1, <2>7, <2>8, <2>9 DEF PollInv
<1> QED
  BY <1>1, <1>2, <1>4, <1>5, <1>6, <1>7, <1>8 DEF PollStep

\* The controller ends and starts again.
LEMMA RestartKeeps == ASSUME PollInv, Restart PROVE PollInv'
<1>0. /\ poll \in [Pollers -> PollRow] /\ version \in Nat \ {0}
      /\ crashes \in 0 .. MaxCrashes /\ MaxCrashes \in Nat
  BY PollAssumption DEF PollInv, PollTypeOK, PollRow
<1>1. /\ UNCHANGED <<version, view>> /\ hub' = version /\ toSet' = {}
      /\ crashes < MaxCrashes /\ crashes' = crashes + 1
      /\ poll' = [n \in Pollers |-> [poll[n] EXCEPT !.pc = "idle"]]
  BY DEF Restart, storeVars
<1>2. ASSUME NEW n \in Pollers
      PROVE  poll'[n] \in PollRow /\ poll'[n].pc = "idle"
  <2>1. poll'[n] = [poll[n] EXCEPT !.pc = "idle"] /\ poll[n] \in PollRow
    BY <1>0, <1>1
  <2> QED  BY <2>1 DEF PollRow, Pcs
<1>3. poll' \in [Pollers -> PollRow]
  BY <1>1, <1>2
<1>4. crashes' \in 0 .. MaxCrashes
  BY <1>0, <1>1
<1>5. hub' \in 0 .. version' /\ toSet' \subseteq 1 .. version'
  BY <1>0, <1>1
<1>6. PollTypeOK'
  BY <1>1, <1>3, <1>4, <1>5 DEF PollInv, PollTypeOK, PollRow
<1>7. Asking' /\ NoMissedWake'
  BY <1>2 DEF Asking, NoMissedWake
<1> QED  BY <1>1, <1>6, <1>7 DEF PollInv

LEMMA PollInvNext == PollInv /\ [Next]_vars => PollInv'
<1> SUFFICES ASSUME PollInv, [Next]_vars PROVE PollInv'
  OBVIOUS
<1>1. CASE ServerChange
  BY <1>1, ChangeBumps, ChangeKeeps DEF ServerChange
<1>2. CASE CommandLineChange
  BY <1>2, ChangeBumps, ChangeKeeps DEF CommandLineChange, pollVars
<1>3. CASE TimePasses \/ UNCHANGED vars
  <2>1. UNCHANGED <<version, hub, toSet, poll, view, crashes>>
    BY <1>3 DEF TimePasses, Expire, ExpireInvite, pollVars, vars, storeVars
  <2>2. PollTypeOK'
    BY <2>1 DEF PollInv, PollTypeOK
  <2>3. Asking' /\ NoMissedWake'
    BY <2>1 DEF PollInv, Asking, NoMissedWake
  <2> QED  BY <2>1, <2>2, <2>3 DEF PollInv
<1>4. ASSUME NEW n \in Pollers, PollStep(n) PROVE PollInv'
  BY <1>4, HandlerStepKeeps
<1>5. CASE Watch \/ \E v \in toSet : hubSet(v)
  BY <1>5, HubKeeps
<1>6. CASE Restart
  BY <1>6, RestartKeeps
<1> QED  BY <1>1, <1>2, <1>3, <1>4, <1>5, <1>6 DEF Next

LEMMA PollInvariant == Spec => []PollInv
BY PollInvInit, PollInvNext, PTL DEF Spec

\* PollTypeOK: neither the hub, nor a pending hub.set, nor a node runs ahead of
\* the database, for any number of nodes and restarts.
THEOREM NothingRunsAhead == Spec => []PollTypeOK
<1>1. PollInv => PollTypeOK
  BY DEF PollInv
<1> QED  BY <1>1, PollInvariant, PTL

\* NoMissedWake: whatever order the hub.set calls run in, a handler that waits
\* in hub.wait waits for something its node does not have.
THEOREM NoWakeIsMissed == Spec => []NoMissedWake
<1>1. PollInv => NoMissedWake
  BY DEF PollInv
<1> QED  BY <1>1, PollInvariant, PTL

------------------------------------------------------------------------------
(* The version of a netmap. *)

\* What RoomsOf keeps depends on the tables rooms and members alone.
LEMMA RoomsOfTables ==
    ASSUME NEW n \in Nodes, UNCHANGED <<rooms, members>>
    PROVE  RoomsOf(NetMap(n))' = RoomsOf(NetMap(n))
<1> DEFINE D == {x \in Rooms : IsMember(x, n)}
           a == NetMap(n).rooms
           b == NetMap(n)'.rooms
           Kept(st) == IF st.status = "active"
                       THEN [status |-> "active", useExit |-> st.useExit,
                             version |-> st.config.version, subnet |-> st.config.subnet,
                             settings |-> st.config.settings,
                             ips |-> [m \in DOMAIN st.config.members |-> st.config.members[m].ip]]
                       ELSE [status |-> st.status]
<1>1. \A r : Active(r)' = Active(r) /\ IsMember(r, n)' = IsMember(r, n)
  BY DEF Active, IsMember
<1>2. a = [r \in D |-> IF n \in Active(r)
              THEN [status |-> "active", config |-> Config(r), useExit |-> members[r][n].useExit]
              ELSE [status |-> members[r][n].status]]
  BY DEF NetMap
<1>3. b = [r \in D |-> IF n \in Active(r)
              THEN [status |-> "active", config |-> Config(r)', useExit |-> members[r][n].useExit]
              ELSE [status |-> members[r][n].status]]
  BY <1>1 DEF NetMap
<1>4. DOMAIN a = D /\ DOMAIN b = D
  BY <1>2, <1>3
<1>5. ASSUME NEW r \in D PROVE Kept(a[r]) = Kept(b[r])
  <2>1. CASE n \in Active(r)
    <3> DEFINE c == Config(r)
               d == Config(r)'
    <3>1. a[r] = [status |-> "active", config |-> c, useExit |-> members[r][n].useExit]
      BY <1>2, <2>1
    <3>2. b[r] = [status |-> "active", config |-> d, useExit |-> members[r][n].useExit]
      BY <1>3, <2>1
    <3>3. c.version = d.version /\ c.subnet = d.subnet /\ c.settings = d.settings
      BY DEF Config
    <3>4. DOMAIN c.members = Active(r) /\ DOMAIN d.members = Active(r)
      BY <1>1 DEF Config
    <3>5. \A m \in Active(r) : c.members[m].ip = d.members[m].ip
      BY <1>1 DEF Config
    <3> HIDE DEF c, d
    <3>6. [m \in DOMAIN c.members |-> c.members[m].ip] = [m \in DOMAIN d.members |-> d.members[m].ip]
      BY <3>4, <3>5
    <3> QED  BY <3>1, <3>2, <3>3, <3>6
  <2>2. CASE n \notin Active(r)
    BY <1>2, <1>3, <2>2
  <2> QED  BY <2>1, <2>2
<1>6. RoomsOf(NetMap(n)) = [r \in DOMAIN a |-> Kept(a[r])]
  BY DEF RoomsOf
<1>7. RoomsOf(NetMap(n))' = [r \in DOMAIN b |-> Kept(b[r])]
  BY DEF RoomsOf
<1> HIDE DEF a, b, D, Kept
<1> QED  BY <1>4, <1>5, <1>6, <1>7

\* Every step bumps the counter, or leaves the tables rooms and members.
LEMMA BumpOrSame ==
    ASSUME [Next]_vars
    PROVE  version' = version + 1 \/ UNCHANGED <<rooms, members, version>>
<1>1. CASE ServerChange
  BY <1>1, ChangeBumps DEF ServerChange, BumpVersion
<1>2. CASE CommandLineChange
  BY <1>2, ChangeBumps DEF CommandLineChange, BumpVersion
<1>3. CASE TimePasses \/ UNCHANGED vars
  BY <1>3 DEF TimePasses, Expire, ExpireInvite, vars, storeVars
<1>4. ASSUME NEW n \in Pollers, PollStep(n)
      PROVE  version' = version + 1 \/ UNCHANGED <<rooms, members, version>>
  <2>1. \A rep : PollStart(n, rep) => UNCHANGED <<rooms, members, version>>
    BY DEF PollStart, UpdateNodeEndpoints
  <2>2. PollAnnounce(n) => version' = version + 1
    BY DEF PollAnnounce, Touch, BumpVersion
  <2>3. PollCancel(n) \/ PollSet(n) \/ hubWait(n) \/ PollTimeout(n) \/ PollAnswer(n) \/ PollLost(n)
        => UNCHANGED storeVars
    BY DEF PollCancel, PollSet, hubWait, PollTimeout, PollAnswer, PollLost
  <2> QED  BY <1>4, <2>1, <2>2, <2>3 DEF PollStep, storeVars
<1>5. CASE Watch \/ Restart \/ \E v \in toSet : hubSet(v)
  BY <1>5 DEF Watch, Restart, hubSet, storeVars
<1> QED  BY <1>1, <1>2, <1>3, <1>4, <1>5 DEF Next

\* Only an answer changes what a node has.
LEMMA ViewsStay ==
    ASSUME [Next]_vars
    PROVE  \/ view' = view
           \/ \E n \in Pollers : view' = [view EXCEPT ![n] = NetMap(n)] /\ UNCHANGED storeVars
<1>1. \A n : PollStep(n) => view' = view \/ PollAnswer(n)
  BY DEF PollStep, PollStart, PollAnnounce, PollCancel, PollSet, hubWait, PollTimeout, PollLost
<1>2. \A n : PollAnswer(n) => view' = [view EXCEPT ![n] = NetMap(n)] /\ UNCHANGED storeVars
  BY DEF PollAnswer
<1>3. ServerChange \/ CommandLineChange \/ TimePasses \/ Watch \/ Restart \/ UNCHANGED vars
      \/ (\E v \in toSet : hubSet(v)) => view' = view
  BY DEF ServerChange, CommandLineChange, TimePasses, Watch, Restart, hubSet, pollVars, vars
<1> QED  BY <1>1, <1>2, <1>3 DEF Next

\* VersionTellsRooms: for any number of nodes, rooms and changes, through
\* crashes and lost answers, a node at the current version has the current
\* members, addresses and settings of its rooms.
THEOREM VersionStandsForRooms == Spec => []VersionTellsRooms
<1>1. Init => VersionTellsRooms
  <2> SUFFICES ASSUME Init, NEW n \in Pollers PROVE view[n].version # version
    BY DEF VersionTellsRooms
  <2>1. view[n].version = 0 /\ version = 1
    BY DEF Init, EmptyMap, StoreInit
  <2> QED  BY <2>1
<1>2. PollInv /\ VersionTellsRooms /\ [Next]_vars => VersionTellsRooms'
  <2> SUFFICES ASSUME PollInv, VersionTellsRooms, [Next]_vars, NEW n \in Pollers,
                      view'[n].version = version'
               PROVE  RoomsOf(view'[n]) = RoomsOf(NetMap(n))'
    BY DEF VersionTellsRooms
  <2>0. n \in Nodes /\ version \in Nat /\ view[n].version \in 0 .. version
    BY PollAssumption DEF PollInv, PollTypeOK
  <2>1. CASE view'[n] = view[n]
    <3>1. version' # version + 1
      BY <2>0, <2>1
    <3>2. UNCHANGED <<rooms, members, version>>
      BY <3>1, BumpOrSame
    <3>3. RoomsOf(NetMap(n))' = RoomsOf(NetMap(n))
      BY <2>0, <3>2, RoomsOfTables
    <3>4. RoomsOf(view[n]) = RoomsOf(NetMap(n))
      BY <2>1, <3>2 DEF VersionTellsRooms
    <3> QED  BY <2>1, <3>3, <3>4
  <2>2. CASE view'[n] # view[n]
    <3>1. PICK m \in Pollers : view' = [view EXCEPT ![m] = NetMap(m)] /\ UNCHANGED storeVars
      BY <2>2, ViewsStay
    <3>2. m = n
      BY <2>2, <3>1
    <3>3. view'[n] = NetMap(n)
      BY <3>1, <3>2 DEF PollInv
    <3>4. RoomsOf(NetMap(n))' = RoomsOf(NetMap(n))
      BY <2>0, <3>1, RoomsOfTables DEF storeVars
    <3> QED  BY <3>3, <3>4
  <2> QED  BY <2>1, <2>2
<1> QED  BY <1>1, <1>2, PollInvariant, PTL DEF Spec
=============================================================================
