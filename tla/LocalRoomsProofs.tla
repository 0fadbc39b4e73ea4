-------------------------- MODULE LocalRoomsProofs --------------------------
(***************************************************************************)
(* For any number of nodes and addresses, lost and repeated messages,      *)
(* commands that save over each other, and forks: every config of a room   *)
(* without a controller that carries a signature gives its members         *)
(* addresses of their own, and was signed by an admin of an older one      *)
(* (LocalInv); files, daemons and answers hold what was signed and asked   *)
(* for, an invite lets in no more than its uses, and a file's config goes  *)
(* back only through a command (ShapeInv, StepGood).                       *)
(***************************************************************************)
EXTENDS LocalRooms, TLAPS

\* A config whose members have addresses of their own.
Apart(c) == \A m, n \in Members(c) : c.ip[m] = c.ip[n] => m = n

\* Signed by an admin of an older config among S.
BySigner(c, S) == \E d \in S : d.ver < c.ver /\ c.by \in d.adm

\* A LocalRoom, a daemon and a command that hold configs among S.
Row(S) == [entry : BOOLEAN, key : BOOLEAN, cfg : S \cup {NoConfig}, from : Nodes \cup {NoNode},
           ip : Addresses, inv : Nat, peers : SUBSET Nodes]
RunRow(S) == [cfg : S \cup {NoConfig}, signed : S \cup {NoConfig},
              room : {"down", "prov", "up"}, cards : SUBSET Nodes]
CliRow(S) == [on : BOOLEAN, copy : Row(S)]
Replies == [to : Nodes, from : Nodes, ip : Addresses]

\* Whoever holds the key was made an admin no later than by the config it holds.
KeyOK(f, n, S) == f.key => \E d \in S : d.ver <= f.cfg.ver /\ n \in d.adm

ConfigsOK == \A c \in signed : c \in Configs /\ Apart(c)
StateOK ==
    /\ file \in [Nodes -> Row(signed)] /\ cli \in [Nodes -> CliRow(signed)]
    /\ run \in [Nodes -> RunRow(signed)] /\ replies \subseteq Replies
KeysOK == \A n \in Nodes : KeyOK(file[n], n, signed) /\ KeyOK(cli[n].copy, n, signed)

LocalInv == ConfigsOK /\ StateOK /\ KeysOK /\ SignersAreAdmins

------------------------------------------------------------------------------
(* Rows and configs. *)

\* An empty room and a stopped daemon are good, whatever was signed.
LEMMA EmptyRows ==
    ASSUME NEW S
    PROVE  /\ NoRoom \in Row(S) /\ ~NoRoom.key
           /\ Stopped \in RunRow(S)
           /\ Idle \in CliRow(S) /\ Idle.copy = NoRoom
<1>0. 0 \in Addresses /\ NoConfig \in S \cup {NoConfig}
  BY LocalAssumption DEF Addresses
<1>1. NoRoom \in Row(S) /\ ~NoRoom.key
  BY <1>0 DEF NoRoom, Row
<1>2. Stopped \in RunRow(S)
  BY <1>0 DEF Stopped, RunRow
<1>3. Idle \in CliRow(S) /\ Idle.copy = NoRoom
  BY <1>1 DEF Idle, CliRow
<1> QED  BY <1>1, <1>2, <1>3

\* Configs that are signed stay signed.
LEMMA RowsGrow ==
    ASSUME NEW S, NEW T, S \subseteq T
    PROVE  /\ Row(S) \subseteq Row(T) /\ RunRow(S) \subseteq RunRow(T) /\ CliRow(S) \subseteq CliRow(T)
           /\ \A f, n : KeyOK(f, n, S) => KeyOK(f, n, T)
<1>1. Row(S) \subseteq Row(T)
  BY DEF Row
<1>2. RunRow(S) \subseteq RunRow(T)
  BY DEF RunRow
<1>3. CliRow(S) \subseteq CliRow(T)
  BY <1>1 DEF CliRow
<1>4. \A f, n : KeyOK(f, n, S) => KeyOK(f, n, T)
  BY DEF KeyOK
<1> QED  BY <1>1, <1>2, <1>3, <1>4

\* What anybody holds is a config with members apart.
LEMMA HeldConfigs ==
    ASSUME ConfigsOK, NEW c \in signed \cup {NoConfig}
    PROVE  c \in Configs /\ Apart(c)
<1>1. CASE c \in signed
  BY <1>1 DEF ConfigsOK
<1>2. CASE c = NoConfig
  <2>1. NoConfig \in Configs
    BY LocalAssumption DEF NoConfig, Configs, Addresses
  <2>2. Members(NoConfig) = {}
    BY DEF Members, NoConfig
  <2> QED  BY <1>2, <2>1, <2>2 DEF Apart
<1> QED  BY <1>1, <1>2

\* The next version, with some members gone or one at a free address.
LEMMA NextConfig ==
    ASSUME ConfigsOK, NEW f \in Row(signed), NEW n \in Nodes, f.key, KeyOK(f, n, signed),
           NEW ip \in [Nodes -> Addresses], NEW adm \in SUBSET Nodes,
           \A x, y \in Nodes : ip[x] # 0 /\ ip[x] = ip[y] => x = y,
           NEW c, c = Update(f.cfg, n, ip, adm)
    PROVE  /\ c \in Configs /\ Apart(c) /\ BySigner(c, signed)
           /\ c.ver = f.cfg.ver + 1 /\ f.cfg.ver \in Nat
<1>1. f.cfg \in Configs
  BY HeldConfigs DEF Row
<1>2. f.cfg.ver \in Nat
  BY <1>1 DEF Configs
<1>3. c.ver = f.cfg.ver + 1 /\ c.ip = ip /\ c.adm = adm /\ c.by = n
  BY DEF Update
<1>4. c \in Configs
  BY <1>2 DEF Update, Configs
<1>5. Apart(c)
  BY <1>3 DEF Apart, Members
<1>6. PICK d \in signed : d.ver <= f.cfg.ver /\ n \in d.adm
  BY DEF KeyOK
<1>7. d.ver \in Nat
  BY DEF ConfigsOK, Configs
<1>8. d.ver < c.ver
  BY <1>2, <1>3, <1>6, <1>7
<1> QED  BY <1>2, <1>3, <1>4, <1>5, <1>6, <1>8 DEF BySigner

------------------------------------------------------------------------------
(* The steps. *)

LEMMA LocalInvInit == Init => LocalInv
<1> SUFFICES ASSUME Init PROVE LocalInv
  OBVIOUS
<1> DEFINE c == CreateLocalRoom
<1>0. signed = {c} /\ Owner \in Nodes
  BY LocalAssumption DEF Init
<1>1. c.ver = 1 /\ c.adm = {Owner} /\ c.by = Owner
  BY DEF CreateLocalRoom
<1>2. c \in Configs
  BY LocalAssumption DEF CreateLocalRoom, Configs, Addresses
<1>3. Apart(c)
  BY DEF CreateLocalRoom, Apart, Members
<1>4. PICK uses \in 1 .. MaxUses :
        file = [n \in Nodes |-> IF n = Owner
                      THEN [NoRoom EXCEPT !.entry = TRUE, !.key = TRUE,
                                          !.cfg = CreateLocalRoom, !.inv = uses]
                      ELSE NoRoom]
  BY DEF Init
<1> DEFINE own == [NoRoom EXCEPT !.entry = TRUE, !.key = TRUE, !.cfg = c, !.inv = uses]
<1>5. own \in Row(signed) /\ own.cfg = c
  <2>1. NoRoom \in Row(signed) /\ uses \in Nat /\ c \in signed
    BY <1>0, EmptyRows, LocalAssumption
  <2> HIDE DEF c
  <2> QED  BY <2>1 DEF Row
<1>6. \A n \in Nodes : file[n] = IF n = Owner THEN own ELSE NoRoom
  BY <1>4
<1> HIDE DEF own, c
<1>7. file \in [Nodes -> Row(signed)]
  BY <1>4, <1>5, <1>6, EmptyRows DEF own, c
<1>8. cli \in [Nodes -> CliRow(signed)] /\ run \in [Nodes -> RunRow(signed)] /\ replies \subseteq Replies
  BY EmptyRows DEF Init
<1>9. \A n \in Nodes : KeyOK(NoRoom, n, signed) /\ cli[n].copy = NoRoom
  BY EmptyRows DEF KeyOK, Init
<1>10. KeyOK(own, Owner, signed)
  BY <1>0, <1>1, <1>5 DEF KeyOK
<1>11. KeysOK
  BY <1>6, <1>9, <1>10 DEF KeysOK
<1>12. SignersAreAdmins /\ ConfigsOK
  BY <1>0, <1>1, <1>2, <1>3 DEF SignersAreAdmins, ConfigsOK
<1> QED  BY <1>7, <1>8, <1>11, <1>12 DEF LocalInv, StateOK

\* A step that signs nothing, or one good config, and leaves good rows.
LEMMA StepKeeps ==
    ASSUME LocalInv,
           \/ signed' = signed
           \/ \E c : signed' = signed \cup {c} /\ c \in Configs /\ Apart(c) /\ BySigner(c, signed),
           StateOK', KeysOK'
    PROVE  LocalInv'
<1>1. CASE signed' = signed
  BY <1>1 DEF LocalInv, ConfigsOK, SignersAreAdmins, Apart, Members
<1>2. ASSUME NEW c, signed' = signed \cup {c}, c \in Configs, Apart(c), BySigner(c, signed)
      PROVE  LocalInv'
  <2>1. ConfigsOK'
    BY <1>2 DEF LocalInv, ConfigsOK, Apart, Members
  <2>2. SignersAreAdmins'
    BY <1>2 DEF LocalInv, SignersAreAdmins, BySigner
  <2> QED  BY <2>1, <2>2 DEF LocalInv
<1> QED  BY <1>1, <1>2

\* A step at one node that changes its file, and perhaps what was signed.
LEMMA FileKeeps ==
    ASSUME LocalInv, NEW n \in Nodes, NEW f, f \in Row(signed'), KeyOK(f, n, signed'),
           file' = [file EXCEPT ![n] = f],
           cli' = cli \/ cli' = [cli EXCEPT ![n] = Idle],
           run' \in [Nodes -> RunRow(signed)], replies' \subseteq Replies,
           \/ signed' = signed
           \/ \E c : signed' = signed \cup {c} /\ c \in Configs /\ Apart(c) /\ BySigner(c, signed)
    PROVE  LocalInv'
<1>0. signed \subseteq signed'
  OBVIOUS
<1>1. /\ file \in [Nodes -> Row(signed')] /\ cli \in [Nodes -> CliRow(signed')]
      /\ run' \in [Nodes -> RunRow(signed')]
  BY <1>0, RowsGrow DEF LocalInv, StateOK
<1>2. Idle \in CliRow(signed') /\ Idle.copy = NoRoom /\ ~NoRoom.key
  BY EmptyRows
<1>3. StateOK'
  BY <1>1, <1>2 DEF StateOK
<1>4. \A m \in Nodes : KeyOK(file[m], m, signed') /\ KeyOK(cli[m].copy, m, signed')
  BY <1>0, RowsGrow DEF LocalInv, KeysOK
<1>5. \A m \in Nodes : /\ file'[m] = IF m = n THEN f ELSE file[m]
                       /\ cli'[m] = cli[m] \/ cli'[m] = Idle
  BY <1>1
<1>6. \A m \in Nodes : KeyOK(Idle.copy, m, signed')
  BY <1>2 DEF KeyOK
<1>7. ASSUME NEW m \in Nodes
      PROVE  KeyOK(file'[m], m, signed') /\ KeyOK(cli'[m].copy, m, signed')
  <2>1. KeyOK(file'[m], m, signed')
    BY <1>4, <1>5
  <2>2. KeyOK(cli'[m].copy, m, signed')
    BY <1>4, <1>5, <1>6
  <2> QED  BY <2>1, <2>2
<1>8. KeysOK'
  BY <1>7 DEF KeysOK
<1> QED  BY <1>3, <1>8, StepKeeps

\* A step that leaves files, commands and signatures alone.
LEMMA RunKeeps ==
    ASSUME LocalInv, UNCHANGED <<file, cli, signed>>,
           run' \in [Nodes -> RunRow(signed)], replies' \subseteq Replies
    PROVE  LocalInv'
<1>1. StateOK' /\ KeysOK'
  BY DEF LocalInv, StateOK, KeysOK
<1> QED  BY <1>1, StepKeeps

\* The state of one node, taken apart.
LEMMA NodeRow ==
    ASSUME LocalInv, NEW n \in Nodes
    PROVE  /\ file[n] \in Row(signed) /\ KeyOK(file[n], n, signed)
           /\ cli[n].copy \in Row(signed) /\ KeyOK(cli[n].copy, n, signed)
           /\ run[n] \in RunRow(signed)
<1>1. file[n] \in Row(signed) /\ cli[n] \in CliRow(signed) /\ run[n] \in RunRow(signed)
  BY DEF LocalInv, StateOK
<1>2. cli[n].copy \in Row(signed)
  BY <1>1 DEF CliRow
<1> QED  BY <1>1, <1>2 DEF LocalInv, KeysOK

\* A command saves a copy that still holds a config its key goes with.
LEMMA SaveKeeps ==
    ASSUME LocalInv, NEW n \in Nodes, NEW f, save(n, f),
           f \in Row(signed'), KeyOK(f, n, signed'),
           \/ signed' = signed
           \/ \E c : signed' = signed \cup {c} /\ c \in Configs /\ Apart(c) /\ BySigner(c, signed)
    PROVE  LocalInv'
<1>1. /\ file' = [file EXCEPT ![n] = f] /\ cli' = [cli EXCEPT ![n] = Idle]
      /\ run' = run /\ replies' = replies
  BY DEF save, netVars
<1>2. run' \in [Nodes -> RunRow(signed)] /\ replies' \subseteq Replies
  BY <1>1 DEF LocalInv, StateOK
<1> QED  BY <1>1, <1>2, FileKeeps

\* A row with the next version in the place of its config.
LEMMA SignedRow ==
    ASSUME NEW S, NEW f \in Row(S), NEW n \in Nodes, KeyOK(f, n, S), ConfigsOK, S = signed,
           NEW c, f.cfg.ver \in Nat, c.ver = f.cfg.ver + 1,
           NEW P \in SUBSET Nodes, NEW i \in Nat,
           NEW g, g = [f EXCEPT !.cfg = c, !.peers = P, !.inv = i]
    PROVE  g \in Row(S \cup {c}) /\ KeyOK(g, n, S \cup {c})
<1>1. f \in Row(S \cup {c}) /\ c \in S \cup {c}
  BY RowsGrow
<1>2. g \in Row(S \cup {c}) /\ g.key = f.key /\ g.cfg = c
  BY <1>1 DEF Row
<1>3. \A d \in S : d.ver \in Nat
  BY DEF ConfigsOK, Configs
<1>4. KeyOK(g, n, S \cup {c})
  BY <1>2, <1>3 DEF KeyOK
<1> QED  BY <1>2, <1>4

LEMMA joinLocalKeeps ==
    ASSUME LocalInv, NEW m \in Nodes, NEW a \in Nodes, joinLocal(m, a)
    PROVE  LocalInv'
<1> DEFINE f == [NoRoom EXCEPT !.entry = TRUE, !.from = a]
<1>1. /\ file' = [file EXCEPT ![m] = f] /\ cli' = cli /\ run' = run
      /\ replies' = replies /\ signed' = signed
  BY DEF joinLocal, histVars
<1>2. NoRoom \in Row(signed) /\ ~NoRoom.key
  BY EmptyRows
<1>3. f \in Row(signed) /\ ~f.key
  BY <1>2 DEF Row
<1>4. KeyOK(f, m, signed)
  BY <1>3 DEF KeyOK
<1>5. run' \in [Nodes -> RunRow(signed)] /\ replies' \subseteq Replies
  BY <1>1 DEF LocalInv, StateOK
<1> HIDE DEF f
<1> QED  BY <1>1, <1>3, <1>4, <1>5, FileKeeps

LEMMA openLocalKeeps ==
    ASSUME LocalInv, NEW n \in Nodes, openLocal(n)
    PROVE  LocalInv'
<1> DEFINE k == [on |-> TRUE, copy |-> file[n]]
<1>1. /\ cli' = [cli EXCEPT ![n] = k] /\ file' = file /\ run' = run
      /\ replies' = replies /\ signed' = signed
  BY DEF openLocal, netVars, histVars
<1>2. k \in CliRow(signed) /\ k.copy = file[n] /\ KeyOK(file[n], n, signed)
  BY NodeRow DEF CliRow
<1> HIDE DEF k
<1>3. cli \in [Nodes -> CliRow(signed)]
  BY DEF LocalInv, StateOK
<1>4. cli' \in [Nodes -> CliRow(signed)]
  BY <1>1, <1>2, <1>3
<1>5. StateOK'
  BY <1>1, <1>4 DEF LocalInv, StateOK
<1>6. \A x \in Nodes : cli'[x] = IF x = n THEN k ELSE cli[x]
  BY <1>1, <1>3
<1>7. KeysOK'
  BY <1>1, <1>2, <1>6 DEF LocalInv, KeysOK
<1> QED  BY <1>1, <1>5, <1>7, StepKeeps

LEMMA cmdKeeps ==
    ASSUME LocalInv, NEW n \in Nodes, cmdInvite(n) \/ cmdOther(n)
    PROVE  LocalInv'
<1> DEFINE f == cli[n].copy
<1>1. f \in Row(signed) /\ KeyOK(f, n, signed)
  BY NodeRow
<1>2. CASE cmdInvite(n)
  <2>1. save(n, NewInvite(f)) /\ signed' = signed
    BY <1>2 DEF cmdInvite
  <2> HIDE DEF f
  <2>2. NewInvite(f) \in Row(signed) /\ NewInvite(f).key = f.key /\ NewInvite(f).cfg = f.cfg
    BY <1>1 DEF NewInvite, Row
  <2>3. KeyOK(NewInvite(f), n, signed)
    BY <1>1, <2>2 DEF KeyOK
  <2> QED  BY <2>1, <2>2, <2>3, SaveKeeps
<1>3. CASE cmdOther(n)
  <2>1. save(n, f) /\ signed' = signed
    BY <1>3 DEF cmdOther
  <2> QED  BY <1>1, <2>1, SaveKeeps
<1> QED  BY <1>2, <1>3

LEMMA cmdAdminKeeps ==
    ASSUME LocalInv, NEW n \in Nodes, NEW m \in Nodes, cmdAdmin(n, m)
    PROVE  LocalInv'
<1> DEFINE f == cli[n].copy
           c == f.cfg
           adm == c.adm \cup ({n, m} \cap Members(c))
           next == Update(c, n, c.ip, adm)
           g == [f EXCEPT !.cfg = next]
<1>1. f \in Row(signed) /\ KeyOK(f, n, signed) /\ ConfigsOK
  BY NodeRow DEF LocalInv
<1>2. f.key /\ save(n, g) /\ signed' = signed \cup {next}
  BY DEF cmdAdmin, CanSign
<1> HIDE DEF f
<1>3. c \in Configs /\ Apart(c)
  BY <1>1, HeldConfigs DEF Row
<1>4. c.ip \in [Nodes -> Addresses] /\ adm \in SUBSET Nodes
  BY <1>3 DEF Configs
<1>5. \A x, y \in Nodes : c.ip[x] # 0 /\ c.ip[x] = c.ip[y] => x = y
  BY <1>3 DEF Apart, Members
<1> HIDE DEF c, adm
<1>6. /\ next \in Configs /\ Apart(next) /\ BySigner(next, signed)
      /\ next.ver = f.cfg.ver + 1 /\ f.cfg.ver \in Nat
  BY <1>1, <1>2, <1>4, <1>5, NextConfig DEF c
<1> HIDE DEF next
<1>7. f.peers \in SUBSET Nodes /\ f.inv \in Nat /\ g = [f EXCEPT !.cfg = next, !.peers = f.peers, !.inv = f.inv]
  BY <1>1 DEF Row
<1> HIDE DEF g
<1>8. g \in Row(signed') /\ KeyOK(g, n, signed')
  BY <1>1, <1>2, <1>6, <1>7, SignedRow
<1> QED  BY <1>2, <1>6, <1>8, SaveKeeps

LEMMA cmdKickKeeps ==
    ASSUME LocalInv, NEW n \in Nodes, NEW m \in Nodes, cmdKick(n, m)
    PROVE  LocalInv'
<1> DEFINE f == cli[n].copy
           c == f.cfg
           ip == [c.ip EXCEPT ![m] = 0]
           adm == c.adm \ {m}
           next == Update(c, n, ip, adm)
           g == [f EXCEPT !.cfg = next, !.peers = @ \ {m}]
<1>1. f \in Row(signed) /\ KeyOK(f, n, signed) /\ ConfigsOK
  BY NodeRow DEF LocalInv
<1>2. f.key /\ save(n, g) /\ signed' = signed \cup {next}
  BY DEF cmdKick, CanSign
<1> HIDE DEF f
<1>3. c \in Configs /\ Apart(c) /\ 0 \in Addresses
  BY <1>1, HeldConfigs, LocalAssumption DEF Row, Addresses
<1>4. ip \in [Nodes -> Addresses] /\ adm \in SUBSET Nodes
  BY <1>3 DEF Configs
<1>5. \A x, y \in Nodes : ip[x] # 0 /\ ip[x] = ip[y] => x = y
  BY <1>3 DEF Apart, Members, Configs
<1> HIDE DEF c, adm, ip
<1>6. /\ next \in Configs /\ Apart(next) /\ BySigner(next, signed)
      /\ next.ver = f.cfg.ver + 1 /\ f.cfg.ver \in Nat
  BY <1>1, <1>2, <1>4, <1>5, NextConfig DEF c
<1> HIDE DEF next
<1>7. /\ f.peers \ {m} \in SUBSET Nodes /\ f.inv \in Nat
      /\ g = [f EXCEPT !.cfg = next, !.peers = f.peers \ {m}, !.inv = f.inv]
  BY <1>1 DEF Row
<1> HIDE DEF g
<1>8. g \in Row(signed') /\ KeyOK(g, n, signed')
  BY <1>1, <1>2, <1>6, <1>7, SignedRow
<1> QED  BY <1>2, <1>6, <1>8, SaveKeeps

\* An answer is one of Replies.
LEMMA AnswerTyped ==
    ASSUME LocalInv, NEW m \in Nodes, NEW a \in Nodes, NEW ip \in Addresses, Answer(m, a, ip)
    PROVE  replies' \subseteq Replies
<1>1. replies \subseteq Replies /\ [to |-> m, from |-> a, ip |-> ip] \in Replies
  BY DEF LocalInv, StateOK, Replies
<1> QED  BY <1>1 DEF Answer

\* A row that lost a use, or none.
LEMMA TakeUseRow ==
    ASSUME NEW S, NEW n, NEW f \in Row(S), KeyOK(f, n, S), f.inv > 0
    PROVE  TakeUse(f) \in Row(S) /\ KeyOK(TakeUse(f), n, S)
<1>1. f.inv - 1 \in Nat
  BY DEF Row
<1>2. TakeUse(f) \in Row(S) /\ TakeUse(f).key = f.key /\ TakeUse(f).cfg = f.cfg
  BY <1>1 DEF TakeUse, Row
<1> QED  BY <1>2 DEF KeyOK

LEMMA AcceptKeeps ==
    ASSUME LocalInv, NEW m \in Nodes, NEW a \in Nodes, file[a].key, Accept(m, a),
           UNCHANGED <<run, cli>>
    PROVE  LocalInv'
<1> DEFINE f == file[a]
           c == f.cfg
<1>1. f \in Row(signed) /\ KeyOK(f, a, signed) /\ ConfigsOK
  BY NodeRow DEF LocalInv
<1>2. PICK h \in FreeAddresses(c) :
        LET next == Update(c, a, [c.ip EXCEPT ![m] = h], c.adm)
        IN  /\ file' = [file EXCEPT ![a] = [TakeUse(file[a]) EXCEPT !.cfg = next, !.peers = file[a].peers \cup {m}]]
            /\ signed' = signed \cup {next}
            /\ Answer(m, a, h)
  BY DEF Accept
<1> DEFINE ip == [c.ip EXCEPT ![m] = h]
           next == Update(c, a, ip, c.adm)
           g == [TakeUse(f) EXCEPT !.cfg = next, !.peers = f.peers \cup {m}]
<1>3. /\ file' = [file EXCEPT ![a] = g] /\ signed' = signed \cup {next} /\ Answer(m, a, h)
      /\ f.key /\ f.inv > 0
  BY <1>2 DEF Accept, Usable
<1>4. h \in 1 .. Hosts /\ \A x \in Nodes : c.ip[x] # h
  BY DEF FreeAddresses
<1> HIDE DEF f
<1>5. c \in Configs /\ Apart(c) /\ h \in Addresses
  BY <1>1, <1>4, HeldConfigs, LocalAssumption DEF Row, Addresses
<1>6. c.ip \in [Nodes -> Addresses] /\ c.adm \in SUBSET Nodes
  BY <1>5 DEF Configs
<1>7. ip \in [Nodes -> Addresses]
  BY <1>5, <1>6
<1>8. \A x, y \in Nodes : c.ip[x] # 0 /\ c.ip[x] = c.ip[y] => x = y
  BY <1>5 DEF Apart, Members
<1>9. \A x, y \in Nodes : ip[x] # 0 /\ ip[x] = ip[y] => x = y
  BY <1>4, <1>6, <1>8
<1> HIDE DEF c, ip
<1>10. /\ next \in Configs /\ Apart(next) /\ BySigner(next, signed)
       /\ next.ver = f.cfg.ver + 1 /\ f.cfg.ver \in Nat
  BY <1>1, <1>3, <1>6, <1>7, <1>9, NextConfig DEF c
<1> HIDE DEF next
<1>11. /\ f.peers \cup {m} \in SUBSET Nodes /\ f.inv - 1 \in Nat
       /\ g = [f EXCEPT !.cfg = next, !.peers = f.peers \cup {m}, !.inv = f.inv - 1]
  <2>1. f.peers \cup {m} \in SUBSET Nodes /\ f.inv - 1 \in Nat
    BY <1>1, <1>3 DEF Row
  <2>2. TakeUse(f) = [f EXCEPT !.inv = f.inv - 1]
    BY DEF TakeUse
  <2>3. g = [f EXCEPT !.cfg = next, !.peers = f.peers \cup {m}, !.inv = f.inv - 1]
    BY <1>1, <2>2 DEF Row
  <2> QED  BY <2>1, <2>3
<1> HIDE DEF g
<1>12. g \in Row(signed') /\ KeyOK(g, a, signed')
  BY <1>1, <1>3, <1>10, <1>11, SignedRow
<1>13. run' \in [Nodes -> RunRow(signed)] /\ cli' = cli
  BY DEF LocalInv, StateOK
<1>14. replies' \subseteq Replies
  BY <1>3, <1>5, AnswerTyped
<1> QED  BY <1>3, <1>10, <1>12, <1>13, <1>14, FileKeeps

LEMMA handleJoinKeeps ==
    ASSUME LocalInv, NEW m \in Nodes, NEW a \in Nodes, handleJoin(m, a)
    PROVE  LocalInv'
<1>1. file[a].key /\ run' = run /\ cli' = cli
  BY DEF handleJoin
<1>2. run' \in [Nodes -> RunRow(signed)] /\ 0 \in Addresses
  BY <1>1, LocalAssumption DEF LocalInv, StateOK, Addresses
<1>3. CASE AnswerAgain(m, a)
  <2>1. /\ Answer(m, a, file[a].cfg.ip[m])
        /\ file' = file /\ signed' = signed
    BY <1>3 DEF AnswerAgain
  <2>2. file[a].cfg \in signed \cup {NoConfig} /\ ConfigsOK
    BY NodeRow DEF LocalInv, Row
  <2>3. file[a].cfg \in Configs
    BY <2>2, HeldConfigs
  <2>4. file[a].cfg.ip[m] \in Addresses
    BY <2>3 DEF Configs
  <2>5. replies' \subseteq Replies
    BY <2>1, <2>4, AnswerTyped
  <2> QED  BY <1>1, <1>2, <2>1, <2>5, RunKeeps
<1>4. CASE Accept(m, a)
  BY <1>1, <1>4, AcceptKeeps
<1>5. CASE Refuse(m, a)
  <2> DEFINE f == IF Usable(a) THEN TakeUse(file[a]) ELSE file[a]
  <2>1. file' = [file EXCEPT ![a] = f] /\ signed' = signed /\ Answer(m, a, 0)
    BY <1>5 DEF Refuse
  <2>2. replies' \subseteq Replies
    BY <1>2, <2>1, AnswerTyped
  <2>3. f \in Row(signed) /\ KeyOK(f, a, signed)
    BY NodeRow, TakeUseRow DEF Usable
  <2> HIDE DEF f
  <2> QED  BY <1>1, <1>2, <2>1, <2>2, <2>3, FileKeeps
<1> QED  BY <1>3, <1>4, <1>5 DEF handleJoin

LEMMA handleJoinReplyKeeps ==
    ASSUME LocalInv, NEW r \in replies, handleJoinReply(r)
    PROVE  LocalInv'
<1> DEFINE f == file[r.to]
           g == IF r.ip = 0 THEN [f EXCEPT !.from = NoNode] ELSE [f EXCEPT !.ip = r.ip]
<1>1. r.to \in Nodes /\ r.ip \in Addresses /\ replies \subseteq Replies
  BY DEF LocalInv, StateOK, Replies
<1>2. /\ file' = [file EXCEPT ![r.to] = g] /\ cli' = cli /\ run' = run
      /\ signed' = signed /\ replies' \subseteq replies
  BY DEF handleJoinReply, histVars
<1>3. f \in Row(signed) /\ KeyOK(f, r.to, signed)
  BY <1>1, NodeRow
<1> HIDE DEF f
<1>4. g \in Row(signed) /\ g.key = f.key /\ g.cfg = f.cfg
  BY <1>1, <1>3 DEF Row
<1> HIDE DEF g
<1>5. KeyOK(g, r.to, signed)
  BY <1>3, <1>4 DEF KeyOK
<1>6. run' \in [Nodes -> RunRow(signed)] /\ replies' \subseteq Replies
  BY <1>1, <1>2 DEF LocalInv, StateOK
<1> QED  BY <1>1, <1>2, <1>4, <1>5, <1>6, FileKeeps

\* A daemon that accepts a config holds a signed one.
LEMMA AcceptedTyped ==
    ASSUME LocalInv, NEW n \in Nodes, NEW c \in signed \cup {NoConfig}
    PROVE  Accepted(n, c) \in RunRow(signed)
<1>1. run[n] \in RunRow(signed)
  BY NodeRow
<1> QED  BY <1>1 DEF Accepted, RunRow

LEMMA syncLocalKeeps ==
    ASSUME LocalInv, NEW n \in Nodes, syncLocal(n)
    PROVE  LocalInv'
<1>1. file' = file /\ cli' = cli /\ signed' = signed /\ replies' = replies
  BY DEF syncLocal, netVars, histVars
<1>2. run \in [Nodes -> RunRow(signed)] /\ replies' \subseteq Replies
  BY <1>1 DEF LocalInv, StateOK
<1>3. file[n].cfg \in signed \cup {NoConfig} /\ run[n] \in RunRow(signed)
  BY NodeRow DEF Row
<1>4. Accepted(n, file[n].cfg) \in RunRow(signed)
  BY <1>3, AcceptedTyped
<1>5. [run[n] EXCEPT !.room = "prov"] \in RunRow(signed)
  BY <1>3 DEF RunRow
<1>6. \/ run' = [run EXCEPT ![n] = Accepted(n, file[n].cfg)]
      \/ run' = [run EXCEPT ![n] = [run[n] EXCEPT !.room = "prov"]]
  BY DEF syncLocal
<1>7. run' \in [Nodes -> RunRow(signed)]
  BY <1>2, <1>4, <1>5, <1>6
<1> QED  BY <1>1, <1>2, <1>7, RunKeeps

LEMMA gossipFetchKeeps ==
    ASSUME LocalInv, NEW n \in Nodes, NEW p \in Nodes, gossipFetch(n, p)
    PROVE  LocalInv'
<1> DEFINE f == file[n]
           c == run[p].signed
           g == persistLocal(f, c)
<1>1. /\ file' = [file EXCEPT ![n] = g] /\ run' = [run EXCEPT ![n] = Accepted(n, c)]
      /\ cli' = cli /\ signed' = signed /\ replies' = replies
  BY DEF gossipFetch, netVars, histVars
<1>2. c \in signed \cup {NoConfig} /\ f \in Row(signed) /\ KeyOK(f, n, signed) /\ ConfigsOK
  BY NodeRow DEF RunRow, LocalInv
<1> HIDE DEF f, c
<1>3. c.ver \in Nat /\ f.cfg.ver \in Nat /\ \A d \in signed : d.ver \in Nat
  <2>1. f.cfg \in signed \cup {NoConfig}
    BY <1>2 DEF Row
  <2>2. c \in Configs /\ f.cfg \in Configs /\ \A d \in signed : d \in Configs
    BY <1>2, <2>1, HeldConfigs
  <2> QED  BY <2>2 DEF Configs
<1>4. g \in Row(signed) /\ g.key = f.key /\ (g.cfg = f.cfg \/ (g.cfg = c /\ f.cfg.ver < c.ver))
  <2>1. 0 \in Addresses
    BY LocalAssumption DEF Addresses
  <2>2. CASE f.cfg.ver >= c.ver
    BY <1>2, <2>2 DEF persistLocal
  <2>3. CASE ~(f.cfg.ver >= c.ver)
    <3> DEFINE P == IF f.from = NoNode THEN f.peers ELSE f.peers \cup {f.from}
    <3>1. P \in SUBSET Nodes /\ g = [f EXCEPT !.cfg = c, !.peers = P, !.from = NoNode, !.ip = 0]
      BY <1>2, <2>3 DEF persistLocal, Row
    <3> HIDE DEF P, g
    <3>2. f.cfg.ver < c.ver
      BY <1>3, <2>3
    <3>3. g \in Row(signed) /\ g.key = f.key /\ g.cfg = c
      BY <1>2, <2>1, <3>1 DEF Row
    <3> QED  BY <3>2, <3>3
  <2> QED  BY <2>2, <2>3
<1> HIDE DEF g
<1>5. KeyOK(g, n, signed)
  BY <1>2, <1>3, <1>4 DEF KeyOK
<1>6. Accepted(n, c) \in RunRow(signed)
  BY <1>2, AcceptedTyped
<1>7. run' \in [Nodes -> RunRow(signed)] /\ replies' \subseteq Replies
  BY <1>1, <1>6 DEF LocalInv, StateOK
<1> QED  BY <1>1, <1>4, <1>5, <1>7, FileKeeps

\* The key comes to a node that its config, a signed one, makes an admin.
LEMMA fetchSignKeyKeeps ==
    ASSUME LocalInv, NEW n \in Nodes, NEW a \in Nodes, fetchSignKey(n, a)
    PROVE  LocalInv'
<1> DEFINE f == file[n]
           g == [f EXCEPT !.key = TRUE]
<1>1. /\ file' = [file EXCEPT ![n] = g] /\ n \in f.cfg.adm
      /\ run' = run /\ cli' = cli /\ signed' = signed /\ replies' = replies
  BY DEF fetchSignKey, netVars, histVars
<1>2. f \in Row(signed) /\ ConfigsOK
  BY NodeRow DEF LocalInv
<1> HIDE DEF f
<1>3. g \in Row(signed) /\ g.cfg = f.cfg
  BY <1>2 DEF Row
<1>4. f.cfg \in signed /\ f.cfg.ver \in Nat
  <2>1. f.cfg \in signed \cup {NoConfig} /\ f.cfg # NoConfig
    BY <1>1, <1>2 DEF Row, NoConfig
  <2>2. f.cfg \in Configs
    BY <1>2, <2>1, HeldConfigs
  <2> QED  BY <2>1, <2>2 DEF Configs
<1> HIDE DEF g
<1>5. KeyOK(g, n, signed)
  BY <1>1, <1>3, <1>4 DEF KeyOK
<1>6. run' \in [Nodes -> RunRow(signed)] /\ replies' \subseteq Replies
  BY <1>1 DEF LocalInv, StateOK
<1> QED  BY <1>1, <1>3, <1>5, <1>6, FileKeeps

LEMMA swapCardsKeeps ==
    ASSUME LocalInv, NEW n \in Nodes, NEW p \in Nodes, NEW answered, swapCards(n, p, answered)
    PROVE  LocalInv'
<1> DEFINE got == [x \in {n, p} |-> IF x = p THEN Merged(p, cardsFor(n))
                                 ELSE IF answered THEN Merged(n, cardsFor(p)) ELSE {}]
<1>1. /\ run' = [x \in Nodes |-> IF x \in {n, p}
                     THEN [run[x] EXCEPT !.cards = @ \cup got[x]] ELSE run[x]]
      /\ file' = [x \in Nodes |-> IF x \in {n, p}
                     THEN [file[x] EXCEPT !.peers = @ \cup got[x]] ELSE file[x]]
      /\ cli' = cli /\ signed' = signed /\ replies' = replies
  BY DEF swapCards, netVars, histVars
<1>2. \A x \in {n, p} : got[x] \subseteq Nodes
  <2>1. \A y \in Nodes : run[y].cards \subseteq Nodes
    BY NodeRow DEF RunRow
  <2>2. \A y \in Nodes : cardsFor(y) \subseteq Nodes
    BY <2>1 DEF cardsFor
  <2>3. \A y, z \in Nodes : Merged(y, cardsFor(z)) \subseteq Nodes
    BY <2>2 DEF Merged
  <2> QED  BY <2>3
<1> HIDE DEF got
<1>3. \A x \in Nodes : run[x] \in RunRow(signed) /\ file[x] \in Row(signed) /\ KeyOK(file[x], x, signed)
  BY NodeRow
<1>4. \A x \in Nodes : run'[x] \in RunRow(signed)
  BY <1>1, <1>2, <1>3 DEF RunRow
<1>5. \A x \in Nodes : file'[x] \in Row(signed) /\ file'[x].key = file[x].key /\ file'[x].cfg = file[x].cfg
  BY <1>1, <1>2, <1>3 DEF Row
<1>6. file' \in [Nodes -> Row(signed)] /\ run' \in [Nodes -> RunRow(signed)]
  BY <1>1, <1>4, <1>5
<1>7. StateOK'
  BY <1>1, <1>6 DEF LocalInv, StateOK
<1>8. \A x \in Nodes : KeyOK(file'[x], x, signed)
  BY <1>3, <1>5 DEF KeyOK
<1>9. KeysOK'
  BY <1>1, <1>8 DEF LocalInv, KeysOK
<1> QED  BY <1>1, <1>7, <1>9, StepKeeps

\* The network's delays, expiries and restarts touch no file.
LEMMA RestKeeps ==
    ASSUME LocalInv,
           \/ \E n \in Nodes : Restart(n) \/ Expire(n)
           \/ UNCHANGED vars
    PROVE  LocalInv'
<1>1. run \in [Nodes -> RunRow(signed)] /\ replies \subseteq Replies /\ Stopped \in RunRow(signed)
  BY EmptyRows DEF LocalInv, StateOK
<1>2. ASSUME NEW n \in Nodes, Restart(n)
      PROVE  LocalInv'
  <2>1. /\ run' = [run EXCEPT ![n] = Stopped] /\ replies' = replies
        /\ UNCHANGED <<file, cli, signed>>
    BY <1>2 DEF Restart, netVars, histVars
  <2>2. run' \in [Nodes -> RunRow(signed)]
    BY <1>1, <2>1
  <2> QED  BY <1>1, <2>1, <2>2, RunKeeps
<1>3. ASSUME NEW n \in Nodes, Expire(n)
      PROVE  LocalInv'
  <2>1. run' = run /\ replies' = replies /\ UNCHANGED <<file, cli, signed>>
    BY <1>3 DEF Expire, histVars
  <2> QED  BY <1>1, <2>1, RunKeeps
<1>4. CASE UNCHANGED vars
  <2>1. run' = run /\ replies' = replies /\ UNCHANGED <<file, cli, signed>>
    BY <1>4 DEF vars, netVars, histVars
  <2> QED  BY <1>1, <2>1, RunKeeps
<1> QED  BY <1>2, <1>3, <1>4

LEMMA LocalInvNext == LocalInv /\ [Next]_vars => LocalInv'
<1> SUFFICES ASSUME LocalInv, [Next]_vars PROVE LocalInv'
  OBVIOUS
<1>1. CASE \E m, a \in Nodes : joinLocal(m, a) \/ handleJoin(m, a)
  BY <1>1, joinLocalKeeps, handleJoinKeeps
<1>2. CASE \E n \in Nodes : openLocal(n) \/ cmdInvite(n) \/ cmdOther(n) \/ syncLocal(n)
  BY <1>2, openLocalKeeps, cmdKeeps, syncLocalKeeps
<1>3. CASE \E n, m \in Nodes : cmdAdmin(n, m) \/ cmdKick(n, m)
  BY <1>3, cmdAdminKeeps, cmdKickKeeps
<1>4. CASE \E r \in replies : handleJoinReply(r)
  BY <1>4, handleJoinReplyKeeps
<1>5. CASE \E n, p \in Nodes : gossipFetch(n, p) \/ fetchSignKey(n, p)
  BY <1>5, gossipFetchKeeps, fetchSignKeyKeeps
<1>6. CASE \E n, p \in Nodes, answered \in BOOLEAN : swapCards(n, p, answered)
  BY <1>6, swapCardsKeeps
<1>7. CASE (\E n \in Nodes : Restart(n) \/ Expire(n)) \/ UNCHANGED vars
  BY <1>7, RestKeeps
<1> QED  BY <1>1, <1>2, <1>3, <1>4, <1>5, <1>6, <1>7 DEF Next

------------------------------------------------------------------------------
(* Entries, uses and daemons: the rest of the shape of the state. *)

\* A LocalRoom with no more uses than were given out; an absent one is blank.
Holds(f, i) ==
    /\ f.inv <= i
    /\ f.entry \/ f = NoRoom
    /\ f.ip # 0 => f.from # NoNode

\* A daemon of node n that runs a config among S and serves one of its version.
RunOK(n, w, S) ==
    /\ w.cfg = NoConfig \/ {w.cfg, w.signed} \subseteq S
    /\ w.signed.ver = w.cfg.ver
    /\ n \notin w.cards
    /\ w.room = "up" => w.cfg.ip[n] # 0

\* A room that runs, a command at work and an answer on its way all belong to
\* an entry of the file, which never goes away.
EntriesStay ==
    /\ \A n \in Nodes : /\ cli[n].on => cli[n].copy.entry /\ file[n].entry
                        /\ run[n].room # "down" => file[n].entry
    /\ \A r \in replies : link[r.to] = r.from /\ file[r.to].entry

ShapeInv ==
    /\ issued \in [Nodes -> Nat] /\ admitted \in [Nodes -> Nat]
    /\ \A n \in Nodes : /\ Holds(file[n], issued[n]) /\ Holds(cli[n].copy, issued[n])
                        /\ RunOK(n, run[n], signed)
    /\ EntriesStay

\* What FileMovesForward says of node n.
Forward(n) ==
    \/ file'[n].cfg = file[n].cfg
    \/ file'[n].cfg.ver > file[n].cfg.ver
    \/ cli[n].on /\ ~cli'[n].on

\* Everything a step keeps besides LocalInv.
StepGood == ShapeInv' /\ InviteUsesHold' /\ \A n \in Nodes : Forward(n)

\* The three invariants together.
HeldInv == LocalInv /\ ShapeInv /\ InviteUsesHold

\* The blank row, the idle command and the stopped daemon.
LEMMA BlankShape ==
    /\ NoRoom.inv = 0 /\ ~NoRoom.entry /\ NoRoom.from = NoNode /\ NoRoom.ip = 0
    /\ NoRoom.cfg = NoConfig /\ ~NoRoom.key
    /\ ~Idle.on /\ Idle.copy = NoRoom
    /\ NoConfig.ver = 0 /\ \A n \in Nodes : NoConfig.ip[n] = 0
    /\ \A i \in Nat : Holds(NoRoom, i)
    /\ \A n, S : RunOK(n, Stopped, S) /\ Stopped.room = "down"
BY DEF NoRoom, Idle, NoConfig, Holds, RunOK, Stopped

\* The parts of one node's state, in every state of HeldInv.
LEMMA NodeShape ==
    ASSUME HeldInv, NEW n \in Nodes
    PROVE  /\ issued[n] \in Nat /\ admitted[n] \in Nat
           /\ file[n].inv \in Nat /\ file[n].inv <= issued[n]
           /\ cli[n].copy.inv \in Nat /\ cli[n].copy.inv <= issued[n]
           /\ file[n].cfg.ver \in Nat /\ cli[n].copy.cfg.ver \in Nat
           /\ Holds(file[n], issued[n]) /\ Holds(cli[n].copy, issued[n])
           /\ RunOK(n, run[n], signed)
           /\ ~lost => admitted[n] + file[n].inv <= issued[n]
<1>1. issued[n] \in Nat /\ admitted[n] \in Nat /\ RunOK(n, run[n], signed)
      /\ Holds(file[n], issued[n]) /\ Holds(cli[n].copy, issued[n])
  BY DEF HeldInv, ShapeInv
<1>2. file[n] \in Row(signed) /\ cli[n].copy \in Row(signed) /\ ConfigsOK
  BY NodeRow DEF HeldInv, LocalInv
<1>3. /\ file[n].inv \in Nat /\ cli[n].copy.inv \in Nat
      /\ file[n].cfg \in signed \cup {NoConfig} /\ cli[n].copy.cfg \in signed \cup {NoConfig}
  BY <1>2 DEF Row
<1>4. file[n].cfg \in Configs /\ cli[n].copy.cfg \in Configs
  BY <1>2, <1>3, HeldConfigs
<1>5. file[n].cfg.ver \in Nat /\ cli[n].copy.cfg.ver \in Nat
  BY <1>4 DEF Configs
<1>6. file[n].inv <= issued[n] /\ cli[n].copy.inv <= issued[n]
  BY <1>1 DEF Holds
<1>7. ~lost => admitted[n] + file[n].inv <= issued[n]
  BY DEF HeldInv, InviteUsesHold
<1> QED  BY <1>1, <1>3, <1>5, <1>6, <1>7

\* Daemons keep what they have when more is signed.
LEMMA RunGrows ==
    ASSUME HeldInv, signed \subseteq signed', NEW n \in Nodes, run'[n] = run[n]
    PROVE  RunOK(n, run'[n], signed')
BY DEF HeldInv, ShapeInv, RunOK

\* The entry of a row that is not blank.
LEMMA HasEntry ==
    ASSUME HeldInv, NEW n \in Nodes,
           \/ file[n].key \/ file[n].from # NoNode \/ file[n].cfg # NoConfig
    PROVE  file[n].entry
BY BlankShape, NodeShape DEF Holds

\* A step that leaves every file's config, uses and entry alone.
LEMMA QuietStep ==
    ASSUME HeldInv,
           \A n \in Nodes : /\ Holds(file'[n], issued[n]) /\ file'[n].inv = file[n].inv
                            /\ file'[n].cfg = file[n].cfg
                            /\ file[n].entry => file'[n].entry
                            /\ RunOK(n, run'[n], signed)
                            /\ run'[n].room # "down" => file'[n].entry
                            /\ Holds(cli'[n].copy, issued[n])
                            /\ cli'[n].on => cli'[n].copy.entry /\ file[n].entry,
           UNCHANGED <<signed, issued, admitted, lost>>,
           \A r \in replies' : r.to \in Nodes /\ link'[r.to] = r.from /\ file[r.to].entry
    PROVE  StepGood
<1>1. ShapeInv'
  BY DEF HeldInv, ShapeInv, EntriesStay
<1>2. InviteUsesHold'
  BY DEF HeldInv, InviteUsesHold
<1> QED  BY <1>1, <1>2 DEF StepGood, Forward

\* A step that rewrites one file.
LEMMA OneFile ==
    ASSUME HeldInv, NEW n \in Nodes, NEW f,
           f.inv \in Nat, Holds(f, issued'[n]), file[n].entry => f.entry,
           file' = [file EXCEPT ![n] = f],
           \/ cli' = cli /\ (f.cfg = file[n].cfg \/ f.cfg.ver > file[n].cfg.ver)
           \/ cli' = [cli EXCEPT ![n] = Idle] /\ cli[n].on,
           signed \subseteq signed',
           \A x \in Nodes : /\ RunOK(x, run'[x], signed')
                            /\ run'[x].room # "down" => file'[x].entry,
           issued' \in [Nodes -> Nat], admitted' \in [Nodes -> Nat],
           \A x \in Nodes \ {n} : issued'[x] = issued[x] /\ admitted'[x] = admitted[x],
           issued'[n] >= issued[n],
           lost => lost', ~lost' => admitted'[n] + f.inv <= issued'[n],
           \A r \in replies' : r.to \in Nodes /\ link'[r.to] = r.from /\ file'[r.to].entry
    PROVE  StepGood
<1>0. file \in [Nodes -> Row(signed)] /\ cli \in [Nodes -> CliRow(signed)]
  BY DEF HeldInv, LocalInv, StateOK
<1>1. \A x \in Nodes : /\ file'[x] = IF x = n THEN f ELSE file[x]
                       /\ cli'[x] = cli[x] \/ (x = n /\ cli'[x] = Idle)
  BY <1>0
<1>2. \A x \in Nodes : Holds(file'[x], issued'[x])
  BY <1>1 DEF HeldInv, ShapeInv
<1>3. ASSUME NEW x \in Nodes PROVE Holds(cli'[x].copy, issued'[x])
  <2>1. CASE cli'[x] = Idle
    BY <2>1, BlankShape
  <2>2. CASE cli'[x] = cli[x]
    <3>1. Holds(cli[x].copy, issued[x]) /\ issued[x] \in Nat /\ cli[x].copy.inv \in Nat
      BY NodeShape
    <3>2. issued'[x] >= issued[x] /\ issued'[x] \in Nat
      BY <3>1
    <3> QED  BY <2>2, <3>1, <3>2 DEF Holds
  <2> QED  BY <1>1, <2>1, <2>2
<1>4. EntriesStay'
  <2>1. \A x \in Nodes : file[x].entry => file'[x].entry
    BY <1>1
  <2>2. \A x \in Nodes : cli'[x].on => cli'[x].copy.entry /\ file'[x].entry
    BY <1>1, <2>1, BlankShape DEF HeldInv, ShapeInv, EntriesStay
  <2> QED  BY <2>2 DEF EntriesStay
<1>5. ShapeInv'
  BY <1>2, <1>3, <1>4 DEF ShapeInv
<1>6. InviteUsesHold'
  <2> SUFFICES ASSUME ~lost', NEW x \in Nodes
               PROVE  admitted'[x] + file'[x].inv <= issued'[x]
    BY DEF InviteUsesHold
  <2>1. CASE x = n
    BY <1>1, <2>1
  <2>2. CASE x # n
    BY <1>1, <2>2, NodeShape
  <2> QED  BY <2>1, <2>2
<1>7. \A x \in Nodes : Forward(x)
  <2> SUFFICES ASSUME NEW x \in Nodes PROVE Forward(x)
    OBVIOUS
  <2>1. CASE x # n
    BY <1>1, <2>1 DEF Forward
  <2>2. CASE x = n /\ cli' = cli /\ (f.cfg = file[n].cfg \/ f.cfg.ver > file[n].cfg.ver)
    BY <1>1, <2>2 DEF Forward
  <2>3. CASE x = n /\ cli' = [cli EXCEPT ![n] = Idle] /\ cli[n].on
    BY <1>0, <2>3, BlankShape DEF Forward
  <2> QED  BY <1>1, <2>1, <2>2, <2>3
<1> QED  BY <1>5, <1>6, <1>7 DEF StepGood

\* The same, where the daemons and what is known of replies stay.
LEMMA OneFileQuiet ==
    ASSUME HeldInv, NEW n \in Nodes, NEW f,
           f.inv \in Nat, Holds(f, issued'[n]), file[n].entry => f.entry,
           file' = [file EXCEPT ![n] = f],
           \/ cli' = cli /\ (f.cfg = file[n].cfg \/ f.cfg.ver > file[n].cfg.ver)
           \/ cli' = [cli EXCEPT ![n] = Idle] /\ cli[n].on,
           signed \subseteq signed', run' = run,
           issued' \in [Nodes -> Nat], admitted' \in [Nodes -> Nat],
           \A x \in Nodes \ {n} : issued'[x] = issued[x] /\ admitted'[x] = admitted[x],
           issued'[n] >= issued[n],
           lost => lost', ~lost' => admitted'[n] + f.inv <= issued'[n],
           \A r \in replies' : r.to \in Nodes /\ link'[r.to] = r.from /\ file[r.to].entry
    PROVE  StepGood
<1>0. file \in [Nodes -> Row(signed)]
  BY DEF HeldInv, LocalInv, StateOK
<1>1. \A x \in Nodes : file'[x] = IF x = n THEN f ELSE file[x]
  BY <1>0
<1>2. \A x \in Nodes : file[x].entry => file'[x].entry
  BY <1>1
<1>3. \A x \in Nodes : RunOK(x, run'[x], signed')
  BY RunGrows
<1>4. \A x \in Nodes : run'[x].room # "down" => file'[x].entry
  BY <1>2 DEF HeldInv, ShapeInv, EntriesStay
<1>5. \A r \in replies' : r.to \in Nodes /\ link'[r.to] = r.from /\ file'[r.to].entry
  BY <1>2
<1> QED  BY <1>3, <1>4, <1>5, OneFile

\* What is known of the replies under way.
LEMMA RepliesHeld ==
    ASSUME HeldInv
    PROVE  \A r \in replies : r.to \in Nodes /\ link[r.to] = r.from /\ file[r.to].entry
BY DEF HeldInv, LocalInv, StateOK, Replies, ShapeInv, EntriesStay

\* A join begins where there was no entry: no answer can be on its way.
LEMMA joinLocalGood ==
    ASSUME HeldInv, NEW m \in Nodes, NEW a \in Nodes, joinLocal(m, a)
    PROVE  StepGood
<1> DEFINE f == [NoRoom EXCEPT !.entry = TRUE, !.from = a]
<1>1. /\ file' = [file EXCEPT ![m] = f] /\ link' = [link EXCEPT ![m] = a] /\ ~file[m].entry
      /\ UNCHANGED <<run, cli, replies, signed, issued, admitted, lost>>
  BY DEF joinLocal, histVars
<1>2. f.inv = 0 /\ f.entry /\ f.ip = 0 /\ f.from = a /\ f.cfg = NoConfig
  BY DEF NoRoom
<1> HIDE DEF f
<1>3. file[m] = NoRoom
  BY <1>1, NodeShape DEF Holds
<1>4. \A r \in replies : r.to \in Nodes /\ link'[r.to] = r.from /\ file[r.to].entry
  <2>1. \A r \in replies : r.to # m
    BY <1>1, RepliesHeld
  <2>2. \A x : x # m => link'[x] = link[x]
    BY <1>1
  <2> QED  BY <2>1, <2>2, RepliesHeld
<1>5. issued[m] \in Nat /\ admitted[m] \in Nat /\ (~lost => admitted[m] <= issued[m])
  BY NodeShape, <1>3, BlankShape
<1>6. Holds(f, issued'[m]) /\ f.inv \in Nat /\ f.cfg = file[m].cfg
  BY <1>1, <1>2, <1>3, <1>5, BlankShape DEF Holds
<1>7. /\ issued' \in [Nodes -> Nat] /\ admitted' \in [Nodes -> Nat]
      /\ issued'[m] >= issued[m] /\ (~lost' => admitted'[m] + f.inv <= issued'[m])
  BY <1>1, <1>2, <1>5 DEF HeldInv, ShapeInv
<1> QED  BY <1>1, <1>2, <1>4, <1>6, <1>7, OneFileQuiet

\* A command saves a row made from its copy.
LEMMA SaveGood ==
    ASSUME HeldInv, NEW n \in Nodes, NEW f, save(n, f), f.entry = cli[n].copy.entry,
           f.ip = cli[n].copy.ip, f.from = cli[n].copy.from,
           \/ f.inv = cli[n].copy.inv /\ issued' = issued
           \/ f.inv = 1 /\ issued[n] = 0 /\ issued' = [issued EXCEPT ![n] = 1],
           signed \subseteq signed'
    PROVE  StepGood
<1>1. /\ cli[n].on /\ file' = [file EXCEPT ![n] = f]
      /\ lost' = (lost \/ file[n] # cli[n].copy)
      /\ cli' = [cli EXCEPT ![n] = Idle]
      /\ UNCHANGED <<run, link, replies, admitted>>
  BY DEF save, netVars
<1>2. f.entry /\ file[n].entry
  BY <1>1 DEF HeldInv, ShapeInv, EntriesStay
<1>3. issued \in [Nodes -> Nat] /\ admitted \in [Nodes -> Nat]
  BY DEF HeldInv, ShapeInv
<1>4. /\ issued' \in [Nodes -> Nat] /\ issued'[n] >= issued[n]
      /\ \A x \in Nodes \ {n} : issued'[x] = issued[x]
  BY <1>3
<1>5. f.inv \in Nat /\ f.inv <= issued'[n]
  BY <1>3, NodeShape
<1>6. Holds(f, issued'[n])
  BY <1>2, <1>5, NodeShape DEF Holds
<1>7. ~lost' => admitted'[n] + f.inv <= issued'[n]
  <2> SUFFICES ASSUME ~lost' PROVE admitted'[n] + f.inv <= issued'[n]
    OBVIOUS
  <2>1. ~lost /\ file[n] = cli[n].copy
    BY <1>1
  <2>2. /\ admitted[n] + file[n].inv <= issued[n] /\ admitted[n] \in Nat
        /\ file[n].inv \in Nat /\ admitted'[n] = admitted[n]
    BY <1>1, <2>1, NodeShape
  <2>3. CASE f.inv = cli[n].copy.inv /\ issued' = issued
    BY <2>1, <2>2, <2>3
  <2>4. CASE f.inv = 1 /\ issued[n] = 0 /\ issued' = [issued EXCEPT ![n] = 1]
    <3>1. issued'[n] = 1
      BY <1>3, <2>4
    <3> QED  BY <2>2, <2>4, <3>1
  <2> QED  BY <2>3, <2>4
<1>8. lost => lost'
  BY <1>1
<1> QED  BY <1>1, <1>2, <1>3, <1>4, <1>5, <1>6, <1>7, <1>8, RepliesHeld, OneFileQuiet

\* Every command.
LEMMA CommandsGood ==
    ASSUME HeldInv, NEW n \in Nodes,
           \/ cmdInvite(n) \/ cmdOther(n)
           \/ \E m \in Nodes : cmdAdmin(n, m) \/ cmdKick(n, m)
    PROVE  StepGood
<1> DEFINE f == cli[n].copy
<1>0. f \in Row(signed)
  BY NodeRow DEF HeldInv
<1>1. CASE cmdInvite(n)
  <2>1. /\ save(n, NewInvite(f)) /\ signed' = signed /\ issued[n] = 0
        /\ issued' = [issued EXCEPT ![n] = 1]
    BY <1>1 DEF cmdInvite
  <2> HIDE DEF f
  <2>2. /\ NewInvite(f).entry = f.entry /\ NewInvite(f).ip = f.ip
        /\ NewInvite(f).from = f.from /\ NewInvite(f).inv = 1
    BY <1>0 DEF NewInvite, Row
  <2> QED  BY <2>1, <2>2, SaveGood DEF f
<1>2. CASE cmdOther(n)
  <2>1. save(n, f) /\ signed' = signed /\ issued' = issued
    BY <1>2 DEF cmdOther
  <2> QED  BY <2>1, SaveGood
<1>3. ASSUME NEW m \in Nodes, cmdAdmin(n, m) PROVE StepGood
  <2> DEFINE next == Update(f.cfg, n, f.cfg.ip, f.cfg.adm \cup ({n, m} \cap Members(f.cfg)))
             g == [f EXCEPT !.cfg = next]
  <2>1. save(n, g) /\ signed \subseteq signed' /\ issued' = issued
    BY <1>3 DEF cmdAdmin
  <2> HIDE DEF f, next
  <2>2. g.entry = f.entry /\ g.ip = f.ip /\ g.from = f.from /\ g.inv = f.inv
    BY <1>0 DEF Row
  <2> HIDE DEF g
  <2> QED  BY <2>1, <2>2, SaveGood DEF f
<1>4. ASSUME NEW m \in Nodes, cmdKick(n, m) PROVE StepGood
  <2> DEFINE next == Update(f.cfg, n, [f.cfg.ip EXCEPT ![m] = 0], f.cfg.adm \ {m})
             g == [f EXCEPT !.cfg = next, !.peers = @ \ {m}]
  <2>1. save(n, g) /\ signed \subseteq signed' /\ issued' = issued
    BY <1>4 DEF cmdKick
  <2> HIDE DEF f, next
  <2>2. g.entry = f.entry /\ g.ip = f.ip /\ g.from = f.from /\ g.inv = f.inv
    BY <1>0 DEF Row
  <2> HIDE DEF g
  <2> QED  BY <2>1, <2>2, SaveGood DEF f
<1> QED  BY <1>1, <1>2, <1>3, <1>4

\* An answer goes to a node that waits for it, which has an entry.
LEMMA AnswerHeld ==
    ASSUME HeldInv, NEW m \in Nodes, NEW a \in Nodes, NEW ip, Answer(m, a, ip), link[m] = a,
           link' = link
    PROVE  \A r \in replies' : r.to \in Nodes /\ link'[r.to] = r.from /\ file[r.to].entry
<1> DEFINE q == [to |-> m, from |-> a, ip |-> ip]
<1>1. q.to = m /\ q.from = a
  OBVIOUS
<1>2. replies' = replies \/ (replies' = replies \cup {q} /\ file[m].from = a)
  BY DEF Answer
<1> HIDE DEF q
<1>3. file[m].from = a => file[m].entry
  BY HasEntry, LocalAssumption
<1> QED  BY <1>1, <1>2, <1>3, RepliesHeld

\* A request at an admin.
LEMMA handleJoinGood ==
    ASSUME HeldInv, NEW m \in Nodes, NEW a \in Nodes, handleJoin(m, a)
    PROVE  StepGood
<1>1. /\ file[a].key /\ link[m] = a
      /\ UNCHANGED <<run, cli, link, issued, lost>>
  BY DEF handleJoin, sendJoin
<1>2. file[a].entry /\ file[a] \in Row(signed)
  BY <1>1, HasEntry, NodeRow DEF HeldInv
<1>3. /\ issued \in [Nodes -> Nat] /\ admitted \in [Nodes -> Nat]
      /\ file \in [Nodes -> Row(signed)]
  BY DEF HeldInv, ShapeInv, LocalInv, StateOK
<1>4. CASE AnswerAgain(m, a)
  <2>1. /\ UNCHANGED <<file, signed, admitted>>
        /\ \A r \in replies' : r.to \in Nodes /\ link'[r.to] = r.from /\ file[r.to].entry
    BY <1>1, <1>4, AnswerHeld DEF AnswerAgain
  <2>2. \A n \in Nodes : cli[n].on => cli[n].copy.entry /\ file[n].entry
    BY DEF HeldInv, ShapeInv, EntriesStay
  <2>3. \A n \in Nodes : run[n].room # "down" => file[n].entry
    BY DEF HeldInv, ShapeInv, EntriesStay
  <2> QED  BY <1>1, <2>1, <2>2, <2>3, NodeShape, QuietStep
<1>5. CASE Accept(m, a)
  <2>1. PICK ip, next :
          /\ next.ver = file[a].cfg.ver + 1
          /\ file' = [file EXCEPT ![a] =
                [TakeUse(file[a]) EXCEPT !.cfg = next, !.peers = file[a].peers \cup {m}]]
          /\ signed' = signed \cup {next}
          /\ Answer(m, a, ip)
    <3>1. PICK ip \in FreeAddresses(file[a].cfg) :
            LET c == file[a].cfg
                next == Update(c, a, [c.ip EXCEPT ![m] = ip], c.adm)
            IN  /\ file' = [file EXCEPT ![a] =
                      [TakeUse(file[a]) EXCEPT !.cfg = next, !.peers = file[a].peers \cup {m}]]
                /\ signed' = signed \cup {next}
                /\ Answer(m, a, ip)
      BY <1>5 DEF Accept
    <3> DEFINE next == Update(file[a].cfg, a, [file[a].cfg.ip EXCEPT ![m] = ip], file[a].cfg.adm)
    <3>2. next.ver = file[a].cfg.ver + 1
      BY DEF Update
    <3>3. /\ file' = [file EXCEPT ![a] =
                  [TakeUse(file[a]) EXCEPT !.cfg = next, !.peers = file[a].peers \cup {m}]]
          /\ signed' = signed \cup {next}
      BY <3>1
    <3> HIDE DEF next
    <3> QED  BY <3>1, <3>2, <3>3
  <2> DEFINE g == [TakeUse(file[a]) EXCEPT !.cfg = next, !.peers = file[a].peers \cup {m}]
  <2>2. admitted' = [admitted EXCEPT ![a] = @ + 1] /\ file[a].inv > 0
    BY <1>5 DEF Accept, Usable
  <2>3. /\ g.inv = file[a].inv - 1 /\ g.entry = file[a].entry /\ g.ip = file[a].ip
        /\ g.from = file[a].from /\ g.cfg = next
    BY <1>2 DEF TakeUse, Row
  <2>4. file' = [file EXCEPT ![a] = g]
    BY <2>1
  <2> HIDE DEF g
  <2>5. /\ g.inv \in Nat /\ Holds(g, issued'[a]) /\ g.cfg.ver > file[a].cfg.ver
        /\ ~lost' => admitted'[a] + g.inv <= issued'[a]
    BY <1>1, <1>2, <1>3, <2>1, <2>2, <2>3, NodeShape DEF Holds
  <2>6. /\ admitted' \in [Nodes -> Nat] /\ issued' \in [Nodes -> Nat]
        /\ \A x \in Nodes \ {a} : issued'[x] = issued[x] /\ admitted'[x] = admitted[x]
        /\ issued'[a] >= issued[a]
    BY <1>1, <1>3, <2>2
  <2>7. \A r \in replies' : r.to \in Nodes /\ link'[r.to] = r.from /\ file[r.to].entry
    BY <1>1, <2>1, AnswerHeld
  <2>8. g.entry /\ signed \subseteq signed'
    BY <1>2, <2>1, <2>3
  <2> QED  BY <1>1, <2>4, <2>5, <2>6, <2>7, <2>8, OneFileQuiet
<1>6. CASE Refuse(m, a)
  <2> DEFINE g == IF Usable(a) THEN TakeUse(file[a]) ELSE file[a]
  <2>1. /\ file' = [file EXCEPT ![a] = g] /\ UNCHANGED <<signed, admitted>>
        /\ Answer(m, a, 0)
    BY <1>6 DEF Refuse
  <2>2. /\ g.inv = file[a].inv \/ (file[a].inv > 0 /\ g.inv = file[a].inv - 1)
        /\ g.entry = file[a].entry /\ g.ip = file[a].ip
        /\ g.from = file[a].from /\ g.cfg = file[a].cfg
    BY <1>2 DEF TakeUse, Row, Usable
  <2> HIDE DEF g
  <2>3. /\ g.inv \in Nat /\ Holds(g, issued'[a]) /\ g.entry
        /\ ~lost' => admitted'[a] + g.inv <= issued'[a]
    BY <1>1, <1>2, <2>1, <2>2, NodeShape DEF Holds
  <2>4. \A r \in replies' : r.to \in Nodes /\ link'[r.to] = r.from /\ file[r.to].entry
    BY <1>1, <2>1, AnswerHeld
  <2>5. issued'[a] >= issued[a] /\ issued' \in [Nodes -> Nat] /\ admitted' \in [Nodes -> Nat]
    BY <1>1, <1>3, <2>1
  <2> QED  BY <1>1, <2>1, <2>2, <2>3, <2>4, <2>5, OneFileQuiet
<1> QED  BY <1>4, <1>5, <1>6 DEF handleJoin

\* An answer that its node waited for.
LEMMA handleJoinReplyGood ==
    ASSUME HeldInv, NEW r \in replies, handleJoinReply(r)
    PROVE  StepGood
<1> DEFINE n == r.to
           f == file[n]
           g == IF r.ip = 0 THEN [f EXCEPT !.from = NoNode] ELSE [f EXCEPT !.ip = r.ip]
<1>1. n \in Nodes /\ r.from \in Nodes /\ f \in Row(signed) /\ f.entry
  BY RepliesHeld, NodeRow DEF HeldInv, LocalInv, StateOK, Replies
<1>2. /\ file' = [file EXCEPT ![n] = g] /\ f.from = r.from /\ f.ip = 0
      /\ replies' \subseteq replies
      /\ UNCHANGED <<run, cli, link, signed, issued, admitted, lost>>
  BY DEF handleJoinReply, histVars
<1>3. issued[n] \in Nat /\ admitted[n] \in Nat /\ f.inv \in Nat /\ f.inv <= issued[n]
      /\ (~lost => admitted[n] + f.inv <= issued[n])
  BY <1>1, NodeShape
<1> HIDE DEF n, f
<1>4. /\ g.inv = f.inv /\ g.entry = f.entry /\ g.cfg = f.cfg
      /\ g.ip = 0 \/ g.from = f.from
  BY <1>1, <1>2 DEF Row
<1> HIDE DEF g
<1>5. Holds(g, issued'[n]) /\ g.entry /\ g.inv \in Nat
  BY <1>1, <1>2, <1>3, <1>4, LocalAssumption DEF Holds
<1>6. \A q \in replies' : q.to \in Nodes /\ link'[q.to] = q.from /\ file[q.to].entry
  BY <1>2, RepliesHeld
<1>7. issued' \in [Nodes -> Nat] /\ admitted' \in [Nodes -> Nat] /\ issued'[n] >= issued[n]
      /\ (~lost' => admitted'[n] + g.inv <= issued'[n])
  BY <1>2, <1>3, <1>4 DEF HeldInv, ShapeInv
<1> QED  BY <1>1, <1>2, <1>4, <1>5, <1>6, <1>7, OneFileQuiet DEF f

\* A daemon that accepts a config, signed and with a version, goes on serving
\* one of that version.
LEMMA AcceptedGood ==
    ASSUME HeldInv, NEW n \in Nodes, NEW c \in signed, c.ver > 0
    PROVE  /\ RunOK(n, Accepted(n, c), signed)
           /\ Accepted(n, c).room = "down" \/ Accepted(n, c).room = run[n].room
              \/ Accepted(n, c).room = "up"
<1>1. run[n] \in RunRow(signed) /\ RunOK(n, run[n], signed)
  BY NodeRow, NodeShape DEF HeldInv
<1>2. c.ver \in Nat /\ run[n].cfg.ver \in Nat /\ run[n].signed.ver \in Nat
  <2>1. c \in Configs /\ run[n].cfg \in Configs /\ run[n].signed \in Configs
    <3>1. run[n].cfg \in signed \cup {NoConfig} /\ run[n].signed \in signed \cup {NoConfig}
      BY <1>1 DEF RunRow
    <3>2. ConfigsOK
      BY DEF HeldInv, LocalInv
    <3> QED  BY <3>1, <3>2, HeldConfigs
  <2> QED  BY <2>1 DEF Configs
<1>3. CASE c.ver < run[n].cfg.ver
  BY <1>1, <1>3 DEF Accepted
<1>4. CASE ~(c.ver < run[n].cfg.ver)
  <2> DEFINE w == Accepted(n, c)
  <2>1. /\ w.cfg = c /\ w.cards = run[n].cards
        /\ w.signed = IF c.ver > run[n].cfg.ver \/ run[n].signed.ver = 0 THEN c ELSE run[n].signed
        /\ w.room = IF c.ip[n] # 0 THEN "up" ELSE "down"
    BY <1>1, <1>4 DEF Accepted, RunRow
  <2> HIDE DEF w
  <2>2. w.signed.ver = c.ver
    BY <1>1, <1>2, <1>4, <2>1 DEF RunOK
  <2>3. w.signed \in signed
    <3>1. run[n].signed \in signed \cup {NoConfig} /\ NoConfig.ver = 0
      BY <1>1, BlankShape DEF RunRow
    <3> QED  BY <1>2, <2>1, <2>2, <3>1
  <2>4. RunOK(n, w, signed)
    BY <1>1, <2>1, <2>2, <2>3 DEF RunOK
  <2> QED  BY <2>1, <2>4 DEF w
<1> QED  BY <1>3, <1>4

\* The daemon reads its file.
LEMMA syncLocalGood ==
    ASSUME HeldInv, NEW n \in Nodes, syncLocal(n)
    PROVE  StepGood
<1>1. UNCHANGED <<file, cli, link, replies, signed, issued, admitted, lost>>
  BY DEF syncLocal, netVars, histVars
<1>2. run \in [Nodes -> RunRow(signed)] /\ file[n] \in Row(signed) /\ run[n] \in RunRow(signed)
  BY NodeRow DEF HeldInv, LocalInv, StateOK
<1>3. PICK w : run' = [run EXCEPT ![n] = w] /\ RunOK(n, w, signed) /\ file[n].entry
  <2>1. CASE file[n].cfg.ver > 0 /\ run' = [run EXCEPT ![n] = Accepted(n, file[n].cfg)]
    <3>1. file[n].cfg # NoConfig /\ file[n].cfg \in signed
      BY <1>2, <2>1, BlankShape DEF Row
    <3>2. file[n].entry
      BY <3>1, HasEntry
    <3> QED  BY <2>1, <3>1, <3>2, AcceptedGood
  <2>2. CASE file[n].from # NoNode /\ run' = [run EXCEPT ![n].room = "prov"]
    <3> DEFINE w == [run[n] EXCEPT !.room = "prov"]
    <3>1. /\ w.cfg = run[n].cfg /\ w.signed = run[n].signed /\ w.cards = run[n].cards
          /\ w.room = "prov"
      BY <1>2 DEF RunRow
    <3>2. run' = [run EXCEPT ![n] = w]
      BY <2>2
    <3> HIDE DEF w
    <3>3. RunOK(n, w, signed)
      BY <3>1, NodeShape DEF RunOK
    <3>4. file[n].entry
      BY <2>2, HasEntry
    <3> QED  BY <3>2, <3>3, <3>4
  <2> QED  BY <2>1, <2>2 DEF syncLocal
<1>4. \A x \in Nodes : /\ RunOK(x, run'[x], signed)
                       /\ run'[x].room # "down" => file[x].entry
  BY <1>2, <1>3 DEF HeldInv, ShapeInv, EntriesStay
<1>5. \A x \in Nodes : cli[x].on => cli[x].copy.entry /\ file[x].entry
  BY DEF HeldInv, ShapeInv, EntriesStay
<1> QED  BY <1>1, <1>4, <1>5, NodeShape, RepliesHeld, QuietStep

\* Two nodes that have a session both run the room.
LEMMA ConnectedUp ==
    ASSUME NEW x \in Nodes, NEW y \in Nodes, Connected(x, y)
    PROVE  run[x].room # "down" /\ run[y].room # "down"
<1>1. \A u, v \in Nodes : run[u].room = "down" => AddressOf(u, v) = 0
  BY DEF AddressOf
<1> QED  BY <1>1 DEF Connected

\* A newer config from a peer.
LEMMA gossipFetchGood ==
    ASSUME HeldInv, NEW n \in Nodes, NEW p \in Nodes, gossipFetch(n, p)
    PROVE  StepGood
<1> DEFINE f == file[n]
           c == run[p].signed
           g == persistLocal(f, c)
<1>1. /\ file' = [file EXCEPT ![n] = g] /\ run' = [run EXCEPT ![n] = Accepted(n, c)]
      /\ UNCHANGED <<cli, link, replies, signed, issued, admitted, lost>>
      /\ Connected(n, p) /\ c.ver > run[n].cfg.ver
  BY DEF gossipFetch, netVars, histVars, Announced
<1>2. f.entry
  BY <1>1, ConnectedUp DEF HeldInv, ShapeInv, EntriesStay
<1>3. /\ c \in signed \cup {NoConfig} /\ f \in Row(signed) /\ ConfigsOK
      /\ run[n].cfg \in signed \cup {NoConfig} /\ run \in [Nodes -> RunRow(signed)]
      /\ file \in [Nodes -> Row(signed)]
  BY NodeRow DEF HeldInv, LocalInv, StateOK, RunRow
<1>4. f.inv \in Nat /\ Holds(f, issued[n]) /\ issued[n] \in Nat /\ f.cfg.ver \in Nat
      /\ (~lost => admitted[n] + f.inv <= issued[n])
  BY NodeShape
<1>5. c.ver \in Nat /\ run[n].cfg.ver \in Nat
  BY <1>3, HeldConfigs DEF Configs
<1> HIDE DEF f, c
<1>6. c \in signed /\ c.ver > 0
  BY <1>1, <1>3, <1>5, BlankShape
<1>7. /\ g.inv = f.inv /\ g.entry = f.entry
      /\ g.cfg = f.cfg \/ g.cfg.ver > f.cfg.ver
      /\ g.ip = 0 \/ (g.ip = f.ip /\ g.from = f.from)
  <2>1. CASE f.cfg.ver >= c.ver
    BY <2>1 DEF persistLocal
  <2>2. CASE ~(f.cfg.ver >= c.ver)
    <3>1. /\ g.inv = f.inv /\ g.entry = f.entry /\ g.cfg = c /\ g.ip = 0
      BY <1>3, <2>2 DEF persistLocal, Row
    <3> QED  BY <1>4, <1>5, <2>2, <3>1
  <2> QED  BY <2>1, <2>2
<1> HIDE DEF g
<1>8. g.inv \in Nat /\ Holds(g, issued[n]) /\ g.entry
  BY <1>2, <1>4, <1>7 DEF Holds
<1>9. \A x \in Nodes : file'[x].entry <=> file[x].entry
  BY <1>1, <1>2, <1>3, <1>8 DEF f
<1>10. ASSUME NEW x \in Nodes
       PROVE  RunOK(x, run'[x], signed') /\ (run'[x].room # "down" => file'[x].entry)
  <2>1. CASE x = n
    <3>1. run'[n] = Accepted(n, c) /\ RunOK(n, Accepted(n, c), signed)
      BY <1>1, <1>3, <1>6, AcceptedGood
    <3> QED  BY <1>1, <1>2, <1>9, <2>1, <3>1 DEF f
  <2>2. CASE x # n
    BY <1>1, <1>9, <2>2 DEF HeldInv, ShapeInv, EntriesStay
  <2> QED  BY <2>1, <2>2
<1>11. \A r \in replies' : r.to \in Nodes /\ link'[r.to] = r.from /\ file'[r.to].entry
  BY <1>1, <1>9, RepliesHeld
<1>12. /\ issued' \in [Nodes -> Nat] /\ admitted' \in [Nodes -> Nat] /\ issued'[n] >= issued[n]
       /\ (~lost' => admitted'[n] + g.inv <= issued'[n]) /\ Holds(g, issued'[n])
  BY <1>1, <1>4, <1>7, <1>8 DEF HeldInv, ShapeInv
<1> QED  BY <1>1, <1>7, <1>8, <1>10, <1>11, <1>12, OneFile DEF f

\* The key comes to a node that is in the room.
LEMMA fetchSignKeyGood ==
    ASSUME HeldInv, NEW n \in Nodes, NEW a \in Nodes, fetchSignKey(n, a)
    PROVE  StepGood
<1> DEFINE f == file[n]
           g == [f EXCEPT !.key = TRUE]
<1>1. /\ file' = [file EXCEPT ![n] = g] /\ f.cfg.ip[n] # 0
      /\ UNCHANGED <<run, cli, link, replies, signed, issued, admitted, lost>>
  BY DEF fetchSignKey, netVars, histVars
<1>2. f \in Row(signed) /\ f.entry
  BY <1>1, NodeRow, HasEntry, BlankShape DEF HeldInv
<1>3. f.inv \in Nat /\ Holds(f, issued[n]) /\ issued[n] \in Nat
      /\ (~lost => admitted[n] + f.inv <= issued[n])
  BY NodeShape
<1> HIDE DEF f
<1>4. g.inv = f.inv /\ g.entry = f.entry /\ g.cfg = f.cfg /\ g.ip = f.ip /\ g.from = f.from
  BY <1>2 DEF Row
<1> HIDE DEF g
<1>5. g.inv \in Nat /\ Holds(g, issued'[n]) /\ g.entry
  BY <1>1, <1>2, <1>3, <1>4 DEF Holds
<1>6. /\ issued' \in [Nodes -> Nat] /\ admitted' \in [Nodes -> Nat] /\ issued'[n] >= issued[n]
      /\ (~lost' => admitted'[n] + g.inv <= issued'[n])
  BY <1>1, <1>3, <1>4 DEF HeldInv, ShapeInv
<1> QED  BY <1>1, <1>4, <1>5, <1>6, RepliesHeld, OneFileQuiet DEF f

\* Cards of others, between two nodes that run the room.
LEMMA swapCardsGood ==
    ASSUME HeldInv, NEW n \in Nodes, NEW p \in Nodes, NEW answered, swapCards(n, p, answered)
    PROVE  StepGood
<1> DEFINE got == [x \in {n, p} |-> IF x = p THEN Merged(p, cardsFor(n))
                                 ELSE IF answered THEN Merged(n, cardsFor(p)) ELSE {}]
<1>1. /\ run' = [x \in Nodes |-> IF x \in {n, p}
                     THEN [run[x] EXCEPT !.cards = @ \cup got[x]] ELSE run[x]]
      /\ file' = [x \in Nodes |-> IF x \in {n, p}
                     THEN [file[x] EXCEPT !.peers = @ \cup got[x]] ELSE file[x]]
      /\ UNCHANGED <<cli, link, replies, signed, issued, admitted, lost>>
      /\ Connected(n, p)
  BY DEF swapCards, netVars, histVars
<1>2. \A x \in {n, p} : x \notin got[x]
  BY DEF Merged
<1> HIDE DEF got
<1>3. \A x \in {n, p} : file[x].entry
  BY <1>1, ConnectedUp DEF HeldInv, ShapeInv, EntriesStay
<1>4. \A x \in Nodes : run[x] \in RunRow(signed) /\ file[x] \in Row(signed)
  BY NodeRow DEF HeldInv
<1>5. \A x \in Nodes : /\ run'[x].cfg = run[x].cfg /\ run'[x].signed = run[x].signed
                       /\ run'[x].room = run[x].room
                       /\ x \in run'[x].cards => x \in run[x].cards
  BY <1>1, <1>2, <1>4 DEF RunRow
<1>6. \A x \in Nodes : /\ file'[x].inv = file[x].inv /\ file'[x].entry = file[x].entry
                       /\ file'[x].cfg = file[x].cfg /\ file'[x].ip = file[x].ip
                       /\ file'[x].from = file[x].from
                       /\ file'[x] = file[x] \/ file[x].entry
  BY <1>1, <1>3, <1>4 DEF Row
<1>7. \A x \in Nodes : RunOK(x, run'[x], signed)
  BY <1>5, NodeShape DEF RunOK
<1>8. \A x \in Nodes : Holds(file'[x], issued[x])
  BY <1>6, NodeShape DEF Holds
<1>9. \A x \in Nodes : run'[x].room # "down" => file'[x].entry
  BY <1>5, <1>6 DEF HeldInv, ShapeInv, EntriesStay
<1>10. \A x \in Nodes : cli[x].on => cli[x].copy.entry /\ file[x].entry
  BY DEF HeldInv, ShapeInv, EntriesStay
<1> QED  BY <1>1, <1>6, <1>7, <1>8, <1>9, <1>10, NodeShape, RepliesHeld, QuietStep

\* Commands begin, invites expire, daemons stop.
LEMMA RestGood ==
    ASSUME HeldInv,
           \/ \E n \in Nodes : openLocal(n) \/ Restart(n) \/ Expire(n)
           \/ UNCHANGED vars
    PROVE  StepGood
<1>0. /\ cli \in [Nodes -> CliRow(signed)] /\ run \in [Nodes -> RunRow(signed)]
      /\ \A x \in Nodes : /\ cli[x].on => cli[x].copy.entry /\ file[x].entry
                          /\ run[x].room # "down" => file[x].entry
  BY DEF HeldInv, LocalInv, StateOK, ShapeInv, EntriesStay
<1>1. ASSUME NEW n \in Nodes, openLocal(n) PROVE StepGood
  <2> DEFINE k == [on |-> TRUE, copy |-> file[n]]
  <2>1. /\ cli' = [cli EXCEPT ![n] = k] /\ file[n].entry
        /\ UNCHANGED <<file, run, link, replies, signed, issued, admitted, lost>>
    BY <1>1 DEF openLocal, netVars, histVars
  <2>2. k.copy = file[n]
    OBVIOUS
  <2> HIDE DEF k
  <2>3. \A x \in Nodes : cli'[x] = IF x = n THEN k ELSE cli[x]
    BY <1>0, <2>1
  <2>4. \A x \in Nodes : /\ Holds(cli'[x].copy, issued[x])
                         /\ cli'[x].on => cli'[x].copy.entry /\ file[x].entry
    BY <1>0, <2>1, <2>2, <2>3, NodeShape
  <2> QED  BY <1>0, <2>1, <2>4, NodeShape, RepliesHeld, QuietStep
<1>2. ASSUME NEW n \in Nodes, Restart(n) PROVE StepGood
  <2>1. /\ run' = [run EXCEPT ![n] = Stopped]
        /\ UNCHANGED <<file, cli, link, replies, signed, issued, admitted, lost>>
    BY <1>2 DEF Restart, netVars, histVars
  <2>2. \A x \in Nodes : RunOK(x, run'[x], signed) /\ (run'[x].room # "down" => file[x].entry)
    BY <1>0, <2>1, NodeShape, BlankShape
  <2> QED  BY <1>0, <2>1, <2>2, NodeShape, RepliesHeld, QuietStep
<1>3. CASE (\E n \in Nodes : Expire(n)) \/ UNCHANGED vars
  <2>1. UNCHANGED <<file, run, cli, link, replies, signed, issued, admitted, lost>>
    BY <1>3 DEF Expire, vars, netVars, histVars
  <2> QED  BY <1>0, <2>1, NodeShape, RepliesHeld, QuietStep
<1> QED  BY <1>1, <1>2, <1>3

\* At the start the owner has an entry and the uses it gave out.
LEMMA ShapeInit == Init => ShapeInv /\ InviteUsesHold
<1> SUFFICES ASSUME Init PROVE ShapeInv /\ InviteUsesHold
  OBVIOUS
<1>1. PICK uses \in 1 .. MaxUses :
        /\ file = [n \in Nodes |-> IF n = Owner
                      THEN [NoRoom EXCEPT !.entry = TRUE, !.key = TRUE,
                                          !.cfg = CreateLocalRoom, !.inv = uses]
                      ELSE NoRoom]
        /\ issued = [n \in Nodes |-> IF n = Owner THEN uses ELSE 0]
  BY DEF Init
<1> DEFINE own == [NoRoom EXCEPT !.entry = TRUE, !.key = TRUE, !.cfg = CreateLocalRoom, !.inv = uses]
<1>2. own.entry /\ own.inv = uses /\ own.ip = 0 /\ uses \in Nat
  BY LocalAssumption DEF NoRoom
<1>3. \A n \in Nodes : /\ file[n] = IF n = Owner THEN own ELSE NoRoom
                       /\ issued[n] = IF n = Owner THEN uses ELSE 0
  BY <1>1
<1> HIDE DEF own
<1>4. /\ issued \in [Nodes -> Nat] /\ admitted \in [Nodes -> Nat]
      /\ replies = {} /\ \A n \in Nodes : run[n] = Stopped /\ cli[n] = Idle /\ admitted[n] = 0
  BY <1>1, <1>2 DEF Init
<1>5. Holds(own, uses)
  BY <1>2 DEF Holds
<1>6. \A n \in Nodes : Holds(file[n], issued[n]) /\ Holds(cli[n].copy, issued[n])
  BY <1>3, <1>4, <1>5, BlankShape
<1>7. EntriesStay
  BY <1>4, BlankShape DEF EntriesStay
<1>8. ShapeInv
  BY <1>4, <1>6, <1>7, BlankShape DEF ShapeInv
<1>9. InviteUsesHold
  BY <1>2, <1>3, <1>4, BlankShape DEF InviteUsesHold
<1> QED  BY <1>8, <1>9

\* Every step keeps the shape and the uses, and moves files forward.
LEMMA HeldStep == HeldInv /\ [Next]_vars => StepGood
<1> SUFFICES ASSUME HeldInv, [Next]_vars PROVE StepGood
  OBVIOUS
<1>1. CASE \E m, a \in Nodes : joinLocal(m, a) \/ handleJoin(m, a)
  BY <1>1, joinLocalGood, handleJoinGood
<1>2. CASE \E n \in Nodes : cmdInvite(n) \/ cmdOther(n) \/ \E m \in Nodes : cmdAdmin(n, m) \/ cmdKick(n, m)
  BY <1>2, CommandsGood
<1>3. CASE \E n \in Nodes : syncLocal(n)
  BY <1>3, syncLocalGood
<1>4. CASE \E r \in replies : handleJoinReply(r)
  BY <1>4, handleJoinReplyGood
<1>5. CASE \E n, p \in Nodes : gossipFetch(n, p) \/ fetchSignKey(n, p)
  BY <1>5, gossipFetchGood, fetchSignKeyGood
<1>6. CASE \E n, p \in Nodes, answered \in BOOLEAN : swapCards(n, p, answered)
  BY <1>6, swapCardsGood
<1>7. CASE (\E n \in Nodes : openLocal(n) \/ Restart(n) \/ Expire(n)) \/ UNCHANGED vars
  BY <1>7, RestGood
<1> QED  BY <1>1, <1>2, <1>3, <1>4, <1>5, <1>6, <1>7 DEF Next

------------------------------------------------------------------------------
(* The theorems. *)

\* Configs, files, copies and daemons are as LocalInv says in every state.
LEMMA LocalInvariant == Spec => []LocalInv
  BY LocalInvInit, LocalInvNext, PTL DEF Spec

\* Every config that was ever signed gives each member an address of its own,
\* for any subnet and any number of nodes: addMember's lowest free address is
\* free in the config that is signed over, however old a copy that is.
THEOREM MembersApart == Spec => []AddressesApart
<1>1. LocalInv => AddressesApart
  BY DEF LocalInv, ConfigsOK, AddressesApart, Apart
<1> QED  BY LocalInvariant, <1>1, PTL

\* Whoever signed a config was made an admin by an older one: serveSignKey
\* and persistLocal let the key travel along the signed configs only.
THEOREM KeyFollowsConfigs == Spec => []SignersAreAdmins
<1>1. LocalInv => SignersAreAdmins
  BY DEF LocalInv
<1> QED  BY LocalInvariant, <1>1, PTL

\* All three together, in every state.
LEMMA HeldInvariant == Spec => []HeldInv
<1>1. Init => HeldInv
  BY LocalInvInit, ShapeInit DEF HeldInv
<1>2. HeldInv /\ [Next]_vars => HeldInv'
  BY LocalInvNext, HeldStep DEF HeldInv, StepGood
<1> QED  BY <1>1, <1>2, PTL DEF Spec

\* What files, daemons and commands hold are configs that were signed; a
\* daemon serves a config of the version it runs, a room runs only on a node
\* that has an address in it, and an answer only goes to a node that asked.
THEOREM LocalRoomsTyped == Spec => []LocalTypeOK
<1>1. HeldInv => LocalTypeOK
  <2> SUFFICES ASSUME HeldInv PROVE LocalTypeOK
    OBVIOUS
  <2>1. ASSUME NEW n \in Nodes, NEW f \in {file[n], cli[n].copy}
        PROVE  /\ f.cfg = NoConfig \/ f.cfg \in signed
               /\ f.ip \in Addresses /\ f.inv \in 0 .. issued[n]
               /\ f.entry \/ f = NoRoom
               /\ f.ip # 0 => f.from # NoNode
    <3>1. f \in Row(signed) /\ Holds(f, issued[n]) /\ issued[n] \in Nat
      BY NodeRow, NodeShape DEF HeldInv
    <3> QED  BY <3>1 DEF Row, Holds
  <2>2. ASSUME NEW n \in Nodes
        PROVE  /\ run[n].cfg = NoConfig \/ {run[n].cfg, run[n].signed} \subseteq signed
               /\ run[n].signed.ver = run[n].cfg.ver
               /\ run[n].cards \subseteq Nodes \ {n}
               /\ run[n].room = "up" => run[n].cfg.ip[n] # 0
    <3>1. run[n] \in RunRow(signed) /\ RunOK(n, run[n], signed)
      BY NodeRow, NodeShape DEF HeldInv
    <3> QED  BY <3>1 DEF RunRow, RunOK
  <2>3. \A r \in replies : link[r.to] = r.from /\ r.ip \in Addresses
    BY RepliesHeld DEF HeldInv, LocalInv, StateOK, Replies
  <2> QED  BY <2>1, <2>2, <2>3 DEF LocalTypeOK
<1> QED  BY HeldInvariant, <1>1, PTL

\* useInvite and addMember under the file's lock: an invite lets in no more
\* members than its uses, for any number of nodes that ask, ask again and come
\* late, unless a command saved over what it had not seen.
THEOREM UsesAreBounded == Spec => []InviteUsesHold
<1>1. HeldInv => InviteUsesHold
  BY DEF HeldInv
<1> QED  BY HeldInvariant, <1>1, PTL

\* The daemon never puts an older config into its file (persistLocal and
\* handleJoin): only a command that saves an older copy takes the room back.
THEOREM FilesMoveForward == Spec => FileMovesForward
<1>1. HeldInv /\ [Next]_vars =>
        [\A n \in Nodes :
            \/ file'[n].cfg = file[n].cfg
            \/ file'[n].cfg.ver > file[n].cfg.ver
            \/ cli[n].on /\ ~cli'[n].on]_vars
  BY HeldStep DEF StepGood, Forward
<1> QED  BY HeldInvariant, <1>1, PTL DEF Spec, FileMovesForward

=============================================================================
