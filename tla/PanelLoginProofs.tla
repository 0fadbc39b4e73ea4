-------------------------- MODULE PanelLoginProofs --------------------------
(***************************************************************************)
(* Proofs about PanelLogin.                                                *)
(***************************************************************************)
EXTENDS PanelLogin, FiniteSetTheorems, TLAPS

Steps == {"idle", "login", "code", "open", "exchange", "email", "failed", "op"}

\* Only request r's job changes.
OnlyJob(r) == /\ jobs' \in [Requests -> Job]
              /\ \A q \in Requests : q # r => jobs'[q] = jobs[q]

------------------------------------------------------------------------------
(* How a request's job changes. *)

\* Job r is now j.
LEMMA JobIs ==
    ASSUME jobs \in [Requests -> Job], NEW r \in Requests, NEW j \in Job,
           jobs' = [jobs EXCEPT ![r] = j]
    PROVE  OnlyJob(r) /\ jobs'[r] = j
BY DEF OnlyJob

\* Goes moves a job and keeps what it has read.
LEMMA GoesJob ==
    ASSUME jobs \in [Requests -> Job], NEW r \in Requests, NEW step \in Steps, Goes(r, step)
    PROVE  /\ OnlyJob(r)
           /\ jobs'[r].at = step /\ jobs'[r].kind = jobs[r].kind
           /\ jobs'[r].uid = jobs[r].uid /\ jobs'[r].acct = jobs[r].acct
           /\ jobs'[r].crossed = jobs[r].crossed /\ jobs'[r].browser = jobs[r].browser
           /\ jobs'[r].flow = jobs[r].flow /\ jobs'[r].given = jobs[r].given
<1> DEFINE j == [jobs[r] EXCEPT !.at = step]
<1>1. jobs[r] \in Job
  OBVIOUS
<1>2. j \in Job
  BY <1>1 DEF Job, Steps
<1>3. jobs' = [jobs EXCEPT ![r] = j]
  BY DEF Goes
<1>4. /\ j.at = step /\ j.kind = jobs[r].kind /\ j.uid = jobs[r].uid /\ j.acct = jobs[r].acct
      /\ j.crossed = jobs[r].crossed /\ j.browser = jobs[r].browser
      /\ j.flow = jobs[r].flow /\ j.given = jobs[r].given
  BY <1>1 DEF Job
<1> HIDE DEF j
<1> QED BY <1>2, <1>3, <1>4, JobIs

\* The bounds are numbers.
LEMMA BoundsNat == Bounds[TRUE] \in Nat /\ Bounds[FALSE] \in Nat
<1>1. Bounds \in [BOOLEAN -> Nat]
  BY PanelAssumption
<1> QED BY <1>1, Zenon

\* Serials has every number up to a bound.
LEMMA SerialsUpTo ==
    /\ 0 \in Serials /\ Serials \subseteq Nat
    /\ \A n \in Nat : \A b \in BOOLEAN : n <= Bounds[b] => n \in Serials
<1>1. \A x, y \in Nat : /\ 0 \in 0..(x + y) /\ 0..(x + y) \subseteq Nat
                        /\ \A n \in Nat : n <= x \/ n <= y => n \in 0..(x + y)
  OBVIOUS
<1>2. \A b \in BOOLEAN : b = TRUE \/ b = FALSE
  OBVIOUS
<1>3. \A n \in Nat : \A b \in BOOLEAN : n <= Bounds[b] => n <= Bounds[TRUE] \/ n <= Bounds[FALSE]
  BY <1>2, Zenon
<1> QED BY <1>1, <1>3, BoundsNat, Zenon DEF Serials

\* Idle is a job.
LEMMA IdleJob == Idle \in Job
<1>1. 0 \in Serials
  BY SerialsUpTo
<1>2. 0 \in Near
  BY PanelAssumption DEF Near
<1> QED BY <1>1, <1>2 DEF Idle, Job, Kinds

\* Ends leaves an idle job.
LEMMA EndsJob ==
    ASSUME jobs \in [Requests -> Job], NEW r \in Requests, Ends(r)
    PROVE  OnlyJob(r) /\ jobs'[r] = Idle /\ jobs'[r].at = "idle"
<1>1. OnlyJob(r) /\ jobs'[r] = Idle
  BY IdleJob, JobIs DEF Ends
<1>2. Idle.at = "idle"
  BY DEF Idle
<1> QED BY <1>1, <1>2

\* A request that fails only keeps its kind and its browser.
LEMMA FailsJob ==
    ASSUME jobs \in [Requests -> Job], NEW r \in Requests, Fails(r)
    PROVE  OnlyJob(r) /\ jobs'[r].at = "failed" /\ jobs'[r].kind = jobs[r].kind
<1> DEFINE j == [Idle EXCEPT !.at = "failed", !.kind = jobs[r].kind, !.browser = jobs[r].browser]
<1>1. jobs[r].kind \in Kinds /\ jobs[r].browser \in Browsers \cup {Nobody}
  BY DEF Job
<1>2. j \in Job
  BY <1>1, IdleJob DEF Job
<1>3. j.at = "failed" /\ j.kind = jobs[r].kind
  BY IdleJob DEF Job
<1>4. jobs' = [jobs EXCEPT ![r] = j]
  BY DEF Fails
<1> HIDE DEF j
<1> QED BY <1>2, <1>3, <1>4, JobIs

\* A request that has read the row of account id.
LEMMA WithUserJob ==
    ASSUME jobs \in [Requests -> Job], NEW r \in Requests, NEW step \in Steps,
           NEW id \in Ids, users[id].acct \in Serials, jobs' = WithUser(r, step, id)
    PROVE  /\ OnlyJob(r)
           /\ jobs'[r].at = step /\ jobs'[r].kind = jobs[r].kind
           /\ jobs'[r].uid = id /\ jobs'[r].acct = users[id].acct
<1> DEFINE j == [jobs[r] EXCEPT !.at = step, !.uid = id, !.acct = users[id].acct,
                                !.flow = Nobody, !.given = Nobody]
<1>1. jobs[r] \in Job
  OBVIOUS
<1>2. j \in Job
  BY <1>1 DEF Job, Steps
<1>3. jobs' = [jobs EXCEPT ![r] = j]
  BY DEF WithUser
<1>4. j.at = step /\ j.kind = jobs[r].kind /\ j.uid = id /\ j.acct = users[id].acct
  BY <1>1 DEF Job
<1> HIDE DEF j
<1> QED BY <1>2, <1>3, <1>4, JobIs

\* A login whose code was good.
LEMMA CodeJob ==
    ASSUME jobs \in [Requests -> Job], NEW r \in Requests, NEW d \in Near,
           jobs' = [jobs EXCEPT ![r].at = "open", ![r].code = d]
    PROVE  /\ OnlyJob(r)
           /\ jobs'[r].at = "open" /\ jobs'[r].code = d /\ jobs'[r].kind = jobs[r].kind
           /\ jobs'[r].uid = jobs[r].uid /\ jobs'[r].acct = jobs[r].acct
           /\ jobs'[r].crossed = jobs[r].crossed
<1> DEFINE j == [jobs[r] EXCEPT !.at = "open", !.code = d]
<1>1. jobs[r] \in Job
  OBVIOUS
<1>2. j \in Job
  BY <1>1 DEF Job
<1>3. jobs' = [jobs EXCEPT ![r] = j]
  OBVIOUS
<1>4. /\ j.at = "open" /\ j.code = d /\ j.kind = jobs[r].kind
      /\ j.uid = jobs[r].uid /\ j.acct = jobs[r].acct /\ j.crossed = jobs[r].crossed
  BY <1>1 DEF Job
<1> HIDE DEF j
<1> QED BY <1>2, <1>3, <1>4, JobIs

CalledBack(b, f, g) ==
    [Idle EXCEPT !.at = "exchange", !.kind = "oidc", !.browser = b, !.flow = f, !.given = g]

\* The job of a callback whose state is the cookie's.
LEMMA CallbackJob ==
    ASSUME jobs \in [Requests -> Job], NEW r \in Requests,
           NEW b \in Browsers, NEW f \in Flows, NEW g \in Flows,
           jobs' = [jobs EXCEPT ![r] = CalledBack(b, f, g)]
    PROVE  /\ OnlyJob(r)
           /\ jobs'[r].at = "exchange" /\ jobs'[r].kind = "oidc" /\ jobs'[r].browser = b
           /\ jobs'[r].flow = f /\ jobs'[r].given = g
<1> DEFINE j == CalledBack(b, f, g)
<1>1. j \in Job
  BY IdleJob DEF CalledBack, Job, Kinds
<1>2. j.at = "exchange" /\ j.kind = "oidc" /\ j.browser = b /\ j.flow = f /\ j.given = g
  BY IdleJob DEF CalledBack, Job
<1> HIDE DEF j
<1>3. jobs' = [jobs EXCEPT ![r] = j]
  BY DEF j
<1> QED BY <1>1, <1>2, <1>3, JobIs

\* A callback that oidcFail answers.
LEMMA RefusedJob ==
    ASSUME jobs \in [Requests -> Job], NEW r \in Requests, NEW b \in Browsers,
           jobs' = [jobs EXCEPT ![r] =
                [Idle EXCEPT !.at = "failed", !.kind = "oidc", !.browser = b]]
    PROVE  OnlyJob(r) /\ jobs'[r].at = "failed" /\ jobs'[r].kind = "oidc"
<1> DEFINE j == [Idle EXCEPT !.at = "failed", !.kind = "oidc", !.browser = b]
<1>1. j \in Job
  BY IdleJob DEF Job, Kinds
<1>2. j.at = "failed" /\ j.kind = "oidc"
  BY IdleJob DEF Job
<1> HIDE DEF j
<1>3. jobs' = [jobs EXCEPT ![r] = j]
  BY DEF j
<1> QED BY <1>1, <1>2, <1>3, JobIs

\* A request with a session.
LEMMA AuthJob ==
    ASSUME jobs \in [Requests -> Job], NEW r \in Requests,
           NEW id \in Ids, users[id] \in Account,
           jobs' = [jobs EXCEPT ![r] =
                 [Idle EXCEPT !.at = "op", !.uid = id, !.acct = users[id].acct,
                              !.pass = users[id].pass, !.admin = users[id].admin]]
    PROVE  OnlyJob(r) /\ jobs'[r].at = "op"
<1> DEFINE j == [Idle EXCEPT !.at = "op", !.uid = id, !.acct = users[id].acct,
                             !.pass = users[id].pass, !.admin = users[id].admin]
<1>1. users[id].acct \in Serials /\ users[id].pass \in Passwords /\ users[id].admin \in BOOLEAN
  BY DEF Account
<1>2. j \in Job
  BY <1>1, IdleJob DEF Job
<1>3. j.at = "op"
  BY IdleJob DEF Job
<1> HIDE DEF j
<1>4. jobs' = [jobs EXCEPT ![r] = j]
  BY DEF j
<1> QED BY <1>2, <1>3, <1>4, JobIs

\* Crossed marks the logins of account id, and changes nothing else.
LEMMA CrossedJobs ==
    ASSUME jobs \in [Requests -> Job], NEW id
    PROVE  /\ Crossed(id) \in [Requests -> Job]
           /\ \A q \in Requests :
                /\ Crossed(id)[q].at = jobs[q].at /\ Crossed(id)[q].kind = jobs[q].kind
                /\ Crossed(id)[q].uid = jobs[q].uid /\ Crossed(id)[q].acct = jobs[q].acct
                /\ Crossed(id)[q].browser = jobs[q].browser
                /\ Crossed(id)[q].flow = jobs[q].flow /\ Crossed(id)[q].given = jobs[q].given
                /\ jobs[q].crossed => Crossed(id)[q].crossed
                /\ jobs[q].uid = id /\ jobs[q].at \in {"code", "open"} => Crossed(id)[q].crossed
<1>1. SUFFICES ASSUME NEW q \in Requests
               PROVE  /\ Crossed(id)[q] \in Job
                      /\ Crossed(id)[q].at = jobs[q].at /\ Crossed(id)[q].kind = jobs[q].kind
                      /\ Crossed(id)[q].uid = jobs[q].uid /\ Crossed(id)[q].acct = jobs[q].acct
                      /\ Crossed(id)[q].browser = jobs[q].browser
                      /\ Crossed(id)[q].flow = jobs[q].flow /\ Crossed(id)[q].given = jobs[q].given
                      /\ jobs[q].crossed => Crossed(id)[q].crossed
                      /\ jobs[q].uid = id /\ jobs[q].at \in {"code", "open"} => Crossed(id)[q].crossed
  BY DEF Crossed
<1> DEFINE j == [jobs[q] EXCEPT !.crossed = TRUE]
<1>2. jobs[q] \in Job
  OBVIOUS
<1>3. j \in Job
  BY <1>2 DEF Job
<1>4. /\ j.at = jobs[q].at /\ j.kind = jobs[q].kind /\ j.uid = jobs[q].uid
      /\ j.acct = jobs[q].acct /\ j.browser = jobs[q].browser
      /\ j.flow = jobs[q].flow /\ j.given = jobs[q].given
  BY <1>2 DEF Job
<1>5. j.crossed
  BY <1>2 DEF Job
<1> HIDE DEF j
<1>6. Crossed(id)[q] = IF jobs[q].uid = id /\ jobs[q].at \in {"code", "open"} THEN j ELSE jobs[q]
  BY DEF Crossed, j
<1> QED BY <1>2, <1>3, <1>4, <1>5, <1>6

------------------------------------------------------------------------------
(* How the rows of users change. *)

UsersOK == DOMAIN users \subseteq Ids /\ users \in [DOMAIN users -> Account]

\* The rows stay those of the same accounts.
SameAccounts ==
    /\ DOMAIN users' = DOMAIN users /\ users' \in [DOMAIN users' -> Account]
    /\ \A id \in DOMAIN users : users'[id].acct = users[id].acct

\* So do their secrets and the steps they have stored.
SameSecrets ==
    \A id \in DOMAIN users :
        users'[id].secret = users[id].secret /\ users'[id].ahead = users[id].ahead

\* A row is replaced by one of the same account.
LEMMA RowIs ==
    ASSUME UsersOK, NEW id \in DOMAIN users, NEW row \in Account, row.acct = users[id].acct,
           users' = [users EXCEPT ![id] = row]
    PROVE  /\ SameAccounts /\ users'[id] = row
           /\ \A i \in DOMAIN users : i # id => users'[i] = users[i]
BY DEF UsersOK, SameAccounts

\* A new password.
LEMMA PasswordRow ==
    ASSUME UsersOK, NEW id, NEW pw \in Passwords, users' = WithPassword(id, pw)
    PROVE  SameAccounts /\ SameSecrets
<1>1. CASE id \in DOMAIN users
  <2> DEFINE row == [users[id] EXCEPT !.pass = pw]
  <2>1. users[id] \in Account
    BY <1>1 DEF UsersOK
  <2>2. /\ row \in Account /\ row.acct = users[id].acct
        /\ row.secret = users[id].secret /\ row.ahead = users[id].ahead
    BY <2>1 DEF Account
  <2>3. users' = [users EXCEPT ![id] = row]
    BY <1>1 DEF WithPassword, Updated
  <2> HIDE DEF row
  <2> QED BY <1>1, <2>2, <2>3, RowIs DEF SameSecrets
<1>2. CASE id \notin DOMAIN users
  BY <1>2 DEF WithPassword, Updated, UsersOK, SameAccounts, SameSecrets
<1> QED BY <1>1, <1>2

\* Another secret and stored step, for account id alone.
LEMMA TOTPRow ==
    ASSUME UsersOK, NEW id, NEW s \in Serials, NEW d \in {Never} \cup Near,
           users' = WithTOTP(id, s, d)
    PROVE  /\ SameAccounts
           /\ \A i \in DOMAIN users :
                IF i = id THEN users'[i].secret = s /\ users'[i].ahead = d
                ELSE users'[i] = users[i]
<1>1. CASE id \in DOMAIN users
  <2> DEFINE row == [users[id] EXCEPT !.secret = s, !.ahead = d]
  <2>1. users[id] \in Account
    BY <1>1 DEF UsersOK
  <2>2. row \in Account /\ row.acct = users[id].acct /\ row.secret = s /\ row.ahead = d
    BY <2>1 DEF Account
  <2>3. users' = [users EXCEPT ![id] = row]
    BY <1>1 DEF WithTOTP, Updated
  <2> HIDE DEF row
  <2> QED BY <1>1, <2>2, <2>3, RowIs
<1>2. CASE id \notin DOMAIN users
  BY <1>2 DEF WithTOTP, Updated, UsersOK, SameAccounts
<1> QED BY <1>1, <1>2

\* The step of an accepted code.
LEMMA CodeRow ==
    ASSUME UsersOK, NEW id \in DOMAIN users, NEW d \in Near,
           users' = [users EXCEPT ![id].ahead = d]
    PROVE  /\ SameAccounts
           /\ users'[id].secret = users[id].secret /\ users'[id].ahead = d
           /\ \A i \in DOMAIN users : i # id => users'[i] = users[i]
<1> DEFINE row == [users[id] EXCEPT !.ahead = d]
<1>1. users[id] \in Account
  BY DEF UsersOK
<1>2. row \in Account /\ row.acct = users[id].acct /\ row.secret = users[id].secret /\ row.ahead = d
  BY <1>1 DEF Account
<1>3. users' = [users EXCEPT ![id] = row]
  OBVIOUS
<1> HIDE DEF row
<1> QED BY <1>2, <1>3, RowIs

\* An address is bound or taken away.
LEMMA BindRow ==
    ASSUME UsersOK, NEW id \in DOMAIN users, NEW bound \in BOOLEAN, BindOIDCEmail(id, bound)
    PROVE  SameAccounts /\ SameSecrets
<1> DEFINE row == [users[id] EXCEPT !.email = bound]
<1>1. users[id] \in Account
  BY DEF UsersOK
<1>2. /\ row \in Account /\ row.acct = users[id].acct
      /\ row.secret = users[id].secret /\ row.ahead = users[id].ahead
  BY <1>1 DEF Account
<1>3. users' = [users EXCEPT ![id] = row]
  BY DEF BindOIDCEmail
<1> HIDE DEF row
<1> QED BY <1>2, <1>3, RowIs DEF SameSecrets

\* A step of time moves every stored step back, or it is too old to matter.
LEMMA TickRow ==
    ASSUME UsersOK, Tick
    PROVE  /\ SameAccounts
           /\ \A id \in DOMAIN users :
                users'[id].secret = users[id].secret /\ users'[id].ahead = Older(users[id].ahead)
<1> DEFINE row(id) == [users[id] EXCEPT !.ahead = Older(@)]
<1>1. SUFFICES ASSUME NEW id \in DOMAIN users
               PROVE  /\ row(id) \in Account /\ row(id).acct = users[id].acct
                      /\ row(id).secret = users[id].secret
                      /\ row(id).ahead = Older(users[id].ahead)
  <2>1. users' = [id \in DOMAIN users |-> row(id)]
    BY DEF Tick
  <2> HIDE DEF row
  <2> QED BY <1>1, <2>1 DEF SameAccounts
<1>2. users[id] \in Account
  BY DEF UsersOK
<1>3. users[id].ahead \in {Never} \cup Near
  BY <1>2 DEF Account
<1>4. Older(users[id].ahead) \in {Never} \cup Near
  BY <1>3, PanelAssumption DEF Older, Never, Near
<1> QED BY <1>2, <1>4 DEF Account

\* The row of a new account.
NewRow(row) ==
    row.acct = SerialNow /\ row.secret = 0 /\ row.ahead = Never /\ row \in Account

\* A new account has an id that none has.
LEMMA CreateRow ==
    ASSUME UsersOK, SerialNow \in Serials, NEW login \in Logins, NEW admin \in BOOLEAN,
           CreateUser(login, admin)
    PROVE  \E id \in Ids \ DOMAIN users :
             /\ DOMAIN users' = DOMAIN users \cup {id}
             /\ users' \in [DOMAIN users' -> Account]
             /\ NewRow(users'[id])
             /\ \A i \in DOMAIN users : users'[i] = users[i]
<1>1. PICK pw \in Passwords, id \in Ids :
         /\ \A i \in DOMAIN users : i < id
         /\ users' = [i \in DOMAIN users \cup {id} |->
              IF i = id THEN [login |-> login, acct |-> SerialNow, pass |-> pw, admin |-> admin,
                              email |-> FALSE, secret |-> 0, ahead |-> Never]
              ELSE users[i]]
  BY DEF CreateUser
<1> DEFINE row == [login |-> login, acct |-> SerialNow, pass |-> pw, admin |-> admin,
                   email |-> FALSE, secret |-> 0, ahead |-> Never]
<1>2. NewRow(row)
  BY SerialsUpTo DEF NewRow, Account
<1>3. id \notin DOMAIN users
  BY <1>1 DEF UsersOK, Ids
<1> HIDE DEF row
<1>4. users' = [i \in DOMAIN users \cup {id} |-> IF i = id THEN row ELSE users[i]]
  BY <1>1 DEF row
<1>5. row \in Account
  BY <1>2 DEF NewRow
<1>6. users' \in [DOMAIN users \cup {id} -> Account] /\ DOMAIN users' = DOMAIN users \cup {id}
  BY <1>4, <1>5 DEF UsersOK
<1>7. users'[id] = row /\ \A i \in DOMAIN users : users'[i] = users[i]
  BY <1>3, <1>4
<1> QED BY <1>2, <1>3, <1>6, <1>7

\* A deleted account takes its row and its sessions along.
LEMMA DeleteRow ==
    ASSUME UsersOK, sessions \in [DOMAIN sessions -> Session], NEW id, DeleteUser(id)
    PROVE  /\ DOMAIN users' = DOMAIN users \ {id} /\ users' \in [DOMAIN users' -> Account]
           /\ \A i \in DOMAIN users' : users'[i] = users[i]
           /\ sessions' \in [DOMAIN sessions' -> Session] /\ DOMAIN sessions' \subseteq DOMAIN sessions
           /\ \A t \in DOMAIN sessions' : sessions'[t] = sessions[t] /\ sessions[t].uid # id
BY DEF UsersOK, DeleteUser

------------------------------------------------------------------------------
(* Types. *)

\* A change has a number of its own, and the next one a larger.
LEMMA ChangeNumber ==
    ASSUME oidc \in BOOLEAN, changes \in 0..Bounds[oidc], Change, oidc' = oidc
    PROVE  /\ SerialNow \in Serials /\ SerialNow \in Nat \ {0}
           /\ changes' \in 0..Bounds[oidc'] /\ SerialNow' = SerialNow + 1
<1>1. \A x \in Nat : \A c \in 0..x : c > 0 =>
         /\ x - c + 1 \in Nat \ {0} /\ x - c + 1 <= x
         /\ c - 1 \in 0..x /\ x - (c - 1) + 1 = (x - c + 1) + 1
  OBVIOUS
<1>2. Bounds \in [BOOLEAN -> Nat]
  BY PanelAssumption
<1>3. Bounds[oidc] \in Nat
  BY <1>2, Zenon
<1>4. changes > 0 /\ changes' = changes - 1
  BY DEF Change
<1>5. /\ Bounds[oidc] - changes + 1 \in Nat \ {0} /\ Bounds[oidc] - changes + 1 <= Bounds[oidc]
      /\ changes - 1 \in 0..Bounds[oidc]
      /\ Bounds[oidc] - (changes - 1) + 1 = (Bounds[oidc] - changes + 1) + 1
  BY <1>1, <1>3, <1>4
<1>6. SerialNow = Bounds[oidc] - changes + 1 /\ SerialNow' = Bounds[oidc] - (changes - 1) + 1
  BY <1>4, Zenon DEF SerialNow
<1>7. changes' \in 0..Bounds[oidc']
  BY <1>4, <1>5, Zenon
<1>8. SerialNow \in Nat \ {0} /\ SerialNow <= Bounds[oidc] /\ SerialNow' = SerialNow + 1
  BY <1>5, <1>6
<1>9. SerialNow \in Serials
  BY <1>8, SerialsUpTo
<1> QED BY <1>7, <1>8, <1>9

\* What the initial state is.
LEMMA InitTypes == Init => PanelTypeOK
<1>1. SUFFICES ASSUME Init PROVE PanelTypeOK
  OBVIOUS
<1>2. oidc \in BOOLEAN /\ changes = Bounds[oidc]
  BY <1>1 DEF Init
<1>3. changes \in 0..Bounds[oidc]
  <2>1. \A x \in Nat : x \in 0..x
    OBVIOUS
  <2>2. Bounds \in [BOOLEAN -> Nat]
    BY PanelAssumption
  <2>3. Bounds[oidc] \in Nat
    BY <1>2, <2>2, Zenon
  <2> QED BY <1>2, <2>1, <2>3
<1>4. UsersOK
  <2>1. PICK bound \in BOOLEAN : users = [id \in DOMAIN First |->
            [login |-> First[id], acct |-> 0, pass |-> CHOOSE pw \in Passwords : TRUE,
             admin |-> id = 1, email |-> id = 1 /\ bound, secret |-> 0, ahead |-> Never]]
    BY <1>1, <1>2 DEF Init
  <2>2. (CHOOSE pw \in Passwords : TRUE) \in Passwords
    BY PanelAssumption
  <2>3. \A id \in DOMAIN First : id \in Ids /\ First[id] \in Logins
    BY PanelAssumption DEF Ids
  <2> QED BY <2>1, <2>2, <2>3, SerialsUpTo DEF UsersOK, Account
<1>5. sessions \in [DOMAIN sessions -> Session]
  BY <1>1 DEF Init
<1>6. jobs \in [Requests -> Job]
  BY <1>1, IdleJob DEF Init
<1>7. fails \in [Kinds -> [Ages -> Nat]]
  BY <1>1 DEF Init
<1>8. /\ cookie \in [Browsers -> Flows \cup {Nobody}]
      /\ flow \in [Flows -> [by : Browsers \cup {Nobody}, code : {"none", "given", "used"}]]
      /\ accepted \subseteq [secret : Serials, at : Near]
  BY <1>1 DEF Init
<1> QED BY <1>2, <1>3, <1>4, <1>5, <1>6, <1>7, <1>8 DEF PanelTypeOK, UsersOK

\* Counting keeps the counts numbers, and so does time.
LEMMA CountedType ==
    ASSUME fails \in [Kinds -> [Ages -> Nat]]
    PROVE  /\ \A kind \in Kinds : Counted(kind) \in [Kinds -> [Ages -> Nat]]
           /\ Aged \in [Kinds -> [Ages -> Nat]]
<1>1. ASSUME NEW kind \in Kinds
      PROVE  Counted(kind) \in [Kinds -> [Ages -> Nat]]
  <2>1. fails[kind] \in [Ages -> Nat] /\ 0 \in Ages
    BY <1>1, PanelAssumption DEF Ages
  <2> DEFINE n == IF kind = "oidc" /\ fails[kind][0] >= Limit THEN fails[kind][0] ELSE fails[kind][0] + 1
  <2>2. n \in Nat
    BY <2>1
  <2>3. Counted(kind) = [fails EXCEPT ![kind] = [fails[kind] EXCEPT ![0] = n]]
    BY <1>1, <2>1 DEF Counted
  <2> HIDE DEF n
  <2> QED BY <2>1, <2>2, <2>3
<1>2. Aged \in [Kinds -> [Ages -> Nat]]
  <2>1. \A a \in Ages : a # 0 => a - 1 \in Ages
    BY PanelAssumption DEF Ages
  <2> QED BY <2>1 DEF Aged
<1> QED BY <1>1, <1>2

\* The users, sessions and accepted codes of the next state have their types.
TablesOK ==
    /\ UsersOK /\ sessions \in [DOMAIN sessions -> Session]
    /\ accepted \subseteq [secret : Serials, at : Near]

\* So have the limiter, the cookies and the flows.
WebOK ==
    /\ fails \in [Kinds -> [Ages -> Nat]]
    /\ cookie \in [Browsers -> Flows \cup {Nobody}]
    /\ flow \in [Flows -> [by : Browsers \cup {Nobody}, code : {"none", "given", "used"}]]

JobsOK == jobs \in [Requests -> Job]
ChangesOK == oidc \in BOOLEAN /\ changes \in 0..Bounds[oidc]

\* The type invariant in parts.
LEMMA TypeParts == PanelTypeOK <=> TablesOK /\ WebOK /\ JobsOK /\ ChangesOK
BY DEF PanelTypeOK, TablesOK, UsersOK, WebOK, JobsOK, ChangesOK

\* And in the next state.
LEMMA TypePartsNext == PanelTypeOK' <=> TablesOK' /\ WebOK' /\ JobsOK' /\ ChangesOK'
BY DEF PanelTypeOK, TablesOK, UsersOK, WebOK, JobsOK, ChangesOK

\* Login: the account that was read, or a failure.
LEMMA LoginStep ==
    ASSUME PanelTypeOK, NEW r \in Requests, Login(r)
    PROVE  /\ OnlyJob(r) /\ jobs'[r].kind = jobs[r].kind
           /\ \/ /\ jobs'[r].at \in {"code", "open"}
                 /\ jobs'[r].uid \in DOMAIN users /\ jobs'[r].acct = users[jobs'[r].uid].acct
              \/ jobs'[r].at = "failed"
<1>0. UsersOK /\ jobs \in [Requests -> Job]
  BY DEF PanelTypeOK, UsersOK
<1>1. CASE Fails(r)
  BY <1>0, <1>1, FailsJob
<1>2. CASE \E id \in DOMAIN users :
             jobs' = WithUser(r, IF users[id].secret # 0 THEN "code" ELSE "open", id)
  <2>1. PICK id \in DOMAIN users :
             jobs' = WithUser(r, IF users[id].secret # 0 THEN "code" ELSE "open", id)
    BY <1>2
  <2>2. PICK step \in {"code", "open"} : jobs' = WithUser(r, step, id)
    BY <2>1
  <2>3. id \in Ids /\ users[id].acct \in Serials /\ step \in Steps
    BY <1>0 DEF UsersOK, Account, Steps
  <2> QED BY <1>0, <2>2, <2>3, WithUserJob
<1> QED BY <1>1, <1>2 DEF Login

\* LoginOIDC likewise.
LEMMA LoginOIDCStep ==
    ASSUME PanelTypeOK, NEW r \in Requests, LoginOIDC(r)
    PROVE  /\ OnlyJob(r) /\ jobs'[r].kind = jobs[r].kind
           /\ \/ /\ jobs'[r].at \in {"code", "open"}
                 /\ jobs'[r].uid \in DOMAIN users /\ jobs'[r].acct = users[jobs'[r].uid].acct
              \/ jobs'[r].at = "failed"
<1>0. UsersOK /\ jobs \in [Requests -> Job]
  BY DEF PanelTypeOK, UsersOK
<1>1. CASE Fails(r)
  BY <1>0, <1>1, FailsJob
<1>2. CASE \E id \in DOMAIN users : jobs' = WithUser(r, "open", id)
  <2>1. PICK id \in DOMAIN users : jobs' = WithUser(r, "open", id)
    BY <1>2
  <2>2. id \in Ids /\ users[id].acct \in Serials /\ "open" \in Steps
    BY <1>0 DEF UsersOK, Account, Steps
  <2> QED BY <1>0, <2>1, <2>2, WithUserJob
<1> QED BY <1>1, <1>2 DEF LoginOIDC

\* checkSecondFactor: an accepted code, newer than the stored step, or a failure.
LEMMA SecondFactorStep ==
    ASSUME PanelTypeOK, NEW r \in Requests, checkSecondFactor(r)
    PROVE  /\ OnlyJob(r) /\ jobs'[r].kind = jobs[r].kind
           /\ SameAccounts
           /\ \/ /\ jobs'[r].at = "open"
                 /\ jobs'[r].uid = jobs[r].uid /\ jobs'[r].acct = jobs[r].acct
                 /\ jobs'[r].crossed = jobs[r].crossed
                 /\ jobs[r].uid \in DOMAIN users /\ users[jobs[r].uid].secret # 0
                 /\ jobs'[r].code \in checkTOTP(users[jobs[r].uid].ahead)
                 /\ accepted' = accepted \cup
                      {[secret |-> users[jobs[r].uid].secret, at |-> jobs'[r].code]}
                 /\ users'[jobs[r].uid].ahead = jobs'[r].code
                 /\ \A i \in DOMAIN users : /\ users'[i].secret = users[i].secret
                                            /\ i # jobs[r].uid => users'[i] = users[i]
              \/ jobs'[r].at = "failed" /\ users' = users /\ accepted' = accepted
<1>0. UsersOK /\ jobs \in [Requests -> Job]
  BY DEF PanelTypeOK, UsersOK
<1>1. CASE Fails(r) /\ UNCHANGED <<users, accepted>>
  BY <1>0, <1>1, FailsJob DEF SameAccounts, UsersOK
<1> DEFINE id == jobs[r].uid
<1>2. CASE \E d \in Near :
              /\ id \in DOMAIN users /\ users[id].secret # 0
              /\ d \in checkTOTP(users[id].ahead)
              /\ users' = [users EXCEPT ![id].ahead = d]
              /\ accepted' = accepted \cup {[secret |-> users[id].secret, at |-> d]}
              /\ jobs' = [jobs EXCEPT ![r].at = "open", ![r].code = d]
  <2>1. PICK d \in Near :
              /\ id \in DOMAIN users /\ users[id].secret # 0
              /\ d \in checkTOTP(users[id].ahead)
              /\ users' = [users EXCEPT ![id].ahead = d]
              /\ accepted' = accepted \cup {[secret |-> users[id].secret, at |-> d]}
              /\ jobs' = [jobs EXCEPT ![r].at = "open", ![r].code = d]
    BY <1>2
  <2>2. /\ OnlyJob(r)
        /\ jobs'[r].at = "open" /\ jobs'[r].code = d /\ jobs'[r].kind = jobs[r].kind
        /\ jobs'[r].uid = id /\ jobs'[r].acct = jobs[r].acct
        /\ jobs'[r].crossed = jobs[r].crossed
    BY <1>0, <2>1, CodeJob
  <2>3. /\ SameAccounts
        /\ users'[id].secret = users[id].secret /\ users'[id].ahead = d
        /\ \A i \in DOMAIN users : i # id => users'[i] = users[i]
    BY <1>0, <2>1, CodeRow
  <2> QED BY <2>1, <2>2, <2>3
<1> QED BY <1>1, <1>2 DEF checkSecondFactor

\* newSession: a session of the login's account id, or a failure.
LEMMA NewSessionStep ==
    ASSUME PanelTypeOK, NEW r \in Requests, newSession(r)
    PROVE  /\ OnlyJob(r) /\ jobs'[r].at \in {"idle", "failed"}
           /\ jobs'[r].at = "failed" => jobs'[r].kind = jobs[r].kind
           /\ \/ sessions' = sessions
              \/ \E t \in Tokens \ DOMAIN sessions :
                   /\ jobs[r].uid \in DOMAIN users
                   /\ DOMAIN sessions' = DOMAIN sessions \cup {t}
                   /\ sessions' \in [DOMAIN sessions' -> Session]
                   /\ sessions'[t].uid = jobs[r].uid /\ sessions'[t].acct = jobs[r].acct
                   /\ sessions'[t].crossed = jobs[r].crossed
                   /\ \A s \in DOMAIN sessions : sessions'[s] = sessions[s]
           /\ cookie' \in [Browsers -> Flows \cup {Nobody}]
           /\ \A b \in Browsers : cookie'[b] \in {cookie[b], Nobody}
<1>0. /\ UsersOK /\ jobs \in [Requests -> Job]
      /\ sessions \in [DOMAIN sessions -> Session] /\ cookie \in [Browsers -> Flows \cup {Nobody}]
  BY DEF PanelTypeOK, UsersOK
<1> DEFINE id == jobs[r].uid
           new == [uid |-> id, acct |-> jobs[r].acct, ttl |-> SessionTTL, crossed |-> jobs[r].crossed]
<1>1. CASE Fails(r) /\ UNCHANGED <<sessions, cookie>>
  BY <1>0, <1>1, FailsJob
<1>2. CASE \E t \in Tokens \ DOMAIN sessions :
              /\ id \in DOMAIN users
              /\ sessions' = [s \in DOMAIN sessions \cup {t} |-> IF s = t THEN new ELSE sessions[s]]
              /\ Ends(r) /\ CookieGone(r)
  <2>1. PICK t \in Tokens \ DOMAIN sessions :
              /\ id \in DOMAIN users
              /\ sessions' = [s \in DOMAIN sessions \cup {t} |-> IF s = t THEN new ELSE sessions[s]]
              /\ Ends(r) /\ CookieGone(r)
    BY <1>2
  <2>2. new \in Session
    <3>1. jobs[r] \in Job /\ id \in Ids
      BY <1>0, <2>1 DEF UsersOK
    <3>2. jobs[r].acct \in Serials /\ jobs[r].crossed \in BOOLEAN
      BY <3>1 DEF Job
    <3>3. SessionTTL \in -1..SessionTTL
      BY PanelAssumption
    <3> QED BY <3>1, <3>2, <3>3 DEF Session
  <2>3. new.uid = id /\ new.acct = jobs[r].acct /\ new.crossed = jobs[r].crossed
    OBVIOUS
  <2> HIDE DEF new
  <2>4. /\ DOMAIN sessions' = DOMAIN sessions \cup {t}
        /\ sessions' \in [DOMAIN sessions' -> Session]
        /\ sessions'[t] = new /\ \A s \in DOMAIN sessions : sessions'[s] = sessions[s]
    BY <1>0, <2>1, <2>2
  <2>5. OnlyJob(r) /\ jobs'[r].at = "idle"
    BY <1>0, <2>1, EndsJob
  <2>6. cookie' \in [Browsers -> Flows \cup {Nobody}] /\ \A b \in Browsers : cookie'[b] \in {cookie[b], Nobody}
    BY <1>0, <2>1 DEF CookieGone
  <2> QED BY <2>1, <2>3, <2>4, <2>5, <2>6
<1>3. (Fails(r) /\ UNCHANGED <<sessions, cookie>>) \/ \E t \in Tokens \ DOMAIN sessions :
              /\ id \in DOMAIN users
              /\ sessions' = [s \in DOMAIN sessions \cup {t} |-> IF s = t THEN new ELSE sessions[s]]
              /\ Ends(r) /\ CookieGone(r)
  BY DEF newSession
<1> QED BY <1>1, <1>2, <1>3

FlowType == [by : Browsers \cup {Nobody}, code : {"none", "given", "used"}]

\* A flow's code changes.
LEMMA FlowCode ==
    ASSUME flow \in [Flows -> FlowType], NEW g, NEW c \in {"none", "given", "used"},
           flow' = [flow EXCEPT ![g].code = c]
    PROVE  /\ flow' \in [Flows -> FlowType]
           /\ \A f \in Flows : /\ flow'[f].by = flow[f].by
                               /\ flow'[f].code = IF f = g THEN c ELSE flow[f].code
<1> DEFINE row == [flow[g] EXCEPT !.code = c]
<1>1. CASE g \in Flows
  <2>1. flow[g] \in FlowType
    BY <1>1
  <2>2. row \in FlowType /\ row.by = flow[g].by /\ row.code = c
    BY <2>1 DEF FlowType
  <2>3. flow' = [flow EXCEPT ![g] = row]
    OBVIOUS
  <2> HIDE DEF row
  <2> QED BY <1>1, <2>2, <2>3
<1>2. CASE g \notin Flows
  BY <1>2
<1> QED BY <1>1, <1>2

\* A flow begins: only one that none has begun.
LEMMA FlowBegins ==
    ASSUME flow \in [Flows -> FlowType], cookie \in [Browsers -> Flows \cup {Nobody}],
           NEW b \in Browsers, authURL(b)
    PROVE  /\ flow' \in [Flows -> FlowType] /\ cookie' \in [Browsers -> Flows \cup {Nobody}]
           /\ \E f \in Flows :
                /\ flow[f].by = Nobody /\ flow'[f].by = b /\ flow'[f].code = flow[f].code
                /\ \A g \in Flows : g # f => flow'[g] = flow[g]
                /\ cookie'[b] = f /\ \A a \in Browsers : a # b => cookie'[a] = cookie[a]
<1>1. PICK f \in Flows : /\ flow[f].by = Nobody
                         /\ flow' = [flow EXCEPT ![f].by = b]
                         /\ cookie' = [cookie EXCEPT ![b] = f]
  BY DEF authURL
<1> DEFINE row == [flow[f] EXCEPT !.by = b]
<1>2. flow[f] \in FlowType
  OBVIOUS
<1>3. row \in FlowType /\ row.by = b /\ row.code = flow[f].code
  BY <1>2 DEF FlowType
<1>4. flow' = [flow EXCEPT ![f] = row]
  BY <1>1
<1> HIDE DEF row
<1>5. flow' \in [Flows -> FlowType] /\ flow'[f] = row /\ \A g \in Flows : g # f => flow'[g] = flow[g]
  BY <1>3, <1>4
<1> QED BY <1>1, <1>3, <1>5

\* exchange: the answer of the cookie's own flow, used now, or a failure.
LEMMA ExchangeStep ==
    ASSUME PanelTypeOK, NEW r \in Requests, exchange(r)
    PROVE  /\ OnlyJob(r) /\ jobs'[r].kind = jobs[r].kind
           /\ flow' \in [Flows -> FlowType]
           /\ \A f \in Flows : /\ flow'[f].by = flow[f].by
                               /\ flow[f].code = "used" => flow'[f].code = "used"
           /\ \/ jobs'[r].at = "failed"
              \/ /\ jobs'[r].at = "email" /\ jobs'[r].given = jobs[r].given
                 /\ jobs'[r].browser = jobs[r].browser
                 /\ jobs[r].given = jobs[r].flow
                 /\ flow[jobs[r].given].code = "given"
                 /\ jobs[r].given \in Flows => flow'[jobs[r].given].code = "used"
<1>0. jobs \in [Requests -> Job] /\ flow \in [Flows -> FlowType]
  BY DEF PanelTypeOK, FlowType
<1> DEFINE c == jobs[r].flow
           g == jobs[r].given
<1>1. CASE Fails(r) /\ UNCHANGED flow
  BY <1>0, <1>1, FailsJob
<1>2. CASE /\ flow[g].code = "given"
           /\ flow' = [flow EXCEPT ![g].code = "used"]
           /\ IF verify(c, g) THEN Goes(r, "email") ELSE Fails(r)
  <2>1. /\ flow' \in [Flows -> FlowType]
        /\ \A f \in Flows : /\ flow'[f].by = flow[f].by
                            /\ flow'[f].code = IF f = g THEN "used" ELSE flow[f].code
    BY <1>0, <1>2, FlowCode
  <2>2. CASE verify(c, g) /\ Goes(r, "email")
    <3>1. "email" \in Steps
      BY DEF Steps
    <3>2. /\ OnlyJob(r) /\ jobs'[r].at = "email" /\ jobs'[r].kind = jobs[r].kind
          /\ jobs'[r].given = g /\ jobs'[r].browser = jobs[r].browser
      BY <1>0, <2>2, <3>1, GoesJob
    <3>3. g = c
      BY <2>2 DEF verify
    <3> HIDE DEF c, g
    <3>4. g \in Flows => flow'[g].code = "used"
      BY <2>1
    <3> QED BY <1>2, <2>1, <3>2, <3>3, <3>4 DEF c, g
  <2>3. CASE Fails(r)
    BY <1>0, <2>1, <2>3, FailsJob
  <2> QED BY <1>2, <2>2, <2>3
<1>3. \/ Fails(r) /\ UNCHANGED flow
      \/ /\ flow[g].code = "given"
         /\ flow' = [flow EXCEPT ![g].code = "used"]
         /\ IF verify(c, g) THEN Goes(r, "email") ELSE Fails(r)
  BY DEF exchange
<1> QED BY <1>1, <1>2, <1>3

\* oidcCallback: the flow in the browser's cookie, or a failure.
LEMMA CallbackStep ==
    ASSUME PanelTypeOK, NEW r \in Requests, oidcCallback(r)
    PROVE  /\ OnlyJob(r) /\ jobs'[r].kind = "oidc"
           /\ \/ jobs'[r].at = "failed"
              \/ /\ jobs'[r].at = "exchange" /\ jobs'[r].browser \in Browsers
                 /\ cookie[jobs'[r].browser] # Nobody /\ jobs'[r].flow = cookie[jobs'[r].browser]
                 /\ jobs'[r].flow \in Flows /\ jobs'[r].given \in Flows
<1>0. jobs \in [Requests -> Job] /\ cookie \in [Browsers -> Flows \cup {Nobody}]
  BY DEF PanelTypeOK
<1>1. PICK b \in Browsers :
         \/ /\ cookie[b] # Nobody
            /\ \E g \in Flows :
                 jobs' = [jobs EXCEPT ![r] =
                    [Idle EXCEPT !.at = "exchange", !.kind = "oidc", !.browser = b,
                                 !.flow = cookie[b], !.given = g]]
         \/ jobs' = [jobs EXCEPT ![r] =
                [Idle EXCEPT !.at = "failed", !.kind = "oidc", !.browser = b]]
  BY DEF oidcCallback
<1>2. CASE jobs' = [jobs EXCEPT ![r] =
                [Idle EXCEPT !.at = "failed", !.kind = "oidc", !.browser = b]]
  BY <1>0, <1>2, RefusedJob
<1>3. ASSUME cookie[b] # Nobody, NEW g \in Flows,
             jobs' = [jobs EXCEPT ![r] =
                    [Idle EXCEPT !.at = "exchange", !.kind = "oidc", !.browser = b,
                                 !.flow = cookie[b], !.given = g]]
      PROVE  /\ OnlyJob(r) /\ jobs'[r].kind = "oidc"
             /\ jobs'[r].at = "exchange" /\ jobs'[r].browser \in Browsers
             /\ cookie[jobs'[r].browser] # Nobody /\ jobs'[r].flow = cookie[jobs'[r].browser]
             /\ jobs'[r].flow \in Flows /\ jobs'[r].given \in Flows
  <2>1. PICK f \in Flows : f = cookie[b]
    BY <1>0, <1>3
  <2>2. jobs' = [jobs EXCEPT ![r] = CalledBack(b, f, g)]
    BY <1>3, <2>1, Zenon DEF CalledBack
  <2>3. /\ OnlyJob(r) /\ jobs'[r].at = "exchange" /\ jobs'[r].kind = "oidc"
        /\ jobs'[r].browser = b /\ jobs'[r].flow = f /\ jobs'[r].given = g
    BY <1>0, <2>2, CallbackJob
  <2> QED BY <1>3, <2>1, <2>3
<1> QED BY <1>1, <1>2, <1>3

\* Auth, and the end of a request.
LEMMA PlainStep ==
    ASSUME PanelTypeOK, NEW r \in Requests,
           loginSubmit(r) \/ failed(r) \/ Auth(r) \/ EndRequest(r)
    PROVE  /\ OnlyJob(r) /\ jobs'[r].at \in {"idle", "login", "op"}
           /\ fails' \in [Kinds -> [Ages -> Nat]]
           /\ cookie' \in [Browsers -> Flows \cup {Nobody}]
           /\ \A b \in Browsers : cookie'[b] \in {cookie[b], Nobody}
           /\ UNCHANGED <<users, sessions, oidc, flow, changes, accepted>>
<1>0. /\ UsersOK /\ jobs \in [Requests -> Job]
      /\ fails \in [Kinds -> [Ages -> Nat]] /\ cookie \in [Browsers -> Flows \cup {Nobody}]
  BY DEF PanelTypeOK, UsersOK
<1>1. CASE loginSubmit(r)
  <2>1. "login" \in Steps
    BY DEF Steps
  <2>2. Goes(r, "login") /\ UNCHANGED <<users, sessions, fails, oidc, cookie, flow, changes, accepted>>
    BY <1>1 DEF loginSubmit
  <2> QED BY <1>0, <2>1, <2>2, GoesJob
<1>2. CASE failed(r)
  <2>1. /\ fails' = Counted(jobs[r].kind) /\ Ends(r) /\ CookieGone(r)
        /\ UNCHANGED <<users, sessions, oidc, flow, changes, accepted>>
    BY <1>2 DEF failed
  <2>2. jobs[r].kind \in Kinds
    BY <1>0 DEF Job
  <2>3. cookie' \in [Browsers -> Flows \cup {Nobody}] /\ \A b \in Browsers : cookie'[b] \in {cookie[b], Nobody}
    BY <1>0, <2>1 DEF CookieGone
  <2> QED BY <1>0, <2>1, <2>2, <2>3, CountedType, EndsJob
<1>3. CASE Auth(r)
  <2>1. PICK id \in DOMAIN users :
           jobs' = [jobs EXCEPT ![r] =
                 [Idle EXCEPT !.at = "op", !.uid = id, !.acct = users[id].acct,
                              !.pass = users[id].pass, !.admin = users[id].admin]]
    BY <1>3 DEF Auth
  <2>2. users[id] \in Account /\ id \in Ids
    BY <1>0 DEF UsersOK
  <2>3. UNCHANGED <<users, sessions, fails, oidc, cookie, flow, changes, accepted>>
    BY <1>3 DEF Auth
  <2> QED BY <1>0, <2>1, <2>2, <2>3, AuthJob
<1>4. CASE EndRequest(r)
  <2>1. Ends(r) /\ UNCHANGED <<users, sessions, fails, oidc, cookie, flow, changes, accepted>>
    BY <1>4 DEF EndRequest
  <2> QED BY <1>0, <2>1, EndsJob
<1> QED BY <1>1, <1>2, <1>3, <1>4

\* Account changes leave every other request's job as it is.
JobsRest == /\ jobs' \in [Requests -> Job]
            /\ \A q \in Requests : jobs'[q] = jobs[q] \/ jobs'[q] = Idle

Created == \E id \in Ids \ DOMAIN users :
             /\ DOMAIN users' = DOMAIN users \cup {id}
             /\ users' \in [DOMAIN users' -> Account]
             /\ NewRow(users'[id])
             /\ \A i \in DOMAIN users : users'[i] = users[i]

\* 2FA of an account is turned on, with a new secret, or off.
SecuredAs(id, s, d) ==
    /\ s \in {0, SerialNow} /\ d \in {Never} \cup Near
    /\ \A i \in DOMAIN users :
         IF i = id THEN users'[i].secret = s /\ users'[i].ahead = d ELSE users'[i] = users[i]
Secured == \E id, s, d : SecuredAs(id, s, d)

\* The actions that change an account but delete none.
ChangesAccount ==
    \/ \E r \in Requests : userCreate(r) \/ ChangePassword(r) \/ EnableTOTP(r) \/ DisableTOTP(r)
    \/ ByCommand /\ \E login \in Logins, admin \in BOOLEAN : CreateUser(login, admin)
    \/ AccountCommand

Frame == UNCHANGED <<sessions, fails, oidc, cookie, flow, accepted>>

\* A request that makes a change ends with it.
LEMMA RequestChanges ==
    ASSUME jobs \in [Requests -> Job], NEW r \in Requests, ByRequest(r)
    PROVE  Change /\ JobsRest
<1>1. Ends(r) /\ Change
  BY DEF ByRequest
<1>2. OnlyJob(r) /\ jobs'[r] = Idle
  BY <1>1, EndsJob
<1> QED BY <1>1, <1>2 DEF JobsRest, OnlyJob

\* A command leaves the requests alone.
LEMMA CommandChanges ==
    ASSUME jobs \in [Requests -> Job], ByCommand
    PROVE  Change /\ JobsRest
BY DEF ByCommand, JobsRest

\* What such an action does.
LEMMA AccountStep ==
    ASSUME PanelTypeOK, ChangesAccount
    PROVE  /\ Change /\ JobsRest /\ Frame
           /\ Created \/ (SameAccounts /\ (SameSecrets \/ Secured))
<1>0. UsersOK /\ jobs \in [Requests -> Job] /\ oidc \in BOOLEAN /\ changes \in 0..Bounds[oidc]
  BY DEF PanelTypeOK, UsersOK
<1>n. ASSUME Change, Frame PROVE SerialNow \in Serials
  BY <1>0, <1>n, ChangeNumber DEF Frame
<1>c. ASSUME Change, NEW login \in Logins, NEW admin \in BOOLEAN, CreateUser(login, admin)
      PROVE  Frame /\ Created
  <2>1. Frame
    BY <1>c DEF CreateUser, Frame
  <2> QED BY <1>0, <1>n, <1>c, <2>1, CreateRow DEF Created
<1>t. ASSUME NEW id, NEW s \in Serials, s \in {0, SerialNow}, NEW d \in {Never} \cup Near,
             users' = WithTOTP(id, s, d)
      PROVE  SameAccounts /\ Secured
  <2>1. /\ SameAccounts
        /\ \A i \in DOMAIN users :
             IF i = id THEN users'[i].secret = s /\ users'[i].ahead = d ELSE users'[i] = users[i]
    BY <1>0, <1>t, TOTPRow
  <2>2. SecuredAs(id, s, d)
    BY <1>t, <2>1 DEF SecuredAs
  <2> QED BY <2>1, <2>2, Zenon DEF Secured
<1>z. 0 \in Serials /\ Never \in {Never} \cup Near
  BY SerialsUpTo
<1>1. ASSUME NEW r \in Requests, userCreate(r)
      PROVE  Change /\ JobsRest /\ Frame /\ Created
  <2>1. ByRequest(r) /\ \E login \in Logins, admin \in BOOLEAN : CreateUser(login, admin)
    BY <1>1 DEF userCreate
  <2> QED BY <1>0, <2>1, <1>c, RequestChanges
<1>2. ASSUME NEW r \in Requests, ChangePassword(r)
      PROVE  Change /\ JobsRest /\ Frame /\ SameAccounts /\ SameSecrets
  <2>1. ByRequest(r) /\ Frame /\ \E new \in Passwords : users' = WithPassword(jobs[r].uid, new)
    BY <1>2 DEF ChangePassword, Rest, Frame
  <2> QED BY <1>0, <2>1, RequestChanges, PasswordRow
<1>3. ASSUME NEW r \in Requests, EnableTOTP(r)
      PROVE  Change /\ JobsRest /\ Frame /\ SameAccounts /\ Secured
  <2>1. ByRequest(r) /\ Frame /\ \E d \in checkTOTP(Never) : users' = WithTOTP(jobs[r].uid, SerialNow, d)
    BY <1>3 DEF EnableTOTP, Rest, Frame
  <2>2. checkTOTP(Never) \subseteq Near
    BY DEF checkTOTP
  <2>3. Change /\ JobsRest
    BY <1>0, <2>1, RequestChanges
  <2>4. SerialNow \in Serials
    BY <1>n, <2>1, <2>3
  <2> QED BY <2>1, <2>2, <2>3, <2>4, <1>t
<1>4. ASSUME NEW r \in Requests, DisableTOTP(r)
      PROVE  Change /\ JobsRest /\ Frame /\ SameAccounts /\ Secured
  <2>1. ByRequest(r) /\ Frame /\ users' = WithTOTP(jobs[r].uid, 0, Never)
    BY <1>4 DEF DisableTOTP, Rest, Frame
  <2> QED BY <1>0, <1>t, <1>z, <2>1, RequestChanges
<1>5. ASSUME ByCommand, NEW login \in Logins, NEW admin \in BOOLEAN, CreateUser(login, admin)
      PROVE  Change /\ JobsRest /\ Frame /\ Created
  BY <1>0, <1>5, <1>c, CommandChanges
<1>6. ASSUME AccountCommand
      PROVE  Change /\ JobsRest /\ Frame /\ SameAccounts /\ (SameSecrets \/ Secured)
  <2>1. Change /\ JobsRest /\ Frame
    BY <1>0, <1>6, CommandChanges DEF AccountCommand, Rest, Frame
  <2>2. PICK id \in DOMAIN users :
           \/ \E pw \in Passwords : users' = WithPassword(id, pw)
           \/ ResetTOTP(id)
           \/ \E bound \in BOOLEAN : BindOIDCEmail(id, bound)
    BY <1>6 DEF AccountCommand
  <2>3. CASE \E pw \in Passwords : users' = WithPassword(id, pw)
    BY <1>0, <2>1, <2>3, PasswordRow
  <2>4. CASE ResetTOTP(id)
    BY <1>t, <1>z, <2>1, <2>4 DEF ResetTOTP
  <2>5. CASE \E bound \in BOOLEAN : BindOIDCEmail(id, bound)
    BY <1>0, <2>1, <2>5, BindRow
  <2> QED BY <2>2, <2>3, <2>4, <2>5
<1> QED BY <1>1, <1>2, <1>3, <1>4, <1>5, <1>6, Zenon DEF ChangesAccount

\* The actions that delete an account.
Deletes ==
    \/ \E r \in Requests : userDelete(r)
    \/ Change /\ \E id \in DOMAIN users : DeleteUser(id) /\ jobs' = Crossed(id)

\* They mark the logins of that account.
LEMMA DeleteStep ==
    ASSUME PanelTypeOK, Deletes
    PROVE  /\ Change /\ jobs' \in [Requests -> Job]
           /\ UNCHANGED <<fails, oidc, cookie, flow, accepted>>
           /\ \E id \in DOMAIN users :
                /\ DeleteUser(id)
                /\ \A q \in Requests : jobs'[q] = Idle \/ jobs'[q] = Crossed(id)[q]
<1>0. jobs \in [Requests -> Job]
  BY DEF PanelTypeOK
<1>1. ASSUME NEW r \in Requests, userDelete(r)
      PROVE  /\ Change
             /\ \E id \in DOMAIN users :
                  /\ DeleteUser(id) /\ jobs' \in [Requests -> Job]
                  /\ \A q \in Requests : jobs'[q] = Idle \/ jobs'[q] = Crossed(id)[q]
  <2>1. Change /\ \E id \in DOMAIN users \ {jobs[r].uid} :
                    DeleteUser(id) /\ jobs' = [Crossed(id) EXCEPT ![r] = Idle]
    BY <1>1 DEF userDelete
  <2>2. PICK id \in DOMAIN users :
           DeleteUser(id) /\ jobs' = [Crossed(id) EXCEPT ![r] = Idle]
    BY <2>1
  <2>3. Crossed(id) \in [Requests -> Job]
    BY <1>0, CrossedJobs
  <2>4. /\ jobs' \in [Requests -> Job]
        /\ \A q \in Requests : jobs'[q] = Idle \/ jobs'[q] = Crossed(id)[q]
    BY <2>2, <2>3, IdleJob
  <2> QED BY <2>1, <2>2, <2>4
<1>2. ASSUME Change, NEW id \in DOMAIN users, DeleteUser(id), jobs' = Crossed(id)
      PROVE  /\ jobs' \in [Requests -> Job]
             /\ \A q \in Requests : jobs'[q] = Idle \/ jobs'[q] = Crossed(id)[q]
  BY <1>0, <1>2, CrossedJobs
<1>3. \A id : DeleteUser(id) => UNCHANGED <<fails, oidc, cookie, flow, accepted>>
  BY DEF DeleteUser
<1> QED BY <1>1, <1>2, <1>3 DEF Deletes

\* The kinds of steps that requests take.
Serves(r) ==
    \/ loginSubmit(r) \/ Login(r) \/ checkSecondFactor(r) \/ newSession(r) \/ failed(r)
    \/ oidcCallback(r) \/ exchange(r) \/ LoginOIDC(r) \/ Auth(r) \/ EndRequest(r)

\* Next, sorted by what its steps do.
LEMMA NextIs ==
    Next <=> \/ \E r \in Requests : Serves(r)
             \/ ChangesAccount \/ Deletes
             \/ \E b \in Browsers : oidcStart(b)
             \/ \E f \in Flows : ProviderAnswers(f)
             \/ \E t \in Tokens : logout(t)
             \/ Tick
<1>1. \A r \in Requests : Request(r) <=>
         \/ Serves(r) \/ userDelete(r)
         \/ userCreate(r) \/ ChangePassword(r) \/ EnableTOTP(r) \/ DisableTOTP(r)
  BY Zenon DEF Request, Serves
<1>2. UserCommand <=>
        \/ ByCommand /\ \E login \in Logins, admin \in BOOLEAN : CreateUser(login, admin)
        \/ Change /\ \E id \in DOMAIN users : DeleteUser(id) /\ jobs' = Crossed(id)
  BY Zenon DEF UserCommand
<1> QED BY <1>1, <1>2, Zenon DEF Next, ChangesAccount, Deletes

\* Every step keeps the types.
LEMMA ServesTypes ==
    ASSUME PanelTypeOK, NEW r \in Requests, Serves(r)
    PROVE  PanelTypeOK'
<1>0. TablesOK /\ WebOK /\ JobsOK /\ ChangesOK
  BY TypeParts
<1>1. CASE loginSubmit(r) \/ failed(r) \/ Auth(r) \/ EndRequest(r)
  BY <1>0, <1>1, PlainStep, TypePartsNext
     DEF TablesOK, UsersOK, WebOK, JobsOK, ChangesOK, OnlyJob
<1>2. CASE Login(r) \/ LoginOIDC(r)
  <2>1. OnlyJob(r)
    BY <1>2, LoginStep, LoginOIDCStep
  <2>2. UNCHANGED <<users, sessions, fails, oidc, cookie, flow, changes, accepted>>
    BY <1>2 DEF Login, LoginOIDC
  <2> QED BY <1>0, <2>1, <2>2, TypePartsNext
          DEF TablesOK, UsersOK, WebOK, JobsOK, ChangesOK, OnlyJob
<1>3. CASE checkSecondFactor(r)
  <2>1. OnlyJob(r) /\ SameAccounts
    BY <1>3, SecondFactorStep
  <2>2. UNCHANGED <<sessions, fails, oidc, cookie, flow, changes>>
    BY <1>3 DEF checkSecondFactor
  <2>3. accepted' \subseteq [secret : Serials, at : Near]
    <3>1. CASE accepted' = accepted
      BY <1>0, <3>1 DEF TablesOK
    <3>2. CASE /\ jobs[r].uid \in DOMAIN users
               /\ jobs'[r].code \in checkTOTP(users[jobs[r].uid].ahead)
               /\ accepted' = accepted \cup
                      {[secret |-> users[jobs[r].uid].secret, at |-> jobs'[r].code]}
      <4>1. jobs'[r].code \in Near
        BY <3>2 DEF checkTOTP
      <4>2. users[jobs[r].uid].secret \in Serials
        BY <1>0, <3>2 DEF TablesOK, UsersOK, Account
      <4> QED BY <1>0, <3>2, <4>1, <4>2 DEF TablesOK
    <3> QED BY <1>3, <3>1, <3>2, SecondFactorStep
  <2> QED BY <1>0, <2>1, <2>2, <2>3, TypePartsNext
          DEF TablesOK, UsersOK, WebOK, JobsOK, ChangesOK, OnlyJob, SameAccounts
<1>4. CASE newSession(r)
  <2>1. OnlyJob(r) /\ cookie' \in [Browsers -> Flows \cup {Nobody}]
    BY <1>4, NewSessionStep
  <2>2. sessions' \in [DOMAIN sessions' -> Session]
    BY <1>0, <1>4, NewSessionStep DEF TablesOK
  <2>3. UNCHANGED <<users, fails, oidc, flow, changes, accepted>>
    BY <1>4 DEF newSession
  <2> QED BY <1>0, <2>1, <2>2, <2>3, TypePartsNext
          DEF TablesOK, UsersOK, WebOK, JobsOK, ChangesOK, OnlyJob
<1>5. CASE oidcCallback(r)
  <2>1. OnlyJob(r)
    BY <1>5, CallbackStep
  <2>2. UNCHANGED <<users, sessions, fails, oidc, cookie, flow, changes, accepted>>
    BY <1>5 DEF oidcCallback
  <2> QED BY <1>0, <2>1, <2>2, TypePartsNext
          DEF TablesOK, UsersOK, WebOK, JobsOK, ChangesOK, OnlyJob
<1>6. CASE exchange(r)
  <2>1. OnlyJob(r) /\ flow' \in [Flows -> FlowType]
    BY <1>6, ExchangeStep
  <2>2. UNCHANGED <<users, sessions, fails, oidc, cookie, changes, accepted>>
    BY <1>6 DEF exchange
  <2> QED BY <1>0, <2>1, <2>2, TypePartsNext
          DEF TablesOK, UsersOK, WebOK, JobsOK, ChangesOK, OnlyJob, FlowType
<1> QED BY <1>1, <1>2, <1>3, <1>4, <1>5, <1>6 DEF Serves

\* A step of time keeps the types.
LEMMA TickTypes ==
    ASSUME PanelTypeOK, Tick
    PROVE  PanelTypeOK'
<1>0. TablesOK /\ WebOK /\ JobsOK /\ ChangesOK
  BY TypeParts
<1>1. SameAccounts
  BY <1>0, TickRow DEF TablesOK
<1>2. sessions' \in [DOMAIN sessions' -> Session]
  <2> DEFINE row(t) == [sessions[t] EXCEPT !.ttl = IF @ < 0 THEN @ ELSE @ - 1]
  <2>1. ASSUME NEW t \in DOMAIN sessions PROVE row(t) \in Session
    <3>1. sessions[t] \in Session
      BY <1>0 DEF TablesOK
    <3>2. sessions[t].ttl \in -1..SessionTTL
      BY <3>1 DEF Session
    <3>3. (IF sessions[t].ttl < 0 THEN sessions[t].ttl ELSE sessions[t].ttl - 1) \in -1..SessionTTL
      BY <3>2, PanelAssumption
    <3> QED BY <3>1, <3>3 DEF Session
  <2>2. sessions' = [t \in DOMAIN sessions |-> row(t)]
    BY DEF Tick
  <2> HIDE DEF row
  <2> QED BY <2>1, <2>2
<1>3. accepted' \subseteq [secret : Serials, at : Near]
  <2>1. ASSUME NEW c \in accepted, c.at > -Skew
        PROVE  [c EXCEPT !.at = @ - 1] \in [secret : Serials, at : Near]
    <3>1. c \in [secret : Serials, at : Near]
      BY <1>0 DEF TablesOK
    <3>2. c.at - 1 \in Near
      BY <2>1, <3>1, PanelAssumption DEF Near
    <3> QED BY <3>1, <3>2
  <2> QED BY <2>1 DEF Tick
<1>4. fails' \in [Kinds -> [Ages -> Nat]]
  BY <1>0, CountedType DEF WebOK, Tick
<1>5. UNCHANGED <<jobs, oidc, cookie, flow, changes>>
  BY DEF Tick
<1> QED BY <1>0, <1>1, <1>2, <1>3, <1>4, <1>5, TypePartsNext
        DEF TablesOK, UsersOK, WebOK, JobsOK, ChangesOK, SameAccounts

\* So does every other step.
LEMMA NextTypes == PanelTypeOK /\ [Next]_vars => PanelTypeOK'
<1>1. SUFFICES ASSUME PanelTypeOK, [Next]_vars PROVE PanelTypeOK'
  OBVIOUS
<1>0. TablesOK /\ WebOK /\ JobsOK /\ ChangesOK
  BY <1>1, TypeParts
<1>2. CASE ChangesAccount
  <2>1. /\ Change /\ JobsRest /\ Frame
        /\ Created \/ (SameAccounts /\ (SameSecrets \/ Secured))
    BY <1>1, <1>2, AccountStep
  <2>2. UsersOK'
    BY <1>0, <2>1 DEF TablesOK, UsersOK, Created, SameAccounts
  <2>3. ChangesOK'
    BY <1>0, <2>1, ChangeNumber DEF ChangesOK, Frame
  <2> QED BY <1>0, <2>1, <2>2, <2>3, TypePartsNext DEF TablesOK, WebOK, JobsOK, Frame, JobsRest
<1>3. CASE Deletes
  <2>1. PICK id \in DOMAIN users : DeleteUser(id)
    BY <1>1, <1>3, DeleteStep
  <2>2. Change /\ jobs' \in [Requests -> Job] /\ UNCHANGED <<fails, oidc, cookie, flow, accepted>>
    BY <1>1, <1>3, DeleteStep
  <2>3. ChangesOK'
    BY <1>0, <2>2, ChangeNumber DEF ChangesOK
  <2>4. UsersOK' /\ sessions' \in [DOMAIN sessions' -> Session]
    BY <1>0, <2>1, DeleteRow DEF TablesOK, UsersOK
  <2> QED BY <1>0, <2>2, <2>3, <2>4, TypePartsNext DEF TablesOK, WebOK, JobsOK
<1>4. ASSUME NEW b \in Browsers, oidcStart(b) PROVE PanelTypeOK'
  <2>1. UNCHANGED <<users, sessions, jobs, oidc, changes, accepted>>
    BY <1>4 DEF oidcStart
  <2>2. CASE authURL(b)
    <3>1. /\ flow' \in [Flows -> FlowType] /\ cookie' \in [Browsers -> Flows \cup {Nobody}]
          /\ UNCHANGED fails
      BY <1>0, <2>2, FlowBegins DEF WebOK, FlowType, authURL
    <3> QED BY <1>0, <2>1, <3>1, TypePartsNext
            DEF TablesOK, UsersOK, WebOK, JobsOK, ChangesOK, FlowType
  <2>3. CASE discoverFails
    <3>1. fails' \in [Kinds -> [Ages -> Nat]] /\ UNCHANGED <<flow, cookie>>
      BY <1>0, <2>3, CountedType DEF discoverFails, WebOK, Kinds
    <3> QED BY <1>0, <2>1, <3>1, TypePartsNext DEF TablesOK, UsersOK, WebOK, JobsOK, ChangesOK
  <2> QED BY <1>4, <2>2, <2>3 DEF oidcStart
<1>5. ASSUME NEW f \in Flows, ProviderAnswers(f) PROVE PanelTypeOK'
  <2>1. UNCHANGED <<users, sessions, jobs, fails, oidc, cookie, changes, accepted>>
    BY <1>5 DEF ProviderAnswers
  <2>2. flow' \in [Flows -> FlowType]
    BY <1>0, <1>5, FlowCode DEF ProviderAnswers, WebOK, FlowType
  <2> QED BY <1>0, <2>1, <2>2, TypePartsNext
          DEF TablesOK, UsersOK, WebOK, JobsOK, ChangesOK, FlowType
<1>6. ASSUME NEW t \in Tokens, logout(t) PROVE PanelTypeOK'
  <2>1. UNCHANGED <<users, jobs, fails, oidc, cookie, flow, changes, accepted>>
    BY <1>6 DEF logout
  <2>2. sessions' \in [DOMAIN sessions' -> Session]
    BY <1>0, <1>6 DEF logout, TablesOK
  <2> QED BY <1>0, <2>1, <2>2, TypePartsNext DEF TablesOK, UsersOK, WebOK, JobsOK, ChangesOK
<1>7. CASE UNCHANGED vars
  BY <1>0, <1>7, TypePartsNext DEF vars, TablesOK, UsersOK, WebOK, JobsOK, ChangesOK
<1> QED BY <1>1, <1>2, <1>3, <1>4, <1>5, <1>6, <1>7, NextIs, ServesTypes, TickTypes

------------------------------------------------------------------------------
(* Sessions belong to the account that signed in. *)

\* No account is deleted.
RowsStay ==
    /\ DOMAIN users \subseteq DOMAIN users'
    /\ \A id \in DOMAIN users : users'[id].acct = users[id].acct

\* Request q's login is as before, or of an account it has just read.
SameLogin(q) ==
    jobs'[q].at \in {"code", "open"} =>
      \/ /\ jobs[q].at \in {"code", "open"}
         /\ jobs'[q].uid = jobs[q].uid /\ jobs'[q].acct = jobs[q].acct
         /\ jobs[q].crossed => jobs'[q].crossed
      \/ jobs'[q].uid \in DOMAIN users /\ jobs'[q].acct = users[jobs'[q].uid].acct

\* Such steps keep every login owned.
LEMMA LoginsStayOwned ==
    ASSUME LoginsOwned, RowsStay, \A q \in Requests : SameLogin(q)
    PROVE  LoginsOwned'
BY DEF LoginsOwned, RowsStay, SameLogin

\* The sessions that were there stay owned, too.
LEMMA SessionsStayOwned ==
    ASSUME SessionsOwned, RowsStay, DOMAIN sessions' \subseteq DOMAIN sessions,
           \A t \in DOMAIN sessions' :
             /\ sessions'[t].uid = sessions[t].uid /\ sessions'[t].acct = sessions[t].acct
             /\ sessions'[t].crossed = sessions[t].crossed
    PROVE  SessionsOwned'
BY DEF SessionsOwned, RowsStay

\* A request that is served keeps both.
LEMMA ServesOwned ==
    ASSUME PanelTypeOK, LoginsOwned, SessionsOwned, NEW r \in Requests, Serves(r)
    PROVE  LoginsOwned' /\ SessionsOwned'
<1>a. ASSUME OnlyJob(r), SameLogin(r) PROVE \A q \in Requests : SameLogin(q)
  BY <1>a DEF OnlyJob, SameLogin
<1>b. ASSUME UNCHANGED <<users, sessions>> PROVE RowsStay /\ SessionsOwned'
  BY <1>b DEF RowsStay, SessionsOwned
<1>1. CASE loginSubmit(r) \/ failed(r) \/ Auth(r) \/ EndRequest(r)
  <2>1. OnlyJob(r) /\ SameLogin(r) /\ UNCHANGED <<users, sessions>>
    BY <1>1, PlainStep DEF SameLogin
  <2> QED BY <1>a, <1>b, <2>1, LoginsStayOwned
<1>2. CASE Login(r) \/ LoginOIDC(r)
  <2>1. OnlyJob(r) /\ SameLogin(r)
    BY <1>2, LoginStep, LoginOIDCStep DEF SameLogin
  <2>2. UNCHANGED <<users, sessions>>
    BY <1>2 DEF Login, LoginOIDC
  <2> QED BY <1>a, <1>b, <2>1, <2>2, LoginsStayOwned
<1>3. CASE checkSecondFactor(r)
  <2>1. jobs[r].at = "code" /\ sessions' = sessions
    BY <1>3 DEF checkSecondFactor
  <2>2. OnlyJob(r) /\ SameLogin(r)
    BY <1>3, <2>1, SecondFactorStep DEF SameLogin
  <2>3. RowsStay
    BY <1>3, SecondFactorStep DEF SameAccounts, RowsStay
  <2>4. SessionsOwned'
    BY <2>1, <2>3, SessionsStayOwned
  <2> QED BY <1>a, <2>2, <2>3, <2>4, LoginsStayOwned
<1>4. CASE newSession(r)
  <2>1. jobs[r].at = "open" /\ users' = users
    BY <1>4 DEF newSession
  <2>2. OnlyJob(r) /\ SameLogin(r)
    BY <1>4, NewSessionStep DEF SameLogin
  <2>3. RowsStay
    BY <2>1 DEF RowsStay
  <2>4. SessionsOwned'
    <3>1. CASE sessions' = sessions
      BY <2>3, <3>1, SessionsStayOwned
    <3>2. ASSUME NEW t \in Tokens \ DOMAIN sessions,
                 jobs[r].uid \in DOMAIN users,
                 DOMAIN sessions' = DOMAIN sessions \cup {t},
                 sessions'[t].uid = jobs[r].uid, sessions'[t].acct = jobs[r].acct,
                 sessions'[t].crossed = jobs[r].crossed,
                 \A s \in DOMAIN sessions : sessions'[s] = sessions[s]
          PROVE  SessionsOwned'
      <4>1. jobs[r].crossed \/ jobs[r].acct = users[jobs[r].uid].acct
        BY <2>1 DEF LoginsOwned
      <4> QED BY <2>1, <3>2, <4>1 DEF SessionsOwned
    <3> QED BY <1>4, <3>1, <3>2, NewSessionStep
  <2> QED BY <1>a, <2>2, <2>3, <2>4, LoginsStayOwned
<1>5. CASE oidcCallback(r)
  <2>1. OnlyJob(r) /\ SameLogin(r)
    BY <1>5, CallbackStep DEF SameLogin
  <2>2. UNCHANGED <<users, sessions>>
    BY <1>5 DEF oidcCallback
  <2> QED BY <1>a, <1>b, <2>1, <2>2, LoginsStayOwned
<1>6. CASE exchange(r)
  <2>1. OnlyJob(r) /\ SameLogin(r)
    BY <1>6, ExchangeStep DEF SameLogin
  <2>2. UNCHANGED <<users, sessions>>
    BY <1>6 DEF exchange
  <2> QED BY <1>a, <1>b, <2>1, <2>2, LoginsStayOwned
<1> QED BY <1>1, <1>2, <1>3, <1>4, <1>5, <1>6 DEF Serves

\* Deleting an account marks its logins and takes its sessions.
LEMMA DeletesOwned ==
    ASSUME PanelTypeOK, LoginsOwned, SessionsOwned, Deletes
    PROVE  LoginsOwned' /\ SessionsOwned'
<1>0. UsersOK /\ jobs \in [Requests -> Job] /\ sessions \in [DOMAIN sessions -> Session]
  BY DEF PanelTypeOK, UsersOK
<1>1. PICK id \in DOMAIN users :
         DeleteUser(id) /\ \A q \in Requests : jobs'[q] = Idle \/ jobs'[q] = Crossed(id)[q]
  BY DeleteStep
<1>2. /\ DOMAIN users' = DOMAIN users \ {id}
      /\ \A i \in DOMAIN users' : users'[i] = users[i]
      /\ DOMAIN sessions' \subseteq DOMAIN sessions
      /\ \A t \in DOMAIN sessions' : sessions'[t] = sessions[t] /\ sessions[t].uid # id
  BY <1>0, <1>1, DeleteRow
<1>3. SessionsOwned'
  BY <1>2 DEF SessionsOwned
<1>4. ASSUME NEW q \in Requests, jobs'[q].at \in {"code", "open"}
      PROVE  \/ jobs'[q].crossed
             \/ jobs'[q].uid \in DOMAIN users' /\ jobs'[q].acct = users'[jobs'[q].uid].acct
  <2>1. Idle.at = "idle"
    BY DEF Idle
  <2>2. jobs'[q] = Crossed(id)[q]
    BY <1>1, <1>4, <2>1
  <2>3. /\ jobs'[q].at = jobs[q].at /\ jobs'[q].uid = jobs[q].uid /\ jobs'[q].acct = jobs[q].acct
        /\ jobs[q].crossed => jobs'[q].crossed
        /\ jobs[q].uid = id /\ jobs[q].at \in {"code", "open"} => jobs'[q].crossed
    BY <1>0, <2>2, CrossedJobs
  <2> QED BY <1>2, <1>4, <2>3 DEF LoginsOwned
<1> QED BY <1>3, <1>4 DEF LoginsOwned

\* Every step keeps both.
LEMMA NextOwned ==
    PanelTypeOK /\ LoginsOwned /\ SessionsOwned /\ [Next]_vars => LoginsOwned' /\ SessionsOwned'
<1>1. SUFFICES ASSUME PanelTypeOK, LoginsOwned, SessionsOwned, [Next]_vars
               PROVE  LoginsOwned' /\ SessionsOwned'
  OBVIOUS
<1>a. ASSUME jobs' = jobs PROVE \A q \in Requests : SameLogin(q)
  BY <1>a DEF SameLogin
<1>2. CASE ChangesAccount
  <2>1. /\ JobsRest /\ sessions' = sessions
        /\ Created \/ SameAccounts
    BY <1>1, <1>2, AccountStep DEF Frame
  <2>2. RowsStay
    BY <2>1 DEF Created, SameAccounts, RowsStay
  <2>3. \A q \in Requests : SameLogin(q)
    <3>1. Idle.at = "idle"
      BY DEF Idle
    <3> QED BY <2>1, <3>1 DEF SameLogin, JobsRest
  <2> QED BY <1>1, <2>1, <2>2, <2>3, LoginsStayOwned, SessionsStayOwned
<1>3. CASE (\E b \in Browsers : oidcStart(b)) \/ (\E f \in Flows : ProviderAnswers(f)) \/ UNCHANGED vars
  <2>1. UNCHANGED <<users, sessions, jobs>>
    BY <1>3 DEF oidcStart, ProviderAnswers, vars
  <2>2. RowsStay
    BY <2>1 DEF RowsStay
  <2> QED BY <1>1, <1>a, <2>1, <2>2, LoginsStayOwned, SessionsStayOwned
<1>4. ASSUME NEW t \in Tokens, logout(t) PROVE LoginsOwned' /\ SessionsOwned'
  <2>1. UNCHANGED <<users, jobs>>
    BY <1>4 DEF logout
  <2>2. RowsStay
    BY <2>1 DEF RowsStay
  <2>3. DOMAIN sessions' \subseteq DOMAIN sessions /\ \A s \in DOMAIN sessions' : sessions'[s] = sessions[s]
    BY <1>4 DEF logout
  <2> QED BY <1>1, <1>a, <2>1, <2>2, <2>3, LoginsStayOwned, SessionsStayOwned
<1>5. CASE Tick
  <2>1. RowsStay
    BY <1>1, <1>5, TickRow DEF PanelTypeOK, UsersOK, SameAccounts, RowsStay
  <2>2. jobs' = jobs
    BY <1>5 DEF Tick
  <2>3. DOMAIN sessions' = DOMAIN sessions /\
        \A t \in DOMAIN sessions :
             /\ sessions'[t].uid = sessions[t].uid /\ sessions'[t].acct = sessions[t].acct
             /\ sessions'[t].crossed = sessions[t].crossed
    <3> DEFINE row(t) == [sessions[t] EXCEPT !.ttl = IF @ < 0 THEN @ ELSE @ - 1]
    <3>1. ASSUME NEW t \in DOMAIN sessions
          PROVE  /\ row(t).uid = sessions[t].uid /\ row(t).acct = sessions[t].acct
                 /\ row(t).crossed = sessions[t].crossed
      <4>1. sessions[t] \in Session
        BY <1>1 DEF PanelTypeOK
      <4> QED BY <4>1 DEF Session
    <3>2. sessions' = [t \in DOMAIN sessions |-> row(t)]
      BY <1>5 DEF Tick
    <3> HIDE DEF row
    <3> QED BY <3>1, <3>2
  <2> QED BY <1>1, <1>a, <2>1, <2>2, <2>3, LoginsStayOwned, SessionsStayOwned
<1> QED BY <1>1, <1>2, <1>3, <1>4, <1>5, NextIs, ServesOwned, DeletesOwned

------------------------------------------------------------------------------
(* A callback signs in with the answer to its browser's own flow. *)

\* A flow that has begun stays its browser's, and a used answer used.
FlowsStay ==
    \A f \in Flows : /\ flow[f].by # Nobody => flow'[f].by = flow[f].by
                     /\ flow[f].code = "used" => flow'[f].code = "used"

\* Request q's callback is as before, or over.
SameCallback(q) ==
    jobs'[q].at \in {"exchange", "email"} =>
        /\ jobs'[q].at = jobs[q].at /\ jobs'[q].browser = jobs[q].browser
        /\ jobs'[q].flow = jobs[q].flow /\ jobs'[q].given = jobs[q].given

\* A cookie is as before, or gone, or of a flow that its browser has begun.
CookiesOwn ==
    \A b \in Browsers :
        \/ cookie'[b] \in {cookie[b], Nobody}
        \/ cookie'[b] \in Flows /\ flow'[cookie'[b]].by = b

\* Cookies stay their browsers'.
LEMMA CookiesStayOwned ==
    ASSUME PanelTypeOK, FlowsOwned, FlowsStay, CookiesOwn
    PROVE  \A b \in Browsers : cookie'[b] # Nobody => flow'[cookie'[b]].by = b
<1>1. SUFFICES ASSUME NEW b \in Browsers, cookie'[b] = cookie[b], cookie[b] # Nobody
               PROVE  flow'[cookie[b]].by = b
  BY DEF CookiesOwn
<1>2. cookie[b] \in Flows
  BY <1>1 DEF PanelTypeOK
<1>3. flow[cookie[b]].by = b /\ b # Nobody
  BY <1>1, PanelAssumption DEF FlowsOwned
<1> QED BY <1>2, <1>3 DEF FlowsStay

\* A callback that goes on is still of its browser's flow.
LEMMA CallbackStaysOwned ==
    ASSUME FlowsOwned, OwnFlow, FlowsStay, NEW q \in Requests, SameCallback(q)
    PROVE  /\ jobs'[q].at = "exchange" => /\ jobs'[q].browser \in Browsers
                                          /\ {jobs'[q].flow, jobs'[q].given} \subseteq Flows
                                          /\ flow'[jobs'[q].flow].by = jobs'[q].browser
           /\ jobs'[q].at = "email" => /\ jobs'[q].browser \in Browsers /\ jobs'[q].given \in Flows
                                       /\ flow'[jobs'[q].given].code = "used"
                                       /\ flow'[jobs'[q].given].by = jobs'[q].browser
<1>0. Nobody \notin Browsers
  BY PanelAssumption
<1>1. CASE jobs'[q].at = "exchange"
  <2>1. /\ jobs[q].at = "exchange" /\ jobs'[q].browser = jobs[q].browser
        /\ jobs'[q].flow = jobs[q].flow /\ jobs'[q].given = jobs[q].given
    BY <1>1 DEF SameCallback
  <2>2. /\ jobs[q].browser \in Browsers /\ jobs[q].flow \in Flows /\ jobs[q].given \in Flows
        /\ flow[jobs[q].flow].by = jobs[q].browser
    BY <2>1 DEF FlowsOwned
  <2>3. flow'[jobs[q].flow].by = jobs[q].browser
    BY <1>0, <2>2 DEF FlowsStay
  <2> QED BY <1>1, <2>1, <2>2, <2>3
<1>2. CASE jobs'[q].at = "email"
  <2>1. /\ jobs[q].at = "email" /\ jobs'[q].browser = jobs[q].browser
        /\ jobs'[q].given = jobs[q].given
    BY <1>2 DEF SameCallback
  <2>2. /\ jobs[q].browser \in Browsers /\ jobs[q].given \in Flows
        /\ flow[jobs[q].given].code = "used" /\ flow[jobs[q].given].by = jobs[q].browser
    BY <2>1 DEF FlowsOwned, OwnFlow
  <2>3. flow'[jobs[q].given].by = jobs[q].browser /\ flow'[jobs[q].given].code = "used"
    BY <1>0, <2>2 DEF FlowsStay
  <2> QED BY <1>2, <2>1, <2>2, <2>3
<1> QED BY <1>1, <1>2

\* When every callback is as before, all are owned.
LEMMA FlowsStayOwned ==
    ASSUME PanelTypeOK, FlowsOwned, OwnFlow, FlowsStay, CookiesOwn,
           \A q \in Requests : SameCallback(q)
    PROVE  FlowsOwned' /\ OwnFlow'
<1>1. FlowsOwned'
  BY CookiesStayOwned, CallbackStaysOwned DEF FlowsOwned
<1>2. \A q \in Requests : jobs'[q].at = "email" => flow'[jobs'[q].given].by = jobs'[q].browser
  BY CallbackStaysOwned
<1>3. \A q \in Requests : jobs'[q].at = "email" => jobs[q].at = "email" /\ jobs'[q].given = jobs[q].given
  BY DEF SameCallback
<1>4. \A r, q \in Requests :
         r # q /\ jobs'[r].at = "email" /\ jobs'[q].at = "email" => jobs'[r].given # jobs'[q].given
  BY <1>3 DEF OwnFlow
<1> QED BY <1>1, <1>2, <1>4 DEF OwnFlow

\* The exchange of a code: nobody else has used it.
LEMMA ExchangeOwned ==
    ASSUME PanelTypeOK, FlowsOwned, OwnFlow, NEW r \in Requests, exchange(r)
    PROVE  FlowsOwned' /\ OwnFlow'
<1>1. jobs[r].at = "exchange" /\ cookie' = cookie
  BY DEF exchange
<1>2. CookiesOwn
  BY <1>1 DEF CookiesOwn
<1>3. /\ OnlyJob(r)
      /\ \A f \in Flows : /\ flow'[f].by = flow[f].by
                          /\ flow[f].code = "used" => flow'[f].code = "used"
      /\ \/ jobs'[r].at = "failed"
         \/ /\ jobs'[r].at = "email" /\ jobs'[r].given = jobs[r].given
            /\ jobs'[r].browser = jobs[r].browser
            /\ jobs[r].given = jobs[r].flow
            /\ flow[jobs[r].given].code = "given"
            /\ jobs[r].given \in Flows => flow'[jobs[r].given].code = "used"
  BY ExchangeStep
<1>4. FlowsStay
  BY <1>3 DEF FlowsStay
<1>5. \A q \in Requests : q # r => SameCallback(q)
  BY <1>3 DEF OnlyJob, SameCallback
<1>6. CASE jobs'[r].at = "failed"
  <2>1. SameCallback(r)
    BY <1>6 DEF SameCallback
  <2> QED BY <1>2, <1>4, <1>5, <2>1, FlowsStayOwned
<1>7. CASE /\ jobs'[r].at = "email" /\ jobs'[r].given = jobs[r].given
           /\ jobs'[r].browser = jobs[r].browser
           /\ jobs[r].given = jobs[r].flow
           /\ flow[jobs[r].given].code = "given"
           /\ jobs[r].given \in Flows => flow'[jobs[r].given].code = "used"
  <2>1. /\ jobs[r].browser \in Browsers /\ jobs[r].given \in Flows
        /\ flow[jobs[r].given].by = jobs[r].browser
    BY <1>1, <1>7 DEF FlowsOwned
  <2>2. /\ jobs'[r].browser \in Browsers /\ jobs'[r].given \in Flows
        /\ flow'[jobs'[r].given].code = "used" /\ flow'[jobs'[r].given].by = jobs'[r].browser
    BY <1>3, <1>7, <2>1
  <2>3. FlowsOwned'
    BY <1>2, <1>4, <1>5, <1>7, <2>2, CookiesStayOwned, CallbackStaysOwned DEF FlowsOwned
  <2>4. \A q \in Requests : jobs'[q].at = "email" => flow'[jobs'[q].given].by = jobs'[q].browser
    BY <1>4, <1>5, <2>2, CallbackStaysOwned
  <2>5. \A q \in Requests : q # r /\ jobs'[q].at = "email"
           => /\ jobs[q].at = "email" /\ jobs'[q].given = jobs[q].given
              /\ flow[jobs[q].given].code = "used"
    BY <1>5 DEF SameCallback, FlowsOwned
  <2>6. \A q \in Requests : q # r /\ jobs'[q].at = "email" => jobs'[q].given # jobs'[r].given
    BY <1>7, <2>5
  <2>7. \A p, q \in Requests :
           p # q /\ jobs'[p].at = "email" /\ jobs'[q].at = "email" => jobs'[p].given # jobs'[q].given
    BY <2>5, <2>6 DEF OwnFlow
  <2> QED BY <2>3, <2>4, <2>7 DEF OwnFlow
<1> QED BY <1>3, <1>6, <1>7

\* A callback takes the flow of its browser's cookie.
LEMMA CallbackOwned ==
    ASSUME PanelTypeOK, FlowsOwned, OwnFlow, NEW r \in Requests, oidcCallback(r)
    PROVE  FlowsOwned' /\ OwnFlow'
<1>1. UNCHANGED <<cookie, flow>>
  BY DEF oidcCallback
<1>2. CookiesOwn /\ FlowsStay
  BY <1>1 DEF CookiesOwn, FlowsStay
<1>3. /\ OnlyJob(r)
      /\ \/ jobs'[r].at = "failed"
         \/ /\ jobs'[r].at = "exchange" /\ jobs'[r].browser \in Browsers
            /\ cookie[jobs'[r].browser] # Nobody /\ jobs'[r].flow = cookie[jobs'[r].browser]
            /\ jobs'[r].flow \in Flows /\ jobs'[r].given \in Flows
  BY CallbackStep
<1>4. \A q \in Requests : q # r => SameCallback(q)
  BY <1>3 DEF OnlyJob, SameCallback
<1>5. CASE jobs'[r].at = "failed"
  <2>1. SameCallback(r)
    BY <1>5 DEF SameCallback
  <2> QED BY <1>2, <1>4, <2>1, FlowsStayOwned
<1>6. CASE /\ jobs'[r].at = "exchange" /\ jobs'[r].browser \in Browsers
           /\ cookie[jobs'[r].browser] # Nobody /\ jobs'[r].flow = cookie[jobs'[r].browser]
           /\ jobs'[r].flow \in Flows /\ jobs'[r].given \in Flows
  <2>1. flow'[jobs'[r].flow].by = jobs'[r].browser
    BY <1>1, <1>6 DEF FlowsOwned
  <2>2. FlowsOwned'
    BY <1>2, <1>4, <1>6, <2>1, CookiesStayOwned, CallbackStaysOwned DEF FlowsOwned
  <2>3. \A q \in Requests : jobs'[q].at = "email" => q # r
    BY <1>6
  <2>4. \A q \in Requests : jobs'[q].at = "email" => jobs[q].at = "email" /\ jobs'[q].given = jobs[q].given
    BY <1>4, <2>3 DEF SameCallback
  <2>5. \A q \in Requests : jobs'[q].at = "email" => flow'[jobs'[q].given].by = jobs'[q].browser
    BY <1>2, <1>4, <2>3, CallbackStaysOwned
  <2> QED BY <2>2, <2>4, <2>5 DEF OwnFlow
<1> QED BY <1>3, <1>5, <1>6

\* Every step keeps the flows owned.
LEMMA NextFlows ==
    PanelTypeOK /\ FlowsOwned /\ OwnFlow /\ [Next]_vars => FlowsOwned' /\ OwnFlow'
<1>1. SUFFICES ASSUME PanelTypeOK, FlowsOwned, OwnFlow, [Next]_vars
               PROVE  FlowsOwned' /\ OwnFlow'
  OBVIOUS
<1>a. ASSUME flow' = flow PROVE FlowsStay
  BY <1>a DEF FlowsStay
<1>b. ASSUME \A b \in Browsers : cookie'[b] \in {cookie[b], Nobody} PROVE CookiesOwn
  BY <1>b DEF CookiesOwn
<1>c. ASSUME jobs' = jobs PROVE \A q \in Requests : SameCallback(q)
  BY <1>c DEF SameCallback
<1>d. ASSUME NEW r \in Requests, OnlyJob(r), jobs'[r].at \notin {"exchange", "email"}
      PROVE  \A q \in Requests : SameCallback(q)
  BY <1>d DEF SameCallback, OnlyJob
<1>i. Idle.at = "idle"
  BY DEF Idle
<1>2. ASSUME NEW r \in Requests, Serves(r) PROVE FlowsOwned' /\ OwnFlow'
  <2>1. CASE loginSubmit(r) \/ failed(r) \/ Auth(r) \/ EndRequest(r)
    <3>1. OnlyJob(r) /\ jobs'[r].at \notin {"exchange", "email"} /\ flow' = flow /\ CookiesOwn
      BY <1>1, <1>b, <2>1, PlainStep
    <3> QED BY <1>1, <1>a, <1>d, <3>1, FlowsStayOwned
  <2>2. CASE Login(r) \/ LoginOIDC(r)
    <3>1. OnlyJob(r) /\ jobs'[r].at \notin {"exchange", "email"}
      BY <1>1, <2>2, LoginStep, LoginOIDCStep
    <3>2. UNCHANGED <<cookie, flow>>
      BY <2>2 DEF Login, LoginOIDC
    <3> QED BY <1>1, <1>a, <1>b, <1>d, <3>1, <3>2, FlowsStayOwned
  <2>3. CASE checkSecondFactor(r)
    <3>1. OnlyJob(r) /\ jobs'[r].at \notin {"exchange", "email"}
      BY <1>1, <2>3, SecondFactorStep
    <3>2. UNCHANGED <<cookie, flow>>
      BY <2>3 DEF checkSecondFactor
    <3> QED BY <1>1, <1>a, <1>b, <1>d, <3>1, <3>2, FlowsStayOwned
  <2>4. CASE newSession(r)
    <3>1. OnlyJob(r) /\ jobs'[r].at \notin {"exchange", "email"} /\ CookiesOwn
      BY <1>1, <1>b, <2>4, NewSessionStep
    <3>2. flow' = flow
      BY <2>4 DEF newSession
    <3> QED BY <1>1, <1>a, <1>d, <3>1, <3>2, FlowsStayOwned
  <2> QED BY <1>1, <1>2, <2>1, <2>2, <2>3, <2>4, CallbackOwned, ExchangeOwned DEF Serves
<1>3. CASE ChangesAccount
  <2>1. JobsRest /\ UNCHANGED <<cookie, flow>>
    BY <1>1, <1>3, AccountStep DEF Frame
  <2>2. \A q \in Requests : SameCallback(q)
    BY <1>i, <2>1 DEF JobsRest, SameCallback
  <2> QED BY <1>1, <1>a, <1>b, <2>1, <2>2, FlowsStayOwned
<1>4. CASE Deletes
  <2>0. jobs \in [Requests -> Job]
    BY <1>1 DEF PanelTypeOK
  <2>1. PICK id \in DOMAIN users : \A q \in Requests : jobs'[q] = Idle \/ jobs'[q] = Crossed(id)[q]
    BY <1>1, <1>4, DeleteStep
  <2>2. UNCHANGED <<cookie, flow>>
    BY <1>1, <1>4, DeleteStep
  <2>3. \A q \in Requests : SameCallback(q)
    BY <1>i, <2>0, <2>1, CrossedJobs DEF SameCallback
  <2> QED BY <1>1, <1>a, <1>b, <2>2, <2>3, FlowsStayOwned
<1>5. ASSUME NEW b \in Browsers, oidcStart(b) PROVE FlowsOwned' /\ OwnFlow'
  <2>1. jobs' = jobs
    BY <1>5 DEF oidcStart
  <2>2. CASE authURL(b)
    <3>1. PICK f \in Flows :
                /\ flow[f].by = Nobody /\ flow'[f].by = b /\ flow'[f].code = flow[f].code
                /\ \A g \in Flows : g # f => flow'[g] = flow[g]
                /\ cookie'[b] = f /\ \A a \in Browsers : a # b => cookie'[a] = cookie[a]
      BY <1>1, <2>2, FlowBegins DEF PanelTypeOK, FlowType
    <3>2. FlowsStay /\ CookiesOwn
      BY <3>1 DEF FlowsStay, CookiesOwn
    <3> QED BY <1>1, <1>c, <2>1, <3>2, FlowsStayOwned
  <2>3. CASE discoverFails
    BY <1>1, <1>a, <1>b, <1>c, <2>1, <2>3, FlowsStayOwned DEF discoverFails
  <2> QED BY <1>5, <2>2, <2>3 DEF oidcStart
<1>6. ASSUME NEW f \in Flows, ProviderAnswers(f) PROVE FlowsOwned' /\ OwnFlow'
  <2>1. UNCHANGED <<jobs, cookie>> /\ flow[f].code = "none" /\ flow' = [flow EXCEPT ![f].code = "given"]
    BY <1>6 DEF ProviderAnswers
  <2>2. \A g \in Flows : /\ flow'[g].by = flow[g].by
                         /\ flow'[g].code = IF g = f THEN "given" ELSE flow[g].code
    BY <1>1, <2>1, FlowCode DEF PanelTypeOK, FlowType
  <2>3. FlowsStay
    BY <2>1, <2>2 DEF FlowsStay
  <2> QED BY <1>1, <1>b, <1>c, <2>1, <2>3, FlowsStayOwned
<1>7. CASE (\E t \in Tokens : logout(t)) \/ Tick \/ UNCHANGED vars
  <2>1. UNCHANGED <<jobs, cookie, flow>>
    BY <1>7 DEF logout, Tick, vars
  <2> QED BY <1>1, <1>a, <1>b, <1>c, <2>1, FlowsStayOwned
<1> QED BY <1>1, <1>2, <1>3, <1>4, <1>5, <1>6, <1>7, NextIs

------------------------------------------------------------------------------
(* A code works once. *)

\* The number of the next change is a number.
LEMMA SerialIsNat ==
    ASSUME oidc \in BOOLEAN, changes \in 0..Bounds[oidc]
    PROVE  SerialNow \in Nat \ {0}
<1>1. \A x \in Nat : \A c \in 0..x : x - c + 1 \in Nat \ {0}
  OBVIOUS
<1>2. Bounds \in [BOOLEAN -> Nat]
  BY PanelAssumption
<1>3. Bounds[oidc] \in Nat
  BY <1>2, Zenon
<1>4. Bounds[oidc] - changes + 1 \in Nat \ {0}
  BY <1>1, <1>3
<1> QED BY <1>4 DEF SerialNow

\* The numbers in the tables.
LEMMA SecretNumbers ==
    ASSUME PanelTypeOK
    PROVE  /\ SerialNow \in Nat \ {0}
           /\ \A id \in DOMAIN users : users[id].secret \in Nat /\ users[id].ahead \in Int
           /\ \A c \in accepted : c.secret \in Nat /\ c.at \in Near
<1>1. SerialNow \in Nat \ {0}
  BY SerialIsNat DEF PanelTypeOK
<1>2. {Never} \cup Near \subseteq Int
  BY PanelAssumption DEF Never, Near
<1>3. \A id \in DOMAIN users : users[id] \in Account
  BY DEF PanelTypeOK
<1>4. \A id \in DOMAIN users : users[id].secret \in Serials /\ users[id].ahead \in {Never} \cup Near
  BY <1>3 DEF Account
<1>5. \A c \in accepted : c.secret \in Serials /\ c.at \in Near
  BY DEF PanelTypeOK
<1> QED BY <1>1, <1>2, <1>4, <1>5, SerialsUpTo

\* An accepted code is newer than all that its account has used.
LEMMA SecondFactorApart ==
    ASSUME PanelTypeOK, SecretsApart, NEW r \in Requests, checkSecondFactor(r)
    PROVE  SecretsApart'
<1>1. UNCHANGED <<oidc, changes>>
  BY DEF checkSecondFactor
<1>2. SerialNow' = SerialNow
  BY <1>1, Zenon DEF SerialNow
<1>3. CASE users' = users /\ accepted' = accepted
  BY <1>2, <1>3 DEF SecretsApart
<1> DEFINE id == jobs[r].uid
           d == jobs'[r].code
<1>4. CASE /\ id \in DOMAIN users /\ users[id].secret # 0
           /\ d \in checkTOTP(users[id].ahead)
           /\ accepted' = accepted \cup {[secret |-> users[id].secret, at |-> d]}
           /\ users'[id].ahead = d
           /\ \A i \in DOMAIN users : /\ users'[i].secret = users[i].secret
                                      /\ i # id => users'[i] = users[i]
           /\ DOMAIN users' = DOMAIN users
  <2> DEFINE new == [secret |-> users[id].secret, at |-> d]
  <2>0. new.secret = users[id].secret /\ new.at = d
    OBVIOUS
  <2> HIDE DEF new, id, d
  <2>1. accepted' = accepted \cup {new}
    BY <1>4 DEF new
  <2>2. d \in Int /\ d > users[id].ahead
    BY <1>4, PanelAssumption DEF checkTOTP, Near
  <2>3. \A i \in DOMAIN users' : users'[i].secret < SerialNow'
    BY <1>2, <1>4 DEF SecretsApart
  <2>4. \A i, j \in DOMAIN users' : users'[i].secret = users'[j].secret => i = j \/ users'[i].secret = 0
    BY <1>4 DEF SecretsApart
  <2>5. \A c \in accepted' : c.secret < SerialNow'
    BY <1>2, <1>4, <2>0, <2>1 DEF SecretsApart
  <2>6. ASSUME NEW c \in accepted', NEW i \in DOMAIN users',
               c.secret = users'[i].secret, c.secret # 0
        PROVE  c.at <= users'[i].ahead
    <3>1. i \in DOMAIN users /\ users'[i].secret = users[i].secret
      BY <1>4
    <3>2. CASE c = new
      <4>1. i = id
        BY <1>4, <2>0, <2>6, <3>1, <3>2 DEF SecretsApart
      <4> QED BY <1>4, <2>0, <2>2, <3>2, <4>1
    <3>3. CASE c \in accepted
      <4>1. c.at <= users[i].ahead
        BY <2>6, <3>1, <3>3 DEF SecretsApart
      <4>2. CASE i = id
        <5>1. c.at \in Int /\ users[i].ahead \in Int
          BY <3>1, <3>3, SecretNumbers, PanelAssumption DEF Near
        <5> QED BY <1>4, <2>2, <4>1, <4>2, <5>1
      <4>3. CASE i # id
        BY <1>4, <3>1, <4>1, <4>3
      <4> QED BY <4>2, <4>3
    <3> QED BY <2>1, <3>2, <3>3
  <2> QED BY <2>3, <2>4, <2>5, <2>6 DEF SecretsApart
<1> QED BY <1>3, <1>4, SecondFactorStep DEF SameAccounts

\* A change that makes a secret makes one that none has.
LEMMA ChangesApart ==
    ASSUME PanelTypeOK, SecretsApart, ChangesAccount
    PROVE  SecretsApart'
<1>1. /\ Change /\ Frame
      /\ Created \/ (SameAccounts /\ (SameSecrets \/ Secured))
  BY AccountStep
<1>2. SerialNow' = SerialNow + 1 /\ SerialNow \in Nat \ {0} /\ accepted' = accepted
  BY <1>1, ChangeNumber DEF PanelTypeOK, Frame
<1>3. \A c \in accepted' : c.secret < SerialNow'
  BY <1>2, SecretNumbers DEF SecretsApart
<1>4. CASE Created
  <2>1. PICK id \in Ids \ DOMAIN users :
             /\ DOMAIN users' = DOMAIN users \cup {id}
             /\ NewRow(users'[id])
             /\ \A i \in DOMAIN users : users'[i] = users[i]
    BY <1>4 DEF Created
  <2>2. users'[id].secret = 0
    BY <2>1 DEF NewRow
  <2>3. \A i \in DOMAIN users' : users'[i].secret < SerialNow'
    BY <1>2, <2>1, <2>2, SecretNumbers DEF SecretsApart
  <2>4. \A i, j \in DOMAIN users' : users'[i].secret = users'[j].secret => i = j \/ users'[i].secret = 0
    BY <2>1, <2>2 DEF SecretsApart
  <2>5. \A c \in accepted', i \in DOMAIN users' :
           c.secret = users'[i].secret /\ c.secret # 0 => c.at <= users'[i].ahead
    BY <1>2, <2>1, <2>2 DEF SecretsApart
  <2> QED BY <1>3, <2>3, <2>4, <2>5 DEF SecretsApart
<1>5. CASE SameAccounts /\ SameSecrets
  <2>1. DOMAIN users' = DOMAIN users /\ \A i \in DOMAIN users :
           users'[i].secret = users[i].secret /\ users'[i].ahead = users[i].ahead
    BY <1>5 DEF SameAccounts, SameSecrets
  <2>2. \A i \in DOMAIN users' : users'[i].secret < SerialNow'
    BY <1>2, <2>1, SecretNumbers DEF SecretsApart
  <2> QED BY <1>2, <1>3, <2>1, <2>2 DEF SecretsApart
<1>6. CASE SameAccounts /\ Secured
  <2>1. PICK id, s, d : SecuredAs(id, s, d)
    BY <1>6 DEF Secured
  <2>2. /\ s \in {0, SerialNow}
        /\ \A i \in DOMAIN users :
             IF i = id THEN users'[i].secret = s /\ users'[i].ahead = d ELSE users'[i] = users[i]
    BY <2>1 DEF SecuredAs
  <2>3. DOMAIN users' = DOMAIN users
    BY <1>6 DEF SameAccounts
  <2>4. \A i \in DOMAIN users' : users'[i].secret < SerialNow'
    BY <1>2, <2>2, <2>3, SecretNumbers DEF SecretsApart
  <2>5. \A i \in DOMAIN users : users[i].secret # SerialNow
    BY <1>2, SecretNumbers DEF SecretsApart
  <2>6. \A i, j \in DOMAIN users' : users'[i].secret = users'[j].secret => i = j \/ users'[i].secret = 0
    BY <2>2, <2>3, <2>5 DEF SecretsApart
  <2>7. \A c \in accepted : c.secret # SerialNow
    BY <1>2, SecretNumbers DEF SecretsApart
  <2>8. \A c \in accepted', i \in DOMAIN users' :
           c.secret = users'[i].secret /\ c.secret # 0 => c.at <= users'[i].ahead
    BY <1>2, <2>2, <2>3, <2>7 DEF SecretsApart
  <2> QED BY <1>3, <2>4, <2>6, <2>8 DEF SecretsApart
<1> QED BY <1>1, <1>4, <1>5, <1>6

\* Time moves codes and stored steps alike.
LEMMA TickApart ==
    ASSUME PanelTypeOK, SecretsApart, Tick
    PROVE  SecretsApart'
<1>1. UNCHANGED <<oidc, changes>>
  BY DEF Tick
<1>2. SerialNow' = SerialNow
  BY <1>1, Zenon DEF SerialNow
<1>3. DOMAIN users' = DOMAIN users /\ \A i \in DOMAIN users :
         users'[i].secret = users[i].secret /\ users'[i].ahead = Older(users[i].ahead)
  BY TickRow DEF PanelTypeOK, UsersOK, SameAccounts
<1>4. ASSUME NEW c \in accepted'
      PROVE  \E e \in accepted : c.secret = e.secret /\ c.at = e.at - 1
  <2>1. PICK e \in accepted : c = [e EXCEPT !.at = e.at - 1]
    BY <1>4 DEF Tick
  <2>2. e \in [secret : Serials, at : Near]
    BY DEF PanelTypeOK
  <2> QED BY <2>1, <2>2
<1>5. \A c \in accepted' : c.secret < SerialNow'
  BY <1>2, <1>4 DEF SecretsApart
<1>6. ASSUME NEW c \in accepted', NEW i \in DOMAIN users',
             c.secret = users'[i].secret, c.secret # 0
      PROVE  c.at <= users'[i].ahead
  <2>1. PICK e \in accepted : c.secret = e.secret /\ c.at = e.at - 1
    BY <1>4
  <2>2. e.at <= users[i].ahead
    BY <1>3, <1>6, <2>1 DEF SecretsApart
  <2>3. e.at \in Near /\ users[i].ahead \in Int
    BY <1>3, SecretNumbers
  <2>4. users[i].ahead # Never
    BY <2>2, <2>3, PanelAssumption DEF Near, Never
  <2>5. users'[i].ahead = users[i].ahead - 1
    BY <1>3, <2>4 DEF Older
  <2> QED BY <2>1, <2>2, <2>3, <2>5, PanelAssumption DEF Near
<1> QED BY <1>2, <1>3, <1>5, <1>6 DEF SecretsApart

\* Every step keeps the secrets apart.
LEMMA NextApart == PanelTypeOK /\ SecretsApart /\ [Next]_vars => SecretsApart'
<1>1. SUFFICES ASSUME PanelTypeOK, SecretsApart, [Next]_vars PROVE SecretsApart'
  OBVIOUS
<1>2. ASSUME UNCHANGED <<users, oidc, changes, accepted>> PROVE SecretsApart'
  <2>1. SerialNow' = SerialNow
    BY <1>2, Zenon DEF SerialNow
  <2> QED BY <1>1, <1>2, <2>1 DEF SecretsApart
<1>3. ASSUME NEW r \in Requests, Serves(r) PROVE SecretsApart'
  <2>1. CASE loginSubmit(r) \/ failed(r) \/ Auth(r) \/ EndRequest(r)
    BY <1>1, <1>2, <2>1, PlainStep
  <2>2. CASE Login(r) \/ LoginOIDC(r) \/ newSession(r) \/ oidcCallback(r) \/ exchange(r)
    BY <1>2, <2>2 DEF Login, LoginOIDC, newSession, oidcCallback, exchange
  <2>3. CASE checkSecondFactor(r)
    BY <1>1, <2>3, SecondFactorApart
  <2> QED BY <1>3, <2>1, <2>2, <2>3 DEF Serves
<1>4. CASE Deletes
  <2>1. PICK id \in DOMAIN users : DeleteUser(id)
    BY <1>1, <1>4, DeleteStep
  <2>2. DOMAIN users' \subseteq DOMAIN users /\ \A i \in DOMAIN users' : users'[i] = users[i]
    BY <2>1 DEF DeleteUser
  <2>3. Change /\ oidc' = oidc /\ accepted' = accepted
    BY <1>1, <1>4, DeleteStep
  <2>4. SerialNow' = SerialNow + 1
    BY <1>1, <2>3, ChangeNumber DEF PanelTypeOK
  <2>5. \A i \in DOMAIN users' : users'[i].secret < SerialNow'
    BY <1>1, <2>2, <2>4, SecretNumbers DEF SecretsApart
  <2>6. \A c \in accepted' : c.secret < SerialNow'
    BY <1>1, <2>3, <2>4, SecretNumbers DEF SecretsApart
  <2> QED BY <1>1, <2>2, <2>3, <2>5, <2>6 DEF SecretsApart
<1>5. CASE \/ \E b \in Browsers : oidcStart(b)
           \/ \E f \in Flows : ProviderAnswers(f)
           \/ \E t \in Tokens : logout(t)
           \/ UNCHANGED vars
  BY <1>2, <1>5 DEF oidcStart, ProviderAnswers, logout, vars
<1> QED BY <1>1, <1>3, <1>4, <1>5, NextIs, ChangesApart, TickApart

------------------------------------------------------------------------------
(* Wrong passwords are bounded. *)

\* The failures of a kind are finitely many.
LEMMA FailuresFinite ==
    ASSUME NEW counts \in [Ages -> Nat]
    PROVE  IsFiniteSet(Failures(counts)) /\ Cardinality(Failures(counts)) \in Nat
<1> DEFINE row(a) == {a} \X (1..counts[a])
           rows == {row(a) : a \in Ages}
<1>1. IsFiniteSet(Ages)
  BY FS_Interval, PanelAssumption DEF Ages
<1>2. [a \in Ages |-> row(a)] \in Surjection(Ages, rows)
  BY DEF Surjection
<1>3. IsFiniteSet(rows)
  BY <1>1, <1>2, FS_Surjection
<1>4. ASSUME NEW a \in Ages PROVE IsFiniteSet(row(a))
  <2>0. counts[a] \in Int
    OBVIOUS
  <2>1. IsFiniteSet({a})
    BY FS_Singleton
  <2>2. IsFiniteSet(1..counts[a])
    BY <2>0, FS_Interval
  <2> QED BY <2>1, <2>2, FS_Product
<1>5. \A T \in rows : IsFiniteSet(T)
  BY <1>4
<1>6. IsFiniteSet(UNION rows)
  BY <1>3, <1>5, FS_UNION
<1> QED BY <1>6, FS_CardinalityType DEF Failures

\* A pair is a failure when there are that many of its age.
LEMMA InFailures ==
    ASSUME NEW counts \in [Ages -> Nat]
    PROVE  \A p : p \in Failures(counts) <=>
                    \E a \in Ages : \E n \in 1..counts[a] : p = <<a, n>>
BY DEF Failures

\* One more failure now.
LEMMA OneMoreFailure ==
    ASSUME NEW counts \in [Ages -> Nat], NEW more \in [Ages -> Nat],
           more = [counts EXCEPT ![0] = counts[0] + 1]
    PROVE  Cardinality(Failures(more)) <= Cardinality(Failures(counts)) + 1
<1>0. 0 \in Ages
  BY PanelAssumption DEF Ages
<1> DEFINE new == <<0, counts[0] + 1>>
<1>1. Failures(more) \subseteq Failures(counts) \cup {new}
  <2>1. SUFFICES ASSUME NEW a \in Ages, NEW n \in 1..more[a], <<a, n>> # new
                 PROVE  n \in 1..counts[a]
    <3>1. SUFFICES ASSUME NEW p \in Failures(more), p # new PROVE p \in Failures(counts)
      OBVIOUS
    <3>2. PICK a \in Ages : \E n \in 1..more[a] : p = <<a, n>>
      BY <3>1, InFailures
    <3>3. PICK n \in 1..more[a] : p = <<a, n>>
      BY <3>2
    <3>4. n \in 1..counts[a]
      BY <2>1, <3>1, <3>3
    <3> QED BY <3>3, <3>4, InFailures
  <2>2. CASE a = 0
    BY <1>0, <2>1, <2>2
  <2>3. CASE a # 0
    BY <2>3
  <2> QED BY <2>2, <2>3
<1> HIDE DEF new
<1>2. IsFiniteSet(Failures(counts)) /\ Cardinality(Failures(counts)) \in Nat
  BY FailuresFinite
<1>3. IsFiniteSet(Failures(counts) \cup {new})
      /\ Cardinality(Failures(counts) \cup {new}) <= Cardinality(Failures(counts)) + 1
  BY <1>2, FS_AddElement
<1>4. Cardinality(Failures(more)) <= Cardinality(Failures(counts) \cup {new})
  BY <1>1, <1>3, FS_Subset
<1>5. Cardinality(Failures(more)) \in Nat /\ Cardinality(Failures(counts) \cup {new}) \in Nat
  BY <1>3, FailuresFinite, FS_CardinalityType
<1> QED BY <1>2, <1>3, <1>4, <1>5

\* A step later there are no more failures.
LEMMA FewerFailures ==
    ASSUME fails \in [Kinds -> [Ages -> Nat]], NEW k \in Kinds
    PROVE  Cardinality(Failures(Aged[k])) <= Cardinality(Failures(fails[k]))
<1> DEFINE older == Failures(Aged[k])
           now == Failures(fails[k])
           back == [p \in older |-> <<p[1] - 1, p[2]>>]
<1>1. Aged[k] \in [Ages -> Nat] /\ fails[k] \in [Ages -> Nat]
  BY CountedType
<1>2. ASSUME NEW p \in older
      PROVE  /\ p = <<p[1], p[2]>> /\ p[1] \in Ages
             /\ <<p[1] - 1, p[2]>> \in now
  <2>0. PICK a \in Ages : \E n \in 1..Aged[k][a] : p = <<a, n>>
    BY <1>1, <1>2, InFailures
  <2>1. PICK n \in 1..Aged[k][a] : p = <<a, n>>
    BY <2>0
  <2>2. Aged[k][a] = IF a = 0 THEN 0 ELSE fails[k][a - 1]
    BY DEF Aged
  <2>3. a # 0 /\ n \in 1..fails[k][a - 1]
    BY <2>2
  <2>4. a - 1 \in Ages
    BY <2>3, PanelAssumption DEF Ages
  <2>5. <<a - 1, n>> \in now
    BY <1>1, <2>3, <2>4, InFailures
  <2> QED BY <2>1, <2>5
<1>3. back \in [older -> now]
  BY <1>2
<1>4. ASSUME NEW p \in older, NEW q \in older, back[p] = back[q] PROVE p = q
  <2>0. Ages \subseteq Int
    BY PanelAssumption DEF Ages
  <2> HIDE DEF older
  <2>1. /\ p = <<p[1], p[2]>> /\ q = <<q[1], q[2]>> /\ p[1] \in Int /\ q[1] \in Int
    BY <1>2, <2>0
  <2>2. p[1] - 1 = q[1] - 1 /\ p[2] = q[2]
    <3>1. back[p] = <<p[1] - 1, p[2]>> /\ back[q] = <<q[1] - 1, q[2]>>
      OBVIOUS
    <3>2. \A u, v, x, y : <<u, v>> = <<x, y>> => u = x /\ v = y
      OBVIOUS
    <3>3. <<p[1] - 1, p[2]>> = <<q[1] - 1, q[2]>>
      BY <1>4, <3>1, Zenon
    <3> QED BY <3>2, <3>3, Zenon
  <2>3. p[1] = q[1]
    BY <2>1, <2>2
  <2> QED BY <2>1, <2>2, <2>3
<1> HIDE DEF back, older, now
<1>5. back \in Injection(older, now)
  BY <1>3, <1>4 DEF Injection, IsInjective
<1>6. IsFiniteSet(now)
  BY <1>1, FailuresFinite DEF now
<1> QED BY <1>5, <1>6, FS_Injection DEF older, now

\* The requests are finitely many.
LEMMA GuessingFinite ==
    /\ IsFiniteSet(Requests) /\ Cardinality(Requests) \in Nat
    /\ \A S \in SUBSET Requests :
         IsFiniteSet(S) /\ Cardinality(S) \in Nat /\ Cardinality(S) <= Cardinality(Requests)
<1>1. IsFiniteSet(Requests)
  BY PanelAssumption
<1> QED BY <1>1, FS_CardinalityType, FS_Subset

\* A step that adds no failure and starts no guess.
LEMMA NoMoreGuesses ==
    ASSUME PanelTypeOK, GuessesCounted, fails'["password"] \in [Ages -> Nat],
           Cardinality(Failures(fails'["password"])) <= Cardinality(Failures(fails["password"])),
           Guessing' \subseteq Guessing
    PROVE  GuessesCounted'
<1>1. Guessing \in SUBSET Requests
  BY DEF Guessing
<1>2. IsFiniteSet(Guessing) /\ Cardinality(Guessing) \in Nat
  BY <1>1, GuessingFinite
<1>3. Cardinality(Guessing') <= Cardinality(Guessing) /\ Cardinality(Guessing') \in Nat
  BY <1>2, FS_Subset, FS_CardinalityType
<1>4. fails["password"] \in [Ages -> Nat]
  BY DEF PanelTypeOK, Kinds
<1>5. /\ Cardinality(Failures(fails["password"])) \in Nat
      /\ Cardinality(Failures(fails'["password"])) \in Nat
  BY <1>4, FailuresFinite
<1>6. Limit \in Nat /\ Cardinality(Requests) \in Nat
  BY GuessingFinite, PanelAssumption
<1> QED BY <1>2, <1>3, <1>5, <1>6 DEF GuessesCounted, Recent

\* The limiter lets a login in only below Limit.
LEMMA SubmitGuesses ==
    ASSUME PanelTypeOK, NEW r \in Requests, loginSubmit(r)
    PROVE  GuessesCounted'
<1>0. fails["password"] \in [Ages -> Nat] /\ fails["oidc"] \in [Ages -> Nat]
  BY DEF PanelTypeOK, Kinds
<1>1. fails' = fails /\ allowed
  BY DEF loginSubmit
<1>2. Recent("password") \in Nat /\ Recent("oidc") \in Nat
  BY <1>0, FailuresFinite DEF Recent
<1>3. Recent("password") <= Limit - 1
  BY <1>1, <1>2, PanelAssumption DEF allowed
<1>4. Guessing' \in SUBSET Requests
  BY DEF Guessing
<1>5. Cardinality(Guessing') \in Nat /\ Cardinality(Guessing') <= Cardinality(Requests)
  BY <1>4, GuessingFinite
<1>6. Limit \in Nat /\ Cardinality(Requests) \in Nat
  BY GuessingFinite, PanelAssumption
<1>7. Recent("password")' = Recent("password")
  BY <1>1 DEF Recent
<1> QED BY <1>2, <1>3, <1>5, <1>6, <1>7 DEF GuessesCounted

\* A guess that is counted is over.
LEMMA FailedGuesses ==
    ASSUME PanelTypeOK, GuessesCounted, NEW r \in Requests, failed(r)
    PROVE  GuessesCounted'
<1>0. /\ fails \in [Kinds -> [Ages -> Nat]] /\ fails["password"] \in [Ages -> Nat]
      /\ jobs \in [Requests -> Job] /\ "password" \in Kinds
  BY DEF PanelTypeOK, Kinds
<1>1. jobs[r].at = "failed" /\ fails' = Counted(jobs[r].kind) /\ Ends(r)
  BY DEF failed
<1>2. OnlyJob(r) /\ jobs'[r].at = "idle"
  BY <1>0, <1>1, EndsJob
<1>3. jobs[r].kind \in Kinds
  BY <1>0 DEF Job
<1>4. fails' \in [Kinds -> [Ages -> Nat]]
  BY <1>0, <1>1, <1>3, CountedType
<1>5. fails'["password"] \in [Ages -> Nat]
  BY <1>0, <1>4
<1>6. Guessing' = Guessing \ {r}
  BY <1>2 DEF Guessing, OnlyJob
<1>7. CASE jobs[r].kind = "oidc"
  <2>1. fails'["password"] = fails["password"]
    BY <1>0, <1>1, <1>7 DEF Counted
  <2>2. Cardinality(Failures(fails["password"])) \in Nat
    BY <1>0, FailuresFinite
  <2>3. Cardinality(Failures(fails'["password"])) <= Cardinality(Failures(fails["password"]))
    BY <2>1, <2>2
  <2> QED BY <1>5, <1>6, <2>3, NoMoreGuesses
<1>8. CASE jobs[r].kind = "password"
  <2>1. fails'["password"] = [fails["password"] EXCEPT ![0] = fails["password"][0] + 1]
    BY <1>0, <1>1, <1>8 DEF Counted
  <2>2. /\ Cardinality(Failures(fails["password"])) \in Nat
        /\ Cardinality(Failures(fails'["password"])) \in Nat
    BY <1>0, <1>5, FailuresFinite
  <2>3. Cardinality(Failures(fails'["password"])) <= Cardinality(Failures(fails["password"])) + 1
    BY <1>0, <1>5, <2>1, OneMoreFailure
  <2>4. r \in Guessing
    BY <1>1, <1>8 DEF Guessing
  <2>5. Guessing \in SUBSET Requests
    BY DEF Guessing
  <2>6. IsFiniteSet(Guessing) /\ Cardinality(Guessing) \in Nat
    BY <2>5, GuessingFinite
  <2>7. Cardinality(Guessing') = Cardinality(Guessing) - 1
    BY <1>6, <2>4, <2>6, FS_RemoveElement
  <2>8. Limit \in Nat /\ Cardinality(Requests) \in Nat
    BY GuessingFinite, PanelAssumption
  <2> QED BY <2>2, <2>3, <2>6, <2>7, <2>8 DEF GuessesCounted, Recent
<1> QED BY <1>3, <1>7, <1>8 DEF Kinds

\* Every step keeps the count.
LEMMA NextGuesses == PanelTypeOK /\ GuessesCounted /\ [Next]_vars => GuessesCounted'
<1>1. SUFFICES ASSUME PanelTypeOK, GuessesCounted, [Next]_vars PROVE GuessesCounted'
  OBVIOUS
<1>0. /\ fails \in [Kinds -> [Ages -> Nat]] /\ fails["password"] \in [Ages -> Nat]
      /\ jobs \in [Requests -> Job] /\ "password" \in Kinds
  BY <1>1 DEF PanelTypeOK, Kinds
<1>a. Cardinality(Failures(fails["password"])) \in Nat
  BY <1>0, FailuresFinite
<1>b. ASSUME fails'["password"] = fails["password"], Guessing' \subseteq Guessing PROVE GuessesCounted'
  <2>1. Cardinality(Failures(fails'["password"])) <= Cardinality(Failures(fails["password"]))
    BY <1>a, <1>b
  <2> QED BY <1>0, <1>1, <1>b, <2>1, NoMoreGuesses
<1>c. ASSUME NEW r \in Requests, OnlyJob(r), jobs[r].at \notin {"idle", "op"},
             jobs'[r].at \in {"idle", "op"} \/ jobs'[r].kind = jobs[r].kind
      PROVE  Guessing' \subseteq Guessing
  BY <1>c DEF Guessing, OnlyJob
<1>d. ASSUME NEW r \in Requests, OnlyJob(r), jobs'[r].at \in {"idle", "op"} \/ jobs'[r].kind = "oidc"
      PROVE  Guessing' \subseteq Guessing
  BY <1>d DEF Guessing, OnlyJob
<1>i. Idle.at = "idle"
  BY DEF Idle
<1>2. ASSUME NEW r \in Requests, Serves(r) PROVE GuessesCounted'
  <2>1. CASE Auth(r) \/ EndRequest(r)
    <3>1. OnlyJob(r)
      BY <1>1, <2>1, PlainStep
    <3>2. fails' = fails
      BY <2>1 DEF Auth, EndRequest
    <3>3. CASE EndRequest(r)
      <4>1. jobs'[r].at = "idle"
        BY <1>0, <3>3, EndsJob DEF EndRequest
      <4> QED BY <1>b, <1>d, <3>1, <3>2, <4>1
    <3>4. CASE Auth(r)
      <4>1. PICK id \in DOMAIN users :
               jobs' = [jobs EXCEPT ![r] =
                     [Idle EXCEPT !.at = "op", !.uid = id, !.acct = users[id].acct,
                                  !.pass = users[id].pass, !.admin = users[id].admin]]
        BY <3>4 DEF Auth
      <4>2. users[id] \in Account /\ id \in Ids
        BY <1>1 DEF PanelTypeOK
      <4>3. jobs'[r].at = "op"
        BY <1>0, <4>1, <4>2, AuthJob
      <4> QED BY <1>b, <1>d, <3>1, <3>2, <4>3
    <3> QED BY <2>1, <3>3, <3>4
  <2>2. CASE Login(r) \/ LoginOIDC(r)
    <3>1. OnlyJob(r) /\ jobs'[r].kind = jobs[r].kind
      BY <1>1, <2>2, LoginStep, LoginOIDCStep
    <3>2. fails' = fails /\ jobs[r].at \notin {"idle", "op"}
      BY <2>2 DEF Login, LoginOIDC
    <3> QED BY <1>b, <1>c, <3>1, <3>2
  <2>3. CASE checkSecondFactor(r)
    <3>1. OnlyJob(r) /\ jobs'[r].kind = jobs[r].kind
      BY <1>1, <2>3, SecondFactorStep
    <3>2. fails' = fails /\ jobs[r].at \notin {"idle", "op"}
      BY <2>3 DEF checkSecondFactor
    <3> QED BY <1>b, <1>c, <3>1, <3>2
  <2>4. CASE newSession(r)
    <3>1. OnlyJob(r) /\ (jobs'[r].at \in {"idle", "op"} \/ jobs'[r].kind = jobs[r].kind)
      BY <1>1, <2>4, NewSessionStep
    <3>2. fails' = fails /\ jobs[r].at \notin {"idle", "op"}
      BY <2>4 DEF newSession
    <3> QED BY <1>b, <1>c, <3>1, <3>2
  <2>5. CASE oidcCallback(r)
    <3>1. OnlyJob(r) /\ jobs'[r].kind = "oidc"
      BY <1>1, <2>5, CallbackStep
    <3>2. fails' = fails
      BY <2>5 DEF oidcCallback
    <3> QED BY <1>b, <1>d, <3>1, <3>2
  <2>6. CASE exchange(r)
    <3>1. OnlyJob(r) /\ jobs'[r].kind = jobs[r].kind
      BY <1>1, <2>6, ExchangeStep
    <3>2. fails' = fails /\ jobs[r].at \notin {"idle", "op"}
      BY <2>6 DEF exchange
    <3> QED BY <1>b, <1>c, <3>1, <3>2
  <2> QED BY <1>1, <1>2, <2>1, <2>2, <2>3, <2>4, <2>5, <2>6, SubmitGuesses, FailedGuesses DEF Serves
<1>3. CASE ChangesAccount
  <2>1. JobsRest /\ fails' = fails
    BY <1>1, <1>3, AccountStep DEF Frame
  <2>2. Guessing' \subseteq Guessing
    BY <1>i, <2>1 DEF JobsRest, Guessing
  <2> QED BY <1>b, <2>1, <2>2
<1>4. CASE Deletes
  <2>1. PICK id \in DOMAIN users : \A q \in Requests : jobs'[q] = Idle \/ jobs'[q] = Crossed(id)[q]
    BY <1>1, <1>4, DeleteStep
  <2>2. fails' = fails
    BY <1>1, <1>4, DeleteStep
  <2>3. Guessing' \subseteq Guessing
    BY <1>0, <1>i, <2>1, CrossedJobs DEF Guessing
  <2> QED BY <1>b, <2>2, <2>3
<1>5. ASSUME NEW b \in Browsers, oidcStart(b) PROVE GuessesCounted'
  <2>1. jobs' = jobs
    BY <1>5 DEF oidcStart
  <2>2. fails'["password"] = fails["password"]
    <3>1. fails' = fails \/ fails' = Counted("oidc")
      BY <1>5 DEF oidcStart, authURL, discoverFails
    <3> QED BY <1>0, <3>1 DEF Counted
  <2>3. Guessing' \subseteq Guessing
    BY <2>1 DEF Guessing
  <2> QED BY <1>b, <2>2, <2>3
<1>6. CASE (\E f \in Flows : ProviderAnswers(f)) \/ (\E t \in Tokens : logout(t)) \/ UNCHANGED vars
  <2>1. UNCHANGED <<jobs, fails>>
    BY <1>6 DEF ProviderAnswers, logout, vars
  <2>2. Guessing' \subseteq Guessing
    BY <2>1 DEF Guessing
  <2> QED BY <1>b, <2>1, <2>2
<1>7. CASE Tick
  <2>1. jobs' = jobs /\ fails' = Aged
    BY <1>7 DEF Tick
  <2>2. Guessing' \subseteq Guessing
    BY <2>1 DEF Guessing
  <2>3. fails'["password"] \in [Ages -> Nat]
    BY <1>0, <2>1, CountedType
  <2>4. Cardinality(Failures(fails'["password"])) <= Cardinality(Failures(fails["password"]))
    BY <1>0, <2>1, FewerFailures
  <2> QED BY <1>1, <2>2, <2>3, <2>4, NoMoreGuesses
<1> QED BY <1>1, <1>2, <1>3, <1>4, <1>5, <1>6, <1>7, NextIs

------------------------------------------------------------------------------
(* The theorems. *)

PanelInv ==
    PanelTypeOK /\ LoginsOwned /\ SessionsOwned /\ FlowsOwned /\ OwnFlow /\ SecretsApart /\ GuessesCounted

\* The panel starts with no login running and no code accepted.
LEMMA InitPanel == Init => PanelInv
<1>1. SUFFICES ASSUME Init PROVE PanelInv
  OBVIOUS
<1>2. PanelTypeOK
  BY <1>1, InitTypes
<1>3. \A r \in Requests : jobs[r] = Idle /\ jobs[r].at = "idle"
  BY <1>1 DEF Init, Idle
<1>4. LoginsOwned /\ OwnFlow
  BY <1>3 DEF LoginsOwned, OwnFlow
<1>5. SessionsOwned
  BY <1>1 DEF Init, SessionsOwned
<1>6. FlowsOwned
  BY <1>1, <1>3 DEF Init, FlowsOwned
<1>7. SecretsApart
  <2>1. accepted = {} /\ \A id \in DOMAIN users : users[id].secret = 0
    BY <1>1 DEF Init
  <2> QED BY <1>2, <2>1, SecretNumbers DEF SecretsApart
<1>8. GuessesCounted
  <2>1. Guessing = {}
    BY <1>3 DEF Guessing
  <2>2. fails["password"] = [a \in Ages |-> 0]
    BY <1>1 DEF Init, Kinds
  <2>3. Failures(fails["password"]) = {}
    BY <2>2 DEF Failures
  <2>4. Limit \in Nat \ {0} /\ Cardinality(Requests) \in Nat
    BY GuessingFinite, PanelAssumption
  <2> QED BY <2>1, <2>3, <2>4, FS_EmptySet DEF GuessesCounted, Recent
<1> QED BY <1>2, <1>4, <1>5, <1>6, <1>7, <1>8 DEF PanelInv

\* PanelInv is inductive.
LEMMA NextPanel == PanelInv /\ [Next]_vars => PanelInv'
BY NextTypes, NextOwned, NextFlows, NextApart, NextGuesses DEF PanelInv

\* The panel keeps its inductive invariant.
THEOREM PanelInvariant == Spec => []PanelInv
BY InitPanel, NextPanel, PTL DEF Spec

\* A session belongs to an account that exists, the one that signed in, unless
\* that was deleted while its login ran: whatever ids SQLite gives again.
THEOREM SessionsAreOwned == Spec => []SessionsOwned
<1>1. PanelInv => SessionsOwned
  BY DEF PanelInv
<1> QED BY <1>1, PanelInvariant, PTL

\* A callback signs in with the answer to the sign-in that its own browser
\* began, and no two with the same answer.
THEOREM FlowsAreOwned == Spec => []OwnFlow
<1>1. PanelInv => OwnFlow
  BY DEF PanelInv
<1> QED BY <1>1, PanelInvariant, PTL

\* Within the window an address gets Limit wrong passwords and codes, less one,
\* and one more for each request served at a time.
THEOREM GuessesAreBounded == Spec => []GuessesBounded
<1>1. PanelInv => GuessesBounded
  <2>1. SUFFICES ASSUME PanelInv PROVE GuessesBounded
    OBVIOUS
  <2>2. PanelTypeOK /\ GuessesCounted
    BY <2>1 DEF PanelInv
  <2>3. Guessing \in SUBSET Requests
    BY DEF Guessing
  <2>4. Cardinality(Guessing) \in Nat
    BY <2>3, GuessingFinite
  <2>5. fails["password"] \in [Ages -> Nat]
    BY <2>2 DEF PanelTypeOK, Kinds
  <2>6. Recent("password") \in Nat
    BY <2>5, FailuresFinite DEF Recent
  <2>7. Limit \in Nat /\ Cardinality(Requests) \in Nat
    BY GuessingFinite, PanelAssumption
  <2> QED BY <2>2, <2>4, <2>6, <2>7 DEF GuessesCounted, GuessesBounded
<1> QED BY <1>1, PanelInvariant, PTL

\* The code that request r was let in with has not been used before.
FreshCode(r) ==
    jobs[r].at = "code" /\ jobs'[r].at = "open"
      => [secret |-> users[jobs[r].uid].secret, at |-> jobs'[r].code] \notin accepted

\* Only checkSecondFactor takes a login from its code to its session.
LEMMA OnlySecondFactor ==
    ASSUME PanelTypeOK, Next, NEW r \in Requests, jobs[r].at = "code", jobs'[r].at = "open"
    PROVE  checkSecondFactor(r)
<1>0. jobs \in [Requests -> Job]
  BY DEF PanelTypeOK
<1>i. Idle.at = "idle"
  BY DEF Idle
<1>1. ASSUME NEW q \in Requests, Serves(q) PROVE checkSecondFactor(r)
  <2>1. OnlyJob(q)
    BY <1>1, PlainStep, LoginStep, LoginOIDCStep, SecondFactorStep, NewSessionStep,
       CallbackStep, ExchangeStep DEF Serves
  <2>2. q = r
    BY <2>1 DEF OnlyJob
  <2> QED BY <1>1, <2>2 DEF Serves, loginSubmit, Login, newSession, failed, oidcCallback,
             exchange, LoginOIDC, Auth, EndRequest
<1>2. ASSUME ChangesAccount PROVE FALSE
  BY <1>2, <1>i, AccountStep DEF JobsRest
<1>3. ASSUME Deletes PROVE FALSE
  BY <1>0, <1>3, <1>i, DeleteStep, CrossedJobs
<1>4. ASSUME \/ \E b \in Browsers : oidcStart(b)
             \/ \E f \in Flows : ProviderAnswers(f)
             \/ \E t \in Tokens : logout(t)
             \/ Tick
      PROVE  FALSE
  <2>1. jobs' = jobs
    BY <1>4 DEF oidcStart, ProviderAnswers, logout, Tick
  <2> QED BY <2>1
<1> QED BY <1>1, <1>2, <1>3, <1>4, NextIs

\* A step lets a login in with a code only if it was not used.
LEMMA CodesFresh == PanelInv /\ [Next]_vars => \A r \in Requests : FreshCode(r)
<1>1. SUFFICES ASSUME PanelInv, [Next]_vars, NEW r \in Requests,
                      jobs[r].at = "code", jobs'[r].at = "open",
                      [secret |-> users[jobs[r].uid].secret, at |-> jobs'[r].code] \in accepted
               PROVE  FALSE
  BY DEF FreshCode
<1> DEFINE id == jobs[r].uid
           c == [secret |-> users[id].secret, at |-> jobs'[r].code]
<1>2. PanelTypeOK /\ SecretsApart
  BY <1>1 DEF PanelInv
<1>3. checkSecondFactor(r)
  BY <1>1, <1>2, OnlySecondFactor DEF vars
<1>4. /\ id \in DOMAIN users /\ users[id].secret # 0
      /\ jobs'[r].code \in checkTOTP(users[id].ahead)
  BY <1>1, <1>2, <1>3, SecondFactorStep
<1>5. c.secret = users[id].secret /\ c.at = jobs'[r].code
  OBVIOUS
<1> HIDE DEF c
<1>6. c \in accepted
  BY <1>1 DEF c
<1>7. jobs'[r].code <= users[id].ahead
  BY <1>2, <1>4, <1>5, <1>6 DEF SecretsApart
<1>8. jobs'[r].code \in Int /\ users[id].ahead \in Int /\ jobs'[r].code > users[id].ahead
  BY <1>2, <1>4, SecretNumbers, PanelAssumption DEF checkTOTP, Near
<1> QED BY <1>7, <1>8

\* The code of a step lets in one login, however many bring it at once or one
\* after the other, until 2FA is turned on anew.
THEOREM CodesWorkOnce == Spec => CodeWorksOnce
<1>1. PanelInv /\ [Next]_vars =>
        [\A r \in Requests :
           jobs[r].at = "code" /\ jobs'[r].at = "open"
             => [secret |-> users[jobs[r].uid].secret, at |-> jobs'[r].code] \notin accepted]_vars
  BY CodesFresh DEF FreshCode
<1> QED BY <1>1, PanelInvariant, PTL DEF Spec, CodeWorksOnce

==============================================================================
