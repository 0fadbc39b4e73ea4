----------------------------- MODULE PanelLogin -----------------------------
(***************************************************************************)
(* Signing in to the panel: internal/controller auth.go, totp.go, oidc.go, *)
(* oidc_panel.go and panel.go, the tables users and sessions of            *)
(* internal/store, and the zpt-controller commands about users.            *)
(*                                                                         *)
(* A transaction of the store is one step; a request takes several, and    *)
(* between them works with what the earlier ones read.  Time goes by in    *)
(* steps of the one-time codes (30 s); every time is kept relative to now. *)
(* A one-time code is known by its secret and its step: two codes are      *)
(* never equal by chance.                                                  *)
(***************************************************************************)
EXTENDS Integers, FiniteSets

CONSTANTS
    Logins,          \* account names
    First,           \* the accounts at the start, in the order of their ids; 1 is the admin
    Passwords,
    Requests,        \* HTTP requests served at a time, all from one address
    Tokens,          \* session tokens (bound of the model)
    Browsers,
    MaxFlows,        \* bound of the model: sign-ins begun at the OIDC provider
    Nobody,
    Limit, Window,   \* loginLimiter: 10 failures per 10 minutes
    Skew,            \* totpSkew
    SessionTTL,
    MaxId,           \* bound of the model: rows of users at a time
    Bounds           \* bound of the model: changes of accounts, with OIDC on and off

ASSUME PanelAssumption ==
    /\ DOMAIN First \subseteq 1..MaxId /\ \A id \in DOMAIN First : First[id] \in Logins
    /\ Nobody \notin Logins \cup Passwords \cup Browsers \cup (1..MaxFlows)
    /\ Passwords # {} /\ IsFiniteSet(Requests)
    /\ {Limit, Window, MaxId} \subseteq Nat \ {0}
    /\ {Skew, SessionTTL, MaxFlows} \subseteq Nat /\ Bounds \in [BOOLEAN -> Nat]

VARIABLES
    users,      \* id -> account
    sessions,   \* token -> session
    jobs,       \* requests being served
    fails,      \* loginLimiter.fail: failures by kind and age
    cookie,     \* each browser's zpt_oidc cookie: the flow it holds
    flow,       \* flows at the provider
    oidc,       \* Server.oidc: a provider is configured
    changes,    \* what is left of Bounds
    accepted    \* history: the codes that logins used, with their age

vars == <<users, sessions, jobs, fails, oidc, cookie, flow, changes, accepted>>

Ids == 1..MaxId
Flows == 1..MaxFlows
Kinds == {"password", "oidc"}
Ages == 0..(Window - 1)
Never == -Skew - 1   \* a step so old that every code still valid is newer
Near == -Skew..Skew
Serials == 0..(Bounds[TRUE] + Bounds[FALSE])

(* A row of users.  acct tells apart accounts that had the same id; secret *)
(* numbers the times 2FA was turned on (0: off); ahead is totp_step minus  *)
(* the current step.                                                       *)
Account == [login : Logins, acct : Serials, pass : Passwords, admin : BOOLEAN,
            email : BOOLEAN, secret : Serials, ahead : {Never} \cup Near]

(* A row of sessions.  acct is the account that signed in, and crossed     *)
(* says that it was deleted while its login was running.                   *)
Session == [uid : Ids, acct : Serials, ttl : -1..SessionTTL, crossed : BOOLEAN]

(* A request: what it does next, and what it has read. *)
Job == [at : {"idle", "login", "code", "open", "exchange", "email", "failed", "op"},
        kind : Kinds, uid : {0} \cup Ids, acct : Serials, pass : Passwords \cup {Nobody},
        admin : BOOLEAN, code : Near, crossed : BOOLEAN,
        browser : Browsers \cup {Nobody}, flow : Flows \cup {Nobody}, given : Flows \cup {Nobody}]

Idle == [at |-> "idle", kind |-> "password", uid |-> 0, acct |-> 0, pass |-> Nobody,
         admin |-> FALSE, code |-> 0, crossed |-> FALSE,
         browser |-> Nobody, flow |-> Nobody, given |-> Nobody]

SerialNow == Bounds[oidc] - changes + 1   \* numbers what a change creates

Goes(r, step) == jobs' = [jobs EXCEPT ![r].at = step]
Fails(r) == jobs' = [jobs EXCEPT ![r] =
                [Idle EXCEPT !.at = "failed", !.kind = jobs[r].kind, !.browser = jobs[r].browser]]
Ends(r) == jobs' = [jobs EXCEPT ![r] = Idle]

------------------------------------------------------------------------------
(* loginLimiter. *)

(* The times that fail keeps for the address: fails[kind][a] of age a. *)
Failures(counts) == UNION {{a} \X (1..counts[a]) : a \in Ages}
Recent(kind) == Cardinality(Failures(fails[kind]))

allowedAtLimit == Recent("password") + Recent("oidc") <= Limit   \* Seeded fault: off by one
allowed == Recent("password") + Recent("oidc") < Limit

(* A step later: allowed drops the failures that are Window old. *)
AgedNever == fails   \* Seeded fault: nothing is dropped
Aged == [k \in Kinds |-> [a \in Ages |-> IF a = 0 THEN 0 ELSE fails[k][a - 1]]]

(* What the provider's answers add is only compared with Limit: it is      *)
(* counted up to Limit.                                                    *)
Counted(kind) ==
    [fails EXCEPT ![kind][0] = IF kind = "oidc" /\ @ >= Limit THEN @ ELSE @ + 1]

------------------------------------------------------------------------------
(* Password login: loginSubmit and Login. *)

loginSubmit(r) ==
    /\ jobs[r].at = "idle"
    /\ allowed
    /\ Goes(r, "login")
    /\ UNCHANGED <<users, sessions, fails, oidc, cookie, flow, changes, accepted>>

(* The row as it is read, and where the request goes with it. *)
WithUser(r, step, id) ==
    [jobs EXCEPT ![r] = [@ EXCEPT !.at = step, !.uid = id, !.acct = users[id].acct,
                                  !.flow = Nobody, !.given = Nobody]]

CheckPassword(id, pw) == users[id].pass = pw

(* UserByLogin in a transaction of its own, then CheckPassword. *)
Login(r) ==
    /\ jobs[r].at = "login"
    /\ \E login \in Logins, pw \in Passwords :
         \/ \E id \in DOMAIN users :
              /\ users[id].login = login /\ CheckPassword(id, pw)
              /\ jobs' = WithUser(r, IF users[id].secret # 0 THEN "code" ELSE "open", id)
         \/ /\ \A id \in DOMAIN users : users[id].login = login => ~CheckPassword(id, pw)
            /\ Fails(r)
    /\ UNCHANGED <<users, sessions, fails, oidc, cookie, flow, changes, accepted>>

(* checkTOTP: the codes of the steps around now are good, if newer than    *)
(* the last one used.                                                      *)
checkTOTPAgain(lastUsed) == {d \in Near : d >= lastUsed}   \* Seeded fault: the last step too
checkTOTP(lastUsed) == {d \in Near : d > lastUsed}

(* The code is looked up and burnt in one transaction. *)
checkSecondFactor(r) ==
    /\ jobs[r].at = "code"
    /\ LET id == jobs[r].uid IN
         \/ \E d \in Near :
              /\ id \in DOMAIN users /\ users[id].secret # 0
              /\ d \in checkTOTP(users[id].ahead)
              /\ users' = [users EXCEPT ![id].ahead = d]
              /\ accepted' = accepted \cup {[secret |-> users[id].secret, at |-> d]}
              /\ jobs' = [jobs EXCEPT ![r].at = "open", ![r].code = d]
         \/ Fails(r) /\ UNCHANGED <<users, accepted>>
    /\ UNCHANGED <<sessions, fails, oidc, cookie, flow, changes>>

(* The response to a callback takes the cookie away, whatever it is now. *)
CookieGone(r) ==
    cookie' = IF jobs[r].kind = "oidc" THEN [cookie EXCEPT ![jobs[r].browser] = Nobody] ELSE cookie

(* CreateSession: the foreign key wants a user with that id. *)
newSession(r) ==
    /\ jobs[r].at = "open"
    /\ LET id == jobs[r].uid IN
         \/ \E t \in Tokens \ DOMAIN sessions :
              /\ id \in DOMAIN users
              /\ sessions' = [s \in DOMAIN sessions \cup {t} |->
                   IF s = t THEN [uid |-> id, acct |-> jobs[r].acct, ttl |-> SessionTTL,
                                  crossed |-> jobs[r].crossed]
                   ELSE sessions[s]]
              /\ Ends(r) /\ CookieGone(r)
         \/ /\ id \notin DOMAIN users
            /\ Fails(r) /\ UNCHANGED <<sessions, cookie>>
    /\ UNCHANGED <<users, fails, oidc, flow, changes, accepted>>

(* loginSubmit's failure, and oidcFail. *)
failed(r) ==
    /\ jobs[r].at = "failed"
    /\ fails' = Counted(jobs[r].kind)
    /\ Ends(r) /\ CookieGone(r)
    /\ UNCHANGED <<users, sessions, oidc, flow, changes, accepted>>

------------------------------------------------------------------------------
(* Sign-in through a provider.  Only the start asks the limiter. *)

(* State, nonce and verifier are new. *)
authURL(b) ==
    \E f \in Flows :
        /\ flow[f].by = Nobody /\ \A g \in 1..(f - 1) : flow[g].by # Nobody
        /\ flow' = [flow EXCEPT ![f].by = b]
        /\ cookie' = [cookie EXCEPT ![b] = f]
        /\ UNCHANGED fails

(* The provider's metadata cannot be had: oidcFail. *)
discoverFails == fails' = Counted("oidc") /\ UNCHANGED <<flow, cookie>>

oidcStart(b) ==
    /\ oidc /\ allowed
    /\ authURL(b) \/ discoverFails
    /\ UNCHANGED <<users, sessions, jobs, oidc, changes, accepted>>

(* The provider asks the person and redirects with a code. *)
ProviderAnswers(f) ==
    /\ flow[f].by # Nobody /\ flow[f].code = "none"
    /\ flow' = [flow EXCEPT ![f].code = "given"]
    /\ UNCHANGED <<users, sessions, jobs, fails, oidc, cookie, changes, accepted>>

(* A callback comes with the browser's cookie (flow) and, in its URL, a    *)
(* state and the code of some flow (given).                                *)
oidcCallback(r) ==
    /\ oidc /\ jobs[r].at = "idle"
    /\ \E b \in Browsers :
         \/ /\ cookie[b] # Nobody   \* the state is the cookie's
            /\ \E g \in Flows :
                 jobs' = [jobs EXCEPT ![r] =
                    [Idle EXCEPT !.at = "exchange", !.kind = "oidc", !.browser = b,
                                 !.flow = cookie[b], !.given = g]]
         \/ jobs' = [jobs EXCEPT ![r] =   \* no cookie, another state, or no code
                [Idle EXCEPT !.at = "failed", !.kind = "oidc", !.browser = b]]
    /\ UNCHANGED <<users, sessions, fails, oidc, cookie, flow, changes, accepted>>

(* The ID token is of the flow that the code was given in. *)
verifyNoNonce(nonce, token) == TRUE   \* Seeded fault: the nonce is not compared
verify(nonce, token) == token = nonce

(* The provider gives an ID token for a code once.  It may check the PKCE  *)
(* verifier, or not.  The token endpoint or the key set may fail, and the  *)
(* address in the token may be unverified or of no account.                *)
exchange(r) ==
    /\ jobs[r].at = "exchange"
    /\ LET c == jobs[r].flow
           g == jobs[r].given
       IN \/ /\ flow[g].code = "given"
             /\ flow' = [flow EXCEPT ![g].code = "used"]
             /\ IF verify(c, g) THEN Goes(r, "email") ELSE Fails(r)
          \/ Fails(r) /\ UNCHANGED flow
    /\ UNCHANGED <<users, sessions, fails, oidc, cookie, changes, accepted>>

LoginOIDC(r) ==
    /\ jobs[r].at = "email"
    /\ \/ \E id \in DOMAIN users : users[id].email /\ jobs' = WithUser(r, "open", id)
       \/ /\ \A id \in DOMAIN users : ~users[id].email
          /\ Fails(r)
    /\ UNCHANGED <<users, sessions, fails, oidc, cookie, flow, changes, accepted>>

------------------------------------------------------------------------------
(* Requests with a session: auth, the pages, logout. *)

Auth(r) ==
    /\ jobs[r].at = "idle"
    /\ \E t \in DOMAIN sessions :
         LET id == sessions[t].uid
         IN /\ sessions[t].ttl >= 0 /\ id \in DOMAIN users
            /\ jobs' = [jobs EXCEPT ![r] =
                 [Idle EXCEPT !.at = "op", !.uid = id, !.acct = users[id].acct,
                              !.pass = users[id].pass, !.admin = users[id].admin]]
    /\ UNCHANGED <<users, sessions, fails, oidc, cookie, flow, changes, accepted>>

(* A page is shown, or what was asked is refused. *)
EndRequest(r) ==
    /\ jobs[r].at = "op"
    /\ Ends(r)
    /\ UNCHANGED <<users, sessions, fails, oidc, cookie, flow, changes, accepted>>

(* DeleteSession also removes the sessions that have expired. *)
logout(t) ==
    /\ t \in DOMAIN sessions /\ sessions[t].ttl >= 0
    /\ sessions' = [s \in {s \in DOMAIN sessions : s # t /\ sessions[s].ttl >= 0} |-> sessions[s]]
    /\ UNCHANGED <<users, jobs, fails, oidc, cookie, flow, changes, accepted>>

------------------------------------------------------------------------------
(* Changes of accounts, by a request that has read its actor or by a       *)
(* zpt-controller command.  An UPDATE of a row that is gone does nothing.  *)

Change == changes > 0 /\ changes' = changes - 1

Updated(id, row) == IF id \in DOMAIN users THEN [users EXCEPT ![id] = row] ELSE users

ByRequest(r) == jobs[r].at = "op" /\ Change /\ Ends(r)
ByCommand == Change /\ UNCHANGED jobs

CreateUser(login, admin) ==
    /\ \A id \in DOMAIN users : users[id].login # login
    /\ \E pw \in Passwords, id \in Ids :
         /\ id - 1 \in DOMAIN users \cup {0} /\ \A i \in DOMAIN users : i < id   \* SQLite: max + 1
         /\ users' = [i \in DOMAIN users \cup {id} |->
              IF i = id THEN [login |-> login, acct |-> SerialNow, pass |-> pw, admin |-> admin,
                              email |-> FALSE, secret |-> 0, ahead |-> Never]
              ELSE users[i]]
    /\ UNCHANGED <<sessions, fails, oidc, cookie, flow, accepted>>

(* ON DELETE CASCADE takes the sessions.  crossed is history. *)
DeleteUserRow(id) ==   \* Seeded fault: the sessions stay
    /\ users' = [i \in DOMAIN users \ {id} |-> users[i]]
    /\ UNCHANGED <<sessions, fails, oidc, cookie, flow, accepted>>

DeleteUser(id) ==
    /\ users' = [i \in DOMAIN users \ {id} |-> users[i]]
    /\ sessions' = [t \in {t \in DOMAIN sessions : sessions[t].uid # id} |-> sessions[t]]
    /\ UNCHANGED <<fails, oidc, cookie, flow, accepted>>

Crossed(id) == [r \in Requests |->
    IF jobs[r].uid = id /\ jobs[r].at \in {"code", "open"} THEN [jobs[r] EXCEPT !.crossed = TRUE]
    ELSE jobs[r]]

userCreate(r) ==
    /\ ByRequest(r) /\ jobs[r].admin
    /\ \E login \in Logins, admin \in BOOLEAN : CreateUser(login, admin)

userDelete(r) ==
    /\ jobs[r].at = "op" /\ jobs[r].admin /\ Change
    /\ \E id \in DOMAIN users \ {jobs[r].uid} :
         DeleteUser(id) /\ jobs' = [Crossed(id) EXCEPT ![r] = Idle]

UserCommand ==   \* useradd, user add, user delete
    \/ ByCommand /\ \E login \in Logins, admin \in BOOLEAN : CreateUser(login, admin)
    \/ Change /\ \E id \in DOMAIN users : DeleteUser(id) /\ jobs' = Crossed(id)

Rest == UNCHANGED <<sessions, fails, oidc, cookie, flow, accepted>>

WithPassword(id, pw) == Updated(id, [users[id] EXCEPT !.pass = pw])
WithTOTP(id, secret, step) == Updated(id, [users[id] EXCEPT !.secret = secret, !.ahead = step])

ChangePassword(r) ==
    /\ ByRequest(r)
    /\ \E old \in Passwords, new \in Passwords :
         old = jobs[r].pass /\ users' = WithPassword(jobs[r].uid, new)
    /\ Rest

EnableTOTP(r) ==
    /\ ByRequest(r)
    /\ \E d \in checkTOTP(Never) : users' = WithTOTP(jobs[r].uid, SerialNow, d)
    /\ Rest

DisableTOTP(r) ==
    /\ ByRequest(r)
    /\ \E pw \in Passwords : pw = jobs[r].pass
    /\ users' = WithTOTP(jobs[r].uid, 0, Never)
    /\ Rest

BindOIDCEmail(id, bound) ==   \* the index on addresses is unique
    /\ bound => \A i \in DOMAIN users \ {id} : ~users[i].email
    /\ users' = [users EXCEPT ![id].email = bound]

ResetTOTP(id) == users' = WithTOTP(id, 0, Never)

AccountCommand ==   \* passwd, user totp-off, user email
    /\ ByCommand
    /\ \E id \in DOMAIN users :
         \/ \E pw \in Passwords : users' = WithPassword(id, pw)
         \/ ResetTOTP(id)
         \/ \E bound \in BOOLEAN : BindOIDCEmail(id, bound)
    /\ Rest

------------------------------------------------------------------------------
Older(step) == IF step = Never THEN Never ELSE step - 1
Tick ==
    /\ users' = [id \in DOMAIN users |->
         [users[id] EXCEPT !.ahead = Older(@)]]
    /\ accepted' = {[c EXCEPT !.at = @ - 1] : c \in {c \in accepted : c.at > -Skew}}
    /\ sessions' = [t \in DOMAIN sessions |->
         [sessions[t] EXCEPT !.ttl = IF @ < 0 THEN @ ELSE @ - 1]]
    /\ fails' = Aged
    /\ UNCHANGED <<jobs, oidc, cookie, flow, changes>>

Init ==
    /\ oidc \in BOOLEAN
    /\ \E bound \in {oidc, FALSE} :   \* user email was used, or not
         users = [id \in DOMAIN First |->
            [login |-> First[id], acct |-> 0, pass |-> CHOOSE pw \in Passwords : TRUE,
             admin |-> id = 1, email |-> id = 1 /\ bound, secret |-> 0, ahead |-> Never]]
    /\ sessions = [t \in {} |-> Idle]
    /\ jobs = [r \in Requests |-> Idle]
    /\ fails = [k \in Kinds |-> [a \in Ages |-> 0]]
    /\ cookie = [b \in Browsers |-> Nobody]
    /\ flow = [f \in Flows |-> [by |-> Nobody, code |-> "none"]]
    /\ changes = Bounds[oidc]
    /\ accepted = {}

Request(r) ==
    \/ loginSubmit(r) \/ Login(r) \/ checkSecondFactor(r) \/ newSession(r) \/ failed(r)
    \/ oidcCallback(r) \/ exchange(r) \/ LoginOIDC(r)
    \/ Auth(r) \/ EndRequest(r) \/ userCreate(r) \/ userDelete(r)
    \/ ChangePassword(r) \/ EnableTOTP(r) \/ DisableTOTP(r)

Next ==
    \/ \E r \in Requests : Request(r)
    \/ \E b \in Browsers : oidcStart(b)
    \/ \E f \in Flows : ProviderAnswers(f)
    \/ \E t \in Tokens : logout(t)
    \/ UserCommand \/ AccountCommand
    \/ Tick

Spec == Init /\ [][Next]_vars

(* Time goes by. *)
FairSpec == Spec /\ WF_vars(Tick)

------------------------------------------------------------------------------
(* Properties. *)

(* A session belongs to an account that exists, and to the one that signed *)
(* in: a new account that gets the id of a deleted one (SQLite reuses the  *)
(* largest) inherits none of its sessions.  The exception is a login that  *)
(* was running when its account was deleted: newSession only has the id.   *)
SessionsOwned ==
    \A t \in DOMAIN sessions :
        LET s == sessions[t]
        IN s.uid \in DOMAIN users /\ (s.acct = users[s.uid].acct \/ s.crossed)

(* "So a code works once" (store.go, UseTOTPStep): two logins at the same  *)
(* time, or one after the other, cannot both use the code of a step, as    *)
(* long as 2FA is not turned on anew.                                      *)
CodeWorksOnce ==
    [][\A r \in Requests :
         jobs[r].at = "code" /\ jobs'[r].at = "open"
           => [secret |-> users[jobs[r].uid].secret, at |-> jobs'[r].code] \notin accepted]_vars

(* The limiter asks before the password is checked and counts after: in    *)
(* Window an address gets no more wrong passwords and codes than Limit and *)
(* the requests that were running when it was reached.                     *)
GuessesBounded == Recent("password") <= Limit - 1 + Cardinality(Requests)

(* A callback signs a browser in only with the answer to the sign-in that  *)
(* this browser began, and two callbacks never with the same answer.       *)
OwnFlow ==
    /\ \A r \in Requests : jobs[r].at = "email" => flow[jobs[r].given].by = jobs[r].browser
    /\ \A r, q \in Requests :
         r # q /\ jobs[r].at = "email" /\ jobs[q].at = "email" => jobs[r].given # jobs[q].given

(* Attempts that the limiter refused are not counted, so a locked address  *)
(* is let in again, however often it asks; only callbacks of the provider, *)
(* which do not ask the limiter, can keep it out.                          *)
LockoutEnds ==
    \/ []<>allowed
    \/ []<><<\E r \in Requests : failed(r) /\ jobs[r].kind = "oidc">>_vars

------------------------------------------------------------------------------
(* The inductive invariants of PanelLoginProofs. *)

(* Every variable keeps its type, and each change takes one of Bounds. *)
PanelTypeOK ==
    /\ DOMAIN users \subseteq Ids /\ users \in [DOMAIN users -> Account]
    /\ sessions \in [DOMAIN sessions -> Session]
    /\ jobs \in [Requests -> Job]
    /\ fails \in [Kinds -> [Ages -> Nat]]
    /\ cookie \in [Browsers -> Flows \cup {Nobody}]
    /\ flow \in [Flows -> [by : Browsers \cup {Nobody}, code : {"none", "given", "used"}]]
    /\ oidc \in BOOLEAN /\ changes \in 0..Bounds[oidc]
    /\ accepted \subseteq [secret : Serials, at : Near]

(* A login past its password is of the account it read, or crossed. *)
LoginsOwned ==
    \A r \in Requests : jobs[r].at \in {"code", "open"} =>
        \/ jobs[r].crossed
        \/ jobs[r].uid \in DOMAIN users /\ jobs[r].acct = users[jobs[r].uid].acct

(* A cookie is of its browser's flow, and so is what a callback took from  *)
(* it; an answer is used once it has been verified.                        *)
FlowsOwned ==
    /\ \A b \in Browsers : cookie[b] # Nobody => flow[cookie[b]].by = b
    /\ \A r \in Requests :
         /\ jobs[r].at = "exchange" => /\ jobs[r].browser \in Browsers
                                       /\ {jobs[r].flow, jobs[r].given} \subseteq Flows
                                       /\ flow[jobs[r].flow].by = jobs[r].browser
         /\ jobs[r].at = "email" => /\ jobs[r].browser \in Browsers /\ jobs[r].given \in Flows
                                    /\ flow[jobs[r].given].code = "used"

(* Each secret is of one account, and none of its codes is newer than the  *)
(* last step that the account has stored.                                  *)
SecretsApart ==
    /\ \A id \in DOMAIN users : users[id].secret < SerialNow
    /\ \A i, j \in DOMAIN users : users[i].secret = users[j].secret => i = j \/ users[i].secret = 0
    /\ \A c \in accepted : c.secret < SerialNow
    /\ \A c \in accepted, id \in DOMAIN users :
         c.secret = users[id].secret /\ c.secret # 0 => c.at <= users[id].ahead

(* The requests that may still add a wrong password or code. *)
Guessing == {r \in Requests : jobs[r].kind = "password" /\ jobs[r].at \notin {"idle", "op"}}

GuessesCounted == Recent("password") + Cardinality(Guessing) <= Limit - 1 + Cardinality(Requests)
==============================================================================
