----------------------------- MODULE RelayPerm -----------------------------
(***************************************************************************)
(* Who may send to whom through the relay: Server.allowed and its cache,   *)
(* asked by the goroutines that run Server.Handle (the UDP loop and one    *)
(* per VLESS stream) for one pair of nodes, while the pair's rooms change  *)
(* in the controller's database.                                           *)
(*                                                                         *)
(* allowed() takes the time and looks into the cache, asks the database    *)
(* without any lock, and stores the answer under the time it took first.   *)
(* Times are ages, counted in ticks up to Keep, the minute.                *)
(***************************************************************************)
EXTENDS Naturals

CONSTANTS
    Handlers,     \* goroutines that handle frames of the pair
    Keep          \* how long an answer is used, in ticks

ASSUME PermAssumption == Keep \in Nat \ {0}

VARIABLES
    share,      \* do the two nodes share an active room now?
    gap,        \* gap[b]: ticks since share was last b
    cache,      \* perm[src, dst]: [known, ok, age]
    handler     \* each: [pc, ok, age], age the ticks since it took the time

permVars == <<share, gap, cache, handler>>

Pcs == {"idle", "ask", "store", "decided"}

NoAnswer == [known |-> FALSE, ok |-> FALSE, age |-> 0]
Waiting == [pc |-> "idle", ok |-> FALSE, age |-> 0]

Aged(x) == IF x < Keep THEN x + 1 ELSE x

\* A member is approved, or one of the two is banned, kicked or leaves.
Change ==
    /\ share' = ~share
    /\ gap' = [gap EXCEPT ![~share] = 0]
    /\ UNCHANGED <<cache, handler>>

Hit == cache.known /\ cache.age < Keep

\* Seeded fault: a hit makes the answer new again.
LookTouch(h) ==
    /\ handler[h].pc = "idle"
    /\ handler' = [handler EXCEPT ![h] =
            IF Hit THEN [pc |-> "decided", ok |-> cache.ok, age |-> 0]
                   ELSE [pc |-> "ask", ok |-> FALSE, age |-> 0]]
    /\ cache' = IF Hit THEN [cache EXCEPT !.age = 0] ELSE cache
    /\ UNCHANGED <<share, gap>>

\* A SEND frame of the pair: an answer younger than Keep is used.
Look(h) ==
    /\ handler[h].pc = "idle"
    /\ handler' = [handler EXCEPT ![h] =
            IF Hit THEN [pc |-> "decided", ok |-> cache.ok, age |-> 0]
                   ELSE [pc |-> "ask", ok |-> FALSE, age |-> 0]]
    /\ UNCHANGED <<share, gap, cache>>

\* CanSend: one read transaction.
Ask(h) ==
    /\ handler[h].pc = "ask"
    /\ handler' = [handler EXCEPT ![h] = [pc |-> "store", ok |-> share, age |-> @.age]]
    /\ UNCHANGED <<share, gap, cache>>

\* Seeded fault: the answer counts from the moment it is stored.
StoreNow(h) ==
    /\ handler[h].pc = "store"
    /\ cache' = [known |-> TRUE, ok |-> handler[h].ok, age |-> 0]
    /\ handler' = [handler EXCEPT ![h].pc = "decided"]
    /\ UNCHANGED <<share, gap>>

\* The answer is stored, whatever another goroutine stored meanwhile.
Store(h) ==
    /\ handler[h].pc = "store"
    /\ cache' = [known |-> TRUE, ok |-> handler[h].ok, age |-> handler[h].age]
    /\ handler' = [handler EXCEPT ![h].pc = "decided"]
    /\ UNCHANGED <<share, gap>>

\* The frame goes out (ok) or is dropped.
Done(h) ==
    /\ handler[h].pc = "decided"
    /\ handler' = [handler EXCEPT ![h] = Waiting]
    /\ UNCHANGED <<share, gap, cache>>

\* expireLoop forgets old answers.
ForgetAnswer ==
    /\ cache.known /\ cache.age >= Keep
    /\ cache' = NoAnswer
    /\ UNCHANGED <<share, gap, handler>>

PermTick ==
    /\ gap' = [gap EXCEPT ![~share] = Aged(@)]
    /\ cache' = IF cache.known THEN [cache EXCEPT !.age = Aged(@)] ELSE cache
    /\ handler' = [h \in Handlers |->
            IF handler[h].pc = "idle" THEN handler[h]
            ELSE [handler[h] EXCEPT !.age = Aged(@)]]
    /\ UNCHANGED share

PermInit ==
    /\ share \in BOOLEAN
    /\ gap = [b \in BOOLEAN |-> IF b = share THEN 0 ELSE Keep]
    /\ cache = NoAnswer
    /\ handler = [h \in Handlers |-> Waiting]

PermNext ==
    \/ Change
    \/ \E h \in Handlers : Look(h) \/ Ask(h) \/ Store(h) \/ Done(h)
    \/ ForgetAnswer
    \/ PermTick

PermSpec == PermInit /\ [][PermNext]_permVars

------------------------------------------------------------------------------
(* Properties. *)

\* The shape of the state; what holds now held no tick ago, and a goroutine
\* without a frame carries no answer over to the next.
PermTypeOK ==
    /\ share \in BOOLEAN
    /\ gap \in [BOOLEAN -> 0 .. Keep] /\ gap[share] = 0
    /\ cache \in [known : BOOLEAN, ok : BOOLEAN, age : 0 .. Keep]
    /\ handler \in [Handlers -> [pc : Pcs, ok : BOOLEAN, age : 0 .. Keep]]
    /\ \A h \in Handlers : handler[h].pc = "idle" => handler[h] = Waiting

\* A frame decided on within the tick it came in is forwarded only if the two
\* nodes shared a room less than a minute before, and dropped only if they
\* did not: a kicked member sends through the relay for a minute at most, a
\* new one waits for no longer, however the answers of goroutines that asked
\* earlier and later overwrite each other.
AnswersFresh ==
    \A h \in Handlers :
        (handler[h].pc = "decided" /\ handler[h].age = 0) => gap[handler[h].ok] < Keep

\* Why: an answer is never younger than the state it tells of.
AgeInv ==
    /\ cache.known => gap[cache.ok] <= cache.age
    /\ \A h \in Handlers :
        handler[h].pc = "store" => gap[handler[h].ok] <= handler[h].age
PermInv == PermTypeOK /\ AgeInv /\ AnswersFresh
=============================================================================
