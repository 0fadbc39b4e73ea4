SPECIFICATION FairSpec
CONSTANTS
    lan = lan
    wan = wan
    relay = relay
    Order <- MCOrder
    Lan = {lan}
    Relay = {relay}
    NoPath = NoPath
    Guess = Guess
    CandSets <- MCCandSets
    HintSets <- MCHintSets
    Ctrls = {c, d}
    First = c
    Search = 1
    Recheck = 2
    Stale = 3
    PingTTL = 1
    Eager = 1
    MaxPending = 6
    MaxLearned = 1
    MaxChanges = 2
INVARIANTS DeadPathLeft 
 
