SPECIFICATION FairSpec
CONSTANTS
    admin = admin
    bob = bob
    Logins <- MCLogins
    First <- MCFirst
    Passwords = {p, q}
    Requests = {r1, r2}
    Tokens = {t}
    Browsers = {b1, b2}
    MaxFlows = 2
    Nobody = Nobody
    Limit = 1
    Window = 1
    Skew = 1
    SessionTTL = 0
    MaxId = 2
    Bounds <- MCBounds
CHECK_DEADLOCK FALSE
INVARIANTS SessionsOwned  OwnFlow
PROPERTIES CodeWorksOnce 
