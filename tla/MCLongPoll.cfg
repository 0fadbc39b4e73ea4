\* A node polls while the rooms that it shares with another one change, the
\* command line interferes, answers get lost, polls are cancelled and the
\* controller restarts once.
SPECIFICATION FairSpec
CONSTANTS
    Rooms = {r1}
    Nodes = {n1, n2}
    Pollers = {n1}
    Users = {admin}
    Admins = {admin}
    Tokens = {t1}
    Subnets <- OneSubnet
    Reports <- TwoReports
    Addresses = {}
    Uses = {0}
    Fields = {"name"}
    Values = {0}
    MaxMembers = 0
    MaxRooms = 0
    MaxVersion = 5
    NoNode = NoNode
    MaxCrashes = 1
INVARIANTS NoMissedWake VersionTellsRooms
CHECK_DEADLOCK FALSE
PROPERTIES ChangesReachNodes
