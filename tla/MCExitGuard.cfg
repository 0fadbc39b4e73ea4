\* Two rooms, two machines, one exit picked by admins at a time.
SPECIFICATION FairSpec
CONSTANTS
    Rooms = {1, 2}
    Interfaces = {1, 2}
    Confs <- Machines
    RoomDNS = {1}
    ExitDNS = {1, 2}
    PickSets <- OnePick
    MaxEvents = 2
INVARIANTS KeyMeansRules  DNSWithExit 
PROPERTIES StaysBlocked NoGap ExitSettles
