\* The kill switch while an admin's exit is in use and a command is given.
SPECIFICATION FairSpec
CONSTANTS
    Rooms = {1, 2}
    Interfaces = {1, 2}
    Confs <- Machines
    RoomDNS = {1}
    ExitDNS = {1, 2}
    PickSets <- OnePick
    MaxEvents = 1
PROPERTIES KillSwitchHolds
