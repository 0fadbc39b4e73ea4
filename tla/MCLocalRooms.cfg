SPECIFICATION FairSpec
CONSTANTS
    Nodes = {o, a, b}
    Owner = o
    NoNode = NoNode
    Hosts = 3
    MaxUses = 1
    MaxEvents = 3
INVARIANTS LocalTypeOK AddressesApart SignersAreAdmins InviteUsesHold
PROPERTIES FileMovesForward RoomSettles
CHECK_DEADLOCK FALSE
