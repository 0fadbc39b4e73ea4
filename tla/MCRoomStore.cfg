\* Two rooms that compete for subnets, their members, invites and addresses,
\* managed by the panel and the command line.
SPECIFICATION StoreSpec
CONSTANTS
    Rooms = {r1, r2}
    Nodes = {n1, n2, n3}
    Users = {owner, admin}
    Admins = {admin}
    Tokens = {t1}
    Subnets <- MCSubnets
    Reports <- MCReports
    Addresses <- FewAddresses
    Uses <- MCUses
    Fields = {"name", "acl"}
    Values <- MCValues
    MaxMembers = 2
    MaxRooms = 1
    MaxVersion = 6
    NoNode = NoNode
SYMMETRY Sym
INVARIANTS AddressesUnique InviteBudget BansHold 
PROPERTIES RosterVersioned
CHECK_DEADLOCK FALSE
