\* Two members, three policies, a flow table of two.
SPECIFICATION FairSpec
CONSTANTS
    me = me
    ann = ann
    bob = bob
    host = host
    group = group
    Self = me
    Subnet <- MCSubnet
    Groups <- MCGroups
    MDNS = group
    GossipPort = 4798
    OutPackets <- Sent
    Wires <- Arriving
    Configs <- MCConfigs
    PeerSets <- MCPeerSets
    Machines <- MCMachines
    FlowTTL = 2
    MaxFlows = 2
    MaxPPS = 1
    Batch = 1
    MaxChanges = 1
    MaxFaults = 1
INVARIANTS DeviceTypeOK Admitted 
PROPERTIES RouterSettles
