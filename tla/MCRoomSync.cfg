\* Every applier at once, two commands, and a device error or a restart.
SPECIFICATION FairSpec
CONSTANTS
    Syncers = {s1, s2}
    NoSyncer = NoSyncer
    Extra = {"gossip", "path"}
    MaxConfigs = 2
    MaxCommands = 2
    MaxFaults = 1
INVARIANTS StaysRevoked
PROPERTIES ImplementsView Follows
