\* Two nodes; one of them moves or sends, or the relay restarts.  Idle is below
\* Silence, so that sessions also expire under a client that trusts them still.
SPECIFICATION FairSpec
CONSTANTS
    Nodes = {n1, n2}
    Followed = {n1}
    Sessions = {s1, s2, s3, s4}
    Addrs = {udp, nat, stream}
    StreamAddr = stream
    NoSession = NoSession
    Silence = 2
    Idle = 1
    MaxNet = 2
    MaxEvents = 1
INVARIANTS OneSession
PROPERTIES Registers
