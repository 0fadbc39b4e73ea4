\* All three modes, over paths that come and go.
SPECIFICATION TransportFairSpec
CONSTANTS
    Modes = {"auto", "udp", "vless"}
    Grace = 2
    Keepalive = 5
    Silence = 15
 
PROPERTIES ReachesRelay
