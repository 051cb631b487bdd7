\* Out-of-band data, heartbeats, traceroute and the ICMP daemon.
SPECIFICATION Spec
CONSTANTS
    HbMax = 2
    TrMaxTtl = 3
    TrProbes = 1
    TrHops = 2
    IdClient = {1, 2, 3}
    IdSlots = 2
    IdSending = {1, 2}
    IdFamily <- IdFamilies
INVARIANTS
    
    TrSound
    
PROPERTIES
    ProbesLive
CHECK_DEADLOCK FALSE
