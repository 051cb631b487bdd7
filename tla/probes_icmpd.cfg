\* ICMP daemon: the entry of a new client keeps the port of the one before.
SPECIFICATION Spec
CONSTANTS
    HbMax = 2
    TrMaxTtl = 3
    TrProbes = 1
    TrHops = 2
    IdClient = {1, 2, 3}
    IdSlots = 2
    IdSending = {1, 2}
    IdFamily <- IdFamilies
INVARIANT IdOnlyOwner
CHECK_DEADLOCK FALSE
