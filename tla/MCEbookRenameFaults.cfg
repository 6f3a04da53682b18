SPECIFICATION FairSpec
CONSTANTS
    p1 = p1
    p2 = p2
    Proc = {p1, p2}
    Cli = Cli
    None = None
    Faults = {"crash", "slow", "io", "db", "scan", "hash"}
    MaxFaults = 2
    MaxMeddles = 0
    MaxForeign = 1
    ForeignModes = {"full", "quick", "narrow"}
    Punctual = TRUE
CHECK_DEADLOCK FALSE
INVARIANTS
    IndexAgreesWithVerdict
PROPERTIES
    EveryRunIsDecided
