SPECIFICATION Spec
CONSTANTS
    p1 = p1
    p2 = p2
    Proc = {p1, p2}
    Cli = Cli
    None = None
    Faults = {"crash", "slow", "io"}
    MaxFaults = 2
    MaxMeddles = 1
    MaxForeign = 1
    ForeignModes = {"full", "quick", "narrow"}
    Punctual = TRUE
CHECK_DEADLOCK FALSE
SYMMETRY Callers
INVARIANTS
    TypeOK
    JournalTellsWhereTheBookIs
    IndexNeverSeesAnUndecidedRename
    OneForwardRename
PROPERTIES
    NoMutationAfterTerminal
