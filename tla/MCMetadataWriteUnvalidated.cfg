SPECIFICATION Spec
CONSTANTS
    x1 = x1
    x2 = x2
    r1 = r1
    Executor = {x1, x2}
    Recoverer = {r1}
    MaxFaults = 2
    Gone = Gone
    None = None
CHECK_DEADLOCK FALSE
INVARIANTS
    VerifiedWasReadBack
