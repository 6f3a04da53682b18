SPECIFICATION FairSpec
CONSTANTS
    e1 = e1
    e2 = e2
    a1 = a1
    r1 = r1
    Executor = {e1, e2}
    Recoverer = {r1}
    Auth = {a1}
    AuthOf <- MCAuthOf
    MaxFaults = 2
    MaxMeddles = 1
    Gone = Gone
    None = None
CHECK_DEADLOCK FALSE
INVARIANTS
    SuccessMeansQuarantined
    NothingMovedWithoutARecord
    AuthorizationIsUsedOnce
PROPERTIES
    EveryRunEnds
    EndedRunFreesTheRoot
