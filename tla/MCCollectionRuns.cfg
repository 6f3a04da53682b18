SPECIFICATION FairSpec
CONSTANTS
    e = e
    a = a
    e1 = e1
    e2 = e2
    a1 = a1
    a2 = a2
    p = p
    q = q
    Run = {e, a}
    KindOf <- MCKindOf
    Item = {e1, e2, a1}
    PlanOf <- MCPlanOf
    ClaimLimit = 2
    Proc = {p, q}
    MaxEpoch = 3
    None = None
INVARIANTS
    ResultIsOfTheLastAttempt
    FinalStatusIsTrue
    ResultsAreBacked
PROPERTIES
    EveryInvocationEnds
CHECK_DEADLOCK FALSE
