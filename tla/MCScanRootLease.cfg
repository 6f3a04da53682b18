SPECIFICATION FairSpec
CONSTANTS
    a = a
    b = b
    c = c
    rename = rename
    prep = prep
    r1 = r1
    r2 = r2
    tok1 = tok1
    tok2 = tok2
    Owner = {a, b, c}
    Run = {r1, r2}
    Kind = {rename, prep}
    Token = {tok1, tok2}
    RunOf <- MCRunOf
    KindOf <- MCKindOf
    TokenOf <- MCTokenOf
    Recoverable = {rename}
    LeaseTime = 2
    MaxDelay = 1
    MaxEpoch = 2
    MaxTime = 4
    MaxWrites = 3
    None = None
CHECK_DEADLOCK FALSE
INVARIANTS
    TypeOK
    StaleOwnerNeverWrites
PROPERTIES
    ImplementsExclusiveWriter
    AbandonedLeaseIsRecovered
