SPECIFICATION FairSpec
CONSTANTS
    h1 = h1
    h2 = h2
    x = x
    z = z
    Files = {1, 2}
    Bytes = {x, z}
    BytesOf <- MCBytesOf
    QuickOf <- MCQuickOf
    Call = {h1, h2}
    BatchSize = 1
    Limit = {2}
    MaxScans = 2
    MaxChanges = 1
    MaxFaults = 1
    Scanner = Scanner
    None = None
CHECK_DEADLOCK FALSE
INVARIANTS
    TypeOK
    FullHashIsOfTheListing
    OneFullHashPerObservation
    ProgressIsTrue
    SourceStaysLatest
PROPERTIES
    CollisionsGetConfirmed
