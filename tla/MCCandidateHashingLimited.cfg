SPECIFICATION FairSpec
CONSTANTS
    h1 = h1
    h2 = h2
    x = x
    z = z
    Files = {1, 2}
    Bytes = {x, z}
    BytesOf <- MCBytesOf
    QuickOf <- MCQuickOf
    Call = {h1}
    BatchSize = 1
    Limit = {1}
    MaxScans = 2
    MaxChanges = 1
    MaxFaults = 0
    Scanner = Scanner
    None = None
CHECK_DEADLOCK FALSE
PROPERTIES
    CollisionsGetConfirmed
