CONSTANTS
    f1 = f1
    f2 = f2
    f3 = f3
    Files = {f1, f2}
    Filters = {{f1, f2}, {}}
    MaxScans = 3
    MaxChanges = 2
    MaxFaults = 1
    BatchSize = 1
    MinMissing = 2
SPECIFICATION Spec
SYMMETRY Symmetry
INVARIANTS
    TypeOK
    LatestHashIsCurrent
    SeriesSinceLastSeen
PROPERTIES
    AbsenceHasACause
CHECK_DEADLOCK FALSE
