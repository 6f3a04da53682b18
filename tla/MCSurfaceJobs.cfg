SPECIFICATION FairSpec
CONSTANTS
    f1 = f1
    f2 = f2
    x1 = x1
    x2 = x2
    v1 = v1
    wa = wa
    wo = wo
    wp = wp
    key = key
    in = in
    Request = {f1, f2, x1, x2, v1}
    Sent <- MCSent
    KindOf <- MCKindOf
    KeyOf <- MCKeyOf
    InputOf <- MCInputOf
    Worker = {wa, wo, wp}
    RoleOf <- MCRoleOf
    MaxGrants = 2
    MaxFaults = 2
    None = None
CHECK_DEADLOCK FALSE
INVARIANTS
    TypeOK
    OneWorkerPerJob
    SuccessIsBacked
    AnalysisWorkerTellsTheTruth
PROPERTIES
    LiveAnalysisWorkerReports
