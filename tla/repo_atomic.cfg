SPECIFICATION Spec
CONSTANTS
    w1 = w1  w2 = w2  i1 = i1  i2 = i2  None = None
    Thread <- Workers
    Ops <- StoreOps
    Id <- TwoIds
    Prefixes <- OneIdPrefix
    Text <- NoText
    MaxTime = 2
    RetentionDays = 1
    MaxSnapshots = 1
    BeginMayFail = FALSE
    WriteMayFail = TRUE
    RelockOutcomes = {"recurses", "blocks"}
    MaxRequests = 3
    MaxCrashes = 1
SYMMETRY ThreadSymmetry
CHECK_DEADLOCK FALSE
INVARIANTS TypeOK NoHalfSnapshot NoOrphans ReadsCommitted
PROPERTY ImplementsStore
