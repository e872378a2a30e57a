SPECIFICATION Spec
CONSTANTS
    w1 = w1  w2 = w2  i1 = i1  i2 = i2  None = None
    Thread <- Workers
    Ops <- CaptureOps
    Id <- TwoIds
    Prefixes <- OneIdPrefix
    Text <- NoText
    MaxTime = 0
    RetentionDays = 0
    MaxSnapshots = 0
    BeginMayFail = TRUE
    WriteMayFail = TRUE
    RelockOutcomes = {"recurses"}
    MaxRequests = 1
    MaxCrashes = 0
CHECK_DEADLOCK FALSE
INVARIANT NoHalfSnapshot
