SPECIFICATION FairSpec
CONSTANTS
    w1 = w1  w2 = w2  i1 = i1  i2 = i2  None = None
    Thread <- Workers
    Ops <- OneEditor
    Id <- TwoIds
    Prefixes <- TwoIdPrefixes
    Text <- OneText
    MaxTime = 0
    RetentionDays = 0
    MaxSnapshots = 1
    BeginMayFail = TRUE
    WriteMayFail = TRUE
    RelockOutcomes = {"recurses"}
    MaxRequests = 4
    MaxCrashes = 0
CHECK_DEADLOCK FALSE
 
PROPERTIES SuccessMeansStored  
