SPECIFICATION Spec
CONSTANTS
    h1 = h1  h2 = h2  c1 = c1  c2 = c2  None = None
    Host <- Hosts
    Caller <- Callers
    Profile <- DefaultProfile
    MaxCaptures = 0
    MaxRestores = 3
    MaxTabs = 1
CHECK_DEADLOCK FALSE
SYMMETRY BridgeSymmetry
INVARIANTS TypeOK OpenedAtMostOnce
PROPERTY AnswerIsMine
