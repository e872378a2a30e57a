SPECIFICATION Spec
CONSTANTS
    k1 = k1  k2 = k2  None = None
    Client <- TwoClients
    MaxClients = 1
    MaxBatch = 1
    CloseWakes = TRUE
    Scheduled = TRUE
    Signals = FALSE
CHECK_DEADLOCK FALSE
SYMMETRY ClientSymmetry
INVARIANTS TypeOK  StopLeavesNothing
