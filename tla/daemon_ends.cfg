SPECIFICATION FairSpec
CONSTANTS
    k1 = k1  k2 = k2  None = None
    Client <- OneClient
    MaxClients = 1
    MaxBatch = 2
    CloseWakes = TRUE
    Scheduled = FALSE
    Signals = TRUE
CHECK_DEADLOCK FALSE
PROPERTIES  SlotsComeBack
