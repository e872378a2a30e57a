SPECIFICATION FairSpec
CONSTANTS
    h1 = h1
    h2 = h2
    Host = {h1, h2}
    None = None
    Broken = {h2}
    MaxConnects = 2
    MaxJobs = 1
    MaxAsks = 1
INVARIANTS
    TypeOK
    OnePort
    RelayInOrder
PROPERTIES
    
    Reconnects
