SPECIFICATION FairSpec
CONSTANTS
    h1 = h1
    Host = {h1}
    None = None
    Broken = {}
    MaxConnects = 2
    MaxJobs = 1
    MaxAsks = 1
PROPERTIES
    ComesBack
