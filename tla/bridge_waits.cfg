SPECIFICATION FairSpec
CONSTANTS
    h1 = h1  h2 = h2  c1 = c1  c2 = c2  None = None
    Host <- OneHost
    Caller <- Callers
    Profile <- DefaultProfile
    MaxCaptures = 2
    MaxRestores = 1
    MaxTabs = 1
CHECK_DEADLOCK FALSE
PROPERTIES CallersReturn 
