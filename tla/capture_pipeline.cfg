SPECIFICATION Spec
CONSTANTS
    None = None
    NoFrame = NoFrame
    Word <- Words
    StripAll = FALSE
    StripFragments = TRUE
    StripUserinfo = TRUE
    DetectEntropy = TRUE
    Sensitive = {}
    Denied = {}
    Allowlist = FALSE
    Allowed = {}
    CharSize = 256
    Browsers = {"chromium", "firefox"}
    Tab = {1, 2, 3, 4}
    Window = {1, 2, 3}
    Private = {3}
    Minimized = {2}
    Page <- Pages
    Opened <- ThreeOpen
    Frame = {0, 1, 6}
    Width = 10
    Frames <- SomeFrames
    Apps <- Editor
    BrowserApp <- Chrome
    Requests <- Options
    MaxSteps = 2
INVARIANTS TypeOK StoredIsAllowed  
