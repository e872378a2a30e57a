SPECIFICATION FairFrontSpec
CONSTANTS
    Method = {"capture", "list", "get", "restore", "delete", "import", "large", "health"}
    Size <- RequestSize
    MaxFrame = 2
    MaxConns = 2
    MaxAttempts = 1
    MaxStops = 1
    MaxEvents = 2
    Programs = {"cli", "gui", "watcher"}
    Command = {"save", "show", "restore", "delete", "diff", "bench", "import", "large", "usage", "health"}
    MaxCommands = 1
CHECK_DEADLOCK FALSE
INVARIANTS FrontTypeOK AnswersAreOwn RunsWhatWasSent EventsInOrder ExitIsHonest
 
