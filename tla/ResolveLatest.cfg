SPECIFICATION Spec
CONSTANTS
    main = main
    sub = sub
    DBs = {main, sub}
    Main = main
    Suffix <- MCSuffix
    Files <- MCFiles
    Pins <- MCPins
    Channels = {"latest"}
INVARIANTS LatestFound
CHECK_DEADLOCK FALSE
