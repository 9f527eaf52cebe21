SPECIFICATION Spec
CONSTANTS
    main = main
    sub = sub
    DBs = {main, sub}
    Main = main
    Suffix <- MCSuffix
    Files <- MCFiles
    Pins <- MCPins
    Channels = {"latest", "stable"}
INVARIANTS NeverWrongVersion FoundUnlessSibling SuffixSelectsDb CollationIsNatural
CHECK_DEADLOCK FALSE
