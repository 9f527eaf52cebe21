SPECIFICATION Spec
CONSTANTS
    lk = lk
    rd = rd
    fg = fg
    pk = pk
    rl = rl
    main = main
    sub = sub
    NoCache = NoCache
    Torn = Torn
    Reqs = {lk, rd, fg, pk, rl}
    Kind <- MCKind
    Main = main
    Subs = {sub}
    MaxBuilds = 2
    MaxBackground = 1
INVARIANTS CacheIsMains
PROPERTIES Answered NewestAfterForget
CHECK_DEADLOCK FALSE
