SPECIFICATION Spec
CONSTANTS
    main = main
    o1 = o1
    o2 = o2
    here = here
    there = there
    t1 = t1
    t2 = t2
    closer = closer
    c1 = c1
    None = None
    Main = main
    Objs = {o1, o2}
    Pairs = {there}
    MainPair = here
    Threads = {t1, t2}
    Closer = closer
    Channels = {c1}
    MaxVersion <- MCMaxVersion
INVARIANTS NoOrphanDb ChannelAgrees
PROPERTIES SubGetEnds Converges CloseEnds
CHECK_DEADLOCK FALSE
