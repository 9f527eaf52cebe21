SPECIFICATION Spec
CONSTANTS
    main = main
    sub = sub
    t1 = t1
    t2 = t2
    t3 = t3
    hA = hA
    hB = hB
    hC = hC
    u1 = u1
    u2 = u2
    NoPkg = NoPkg
    Threads = {t1, t2}
    Main = main
    Subs = {sub}
    Hashes = {hA, hB, hC}
    Unsigned = {u1}
    Broken = {hB}
    FirstIno = 1000
    Home <- MCHome
    InoCnt <- MCInoCnt
INVARIANTS TypeOK RangesDisjoint IdBelongs RightPackage LookupResolves
PROPERTIES NumbersStable ImplementsSpace
