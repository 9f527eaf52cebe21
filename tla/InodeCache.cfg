SPECIFICATION Spec
CONSTANTS
    t1 = t1
    t2 = t2
    t3 = t3
    o1 = o1
    o2 = o2
    o3 = o3
    o4 = o4
    NoObj = NoObj
    Threads = {t1, t2, t3}
    Objs = {o1, o2, o3, o4}
    MaxRefs = 3
    MaxLeaks = 1
    MaxPlus = 1
INVARIANTS RefConservation KernelHeldIsCached NoResidue
PROPERTIES RequestsEnd
