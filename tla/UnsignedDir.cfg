SPECIFICATION Spec
CONSTANTS
    f1 = f1
    f2 = f2
    w1 = w1
    w2 = w2
    None = None
    Files = {f1, f2}
    Watchers = {w1, w2}
    MaxChanges = 2
INVARIANTS QuietListsDirectory 
PROPERTIES ListingSettles
CHECK_DEADLOCK FALSE
