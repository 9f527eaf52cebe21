SPECIFICATION Spec
CONSTANTS
    nA = nA
    nB = nB
    a1 = a1
    a2 = a2
    b1 = b1
    stableA = stableA
    NoHash = NoHash
    Names = {nA, nB}
    Hashes = {a1, a2, b1}
    PinKeys = {stableA}
    NameOf <- MCNameOf
    Walk <- MCWalk
    MaxVersions = 3
    Removals = FALSE
    Rebuilds = FALSE
    StaleLatest = FALSE
    AddErrors = TRUE
INVARIANTS InstalledBuildsCurrent
PROPERTIES CatchesUp
