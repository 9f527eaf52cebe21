SPECIFICATION Spec
CONSTANTS
    nA = nA
    nB = nB
    a1 = a1
    a2 = a2
    b1 = b1
    stableA = stableA
    NoHash = NoHash
    Names = {nA, nB}
    Hashes = {a1, a2, b1}
    PinKeys = {}
    NameOf <- MCNameOf
    Walk <- MCWalk
    MaxVersions = 3
    Removals = TRUE
    Rebuilds = TRUE
    StaleLatest = TRUE
    AddErrors = TRUE
INVARIANTS NamedExportExists ListedHasRecord InstalledNamesResolve
