SPECIFICATION Spec
CONSTANTS
    r1 = r1
    r2 = r2
    Reqs = {r1}
    MaxGen = 2
    MaxVersion = 1
    FirstRun = 1
PROPERTIES SeamlessRestart
CHECK_DEADLOCK FALSE
