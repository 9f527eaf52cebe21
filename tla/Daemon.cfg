SPECIFICATION Spec
CONSTANTS
    r1 = r1
    r2 = r2
    Reqs = {r1, r2}
    MaxGen = 2
    MaxVersion = 3
    FirstRun = 2
INVARIANTS ClosedOnce HandsOverTheMount
PROPERTIES TermReleases AnsweredByFirstImage NoDowngrade
CHECK_DEADLOCK FALSE
