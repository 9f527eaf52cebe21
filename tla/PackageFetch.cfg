SPECIFICATION Spec
CONSTANTS
    t1 = t1
    t2 = t2
    t3 = t3
    Threads = {t1, t2, t3}
    OnDisk = {"none", "good", "badhdr", "badsig"}
    MaxTimers = 3
INVARIANTS DoneMeansMounted SettledFileValidated FileLostOnlyByReadError
PROPERTIES EventuallyServed
