---------------------------- MODULE PackageFetch ----------------------------
(***************************************************************************)
(* Fetching, validating and mounting one signed package (handleLookup,     *)
(* ensureDl, doDl, validate and ReadAt of apkgdb/package.go).              *)
(*                                                                         *)
(* The first request that needs the content of a package opens its file    *)
(* through the download manager, checks header hash and signature, and     *)
(* mounts the squashfs image.  The mounted image reads through p.f, which  *)
(* requests on other goroutines use without any lock.  A failed validation *)
(* starts a goroutine that sleeps ten seconds and then clears dlDone.      *)
(***************************************************************************)
EXTENDS Naturals, FiniteSets

CONSTANTS
    Threads,    \* goroutines with a request on the package
    OnDisk,     \* what an earlier process may have left at lpath
    MaxTimers   \* bound on sleeping goroutines

\* what a package file can contain: nothing wrong in header and signature,
\* another header than the database's, or a signature that does not verify
Contents == {"good", "badhdr", "badsig"}

ASSUME FetchAssumption ==
    /\ OnDisk \subseteq Contents \cup {"none"}
    /\ MaxTimers \in Nat

VARIABLES
    served,     \* what the server delivers, fixed initially: the package, or
                \* files of every kind
    readFails,  \* reading header or signature may fail, fixed initially
    disk,       \* content of the file at lpath
    dlMu,       \* the package's mutex is held
    dlDone,
    f,          \* content behind p.f, or "nil"
    valid,      \* validate succeeded on the file now in p.f
    squash,     \* p.squash # nil
    inUse,      \* the kernel has inodes of an image that was mounted
    timers,     \* goroutines that will clear dlDone
    pc,         \* where each goroutine is
    got         \* what its read came to

env == <<served, readFails>>
vars == <<env, disk, dlMu, dlDone, f, valid, squash, inUse, timers, pc, got>>

PCs == {"idle", "ensureDl", "open", "validate", "mount", "finish", "check",
        "getInode", "readAt", "readF", "done"}
Results == {"none", "verified", "unverified", "error"}

\* a new process knows nothing of the package but the file on disk
Init ==
    /\ served \in {{"good"}, Contents}
    /\ readFails \in BOOLEAN
    /\ disk \in OnDisk
    /\ dlMu = FALSE
    /\ dlDone = FALSE
    /\ f = "nil"
    /\ valid = FALSE
    /\ squash = FALSE
    /\ inUse = FALSE
    /\ timers = 0
    /\ pc = [t \in Threads |-> "idle"]
    /\ got = [t \in Threads |-> "none"]

----------------------------------------------------------------------------
Goto(t, l) == pc' = [pc EXCEPT ![t] = l]
Result(t, r) == got' = [got EXCEPT ![t] = r]

\* a nil pointer is used: the process ends with all its goroutines, and the
\* next one finds the file
Panic ==
    /\ dlMu' = FALSE /\ dlDone' = FALSE
    /\ f' = "nil" /\ valid' = FALSE /\ squash' = FALSE /\ inUse' = FALSE
    /\ timers' = 0
    /\ pc' = [t \in Threads |-> "idle"]
    /\ got' = [t \in Threads |-> "none"]
    /\ UNCHANGED <<disk, env>>

\* handleLookup of any inode but the symlink calls ensureDl
HandleLookup(t) ==
    /\ pc[t] = "idle"
    /\ Goto(t, "ensureDl")
    /\ UNCHANGED <<env, disk, dlMu, dlDone, f, valid, squash, inUse, timers, got>>

\* ensureDl: take the mutex; nothing to do when dlDone
EnsureDl(t) ==
    /\ pc[t] = "ensureDl" /\ ~dlMu
    /\ IF dlDone
       THEN Goto(t, "check") /\ UNCHANGED dlMu
       ELSE timers < MaxTimers /\ Goto(t, "open") /\ dlMu' = TRUE
    /\ UNCHANGED <<env, disk, dlDone, f, valid, squash, inUse, timers, got>>

\* doDl: no directory, or the download manager fails
DoDlOpenFails(t) ==
    /\ pc[t] = "open"
    /\ Goto(t, "finish")
    /\ UNCHANGED <<env, disk, dlMu, dlDone, f, valid, squash, inUse, timers, got>>

\* doDl: OpenTo opens the file at lpath, or starts one from the server;
\* p.f is set before the file is validated
DoDlOpen(t) ==
    /\ pc[t] = "open"
    /\ disk' \in IF disk = "none" THEN served ELSE {disk}
    /\ f' = disk'
    /\ valid' = FALSE
    /\ Goto(t, "validate")
    /\ UNCHANGED <<env, dlMu, dlDone, squash, inUse, timers, got>>

\* mutant: a file with the wrong header stays at lpath
ValidateKeeps == disk

\* validate removes the file when its header is not the database's; nothing
\* is removed when the header cannot be read
ValidateRemoves == IF f = "badhdr" THEN "none" ELSE disk

\* the goroutine that makes the download available again
RetryTimer == timers + 1

\* mutant: p.f keeps the file that failed
DoDlInvalidKeeps(t) ==
    /\ pc[t] = "validate" /\ f # "good"
    /\ disk' = ValidateRemoves
    /\ timers' = RetryTimer
    /\ Goto(t, "finish")
    /\ UNCHANGED <<env, dlMu, dlDone, f, valid, squash, inUse, got>>

\* doDl: validate fails, on what it reads or because it cannot read; a
\* goroutine will clear dlDone, p.f = nil
DoDlInvalid(t) ==
    /\ pc[t] = "validate"
    /\ \/ f # "good" /\ disk' = ValidateRemoves
       \/ readFails /\ UNCHANGED disk
    /\ timers' = RetryTimer
    /\ f' = "nil"
    /\ valid' = FALSE
    /\ Goto(t, "finish")
    /\ UNCHANGED <<env, dlMu, dlDone, squash, inUse, got>>

DoDlValid(t) ==
    /\ pc[t] = "validate" /\ f = "good"
    /\ valid' = TRUE
    /\ Goto(t, "mount")
    /\ UNCHANGED <<env, disk, dlMu, dlDone, f, squash, inUse, timers, got>>

\* mutant: an earlier image stays when mounting fails
DoDlMountKeeps(t) ==
    /\ pc[t] = "mount"
    /\ \/ squash' = TRUE /\ inUse' = TRUE /\ UNCHANGED <<f, valid>>
       \/ f' = "nil" /\ valid' = FALSE /\ UNCHANGED <<squash, inUse>>
    /\ Goto(t, "finish")
    /\ UNCHANGED <<env, disk, dlMu, dlDone, timers, got>>

\* doDl: squashfs.New, whose result is assigned even when it is nil
DoDlMount(t) ==
    /\ pc[t] = "mount"
    /\ \/ squash' = TRUE /\ inUse' = TRUE /\ UNCHANGED <<f, valid>>
       \/ /\ squash' = FALSE /\ f' = "nil" /\ valid' = FALSE
          /\ UNCHANGED inUse
    /\ Goto(t, "finish")
    /\ UNCHANGED <<env, disk, dlMu, dlDone, timers, got>>

\* mutant: done whatever came of it
DlDoneAlways == TRUE

DlDoneAfter == squash \/ dlDone

\* ensureDl: dlDone if there is a mounted image, then the mutex is released
EnsureDlEnd(t) ==
    /\ pc[t] = "finish"
    /\ dlDone' = DlDoneAfter
    /\ dlMu' = FALSE
    /\ Goto(t, "check")
    /\ UNCHANGED <<env, disk, f, valid, squash, inUse, timers, got>>

\* handleLookup, the mutex released: p.squash == nil ?
HandleLookupCheck(t) ==
    /\ pc[t] = "check"
    /\ IF squash
       THEN Goto(t, "getInode") /\ UNCHANGED got
       ELSE Goto(t, "done") /\ Result(t, "error")
    /\ UNCHANGED <<env, disk, dlMu, dlDone, f, valid, squash, inUse, timers>>

\* handleLookup: p.squash is loaded again and used
HandleLookupUse(t) ==
    /\ pc[t] = "getInode"
    /\ IF squash
       THEN /\ Goto(t, "readAt")
            /\ UNCHANGED <<env, disk, dlMu, dlDone, f, valid, squash, inUse, timers, got>>
       ELSE Panic

\* a request on an inode of the mounted image goes to ReadAt directly
StartRead(t) ==
    /\ pc[t] = "idle" /\ inUse
    /\ Goto(t, "readAt")
    /\ UNCHANGED <<env, disk, dlMu, dlDone, f, valid, squash, inUse, timers, got>>

\* ReadAt: p.f == nil ?
ReadAtCheck(t) ==
    /\ pc[t] = "readAt"
    /\ IF f = "nil"
       THEN Goto(t, "done") /\ Result(t, "error")
       ELSE Goto(t, "readF") /\ UNCHANGED got
    /\ UNCHANGED <<env, disk, dlMu, dlDone, f, valid, squash, inUse, timers>>

\* ReadAt: p.f is loaded again and read
ReadAtUse(t) ==
    /\ pc[t] = "readF"
    /\ IF f = "nil" THEN Panic
       ELSE /\ Result(t, IF valid THEN "verified" ELSE "unverified")
            /\ Goto(t, "done")
            /\ UNCHANGED <<env, disk, dlMu, dlDone, f, valid, squash, inUse, timers>>

Answer(t) ==
    /\ pc[t] = "done"
    /\ Result(t, "none")
    /\ Goto(t, "idle")
    /\ UNCHANGED <<env, disk, dlMu, dlDone, f, valid, squash, inUse, timers>>

\* the ten seconds are over: dlDone is cleared, whatever happened meanwhile
TimerFires ==
    /\ timers > 0 /\ ~dlMu
    /\ timers' = timers - 1
    /\ dlDone' = FALSE
    /\ UNCHANGED <<env, disk, dlMu, f, valid, squash, inUse, pc, got>>

Step(t) ==
    \/ EnsureDl(t) \/ DoDlOpenFails(t) \/ DoDlOpen(t) \/ DoDlInvalid(t)
    \/ DoDlValid(t) \/ DoDlMount(t) \/ EnsureDlEnd(t) \/ HandleLookupCheck(t) \/ HandleLookupUse(t)
    \/ ReadAtCheck(t) \/ ReadAtUse(t) \/ Answer(t)

Next ==
    \/ \E t \in Threads : HandleLookup(t) \/ StartRead(t) \/ Step(t)
    \/ TimerFires

(***************************************************************************)
(* Goroutines are scheduled, sync.Mutex does not starve, sleeping          *)
(* goroutines wake up, and the kernel keeps looking the package up.  An    *)
(* operation that may fail succeeds if it is tried often enough.           *)
(***************************************************************************)
Fairness ==
    /\ \A t \in Threads :
         /\ SF_vars(HandleLookup(t)) /\ WF_vars(Step(t))
         /\ SF_vars(EnsureDl(t)) /\ SF_vars(DoDlOpen(t))
         /\ SF_vars(DoDlMount(t) /\ squash')
    /\ SF_vars(TimerFires)

Spec == Init /\ [][Next]_vars /\ Fairness

----------------------------------------------------------------------------
TypeOK ==
    /\ served \subseteq Contents /\ readFails \in BOOLEAN
    /\ disk \in Contents \cup {"none"}
    /\ dlMu \in BOOLEAN /\ dlDone \in BOOLEAN
    /\ f \in Contents \cup {"nil"}
    /\ valid \in BOOLEAN /\ squash \in BOOLEAN /\ inUse \in BOOLEAN
    /\ timers \in 0 .. MaxTimers
    /\ pc \in [Threads -> PCs]
    /\ got \in [Threads -> Results]

\* outside doDl the package is in one of the states ensureDl leaves it in
Settled == ~dlMu

(***************************************************************************)
(* dlDone tells the truth: a package is only marked as downloaded while    *)
(* there is an image to read, so a lookup that skips doDl finds it.        *)
(***************************************************************************)
DoneMeansMounted == dlDone => squash

(***************************************************************************)
(* Outside doDl, p.f holds a validated file or none: neither a failed      *)
(* validation nor a failed mount leaves its file behind, even when an      *)
(* earlier download had succeeded.                                         *)
(***************************************************************************)
SettledFileValidated == Settled /\ f # "nil" => valid /\ squash

(***************************************************************************)
(* The retry goroutine makes ensureDl open a mounted package again, which  *)
(* may fail at every step.  Only a read error during that validation costs *)
(* the package its file: failed opens and mounts leave it served or        *)
(* unmounted, and then the next lookup downloads it.                       *)
(***************************************************************************)
FileLostOnlyByReadError ==
    ~readFails /\ Settled /\ squash => f # "nil"

(***************************************************************************)
(* With a correct server and reads that succeed, a package that is asked   *)
(* for again and again ends up being served, even if an earlier process    *)
(* left a damaged header and although opens and mounts may fail.  A file   *)
(* with a bad signature is not removed, so none may be on the disk.        *)
(***************************************************************************)
EventuallyServed ==
    (served = {"good"} /\ ~readFails /\ disk # "badsig")
        => <>(\E t \in Threads : got[t] = "verified")

=============================================================================
