----------------------------- MODULE InodeCache -----------------------------
(***************************************************************************)
(* The table of inodes the kernel holds references to (apkgfs/cache.go,    *)
(* and the Lookup, Forget and ReadDir handlers of fs.go and server.go).    *)
(*                                                                         *)
(* A lookup that succeeds gives the kernel one reference on the inode      *)
(* number; the kernel gives references back in FORGET messages.  Each      *)
(* request runs on its own goroutine.  References are counted in the inode *)
(* object, not in the table, the count is changed outside the table's lock *)
(* by lookups, and the backend may build a new object for the same number  *)
(* each time: addToCache then moves the count to the object in the table.  *)
(*                                                                         *)
(* The answer to READDIRPLUS gives the kernel a reference on every inode   *)
(* it lists as well, which nothing counts.  The kernel gives these back    *)
(* like others, so that counts can go below zero: the code's are 64 bits   *)
(* and wrap around, the module's are integers.                             *)
(*                                                                         *)
(* The entries of the table are independent of each other (the lock is     *)
(* the only thing they share), so the module follows one inode number.     *)
(* BATCH_FORGET is one removeFromCache per entry, that is one forget here. *)
(***************************************************************************)
EXTENDS Integers, FiniteSets

CONSTANTS
    Threads,    \* goroutines serving requests about this number
    Objs,       \* inode objects the backend can return for it
    NoObj,      \* not an object
    MaxRefs,    \* bound on references given out and not yet given back
    MaxLeaks,   \* bound on lookups that fail after they took a reference
    MaxPlus     \* bound on references given by READDIRPLUS

ASSUME ObjsAssumption ==
    /\ NoObj \notin Objs \cup Threads
    /\ IsFiniteSet(Objs) /\ IsFiniteSet(Threads)
    /\ Cardinality(Objs) > Cardinality(Threads)
    /\ {MaxRefs, MaxLeaks, MaxPlus} \subseteq Nat

VARIABLES
    inoCache,   \* PkgFS.inoCache for this number
    inoCacheL,  \* holder of the table's write lock
    refcnt,     \* the count in each object
    kernel,     \* references the kernel holds
    leaked,     \* references counted for a lookup that answered an error
    plus,       \* ghost: references READDIRPLUS has given it so far
    virtual,    \* a symlink or ld.so.cache, whose objects count nothing
    root,       \* the object of a package's root directory, which the backend
                \* always returns; NoObj for inodes whose objects are made anew
    pc, obj,    \* where a goroutine is, and the object it works with
    v           \* its v (addToCache, removeFromCache) or its nlookup

inode == <<virtual, root>>
vars == <<inoCache, inoCacheL, refcnt, kernel, leaked, plus, inode, pc, obj, v>>

PCs == {"idle", "miss", "have", "counted", "move", "moved", "fill", "reply",
        "forget", "evict"}

Init ==
    /\ inoCache = NoObj
    /\ inoCacheL = NoObj
    /\ refcnt = [o \in Objs |-> 0]
    /\ kernel = 0
    /\ leaked = 0
    /\ plus = 0
    /\ virtual \in BOOLEAN
    /\ root \in IF virtual THEN {NoObj} ELSE {NoObj, CHOOSE o \in Objs : TRUE}
    /\ pc = [t \in Threads |-> "idle"]
    /\ obj = [t \in Threads |-> NoObj]
    /\ v = [t \in Threads |-> 0]

----------------------------------------------------------------------------
Goto(t, l) == pc' = [pc EXCEPT ![t] = l]

\* AddRef and DelRef of a counting inode are atomic additions; those of a
\* symlink or of ld.so.cache store nothing and return 1 and 0
AddRefTo(o, c) == IF virtual THEN refcnt ELSE [refcnt EXCEPT ![o] = @ + c]
AddRefResult(o, c) == IF virtual THEN 1 ELSE refcnt[o] + c
DelRefFrom(o, c) == IF virtual THEN refcnt ELSE [refcnt EXCEPT ![o] = @ - c]
DelRefResult(o, c) == IF virtual THEN 0 ELSE refcnt[o] - c

Lock(t) == inoCacheL = NoObj /\ inoCacheL' = t
Unlock(t) == inoCacheL = t /\ inoCacheL' = NoObj

\* the sum of f over S, as the number of units there are: a cardinality is
\* what the provers can reason about
Units(f, S) == UNION {{x} \X (1 .. f[x]) : x \in S}
Total(f, S) == Cardinality(Units(f, S))

Pending == {t \in Threads : pc[t] \in {"counted", "move", "moved", "fill", "reply"}}
Forgetting == {t \in Threads : pc[t] = "forget"}
Outstanding ==
    kernel + Total(v, Forgetting)
           + Cardinality({t \in Threads : pc[t] \in PCs \ {"idle", "forget", "evict"}})

\* objects nobody refers to, which are alike: the backend's next object
Fresh == {o \in Objs : o # inoCache /\ \A t \in Threads : obj[t] # o}

\* a LOOKUP arrives and getInode looks in the table, under RLock
GetInodeCached(t) ==
    /\ pc[t] = "idle" /\ Outstanding < MaxRefs
    /\ inoCacheL = NoObj
    /\ IF inoCache # NoObj
       THEN Goto(t, "have") /\ obj' = [obj EXCEPT ![t] = inoCache]
       ELSE Goto(t, "miss") /\ UNCHANGED obj
    /\ UNCHANGED <<inoCache, inoCacheL, refcnt, kernel, leaked, v, plus, inode>>

\* getInode, miss: the backend returns an object for the number; a package's
\* root directory is always the same object, others are made anew
GetInodeRoot(t) ==
    /\ pc[t] = "miss"
    /\ \/ root # NoObj /\ obj' = [obj EXCEPT ![t] = root] /\ UNCHANGED refcnt
       \/ /\ root = NoObj /\ Fresh # {}
          /\ LET o == CHOOSE x \in Fresh : TRUE
             IN  /\ obj' = [obj EXCEPT ![t] = o]
                 /\ refcnt' = [refcnt EXCEPT ![o] = 0]
    /\ Goto(t, "have")
    /\ UNCHANGED <<inoCache, inoCacheL, kernel, leaked, v, plus, inode>>

\* subI.AddRef(1), outside the lock
LookupAddRef(t) ==
    /\ pc[t] = "have"
    /\ refcnt' = AddRefTo(obj[t], 1)
    /\ Goto(t, "counted")
    /\ UNCHANGED <<inoCache, inoCacheL, kernel, leaked, obj, v, plus, inode>>

\* addToCache takes the lock and finds the table empty: "perfect"
AddNew(t) ==
    /\ pc[t] = "counted"
    /\ inoCacheL = NoObj /\ inoCache = NoObj
    /\ inoCache' = obj[t]
    /\ Goto(t, "fill")
    /\ UNCHANGED <<inoCacheL, refcnt, kernel, leaked, obj, v, plus, inode>>

\* addToCache finds an object: v := o.AddRef(0), and the lock if v = 0
AddFound(t) ==
    LET w == AddRefResult(obj[t], 0) IN
    /\ pc[t] = "counted"
    /\ inoCache # NoObj
    /\ IF w # 0
       THEN Lock(t) /\ Goto(t, "move") /\ v' = [v EXCEPT ![t] = w]
       ELSE /\ inoCacheL = NoObj
            /\ Goto(t, "fill")
            /\ UNCHANGED <<inoCacheL, v>>
    /\ UNCHANGED <<inoCache, refcnt, kernel, leaked, obj, plus, inode>>

\* c.AddRef(v)
AddMove(t) ==
    /\ pc[t] = "move"
    /\ refcnt' = AddRefTo(inoCache, v[t])
    /\ Goto(t, "moved")
    /\ UNCHANGED <<inoCache, inoCacheL, kernel, leaked, obj, v, plus, inode>>

\* mutant: the object looked up keeps its count
AddMovedKept(t) ==
    /\ pc[t] = "moved"
    /\ Unlock(t)
    /\ v' = [v EXCEPT ![t] = 0]
    /\ Goto(t, "fill")
    /\ UNCHANGED <<inoCache, refcnt, kernel, leaked, obj, plus, inode>>

\* o.DelRef(v), and the lock is released
AddMoved(t) ==
    /\ pc[t] = "moved"
    /\ refcnt' = DelRefFrom(obj[t], v[t])
    /\ Unlock(t)
    /\ v' = [v EXCEPT ![t] = 0]
    /\ Goto(t, "fill")
    /\ UNCHANGED <<inoCache, kernel, leaked, obj, plus, inode>>

\* FillAttr may fail: the lookup answers an error and its reference stays
FillAttr(t) ==
    /\ pc[t] = "fill"
    /\ \/ Goto(t, "reply") /\ UNCHANGED <<leaked, obj>>
       \/ /\ ~virtual /\ leaked < MaxLeaks
          /\ leaked' = leaked + 1
          /\ Goto(t, "idle")
          /\ obj' = [obj EXCEPT ![t] = NoObj]
    /\ UNCHANGED <<inoCache, inoCacheL, refcnt, kernel, v, plus, inode>>

\* the answer reaches the kernel, which counts one more reference
Reply(t) ==
    /\ pc[t] = "reply"
    /\ kernel' = kernel + 1
    /\ Goto(t, "idle")
    /\ obj' = [obj EXCEPT ![t] = NoObj]
    /\ UNCHANGED <<inoCache, inoCacheL, refcnt, leaked, v, plus, inode>>

\* an answer to READDIRPLUS lists the inode: nothing is counted and nothing is
\* entered in the table.  The root of the mount cannot be listed, and with it
\* symlinks, ld.so.cache and the root directories of packages
ReadDirPlus ==
    /\ ~virtual /\ root = NoObj
    /\ plus < MaxPlus /\ Outstanding < MaxRefs
    /\ kernel' = kernel + 1
    /\ plus' = plus + 1
    /\ UNCHANGED <<inoCache, inoCacheL, refcnt, leaked, inode, pc, obj, v>>

\* the kernel gives k references back and a goroutine takes the message
SendForget(t, k) ==
    /\ pc[t] = "idle"
    /\ kernel' = kernel - k
    /\ v' = [v EXCEPT ![t] = k]
    /\ Goto(t, "forget")
    /\ UNCHANGED <<inoCache, inoCacheL, refcnt, leaked, obj, plus, inode>>

Forgotten(t) ==
    /\ Goto(t, "idle")
    /\ v' = [v EXCEPT ![t] = 0]
    /\ obj' = [obj EXCEPT ![t] = NoObj]

\* removeFromCache: not in the table
RemoveMissing(t) ==
    /\ pc[t] = "forget" /\ inoCache = NoObj /\ inoCacheL = NoObj
    /\ Forgotten(t)
    /\ UNCHANGED <<inoCache, inoCacheL, refcnt, kernel, leaked, plus, inode>>

\* removeFromCache: v := c.DelRef(nlookup), under the lock
RemoveDelRef(t) ==
    /\ pc[t] = "forget" /\ inoCache # NoObj
    /\ Lock(t)
    /\ v' = [v EXCEPT ![t] = DelRefResult(inoCache, @)]
    /\ refcnt' = DelRefFrom(inoCache, v[t])
    /\ Goto(t, "evict")
    /\ UNCHANGED <<inoCache, kernel, leaked, obj, plus, inode>>

\* mutant: one remaining reference is taken for none
EvictableOne(w) == w <= 1

\* mutant: the entry stays in the table
EvictableNever(w) == FALSE

\* v == 0, or "over large" because the subtraction wrapped around
Evictable(w) == w <= 0

\* mutant: the lock is not released
RemoveEvictLocked(t) ==
    /\ pc[t] = "evict"
    /\ inoCache' = IF Evictable(v[t]) THEN NoObj ELSE inoCache
    /\ Forgotten(t)
    /\ UNCHANGED <<inoCacheL, refcnt, kernel, leaked, plus, inode>>

\* removeFromCache: drop the entry if nothing is left, release the lock
RemoveEvict(t) ==
    /\ pc[t] = "evict"
    /\ inoCache' = IF Evictable(v[t]) THEN NoObj ELSE inoCache
    /\ Unlock(t)
    /\ Forgotten(t)
    /\ UNCHANGED <<refcnt, kernel, leaked, plus, inode>>

LookupStep(t) ==
    \/ GetInodeRoot(t) \/ LookupAddRef(t) \/ AddMove(t) \/ AddMoved(t)
    \/ FillAttr(t) \/ Reply(t) \/ RemoveEvict(t)

LockStep(t) ==
    \/ AddNew(t) \/ AddFound(t) \/ RemoveMissing(t) \/ RemoveDelRef(t)

Arrive(t) == GetInodeCached(t) \/ \E k \in 1 .. kernel : SendForget(t, k)

Next ==
    \/ \E t \in Threads : Arrive(t) \/ LookupStep(t) \/ LockStep(t)
    \/ ReadDirPlus

(***************************************************************************)
(* Goroutines are scheduled, and sync.RWMutex does not starve a writer.    *)
(***************************************************************************)
Fairness ==
    \A t \in Threads : WF_vars(LookupStep(t)) /\ SF_vars(LockStep(t))

Spec == Init /\ [][Next]_vars /\ Fairness

----------------------------------------------------------------------------
\* types, and a forget gives something back
TypeOK ==
    /\ inoCache \in Objs \cup {NoObj}
    /\ inoCacheL \in Threads \cup {NoObj}
    /\ refcnt \in [Objs -> Int]
    /\ kernel \in Nat /\ leaked \in Nat /\ plus \in Nat
    /\ virtual \in BOOLEAN /\ root \in Objs \cup {NoObj}
    /\ pc \in [Threads -> PCs]
    /\ obj \in [Threads -> Objs \cup {NoObj}]
    /\ v \in [Threads -> Int]
    /\ \A t \in Forgetting : v[t] > 0

\* what each object counts, without what addToCache has added to the table's
\* object and is about to subtract from this one
Counted ==
    [o \in Objs |->
        IF \E t \in Threads : inoCacheL = t /\ pc[t] = "moved" /\ obj[t] = o
          THEN refcnt[o] - v[inoCacheL] ELSE refcnt[o]]

\* the sum of integers: those above zero, less those below
Net(f, S) == Total(f, S) - Total([x \in S |-> 0 - f[x]], S)

\* references somebody has: the kernel, a lookup or a forget in progress
Held == kernel + leaked + Cardinality(Pending) + Total(v, Forgetting)

(***************************************************************************)
(* References are neither lost nor invented: the counts of all objects     *)
(* together, moved between objects while lookups and forgets run, fall     *)
(* short of what the kernel, lookups and forgets in progress hold by no    *)
(* more than READDIRPLUS has given out, and never exceed it.  Without      *)
(* READDIRPLUS they are the same.                                          *)
(***************************************************************************)
RefConservation ==
    ~virtual => /\ Net(Counted, Objs) + plus >= Held
                /\ Total(Counted, Objs) <= Held

(***************************************************************************)
(* An inode the kernel holds more references to than READDIRPLUS has given *)
(* it is in the table, with at least the count of the others: a forget     *)
(* never evicts what a lookup has entered and the kernel still uses, also  *)
(* when it subtracts references that were not counted.                     *)
(***************************************************************************)
KernelHeldIsCached ==
    (~virtual /\ kernel > plus) =>
        inoCache # NoObj /\ Counted[inoCache] >= kernel - plus

(***************************************************************************)
(* Once the kernel has given everything back and no request is running,    *)
(* the table is empty, unless an error path leaked a reference: a count    *)
(* that READDIRPLUS made too small, and that wrapped around, keeps no      *)
(* entry in it.                                                            *)
(***************************************************************************)
NoResidue ==
    (kernel = 0 /\ leaked = 0 /\ \A t \in Threads : pc[t] = "idle")
        => inoCache = NoObj

(***************************************************************************)
(* Every request gets through the table's lock: a lookup is answered and a *)
(* forget takes effect.                                                    *)
(***************************************************************************)
RequestsEnd == \A t \in Threads : pc[t] # "idle" ~> pc[t] = "idle"
=============================================================================
