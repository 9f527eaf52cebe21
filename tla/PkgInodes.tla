----------------------------- MODULE PkgInodes -----------------------------
(***************************************************************************)
(* Inode numbers of packages (apkgdb/lookup.go, apkgdb/package.go).        *)
(*                                                                         *)
(* The root directory of the file system lists packages.  Looking a name   *)
(* up reserves a range of inode numbers for the package (one symlink plus  *)
(* the inodes of its squashfs image), creates the Package object and puts  *)
(* it in the ordered tree DB.ino; later requests of the kernel carry a     *)
(* number only, and GetInode must find the package again from it.  Every   *)
(* request runs on its own goroutine, and there is one database per        *)
(* OS/architecture pair: a main one and sub-databases, which share the     *)
(* main one's counter and tree.                                            *)
(*                                                                         *)
(* How a name is resolved to a package hash is the subject of module       *)
(* Resolve; here a lookup simply names the package it resolved to.         *)
(***************************************************************************)
EXTENDS Naturals, FiniteSets

CONSTANTS
    Threads,    \* goroutines serving FUSE requests
    Main,       \* the database the file system is mounted on
    Subs,       \* its sub-databases
    Hashes,     \* signed packages, known by the hash of their header
    Unsigned,   \* unsignedPkg objects (-load_unsigned)
    Broken,     \* signed packages whose record getPkgTx finds incomplete
    Home,       \* the database a package is listed in
    InoCnt,     \* inodes of the package's squashfs image
    FirstIno,   \* first number handed out (numbers 1 and 2 are special)
    NoPkg       \* "no package"

DB == {Main} \cup Subs
Pkgs == Hashes \cup Unsigned

(***************************************************************************)
(* A package is listed in one database only: the index is keyed by the     *)
(* OS and architecture of the package's own metadata.  A squashfs image    *)
(* has at least its root inode.                                            *)
(***************************************************************************)
ASSUME PkgsAssumption ==
    /\ Main \notin Subs
    /\ Hashes \cap Unsigned = {}
    /\ Broken \subseteq Hashes
    /\ NoPkg \notin Pkgs
ASSUME HomeAssumption == Home \in [Pkgs -> DB]
ASSUME InoCntAssumption == InoCnt \in [Pkgs -> Nat \ {0}]
ASSUME FirstInoAssumption == FirstIno \in Nat /\ FirstIno > 2

VARIABLES
    nextI,      \* DB.nextI, one counter per database object
    pkgI,       \* DB.pkgI: first number of a signed package, 0 when absent
    startIno,   \* startIno of the package object; for a signed package 0
                \* means that the hash is not in pkgCache
    ino,        \* DB.ino of the main database: the packages in the tree
    raced,      \* goroutines whose tree insertion overlapped another one
    p2p,        \* signed packages the databases list
    granted,    \* packages a number of which was returned to the kernel
    pc,         \* where each goroutine is
    cur,        \* the package it works on
    exact,      \* the name it looks up is the full name of the package
    n,          \* the inode number of internalLookup, or the one requested
    found       \* what GetInode found

vars == <<nextI, pkgI, startIno, ino, raced, p2p, granted,
          pc, cur, exact, n, found>>

Numbers == <<nextI, pkgI, startIno>>
Tree == <<ino, raced>>
Locals == <<cur, exact, n, found>>

PCs == {"idle", "pkgIno", "pkgInoLk", "getPkg", "getPkgLk", "insert",
        "upkg", "upkgLk", "uinsert", "reply", "got"}

Init ==
    /\ nextI = [d \in DB |-> FirstIno]
    /\ pkgI = [h \in Hashes |-> 0]
    /\ startIno = [p \in Pkgs |-> 0]
    /\ ino = {}
    /\ raced = {}
    /\ p2p = {}
    /\ granted = {}
    /\ pc = [t \in Threads |-> "idle"]
    /\ cur = [t \in Threads |-> NoPkg]
    /\ exact = [t \in Threads |-> FALSE]
    /\ n = [t \in Threads |-> 0]
    /\ found = [t \in Threads |-> NoPkg]

----------------------------------------------------------------------------
(* The locks, read off the program counters.                               *)

InSigned(t) == pc[t] \in {"pkgIno", "pkgInoLk", "getPkg", "getPkgLk", "insert"}

\* dbrw is read-locked by a signed lookup from beginning to end
DbReaders(d) == {t \in Threads : InSigned(t) /\ Home[cur[t]] = d}

\* mutant: pkgCacheL is released before the insertion
PkgCacheAlwaysFree == TRUE

\* pkgCacheL is held over the insertion of a signed package
PkgCacheFree == \A t \in Threads : pc[t] # "insert"

\* pkgIlk of a database is held over the insertion of an unsigned package
PkgIlkFree(d) ==
    \A t \in Threads : pc[t] = "uinsert" => Home[cur[t]] # d

Inserters == {t \in Threads : pc[t] \in {"insert", "uinsert"}}

----------------------------------------------------------------------------
(* Allocation.                                                             *)

\* mutant: a sub-database uses a counter of its own
AllocSiteOwn(d) == d

\* allocInodes delegates to the parent
AllocSite(d) == IF d = Main THEN d ELSE Main

\* mutant: no number for the symlink
AllocCountBare(p) == InoCnt[p]

\* the symlink to the package's full name comes first, then its inodes
AllocCount(p) == InoCnt[p] + 1

AllocInodes(d, c) == nextI' = [nextI EXCEPT ![AllocSite(d)] = @ + c]

Allocated(d) == nextI[AllocSite(d)]

----------------------------------------------------------------------------
(* Operations.                                                             *)

Goto(t, l) == pc' = [pc EXCEPT ![t] = l]

SetN(t, v) == n' = [n EXCEPT ![t] = v]

Finish(t) ==
    /\ Goto(t, "idle")
    /\ cur' = [cur EXCEPT ![t] = NoPkg]
    /\ exact' = [exact EXCEPT ![t] = FALSE]
    /\ SetN(t, 0)
    /\ found' = [found EXCEPT ![t] = NoPkg]

\* index: with the write lock held, a new package appears in a database
Index(h) ==
    /\ h \notin p2p
    /\ DbReaders(Home[h]) = {}
    /\ p2p' = p2p \cup {h}
    /\ UNCHANGED <<Numbers, Tree, granted, pc, Locals>>

\* internalLookup up to the package its name resolves to
StartLookup(t, p, e) ==
    /\ pc[t] = "idle"
    /\ p \in Hashes => p \in p2p
    /\ Goto(t, IF p \in Hashes THEN "pkgIno" ELSE "upkg")
    /\ cur' = [cur EXCEPT ![t] = p]
    /\ exact' = [exact EXCEPT ![t] = e]
    /\ UNCHANGED <<Numbers, Tree, p2p, granted, n, found>>

\* internalLookup: the full name is the directory, a shorter one the symlink
LookupIno(t, v) == IF exact[t] THEN v + 1 ELSE v

\* pkgIno, under pkgIlk.RLock
PkgInoFast(t) ==
    /\ pc[t] = "pkgIno"
    /\ PkgIlkFree(Home[cur[t]])
    /\ IF pkgI[cur[t]] # 0
       THEN Goto(t, "getPkg") /\ SetN(t, LookupIno(t, pkgI[cur[t]]))
       ELSE Goto(t, "pkgInoLk") /\ UNCHANGED n
    /\ UNCHANGED <<Numbers, Tree, p2p, granted, cur, exact, found>>

\* mutant: no second check under the write lock
PkgInoSlowUnchecked(t) ==
    LET h == cur[t] v == Allocated(Home[cur[t]]) IN
    /\ pc[t] = "pkgInoLk"
    /\ PkgIlkFree(Home[h])
    /\ AllocInodes(Home[h], AllocCount(h))
    /\ pkgI' = [pkgI EXCEPT ![h] = v]
    /\ SetN(t, LookupIno(t, v))
    /\ Goto(t, "getPkg")
    /\ UNCHANGED <<startIno, Tree, p2p, granted, cur, exact, found>>

\* pkgIno, under pkgIlk.Lock
PkgInoSlow(t) ==
    LET h == cur[t] v == Allocated(Home[cur[t]]) IN
    /\ pc[t] = "pkgInoLk"
    /\ PkgIlkFree(Home[h])
    /\ IF pkgI[h] # 0
       THEN /\ SetN(t, LookupIno(t, pkgI[h]))
            /\ UNCHANGED <<nextI, pkgI>>
       ELSE /\ AllocInodes(Home[h], AllocCount(h))
            /\ pkgI' = [pkgI EXCEPT ![h] = v]
            /\ SetN(t, LookupIno(t, v))
    /\ Goto(t, "getPkg")
    /\ UNCHANGED <<startIno, Tree, p2p, granted, cur, exact, found>>

\* mutant: the directory's number is passed instead of the first one
PkgStartOff(t) == n[t]

\* the startIno argument internalLookup passes to getPkgTx: n-1 or n
PkgStart(t) == IF exact[t] THEN n[t] - 1 ELSE n[t]

\* getPkgTx, under pkgCacheL.RLock, then the reads of the package's record
GetPkgFast(t) ==
    /\ pc[t] = "getPkg"
    /\ PkgCacheFree
    /\ IF startIno[cur[t]] # 0
       THEN Goto(t, "reply") /\ UNCHANGED Locals
       ELSE IF cur[t] \in Broken
       THEN Finish(t)
       ELSE Goto(t, "getPkgLk") /\ UNCHANGED Locals
    /\ UNCHANGED <<Numbers, Tree, p2p, granted>>

\* a second insertion beside t's: both of them, and the first, have raced
BeginInsert(t) ==
    raced' = IF Inserters = {} THEN raced ELSE raced \cup Inserters \cup {t}

\* getPkgTx, under pkgCacheL.Lock: publish in pkgCache, start the insertion
GetPkgSlow(t) ==
    LET h == cur[t] IN
    /\ pc[t] = "getPkgLk"
    /\ PkgCacheFree
    /\ IF startIno[h] # 0
       THEN Goto(t, "reply") /\ UNCHANGED <<startIno, raced>>
       ELSE /\ startIno' = [startIno EXCEPT ![h] = PkgStart(t)]
            /\ BeginInsert(t)
            /\ Goto(t, "insert")
    /\ UNCHANGED <<nextI, pkgI, ino, p2p, granted, Locals>>

\* pkgInoUnsigned, atomic load without the lock
PkgInoUnsignedFast(t) ==
    LET v == startIno[cur[t]] IN
    /\ pc[t] = "upkg"
    /\ IF v # 0
       THEN Goto(t, "reply") /\ SetN(t, LookupIno(t, v))
       ELSE Goto(t, "upkgLk") /\ UNCHANGED n
    /\ UNCHANGED <<Numbers, Tree, p2p, granted, cur, exact, found>>

\* pkgInoUnsigned, under pkgIlk.Lock: allocate, publish startIno, insert
PkgInoUnsignedSlow(t) ==
    LET p == cur[t] v == Allocated(Home[cur[t]]) IN
    /\ pc[t] = "upkgLk"
    /\ PkgIlkFree(Home[p])
    /\ IF startIno[p] # 0
       THEN /\ SetN(t, LookupIno(t, startIno[p]))
            /\ Goto(t, "reply")
            /\ UNCHANGED <<nextI, startIno, raced>>
       ELSE /\ AllocInodes(Home[p], AllocCount(p))
            /\ startIno' = [startIno EXCEPT ![p] = v]
            /\ SetN(t, LookupIno(t, v))
            /\ BeginInsert(t)
            /\ Goto(t, "uinsert")
    /\ UNCHANGED <<pkgI, ino, p2p, granted, cur, exact, found>>

(***************************************************************************)
(* End of ReplaceOrInsert.  The tree has no lock of its own: signed        *)
(* packages enter it under pkgCacheL, unsigned ones under the pkgIlk of    *)
(* their database.  Two insertions that overlapped may undo each other's   *)
(* rotations, so any part of the tree may be lost.                         *)
(***************************************************************************)
EndInsert(t) ==
    /\ t \in Inserters
    /\ IF t \in raced
       THEN ino' \in SUBSET (ino \cup {cur[t]})
       ELSE ino' = ino \cup {cur[t]}
    /\ raced' = raced \ {t}
    /\ Goto(t, "reply")
    /\ UNCHANGED <<Numbers, p2p, granted, Locals>>

\* mutant: the answer is built after the lookup was cleared
ReplyLate(t) ==
    /\ pc[t] = "reply"
    /\ Finish(t)
    /\ granted' = granted \cup {cur'[t]}
    /\ UNCHANGED <<Numbers, Tree, p2p>>

\* the number reaches the kernel
Reply(t) ==
    /\ pc[t] = "reply"
    /\ granted' = granted \cup {cur[t]}
    /\ Finish(t)
    /\ UNCHANGED <<Numbers, Tree, p2p>>

\* mutant: one number past the package's own
InBoundOff(p, r) == r <= startIno[p] + InoCnt[p] + 1

\* GetInode: the number is one of the package's own
InBound(p, r) == r < startIno[p] + InoCnt[p] + 1

LowerPkgs(view, r) == {p \in view : startIno[p] <= r}

\* DescendLessOrEqual stops at the largest start that is not above r
Floor(view, r) ==
    {p \in LowerPkgs(view, r) :
        \A q \in LowerPkgs(view, r) : startIno[q] <= startIno[p]}

\* what the traversal meets; beside an insertion it may miss any node
Views ==
    IF Inserters = {} THEN {ino}
    ELSE SUBSET (ino \cup {cur[t] : t \in Inserters})

(***************************************************************************)
(* GetInode, unlocked, for number k of a package the kernel was given.     *)
(***************************************************************************)
GetInode(t, p, k) ==
    LET r == startIno[p] + k IN
    /\ pc[t] = "idle"
    /\ \E view \in Views :
         LET hit == {q \in Floor(view, r) : InBound(q, r)} IN
         \/ hit = {} /\ UNCHANGED found
         \/ \E q \in hit : found' = [found EXCEPT ![t] = q]
    /\ Goto(t, "got")
    /\ cur' = [cur EXCEPT ![t] = p]
    /\ SetN(t, r)
    /\ UNCHANGED <<Numbers, Tree, p2p, granted, exact>>

\* the answer of GetInode is used and forgotten
GetDone(t) ==
    /\ pc[t] = "got"
    /\ Finish(t)
    /\ UNCHANGED <<Numbers, Tree, p2p, granted>>

Lookup(t) ==
    \/ \E p \in Pkgs, e \in BOOLEAN : StartLookup(t, p, e)
    \/ PkgInoFast(t)
    \/ PkgInoSlow(t)
    \/ GetPkgFast(t)
    \/ GetPkgSlow(t)
    \/ PkgInoUnsignedFast(t)
    \/ PkgInoUnsignedSlow(t)
    \/ EndInsert(t)
    \/ Reply(t)

Get(t) ==
    \/ \E p \in granted : \E k \in 0 .. InoCnt[p] : GetInode(t, p, k)
    \/ GetDone(t)

Next ==
    \/ \E h \in Hashes : Index(h)
    \/ \E t \in Threads : Lookup(t) \/ Get(t)

Spec == Init /\ [][Next]_vars

----------------------------------------------------------------------------
(* Properties.                                                             *)

TypeOK ==
    /\ nextI \in [DB -> Nat]
    /\ pkgI \in [Hashes -> Nat]
    /\ startIno \in [Pkgs -> Nat]
    /\ ino \in SUBSET Pkgs
    /\ raced \in SUBSET Threads
    /\ p2p \in SUBSET Hashes
    /\ granted \in SUBSET Pkgs
    /\ pc \in [Threads -> PCs]
    /\ cur \in [Threads -> Pkgs \cup {NoPkg}]
    /\ exact \in [Threads -> BOOLEAN]
    /\ n \in [Threads -> Nat]
    /\ found \in [Threads -> Pkgs \cup {NoPkg}]

\* first number reserved for a package, 0 when none is
Base(p) == IF p \in Hashes THEN pkgI[p] ELSE startIno[p]

Before(p, q) == Base(p) + InoCnt[p] < Base(q)

(***************************************************************************)
(* Two packages never share an inode number, whatever databases they are   *)
(* listed in and however their first lookups interleave (allocInodes       *)
(* delegates to the parent and is called under two different locks).       *)
(***************************************************************************)
RangesDisjoint ==
    \A p, q \in Pkgs :
        (p # q /\ Base(p) # 0 /\ Base(q) # 0) => Before(p, q) \/ Before(q, p)

(***************************************************************************)
(* The number a lookup answers with is the one its Package object carries, *)
(* although pkgI and pkgCache are two maps under two locks and getPkgTx    *)
(* ignores the startIno it is given when the hash is cached.               *)
(***************************************************************************)
IdBelongs ==
    \A t \in Threads :
        pc[t] = "reply" =>
            /\ startIno[cur[t]] # 0
            /\ n[t] = startIno[cur[t]] + (IF exact[t] THEN 1 ELSE 0)

(***************************************************************************)
(* GetInode never serves a number from a package it was not handed out     *)
(* for, even when the traversal races with insertions.                     *)
(***************************************************************************)
RightPackage ==
    \A t \in Threads :
        pc[t] = "got" => found[t] \in {cur[t], NoPkg}

NoneUnsigned == \A u \in Unsigned : startIno[u] = 0

(***************************************************************************)
(* A number that was returned to the kernel can be resolved again, the     *)
(* package is in the tree, as long as no unsigned package was looked up:   *)
(* pkgCacheL is held from the publication of a package in pkgCache to the  *)
(* end of its insertion.                                                   *)
(***************************************************************************)
LookupResolves == NoneUnsigned => granted \subseteq ino

(***************************************************************************)
(* A package keeps its numbers: what pkgI and the object's startIno say    *)
(* does not change once it is set, whatever lookup comes later.            *)
(***************************************************************************)
NumbersStable ==
    [][\A p \in Pkgs :
        /\ Base(p) # 0 => Base(p)' = Base(p)
        /\ startIno[p] # 0 => startIno'[p] = startIno[p]]_vars

(***************************************************************************)
(* What the locks, the two maps and the delegation to the parent are for:  *)
(* the databases together reserve numbers the way one InodeSpace does, and *)
(* a lookup answers only with a number that is reserved.                   *)
(***************************************************************************)
Space == INSTANCE InodeSpace WITH
            Size <- [p \in Pkgs |-> InoCnt[p] + 1],
            base <- [p \in Pkgs |-> Base(p)],
            answered <- granted

ImplementsSpace == Space!Spec

----------------------------------------------------------------------------
(***************************************************************************)
(* The inductive invariant behind RangesDisjoint, IdBelongs, RightPackage  *)
(* and NumbersStable.                                                      *)
(***************************************************************************)

\* every reserved range lies below the shared counter, clear of 0, 1 and 2,
\* and the object of a signed package has the number pkgI has
NumbersInv ==
    /\ nextI[Main] >= FirstIno
    /\ \A p \in Pkgs :
         Base(p) # 0 => Base(p) >= FirstIno /\ Base(p) + InoCnt[p] < nextI[Main]
    /\ \A h \in Hashes : startIno[h] # 0 => startIno[h] = pkgI[h]

\* the tree, and what the kernel knows of, have their numbers
TreeInv == \A p \in ino \cup granted : startIno[p] # 0

\* what a goroutine knows at each point
ThreadInv ==
    \A t \in Threads :
        /\ InSigned(t) => cur[t] \in Hashes
        /\ pc[t] \in {"upkg", "upkgLk", "uinsert"} => cur[t] \in Unsigned
        /\ pc[t] \in {"getPkg", "getPkgLk"} =>
             pkgI[cur[t]] # 0 /\ n[t] = LookupIno(t, pkgI[cur[t]])
        /\ pc[t] \in {"insert", "uinsert", "reply"} =>
             /\ cur[t] \in Pkgs
             /\ startIno[cur[t]] # 0
             /\ n[t] = LookupIno(t, startIno[cur[t]])
        /\ pc[t] = "idle" => found[t] = NoPkg
        /\ pc[t] = "got" =>
             /\ cur[t] \in Pkgs
             /\ found[t] \in {cur[t], NoPkg}

Inv == TypeOK /\ NumbersInv /\ TreeInv /\ ThreadInv /\ RangesDisjoint

(***************************************************************************)
(* The inductive invariant behind LookupResolves, while NoneUnsigned       *)
(* holds: insertions are serialised by pkgCacheL and none is ever lost.    *)
(***************************************************************************)
SignedInv ==
    /\ raced = {}
    /\ \A t, s \in Inserters : t = s
    /\ \A h \in Hashes : startIno[h] # 0 =>
         h \in ino \/ \E t \in Threads : pc[t] = "insert" /\ cur[t] = h
    /\ \A t \in Threads : pc[t] = "reply" => cur[t] \in ino
    /\ granted \subseteq ino
=============================================================================
