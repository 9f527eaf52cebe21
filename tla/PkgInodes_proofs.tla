-------------------------- MODULE PkgInodes_proofs --------------------------
(***************************************************************************)
(* Proofs about PkgInodes, for every number of goroutines, databases and   *)
(* packages.                                                               *)
(***************************************************************************)
EXTENDS PkgInodes, TLAPS

USE DEF DB, Pkgs

\* The invariant holds when no package has a number yet.
LEMMA InitInv == Init => Inv
  <1> SUFFICES ASSUME Init PROVE Inv
    OBVIOUS
  <1>1. TypeOK
    BY FirstInoAssumption DEF Init, TypeOK, PCs
  <1>2. NumbersInv /\ RangesDisjoint
    BY FirstInoAssumption DEF Init, NumbersInv, RangesDisjoint, Base
  <1>3. TreeInv /\ ThreadInv
    BY DEF Init, TreeInv, ThreadInv, InSigned
  <1> QED
    BY <1>1, <1>2, <1>3 DEF Inv

\* A step that leaves the counters and the maps alone keeps the ranges.
LEMMA SameNumbers ==
    ASSUME NumbersInv, RangesDisjoint, UNCHANGED Numbers
    PROVE  NumbersInv' /\ RangesDisjoint'
  BY DEF NumbersInv, RangesDisjoint, Before, Base, Numbers

\* index touches no number.
LEMMA IndexInv == ASSUME Inv, NEW h \in Hashes, Index(h) PROVE Inv'
  <1> USE DEF Inv
  <1>1. TypeOK'
    BY DEF Index, TypeOK, Numbers, Tree, Locals
  <1>2. NumbersInv' /\ RangesDisjoint'
    BY SameNumbers DEF Index
  <1>3. TreeInv' /\ ThreadInv'
    BY DEF Index, TreeInv, ThreadInv, InSigned, LookupIno, Numbers, Tree, Locals
  <1> QED
    BY <1>1, <1>2, <1>3

\* A goroutine picks the package its name resolved to.
LEMMA StartLookupInv ==
    ASSUME Inv, NEW t \in Threads, NEW p \in Pkgs, NEW e \in BOOLEAN,
           StartLookup(t, p, e)
    PROVE  Inv'
  <1> USE DEF Inv
  <1>1. TypeOK'
    BY DEF StartLookup, TypeOK, Numbers, Tree, Goto, PCs
  <1>2. NumbersInv' /\ RangesDisjoint'
    BY SameNumbers DEF StartLookup
  <1>3. TreeInv'
    BY DEF StartLookup, TreeInv, Numbers, Tree
  <1>4. ThreadInv'
    BY DEF StartLookup, TypeOK, ThreadInv, InSigned, LookupIno, Numbers, Goto
  <1> QED
    BY <1>1, <1>2, <1>3, <1>4

\* pkgIno under the read lock only reads the map.
LEMMA PkgInoFastInv == ASSUME Inv, NEW t \in Threads, PkgInoFast(t) PROVE Inv'
  <1> USE DEF Inv
  <1>0. cur[t] \in Hashes
    BY DEF PkgInoFast, ThreadInv, InSigned
  <1>1. TypeOK'
    BY <1>0 DEF PkgInoFast, TypeOK, Numbers, Tree, Goto, SetN, LookupIno, PCs
  <1>2. NumbersInv' /\ RangesDisjoint'
    BY SameNumbers DEF PkgInoFast
  <1>3. TreeInv'
    BY DEF PkgInoFast, TreeInv, Numbers, Tree
  <1>4. ThreadInv'
    BY <1>0 DEF PkgInoFast, TypeOK, ThreadInv, InSigned, LookupIno, Numbers,
                Goto, SetN
  <1> QED
    BY <1>1, <1>2, <1>3, <1>4

\* Every database allocates from the main one's counter.
LEMMA SharedCounter == ASSUME NEW d \in DB PROVE AllocSite(d) = Main
  BY DEF AllocSite

\* A fresh range lies above every range reserved before.
LEMMA FreshRange ==
    ASSUME Inv, NEW p \in Pkgs, Base(p) = 0,
           NEW d \in DB,
           AllocInodes(d, AllocCount(p)),
           Base(p)' = Allocated(d),
           \A q \in Pkgs \ {p} : Base(q)' = Base(q)
    PROVE  /\ RangesDisjoint'
           /\ nextI'[Main] >= FirstIno
           /\ \A q \in Pkgs : Base(q)' # 0 =>
                 Base(q)' >= FirstIno /\ Base(q)' + InoCnt[q] < nextI'[Main]
  <1> USE DEF Inv
  <1>1. AllocSite(d) = Main
    BY SharedCounter
  <1>2. /\ nextI'[Main] = nextI[Main] + InoCnt[p] + 1
        /\ Base(p)' = nextI[Main]
        /\ nextI[Main] \in Nat /\ InoCnt[p] \in Nat
    BY <1>1, InoCntAssumption DEF AllocInodes, AllocCount, Allocated, TypeOK
  <1>3. \A q \in Pkgs : Base(q) \in Nat /\ InoCnt[q] \in Nat
    BY InoCntAssumption DEF Base, TypeOK
  <1>4. \A q \in Pkgs \ {p} :
           Base(q)' # 0 => Base(q)' + InoCnt[q] < Base(p)'
    BY <1>2 DEF NumbersInv
  <1>5. RangesDisjoint'
    <2> SUFFICES ASSUME NEW q \in Pkgs, NEW r \in Pkgs, q # r,
                        Base(q)' # 0, Base(r)' # 0
                 PROVE  Before(q, r)' \/ Before(r, q)'
      BY DEF RangesDisjoint
    <2>1. CASE q = p
      BY <2>1, <1>4 DEF Before
    <2>2. CASE r = p
      BY <2>2, <1>4 DEF Before
    <2>3. CASE q # p /\ r # p
      BY <2>3 DEF RangesDisjoint, Before
    <2> QED
      BY <2>1, <2>2, <2>3
  <1>6. nextI'[Main] >= FirstIno
    BY <1>2, FirstInoAssumption DEF NumbersInv
  <1>7. \A q \in Pkgs : Base(q)' # 0 =>
           Base(q)' >= FirstIno /\ Base(q)' + InoCnt[q] < nextI'[Main]
    BY <1>2, <1>3, FirstInoAssumption DEF NumbersInv
  <1> QED
    BY <1>5, <1>6, <1>7

\* pkgIno under the write lock: either the number is there already, or the
\* package gets a fresh range.
LEMMA PkgInoSlowInv == ASSUME Inv, NEW t \in Threads, PkgInoSlow(t) PROVE Inv'
  <1> USE DEF Inv
  <1> DEFINE h == cur[t]
  <1>0. h \in Hashes /\ h \in Pkgs /\ Home[h] \in DB
    BY HomeAssumption DEF PkgInoSlow, ThreadInv, InSigned
  <1>1. CASE pkgI[h] # 0
    <2>1. UNCHANGED Numbers
      BY <1>1 DEF PkgInoSlow, Numbers
    <2>2. TypeOK'
      BY <1>0, <1>1 DEF PkgInoSlow, TypeOK, Tree, Goto, SetN, LookupIno, PCs
    <2>3. NumbersInv' /\ RangesDisjoint'
      BY <2>1, SameNumbers
    <2>4. TreeInv'
      BY <2>1 DEF PkgInoSlow, TreeInv, Tree, Numbers
    <2>5. ThreadInv'
      BY <1>0, <1>1 DEF PkgInoSlow, TypeOK, ThreadInv, InSigned, LookupIno,
                        Goto, SetN
    <2> QED
      BY <2>2, <2>3, <2>4, <2>5
  <1>2. CASE pkgI[h] = 0
    <2>1. /\ AllocInodes(Home[h], AllocCount(h))
          /\ pkgI' = [pkgI EXCEPT ![h] = Allocated(Home[h])]
          /\ n' = [n EXCEPT ![t] = LookupIno(t, Allocated(Home[h]))]
          /\ pc' = [pc EXCEPT ![t] = "getPkg"]
          /\ UNCHANGED <<startIno, ino, raced, p2p, granted, cur, exact, found>>
      BY <1>2 DEF PkgInoSlow, Tree, SetN, Goto
    <2>2. /\ Allocated(Home[h]) \in Nat /\ Allocated(Home[h]) # 0
          /\ AllocSite(Home[h]) = Main /\ InoCnt[h] \in Nat
      BY <1>0, SharedCounter, FirstInoAssumption, InoCntAssumption
         DEF Allocated, TypeOK, NumbersInv
    <2>3. TypeOK'
      BY <1>0, <2>1, <2>2 DEF TypeOK, LookupIno, PCs, AllocInodes, AllocCount
    <2>4. startIno[h] = 0
      BY <1>0, <1>2 DEF NumbersInv
    <2>5. /\ Base(h) = 0 /\ Base(h)' = Allocated(Home[h])
          /\ \A q \in Pkgs \ {h} : Base(q)' = Base(q)
      BY <1>0, <1>2, <2>1 DEF Base, TypeOK
    <2>6. /\ RangesDisjoint'
          /\ nextI'[Main] >= FirstIno
          /\ \A q \in Pkgs : Base(q)' # 0 =>
                Base(q)' >= FirstIno /\ Base(q)' + InoCnt[q] < nextI'[Main]
      BY <1>0, <2>1, <2>5, FreshRange
    <2>7. NumbersInv'
      BY <1>0, <2>1, <2>4, <2>6 DEF NumbersInv, TypeOK
    <2>8. TreeInv'
      BY <2>1 DEF TreeInv
    <2>9. ThreadInv'
      BY <1>0, <1>2, <2>1, <2>2 DEF TypeOK, ThreadInv, InSigned, LookupIno
    <2> QED
      BY <2>3, <2>6, <2>7, <2>8, <2>9
  <1> QED
    BY <1>1, <1>2

\* Leaving: the goroutine forgets what it worked on.
LEMMA FinishInv ==
    ASSUME Inv, NEW t \in Threads, Finish(t), UNCHANGED <<Numbers, Tree, p2p>>,
           granted' \subseteq Pkgs, \A p \in granted' : startIno[p] # 0
    PROVE  Inv'
  <1> USE DEF Inv
  <1>1. TypeOK'
    BY DEF Finish, TypeOK, Numbers, Tree, Goto, SetN, PCs
  <1>2. NumbersInv' /\ RangesDisjoint'
    BY SameNumbers
  <1>3. TreeInv'
    BY DEF TreeInv, Numbers, Tree
  <1>4. ThreadInv'
    BY DEF Finish, TypeOK, ThreadInv, InSigned, LookupIno, Numbers, Goto, SetN
  <1> QED
    BY <1>1, <1>2, <1>3, <1>4

\* getPkgTx under the read lock.  When the hash is cached, the object's
\* number is the one pkgIno returned.
LEMMA GetPkgFastInv == ASSUME Inv, NEW t \in Threads, GetPkgFast(t) PROVE Inv'
  <1> USE DEF Inv
  <1>0. /\ cur[t] \in Hashes
        /\ pkgI[cur[t]] # 0 /\ n[t] = LookupIno(t, pkgI[cur[t]])
        /\ UNCHANGED Numbers
    BY DEF GetPkgFast, ThreadInv, InSigned
  <1>1. CASE UNCHANGED Locals
    <2>1. TypeOK'
      BY <1>1 DEF GetPkgFast, TypeOK, Numbers, Tree, Locals, Goto, Finish, PCs
    <2>2. NumbersInv' /\ RangesDisjoint'
      BY <1>0, SameNumbers
    <2>3. TreeInv'
      BY DEF GetPkgFast, TreeInv, Numbers, Tree
    <2>4. ThreadInv'
      <3>1. \/ pc' = [pc EXCEPT ![t] = "reply"] /\ startIno[cur[t]] # 0
            \/ pc' = [pc EXCEPT ![t] = "getPkgLk"]
            \/ pc' = [pc EXCEPT ![t] = "idle"] /\ found' = [found EXCEPT ![t] = NoPkg]
        BY DEF GetPkgFast, Goto, Finish
      <3>2. startIno[cur[t]] # 0 => startIno[cur[t]] = pkgI[cur[t]]
        BY <1>0 DEF NumbersInv
      <3> QED
        BY <1>0, <1>1, <3>1, <3>2
           DEF TypeOK, ThreadInv, InSigned, LookupIno, Numbers, Locals
    <2> QED
      BY <2>1, <2>2, <2>3, <2>4
  <1>2. CASE Finish(t)
    BY <1>2, FinishInv DEF GetPkgFast, TypeOK, TreeInv
  <1> QED
    BY <1>1, <1>2 DEF GetPkgFast

\* getPkgTx under the write lock: the object is created with the number that
\* pkgIno returned to this goroutine.
LEMMA GetPkgSlowInv == ASSUME Inv, NEW t \in Threads, GetPkgSlow(t) PROVE Inv'
  <1> USE DEF Inv
  <1> DEFINE h == cur[t]
  <1>0. /\ h \in Hashes /\ h \in Pkgs
        /\ pkgI[h] # 0 /\ n[t] = LookupIno(t, pkgI[h])
        /\ pkgI[h] \in Nat
    BY DEF GetPkgSlow, ThreadInv, InSigned, TypeOK
  <1>1. PkgStart(t) = pkgI[h]
    BY <1>0 DEF PkgStart, LookupIno
  <1>2. /\ UNCHANGED <<nextI, pkgI, ino, p2p, granted, cur, exact, n, found>>
        /\ \/ startIno[h] # 0 /\ UNCHANGED startIno /\ pc' = [pc EXCEPT ![t] = "reply"]
           \/ /\ startIno[h] = 0
              /\ startIno' = [startIno EXCEPT ![h] = pkgI[h]]
              /\ pc' = [pc EXCEPT ![t] = "insert"]
    BY <1>1 DEF GetPkgSlow, Locals, Goto
  <1>3. raced' \subseteq Threads
    BY DEF GetPkgSlow, BeginInsert, Inserters, TypeOK
  <1>4. TypeOK'
    BY <1>0, <1>2, <1>3 DEF TypeOK, PCs
  <1>5. \A p \in Pkgs : startIno[p] # 0 => startIno'[p] = startIno[p]
    BY <1>0, <1>2 DEF TypeOK
  <1>6. \A p \in Pkgs : Base(p)' = Base(p)
    BY <1>0, <1>2, PkgsAssumption DEF Base, TypeOK
  <1>7. NumbersInv'
    BY <1>0, <1>2, <1>6 DEF NumbersInv, TypeOK
  <1>8. RangesDisjoint'
    BY <1>6 DEF RangesDisjoint, Before
  <1>9. TreeInv'
    BY <1>2, <1>5 DEF TreeInv, TypeOK
  <1>10. startIno'[h] = pkgI[h]
    BY <1>0, <1>2 DEF NumbersInv, TypeOK
  <1>11. ThreadInv'
    <2> SUFFICES ASSUME NEW s \in Threads
                 PROVE  /\ InSigned(s)' => cur'[s] \in Hashes
                        /\ pc'[s] \in {"upkg", "upkgLk", "uinsert"} => cur'[s] \in Unsigned
                        /\ pc'[s] \in {"getPkg", "getPkgLk"} =>
                             pkgI'[cur'[s]] # 0 /\ n'[s] = LookupIno(s, pkgI[cur[s]])'
                        /\ pc'[s] \in {"insert", "uinsert", "reply"} =>
                             /\ cur'[s] \in Pkgs
                             /\ startIno'[cur'[s]] # 0
                             /\ n'[s] = LookupIno(s, startIno[cur[s]])'
                        /\ pc'[s] = "idle" => found'[s] = NoPkg
                        /\ pc'[s] = "got" =>
                             /\ cur'[s] \in Pkgs
                             /\ found'[s] \in {cur'[s], NoPkg}
      BY DEF ThreadInv
    <2>1. CASE s = t
      BY <2>1, <1>0, <1>2, <1>10 DEF TypeOK, ThreadInv, InSigned, LookupIno
    <2>2. CASE s # t
      <3>1. pc'[s] = pc[s] /\ UNCHANGED <<cur, n, exact, found, pkgI>>
        BY <2>2, <1>2 DEF TypeOK
      <3> QED
        BY <3>1, <1>5 DEF ThreadInv, InSigned, LookupIno
    <2> QED
      BY <2>1, <2>2
  <1> QED
    BY <1>4, <1>7, <1>8, <1>9, <1>11

\* pkgInoUnsigned without the lock.
LEMMA PkgInoUnsignedFastInv ==
    ASSUME Inv, NEW t \in Threads, PkgInoUnsignedFast(t) PROVE Inv'
  <1> USE DEF Inv
  <1>0. cur[t] \in Unsigned
    BY DEF PkgInoUnsignedFast, ThreadInv
  <1>1. TypeOK'
    BY <1>0 DEF PkgInoUnsignedFast, TypeOK, Numbers, Tree, Goto, SetN,
                LookupIno, PCs
  <1>2. NumbersInv' /\ RangesDisjoint'
    BY SameNumbers DEF PkgInoUnsignedFast
  <1>3. TreeInv'
    BY DEF PkgInoUnsignedFast, TreeInv, Numbers, Tree
  <1>4. ThreadInv'
    BY <1>0 DEF PkgInoUnsignedFast, TypeOK, ThreadInv, InSigned, LookupIno,
                Numbers, Goto, SetN
  <1> QED
    BY <1>1, <1>2, <1>3, <1>4

\* pkgInoUnsigned under the lock: the number is there, or a fresh range is
\* reserved from the same counter as for signed packages.
LEMMA PkgInoUnsignedSlowInv ==
    ASSUME Inv, NEW t \in Threads, PkgInoUnsignedSlow(t) PROVE Inv'
  <1> USE DEF Inv
  <1> DEFINE p == cur[t]
  <1>0. p \in Unsigned /\ p \in Pkgs /\ p \notin Hashes /\ Home[p] \in DB
    BY HomeAssumption, PkgsAssumption DEF PkgInoUnsignedSlow, ThreadInv
  <1>1. CASE startIno[p] # 0
    <2>1. UNCHANGED <<Numbers, raced>>
      BY <1>1 DEF PkgInoUnsignedSlow, Numbers
    <2>2. TypeOK'
      BY <1>0, <1>1 DEF PkgInoUnsignedSlow, TypeOK, Goto, SetN, LookupIno, PCs
    <2>3. NumbersInv' /\ RangesDisjoint'
      BY <2>1, SameNumbers
    <2>4. TreeInv'
      BY <2>1 DEF PkgInoUnsignedSlow, TreeInv, Numbers
    <2>5. ThreadInv'
      BY <1>0, <1>1 DEF PkgInoUnsignedSlow, TypeOK, ThreadInv, InSigned,
                        LookupIno, Goto, SetN
    <2> QED
      BY <2>2, <2>3, <2>4, <2>5
  <1>2. CASE startIno[p] = 0
    <2>1. /\ AllocInodes(Home[p], AllocCount(p))
          /\ startIno' = [startIno EXCEPT ![p] = Allocated(Home[p])]
          /\ n' = [n EXCEPT ![t] = LookupIno(t, Allocated(Home[p]))]
          /\ pc' = [pc EXCEPT ![t] = "uinsert"]
          /\ UNCHANGED <<pkgI, ino, p2p, granted, cur, exact, found>>
      BY <1>2 DEF PkgInoUnsignedSlow, SetN, Goto
    <2>2. /\ Allocated(Home[p]) \in Nat /\ Allocated(Home[p]) # 0
          /\ AllocSite(Home[p]) = Main /\ InoCnt[p] \in Nat
      BY <1>0, SharedCounter, FirstInoAssumption, InoCntAssumption
         DEF Allocated, TypeOK, NumbersInv
    <2>3. raced' \subseteq Threads
      BY DEF PkgInoUnsignedSlow, BeginInsert, Inserters, TypeOK
    <2>4. TypeOK'
      BY <1>0, <2>1, <2>2, <2>3 DEF TypeOK, LookupIno, PCs, AllocInodes, AllocCount
    <2>5. /\ Base(p) = 0 /\ Base(p)' = Allocated(Home[p])
          /\ \A q \in Pkgs \ {p} : Base(q)' = Base(q)
      BY <1>0, <1>2, <2>1 DEF Base, TypeOK
    <2>6. /\ RangesDisjoint'
          /\ nextI'[Main] >= FirstIno
          /\ \A q \in Pkgs : Base(q)' # 0 =>
                Base(q)' >= FirstIno /\ Base(q)' + InoCnt[q] < nextI'[Main]
      BY <1>0, <2>1, <2>5, FreshRange
    <2>7. NumbersInv'
      BY <1>0, <2>1, <2>6 DEF NumbersInv, TypeOK
    <2>8. TreeInv'
      BY <1>0, <1>2, <2>1, <2>2 DEF TreeInv, TypeOK
    <2>9. ThreadInv'
      BY <1>0, <1>2, <2>1, <2>2 DEF TypeOK, ThreadInv, InSigned, LookupIno
    <2> QED
      BY <2>4, <2>6, <2>7, <2>8, <2>9
  <1> QED
    BY <1>1, <1>2

\* Whatever overlapping insertions lose, the tree holds numbered packages.
LEMMA EndInsertInv == ASSUME Inv, NEW t \in Threads, EndInsert(t) PROVE Inv'
  <1> USE DEF Inv
  <1>0. /\ pc[t] \in {"insert", "uinsert"}
        /\ cur[t] \in Pkgs /\ startIno[cur[t]] # 0
        /\ ino' \subseteq ino \cup {cur[t]}
    BY DEF EndInsert, Inserters, ThreadInv
  <1>1. TypeOK'
    BY <1>0 DEF EndInsert, TypeOK, Numbers, Locals, Goto, PCs
  <1>2. NumbersInv' /\ RangesDisjoint'
    BY SameNumbers DEF EndInsert
  <1>3. TreeInv'
    BY <1>0 DEF EndInsert, TreeInv, Numbers
  <1>4. ThreadInv'
    BY <1>0 DEF EndInsert, TypeOK, ThreadInv, InSigned, LookupIno, Numbers,
                Locals, Goto
  <1> QED
    BY <1>1, <1>2, <1>3, <1>4

\* The package whose number the kernel gets has its object.
LEMMA ReplyInv == ASSUME Inv, NEW t \in Threads, Reply(t) PROVE Inv'
  <1>1. cur[t] \in Pkgs /\ startIno[cur[t]] # 0
    BY DEF Reply, Inv, ThreadInv
  <1>2. /\ granted' \subseteq Pkgs
        /\ \A p \in granted' : startIno[p] # 0
    BY <1>1 DEF Reply, Inv, TypeOK, TreeInv
  <1> QED
    BY <1>2, FinishInv DEF Reply

\* A numbered object's own range is its reserved range.
LEMMA ObjectRange ==
    ASSUME Inv, NEW p \in Pkgs, startIno[p] # 0 PROVE Base(p) = startIno[p]
  BY PkgsAssumption DEF Inv, NumbersInv, Base

\* GetInode: whichever nodes the traversal meets, a package whose bounds
\* contain the number is the package the number was handed out for.
LEMMA GetInodeInv ==
    ASSUME Inv, NEW t \in Threads, NEW p \in granted, NEW k \in 0 .. InoCnt[p],
           GetInode(t, p, k)
    PROVE  Inv'
  <1> USE DEF Inv
  <1> DEFINE r == startIno[p] + k
  <1>1. /\ p \in Pkgs /\ startIno[p] # 0
        /\ Base(p) = startIno[p] /\ Base(p) \in Nat
        /\ InoCnt[p] \in Nat /\ k \in Nat
    BY ObjectRange, InoCntAssumption DEF TypeOK, TreeInv
  <1>2. \A view \in Views : \A q \in view : q \in Pkgs /\ startIno[q] # 0
    BY DEF Views, Inserters, TypeOK, TreeInv, ThreadInv
  <1>3. ASSUME NEW view \in Views, NEW q \in Floor(view, r), InBound(q, r)
        PROVE  q = p
    <2>1. q \in Pkgs /\ startIno[q] # 0 /\ startIno[q] <= r
      BY <1>2 DEF Floor, LowerPkgs
    <2>2. Base(q) = startIno[q] /\ Base(q) \in Nat /\ InoCnt[q] \in Nat
      BY <2>1, ObjectRange, InoCntAssumption DEF TypeOK
    <2>3. r < Base(q) + InoCnt[q] + 1
      BY <1>3, <2>2 DEF InBound
    <2>4. ~Before(p, q) /\ ~Before(q, p)
      BY <1>1, <2>1, <2>2, <2>3 DEF Before
    <2> QED
      BY <1>1, <2>1, <2>2, <2>4 DEF RangesDisjoint
  <1>4. found' = found \/ found' = [found EXCEPT ![t] = p]
    BY <1>3 DEF GetInode
  <1>5. /\ pc[t] = "idle" /\ pc' = [pc EXCEPT ![t] = "got"]
        /\ cur' = [cur EXCEPT ![t] = p]
        /\ n' = [n EXCEPT ![t] = r]
        /\ UNCHANGED <<Numbers, Tree, p2p, granted, exact>>
    BY DEF GetInode, Goto, SetN
  <1>6. TypeOK'
    BY <1>1, <1>4, <1>5 DEF TypeOK, Numbers, Tree, PCs
  <1>7. NumbersInv' /\ RangesDisjoint'
    BY <1>5, SameNumbers
  <1>8. TreeInv'
    BY <1>5 DEF TreeInv, Numbers, Tree
  <1>9. ThreadInv'
    BY <1>1, <1>4, <1>5 DEF TypeOK, ThreadInv, InSigned, LookupIno, Numbers
  <1> QED
    BY <1>6, <1>7, <1>8, <1>9

\* Every step of Next preserves the invariant.
LEMMA NextInv == Inv /\ [Next]_vars => Inv'
  <1> SUFFICES ASSUME Inv, [Next]_vars PROVE Inv'
    OBVIOUS
  <1>1. CASE \E h \in Hashes : Index(h)
    BY <1>1, IndexInv
  <1>2. ASSUME NEW t \in Threads, Lookup(t) PROVE Inv'
    BY <1>2, StartLookupInv, PkgInoFastInv, PkgInoSlowInv, GetPkgFastInv,
       GetPkgSlowInv, PkgInoUnsignedFastInv, PkgInoUnsignedSlowInv,
       EndInsertInv, ReplyInv DEF Lookup
  <1>3. ASSUME NEW t \in Threads, Get(t) PROVE Inv'
    <2>1. CASE GetDone(t)
      BY <2>1, FinishInv DEF GetDone, Inv, TypeOK, TreeInv
    <2> QED
      BY <1>3, <2>1, GetInodeInv DEF Get
  <1>4. CASE UNCHANGED vars
    BY <1>4 DEF vars, Inv, TypeOK, NumbersInv, TreeInv, ThreadInv,
                RangesDisjoint, Before, Base, InSigned, LookupIno
  <1> QED
    BY <1>1, <1>2, <1>3, <1>4 DEF Next

----------------------------------------------------------------------------
\* The inductive invariant holds of every reachable state.
THEOREM Invariance == Spec => []Inv
  BY InitInv, NextInv, PTL DEF Spec

\* Types: the counters and numbers stay natural numbers, and a goroutine
\* past "reply" never hands NoPkg to the kernel.
THEOREM TypeCorrect == Spec => []TypeOK
  <1>1. Inv => TypeOK
    BY DEF Inv
  <1> QED
    BY <1>1, Invariance, PTL

\* No two packages share an inode number (allocInodes, pkgIno,
\* pkgInoUnsigned), for any databases, packages and goroutines.
THEOREM Disjointness == Spec => []RangesDisjoint
  <1>1. Inv => RangesDisjoint
    BY DEF Inv
  <1> QED
    BY <1>1, Invariance, PTL

\* A lookup answers with the number its Package object carries
\* (internalLookup, getPkgTx).
THEOREM IdCorrect == Spec => []IdBelongs
  <1>1. Inv => IdBelongs
    <2> SUFFICES ASSUME Inv, NEW t \in Threads, pc[t] = "reply"
                 PROVE  /\ startIno[cur[t]] # 0
                        /\ n[t] = startIno[cur[t]] + (IF exact[t] THEN 1 ELSE 0)
      BY DEF IdBelongs
    <2>1. /\ cur[t] \in Pkgs /\ startIno[cur[t]] # 0
          /\ n[t] = LookupIno(t, startIno[cur[t]])
          /\ startIno[cur[t]] \in Nat
      BY DEF Inv, ThreadInv, TypeOK
    <2> QED
      BY <2>1 DEF LookupIno
  <1> QED
    BY <1>1, Invariance, PTL

\* GetInode serves a number from the package it was handed out for or from
\* none, races with insertions included.
THEOREM GetInodeRight == Spec => []RightPackage
  <1>1. Inv => RightPackage
    BY DEF Inv, ThreadInv, RightPackage
  <1> QED
    BY <1>1, Invariance, PTL

\* No step changes a number that is set.
LEMMA StableStep ==
    ASSUME Inv, Next
    PROVE  \A p \in Pkgs : /\ Base(p) # 0 => Base(p)' = Base(p)
                           /\ startIno[p] # 0 => startIno'[p] = startIno[p]
  <1> USE DEF Inv
  <1> DEFINE Kept == \A p \in Pkgs :
                        /\ Base(p) # 0 => Base(p)' = Base(p)
                        /\ startIno[p] # 0 => startIno'[p] = startIno[p]
  <1>1. CASE UNCHANGED Numbers
    BY <1>1 DEF Numbers, Base
  <1>2. ASSUME NEW t \in Threads, PkgInoSlow(t) PROVE Kept
    <2>1. cur[t] \in Hashes
      BY <1>2 DEF PkgInoSlow, ThreadInv, InSigned
    <2> QED
      BY <1>2, <2>1 DEF PkgInoSlow, TypeOK, Base
  <1>3. ASSUME NEW t \in Threads, GetPkgSlow(t) PROVE Kept
    <2>1. cur[t] \in Hashes
      BY <1>3 DEF GetPkgSlow, ThreadInv, InSigned
    <2> QED
      BY <1>3, <2>1, PkgsAssumption DEF GetPkgSlow, TypeOK, Base
  <1>4. ASSUME NEW t \in Threads, PkgInoUnsignedSlow(t) PROVE Kept
    <2>1. cur[t] \in Unsigned
      BY <1>4 DEF PkgInoUnsignedSlow, ThreadInv
    <2> QED
      BY <1>4, <2>1, PkgsAssumption DEF PkgInoUnsignedSlow, TypeOK, Base
  <1>5. \/ UNCHANGED Numbers
        \/ \E t \in Threads : \/ PkgInoSlow(t)
                              \/ GetPkgSlow(t)
                              \/ PkgInoUnsignedSlow(t)
    BY DEF Next, Index, Lookup, Get, StartLookup, PkgInoFast, GetPkgFast,
           PkgInoUnsignedFast, EndInsert, Reply, GetInode, GetDone
  <1> QED
    BY <1>1, <1>2, <1>3, <1>4, <1>5

\* A package keeps its numbers for the life of the process (pkgIno and
\* getPkgTx look again under the write lock before they assign).
THEOREM Stability == Spec => NumbersStable
  <1>1. Inv /\ [Next]_vars =>
           [\A p \in Pkgs :
               /\ Base(p) # 0 => Base(p)' = Base(p)
               /\ startIno[p] # 0 => startIno'[p] = startIno[p]]_vars
    BY StableStep
  <1> QED
    BY <1>1, Invariance, PTL DEF Spec, NumbersStable

----------------------------------------------------------------------------
\* Before the first unsigned package, a goroutine that inserts is alone
\* (pkgCacheL).
LEMMA OneInserter ==
    ASSUME NoneUnsigned, Inv, PkgCacheFree PROVE Inserters = {}
  BY DEF NoneUnsigned, Inserters, PkgCacheFree, Inv, ThreadInv

\* Steps of a lookup before its object is published, and requests, keep
\* SignedInv: they touch neither the objects nor the tree.
LEMMA SignedQuiet ==
    ASSUME Inv, SignedInv, NEW t \in Threads, NEW l \in PCs,
           pc[t] \notin {"insert", "uinsert"},
           l \notin {"insert", "uinsert", "reply"},
           pc' = [pc EXCEPT ![t] = l],
           \A s \in Threads : s # t => cur'[s] = cur[s],
           UNCHANGED <<startIno, ino, raced, granted>>
    PROVE  SignedInv'
  <1>1. Inserters' = Inserters
    BY DEF Inserters, Inv, TypeOK
  <1>2. \A h \in Hashes : startIno'[h] # 0 =>
           h \in ino' \/ \E s \in Threads : pc'[s] = "insert" /\ cur'[s] = h
    BY DEF SignedInv, Inv, TypeOK
  <1>3. \A s \in Threads : pc'[s] = "reply" => cur'[s] \in ino'
    BY DEF SignedInv, Inv, TypeOK
  <1> QED
    BY <1>1, <1>2, <1>3 DEF SignedInv

\* getPkgTx: a hit in pkgCache means that the insertion is over.
LEMMA SignedGetPkgFast ==
    ASSUME Inv, SignedInv, NEW t \in Threads, GetPkgFast(t)
    PROVE  SignedInv'
  <1>0. pc[t] = "getPkg" /\ cur[t] \in Hashes /\ UNCHANGED <<startIno, ino, raced, granted>>
    BY DEF GetPkgFast, Inv, ThreadInv, InSigned, Numbers, Tree
  <1>1. CASE startIno[cur[t]] # 0
    <2>1. pc' = [pc EXCEPT ![t] = "reply"] /\ UNCHANGED cur
      BY <1>1 DEF GetPkgFast, Goto, Locals
    <2>2. cur[t] \in ino
      BY <1>0, <1>1 DEF GetPkgFast, SignedInv, PkgCacheFree
    <2>3. Inserters' = Inserters
      BY <1>0, <2>1 DEF Inserters, Inv, TypeOK
    <2> QED
      BY <1>0, <2>1, <2>2, <2>3 DEF SignedInv, Inv, TypeOK
  <1>2. CASE startIno[cur[t]] = 0
    <2>1. \E l \in {"idle", "getPkgLk"} : pc' = [pc EXCEPT ![t] = l]
      BY <1>2 DEF GetPkgFast, Goto, Finish
    <2>2. \A s \in Threads : s # t => cur'[s] = cur[s]
      BY <1>2 DEF GetPkgFast, Finish, Locals, Inv, TypeOK
    <2> QED
      BY <1>0, <2>1, <2>2, SignedQuiet DEF PCs
  <1> QED
    BY <1>1, <1>2

\* getPkgTx publishes the object and starts its insertion in one critical
\* section, and no other insertion is under way.
LEMMA SignedGetPkgSlow ==
    ASSUME NoneUnsigned, Inv, SignedInv, NEW t \in Threads, GetPkgSlow(t)
    PROVE  SignedInv'
  <1>0. /\ pc[t] = "getPkgLk" /\ cur[t] \in Hashes /\ Inserters = {}
        /\ UNCHANGED <<ino, granted, cur>>
    BY OneInserter DEF GetPkgSlow, Inv, ThreadInv, InSigned, Locals
  <1>1. CASE startIno[cur[t]] # 0
    <2>1. pc' = [pc EXCEPT ![t] = "reply"] /\ UNCHANGED <<startIno, raced>>
      BY <1>1 DEF GetPkgSlow, Goto
    <2>2. cur[t] \in ino
      BY <1>0, <1>1 DEF GetPkgSlow, SignedInv, PkgCacheFree
    <2>3. Inserters' = Inserters
      BY <1>0, <2>1 DEF Inserters, Inv, TypeOK
    <2> QED
      BY <1>0, <2>1, <2>2, <2>3 DEF SignedInv, Inv, TypeOK
  <1>2. CASE startIno[cur[t]] = 0
    <2>1. /\ pc' = [pc EXCEPT ![t] = "insert"] /\ raced' = {}
          /\ \A h \in Hashes : h # cur[t] => startIno'[h] = startIno[h]
      BY <1>0, <1>2 DEF GetPkgSlow, Goto, BeginInsert, SignedInv, Inv, TypeOK
    <2>2. Inserters' = {t}
      BY <1>0, <2>1 DEF Inserters, Inv, TypeOK
    <2>3. \A h \in Hashes : startIno'[h] # 0 =>
             h \in ino' \/ \E s \in Threads : pc'[s] = "insert" /\ cur'[s] = h
      BY <1>0, <2>1 DEF SignedInv, GetPkgSlow, PkgCacheFree, Inv, TypeOK
    <2> QED
      BY <1>0, <2>1, <2>2, <2>3 DEF SignedInv, Inv, TypeOK
  <1> QED
    BY <1>1, <1>2

\* The insertion ends with the package in the tree: nothing raced with it.
LEMMA SignedEndInsert ==
    ASSUME Inv, SignedInv, NEW t \in Threads, EndInsert(t)
    PROVE  SignedInv'
  <1>1. /\ ino' = ino \cup {cur[t]} /\ raced' = {}
        /\ pc' = [pc EXCEPT ![t] = "reply"]
        /\ UNCHANGED <<startIno, granted, cur>>
    BY DEF EndInsert, SignedInv, Goto, Numbers, Locals
  <1>2. Inserters' \subseteq Inserters
    BY <1>1 DEF Inserters, Inv, TypeOK
  <1>3. \A h \in Hashes : startIno'[h] # 0 =>
           h \in ino' \/ \E s \in Threads : pc'[s] = "insert" /\ cur'[s] = h
    BY <1>1 DEF SignedInv, Inv, TypeOK
  <1> QED
    BY <1>1, <1>2, <1>3 DEF SignedInv, Inv, TypeOK

\* A lookup of an unsigned package that has no number ends in giving it one.
LEMMA SignedUnsigned ==
    ASSUME Inv, SignedInv, NoneUnsigned, NoneUnsigned', NEW t \in Threads,
           PkgInoUnsignedFast(t) \/ PkgInoUnsignedSlow(t)
    PROVE  SignedInv'
  <1>0. cur[t] \in Unsigned /\ startIno[cur[t]] = 0
    BY DEF PkgInoUnsignedFast, PkgInoUnsignedSlow, Inv, ThreadInv, NoneUnsigned
  <1>1. CASE PkgInoUnsignedFast(t)
    <2>1. /\ pc[t] = "upkg" /\ pc' = [pc EXCEPT ![t] = "upkgLk"]
          /\ UNCHANGED <<startIno, ino, raced, granted, cur>>
      BY <1>0, <1>1 DEF PkgInoUnsignedFast, Goto, Numbers, Tree
    <2> QED
      BY <2>1, SignedQuiet DEF PCs
  <1>2. CASE PkgInoUnsignedSlow(t)
    <2>1. startIno' = [startIno EXCEPT ![cur[t]] = Allocated(Home[cur[t]])]
      BY <1>0, <1>2 DEF PkgInoUnsignedSlow
    <2>2. Home[cur[t]] \in DB
      BY <1>0, HomeAssumption DEF Pkgs
    <2>3. Allocated(Home[cur[t]]) = nextI[Main]
      BY <2>2, SharedCounter DEF Allocated
    <2>4. startIno'[cur[t]] # 0
      BY <1>0, <2>1, <2>3, FirstInoAssumption DEF Inv, NumbersInv, TypeOK, Pkgs, DB
    <2> QED
      BY <1>0, <2>4 DEF NoneUnsigned
  <1> QED
    BY <1>1, <1>2

\* Until an unsigned package has a number, every step keeps SignedInv.
LEMMA SignedNext ==
    ASSUME Inv, SignedInv, NoneUnsigned, NoneUnsigned', [Next]_vars
    PROVE  SignedInv'
  <1>1. CASE \E h \in Hashes : Index(h)
    BY <1>1 DEF Index, Numbers, Tree, Locals, SignedInv, Inserters
  <1>2. ASSUME NEW t \in Threads, Lookup(t) PROVE SignedInv'
    <2>1. CASE \E p \in Pkgs, e \in BOOLEAN : StartLookup(t, p, e)
      <3>1. /\ pc[t] = "idle"
            /\ \E l \in {"pkgIno", "upkg"} : pc' = [pc EXCEPT ![t] = l]
            /\ \A s \in Threads : s # t => cur'[s] = cur[s]
            /\ UNCHANGED <<startIno, ino, raced, granted>>
        BY <2>1 DEF StartLookup, Goto, Numbers, Tree, Inv, TypeOK
      <3> QED
        BY <3>1, SignedQuiet DEF PCs
    <2>2. CASE PkgInoFast(t) \/ PkgInoSlow(t)
      <3>1. /\ pc[t] \in {"pkgIno", "pkgInoLk"}
            /\ \E l \in {"getPkg", "pkgInoLk"} : pc' = [pc EXCEPT ![t] = l]
            /\ UNCHANGED <<startIno, ino, raced, granted, cur>>
        BY <2>2 DEF PkgInoFast, PkgInoSlow, Goto, Numbers, Tree
      <3> QED
        BY <3>1, SignedQuiet DEF PCs
    <2>3. CASE Reply(t)
      <3>1. /\ pc[t] = "reply" /\ pc' = [pc EXCEPT ![t] = "idle"]
            /\ \A s \in Threads : s # t => cur'[s] = cur[s]
            /\ UNCHANGED <<startIno, ino, raced>>
            /\ granted' = granted \cup {cur[t]}
        BY <2>3 DEF Reply, Finish, Goto, Numbers, Tree, Inv, TypeOK
      <3>2. Inserters' = Inserters
        BY <3>1 DEF Inserters, Inv, TypeOK
      <3>3. \A h \in Hashes : startIno'[h] # 0 =>
               h \in ino' \/ \E s \in Threads : pc'[s] = "insert" /\ cur'[s] = h
        BY <3>1 DEF SignedInv, Inv, TypeOK
      <3> QED
        BY <3>1, <3>2, <3>3 DEF SignedInv, Inv, TypeOK
    <2> QED
      BY <1>2, <2>1, <2>2, <2>3, SignedGetPkgFast, SignedGetPkgSlow,
         SignedEndInsert, SignedUnsigned
         DEF Lookup
  <1>3. ASSUME NEW t \in Threads, Get(t) PROVE SignedInv'
    <2>1. /\ pc[t] \in {"idle", "got"}
          /\ \E l \in {"idle", "got"} : pc' = [pc EXCEPT ![t] = l]
          /\ \A s \in Threads : s # t => cur'[s] = cur[s]
          /\ UNCHANGED <<startIno, ino, raced, granted>>
      BY <1>3 DEF Get, GetInode, GetDone, Finish, Goto, Numbers, Tree, Inv, TypeOK
    <2> QED
      BY <2>1, SignedQuiet DEF PCs
  <1>4. CASE UNCHANGED vars
    BY <1>4 DEF vars, SignedInv, Inserters
  <1> QED
    BY <1>1, <1>2, <1>3, <1>4 DEF Next

\* As long as no unsigned package was looked up, a number given to the kernel
\* leads back to its package: getPkgTx completes the insertion before it
\* releases pkgCacheL, and a lookup only answers after it has seen the cache.
THEOREM SignedResolves == Spec => []LookupResolves
  <1> DEFINE J == NoneUnsigned => SignedInv
  <1>1. Init => J
    BY DEF Init, SignedInv, Inserters
  <1>2. Inv /\ J /\ [Next]_vars => J'
    <2> SUFFICES ASSUME Inv, J, [Next]_vars, NoneUnsigned' PROVE SignedInv'
      OBVIOUS
    <2>1. \A u \in Unsigned : startIno[u] # 0 => startIno'[u] = startIno[u]
      BY StableStep DEF Pkgs, vars
    <2>2. NoneUnsigned
      BY <2>1 DEF NoneUnsigned
    <2> QED
      BY <2>2, SignedNext
  <1>3. J => LookupResolves
    BY DEF SignedInv, LookupResolves
  <1> QED
    BY <1>1, <1>2, <1>3, Invariance, PTL DEF Spec

----------------------------------------------------------------------------
(* PkgInodes implements InodeSpace.                                        *)

\* A step that gives p its first numbers and leaves all others alone is a
\* reservation of the abstract space: the invariant after it keeps them apart.
LEMMA ReserveStep ==
    ASSUME Inv, Inv', NEW p \in Pkgs, Base(p) = 0, Base(p)' # 0,
           \A q \in Pkgs \ {p} : Base(q)' = Base(q), UNCHANGED granted
    PROVE  Space!Reserve(p)
  <1> DEFINE b == [q \in Pkgs |-> Base(q)]
             size == [q \in Pkgs |-> InoCnt[q] + 1]
  <1>1. \A q \in Pkgs : Base(q) \in Nat /\ Base(q)' \in Nat /\ InoCnt[q] \in Nat
    BY InoCntAssumption DEF Inv, TypeOK, Base
  <1>2. b' = [b EXCEPT ![p] = b'[p]] /\ b[p] = 0
    <2>1. \A q \in Pkgs : b'[q] = [b EXCEPT ![p] = b'[p]][q]
      OBVIOUS
    <2> QED
      BY <2>1
  <1>3. b'[p] >= FirstIno
    BY DEF Inv, NumbersInv
  <1>4. ASSUME NEW q \in Pkgs \ {p}, b[q] # 0
        PROVE  b'[p] + size[p] <= b'[q] \/ b'[q] + size[q] <= b'[p]
    <2>1. Base(q)' # 0
      BY <1>4
    <2>2. Before(p, q)' \/ Before(q, p)'
      BY <1>4, <2>1 DEF Inv, RangesDisjoint
    <2>3. Base(p)' + InoCnt[p] < Base(q)' \/ Base(q)' + InoCnt[q] < Base(p)'
      BY <2>2 DEF Before
    <2> QED
      BY <1>1, <1>4, <2>3
  <1> QED
    BY <1>2, <1>3, <1>4 DEF Space!Reserve, Space!Apart

\* Every step of the program is a reservation, an answer, or no step of the
\* abstract space at all.
LEMMA SpaceStep == ASSUME Inv, Inv', [Next]_vars PROVE [Space!Next]_(Space!vars)
  <1> DEFINE Same == \A q \in Pkgs : Base(q)' = Base(q)
  <1>1. Same /\ UNCHANGED granted => UNCHANGED Space!vars
    BY DEF Space!vars
  <1>2. UNCHANGED Numbers => Same
    BY DEF Numbers, Base
  <1>3. ASSUME NEW t \in Threads, PkgInoSlow(t) PROVE [Space!Next]_(Space!vars)
    <2>1. cur[t] \in Hashes /\ UNCHANGED <<startIno, granted>>
      BY <1>3 DEF PkgInoSlow, Inv, ThreadInv, InSigned
    <2>2. CASE pkgI[cur[t]] # 0
      <3>1. Same
        BY <1>3, <2>1, <2>2 DEF PkgInoSlow, Base
      <3> QED
        BY <1>1, <2>1, <3>1
    <2>3. CASE pkgI[cur[t]] = 0
      <3>1. PICK p \in Pkgs : p = cur[t]
        BY <2>1
      <3>2. pkgI' = [pkgI EXCEPT ![p] = Allocated(Home[p])] /\ pkgI[p] = 0
        BY <1>3, <2>3, <3>1 DEF PkgInoSlow
      <3>3. Allocated(Home[p]) = nextI[Main]
        BY <2>1, SharedCounter, HomeAssumption DEF Allocated
      <3>4. nextI[Main] # 0
        BY FirstInoAssumption DEF Inv, NumbersInv, TypeOK
      <3>5. Base(p) = 0 /\ Base(p)' # 0 /\ \A q \in Pkgs \ {p} : Base(q)' = Base(q)
        BY <2>1, <3>1, <3>2, <3>3, <3>4 DEF Base, Inv, TypeOK
      <3> QED
        BY <2>1, <3>5, ReserveStep DEF Space!Next
    <2> QED
      BY <2>2, <2>3
  <1>4. ASSUME NEW t \in Threads, PkgInoUnsignedSlow(t)
        PROVE  [Space!Next]_(Space!vars)
    <2>1. cur[t] \in Unsigned /\ cur[t] \notin Hashes /\ UNCHANGED <<pkgI, granted>>
      BY <1>4, PkgsAssumption DEF PkgInoUnsignedSlow, Inv, ThreadInv
    <2>2. CASE startIno[cur[t]] # 0
      <3>1. Same
        BY <1>4, <2>1, <2>2 DEF PkgInoUnsignedSlow, Base
      <3> QED
        BY <1>1, <2>1, <3>1
    <2>3. CASE startIno[cur[t]] = 0
      <3>1. PICK p \in Pkgs : p = cur[t]
        BY <2>1
      <3>2. startIno' = [startIno EXCEPT ![p] = Allocated(Home[p])] /\ startIno[p] = 0
        BY <1>4, <2>3, <3>1 DEF PkgInoUnsignedSlow
      <3>3. Allocated(Home[p]) = nextI[Main]
        BY <2>1, SharedCounter, HomeAssumption DEF Allocated
      <3>4. nextI[Main] # 0
        BY FirstInoAssumption DEF Inv, NumbersInv, TypeOK
      <3>5. Base(p) = 0 /\ Base(p)' # 0 /\ \A q \in Pkgs \ {p} : Base(q)' = Base(q)
        BY <2>1, <3>1, <3>2, <3>3, <3>4 DEF Base, Inv, TypeOK
      <3> QED
        BY <2>1, <3>5, ReserveStep DEF Space!Next
    <2> QED
      BY <2>2, <2>3
  <1>5. ASSUME NEW t \in Threads, GetPkgSlow(t) PROVE [Space!Next]_(Space!vars)
    <2>1. cur[t] \in Hashes /\ UNCHANGED <<pkgI, granted>>
      BY <1>5 DEF GetPkgSlow, Inv, ThreadInv, InSigned
    <2>2. \A q \in Unsigned : startIno'[q] = startIno[q]
      BY <1>5, <2>1, PkgsAssumption DEF GetPkgSlow, Inv, TypeOK
    <2>3. Same
      BY <2>1, <2>2 DEF Base
    <2> QED
      BY <1>1, <2>1, <2>3
  <1>6. ASSUME NEW t \in Threads, Reply(t) PROVE [Space!Next]_(Space!vars)
    <2>1. /\ cur[t] \in Pkgs /\ startIno[cur[t]] # 0
          /\ granted' = granted \cup {cur[t]}
          /\ Same
      BY <1>2, <1>6 DEF Reply, Inv, ThreadInv
    <2>2. Base(cur[t]) # 0
      BY <2>1 DEF Base, Inv, NumbersInv
    <2>3. Space!Answer(cur[t])
      BY <2>1, <2>2 DEF Space!Answer
    <2> QED
      BY <2>1, <2>3 DEF Space!Next
  <1>7. CASE UNCHANGED <<Numbers, granted>>
    BY <1>1, <1>2, <1>7
  <1>8. \/ UNCHANGED <<Numbers, granted>>
        \/ \E t \in Threads : \/ PkgInoSlow(t) \/ GetPkgSlow(t)
                              \/ PkgInoUnsignedSlow(t) \/ Reply(t)
    BY DEF Next, vars, Numbers, Index, Lookup, Get, StartLookup, PkgInoFast,
           GetPkgFast, PkgInoUnsignedFast, EndInsert, GetInode, GetDone
  <1> QED
    BY <1>3, <1>4, <1>5, <1>6, <1>7, <1>8

\* The databases, their maps, locks and trees together reserve numbers the
\* way one InodeSpace does: each package gets one range once, apart from all
\* others, and only reserved numbers reach the kernel (allocInodes, pkgIno,
\* pkgInoUnsigned, internalLookup).
THEOREM SpaceImplemented == Spec => ImplementsSpace
  <1>1. Init => Space!Init
    BY DEF Init, Space!Init, Base
  <1>2. Inv /\ Inv' /\ [Next]_vars => [Space!Next]_(Space!vars)
    BY SpaceStep
  <1> QED
    BY <1>1, <1>2, Invariance, PTL DEF Spec, ImplementsSpace, Space!Spec

=============================================================================
