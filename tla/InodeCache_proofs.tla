-------------------------- MODULE InodeCache_proofs --------------------------
(***************************************************************************)
(* Proofs about InodeCache, for any number of goroutines and objects.      *)
(***************************************************************************)
EXTENDS InodeCache, FiniteSetTheorems, TLAPS

----------------------------------------------------------------------------
(* Sums.  Total adds the terms above zero, Net all of them.                *)

Clip(n) == IF n > 0 THEN n ELSE 0

\* what a unit is
LEMMA UnitsAre ==
    ASSUME NEW f, NEW S, NEW p
    PROVE  p \in Units(f, S) <=> \E x \in S : \E i \in 1 .. f[x] : p = <<x, i>>
BY DEF Units

\* a sum of finitely many integers clipped at zero is a natural
LEMMA TotalType ==
    ASSUME NEW f, NEW S, IsFiniteSet(S), \A x \in S : f[x] \in Int
    PROVE  IsFiniteSet(Units(f, S)) /\ Total(f, S) \in Nat
<1> DEFINE g == [x \in S |-> {x} \X (1 .. f[x])]
           P == {{x} \X (1 .. f[x]) : x \in S}
<1>1. g \in Surjection(S, P)
  BY DEF Surjection
<1>2. IsFiniteSet(P)
  BY <1>1, FS_Surjection
<1>3. ASSUME NEW q \in P
      PROVE  IsFiniteSet(q)
  <2>1. PICK x \in S : q = {x} \X (1 .. f[x])
    BY <1>3
  <2>2. f[x] \in Int /\ 1 \in Int
    OBVIOUS
  <2>3. IsFiniteSet(1 .. f[x])
    BY <2>2, FS_Interval
  <2>4. IsFiniteSet({x})
    BY FS_Singleton
  <2> QED
    BY <2>1, <2>3, <2>4, FS_Product
<1>4. IsFiniteSet(UNION P)
  BY <1>2, <1>3, FS_UNION
<1> QED
  BY <1>4, FS_CardinalityType DEF Units, Total

\* a sum only depends on the terms summed
LEMMA TotalSame ==
    ASSUME NEW f, NEW g, NEW S, \A x \in S : f[x] = g[x]
    PROVE  Total(f, S) = Total(g, S)
<1>1. Units(f, S) = Units(g, S)
  BY DEF Units
<1> QED
  BY <1>1 DEF Total

\* a term more, a term less
LEMMA TotalSplit ==
    ASSUME NEW f, NEW S, IsFiniteSet(S), \A y \in S : f[y] \in Int, NEW x \in S
    PROVE  /\ Total(f, S \ {x}) \in Nat
           /\ Total(f, S) = Total(f, S \ {x}) + Clip(f[x])
<1> DEFINE A == Units(f, S \ {x})
           B == {x} \X (1 .. f[x])
<1>1. Units(f, S) = A \cup B
  BY DEF Units
<1>2. A \cap B = {}
  BY DEF Units
<1>3. IsFiniteSet(S \ {x})
  BY FS_RemoveElement
<1>4. IsFiniteSet(A) /\ Cardinality(A) \in Nat
  BY <1>3, TotalType DEF Total
<1>5. IsFiniteSet({x}) /\ Cardinality({x}) = 1
  BY FS_Singleton
<1>6. IsFiniteSet(1 .. f[x]) /\ Cardinality(1 .. f[x]) = Clip(f[x]) /\ Clip(f[x]) \in Nat
  <2>1. f[x] \in Int /\ 1 \in Int
    OBVIOUS
  <2>2. /\ IsFiniteSet(1 .. f[x])
        /\ Cardinality(1 .. f[x]) = IF 1 > f[x] THEN 0 ELSE f[x] - 1 + 1
    BY <2>1, FS_Interval
  <2> QED
    BY <2>1, <2>2 DEF Clip
<1>7. IsFiniteSet(B) /\ Cardinality(B) = Clip(f[x])
  <2>1. IsFiniteSet(B) /\ Cardinality(B) = Cardinality({x}) * Cardinality(1 .. f[x])
    BY <1>5, <1>6, FS_Product
  <2> QED
    BY <2>1, <1>5, <1>6
<1>8. Cardinality(A \cup B) = Cardinality(A) + Cardinality(B) - Cardinality(A \cap B)
  BY <1>4, <1>7, FS_Union
<1>9. Cardinality(A \cap B) = 0
  BY <1>2, FS_EmptySet
<1>10. Total(f, S) = Cardinality(A \cup B) /\ Total(f, S \ {x}) = Cardinality(A)
  BY <1>1 DEF Total
<1> HIDE DEF A, B
<1> QED
  BY <1>4, <1>6, <1>7, <1>8, <1>9, <1>10

\* changing one term
LEMMA TotalChange ==
    ASSUME NEW f, NEW g, NEW S, IsFiniteSet(S), NEW x \in S,
           \A y \in S : f[y] \in Int /\ g[y] \in Int,
           \A y \in S \ {x} : f[y] = g[y]
    PROVE  /\ Total(f, S) \in Nat /\ Total(g, S) \in Nat
           /\ Total(g, S) = Total(f, S) - Clip(f[x]) + Clip(g[x])
<1>1. Total(f, S \ {x}) = Total(g, S \ {x})
  BY TotalSame
<1>2. Total(f, S \ {x}) \in Nat /\ Total(f, S) = Total(f, S \ {x}) + Clip(f[x])
  BY TotalSplit
<1>3. Total(g, S) = Total(g, S \ {x}) + Clip(g[x])
  BY TotalSplit
<1>4. Total(f, S) \in Nat /\ Total(g, S) \in Nat
  BY TotalType
<1>5. Clip(f[x]) \in Nat /\ Clip(g[x]) \in Nat
  BY DEF Clip
<1> QED
  BY <1>1, <1>2, <1>3, <1>4, <1>5

\* smaller terms, smaller sum
LEMMA TotalMonotone ==
    ASSUME NEW f, NEW g, NEW S, IsFiniteSet(S),
           \A x \in S : f[x] \in Int /\ g[x] \in Int /\ f[x] <= g[x]
    PROVE  Total(f, S) <= Total(g, S)
<1>1. IsFiniteSet(Units(g, S))
  BY TotalType
<1>2. Units(f, S) \in SUBSET Units(g, S)
  BY DEF Units
<1> QED
  BY <1>1, <1>2, FS_Subset DEF Total

\* changing one term of a sum of integers
LEMMA NetChange ==
    ASSUME NEW f, NEW g, NEW S, IsFiniteSet(S), NEW x \in S,
           \A y \in S : f[y] \in Int /\ g[y] \in Int,
           \A y \in S \ {x} : f[y] = g[y]
    PROVE  /\ Net(f, S) \in Int /\ Net(g, S) \in Int
           /\ Net(g, S) = Net(f, S) - f[x] + g[x]
<1> DEFINE a == [y \in S |-> 0 - f[y]]
           b == [y \in S |-> 0 - g[y]]
<1>1. /\ \A y \in S : a[y] \in Int /\ b[y] \in Int
      /\ \A y \in S \ {x} : a[y] = b[y]
      /\ a[x] = 0 - f[x] /\ b[x] = 0 - g[x]
      /\ f[x] \in Int /\ g[x] \in Int
  OBVIOUS
<1>2. Net(f, S) = Total(f, S) - Total(a, S) /\ Net(g, S) = Total(g, S) - Total(b, S)
  BY DEF Net
<1> HIDE DEF a, b
<1>3. /\ Total(f, S) \in Nat /\ Total(g, S) \in Nat
      /\ Total(g, S) = Total(f, S) - Clip(f[x]) + Clip(g[x])
  BY TotalChange
<1>4. /\ Total(a, S) \in Nat /\ Total(b, S) \in Nat
      /\ Total(b, S) = Total(a, S) - Clip(a[x]) + Clip(b[x])
  BY <1>1, TotalChange
<1>5. /\ Clip(g[x]) - Clip(f[x]) - (Clip(b[x]) - Clip(a[x])) = g[x] - f[x]
      /\ Clip(f[x]) \in Nat /\ Clip(g[x]) \in Nat
      /\ Clip(a[x]) \in Nat /\ Clip(b[x]) \in Nat
  BY <1>1 DEF Clip
<1> QED
  BY <1>1, <1>2, <1>3, <1>4, <1>5

\* one term apart from the others
LEMMA NetBound ==
    ASSUME NEW f, NEW S, IsFiniteSet(S), \A y \in S : f[y] \in Int
    PROVE  /\ Net(f, S) \in Int /\ Net(f, S) <= Total(f, S)
           /\ \A x \in S : Net(f, S) <= f[x] + Total(f, S \ {x})
<1> DEFINE a == [y \in S |-> 0 - f[y]]
<1>1. \A y \in S : a[y] \in Int /\ a[y] = 0 - f[y]
  OBVIOUS
<1>2. Net(f, S) = Total(f, S) - Total(a, S)
  BY DEF Net
<1> HIDE DEF a
<1>3. Total(f, S) \in Nat /\ Total(a, S) \in Nat
  BY <1>1, TotalType
<1>4. ASSUME NEW x \in S
      PROVE  Net(f, S) <= f[x] + Total(f, S \ {x})
  <2>1. Total(f, S \ {x}) \in Nat /\ Total(f, S) = Total(f, S \ {x}) + Clip(f[x])
    BY TotalSplit
  <2>2. Total(a, S \ {x}) \in Nat /\ Total(a, S) = Total(a, S \ {x}) + Clip(a[x])
    BY <1>1, TotalSplit
  <2>3. f[x] \in Int /\ a[x] = 0 - f[x]
    BY <1>1
  <2> QED
    BY <1>2, <1>3, <2>1, <2>2, <2>3 DEF Clip
<1> QED
  BY <1>2, <1>3, <1>4

\* counting a set class by class: elements are sorted by h, and no more are
\* counted in the classes of S than there are
LEMMA TotalClasses ==
    ASSUME NEW T, IsFiniteSet(T), NEW S, NEW h
    PROVE  LET cls == [x \in S |-> Cardinality({t \in T : h[t] = x})]
           IN  /\ \A x \in S : cls[x] \in Nat
               /\ IsFiniteSet(S) => Total(cls, S) <= Cardinality(T)
<1> DEFINE C(x) == {t \in T : h[t] = x}
           cls == [x \in S |-> Cardinality(C(x))]
           b == [x \in S |-> CHOOSE q : q \in Bijection(1 .. Cardinality(C(x)), C(x))]
           F == [p \in Units(cls, S) |-> b[p[1]][p[2]]]
<1>1. ASSUME NEW x \in S
      PROVE  /\ cls[x] \in Nat
             /\ b[x] \in Bijection(1 .. cls[x], C(x))
  <2>1. IsFiniteSet(C(x))
    BY FS_Subset
  <2>2. Cardinality(C(x)) \in Nat /\ ExistsBijection(1 .. Cardinality(C(x)), C(x))
    BY <2>1, FS_CardinalityType
  <2>3. \E q : q \in Bijection(1 .. Cardinality(C(x)), C(x))
    BY <2>2 DEF ExistsBijection
  <2> HIDE DEF C
  <2> QED
    BY <2>2, <2>3
<1>2. ASSUME NEW x \in S, NEW i \in 1 .. cls[x]
      PROVE  /\ b[x][i] \in T /\ h[b[x][i]] = x
             /\ \A j \in 1 .. cls[x] : b[x][i] = b[x][j] => i = j
  <2>1. b[x] \in Bijection(1 .. cls[x], C(x))
    BY <1>1
  <2> HIDE DEF b, cls
  <2> QED
    BY <2>1 DEF Bijection, Injection, IsInjective
<1>3. ASSUME NEW p \in Units(cls, S)
      PROVE  \E x \in S : \E i \in 1 .. cls[x] : p = <<x, i>>
  BY UnitsAre
<1>4. F \in Injection(Units(cls, S), T)
  <2>1. ASSUME NEW p \in Units(cls, S)
        PROVE  F[p] \in T
    <3> HIDE DEF b, cls
    <3> QED
      BY <2>1, <1>2, <1>3
  <2>2. ASSUME NEW p \in Units(cls, S), NEW q \in Units(cls, S), F[p] = F[q]
        PROVE  p = q
    <3>a. PICK x \in S : \E i \in 1 .. cls[x] : p = <<x, i>>
      BY <1>3
    <3>1. PICK i \in 1 .. cls[x] : p = <<x, i>>
      BY <3>a
    <3>b. PICK y \in S : \E j \in 1 .. cls[y] : q = <<y, j>>
      BY <1>3
    <3>2. PICK j \in 1 .. cls[y] : q = <<y, j>>
      BY <3>b
    <3>3. F[p] = b[x][i] /\ F[q] = b[y][j]
      BY <3>1, <3>2
    <3> HIDE DEF b, cls, F
    <3>4. x = y
      <4>1. h[b[x][i]] = x
        BY <1>2
      <4>2. h[b[y][j]] = y
        BY <1>2
      <4> QED
        BY <4>1, <4>2, <2>2, <3>3
    <3> QED
      BY <1>2, <2>2, <3>1, <3>2, <3>3, <3>4
  <2> HIDE DEF b, cls
  <2> QED
    BY <2>1, <2>2 DEF Injection, IsInjective
<1>5. Cardinality(Units(cls, S)) <= Cardinality(T)
  <2> HIDE DEF F, cls
  <2> QED
    BY <1>4, FS_Injection
<1> QED
  BY <1>1, <1>5 DEF Total

----------------------------------------------------------------------------
(* The inductive invariant.                                                *)

LatePCs == {"counted", "move", "moved"}
PendingPCs == LatePCs \cup {"fill", "reply"}

\* goroutines between AddRef and the end of addToCache, and those of them that
\* work with object o
Late == {t \in Threads : pc[t] \in LatePCs}
LateOn(o) == {t \in Late : obj[t] = o}

\* who is inside a critical section holds the lock, and finds the table as it
\* was when the lock was taken; who serves a lookup has its object
LockInv ==
    /\ \A t \in Threads : pc[t] \in {"move", "moved", "evict"} <=> inoCacheL = t
    /\ \A t \in Threads : pc[t] \in {"move", "moved", "evict"} => inoCache # NoObj
    /\ \A t \in Threads :
         pc[t] \in {"have", "counted", "move", "moved", "fill", "reply"} => obj[t] # NoObj

\* what addToCache leaves behind in the object it found outside the table was
\* added since by other lookups, which have yet to call addToCache
MoveInv ==
    ~virtual => \A t \in Threads :
        (pc[t] \in {"move", "moved"} /\ obj[t] # inoCache) =>
            /\ refcnt[obj[t]] - v[t] >= 0
            /\ refcnt[obj[t]] - v[t] <= Cardinality(LateOn(obj[t])) - 1

\* an object outside the table has no other references than those of lookups
\* that have not finished addToCache
OwedInv ==
    ~virtual => \A o \in Objs \ {inoCache} : Counted[o] <= Cardinality(LateOn(o))

\* what removeFromCache found left is still there when it decides, and what
\* came in between belongs to lookups that have yet to call addToCache
EvictInv ==
    ~virtual => \A t \in Threads :
        pc[t] = "evict" => /\ v[t] <= refcnt[inoCache]
                           /\ refcnt[inoCache] <= v[t] + Cardinality(LateOn(inoCache))

\* the counts fall short of what is held by READDIRPLUS references at most
LowerInv == ~virtual => Net(Counted, Objs) + plus >= Held

\* and do not exceed it, also when a wrapped count is in the table
UpperInv ==
    (~virtual /\ inoCache # NoObj) =>
        Counted[inoCache] + Total(Counted, Objs \ {inoCache}) <= Held

\* an entry nobody holds is about to be evicted
HeldInv ==
    (~virtual /\ inoCache # NoObj)
        => Held > 0 \/ \E t \in Threads : pc[t] = "evict"

\* the entry of an inode that counts nothing goes with the first forget
VirtualInv ==
    virtual =>
        /\ \A t \in Threads : pc[t] = "evict" => v[t] = 0
        /\ \/ inoCache = NoObj \/ kernel > 0
           \/ \E t \in Threads : pc[t] \in {"move", "moved", "fill", "reply", "forget", "evict"}

CacheInv ==
    TypeOK /\ LockInv /\ MoveInv /\ OwedInv /\ EvictInv /\ LowerInv /\ UpperInv
           /\ HeldInv /\ VirtualInv

----------------------------------------------------------------------------
(* Types and the lock.                                                     *)

Step(t) == Arrive(t) \/ LookupStep(t) \/ LockStep(t)

\* a step is one goroutine's, or gives the kernel a reference and does nothing
\* else
LEMMA NextIs ==
    ASSUME Next
    PROVE  (\E t \in Threads : Step(t)) \/ ReadDirPlus
  BY DEF Next, Step

\* the object getInode works with, which counts nothing if it is a new one
LEMMA BackendObject ==
    ASSUME TypeOK, NEW t \in Threads, GetInodeRoot(t)
    PROVE  /\ \E o \in Objs : /\ obj' = [obj EXCEPT ![t] = o]
                             /\ \/ refcnt' = refcnt
                                \/ o \in Fresh /\ refcnt' = [refcnt EXCEPT ![o] = 0]
           /\ pc[t] = "miss" /\ pc' = [pc EXCEPT ![t] = "have"]
           /\ UNCHANGED <<inoCache, inoCacheL, kernel, leaked, plus, v, virtual, root>>
<1>1. Fresh \subseteq Objs /\ (Fresh # {} => (CHOOSE x \in Fresh : TRUE) \in Fresh)
  BY DEF Fresh
<1>2. CASE root # NoObj
  BY <1>2 DEF GetInodeRoot, Goto, inode, TypeOK
<1>3. CASE root = NoObj
  <2>1. /\ Fresh # {}
        /\ obj' = [obj EXCEPT ![t] = CHOOSE x \in Fresh : TRUE]
        /\ refcnt' = [refcnt EXCEPT ![CHOOSE x \in Fresh : TRUE] = 0]
    BY <1>3 DEF GetInodeRoot
  <2>2. PICK o \in Objs : o \in Fresh /\ o = CHOOSE x \in Fresh : TRUE
    BY <1>1, <2>1
  <2>3. obj' = [obj EXCEPT ![t] = o] /\ refcnt' = [refcnt EXCEPT ![o] = 0]
    BY <2>1, <2>2
  <2>4. /\ pc[t] = "miss" /\ pc' = [pc EXCEPT ![t] = "have"]
        /\ UNCHANGED <<inoCache, inoCacheL, kernel, leaked, plus, v, virtual, root>>
    BY DEF GetInodeRoot, Goto, inode
  <2> QED
    BY <2>2, <2>3, <2>4
<1> QED
  BY <1>2, <1>3

LEMMA TypesStep ==
    ASSUME TypeOK, LockInv, Next
    PROVE  TypeOK' /\ LockInv'
<1> USE ObjsAssumption
<1> USE DEF TypeOK, LockInv, PCs, Goto, inode, Forgetting
<1>0. CASE ReadDirPlus
  BY <1>0 DEF ReadDirPlus
<1>a. ASSUME NEW t \in Threads, Step(t)
      PROVE  TypeOK' /\ LockInv'
  <2>1. CASE GetInodeCached(t)
    BY <2>1 DEF GetInodeCached
  <2>2. CASE \E k \in 1 .. kernel : SendForget(t, k)
    BY <2>2 DEF SendForget
  <2>3. CASE GetInodeRoot(t)
    BY <2>3, BackendObject
  <2>4. CASE LookupAddRef(t)
    BY <2>4 DEF LookupAddRef, AddRefTo
  <2>5. CASE AddMove(t)
    BY <2>5 DEF AddMove, AddRefTo
  <2>6. CASE AddMoved(t)
    BY <2>6 DEF AddMoved, DelRefFrom, Unlock
  <2>7. CASE FillAttr(t)
    BY <2>7 DEF FillAttr
  <2>8. CASE Reply(t)
    BY <2>8 DEF Reply
  <2>9. CASE RemoveEvict(t)
    BY <2>9 DEF RemoveEvict, Unlock, Forgotten
  <2>10. CASE AddNew(t)
    BY <2>10 DEF AddNew
  <2>11. CASE AddFound(t)
    BY <2>11 DEF AddFound, AddRefResult, Lock
  <2>12. CASE RemoveMissing(t)
    BY <2>12 DEF RemoveMissing, Forgotten
  <2>13. CASE RemoveDelRef(t)
    BY <2>13 DEF RemoveDelRef, DelRefFrom, DelRefResult, Lock
  <2> QED
    BY <1>a, <2>1, <2>2, <2>3, <2>4, <2>5, <2>6, <2>7, <2>8, <2>9, <2>10, <2>11, <2>12, <2>13
       DEF Step, Arrive, LookupStep, LockStep
<1> QED
  BY <1>0, <1>a, NextIs

\* a step is one goroutine's, and an inode keeps its kind
LEMMA StepFrame ==
    ASSUME TypeOK, NEW t \in Threads, Step(t)
    PROVE  /\ \A u \in Threads \ {t} : pc'[u] = pc[u] /\ v'[u] = v[u] /\ obj'[u] = obj[u]
           /\ virtual' = virtual /\ plus' = plus
  BY DEF TypeOK, Step, Arrive, LookupStep, LockStep, GetInodeCached, SendForget,
         GetInodeRoot, LookupAddRef, AddMove, AddMoved, FillAttr, Reply, RemoveEvict,
         AddNew, AddFound, RemoveMissing, RemoveDelRef, Goto, Forgotten, inode

----------------------------------------------------------------------------
(* How what is held changes.                                               *)

\* P becomes Q by what happens to t alone
ButFor(t, P, Q) ==
    P \subseteq Threads /\ Q \subseteq Threads /\ P \ {t} = Q \ {t}

\* what this changes in a count
LEMMA CountStep ==
    ASSUME NEW t, NEW P, NEW Q, ButFor(t, P, Q)
    PROVE  /\ Cardinality(P) \in Nat /\ Cardinality(Q) \in Nat
           /\ Cardinality(Q) = Cardinality(P) - (IF t \in P THEN 1 ELSE 0)
                                              + (IF t \in Q THEN 1 ELSE 0)
<1> DEFINE R == P \ {t}
<1>1. IsFiniteSet(P) /\ IsFiniteSet(Q)
  BY ObjsAssumption, FS_Subset DEF ButFor
<1>2. Cardinality(P) \in Nat /\ Cardinality(Q) \in Nat
  BY <1>1, FS_CardinalityType
<1>3. Cardinality(R) = IF t \in P THEN Cardinality(P) - 1 ELSE Cardinality(P)
  BY <1>1, FS_RemoveElement
<1>4. R = Q \ {t}
  BY DEF ButFor
<1> HIDE DEF R
<1>5. Cardinality(R) = IF t \in Q THEN Cardinality(Q) - 1 ELSE Cardinality(Q)
  BY <1>1, <1>4, FS_RemoveElement
<1> QED
  BY <1>2, <1>3, <1>5
\* and the lookups in progress on an object
LEMMA LateStep ==
    ASSUME NEW t \in Threads, NEW o,
           \A u \in Threads \ {t} : pc'[u] = pc[u] /\ obj'[u] = obj[u]
    PROVE  /\ Cardinality(LateOn(o)) \in Nat /\ Cardinality(LateOn(o)') \in Nat
           /\ Cardinality(LateOn(o)') = Cardinality(LateOn(o))
                - (IF pc[t] \in LatePCs /\ obj[t] = o THEN 1 ELSE 0)
                + (IF pc'[t] \in LatePCs /\ obj'[t] = o THEN 1 ELSE 0)
<1>1. /\ ButFor(t, LateOn(o), LateOn(o)')
      /\ t \in LateOn(o) <=> pc[t] \in LatePCs /\ obj[t] = o
      /\ t \in LateOn(o)' <=> pc'[t] \in LatePCs /\ obj'[t] = o
  BY DEF ButFor, LateOn, Late, LatePCs
<1>2. /\ Cardinality(LateOn(o)) \in Nat /\ Cardinality(LateOn(o)') \in Nat
      /\ Cardinality(LateOn(o)') = Cardinality(LateOn(o))
           - (IF t \in LateOn(o) THEN 1 ELSE 0) + (IF t \in LateOn(o)' THEN 1 ELSE 0)
  BY <1>1, CountStep
<1> QED
  BY <1>1, <1>2

\* and in the sum of what the forgets in progress give back
LEMMA ForgetStep ==
    ASSUME TypeOK, TypeOK', NEW t \in Threads,
           \A u \in Threads \ {t} : pc'[u] = pc[u] /\ v'[u] = v[u]
    PROVE  /\ Total(v, Forgetting) \in Nat /\ Total(v', Forgetting') \in Nat
           /\ Total(v', Forgetting') = Total(v, Forgetting)
                - (IF pc[t] = "forget" THEN v[t] ELSE 0)
                + (IF pc'[t] = "forget" THEN v'[t] ELSE 0)
<1> DEFINE R == Forgetting \ {t}
<1>1. /\ Forgetting \in SUBSET Threads /\ Forgetting' \in SUBSET Threads
      /\ R = Forgetting' \ {t}
      /\ t \in Forgetting <=> pc[t] = "forget"
      /\ t \in Forgetting' <=> pc'[t] = "forget"
      /\ \A u \in R : v[u] = v'[u]
  BY DEF Forgetting
<1>2. IsFiniteSet(Forgetting) /\ IsFiniteSet(Forgetting')
  BY <1>1, ObjsAssumption, FS_Subset
<1>3. /\ \A u \in Forgetting : v[u] \in Int /\ v[u] > 0
      /\ \A u \in Forgetting' : v'[u] \in Int /\ v'[u] > 0
      /\ v[t] \in Int /\ v'[t] \in Int
  BY <1>1 DEF TypeOK
<1>4. Total(v, Forgetting) \in Nat /\ Total(v', Forgetting') \in Nat
  BY <1>2, <1>3, TotalType
<1> HIDE DEF R
<1>5. Total(v, R) = Total(v', R)
  BY <1>1, TotalSame
<1>6. /\ Total(v, R) \in Nat
      /\ Total(v, Forgetting) = Total(v, R) + (IF pc[t] = "forget" THEN v[t] ELSE 0)
  <2>1. CASE t \in Forgetting
    <3>1. /\ Total(v, Forgetting \ {t}) \in Nat
          /\ Total(v, Forgetting) = Total(v, Forgetting \ {t}) + Clip(v[t])
      BY <1>2, <1>3, <2>1, TotalSplit
    <3> QED
      BY <3>1, <1>1, <1>3, <2>1 DEF R, Clip
  <2>2. CASE t \notin Forgetting
    <3>1. R = Forgetting
      BY <2>2 DEF R
    <3> QED
      BY <3>1, <1>1, <1>4, <2>2
  <2> QED
    BY <2>1, <2>2
<1>7. Total(v', Forgetting') = Total(v', R) + (IF pc'[t] = "forget" THEN v'[t] ELSE 0)
  <2>1. CASE t \in Forgetting'
    <3>1. /\ Total(v', Forgetting' \ {t}) \in Nat
          /\ Total(v', Forgetting') = Total(v', Forgetting' \ {t}) + Clip(v'[t])
      BY <1>2, <1>3, <2>1, TotalSplit
    <3> QED
      BY <3>1, <1>1, <1>3, <2>1 DEF Clip
  <2>2. CASE t \notin Forgetting'
    <3>1. R = Forgetting'
      BY <1>1, <2>2
    <3> QED
      BY <3>1, <1>1, <1>4, <2>2
  <2> QED
    BY <2>1, <2>2
<1> QED
  BY <1>3, <1>4, <1>5, <1>6, <1>7

\* AddRef adds one, a forget takes back what the kernel gave, and the rest of
\* the goroutines' steps only pass references on
LEMMA HeldStep ==
    ASSUME TypeOK, TypeOK', NEW t \in Threads, Step(t), ~virtual
    PROVE  /\ Held \in Nat /\ Held' \in Nat
           /\ LookupAddRef(t) => Held' = Held + 1
           /\ pc[t] = "forget" => Held' = Held - v[t]
           /\ (~LookupAddRef(t) /\ pc[t] # "forget") => Held' = Held
<1>0. \A w \in Threads \ {t} : pc'[w] = pc[w] /\ v'[w] = v[w] /\ obj'[w] = obj[w]
  BY StepFrame
<1> DEFINE F == Total(v, Forgetting)
           G == Total(v', Forgetting')
           P == Cardinality(Pending)
           Q == Cardinality(Pending')
<1>1. /\ F \in Nat /\ G \in Nat
      /\ G = F - (IF pc[t] = "forget" THEN v[t] ELSE 0)
               + (IF pc'[t] = "forget" THEN v'[t] ELSE 0)
  BY <1>0, ForgetStep
<1>2. /\ P \in Nat /\ Q \in Nat
      /\ Q = P - (IF pc[t] \in PendingPCs THEN 1 ELSE 0)
               + (IF pc'[t] \in PendingPCs THEN 1 ELSE 0)
  <2>1. /\ ButFor(t, Pending, Pending')
        /\ t \in Pending <=> pc[t] \in PendingPCs
        /\ t \in Pending' <=> pc'[t] \in PendingPCs
    BY <1>0 DEF ButFor, Pending, PendingPCs, LatePCs
  <2>2. /\ P \in Nat /\ Q \in Nat
        /\ Q = P - (IF t \in Pending THEN 1 ELSE 0) + (IF t \in Pending' THEN 1 ELSE 0)
    BY <2>1, CountStep
  <2> QED
    BY <2>1, <2>2
<1>3. Held = kernel + leaked + P + F /\ Held' = kernel' + leaked' + Q + G
  BY DEF Held
<1> HIDE DEF F, G, P, Q
<1>4. /\ kernel \in Nat /\ leaked \in Nat /\ kernel' \in Nat /\ leaked' \in Nat
      /\ v \in [Threads -> Int] /\ v'[t] \in Int /\ pc \in [Threads -> PCs]
  BY DEF TypeOK
<1>5. Held \in Nat /\ Held' \in Nat
  BY <1>1, <1>2, <1>3, <1>4
<1>a. LookupAddRef(t) => pc[t] = "have"
  BY DEF LookupAddRef
<1> USE <1>1, <1>2, <1>3, <1>4, <1>5, <1>a
<1> USE DEF PendingPCs, LatePCs, Goto, Forgotten
<1>6. CASE LookupAddRef(t)
  BY <1>6 DEF LookupAddRef
<1>7. CASE RemoveMissing(t)
  BY <1>7 DEF RemoveMissing
<1>8. CASE RemoveDelRef(t)
  BY <1>8 DEF RemoveDelRef
<1>9. CASE GetInodeCached(t)
  BY <1>9 DEF GetInodeCached
<1>10. CASE \E k \in 1 .. kernel : SendForget(t, k)
  BY <1>10 DEF SendForget
<1>11. CASE GetInodeRoot(t)
  BY <1>11 DEF GetInodeRoot
<1>12. CASE AddMove(t)
  BY <1>12 DEF AddMove
<1>13. CASE AddMoved(t)
  BY <1>13 DEF AddMoved
<1>14. CASE FillAttr(t)
  BY <1>14 DEF FillAttr
<1>15. CASE Reply(t)
  BY <1>15 DEF Reply
<1>16. CASE RemoveEvict(t)
  BY <1>16 DEF RemoveEvict
<1>17. CASE AddNew(t)
  BY <1>17 DEF AddNew
<1>18. CASE AddFound(t)
  BY <1>18 DEF AddFound
<1> QED
  BY <1>6, <1>7, <1>8, <1>9, <1>10, <1>11, <1>12, <1>13, <1>14, <1>15, <1>16, <1>17, <1>18
     DEF Step, Arrive, LookupStep, LockStep

\* lookups before the end of addToCache are among what is held
LEMMA HeldParts ==
    ASSUME TypeOK
    PROVE  /\ Held \in Nat /\ Cardinality(Late) \in Nat /\ Cardinality(Late) <= Held
           /\ kernel <= Held - Cardinality(Late)
           /\ \A t \in Pending : Held > 0
<1> USE ObjsAssumption
<1>1. /\ Late \in SUBSET Pending /\ Pending \in SUBSET Threads
      /\ Forgetting \in SUBSET Threads
  BY DEF Late, Pending, LatePCs, Forgetting
<1>2. IsFiniteSet(Pending) /\ IsFiniteSet(Forgetting)
  BY <1>1, FS_Subset
<1>3. IsFiniteSet(Late) /\ Cardinality(Late) <= Cardinality(Pending)
  BY <1>1, <1>2, FS_Subset
<1>4. Cardinality(Late) \in Nat /\ Cardinality(Pending) \in Nat
  BY <1>2, <1>3, FS_CardinalityType
<1>5. \A t \in Pending : Cardinality(Pending) # 0
  BY <1>2, FS_EmptySet
<1>6. Total(v, Forgetting) \in Nat
  <2>1. \A t \in Forgetting : v[t] \in Int
    BY <1>1 DEF TypeOK
  <2> QED
    BY <1>2, <2>1, TotalType
<1>7. kernel \in Nat /\ leaked \in Nat
  BY DEF TypeOK
<1> QED
  BY <1>3, <1>4, <1>5, <1>6, <1>7 DEF Held

PendingHeld == \A t \in Pending : Held > 0

LEMMA PendingIsHeld ==
    TypeOK => PendingHeld
  BY HeldParts DEF PendingHeld

\* READDIRPLUS adds one to what is held
LEMMA HeldPlus ==
    ASSUME TypeOK, ReadDirPlus
    PROVE  /\ Held' = Held + 1 /\ Held \in Nat
           /\ Counted' = Counted /\ plus' = plus + 1 /\ plus \in Nat
           /\ inoCache' = inoCache /\ refcnt' = refcnt /\ pc' = pc /\ obj' = obj /\ v' = v
           /\ virtual' = virtual /\ ~virtual
<1>1. /\ kernel' = kernel + 1 /\ plus' = plus + 1 /\ plus \in Nat
      /\ UNCHANGED <<inoCache, inoCacheL, refcnt, leaked, virtual, pc, obj, v>> /\ ~virtual
  BY DEF ReadDirPlus, inode, TypeOK
<1>2. Counted' = Counted
  BY <1>1 DEF Counted
<1>3. Pending' = Pending /\ Forgetting' = Forgetting
  BY <1>1 DEF Pending, Forgetting
<1>4. Held = kernel + leaked + Cardinality(Pending) + Total(v, Forgetting)
  BY DEF Held
<1>5. Held' = kernel' + leaked + Cardinality(Pending) + Total(v, Forgetting)
  BY <1>1, <1>3 DEF Held
<1>6. /\ kernel \in Nat /\ leaked \in Nat /\ Cardinality(Pending) \in Nat
      /\ Total(v, Forgetting) \in Nat
  <2>1. Pending \in SUBSET Threads /\ Forgetting \in SUBSET Threads
    BY DEF Pending, Forgetting
  <2>2. IsFiniteSet(Pending) /\ IsFiniteSet(Forgetting)
    BY <2>1, ObjsAssumption, FS_Subset
  <2>3. \A t \in Forgetting : v[t] \in Int
    BY <2>1 DEF TypeOK
  <2> QED
    BY <2>2, <2>3, TotalType, FS_CardinalityType DEF TypeOK
<1> QED
  BY <1>1, <1>2, <1>4, <1>5, <1>6

----------------------------------------------------------------------------
(* How the counts change.                                                  *)

\* Counted and refcnt differ where somebody is between the halves of a move
CountedFacts ==
    /\ Counted \in [Objs -> Int]
    /\ (\A u \in Threads : pc[u] # "moved") => Counted = refcnt
    /\ \A u \in Threads : pc[u] = "moved" => \A o \in Objs :
          Counted[o] = IF o = obj[u] THEN refcnt[o] - v[u] ELSE refcnt[o]

LEMMA CountedAre ==
    TypeOK /\ LockInv => CountedFacts
<1> SUFFICES ASSUME TypeOK, LockInv PROVE CountedFacts
  OBVIOUS
<1>1. \A o \in Objs :
        Counted[o] = IF \E t \in Threads : inoCacheL = t /\ pc[t] = "moved" /\ obj[t] = o
                       THEN refcnt[o] - v[inoCacheL] ELSE refcnt[o]
  BY DEF Counted
<1>2. Counted \in [Objs -> Int]
  <2>1. \A o \in Objs : Counted[o] \in Int
    BY <1>1 DEF TypeOK
  <2>2. Counted = [o \in Objs |-> Counted[o]]
    BY DEF Counted
  <2> HIDE DEF Counted
  <2> QED
    BY <2>1, <2>2
<1>3. ASSUME \A u \in Threads : pc[u] # "moved"
      PROVE  Counted = refcnt
  <2>1. \A o \in Objs : Counted[o] = refcnt[o]
    BY <1>1, <1>3
  <2> QED
    BY <2>1, <1>2 DEF TypeOK
<1>4. ASSUME NEW u \in Threads, pc[u] = "moved"
      PROVE  \A o \in Objs : Counted[o] = IF o = obj[u] THEN refcnt[o] - v[u] ELSE refcnt[o]
  <2>1. inoCacheL = u
    BY <1>4 DEF LockInv
  <2> QED
    BY <1>1, <1>4, <2>1
<1> QED
  BY <1>2, <1>3, <1>4 DEF CountedFacts

\* the count of an object changes where AddRef and DelRef are called, except
\* that addToCache moves its count with the first of its two calls
LEMMA CountedStep ==
    ASSUME TypeOK, LockInv, TypeOK', LockInv', NEW t \in Threads, Step(t), ~virtual
    PROVE  /\ Counted \in [Objs -> Int] /\ Counted' \in [Objs -> Int]
           /\ LookupAddRef(t) => /\ obj[t] \in Objs
                                 /\ \A x \in Objs \ {obj[t]} : Counted'[x] = Counted[x]
                                 /\ Counted'[obj[t]] = Counted[obj[t]] + 1
           /\ (AddMove(t) /\ obj[t] # inoCache) =>
                /\ obj[t] \in Objs /\ inoCache \in Objs
                /\ \A x \in Objs \ {obj[t], inoCache} : Counted'[x] = Counted[x]
                /\ Counted'[inoCache] = Counted[inoCache] + v[t]
                /\ Counted'[obj[t]] = Counted[obj[t]] - v[t]
                /\ Counted[obj[t]] = refcnt[obj[t]]
           /\ RemoveDelRef(t) => /\ inoCache \in Objs
                                 /\ \A x \in Objs \ {inoCache} : Counted'[x] = Counted[x]
                                 /\ Counted'[inoCache] = Counted[inoCache] - v[t]
           /\ GetInodeRoot(t) =>
                \/ Counted' = Counted
                \/ \E o \in Fresh : /\ \A x \in Objs \ {o} : Counted'[x] = Counted[x]
                                    /\ Counted'[o] = 0
           /\ \/ LookupAddRef(t) \/ (AddMove(t) /\ obj[t] # inoCache)
              \/ RemoveDelRef(t) \/ GetInodeRoot(t) \/ Counted' = Counted
<1> USE ObjsAssumption
<1>0. \A w \in Threads \ {t} : pc'[w] = pc[w] /\ v'[w] = v[w] /\ obj'[w] = obj[w]
  BY StepFrame
<1>1. CountedFacts /\ CountedFacts'
  BY CountedAre, PTL
<1>2. /\ Counted \in [Objs -> Int] /\ Counted' \in [Objs -> Int]
      /\ refcnt \in [Objs -> Int] /\ refcnt' \in [Objs -> Int]
      /\ v[t] \in Int
  BY <1>1 DEF CountedFacts, TypeOK
<1>3. (\A u \in Threads : pc[u] # "moved") => Counted = refcnt
  BY <1>1 DEF CountedFacts
<1>4. (\A u \in Threads : pc'[u] # "moved") => Counted' = refcnt'
  BY <1>1 DEF CountedFacts
<1>5. \A u \in Threads : pc[u] = "moved" =>
        \A o \in Objs : Counted[o] = IF o = obj[u] THEN refcnt[o] - v[u] ELSE refcnt[o]
  BY <1>1 DEF CountedFacts
<1>6. \A u \in Threads : pc'[u] = "moved" =>
        \A o \in Objs : Counted'[o] = IF o = obj'[u] THEN refcnt'[o] - v'[u] ELSE refcnt'[o]
  BY <1>1 DEF CountedFacts
\* t is not between the halves of a move: who is there stays there
<1>7. ASSUME pc[t] # "moved", pc'[t] # "moved", NEW o \in Objs
      PROVE  Counted'[o] - refcnt'[o] = Counted[o] - refcnt[o]
  <2>1. CASE \A u \in Threads : pc[u] # "moved"
    <3>1. \A u \in Threads : pc'[u] # "moved"
      BY <1>0, <1>7, <2>1
    <3> QED
      BY <1>2, <1>3, <1>4, <2>1, <3>1
  <2>2. ASSUME NEW u \in Threads, pc[u] = "moved"
        PROVE  Counted'[o] - refcnt'[o] = Counted[o] - refcnt[o]
    <3>1. u # t /\ pc'[u] = "moved" /\ obj'[u] = obj[u] /\ v'[u] = v[u] /\ v[u] \in Int
      BY <1>0, <1>7, <2>2 DEF TypeOK
    <3>2. Counted[o] = IF o = obj[u] THEN refcnt[o] - v[u] ELSE refcnt[o]
      BY <1>5, <2>2
    <3>3. Counted'[o] = IF o = obj[u] THEN refcnt'[o] - v[u] ELSE refcnt'[o]
      BY <1>6, <3>1
    <3>4. refcnt[o] \in Int /\ refcnt'[o] \in Int
      BY <1>2
    <3> QED
      BY <3>1, <3>2, <3>3, <3>4
  <2> QED
    BY <2>1, <2>2
<1>8. ASSUME pc[t] # "moved", pc'[t] # "moved", NEW o \in Objs, NEW d \in Int,
             refcnt'[o] = refcnt[o] + d
      PROVE  Counted'[o] = Counted[o] + d
  <2>1. Counted'[o] - refcnt'[o] = Counted[o] - refcnt[o]
    BY <1>7, <1>8
  <2>2. /\ refcnt[o] \in Int /\ refcnt'[o] \in Int
        /\ Counted[o] \in Int /\ Counted'[o] \in Int
    BY <1>2
  <2> QED
    BY <1>8, <2>1, <2>2
<1>9. ASSUME pc[t] # "moved", pc'[t] # "moved", NEW o \in Objs, refcnt'[o] = refcnt[o]
      PROVE  Counted'[o] = Counted[o]
  <2>1. refcnt'[o] = refcnt[o] + 0
    BY <1>2, <1>9
  <2>2. Counted'[o] = Counted[o] + 0
    BY <1>8, <1>9, <2>1
  <2> QED
    BY <1>2, <2>2
<1>a. ASSUME pc[t] # "moved", pc'[t] # "moved", refcnt' = refcnt
      PROVE  Counted' = Counted
  <2>1. \A o \in Objs : Counted'[o] = Counted[o]
    BY <1>9, <1>a
  <2> QED
    BY <1>2, <2>1
<1> USE DEF Goto
<1>b. pc \in [Threads -> PCs]
  BY DEF TypeOK
<1>10. CASE LookupAddRef(t)
  <2>1. /\ pc[t] = "have" /\ pc'[t] = "counted"
        /\ obj[t] \in Objs
        /\ refcnt' = [refcnt EXCEPT ![obj[t]] = @ + 1]
    BY <1>b, <1>10 DEF LookupAddRef, AddRefTo, LockInv, TypeOK
  <2>2. \A x \in Objs \ {obj[t]} : Counted'[x] = Counted[x]
    BY <1>2, <1>9, <2>1
  <2>3. refcnt'[obj[t]] = refcnt[obj[t]] + 1
    BY <1>2, <2>1
  <2>4. Counted'[obj[t]] = Counted[obj[t]] + 1
    BY <1>8, <2>1, <2>3
  <2> QED
    BY <1>2, <1>10, <2>1, <2>2, <2>4 DEF LookupAddRef, AddMove, RemoveDelRef, GetInodeRoot
<1>11. CASE RemoveDelRef(t)
  <2>1. /\ pc[t] = "forget" /\ pc'[t] = "evict"
        /\ inoCache \in Objs
        /\ refcnt' = [refcnt EXCEPT ![inoCache] = @ - v[t]]
    BY <1>b, <1>11 DEF RemoveDelRef, DelRefFrom, TypeOK
  <2>2. \A x \in Objs \ {inoCache} : Counted'[x] = Counted[x]
    BY <1>2, <1>9, <2>1
  <2>3. refcnt'[inoCache] = refcnt[inoCache] + (0 - v[t]) /\ (0 - v[t]) \in Int
    BY <1>2, <2>1
  <2>4. Counted'[inoCache] = Counted[inoCache] + (0 - v[t])
    BY <1>8, <2>1, <2>3
  <2>5. Counted[inoCache] \in Int
    BY <1>2, <2>1
  <2> QED
    BY <1>2, <1>11, <2>1, <2>2, <2>4, <2>5 DEF LookupAddRef, AddMove, RemoveDelRef, GetInodeRoot
<1>12. CASE GetInodeRoot(t)
  <2>1. PICK o \in Objs : /\ obj' = [obj EXCEPT ![t] = o]
                          /\ \/ refcnt' = refcnt
                             \/ o \in Fresh /\ refcnt' = [refcnt EXCEPT ![o] = 0]
    BY <1>12, BackendObject
  <2>2. pc[t] = "miss" /\ pc'[t] = "have"
    BY <1>b, <1>12 DEF GetInodeRoot
  <2>3. CASE refcnt' = refcnt
    BY <1>2, <1>12, <1>a, <2>2, <2>3 DEF LookupAddRef, AddMove, RemoveDelRef, GetInodeRoot
  <2>4. CASE o \in Fresh /\ refcnt' = [refcnt EXCEPT ![o] = 0]
    <3>1. \A x \in Objs \ {o} : Counted'[x] = Counted[x]
      BY <1>2, <1>9, <2>2, <2>4
    <3>2. \A u \in Threads : obj[u] # o
      BY <2>4 DEF Fresh
    <3>3. refcnt'[o] = 0
      BY <1>2, <2>4
    <3>4. Counted'[o] = refcnt'[o]
      <4>1. CASE \A u \in Threads : pc'[u] # "moved"
        BY <1>4, <4>1
      <4>2. ASSUME NEW u \in Threads, pc'[u] = "moved" PROVE Counted'[o] = refcnt'[o]
        <5>1. u # t /\ obj'[u] = obj[u]
          BY <1>0, <2>2, <4>2
        <5> QED
          BY <1>6, <4>2, <5>1, <3>2
      <4> QED
        BY <4>1, <4>2
    <3> QED
      BY <1>2, <1>12, <2>2, <2>4, <3>1, <3>3, <3>4
         DEF LookupAddRef, AddMove, RemoveDelRef, GetInodeRoot
  <2> QED
    BY <2>1, <2>3, <2>4
<1>13. CASE AddMove(t)
  <2>1. /\ pc[t] = "move" /\ pc'[t] = "moved" /\ obj' = obj /\ v' = v
        /\ obj[t] \in Objs /\ inoCache \in Objs
        /\ refcnt' = [refcnt EXCEPT ![inoCache] = @ + v[t]]
    BY <1>b, <1>13 DEF AddMove, AddRefTo, LockInv, TypeOK
  <2>2. \A u \in Threads : pc[u] # "moved"
    BY <2>1 DEF LockInv
  <2>3. Counted = refcnt
    BY <1>3, <2>2
  <2>4. \A o \in Objs : Counted'[o] = IF o = obj[t] THEN refcnt'[o] - v[t] ELSE refcnt'[o]
    BY <1>6, <2>1
  <2>5. CASE obj[t] = inoCache
    <3>1. \A o \in Objs : Counted'[o] = Counted[o]
      BY <1>2, <2>1, <2>3, <2>4, <2>5
    <3>2. Counted' = Counted
      BY <1>2, <3>1
    <3> QED
      BY <1>2, <1>13, <2>1, <2>5, <3>2 DEF LookupAddRef, AddMove, RemoveDelRef, GetInodeRoot
  <2>6. CASE obj[t] # inoCache
    <3>1. /\ \A x \in Objs \ {obj[t], inoCache} : Counted'[x] = Counted[x]
          /\ Counted'[inoCache] = Counted[inoCache] + v[t]
          /\ Counted'[obj[t]] = Counted[obj[t]] - v[t]
      BY <1>2, <2>1, <2>3, <2>4, <2>6
    <3> QED
      BY <1>2, <1>13, <2>1, <2>3, <2>6, <3>1 DEF LookupAddRef, AddMove, RemoveDelRef, GetInodeRoot
  <2> QED
    BY <2>5, <2>6
<1>14. CASE AddMoved(t)
  <2>1. /\ pc[t] = "moved" /\ pc'[t] = "fill"
        /\ obj[t] \in Objs
        /\ refcnt' = [refcnt EXCEPT ![obj[t]] = @ - v[t]]
    BY <1>b, <1>14 DEF AddMoved, DelRefFrom, LockInv, TypeOK
  <2>2. \A u \in Threads : pc'[u] # "moved"
    BY <1>0, <2>1 DEF LockInv
  <2>3. Counted' = refcnt'
    BY <1>4, <2>2
  <2>4. \A o \in Objs : Counted[o] = IF o = obj[t] THEN refcnt[o] - v[t] ELSE refcnt[o]
    BY <1>5, <2>1
  <2>5. \A o \in Objs : Counted'[o] = Counted[o]
    BY <1>2, <2>1, <2>3, <2>4
  <2>6. Counted' = Counted
    BY <1>2, <2>5
  <2> QED
    BY <1>2, <2>1, <2>6 DEF LookupAddRef, AddMove, RemoveDelRef, GetInodeRoot
<1>15. CASE \/ GetInodeCached(t) \/ (\E k \in 1 .. kernel : SendForget(t, k))
            \/ FillAttr(t) \/ Reply(t) \/ AddNew(t) \/ AddFound(t)
            \/ RemoveMissing(t) \/ RemoveEvict(t)
  <2>1. /\ pc[t] # "moved" /\ pc'[t] # "moved" /\ refcnt' = refcnt
        /\ ~LookupAddRef(t) /\ ~AddMove(t) /\ ~GetInodeRoot(t) /\ ~RemoveDelRef(t)
    BY <1>b, <1>15 DEF GetInodeCached, SendForget, FillAttr, Reply, RemoveEvict, AddNew,
         AddFound, RemoveMissing, Forgotten, LookupAddRef, AddMove, GetInodeRoot, RemoveDelRef
  <2> QED
    BY <1>2, <1>a, <2>1
<1> QED
  BY <1>10, <1>11, <1>12, <1>13, <1>14, <1>15 DEF Step, Arrive, LookupStep, LockStep

----------------------------------------------------------------------------
(* The counts.                                                             *)

\* what all objects outside the table count is owed to lookups in progress
LEMMA Ledger ==
    ASSUME TypeOK, LockInv, OwedInv, ~virtual
    PROVE  /\ Counted \in [Objs -> Int]
           /\ Total(Counted, Objs \ {inoCache}) \in Nat
           /\ Total(Counted, Objs \ {inoCache}) <= Cardinality(Late)
<1> USE ObjsAssumption
<1> DEFINE S == Objs \ {inoCache}
           cls == [o \in S |-> Cardinality({t \in Late : obj[t] = o})]
<1>1. Late \in SUBSET Threads
  BY DEF Late
<1>2. IsFiniteSet(S) /\ IsFiniteSet(Late)
  BY <1>1, FS_Subset
<1>3. Counted \in [Objs -> Int]
  BY CountedAre DEF CountedFacts
<1>4. /\ \A o \in S : cls[o] \in Nat
      /\ Total(cls, S) <= Cardinality(Late)
  BY <1>2, TotalClasses
<1>5. \A o \in S : Counted[o] \in Int /\ cls[o] \in Int /\ Counted[o] <= cls[o]
  BY <1>3, <1>4 DEF OwedInv, LateOn
<1> HIDE DEF S, cls
<1>6. Total(Counted, S) \in Nat /\ Total(cls, S) \in Nat
  BY <1>2, <1>5, TotalType
<1>7. Total(Counted, S) <= Total(cls, S)
  BY <1>2, <1>5, TotalMonotone
<1>8. Cardinality(Late) \in Nat
  BY <1>2, FS_CardinalityType
<1> QED
  BY <1>3, <1>4, <1>6, <1>7, <1>8 DEF S

LEMMA MoveStep ==
    ASSUME TypeOK, TypeOK', LockInv, LockInv', MoveInv, Next
    PROVE  MoveInv'
<1> USE ObjsAssumption
<1>0. CASE ReadDirPlus
  BY <1>0, HeldPlus DEF MoveInv, LateOn, Late
<1>a. ASSUME NEW t \in Threads, Step(t)
      PROVE  MoveInv'
  <2> SUFFICES ASSUME ~virtual', NEW u \in Threads, pc'[u] \in {"move", "moved"},
                      obj'[u] # inoCache'
               PROVE  /\ refcnt'[obj'[u]] - v'[u] >= 0
                      /\ refcnt'[obj'[u]] - v'[u] <= Cardinality(LateOn(obj[u])') - 1
    BY DEF MoveInv
  <2>0. /\ \A w \in Threads \ {t} : pc'[w] = pc[w] /\ v'[w] = v[w] /\ obj'[w] = obj[w]
        /\ ~virtual
    BY <1>a, StepFrame
  <2> USE DEF TypeOK, LockInv, Goto
  <2> DEFINE o == obj'[u]
             C == Cardinality(LateOn(o))
             D == Cardinality({w \in Threads : pc'[w] \in LatePCs /\ obj'[w] = o})
  <2>a. LateOn(obj[u])' = {w \in Threads : pc'[w] \in LatePCs /\ obj'[w] = o}
    BY DEF LateOn, Late
  <2>b. LateOn(o) = {w \in Threads : pc[w] \in LatePCs /\ obj[w] = o}
    BY DEF LateOn, Late
  <2>c. /\ C \in Nat /\ D \in Nat
        /\ D = C - (IF pc[t] \in LatePCs /\ obj[t] = o THEN 1 ELSE 0)
                 + (IF pc'[t] \in LatePCs /\ obj'[t] = o THEN 1 ELSE 0)
    <3> DEFINE P == {w \in Threads : pc[w] \in LatePCs /\ obj[w] = o}
               Q == {w \in Threads : pc'[w] \in LatePCs /\ obj'[w] = o}
    <3>1. /\ ButFor(t, P, Q)
          /\ t \in P <=> pc[t] \in LatePCs /\ obj[t] = o
          /\ t \in Q <=> pc'[t] \in LatePCs /\ obj'[t] = o
      BY <2>0 DEF ButFor
    <3>2. C = Cardinality(P) /\ D = Cardinality(Q)
      BY <2>b
    <3> HIDE DEF P, Q, o, C, D
    <3>3. /\ Cardinality(P) \in Nat /\ Cardinality(Q) \in Nat
          /\ Cardinality(Q) = Cardinality(P) - (IF t \in P THEN 1 ELSE 0)
                                             + (IF t \in Q THEN 1 ELSE 0)
      BY <3>1, CountStep
    <3> QED
      BY <3>1, <3>2, <3>3
  <2>d. /\ o \in Objs /\ pc'[u] \in LatePCs
        /\ refcnt[o] \in Int /\ refcnt'[o] \in Int /\ v[u] \in Int /\ v'[u] \in Int
    BY DEF LatePCs
  <2>e. o # inoCache'
    OBVIOUS
  <2> SUFFICES refcnt'[o] - v'[u] >= 0 /\ refcnt'[o] - v'[u] <= D - 1
    BY <2>a
  <2> HIDE DEF C, D
  <2>1. CASE u # t
    <3>1. /\ pc[u] \in {"move", "moved"} /\ inoCacheL = u /\ v'[u] = v[u] /\ obj[u] = o
      BY <2>0, <2>1
    <3>2. inoCache' = inoCache
      BY <1>a, <2>1, <3>1 DEF Step, Arrive, LookupStep, LockStep, GetInodeCached, SendForget,
           GetInodeRoot, LookupAddRef, AddMove, AddMoved, FillAttr, Reply, RemoveEvict,
           AddNew, AddFound, RemoveMissing, RemoveDelRef, Lock, Unlock
    <3>3. refcnt[o] - v[u] >= 0 /\ refcnt[o] - v[u] <= C - 1
      BY <2>0, <2>e, <3>1, <3>2 DEF MoveInv, C
    <3>4. CASE LookupAddRef(t)
      <4>1. /\ pc[t] = "have" /\ pc'[t] = "counted" /\ obj' = obj /\ obj[t] \in Objs
            /\ refcnt' = [refcnt EXCEPT ![obj[t]] = @ + 1]
        BY <2>0, <3>4 DEF LookupAddRef, AddRefTo
      <4>2. refcnt'[o] = IF obj[t] = o THEN refcnt[o] + 1 ELSE refcnt[o]
        BY <4>1, <2>d
      <4> HIDE DEF o
      <4> QED
        BY <4>1, <4>2, <2>c, <2>d, <3>1, <3>3 DEF LatePCs
    <3>5. CASE GetInodeRoot(t)
      <4>1. /\ pc[t] = "miss" /\ pc'[t] = "have"
            /\ refcnt'[o] = refcnt[o]
        <5>1. PICK x \in Objs : \/ refcnt' = refcnt
                                \/ x \in Fresh /\ refcnt' = [refcnt EXCEPT ![x] = 0]
          BY <3>5, BackendObject
        <5>2. o \notin Fresh
          BY <3>1 DEF Fresh
        <5>3. refcnt'[o] = refcnt[o]
          BY <5>1, <5>2, <2>d
        <5> QED
          BY <5>3, <3>5 DEF GetInodeRoot
      <4> HIDE DEF o
      <4> QED
        BY <4>1, <2>c, <2>d, <3>1, <3>3 DEF LatePCs
    <3>6. CASE ~LookupAddRef(t) /\ ~GetInodeRoot(t)
      <4>1. pc[t] \notin LatePCs /\ pc'[t] \notin LatePCs /\ refcnt' = refcnt
        BY <1>a, <2>1, <3>1, <3>6 DEF LatePCs, Step, Arrive, LookupStep, LockStep, GetInodeCached,
           SendForget, AddMove, AddMoved, FillAttr, Reply, RemoveEvict,
           AddNew, AddFound, RemoveMissing, RemoveDelRef, Lock, Unlock, Forgotten
      <4> HIDE DEF o
      <4> QED
        BY <4>1, <2>c, <2>d, <3>1, <3>3
    <3> QED
      BY <3>4, <3>5, <3>6
  <2>2. CASE u = t
    <3>1. AddFound(t) \/ AddMove(t)
      BY <1>a, <2>2 DEF Step, Arrive, LookupStep, LockStep, GetInodeCached, SendForget,
           GetInodeRoot, LookupAddRef, AddMove, AddMoved, FillAttr, Reply, RemoveEvict,
           AddNew, AddFound, RemoveMissing, RemoveDelRef, Forgotten
    <3>2. CASE AddFound(t)
      <4>1. /\ refcnt' = refcnt /\ obj' = obj /\ v'[t] = refcnt[o] /\ pc[t] = "counted"
            /\ obj[t] = o
        BY <2>0, <2>2, <3>2 DEF AddFound, AddRefResult
      <4>2. /\ ButFor(t, LateOn(o) \ {t}, LateOn(o))
        BY DEF ButFor, LateOn, Late
      <4>3. C - 1 \in Nat
        <5>1. /\ Cardinality(LateOn(o) \ {t}) \in Nat
              /\ Cardinality(LateOn(o)) = Cardinality(LateOn(o) \ {t}) + 1
          <6>1. t \in LateOn(o) /\ t \notin LateOn(o) \ {t}
            BY <4>1 DEF LateOn, Late, LatePCs
          <6> DEFINE P == LateOn(o) \ {t}
                     Q == LateOn(o)
          <6>2. ButFor(t, P, Q) /\ t \in Q /\ t \notin P
            BY <4>2, <6>1
          <6> HIDE DEF P, Q
          <6>3. Cardinality(P) \in Nat /\ Cardinality(Q) = Cardinality(P) + 1
            BY <6>2, CountStep
          <6> QED
            BY <6>3 DEF P, Q
        <5> QED
          BY <5>1 DEF C
      <4> HIDE DEF o
      <4>4. D = C
        BY <2>2, <2>c, <2>d, <4>1 DEF LatePCs, o
      <4> QED
        BY <2>2, <2>c, <2>d, <4>1, <4>3, <4>4
    <3>3. CASE AddMove(t)
      <4>1. /\ v' = v /\ obj' = obj /\ inoCache' = inoCache /\ inoCache \in Objs
            /\ pc[t] = "move" /\ pc'[t] = "moved" /\ obj[t] = o
            /\ refcnt' = [refcnt EXCEPT ![inoCache] = @ + v[t]]
        BY <2>0, <2>2, <3>3 DEF AddMove, AddRefTo
      <4>2. refcnt[o] - v[t] >= 0 /\ refcnt[o] - v[t] <= C - 1
        BY <2>0, <2>e, <4>1 DEF MoveInv, C
      <4>3. refcnt'[o] = refcnt[o]
        BY <4>1, <2>e, <2>d
      <4> HIDE DEF o
      <4>4. D = C
        BY <2>c, <4>1 DEF LatePCs, o
      <4> QED
        BY <2>2, <2>c, <2>d, <4>1, <4>2, <4>3, <4>4
    <3> QED
      BY <3>1, <3>2, <3>3
  <2> QED
    BY <2>1, <2>2
<1> QED
  BY <1>0, <1>a, NextIs

(***************************************************************************)
(* What an object outside the table counts belongs to lookups in progress. *)
(* An object leaves the table by RemoveEvict, when EvictInv says so.       *)
(***************************************************************************)
LEMMA OwedStep ==
    ASSUME TypeOK, TypeOK', LockInv, LockInv', MoveInv, OwedInv, EvictInv, Next
    PROVE  OwedInv'
<1> USE ObjsAssumption
<1>0. CASE ReadDirPlus
  BY <1>0, HeldPlus DEF OwedInv, LateOn, Late
<1>a. ASSUME NEW t \in Threads, Step(t)
      PROVE  OwedInv'
  <2> SUFFICES ASSUME ~virtual', NEW o \in Objs, o # inoCache'
               PROVE  Counted'[o] <= Cardinality(LateOn(o)')
    BY DEF OwedInv
  <2>0. /\ \A w \in Threads \ {t} : pc'[w] = pc[w] /\ v'[w] = v[w] /\ obj'[w] = obj[w]
        /\ ~virtual
    BY <1>a, StepFrame
  <2> DEFINE C == Cardinality(LateOn(o))
             D == Cardinality(LateOn(o)')
  <2>1. /\ C \in Nat /\ D \in Nat
        /\ D = C - (IF pc[t] \in LatePCs /\ obj[t] = o THEN 1 ELSE 0)
                 + (IF pc'[t] \in LatePCs /\ obj'[t] = o THEN 1 ELSE 0)
    BY <2>0, LateStep
  <2>2. Counted \in [Objs -> Int] /\ Counted' \in [Objs -> Int]
    BY <1>a, <2>0, CountedStep
  <2>3. o # inoCache => Counted[o] <= C
    BY <2>0 DEF OwedInv
  <2>z. Counted[o] \in Int /\ Counted'[o] \in Int
    BY <2>2
  <2> SUFFICES Counted'[o] <= D
    OBVIOUS
  <2> HIDE DEF C, D
  <2> USE DEF TypeOK, LatePCs, Goto
  <2>4. CASE o = inoCache
    <3>1. RemoveEvict(t) /\ v[t] <= 0
      BY <1>a, <2>4 DEF Step, Arrive, LookupStep, LockStep, GetInodeCached, SendForget,
           GetInodeRoot, LookupAddRef, AddMove, AddMoved, FillAttr, Reply, RemoveEvict,
           AddNew, AddFound, RemoveMissing, RemoveDelRef, Evictable
    <3>2. pc[t] = "evict" /\ pc'[t] = "idle" /\ refcnt' = refcnt
      BY <3>1 DEF RemoveEvict, Forgotten
    <3>3. \A u \in Threads : pc'[u] # "moved"
      BY <2>0, <3>2 DEF LockInv
    <3>4. Counted' = refcnt
      <4>1. CountedFacts'
        BY CountedAre, PTL
      <4> QED
        BY <3>2, <3>3, <4>1 DEF CountedFacts
    <3>5. v[t] \in Int /\ refcnt[o] \in Int /\ refcnt[o] <= v[t] + C
      BY <2>0, <2>4, <3>2 DEF EvictInv, C
    <3> QED
      BY <3>1, <3>2, <3>4, <3>5, <2>1
  <2>5. CASE o # inoCache
    <3>0. Counted[o] <= C
      BY <2>3, <2>5
    <3>1. CASE LookupAddRef(t)
      <4>1. pc[t] = "have" /\ pc'[t] = "counted" /\ obj' = obj
        BY <3>1 DEF LookupAddRef
      <4>2. Counted'[o] = IF o = obj[t] THEN Counted[o] + 1 ELSE Counted[o]
        BY <1>a, <2>0, <3>1, CountedStep
      <4> QED
        BY <4>1, <4>2, <3>0, <2>1, <2>z
    <3>2. CASE AddMove(t) /\ obj[t] # inoCache
      <4>1. /\ pc[t] = "move" /\ pc'[t] = "moved" /\ obj' = obj
        BY <3>2 DEF AddMove
      <4>2. D = C
        BY <4>1, <2>1
      <4>3. CASE o = obj[t]
        <5>1. Counted'[o] = refcnt[o] - v[t]
          BY <1>a, <2>0, <3>2, <4>3, CountedStep
        <5>2. refcnt[o] - v[t] <= C - 1 /\ refcnt[o] - v[t] \in Int
          BY <2>0, <3>2, <4>1, <4>3 DEF MoveInv, C
        <5> QED
          BY <5>1, <5>2, <4>2, <2>1
      <4>4. CASE o # obj[t]
        <5>1. Counted'[o] = Counted[o]
          BY <1>a, <2>0, <2>5, <3>2, <4>4, CountedStep
        <5> QED
          BY <5>1, <4>2, <3>0
      <4> QED
        BY <4>3, <4>4
    <3>3. CASE GetInodeRoot(t)
      <4>1. pc[t] = "miss" /\ pc'[t] = "have"
        BY <3>3 DEF GetInodeRoot
      <4>2. Counted'[o] = Counted[o] \/ Counted'[o] = 0
        BY <1>a, <2>0, <3>3, CountedStep
      <4> QED
        BY <4>1, <4>2, <3>0, <2>1, <2>z
    <3>4. CASE AddMoved(t)
      <4>1. pc[t] = "moved" /\ pc'[t] = "fill" /\ obj' = obj
        BY <3>4 DEF AddMoved
      <4>2. Counted'[o] = Counted[o]
        BY <1>a, <2>0, <3>4, CountedStep DEF AddMoved, LookupAddRef, AddMove, RemoveDelRef,
             GetInodeRoot
      <4>3. CASE o = obj[t]
        <5>1. Counted[o] = refcnt[o] - v[t]
          BY <4>1, <4>3, CountedAre DEF CountedFacts
        <5>2. refcnt[o] - v[t] <= C - 1 /\ refcnt[o] - v[t] \in Int
          BY <2>0, <2>5, <4>1, <4>3 DEF MoveInv, C
        <5> QED
          BY <4>1, <4>2, <4>3, <5>1, <5>2, <2>1
      <4>4. CASE o # obj[t]
        BY <4>1, <4>2, <4>4, <3>0, <2>1
      <4> QED
        BY <4>3, <4>4
    <3>5. CASE RemoveDelRef(t)
      <4>1. pc[t] = "forget" /\ pc'[t] = "evict"
        BY <3>5 DEF RemoveDelRef
      <4>2. Counted'[o] = Counted[o]
        BY <1>a, <2>0, <2>5, <3>5, CountedStep
      <4> QED
        BY <4>1, <4>2, <3>0, <2>1
    <3>6. CASE AddFound(t)
      <4>1. /\ pc[t] = "counted" /\ obj' = obj /\ obj[t] \in Objs
            /\ pc'[t] = "move" \/ (pc'[t] = "fill" /\ refcnt[obj[t]] = 0)
            /\ refcnt' = refcnt
        BY <2>0, <3>6 DEF AddFound, AddRefResult, LockInv
      <4>2. Counted'[o] = Counted[o]
        BY <1>a, <2>0, <3>6, CountedStep DEF AddFound, LookupAddRef, AddMove, RemoveDelRef,
             GetInodeRoot
      <4>3. CASE o = obj[t] /\ pc'[t] = "fill"
        <5>1. inoCacheL = NoObj
          BY <3>6 DEF AddFound, Lock
        <5>2. \A u \in Threads : pc[u] # "moved"
          BY <5>1 DEF LockInv
        <5>3. Counted[o] = 0
          BY <4>1, <4>3, <5>2, CountedAre DEF CountedFacts
        <5> QED
          BY <4>2, <5>3, <2>1
      <4>4. CASE ~(o = obj[t] /\ pc'[t] = "fill")
        BY <4>1, <4>2, <4>4, <3>0, <2>1
      <4> QED
        BY <4>3, <4>4
    <3>7. CASE AddNew(t)
      <4>1. /\ pc[t] = "counted" /\ pc'[t] = "fill" /\ obj' = obj /\ inoCache' = obj[t]
        BY <3>7 DEF AddNew
      <4>2. Counted'[o] = Counted[o]
        BY <1>a, <2>0, <3>7, CountedStep DEF AddNew, LookupAddRef, AddMove, RemoveDelRef,
             GetInodeRoot
      <4> QED
        BY <4>1, <4>2, <3>0, <2>1
    <3>8. CASE \/ GetInodeCached(t) \/ (\E k \in 1 .. kernel : SendForget(t, k))
               \/ FillAttr(t) \/ Reply(t) \/ RemoveEvict(t) \/ RemoveMissing(t)
      <4>1. pc[t] \notin LatePCs /\ pc'[t] \notin LatePCs /\ ~LookupAddRef(t)
              /\ ~AddMove(t) /\ ~RemoveDelRef(t) /\ ~GetInodeRoot(t)
        BY <3>8 DEF GetInodeCached, SendForget, FillAttr, Reply, RemoveEvict, RemoveMissing,
             Forgotten, LookupAddRef, AddMove, RemoveDelRef, GetInodeRoot
      <4>2. Counted'[o] = Counted[o]
        BY <1>a, <2>0, <4>1, CountedStep
      <4> QED
        BY <4>1, <4>2, <3>0, <2>1
    <3>9. CASE AddMove(t) /\ obj[t] = inoCache
      <4>1. pc[t] = "move" /\ pc'[t] = "moved" /\ obj' = obj
        BY <3>9 DEF AddMove
      <4>2. Counted'[o] = Counted[o]
        BY <1>a, <2>0, <3>9, <4>1, CountedStep DEF LookupAddRef, RemoveDelRef, GetInodeRoot
      <4> QED
        BY <4>1, <4>2, <3>0, <2>1
    <3> QED
      BY <1>a, <3>1, <3>2, <3>3, <3>4, <3>5, <3>6, <3>7, <3>8, <3>9
         DEF Step, Arrive, LookupStep, LockStep
  <2> QED
    BY <2>4, <2>5
<1> QED
  BY <1>0, <1>a, NextIs

\* while removeFromCache decides, only AddRef outside the lock can happen to
\* the entry
LEMMA EvictStep ==
    ASSUME TypeOK, TypeOK', LockInv, EvictInv, Next
    PROVE  EvictInv'
<1> USE ObjsAssumption
<1>0. CASE ReadDirPlus
  BY <1>0, HeldPlus DEF EvictInv, LateOn, Late
<1>a. ASSUME NEW t \in Threads, Step(t)
      PROVE  EvictInv'
  <2> SUFFICES ASSUME ~virtual', NEW u \in Threads, pc'[u] = "evict"
               PROVE  /\ v'[u] <= refcnt'[inoCache']
                      /\ refcnt'[inoCache'] <= v'[u] + Cardinality(LateOn(inoCache)')
    BY DEF EvictInv
  <2>0. /\ \A w \in Threads \ {t} : pc'[w] = pc[w] /\ v'[w] = v[w] /\ obj'[w] = obj[w]
        /\ ~virtual
    BY <1>a, StepFrame
  <2> USE DEF TypeOK, LatePCs, Goto
  <2>1. CASE u = t
    <3>1. RemoveDelRef(t)
      BY <1>a, <2>1 DEF Step, Arrive, LookupStep, LockStep, GetInodeCached, SendForget,
           GetInodeRoot, LookupAddRef, AddMove, AddMoved, FillAttr, Reply, RemoveEvict,
           AddNew, AddFound, RemoveMissing, RemoveDelRef, Forgotten
    <3>2. /\ inoCache' = inoCache /\ inoCache \in Objs
          /\ v'[t] = refcnt'[inoCache]
      BY <3>1, <2>0 DEF RemoveDelRef, DelRefFrom, DelRefResult
    <3> DEFINE D == Cardinality(LateOn(inoCache)')
    <3>3. LateOn(inoCache)' \in SUBSET Threads
      BY DEF LateOn, Late
    <3>4. D \in Nat
      BY <3>3, FS_Subset, FS_CardinalityType
    <3> HIDE DEF D
    <3>5. v'[t] \in Int
      OBVIOUS
    <3>6. v'[t] <= refcnt'[inoCache'] /\ refcnt'[inoCache'] <= v'[t] + D
      BY <3>2, <3>4, <3>5
    <3> QED
      BY <3>6, <2>1 DEF D
  <2>2. CASE u # t
    <3>1. /\ pc[u] = "evict" /\ v'[u] = v[u] /\ inoCacheL = u /\ inoCache \in Objs
          /\ v[u] <= refcnt[inoCache]
          /\ refcnt[inoCache] <= v[u] + Cardinality(LateOn(inoCache))
      BY <2>0, <2>2 DEF LockInv, EvictInv
    <3>2. \/ LookupAddRef(t) \/ GetInodeRoot(t)
          \/ /\ pc[t] \notin LatePCs /\ pc'[t] \notin LatePCs
             /\ refcnt' = refcnt /\ inoCache' = inoCache
      BY <1>a, <2>2, <3>1 DEF LockInv, Step, Arrive, LookupStep, LockStep, GetInodeCached,
           SendForget, AddMove, AddMoved, FillAttr, Reply, RemoveEvict,
           AddNew, AddFound, RemoveMissing, RemoveDelRef, Forgotten, Lock, Unlock
    <3>3. inoCache' = inoCache
      BY <3>2 DEF LookupAddRef, GetInodeRoot
    <3> DEFINE C == Cardinality(LateOn(inoCache))
               D == Cardinality(LateOn(inoCache)')
    <3>4. LateOn(inoCache)' = {w \in Threads : pc'[w] \in LatePCs /\ obj'[w] = inoCache}
      BY <3>3 DEF LateOn, Late
    <3>5. LateOn(inoCache) = {w \in Threads : pc[w] \in LatePCs /\ obj[w] = inoCache}
      BY DEF LateOn, Late
    <3>6. /\ ButFor(t, LateOn(inoCache), LateOn(inoCache)')
          /\ t \in LateOn(inoCache) <=> pc[t] \in LatePCs /\ obj[t] = inoCache
          /\ t \in LateOn(inoCache)' <=> pc'[t] \in LatePCs /\ obj'[t] = inoCache
      BY <3>4, <3>5, <2>0 DEF ButFor
    <3>7. /\ C \in Nat /\ D \in Nat
          /\ D = C - (IF t \in LateOn(inoCache) THEN 1 ELSE 0)
                   + (IF t \in LateOn(inoCache)' THEN 1 ELSE 0)
      BY <3>6, CountStep
    <3>8. refcnt[inoCache] \in Int /\ refcnt'[inoCache] \in Int /\ v[u] \in Int
      BY <3>1
    <3> SUFFICES v[u] <= refcnt'[inoCache] /\ refcnt'[inoCache] <= v[u] + D
      BY <3>1, <3>3
    <3>9. refcnt[inoCache] <= v[u] + C
      BY <3>1
    <3> HIDE DEF C, D
    <3>10. CASE LookupAddRef(t)
      <4>1. /\ pc[t] = "have" /\ pc'[t] = "counted" /\ obj' = obj
            /\ refcnt' = [refcnt EXCEPT ![obj[t]] = @ + 1]
        BY <2>0, <3>10 DEF LookupAddRef, AddRefTo
      <4>2. t \notin LateOn(inoCache) /\ (t \in LateOn(inoCache)' <=> obj[t] = inoCache)
        BY <4>1, <3>6
      <4>3. refcnt'[inoCache] = IF obj[t] = inoCache THEN refcnt[inoCache] + 1
                                                     ELSE refcnt[inoCache]
        BY <4>1, <3>1
      <4> QED
        BY <4>2, <4>3, <3>1, <3>7, <3>8, <3>9
    <3>11. CASE GetInodeRoot(t)
      <4>1. PICK x \in Objs : \/ refcnt' = refcnt
                              \/ x \in Fresh /\ refcnt' = [refcnt EXCEPT ![x] = 0]
        BY <3>11, BackendObject
      <4>2. refcnt'[inoCache] = refcnt[inoCache]
        BY <4>1, <3>1 DEF Fresh
      <4>3. t \notin LateOn(inoCache) /\ t \notin LateOn(inoCache)'
        BY <3>6, <3>11 DEF GetInodeRoot
      <4> QED
        BY <4>2, <4>3, <3>1, <3>7, <3>8, <3>9
    <3>12. CASE /\ pc[t] \notin LatePCs /\ pc'[t] \notin LatePCs
                /\ refcnt' = refcnt /\ inoCache' = inoCache
      <4>1. t \notin LateOn(inoCache) /\ t \notin LateOn(inoCache)'
        BY <3>6, <3>12
      <4> QED
        BY <4>1, <3>1, <3>7, <3>8, <3>9, <3>12
    <3> QED
      BY <3>2, <3>10, <3>11, <3>12
  <2> QED
    BY <2>1, <2>2
<1> QED
  BY <1>0, <1>a, NextIs

\* an object nobody refers to counts nothing, or less if it wrapped around
LEMMA FreshCount ==
    ASSUME TypeOK, LockInv, OwedInv, ~virtual, NEW o \in Fresh
    PROVE  o \in Objs /\ o # inoCache /\ Counted[o] <= 0
<1>1. o \in Objs /\ o # inoCache /\ \A t \in Threads : obj[t] # o
  BY DEF Fresh
<1>2. LateOn(o) = {}
  BY <1>1 DEF LateOn, Late
<1>3. Counted[o] <= Cardinality(LateOn(o))
  BY <1>1 DEF OwedInv
<1> QED
  BY <1>1, <1>2, <1>3, FS_EmptySet

(***************************************************************************)
(* No step takes a reference out of the counts that is still held, except  *)
(* that READDIRPLUS gives one out without counting it.                     *)
(***************************************************************************)
LEMMA LowerStep ==
    ASSUME TypeOK, TypeOK', LockInv, LockInv', OwedInv, LowerInv, Next
    PROVE  LowerInv'
<1> USE ObjsAssumption
<1>0. CASE ReadDirPlus
  <2>1. \A o \in Objs : Counted[o] \in Int
    BY CountedAre DEF CountedFacts
  <2>2. Net(Counted, Objs) \in Int
    BY <2>1, NetBound
  <2>3. Net(Counted', Objs) = Net(Counted, Objs)
    BY <1>0, HeldPlus
  <2> QED
    BY <1>0, <2>2, <2>3, HeldPlus DEF LowerInv
<1>a. ASSUME NEW t \in Threads, Step(t)
      PROVE  LowerInv'
  <2> SUFFICES ASSUME ~virtual' PROVE LowerInv'
    BY DEF LowerInv
  <2>0. ~virtual /\ plus' = plus /\ plus \in Nat
    BY <1>a, StepFrame DEF TypeOK
  <2>1. /\ Counted \in [Objs -> Int] /\ Counted' \in [Objs -> Int]
        /\ \/ LookupAddRef(t) \/ (AddMove(t) /\ obj[t] # inoCache)
           \/ RemoveDelRef(t) \/ GetInodeRoot(t) \/ Counted' = Counted
    BY <1>a, <2>0, CountedStep
  <2> DEFINE N == Net(Counted, Objs)
             M == Net(Counted', Objs)
  <2>2. N \in Int /\ M \in Int
    BY <2>1, NetBound
  <2>3. N + plus >= Held
    BY <2>0 DEF LowerInv
  <2>4. /\ Held \in Nat /\ Held' \in Nat
        /\ LookupAddRef(t) => Held' = Held + 1
        /\ pc[t] = "forget" => Held' = Held - v[t]
        /\ (~LookupAddRef(t) /\ pc[t] # "forget") => Held' = Held
    BY <1>a, <2>0, HeldStep
  <2>5. v[t] \in Int /\ (pc[t] = "forget" => v[t] > 0)
    BY DEF TypeOK, Forgetting
  <2> SUFFICES M + plus >= Held'
    BY <2>0 DEF LowerInv
  <2>6. CASE LookupAddRef(t)
    <3>1. /\ obj[t] \in Objs /\ \A x \in Objs \ {obj[t]} : Counted[x] = Counted'[x]
          /\ Counted'[obj[t]] = Counted[obj[t]] + 1
      BY <1>a, <2>0, <2>6, CountedStep
    <3>2. M = N - Counted[obj[t]] + Counted'[obj[t]]
      BY <2>1, <3>1, NetChange
    <3>3. Counted[obj[t]] \in Int
      BY <2>1, <3>1
    <3> HIDE DEF M, N
    <3> QED
      BY <2>0, <2>2, <2>3, <2>4, <2>6, <3>1, <3>2, <3>3
  <2>7. CASE RemoveDelRef(t)
    <3>1. /\ inoCache \in Objs /\ \A x \in Objs \ {inoCache} : Counted[x] = Counted'[x]
          /\ Counted'[inoCache] = Counted[inoCache] - v[t]
      BY <1>a, <2>0, <2>7, CountedStep
    <3>2. M = N - Counted[inoCache] + Counted'[inoCache]
      BY <2>1, <3>1, NetChange
    <3>3. Counted[inoCache] \in Int /\ pc[t] = "forget"
      BY <2>1, <2>7, <3>1 DEF RemoveDelRef
    <3> HIDE DEF M, N
    <3> QED
      BY <2>0, <2>2, <2>3, <2>4, <2>5, <3>1, <3>2, <3>3
  <2>8. CASE GetInodeRoot(t)
    <3>1. pc[t] = "miss" /\ ~LookupAddRef(t)
      BY <2>8 DEF GetInodeRoot, LookupAddRef
    <3>2. CASE Counted' = Counted
      BY <2>3, <2>4, <3>1, <3>2
    <3>3. ASSUME NEW o \in Fresh, \A x \in Objs \ {o} : Counted'[x] = Counted[x],
                 Counted'[o] = 0
          PROVE  M + plus >= Held'
      <4>1. o \in Objs /\ Counted[o] <= 0
        BY <2>0, FreshCount
      <4>2. \A x \in Objs \ {o} : Counted[x] = Counted'[x]
        BY <3>3
      <4>3. M = N - Counted[o] + Counted'[o]
        BY <2>1, <4>1, <4>2, NetChange
      <4>4. Counted[o] \in Int
        BY <2>1, <4>1
      <4> HIDE DEF M, N
      <4> QED
        BY <2>0, <2>2, <2>3, <2>4, <3>1, <3>3, <4>1, <4>3, <4>4
    <3> QED
      BY <1>a, <2>0, <2>8, <3>2, <3>3, CountedStep
  <2>9. CASE AddMove(t) /\ obj[t] # inoCache
    <3>1. /\ obj[t] \in Objs /\ inoCache \in Objs
          /\ \A x \in Objs \ {obj[t], inoCache} : Counted'[x] = Counted[x]
          /\ Counted'[inoCache] = Counted[inoCache] + v[t]
          /\ Counted'[obj[t]] = Counted[obj[t]] - v[t]
      BY <1>a, <2>0, <2>9, CountedStep
    <3> DEFINE g == [Counted EXCEPT ![inoCache] = @ + v[t]]
               K == Net(g, Objs)
    <3>2. /\ g \in [Objs -> Int] /\ g[inoCache] = Counted[inoCache] + v[t]
          /\ g[obj[t]] = Counted[obj[t]]
          /\ \A x \in Objs \ {inoCache} : Counted[x] = g[x]
          /\ \A x \in Objs \ {obj[t]} : g[x] = Counted'[x]
      BY <2>1, <2>5, <2>9, <3>1
    <3> HIDE DEF g
    <3>3. K \in Int /\ K = N - Counted[inoCache] + g[inoCache]
      BY <2>1, <3>1, <3>2, NetChange
    <3>4. M = K - g[obj[t]] + Counted'[obj[t]]
      BY <2>1, <3>1, <3>2, NetChange
    <3>5. Counted[inoCache] \in Int /\ Counted[obj[t]] \in Int
      BY <2>1, <3>1
    <3>6. pc[t] = "move" /\ ~LookupAddRef(t)
      BY <2>9 DEF AddMove, LookupAddRef
    <3> HIDE DEF M, N, K
    <3> QED
      BY <2>0, <2>2, <2>3, <2>4, <2>5, <3>1, <3>2, <3>3, <3>4, <3>5, <3>6
  <2>10. CASE Counted' = Counted /\ ~LookupAddRef(t)
    <3>1. M = N
      BY <2>10
    <3> HIDE DEF M, N
    <3> QED
      BY <2>0, <2>2, <2>3, <2>4, <2>5, <2>10, <3>1
  <2> QED
    BY <2>1, <2>6, <2>7, <2>8, <2>9, <2>10
<1> QED
  BY <1>0, <1>a, NextIs

(***************************************************************************)
(* No step adds to the counts more than is held.                           *)
(***************************************************************************)
LEMMA UpperStep ==
    ASSUME TypeOK, TypeOK', LockInv, LockInv', MoveInv, OwedInv, UpperInv, Next
    PROVE  UpperInv'
<1> USE ObjsAssumption
<1>0. CASE ReadDirPlus
  <2> SUFFICES ASSUME inoCache # NoObj, inoCache' = inoCache, Counted' = Counted
               PROVE  Counted[inoCache] + Total(Counted, Objs \ {inoCache}) <= Held'
    BY <1>0, HeldPlus DEF UpperInv
  <2>1. ~virtual
    BY <1>0, HeldPlus
  <2>2. /\ Counted[inoCache] \in Int
        /\ Total(Counted, Objs \ {inoCache}) \in Nat
    BY <2>1, Ledger DEF TypeOK
  <2>3. Counted[inoCache] + Total(Counted, Objs \ {inoCache}) <= Held
    BY <2>1 DEF UpperInv
  <2> QED
    BY <1>0, <2>2, <2>3, HeldPlus
<1>a. ASSUME NEW t \in Threads, Step(t)
      PROVE  UpperInv'
  <2> SUFFICES ASSUME ~virtual', inoCache' # NoObj
               PROVE  Counted'[inoCache'] + Total(Counted', Objs \ {inoCache'}) <= Held'
    BY DEF UpperInv
  <2>0. ~virtual /\ inoCache' \in Objs
    BY <1>a, StepFrame DEF TypeOK
  <2>1. /\ Counted \in [Objs -> Int] /\ Counted' \in [Objs -> Int]
        /\ \/ LookupAddRef(t) \/ (AddMove(t) /\ obj[t] # inoCache)
           \/ RemoveDelRef(t) \/ GetInodeRoot(t) \/ Counted' = Counted
    BY <1>a, <2>0, CountedStep
  <2>2. /\ Held \in Nat /\ Held' \in Nat
        /\ LookupAddRef(t) => Held' = Held + 1
        /\ pc[t] = "forget" => Held' = Held - v[t]
        /\ (~LookupAddRef(t) /\ pc[t] # "forget") => Held' = Held
    BY <1>a, <2>0, HeldStep
  <2>3. CASE AddNew(t)
    <3>1. /\ inoCache = NoObj /\ pc[t] = "counted" /\ inoCache' = obj[t]
      BY <2>3 DEF AddNew
    <3>2. Counted' = Counted /\ Held' = Held
      BY <2>1, <2>2, <3>1 DEF LookupAddRef, AddMove, RemoveDelRef, GetInodeRoot
    <3>3. Objs \ {inoCache} = Objs
      BY <3>1
    <3>4. Total(Counted, Objs) \in Nat /\ Total(Counted, Objs) <= Cardinality(Late)
      BY <2>0, <3>3, Ledger
    <3>5. Cardinality(Late) \in Nat /\ Cardinality(Late) <= Held
      BY HeldParts
    <3> DEFINE o == inoCache'
    <3>6. /\ o \in Objs /\ Counted[o] \in Int /\ \A x \in Objs : Counted[x] \in Int
      BY <2>0, <2>1
    <3> HIDE DEF o
    <3>7. /\ Total(Counted, Objs \ {o}) \in Nat
          /\ Total(Counted, Objs) = Total(Counted, Objs \ {o}) + Clip(Counted[o])
      BY <3>6, TotalSplit
    <3>8. Counted[o] + Total(Counted, Objs \ {o}) <= Held
      BY <2>2, <3>4, <3>5, <3>6, <3>7 DEF Clip
    <3> QED
      BY <3>2, <3>8 DEF o
  <2>4. CASE ~AddNew(t)
    <3>1. inoCache' = inoCache /\ inoCache \in Objs
      <4>1. inoCache' = inoCache \/ inoCache' = NoObj
        BY <1>a, <2>4 DEF Step, Arrive, LookupStep, LockStep, GetInodeCached, SendForget,
             GetInodeRoot, LookupAddRef, AddMove, AddMoved, FillAttr, Reply, RemoveEvict,
             AddFound, RemoveMissing, RemoveDelRef, Forgotten
      <4> QED
        BY <2>0, <4>1
    <3> DEFINE S == Objs \ {inoCache}
               R == Total(Counted, S)
               Q == Total(Counted', S)
    <3>2. IsFiniteSet(S) /\ S \subseteq Objs
      BY FS_Subset
    <3>3. R \in Nat /\ Q \in Nat
      <4> HIDE DEF S
      <4>1. \A x \in S : Counted[x] \in Int /\ Counted'[x] \in Int
        BY <2>1, <3>2
      <4> QED
        BY <3>2, <4>1, TotalType
    <3>4. Counted[inoCache] + R <= Held
      BY <2>0, <3>1, ObjsAssumption DEF UpperInv
    <3>5. Counted[inoCache] \in Int /\ Counted'[inoCache] \in Int /\ v[t] \in Int
      BY <2>1, <3>1 DEF TypeOK
    <3> SUFFICES Counted'[inoCache] + Q <= Held'
      BY <3>1
    <3>6. ASSUME \A x \in S : Counted'[x] = Counted[x]
          PROVE  Q = R
      <4> HIDE DEF S
      <4> QED
        BY <3>6, TotalSame
    <3>7. ASSUME NEW o \in S, \A x \in S \ {o} : Counted'[x] = Counted[x]
          PROVE  /\ Q = R - Clip(Counted[o]) + Clip(Counted'[o])
                 /\ Counted[o] \in Int /\ Counted'[o] \in Int
      <4>1. \A x \in S : Counted[x] \in Int /\ Counted'[x] \in Int
        BY <2>1, <3>2
      <4>2. \A x \in S \ {o} : Counted[x] = Counted'[x]
        BY <3>7
      <4> HIDE DEF S
      <4> QED
        BY <3>2, <4>1, <4>2, TotalChange
    <3>8. CASE LookupAddRef(t)
      <4>1. /\ obj[t] \in Objs /\ \A x \in Objs \ {obj[t]} : Counted'[x] = Counted[x]
            /\ Counted'[obj[t]] = Counted[obj[t]] + 1
        BY <1>a, <2>0, <3>8, CountedStep
      <4>2. CASE obj[t] = inoCache
        <5>1. Q = R
          BY <3>6, <4>1, <4>2
        <5> HIDE DEF Q, R, S
        <5> QED
          BY <2>2, <3>3, <3>4, <3>5, <3>8, <4>1, <4>2, <5>1
      <4>3. CASE obj[t] # inoCache
        <5>1. obj[t] \in S /\ Counted'[inoCache] = Counted[inoCache]
          BY <3>1, <4>1, <4>3
        <5>2. /\ Q = R - Clip(Counted[obj[t]]) + Clip(Counted'[obj[t]])
              /\ Counted[obj[t]] \in Int
          BY <3>7, <4>1, <5>1
        <5> HIDE DEF Q, R, S
        <5> QED
          BY <2>2, <3>3, <3>4, <3>5, <3>8, <4>1, <5>1, <5>2 DEF Clip
      <4> QED
        BY <4>2, <4>3
    <3>9. CASE RemoveDelRef(t)
      <4>1. /\ \A x \in Objs \ {inoCache} : Counted'[x] = Counted[x]
            /\ Counted'[inoCache] = Counted[inoCache] - v[t]
        BY <1>a, <2>0, <3>9, CountedStep
      <4>2. Q = R
        BY <3>6, <4>1
      <4>3. pc[t] = "forget"
        BY <3>9 DEF RemoveDelRef
      <4> HIDE DEF Q, R, S
      <4> QED
        BY <2>2, <3>3, <3>4, <3>5, <4>1, <4>2, <4>3
    <3>10. CASE GetInodeRoot(t)
      <4>1. Held' = Held
        BY <2>2, <3>10 DEF GetInodeRoot, LookupAddRef
      <4>2. CASE Counted' = Counted
        BY <3>4, <4>1, <4>2
      <4>3. ASSUME NEW o \in Fresh, \A x \in Objs \ {o} : Counted'[x] = Counted[x],
                   Counted'[o] = 0
            PROVE  Counted'[inoCache] + Q <= Held'
        <5>1. o \in Objs /\ o # inoCache /\ Counted[o] <= 0
          BY <2>0, FreshCount
        <5>2. o \in S /\ Counted'[inoCache] = Counted[inoCache]
          BY <3>1, <4>3, <5>1
        <5>3. Q = R - Clip(Counted[o]) + Clip(Counted'[o]) /\ Counted[o] \in Int
          BY <3>7, <4>3, <5>2
        <5> HIDE DEF Q, R, S
        <5> QED
          BY <2>2, <3>3, <3>4, <3>5, <4>1, <4>3, <5>1, <5>2, <5>3 DEF Clip
      <4> QED
        BY <1>a, <2>0, <3>10, <4>2, <4>3, CountedStep
    <3>11. CASE AddMove(t) /\ obj[t] # inoCache
      <4>1. /\ obj[t] \in Objs
            /\ \A x \in Objs \ {obj[t], inoCache} : Counted'[x] = Counted[x]
            /\ Counted'[inoCache] = Counted[inoCache] + v[t]
            /\ Counted'[obj[t]] = Counted[obj[t]] - v[t]
            /\ Counted[obj[t]] = refcnt[obj[t]]
        BY <1>a, <2>0, <3>11, CountedStep
      <4>2. pc[t] = "move" /\ Held' = Held
        BY <2>2, <3>11 DEF AddMove, LookupAddRef
      <4>3. Counted[obj[t]] - v[t] >= 0
        BY <2>0, <3>11, <4>1, <4>2 DEF MoveInv
      <4>4. obj[t] \in S
        BY <3>11, <4>1
      <4>5. /\ Q = R - Clip(Counted[obj[t]]) + Clip(Counted'[obj[t]])
            /\ Counted[obj[t]] \in Int
        BY <3>7, <4>1, <4>4
      <4> HIDE DEF Q, R, S
      <4> QED
        BY <2>2, <3>3, <3>4, <3>5, <4>1, <4>2, <4>3, <4>5 DEF Clip
    <3>12. CASE Counted' = Counted /\ ~LookupAddRef(t)
      <4>1. pc[t] = "forget" => RemoveDelRef(t) \/ RemoveMissing(t)
        BY <1>a DEF Step, Arrive, LookupStep, LockStep, GetInodeCached, SendForget,
             GetInodeRoot, LookupAddRef, AddMove, AddMoved, FillAttr, Reply, RemoveEvict,
             AddNew, AddFound
      <4>2. ~RemoveMissing(t)
        BY <3>1, ObjsAssumption DEF RemoveMissing
      <4>3. CASE pc[t] # "forget"
        BY <2>2, <3>4, <3>12, <4>3
      <4> QED
        BY <3>9, <4>1, <4>2, <4>3
    <3> QED
      BY <2>1, <3>8, <3>9, <3>10, <3>11, <3>12
  <2> QED
    BY <2>3, <2>4
<1> QED
  BY <1>0, <1>a, NextIs

\* an entry is put in the table, or left there, for somebody who holds it
LEMMA EntryStep ==
    ASSUME TypeOK, TypeOK', LockInv, LockInv', OwedInv, EvictInv, UpperInv, HeldInv, Next
    PROVE  HeldInv'
<1> USE ObjsAssumption
<1>0. CASE ReadDirPlus
  BY <1>0, HeldPlus DEF HeldInv
<1>a. ASSUME NEW t \in Threads, Step(t)
      PROVE  HeldInv'
  <2> SUFFICES ASSUME ~virtual', inoCache' # NoObj
               PROVE  Held' > 0 \/ \E u \in Threads : pc'[u] = "evict"
    BY DEF HeldInv
  <2>0. /\ \A w \in Threads \ {t} : pc'[w] = pc[w] /\ v'[w] = v[w] /\ obj'[w] = obj[w]
        /\ ~virtual
    BY <1>a, StepFrame
  <2>1. /\ Held \in Nat /\ Held' \in Nat
        /\ LookupAddRef(t) => Held' = Held + 1
        /\ (~LookupAddRef(t) /\ pc[t] # "forget") => Held' = Held
    BY <1>a, <2>0, HeldStep
  <2>2. \A u \in Threads : pc'[u] \in PendingPCs => Held' > 0
    <3>1. PendingHeld'
      BY PendingIsHeld, PTL
    <3> QED
      BY <3>1 DEF PendingHeld, Pending, PendingPCs, LatePCs
  <2> USE DEF TypeOK, LockInv, Goto
  <2>3. CASE RemoveDelRef(t)
    BY <2>3 DEF RemoveDelRef
  <2>4. CASE RemoveEvict(t)
    <3>1. /\ v[t] > 0 /\ inoCache' = inoCache /\ inoCache \in Objs
          /\ v[t] <= refcnt[inoCache] /\ v[t] \in Int /\ refcnt[inoCache] \in Int
          /\ pc[t] = "evict"
      BY <2>0, <2>4 DEF RemoveEvict, EvictInv, Evictable
    <3>2. \A u \in Threads : pc[u] # "moved"
      BY <3>1
    <3>3. Counted = refcnt
      BY <3>2, CountedAre DEF CountedFacts
    <3>4. refcnt[inoCache] + Total(Counted, Objs \ {inoCache}) <= Held
      BY <2>0, <3>1, <3>3 DEF UpperInv
    <3>5. Total(Counted, Objs \ {inoCache}) \in Nat
      BY <2>0, Ledger
    <3>6. Held' = Held
      BY <2>1, <3>1 DEF LookupAddRef
    <3> QED
      BY <2>1, <3>1, <3>4, <3>5, <3>6
  <2>5. CASE AddNew(t)
    BY <2>2, <2>5 DEF AddNew, PendingPCs
  <2>6. CASE RemoveMissing(t)
    BY <2>6 DEF RemoveMissing
  <2>7. CASE ~(RemoveDelRef(t) \/ RemoveEvict(t) \/ AddNew(t) \/ RemoveMissing(t))
    <3>1. /\ inoCache' = inoCache /\ pc[t] # "forget" /\ pc[t] # "evict"
      BY <1>a, <2>7 DEF Step, Arrive, LookupStep, LockStep, GetInodeCached, SendForget,
           GetInodeRoot, LookupAddRef, AddMove, AddMoved, FillAttr, Reply, AddFound
    <3>2. Held' >= Held
      BY <2>1, <3>1
    <3>3. Held > 0 \/ \E u \in Threads : pc[u] = "evict"
      BY <2>0, <3>1 DEF HeldInv
    <3> QED
      BY <2>0, <2>1, <3>1, <3>2, <3>3
  <2> QED
    BY <2>3, <2>4, <2>5, <2>6, <2>7
<1> QED
  BY <1>0, <1>a, NextIs

LEMMA VirtualStep ==
    ASSUME TypeOK, TypeOK', LockInv, VirtualInv, Next
    PROVE  VirtualInv'
<1> USE ObjsAssumption
<1>0. CASE ReadDirPlus
  BY <1>0, HeldPlus DEF VirtualInv
<1>a. ASSUME NEW t \in Threads, Step(t)
      PROVE  VirtualInv'
  <2>0. /\ \A w \in Threads \ {t} : pc'[w] = pc[w] /\ v'[w] = v[w] /\ obj'[w] = obj[w]
        /\ virtual' = virtual
    BY <1>a, StepFrame
  <2> SUFFICES ASSUME virtual, virtual' PROVE VirtualInv'
    BY <2>0 DEF VirtualInv
  <2> DEFINE Busy == {"move", "moved", "fill", "reply", "forget", "evict"}
  <2> USE DEF TypeOK, LockInv, Goto
  <2>1. ASSUME NEW u \in Threads, pc'[u] = "evict"
        PROVE  v'[u] = 0
    BY <1>a, <2>0, <2>1 DEF VirtualInv, Step, Arrive, LookupStep, LockStep, GetInodeCached,
         SendForget, GetInodeRoot, LookupAddRef, AddMove, AddMoved, FillAttr, Reply,
         RemoveEvict, AddNew, AddFound, RemoveMissing, RemoveDelRef, DelRefResult, Forgotten
  <2>2. \/ inoCache' = NoObj \/ kernel' > 0
        \/ \E u \in Threads : pc'[u] \in Busy
    <3>1. CASE pc'[t] \in Busy
      BY <3>1
    <3>2. CASE pc'[t] \notin Busy
      <4>1. CASE RemoveEvict(t)
        BY <4>1 DEF RemoveEvict, VirtualInv, Evictable
      <4>2. CASE Reply(t)
        BY <4>2 DEF Reply
      <4>3. CASE RemoveMissing(t)
        BY <4>3 DEF RemoveMissing
      <4>4. CASE GetInodeCached(t) \/ GetInodeRoot(t) \/ LookupAddRef(t)
        <5>1. /\ inoCache' = inoCache /\ kernel' = kernel
              /\ \A w \in Threads : pc[w] \in Busy => pc'[w] = pc[w]
          BY <2>0, <4>4 DEF GetInodeCached, GetInodeRoot, LookupAddRef
        <5> QED
          BY <5>1 DEF VirtualInv
      <4>5. CASE FillAttr(t)
        BY <3>2, <4>5 DEF FillAttr
      <4> QED
        BY <1>a, <3>2, <4>1, <4>2, <4>3, <4>4, <4>5 DEF Step, Arrive, LookupStep, LockStep,
           SendForget, AddMove, AddMoved, AddNew, AddFound, RemoveDelRef
    <3> QED
      BY <3>1, <3>2
  <2> QED
    BY <2>1, <2>2 DEF VirtualInv
<1> QED
  BY <1>0, <1>a, NextIs

----------------------------------------------------------------------------
(* The invariant and what it implies.                                      *)

LEMMA CacheInit == Init => CacheInv
<1> SUFFICES ASSUME Init PROVE CacheInv
  OBVIOUS
<1> USE ObjsAssumption DEF Init
<1>1. Objs # {}
  BY FS_EmptySet, FS_CardinalityType
<1>2. TypeOK
  BY <1>1 DEF TypeOK, PCs, Forgetting
<1>3. LockInv /\ MoveInv /\ EvictInv /\ UpperInv /\ HeldInv /\ VirtualInv
  BY DEF LockInv, MoveInv, EvictInv, UpperInv, HeldInv, VirtualInv
<1>4. \A o \in Objs : Counted[o] = 0
  BY DEF Counted
<1>5. ASSUME NEW o \in Objs
      PROVE  Counted[o] <= Cardinality(LateOn(o))
  <2>1. LateOn(o) = {}
    BY DEF LateOn, Late, LatePCs
  <2> QED
    BY <1>4, <2>1, FS_EmptySet
<1>6. LowerInv
  <2> DEFINE a == [x \in Objs |-> 0 - Counted[x]]
  <2>1. \A x \in Objs : a[x] = 0
    BY <1>4
  <2>2. Net(Counted, Objs) = Total(Counted, Objs) - Total(a, Objs)
    BY DEF Net
  <2> HIDE DEF a
  <2>3. Units(Counted, Objs) = {} /\ Units(a, Objs) = {}
    BY <1>4, <2>1 DEF Units
  <2>4. Pending = {} /\ Forgetting = {} /\ Units(v, {}) = {}
    BY DEF Pending, Forgetting, Units
  <2> QED
    BY <2>2, <2>3, <2>4, FS_EmptySet DEF LowerInv, Held, Total
<1> QED
  BY <1>2, <1>3, <1>5, <1>6 DEF CacheInv, OwedInv

LEMMA CacheStep == CacheInv /\ [Next]_vars => CacheInv'
<1>1. ASSUME CacheInv, Next
      PROVE  CacheInv'
  <2> USE <1>1
  <2> USE DEF CacheInv
  <2>1. TypeOK' /\ LockInv'
    BY TypesStep
  <2>2. MoveInv' /\ OwedInv' /\ EvictInv' /\ VirtualInv'
    BY <2>1, MoveStep, OwedStep, EvictStep, VirtualStep
  <2>3. LowerInv' /\ UpperInv' /\ HeldInv'
    BY <2>1, LowerStep, UpperStep, EntryStep
  <2> QED
    BY <2>1, <2>2, <2>3
<1>2. ASSUME CacheInv, UNCHANGED vars
      PROVE  CacheInv'
  <2>1. UNCHANGED <<inoCache, inoCacheL, refcnt, kernel, leaked, plus, virtual, root, pc, obj, v>>
    BY <1>2 DEF vars, inode
  <2>2. Counted' = Counted /\ Late' = Late /\ Forgetting' = Forgetting /\ Pending' = Pending
    BY <2>1 DEF Counted, Late, Forgetting, Pending
  <2>3. Held' = Held
    BY <2>1, <2>2 DEF Held
  <2>4. TypeOK' /\ LockInv' /\ HeldInv' /\ VirtualInv'
    BY <1>2, <2>1, <2>2, <2>3 DEF CacheInv, TypeOK, LockInv, HeldInv, VirtualInv
  <2>5. MoveInv' /\ OwedInv' /\ EvictInv'
    BY <1>2, <2>1, <2>2 DEF CacheInv, MoveInv, OwedInv, EvictInv, LateOn
  <2>6. LowerInv' /\ UpperInv'
    BY <1>2, <2>1, <2>2, <2>3 DEF CacheInv, LowerInv, UpperInv
  <2> QED
    BY <2>4, <2>5, <2>6 DEF CacheInv
<1> QED
  BY <1>1, <1>2

LEMMA CacheInvariant == Spec => []CacheInv
  BY CacheInit, CacheStep, PTL DEF Spec

(***************************************************************************)
(* The counts of the inode objects, moved between objects by addToCache    *)
(* and changed by lookups and forgets in any order, miss no more of what   *)
(* is held than READDIRPLUS gave out uncounted, and never exceed it.       *)
(***************************************************************************)
THEOREM ReferencesConserved == Spec => []RefConservation
<1> USE ObjsAssumption
<1>1. ASSUME CacheInv, ~virtual
      PROVE  Total(Counted, Objs) <= Held
  <2>1. /\ Counted \in [Objs -> Int]
        /\ Total(Counted, Objs \ {inoCache}) \in Nat
        /\ Total(Counted, Objs \ {inoCache}) <= Cardinality(Late)
    BY <1>1, Ledger DEF CacheInv
  <2>2. Held \in Nat /\ Cardinality(Late) \in Nat /\ Cardinality(Late) <= Held
    BY <1>1, HeldParts DEF CacheInv
  <2>3. CASE inoCache = NoObj
    <3>1. Objs \ {inoCache} = Objs
      BY <2>3
    <3> QED
      BY <2>1, <2>2, <3>1
  <2>4. CASE inoCache # NoObj
    <3>1. inoCache \in Objs
      BY <1>1, <2>4 DEF CacheInv, TypeOK
    <3>2. Counted[inoCache] \in Int
      BY <2>1, <3>1
    <3>3. Total(Counted, Objs) = Total(Counted, Objs \ {inoCache}) + Clip(Counted[inoCache])
      BY <2>1, <3>1, TotalSplit
    <3>4. Counted[inoCache] + Total(Counted, Objs \ {inoCache}) <= Held
      BY <1>1, <2>4 DEF CacheInv, UpperInv
    <3> QED
      BY <2>1, <2>2, <3>2, <3>3, <3>4 DEF Clip
  <2> QED
    BY <2>3, <2>4
<1>2. CacheInv => RefConservation
  BY <1>1 DEF CacheInv, LowerInv, RefConservation
<1> QED
  BY <1>2, CacheInvariant, PTL

(***************************************************************************)
(* What the kernel holds beyond READDIRPLUS references is in the table and *)
(* counted there: removeFromCache never evicts it, also when the forget    *)
(* gives back references that were not counted.                            *)
(***************************************************************************)
THEOREM HeldInodesAreCached == Spec => []KernelHeldIsCached
<1> USE ObjsAssumption
<1>1. ASSUME CacheInv, ~virtual, kernel > plus
      PROVE  inoCache # NoObj /\ Counted[inoCache] >= kernel - plus
  <2>1. /\ Counted \in [Objs -> Int]
        /\ Total(Counted, Objs \ {inoCache}) \in Nat
        /\ Total(Counted, Objs \ {inoCache}) <= Cardinality(Late)
    BY <1>1, Ledger DEF CacheInv
  <2>2. /\ Held \in Nat /\ Cardinality(Late) \in Nat
        /\ kernel <= Held - Cardinality(Late)
    BY <1>1, HeldParts DEF CacheInv
  <2>3. Net(Counted, Objs) + plus >= Held
    BY <1>1 DEF CacheInv, LowerInv
  <2>4. /\ Net(Counted, Objs) \in Int /\ Net(Counted, Objs) <= Total(Counted, Objs)
        /\ \A x \in Objs : Net(Counted, Objs) <= Counted[x] + Total(Counted, Objs \ {x})
    BY <2>1, NetBound
  <2>5. kernel \in Nat /\ plus \in Nat /\ inoCache \in Objs \cup {NoObj}
    BY <1>1 DEF CacheInv, TypeOK
  <2>6. inoCache # NoObj
    <3> SUFFICES ASSUME inoCache = NoObj PROVE FALSE
      OBVIOUS
    <3>1. Objs \ {inoCache} = Objs
      OBVIOUS
    <3> QED
      BY <1>1, <2>1, <2>2, <2>3, <2>4, <2>5, <3>1
  <2>7. Counted[inoCache] \in Int
    BY <2>1, <2>5, <2>6
  <2>8. Net(Counted, Objs) <= Counted[inoCache] + Total(Counted, Objs \ {inoCache})
    BY <2>4, <2>5, <2>6
  <2> QED
    BY <2>1, <2>2, <2>3, <2>4, <2>5, <2>6, <2>7, <2>8
<1>2. CacheInv => KernelHeldIsCached
  BY <1>1 DEF KernelHeldIsCached
<1> QED
  BY <1>2, CacheInvariant, PTL

(***************************************************************************)
(* When the kernel has given everything back, removeFromCache has emptied  *)
(* the table, whatever READDIRPLUS made of the counts.                     *)
(***************************************************************************)
THEOREM TableEmpties == Spec => []NoResidue
<1>1. ASSUME CacheInv, kernel = 0, leaked = 0, \A t \in Threads : pc[t] = "idle"
      PROVE  inoCache = NoObj
  <2>1. CASE virtual
    BY <1>1, <2>1 DEF CacheInv, VirtualInv
  <2>2. CASE ~virtual
    <3>1. Pending = {} /\ Forgetting = {} /\ Units(v, {}) = {}
      BY <1>1 DEF Pending, Forgetting, Units
    <3>2. Held = 0
      BY <1>1, <3>1, FS_EmptySet DEF Held, Total
    <3> QED
      BY <1>1, <2>2, <3>2 DEF CacheInv, HeldInv
  <2> QED
    BY <2>1, <2>2
<1>2. CacheInv => NoResidue
  BY <1>1 DEF NoResidue
<1> QED
  BY <1>2, CacheInvariant, PTL
=============================================================================
