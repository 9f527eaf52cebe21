--------------------------- MODULE DbLife_proofs ---------------------------
(***************************************************************************)
(* Proofs about DbLife, for any number of databases, callers, channels and *)
(* versions.                                                               *)
(*                                                                         *)
(* A DB object belongs to nobody, to the caller of SubGet that creates it, *)
(* to the entry of Main.sub that names it, or to its thread alone, once    *)
(* Close has told it to end.  Only who holds subLk moves one from one      *)
(* owner to the next.                                                      *)
(***************************************************************************)
EXTENDS DbLife, TLAPS

\* inside the part of SubGet that runs with subLk held
Locked(t) == pc[t] \in {"open", "create", "insert"}

\* a caller that holds the lock has no entry for its pair, and the database it
\* creates is its own: in use, not closed and not entered anywhere
CallerInv ==
    \A t \in Threads :
        /\ pc[t] # "idle" => want[t] \in Pairs
        /\ Locked(t) => sub[want[t]] = None
        /\ pc[t] \in {"create", "insert"} <=> new[t] # None
        /\ new[t] # None =>
             /\ stage[new[t]] \in {"opened", "loaded", "fetch", "write", "index", "leaked"}
             /\ ~done[new[t]]
             /\ pair[new[t]] = want[t]
             /\ \A p \in Pairs : sub[p] # new[t]
        /\ pc[t] = "insert" => stage[new[t]] \in {"opened", "loaded"}

\* what is entered is the open database of its pair, and has a thread
EntryInv ==
    \A p \in Pairs : sub[p] # None =>
        /\ pair[sub[p]] = p
        /\ ~done[sub[p]]
        /\ stage[sub[p]] \in {"fetch", "write", "index", "select"}

\* Main has a channel once SetChannel was called, and a call that is not over
\* carries that one; a database about to be entered has it unless such a call
\* will still reach it
ChannelInv ==
    /\ setting # None => channel[Main] = setting
    /\ setting = None =>
         \A t \in Threads : pc[t] = "insert" => channel[new[t]] = channel[Main]
    /\ ChannelAgrees

\* a database in use has a file, only Main has that of Main, and a free object
\* is not closed
FileInv ==
    \A o \in DB : IF stage[o] = "free" THEN o \in Objs /\ ~done[o]
                  ELSE pair[o] \in Files /\ (o \in Objs => pair[o] \in Pairs)

LifeInv == TypeOK /\ FileInv /\ CallerInv /\ EntryInv /\ NoOrphanDb /\ ChannelInv
----------------------------------------------------------------------------
(* Operators.                                                              *)

\* 0 is a version of every file, and a version that may be published is one
LEMMA VersionFacts ==
    /\ 0 \in Versions
    /\ \A p \in Files, i \in Versions : i < MaxVersion[p] => i + 1 \in Versions
<1>1. MainPair \in Files /\ MaxVersion[MainPair] \in Nat \ {0}
  BY LifeAssumption DEF Files
<1>2. 0 \in 0 .. MaxVersion[MainPair]
  BY <1>1
<1>3. 0 \in Versions
  BY <1>1, <1>2 DEF Versions
<1>4. ASSUME NEW p \in Files, NEW i \in Versions, i < MaxVersion[p]
      PROVE  i + 1 \in Versions
  <2>1. PICK q \in Files : i \in 0 .. MaxVersion[q]
    BY DEF Versions
  <2>2. MaxVersion[p] \in Nat /\ MaxVersion[q] \in Nat
    BY LifeAssumption
  <2>3. i + 1 \in 0 .. MaxVersion[p]
    BY <1>4, <2>1, <2>2
  <2> QED  BY <2>3 DEF Versions
<1> QED  BY <1>3, <1>4

\* an object is created by nobody exactly if no caller has it
LEMMA NoCreator ==
    ASSUME NEW o
    PROVE  Creator(o) = {} <=> \A t \in Threads : new[t] # o
BY DEF Creator

----------------------------------------------------------------------------
(* The initial state.                                                      *)

LEMMA LifeInitially == Init => LifeInv
<1> SUFFICES ASSUME Init PROVE LifeInv
  OBVIOUS
<1>1. TypeOK
  <2>1. /\ stage \in [DB -> Stages] /\ pair \in [DB -> Files \cup {None}]
        /\ handle \in [DB -> {None, "shared", "exclusive"}]
        /\ channel \in [DB -> Channels \cup {None}]
    BY DEF Init, DB, Files, Stages
  <2>2. done \in [DB -> BOOLEAN]
    BY DEF Init
  <2>3. target \in [DB -> Versions]
    BY VersionFacts DEF Init
  <2>4. file \in [Files -> Versions \cup {None}] /\ published \in [Files -> Versions]
    <3>1. 1 \in Versions
      <4>1. MainPair \in Files /\ MaxVersion[MainPair] \in Nat \ {0}
        BY LifeAssumption DEF Files
      <4> QED  BY <4>1, VersionFacts
    <3> QED  BY <3>1, VersionFacts DEF Init
  <2>5. /\ sub \in [Pairs -> Objs \cup {None}] /\ subLk \in Threads \cup {Closer, None}
        /\ pc \in [Threads -> {"idle", "lock", "open", "create", "insert"}]
        /\ new \in [Threads -> Objs \cup {None}] /\ want \in [Threads -> Pairs \cup {None}]
        /\ setting \in Channels \cup {None} /\ closing \in {"no", "subs", "main", "done"}
    BY DEF Init
  <2>6. \A t \in Threads : pc[t] \in {"open", "create", "insert"} <=> subLk = t
    BY LifeAssumption DEF Init
  <2>7. (closing = "subs") = (subLk = Closer)
    BY LifeAssumption DEF Init
  <2> QED  BY <2>1, <2>2, <2>3, <2>4, <2>5, <2>6, <2>7 DEF TypeOK
<1>2. CallerInv /\ EntryInv
  BY DEF Init, CallerInv, EntryInv, Locked
<1>3. NoOrphanDb
  BY LifeAssumption DEF Init, NoOrphanDb, DB
<1>4. ChannelInv
  BY DEF Init, ChannelInv, ChannelAgrees
<1>5. FileInv
  BY LifeAssumption DEF Init, FileInv, Files, DB
<1> QED  BY <1>1, <1>2, <1>3, <1>4, <1>5 DEF LifeInv

----------------------------------------------------------------------------
(* The steps of an update and of a thread.                                 *)

\* the steps that a database makes by itself
ThreadStep(o) == Succeed(o) \/ Fail(o) \/ Tick(o) \/ ThreadEnds(o)

\* one step moves one object, on behalf of its creator or of its thread; it
\* says nothing of owners and channels
Moves(o, s) ==
    /\ stage' = [stage EXCEPT ![o] = s]
    /\ UNCHANGED <<pair, channel, done, sub, subLk, callers, published>>
    /\ stage[o] \in {"fetch", "write", "index", "select"}
    /\ IF Creator(o) = {}
         THEN \/ s \in {"fetch", "write", "index", "select"}
              \/ s = "ended" /\ done[o]
         ELSE s \in {"fetch", "write", "index", "loaded", "leaked"}

LEMMA ThreadMoves ==
    ASSUME LifeInv, NEW o \in DB, ThreadStep(o)
    PROVE  \E s \in Stages : Moves(o, s)
<1> USE DEF Goto, AfterUpdate, Stages, objects
<1>0. stage \in [DB -> Stages] /\ stage = [stage EXCEPT ![o] = stage[o]]
  BY DEF LifeInv, TypeOK
<1>1. stage[o] = "select" => Creator(o) = {}
  <2> SUFFICES ASSUME stage[o] = "select", NEW t \in Threads, new[t] = o PROVE FALSE
    BY NoCreator
  <2>1. new[t] # None
    BY LifeAssumption DEF DB
  <2> QED  BY <2>1 DEF LifeInv, CallerInv
<1>2. CASE FetchSame(o)
  BY <1>0, <1>2 DEF FetchSame, Moves
<1>3. CASE FetchNew(o)
  BY <1>0, <1>3 DEF FetchNew, Moves
<1>4. CASE FetchFails(o)
  BY <1>0, <1>4 DEF FetchFails, Moves
<1>5. CASE WriteClose(o)
  BY <1>0, <1>5 DEF WriteClose, Moves
<1>6. CASE WriteStart(o)
  BY <1>0, <1>6 DEF WriteStart, Moves
<1>7. CASE WriteFails(o)
  BY <1>0, <1>7 DEF WriteFails, Moves
<1>8. CASE Index(o)
  BY <1>0, <1>8 DEF Index, Moves
<1>9. CASE ReopenFails(o)
  BY <1>0, <1>9 DEF ReopenFails, Moves
<1>10. CASE IndexFails(o)
  BY <1>0, <1>10 DEF IndexFails, Moves
<1>11. CASE Tick(o)
  BY <1>0, <1>1, <1>11 DEF Tick, Moves
<1>12. CASE ThreadEnds(o)
  BY <1>0, <1>1, <1>12 DEF ThreadEnds, Moves
<1> QED
  BY <1>2, <1>3, <1>4, <1>5, <1>6, <1>7, <1>8, <1>9, <1>10, <1>11, <1>12
     DEF ThreadStep, Succeed, Fail

\* the variables such a step writes besides
LEMMA ThreadTypes ==
    ASSUME LifeInv, NEW o \in DB, ThreadStep(o)
    PROVE  TypeOK'
<1> USE DEF Goto
<1>1. PICK s \in Stages : Moves(o, s)
  BY ThreadMoves
<1>2. stage' \in [DB -> Stages]
  BY <1>1 DEF Moves, LifeInv, TypeOK
<1>3. handle' \in [DB -> {None, "shared", "exclusive"}]
  BY DEF LifeInv, TypeOK, ThreadStep, Succeed, Fail, FetchSame, FetchNew, FetchFails,
         WriteClose, WriteStart, WriteFails, Index, ReopenFails, IndexFails, Tick,
         ThreadEnds
<1>4. target' \in [DB -> Versions]
  <2>1. CASE FetchNew(o)
    <3>1. published[pair[o]] \in Versions
      BY <2>1 DEF LifeInv, TypeOK, FileInv, FetchNew
    <3> QED  BY <2>1, <3>1 DEF FetchNew, LifeInv, TypeOK
  <2>2. CASE ~FetchNew(o)
    BY <2>2, VersionFacts
       DEF LifeInv, TypeOK, ThreadStep, Succeed, Fail, FetchSame, FetchFails,
           WriteClose, WriteStart, WriteFails, Index, ReopenFails, IndexFails, Tick,
           ThreadEnds
  <2> QED  BY <2>1, <2>2
<1>5. file' \in [Files -> Versions \cup {None}]
  BY DEF LifeInv, TypeOK, ThreadStep, Succeed, Fail, FetchSame, FetchNew, FetchFails,
         WriteClose, WriteStart, WriteFails, Index, ReopenFails, IndexFails, Tick,
         ThreadEnds
<1> QED  BY <1>1, <1>2, <1>3, <1>4, <1>5 DEF Moves, LifeInv, TypeOK, callers

\* no owner changes: the object keeps a stage its owner allows
LEMMA ThreadPreserves ==
    ASSUME LifeInv, NEW o \in DB, ThreadStep(o)
    PROVE  LifeInv'
<1>1. PICK s \in Stages : Moves(o, s)
  BY ThreadMoves
<1>2. /\ UNCHANGED <<pair, channel, done, sub, subLk, pc, new, want, setting>>
      /\ stage' = [stage EXCEPT ![o] = s] /\ stage \in [DB -> Stages]
  BY <1>1 DEF Moves, callers, LifeInv, TypeOK
<1>3. \A x \in DB : stage'[x] = IF x = o THEN s ELSE stage[x]
  BY <1>2
<1>4. \A x : Creator(x)' = Creator(x)
  BY <1>2 DEF Creator
<1>5. FileInv'
  BY <1>1, <1>2, <1>3 DEF LifeInv, FileInv, Moves
<1>6. CallerInv'
  <2> SUFFICES ASSUME NEW t \in Threads, new[t] # None
               PROVE  /\ stage'[new[t]] \in {"opened", "loaded", "fetch", "write", "index",
                                              "leaked"}
                      /\ pc[t] = "insert" => stage'[new[t]] \in {"opened", "loaded"}
    BY <1>2 DEF LifeInv, CallerInv, Locked
  <2>1. new[t] \in DB
    BY DEF LifeInv, TypeOK, DB
  <2>2. CASE new[t] = o
    <3>1. Creator(o) # {}
      BY <2>2, NoCreator
    <3> QED  BY <1>1, <1>3, <2>1, <2>2, <3>1 DEF Moves, LifeInv, CallerInv
  <2>3. CASE new[t] # o
    BY <1>3, <2>1, <2>3 DEF LifeInv, CallerInv
  <2> QED  BY <2>2, <2>3
<1>7. EntryInv'
  <2> SUFFICES ASSUME NEW p \in Pairs, sub[p] # None
               PROVE  stage'[sub[p]] \in {"fetch", "write", "index", "select"}
    BY <1>2 DEF LifeInv, EntryInv
  <2>1. sub[p] \in DB
    BY DEF LifeInv, TypeOK, DB
  <2>2. CASE sub[p] = o
    <3>1. Creator(o) = {}
      BY <2>2, NoCreator DEF LifeInv, CallerInv
    <3> QED  BY <1>1, <1>3, <2>1, <2>2, <3>1 DEF Moves, LifeInv, EntryInv
  <2>3. CASE sub[p] # o
    BY <1>3, <2>1, <2>3 DEF LifeInv, EntryInv
  <2> QED  BY <2>2, <2>3
<1>8. NoOrphanDb'
  <2> SUFFICES ASSUME NEW x \in Objs, stage'[x] \notin {"free", "leaked"},
                      Creator(x) = {}, ~done[x]
               PROVE  sub[pair[x]] = x
    BY <1>2, <1>4 DEF NoOrphanDb
  <2>1. stage[x] \notin {"free", "leaked"}
    BY <1>1, <1>3 DEF Moves, DB
  <2> QED  BY <2>1 DEF LifeInv, NoOrphanDb
<1>9. ChannelInv'
  BY <1>2 DEF LifeInv, ChannelInv, ChannelAgrees
<1> QED  BY <1>5, <1>6, <1>7, <1>8, <1>9, ThreadTypes DEF LifeInv

\* Update asks the thread of Main for what its ticker does
LEMMA UpdatePreserves ==
    ASSUME LifeInv, Update
    PROVE  LifeInv'
<1>1. Main \in DB /\ Tick(Main)
  BY DEF Update, Tick, DB
<1> QED  BY <1>1, ThreadPreserves DEF ThreadStep

LEMMA PublishPreserves ==
    ASSUME LifeInv, NEW p \in Files, Publish(p)
    PROVE  LifeInv'
<1>1. published' \in [Files -> Versions]
  BY VersionFacts DEF LifeInv, TypeOK, Publish
<1>2. TypeOK'
  BY <1>1 DEF LifeInv, TypeOK, Publish, objects, callers
<1>3. FileInv' /\ CallerInv' /\ EntryInv' /\ NoOrphanDb' /\ ChannelInv'
  BY DEF LifeInv, FileInv, CallerInv, Locked, EntryInv, NoOrphanDb, Creator, ChannelInv,
         ChannelAgrees, Publish, objects, callers
<1> QED  BY <1>2, <1>3 DEF LifeInv

\* what is collected has no owner
LEMMA CollectPreserves ==
    ASSUME LifeInv, NEW o \in DB, Collect(o)
    PROVE  LifeInv'
<1> USE DEF callers
<1>1. TypeOK'
  <2>1. done' \in [DB -> BOOLEAN]
    BY DEF LifeInv, TypeOK, Collect
  <2>2. target' \in [DB -> Versions]
    BY VersionFacts DEF LifeInv, TypeOK, Collect
  <2> QED  BY <2>1, <2>2 DEF LifeInv, TypeOK, Collect, Stages
<1>2. \A x \in DB : x # o => /\ stage'[x] = stage[x] /\ pair'[x] = pair[x]
                            /\ channel'[x] = channel[x] /\ done'[x] = done[x]
  BY DEF LifeInv, TypeOK, Collect
<1>3. stage'[o] = "free" /\ o # Main
  BY DEF LifeInv, TypeOK, Collect
<1>4. \A t \in Threads : new[t] # o
  <2> SUFFICES ASSUME NEW t \in Threads, new[t] = o PROVE FALSE
    OBVIOUS
  <2>1. new[t] # None
    BY LifeAssumption DEF DB
  <2> QED  BY <2>1, NoCreator DEF LifeInv, CallerInv, Collect
<1>5. \A p \in Pairs : sub[p] # o
  <2> SUFFICES ASSUME NEW p \in Pairs, sub[p] = o PROVE FALSE
    OBVIOUS
  <2>1. sub[p] # None
    BY LifeAssumption DEF DB
  <2> QED  BY <2>1 DEF LifeInv, EntryInv, Collect
<1>6. \A t \in Threads : new[t] # None => new[t] \in DB
  BY DEF LifeInv, TypeOK, DB
<1>7. \A p \in Pairs : sub[p] # None => sub[p] \in DB
  BY DEF LifeInv, TypeOK, DB
<1>8. UNCHANGED <<sub, pc, new, want, setting>>
  BY DEF Collect
<1>9. FileInv'
  <2>1. ~done'[o] /\ o \in Objs
    BY DEF LifeInv, TypeOK, Collect, DB
  <2> QED  BY <1>2, <1>3, <2>1 DEF LifeInv, FileInv
<1>10. CallerInv'
  BY <1>2, <1>4, <1>6, <1>8 DEF LifeInv, CallerInv, Locked
<1>11. EntryInv'
  BY <1>2, <1>5, <1>7, <1>8 DEF LifeInv, EntryInv
<1>12. NoOrphanDb'
  BY <1>2, <1>3, <1>8 DEF LifeInv, NoOrphanDb, Creator, DB
<1>13. ChannelInv'
  <2>1. channel'[Main] = channel[Main]
    BY <1>2, <1>3 DEF DB
  <2>2. \A t \in Threads : pc[t] = "insert" => channel'[new[t]] = channel[new[t]]
    BY <1>2, <1>4, <1>6 DEF LifeInv, CallerInv
  <2>3. \A p \in Pairs : sub[p] # None => channel'[sub[p]] = channel[sub[p]]
    BY <1>2, <1>5, <1>7
  <2> QED  BY <1>8, <2>1, <2>2, <2>3 DEF LifeInv, ChannelInv, ChannelAgrees
<1> QED  BY <1>1, <1>9, <1>10, <1>11, <1>12, <1>13 DEF LifeInv

----------------------------------------------------------------------------
(* SubGet.                                                                 *)

\* a caller that leaves the locked part, or that waits for the lock, changes
\* nothing of the objects but whose they are
LEMMA CallPreserves ==
    ASSUME LifeInv, NEW t \in Threads, NEW p \in Pairs, Call(t, p)
    PROVE  LifeInv'
<1> USE DEF objects
<1>1. TypeOK'
  BY LifeAssumption DEF LifeInv, TypeOK, Call
<1>2. /\ UNCHANGED <<stage, pair, channel, done, sub, new, setting>>
      /\ \A x \in Threads : x # t => pc'[x] = pc[x] /\ want'[x] = want[x]
      /\ pc[t] = "idle" /\ pc'[t] = "lock" /\ want'[t] = p
  BY DEF LifeInv, TypeOK, Call
<1>3. CallerInv'
  BY <1>2 DEF LifeInv, CallerInv, Locked
<1>4. FileInv' /\ EntryInv' /\ NoOrphanDb' /\ ChannelInv'
  BY <1>2 DEF LifeInv, FileInv, EntryInv, NoOrphanDb, Creator, ChannelInv, ChannelAgrees
<1> QED  BY <1>1, <1>3, <1>4 DEF LifeInv

LEMMA LockPreserves ==
    ASSUME LifeInv, NEW t \in Threads, Lock(t)
    PROVE  LifeInv'
<1> USE DEF objects
<1>1. TypeOK'
  BY LifeAssumption DEF LifeInv, TypeOK, Lock, Return
<1>2. /\ UNCHANGED <<stage, pair, channel, done, sub, setting>>
      /\ \A x \in Threads : x # t => pc'[x] = pc[x] /\ want'[x] = want[x]
      /\ pc[t] = "lock" /\ new[t] = None
      /\ \/ pc'[t] = "idle"
         \/ pc'[t] = "open" /\ want'[t] = want[t] /\ sub[want[t]] = None
  BY DEF LifeInv, TypeOK, CallerInv, Lock, Return
<1>3. new' = new
  BY <1>2 DEF LifeInv, TypeOK, Lock, Return
<1>4. CallerInv'
  BY <1>2, <1>3 DEF LifeInv, CallerInv, Locked
<1>5. FileInv' /\ EntryInv' /\ NoOrphanDb' /\ ChannelInv'
  BY <1>2, <1>3
     DEF LifeInv, FileInv, EntryInv, NoOrphanDb, Creator, ChannelInv, ChannelAgrees
<1> QED  BY <1>1, <1>4, <1>5 DEF LifeInv

LEMMA OpenFailsPreserves ==
    ASSUME LifeInv, NEW t \in Threads, OpenFails(t)
    PROVE  LifeInv'
<1> USE DEF objects
<1>1. TypeOK'
  BY LifeAssumption DEF LifeInv, TypeOK, OpenFails, Return
<1>2. /\ UNCHANGED <<stage, pair, channel, done, sub, setting>>
      /\ \A x \in Threads : x # t => pc'[x] = pc[x] /\ want'[x] = want[x]
      /\ pc'[t] = "idle" /\ new[t] = None /\ pc[t] = "open"
  BY DEF LifeInv, TypeOK, CallerInv, OpenFails, Return
<1>3. new' = new
  BY <1>2 DEF LifeInv, TypeOK, OpenFails, Return
<1>4. CallerInv'
  BY <1>2, <1>3 DEF LifeInv, CallerInv, Locked
<1>5. FileInv' /\ EntryInv' /\ NoOrphanDb' /\ ChannelInv'
  BY <1>2, <1>3
     DEF LifeInv, FileInv, EntryInv, NoOrphanDb, Creator, ChannelInv, ChannelAgrees
<1> QED  BY <1>1, <1>4, <1>5 DEF LifeInv

\* the database that is dropped is "leaked"
LEMMA CreateFailsPreserves ==
    ASSUME LifeInv, NEW t \in Threads, CreateFails(t)
    PROVE  LifeInv'
<1> USE DEF objects
<1>1. TypeOK'
  BY LifeAssumption DEF LifeInv, TypeOK, CreateFails, Return
<1>2. /\ UNCHANGED <<stage, pair, channel, done, sub, setting>>
      /\ \A x \in Threads : x # t => /\ pc'[x] = pc[x] /\ want'[x] = want[x]
                                     /\ new'[x] = new[x]
      /\ pc'[t] = "idle" /\ new'[t] = None /\ stage[new[t]] = "leaked"
  BY DEF LifeInv, TypeOK, CreateFails, Return
<1>3. CallerInv'
  BY <1>2 DEF LifeInv, CallerInv, Locked
<1>4. NoOrphanDb'
  <2> SUFFICES ASSUME NEW o \in Objs, stage[o] \notin {"free", "leaked"},
                      Creator(o)' = {}, ~done[o]
               PROVE  sub[pair[o]] = o
    BY <1>2 DEF NoOrphanDb
  <2>1. \A x \in Threads : new'[x] # o
    BY DEF Creator
  <2>2. \A x \in Threads : new[x] # o
    BY <1>2, <2>1
  <2> QED  BY <2>2, NoCreator DEF LifeInv, NoOrphanDb
<1>5. FileInv' /\ EntryInv' /\ ChannelInv'
  BY <1>2 DEF LifeInv, FileInv, EntryInv, ChannelInv, ChannelAgrees
<1> QED  BY <1>1, <1>3, <1>4, <1>5 DEF LifeInv

\* a free object has no owner, so the caller is its only one
LEMMA OpenPreserves ==
    ASSUME LifeInv, NEW t \in Threads, Open(t)
    PROVE  LifeInv'
<1> DEFINE p == want[t]
           o == CHOOSE x \in {x \in Objs : stage[x] = "free"} : TRUE
<1>1. o \in Objs /\ stage[o] = "free" /\ o \in DB /\ o # None /\ o # Main
  BY LifeAssumption DEF Open, DB
<1>2. pc[t] = "open" /\ p \in Pairs /\ p \in Files /\ new[t] = None
  BY DEF Open, LifeInv, CallerInv, Files
<1>3. /\ new' = [new EXCEPT ![t] = o]
      /\ pair' = [pair EXCEPT ![o] = p]
      /\ pc' = [pc EXCEPT ![t] = "create"]
      /\ UNCHANGED <<channel, done, target, sub, subLk, want, setting, closing, published>>
      /\ \E s \in {"fetch", "opened"} : stage' = [stage EXCEPT ![o] = s]
      /\ \E h \in {"shared", "exclusive"} : handle' = [handle EXCEPT ![o] = h]
      /\ file' \in {file, [file EXCEPT ![p] = 0]}
  <2>1. file' \in {file, [file EXCEPT ![p] = 0]}
    BY <1>2 DEF Open, LifeInv, TypeOK
  <2> QED  BY <2>1 DEF Open, Goto
<1> HIDE DEF o, p
<1>4. \A x \in DB : x # o => stage'[x] = stage[x] /\ pair'[x] = pair[x]
  BY <1>3 DEF LifeInv, TypeOK
<1>5. stage'[o] \in {"fetch", "opened"} /\ pair'[o] = p
  BY <1>1, <1>3 DEF LifeInv, TypeOK
<1>6. /\ \A x \in Threads : x # t => pc'[x] = pc[x] /\ new'[x] = new[x]
      /\ pc'[t] = "create" /\ new'[t] = o
  BY <1>3 DEF LifeInv, TypeOK
<1>7. /\ \A x \in Threads : new[x] # o
      /\ \A q \in Pairs : sub[q] # o
  BY <1>1 DEF LifeInv, CallerInv, EntryInv
<1>8. TypeOK'
  <2>1. file' \in [Files -> Versions \cup {None}]
    BY <1>2, <1>3, VersionFacts DEF LifeInv, TypeOK
  <2>2. stage' \in [DB -> Stages] /\ handle' \in [DB -> {None, "shared", "exclusive"}]
    BY <1>1, <1>3 DEF LifeInv, TypeOK, Stages
  <2>3. new' \in [Threads -> Objs \cup {None}] /\ pair' \in [DB -> Files \cup {None}]
    BY <1>1, <1>2, <1>3 DEF LifeInv, TypeOK
  <2>4. /\ pc' \in [Threads -> {"idle", "lock", "open", "create", "insert"}]
        /\ \A x \in Threads : pc'[x] \in {"open", "create", "insert"} <=> subLk = x
    BY <1>2, <1>3, <1>6 DEF LifeInv, TypeOK
  <2> QED  BY <1>3, <2>1, <2>2, <2>3, <2>4 DEF LifeInv, TypeOK
<1>9. FileInv'
  <2>1. stage'[o] # "free" /\ pair'[o] \in Files /\ pair'[o] \in Pairs
    BY <1>2, <1>5
  <2> QED  BY <1>3, <1>4, <2>1 DEF LifeInv, FileInv
<1>10. CallerInv'
  <2> SUFFICES ASSUME NEW x \in Threads
               PROVE  CallerInv!(x)'
    BY DEF CallerInv
  <2>1. ~done[o]
    BY <1>1 DEF LifeInv, FileInv
  <2>2. CASE x = t
    BY <1>1, <1>2, <1>3, <1>5, <1>6, <1>7, <2>1, <2>2 DEF LifeInv, CallerInv, Locked, p
  <2>3. CASE x # t
    <3>1. new[x] # None => new[x] \in DB /\ new[x] # o
      BY <1>7 DEF LifeInv, TypeOK, DB
    <3> QED  BY <1>3, <1>4, <1>6, <2>3, <3>1 DEF LifeInv, CallerInv, Locked
  <2> QED  BY <2>2, <2>3
<1>11. EntryInv'
  <2>1. \A q \in Pairs : sub[q] # None => sub[q] \in DB /\ sub[q] # o
    BY <1>7 DEF LifeInv, TypeOK, DB
  <2> QED  BY <1>3, <1>4, <2>1 DEF LifeInv, EntryInv
<1>12. NoOrphanDb'
  <2> SUFFICES ASSUME NEW x \in Objs, stage'[x] \notin {"free", "leaked"},
                      Creator(x)' = {}, ~done[x]
               PROVE  sub[pair'[x]] = x
    BY <1>3 DEF NoOrphanDb
  <2>1. x # o
    BY <1>6 DEF Creator
  <2>2. stage'[x] = stage[x] /\ pair'[x] = pair[x]
    BY <1>4, <2>1 DEF DB
  <2>3. Creator(x) = {}
    BY <1>6, <1>2, LifeAssumption DEF Creator, DB
  <2> QED  BY <2>2, <2>3 DEF LifeInv, NoOrphanDb
<1>13. ChannelInv'
  BY <1>3, <1>6 DEF LifeInv, ChannelInv, ChannelAgrees
<1> QED  BY <1>8, <1>9, <1>10, <1>11, <1>12, <1>13 DEF LifeInv

\* from here on the database has the channel of Main
LEMMA CreatedPreserves ==
    ASSUME LifeInv, NEW t \in Threads, Created(t)
    PROVE  LifeInv'
<1>1. new[t] \in DB /\ new[t] # Main /\ new[t] # None
  BY LifeAssumption DEF LifeInv, TypeOK, CallerInv, Created, DB
<1>2. /\ UNCHANGED <<stage, pair, done, sub, new, want, setting>>
      /\ \A x \in Threads : x # t => pc'[x] = pc[x]
      /\ pc[t] = "create" /\ pc'[t] = "insert"
      /\ \A x \in DB : channel'[x] = IF x = new[t] THEN channel[Main] ELSE channel[x]
  BY <1>1 DEF LifeInv, TypeOK, Created
<1>3. TypeOK'
  <2>1. channel' \in [DB -> Channels \cup {None}]
    BY DEF LifeInv, TypeOK, Created, DB
  <2> QED  BY <1>2, <2>1 DEF LifeInv, TypeOK, Created
<1>4. CallerInv'
  BY <1>1, <1>2 DEF LifeInv, CallerInv, Locked, Created
<1>5. FileInv' /\ EntryInv' /\ NoOrphanDb'
  BY <1>2 DEF LifeInv, FileInv, EntryInv, NoOrphanDb, Creator
<1>6. ChannelInv'
  <2>1. channel'[Main] = channel[Main] /\ channel'[new[t]] = channel[Main]
    BY <1>1, <1>2 DEF DB
  <2>2. \A x \in Threads : x # t => pc[x] # "insert"
    BY <1>2 DEF LifeInv, TypeOK
  <2>3. \A q \in Pairs : sub[q] # None => channel'[sub[q]] = channel[sub[q]]
    BY <1>1, <1>2 DEF LifeInv, TypeOK, CallerInv, DB
  <2> QED  BY <1>2, <2>1, <2>2, <2>3 DEF LifeInv, ChannelInv, ChannelAgrees
<1> QED  BY <1>3, <1>4, <1>5, <1>6 DEF LifeInv

\* the entry becomes the owner
LEMMA InsertPreserves ==
    ASSUME LifeInv, NEW t \in Threads, Insert(t)
    PROVE  LifeInv'
<1> DEFINE o == new[t]
           p == want[t]
<1>1. /\ o \in Objs /\ o \in DB /\ o # Main /\ o # None /\ p \in Pairs
      /\ pc[t] = "insert" /\ sub[p] = None /\ pair[o] = p /\ ~done[o]
      /\ \A q \in Pairs : sub[q] # o
  BY LifeAssumption DEF LifeInv, TypeOK, CallerInv, Locked, Insert, DB
<1>2. /\ UNCHANGED <<pair, channel, done, setting>>
      /\ \A x \in Threads : x # t => /\ pc'[x] = pc[x] /\ want'[x] = want[x]
                                     /\ new'[x] = new[x]
      /\ pc'[t] = "idle" /\ new'[t] = None
      /\ \A q \in Pairs : sub'[q] = IF q = p THEN o ELSE sub[q]
      /\ \A x \in DB : x # o => stage'[x] = stage[x]
      /\ stage'[o] \in {"fetch", "select"}
  BY <1>1 DEF LifeInv, TypeOK, Insert, Return, Goto
<1>3. TypeOK'
  <2>1. stage' \in [DB -> Stages] /\ sub' \in [Pairs -> Objs \cup {None}]
    BY <1>1 DEF LifeInv, TypeOK, Insert, Goto, Stages
  <2>2. /\ pc' \in [Threads -> {"idle", "lock", "open", "create", "insert"}]
        /\ new' \in [Threads -> Objs \cup {None}]
        /\ want' \in [Threads -> Pairs \cup {None}]
    BY DEF LifeInv, TypeOK, Insert, Return
  <2>3. /\ \A x \in Threads : pc'[x] \in {"open", "create", "insert"} <=> subLk' = x
        /\ (closing' = "subs") = (subLk' = Closer)
        /\ subLk' = None
    BY <1>1, <1>2, LifeAssumption DEF LifeInv, TypeOK, Insert
  <2> QED  BY <2>1, <2>2, <2>3 DEF LifeInv, TypeOK, Insert
<1> HIDE DEF o, p
<1>4. \A x \in Threads : x # t => ~Locked(x) /\ new[x] = None
  BY <1>1 DEF LifeInv, TypeOK, CallerInv, Locked
<1>5. FileInv'
  BY <1>1, <1>2 DEF LifeInv, FileInv, Files
<1>6. CallerInv'
  BY <1>2, <1>4 DEF LifeInv, CallerInv, Locked
<1>7. EntryInv'
  <2> SUFFICES ASSUME NEW q \in Pairs, sub'[q] # None
               PROVE  /\ pair'[sub'[q]] = q /\ ~done'[sub'[q]]
                      /\ stage'[sub'[q]] \in {"fetch", "write", "index", "select"}
    BY DEF EntryInv
  <2>1. CASE q = p
    BY <1>1, <1>2, <2>1
  <2>2. CASE q # p
    <3>1. sub'[q] = sub[q] /\ sub[q] \in DB /\ sub[q] # o
      BY <1>1, <1>2, <2>2 DEF LifeInv, TypeOK, DB
    <3> QED  BY <1>2, <3>1 DEF LifeInv, EntryInv
  <2> QED  BY <2>1, <2>2
<1>8. NoOrphanDb'
  <2> SUFFICES ASSUME NEW x \in Objs, stage'[x] \notin {"free", "leaked"},
                      Creator(x)' = {}, ~done[x]
               PROVE  sub'[pair[x]] = x
    BY <1>2 DEF NoOrphanDb
  <2>1. CASE x = o
    BY <1>1, <1>2, <2>1
  <2>2. CASE x # o
    <3>1. x # None /\ x \in DB
      BY LifeAssumption DEF DB
    <3>2. Creator(x) = {}
      BY <1>4, <2>2, <3>1, NoCreator DEF o
    <3>3. sub[pair[x]] = x
      BY <1>2, <2>2, <3>1, <3>2 DEF LifeInv, NoOrphanDb
    <3>4. pair[x] # p
      BY <1>1, <3>1, <3>3
    <3>5. pair[x] \in Pairs
      BY <1>2, <2>2, <3>1 DEF LifeInv, FileInv
    <3> QED  BY <1>2, <3>3, <3>4, <3>5
  <2> QED  BY <2>1, <2>2
<1>9. ChannelInv'
  <2>1. setting = None => channel[o] = channel[Main]
    BY <1>1 DEF LifeInv, ChannelInv, o
  <2> QED  BY <1>2, <1>4, <2>1 DEF LifeInv, ChannelInv, ChannelAgrees, Locked
<1> QED  BY <1>3, <1>5, <1>6, <1>7, <1>8, <1>9 DEF LifeInv

----------------------------------------------------------------------------
(* SetChannel.                                                             *)

LEMMA SetChannelPreserves ==
    ASSUME LifeInv, NEW c \in Channels, SetChannel(c)
    PROVE  LifeInv'
<1>1. TypeOK'
  BY DEF LifeInv, TypeOK, SetChannel
<1>2. FileInv' /\ CallerInv' /\ EntryInv' /\ NoOrphanDb'
  BY DEF LifeInv, FileInv, CallerInv, Locked, EntryInv, NoOrphanDb, Creator, SetChannel
<1>3. channel'[Main] = setting' /\ setting' # None
  BY LifeAssumption DEF LifeInv, TypeOK, SetChannel, DB
<1>4. ChannelInv'
  BY <1>3 DEF ChannelInv, ChannelAgrees
<1> QED  BY <1>1, <1>2, <1>4 DEF LifeInv

\* with the lock free no database is about to be entered
LEMMA SetSubChannelsPreserves ==
    ASSUME LifeInv, SetSubChannels
    PROVE  LifeInv'
<1> USE DEF SetSubChannels, CarryChannel
<1>1. TypeOK'
  BY DEF LifeInv, TypeOK
<1>2. FileInv' /\ CallerInv' /\ EntryInv' /\ NoOrphanDb'
  BY DEF LifeInv, FileInv, CallerInv, Locked, EntryInv, NoOrphanDb, Creator
<1>3. channel'[Main] = setting
  BY LifeAssumption DEF LifeInv, TypeOK, ChannelInv, DB
<1>4. \A p \in Pairs : sub[p] # None => channel'[sub[p]] = setting
  BY DEF LifeInv, TypeOK, DB
<1>5. \A t \in Threads : pc[t] # "insert"
  BY LifeAssumption DEF LifeInv, TypeOK
<1>6. ChannelInv'
  BY <1>3, <1>4, <1>5 DEF ChannelInv, ChannelAgrees
<1> QED  BY <1>1, <1>2, <1>6 DEF LifeInv

----------------------------------------------------------------------------
(* Close.                                                                  *)

\* taking and releasing the lock
LEMMA ClosePreserves ==
    ASSUME LifeInv, Close \/ ClosedSubs
    PROVE  LifeInv'
<1>1. TypeOK'
  BY LifeAssumption DEF LifeInv, TypeOK, Close, ClosedSubs, objects
<1>2. FileInv' /\ CallerInv' /\ EntryInv' /\ NoOrphanDb' /\ ChannelInv'
  BY DEF LifeInv, FileInv, CallerInv, Locked, EntryInv, NoOrphanDb, Creator, ChannelInv,
         ChannelAgrees, Close, ClosedSubs, objects
<1> QED  BY <1>1, <1>2 DEF LifeInv

\* a database that loses its entry is closed in the same step
LEMMA CloseSubPreserves ==
    ASSUME LifeInv, NEW p \in Pairs, CloseSub(p)
    PROVE  LifeInv'
<1> DEFINE o == sub[p]
<1> USE DEF callers
<1>1. o \in Objs /\ o \in DB /\ o # None /\ pair[o] = p /\ stage[o] # "free"
  BY LifeAssumption DEF LifeInv, TypeOK, EntryInv, CloseSub, DB
<1>2. /\ UNCHANGED <<stage, pair, channel, pc, new, want, setting>>
      /\ \A q \in Pairs : sub'[q] = IF q = p THEN None ELSE sub[q]
      /\ \A x \in DB : done'[x] = IF x = o THEN TRUE ELSE done[x]
  BY <1>1 DEF LifeInv, TypeOK, CloseSub, CloseDb
<1>3. TypeOK'
  <2>1. done' \in [DB -> BOOLEAN]
    BY DEF LifeInv, TypeOK, CloseSub, CloseDb
  <2> QED  BY <2>1 DEF LifeInv, TypeOK, CloseSub, CloseDb
<1> HIDE DEF o
<1>4. \A t \in Threads : ~Locked(t) /\ new[t] = None
  BY LifeAssumption DEF LifeInv, TypeOK, CallerInv, Locked, CloseSub
<1>5. FileInv'
  BY <1>1, <1>2 DEF LifeInv, FileInv
<1>6. CallerInv'
  BY <1>2, <1>4 DEF LifeInv, CallerInv, Locked
<1>7. EntryInv'
  <2>1. \A q \in Pairs : q # p /\ sub[q] # None => sub[q] \in DB /\ sub[q] # o
    BY <1>1 DEF LifeInv, TypeOK, EntryInv, DB
  <2>2. \A q \in Pairs : sub[q] # None =>
           pair[sub[q]] = q /\ ~done[sub[q]]
             /\ stage[sub[q]] \in {"fetch", "write", "index", "select"}
    BY DEF LifeInv, EntryInv
  <2>3. \A q \in Pairs : sub'[q] # None => q # p /\ sub'[q] = sub[q]
    BY <1>2
  <2>4. \A q \in Pairs : sub'[q] # None => done'[sub'[q]] = done[sub[q]]
    BY <1>2, <2>1, <2>3
  <2> QED  BY <1>2, <2>2, <2>3, <2>4 DEF EntryInv
<1>8. NoOrphanDb'
  <2> SUFFICES ASSUME NEW x \in Objs, stage[x] \notin {"free", "leaked"},
                      Creator(x)' = {}, ~done'[x]
               PROVE  sub'[pair[x]] = x
    BY <1>2 DEF NoOrphanDb
  <2>1. x # o /\ ~done[x]
    BY <1>1, <1>2 DEF DB
  <2>2. sub[pair[x]] = x /\ pair[x] \in Pairs
    BY <1>2, <2>1 DEF LifeInv, NoOrphanDb, FileInv, Creator, DB
  <2>3. pair[x] # p
    BY <2>1, <2>2 DEF o
  <2> QED  BY <1>2, <2>2, <2>3
<1>9. ChannelInv'
  BY <1>2 DEF LifeInv, ChannelInv, ChannelAgrees
<1> QED  BY <1>3, <1>5, <1>6, <1>7, <1>8, <1>9 DEF LifeInv

\* Main is nobody's object
LEMMA CloseMainPreserves ==
    ASSUME LifeInv, CloseMain
    PROVE  LifeInv'
<1>1. /\ UNCHANGED <<stage, pair, channel, sub, pc, new, want, setting>>
      /\ \A x \in Objs : done'[x] = done[x]
  BY LifeAssumption DEF LifeInv, TypeOK, CloseMain, CloseDb, DB
<1>2. TypeOK'
  <2>1. done' \in [DB -> BOOLEAN]
    BY DEF LifeInv, TypeOK, CloseMain, CloseDb
  <2>2. closing' = "done" /\ subLk # Closer
    BY DEF LifeInv, TypeOK, CloseMain
  <2> QED  BY <2>1, <2>2 DEF LifeInv, TypeOK, CloseMain, CloseDb
<1>3. FileInv'
  BY <1>1 DEF LifeInv, FileInv
<1>4. CallerInv' /\ EntryInv'
  BY <1>1 DEF LifeInv, TypeOK, CallerInv, Locked, EntryInv
<1>5. NoOrphanDb'
  BY <1>1 DEF LifeInv, NoOrphanDb, Creator
<1>6. ChannelInv'
  BY <1>1 DEF LifeInv, ChannelInv, ChannelAgrees
<1> QED  BY <1>2, <1>3, <1>4, <1>5, <1>6 DEF LifeInv

----------------------------------------------------------------------------
(* The theorems.                                                           *)

LEMMA LifeInductive == LifeInv /\ [Next]_vars => LifeInv'
<1> SUFFICES ASSUME LifeInv, [Next]_vars PROVE LifeInv'
  OBVIOUS
<1>1. ASSUME NEW o \in DB, Succeed(o) \/ Fail(o) \/ Tick(o) \/ ThreadEnds(o)
      PROVE  LifeInv'
  BY <1>1, ThreadPreserves DEF ThreadStep
<1>2. ASSUME NEW t \in Threads, SubGet(t) \/ OpenFails(t)
      PROVE  LifeInv'
  BY <1>2, LockPreserves, OpenPreserves, CreateFailsPreserves, CreatedPreserves,
     InsertPreserves, OpenFailsPreserves DEF SubGet
<1>3. CASE Close \/ CloseStep
  BY <1>3, ClosePreserves, CloseSubPreserves, CloseMainPreserves DEF CloseStep
<1>4. CASE UNCHANGED vars
  BY <1>4 DEF LifeInv, TypeOK, FileInv, CallerInv, Locked, EntryInv, NoOrphanDb, Creator,
              ChannelInv, ChannelAgrees, vars, objects, callers
<1> QED
  BY <1>1, <1>2, <1>3, <1>4, PublishPreserves, CollectPreserves, UpdatePreserves,
     CallPreserves, SetChannelPreserves, SetSubChannelsPreserves DEF Next

LEMMA LifeInvariant == Spec => []LifeInv
BY LifeInitially, LifeInductive, PTL DEF Spec

(***************************************************************************)
(* The variables of the databases keep their types, and subLk has one      *)
(* owner: the caller of SubGet in its locked part, or Close in its first.  *)
(***************************************************************************)
THEOREM LifeTypes == Spec => []TypeOK
<1>1. LifeInv => TypeOK
  BY DEF LifeInv
<1> QED  BY <1>1, LifeInvariant, PTL

(***************************************************************************)
(* However many callers miss a database at the same time, only the one     *)
(* that is entered in Main.sub keeps a thread: the others find it under    *)
(* the lock, and one whose creation fails starts none.                     *)
(***************************************************************************)
THEOREM NoDbIsOrphaned == Spec => []NoOrphanDb
<1>1. LifeInv => NoOrphanDb
  BY DEF LifeInv
<1> QED  BY <1>1, LifeInvariant, PTL

(***************************************************************************)
(* The channel a database copies before it is entered and the one          *)
(* SetChannel carries to those that are entered do not miss each other.    *)
(***************************************************************************)
THEOREM ChannelsAgree == Spec => []ChannelAgrees
<1>1. LifeInv => ChannelAgrees
  BY DEF LifeInv, ChannelInv
<1> QED  BY <1>1, LifeInvariant, PTL

============================================================================
