------------------------------- MODULE DbLife -------------------------------
(***************************************************************************)
(* The life of databases (apkgdb/db.go, sub.go, write.go, updateThread and *)
(* Update of update.go): SubGet creates the database of another system on  *)
(* the first lookup that names it, with subLk held through a download;     *)
(* SetChannel and Close go over the sub-databases; each database has a     *)
(* thread that updates it.                                                 *)
(*                                                                         *)
(* A database is a file that bbolt locks: shared by a reader, exclusively  *)
(* by a writer and by whoever creates it, and waited for without a limit.  *)
(* A database that nothing refers to any more keeps its lock until the     *)
(* garbage collector closes the file.  What an update writes is the        *)
(* subject of DbSync, what is read of it of Resolve.                       *)
(***************************************************************************)
EXTENDS Naturals, FiniteSets

CONSTANTS
    Main,           \* the DB of the system apkg runs on
    Objs,           \* other DB objects there is room for
    Pairs,          \* the ArchOS of sub-databases
    MainPair,       \* that of Main
    Threads,        \* callers of SubGet
    Closer,         \* the caller of Close
    Channels,       \* release channels
    MaxVersion,     \* bound on the versions published, for each file
    None

DB == {Main} \cup Objs
Files == {MainPair} \cup Pairs

ASSUME LifeAssumption ==
    /\ Main \notin Objs /\ MainPair \notin Pairs
    /\ Closer \notin Threads /\ None \notin DB \cup Files \cup Threads \cup {Closer}
    /\ MaxVersion \in [Files -> Nat \ {0}]
    /\ None \notin Channels

VARIABLES
    stage,      \* what its thread, or SubGet before there is one, does
    pair,       \* the file of a DB
    handle,     \* dbptr: the lock it has on the file
    channel,    \* DB.channel
    done,       \* DB.done is closed
    target,     \* the version it downloads
    sub,        \* Main.sub
    subLk,      \* who holds it for writing
    pc, new,    \* SubGet: where a caller is and the DB it creates
    want,       \* and the pair it was called with
    setting,    \* the channel a call of SetChannel carries to the subs
    closing,    \* where Close is
    file,       \* version in each file, None if there is no file, 0 if empty
    published   \* version on the server, 0 for "NEW"

objects == <<stage, pair, handle, channel, done, target>>
callers == <<pc, new, want, setting, closing>>
vars == <<objects, sub, subLk, callers, file, published>>

Stages == {"free", "opened", "loaded", "fetch", "write", "index", "select", "ended", "leaked"}
Versions == UNION {0 .. MaxVersion[p] : p \in Files}

Init ==
    /\ stage = [o \in DB |-> IF o = Main THEN "fetch" ELSE "free"]
    /\ pair = [o \in DB |-> IF o = Main THEN MainPair ELSE None]
    /\ handle = [o \in DB |-> IF o = Main THEN "shared" ELSE None]
    /\ channel = [o \in DB |-> None]
    /\ done = [o \in DB |-> FALSE]
    /\ target = [o \in DB |-> 0]
    /\ sub = [p \in Pairs |-> None]
    /\ subLk = None
    /\ pc = [t \in Threads |-> "idle"]
    /\ new = [t \in Threads |-> None]
    /\ want = [t \in Threads |-> None]
    /\ setting = None
    /\ closing = "no"
    /\ file = [p \in Files |-> IF p = MainPair THEN 1 ELSE None]
    /\ published = [p \in Files |-> IF p = MainPair THEN 1 ELSE 0]

----------------------------------------------------------------------------
(* Files.                                                                  *)

LockedBy(p, o, kinds) == \E x \in DB \ {o} : pair[x] = p /\ handle[x] \in kinds
CanShare(p, o) == ~LockedBy(p, o, {"exclusive"})
CanWrite(p, o) == ~LockedBy(p, o, {"exclusive", "shared"})

\* the database has a new version, also before anyone uses it
Publish(p) ==
    /\ published[p] < MaxVersion[p]
    /\ published' = [published EXCEPT ![p] = @ + 1]
    /\ UNCHANGED <<objects, sub, subLk, callers, file>>

\* who runs NewOsArch for a database
Creator(o) == {t \in Threads : new[t] = o}

\* nothing refers to a database whose creation failed, and to one that was
\* closed and whose thread has ended
Collect(o) ==
    /\ o # Main
    /\ \/ stage[o] = "leaked" /\ Creator(o) = {}
       \/ stage[o] = "ended" /\ done[o]
    /\ stage' = [stage EXCEPT ![o] = "free"]
    /\ pair' = [pair EXCEPT ![o] = None]
    /\ handle' = [handle EXCEPT ![o] = None]
    /\ channel' = [channel EXCEPT ![o] = None]
    /\ done' = [done EXCEPT ![o] = FALSE]
    /\ target' = [target EXCEPT ![o] = 0]
    /\ UNCHANGED <<sub, subLk, callers, file, published>>

----------------------------------------------------------------------------
(* An update, by the thread of a database or by the SubGet that creates    *)
(* it.  dbrw is held in the stages "write" and "index".                    *)

Goto(o, s) == stage' = [stage EXCEPT ![o] = s]

\* where an update goes on: NewOsArch drops the database after an error
AfterUpdate(o, ok) ==
    IF Creator(o) = {} THEN "select" ELSE IF ok THEN "loaded" ELSE "leaked"

\* CurrentVersion
Version(o) == IF handle[o] = None THEN 0 ELSE file[pair[o]]

\* download: there is nothing new
FetchSame(o) ==
    /\ stage[o] = "fetch"
    /\ published[pair[o]] \in {0, Version(o)}
    /\ Goto(o, AfterUpdate(o, TRUE))
    /\ UNCHANGED <<pair, handle, channel, done, target, sub, subLk, callers, file, published>>

FetchNew(o) ==
    /\ stage[o] = "fetch"
    /\ published[pair[o]] \notin {0, Version(o)}
    /\ target' = [target EXCEPT ![o] = published[pair[o]]]
    /\ Goto(o, "write")
    /\ UNCHANGED <<pair, handle, channel, done, sub, subLk, callers, file, published>>

\* mutant: updateThread returns when an update fails
UpdateFailsEnds(o) ==
    /\ stage[o] = "fetch"
    /\ Creator(o) # {} \/ published[pair[o]] \notin {0, Version(o)}
    /\ Goto(o, IF Creator(o) = {} THEN "ended" ELSE "leaked")
    /\ UNCHANGED <<pair, handle, channel, done, target, sub, subLk, callers, file, published>>

\* for a thread that had nothing to find this is FetchSame
FetchFails(o) ==
    /\ stage[o] = "fetch"
    /\ Creator(o) # {} \/ published[pair[o]] \notin {0, Version(o)}
    /\ Goto(o, AfterUpdate(o, FALSE))
    /\ UNCHANGED <<pair, handle, channel, done, target, sub, subLk, callers, file, published>>

\* mutant: it is opened to write while it is open to read
WriteCloseSkipped(o) ==
    /\ stage[o] = "write" /\ handle[o] = "exclusive"
    /\ handle' = [handle EXCEPT ![o] = None]
    /\ UNCHANGED <<stage, pair, channel, done, target, sub, subLk, callers, file, published>>

\* writeStart closes the file, then opens it again to write
WriteClose(o) ==
    /\ stage[o] = "write" /\ handle[o] # None
    /\ handle' = [handle EXCEPT ![o] = None]
    /\ UNCHANGED <<stage, pair, channel, done, target, sub, subLk, callers, file, published>>

WriteStart(o) ==
    /\ stage[o] = "write" /\ handle[o] = None /\ CanWrite(pair[o], o)
    /\ handle' = [handle EXCEPT ![o] = "exclusive"]
    /\ Goto(o, "index")
    /\ UNCHANGED <<pair, channel, done, target, sub, subLk, callers, file, published>>

\* it cannot be opened to write; writeStart opens it again to read, or not
WriteFails(o) ==
    /\ stage[o] = "write" /\ handle[o] = None
    /\ \E h \in {None} \cup (IF CanShare(pair[o], o) THEN {"shared"} ELSE {}) :
         handle' = [handle EXCEPT ![o] = h]
    /\ target' = [target EXCEPT ![o] = 0]
    /\ Goto(o, AfterUpdate(o, FALSE))
    /\ UNCHANGED <<pair, channel, done, sub, subLk, callers, file, published>>

\* index and writeEnd, which opens the file again to read
Index(o) ==
    /\ stage[o] = "index"
    /\ file' = [file EXCEPT ![pair[o]] = target[o]]
    /\ handle' = [handle EXCEPT ![o] = "shared"]
    /\ target' = [target EXCEPT ![o] = 0]
    /\ Goto(o, AfterUpdate(o, TRUE))
    /\ UNCHANGED <<pair, channel, done, sub, subLk, callers, published>>

\* writeEnd fails to, of which index knows nothing
ReopenFails(o) ==
    /\ stage[o] = "index"
    /\ file' = [file EXCEPT ![pair[o]] = target[o]]
    /\ handle' = [handle EXCEPT ![o] = None]
    /\ target' = [target EXCEPT ![o] = 0]
    /\ Goto(o, AfterUpdate(o, TRUE))
    /\ UNCHANGED <<pair, channel, done, sub, subLk, callers, published>>

\* if the file had that version already, this is Index
IndexFails(o) ==
    /\ stage[o] = "index" /\ file[pair[o]] # target[o]
    /\ \E h \in {"shared", None} : handle' = [handle EXCEPT ![o] = h]
    /\ target' = [target EXCEPT ![o] = 0]
    /\ Goto(o, AfterUpdate(o, FALSE))
    /\ UNCHANGED <<pair, channel, done, sub, subLk, callers, file, published>>

----------------------------------------------------------------------------
(* updateThread between updates.                                           *)

\* the ticker fires; one that select prefers to done leads to the states of
\* one just before Close
Tick(o) ==
    /\ stage[o] = "select" /\ ~done[o]
    /\ Goto(o, "fetch")
    /\ UNCHANGED <<pair, handle, channel, done, target, sub, subLk, callers, file, published>>

\* Update, for SIGHUP: nobody receives while an update runs, and it is dropped
Update ==
    /\ stage[Main] = "select" /\ ~done[Main]
    /\ Goto(Main, "fetch")
    /\ UNCHANGED <<pair, handle, channel, done, target, sub, subLk, callers, file, published>>

ThreadEnds(o) ==
    /\ stage[o] = "select" /\ done[o]
    /\ Goto(o, "ended")
    /\ UNCHANGED <<pair, handle, channel, done, target, sub, subLk, callers, file, published>>

----------------------------------------------------------------------------
(* SubGet.                                                                 *)

\* a call that does not find the database under RLock
Call(t, p) ==
    /\ pc[t] = "idle" /\ subLk = None /\ sub[p] = None
    /\ pc' = [pc EXCEPT ![t] = "lock"]
    /\ want' = [want EXCEPT ![t] = p]
    /\ UNCHANGED <<objects, sub, subLk, new, setting, closing, file, published>>

Return(t) ==
    /\ pc' = [pc EXCEPT ![t] = "idle"]
    /\ want' = [want EXCEPT ![t] = None]
    /\ new' = [new EXCEPT ![t] = None]

\* mutant: no second look once the lock is held
LockBlind(t) ==
    /\ pc[t] = "lock" /\ subLk = None
    /\ pc' = [pc EXCEPT ![t] = "open"] /\ subLk' = t
    /\ UNCHANGED <<objects, sub, want, new, setting, closing, file, published>>

Lock(t) ==
    /\ pc[t] = "lock" /\ subLk = None
    /\ IF sub[want[t]] # None THEN Return(t) /\ UNCHANGED subLk
       ELSE pc' = [pc EXCEPT ![t] = "open"] /\ subLk' = t /\ UNCHANGED <<want, new>>
    /\ UNCHANGED <<objects, sub, setting, closing, file, published>>

\* NewOsArch up to the first download, for which a version must be missing
Open(t) ==
    LET p == want[t]
        created == file[p] = None
        free == {x \in Objs : stage[x] = "free"}
        o == CHOOSE x \in free : TRUE
    IN  /\ pc[t] = "open" /\ free # {}
        /\ IF created THEN CanWrite(p, None) ELSE CanShare(p, None)
        /\ new' = [new EXCEPT ![t] = o]
        /\ pair' = [pair EXCEPT ![o] = p]
        /\ handle' = [handle EXCEPT ![o] = IF created THEN "exclusive" ELSE "shared"]
        /\ Goto(o, IF created \/ file[p] = 0 THEN "fetch" ELSE "opened")
        /\ file' = [file EXCEPT ![p] = IF created THEN 0 ELSE @]
        /\ pc' = [pc EXCEPT ![t] = "create"]
        /\ UNCHANGED <<channel, done, target, sub, subLk, want, setting, closing, published>>

\* bolt.Open fails
OpenFails(t) ==
    /\ pc[t] = "open"
    /\ Return(t)
    /\ subLk' = None
    /\ UNCHANGED <<objects, sub, setting, closing, file, published>>

CreateFails(t) ==
    /\ pc[t] = "create" /\ stage[new[t]] = "leaked"
    /\ Return(t)
    /\ subLk' = None
    /\ UNCHANGED <<objects, sub, setting, closing, file, published>>

\* the thread is started, SubGet copies the channel
Created(t) ==
    /\ pc[t] = "create" /\ stage[new[t]] \in {"opened", "loaded"}
    /\ channel' = [channel EXCEPT ![new[t]] = channel[Main]]
    /\ pc' = [pc EXCEPT ![t] = "insert"]
    /\ UNCHANGED <<stage, pair, handle, done, target, sub, subLk, new, want, setting,
                   closing, file, published>>

\* and enters the database; the thread updates at once unless NewOsArch did
Insert(t) ==
    /\ pc[t] = "insert"
    /\ sub' = [sub EXCEPT ![want[t]] = new[t]]
    /\ Goto(new[t], IF stage[new[t]] = "opened" THEN "fetch" ELSE "select")
    /\ Return(t)
    /\ subLk' = None
    /\ UNCHANGED <<pair, handle, channel, done, target, setting, closing, file, published>>

----------------------------------------------------------------------------
(* SetChannel, called once.                                                *)

SetChannel(c) ==
    /\ setting = None /\ channel[Main] = None
    /\ setting' = c
    /\ channel' = [channel EXCEPT ![Main] = c]
    /\ UNCHANGED <<stage, pair, handle, done, target, sub, subLk, pc, new, want, closing,
                   file, published>>

CarryChannel ==
    /\ setting' = None
    /\ channel' = [o \in DB |-> IF \E p \in Pairs : sub[p] = o THEN setting ELSE channel[o]]
    /\ UNCHANGED <<stage, pair, handle, done, target, sub, subLk, pc, new, want, closing,
                   file, published>>

\* mutant: no RLock
SetSubChannelsUnlocked == setting # None /\ CarryChannel

SetSubChannels == setting # None /\ subLk = None /\ CarryChannel

----------------------------------------------------------------------------
(* Close, called once.                                                     *)

\* Close of one database, which waits for dbrw; after an error of bbolt's
\* Close it returns before it lets go of dbptr
CloseDb(o) ==
    /\ stage[o] \notin {"write", "index"}
    /\ done' = [done EXCEPT ![o] = TRUE]
    /\ \E h \in {None, handle[o]} : handle' = [handle EXCEPT ![o] = h]

Close ==
    /\ closing = "no" /\ subLk = None
    /\ closing' = "subs" /\ subLk' = Closer
    /\ UNCHANGED <<objects, sub, pc, new, want, setting, file, published>>

CloseSub(p) ==
    /\ closing = "subs" /\ sub[p] # None
    /\ CloseDb(sub[p])
    /\ sub' = [sub EXCEPT ![p] = None]
    /\ UNCHANGED <<stage, pair, channel, target, subLk, callers, file, published>>

ClosedSubs ==
    /\ closing = "subs" /\ \A p \in Pairs : sub[p] = None
    /\ closing' = "main" /\ subLk' = None
    /\ UNCHANGED <<objects, sub, pc, new, want, setting, file, published>>

\* mutant: the thread of the main database is not told
CloseMainQuiet ==
    /\ closing = "main" /\ stage[Main] \notin {"write", "index"}
    /\ handle' = [handle EXCEPT ![Main] = None]
    /\ closing' = "done"
    /\ UNCHANGED <<stage, pair, channel, done, target, sub, subLk, pc, new, want, setting,
                   file, published>>

CloseMain ==
    /\ closing = "main"
    /\ CloseDb(Main)
    /\ closing' = "done"
    /\ UNCHANGED <<stage, pair, channel, target, sub, subLk, pc, new, want, setting,
                   file, published>>

----------------------------------------------------------------------------
\* steps of an update that end it, and those that let it go on
Succeed(o) == FetchSame(o) \/ FetchNew(o) \/ WriteClose(o) \/ WriteStart(o) \/ Index(o)
Fail(o) == FetchFails(o) \/ WriteFails(o) \/ IndexFails(o) \/ ReopenFails(o)

SubGet(t) ==
    Lock(t) \/ Open(t) \/ CreateFails(t) \/ Created(t) \/ Insert(t)

CloseStep == (\E p \in Pairs : CloseSub(p)) \/ ClosedSubs \/ CloseMain

Next ==
    \/ \E p \in Files : Publish(p)
    \/ \E o \in DB : Collect(o) \/ Succeed(o) \/ Fail(o) \/ Tick(o) \/ ThreadEnds(o)
    \/ Update
    \/ \E t \in Threads : SubGet(t) \/ OpenFails(t) \/ \E p \in Pairs : Call(t, p)
    \/ (\E c \in Channels : SetChannel(c)) \/ SetSubChannels
    \/ Close \/ CloseStep

(***************************************************************************)
(* Goroutines are scheduled, the ticker fires, the runtime collects        *)
(* garbage every two minutes, and downloads and writes do not fail for     *)
(* ever.  Whether SubGet, SetChannel and Close are called is left open.    *)
(***************************************************************************)
Fairness ==
    /\ \A o \in DB : /\ WF_vars(Collect(o)) /\ WF_vars(Succeed(o))
                     /\ WF_vars(Tick(o)) /\ WF_vars(ThreadEnds(o))
    /\ <>[][(\A o \in DB : ~Fail(o)) /\ \A t \in Threads : ~OpenFails(t)]_vars
    /\ \A t \in Threads : WF_vars(SubGet(t))
    /\ WF_vars(SetSubChannels) /\ WF_vars(CloseStep)

Spec == Init /\ [][Next]_vars /\ Fairness

----------------------------------------------------------------------------
\* types, and subLk is held by a caller that is in the locked part
TypeOK ==
    /\ stage \in [DB -> Stages]
    /\ pair \in [DB -> Files \cup {None}]
    /\ handle \in [DB -> {None, "shared", "exclusive"}]
    /\ channel \in [DB -> Channels \cup {None}]
    /\ done \in [DB -> BOOLEAN]
    /\ target \in [DB -> Versions]
    /\ sub \in [Pairs -> Objs \cup {None}]
    /\ subLk \in Threads \cup {Closer, None}
    /\ pc \in [Threads -> {"idle", "lock", "open", "create", "insert"}]
    /\ \A t \in Threads : pc[t] \in {"open", "create", "insert"} <=> subLk = t
    /\ (closing = "subs") = (subLk = Closer)
    /\ new \in [Threads -> Objs \cup {None}]
    /\ want \in [Threads -> Pairs \cup {None}]
    /\ setting \in Channels \cup {None}
    /\ closing \in {"no", "subs", "main", "done"}
    /\ file \in [Files -> Versions \cup {None}]
    /\ published \in [Files -> Versions]

(***************************************************************************)
(* A database with a thread is the one that lookups of its pair find, and  *)
(* that Close reaches: two callers that miss it at the same time, one of   *)
(* them behind a download, never leave a second one behind.                *)
(***************************************************************************)
NoOrphanDb ==
    \A o \in Objs :
        stage[o] \notin {"free", "leaked"} /\ Creator(o) = {} /\ ~done[o] =>
            sub[pair[o]] = o

(***************************************************************************)
(* Once no call of SetChannel is under way, all databases resolve by the   *)
(* same channel, whichever were created while one was.                     *)
(***************************************************************************)
ChannelAgrees ==
    setting = None =>
        \A p \in Pairs : sub[p] # None => channel[sub[p]] = channel[Main]

(***************************************************************************)
(* Every lookup of a sub-database ends, although subLk is held through a   *)
(* download and a failed one leaves a locked file behind.                  *)
(***************************************************************************)
SubGetEnds == \A t \in Threads : pc[t] # "idle" ~> pc[t] = "idle"

(***************************************************************************)
(* What was published gets installed in every database that is open,       *)
(* although Update drops calls and downloads, writes and reopening fail.   *)
(***************************************************************************)
Converges ==
    /\ []<>(file[MainPair] = published[MainPair] \/ done[Main])
    /\ \A p \in Pairs :
         []<>(sub[p] = None \/ published[p] = 0 \/ file[p] = published[p])

\* its thread waits for a file that another database has open
Shut(o) == stage[o] = "write" /\ ~CanWrite(pair[o], o)

(***************************************************************************)
(* Close ends, and with it the threads of the databases it closed, also    *)
(* those that were in the middle of an update; except one whose pair was   *)
(* looked up again: it waits as long as the new database has the file open *)
(***************************************************************************)
CloseEnds ==
    closing # "no" ~>
        /\ closing = "done"
        /\ \A o \in DB : o = Main \/ done[o] => stage[o] \in {"ended", "free"} \/ Shut(o)

=============================================================================
