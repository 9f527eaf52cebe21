----------------------------- MODULE FuseServer -----------------------------
(***************************************************************************)
(* Requests and notifications over one FUSE descriptor (apkgfs/server.go,  *)
(* NotifyInode of fs.go), and the file both meet on: ld.so.cache, inode 2  *)
(* of the mount (apkgdb/ldso.go, notify.go, GetInode of lookup.go).        *)
(*                                                                         *)
(* Serve reads requests and answers each on a goroutine.  Each database    *)
(* builds an ld.so.cache at the end of an update, with its dbrw held, and  *)
(* pushes it to the kernel as inode 2.  Requests for inode 2 are answered  *)
(* from a snapshot of the main database's cache, taken when the inode was  *)
(* entered in the table.  Every write to the descriptor, answers and       *)
(* notifications alike, is made under writeMu; the kernel takes or refuses *)
(* each at once, so a write is one step and the lock needs no variable.    *)
(*                                                                         *)
(* The kernel's side is external: it keeps the pages it has read until it  *)
(* drops them itself, it knows the positive notification codes only, and   *)
(* reads and releases are background requests, of which it has at most     *)
(* MaxBackground without an answer.                                        *)
(***************************************************************************)
EXTENDS Naturals, Sequences, FiniteSets

CONSTANTS
    Reqs,           \* requests the kernel can have under way
    Kind,           \* the opcode of each
    Main, Subs,     \* the mounted database and its sub-databases
    MaxBuilds,      \* bound on the updates of each database
    MaxBackground,  \* fuseInitOut.MaxBackground
    NoCache,        \* no content
    Torn            \* a slice read while it was written

DB == {Main} \cup Subs

\* requests for ld.so.cache, a release of any file, and a lookup of a
\* package, which stands for all requests the database is read for
Kinds == {"lookup", "read", "forget", "release", "pkg"}

ASSUME ServerAssumption ==
    /\ Main \notin Subs
    /\ Kind \in [Reqs -> Kinds] /\ IsFiniteSet(Reqs)
    /\ NoCache # Torn
    /\ MaxBuilds \in Nat /\ MaxBackground \in Nat \ {0}

VARIABLES
    ldso,       \* DB.ldso: which build of its cache each database has
    upd,        \* where the update thread of each database is
    table,      \* the snapshot of PkgFS.inoCache[2]
    known,      \* the kernel has inode 2
    page,       \* what it has cached of its content
    queue,      \* background requests it has no room for
    st,         \* how far a request got
    data        \* the snapshot its handler works with

kernel == <<known, page, queue>>
request == <<st, data>>
vars == <<ldso, upd, table, kernel, request>>

Stages == {"idle", "waiting", "sent", "add", "reply", "unanswered"}
UpdStages == {"idle", "swap", "notify"}

Builds == {<<d, i>> : d \in DB, i \in 0 .. MaxBuilds}
Content(d) == <<d, ldso[d]>>

Init ==
    /\ ldso = [d \in DB |-> 0]
    /\ upd = [d \in DB |-> "idle"]
    /\ table = NoCache
    /\ known = FALSE
    /\ page = NoCache
    /\ queue = <<>>
    /\ st = [r \in Reqs |-> "idle"]
    /\ data = [r \in Reqs |-> NoCache]

----------------------------------------------------------------------------
(* The kernel.                                                             *)

InFlight(r) == st[r] # "idle"
PageLocked == \E r \in Reqs : Kind[r] = "read" /\ InFlight(r)
Background ==
    {r \in Reqs : Kind[r] \in {"read", "release"} /\ st[r] \notin {"idle", "waiting"}}

Send(r, s) == ~InFlight(r) /\ st' = [st EXCEPT ![r] = s] /\ UNCHANGED data

SendLookup(r) ==
    /\ Kind[r] \in {"lookup", "pkg"}
    /\ Send(r, "sent")
    /\ UNCHANGED <<ldso, upd, table, kernel>>

\* a read of a page that is not cached, or the release of a closed file,
\* goes out when there is room
SendBackground(r) ==
    /\ known
    /\ Kind[r] = "release" \/ (Kind[r] = "read" /\ page = NoCache)
    /\ IF Cardinality(Background) < MaxBackground
         THEN Send(r, "sent") /\ UNCHANGED queue
         ELSE Send(r, "waiting") /\ queue' = Append(queue, r)
    /\ UNCHANGED <<ldso, upd, table, known, page>>

\* the kernel drops the inode with its pages and gives back its references
SendForget(r) ==
    /\ Kind[r] = "forget" /\ known /\ ~PageLocked
    /\ Send(r, "sent")
    /\ known' = FALSE
    /\ page' = NoCache
    /\ UNCHANGED <<ldso, upd, table, queue>>

DropPage ==
    /\ page # NoCache /\ ~PageLocked
    /\ page' = NoCache
    /\ UNCHANGED <<ldso, upd, table, known, queue, request>>

----------------------------------------------------------------------------
(* The server.  Serve reads a request and starts handleRequest on a        *)
(* goroutine; that these are two steps is seen in module Daemon only.      *)

\* getInode(2): the table's object, or a new one around d.ldso, which
\* buildLdso replaces without a lock
Snapshots ==
    IF table # NoCache THEN {table}
    ELSE {Content(Main)} \cup (IF upd[Main] = "swap" THEN {Torn} ELSE {})

\* doLookup and doRead of ld.so.cache up to the inode
GetInode(r) ==
    /\ st[r] = "sent" /\ Kind[r] \in {"lookup", "read"}
    /\ \E c \in Snapshots : data' = [data EXCEPT ![r] = c]
    /\ st' = [st EXCEPT ![r] = IF Kind[r] = "lookup" THEN "add" ELSE "reply"]
    /\ UNCHANGED <<ldso, upd, table, kernel>>

\* doLookup: addToCache keeps the object that is there
AddToCache(r) ==
    /\ st[r] = "add"
    /\ table' = IF table = NoCache THEN data[r] ELSE table
    /\ data' = [data EXCEPT ![r] = NoCache]
    /\ st' = [st EXCEPT ![r] = "reply"]
    /\ UNCHANGED <<ldso, upd, kernel>>

\* mutant: DelRef of ld.so.cache reports a reference left
DoForgetKeeps(r) ==
    /\ st[r] = "sent" /\ Kind[r] = "forget"
    /\ st' = [st EXCEPT ![r] = "idle"]
    /\ UNCHANGED <<ldso, upd, table, kernel, data>>

\* doForget: DelRef of ld.so.cache is always 0, the entry goes; no answer
DoForget(r) ==
    /\ st[r] = "sent" /\ Kind[r] = "forget"
    /\ table' = NoCache
    /\ st' = [st EXCEPT ![r] = "idle"]
    /\ UNCHANGED <<ldso, upd, kernel, data>>

\* handleRequest answers nothing to a release; the kernel waits for it
DoRelease(r) ==
    /\ st[r] = "sent" /\ Kind[r] = "release"
    /\ st' = [st EXCEPT ![r] = "unanswered"]
    /\ UNCHANGED <<ldso, upd, table, kernel, data>>

\* doLookup of a package reads the database under dbrw, which an update of
\* the main database holds
DoLookupPkg(r) ==
    /\ st[r] = "sent" /\ Kind[r] = "pkg"
    /\ upd[Main] = "idle"
    /\ st' = [st EXCEPT ![r] = "reply"]
    /\ UNCHANGED <<ldso, upd, table, kernel, data>>

\* reply: one write under writeMu, and what the kernel makes of it; the end
\* of a read makes room for the first request that waits
Reply(r) ==
    /\ st[r] = "reply"
    /\ LET answered == [st EXCEPT ![r] = "idle"]
       IN  IF Kind[r] = "read" /\ queue # <<>>
             THEN st' = [answered EXCEPT ![Head(queue)] = "sent"] /\ queue' = Tail(queue)
             ELSE st' = answered /\ UNCHANGED queue
    /\ data' = [data EXCEPT ![r] = NoCache]
    /\ known' = (known \/ Kind[r] = "lookup")
    /\ page' = IF Kind[r] = "read" THEN data[r] ELSE page
    /\ UNCHANGED <<ldso, upd, table>>

----------------------------------------------------------------------------
(* An update thread at the end of index, dbrw held.                        *)

Goto(d, l) == upd' = [upd EXCEPT ![d] = l]

\* buildLdso: d.ldso = buf.Bytes() is several stores
BuildLdso(d) ==
    /\ upd[d] = "idle" /\ ldso[d] < MaxBuilds
    /\ Goto(d, "swap")
    /\ UNCHANGED <<ldso, table, kernel, request>>

BuiltLdso(d) ==
    /\ upd[d] = "swap"
    /\ ldso' = [ldso EXCEPT ![d] = @ + 1]
    /\ Goto(d, "notify")
    /\ UNCHANGED <<table, kernel, request>>

\* mutant: the content of whichever database was updated is stored
InodeNotifyStores(d) ==
    /\ upd[d] = "notify"
    /\ Goto(d, "idle")
    /\ page' = IF known THEN Content(d) ELSE page
    /\ UNCHANGED <<ldso, table, known, queue, request>>

\* mutant: a refused notification is tried again, with dbrw held
InodeNotifyRetries(d) ==
    /\ upd[d] = "notify"
    /\ UNCHANGED vars

\* notifyInode(2, ...) finds the target at the main database, also for a
\* sub-database.  InodeNotify writes a header with the code -2, which the
\* kernel, whose code is 2, refuses: the page stays, NotifyInode returns the
\* error without InodeNotifyStoreCache, and buildLdso ignores it
InodeNotify(d) ==
    /\ upd[d] = "notify"
    /\ Goto(d, "idle")
    /\ UNCHANGED <<ldso, table, kernel, request>>

----------------------------------------------------------------------------
Kernel(r) == SendLookup(r) \/ SendBackground(r) \/ SendForget(r)

Serve(r) ==
    \/ GetInode(r) \/ AddToCache(r) \/ DoForget(r) \/ DoRelease(r)
    \/ DoLookupPkg(r) \/ Reply(r)

Push(d) == BuiltLdso(d) \/ InodeNotify(d)

Next ==
    \/ \E r \in Reqs : Kernel(r) \/ Serve(r)
    \/ \E d \in DB : BuildLdso(d) \/ Push(d)
    \/ DropPage

(***************************************************************************)
(* Goroutines are scheduled.  Weak fairness is enough for those that wait  *)
(* for dbrw, because updates are finitely many here.  Nothing is assumed   *)
(* of who sends requests and of when updates start.                        *)
(***************************************************************************)
Fairness ==
    /\ \A r \in Reqs : WF_vars(Serve(r))
    /\ \A d \in DB : WF_vars(Push(d))

Spec == Init /\ [][Next]_vars /\ Fairness

----------------------------------------------------------------------------
\* the types of the variables
TypeOK ==
    /\ ldso \in [DB -> 0 .. MaxBuilds]
    /\ upd \in [DB -> UpdStages]
    /\ table \in Builds \cup {NoCache, Torn}
    /\ page \in Builds \cup {NoCache, Torn}
    /\ known \in BOOLEAN
    /\ queue \in Seq(Reqs)
    /\ st \in [Reqs -> Stages]
    /\ data \in [Reqs -> Builds \cup {NoCache, Torn}]

\* all background requests are releases without an answer
Starved ==
    Cardinality({r \in Reqs : st[r] = "unanswered"}) >= MaxBackground

(***************************************************************************)
(* Every request is answered, whatever updates and notifications run at    *)
(* the same time: a lookup that waits for dbrw gets it although buildLdso  *)
(* writes to the kernel with dbrw held.  The exceptions are a release,     *)
(* which handleRequest does not answer, and what is behind as many closed  *)
(* files as the kernel has room for background requests.                   *)
(***************************************************************************)
Answered ==
    \A r \in Reqs :
        InFlight(r) ~> ~InFlight(r) \/ st[r] = "unanswered" \/ Starved

(***************************************************************************)
(* ld.so.cache of the mount is the main database's: although every         *)
(* sub-database pushes its own cache as inode 2 of the same mount, what    *)
(* the kernel caches, the table keeps and a handler answers with is a      *)
(* build the main database has finished, or was read while it replaced it. *)
(***************************************************************************)
CacheIsMains ==
    {table, page} \cup {data[r] : r \in Reqs} \subseteq
        {NoCache, Torn} \cup {<<Main, i>> : i \in 0 .. ldso[Main]}

\* the kernel has dropped inode 2 and the server knows it
KernelForgot ==
    ~known /\ \A r \in Reqs : Kind[r] \in {"lookup", "read", "forget"} => ~InFlight(r)

(***************************************************************************)
(* A snapshot of ld.so.cache, an old or even a torn one, lasts no longer   *)
(* than the kernel holds the inode, with no push that would replace it: if *)
(* the kernel drops the inode now and then, what it has cached is in the   *)
(* end the newest build of the main database.                              *)
(***************************************************************************)
NewestAfterForget ==
    []<>KernelForgot => <>[](page \in {NoCache, Content(Main)})

=============================================================================
