--------------------------- MODULE Daemon_proofs ---------------------------
(***************************************************************************)
(* Proofs about Daemon, for any number of requests, images and versions,   *)
(* and about FuseServer, the server the daemon runs, which is instantiated *)
(* as Fuse: whose cache it serves, and why Answered has its exceptions.     *)
(***************************************************************************)
EXTENDS Daemon, Sequences, FiniteSetTheorems, TLAPS

\* main leaves Serve only after it was told to stop, and an image that was
\* not, and that no stopped one came before, keeps the mount: one that serves,
\* and a later one from its first step on
MountInv ==
    /\ phase \in {"unmounted", "closed"} => shutdown
    /\ Alive /\ ~overtaken /\ ~shutdown /\ (gen > 1 \/ phase = "serving") =>
         fdOpen /\ Mounted

\* what the updater compares with is at least what runs, what it is about to
\* install is newer, and as long as the link never moved in between it is also
\* the version of the file
VersionInv ==
    /\ v >= run
    /\ n # 0 => n > v
    /\ ~mixed => bin = v

\* the goroutine that would close shutdownChan is gone once it is closed
CloseInv == (handling => ~shutdown) /\ ClosedOnce

DaemonInv == TypeOK /\ MountInv /\ VersionInv /\ CloseInv

----------------------------------------------------------------------------
(* The initial states.                                                     *)

LEMMA DaemonInitially == Init => DaemonInv
<1> SUFFICES ASSUME Init PROVE DaemonInv
  OBVIOUS
<1>1. TypeOK
  <2>1. gen \in 1 .. MaxGen /\ {run, bin, latest, v} \subseteq 1 .. MaxVersion
        /\ n \in 0 .. MaxVersion
    BY DaemonAssumption DEF Init
  <2>2. /\ fdOpen \in BOOLEAN /\ handling \in BOOLEAN /\ shutdown \in BOOLEAN
        /\ panic \in {None, "nilUpdate", "closedTwice"} /\ overtaken \in BOOLEAN /\ mixed \in BOOLEAN
    BY Zenon DEF Init
  <2> QED  BY <2>1, <2>2 DEF Init, TypeOK, Phases, Serves, Conns, Signals, None
<1>2. MountInv /\ CloseInv
  BY DEF Init, MountInv, CloseInv, ClosedOnce, None
<1>3. VersionInv
  BY DaemonAssumption DEF Init, VersionInv
<1> QED  BY <1>1, <1>2, <1>3 DEF DaemonInv

----------------------------------------------------------------------------
(* The type invariant.                                                     *)

\* the process ends
LEMMA EndTypes ==
    ASSUME TypeOK, NEW p \in {"exited", "crashed"}, ProcessEnds(p)
    PROVE  TypeOK'
<1>1. fdOpen' \in BOOLEAN /\ conn' \in Conns
  BY Zenon DEF TypeOK, ProcessEnds, Conns
<1>2. phase' \in Phases /\ phase' \notin {"loading", "mounting", "stuck"}
  BY DEF ProcessEnds, Phases
<1>3. req' \in [Reqs -> {"idle", "queued", "taken", "lost"}]
  BY DEF ProcessEnds
<1> QED  BY <1>1, <1>2, <1>3 DEF TypeOK, ProcessEnds, signals, versions

\* a new image starts
LEMMA ExecTypes ==
    ASSUME TypeOK, Exec
    PROVE  TypeOK'
<1>1. /\ gen' \in 1 .. MaxGen
      /\ {run', bin', latest', v'} \subseteq 1 .. MaxVersion /\ n' \in 0 .. MaxVersion
  BY DaemonAssumption DEF TypeOK, Exec, NewImage
<1>2. /\ handling' \in BOOLEAN /\ shutdown' \in BOOLEAN /\ panic' = None
      /\ overtaken' \in BOOLEAN /\ mixed' \in BOOLEAN /\ fdOpen' \in BOOLEAN
  BY Zenon DEF TypeOK, Exec, NewImage
<1>3. conn' \in Conns
  BY DEF TypeOK, Exec, Conns
<1>4. req' \in [Reqs -> {"idle", "queued", "taken", "lost"}]
  BY DEF TypeOK, Exec, Handed
<1>5. /\ phase' \in Phases /\ serve' \in Serves
      /\ sig' \in Signals \cup {None} /\ restart' = None /\ None # "checked"
  BY DEF Exec, NewImage, Phases, Serves, None
<1> QED  BY <1>1, <1>2, <1>3, <1>4, <1>5 DEF TypeOK

\* the updater installs what the link points to, or fails
LEMMA InstallTypes ==
    ASSUME TypeOK, UpdaterInstalls
    PROVE  TypeOK'
<1>1. /\ {run', bin', latest', v'} \subseteq 1 .. MaxVersion /\ n' \in 0 .. MaxVersion
  BY DaemonAssumption DEF TypeOK, UpdaterInstalls
<1>2. mixed' \in BOOLEAN
  BY Zenon DEF TypeOK, UpdaterInstalls
<1>3. sig' \in Signals \cup {None}
  BY DEF TypeOK, UpdaterInstalls, Notified, Signals
<1> QED  BY <1>1, <1>2, <1>3 DEF TypeOK, UpdaterInstalls, process, kernel

LEMMA TypeStep ==
    ASSUME TypeOK, [Next]_vars
    PROVE  TypeOK'
<1> USE DEF TypeOK, Phases, Serves, Conns, None, kernel, process, signals, versions
<1>1. CASE LoadDb
  BY <1>1, EndTypes DEF LoadDb
<1>2. CASE Mount
  <2>1. CASE ProcessEnds("exited")
    BY <2>1, EndTypes
  <2>2. CASE phase' = "serving"
    <3>1. fdOpen' \in BOOLEAN
      BY Zenon, <1>2 DEF Mount, FuseMount, ProcessEnds
    <3> QED  BY <3>1, <2>2, <1>2 DEF Mount, FuseMount, ProcessEnds
  <2> QED  BY <2>1, <2>2, <1>2 DEF Mount
<1>3. CASE Inherit
  BY <1>3, EndTypes DEF Inherit
<1>4. CASE Unmount
  BY <1>4 DEF Unmount
<1>5. CASE CloseFd
  <2>1. fdOpen' \in BOOLEAN
    BY Zenon, <1>5 DEF CloseFd
  <2>2. phase = "unmounted" /\ phase' = "closed"
        /\ UNCHANGED <<gen, serve, kernel, signals, overtaken, versions>>
    BY <1>5 DEF CloseFd
  <2> QED  BY <2>1, <2>2
<1>6. CASE Exit \/ Panics
  BY <1>6, EndTypes DEF Exit, Panics
<1>7. CASE HandleInit
  BY <1>7 DEF HandleInit
<1>8. CASE ServeEnds \/ ReadFails
  BY <1>8 DEF ServeEnds, ReadFails
<1>9. ASSUME NEW r \in Reqs, Take(r) \/ Answer(r) \/ SendRequest(r)
      PROVE  TypeOK'
  BY <1>9 DEF Take, Answer, SendRequest
<1>10. ASSUME NEW s \in Signals, SendSignal(s)
       PROVE  TypeOK'
  BY <1>10 DEF SendSignal, Notified
<1>11. CASE HandleSignal
  BY <1>11 DEF HandleSignal, Panic, Signals
<1>12. CASE CheckRestart \/ ExecFails
  BY <1>12 DEF CheckRestart, ExecFails
<1>13. CASE UpdaterReads
  BY <1>13, DaemonAssumption DEF UpdaterReads
<1>14. CASE MoveLatest
  BY <1>14 DEF MoveLatest
<1>15. CASE UNCHANGED vars
  BY <1>15 DEF vars
<1> QED
  BY <1>1, <1>2, <1>3, <1>4, <1>5, <1>6, <1>7, <1>8, <1>9, <1>10, <1>11, <1>12, <1>13,
     <1>14, <1>15, ExecTypes, InstallTypes DEF Next, Main

----------------------------------------------------------------------------
(* The mount.                                                              *)

\* only a process that serves and was not told to stop, or one that was,
\* reaches exec, and the first kind still has the mount
LEMMA ExecHandsOver ==
    ASSUME TypeOK, MountInv, Exec
    PROVE  MountInv'
<1>1. phase \notin {"loading", "mounting", "stuck"}
  BY DEF TypeOK, Exec
<1>2. ASSUME ~overtaken' PROVE fdOpen' /\ Mounted'
  <2>1. ~overtaken /\ ~shutdown
    BY Zenon, <1>2 DEF Exec, NewImage
  <2>2. phase = "serving"
    BY <1>1, <2>1 DEF TypeOK, MountInv, Exec, Alive, Phases
  <2>3. fdOpen /\ Mounted
    BY <2>1, <2>2 DEF MountInv, Alive
  <2> QED  BY <2>3 DEF Exec, Mounted
<1>3. phase' = "loading"
  BY DEF Exec, NewImage
<1> QED  BY <1>2, <1>3 DEF MountInv

LEMMA MountStep ==
    ASSUME TypeOK, MountInv, [Next]_vars
    PROVE  MountInv'
<1> USE DEF TypeOK, MountInv, Alive, Mounted, kernel, process, signals
<1>1. CASE LoadDb \/ Exit \/ Panics
  BY <1>1 DEF LoadDb, Exit, Panics, ProcessEnds
<1>2. CASE Mount
  BY <1>2 DEF Mount, FuseMount, ProcessEnds
<1>3. CASE Inherit
  BY <1>3 DEF Inherit, ProcessEnds
<1>4. CASE Unmount \/ CloseFd
  BY <1>4 DEF Unmount, CloseFd
<1>5. CASE HandleInit
  BY <1>5 DEF HandleInit
<1>6. CASE HandleSignal
  BY <1>6 DEF HandleSignal
<1>7. CASE UNCHANGED <<gen, phase, fdOpen, conn, shutdown, overtaken>>
  BY <1>7
<1>8. ASSUME NEW r \in Reqs, Take(r) \/ Answer(r) \/ SendRequest(r)
      PROVE  MountInv'
  BY <1>7, <1>8 DEF Take, Answer, SendRequest
<1>9. CASE \/ ServeEnds \/ ReadFails \/ CheckRestart \/ ExecFails
           \/ (\E s \in Signals : SendSignal(s))
           \/ UpdaterReads \/ UpdaterInstalls \/ MoveLatest \/ UNCHANGED vars
  BY <1>7, <1>9 DEF ServeEnds, ReadFails, CheckRestart, ExecFails, SendSignal,
                    UpdaterReads, UpdaterInstalls, MoveLatest, vars
<1> QED
  BY <1>1, <1>2, <1>3, <1>4, <1>5, <1>6, <1>8, <1>9, ExecHandsOver DEF Next, Main

----------------------------------------------------------------------------
(* The versions.                                                           *)

\* three steps move the versions that are compared
LEMMA VersionFrame ==
    ASSUME [Next]_vars
    PROVE  \/ UpdaterReads \/ UpdaterInstalls \/ Exec
           \/ UNCHANGED <<run, bin, v, n, mixed>>
<1>1. ASSUME NEW p, ProcessEnds(p) PROVE UNCHANGED versions
  BY <1>1 DEF ProcessEnds
<1>2. Main => UNCHANGED versions
  BY <1>1 DEF Main, LoadDb, Mount, Inherit, Unmount, CloseFd, Exit
<1>3. HandleInit \/ ServeEnds \/ ReadFails => UNCHANGED versions
  BY DEF HandleInit, ServeEnds, ReadFails
<1>4. (\E r \in Reqs : Take(r) \/ Answer(r) \/ SendRequest(r)) => UNCHANGED versions
  BY DEF Take, Answer, SendRequest
<1>5. (\E s \in Signals : SendSignal(s)) => UNCHANGED versions
  BY DEF SendSignal
<1>6. HandleSignal \/ Panics \/ CheckRestart \/ ExecFails => UNCHANGED versions
  BY <1>1 DEF HandleSignal, Panics, CheckRestart, ExecFails
<1>7. MoveLatest \/ UNCHANGED vars => UNCHANGED <<run, bin, v, n, mixed>>
  BY DEF MoveLatest, vars, versions
<1> QED  BY <1>2, <1>3, <1>4, <1>5, <1>6, <1>7 DEF Next, versions

LEMMA VersionStep ==
    ASSUME TypeOK, VersionInv, [Next]_vars
    PROVE  VersionInv'
<1>1. CASE UpdaterReads
  BY <1>1 DEF TypeOK, VersionInv, UpdaterReads
<1>2. CASE UpdaterInstalls
  <2>1. v' >= run' /\ n' = 0
    BY <1>2 DEF TypeOK, VersionInv, UpdaterInstalls
  <2>2. ASSUME ~mixed' PROVE bin' = v'
    <3>1. CASE bin' = latest /\ mixed' = (mixed \/ latest # n) /\ v' = n
      BY <2>2, <3>1, Zenon
    <3>2. CASE UNCHANGED <<bin, mixed, v, sig>>
      BY <2>2, <3>2 DEF VersionInv
    <3> QED  BY <1>2, <3>1, <3>2 DEF UpdaterInstalls
  <2> QED  BY <2>1, <2>2 DEF VersionInv
<1>3. CASE Exec
  BY <1>3 DEF TypeOK, VersionInv, Exec, NewImage
<1>4. CASE UNCHANGED <<run, bin, v, n, mixed>>
  BY <1>4 DEF VersionInv
<1> QED  BY <1>1, <1>2, <1>3, <1>4, VersionFrame

----------------------------------------------------------------------------
(* The channel that is closed.                                             *)

LEMMA CloseStep ==
    ASSUME TypeOK, CloseInv, [Next]_vars
    PROVE  CloseInv'
<1> USE DEF CloseInv, ClosedOnce, process, signals, None
<1>1. CASE HandleSignal
  <2>1. ~shutdown
    BY <1>1 DEF HandleSignal
  <2>2. panic' # "closedTwice"
    BY <1>1, <2>1 DEF HandleSignal, Panic
  <2>3. handling' => ~shutdown'
    BY <1>1, <2>1 DEF HandleSignal
  <2> QED  BY <2>2, <2>3
<1>2. CASE Exec
  BY <1>2 DEF Exec, NewImage
<1>3. CASE UNCHANGED <<handling, shutdown, panic>>
  BY <1>3
<1>4. CASE Main \/ Panics
  BY <1>3, <1>4 DEF Main, LoadDb, Mount, Inherit, Unmount, CloseFd, Exit, Panics, ProcessEnds
<1>5. CASE \/ HandleInit \/ ServeEnds \/ ReadFails
           \/ (\E r \in Reqs : Take(r) \/ Answer(r) \/ SendRequest(r))
  BY <1>3, <1>5 DEF HandleInit, ServeEnds, ReadFails, Take, Answer, SendRequest
<1>6. CASE (\E s \in Signals : SendSignal(s)) \/ CheckRestart \/ ExecFails
  BY <1>3, <1>6 DEF SendSignal, CheckRestart, ExecFails
<1>7. CASE UpdaterReads \/ UpdaterInstalls \/ MoveLatest \/ UNCHANGED vars
  BY <1>3, <1>7 DEF UpdaterReads, UpdaterInstalls, MoveLatest, vars
<1> QED  BY <1>1, <1>2, <1>4, <1>5, <1>6, <1>7 DEF Next

----------------------------------------------------------------------------
(* The theorems.                                                           *)

LEMMA DaemonInvariant == Spec => []DaemonInv
<1>1. DaemonInv /\ [Next]_vars => DaemonInv'
  BY TypeStep, MountStep, VersionStep, CloseStep DEF DaemonInv
<1> QED  BY <1>1, DaemonInitially, PTL DEF Spec

(***************************************************************************)
(* The variables of the daemon keep their types, and GracefulExec gets to  *)
(* the descriptor only in an image that has finished apkgfs.New.           *)
(***************************************************************************)
THEOREM DaemonTypes == Spec => []TypeOK
<1>1. DaemonInv => TypeOK
  BY DEF DaemonInv
<1> QED  BY <1>1, DaemonInvariant, PTL

(***************************************************************************)
(* Whatever the order and number of signals, restarts and requests, no     *)
(* image closes its shutdownChan a second time.                            *)
(***************************************************************************)
THEOREM ShutdownClosesOnce == Spec => []ClosedOnce
<1>1. DaemonInv => ClosedOnce
  BY DEF DaemonInv, CloseInv
<1> QED  BY <1>1, DaemonInvariant, PTL

(***************************************************************************)
(* However many restarts follow each other, each image has the mount it    *)
(* was to take over, if none before it had been told to stop.              *)
(***************************************************************************)
THEOREM MountIsHandedOver == Spec => []HandsOverTheMount
<1>1. DaemonInv => HandsOverTheMount
  BY DEF DaemonInv, MountInv, HandsOverTheMount
<1> QED  BY <1>1, DaemonInvariant, PTL

(***************************************************************************)
(* No sequence of updates and restarts goes back to an older version of    *)
(* the binary as long as the link does not move between the Readlink and   *)
(* the Open of one check.                                                  *)
(***************************************************************************)
THEOREM NeverDowngrades == Spec => NoDowngrade
<1>1. DaemonInv /\ [Next]_vars => [run' >= run \/ mixed]_run
  <2> SUFFICES ASSUME DaemonInv, [Next]_vars, ~mixed PROVE run' >= run \/ run' = run
    OBVIOUS
  <2>1. CASE Exec
    BY <2>1 DEF DaemonInv, TypeOK, VersionInv, Exec, NewImage
  <2>2. CASE ~Exec
    BY <2>2, VersionFrame DEF UpdaterReads, UpdaterInstalls
  <2> QED  BY <2>1, <2>2
<1> QED  BY <1>1, DaemonInvariant, PTL DEF Spec, NoDowngrade

----------------------------------------------------------------------------
(* What a restart costs.                                                   *)

\* the first image mounts once
FreshInv == gen = 1 /\ phase \in {"loading", "mounting"} => conn = "none"

\* the kernel has had its INIT, and nobody reads its requests
Unserved == conn \in {"up", "mute"} /\ serve # "loop"

\* a restart leaves a connection that was set up unserved, and no later step,
\* another restart included, serves it again
UnservedStays ==
    [][/\ Unserved => Unserved' \/ conn' = "gone"
       /\ gen' # gen /\ conn \in {"up", "mute"} => Unserved' \/ conn' = "gone"]_vars

\* a request that was under way at a restart, or was read in place of INIT, is
\* never answered: it ends with the connection
LostStays ==
    [][\A r \in Reqs : req[r] = "lost" => req'[r] = "lost" \/ ~Mounted']_vars

\* an image that waits for its own mount does so whatever signals it gets
StuckStays == [][phase = "stuck" => phase' = "stuck" \/ panic = "nilUpdate"]_vars

LEMMA FreshInvariant == Spec => []FreshInv
<1>1. Init => FreshInv
  BY DEF Init, FreshInv
<1>2. TypeOK /\ FreshInv /\ [Next]_vars => FreshInv'
  <2> SUFFICES ASSUME TypeOK, FreshInv, [Next]_vars
               PROVE  FreshInv'
    OBVIOUS
  <2> USE DEF FreshInv
  <2>1. CASE Main
    BY <2>1 DEF Main, LoadDb, Mount, Inherit, Unmount, CloseFd, Exit, ProcessEnds, kernel,
         Mounted
  <2>2. CASE Exec
    <3>1. gen' = gen + 1 /\ gen \in Nat /\ gen >= 1
      BY <2>2 DEF Exec, NewImage, TypeOK
    <3> QED BY <3>1
  <2>3. CASE Panics
    BY <2>3 DEF Panics, ProcessEnds
  <2>4. CASE HandleInit
    BY <2>4 DEF HandleInit
  <2>5. CASE ~Main /\ ~Exec /\ ~Panics /\ ~HandleInit
    <3>1. UNCHANGED <<gen, phase, conn>>
      BY <2>5 DEF Next, vars, process, kernel, ServeEnds, ReadFails, Take, Answer, SendRequest,
           SendSignal, HandleSignal, CheckRestart, ExecFails, UpdaterReads, UpdaterInstalls,
           MoveLatest
    <3> QED BY <3>1
  <2> QED BY <2>1, <2>2, <2>3, <2>4, <2>5
<1>3. DaemonInv => TypeOK
  BY DEF DaemonInv
<1> QED BY <1>1, <1>2, <1>3, DaemonInvariant, PTL DEF Spec

(***************************************************************************)
(* A graceful restart of a daemon that serves its mount ends the service   *)
(* for good: handleInit of the new image waits for an INIT the kernel does *)
(* not repeat, and so does that of every image after it.                   *)
(***************************************************************************)
THEOREM RestartEndsService == Spec => UnservedStays
<1>1. ASSUME FreshInv, [Next]_vars
      PROVE  /\ Unserved => Unserved' \/ conn' = "gone"
             /\ gen' # gen /\ conn \in {"up", "mute"} => Unserved' \/ conn' = "gone"
  <2>1. CASE Main
    BY <1>1, <2>1 DEF FreshInv, Unserved, Main, LoadDb, Mount, Inherit, Unmount, CloseFd, Exit,
         ProcessEnds, kernel, Mounted
  <2>2. CASE Exec
    BY <2>2 DEF Unserved, Exec, NewImage
  <2>3. CASE Panics
    BY <2>3 DEF Unserved, Panics, ProcessEnds, Mounted
  <2>4. CASE HandleInit \/ ServeEnds \/ ReadFails
    BY <2>4 DEF Unserved, HandleInit, ServeEnds, ReadFails, kernel
  <2>5. CASE ~Main /\ ~Exec /\ ~Panics /\ ~HandleInit /\ ~ServeEnds /\ ~ReadFails
    <3>1. UNCHANGED <<gen, serve, conn>>
      BY <1>1, <2>5 DEF Next, vars, process, kernel, Take, Answer, SendRequest, SendSignal,
           HandleSignal, CheckRestart, ExecFails, UpdaterReads, UpdaterInstalls, MoveLatest
    <3> QED BY <3>1 DEF Unserved
  <2> QED BY <2>1, <2>2, <2>3, <2>4, <2>5
<1> QED BY <1>1, FreshInvariant, PTL DEF Spec, UnservedStays

(***************************************************************************)
(* A request the replaced image had taken, or the new one read in place of *)
(* INIT, is never answered, however many images follow: only the end of    *)
(* the connection releases the process that waits for it.                  *)
(***************************************************************************)
THEOREM LostRequestsStayLost == Spec => LostStays
<1>1. ASSUME TypeOK, [Next]_vars, NEW r \in Reqs, req[r] = "lost"
      PROVE  req'[r] = "lost" \/ ~Mounted'
  <2>1. req \in [Reqs -> {"idle", "queued", "taken", "lost"}]
    BY <1>1 DEF TypeOK
  <2>2. CASE Main
    BY <1>1, <2>2 DEF Main, LoadDb, Mount, Inherit, Unmount, CloseFd, Exit, ProcessEnds, kernel,
         Mounted
  <2>3. CASE Exec
    BY <1>1, <2>3 DEF Exec, Handed, Mounted
  <2>4. CASE Panics
    BY <2>4 DEF Panics, ProcessEnds, Mounted
  <2>5. CASE HandleInit \/ \E q \in Reqs : Take(q) \/ Answer(q) \/ SendRequest(q)
    BY <1>1, <2>1, <2>5 DEF HandleInit, Take, Answer, SendRequest
  <2>6. CASE /\ ~Main /\ ~Exec /\ ~Panics /\ ~HandleInit
             /\ ~\E q \in Reqs : Take(q) \/ Answer(q) \/ SendRequest(q)
    <3>1. req' = req
      BY <1>1, <2>6 DEF Next, vars, kernel, ServeEnds, ReadFails, SendSignal, HandleSignal,
           CheckRestart, ExecFails, UpdaterReads, UpdaterInstalls, MoveLatest
    <3> QED BY <1>1, <3>1
  <2> QED BY <2>2, <2>3, <2>4, <2>5, <2>6
<1>2. TypeOK /\ [Next]_vars =>
         \A r \in Reqs : req[r] = "lost" => req'[r] = "lost" \/ ~Mounted'
  BY <1>1
<1>3. DaemonInv => TypeOK
  BY DEF DaemonInv
<1> QED BY <1>2, <1>3, DaemonInvariant, PTL DEF Spec, LostStays

(***************************************************************************)
(* An image that waits in MkdirAll for an answer it would have to give     *)
(* itself is not ended by SIGTERM and not replaced by SIGUSR2; only the    *)
(* panic of an Update before the database was loaded ends it.              *)
(***************************************************************************)
THEOREM StuckIsForever == Spec => StuckStays
<1>1. ASSUME TypeOK, CloseInv, [Next]_vars, phase = "stuck"
      PROVE  phase' = "stuck" \/ panic = "nilUpdate"
  <2>1. CASE Main
    BY <1>1, <2>1 DEF Main, LoadDb, Mount, Inherit, Unmount, CloseFd, Exit
  <2>2. CASE Exec
    BY <1>1, <2>2 DEF Exec, TypeOK
  <2>3. CASE Panics
    BY <1>1, <2>3 DEF Panics, TypeOK, CloseInv, ClosedOnce
  <2>4. CASE ~Main /\ ~Exec /\ ~Panics
    <3>1. phase' = phase
      BY <1>1, <2>4 DEF Next, vars, process, HandleInit, ServeEnds, ReadFails, Take, Answer,
           SendRequest, SendSignal, HandleSignal, CheckRestart, ExecFails, UpdaterReads,
           UpdaterInstalls, MoveLatest
    <3> QED BY <1>1, <3>1
  <2> QED BY <2>1, <2>2, <2>3, <2>4
<1>2. DaemonInv => TypeOK /\ CloseInv
  BY DEF DaemonInv
<1> QED BY <1>1, <1>2, DaemonInvariant, PTL DEF Spec, StuckStays

----------------------------------------------------------------------------
(* The server.  FuseServer shares the requests with Daemon, the rest are   *)
(* its own constants and variables.                                        *)

CONSTANTS
    Kind, MainDb, Subs, MaxBuilds, MaxBackground, NoCache, Torn

VARIABLES
    ldso, upd, table, known, page, queue, st, data

Fuse == INSTANCE FuseServer WITH Main <- MainDb

\* the requests the kernel holds back wait, each once
QueueInv ==
    /\ \A i \in 1 .. Len(queue) : st[queue[i]] = "waiting"
    /\ \A i, j \in 1 .. Len(queue) : queue[i] = queue[j] => i = j

ServerInv ==
    /\ Fuse!TypeOK
    /\ \A d \in Fuse!DB : upd[d] = "swap" => ldso[d] < MaxBuilds
    /\ QueueInv

Contents == Fuse!Builds \cup {NoCache, Torn}

\* FuseServer counts with its own instance of FiniteSets
LEMMA SameFinite ==
    ASSUME NEW S
    PROVE  Fuse!IsFiniteSet(S) <=> IsFiniteSet(S)
  BY DEF Fuse!IsFiniteSet, IsFiniteSet

LEMMA SameCardinality ==
    ASSUME NEW S
    PROVE  Fuse!Cardinality(S) = Cardinality(S)
  BY DEF Fuse!Cardinality, Cardinality

\* the elements of a queue one is added to, and of one that lost its first
LEMMA AppendKeeps ==
    ASSUME NEW T, NEW s \in Seq(T), NEW e \in T
    PROVE  /\ Append(s, e) \in Seq(T) /\ Len(s) \in Nat
           /\ Len(Append(s, e)) = Len(s) + 1
           /\ \A i \in 1 .. Len(s) : Append(s, e)[i] = s[i]
           /\ Append(s, e)[Len(s) + 1] = e
  OBVIOUS

LEMMA TailShifts ==
    ASSUME NEW T, NEW s \in Seq(T), s # <<>>
    PROVE  /\ Tail(s) \in Seq(T)
           /\ Len(s) \in Nat /\ Len(s) > 0 /\ Len(Tail(s)) = Len(s) - 1
           /\ \A i \in 1 .. Len(s) - 1 : Tail(s)[i] = s[i + 1]
           /\ Head(s) = s[1] /\ Head(s) \in T
  OBVIOUS

LEMMA ContentType ==
    ASSUME ldso \in [Fuse!DB -> 0 .. MaxBuilds], NEW d \in Fuse!DB
    PROVE  Fuse!Content(d) \in Fuse!Builds
  BY DEF Fuse!Content, Fuse!Builds

----------------------------------------------------------------------------
(* The invariant, by the part of the system that takes the step.           *)

LEMMA ServerInit ==
    ASSUME Fuse!ServerAssumption, Fuse!Init
    PROVE  ServerInv
<1> USE DEF Fuse!ServerAssumption, Fuse!Init
<1>1. queue \in Seq(Reqs) /\ Len(queue) = 0
  OBVIOUS
<1>2. known \in BOOLEAN
  BY Zenon
<1>4. /\ ldso \in [Fuse!DB -> 0 .. MaxBuilds] /\ upd \in [Fuse!DB -> Fuse!UpdStages]
      /\ st \in [Reqs -> Fuse!Stages] /\ data \in [Reqs -> Contents]
  BY DEF Fuse!UpdStages, Fuse!Stages, Contents
<1>5. Fuse!TypeOK
  BY <1>1, <1>2, <1>4 DEF Fuse!TypeOK, Contents
<1>6. QueueInv
  BY <1>1 DEF QueueInv
<1> QED
  BY <1>5, <1>6 DEF ServerInv

\* the kernel sends a request or keeps it back
LEMMA KernelStep ==
    ASSUME Fuse!ServerAssumption, ServerInv, NEW r \in Reqs, Fuse!Kernel(r)
    PROVE  ServerInv'
<1> USE DEF Fuse!ServerAssumption, ServerInv, Fuse!kernel, Fuse!request
<1>1. PICK s \in {"sent", "waiting"} :
        /\ st[r] = "idle" /\ st' = [st EXCEPT ![r] = s] /\ data' = data
        /\ s = "sent" => queue' = queue
        /\ s = "waiting" => queue' = Append(queue, r)
  BY DEF Fuse!Kernel, Fuse!SendLookup, Fuse!SendBackground, Fuse!SendForget,
     Fuse!Send, Fuse!InFlight
<1>2. /\ UNCHANGED <<ldso, upd, table>>
      /\ known' \in BOOLEAN /\ page' \in Contents
  BY DEF Fuse!Kernel, Fuse!SendLookup, Fuse!SendBackground, Fuse!SendForget,
     Fuse!TypeOK, Contents
<1>3. /\ queue \in Seq(Reqs) /\ Len(queue) \in Nat /\ st \in [Reqs -> Fuse!Stages]
      /\ \A i \in 1 .. Len(queue) : queue[i] \in Reqs
  BY DEF Fuse!TypeOK
<1>4. queue' \in Seq(Reqs)
  BY <1>1, <1>3, AppendKeeps
<1>5. st' \in [Reqs -> Fuse!Stages]
  BY <1>1, <1>3 DEF Fuse!Stages
<1>6. Fuse!TypeOK'
  BY <1>1, <1>2, <1>4, <1>5 DEF Fuse!TypeOK, Contents
<1>7. \A i \in 1 .. Len(queue) : queue[i] # r /\ st'[queue[i]] = "waiting"
  BY <1>1, <1>3 DEF QueueInv
<1>8. QueueInv'
  <2>1. CASE s = "sent"
    BY <1>1, <1>7, <2>1 DEF QueueInv
  <2>2. CASE s = "waiting"
    <3>1. /\ Len(queue') = Len(queue) + 1 /\ queue'[Len(queue) + 1] = r
          /\ \A i \in 1 .. Len(queue) : queue'[i] = queue[i]
      BY <1>1, <1>3, <2>2, AppendKeeps
    <3>2. \A i \in 1 .. Len(queue') : i \in 1 .. Len(queue) \/ i = Len(queue) + 1
      BY <1>3, <3>1
    <3>3. st'[r] = "waiting"
      BY <1>1, <1>3, <2>2
    <3>4. ASSUME NEW i \in 1 .. Len(queue')
          PROVE  st'[queue'[i]] = "waiting"
      BY <1>7, <3>1, <3>2, <3>3
    <3>5. ASSUME NEW i \in 1 .. Len(queue'), NEW j \in 1 .. Len(queue'), queue'[i] = queue'[j]
          PROVE  i = j
      BY <1>7, <3>1, <3>2, <3>5 DEF QueueInv
    <3> QED
      BY <3>4, <3>5 DEF QueueInv
  <2> QED
    BY <2>1, <2>2
<1> QED
  BY <1>2, <1>6, <1>8

\* a request is served; an answer may make room for one that waits
LEMMA ServeStep ==
    ASSUME Fuse!ServerAssumption, ServerInv, NEW r \in Reqs, Fuse!Serve(r)
    PROVE  ServerInv'
<1> USE DEF Fuse!ServerAssumption, ServerInv, Fuse!kernel, Fuse!request
<1>1. /\ queue \in Seq(Reqs) /\ Len(queue) \in Nat /\ st \in [Reqs -> Fuse!Stages]
      /\ data \in [Reqs -> Contents]
      /\ \A i \in 1 .. Len(queue) : queue[i] \in Reqs
  BY DEF Fuse!TypeOK, Contents
<1>2. st[r] \notin {"idle", "waiting"}
  BY DEF Fuse!Serve, Fuse!GetInode, Fuse!AddToCache, Fuse!DoForget, Fuse!DoRelease,
     Fuse!DoLookupPkg, Fuse!Reply
<1>3. \A i \in 1 .. Len(queue) : queue[i] # r
  BY <1>2 DEF QueueInv
<1>4. CASE \/ Fuse!GetInode(r) \/ Fuse!AddToCache(r) \/ Fuse!DoForget(r)
           \/ Fuse!DoRelease(r) \/ Fuse!DoLookupPkg(r)
  <2>1. /\ UNCHANGED <<ldso, upd, known, page, queue>>
        /\ \E s \in Fuse!Stages : st' = [st EXCEPT ![r] = s]
    BY <1>4 DEF Fuse!GetInode, Fuse!AddToCache, Fuse!DoForget, Fuse!DoRelease,
       Fuse!DoLookupPkg, Fuse!Stages
  <2>2. Fuse!Snapshots \subseteq Contents
    BY ContentType DEF Fuse!Snapshots, Contents, Fuse!TypeOK, Fuse!DB
  <2>3. /\ table' \in Contents
        /\ data' = data \/ \E c \in Contents : data' = [data EXCEPT ![r] = c]
    BY <1>1, <1>4, <2>2 DEF Fuse!GetInode, Fuse!AddToCache, Fuse!DoForget,
       Fuse!DoRelease, Fuse!DoLookupPkg, Fuse!TypeOK, Contents
  <2>4. data' \in [Reqs -> Contents] /\ st' \in [Reqs -> Fuse!Stages]
    BY <1>1, <2>1, <2>3
  <2>5. Fuse!TypeOK'
    BY <2>1, <2>3, <2>4 DEF Fuse!TypeOK, Contents
  <2>6. \A i \in 1 .. Len(queue) : st'[queue[i]] = st[queue[i]]
    BY <1>1, <1>3, <2>1
  <2>7. QueueInv'
    BY <2>1, <2>6 DEF QueueInv
  <2> QED
    BY <2>1, <2>5, <2>7
<1>5. CASE Fuse!Reply(r)
  <2>1. UNCHANGED <<ldso, upd, table>> /\ data' \in [Reqs -> Contents]
    BY <1>1, <1>5 DEF Fuse!Reply, Contents
  <2>2. known' \in BOOLEAN
    BY <1>5 DEF Fuse!Reply, Fuse!TypeOK
  <2>3. page' \in Contents
    BY <1>1, <1>5 DEF Fuse!Reply, Fuse!TypeOK, Contents
  <2>4. CASE queue' = queue /\ st' = [st EXCEPT ![r] = "idle"]
    <3>1. /\ st' \in [Reqs -> Fuse!Stages]
          /\ \A i \in 1 .. Len(queue) : st'[queue[i]] = st[queue[i]]
      BY <1>1, <1>3, <2>4 DEF Fuse!Stages
    <3>2. Fuse!TypeOK'
      BY <2>1, <2>2, <2>3, <2>4, <3>1 DEF Fuse!TypeOK, Contents
    <3>3. QueueInv'
      BY <2>4, <3>1 DEF QueueInv
    <3> QED
      BY <2>1, <3>2, <3>3
  <2>5. CASE /\ queue # <<>> /\ queue' = Tail(queue)
             /\ st' = [[st EXCEPT ![r] = "idle"] EXCEPT ![Head(queue)] = "sent"]
    <3>1. /\ queue' \in Seq(Reqs) /\ Len(queue) > 0 /\ Len(queue') = Len(queue) - 1
          /\ \A i \in 1 .. Len(queue) - 1 : queue'[i] = queue[i + 1]
          /\ Head(queue) = queue[1] /\ Head(queue) \in Reqs
      BY <1>1, <2>5, TailShifts
    <3>2. st' \in [Reqs -> Fuse!Stages]
      BY <1>1, <2>5, <3>1 DEF Fuse!Stages
    <3>3. Fuse!TypeOK'
      BY <2>1, <2>2, <2>3, <3>1, <3>2 DEF Fuse!TypeOK, Contents
    <3>4. ASSUME NEW i \in 1 .. Len(queue')
          PROVE  /\ i + 1 \in 1 .. Len(queue) /\ queue'[i] = queue[i + 1]
                 /\ st'[queue'[i]] = "waiting"
      <4>1. i \in 1 .. Len(queue) - 1
        BY <3>1
      <4>2. queue'[i] = queue[i + 1]
        BY <3>1, <4>1
      <4>3. i + 1 \in 1 .. Len(queue) /\ 1 \in 1 .. Len(queue) /\ i + 1 # 1
        BY <1>1, <4>1
      <4>4. /\ i + 1 \in 1 .. Len(queue) /\ 1 \in 1 .. Len(queue) /\ i + 1 # 1
            /\ queue'[i] = queue[i + 1]
        BY <4>2, <4>3
      <4>5. queue[i + 1] # queue[1] /\ queue[i + 1] # r /\ st[queue[i + 1]] = "waiting"
        BY <1>3, <4>4 DEF QueueInv
      <4>6. queue[i + 1] \in Reqs
        BY <1>1, <4>4
      <4> QED
        BY <1>1, <2>5, <3>1, <4>4, <4>5, <4>6
    <3>5. ASSUME NEW i \in 1 .. Len(queue'), NEW j \in 1 .. Len(queue'), queue'[i] = queue'[j]
          PROVE  i = j
      <4>1. i + 1 = j + 1
        BY <3>4, <3>5 DEF QueueInv
      <4> QED
        BY <4>1
    <3>6. QueueInv'
      BY <3>4, <3>5 DEF QueueInv
    <3> QED
      BY <2>1, <3>3, <3>6
  <2> QED
    BY <1>5, <2>4, <2>5 DEF Fuse!Reply
<1> QED
  BY <1>4, <1>5 DEF Fuse!Serve

\* an update thread replaces its cache and tries to notify the kernel
LEMMA UpdateStep ==
    ASSUME Fuse!ServerAssumption, ServerInv, NEW d \in Fuse!DB,
           Fuse!BuildLdso(d) \/ Fuse!Push(d)
    PROVE  ServerInv'
<1> USE DEF Fuse!ServerAssumption, ServerInv, Fuse!kernel, Fuse!request, Fuse!Goto
<1>1. UNCHANGED <<table, known, queue, st, data>>
  BY DEF Fuse!Push, Fuse!BuildLdso, Fuse!BuiltLdso, Fuse!InodeNotify
<1>2. page' \in Contents
  BY ContentType DEF Fuse!Push, Fuse!BuildLdso, Fuse!BuiltLdso, Fuse!InodeNotify, Fuse!TypeOK,
     Contents
<1>3. /\ ldso' \in [Fuse!DB -> 0 .. MaxBuilds] /\ upd' \in [Fuse!DB -> Fuse!UpdStages]
      /\ \A e \in Fuse!DB : upd'[e] = "swap" => ldso'[e] < MaxBuilds
  <2>1. /\ ldso \in [Fuse!DB -> 0 .. MaxBuilds] /\ upd \in [Fuse!DB -> Fuse!UpdStages]
        /\ MaxBuilds \in Nat
        /\ \A e \in Fuse!DB : upd[e] = "swap" => ldso[e] < MaxBuilds
    BY DEF Fuse!TypeOK
  <2>2. CASE Fuse!BuildLdso(d)
    BY <2>1, <2>2 DEF Fuse!BuildLdso, Fuse!UpdStages
  <2>3. CASE Fuse!BuiltLdso(d)
    <3>1. ldso[d] + 1 \in 0 .. MaxBuilds
      BY <2>1, <2>3 DEF Fuse!BuiltLdso
    <3>2. ldso' = [ldso EXCEPT ![d] = ldso[d] + 1] /\ upd' = [upd EXCEPT ![d] = "notify"]
      BY <2>3 DEF Fuse!BuiltLdso
    <3> QED
      BY <2>1, <3>1, <3>2 DEF Fuse!UpdStages
  <2>4. CASE Fuse!Push(d) /\ ~Fuse!BuiltLdso(d)
    <3>1. ldso' = ldso /\ \E l \in Fuse!UpdStages : l # "swap" /\ upd' = [upd EXCEPT ![d] = l]
      BY <2>4 DEF Fuse!Push, Fuse!InodeNotify, Fuse!UpdStages
    <3> QED
      BY <2>1, <3>1
  <2> QED
    BY <2>2, <2>3, <2>4
<1>5. Fuse!TypeOK'
  BY <1>1, <1>2, <1>3 DEF Fuse!TypeOK, Contents
<1>6. QueueInv'
  BY <1>1 DEF QueueInv
<1> QED
  BY <1>3, <1>5, <1>6

LEMMA ServerInvariant == Fuse!ServerAssumption /\ Fuse!Spec => []ServerInv
<1> SUFFICES ASSUME Fuse!ServerAssumption
             PROVE  Fuse!Spec => []ServerInv
  OBVIOUS
<1>1. ServerInv /\ [Fuse!Next]_(Fuse!vars) => ServerInv'
  <2>1. ASSUME ServerInv, Fuse!DropPage
        PROVE  ServerInv'
    <3>1. UNCHANGED <<ldso, upd, table, known, queue, st, data>> /\ page' = NoCache
      BY <2>1 DEF Fuse!DropPage, Fuse!request
    <3> QED
      BY <2>1, <3>1 DEF ServerInv, Fuse!TypeOK, QueueInv
  <2>2. ASSUME ServerInv, UNCHANGED Fuse!vars
        PROVE  ServerInv'
    <3>1. UNCHANGED <<ldso, upd, table, known, page, queue, st, data>>
      BY <2>2 DEF Fuse!vars, Fuse!kernel, Fuse!request
    <3> QED
      BY <2>2, <3>1 DEF ServerInv, Fuse!TypeOK, QueueInv
  <2> QED
    BY <2>1, <2>2, KernelStep, ServeStep, UpdateStep DEF Fuse!Next
<1> QED
  BY <1>1, ServerInit, PTL DEF Fuse!Spec

(***************************************************************************)
(* The variables of the server and of the kernel's side keep their types,  *)
(* for any number of databases and requests.                               *)
(***************************************************************************)
THEOREM ServerTypes == Fuse!ServerAssumption /\ Fuse!Spec => []Fuse!TypeOK
<1>1. ServerInv => Fuse!TypeOK
  BY DEF ServerInv
<1> QED
  BY <1>1, ServerInvariant, PTL

----------------------------------------------------------------------------
(* Whose cache is served.                                                  *)

\* what may be found in the table, in the kernel and in a handler
Served == {NoCache, Torn} \cup {<<MainDb, i>> : i \in 0 .. ldso[MainDb]}

(***************************************************************************)
(* However many sub-databases push their caches as inode 2, the kernel is  *)
(* only ever given builds of the main database, or torn reads of them.     *)
(***************************************************************************)
THEOREM OnlyMainsCacheIsServed == Fuse!ServerAssumption /\ Fuse!Spec => []Fuse!CacheIsMains
<1> SUFFICES ASSUME Fuse!ServerAssumption
             PROVE  Fuse!Spec => []Fuse!CacheIsMains
  OBVIOUS
<1>1. Fuse!CacheIsMains <=> table \in Served /\ page \in Served /\ \A r \in Reqs : data[r] \in Served
  BY DEF Fuse!CacheIsMains, Served
<1>2. ASSUME Fuse!Init
      PROVE  Fuse!CacheIsMains
  BY <1>1, <1>2 DEF Fuse!Init, Served
<1>3. ASSUME ServerInv, Fuse!CacheIsMains, [Fuse!Next]_(Fuse!vars)
      PROVE  Fuse!CacheIsMains'
  <2> USE DEF Fuse!kernel, Fuse!request
  <2>1. /\ ldso \in [Fuse!DB -> 0 .. MaxBuilds] /\ MainDb \in Fuse!DB
        /\ data \in [Reqs -> Contents] /\ MaxBuilds \in Nat
    BY <1>3 DEF ServerInv, Fuse!TypeOK, Fuse!DB, Contents, Fuse!ServerAssumption
  <2>2. /\ table \in Served /\ page \in Served
        /\ \A r \in Reqs : data[r] \in Served
    BY <1>1, <1>3
  <2>3. NoCache \in Served /\ Fuse!Snapshots \subseteq Served
    BY <2>1, <2>2 DEF Served, Fuse!Snapshots, Fuse!Content
  <2>4. /\ ldso'[MainDb] \in Nat /\ ldso'[MainDb] >= ldso[MainDb]
    <3>1. CASE \E d \in Fuse!DB : Fuse!BuiltLdso(d)
      BY <2>1, <3>1 DEF Fuse!BuiltLdso
    <3>2. CASE ldso' = ldso
      BY <2>1, <3>2
    <3> QED
      BY <1>3, <3>1, <3>2 DEF Fuse!Next, Fuse!vars, Fuse!Kernel, Fuse!Serve, Fuse!Push,
         Fuse!SendLookup, Fuse!SendBackground, Fuse!SendForget, Fuse!GetInode,
         Fuse!AddToCache, Fuse!DoForget, Fuse!DoRelease, Fuse!DoLookupPkg, Fuse!Reply,
         Fuse!BuildLdso, Fuse!InodeNotify, Fuse!DropPage
  <2>5. Served \subseteq Served'
    BY <2>1, <2>4 DEF Served
  <2>6. table' \in Served /\ page' \in Served /\ \A r \in Reqs : data'[r] \in Served
    <3>1. CASE \E r \in Reqs : Fuse!Kernel(r)
      BY <2>2, <2>3, <3>1 DEF Fuse!Kernel, Fuse!SendLookup, Fuse!SendBackground,
         Fuse!SendForget, Fuse!Send
    <3>2. ASSUME NEW r \in Reqs, Fuse!Serve(r)
          PROVE  /\ table' \in Served /\ page' \in Served
                 /\ data' = data \/ \E c \in Served : data' = [data EXCEPT ![r] = c]
      BY <2>2, <2>3, <3>2 DEF Fuse!Serve, Fuse!GetInode, Fuse!AddToCache, Fuse!DoForget,
         Fuse!DoRelease, Fuse!DoLookupPkg, Fuse!Reply
    <3>3. CASE \E r \in Reqs : Fuse!Serve(r)
      BY <2>1, <2>2, <3>2, <3>3
    <3>4. CASE \E d \in Fuse!DB : Fuse!BuildLdso(d) \/ Fuse!Push(d)
      BY <2>2, <3>4 DEF Fuse!BuildLdso, Fuse!Push, Fuse!BuiltLdso, Fuse!InodeNotify
    <3>5. CASE Fuse!DropPage \/ UNCHANGED Fuse!vars
      BY <2>2, <2>3, <3>5 DEF Fuse!DropPage, Fuse!vars
    <3> QED
      BY <1>3, <3>1, <3>3, <3>4, <3>5 DEF Fuse!Next
  <2>7. table' \in Served' /\ page' \in Served' /\ \A r \in Reqs : data'[r] \in Served'
    BY <2>5, <2>6
  <2> QED
    BY <2>7 DEF Fuse!CacheIsMains, Served
<1> QED
  BY <1>2, <1>3, ServerInvariant, PTL DEF Fuse!Spec

----------------------------------------------------------------------------
(* The exception of Answered.                                              *)

\* no step answers a release
StarvedStays == [][Fuse!Starved => Fuse!Starved']_(Fuse!vars)

(***************************************************************************)
(* Releases that handleRequest leaves without an answer pile up: once they *)
(* fill the kernel's room for background requests, they do so for good.    *)
(***************************************************************************)
THEOREM StarvationIsForever == Fuse!ServerAssumption /\ Fuse!Spec => StarvedStays
<1> SUFFICES ASSUME Fuse!ServerAssumption
             PROVE  Fuse!Spec => StarvedStays
  OBVIOUS
<1>1. ASSUME ServerInv, [Fuse!Next]_(Fuse!vars), Fuse!Starved
      PROVE  Fuse!Starved'
  <2> USE DEF Fuse!ServerAssumption
  <2> DEFINE S == {r \in Reqs : st[r] = "unanswered"}
             T == {r \in Reqs : st'[r] = "unanswered"}
  <2>1. st \in [Reqs -> Fuse!Stages]
    BY <1>1 DEF ServerInv, Fuse!TypeOK
  <2>2. ASSUME NEW r \in Reqs, st[r] = "unanswered"
        PROVE  st'[r] = "unanswered"
    <3>1. CASE \E d \in Fuse!DB : Fuse!BuildLdso(d) \/ Fuse!Push(d)
      BY <2>2, <3>1 DEF Fuse!BuildLdso, Fuse!Push, Fuse!BuiltLdso, Fuse!InodeNotify,
         Fuse!request
    <3>2. CASE Fuse!DropPage \/ UNCHANGED Fuse!vars
      BY <2>2, <3>2 DEF Fuse!DropPage, Fuse!vars, Fuse!request
    <3>3. CASE \E q \in Reqs : Fuse!Kernel(q)
      BY <2>1, <2>2, <3>3 DEF Fuse!Kernel, Fuse!SendLookup, Fuse!SendBackground,
         Fuse!SendForget, Fuse!Send, Fuse!InFlight
    <3>4. CASE \E q \in Reqs : Fuse!Serve(q)
      <4>1. PICK q \in Reqs : Fuse!Serve(q)
        BY <3>4
      <4>2. q # r
        BY <2>2, <4>1 DEF Fuse!Serve, Fuse!GetInode, Fuse!AddToCache, Fuse!DoForget,
           Fuse!DoRelease, Fuse!DoLookupPkg, Fuse!Reply
      <4>3. queue # <<>> => Head(queue) # r
        <5>1. queue # <<>> => Head(queue) = queue[1] /\ 1 \in 1 .. Len(queue)
          BY <1>1, TailShifts DEF ServerInv, Fuse!TypeOK
        <5> QED
          BY <1>1, <2>2, <5>1 DEF ServerInv, QueueInv
      <4> QED
        BY <2>1, <2>2, <4>1, <4>2, <4>3 DEF Fuse!Serve, Fuse!GetInode,
           Fuse!AddToCache, Fuse!DoForget, Fuse!DoRelease, Fuse!DoLookupPkg,
           Fuse!Reply
    <3> QED
      BY <1>1, <3>1, <3>2, <3>3, <3>4 DEF Fuse!Next
  <2>3. S \in SUBSET T /\ T \in SUBSET Reqs
    BY <2>2
  <2> HIDE DEF S, T
  <2>4. IsFiniteSet(Reqs)
    BY SameFinite
  <2>5. IsFiniteSet(T) /\ Cardinality(S) <= Cardinality(T)
    BY <2>3, <2>4, FS_Subset
  <2>6. IsFiniteSet(S) /\ Cardinality(S) \in Nat /\ Cardinality(T) \in Nat
    BY <2>3, <2>5, FS_Subset, FS_CardinalityType
  <2>7. Cardinality(S) >= MaxBackground
    BY <1>1, SameCardinality DEF Fuse!Starved, S
  <2>8. Cardinality(T) >= MaxBackground
    BY <2>5, <2>6, <2>7
  <2> QED
    BY <2>8, SameCardinality DEF Fuse!Starved, T
<1> QED
  BY <1>1, ServerInvariant, PTL DEF StarvedStays, Fuse!Spec
============================================================================
