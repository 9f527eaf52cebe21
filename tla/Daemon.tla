------------------------------- MODULE Daemon -------------------------------
(***************************************************************************)
(* The life of the daemon (main.go, updater.go; New, Serve and Unmount of  *)
(* apkgfs/fs.go; Serve and handleInit of server.go; server_linux.go): main *)
(* loads the database, mounts and waits to be told to stop, a goroutine    *)
(* handles signals, another serves the descriptor, the updater installs    *)
(* newer binaries, and a restart replaces the image of the process while   *)
(* the mount and the requests under way stay.                              *)
(*                                                                         *)
(* The kernel's side is external: requests wait for INIT, those taken from *)
(* the descriptor wait for an answer, and all fail once the connection is  *)
(* gone.  What serving a request needs is the subject of FuseServer.       *)
(***************************************************************************)
EXTENDS Naturals

CONSTANTS
    Reqs,       \* requests the kernel can have under way
    MaxGen,     \* bound on the number of images
    MaxVersion, \* versions of the binary are 1 .. MaxVersion
    FirstRun    \* the one that runs first

ASSUME DaemonAssumption ==
    /\ MaxGen \in Nat \ {0}
    /\ MaxVersion \in Nat
    /\ FirstRun \in 1 .. MaxVersion

VARIABLES
    gen,        \* which image of the process this is
    phase,      \* where main is
    serve,      \* where FuseServer.Serve is
    conn,       \* the kernel's connection
    fdOpen,     \* FuseServer.Fd is open
    req,        \* where a request is
    sig,        \* the channel of signals, room for one
    handling,   \* the goroutine that reads it has not returned
    shutdown,   \* shutdownChan is closed
    restart,    \* where gracefulRestart is
    panic,      \* what a goroutine is about to panic of
    overtaken,  \* ghost: an image was replaced after it was told to stop
    run,        \* DATE_TAG of this image
    bin,        \* version of the file it was started from
    latest,     \* version azusa.apkg.core points to
    v, n,       \* updater's variables; n is 0 between two checks
    mixed       \* ghost: a version was installed that was not compared

process == <<phase, serve, fdOpen>>
signals == <<sig, handling, shutdown, restart, panic>>
kernel == <<conn, req>>
versions == <<run, bin, latest, v, n, mixed>>
vars == <<gen, process, kernel, signals, overtaken, versions>>

Phases == {"loading", "mounting", "stuck", "serving", "unmounted", "closed",
           "exited", "crashed"}
Serves == {"none", "init", "loop", "done", "failed", "refused"}
Conns == {"none", "init", "mute", "up", "gone"}
Signals == {"TERM", "HUP", "USR2"}
None == "none"

Alive == phase \notin {"exited", "crashed"}
Mounted == conn \in {"init", "mute", "up"}
Pending(r) == req[r] # "idle"

Init ==
    /\ gen = 1
    /\ phase = "loading" /\ serve = "none" /\ fdOpen = FALSE
    /\ conn = "none" /\ req = [r \in Reqs |-> "idle"]
    /\ sig = None /\ handling = TRUE /\ shutdown = FALSE
    /\ restart = None /\ panic = None /\ overtaken = FALSE
    /\ run = FirstRun /\ bin = FirstRun /\ v = FirstRun
    /\ latest = FirstRun /\ n = 0 /\ mixed = FALSE

----------------------------------------------------------------------------
(* The end of the process closes the descriptor: all requests fail.        *)

ProcessEnds(p) ==
    /\ phase' = p
    /\ fdOpen' = FALSE
    /\ conn' = IF Mounted THEN "gone" ELSE conn
    /\ req' = [r \in Reqs |-> "idle"]
    /\ UNCHANGED <<gen, serve, signals, overtaken, versions>>

----------------------------------------------------------------------------
(* main.                                                                   *)

\* apkgdb.New
LoadDb ==
    /\ phase = "loading"
    /\ \/ /\ phase' = "mounting"
          /\ UNCHANGED <<gen, serve, fdOpen, kernel, signals, overtaken, versions>>
       \/ ProcessEnds("exited")

FuseMount == fdOpen' = TRUE /\ conn' = "init"

\* apkgfs.New of the first image; what doMount undoes when one of its two
\* mounts fails ends with the process
Mount ==
    /\ phase = "mounting" /\ gen = 1
    /\ \/ /\ phase' = "serving" /\ serve' = "init"
          /\ FuseMount
          /\ UNCHANGED <<gen, req, signals, overtaken, versions>>
       \/ ProcessEnds("exited")

\* apkgfs.New of a later one: MkdirAll stats the mount, whose attributes
\* the kernel has cached, asks for, or refuses when the connection is gone,
\* and doMount takes the descriptor it was given
Inherit ==
    /\ phase = "mounting" /\ gen > 1
    /\ \/ /\ \/ phase' = "serving" /\ serve' = "init"
             \/ Mounted /\ phase' = "stuck" /\ UNCHANGED serve
          /\ UNCHANGED <<gen, fdOpen, kernel, signals, overtaken, versions>>
       \/ conn = "gone" /\ ProcessEnds("exited")

\* mutant: main returns once Serve has ended
UnmountWaits ==
    /\ phase = "serving" /\ shutdown /\ serve = "done"
    /\ phase' = "unmounted"
    /\ UNCHANGED <<gen, serve, fdOpen, kernel, signals, overtaken, versions>>

\* the deferred Unmount: the kernel refuses to unmount what is in use
Unmount ==
    /\ phase = "serving" /\ shutdown
    /\ phase' = "unmounted"
    /\ \/ UNCHANGED conn
       \/ Mounted /\ ~(\E r \in Reqs : Pending(r)) /\ conn' = "gone"
    /\ UNCHANGED <<gen, serve, fdOpen, req, signals, overtaken, versions>>

CloseFd ==
    /\ phase = "unmounted"
    /\ phase' = "closed" /\ fdOpen' = FALSE
    /\ UNCHANGED <<gen, serve, kernel, signals, overtaken, versions>>

Exit == phase = "closed" /\ ProcessEnds("exited")

----------------------------------------------------------------------------
(* Serve.                                                                  *)

\* mutant: no answer to an INIT of a newer kernel
HandleInitSilent ==
    /\ Alive /\ serve = "init" /\ fdOpen
    /\ conn = "init" /\ conn' = "mute" /\ serve' = "loop" /\ UNCHANGED req
    /\ UNCHANGED <<gen, phase, fdOpen, signals, overtaken, versions>>

\* handleInit: what is read is INIT, or one the server cannot talk to, or a
\* request of a connection an earlier image has set up
HandleInit ==
    /\ Alive /\ serve = "init" /\ fdOpen
    /\ \/ conn = "init" /\ conn' = "up" /\ serve' = "loop" /\ UNCHANGED req
       \/ conn = "init" /\ conn' = "mute" /\ serve' = "refused" /\ UNCHANGED req
       \/ \E r \in Reqs :
            /\ conn = "up" /\ req[r] = "queued"
            /\ req' = [req EXCEPT ![r] = "lost"]
            /\ serve' = "refused"
            /\ UNCHANGED conn
    /\ UNCHANGED <<gen, phase, fdOpen, signals, overtaken, versions>>

Take(r) ==
    /\ Alive /\ serve = "loop" /\ fdOpen /\ conn = "up" /\ req[r] = "queued"
    /\ req' = [req EXCEPT ![r] = "taken"]
    /\ UNCHANGED <<gen, process, conn, signals, overtaken, versions>>

\* the goroutine of handleRequest, which outlives the loop; a release, which
\* gets no answer, is the subject of FuseServer
Answer(r) ==
    /\ Alive /\ fdOpen /\ req[r] = "taken"
    /\ req' = [req EXCEPT ![r] = "idle"]
    /\ UNCHANGED <<gen, process, conn, signals, overtaken, versions>>

\* ENODEV; Serve waits for its goroutines
ServeEnds ==
    /\ Alive /\ conn = "gone" /\ fdOpen
    /\ \/ serve = "loop" /\ serve' = "done"
       \/ serve = "init" /\ serve' = "failed"
    /\ UNCHANGED <<gen, phase, fdOpen, kernel, signals, overtaken, versions>>

\* any other error of read, the one of a closed descriptor included
ReadFails ==
    /\ Alive /\ serve \in {"init", "loop"}
    /\ serve' = "failed"
    /\ UNCHANGED <<gen, phase, fdOpen, kernel, signals, overtaken, versions>>

\* a process uses the mount
SendRequest(r) ==
    /\ Alive /\ Mounted /\ req[r] = "idle"
    /\ req' = [req EXCEPT ![r] = "queued"]
    /\ UNCHANGED <<gen, process, conn, signals, overtaken, versions>>

----------------------------------------------------------------------------
(* Signals.                                                                *)

\* signal.Notify does not wait for room in the channel
Notified(s) == IF sig = None THEN s ELSE sig

SendSignal(s) ==
    /\ Alive
    /\ sig' = Notified(s)
    /\ UNCHANGED <<gen, process, kernel, handling, shutdown, restart, panic,
                   overtaken, versions>>

\* close of the closed shutdownChan; dbMain is nil until it is loaded
Panic ==
    CASE sig = "TERM" /\ shutdown -> "closedTwice"
      [] sig = "HUP" /\ phase = "loading" -> "nilUpdate"
      [] OTHER -> panic

\* mutant: the goroutine goes on after TERM
HandleSignalTwice ==
    /\ Alive /\ handling /\ sig # None
    /\ sig' = None
    /\ shutdown' = (shutdown \/ sig = "TERM")
    /\ panic' = Panic
    /\ restart' = IF sig = "USR2" THEN "called" ELSE restart
    /\ UNCHANGED <<gen, process, kernel, handling, overtaken, versions>>

\* the loop of setupSignals
HandleSignal ==
    /\ Alive /\ handling /\ sig # None
    /\ sig' = None
    /\ handling' = (sig # "TERM")
    /\ shutdown' = (shutdown \/ sig = "TERM")
    /\ panic' = Panic
    /\ restart' = IF sig = "USR2" THEN "called" ELSE restart
    /\ UNCHANGED <<gen, process, kernel, overtaken, versions>>

\* the goroutine that closed the channel, or the one of that Update
Panics == Alive /\ panic # None /\ ProcessEnds("crashed")

\* gracefulRestart up to fcntl in GracefulExec
CheckRestart ==
    /\ Alive /\ restart = "called"
    /\ restart' = IF phase \in {"loading", "mounting", "stuck"} \/ ~fdOpen
                    THEN None ELSE "checked"
    /\ UNCHANGED <<gen, process, kernel, sig, handling, shutdown, panic,
                   overtaken, versions>>

ExecFails ==
    /\ Alive /\ restart = "checked"
    /\ restart' = None
    /\ UNCHANGED <<gen, process, kernel, sig, handling, shutdown, panic,
                   overtaken, versions>>

NewImage ==
    /\ gen' = gen + 1
    /\ phase' = "loading" /\ serve' = "none"
    /\ sig' = None /\ handling' = TRUE /\ shutdown' = FALSE
    /\ restart' = None /\ panic' = None
    /\ overtaken' = (overtaken \/ shutdown)
    /\ run' = bin /\ v' = bin /\ n' = 0
    /\ UNCHANGED <<bin, latest, mixed>>

Handed == [r \in Reqs |-> IF req[r] = "taken" THEN "lost" ELSE req[r]]

\* mutant: the descriptor is closed on exec
ExecCloses ==
    /\ Alive /\ restart = "checked" /\ gen < MaxGen
    /\ NewImage
    /\ fdOpen' = FALSE
    /\ conn' = IF Mounted THEN "gone" ELSE conn
    /\ req' = [r \in Reqs |-> "idle"]

\* syscall.Exec: threads are gone and with them the requests they had taken;
\* the descriptor and the connection stay
Exec ==
    /\ Alive /\ restart = "checked" /\ gen < MaxGen
    /\ NewImage
    /\ UNCHANGED fdOpen
    /\ conn' = IF Mounted /\ ~fdOpen THEN "gone" ELSE conn
    /\ req' = IF fdOpen THEN Handed ELSE [r \in Reqs |-> "idle"]

----------------------------------------------------------------------------
(* The updater, which reads azusa.apkg.core through the mount.             *)

\* mutant: any other version is installed
UpdaterReadsOther ==
    /\ phase = "serving" /\ serve = "loop" /\ conn = "up" /\ n = 0
    /\ latest # v
    /\ n' = latest
    /\ UNCHANGED <<gen, process, kernel, signals, overtaken, run, bin, latest, v, mixed>>

\* Readlink and Compare
UpdaterReads ==
    /\ phase = "serving" /\ serve = "loop" /\ conn = "up" /\ n = 0
    /\ latest > v
    /\ n' = latest
    /\ UNCHANGED <<gen, process, kernel, signals, overtaken, run, bin, latest, v, mixed>>

\* Open through the link as it is now, Copy, Rename, v = n and the signal;
\* or one of them fails
UpdaterInstalls ==
    /\ phase = "serving" /\ serve = "loop" /\ conn = "up" /\ n # 0
    /\ n' = 0
    /\ \/ /\ bin' = latest
          /\ mixed' = (mixed \/ latest # n)
          /\ v' = n
          /\ sig' = Notified("USR2")
       \/ UNCHANGED <<bin, mixed, v, sig>>
    /\ UNCHANGED <<gen, process, kernel, handling, shutdown, restart, panic,
                   overtaken, run, latest>>

\* an update of the database, a pin or a change of channel moves the link
MoveLatest ==
    /\ Alive
    /\ \E l \in 1 .. MaxVersion : l # latest /\ latest' = l
    /\ UNCHANGED <<gen, process, kernel, signals, overtaken, run, bin, v, n, mixed>>

----------------------------------------------------------------------------
Main == LoadDb \/ Mount \/ Inherit \/ Unmount \/ CloseFd \/ Exit

Next ==
    \/ Main
    \/ HandleInit \/ ServeEnds \/ ReadFails
    \/ \E r \in Reqs : Take(r) \/ Answer(r) \/ SendRequest(r)
    \/ \E s \in Signals : SendSignal(s)
    \/ HandleSignal \/ Panics
    \/ CheckRestart \/ Exec \/ ExecFails
    \/ UpdaterReads \/ UpdaterInstalls \/ MoveLatest

(***************************************************************************)
(* Goroutines are scheduled, and a download of apkgdb.New ends.  Nothing   *)
(* is assumed of signals, requests, restarts and failures.                 *)
(***************************************************************************)
Fairness ==
    /\ WF_vars(Main)
    /\ WF_vars(HandleInit) /\ WF_vars(HandleSignal)
    /\ \A r \in Reqs : WF_vars(Take(r)) /\ WF_vars(Answer(r))

Spec == Init /\ [][Next]_vars /\ Fairness

----------------------------------------------------------------------------
\* types; a restart gets as far as the descriptor only where there is one
TypeOK ==
    /\ gen \in 1 .. MaxGen
    /\ phase \in Phases /\ serve \in Serves /\ fdOpen \in BOOLEAN
    /\ conn \in Conns
    /\ req \in [Reqs -> {"idle", "queued", "taken", "lost"}]
    /\ sig \in Signals \cup {None} /\ handling \in BOOLEAN /\ shutdown \in BOOLEAN
    /\ restart \in {None, "called", "checked"}
    /\ restart = "checked" => phase \notin {"loading", "mounting", "stuck"}
    /\ panic \in {None, "nilUpdate", "closedTwice"}
    /\ overtaken \in BOOLEAN /\ mixed \in BOOLEAN
    /\ {run, bin, latest, v} \subseteq 1 .. MaxVersion /\ n \in 0 .. MaxVersion

(***************************************************************************)
(* SIGTERM ends the daemon and releases every request, those an earlier    *)
(* image took with it included, whatever main and Serve are doing; except  *)
(* when a restart replaces the image first, or when the image it replaced  *)
(* is stuck in MkdirAll on its own mount.                                  *)
(***************************************************************************)
TermReleases ==
    \A g \in 1 .. MaxGen :
        (gen = g /\ shutdown) ~>
            \/ ~Alive /\ \A r \in Reqs : ~Pending(r)
            \/ gen # g
            \/ phase = "stuck"

(***************************************************************************)
(* A request is answered or fails, also when it was sent before INIT or    *)
(* while the daemon stops, unless Serve stopped on its own, of which main  *)
(* knows nothing, or the image was replaced.                               *)
(***************************************************************************)
AnsweredByFirstImage ==
    \A r \in Reqs :
        Pending(r) ~> ~Pending(r) \/ serve \in {"failed", "refused"} \/ gen > 1

(***************************************************************************)
(* No image closes its shutdownChan twice, which would be a panic, however *)
(* many interrupts and SIGTERMs are sent before, between and after other   *)
(* signals and restarts, and wherever main is: the goroutine of            *)
(* setupSignals is gone with the first it takes.                           *)
(***************************************************************************)
ClosedOnce == panic # "closedTwice"

(***************************************************************************)
(* A new image starts with the descriptor of the mount, still connected,   *)
(* unless the image before it had been told to stop: then the restart may  *)
(* hand over a descriptor that is unmounted or closed.                     *)
(***************************************************************************)
HandsOverTheMount ==
    (gen > 1 /\ Alive /\ ~overtaken /\ ~shutdown) => fdOpen /\ Mounted

(***************************************************************************)
(* A restart never goes back to an older version, also when the link does, *)
(* except when the link moved between Readlink and Open.                   *)
(***************************************************************************)
NoDowngrade == [][run' >= run \/ mixed]_run

(***************************************************************************)
(* "preserving the FUSE fd so the new process can pick up the mount        *)
(* seamlessly" (server_linux.go): requests under way at a restart, and     *)
(* those after it, are answered, as long as the descriptor can be read and *)
(* the daemon is not told to stop.                                         *)
(***************************************************************************)
SeamlessRestart ==
    \A r \in Reqs :
        (gen > 1 /\ Pending(r)) ~> ~Pending(r) \/ serve = "failed" \/ shutdown

=============================================================================
