----------------------------- MODULE UnsignedDir -----------------------------
(***************************************************************************)
(* Unsigned packages (apkgdb/unsigned.go, pkgInoUnsigned of lookup.go).    *)
(*                                                                         *)
(* Every database that is opened empties the map of unsigned packages,     *)
(* without its lock, and starts one more goroutine that watches the        *)
(* directory, scans it and then follows inotify's events.  A package is    *)
(* opened by the first lookup that finds its name in the map, whatever is  *)
(* in the directory by then.                                               *)
(***************************************************************************)
EXTENDS Naturals, Sequences, FiniteSets

CONSTANTS
    Files,      \* names that cleanUnsignedName takes, of one ArchOS
    Watchers,   \* goroutines of unsignedScan there can be
    MaxChanges, \* bound on the changes of the directory
    None

ASSUME UnsignedAssumption ==
    /\ None \notin Files \cup Watchers \cup {"added", "opened"}
    /\ IsFiniteSet(Watchers) /\ MaxChanges \in Nat

VARIABLES
    disk,       \* what is in the directory: a file may be half written
    changes,    \* how often it changed
    inner,      \* unsignedMap[archos] exists
    listed,     \* the packages in it, as they were added or opened
    lk,         \* who holds unsignedMapLk for writing
    scan,       \* where a goroutine is
    todo,       \* what ReadDir returned and it has not added yet
    queue,      \* events it has not read
    step, cur,  \* addUnsignedFile: its step and its argument
    crashed,    \* the daemon panicked
    blind       \* ghost: unsignedScan missed what is in the directory

directory == <<disk, changes>>
map == <<inner, listed>>
adding == <<step, cur>>
vars == <<directory, map, lk, scan, todo, queue, adding, crashed, blind>>

OnDisk == {f \in Files : disk[f] # "none"}
Listed == {f \in Files : listed[f] # None}

Init ==
    /\ disk \in [Files -> {"none", "whole"}]
    /\ changes = 0
    /\ inner = FALSE
    /\ listed = [f \in Files |-> None]
    /\ lk = None
    /\ scan = [w \in Watchers |-> "off"]
    /\ todo = [w \in Watchers |-> {}]
    /\ queue = [w \in Watchers |-> <<>>]
    /\ step = [w \in Watchers |-> "none"]
    /\ cur = [w \in Watchers |-> None]
    /\ crashed = FALSE
    /\ blind = FALSE

----------------------------------------------------------------------------
(* The directory.  inotify tells every watcher.                            *)

Tell(op, f) ==
    queue' = [w \in Watchers |->
                IF scan[w] \in {"watching", "scan", "loop"}
                  THEN Append(queue[w], <<op, f>>) ELSE queue[w]]

Change(f, content) ==
    /\ ~crashed /\ changes < MaxChanges
    /\ changes' = changes + 1
    /\ disk' = [disk EXCEPT ![f] = content]
    /\ UNCHANGED <<map, lk, scan, todo, adding, crashed>>

\* a copy begins, a file is moved here, or over another one
Create(f) ==
    /\ \/ disk[f] = "none" /\ Change(f, "partial")
       \/ Change(f, "whole")
    /\ Tell("add", f)
    /\ UNCHANGED blind

\* a copy ends: no event the code looks at
Finish(f) ==
    /\ disk[f] = "partial" /\ Change(f, "whole")
    /\ UNCHANGED <<queue, blind>>

Remove(f) ==
    /\ disk[f] # "none" /\ Change(f, "none")
    /\ Tell("remove", f)
    /\ UNCHANGED blind

\* moved elsewhere: a Rename event, which unsignedScan ignores
MoveAway(f) ==
    /\ disk[f] # "none" /\ Change(f, "none")
    /\ blind' = TRUE
    /\ UNCHANGED queue

\* inotify's queue is full and the last event is lost; unsignedScan logs it
Overflow(w) ==
    /\ ~crashed /\ queue[w] # <<>>
    /\ queue' = [queue EXCEPT ![w] = SubSeq(@, 1, Len(@) - 1)]
    /\ blind' = TRUE
    /\ UNCHANGED <<directory, map, lk, scan, todo, adding, crashed>>

----------------------------------------------------------------------------
(* unsignedScan.                                                           *)

\* initUnsigned, in NewOsArch: the map is replaced without the lock
InitUnsigned(w) ==
    /\ ~crashed /\ scan[w] = "off"
    /\ scan' = [scan EXCEPT ![w] = "started"]
    /\ inner' = FALSE
    /\ listed' = [f \in Files |-> None]
    /\ UNCHANGED <<directory, lk, todo, queue, adding, crashed, blind>>

Watch(w) ==
    /\ ~crashed /\ scan[w] = "started"
    /\ scan' = [scan EXCEPT ![w] = "watching"]
    /\ UNCHANGED <<directory, map, lk, todo, queue, adding, crashed, blind>>

\* no watcher, or no watch: nothing is scanned either
WatchFails(w) ==
    /\ ~crashed /\ scan[w] = "started"
    /\ scan' = [scan EXCEPT ![w] = "failed"]
    /\ blind' = TRUE
    /\ UNCHANGED <<directory, map, lk, todo, queue, adding, crashed>>

ReadDir(w) ==
    /\ ~crashed /\ scan[w] = "watching"
    /\ scan' = [scan EXCEPT ![w] = "scan"]
    /\ todo' = [todo EXCEPT ![w] = OnDisk]
    /\ UNCHANGED <<directory, map, lk, queue, adding, crashed, blind>>

\* the error of ReadDir is ignored, and so is what it left out
ReadDirFails(w) ==
    /\ ~crashed /\ scan[w] = "watching"
    /\ scan' = [scan EXCEPT ![w] = "scan"]
    /\ \E l \in SUBSET OnDisk : todo' = [todo EXCEPT ![w] = l]
    /\ blind' = TRUE
    /\ UNCHANGED <<directory, map, lk, queue, adding, crashed>>

StartAdd(w, f) ==
    /\ step' = [step EXCEPT ![w] = "stat"]
    /\ cur' = [cur EXCEPT ![w] = f]

\* mutant: events that came during the scan are discarded
ScanNextDrains(w) ==
    /\ ~crashed /\ scan[w] = "scan" /\ step[w] = "none"
    /\ IF todo[w] = {}
         THEN /\ scan' = [scan EXCEPT ![w] = "loop"]
              /\ queue' = [queue EXCEPT ![w] = <<>>]
              /\ UNCHANGED <<todo, adding>>
         ELSE LET f == CHOOSE x \in todo[w] : TRUE
              IN  /\ StartAdd(w, f)
                  /\ todo' = [todo EXCEPT ![w] = @ \ {f}]
                  /\ UNCHANGED <<scan, queue>>
    /\ UNCHANGED <<directory, map, lk, crashed, blind>>

ScanNext(w) ==
    /\ ~crashed /\ scan[w] = "scan" /\ step[w] = "none"
    /\ IF todo[w] = {}
         THEN scan' = [scan EXCEPT ![w] = "loop"] /\ UNCHANGED <<todo, adding>>
         ELSE LET f == CHOOSE x \in todo[w] : TRUE
              IN  /\ StartAdd(w, f)
                  /\ todo' = [todo EXCEPT ![w] = @ \ {f}]
                  /\ UNCHANGED scan
    /\ UNCHANGED <<directory, map, lk, queue, crashed, blind>>

\* mutant: only Create is looked at
ReadEventDeaf(w) ==
    /\ ~crashed /\ scan[w] = "loop" /\ step[w] = "none" /\ queue[w] # <<>>
    /\ IF Head(queue[w])[1] = "add" THEN StartAdd(w, Head(queue[w])[2])
       ELSE UNCHANGED adding
    /\ queue' = [queue EXCEPT ![w] = Tail(@)]
    /\ UNCHANGED <<directory, map, lk, scan, todo, crashed, blind>>

\* an event: addUnsignedFile, or removeUnsignedFile under the lock
ReadEvent(w) ==
    /\ ~crashed /\ scan[w] = "loop" /\ step[w] = "none" /\ queue[w] # <<>>
    /\ LET op == Head(queue[w])[1]
           f == Head(queue[w])[2]
       IN  \/ op = "add" /\ StartAdd(w, f) /\ UNCHANGED listed
           \/ /\ op = "remove" /\ lk = None
              /\ listed' = [listed EXCEPT ![f] = None]
              /\ UNCHANGED adding
    /\ queue' = [queue EXCEPT ![w] = Tail(@)]
    /\ UNCHANGED <<directory, inner, lk, scan, todo, crashed, blind>>

\* addUnsignedFile: Stat before the lock
Stat(w) ==
    /\ ~crashed /\ step[w] = "stat"
    /\ IF disk[cur[w]] = "none"
         THEN step' = [step EXCEPT ![w] = "none"] /\ cur' = [cur EXCEPT ![w] = None]
         ELSE step' = [step EXCEPT ![w] = "make"] /\ UNCHANGED cur
    /\ UNCHANGED <<directory, map, lk, scan, todo, queue, crashed, blind>>

\* mutant: the inner map is expected to be there
MakeInnerNot(w) ==
    /\ ~crashed /\ step[w] = "make" /\ lk = None
    /\ lk' = w
    /\ step' = [step EXCEPT ![w] = "put"]
    /\ UNCHANGED <<directory, map, scan, todo, queue, cur, crashed, blind>>

\* the inner map is made if it is missing
MakeInner(w) ==
    /\ ~crashed /\ step[w] = "make" /\ lk = None
    /\ lk' = w
    /\ inner' = TRUE
    /\ step' = [step EXCEPT ![w] = "put"]
    /\ UNCHANGED <<directory, listed, scan, todo, queue, cur, crashed, blind>>

\* and read again to add the package: a replaced map has none, and panics
Put(w) ==
    /\ ~crashed /\ step[w] = "put"
    /\ crashed' = ~inner
    /\ listed' = IF inner THEN [listed EXCEPT ![cur[w]] = "added"] ELSE listed
    /\ lk' = None
    /\ step' = [step EXCEPT ![w] = "none"]
    /\ cur' = [cur EXCEPT ![w] = None]
    /\ UNCHANGED <<directory, inner, scan, todo, queue, blind>>

----------------------------------------------------------------------------
(* lookupUnsigned opens what it finds, once, and ignores the error;        *)
(* pkgInoUnsigned then uses the image, which is nil after one.             *)

\* also a complete file may be no squashfs, or one that cannot be opened
Opens(f) == IF disk[f] = "none" THEN {FALSE} ELSE {TRUE, FALSE}

Lookup(f) ==
    /\ ~crashed /\ lk = None /\ listed[f] = "added"
    /\ \E ok \in Opens(f) :
         /\ crashed' = ~ok
         /\ listed' = IF ok THEN [listed EXCEPT ![f] = "opened"] ELSE listed
    /\ UNCHANGED <<directory, inner, lk, scan, todo, queue, adding, blind>>

----------------------------------------------------------------------------
Disk == \E f \in Files : Create(f) \/ Finish(f) \/ Remove(f) \/ MoveAway(f)

Scan(w) ==
    \/ Watch(w) \/ ReadDir(w) \/ ScanNext(w) \/ ReadEvent(w)
    \/ Stat(w) \/ MakeInner(w) \/ Put(w)

Next ==
    \/ Disk
    \/ \E w \in Watchers : InitUnsigned(w) \/ Scan(w) \/ WatchFails(w) \/ ReadDirFails(w)
                        \/ Overflow(w)
    \/ \E f \in Files : Lookup(f)

\* goroutines are scheduled; the first database is opened
Fairness ==
    /\ \A w \in Watchers : WF_vars(Scan(w))
    /\ WF_vars((\A w \in Watchers : scan[w] = "off") /\ \E w \in Watchers : InitUnsigned(w))

Spec == Init /\ [][Next]_vars /\ Fairness

----------------------------------------------------------------------------
\* types, and the lock is held by whoever is about to add
TypeOK ==
    /\ disk \in [Files -> {"none", "partial", "whole"}]
    /\ changes \in 0 .. MaxChanges
    /\ inner \in BOOLEAN /\ lk \in Watchers \cup {None}
    /\ listed \in [Files -> {None, "added", "opened"}]
    /\ scan \in [Watchers -> {"off", "started", "watching", "scan", "loop", "failed"}]
    /\ todo \in [Watchers -> SUBSET Files]
    /\ queue \in [Watchers -> Seq({"add", "remove"} \X Files)]
    /\ step \in [Watchers -> {"none", "stat", "make", "put"}]
    /\ cur \in [Watchers -> Files \cup {None}]
    /\ \A w \in Watchers : step[w] = "none" <=> cur[w] = None
    /\ \A w \in Watchers : step[w] = "put" <=> lk = w
    /\ crashed \in BOOLEAN /\ blind \in BOOLEAN

\* no goroutine has anything left to do
Quiet ==
    /\ ~crashed
    /\ \A w \in Watchers : scan[w] \in {"off", "loop"} /\ queue[w] = <<>> /\ step[w] = "none"
    /\ \E w \in Watchers : scan[w] = "loop"

(***************************************************************************)
(* "files are picked up on creation and removed on deletion without        *)
(* restart" (README): once the goroutines have caught up, the packages     *)
(* listed are the files in the directory, however changes fell between the *)
(* steps of a scan and of other goroutines, and whenever another database  *)
(* emptied the map.  Not so once a file was moved elsewhere, inotify's     *)
(* queue overflowed, a watch failed or ReadDir failed.                     *)
(***************************************************************************)
QuietListsDirectory == Quiet /\ ~blind => Listed = OnDisk

(***************************************************************************)
(* And they do catch up: when the directory stops changing, what is listed *)
(* becomes and stays what is there.                                        *)
(***************************************************************************)
ListingSettles == <>[](crashed \/ blind \/ Listed = OnDisk)

(***************************************************************************)
(* Whatever happens to the directory and to lookups, a goroutine that has  *)
(* taken unsignedMapLk to add a package finds the inner map it has checked *)
(* for, which it would panic without: only the opening of another database *)
(* in between, which does not take the lock, can take it away.             *)
(***************************************************************************)
InnerMapFound ==
    \A w \in Watchers :
        step[w] = "put" /\ ~inner => Cardinality({x \in Watchers : scan[x] # "off"}) > 1

=============================================================================
