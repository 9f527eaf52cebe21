-------------------------- MODULE UnsignedDir_proofs --------------------------
(***************************************************************************)
(* Proofs about UnsignedDir, for any number of files, of databases opened  *)
(* and of changes.                                                         *)
(***************************************************************************)
EXTENDS UnsignedDir, FiniteSetTheorems, TLAPS

Watching == {"watching", "scan", "loop"}

\* a goroutine adds files and has events only once it watches
ScanInv ==
    /\ \A w \in Watchers : step[w] # "none" => scan[w] \in {"scan", "loop"}
    /\ \A w \in Watchers : queue[w] # <<>> => scan[w] \in Watching

\* one database at most was opened
Single == \A a, b \in Watchers : scan[a] # "off" /\ scan[b] # "off" => a = b

\* the inner map is only lost to a second database
InnerInv == \A w \in Watchers : step[w] = "put" /\ ~inner => ~Single

\* goroutine w has yet to look at file f
WillAdd(w, f) ==
    \/ scan[w] \in {"started", "watching"}
    \/ scan[w] = "scan" /\ f \in todo[w]
    \/ step[w] # "none" /\ cur[w] = f
    \/ \E i \in 1 .. Len(queue[w]) : queue[w][i] = <<"add", f>>

\* goroutine w has yet to learn that f was removed
WillRemove(w, f) == \E i \in 1 .. Len(queue[w]) : queue[w][i] = <<"remove", f>>

\* a file that is there and not listed will be
AddInv ==
    (\E w \in Watchers : scan[w] # "off") =>
        \A f \in OnDisk \ Listed : \E w \in Watchers : WillAdd(w, f)

\* one that is listed and not there will be dropped, and so will one that is
\* about to be listed
RemoveInv ==
    /\ \A f \in Listed \ OnDisk : \E w \in Watchers : WillRemove(w, f)
    /\ \A w \in Watchers : step[w] \in {"make", "put"} /\ cur[w] \notin OnDisk
                             => WillRemove(w, cur[w])

\* an old removal of a file of D is followed by the creation that made up
\* for it
Ordered(q, D) ==
    \A i \in 1 .. Len(q) : \A f \in D :
        q[i] = <<"remove", f>> => \E j \in i + 1 .. Len(q) : q[j] = <<"add", f>>

OrderInv == \A w \in Watchers : Ordered(queue[w], OnDisk)

\* who listed a file watches, and no watch failed
WatchedInv ==
    /\ Listed # {} => \E w \in Watchers : scan[w] \in Watching
    /\ \A w \in Watchers : scan[w] # "failed"

ListingInv == ~blind /\ ~crashed => AddInv /\ RemoveInv /\ OrderInv /\ WatchedInv

UnsignedInv == TypeOK /\ ScanInv /\ InnerInv /\ ListingInv

----------------------------------------------------------------------------
(* Queues of events.                                                       *)

LEMMA AppendKeeps ==
    ASSUME NEW T, NEW s \in Seq(T), NEW e \in T
    PROVE  /\ Append(s, e) \in Seq(T) /\ Append(s, e) # <<>>
           /\ Len(Append(s, e)) = Len(s) + 1
           /\ \A i \in 1 .. Len(s) : Append(s, e)[i] = s[i]
           /\ Append(s, e)[Len(s) + 1] = e
  OBVIOUS

LEMMA TailShifts ==
    ASSUME NEW T, NEW s \in Seq(T), s # <<>>
    PROVE  /\ Tail(s) \in Seq(T)
           /\ Len(s) \in Nat /\ Len(s) > 0 /\ Len(Tail(s)) = Len(s) - 1
           /\ \A i \in 1 .. Len(s) - 1 : Tail(s)[i] = s[i + 1]
           /\ Head(s) = s[1] /\ Head(s) \in T
  OBVIOUS

----------------------------------------------------------------------------
(* Types, the lock and the goroutines.                                     *)

Events == {"add", "remove"} \X Files

LEMMA TellTypes ==
    ASSUME TypeOK, NEW op \in {"add", "remove"}, NEW f \in Files, Tell(op, f)
    PROVE  /\ queue' \in [Watchers -> Seq(Events)]
           /\ \A w \in Watchers :
                IF scan[w] \in Watching THEN queue'[w] = Append(queue[w], <<op, f>>)
                                        ELSE queue'[w] = queue[w]
<1>1. <<op, f>> \in Events
  BY DEF Events
<1>2. ASSUME NEW w \in Watchers
      PROVE  Append(queue[w], <<op, f>>) \in Seq(Events) /\ queue[w] \in Seq(Events)
  BY <1>1, AppendKeeps DEF TypeOK, Events
<1>3. queue' = [w \in Watchers |-> IF scan[w] \in Watching
                                     THEN Append(queue[w], <<op, f>>) ELSE queue[w]]
  BY DEF Tell, Watching
<1> HIDE DEF Events, Watching
<1> QED
  BY <1>2, <1>3

LEMMA ChangeTypes ==
    ASSUME TypeOK, NEW f \in Files, NEW c \in {"none", "partial", "whole"}, Change(f, c)
    PROVE  /\ disk' \in [Files -> {"none", "partial", "whole"}]
           /\ changes' \in 0 .. MaxChanges
           /\ UNCHANGED <<inner, listed, lk, scan, todo, step, cur, crashed>>
<1>1. disk' \in [Files -> {"none", "partial", "whole"}]
  BY DEF Change, TypeOK
<1>2. changes' \in 0 .. MaxChanges
  BY UnsignedAssumption DEF Change, TypeOK
<1>3. UNCHANGED <<inner, listed, lk, scan, todo, step, cur, crashed>>
  BY DEF Change, map, adding
<1> QED
  BY <1>1, <1>2, <1>3

LEMMA TypesStep ==
    ASSUME TypeOK, ScanInv, Next
    PROVE  TypeOK' /\ ScanInv'
<1> USE UnsignedAssumption
<1> USE DEF Watching, directory, map, adding
<1>1. CASE \E f \in Files : Create(f) \/ Remove(f)
  <2>1. PICK f \in Files : Create(f) \/ Remove(f)
    BY <1>1
  <2>2. PICK op \in {"add", "remove"} : Tell(op, f)
    BY <2>1 DEF Create, Remove
  <2>3. queue' \in [Watchers -> Seq(Events)]
    BY <2>2, TellTypes
  <2>4. \A w \in Watchers : queue'[w] # <<>> => scan[w] \in Watching
    BY <2>2, TellTypes DEF ScanInv
  <2>5. /\ disk' \in [Files -> {"none", "partial", "whole"}]
        /\ changes' \in 0 .. MaxChanges
        /\ UNCHANGED <<inner, listed, lk, scan, todo, step, cur, crashed, blind>>
    BY <2>1, ChangeTypes DEF Create, Remove
  <2>6. TypeOK'
    BY <2>3, <2>5 DEF TypeOK, Events
  <2>7. ScanInv'
    BY <2>4, <2>5 DEF ScanInv
  <2> QED
    BY <2>6, <2>7
<1>2. CASE \E f \in Files : Finish(f) \/ MoveAway(f)
  <2>1. /\ disk' \in [Files -> {"none", "partial", "whole"}]
        /\ changes' \in 0 .. MaxChanges
        /\ UNCHANGED <<inner, listed, lk, scan, todo, step, cur, crashed>>
    BY <1>2, ChangeTypes DEF Finish, MoveAway
  <2>2. queue' = queue /\ blind' \in BOOLEAN
    BY <1>2 DEF Finish, MoveAway, TypeOK
  <2> QED
    BY <2>1, <2>2 DEF TypeOK, ScanInv
<1>3. CASE \E w \in Watchers : Overflow(w)
  <2>1. PICK w \in Watchers : Overflow(w)
    BY <1>3
  <2>2. SubSeq(queue[w], 1, Len(queue[w]) - 1) \in Seq(Events)
    <3>1. queue[w] \in Seq(Events) /\ queue[w] # <<>>
      BY <2>1 DEF Overflow, TypeOK, Events
    <3>2. \A i \in 1 .. Len(queue[w]) - 1 : queue[w][i] \in Events
      BY <3>1
    <3>3. Len(queue[w]) - 1 \in Nat
      BY <3>1
    <3> HIDE DEF Events
    <3> QED
      BY <3>1, <3>2, <3>3
  <2>3. queue' \in [Watchers -> Seq(Events)]
    BY <2>1, <2>2 DEF Overflow, TypeOK, Events
  <2>4. TypeOK'
    BY <2>1, <2>3 DEF Overflow, TypeOK, Events
  <2>5. ScanInv'
    BY <2>1 DEF Overflow, ScanInv, TypeOK
  <2> QED
    BY <2>4, <2>5
<1>4. CASE \E w \in Watchers : InitUnsigned(w)
  <2>1. PICK w \in Watchers : InitUnsigned(w)
    BY <1>4
  <2>2. TypeOK'
    BY <2>1 DEF InitUnsigned, TypeOK
  <2>3. ScanInv'
    BY <2>1 DEF InitUnsigned, TypeOK, ScanInv
  <2> QED
    BY <2>2, <2>3
<1>5. CASE \E w \in Watchers : WatchFails(w)
  BY <1>5 DEF WatchFails, TypeOK, ScanInv
<1>14. CASE \E w \in Watchers : ReadDirFails(w)
  <2>1. PICK w \in Watchers, l \in SUBSET OnDisk :
          /\ scan[w] = "watching" /\ scan' = [scan EXCEPT ![w] = "scan"]
          /\ todo' = [todo EXCEPT ![w] = l] /\ blind' = TRUE
          /\ UNCHANGED <<disk, changes, inner, listed, lk, queue, step, cur, crashed>>
    BY <1>14 DEF ReadDirFails
  <2>2. l \in SUBSET Files
    BY DEF OnDisk
  <2>3. TypeOK'
    BY <2>1, <2>2 DEF TypeOK
  <2>4. ScanInv'
    BY <2>1 DEF TypeOK, ScanInv
  <2> QED
    BY <2>3, <2>4
<1>6. CASE \E f \in Files : Lookup(f)
  BY <1>6 DEF Lookup, Opens, TypeOK, ScanInv
<1>7. CASE \E w \in Watchers : Watch(w)
  BY <1>7 DEF Watch, TypeOK, ScanInv
<1>8. CASE \E w \in Watchers : ReadDir(w)
  BY <1>8 DEF ReadDir, OnDisk, TypeOK, ScanInv
<1>9. CASE \E w \in Watchers : ScanNext(w)
  <2>1. PICK w \in Watchers : ScanNext(w)
    BY <1>9
  <2>2. CASE todo[w] = {}
    <3>1. /\ scan' = [scan EXCEPT ![w] = "loop"] /\ scan[w] = "scan"
          /\ UNCHANGED <<disk, changes, inner, listed, lk, todo, queue, step, cur, crashed, blind>>
      BY <2>1, <2>2 DEF ScanNext
    <3>2. TypeOK'
      BY <3>1 DEF TypeOK
    <3>3. ScanInv'
      BY <3>1 DEF TypeOK, ScanInv
    <3> QED
      BY <3>2, <3>3
  <2>3. CASE todo[w] # {}
    <3>1. PICK f \in todo[w] :
            /\ StartAdd(w, f) /\ todo' = [todo EXCEPT ![w] = @ \ {f}]
            /\ UNCHANGED <<scan, disk, changes, inner, listed, lk, queue, crashed, blind>>
      BY <2>1, <2>3 DEF ScanNext
    <3>2. f \in Files /\ f # None /\ scan[w] = "scan" /\ step[w] = "none"
      BY <2>1 DEF ScanNext, TypeOK
    <3>3. TypeOK'
      BY <3>1, <3>2 DEF StartAdd, TypeOK
    <3>4. ScanInv'
      BY <3>1, <3>2 DEF StartAdd, TypeOK, ScanInv
    <3> QED
      BY <3>3, <3>4
  <2> QED
    BY <2>2, <2>3
<1>10. CASE \E w \in Watchers : ReadEvent(w)
  <2>1. PICK w \in Watchers : ReadEvent(w)
    BY <1>10
  <2>2. /\ Tail(queue[w]) \in Seq(Events) /\ Head(queue[w]) \in Events
        /\ queue' = [queue EXCEPT ![w] = Tail(@)] /\ scan[w] = "loop" /\ step[w] = "none"
    BY <2>1, TailShifts DEF ReadEvent, TypeOK, Events
  <2>3. queue' \in [Watchers -> Seq(Events)]
    BY <2>2 DEF TypeOK, Events
  <2>4. Head(queue[w])[2] \in Files
    BY <2>2 DEF Events
  <2>5. TypeOK'
    <3>1. /\ listed' \in [Files -> {None, "added", "opened"}]
          /\ step' \in [Watchers -> {"none", "stat", "make", "put"}]
          /\ cur' \in [Watchers -> Files \cup {None}]
          /\ \A x \in Watchers : step'[x] = "none" <=> cur'[x] = None
          /\ \A x \in Watchers : step'[x] = "put" <=> lk = x
      <4>1. CASE StartAdd(w, Head(queue[w])[2]) /\ UNCHANGED listed
        BY <2>2, <2>4, <4>1 DEF StartAdd, TypeOK
      <4>2. CASE UNCHANGED adding /\ listed' = [listed EXCEPT ![Head(queue[w])[2]] = None]
        BY <2>4, <4>2 DEF TypeOK
      <4> QED
        BY <2>1, <4>1, <4>2 DEF ReadEvent
    <3>2. UNCHANGED <<disk, changes, inner, lk, scan, todo, crashed, blind>>
      BY <2>1 DEF ReadEvent
    <3> QED
      BY <2>3, <3>1, <3>2 DEF TypeOK, Events
  <2>6. ScanInv'
    <3>1. \A x \in Watchers : step'[x] # "none" => scan[x] \in {"scan", "loop"}
      BY <2>1, <2>2 DEF ReadEvent, StartAdd, TypeOK, ScanInv
    <3>2. \A x \in Watchers : queue'[x] # <<>> => scan[x] \in Watching
      BY <2>2 DEF TypeOK, ScanInv
    <3>3. scan' = scan
      BY <2>1 DEF ReadEvent
    <3> QED
      BY <3>1, <3>2, <3>3 DEF ScanInv
  <2> QED
    BY <2>5, <2>6
<1>11. CASE \E w \in Watchers : Stat(w)
  <2>1. PICK w \in Watchers : Stat(w)
    BY <1>11
  <2>2. cur[w] \in Files
    BY <2>1 DEF Stat, TypeOK
  <2>3. /\ step[w] = "stat" /\ scan[w] \in {"scan", "loop"}
        /\ UNCHANGED <<disk, changes, inner, listed, lk, scan, todo, queue, crashed, blind>>
    BY <2>1 DEF Stat, ScanInv
  <2>4. CASE step' = [step EXCEPT ![w] = "none"] /\ cur' = [cur EXCEPT ![w] = None]
    <3>1. TypeOK'
      BY <2>2, <2>3, <2>4 DEF TypeOK
    <3>2. ScanInv'
      BY <2>3, <2>4 DEF TypeOK, ScanInv
    <3> QED
      BY <3>1, <3>2
  <2>5. CASE step' = [step EXCEPT ![w] = "make"] /\ cur' = cur
    <3>1. TypeOK'
      BY <2>2, <2>3, <2>5 DEF TypeOK
    <3>2. ScanInv'
      BY <2>3, <2>5 DEF TypeOK, ScanInv
    <3> QED
      BY <3>1, <3>2
  <2> QED
    BY <2>1, <2>4, <2>5 DEF Stat
<1>12. CASE \E w \in Watchers : MakeInner(w)
  BY <1>12 DEF MakeInner, TypeOK, ScanInv
<1>13. CASE \E w \in Watchers : Put(w)
  BY <1>13 DEF Put, TypeOK, ScanInv
<1> QED
  BY <1>1, <1>2, <1>3, <1>4, <1>5, <1>6, <1>7, <1>8, <1>9, <1>10, <1>11, <1>12, <1>13, <1>14
     DEF Next, Disk, Scan

----------------------------------------------------------------------------
(* The inner map.                                                          *)

\* databases stay open
LEMMA SingleStep ==
    ASSUME TypeOK, Next, ~Single
    PROVE  ~Single'
<1>1. \/ scan' = scan
      \/ \E w \in Watchers : \E c \in {"started", "watching", "failed", "scan", "loop"} :
            scan' = [scan EXCEPT ![w] = c]
  BY DEF Next, Disk, Scan, Create, Finish, Remove, MoveAway, Change, Overflow,
         InitUnsigned, Watch, WatchFails, ReadDir, ReadDirFails, ScanNext, ReadEvent, Stat, MakeInner,
         Put, Lookup
<1>2. \A w \in Watchers : scan[w] # "off" => scan'[w] # "off"
  BY <1>1 DEF TypeOK
<1> QED
  BY <1>2 DEF Single

LEMMA InnerStep ==
    ASSUME TypeOK, ScanInv, InnerInv, Next
    PROVE  InnerInv'
<1> USE DEF directory, map, adding
<1>0. ~Single => ~Single'
  BY SingleStep
<1> HIDE DEF Single
<1>1. CASE \E w \in Watchers : InitUnsigned(w)
  <2>1. PICK w \in Watchers : InitUnsigned(w)
    BY <1>1
  <2>2. ASSUME NEW x \in Watchers, step'[x] = "put"
        PROVE  ~Single'
    <3>1. scan[x] \in {"scan", "loop"} /\ scan[w] = "off" /\ scan' = [scan EXCEPT ![w] = "started"]
      BY <2>1, <2>2 DEF InitUnsigned, ScanInv
    <3>2. x # w /\ scan'[x] # "off" /\ scan'[w] # "off"
      BY <3>1 DEF TypeOK
    <3> QED
      BY <3>2 DEF Single
  <2> QED
    BY <2>2 DEF InnerInv
<1>2. CASE \E w \in Watchers : MakeInner(w)
  BY <1>2 DEF MakeInner, InnerInv
<1>3. CASE /\ inner' = inner
           /\ \A x \in Watchers : step'[x] = "put" => step[x] = "put"
  BY <1>0, <1>3 DEF InnerInv
<1>4. CASE Disk \/ \E f \in Files : Lookup(f)
  BY <1>3, <1>4 DEF Disk, Create, Finish, Remove, MoveAway, Change, Lookup
<1>5. CASE \E w \in Watchers : \/ Overflow(w) \/ WatchFails(w) \/ Watch(w) \/ ReadDir(w)
                              \/ ReadDirFails(w)
  BY <1>3, <1>5 DEF Overflow, WatchFails, Watch, ReadDir, ReadDirFails
<1>6. CASE \E w \in Watchers : ScanNext(w) \/ ReadEvent(w)
  <2>1. inner' = inner
    BY <1>6 DEF ScanNext, ReadEvent
  <2>2. \A x \in Watchers : step'[x] = "put" => step[x] = "put"
    BY <1>6 DEF ScanNext, ReadEvent, StartAdd, TypeOK
  <2> QED
    BY <1>3, <2>1, <2>2
<1>7. CASE \E w \in Watchers : Stat(w) \/ Put(w)
  BY <1>3, <1>7 DEF Stat, Put, TypeOK
<1> QED
  BY <1>1, <1>2, <1>4, <1>5, <1>6, <1>7 DEF Next, Scan

----------------------------------------------------------------------------
(* The listing follows the directory.                                      *)

Follows == AddInv /\ RemoveInv /\ OrderInv /\ WatchedInv

\* what has to be dropped stays so while no event is read
LEMMA RemoveKept ==
    ASSUME RemoveInv, queue' = queue, OnDisk' = OnDisk,
           \A g \in Listed' \ OnDisk' : g \in Listed \/ \E w \in Watchers : WillRemove(w, g),
           \A w \in Watchers : step'[w] \in {"make", "put"} =>
               (step[w] \in {"make", "put"} /\ cur'[w] = cur[w]) \/ cur'[w] \in OnDisk
    PROVE  RemoveInv'
<1>1. \A g \in Listed' \ OnDisk' : \E w \in Watchers : WillRemove(w, g)
  BY DEF RemoveInv
<1>2. \A g \in Listed' \ OnDisk' : \E w \in Watchers : WillRemove(w, g)'
  BY <1>1 DEF WillRemove
<1>3. ASSUME NEW w \in Watchers, step'[w] \in {"make", "put"}, cur'[w] \notin OnDisk'
      PROVE  WillRemove(w, cur[w])'
  <2>1. WillRemove(w, cur[w]) /\ cur'[w] = cur[w]
    BY <1>3 DEF RemoveInv
  <2> QED
    BY <2>1 DEF WillRemove
<1> QED
  BY <1>2, <1>3 DEF RemoveInv

\* a change of the directory of which everybody who watches is told
LEMMA TellStep ==
    ASSUME TypeOK, ScanInv, Follows, NEW f \in Files,
           NEW op \in {"add", "remove"}, Tell(op, f),
           UNCHANGED <<listed, scan, todo, step, cur>>,
           op = "add" => OnDisk' = OnDisk \cup {f},
           op = "remove" => OnDisk' = OnDisk \ {f}
    PROVE  Follows'
<1> USE UnsignedAssumption
<1>1. Listed' = Listed /\ Listed \subseteq Files /\ OnDisk \subseteq Files
  BY DEF Listed, OnDisk
<1>2. ASSUME NEW w \in Watchers
      PROVE  /\ queue[w] \in Seq(Events) /\ Len(queue[w]) \in Nat
             /\ scan[w] \in Watching => /\ Len(queue'[w]) = Len(queue[w]) + 1
                                        /\ queue'[w][Len(queue[w]) + 1] = <<op, f>>
             /\ scan[w] \notin Watching => queue'[w] = queue[w] /\ queue[w] = <<>>
             /\ \A i \in 1 .. Len(queue[w]) : queue'[w][i] = queue[w][i]
  <2>1. queue[w] \in Seq(Events) /\ <<op, f>> \in Events
    BY DEF TypeOK, Events
  <2>2. IF scan[w] \in Watching THEN queue'[w] = Append(queue[w], <<op, f>>)
                                ELSE queue'[w] = queue[w]
    BY TellTypes
  <2>3. Len(queue[w]) \in Nat
    BY <2>1
  <2>4. scan[w] \notin Watching => queue[w] = <<>>
    BY DEF ScanInv
  <2> HIDE DEF Events, Watching
  <2> QED
    BY <2>1, <2>2, <2>3, <2>4, AppendKeeps
<1>3. ASSUME NEW w \in Watchers
      PROVE  /\ \A i \in 1 .. Len(queue[w]) : i \in 1 .. Len(queue'[w])
             /\ scan[w] \in Watching => Len(queue[w]) + 1 \in 1 .. Len(queue'[w])
  BY <1>2
<1>4. ASSUME NEW w \in Watchers, NEW g
      PROVE  /\ WillAdd(w, g) => WillAdd(w, g)'
             /\ WillRemove(w, g) => WillRemove(w, g)'
             /\ scan[w] \in Watching /\ op = "add" => WillAdd(w, f)'
             /\ scan[w] \in Watching /\ op = "remove" => WillRemove(w, f)'
  <2>1. ASSUME NEW e
        PROVE  /\ (\E i \in 1 .. Len(queue[w]) : queue[w][i] = e)
                     => \E i \in 1 .. Len(queue'[w]) : queue'[w][i] = e
               /\ scan[w] \in Watching =>
                    \E i \in 1 .. Len(queue'[w]) : queue'[w][i] = <<op, f>>
    BY <1>2, <1>3
  <2> QED
    BY <2>1 DEF WillAdd, WillRemove
<1>5. AddInv'
  <2> SUFFICES ASSUME NEW x \in Watchers, scan[x] # "off", NEW g \in OnDisk' \ Listed'
               PROVE  \E w \in Watchers : WillAdd(w, g)'
    BY DEF AddInv
  <2>1. CASE g \in OnDisk
    BY <1>1, <1>4, <2>1 DEF Follows, AddInv
  <2>2. CASE g \notin OnDisk
    <3>1. op = "add" /\ g = f
      BY <2>2
    <3>2. CASE scan[x] \in Watching
      BY <3>1, <3>2, <1>4
    <3>3. CASE scan[x] \notin Watching
      <4>1. scan[x] = "started"
        BY <3>3 DEF Follows, WatchedInv, Watching, TypeOK
      <4> QED
        BY <4>1 DEF WillAdd
    <3> QED
      BY <3>2, <3>3
  <2> QED
    BY <2>1, <2>2
<1>6. RemoveInv'
  <2>1. ASSUME NEW g \in Listed' \ OnDisk'
        PROVE  \E w \in Watchers : WillRemove(w, g)'
    <3>1. CASE g \notin OnDisk
      BY <1>1, <1>4, <3>1 DEF Follows, RemoveInv
    <3>2. CASE g \in OnDisk
      <4>1. op = "remove" /\ g = f /\ Listed # {}
        BY <1>1, <3>2
      <4>2. PICK w \in Watchers : scan[w] \in Watching
        BY <4>1 DEF Follows, WatchedInv
      <4> QED
        BY <4>1, <4>2, <1>4
    <3> QED
      BY <3>1, <3>2
  <2>2. ASSUME NEW w \in Watchers, step[w] \in {"make", "put"}, cur[w] \notin OnDisk'
        PROVE  WillRemove(w, cur[w])'
    <3>1. CASE cur[w] \notin OnDisk
      <4>1. WillRemove(w, cur[w])
        BY <2>2, <3>1 DEF Follows, RemoveInv
      <4>2. cur' = cur
        OBVIOUS
      <4> QED
        BY <1>2, <1>3, <4>1, <4>2 DEF WillRemove
    <3>2. CASE cur[w] \in OnDisk
      <4>1. op = "remove" /\ cur[w] = f /\ cur' = cur /\ scan[w] \in Watching
        BY <2>2, <3>2 DEF ScanInv, Watching
      <4> QED
        BY <4>1, <1>2, <1>3 DEF WillRemove
    <3> QED
      BY <3>1, <3>2
  <2> QED
    BY <2>1, <2>2 DEF RemoveInv
<1>7. OrderInv'
  <2> SUFFICES ASSUME NEW w \in Watchers, NEW i \in 1 .. Len(queue'[w]), NEW g \in OnDisk',
                      queue'[w][i] = <<"remove", g>>
               PROVE  \E j \in i + 1 .. Len(queue'[w]) : queue'[w][j] = <<"add", g>>
    BY DEF OrderInv, Ordered
  <2>1. CASE i \in 1 .. Len(queue[w])
    <3>1. queue[w][i] = <<"remove", g>>
      BY <1>2, <2>1
    <3>2. CASE g \in OnDisk
      <4>1. PICK j \in i + 1 .. Len(queue[w]) : queue[w][j] = <<"add", g>>
        BY <2>1, <3>1, <3>2 DEF Follows, OrderInv, Ordered
      <4>2. j \in 1 .. Len(queue[w]) /\ j \in i + 1 .. Len(queue'[w])
        BY <1>2, <2>1
      <4> QED
        BY <1>2, <4>1, <4>2
    <3>3. CASE g \notin OnDisk
      <4>1. op = "add" /\ g = f
        BY <3>3
      <4>2. scan[w] \in Watching
        BY <1>2, <2>1
      <4>3. Len(queue[w]) + 1 \in i + 1 .. Len(queue'[w])
        BY <1>2, <2>1, <4>2
      <4> QED
        BY <1>2, <4>1, <4>2, <4>3
    <3> QED
      BY <3>2, <3>3
  <2>2. CASE i \notin 1 .. Len(queue[w])
    <3>1. scan[w] \in Watching /\ i = Len(queue[w]) + 1
      BY <1>2, <2>2
    <3>2. <<op, f>> = <<"remove", g>>
      BY <1>2, <3>1
    <3> QED
      BY <3>2
  <2> QED
    BY <2>1, <2>2
<1>8. WatchedInv'
  BY <1>1 DEF Follows, WatchedInv
<1> QED
  BY <1>5, <1>6, <1>7, <1>8 DEF Follows

\* an event is read: what it asked for is done or begun
LEMMA ReadStep ==
    ASSUME TypeOK, ScanInv, Follows, NEW w \in Watchers, ReadEvent(w)
    PROVE  Follows'
<1> USE UnsignedAssumption
<1> DEFINE op == Head(queue[w])[1]
           f == Head(queue[w])[2]
           q == queue[w]
<1>1. /\ q \in Seq(Events) /\ q # <<>> /\ step[w] = "none" /\ scan[w] = "loop"
      /\ queue' = [queue EXCEPT ![w] = Tail(q)]
      /\ UNCHANGED <<disk, scan, todo>>
  BY DEF ReadEvent, TypeOK, Events, directory
<1>2. /\ Len(q) \in Nat /\ Len(q) > 0 /\ queue'[w] = Tail(q) /\ Len(queue'[w]) = Len(q) - 1
      /\ \A i \in 1 .. Len(q) - 1 : queue'[w][i] = q[i + 1]
      /\ q[1] = Head(q) /\ q[1] \in Events
  BY <1>1, TailShifts DEF TypeOK
<1>3. q[1] = <<op, f>> /\ op \in {"add", "remove"} /\ f \in Files
  BY <1>2 DEF Events
<1>4. \A x \in Watchers \ {w} : queue'[x] = queue[x]
  BY <1>1 DEF TypeOK
<1>5. \/ /\ op = "add" /\ step' = [step EXCEPT ![w] = "stat"] /\ cur' = [cur EXCEPT ![w] = f]
         /\ listed' = listed
      \/ /\ op = "remove" /\ listed' = [listed EXCEPT ![f] = None]
         /\ step' = step /\ cur' = cur
  BY DEF ReadEvent, StartAdd, adding
<1>6. ASSUME NEW e, e # q[1], \E i \in 1 .. Len(q) : q[i] = e
      PROVE  \E i \in 1 .. Len(queue'[w]) : queue'[w][i] = e
  <2>1. PICK i \in 1 .. Len(q) : q[i] = e
    BY <1>6
  <2>2. i # 1 /\ i - 1 \in 1 .. Len(q) - 1 /\ (i - 1) + 1 = i
    BY <1>2, <1>6, <2>1
  <2> QED
    BY <1>2, <2>1, <2>2
<1>7. OnDisk' = OnDisk /\ OnDisk \subseteq Files /\ Listed \subseteq Files
  BY <1>1 DEF OnDisk, Listed
<1>8. /\ op = "add" => Listed' = Listed
      /\ op = "remove" => Listed' = Listed \ {f}
  BY <1>3, <1>5 DEF Listed, TypeOK
<1>9. /\ \A x \in Watchers \ {w} : step'[x] = step[x] /\ cur'[x] = cur[x]
      /\ op = "add" => step'[w] = "stat" /\ cur'[w] = f
      /\ op = "remove" => step'[w] = "none"
  BY <1>1, <1>5 DEF TypeOK
<1> HIDE DEF op, f, q
<1>10. ASSUME NEW x \in Watchers, NEW g
       PROVE  /\ x # w => (WillAdd(x, g) => WillAdd(x, g)') /\ (WillRemove(x, g) => WillRemove(x, g)')
              /\ x = w /\ q[1] # <<"remove", g>> /\ WillRemove(x, g) => WillRemove(x, g)'
              /\ x = w /\ WillAdd(x, g) => WillAdd(x, g)'
  <2>1. CASE x # w
    BY <1>1, <1>4, <1>9, <2>1 DEF WillAdd, WillRemove
  <2>2. CASE x = w
    <3>1. q[1] # <<"remove", g>> /\ WillRemove(x, g) => WillRemove(x, g)'
      BY <1>6, <2>2 DEF WillRemove, q
    <3>2. ASSUME WillAdd(x, g)
          PROVE  WillAdd(x, g)'
      <4>1. \E i \in 1 .. Len(q) : q[i] = <<"add", g>>
        BY <1>1, <2>2, <3>2 DEF WillAdd, q
      <4>2. CASE q[1] = <<"add", g>>
        <5>1. op = "add" /\ f = g
          BY <1>3, <4>2
        <5> QED
          BY <1>9, <2>2, <5>1 DEF WillAdd
      <4>3. CASE q[1] # <<"add", g>>
        BY <1>6, <2>2, <4>1, <4>3 DEF WillAdd
      <4> QED
        BY <4>2, <4>3
    <3> QED
      BY <2>2, <3>1, <3>2
  <2> QED
    BY <2>1, <2>2
<1>11. AddInv'
  <2> SUFFICES ASSUME NEW g \in OnDisk' \ Listed'
               PROVE  \E x \in Watchers : WillAdd(x, g)'
    BY DEF AddInv
  <2>1. CASE g \notin Listed
    <3>1. PICK x \in Watchers : WillAdd(x, g)
      BY <1>1, <1>7, <2>1 DEF Follows, AddInv
    <3> QED
      BY <3>1, <1>10
  <2>2. CASE g \in Listed
    <3>1. op = "remove" /\ g = f /\ g \in OnDisk
      BY <1>3, <1>7, <1>8, <2>2
    <3>2. 1 \in 1 .. Len(q)
      BY <1>2
    <3>3. PICK j \in 1 + 1 .. Len(q) : q[j] = <<"add", g>>
      BY <1>3, <3>1, <3>2 DEF Follows, OrderInv, Ordered, q
    <3>4. j - 1 \in 1 .. Len(q) - 1 /\ (j - 1) + 1 = j
      BY <1>2
    <3>5. \E i \in 1 .. Len(queue'[w]) : queue'[w][i] = <<"add", g>>
      BY <1>2, <3>3, <3>4
    <3> QED
      BY <3>5 DEF WillAdd
  <2> QED
    BY <2>1, <2>2
<1>12. RemoveInv'
  <2>1. ASSUME NEW g \in Listed' \ OnDisk'
        PROVE  \E x \in Watchers : WillRemove(x, g)'
    <3>1. g \in Listed \ OnDisk /\ (op = "remove" => g # f)
      BY <1>3, <1>7, <1>8
    <3>2. q[1] # <<"remove", g>>
      BY <1>3, <3>1
    <3>3. PICK x \in Watchers : WillRemove(x, g)
      BY <3>1 DEF Follows, RemoveInv
    <3> QED
      BY <3>2, <3>3, <1>10
  <2>2. ASSUME NEW x \in Watchers, step'[x] \in {"make", "put"}, cur'[x] \notin OnDisk'
        PROVE  WillRemove(x, cur[x])'
    <3>1. x # w /\ step'[x] = step[x] /\ cur'[x] = cur[x] /\ queue'[x] = queue[x]
      BY <1>3, <1>4, <1>9, <2>2
    <3>2. WillRemove(x, cur[x])
      BY <1>7, <2>2, <3>1 DEF Follows, RemoveInv
    <3> QED
      BY <3>1, <3>2 DEF WillRemove
  <2> QED
    BY <2>1, <2>2 DEF RemoveInv
<1>13. OrderInv'
  <2> SUFFICES ASSUME NEW x \in Watchers
               PROVE  Ordered(queue'[x], OnDisk')
    BY DEF OrderInv
  <2>1. CASE x # w
    BY <1>4, <1>7, <2>1 DEF Follows, OrderInv
  <2>2. CASE x = w
    <3> SUFFICES ASSUME NEW i \in 1 .. Len(queue'[w]), NEW g \in OnDisk,
                        queue'[w][i] = <<"remove", g>>
                 PROVE  \E j \in i + 1 .. Len(queue'[w]) : queue'[w][j] = <<"add", g>>
      <4>1. OnDisk' = OnDisk /\ queue'[x] = queue'[w]
        BY <1>7, <2>2
      <4> QED
        BY <4>1 DEF Ordered
    <3>1. /\ i \in 1 .. Len(q) - 1 /\ i + 1 \in 1 .. Len(q)
          /\ q[i + 1] = <<"remove", g>>
      BY <1>2
    <3>2. PICK j \in (i + 1) + 1 .. Len(q) : q[j] = <<"add", g>>
      BY <3>1 DEF Follows, OrderInv, Ordered, q
    <3>3. j - 1 \in i + 1 .. Len(q) - 1 /\ j - 1 \in 1 .. Len(q) - 1 /\ (j - 1) + 1 = j
      BY <1>2, <3>1
    <3> QED
      BY <1>2, <3>2, <3>3
  <2> QED
    BY <2>1, <2>2
<1>14. WatchedInv'
  <2>1. Listed' # {} => Listed # {}
    BY <1>3, <1>8
  <2> QED
    BY <1>1, <2>1 DEF Follows, WatchedInv
<1> QED
  BY <1>11, <1>12, <1>13, <1>14 DEF Follows

\* the steps that neither append nor read an event
LEMMA OtherStep ==
    ASSUME TypeOK, TypeOK', ScanInv, Follows, ~crashed', ~blind',
           \/ \E f \in Files : Finish(f) \/ Lookup(f)
           \/ \E w \in Watchers : \/ InitUnsigned(w) \/ Watch(w) \/ ReadDir(w) \/ ScanNext(w)
                                  \/ Stat(w) \/ MakeInner(w) \/ Put(w)
    PROVE  Follows'
<1> USE UnsignedAssumption
<1> USE DEF directory, map, adding
<1>0. Listed \subseteq Files /\ OnDisk \subseteq Files
  BY DEF Listed, OnDisk
<1>1. CASE \E f \in Files : Finish(f) \/ Lookup(f)
  <2>1. UNCHANGED <<scan, todo, queue, step, cur>>
    BY <1>1 DEF Finish, Lookup, Change
  <2>2. OnDisk' = OnDisk
    BY <1>1 DEF Finish, Lookup, Change, OnDisk, TypeOK
  <2>3. Listed' = Listed
    BY <1>1 DEF Finish, Lookup, Change, Listed, TypeOK
  <2>4. AddInv'
    BY <2>1, <2>2, <2>3 DEF Follows, AddInv, WillAdd
  <2>5. RemoveInv'
    BY <2>1, <2>2, <2>3 DEF Follows, RemoveInv, WillRemove
  <2>6. OrderInv' /\ WatchedInv'
    BY <2>1, <2>2, <2>3 DEF Follows, OrderInv, WatchedInv
  <2> QED
    BY <2>4, <2>5, <2>6 DEF Follows
<1>2. CASE \E w \in Watchers : InitUnsigned(w)
  <2>1. PICK w \in Watchers : InitUnsigned(w)
    BY <1>2
  <2>2. /\ UNCHANGED <<queue, step, cur>> /\ OnDisk' = OnDisk /\ Listed' = {}
        /\ scan'[w] = "started" /\ \A x \in Watchers \ {w} : scan'[x] = scan[x]
    BY <2>1 DEF InitUnsigned, OnDisk, Listed, TypeOK
  <2>3. AddInv'
    BY <2>2 DEF AddInv, WillAdd
  <2>4. RemoveInv' /\ OrderInv'
    BY <2>2 DEF Follows, RemoveInv, OrderInv, WillRemove
  <2>5. WatchedInv'
    BY <2>2 DEF Follows, WatchedInv
  <2> QED
    BY <2>3, <2>4, <2>5 DEF Follows
<1>3. CASE \E w \in Watchers : Watch(w) \/ ReadDir(w) \/ ScanNext(w)
  <2>1. PICK w \in Watchers : Watch(w) \/ ReadDir(w) \/ ScanNext(w)
    BY <1>3
  <2>2. UNCHANGED <<queue, listed, disk>> /\ OnDisk' = OnDisk /\ Listed' = Listed
    BY <2>1 DEF Watch, ReadDir, ScanNext, OnDisk, Listed
  <2>3. /\ \A x \in Watchers \ {w} : scan'[x] = scan[x] /\ todo'[x] = todo[x]
                                     /\ step'[x] = step[x] /\ cur'[x] = cur[x]
        /\ scan[w] # "off" /\ scan'[w] \in Watching
    BY <2>1 DEF Watch, ReadDir, ScanNext, StartAdd, Watching, TypeOK
  <2>4. ASSUME NEW g \in OnDisk, WillAdd(w, g)
        PROVE  WillAdd(w, g)'
    <3>1. CASE \E i \in 1 .. Len(queue[w]) : queue[w][i] = <<"add", g>>
      BY <2>2, <3>1 DEF WillAdd
    <3>2. CASE Watch(w)
      BY <3>2 DEF Watch, TypeOK, WillAdd
    <3>3. CASE ReadDir(w)
      BY <3>3 DEF ReadDir, TypeOK, WillAdd
    <3>4. CASE ScanNext(w) /\ ~\E i \in 1 .. Len(queue[w]) : queue[w][i] = <<"add", g>>
      <4>1. scan[w] = "scan" /\ step[w] = "none" /\ g \in todo[w]
        BY <2>4, <3>4 DEF ScanNext, WillAdd
      <4>2. PICK f \in todo[w] : /\ StartAdd(w, f) /\ todo' = [todo EXCEPT ![w] = @ \ {f}]
                                 /\ scan' = scan
        BY <3>4, <4>1 DEF ScanNext
      <4>3. step'[w] = "stat" /\ cur'[w] = f /\ todo'[w] = todo[w] \ {f} /\ scan'[w] = "scan"
        BY <4>1, <4>2 DEF StartAdd, TypeOK
      <4> QED
        BY <4>1, <4>3 DEF WillAdd
    <3> QED
      BY <2>1, <3>1, <3>2, <3>3, <3>4
  <2>5. ASSUME NEW x \in Watchers, NEW g \in OnDisk, WillAdd(x, g)
        PROVE  WillAdd(x, g)'
    <3>1. CASE x # w
      <4>1. /\ scan'[x] = scan[x] /\ todo'[x] = todo[x] /\ queue' = queue
            /\ step'[x] = step[x] /\ cur'[x] = cur[x]
        BY <2>2, <2>3, <3>1
      <4> QED
        BY <2>5, <4>1 DEF WillAdd
    <3>2. CASE x = w
      BY <2>4, <2>5, <3>2
    <3> QED
      BY <3>1, <3>2
  <2>6. AddInv'
    BY <2>2, <2>3, <2>5 DEF Follows, AddInv
  <2>7. RemoveInv'
    <3>1. \A x \in Watchers : step'[x] \in {"make", "put"} => step'[x] = step[x] /\ cur'[x] = cur[x]
      BY <2>1 DEF Watch, ReadDir, ScanNext, StartAdd, TypeOK
    <3> QED
      BY <2>2, <3>1, RemoveKept DEF Follows
  <2>8. OrderInv' /\ WatchedInv'
    BY <2>2, <2>3 DEF Follows, OrderInv, WatchedInv, Watching
  <2> QED
    BY <2>6, <2>7, <2>8 DEF Follows
<1>4. CASE \E w \in Watchers : Stat(w) \/ MakeInner(w) \/ Put(w)
  <2>1. PICK w \in Watchers : Stat(w) \/ MakeInner(w) \/ Put(w)
    BY <1>4
  <2>2. /\ UNCHANGED <<queue, scan, todo, disk>> /\ OnDisk' = OnDisk
        /\ \A x \in Watchers \ {w} : step'[x] = step[x] /\ cur'[x] = cur[x]
        /\ step[w] # "none" /\ cur[w] \in Files
    BY <2>1 DEF Stat, MakeInner, Put, OnDisk, TypeOK
  <2>3. CASE Stat(w) \/ MakeInner(w)
    <3>1. listed' = listed /\ Listed' = Listed
      BY <2>3 DEF Stat, MakeInner, Listed
    <3>2. /\ \/ step'[w] = "none" /\ cur[w] \notin OnDisk
             \/ /\ step'[w] = "make" /\ cur'[w] = cur[w] /\ cur[w] \in OnDisk
             \/ step[w] = "make" /\ step'[w] = "put" /\ cur'[w] = cur[w]
      BY <2>2, <2>3 DEF Stat, MakeInner, OnDisk, TypeOK
    <3>3. \A x \in Watchers, g \in OnDisk : WillAdd(x, g) => WillAdd(x, g)'
      BY <2>2, <3>2 DEF WillAdd
    <3>4. AddInv'
      BY <2>2, <3>1, <3>3 DEF Follows, AddInv
    <3>5. RemoveInv'
      <4>1. ASSUME NEW x \in Watchers, step'[x] \in {"make", "put"}
            PROVE  (step[x] \in {"make", "put"} /\ cur'[x] = cur[x]) \/ cur'[x] \in OnDisk
        BY <2>2, <3>2, <4>1
      <4> QED
        BY <2>2, <3>1, <4>1, RemoveKept DEF Follows
    <3>6. OrderInv' /\ WatchedInv'
      BY <2>2, <3>1 DEF Follows, OrderInv, WatchedInv
    <3> QED
      BY <3>4, <3>5, <3>6 DEF Follows
  <2>4. CASE Put(w)
    <3>0. inner
      BY <2>4 DEF Put, TypeOK
    <3>1. /\ listed' = [listed EXCEPT ![cur[w]] = "added"] /\ step[w] = "put"
          /\ step'[w] = "none"
      BY <2>4, <3>0 DEF Put, TypeOK
    <3>2. Listed' = Listed \cup {cur[w]}
      BY <2>2, <3>1 DEF Listed, TypeOK
    <3>3. \A x \in Watchers, g \in OnDisk \ {cur[w]} : WillAdd(x, g) => WillAdd(x, g)'
      BY <2>2, <3>1 DEF WillAdd
    <3>4. AddInv'
      BY <2>2, <3>2, <3>3 DEF Follows, AddInv
    <3>5. RemoveInv'
      <4>1. ASSUME NEW g \in Listed' \ OnDisk'
            PROVE  \E x \in Watchers : WillRemove(x, g)
        <5>1. CASE g = cur[w]
          BY <2>2, <3>1, <4>1, <5>1 DEF Follows, RemoveInv
        <5>2. CASE g # cur[w]
          BY <2>2, <3>2, <4>1, <5>2 DEF Follows, RemoveInv
        <5> QED
          BY <5>1, <5>2
      <4>2. \A x \in Watchers : step'[x] \in {"make", "put"} =>
               step[x] \in {"make", "put"} /\ cur'[x] = cur[x]
        BY <2>2, <3>1
      <4> QED
        BY <2>2, <4>1, <4>2, RemoveKept DEF Follows
    <3>6. OrderInv' /\ WatchedInv'
      <4>1. scan[w] \in Watching
        BY <2>2 DEF ScanInv, Watching
      <4> QED
        BY <2>2, <4>1 DEF Follows, OrderInv, WatchedInv
    <3> QED
      BY <3>4, <3>5, <3>6 DEF Follows
  <2> QED
    BY <2>1, <2>3, <2>4
<1> QED
  BY <1>1, <1>2, <1>3, <1>4

LEMMA ListingStep ==
    ASSUME TypeOK, TypeOK', ScanInv, ListingInv, Next
    PROVE  ListingInv'
<1> SUFFICES ASSUME ~blind', ~crashed'
             PROVE  Follows'
  BY DEF ListingInv, Follows
<1>0. ~crashed
  BY DEF Next, Disk, Scan, Create, Finish, Remove, MoveAway, Change, Overflow,
         InitUnsigned, Watch, WatchFails, ReadDir, ReadDirFails, ScanNext, ReadEvent, Stat, MakeInner,
         Put, Lookup
<1>1. blind' = blind \/ blind' = TRUE
  BY DEF Next, Disk, Scan, Create, Finish, Remove, MoveAway, Overflow,
         InitUnsigned, Watch, WatchFails, ReadDir, ReadDirFails, ScanNext, ReadEvent, Stat, MakeInner,
         Put, Lookup
<1>2. Follows
  BY <1>0, <1>1 DEF ListingInv, Follows
<1>3. CASE \E f \in Files : Create(f)
  <2>1. PICK f \in Files : Create(f)
    BY <1>3
  <2>2. OnDisk' = OnDisk \cup {f} /\ UNCHANGED <<listed, scan, todo, step, cur>>
    BY <2>1 DEF Create, Change, OnDisk, TypeOK, map, adding
  <2>3. Tell("add", f)
    BY <2>1 DEF Create
  <2> QED
    BY <1>2, <2>2, <2>3, TellStep
<1>4. CASE \E f \in Files : Remove(f)
  <2>1. PICK f \in Files : Remove(f)
    BY <1>4
  <2>2. OnDisk' = OnDisk \ {f} /\ UNCHANGED <<listed, scan, todo, step, cur>>
    BY <2>1 DEF Remove, Change, OnDisk, TypeOK, map, adding
  <2>3. Tell("remove", f)
    BY <2>1 DEF Remove
  <2> QED
    BY <1>2, <2>2, <2>3, TellStep
<1>5. CASE \E f \in Files : MoveAway(f)
  BY <1>5 DEF MoveAway
<1>6. CASE \E w \in Watchers : WatchFails(w) \/ ReadDirFails(w) \/ Overflow(w)
  BY <1>6 DEF WatchFails, ReadDirFails, Overflow
<1>7. CASE \E w \in Watchers : ReadEvent(w)
  BY <1>2, <1>7, ReadStep
<1>8. CASE \/ \E f \in Files : Finish(f) \/ Lookup(f)
           \/ \E w \in Watchers : \/ InitUnsigned(w) \/ Watch(w) \/ ReadDir(w) \/ ScanNext(w)
                                  \/ Stat(w) \/ MakeInner(w) \/ Put(w)
  BY <1>2, <1>8, OtherStep
<1> QED
  BY <1>3, <1>4, <1>5, <1>6, <1>7, <1>8 DEF Next, Disk, Scan

----------------------------------------------------------------------------
(* The invariant and what it implies.                                      *)

LEMMA UnsignedInvariant == Spec => []UnsignedInv
<1>1. Init => UnsignedInv
  <2> SUFFICES ASSUME Init PROVE UnsignedInv
    OBVIOUS
  <2> USE UnsignedAssumption DEF Init
  <2>1. TypeOK
    <3>1. queue \in [Watchers -> Seq({"add", "remove"} \X Files)]
      <4>1. <<>> \in Seq({"add", "remove"} \X Files)
        OBVIOUS
      <4> QED
        BY <4>1
    <3>2. disk \in [Files -> {"none", "partial", "whole"}] /\ changes \in 0 .. MaxChanges
      OBVIOUS
    <3>3. inner \in BOOLEAN /\ crashed \in BOOLEAN /\ blind \in BOOLEAN
      BY Zenon
    <3> QED
      BY <3>1, <3>2, <3>3 DEF TypeOK
  <2>2. ScanInv /\ InnerInv
    BY DEF ScanInv, InnerInv
  <2>3. Listed = {} /\ \A w \in Watchers : Len(queue[w]) = 0
    BY DEF Listed
  <2>4. AddInv /\ RemoveInv /\ WatchedInv
    BY <2>3 DEF AddInv, RemoveInv, WatchedInv
  <2>5. OrderInv
    BY <2>3 DEF OrderInv, Ordered
  <2> QED
    BY <2>1, <2>2, <2>4, <2>5 DEF UnsignedInv, ListingInv
<1>2. UnsignedInv /\ [Next]_vars => UnsignedInv'
  <2>1. ASSUME UnsignedInv, Next
        PROVE  UnsignedInv'
    <3>1. TypeOK' /\ ScanInv'
      BY <2>1, TypesStep DEF UnsignedInv
    <3>2. InnerInv' /\ ListingInv'
      BY <2>1, <3>1, InnerStep, ListingStep DEF UnsignedInv
    <3> QED
      BY <3>1, <3>2 DEF UnsignedInv
  <2>2. ASSUME UnsignedInv, UNCHANGED vars
        PROVE  UnsignedInv'
    <3>1. /\ UNCHANGED <<disk, changes, inner, listed, lk, scan, todo, queue>>
          /\ UNCHANGED <<step, cur, crashed, blind>>
          /\ OnDisk' = OnDisk /\ Listed' = Listed
      BY <2>2 DEF vars, directory, map, adding, OnDisk, Listed
    <3>2. TypeOK' /\ ScanInv'
      BY <2>2, <3>1 DEF UnsignedInv, TypeOK, ScanInv
    <3>3. InnerInv'
      BY <2>2, <3>1 DEF UnsignedInv, InnerInv, Single
    <3>4. ListingInv'
      <4> SUFFICES ASSUME ~blind, ~crashed
                   PROVE  AddInv' /\ RemoveInv' /\ OrderInv' /\ WatchedInv'
        BY <3>1 DEF ListingInv
      <4>1. AddInv /\ RemoveInv /\ OrderInv /\ WatchedInv
        BY <2>2 DEF UnsignedInv, ListingInv
      <4>2. AddInv'
        BY <3>1, <4>1 DEF AddInv, WillAdd
      <4>3. RemoveInv'
        BY <3>1, <4>1 DEF RemoveInv, WillRemove
      <4>4. OrderInv' /\ WatchedInv'
        BY <3>1, <4>1 DEF OrderInv, WatchedInv
      <4> QED
        BY <4>2, <4>3, <4>4
    <3> QED
      BY <3>2, <3>3, <3>4 DEF UnsignedInv
  <2> QED
    BY <2>1, <2>2
<1> QED
  BY <1>1, <1>2, PTL DEF Spec

(***************************************************************************)
(* Types, and the write lock of unsignedMapLk belongs to the one goroutine *)
(* that is between making the inner map and adding to it.                  *)
(***************************************************************************)
THEOREM UnsignedTypes == Spec => []TypeOK
<1>1. UnsignedInv => TypeOK
  BY DEF UnsignedInv
<1> QED
  BY <1>1, UnsignedInvariant, PTL

(***************************************************************************)
(* When the goroutines of unsignedScan have nothing left to do, however    *)
(* many there are, unsignedMap is the directory, unless events were lost.  *)
(***************************************************************************)
THEOREM QuietListingIsDirectory == Spec => []QuietListsDirectory
<1>1. ASSUME UnsignedInv, Quiet, ~blind
      PROVE  Listed = OnDisk
  <2>1. /\ ~crashed
        /\ \A w \in Watchers : /\ scan[w] \in {"off", "loop"} /\ step[w] = "none"
                               /\ queue[w] = <<>> /\ Len(queue[w]) = 0
        /\ \E w \in Watchers : scan[w] = "loop"
    BY <1>1 DEF Quiet
  <2>2. AddInv /\ RemoveInv
    BY <1>1, <2>1 DEF UnsignedInv, ListingInv
  <2>3. ASSUME NEW w \in Watchers, NEW f
        PROVE  ~WillAdd(w, f) /\ ~WillRemove(w, f)
    BY <2>1 DEF WillAdd, WillRemove
  <2>4. OnDisk \subseteq Listed
    BY <2>1, <2>2, <2>3 DEF AddInv
  <2>5. Listed \subseteq OnDisk
    BY <2>2, <2>3 DEF RemoveInv
  <2> QED
    BY <2>4, <2>5
<1>2. UnsignedInv => QuietListsDirectory
  BY <1>1 DEF QuietListsDirectory
<1> QED
  BY <1>2, UnsignedInvariant, PTL

(***************************************************************************)
(* A scan panics on a missing inner map only when a second database was    *)
(* opened beside it, for any number of databases, files and changes.       *)
(***************************************************************************)
THEOREM InnerMapIsFound == Spec => []InnerMapFound
<1>1. ASSUME ~Single
      PROVE  Cardinality({w \in Watchers : scan[w] # "off"}) > 1
  <2> DEFINE S == {w \in Watchers : scan[w] # "off"}
  <2>1. PICK a \in Watchers, b \in Watchers : scan[a] # "off" /\ scan[b] # "off" /\ a # b
    BY <1>1 DEF Single
  <2>2. a \in S /\ b \in S /\ S \in SUBSET Watchers
    BY <2>1
  <2> HIDE DEF S
  <2>3. IsFiniteSet(S) /\ Cardinality(S) \in Nat
    BY <2>2, UnsignedAssumption, FS_Subset, FS_CardinalityType
  <2>4. Cardinality(S) # 0
    BY <2>2, <2>3, FS_EmptySet
  <2>5. Cardinality(S) # 1
    <3> SUFFICES ASSUME Cardinality(S) = 1 PROVE FALSE
      OBVIOUS
    <3>1. PICK x : S = {x}
      BY <2>3, FS_Singleton
    <3> QED
      BY <2>1, <2>2, <3>1
  <2>6. Cardinality(S) > 1
    BY <2>3, <2>4, <2>5
  <2> QED
    BY <2>6 DEF S
<1>2. UnsignedInv => InnerMapFound
  BY <1>1 DEF UnsignedInv, InnerInv, InnerMapFound
<1> QED
  BY <1>2, UnsignedInvariant, PTL
=============================================================================
