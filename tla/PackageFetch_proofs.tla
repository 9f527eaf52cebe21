------------------------ MODULE PackageFetch_proofs ------------------------
(***************************************************************************)
(* Proofs about PackageFetch, for any number of goroutines, any file an    *)
(* earlier process left on the disk and any number of sleeping goroutines. *)
(*                                                                         *)
(* Only the holder of dlMu changes p.f, p.squash and dlDone (but for the   *)
(* retry goroutine, which takes it too), so what doDl leaves behind is     *)
(* followed through it with one conjunct per place at which it can be.     *)
(***************************************************************************)
EXTENDS PackageFetch, TLAPS

\* the goroutine is inside ensureDl with the mutex held
Holds(t) == pc[t] \in {"open", "validate", "mount", "finish"}

\* at most one goroutine is in doDl, and the mutex says so
MutexInv ==
    /\ \A t \in Threads : Holds(t) => dlMu
    /\ \A s, t \in Threads : Holds(s) /\ Holds(t) => s = t

\* doDl runs only while dlDone is clear, and its timer has room
DoneInv ==
    /\ dlDone => squash
    /\ \A t \in Threads : Holds(t) => ~dlDone
    /\ \A t \in Threads : pc[t] \in {"open", "validate"} => timers < MaxTimers

\* what is known of the file, whoever is where: p.f is the file on the disk,
\* and an image was mounted from a good one that nothing replaces
FileInv ==
    /\ f # "nil" => f = disk
    /\ valid => f = "good"
    /\ squash => disk = "good"

\* what p.f and p.squash may be outside doDl
AtRest ==
    /\ f # "nil" => valid /\ squash
    /\ ~readFails /\ squash => f # "nil"

\* what doDl has reached at each of its places
PlaceInv ==
    /\ ~dlMu => AtRest
    /\ \A t \in Threads :
         /\ pc[t] \in {"open", "finish"} => AtRest
         /\ pc[t] = "validate" => f # "nil" /\ ~valid
         /\ pc[t] = "mount" => f = "good" /\ valid

FetchInv == TypeOK /\ MutexInv /\ DoneInv /\ FileInv /\ PlaceInv

----------------------------------------------------------------------------
(* The initial states.                                                     *)

\* a new process holds nothing and has mounted nothing
LEMMA FetchInitially == Init => FetchInv
<1> SUFFICES ASSUME Init PROVE FetchInv
  OBVIOUS
<1>1. TypeOK
  <2>1. served \subseteq Contents /\ disk \in Contents \cup {"none"}
    BY FetchAssumption DEF Init, Contents
  <2>2. timers \in 0 .. MaxTimers
    BY FetchAssumption DEF Init
  <2>3. pc \in [Threads -> PCs] /\ got \in [Threads -> Results]
    BY DEF Init, PCs, Results
  <2>4. /\ readFails \in BOOLEAN /\ dlMu \in BOOLEAN /\ dlDone \in BOOLEAN
        /\ valid \in BOOLEAN /\ squash \in BOOLEAN /\ inUse \in BOOLEAN
        /\ f \in Contents \cup {"nil"}
    BY Zenon DEF Init
  <2> QED  BY <2>1, <2>2, <2>3, <2>4 DEF TypeOK
<1>2. MutexInv /\ DoneInv /\ FileInv /\ PlaceInv
  BY DEF Init, MutexInv, DoneInv, FileInv, PlaceInv, AtRest, Holds
<1> QED  BY <1>1, <1>2 DEF FetchInv

----------------------------------------------------------------------------
(* The steps outside doDl.                                                 *)

\* a goroutine that is not in doDl moves to another place outside it
LEMMA OutsideStep ==
    ASSUME FetchInv, NEW t \in Threads, NEW l \in PCs,
           ~Holds(t), l \notin {"open", "validate", "mount", "finish"}, Goto(t, l),
           got' \in [Threads -> Results],
           UNCHANGED <<env, disk, dlMu, dlDone, f, valid, squash, inUse, timers>>
    PROVE  FetchInv'
<1>1. TypeOK'
  BY DEF FetchInv, TypeOK, Goto, env
<1>2. \A s \in Threads : Holds(s)' => Holds(s) /\ pc'[s] = pc[s]
  BY DEF FetchInv, TypeOK, Holds, Goto
<1>3. MutexInv' /\ DoneInv' /\ FileInv'
  BY <1>2 DEF FetchInv, MutexInv, DoneInv, FileInv, Holds
<1>4. AtRest' = AtRest
  BY DEF AtRest, env
<1>5. PlaceInv'
  BY <1>2, <1>4 DEF FetchInv, PlaceInv, Holds
<1> QED  BY <1>1, <1>3, <1>5 DEF FetchInv

\* the process starts again, with the file on the disk
LEMMA PanicStep ==
    ASSUME FetchInv, Panic
    PROVE  FetchInv'
<1>1. TypeOK'
  <2>1. timers' \in 0 .. MaxTimers
    BY FetchAssumption DEF Panic
  <2>2. pc' \in [Threads -> PCs] /\ got' \in [Threads -> Results]
    BY DEF Panic, PCs, Results
  <2>3. /\ dlMu' \in BOOLEAN /\ dlDone' \in BOOLEAN /\ valid' \in BOOLEAN
        /\ squash' \in BOOLEAN /\ inUse' \in BOOLEAN /\ f' \in Contents \cup {"nil"}
    BY Zenon DEF Panic
  <2>4. UNCHANGED <<served, readFails, disk>>
    BY DEF Panic, env
  <2> QED  BY <2>1, <2>2, <2>3, <2>4 DEF FetchInv, TypeOK
<1>2. MutexInv' /\ DoneInv' /\ FileInv' /\ PlaceInv'
  BY DEF Panic, MutexInv, DoneInv, FileInv, PlaceInv, AtRest, Holds
<1> QED  BY <1>1, <1>2 DEF FetchInv

\* a lookup or a read begins, goes on or is answered
LEMMA RequestStep ==
    ASSUME FetchInv, NEW t \in Threads,
           \/ HandleLookup(t) \/ StartRead(t) \/ HandleLookupCheck(t)
           \/ HandleLookupUse(t) \/ ReadAtCheck(t) \/ ReadAtUse(t) \/ Answer(t)
    PROVE  FetchInv'
<1> USE DEF Holds
<1>0. got \in [Threads -> Results]
  BY DEF FetchInv, TypeOK
<1>1. CASE HandleLookup(t)
  BY <1>0, <1>1, OutsideStep DEF HandleLookup, PCs
<1>2. CASE StartRead(t)
  BY <1>0, <1>2, OutsideStep DEF StartRead, PCs
<1>3. CASE HandleLookupCheck(t)
  <2>1. got' \in [Threads -> Results]
    BY <1>0, <1>3 DEF HandleLookupCheck, Result, Results
  <2> QED  BY <2>1, <1>3, OutsideStep DEF HandleLookupCheck, PCs
<1>4. CASE HandleLookupUse(t)
  BY <1>0, <1>4, OutsideStep, PanicStep DEF HandleLookupUse, PCs
<1>5. CASE ReadAtCheck(t)
  <2>1. got' \in [Threads -> Results]
    BY <1>0, <1>5 DEF ReadAtCheck, Result, Results
  <2> QED  BY <2>1, <1>5, OutsideStep DEF ReadAtCheck, PCs
<1>6. CASE ReadAtUse(t)
  <2>1. CASE f = "nil"
    BY <2>1, <1>6, PanicStep DEF ReadAtUse
  <2>2. CASE f # "nil"
    <3>1. got' \in [Threads -> Results]
      BY <1>0, <1>6, <2>2 DEF ReadAtUse, Result, Results
    <3> QED  BY <3>1, <2>2, <1>6, OutsideStep DEF ReadAtUse, PCs
  <2> QED  BY <2>1, <2>2
<1>7. CASE Answer(t)
  <2>1. got' \in [Threads -> Results]
    BY <1>0, <1>7 DEF Answer, Result, Results
  <2> QED  BY <2>1, <1>7, OutsideStep DEF Answer, PCs
<1> QED  BY <1>1, <1>2, <1>3, <1>4, <1>5, <1>6, <1>7

----------------------------------------------------------------------------
(* The steps of ensureDl and doDl.                                         *)

\* ensureDl with the mutex free: nothing to do, or into doDl
LEMMA EnsureDlStep ==
    ASSUME FetchInv, NEW t \in Threads, EnsureDl(t)
    PROVE  FetchInv'
<1>1. TypeOK'
  BY FetchAssumption DEF FetchInv, TypeOK, DoneInv, EnsureDl, Goto, env, PCs
<1>2. MutexInv'
  BY DEF FetchInv, TypeOK, MutexInv, Holds, EnsureDl, Goto, PCs
<1>3. DoneInv'
  BY FetchAssumption
     DEF FetchInv, TypeOK, MutexInv, DoneInv, Holds, EnsureDl, Goto, PCs
<1>4. FileInv'
  BY DEF FetchInv, TypeOK, FileInv, PlaceInv, EnsureDl, Goto
<1>5. PlaceInv'
  BY DEF FetchInv, TypeOK, MutexInv, FileInv, PlaceInv, AtRest, Holds, EnsureDl,
         Goto, env, PCs
<1> QED  BY <1>1, <1>2, <1>3, <1>4, <1>5 DEF FetchInv

\* nothing was opened: p.f is what it was
LEMMA DoDlOpenFailsStep ==
    ASSUME FetchInv, NEW t \in Threads, DoDlOpenFails(t)
    PROVE  FetchInv'
<1>1. TypeOK'
  BY FetchAssumption DEF FetchInv, TypeOK, DoneInv, DoDlOpenFails, Goto, env, PCs
<1>2. MutexInv'
  BY DEF FetchInv, TypeOK, MutexInv, Holds, DoDlOpenFails, Goto, PCs
<1>3. DoneInv'
  BY FetchAssumption
     DEF FetchInv, TypeOK, MutexInv, DoneInv, Holds, DoDlOpenFails, Goto, PCs
<1>4. FileInv'
  BY DEF FetchInv, TypeOK, FileInv, PlaceInv, DoDlOpenFails, Goto
<1>5. PlaceInv'
  BY DEF FetchInv, TypeOK, MutexInv, FileInv, PlaceInv, AtRest, Holds,
         DoDlOpenFails, Goto, env, PCs
<1> QED  BY <1>1, <1>2, <1>3, <1>4, <1>5 DEF FetchInv

\* p.f is the file on the disk, not yet validated
LEMMA DoDlOpenStep ==
    ASSUME FetchInv, NEW t \in Threads, DoDlOpen(t)
    PROVE  FetchInv'
<1>1. TypeOK'
  BY FetchAssumption DEF FetchInv, TypeOK, DoneInv, DoDlOpen, Goto, Contents, env, PCs
<1>2. MutexInv'
  BY DEF FetchInv, TypeOK, MutexInv, Holds, DoDlOpen, Goto, Contents, PCs
<1>3. DoneInv'
  BY FetchAssumption
     DEF FetchInv, TypeOK, MutexInv, DoneInv, Holds, DoDlOpen, Goto, Contents, PCs
<1>4. FileInv'
  BY DEF FetchInv, TypeOK, FileInv, PlaceInv, DoDlOpen, Goto, Contents
<1>5. PlaceInv'
  BY DEF FetchInv, TypeOK, MutexInv, FileInv, PlaceInv, AtRest, Holds, DoDlOpen,
         Goto, Contents, env, PCs
<1> QED  BY <1>1, <1>2, <1>3, <1>4, <1>5 DEF FetchInv

\* the file is given up; an image that is still mounted came from a good file, so
\* only a read error brings it here
LEMMA DoDlInvalidStep ==
    ASSUME FetchInv, NEW t \in Threads, DoDlInvalid(t)
    PROVE  FetchInv'
<1>1. TypeOK'
  <2>1. timers' \in 0 .. MaxTimers
    BY FetchAssumption DEF FetchInv, TypeOK, DoneInv, DoDlInvalid, RetryTimer
  <2>2. pc' \in [Threads -> PCs]
    BY DEF FetchInv, TypeOK, DoDlInvalid, Goto, PCs
  <2>3. disk' \in Contents \cup {"none"} /\ f' \in Contents \cup {"nil"}
    BY Zenon DEF FetchInv, TypeOK, DoDlInvalid, ValidateRemoves
  <2>4. valid' \in BOOLEAN
    BY Zenon DEF DoDlInvalid
  <2> QED  BY <2>1, <2>2, <2>3, <2>4 DEF FetchInv, TypeOK, DoDlInvalid, env
<1>2. MutexInv'
  BY DEF FetchInv, TypeOK, MutexInv, Holds, DoDlInvalid, Goto, ValidateRemoves,
         RetryTimer, Contents, PCs
<1>3. DoneInv'
  BY FetchAssumption
    
        DEF FetchInv, TypeOK, MutexInv, DoneInv, Holds, DoDlInvalid, Goto,
            ValidateRemoves, RetryTimer, Contents, PCs
<1>4. FileInv'
  BY DEF FetchInv, TypeOK, FileInv, PlaceInv, DoDlInvalid, Goto, ValidateRemoves,
         RetryTimer, Contents
<1>5. PlaceInv'
  BY DEF FetchInv, TypeOK, MutexInv, FileInv, PlaceInv, AtRest, Holds, DoDlInvalid,
         Goto, ValidateRemoves, RetryTimer, Contents, env, PCs
<1> QED  BY <1>1, <1>2, <1>3, <1>4, <1>5 DEF FetchInv

\* the file is the package
LEMMA DoDlValidStep ==
    ASSUME FetchInv, NEW t \in Threads, DoDlValid(t)
    PROVE  FetchInv'
<1>1. TypeOK'
  BY FetchAssumption DEF FetchInv, TypeOK, DoneInv, DoDlValid, Goto, env, PCs
<1>2. MutexInv'
  BY DEF FetchInv, TypeOK, MutexInv, Holds, DoDlValid, Goto, PCs
<1>3. DoneInv'
  BY FetchAssumption
     DEF FetchInv, TypeOK, MutexInv, DoneInv, Holds, DoDlValid, Goto, PCs
<1>4. FileInv'
  BY DEF FetchInv, TypeOK, FileInv, PlaceInv, DoDlValid, Goto
<1>5. PlaceInv'
  BY DEF FetchInv, TypeOK, MutexInv, FileInv, PlaceInv, AtRest, Holds, DoDlValid,
         Goto, env, PCs
<1> QED  BY <1>1, <1>2, <1>3, <1>4, <1>5 DEF FetchInv

\* mounted, or neither file nor image
LEMMA DoDlMountStep ==
    ASSUME FetchInv, NEW t \in Threads, DoDlMount(t)
    PROVE  FetchInv'
<1>1. TypeOK'
  BY FetchAssumption DEF FetchInv, TypeOK, DoneInv, DoDlMount, Goto, env, PCs
<1>2. MutexInv'
  BY DEF FetchInv, TypeOK, MutexInv, Holds, DoDlMount, Goto, PCs
<1>3. DoneInv'
  BY FetchAssumption
     DEF FetchInv, TypeOK, MutexInv, DoneInv, Holds, DoDlMount, Goto, PCs
<1>4. FileInv'
  BY DEF FetchInv, TypeOK, FileInv, PlaceInv, DoDlMount, Goto
<1>5. PlaceInv'
  BY DEF FetchInv, TypeOK, MutexInv, FileInv, PlaceInv, AtRest, Holds, DoDlMount,
         Goto, env, PCs
<1> QED  BY <1>1, <1>2, <1>3, <1>4, <1>5 DEF FetchInv

\* dlDone follows the image, and the mutex is released
LEMMA EnsureDlEndStep ==
    ASSUME FetchInv, NEW t \in Threads, EnsureDlEnd(t)
    PROVE  FetchInv'
<1>1. TypeOK'
  BY FetchAssumption
     DEF FetchInv, TypeOK, DoneInv, EnsureDlEnd, Goto, DlDoneAfter, env, PCs
<1>2. MutexInv'
  BY DEF FetchInv, TypeOK, MutexInv, Holds, EnsureDlEnd, Goto, DlDoneAfter, PCs
<1>3. DoneInv'
  BY FetchAssumption
    
        DEF FetchInv, TypeOK, MutexInv, DoneInv, Holds, EnsureDlEnd, Goto,
            DlDoneAfter, PCs
<1>4. FileInv'
  BY DEF FetchInv, TypeOK, FileInv, PlaceInv, EnsureDlEnd, Goto, DlDoneAfter
<1>5. PlaceInv'
  BY DEF FetchInv, TypeOK, MutexInv, FileInv, PlaceInv, AtRest, Holds, EnsureDlEnd,
         Goto, DlDoneAfter, env, PCs
<1> QED  BY <1>1, <1>2, <1>3, <1>4, <1>5 DEF FetchInv

\* dlDone may be cleared at any time but in doDl
LEMMA TimerStep ==
    ASSUME FetchInv, TimerFires
    PROVE  FetchInv'
<1>1. TypeOK'
  <2>1. timers' \in 0 .. MaxTimers
    BY FetchAssumption DEF FetchInv, TypeOK, TimerFires
  <2>2. dlDone' \in BOOLEAN
    BY Zenon DEF TimerFires
  <2> QED  BY <2>1, <2>2 DEF FetchInv, TypeOK, TimerFires, env
<1>2. MutexInv' /\ FileInv' /\ PlaceInv'
  BY DEF FetchInv, MutexInv, FileInv, PlaceInv, AtRest, Holds, TimerFires, env
<1>3. DoneInv'
  BY DEF FetchInv, MutexInv, DoneInv, Holds, TimerFires
<1> QED  BY <1>1, <1>2, <1>3 DEF FetchInv

----------------------------------------------------------------------------
(* The theorems.                                                           *)

\* the conjunction is an inductive invariant
LEMMA FetchInductive == FetchInv /\ [Next]_vars => FetchInv'
<1> SUFFICES ASSUME FetchInv, [Next]_vars PROVE FetchInv'
  OBVIOUS
<1>1. ASSUME NEW t \in Threads, HandleLookup(t) \/ StartRead(t) \/ Step(t)
      PROVE  FetchInv'
  BY <1>1, RequestStep, EnsureDlStep, DoDlOpenFailsStep, DoDlOpenStep, DoDlInvalidStep,
     DoDlValidStep, DoDlMountStep, EnsureDlEndStep DEF Step
<1>2. CASE UNCHANGED vars
  BY <1>2 DEF FetchInv, TypeOK, MutexInv, DoneInv, FileInv, PlaceInv, AtRest, Holds,
              vars, env
<1> QED  BY <1>1, <1>2, TimerStep DEF Next

LEMMA FetchInvariant == Spec => []FetchInv
BY FetchInitially, FetchInductive, PTL DEF Spec

(***************************************************************************)
(* The variables of a package keep their types; the number of sleeping     *)
(* goroutines stays within its bound because dlMu is held from the test    *)
(* in ensureDl to the start of the next one.                               *)
(***************************************************************************)
THEOREM FetchTypes == Spec => []TypeOK
<1>1. FetchInv => TypeOK
  BY DEF FetchInv
<1> QED  BY <1>1, FetchInvariant, PTL

(***************************************************************************)
(* dlDone is only set while there is an image, although the goroutines     *)
(* that clear it fire at any time and every step of doDl may fail.         *)
(***************************************************************************)
THEOREM DoneImpliesMounted == Spec => []DoneMeansMounted
<1>1. FetchInv => DoneMeansMounted
  BY DEF FetchInv, DoneInv, DoneMeansMounted
<1> QED  BY <1>1, FetchInvariant, PTL

(***************************************************************************)
(* While dlMu is free, p.f is nil or a validated and mounted file: what    *)
(* ReadAt finds there without the lock was checked, unless doDl runs.      *)
(***************************************************************************)
THEOREM RestingFileValidated == Spec => []SettledFileValidated
<1>1. FetchInv => SettledFileValidated
  BY DEF FetchInv, PlaceInv, AtRest, SettledFileValidated, Settled
<1> QED  BY <1>1, FetchInvariant, PTL

(***************************************************************************)
(* Only a read error during a later validation takes the file away from a  *)
(* mounted image: the file on the disk is still the one it was mounted     *)
(* from.                                                                   *)
(***************************************************************************)
THEOREM FileKeptWithoutReadErrors == Spec => []FileLostOnlyByReadError
<1>1. FetchInv => FileLostOnlyByReadError
  BY DEF FetchInv, PlaceInv, AtRest, FileLostOnlyByReadError, Settled
<1> QED  BY <1>1, FetchInvariant, PTL

----------------------------------------------------------------------------
(* What a read error costs.                                                *)

\* marked as downloaded, no file behind the image, no retry to come
Bereft == dlDone /\ f = "nil" /\ timers = 0

\* only a panic, and the process that follows it, opens the file again
BereftStays == [][Bereft => Bereft' \/ Panic]_vars

(***************************************************************************)
(* A package that lost its file to a read error and is marked as           *)
(* downloaded stays unreadable for the life of the process: dlDone keeps   *)
(* every ensureDl out of doDl, and no goroutine is left that clears it.    *)
(***************************************************************************)
THEOREM LossIsForever == Spec => BereftStays
<1>1. ASSUME FetchInv, [Next]_vars, Bereft
      PROVE  Bereft' \/ Panic
  <2>1. \A t \in Threads : ~Holds(t)
    BY <1>1 DEF FetchInv, DoneInv, Bereft
  <2>2. CASE \E t \in Threads : HandleLookup(t) \/ StartRead(t) \/ Step(t)
    <3>1. PICK t \in Threads : HandleLookup(t) \/ StartRead(t) \/ Step(t)
      BY <2>2
    <3>2. CASE \/ HandleLookup(t) \/ StartRead(t) \/ EnsureDl(t) \/ HandleLookupCheck(t)
               \/ HandleLookupUse(t) \/ ReadAtCheck(t) \/ ReadAtUse(t) \/ Answer(t)
      BY <1>1, <3>2 DEF Bereft, HandleLookup, StartRead, EnsureDl, HandleLookupCheck,
           HandleLookupUse, ReadAtCheck, ReadAtUse, Answer
    <3>3. CASE \/ DoDlOpenFails(t) \/ DoDlOpen(t) \/ DoDlInvalid(t) \/ DoDlValid(t)
               \/ DoDlMount(t) \/ EnsureDlEnd(t)
      BY <2>1, <3>3 DEF Holds, DoDlOpenFails, DoDlOpen, DoDlInvalid, DoDlValid, DoDlMount,
           EnsureDlEnd
    <3> QED BY <3>1, <3>2, <3>3 DEF Step
  <2>3. CASE TimerFires
    BY <1>1, <2>3 DEF Bereft, TimerFires
  <2>4. CASE UNCHANGED vars
    BY <1>1, <2>4 DEF Bereft, vars
  <2> QED BY <1>1, <2>2, <2>3, <2>4 DEF Next
<1> QED BY <1>1, FetchInvariant, PTL DEF Spec, BereftStays

=============================================================================
