--------------------------- MODULE DbSync_proofs ---------------------------
(***************************************************************************)
(* Proofs about DbSync, for any packages, builds, orders of the walk and   *)
(* numbers of exports.                                                     *)
(*                                                                         *)
(* The first part holds whatever maintainers and caches do.  The second is *)
(* about builds that are published once, when no build that was replaced   *)
(* is ever listed again.                                                   *)
(***************************************************************************)
EXTENDS DbSync, TLAPS

\* the database lists the build under its name
Lists(d, h) == d.p2p[NameOf[h]] = h

\* what is listed has a record, and is a build of that name
Resolves(d) ==
    \A n \in Names : d.p2p[n] # NoHash => d.p2p[n] \in d.pkg /\ NameOf[d.p2p[n]] = n

\* the states of the two processes
PubStates ==
    [pc : {"idle", "walk", "export", "uploaded"}, db : Dbs, at : 1 .. Len(Walk) + 1]

CliStates == [pc : {"idle", "fetch", "index"}, want : 0 .. MaxVersions]

USE DEF PubStates, CliStates

ShapeInv ==
    /\ TypeOK
    /\ pub \in PubStates
    /\ cli \in CliStates

\* every version that someone knows of is that of an export on the server, and
\* the publisher's next one is the first that is free
VersionInv ==
    /\ latest <= Len(bins) /\ previous <= Len(bins) /\ db.version <= Len(bins)
    /\ cli.pc # "idle" => cli.want \in 1 .. Len(bins)
    /\ pub.pc \in {"walk", "export"} => Len(bins) < MaxVersions
    /\ pub.pc = "export" => pub.db.version = Len(bins) + 1

\* a client that has the record of a build has a build under its name: index
\* skips builds it has records of, and nothing takes a name away
KnownNamesListed == \A h \in db.pkg : db.p2p[NameOf[h]] # NoHash

SyncInv ==
    /\ ShapeInv /\ VersionInv /\ ListedHasRecord
    /\ KnownNamesListed /\ InstalledNamesResolve

----------------------------------------------------------------------------
(* Builds that are published once.                                         *)

Once == ~Removals /\ ~Rebuilds /\ ~StaleLatest /\ ~AddErrors

\* a build that was in the directory and is not any more
Retired(h) == h \in seen /\ dist[h] = "absent"

\* a name that has been in the directory has exactly one file in it
DirectoryInv ==
    /\ \A h \in Hashes : dist[h] # "empty" /\ (dist[h] = "file" => h \in seen)
    /\ \A h \in seen : \E g \in Hashes : NameOf[g] = NameOf[h] /\ dist[g] = "file"
    /\ \A g, h \in Hashes :
         dist[g] = "file" /\ dist[h] = "file" /\ NameOf[g] = NameOf[h] => g = h

\* only what was in the directory is listed
SeenInv ==
    \A h \in Hashes :
        /\ Lists(pub.db, h) => h \in seen
        /\ \A i \in 1 .. Len(bins) : Lists(bins[i], h) => h \in seen

\* the walk lists every file it has met
WalkedInv ==
    /\ pub.pc # "idle" => \A h \in pub.db.pkg : dist[h] = "file" => Lists(pub.db, h)
    /\ pub.pc = "walk" =>
         \A i \in 1 .. pub.at - 1 : dist[Walk[i]] = "file" => Lists(pub.db, Walk[i])
    /\ pub.pc = "export" => \A h \in Hashes : dist[h] = "file" => Lists(pub.db, h)

\* a build that one export lists and a later one does not is retired, and no
\* export after that lists it again
NoReturn ==
    \A h \in Hashes : \A i, j \in 1 .. Len(bins) :
        i < j /\ Lists(bins[i], h) /\ ~Lists(bins[j], h) =>
            /\ Retired(h)
            /\ \A k \in j .. Len(bins) : ~Lists(bins[k], h)

\* versions only grow
ForwardInv ==
    /\ db.version <= latest
    /\ cli.pc # "idle" => db.version <= cli.want /\ cli.want <= latest

\* what a client has a record of was in an export it has installed or skipped;
\* if it does not list it any more, no later export does
RecordInv ==
    \A h \in db.pkg :
        /\ \E i \in 1 .. db.version : Lists(bins[i], h)
        /\ ~Lists(db, h) =>
             Retired(h) /\ \A j \in 1 .. Len(bins) : j >= db.version => ~Lists(bins[j], h)

\* everything of the export a client has installed is on record there
InstalledInv ==
    db.version # 0 => /\ Exported(bins[db.version]) \subseteq db.pkg
                      /\ bins[db.version].pins \subseteq db.pins

OnceInv ==
    /\ Once /\ SyncInv
    /\ DirectoryInv /\ SeenInv /\ WalkedInv /\ NoReturn
    /\ ForwardInv /\ RecordInv /\ InstalledInv
----------------------------------------------------------------------------
(* Operators.                                                              *)

\* what the operations on databases return
LEMMA MergedTypes ==
    ASSUME NEW d \in Dbs, NEW e \in Dbs, NEW ver \in 0 .. MaxVersions
    PROVE  Merged(d, e, ver) \in Dbs
<1>1. IndexNew(d, e) \subseteq Hashes
  BY DEF IndexNew, Exported
<1> QED  BY <1>1 DEF Merged, Dbs

LEMMA AddedFields ==
    ASSUME NEW d \in Dbs, NEW h \in Hashes
    PROVE  /\ Added(d, h) \in Dbs
           /\ h \in d.pkg => Added(d, h) = d
           /\ h \notin d.pkg =>
                /\ Added(d, h).p2p = [d.p2p EXCEPT ![NameOf[h]] = h]
                /\ Added(d, h).pkg = d.pkg \cup {h}
           /\ Added(d, h).pins = d.pins /\ Added(d, h).version = d.version
BY SyncAssumption DEF Added, Dbs

LEMMA RemovedFields ==
    ASSUME NEW d \in Dbs, NEW h \in Hashes
    PROVE  /\ Removed(d, h) \in Dbs
           /\ Removed(d, h).p2p = [d.p2p EXCEPT ![NameOf[h]] = NoHash]
           /\ Removed(d, h).pkg = d.pkg
           /\ Removed(d, h).pins = d.pins /\ Removed(d, h).version = d.version
BY SyncAssumption DEF Removed, Dbs

LEMMA EmptyFields ==
    /\ EmptyDb \in Dbs /\ EmptyDb.pkg = {} /\ EmptyDb.pins = {} /\ EmptyDb.version = 0
    /\ \A n \in Names : EmptyDb.p2p[n] = NoHash
BY SyncAssumption DEF EmptyDb, Dbs

\* what is listed in a database that resolves is what it exports
LEMMA ListedIsExported ==
    ASSUME NEW d \in Dbs, Resolves(d), NEW n \in Names, d.p2p[n] # NoHash
    PROVE  d.p2p[n] \in Exported(d) /\ NameOf[d.p2p[n]] = n
BY SyncAssumption DEF Resolves, Exported, Dbs

\* index keeps a database resolving
LEMMA MergedResolves ==
    ASSUME NEW d \in Dbs, NEW e \in Dbs, NEW ver \in 0 .. MaxVersions,
           Resolves(d), Resolves(e)
    PROVE  Resolves(Merged(d, e, ver))
<1> DEFINE m == Merged(d, e, ver)
<1>0. /\ \A n \in Names : m.p2p[n] = IF \E h \in IndexNew(d, e) : NameOf[h] = n
                                     THEN e.p2p[n] ELSE d.p2p[n]
      /\ m.pkg = d.pkg \cup IndexNew(d, e)
  BY DEF Merged
<1> HIDE DEF m
<1> SUFFICES ASSUME NEW n \in Names, m.p2p[n] # NoHash
             PROVE  m.p2p[n] \in m.pkg /\ NameOf[m.p2p[n]] = n
  BY DEF Resolves, m
<1>1. CASE \E h \in IndexNew(d, e) : NameOf[h] = n
  <2>1. PICK h \in IndexNew(d, e) : NameOf[h] = n
    BY <1>1
  <2>2. e.p2p[n] = h
    BY <2>1 DEF IndexNew, Exported
  <2>3. m.p2p[n] = h
    BY <1>0, <1>1, <2>2
  <2> QED  BY <1>0, <2>1, <2>3
<1>2. CASE ~\E h \in IndexNew(d, e) : NameOf[h] = n
  <2>1. m.p2p[n] = d.p2p[n]
    BY <1>0, <1>2
  <2> QED  BY <1>0, <2>1 DEF Resolves
<1> QED  BY <1>1, <1>2

\* indexing its own export changes the version of the publisher's database
LEMMA SelfIndexedFields ==
    ASSUME NEW d \in Dbs, NEW ver \in 0 .. MaxVersions, Resolves(d)
    PROVE  /\ SelfIndexed(d, ver) \in Dbs
           /\ SelfIndexed(d, ver).p2p = d.p2p /\ SelfIndexed(d, ver).pkg = d.pkg
           /\ SelfIndexed(d, ver).version = ver
<1>1. IndexNew(d, d) = {}
  BY SyncAssumption DEF IndexNew, Exported, Resolves, Dbs
<1> DEFINE m == Merged(d, d, ver)
<1>2. /\ m \in Dbs /\ m.pkg = d.pkg \cup IndexNew(d, d) /\ m.version = ver
      /\ \A n \in Names : m.p2p[n] = IF \E h \in IndexNew(d, d) : NameOf[h] = n
                                     THEN d.p2p[n] ELSE d.p2p[n]
  BY MergedTypes DEF Merged
<1> HIDE DEF m
<1>3. m.p2p \in [Names -> Hashes \cup {NoHash}] /\ d.p2p \in [Names -> Hashes \cup {NoHash}]
  BY <1>2 DEF Dbs
<1>4. m.p2p = d.p2p
  BY <1>2, <1>3
<1>5. SelfIndexed(d, ver) = m
  BY DEF SelfIndexed, m
<1> QED  BY <1>1, <1>2, <1>4, <1>5

LEMMA AddedResolves ==
    ASSUME NEW d \in Dbs, NEW h \in Hashes, Resolves(d)
    PROVE  Resolves(Added(d, h))
<1> DEFINE a == Added(d, h)
<1>1. h \in d.pkg => a = d
  BY AddedFields
<1>2. h \notin d.pkg => a.p2p = [d.p2p EXCEPT ![NameOf[h]] = h] /\ a.pkg = d.pkg \cup {h}
  BY AddedFields
<1>3. d.p2p \in [Names -> Hashes \cup {NoHash}]
  BY DEF Dbs
<1> HIDE DEF a
<1>4. Resolves(a)
  BY <1>1, <1>2, <1>3 DEF Resolves
<1> QED  BY <1>4 DEF a

LEMMA RemovedResolves ==
    ASSUME NEW d \in Dbs, NEW h \in Hashes, Resolves(d)
    PROVE  Resolves(Removed(d, h))
<1> DEFINE a == Removed(d, h)
<1>1. a.p2p = [d.p2p EXCEPT ![NameOf[h]] = NoHash] /\ a.pkg = d.pkg
  BY RemovedFields
<1>2. d.p2p \in [Names -> Hashes \cup {NoHash}]
  BY DEF Dbs
<1> HIDE DEF a
<1>3. Resolves(a)
  BY <1>1, <1>2 DEF Resolves
<1> QED  BY <1>3 DEF a

\* the databases that must resolve, one by one
LEMMA ListedByDb ==
    ListedHasRecord <=> /\ Resolves(db) /\ Resolves(pub.db)
                        /\ \A i \in DOMAIN bins : Resolves(bins[i])
BY DEF ListedHasRecord, Resolves

\* a merge leaves no name of the export without a build
LEMMA MergedLists ==
    ASSUME NEW d \in Dbs, NEW e \in Dbs, NEW ver \in 0 .. MaxVersions,
           Resolves(e), \A h \in d.pkg : d.p2p[NameOf[h]] # NoHash
    PROVE  /\ \A h \in Merged(d, e, ver).pkg : Merged(d, e, ver).p2p[NameOf[h]] # NoHash
           /\ \A n \in Names : e.p2p[n] # NoHash => Merged(d, e, ver).p2p[n] # NoHash
<1> DEFINE m == Merged(d, e, ver)
<1>1. /\ \A n \in Names : m.p2p[n] = IF \E h \in IndexNew(d, e) : NameOf[h] = n
                                     THEN e.p2p[n] ELSE d.p2p[n]
      /\ m.pkg = d.pkg \cup IndexNew(d, e)
  BY DEF Merged
<1> HIDE DEF m
<1>2. \A g \in IndexNew(d, e) : /\ g # NoHash /\ e.p2p[NameOf[g]] = g
                                /\ NameOf[g] \in Names
  BY SyncAssumption DEF IndexNew, Exported
<1>3. \A g \in IndexNew(d, e) : m.p2p[NameOf[g]] # NoHash
  BY <1>1, <1>2
<1>4. ASSUME NEW h \in d.pkg PROVE m.p2p[NameOf[h]] # NoHash
  <2>1. NameOf[h] \in Names
    BY SyncAssumption DEF Dbs
  <2>2. CASE \E g \in IndexNew(d, e) : NameOf[g] = NameOf[h]
    BY <1>3, <2>2
  <2>3. CASE ~\E g \in IndexNew(d, e) : NameOf[g] = NameOf[h]
    BY <1>1, <2>1, <2>3
  <2> QED  BY <2>2, <2>3
<1>5. ASSUME NEW n \in Names, e.p2p[n] # NoHash PROVE m.p2p[n] # NoHash
  <2>1. e.p2p[n] \in Exported(e) /\ NameOf[e.p2p[n]] = n
    BY <1>5, ListedIsExported
  <2>2. CASE e.p2p[n] \in d.pkg
    BY <1>4, <2>1, <2>2
  <2>3. CASE e.p2p[n] \notin d.pkg
    BY <1>3, <2>1, <2>3 DEF IndexNew
  <2> QED  BY <2>2, <2>3
<1>6. \A h \in m.pkg : m.p2p[NameOf[h]] # NoHash
  BY <1>1, <1>3, <1>4
<1> QED  BY <1>5, <1>6 DEF m

LEMMA AppendFacts ==
    ASSUME NEW q \in Seq(Dbs), NEW x \in Dbs
    PROVE  /\ Append(q, x) \in Seq(Dbs) /\ Len(Append(q, x)) = Len(q) + 1
           /\ \A i \in 1 .. Len(q) : Append(q, x)[i] = q[i]
           /\ Append(q, x)[Len(q) + 1] = x
OBVIOUS

\* the exports and their number
LEMMA BinsFacts ==
    ASSUME ShapeInv
    PROVE  /\ Len(bins) \in Nat /\ DOMAIN bins = 1 .. Len(bins)
           /\ \A i \in 1 .. Len(bins) : bins[i] \in Dbs
BY DEF ShapeInv, TypeOK

----------------------------------------------------------------------------
(* Whatever maintainers and caches do.                                     *)

LEMMA SyncInitially == Init => SyncInv
<1> SUFFICES ASSUME Init PROVE SyncInv
  OBVIOUS
<1>1. bins \in Seq(Dbs) /\ Len(bins) = 0 /\ DOMAIN bins = {}
  BY DEF Init
<1>2. 1 \in 1 .. Len(Walk) + 1 /\ 0 \in 0 .. MaxVersions
  BY SyncAssumption
<1>3. /\ pub = [pc |-> "idle", db |-> EmptyDb, at |-> 1]
      /\ cli = [pc |-> "idle", want |-> 0]
  BY DEF Init, IdlePub, IdleCli
<1>4. ShapeInv
  <2>1. pub \in PubStates
    BY <1>2, <1>3, EmptyFields
  <2>2. cli \in CliStates
    BY <1>2, <1>3
  <2>3. TypeOK
    <3>1. dist \in [Hashes -> {"absent", "file", "empty"}] /\ seen \in SUBSET Hashes
      BY DEF Init
    <3>2. Len(bins) <= MaxVersions /\ \A i \in DOMAIN bins : bins[i].version = i
      BY <1>1, SyncAssumption
    <3>3. latest \in 0 .. MaxVersions /\ previous \in 0 .. MaxVersions
      BY <1>2 DEF Init
    <3>4. db \in Dbs /\ dbptr \in {"ro", "nil"}
      BY EmptyFields DEF Init
    <3> QED  BY <1>1, <2>1, <2>2, <3>1, <3>2, <3>3, <3>4 DEF TypeOK
  <2> QED  BY <2>1, <2>2, <2>3 DEF ShapeInv
<1>5. VersionInv
  BY <1>1, <1>3, EmptyFields DEF Init, VersionInv
<1>6. ListedHasRecord
  <2>1. Resolves(EmptyDb)
    BY EmptyFields DEF Resolves
  <2> QED  BY <1>1, <1>3, <2>1, ListedByDb DEF Init
<1>7. KnownNamesListed /\ InstalledNamesResolve
  BY EmptyFields DEF Init, KnownNamesListed, InstalledNamesResolve
<1> QED  BY <1>4, <1>5, <1>6, <1>7 DEF SyncInv

\* the package directory is not mentioned
LEMMA MaintainerStep ==
    ASSUME SyncInv, Maintainer
    PROVE  SyncInv'
<1>1. PICK h \in Hashes : AddFile(h) \/ EmptyFile(h)
  BY DEF Maintainer
<1>2. UNCHANGED <<server, pub, client>>
  BY <1>1 DEF AddFile, EmptyFile
<1>3. dist' \in [Hashes -> {"absent", "file", "empty"}] /\ seen' \in SUBSET Hashes
  BY <1>1 DEF SyncInv, ShapeInv, TypeOK, AddFile, EmptyFile
<1>4. TypeOK'
  BY <1>2, <1>3 DEF SyncInv, ShapeInv, TypeOK, server, client
<1>5. ShapeInv'
  BY <1>2, <1>4 DEF SyncInv, ShapeInv, client
<1>6. VersionInv' /\ ListedHasRecord' /\ KnownNamesListed' /\ InstalledNamesResolve'
  BY <1>2 DEF SyncInv, VersionInv, ListedHasRecord, KnownNamesListed, InstalledNamesResolve,
              server, client
<1> QED  BY <1>5, <1>6 DEF SyncInv

\* a step of the publisher that uploads nothing
LEMMA PublisherFrame ==
    ASSUME SyncInv, UNCHANGED <<dist, seen, server, client>>,
           pub' \in PubStates,
           Resolves(pub'.db),
           pub'.pc \in {"walk", "export"} => Len(bins) < MaxVersions,
           pub'.pc = "export" => pub'.db.version = Len(bins) + 1
    PROVE  SyncInv'
<1>1. TypeOK'
  BY DEF SyncInv, ShapeInv, TypeOK, server, client
<1>2. ShapeInv'
  BY <1>1 DEF SyncInv, ShapeInv, client
<1>3. VersionInv' /\ KnownNamesListed' /\ InstalledNamesResolve'
  BY DEF SyncInv, VersionInv, KnownNamesListed, InstalledNamesResolve, server, client
<1>4. ListedHasRecord'
  <2>1. Resolves(db) /\ \A i \in DOMAIN bins : Resolves(bins[i])
    BY ListedByDb DEF SyncInv
  <2>2. ListedHasRecord' <=> /\ Resolves(db') /\ Resolves(pub'.db)
                             /\ \A i \in DOMAIN bins' : Resolves(bins'[i])
    BY DEF ListedHasRecord, Resolves
  <2> QED  BY <2>1, <2>2 DEF server, client
<1> QED  BY <1>2, <1>3, <1>4 DEF SyncInv

\* what a request for LATEST.jwt reads is "NEW" or names an export
LEMMA LatestFacts ==
    ASSUME SyncInv, NEW ver \in Latest, ver # 0
    PROVE  /\ ver \in 0 .. MaxVersions /\ ver \in 1 .. Len(bins)
           /\ bins[ver] \in Dbs /\ Resolves(bins[ver])
<1>1. ver \in 0 .. MaxVersions /\ ver <= Len(bins)
  BY DEF SyncInv, ShapeInv, TypeOK, VersionInv, Latest
<1>2. ver \in 1 .. Len(bins) /\ bins[ver] \in Dbs
  BY <1>1, BinsFacts, SyncAssumption DEF SyncInv
<1> QED  BY <1>1, <1>2, ListedByDb, BinsFacts DEF SyncInv

LEMMA PubStartStep ==
    ASSUME SyncInv, PubStart
    PROVE  SyncInv'
<1>1. PICK ver \in Latest :
        pub' = [pc |-> "walk", at |-> 1,
                db |-> IF ver = 0 THEN EmptyDb ELSE Merged(EmptyDb, bins[ver], ver)]
  BY DEF PubStart
<1>2. pub'.db \in Dbs /\ Resolves(pub'.db)
  <2>1. EmptyDb \in Dbs /\ Resolves(EmptyDb)
    BY EmptyFields DEF Resolves
  <2>2. CASE ver = 0
    BY <1>1, <2>1, <2>2
  <2>3. CASE ver # 0
    <3>1. pub'.db = Merged(EmptyDb, bins[ver], ver)
      BY <1>1, <2>3
    <3>2. ver \in 0 .. MaxVersions /\ bins[ver] \in Dbs /\ Resolves(bins[ver])
      BY <2>3, LatestFacts
    <3> QED  BY <2>1, <3>1, <3>2, MergedTypes, MergedResolves
  <2> QED  BY <2>2, <2>3
<1>3. 1 \in 1 .. Len(Walk) + 1
  BY SyncAssumption
<1>4. pub' \in PubStates
  BY <1>1, <1>2, <1>3
<1>5. pub'.pc = "walk" /\ Len(bins) < MaxVersions
  BY <1>1 DEF PubStart
<1> QED  BY <1>2, <1>4, <1>5, PublisherFrame DEF PubStart

\* the database after one file
WalkedDb(d, h) == CASE dist[h] = "file" -> Added(d, h)
                    [] dist[h] = "empty" -> Removed(d, h)
                    [] OTHER -> d

LEMMA WalkedFacts ==
    ASSUME SyncInv, PubWalk
    PROVE  /\ pub.at \in 1 .. Len(Walk) /\ Walk[pub.at] \in Hashes
           /\ pub.db \in Dbs /\ Resolves(pub.db)
           /\ pub' = [pub EXCEPT !.at = @ + 1, !.db = WalkedDb(pub.db, Walk[pub.at])]
           /\ pub.pc = "walk" /\ UNCHANGED <<dist, seen, server, client>>
<1>1. pub.at \in 1 .. Len(Walk) + 1 /\ pub.at <= Len(Walk) /\ Len(Walk) \in Nat
  BY SyncAssumption DEF SyncInv, ShapeInv, PubWalk
<1>2. pub.at \in 1 .. Len(Walk) /\ Walk[pub.at] \in Hashes
  BY <1>1, SyncAssumption
<1>3. pub.db \in Dbs
  BY DEF SyncInv, ShapeInv, TypeOK
<1>4. Resolves(pub.db)
  BY ListedByDb DEF SyncInv
<1> QED  BY <1>2, <1>3, <1>4 DEF PubWalk, WalkedDb

LEMMA PubWalkStep ==
    ASSUME SyncInv, PubWalk
    PROVE  SyncInv'
<1> DEFINE h == Walk[pub.at]
           d == WalkedDb(pub.db, h)
<1>1. /\ h \in Hashes /\ pub.db \in Dbs /\ Resolves(pub.db) /\ pub.pc = "walk"
      /\ pub.at \in 1 .. Len(Walk)
      /\ pub' = [pub EXCEPT !.at = @ + 1, !.db = d]
  BY WalkedFacts
<1>2. d \in Dbs /\ Resolves(d)
  BY <1>1, AddedFields, AddedResolves, RemovedFields, RemovedResolves DEF WalkedDb
<1> HIDE DEF h, d
<1>3. pub' \in PubStates
  <2>1. pub.at + 1 \in 1 .. Len(Walk) + 1
    BY <1>1, SyncAssumption
  <2> QED  BY <1>1, <1>2, <2>1 DEF SyncInv, ShapeInv
<1>4. pub'.pc = "walk" /\ pub'.db = d
  BY <1>1 DEF SyncInv, ShapeInv
<1>5. Len(bins) < MaxVersions
  BY <1>1 DEF SyncInv, VersionInv
<1> QED  BY <1>2, <1>3, <1>4, <1>5, PublisherFrame DEF PubWalk

LEMMA PubAddFailsStep ==
    ASSUME SyncInv, PubAddFails
    PROVE  SyncInv'
<1>1. /\ pub \in PubStates /\ pub.pc = "walk" /\ pub' = [pub EXCEPT !.at = @ + 1]
      /\ UNCHANGED <<dist, seen, server, client>>
  BY DEF SyncInv, ShapeInv, PubAddFails
<1>2. pub.at + 1 \in 1 .. Len(Walk) + 1
  BY <1>1, SyncAssumption DEF PubAddFails
<1>3. pub' \in PubStates /\ pub'.pc = "walk" /\ pub'.db = pub.db
  BY <1>1, <1>2
<1>4. Resolves(pub.db)
  BY ListedByDb DEF SyncInv
<1>5. Len(bins) < MaxVersions
  BY <1>1 DEF SyncInv, VersionInv
<1> QED  BY <1>1, <1>3, <1>4, <1>5, PublisherFrame

\* apkg-index is not running any more
LEMMA PubEndStep ==
    ASSUME SyncInv, PubOpenFails \/ PubAbort
    PROVE  SyncInv'
<1>1. pub' = [pc |-> "idle", db |-> EmptyDb, at |-> 1]
  BY DEF PubOpenFails, PubAbort, IdlePub
<1>2. 1 \in 1 .. Len(Walk) + 1
  BY SyncAssumption
<1>3. pub' \in PubStates
  BY <1>1, <1>2, EmptyFields
<1>4. Resolves(pub'.db)
  BY <1>1, EmptyFields DEF Resolves
<1>5. pub'.pc = "idle"
  BY <1>1
<1> QED  BY <1>3, <1>4, <1>5, PublisherFrame DEF PubOpenFails, PubAbort

\* pins are not names
LEMMA PubPinStep ==
    ASSUME SyncInv, NEW k \in PinKeys, PubPin(k)
    PROVE  SyncInv'
<1>1. PICK x \in SUBSET PinKeys : pub' = [pub EXCEPT !.db.pins = x]
  <2>1. pub.db.pins \in SUBSET PinKeys
    BY DEF SyncInv, ShapeInv, TypeOK, Dbs
  <2> QED  BY <2>1 DEF PubPin
<1>2. /\ pub' \in PubStates
      /\ pub'.pc = pub.pc /\ pub'.db.p2p = pub.db.p2p /\ pub'.db.pkg = pub.db.pkg
      /\ pub'.db.version = pub.db.version
  BY <1>1 DEF SyncInv, ShapeInv, Dbs
<1>3. Resolves(pub'.db)
  BY <1>2, ListedByDb DEF SyncInv, Resolves
<1>4. pub.pc = "walk" /\ Len(bins) < MaxVersions
  BY DEF PubPin, SyncInv, VersionInv
<1> QED  BY <1>2, <1>3, <1>4, PublisherFrame DEF PubPin

LEMMA PubExportStep ==
    ASSUME SyncInv, PubExport
    PROVE  SyncInv'
<1> DEFINE ver == Len(bins) + 1
           d == SelfIndexed(pub.db, ver)
<1>1. Len(bins) < MaxVersions /\ ver \in 0 .. MaxVersions
  BY BinsFacts, SyncAssumption DEF SyncInv, VersionInv, PubExport
<1>2. pub.db \in Dbs /\ Resolves(pub.db)
  BY ListedByDb DEF SyncInv, ShapeInv, TypeOK
<1>3. d \in Dbs /\ d.p2p = pub.db.p2p /\ d.pkg = pub.db.pkg /\ d.version = ver
  BY <1>1, <1>2, SelfIndexedFields
<1>4. pub' = [pub EXCEPT !.pc = "export", !.db = d]
  BY DEF PubExport
<1> HIDE DEF ver, d
<1>5. /\ pub' \in PubStates
      /\ pub'.pc = "export" /\ pub'.db = d
  BY <1>3, <1>4 DEF SyncInv, ShapeInv
<1>6. Resolves(pub'.db)
  BY <1>2, <1>3, <1>5 DEF Resolves
<1> QED  BY <1>1, <1>3, <1>5, <1>6, PublisherFrame DEF PubExport, ver

\* one more export, which resolves; those before it stay what they are
LEMMA UploadBinFacts ==
    ASSUME SyncInv, UploadBin
    PROVE  /\ bins' \in Seq(Dbs) /\ Len(bins') = Len(bins) + 1
           /\ \A i \in 1 .. Len(bins) : bins'[i] = bins[i]
           /\ bins'[Len(bins) + 1] = pub.db
           /\ pub' = [pub EXCEPT !.pc = "uploaded"]
           /\ pub'.pc = "uploaded" /\ pub'.db = pub.db
           /\ UNCHANGED <<dist, seen, latest, previous, db, dbptr, cli>>
           /\ pub.pc = "export" /\ Len(bins) < MaxVersions
           /\ pub.db.version = Len(bins) + 1
<1>1. bins \in Seq(Dbs) /\ pub.db \in Dbs
  BY DEF SyncInv, ShapeInv, TypeOK
<1>2. bins' = Append(bins, pub.db)
  BY DEF UploadBin
<1>3. pub'.pc = "uploaded" /\ pub'.db = pub.db
  BY DEF SyncInv, ShapeInv, UploadBin
<1> QED  BY <1>1, <1>2, <1>3, AppendFacts DEF UploadBin, client, SyncInv, VersionInv

LEMMA UploadBinStep ==
    ASSUME SyncInv, UploadBin
    PROVE  SyncInv'
<1> DEFINE N == Len(bins)
<1>0. N \in Nat /\ MaxVersions \in Nat
  BY BinsFacts, SyncAssumption DEF SyncInv
<1>1. DOMAIN bins' = 1 .. N + 1 /\ Len(bins') = N + 1
  BY UploadBinFacts
<1>2. \A i \in 1 .. N + 1 : i \in 1 .. N \/ i = N + 1
  BY <1>0
<1>3. TypeOK'
  <2>1. Len(bins') <= MaxVersions
    BY <1>0, UploadBinFacts
  <2>2. \A i \in DOMAIN bins' : bins'[i].version = i
    <3>1. \A i \in 1 .. N : bins[i].version = i
      BY BinsFacts DEF SyncInv, ShapeInv, TypeOK
    <3>2. /\ \A i \in 1 .. N : bins'[i].version = i
          /\ bins'[N + 1].version = N + 1
      BY <3>1, UploadBinFacts
    <3> QED  BY <1>1, <1>2, <3>2
  <2>3. pub'.pc = "uploaded" /\ pub'.db \in Dbs /\ pub'.at \in 1 .. Len(Walk) + 1
    BY DEF SyncInv, ShapeInv, UploadBin
  <2> QED  BY <2>1, <2>2, <2>3, UploadBinFacts DEF SyncInv, ShapeInv, TypeOK
<1>4. ShapeInv'
  BY <1>3, UploadBinFacts DEF SyncInv, ShapeInv
<1>5. VersionInv'
  <2>1. latest <= N + 1 /\ previous <= N + 1 /\ db.version <= N + 1
    BY <1>0, UploadBinFacts DEF SyncInv, ShapeInv, TypeOK, VersionInv, Dbs
  <2>2. cli.pc # "idle" => cli.want \in 1 .. N + 1
    BY <1>0 DEF SyncInv, VersionInv
  <2> QED  BY <1>1, <2>1, <2>2, UploadBinFacts DEF VersionInv
<1>6. ListedHasRecord'
  <2>1. Resolves(db) /\ Resolves(pub.db) /\ \A i \in 1 .. N : Resolves(bins[i])
    BY ListedByDb, BinsFacts DEF SyncInv
  <2>2. ListedHasRecord' <=> /\ Resolves(db') /\ Resolves(pub'.db)
                             /\ \A i \in DOMAIN bins' : Resolves(bins'[i])
    BY DEF ListedHasRecord, Resolves
  <2> QED  BY <1>1, <1>2, <2>1, <2>2, UploadBinFacts
<1>7. KnownNamesListed'
  BY UploadBinFacts DEF SyncInv, KnownNamesListed
<1>8. InstalledNamesResolve'
  <2>1. db.version # 0 => db.version \in 1 .. N
    BY <1>0 DEF SyncInv, ShapeInv, TypeOK, VersionInv, Dbs
  <2> QED  BY <2>1, UploadBinFacts DEF SyncInv, InstalledNamesResolve
<1> QED  BY <1>4, <1>5, <1>6, <1>7, <1>8 DEF SyncInv

LEMMA UploadLatestStep ==
    ASSUME SyncInv, UploadLatest
    PROVE  SyncInv'
<1>1. pub' = [pc |-> "idle", db |-> EmptyDb, at |-> 1]
  BY DEF UploadLatest, IdlePub
<1>2. 1 \in 1 .. Len(Walk) + 1 /\ EmptyDb \in Dbs /\ Resolves(EmptyDb)
  BY SyncAssumption, EmptyFields DEF Resolves
<1>3. /\ pub' \in PubStates
      /\ pub'.pc = "idle" /\ pub'.db = EmptyDb
  BY <1>1, <1>2
<1>4. /\ latest' = Len(bins) /\ previous' = latest
      /\ UNCHANGED <<dist, seen, bins, db, dbptr, cli>>
  BY DEF UploadLatest, client
<1>5. latest' \in 0 .. MaxVersions /\ latest' <= Len(bins) /\ previous' <= Len(bins)
  BY <1>4, BinsFacts, SyncAssumption DEF SyncInv, ShapeInv, TypeOK, VersionInv
<1>6. ShapeInv'
  BY <1>3, <1>4, <1>5 DEF SyncInv, ShapeInv, TypeOK
<1>7. VersionInv' /\ KnownNamesListed' /\ InstalledNamesResolve'
  BY <1>3, <1>4, <1>5 DEF SyncInv, VersionInv, KnownNamesListed, InstalledNamesResolve
<1>8. ListedHasRecord'
  <2>1. Resolves(db) /\ \A i \in DOMAIN bins : Resolves(bins[i])
    BY ListedByDb DEF SyncInv
  <2>2. ListedHasRecord' <=> /\ Resolves(db') /\ Resolves(pub'.db)
                             /\ \A i \in DOMAIN bins' : Resolves(bins'[i])
    BY DEF ListedHasRecord, Resolves
  <2> QED  BY <1>2, <1>3, <1>4, <2>1, <2>2
<1> QED  BY <1>6, <1>7, <1>8 DEF SyncInv

\* a step of the client that leaves its database alone
LEMMA ClientFrame ==
    ASSUME SyncInv, UNCHANGED <<dist, seen, server, pub, db>>,
           cli' \in CliStates,
           dbptr' \in {"ro", "nil"},
           cli'.pc # "idle" => cli'.want \in 1 .. Len(bins)
    PROVE  SyncInv'
<1>1. ShapeInv'
  BY DEF SyncInv, ShapeInv, TypeOK, server
<1>2. VersionInv' /\ ListedHasRecord' /\ KnownNamesListed' /\ InstalledNamesResolve'
  BY DEF SyncInv, VersionInv, ListedHasRecord, KnownNamesListed, InstalledNamesResolve,
         server
<1> QED  BY <1>1, <1>2 DEF SyncInv

LEMMA IdleCliFacts ==
    IdleCli \in CliStates /\ IdleCli.pc = "idle"
<1>1. 0 \in 0 .. MaxVersions
  BY SyncAssumption
<1> QED  BY <1>1 DEF IdleCli

LEMMA DownloadStep ==
    ASSUME SyncInv, ReadLatest \/ Fetch \/ FetchFails \/ WriteStartFails \/ Restart
    PROVE  SyncInv'
<1>0. dbptr \in {"ro", "nil"}
  BY DEF SyncInv, ShapeInv, TypeOK
<1>1. CASE ReadLatest
  <2>1. PICK ver \in Latest : ver # 0 /\ cli' = [pc |-> "fetch", want |-> ver]
    BY <1>1 DEF ReadLatest
  <2>2. ver \in 0 .. MaxVersions /\ ver \in 1 .. Len(bins)
    BY <2>1, LatestFacts
  <2>3. /\ cli' \in CliStates
        /\ cli'.want \in 1 .. Len(bins)
    BY <2>1, <2>2
  <2> QED  BY <1>0, <1>1, <2>3, ClientFrame DEF ReadLatest
<1>2. CASE Fetch
  <2>1. /\ cli' \in CliStates
        /\ cli'.want \in 1 .. Len(bins)
    BY <1>2 DEF SyncInv, ShapeInv, VersionInv, Fetch
  <2> QED  BY <1>0, <1>2, <2>1, ClientFrame DEF Fetch
<1>3. CASE FetchFails
  BY <1>0, <1>3, IdleCliFacts, ClientFrame DEF FetchFails
<1>4. CASE WriteStartFails
  BY <1>4, IdleCliFacts, ClientFrame DEF WriteStartFails
<1>5. CASE Restart
  BY <1>5, IdleCliFacts, ClientFrame DEF Restart
<1> QED  BY <1>1, <1>2, <1>3, <1>4, <1>5

\* index: what it is given
LEMMA IndexFacts ==
    ASSUME SyncInv, Index
    PROVE  /\ cli.want \in 0 .. MaxVersions /\ cli.want \in 1 .. Len(bins)
           /\ db \in Dbs /\ Resolves(db)
           /\ bins[cli.want] \in Dbs /\ Resolves(bins[cli.want])
<1>1. cli.want \in 0 .. MaxVersions /\ cli.want \in 1 .. Len(bins)
  BY DEF SyncInv, ShapeInv, VersionInv, Index
<1> QED  BY <1>1, BinsFacts, ListedByDb DEF SyncInv, ShapeInv, TypeOK

LEMMA IndexStep ==
    ASSUME SyncInv, Index
    PROVE  SyncInv'
<1> DEFINE ver == cli.want
           e == bins[ver]
           m == Merged(db, e, ver)
<1>1. /\ ver \in 0 .. MaxVersions /\ ver \in 1 .. Len(bins)
      /\ db \in Dbs /\ Resolves(db) /\ e \in Dbs /\ Resolves(e)
  BY IndexFacts
<1>2. /\ db' = m /\ dbptr' \in {"ro", "nil"} /\ cli' = IdleCli
      /\ UNCHANGED <<dist, seen, bins, latest, previous, pub>>
  BY DEF Index, server
<1>3. m \in Dbs /\ Resolves(m)
  BY <1>1, MergedTypes, MergedResolves
<1>4. /\ \A h \in m.pkg : m.p2p[NameOf[h]] # NoHash
      /\ \A n \in Names : e.p2p[n] # NoHash => m.p2p[n] # NoHash
  BY <1>1, MergedLists DEF SyncInv, KnownNamesListed
<1>5. m.version = ver
  BY DEF Merged
<1> HIDE DEF ver, e, m
<1>6. ShapeInv'
  BY <1>2, <1>3, IdleCliFacts DEF SyncInv, ShapeInv, TypeOK
<1>7. VersionInv'
  BY <1>1, <1>2, <1>5, IdleCliFacts, BinsFacts DEF SyncInv, VersionInv
<1>8. ListedHasRecord'
  <2>1. Resolves(pub.db) /\ \A i \in DOMAIN bins : Resolves(bins[i])
    BY ListedByDb DEF SyncInv
  <2>2. ListedHasRecord' <=> /\ Resolves(db') /\ Resolves(pub'.db)
                             /\ \A i \in DOMAIN bins' : Resolves(bins'[i])
    BY DEF ListedHasRecord, Resolves
  <2> QED  BY <1>2, <1>3, <2>1, <2>2
<1>9. KnownNamesListed'
  BY <1>2, <1>4 DEF KnownNamesListed
<1>10. InstalledNamesResolve'
  BY <1>2, <1>4, <1>5 DEF InstalledNamesResolve, e
<1> QED  BY <1>6, <1>7, <1>8, <1>9, <1>10 DEF SyncInv

LEMMA SyncInductive == SyncInv /\ [Next]_vars => SyncInv'
<1> SUFFICES ASSUME SyncInv, [Next]_vars PROVE SyncInv'
  OBVIOUS
<1>1. CASE Publisher
  BY <1>1, PubStartStep, PubWalkStep, PubAddFailsStep, PubEndStep, PubExportStep, UploadBinStep,
     UploadLatestStep, PubPinStep DEF Publisher
<1>2. CASE Client
  BY <1>2, DownloadStep, IndexStep DEF Client
<1>3. CASE UNCHANGED vars
  BY <1>3 DEF SyncInv, ShapeInv, TypeOK, VersionInv, ListedHasRecord, KnownNamesListed,
              InstalledNamesResolve, vars, server, client
<1> QED  BY <1>1, <1>2, <1>3, MaintainerStep DEF Next

LEMMA SyncInvariant == Spec => []SyncInv
BY SyncInitially, SyncInductive, PTL DEF Spec

(***************************************************************************)
(* The variables keep their types, and the version in an export is its     *)
(* position on the server.                                                 *)
(***************************************************************************)
THEOREM SyncTypes == Spec => []TypeOK
<1>1. SyncInv => TypeOK
  BY DEF SyncInv, ShapeInv
<1> QED  BY <1>1, SyncInvariant, PTL

(***************************************************************************)
(* Wherever apkg-index is stopped and however old the LATEST.jwt a cache   *)
(* serves, the export it names is on the server.                           *)
(***************************************************************************)
THEOREM NamedExportsExist == Spec => []NamedExportExists
<1>1. SyncInv => NamedExportExists
  BY BinsFacts DEF SyncInv, VersionInv, NamedExportExists
<1> QED  BY <1>1, SyncInvariant, PTL

(***************************************************************************)
(* No sequence of additions, removals, exports and merges, in any order of *)
(* the walk, lists a name without the record of a build of that name.      *)
(***************************************************************************)
THEOREM ListedNamesHaveRecords == Spec => []ListedHasRecord
<1>1. SyncInv => ListedHasRecord
  BY DEF SyncInv
<1> QED  BY <1>1, SyncInvariant, PTL

(***************************************************************************)
(* A client never misses a name of the export it has installed, although   *)
(* index skips builds it has a record of.                                  *)
(***************************************************************************)
THEOREM InstalledNamesAlwaysResolve == Spec => []InstalledNamesResolve
<1>1. SyncInv => InstalledNamesResolve
  BY DEF SyncInv
<1> QED  BY <1>1, SyncInvariant, PTL

----------------------------------------------------------------------------
(* Builds that are published once.                                         *)

LEMMA OnceInitially == Once /\ Init => OnceInv
<1> SUFFICES ASSUME Once, Init PROVE OnceInv
  OBVIOUS
<1>1. SyncInv
  BY SyncInitially
<1>2. Len(bins) = 0 /\ pub.pc = "idle" /\ pub.db = EmptyDb /\ cli.pc = "idle" /\ latest = 0
  BY DEF Init, IdlePub, IdleCli
<1>3. DirectoryInv
  BY DEF Init, DirectoryInv
<1>4. SeenInv
  BY <1>2, EmptyFields, SyncAssumption DEF SeenInv, Lists
<1>5. WalkedInv /\ NoReturn
  BY <1>2 DEF WalkedInv, NoReturn
<1>6. ForwardInv /\ RecordInv /\ InstalledInv
  BY <1>2, EmptyFields DEF Init, ForwardInv, RecordInv, InstalledInv
<1> QED  BY <1>1, <1>3, <1>4, <1>5, <1>6 DEF OnceInv

\* a new build takes the place of the one before it, for good
LEMMA OnceMaintainer ==
    ASSUME OnceInv, Maintainer
    PROVE  OnceInv'
<1>1. PICK h \in Hashes : AddFile(h)
  BY DEF OnceInv, Once, Maintainer, EmptyFile
<1>2. /\ h \notin seen /\ pub.pc = "idle" /\ seen' = seen \cup {h}
      /\ \A g \in Hashes : dist'[g] = IF g = h THEN "file"
                                      ELSE IF g \in SameName(h) THEN "absent" ELSE dist[g]
      /\ UNCHANGED <<bins, latest, previous, pub, db, dbptr, cli>>
  BY <1>1 DEF OnceInv, Once, AddFile, server, client
<1>3. seen \in SUBSET Hashes /\ db.pkg \in SUBSET Hashes
  BY DEF OnceInv, SyncInv, ShapeInv, TypeOK, Dbs
<1>4. ASSUME NEW g \in Hashes, Retired(g) PROVE Retired(g)'
  BY <1>2, <1>4 DEF Retired
<1>5. DirectoryInv'
  <2>1. \A g \in Hashes : dist'[g] # "empty" /\ (dist'[g] = "file" => g \in seen')
    BY <1>2 DEF OnceInv, DirectoryInv
  <2>2. \A g \in seen' : \E x \in Hashes : NameOf[x] = NameOf[g] /\ dist'[x] = "file"
    <3> SUFFICES ASSUME NEW g \in seen', NameOf[g] # NameOf[h]
                 PROVE  \E x \in Hashes : NameOf[x] = NameOf[g] /\ dist'[x] = "file"
      BY <1>2
    <3>1. PICK x \in Hashes : NameOf[x] = NameOf[g] /\ dist[x] = "file"
      BY <1>2 DEF OnceInv, DirectoryInv
    <3> QED  BY <1>2, <3>1 DEF SameName
  <2>3. \A g, x \in Hashes :
           dist'[g] = "file" /\ dist'[x] = "file" /\ NameOf[g] = NameOf[x] => g = x
    BY <1>2 DEF OnceInv, DirectoryInv, SameName
  <2> QED  BY <2>1, <2>2, <2>3 DEF DirectoryInv
<1>6. SeenInv'
  BY <1>2 DEF OnceInv, SeenInv, Lists
<1>7. WalkedInv'
  BY <1>2 DEF WalkedInv
<1>8. NoReturn'
  BY <1>2, <1>4 DEF OnceInv, NoReturn, Lists
<1>9. ForwardInv' /\ InstalledInv'
  BY <1>2 DEF OnceInv, ForwardInv, InstalledInv, Exported
<1>10. RecordInv'
  BY <1>2, <1>3, <1>4 DEF OnceInv, RecordInv, Lists
<1>11. SyncInv'
  BY MaintainerStep DEF OnceInv
<1> QED  BY <1>5, <1>6, <1>7, <1>8, <1>9, <1>10, <1>11 DEF OnceInv, Once

\* a step of the publisher that uploads nothing
LEMMA OncePublisherFrame ==
    ASSUME OnceInv, SyncInv', UNCHANGED <<dist, seen, server, client>>, WalkedInv',
           \A h \in Hashes : Lists(pub'.db, h) => h \in seen
    PROVE  OnceInv'
<1>1. UNCHANGED <<dist, seen, bins, latest, db, cli>>
  BY DEF server, client
<1>2. DirectoryInv' /\ NoReturn'
  BY <1>1 DEF OnceInv, DirectoryInv, NoReturn, Lists, Retired
<1>3. SeenInv'
  BY <1>1 DEF OnceInv, SeenInv, Lists
<1>4. ForwardInv' /\ RecordInv' /\ InstalledInv'
  BY <1>1 DEF OnceInv, ForwardInv, RecordInv, InstalledInv, Lists, Retired, Exported
<1> QED  BY <1>2, <1>3, <1>4 DEF OnceInv, Once

LEMMA OncePubEnd ==
    ASSUME OnceInv, PubOpenFails \/ PubAbort
    PROVE  OnceInv'
<1>1. pub'.pc = "idle" /\ pub'.db = EmptyDb
  BY DEF PubOpenFails, PubAbort, IdlePub
<1>2. \A h \in Hashes : ~Lists(pub'.db, h)
  BY <1>1, EmptyFields, SyncAssumption DEF Lists
<1>3. WalkedInv'
  BY <1>1 DEF WalkedInv
<1>4. SyncInv'
  BY PubEndStep DEF OnceInv
<1> QED  BY <1>2, <1>3, <1>4, OncePublisherFrame DEF PubOpenFails, PubAbort

\* the database that is published lists everything it has a record of
LEMMA OncePubStart ==
    ASSUME OnceInv, PubStart
    PROVE  OnceInv'
<1>1. PICK ver \in Latest :
        pub' = [pc |-> "walk", at |-> 1,
                db |-> IF ver = 0 THEN EmptyDb ELSE Merged(EmptyDb, bins[ver], ver)]
  BY DEF PubStart
<1>2. pub'.pc = "walk" /\ pub'.at = 1
  BY <1>1
<1>3. SyncInv'
  BY PubStartStep DEF OnceInv
<1>4. /\ \A h \in Hashes : Lists(pub'.db, h) => h \in seen
      /\ \A h \in pub'.db.pkg : Lists(pub'.db, h)
  <2>1. CASE ver = 0
    <3>1. pub'.db = EmptyDb
      BY <1>1, <2>1
    <3> QED  BY <3>1, EmptyFields, SyncAssumption DEF Lists
  <2>2. CASE ver # 0
    <3> DEFINE e == bins[ver]
    <3>1. pub'.db = Merged(EmptyDb, e, ver)
      BY <1>1, <2>2
    <3>2. ver \in 1 .. Len(bins)
      BY <2>2, LatestFacts DEF OnceInv
    <3>3. IndexNew(EmptyDb, e) = Exported(e)
      BY EmptyFields DEF IndexNew
    <3>4. /\ pub'.db.pkg = Exported(e)
          /\ \A n \in Names : pub'.db.p2p[n] = IF \E h \in Exported(e) : NameOf[h] = n
                                               THEN e.p2p[n] ELSE NoHash
      BY <3>1, <3>3, EmptyFields DEF Merged
    <3> HIDE DEF e
    <3>5. \A h \in Exported(e) : h \in Hashes /\ e.p2p[NameOf[h]] = h
      BY DEF Exported
    <3>6. ASSUME NEW h \in Hashes, Lists(pub'.db, h) PROVE h \in seen
      <4>1. NameOf[h] \in Names /\ h # NoHash
        BY SyncAssumption
      <4>2. e.p2p[NameOf[h]] = h
        BY <3>4, <3>6, <4>1 DEF Lists
      <4> QED  BY <3>2, <4>2 DEF OnceInv, SeenInv, Lists, e
    <3>7. ASSUME NEW h \in Exported(e) PROVE Lists(pub'.db, h)
      BY <3>4, <3>5, SyncAssumption DEF Lists
    <3> QED  BY <3>4, <3>6, <3>7
  <2> QED  BY <2>1, <2>2
<1>5. WalkedInv'
  BY <1>2, <1>4 DEF WalkedInv, Lists
<1> QED  BY <1>3, <1>4, <1>5, OncePublisherFrame DEF PubStart

\* one file of the walk: it is listed afterwards, and so is every file that was
LEMMA OncePubWalk ==
    ASSUME OnceInv, PubWalk
    PROVE  OnceInv'
<1> DEFINE h == Walk[pub.at]
           d == pub.db
           a == pub'.db
<1>0. SyncInv /\ SyncInv'
  BY PubWalkStep DEF OnceInv
<1>1. /\ pub.at \in 1 .. Len(Walk) /\ h \in Hashes /\ d \in Dbs /\ pub.pc = "walk"
      /\ pub' = [pub EXCEPT !.at = @ + 1, !.db = WalkedDb(d, h)]
      /\ UNCHANGED <<dist, seen, server, client>>
  BY <1>0, WalkedFacts
<1>2. pub'.pc = "walk" /\ pub'.at = pub.at + 1 /\ a = WalkedDb(d, h)
  BY <1>0, <1>1 DEF SyncInv, ShapeInv
<1>3. /\ dist[h] # "file" => a = d
      /\ dist[h] = "file" /\ h \in d.pkg => a = d
      /\ dist[h] = "file" /\ h \notin d.pkg =>
           a.p2p = [d.p2p EXCEPT ![NameOf[h]] = h] /\ a.pkg = d.pkg \cup {h}
  <2>1. dist[h] # "empty"
    BY <1>1 DEF OnceInv, DirectoryInv
  <2>2. /\ dist[h] = "file" => a = Added(d, h)
        /\ dist[h] # "file" => a = d
    BY <1>2, <2>1 DEF WalkedDb
  <2>3. /\ h \in d.pkg => Added(d, h) = d
        /\ h \notin d.pkg =>
             /\ Added(d, h).p2p = [d.p2p EXCEPT ![NameOf[h]] = h]
             /\ Added(d, h).pkg = d.pkg \cup {h}
    BY <1>1, AddedFields
  <2> HIDE DEF a, d, h
  <2> QED  BY <2>2, <2>3
<1>4. d.p2p \in [Names -> Hashes \cup {NoHash}] /\ d.pkg \in SUBSET Hashes
  BY <1>1 DEF Dbs
<1> HIDE DEF h, d, a
<1>5. dist[h] = "file" => Lists(a, h)
  <2>1. CASE h \in d.pkg
    BY <1>1, <1>3, <2>1 DEF OnceInv, WalkedInv, d
  <2>2. CASE h \notin d.pkg
    BY <1>1, <1>3, <1>4, <2>2, SyncAssumption DEF Lists
  <2> QED  BY <2>1, <2>2
<1>6. ASSUME NEW g \in Hashes, dist[g] = "file", Lists(d, g) PROVE Lists(a, g)
  <2>1. CASE dist[h] = "file" /\ h \notin d.pkg /\ NameOf[g] # NameOf[h]
    BY <1>3, <1>4, <1>6, <2>1, SyncAssumption DEF Lists
  <2>2. CASE dist[h] = "file" /\ NameOf[g] = NameOf[h]
    <3>1. g = h
      BY <1>1, <1>6, <2>2 DEF OnceInv, DirectoryInv
    <3> QED  BY <1>5, <2>2, <3>1
  <2>3. CASE dist[h] # "file" \/ h \in d.pkg
    BY <1>3, <1>6, <2>3
  <2> QED  BY <2>1, <2>2, <2>3
<1>7. ASSUME NEW g \in Hashes, Lists(a, g) PROVE g \in seen
  <2>1. CASE Lists(d, g)
    BY <2>1 DEF OnceInv, SeenInv, d
  <2>2. CASE ~Lists(d, g)
    <3>1. dist[h] = "file" /\ a.p2p = [d.p2p EXCEPT ![NameOf[h]] = h]
      BY <1>3, <1>7, <2>2
    <3>2. g = h
      BY <1>4, <1>7, <2>2, <3>1, SyncAssumption DEF Lists
    <3> QED  BY <1>1, <3>1, <3>2 DEF OnceInv, DirectoryInv
  <2> QED  BY <2>1, <2>2
<1>8. ASSUME NEW g \in a.pkg, dist[g] = "file" PROVE Lists(a, g)
  <2>1. CASE g = h
    BY <1>5, <1>8, <2>1
  <2>2. CASE g # h
    <3>1. g \in d.pkg
      BY <1>3, <1>8, <2>2
    <3>2. Lists(d, g)
      BY <1>1, <1>8, <3>1 DEF OnceInv, WalkedInv, d
    <3> QED  BY <1>4, <1>6, <1>8, <3>1, <3>2
  <2> QED  BY <2>1, <2>2
<1>9. ASSUME NEW i \in 1 .. pub.at, dist[Walk[i]] = "file" PROVE Lists(a, Walk[i])
  <2>1. CASE i = pub.at
    BY <1>5, <1>9, <2>1 DEF h
  <2>2. CASE i # pub.at
    <3>1. i \in 1 .. pub.at - 1 /\ i \in 1 .. Len(Walk)
      BY <1>1, <2>2, SyncAssumption
    <3>2. Walk[i] \in Hashes
      BY <3>1, SyncAssumption
    <3>3. Lists(d, Walk[i])
      BY <1>1, <1>9, <3>1 DEF OnceInv, WalkedInv, d
    <3> QED  BY <1>6, <1>9, <3>2, <3>3
  <2> QED  BY <2>1, <2>2
<1>10. WalkedInv'
  <2>1. UNCHANGED dist /\ pub.at \in Nat
    BY <1>1
  <2>2. pub'.at - 1 = pub.at
    BY <1>2, <2>1
  <2> QED  BY <1>2, <1>8, <1>9, <2>1, <2>2 DEF WalkedInv, Lists, a
<1> QED  BY <1>0, <1>1, <1>7, <1>10, OncePublisherFrame DEF a

LEMMA OncePubPin ==
    ASSUME OnceInv, NEW k \in PinKeys, PubPin(k)
    PROVE  OnceInv'
<1>1. SyncInv'
  BY PubPinStep DEF OnceInv
<1>2. PICK x : pub' = [pub EXCEPT !.db.pins = x]
  BY DEF PubPin
<1>3. /\ pub'.pc = pub.pc /\ pub'.at = pub.at
      /\ pub'.db.p2p = pub.db.p2p /\ pub'.db.pkg = pub.db.pkg
  BY <1>2 DEF OnceInv, SyncInv, ShapeInv, Dbs
<1>4. UNCHANGED <<dist, seen, server, client>>
  BY DEF PubPin
<1>5. WalkedInv'
  BY <1>3, <1>4 DEF OnceInv, WalkedInv, Lists
<1>6. \A h \in Hashes : Lists(pub'.db, h) => h \in seen
  BY <1>3 DEF OnceInv, SeenInv, Lists
<1> QED  BY <1>1, <1>4, <1>5, <1>6, OncePublisherFrame

\* the walk is over, and it meets every file
LEMMA OncePubExport ==
    ASSUME OnceInv, PubExport
    PROVE  OnceInv'
<1>1. SyncInv'
  BY PubExportStep DEF OnceInv
<1>2. UNCHANGED <<dist, seen, server, client>> /\ pub.pc = "walk" /\ pub.at > Len(Walk)
  BY DEF PubExport
<1>3. pub'.pc = "export" /\ pub'.db.p2p = pub.db.p2p /\ pub'.db.pkg = pub.db.pkg
  <2>1. pub.db \in Dbs /\ Resolves(pub.db) /\ Len(bins) + 1 \in 0 .. MaxVersions
    BY <1>2, ListedByDb, BinsFacts, SyncAssumption
       DEF OnceInv, SyncInv, ShapeInv, TypeOK, VersionInv
  <2>2. pub'.pc = "export" /\ pub'.db = SelfIndexed(pub.db, Len(bins) + 1)
    BY DEF PubExport, OnceInv, SyncInv, ShapeInv
  <2> QED  BY <2>1, <2>2, SelfIndexedFields
<1>4. ASSUME NEW h \in Hashes, dist[h] = "file" PROVE Lists(pub.db, h)
  <2>1. PICK i \in 1 .. Len(Walk) : Walk[i] = h
    BY WalkAssumption
  <2>2. pub.at \in 1 .. Len(Walk) + 1
    BY DEF OnceInv, SyncInv, ShapeInv
  <2>3. i \in 1 .. pub.at - 1
    BY <1>2, <2>1, <2>2, SyncAssumption
  <2> QED  BY <1>2, <1>4, <2>1, <2>3 DEF OnceInv, WalkedInv
<1>5. pub.db.pkg \in SUBSET Hashes
  BY DEF OnceInv, SyncInv, ShapeInv, TypeOK, Dbs
<1>6. WalkedInv'
  BY <1>2, <1>3, <1>4, <1>5 DEF WalkedInv, Lists
<1>7. \A h \in Hashes : Lists(pub'.db, h) => h \in seen
  BY <1>3 DEF OnceInv, SeenInv, Lists
<1> QED  BY <1>1, <1>2, <1>6, <1>7, OncePublisherFrame

\* the new export lists what is in the directory, so nothing that is retired,
\* and what an earlier one lists and it does not is retired
LEMMA OnceUploadBin ==
    ASSUME OnceInv, UploadBin
    PROVE  OnceInv'
<1> DEFINE N == Len(bins)
<1>0. SyncInv /\ SyncInv'
  BY UploadBinStep DEF OnceInv
<1>1. /\ Len(bins') = N + 1 /\ N \in Nat
      /\ \A i \in 1 .. N : bins'[i] = bins[i]
      /\ bins'[N + 1] = pub.db /\ pub.pc = "export"
      /\ pub'.pc = "uploaded" /\ pub'.db = pub.db
      /\ UNCHANGED <<dist, seen, latest, db, cli>>
  BY <1>0, UploadBinFacts, BinsFacts DEF SyncInv
<1> HIDE DEF N
<1>2. \A i \in 1 .. N + 1 : i \in 1 .. N \/ i = N + 1
  BY <1>1
<1>3. \A h \in Hashes : dist[h] = "file" => Lists(pub.db, h)
  BY <1>1 DEF OnceInv, WalkedInv
<1>4. ASSUME NEW h \in Hashes, Retired(h) PROVE ~Lists(pub.db, h)
  <2>1. PICK g \in Hashes : NameOf[g] = NameOf[h] /\ dist[g] = "file"
    BY <1>4 DEF OnceInv, DirectoryInv, Retired
  <2>2. pub.db.p2p[NameOf[h]] = g
    BY <1>3, <2>1 DEF Lists
  <2> QED  BY <1>4, <2>1, <2>2 DEF Lists, Retired
<1>5. ASSUME NEW h \in Hashes, h \in seen, ~Lists(pub.db, h) PROVE Retired(h)
  BY <1>3, <1>5 DEF OnceInv, DirectoryInv, Retired, SyncInv, ShapeInv, TypeOK
<1>6. NoReturn'
  <2> SUFFICES ASSUME NEW h \in Hashes, NEW i \in 1 .. N + 1, NEW j \in 1 .. N + 1,
                      i < j, Lists(bins'[i], h), ~Lists(bins'[j], h)
               PROVE  /\ Retired(h)
                      /\ \A k \in j .. N + 1 : ~Lists(bins'[k], h)
    BY <1>1 DEF NoReturn, Retired, Lists
  <2>1. i \in 1 .. N
    BY <1>1
  <2>2. Lists(bins[i], h) /\ h \in seen
    BY <1>1, <2>1 DEF OnceInv, SeenInv, N
  <2>3. CASE j = N + 1
    <3>1. ~Lists(pub.db, h)
      BY <1>1, <2>3
    <3>2. \A k \in j .. N + 1 : k = N + 1
      BY <1>1, <2>3
    <3> QED  BY <1>1, <1>5, <2>2, <3>1, <3>2
  <2>4. CASE j \in 1 .. N
    <3>1. Retired(h) /\ \A k \in j .. N : ~Lists(bins[k], h)
      BY <1>1, <2>1, <2>2, <2>4 DEF OnceInv, NoReturn, N
    <3>2. \A k \in j .. N + 1 : (k \in 1 .. N /\ k \in j .. N) \/ k = N + 1
      BY <1>1, <2>4
    <3> QED  BY <1>1, <1>4, <3>1, <3>2
  <2> QED  BY <1>2, <2>3, <2>4
<1>7. SeenInv'
  BY <1>1, <1>2 DEF OnceInv, SeenInv, Lists, N
<1>8. WalkedInv' /\ DirectoryInv'
  BY <1>1 DEF OnceInv, WalkedInv, DirectoryInv, Lists
<1>9. ForwardInv'
  BY <1>1 DEF OnceInv, ForwardInv
<1>10. db.version \in 0 .. N
  BY <1>0, <1>1 DEF SyncInv, ShapeInv, TypeOK, VersionInv, Dbs, N
<1>11. RecordInv'
  <2> SUFFICES ASSUME NEW h \in db.pkg
               PROVE  /\ \E i \in 1 .. db.version : Lists(bins'[i], h)
                      /\ ~Lists(db, h) =>
                           /\ Retired(h)
                           /\ \A j \in 1 .. N + 1 : j >= db.version => ~Lists(bins'[j], h)
    BY <1>1 DEF RecordInv, Retired, Lists
  <2>1. h \in Hashes
    BY <1>0 DEF SyncInv, ShapeInv, TypeOK, Dbs
  <2>2. \E i \in 1 .. db.version : Lists(bins'[i], h)
    <3>1. PICK i \in 1 .. db.version : Lists(bins[i], h)
      BY DEF OnceInv, RecordInv
    <3>2. i \in 1 .. N
      BY <1>1, <1>10
    <3> QED  BY <1>1, <3>1, <3>2
  <2>3. ASSUME ~Lists(db, h)
        PROVE  Retired(h) /\ \A j \in 1 .. N + 1 : j >= db.version => ~Lists(bins'[j], h)
    <3>1. Retired(h) /\ \A j \in 1 .. N : j >= db.version => ~Lists(bins[j], h)
      BY <2>3 DEF OnceInv, RecordInv, N
    <3> QED  BY <1>1, <1>2, <1>4, <2>1, <3>1
  <2> QED  BY <2>2, <2>3
<1>12. InstalledInv'
  <2>1. db.version # 0 => bins'[db.version] = bins[db.version]
    BY <1>1, <1>10
  <2> QED  BY <1>1, <2>1 DEF OnceInv, InstalledInv, Exported
<1> QED  BY <1>0, <1>6, <1>7, <1>8, <1>9, <1>11, <1>12 DEF OnceInv, Once

LEMMA OnceUploadLatest ==
    ASSUME OnceInv, UploadLatest
    PROVE  OnceInv'
<1>1. SyncInv /\ SyncInv'
  BY UploadLatestStep DEF OnceInv
<1>2. /\ pub'.pc = "idle" /\ pub'.db = EmptyDb /\ latest' = Len(bins)
      /\ UNCHANGED <<dist, seen, bins, db, cli>>
  BY DEF UploadLatest, IdlePub, client
<1>3. SeenInv' /\ WalkedInv'
  BY <1>2, EmptyFields, SyncAssumption DEF OnceInv, SeenInv, WalkedInv, Lists
<1>4. DirectoryInv' /\ NoReturn'
  BY <1>2 DEF OnceInv, DirectoryInv, NoReturn, Retired, Lists
<1>5. RecordInv' /\ InstalledInv'
  BY <1>2 DEF OnceInv, RecordInv, InstalledInv, Retired, Lists, Exported
<1>6. ForwardInv'
  BY <1>1, <1>2, BinsFacts DEF OnceInv, ForwardInv, SyncInv, VersionInv
<1> QED  BY <1>1, <1>3, <1>4, <1>5, <1>6 DEF OnceInv, Once

\* LATEST.jwt is never the previous one, so a client only goes forward
LEMMA OnceDownload ==
    ASSUME OnceInv, ReadLatest \/ Fetch \/ FetchFails \/ WriteStartFails \/ Restart
    PROVE  OnceInv'
<1>1. SyncInv /\ SyncInv'
  BY DownloadStep DEF OnceInv
<1>2. UNCHANGED <<dist, seen, bins, latest, pub, db>>
  BY DEF ReadLatest, Fetch, FetchFails, WriteStartFails, Restart, server
<1>3. DirectoryInv' /\ SeenInv' /\ WalkedInv' /\ NoReturn'
  BY <1>2 DEF OnceInv, DirectoryInv, SeenInv, WalkedInv, NoReturn, Retired, Lists
<1>4. RecordInv' /\ InstalledInv'
  BY <1>2 DEF OnceInv, RecordInv, InstalledInv, Retired, Lists, Exported
<1>5. ForwardInv'
  <2>1. CASE ReadLatest
    <3>1. cli' = [pc |-> "fetch", want |-> latest]
      BY <2>1 DEF ReadLatest, Latest, OnceInv, Once
    <3>2. latest <= latest
      BY <1>1 DEF SyncInv, ShapeInv, TypeOK
    <3> QED  BY <1>2, <3>1, <3>2 DEF OnceInv, ForwardInv
  <2>2. CASE Fetch
    <3>1. cli'.want = cli.want /\ cli.pc # "idle"
      BY <1>1, <2>2 DEF Fetch, SyncInv, ShapeInv
    <3> QED  BY <1>2, <3>1 DEF OnceInv, ForwardInv
  <2>3. CASE FetchFails \/ WriteStartFails \/ Restart
    <3>1. cli'.pc = "idle"
      BY <2>3 DEF FetchFails, WriteStartFails, Restart, IdleCli
    <3> QED  BY <1>2, <3>1 DEF OnceInv, ForwardInv
  <2> QED  BY <2>1, <2>2, <2>3
<1> QED  BY <1>1, <1>3, <1>4, <1>5 DEF OnceInv, Once

\* what the client has a record of and the new export does not list stays
\* replaced; what the export lists and the client does not is new to it
LEMMA OnceIndex ==
    ASSUME OnceInv, Index
    PROVE  OnceInv'
<1> DEFINE ver == cli.want
           e == bins[ver]
           m == db'
           N == Len(bins)
<1>0. SyncInv /\ SyncInv'
  BY IndexStep DEF OnceInv
<1>1. /\ ver \in 1 .. N /\ db \in Dbs /\ e \in Dbs /\ db.version \in Nat /\ N \in Nat
      /\ db.version <= ver
  <2>1. cli.pc # "idle"
    BY DEF Index
  <2> QED  BY <1>0, <2>1, IndexFacts, BinsFacts DEF OnceInv, ForwardInv, Dbs, SyncInv
<1>2. /\ UNCHANGED <<dist, seen, bins, latest, pub>> /\ cli'.pc = "idle"
      /\ m.version = ver /\ m.pkg = db.pkg \cup IndexNew(db, e)
      /\ m.pins = db.pins \cup e.pins
      /\ \A n \in Names : m.p2p[n] = IF \E h \in IndexNew(db, e) : NameOf[h] = n
                                     THEN e.p2p[n] ELSE db.p2p[n]
  BY DEF Index, Merged, IdleCli, server
<1>3. db.pkg \in SUBSET Hashes
  BY <1>1 DEF Dbs
<1>4. e = bins[ver] /\ N = Len(bins) /\ cli.pc # "idle" /\ cli.want = ver
  BY DEF Index
<1> HIDE DEF ver, e, m, N
<1>5. DirectoryInv' /\ SeenInv' /\ WalkedInv' /\ NoReturn'
  BY <1>2 DEF OnceInv, DirectoryInv, SeenInv, WalkedInv, NoReturn, Retired, Lists
<1>6. ForwardInv'
  BY <1>2, <1>4 DEF OnceInv, ForwardInv, m
<1>7. \A h \in IndexNew(db, e) : h \in Hashes /\ Lists(e, h)
  BY DEF IndexNew, Exported, Lists
<1>8. \A h \in IndexNew(db, e) : Lists(m, h)
  BY <1>2, <1>7, SyncAssumption DEF Lists
<1>9. ASSUME NEW h \in db.pkg PROVE \E i \in 1 .. ver : Lists(bins[i], h)
  <2>1. PICK i \in 1 .. db.version : Lists(bins[i], h)
    BY DEF OnceInv, RecordInv
  <2>2. i \in 1 .. ver
    BY <1>1
  <2> QED  BY <2>1, <2>2
<1>10. ASSUME NEW h \in db.pkg, ~Lists(m, h)
       PROVE  Retired(h) /\ \A j \in 1 .. N : j >= ver => ~Lists(bins[j], h)
  <2>1. h \in Hashes /\ NameOf[h] \in Names
    BY <1>3, SyncAssumption
  <2>2. CASE ~Lists(db, h)
    <3>1. Retired(h) /\ \A j \in 1 .. N : j >= db.version => ~Lists(bins[j], h)
      BY <1>4, <2>2 DEF OnceInv, RecordInv
    <3> QED  BY <1>1, <3>1
  <2>3. CASE Lists(db, h)
    <3>1. ~Lists(e, h)
      BY <1>2, <1>10, <2>1, <2>3 DEF Lists
    <3>2. PICK i \in 1 .. ver : Lists(bins[i], h)
      BY <1>9
    <3>3. i \in 1 .. N /\ i < ver
      BY <1>1, <1>4, <3>1, <3>2
    <3>4. Retired(h) /\ \A k \in ver .. N : ~Lists(bins[k], h)
      BY <1>1, <1>4, <2>1, <3>1, <3>2, <3>3 DEF OnceInv, NoReturn
    <3> QED  BY <1>1, <3>4
  <2> QED  BY <2>2, <2>3
<1>11. RecordInv'
  <2> SUFFICES ASSUME NEW h \in m.pkg
               PROVE  /\ \E i \in 1 .. ver : Lists(bins[i], h)
                      /\ ~Lists(m, h) =>
                           Retired(h) /\ \A j \in 1 .. N : j >= ver => ~Lists(bins[j], h)
    BY <1>2, <1>4 DEF RecordInv, Retired, Lists, m
  <2>1. CASE h \in db.pkg
    BY <1>9, <1>10, <2>1
  <2>2. CASE h \in IndexNew(db, e)
    <3>1. ver \in 1 .. ver
      BY <1>1
    <3> QED  BY <1>4, <1>7, <1>8, <2>2, <3>1
  <2> QED  BY <1>2, <2>1, <2>2
<1>12. InstalledInv'
  <2>1. Exported(e) \subseteq m.pkg /\ e.pins \subseteq m.pins
    BY <1>2 DEF IndexNew
  <2>2. bins'[db'.version] = e
    BY <1>2, <1>4 DEF m
  <2> QED  BY <2>1, <2>2 DEF InstalledInv, m, Exported
<1> QED  BY <1>0, <1>5, <1>6, <1>11, <1>12 DEF OnceInv, Once

LEMMA OnceInductive == OnceInv /\ [Next]_vars => OnceInv'
<1> SUFFICES ASSUME OnceInv, [Next]_vars PROVE OnceInv'
  OBVIOUS
<1>1. CASE Publisher
  BY <1>1, OncePubStart, OncePubWalk, OncePubEnd, OncePubExport, OnceUploadBin,
     OnceUploadLatest, OncePubPin DEF Publisher, PubAddFails, OnceInv, Once
<1>2. CASE Client
  BY <1>2, OnceDownload, OnceIndex DEF Client
<1>3. CASE UNCHANGED vars
  <2>1. SyncInv'
    BY SyncInductive DEF OnceInv
  <2>2. UNCHANGED <<dist, seen, bins, latest, pub, db, cli>>
    BY <1>3 DEF vars, server, client
  <2>3. DirectoryInv' /\ SeenInv' /\ WalkedInv' /\ NoReturn'
    BY <2>2 DEF OnceInv, DirectoryInv, SeenInv, WalkedInv, NoReturn, Retired, Lists
  <2>4. ForwardInv' /\ RecordInv' /\ InstalledInv'
    BY <2>2 DEF OnceInv, ForwardInv, RecordInv, InstalledInv, Retired, Lists, Exported
  <2> QED  BY <2>1, <2>3, <2>4 DEF OnceInv, Once
<1> QED  BY <1>1, <1>2, <1>3, OnceMaintainer DEF Next

(***************************************************************************)
(* If builds are published once, none is withdrawn, AddPackage does not    *)
(* fail and no cache serves an old LATEST.jwt, a client has the builds and *)
(* the pins of the export it has installed, however many exports it        *)
(* skipped and wherever apkg-index and the client were stopped.            *)
(***************************************************************************)
THEOREM InstalledBuildsAreCurrent == Once /\ Spec => []InstalledBuildsCurrent
<1>1. OnceInv => InstalledBuildsCurrent
  <2> SUFFICES ASSUME OnceInv, db.version # 0
               PROVE  /\ \A n \in Names : bins[db.version].p2p[n] # NoHash =>
                            db.p2p[n] = bins[db.version].p2p[n]
                      /\ bins[db.version].pins \subseteq db.pins
    BY DEF InstalledBuildsCurrent
  <2> DEFINE v == db.version
             e == bins[v]
  <2>1. v \in 1 .. Len(bins) /\ v >= v
    <3>1. v \in 0 .. MaxVersions /\ v <= Len(bins) /\ Len(bins) \in Nat
      BY BinsFacts DEF OnceInv, SyncInv, ShapeInv, TypeOK, VersionInv, Dbs
    <3> QED  BY <3>1, SyncAssumption
  <2>2. e \in Dbs /\ Resolves(e)
    BY <2>1, BinsFacts, ListedByDb DEF OnceInv, SyncInv
  <2>3. ASSUME NEW n \in Names, e.p2p[n] # NoHash PROVE db.p2p[n] = e.p2p[n]
    <3> DEFINE h == e.p2p[n]
    <3>1. h \in Exported(e) /\ NameOf[h] = n
      BY <2>2, <2>3, ListedIsExported
    <3>2. h \in db.pkg
      BY <3>1 DEF OnceInv, InstalledInv
    <3>3. Lists(e, h)
      BY <3>1 DEF Lists
    <3>4. Lists(db, h)
      BY <2>1, <3>2, <3>3 DEF OnceInv, RecordInv
    <3> QED  BY <3>1, <3>4 DEF Lists
  <2> QED  BY <2>3 DEF OnceInv, InstalledInv
<1> QED  BY <1>1, OnceInitially, OnceInductive, PTL DEF Spec

============================================================================
