------------------------------- MODULE DbSync -------------------------------
(***************************************************************************)
(* From the package directory to the databases of clients.                 *)
(*                                                                         *)
(* apkg-index (cmd/apkg-index/process.go) downloads the published database *)
(* into an empty directory, walks the package directory, adds every        *)
(* package file and removes the names of empty ones, exports the result    *)
(* and uploads it: the export first, then LATEST.txt, then LATEST.jwt      *)
(* (apkgdb/export.go).  A client reads LATEST.jwt every hour, downloads    *)
(* the export it names and merges it into its own database in one          *)
(* transaction (apkgdb/update.go, index.go, write.go).                     *)
(*                                                                         *)
(* One OS/architecture pair.  Signature and hash checks are modelled by    *)
(* their outcome: a download that fails them changes nothing.              *)
(***************************************************************************)
EXTENDS Naturals, Sequences

CONSTANTS
    Names,       \* full names of packages
    Hashes,      \* builds of packages
    NameOf,      \* the name in the metadata of a build
    Walk,        \* the order filepath.Walk meets the builds' files
    PinKeys,     \* channel and prefix of a version pin
    NoHash,      \* no build
    MaxVersions, \* bound on exports
    Removals,    \* TRUE: maintainers may empty a package's file
    Rebuilds,    \* TRUE: files may come back, and stay beside a rebuild
    StaleLatest, \* TRUE: a cache may serve the previous LATEST.jwt
    AddErrors    \* TRUE: AddPackage may fail to write

ASSUME SyncAssumption ==
    /\ NoHash \notin Hashes
    /\ NameOf \in [Hashes -> Names]
    /\ Walk \in Seq(Hashes)
    /\ MaxVersions \in Nat
    /\ {Removals, Rebuilds, StaleLatest, AddErrors} \subseteq BOOLEAN

\* filepath.Walk meets every file of the directory
ASSUME WalkAssumption == \A h \in Hashes : \E i \in 1 .. Len(Walk) : Walk[i] = h

VARIABLES
    dist,        \* what the package directory has of each build
    seen,        \* builds that were in it at some time
    bins,        \* exports on the server; the version is the position
    latest,      \* the version in LATEST.jwt, 0 for "NEW"
    previous,    \* the one before it
    pub,         \* state of the apkg-index process
    db,          \* the client's database file
    dbptr,       \* DB.dbptr: "ro" or "nil"
    cli          \* state of the client's updateThread

server == <<bins, latest, previous>>
client == <<db, dbptr, cli>>
vars == <<dist, seen, server, pub, client>>

\* the buckets: name to build, records of builds, pins, info/version
EmptyDb == [p2p |-> [n \in Names |-> NoHash], pkg |-> {}, pins |-> {}, version |-> 0]

IdlePub == [pc |-> "idle", db |-> EmptyDb, at |-> 1]
IdleCli == [pc |-> "idle", want |-> 0]

Init ==
    /\ dist = [h \in Hashes |-> "absent"]
    /\ seen = {}
    /\ bins = <<>>
    /\ latest = 0
    /\ previous = 0
    /\ pub = IdlePub
    /\ db = EmptyDb
    /\ dbptr = "ro"
    /\ cli = IdleCli

----------------------------------------------------------------------------
(* Merging an export into a database.                                      *)

Exported(d) == {h \in Hashes : d.p2p[NameOf[h]] = h}

\* mutant: a build whose name is already listed is skipped
IndexNewName(d, e) == {h \in Exported(e) : d.p2p[NameOf[h]] = NoHash}

\* index goes over the packages; a hash that has a record is skipped
IndexNew(d, e) == Exported(e) \ d.pkg

\* mutant: the version is not stored
MergedNoVersion(d, e, ver) ==
    [p2p |-> [n \in Names |-> IF \E h \in IndexNew(d, e) : NameOf[h] = n
                              THEN e.p2p[n] ELSE d.p2p[n]],
     pkg |-> d.pkg \cup IndexNew(d, e),
     pins |-> d.pins \cup e.pins,
     version |-> d.version]

\* mutant: the name of the build that is replaced is taken out last
MergedDropsOld(d, e, ver) ==
    [p2p |-> [n \in Names |-> IF \E h \in IndexNew(d, e) : NameOf[h] = n
                              THEN IF d.p2p[n] = NoHash THEN e.p2p[n] ELSE NoHash
                              ELSE d.p2p[n]],
     pkg |-> d.pkg \cup IndexNew(d, e),
     pins |-> d.pins \cup e.pins,
     version |-> ver]

\* index, one transaction: records, names, pins, version
Merged(d, e, ver) ==
    [p2p |-> [n \in Names |-> IF \E h \in IndexNew(d, e) : NameOf[h] = n
                              THEN e.p2p[n] ELSE d.p2p[n]],
     pkg |-> d.pkg \cup IndexNew(d, e),
     pins |-> d.pins \cup e.pins,
     version |-> ver]

----------------------------------------------------------------------------
(* The package directory.                                                  *)

SameName(h) == {g \in Hashes \ {h} : NameOf[g] = NameOf[h]}

\* a build is put in the directory, beside or in place of an older one
AddFile(h) ==
    /\ pub.pc = "idle"
    /\ dist[h] = "absent"
    /\ Rebuilds \/ h \notin seen
    /\ \/ dist' = [g \in Hashes |-> IF g = h THEN "file"
                                    ELSE IF g \in SameName(h) THEN "absent" ELSE dist[g]]
       \/ Rebuilds /\ dist' = [dist EXCEPT ![h] = "file"]
    /\ seen' = seen \cup {h}
    /\ UNCHANGED <<server, pub, client>>

\* a package is withdrawn by emptying its file
EmptyFile(h) ==
    /\ Removals /\ pub.pc = "idle"
    /\ dist[h] = "file"
    /\ dist' = [dist EXCEPT ![h] = "empty"]
    /\ UNCHANGED <<seen, server, pub, client>>

----------------------------------------------------------------------------
(* apkg-index.                                                             *)

\* what a request for LATEST.jwt may read
Latest == {latest} \cup (IF StaleLatest THEN {previous} ELSE {})

\* NewOsArch in an empty directory downloads the database as published
PubStart ==
    /\ pub.pc = "idle" /\ Len(bins) < MaxVersions
    /\ \E ver \in Latest :
         pub' = [pc |-> "walk", at |-> 1,
                 db |-> IF ver = 0 THEN EmptyDb
                        ELSE Merged(EmptyDb, bins[ver], ver)]
    /\ UNCHANGED <<dist, seen, server, client>>

\* mutant: the name is written, the record is not
AddedNoRecord(d, h) ==
    IF h \in d.pkg THEN d ELSE [d EXCEPT !.p2p[NameOf[h]] = h]

\* AddPackage: an error, ignored by the caller, if the build has a record
Added(d, h) ==
    IF h \in d.pkg THEN d
    ELSE [d EXCEPT !.p2p[NameOf[h]] = h, !.pkg = @ \cup {h}]

\* RemovePackage: the name goes, the record stays
Removed(d, h) == [d EXCEPT !.p2p[NameOf[h]] = NoHash]

\* processDb looks at the next file
PubWalk ==
    LET h == Walk[pub.at] IN
    /\ pub.pc = "walk" /\ pub.at <= Len(Walk)
    /\ pub' = [pub EXCEPT
                 !.at = @ + 1,
                 !.db = CASE dist[h] = "file" -> Added(@, h)
                          [] dist[h] = "empty" -> Removed(@, h)
                          [] OTHER -> @]
    /\ UNCHANGED <<dist, seen, server, client>>

\* AddPackage cannot write: the error is logged and the walk goes on
PubAddFails ==
    /\ AddErrors
    /\ pub.pc = "walk" /\ pub.at <= Len(Walk)
    /\ dist[Walk[pub.at]] = "file"
    /\ pub' = [pub EXCEPT !.at = @ + 1]
    /\ UNCHANGED <<dist, seen, server, client>>

\* OpenPackage refuses a file: the walk ends, and nothing is uploaded
PubOpenFails ==
    /\ pub.pc = "walk" /\ pub.at <= Len(Walk)
    /\ dist[Walk[pub.at]] = "file"
    /\ pub' = IdlePub
    /\ UNCHANGED <<dist, seen, server, client>>

\* SetPin and DeletePin
PubPin(k) ==
    /\ pub.pc = "walk"
    /\ \/ pub' = [pub EXCEPT !.db.pins = @ \cup {k}]
       \/ pub' = [pub EXCEPT !.db.pins = @ \ {k}]
    /\ UNCHANGED <<dist, seen, server, client>>

\* the signed file is indexed into the publisher's own database, which knows
\* every build of it
SelfIndexed(d, ver) == Merged(d, d, ver)

\* ExportAndUpload writes the file, signs it and indexes it
PubExport ==
    /\ pub.pc = "walk" /\ pub.at > Len(Walk)
    /\ pub' = [pub EXCEPT !.pc = "export",
                          !.db = SelfIndexed(@, Len(bins) + 1)]
    /\ UNCHANGED <<dist, seen, server, client>>

\* mutant: LATEST.jwt is uploaded before the export
UploadBinLate ==
    /\ pub.pc = "export"
    /\ latest' = Len(bins) + 1 /\ previous' = latest
    /\ pub' = [pub EXCEPT !.pc = "uploaded"]
    /\ UNCHANGED <<dist, seen, bins, client>>

\* the export is uploaded, under a name that is never used again
UploadBin ==
    /\ pub.pc = "export"
    /\ bins' = Append(bins, pub.db)
    /\ pub' = [pub EXCEPT !.pc = "uploaded"]
    /\ UNCHANGED <<dist, seen, latest, previous, client>>

\* LATEST.txt, which no client reads, and LATEST.jwt
UploadLatest ==
    /\ pub.pc = "uploaded"
    /\ latest' = Len(bins) /\ previous' = latest
    /\ pub' = IdlePub
    /\ UNCHANGED <<dist, seen, bins, client>>

\* an error or a crash at any point; the temporary directory is dropped
PubAbort ==
    /\ pub.pc # "idle"
    /\ pub' = IdlePub
    /\ UNCHANGED <<dist, seen, server, client>>

----------------------------------------------------------------------------
(* The client.                                                             *)

CurrentVersion == IF dbptr = "nil" THEN 0 ELSE db.version

\* download, LATEST.jwt
ReadLatest ==
    /\ cli.pc = "idle"
    /\ \E ver \in Latest :
         /\ ver # 0 /\ ver # CurrentVersion
         /\ cli' = [pc |-> "fetch", want |-> ver]
    /\ UNCHANGED <<dist, seen, server, pub, db, dbptr>>

\* download, the export: no delta is ever uploaded, so the full file
Fetch ==
    /\ cli.pc = "fetch" /\ cli.want <= Len(bins)
    /\ cli' = [cli EXCEPT !.pc = "index"]
    /\ UNCHANGED <<dist, seen, server, pub, db, dbptr>>

\* the request fails, or the file is cut short and fails its checks
FetchFails ==
    /\ cli.pc \in {"fetch", "index"}
    /\ cli' = IdleCli
    /\ UNCHANGED <<dist, seen, server, pub, db, dbptr>>

\* writeStart cannot open the file for writing, and perhaps not for reading
WriteStartFails ==
    /\ cli.pc = "index"
    /\ dbptr' \in {"ro", "nil"}
    /\ cli' = IdleCli
    /\ UNCHANGED <<dist, seen, server, pub, db>>

\* index between writeStart and writeEnd, which may fail to reopen
Index ==
    /\ cli.pc = "index"
    /\ db' = Merged(db, bins[cli.want], cli.want)
    /\ dbptr' \in {"ro", "nil"}
    /\ cli' = IdleCli
    /\ UNCHANGED <<dist, seen, server, pub>>

\* the process stops; a new one opens the file it finds
Restart ==
    /\ dbptr' = "ro"
    /\ cli' = IdleCli
    /\ UNCHANGED <<dist, seen, server, pub, db>>

Maintainer == \E h \in Hashes : AddFile(h) \/ EmptyFile(h)

Publisher ==
    \/ PubStart \/ PubWalk \/ PubAddFails \/ PubOpenFails \/ PubExport
    \/ UploadBin \/ UploadLatest \/ PubAbort
    \/ \E k \in PinKeys : PubPin(k)

Client ==
    ReadLatest \/ Fetch \/ FetchFails \/ WriteStartFails \/ Index \/ Restart

Next == Maintainer \/ Publisher \/ Client

(***************************************************************************)
(* The hourly ticker runs, and a download or an open that is tried again   *)
(* and again succeeds at last.                                             *)
(***************************************************************************)
Fairness ==
    /\ SF_vars(ReadLatest) /\ SF_vars(Fetch)
    /\ SF_vars(Index /\ dbptr' = "ro")

Spec == Init /\ [][Next]_vars /\ Fairness

----------------------------------------------------------------------------
Dbs == [p2p : [Names -> Hashes \cup {NoHash}], pkg : SUBSET Hashes,
        pins : SUBSET PinKeys, version : 0 .. MaxVersions]

TypeOK ==
    /\ dist \in [Hashes -> {"absent", "file", "empty"}]
    /\ seen \in SUBSET Hashes
    /\ bins \in Seq(Dbs) /\ Len(bins) <= MaxVersions
    /\ \A i \in DOMAIN bins : bins[i].version = i
    /\ latest \in 0 .. MaxVersions /\ previous \in 0 .. MaxVersions
    /\ pub.pc \in {"idle", "walk", "export", "uploaded"}
    /\ pub.db \in Dbs /\ pub.at \in 1 .. Len(Walk) + 1
    /\ db \in Dbs /\ dbptr \in {"ro", "nil"}
    /\ cli.pc \in {"idle", "fetch", "index"} /\ cli.want \in 0 .. MaxVersions

(***************************************************************************)
(* A client that read LATEST.jwt finds the export it names on the server,  *)
(* wherever apkg-index stopped.                                            *)
(***************************************************************************)
NamedExportExists == cli.pc = "fetch" => cli.want <= Len(bins)

(***************************************************************************)
(* In every database, client's, publisher's or exported, a listed name     *)
(* leads to a build of that name with its record: getPkgTx and the export  *)
(* loop, which does not check, both need it.                               *)
(***************************************************************************)
ListedHasRecord ==
    \A d \in {db, pub.db} \cup {bins[i] : i \in DOMAIN bins} :
        \A n \in Names : d.p2p[n] # NoHash =>
            d.p2p[n] \in d.pkg /\ NameOf[d.p2p[n]] = n

(***************************************************************************)
(* Every name of the export a client has installed resolves there, also    *)
(* when builds were removed, rebuilt or rolled back in between.            *)
(***************************************************************************)
InstalledNamesResolve ==
    db.version # 0 =>
        \A n \in Names : bins[db.version].p2p[n] # NoHash => db.p2p[n] # NoHash

(***************************************************************************)
(* If builds are published once, a client resolves every name of the       *)
(* export it has installed to the export's build and has all its pins,     *)
(* however many exports it skipped.                                        *)
(***************************************************************************)
InstalledBuildsCurrent ==
    db.version # 0 =>
        /\ \A n \in Names : bins[db.version].p2p[n] # NoHash =>
              db.p2p[n] = bins[db.version].p2p[n]
        /\ bins[db.version].pins \subseteq db.pins

(***************************************************************************)
(* When maintainers and publisher are done, the client ends up with the    *)
(* published version, and its database is open again and again, although   *)
(* downloads, opens and the process itself may fail.                       *)
(***************************************************************************)
CatchesUp == <>[](db.version = latest) /\ []<>(dbptr = "ro")

=============================================================================
