# A TLA+ model of apkg

apkg mounts a read-only file system whose root directory lists software
packages (`/pkg/main/<category>.<name>.<version>.<os>.<arch>`). Packages are
squashfs images, fetched on demand, checked against a signed database, and
served through FUSE. The database itself is published by `apkg-index` and
downloaded by every client each hour.

This directory holds TLA+ modules for the stateful parts of that program, TLC
configurations that check them on small instances, and TLAPS proofs of their
safety properties for every size of the system.

- `PROJECT.json` lists components, runs, the source lines behind every
  definition, findings, hazards and theorems.
- Run a model: `tlc -config PkgInodes.cfg MCPkgInodes` (cfg and module are
  named in "runs"). Check the proofs of a component: `tlapm PkgInodes_proofs.tla`.

## 1. Inventory

| Component | State it keeps | Operations |
|---|---|---|
| **Inode numbers of packages** (`apkgdb/lookup.go`, `package.go`) | per database `nextI`, `pkgI` (hash → first number), `pkgCache` (hash → object); one ordered tree `ino` of package objects, owned by the main database | `Lookup`, `internalLookup`, `pkgIno`, `pkgInoUnsigned`, `allocInodes`, `getPkgTx`, `GetInode` |
| **Inode table** (`apkgfs/cache.go`, `fs.go`) | `inoCache` (number → object), a reference count in each object | `addToCache`, `removeFromCache`, `getInodeCache`, `AddRef`, `DelRef` |
| **Package download and mount** (`apkgdb/package.go`) | file at `lpath`, `p.f`, `p.squash`, `dlDone`, `dlMu`, sleeping retry goroutines | `handleLookup`, `ensureDl`, `doDl`, `validate`, `ReadAt` |
| **Database distribution** (`apkgdb/export.go`, `update.go`, `index.go`, `write.go`, `cmd/apkg-index`) | package directory, exports and `LATEST.jwt` on the server, bolt buckets `p2p`, `pkg`, `pins`, `info`, the handle `dbptr` | `processDb`, `AddPackage`, `RemovePackage`, `SetPin`, `ExportAndUpload`, `download`, `index`, `writeStart`, `writeEnd` |
| **Name resolution** (`apkgdb/lookup.go`, `collate.go`, `pin.go`, `natsort.go`, `osarch.go`) | collated keys of `p2p`, pins, channel | `Lookup`, `internalLookup`, `lookupPinTx`, `collatedVersion`, `natsortCompare` |
| **Database life cycle** (`db.go`, `update.go`, `write.go`, `sub.go`) | bolt file and its lock (`dbptr`), `upd` channel, ticker, `sub` map, channel name | `NewOsArch`, `SubGet`, `SetChannel`, `Update`, `updateThread`, `writeStart`, `writeEnd`, `Close` |
| **ld.so.cache** (`ldso.go`, `notify.go`) | the cache's bytes, inode 2 | `buildLdso`, `notifyInode` |
| **Unsigned packages** (`unsigned.go`) | maps by name and path, `sync.Once` per package, one watcher per database | `initUnsigned`, `unsignedScan`, `addUnsignedFile`, `removeUnsignedFile`, `lookupUnsigned` |
| **FUSE server** (`apkgfs/server.go`, `server_linux.go`) | FUSE descriptor, `writeMu`, negotiated version, one goroutine per request | `Serve`, `handleInit`, `handleRequest`, `NotifyInode`, `GracefulExec` |
| **Process control, self-updater** (`main.go`, `ctrl.go`, `updater.go`) | signal channel, `shutdownChan`, `dbMain`, inherited descriptor, version of the binary | `setupSignals`, `gracefulRestart`, `updater`, shutdown |
| **Signatures and trust** (`apkgsig`) | list of trusted keys | `VerifyVersion`, `Sign` |
| **apkg-convert** (`cmd/apkg-convert`) | the file being written | `process` |
| **HTTP listing** (`http.go`) | none | rendering |

### How they interact

A FUSE request arrives on a goroutine of its own. A LOOKUP in the root goes to
`DB.Lookup`, which picks a database by the suffix of the name, resolves the name
to a package (*Resolve*), reserves numbers and puts the package in the tree
(*PkgInodes*). The file system layer then takes a reference and enters the
inode in its table (*InodeCache*). All later requests carry a number: the table
answers, or `DB.GetInode` finds the package, which is downloaded and mounted on
first use (*PackageFetch*). Meanwhile `updateThread` replaces the database under
`dbrw` (*DbSync*), rebuilds `ld.so.cache` and pushes it to the kernel over the
descriptor that carries the answers (*FuseServer*). A name that ends in another
system makes `SubGet` open a database of its own, with a thread of its own
(*DbLife*), and one more watcher of the directory of unsigned packages
(*UnsignedDir*). Signals stop the whole, ask for an update, or replace the image
of the process while the mount stays (*Daemon*).

### What is hard

- Requests interleave at every lock boundary. Five locks guard the number
  space (`dbrw`, `pkgIlk`, `pkgCacheL`, `nextLk`, `inoCacheL`), the tree has
  none, and two values (`p.f`, `p.squash`) are read without the mutex they
  are written under.
- Reference counts live in objects that may be duplicated for one number, and
  wrap around.
- Downloads, reads, mounts and reopenings fail, at each step separately, and a
  retry timer races with a retry that already succeeded.
- The publisher may stop between two uploads; clients skip exports, see stale
  `LATEST.jwt`, and stop between two steps.
- Locks are held across calls that wait for someone else: `subLk` through a
  download and bolt's file lock, `dbrw` through a whole update, with the write of
  a notification to the kernel at its end.
- The kernel has references the program never counted (READDIRPLUS), and gives
  them back like the others.
- A restart keeps the mount and forgets everything else: threads, tables, the
  handshake.
- Resolution replaces "latest matching version" by one seek in byte order.

The list of hazards with lines is in `PROJECT.json`.

### What makes each part correct

- *Numbers*: no two packages share a number; a package keeps its numbers; a
  number leads back to its package.
- *Table*: references are conserved, up to those that nobody counts; what the
  kernel learned by a lookup and holds stays in the table; what it gave back leaves
  it; nobody waits for ever on the lock.
- *Packages*: no unchecked file is left behind; `dlDone` tells the truth; a
  package that can be had is served; a failure is retried.
- *Distribution*: a client can fetch what it is told of; records and names
  agree; the client catches up and then has what was published.
- *Life cycle*: one database per pair; all on one channel; lookups, updates and
  `Close` end, whatever fails.
- *Server*: every request is answered; the `ld.so.cache` served is the main
  database's; old content of it does not outlive the kernel's copy of the inode.
- *Daemon*: stops when told to, closes its channel once, hands over its mount, does
  not install an older version.
- *Unsigned packages*: what is listed is what is in the directory; who adds a
  package finds the map he checked for.
- *Resolution*: never a wrong version; found if it is there; suffixes select
  databases; key order is version order.

## 2. Modules and their correspondence to the code

Each module describes goroutines by a program counter. A step goes from one
point where another goroutine can interfere (a lock taken or released, an
atomic access, an unlocked load) to the next.

### `PkgInodes` (with `MCPkgInodes`, `PkgInodes_proofs`)

`nextI`, `pkgI`, `ino` are the fields of that name. `startIno` is the field of
the package object and at the same time tells whether a signed package is in
`pkgCache`, since objects are created with the number and put there at once.
`AllocSite` is the delegation of `allocInodes` to the parent. `PkgInoFast` and
`PkgInoSlow` are `pkgIno` under the read and the write lock, `GetPkgFast` and
`GetPkgSlow` the two halves of `getPkgTx`, `PkgInoUnsigned...` those of
`pkgInoUnsigned`. Locks are derived from program counters
(`PkgCacheFree`, `PkgIlkFree`, `DbReaders`). The tree has no lock: an
insertion is two steps, two insertions that overlap may lose any part of the
tree, and a traversal beside an insertion may miss any node (`Views`). `Index`
makes packages appear while lookups run, under `dbrw`.

Numbers are natural numbers: the 64-bit counter starts at 1000 and does not
wrap within the life of a process.

`InodeSpace` is what the rest of the program relies on: a package gets, at most
once, a range apart from all others, and the kernel is only told numbers that are
reserved. `ImplementsSpace` maps `base` to the number recorded for a package
(`pkgI`, or the object of an unsigned one) and `answered` to the packages a
lookup answered with; locks, trees, caches and the two halves of every operation
are stuttering.

### `InodeCache` (with `MCInodeCache`, `InodeCache_proofs`)

One inode number, since entries share only the lock. `virtual` and `root`, chosen
initially, say what kind of inode it is: one whose objects count nothing
(symlinks, `ld.so.cache`), one with a single object (the root of a package), or one
with a new object on every miss. `AddNew`, `AddFound`, `AddMove`, `AddMoved` are
`addToCache`; `RemoveMissing`, `RemoveDelRef`, `RemoveEvict` are
`removeFromCache`. `kernel` is the number of references the kernel holds; it gives
back at most what it has. `leaked` counts the lookups that fail in `FillAttr` after
they took a reference.

`ReadDirPlus` is the other way to a reference: `handleInit` negotiates READDIRPLUS,
and for every entry of an answer of `doReadDir` the kernel counts one, while the
server calls neither `AddRef` nor `addToCache`. The ghost `plus` counts them. They are
given back in FORGETs like all others, so that a count may go below zero; the code's
64-bit counts wrap around then, which the module, whose counts are integers,
expresses by negative ones, and `Evictable` is the test for 0 or "over large". A wrap is
told from a real count at any size the kernel can reach. Only inodes inside a package can
be listed this way: `ReadDir` of the root of the mount answers with an error.

### `PackageFetch` (with `MCPackageFetch`, `PackageFetch_proofs`)

One package. `disk` is the file at `lpath`, `f`, `squash`, `dlDone`, `dlMu` are
the fields, `timers` the sleeping goroutines. `valid` is a ghost: validation
succeeded on the file in `f`. Contents are told apart only as far as `validate`
does (header hash, signature). The unlocked double loads of `handleLookup` and
`ReadAt` are two steps each; when the second load is nil the process ends
(`Panic`) and the next one finds the file on disk. `served` and
`readFails`, chosen initially, are the environment: what the server delivers, and whether
reads of a header or a signature can fail.

### `DbSync` (with `MCDbSync`, `DbSync_proofs`)

One OS/architecture pair, one publisher, one client. A database is a record of
`p2p` (name → build), `pkg` (builds with a record), `pins` and `version`.
`Merged` is `index`: it adds the builds it does not know, overwrites their
names, adds pins and sets the version, in one transaction. The publisher starts
from the published export (`PubStart`), walks the directory (`PubWalk` with
`Added` and `Removed`; a file `OpenPackage` refuses ends it; one that `AddPackage` cannot
write is logged and passed over, `PubAddFails`), exports, indexes the export into itself (`PubExport`, `SelfIndexed`)
and uploads (`UploadBin`, `UploadLatest`); it may stop anywhere (`PubAbort`).
The client's steps are the parts of `download` and `index`. Failing hash,
length and signature checks are `FetchFails`. `AddFile` and `EmptyFile` are
external: they are what maintainers do to the package directory.

### `Resolve` (with `MCResolve`, `Resolve_proofs`)

Names are sequences of byte values, because the order of bytes is the subject.
`CollatedVersion` is a translation of `collatedVersion`, `NatsortCompare` of
`natsortCompare`; both are recursive functions. `Before` is `Seek` and `Prev` on
the bucket, `Under` adds the test of the prefix, `InternalLookup` and `Lookup` are
the functions of that name. State (`p2p`, `pins`, `channel`) changes through
`index` and `SetChannel`.

### `FuseServer` (with `MCFuseServer`; proofs in `Daemon_proofs`)

The requests that meet on inode 2 (`lookup`, `read`, `forget`), a release, and a
lookup of a package, which stands for every request that needs `dbrw` of the main
database. `st` follows a request from the kernel to its answer. A snapshot of
`DB.ldso` is taken by `GetInode` without a lock: beside `BuildLdso` it may be torn.
`AddToCache` keeps the object that is in the table. The update threads build
(`BuildLdso`, `BuiltLdso`) and push with `dbrw` held. `InodeNotify` is that push as the
bytes are written: a header with Unique 0 and the code -2 in Status. Linux knows the
code 2 and refuses the message at once, so `NotifyInode` returns without
`InodeNotifyStoreCache`, and `buildLdso` drops the error: the push changes nothing in the
kernel. Every write to the descriptor is taken or refused at once, so `writeMu` is
held for one step only and needs no variable. Every database pushes to inode 2, and its
notification finds the main database as its target. Contents are build numbers.
The kernel (`SendLookup`, `SendBackground`, `SendForget`, `DropPage`, and its room
for `MaxBackground` unanswered reads and releases) is external.

### `Daemon` (with `MCDaemon`, `Daemon_proofs`)

`phase` is where `main` is, `serve` where `FuseServer.Serve` is, `conn` and `req` the
kernel's connection and requests, `sig` the channel of one signal. `Mount` and
`Inherit` are `apkgfs.New` of the first and of a later image; `HandleInit` is
`handleInit`, which takes what it reads for an INIT; `Unmount`, `CloseFd` and `Exit`
are the deferred calls of `main`. `Inherit` also covers a `New` that fails because the
connection is gone. `Panic` says when `HandleSignal` starts a goroutine on a nil `dbMain` or
closes a closed `shutdownChan`; `Panics` is the end of the process. Answers to requests are
one kind here: that RELEASE gets none is the subject of `FuseServer`. `CheckRestart`, `ExecFails` and `Exec` are
`gracefulRestart` with `GracefulExec`, a goroutine beside `main`. `UpdaterReads`
and `UpdaterInstalls` are the two uses the updater makes of the link. `overtaken`
and `mixed` are ghosts for the exceptions of two properties: an image replaced
after it was told to stop, a version installed that was not the one compared.

### `DbLife` (with `MCDbLife`, `DbLife_proofs`)

`stage` follows the update of a database, by its thread or by the `NewOsArch` that
creates it. `handle` is bolt's lock on the file: exclusive for a writer and for
whoever creates the file, shared for a reader. `WriteClose` and `WriteStart` are
`writeStart`, `Index` and `ReopenFails` the ends of `index` with `writeEnd`. `Lock`,
`Open`, `Created`, `Insert` and `CreateFails` are `SubGet` with `NewOsArch`;
`subLk` is held from `Lock` to the end. A database whose creation failed is not
closed; `Collect` is the finaliser that closes its file. `CloseDb` may keep the lock: when
bbolt's `Close` fails, `DB.Close` returns before it lets go of `dbptr`. `SetChannel` sets the main
database's channel first and the subs' after, two steps.

### `UnsignedDir` (with `MCUnsignedDir`, `UnsignedDir_proofs`)

`listed` and `inner` are the map of unsigned packages and whether the map of their
pair exists in it; `InitUnsigned` replaces both without the lock, as `initUnsigned`
does for each database that is opened. `Watch`, `ReadDir`, `ScanNext` and
`ReadEvent` are `unsignedScan`; `Stat`, `MakeInner` and `Put` are `addUnsignedFile`;
`Lookup` is `lookupUnsigned` with the opening by `sync.Once` and the use of the image
in `pkgInoUnsigned`. Opening may fail on any file, also a complete one (`Opens`), and
`ReadDirFails` is a scan whose error is ignored. Files come half written, are finished without an event, removed
and moved away; inotify is external.

## 3. Runs

| Run | Shows | Distinct states |
|---|---|---|
| `PkgInodes` | `RangesDisjoint`, `IdBelongs`, `RightPackage`, `LookupResolves`, `NumbersStable`, `ImplementsSpace` | 598 390 |
| `InodeCache` | `RefConservation`, `KernelHeldIsCached`, `NoResidue`, `RequestsEnd` | 214 195 |
| `PackageFetch` | `DoneMeansMounted`, `SettledFileValidated`, `FileLostOnlyByReadError`, `EventuallyServed` | 55 773 |
| `DbSyncAll` | `NamedExportExists`, `ListedHasRecord`, `InstalledNamesResolve` | 4 306 519 |
| `DbSyncOnce` | `InstalledBuildsCurrent`, `CatchesUp` | 585 274 |
| `Resolve` | `NeverWrongVersion`, `FoundUnlessSibling`, `SuffixSelectsDb`, `CollationIsNatural` | 12 288 |
| `FuseServer` | `CacheIsMains`, `Answered`, `NewestAfterForget` | 123 711 |
| `Daemon` | `ClosedOnce`, `HandsOverTheMount`, `TermReleases`, `AnsweredByFirstImage`, `NoDowngrade` | 192 564 |
| `DbLife` | `NoOrphanDb`, `ChannelAgrees`, `SubGetEnds`, `Converges`, `CloseEnds` | 181 486 |
| `UnsignedDir` | `QuietListsDirectory`, `InnerMapFound`, `ListingSettles` | 804 137 |
| `FuseRestart` | violates `SeamlessRestart` | |
| `ResolveLatest` | violates `LatestFound` | |

Several properties name the cases in which they do not hold (`Starved`
in `Answered`, `plus` in `RefConservation` and `KernelHeldIsCached`, `Shut` in `CloseEnds`, `blind` in `QuietListsDirectory`, `stuck` in
`TermReleases`, `mixed` in `NoDowngrade`). Each exception is reachable, and described
in section 5; the property says that it is the only one.

Every module defines `TypeOK`. `PkgInodes` checks it in its run; in the other modules
it documents the state, ties the locks to the program counters, and is the start of their
inductive invariants. It is proved for all of them, for `InodeCache` as a conjunct of `CacheInv`. Every property of a passing run comes with
a mutant of the code (in the module, marked `mutant:`) that violates it.

### Bounds and why they are enough

- `PkgInodes`: two goroutines, two databases, three signed packages (two in one
  database, one with an incomplete record) and an unsigned one. Every pair of
  critical sections meets, also on one package and across databases. A third
  goroutine adds only repetition of pairs; the proofs cover any number.
- `InodeCache`: three goroutines, so that a forget can run beside two lookups that
  hold different objects; one object more than goroutines, so that a new one is
  always there; `MaxRefs` 3 references outstanding, so that an object can have more than
  one beside another; `MaxLeaks` 1 failure; `MaxPlus` 1 reference by READDIRPLUS, enough for a
  FORGET that takes a count below zero. With 4 references, 2 of them by READDIRPLUS, the
  invariants hold as well (1 166 783 states); the liveness is then out of reach, and the proofs
  cover every bound. No symmetry, because liveness is checked.
- `PackageFetch`: three goroutines (one in `doDl`, one between its two loads, one
  waiting) and three sleeping timers (`MaxTimers`); ensureDl waits when the bound
  is reached.
- `DbSync`: three exports (`MaxVersions`) allow "skip one" and "go back"; two
  builds of one name and one of another allow rebuilds and a bystander. `Rebuilds`
  allows a build to return; `StaleLatest` allows the previous `LATEST.jwt` to be
  read. `DbSyncOnce` switches these off, since `InstalledBuildsCurrent` is not
  true with them (see below). `AddErrors` lets `AddPackage` fail, in both runs.
- `FuseServer`: one request of each kind, since two of a kind on one inode differ in
  nothing the other kinds do not show; two builds of the main and of a
  sub-database, so that pushes overlap with each other and with a read, and the
  kernel can be two builds behind; `MaxBackground`
  1 (12 in the code), so that the limit is reached by one release.
- `Daemon`: two images (`MaxGen`), so that there is an inherited mount; two requests, one
  to be taken and one to stay queued; three versions with the second running, so that
  the link can go up, down and up again. Only `Exec` is bounded, signals and requests
  are not.
- `DbLife`: two callers of `SubGet` for one pair and room for two objects, so that one can
  be left behind by a failed creation while the other is opened; one version after "NEW",
  published at any moment. The main database is up to date, so the first conjunct of `Converges`
  says little here. With one caller, no `SetChannel` and two versions of both databases, where
  the main one updates, a SIGHUP in the middle of an update is dropped and a version is overtaken by
  the next, `Converges` holds too (133 470 states); both at once are out of reach.
- `UnsignedDir`: two databases, two files, each of which may be there from the start, and
  two changes (`MaxChanges`), enough to remove and copy a file, or to change one and the
  other in the middle of a scan.
- `Resolve`: the names of `a.b` in five versions (1.9, 1.10, 1.9_2, 2, 02) and of its
  neighbours `a.bc` and `a.b2`, in every subset: longer numbers, a suffix with an
  underscore, a leading zero, and siblings that sort between. The pins select a
  major, a minor and a testing version. Deadlock is not checked: after everything is
  indexed there may be nothing left to do. The same holds for `Daemon` (an ended process),
  `FuseServer`, `DbLife` and `UnsignedDir` (bounded updates and changes; a server starved by
  releases, which `Answered` is about).

### Fairness

- `InodeCache`: weak fairness of a running goroutine; strong fairness of taking the
  lock, because `sync.RWMutex` blocks new readers once a writer waits and so does
  not starve it.
- `PackageFetch`: the same for goroutines and `dlMu`; sleeping goroutines wake up;
  the kernel keeps asking for the package; and an open or a mount that is tried
  infinitely often succeeds at last (`SF` on the successful outcome only). Without the
  last two the property is about the network, not the code.
- `DbSync`: the hourly ticker makes `ReadLatest` happen; a download, and opening the
  file again, succeed at last if tried infinitely often. No fairness is assumed of
  maintainers and publisher: that there are finitely many exports is the bound
  `MaxVersions`.

- `FuseServer`: weak fairness of each request's goroutine and of each update thread. It is
  enough for `dbrw` because updates are finitely many. Nothing is assumed of
  the kernel's requests.
- `Daemon`: weak fairness of `main`, of the signal goroutine, of `Serve` and of the
  goroutines that answer; `apkgdb.New` ends. Signals, requests, restarts and failures may
  or may not happen.
- `DbLife`: weak fairness of threads, callers, ticker and garbage collection (the runtime
  forces one every two minutes, which runs the finaliser of the file), and from some moment
  on downloads, opens and writes do not fail.
- `UnsignedDir`: weak fairness of the watchers, and at least one database is opened.

`PkgInodes` and `Resolve` state no liveness.

## 4. Proofs

Each component's theorems are in its `_proofs` module; those about `FuseServer` are in
`Daemon_proofs`, which instantiates it as `Fuse` beside the daemon that runs it. They hold for every value of the
constants: any number of goroutines, databases, packages, requests, files, exports and restarts.

| Module | Theorem | Statement |
|---|---|---|
| `PkgInodes_proofs` | `Invariance` | `Spec => []Inv` |
| | `TypeCorrect` | `Spec => []TypeOK` |
| | `Disjointness` | `Spec => []RangesDisjoint` |
| | `IdCorrect` | `Spec => []IdBelongs` |
| | `GetInodeRight` | `Spec => []RightPackage` |
| | `Stability` | `Spec => NumbersStable` |
| | `SignedResolves` | `Spec => []LookupResolves` |
| | `SpaceImplemented` | `Spec => ImplementsSpace` |
| `InodeCache_proofs` | `ReferencesConserved` | `Spec => []RefConservation` |
| | `HeldInodesAreCached` | `Spec => []KernelHeldIsCached` |
| | `TableEmpties` | `Spec => []NoResidue` |
| `PackageFetch_proofs` | `FetchTypes` | `Spec => []TypeOK` |
| | `DoneImpliesMounted` | `Spec => []DoneMeansMounted` |
| | `RestingFileValidated` | `Spec => []SettledFileValidated` |
| | `FileKeptWithoutReadErrors` | `Spec => []FileLostOnlyByReadError` |
| | `LossIsForever` | `Spec => BereftStays` |
| `DbSync_proofs` | `SyncTypes` | `Spec => []TypeOK` |
| | `NamedExportsExist` | `Spec => []NamedExportExists` |
| | `ListedNamesHaveRecords` | `Spec => []ListedHasRecord` |
| | `InstalledNamesAlwaysResolve` | `Spec => []InstalledNamesResolve` |
| | `InstalledBuildsAreCurrent` | `Once /\ Spec => []InstalledBuildsCurrent` |
| `Daemon_proofs` | `DaemonTypes` | `Spec => []TypeOK` |
| | `ShutdownClosesOnce` | `Spec => []ClosedOnce` |
| | `MountIsHandedOver` | `Spec => []HandsOverTheMount` |
| | `NeverDowngrades` | `Spec => NoDowngrade` |
| | `RestartEndsService` | `Spec => UnservedStays` |
| | `LostRequestsStayLost` | `Spec => LostStays` |
| | `StuckIsForever` | `Spec => StuckStays` |
| | `ServerTypes` | `Fuse!ServerAssumption /\ Fuse!Spec => []Fuse!TypeOK` |
| | `OnlyMainsCacheIsServed` | `Fuse!ServerAssumption /\ Fuse!Spec => []Fuse!CacheIsMains` |
| | `StarvationIsForever` | `Fuse!ServerAssumption /\ Fuse!Spec => StarvedStays` |
| `DbLife_proofs` | `LifeTypes` | `Spec => []TypeOK` |
| | `NoDbIsOrphaned` | `Spec => []NoOrphanDb` |
| | `ChannelsAgree` | `Spec => []ChannelAgrees` |
| `UnsignedDir_proofs` | `UnsignedTypes` | `Spec => []TypeOK` |
| | `QuietListingIsDirectory` | `Spec => []QuietListsDirectory` |
| | `InnerMapIsFound` | `Spec => []InnerMapFound` |
| `Resolve_proofs` | `ResolveTypes` | `Spec => []TypeOK` |
| | `OnePinPerKey` | `Spec => []PinsUnique` |
| | `KeysIdentifyNames` | `AsciiNames /\ Spec => []KeysDiffer` |
| | `KeysAreNatural` | `AsciiNames /\ ShortNames /\ Spec => []CollationIsNatural` |
| | `WrongVersionNever` | `AsciiNames /\ ShortNames /\ Spec => []NeverWrongVersion` |
| | `MissOnlyBySibling` | `AsciiNames /\ ShortNames /\ Spec => []FoundUnlessSibling` |
| | `SuffixNamesDb` | `AsciiNames /\ SuffixLast /\ Spec => []SuffixSelectsDb` |

### Assumptions

They are the named assumptions of the modules, which TLC evaluates in the runs. Most say that
model values differ, that bounds are natural numbers and that tables of the environment have
their types. Those with content:

- `PkgInodes`: the kinds of packages are disjoint (`PkgsAssumption`), a package is listed in one
  database (`HomeAssumption`), an image has at least one inode (`InoCntAssumption`) and the first
  number is above the special ones (`FirstInoAssumption`).
- `InodeCache` (`ObjsAssumption`), `UnsignedDir` (`UnsignedAssumption`), `FuseServer`
  (`ServerAssumption`): at any moment there are finitely many goroutines, objects, watchers and
  requests. The properties count them.
- `DbSync` (`WalkAssumption`): the walk of `apkg-index` visits every build there can be, as
  `filepath.Walk` visits every file; files that are not there are passed over. Any order, and
  repetitions, are allowed.

- `Resolve` (`ResolveAssumption`): names are finite sequences of byte values and finitely many are
  published; the suffix of a database starts with a dot, and none ends another's, as pairs of OS and
  architecture differ and contain no dot.

The theorems about lookups have hypotheses about the published names, which `index` does not
check. `AsciiNames`: a byte from 128 on in a name could be taken for the length of a run of digits.
`ShortNames`: `collatedVersion` cuts runs of more than 33 digits, and the parts are then ranked
otherwise than the numbers. `SuffixLast`: OS and architecture are the end of a name, so that no name
goes on behind the suffix of another database. `MCResolve` assumes all three of its names, so TLC
evaluates them on the run's instance. Leading zeros are not excluded by a
hypothesis: the properties themselves say nothing of names that have them (`Plain`).

`InstalledBuildsAreCurrent` has `Once` as a hypothesis: nothing is removed, no build comes back,
no stale `LATEST.jwt` is served, and `AddPackage` does not fail. Without the first three the
property is false (section 5). The last is there for the proof, which rests on every file of the
directory being listed; `DbSyncOnce` checks the property with failing additions as well.

### The inductive invariants

None of the properties is inductive. Each proof has one invariant, checked by TLC on the
run's instance before it was proved, a lemma that it holds initially, and a lemma for the steps
with one case per action.

*`PkgInodes`: `Inv`.* `RangesDisjoint` needs to know that all ranges
lie below the shared counter (`NumbersInv`), which is where the delegation of
sub-databases to the main one's counter enters. `IdBelongs` needs that the object of
a signed package carries what `pkgI` says, and what a goroutine between the two locks
knows (`ThreadInv`): that its number is the one in `pkgI`, and stays so because `pkgI` is
written once. `RightPackage` needs that tree entries have their numbers (`TreeInv`);
then the entry with the largest start not above a number can only contain it if it is
its own package, and an entry missed by the traversal leads to no answer rather than
to a wrong one, by disjointness. `Inv` is the conjunction of these.
`SignedResolves` needs a second invariant, `SignedInv`, that holds as long as no unsigned
package has a number: then `pkgCacheL` serialises all insertions, none overlaps, and an
object that is in `pkgCache` is in the tree or its inserter still holds the lock. The proof
shows that a step that ends in a state without unsigned numbers starts in one.
`SpaceImplemented` shows step by step that what `pkgI` and the objects record is what `InodeSpace`
calls reserved: a reservation is fresh because the counter is above all ranges, an answer is
reserved because the answering goroutine is described by `ThreadInv`, and every other step
leaves the mapped state alone.

*`InodeCache`: `CacheInv`.* The properties are about sums of counts, so the model states them as
cardinalities (`Units`, `Total`): the sum of a function is the number of pairs of a point and one
of its units. The first lemmas of the proof say how a sum changes with one term, with the set
summed over and between two functions. As counts go below zero, the sum of integers is the
difference of two such sums (`Net`, `NetChange`, `NetBound`), and `Counted` takes back what
`addToCache` has added to the table's object and not yet subtracted from its own. `LockInv` ties
the write lock to program counters. `MoveInv` says that what `addToCache` leaves behind in the object
it found outside the table was added by lookups that have yet to call it, `OwedInv` that such an
object has no other references than theirs, `EvictInv` the same of what came in since
`removeFromCache` read the count it decides on. The two halves of conservation need different
invariants: `LowerInv` is a sum over all objects, which an eviction leaves alone; `UpperInv`
counts the table's object with its sign, since only there a count can be wrapped, and an entry that
is evicted takes its negative count with it. `KernelHeldIsCached` follows from `LowerInv` and
`OwedInv`: what the objects outside the table count belongs to lookups in progress, so the rest is in
the table. `NoResidue` needs that an entry without references is about to be evicted (`HeldInv`),
and `VirtualInv` for objects that count nothing.

*`PackageFetch`: `FetchInv`.* One goroutine at most is in `doDl` (`MutexInv`), and `PlaceInv` says
what `p.f` and the image are at each of its places. The point is that `p.f`, when there, is the file
on disk, and the file on disk is good once an image was mounted (`FileInv`), because `OpenTo`
fetches a file only when there is none and `validate` removes only one with a wrong header. So a second validation can fail only by a read error.
`LossIsForever` says what that costs: once `dlDone` is set without a file and no retry sleeps, `dlDone`
keeps every `ensureDl` out of `doDl`, and nothing but a panic, which ends the process, changes that.

*`DbSync`: `SyncInv`, `OnceInv`.* Every version anyone knows is that of an export on the server
(`VersionInv`), and a client lists something under the name of every build it has a record of
(`KnownNamesListed`), which is why skipping known builds never loses a name. That it also has the
right build is a statement about the history of exports: with builds published once, the
directory has one file per name (`DirectoryInv`), the walk lists all of them (`WalkedInv`), so a
build that is missing from an export is retired and in no later one (`NoReturn`); a build on
record that the client lists no more is retired (`RecordInv`), and the version only grows
(`ForwardInv`). Hence a skipped build of the new export is one the client lists already.

*`Daemon`: `DaemonInv`.* `MountInv` says that `main` leaves `Serve` only after it was told to stop,
`CloseInv` that the goroutine of `setupSignals` is gone once the channel is closed, `VersionInv` that the updater's `v` is at least the running version, `n` above it and, unless the
link moved, the version of the installed file.
Three theorems show that exceptions the properties make are final. With `FreshInv` (the first image
mounts once) a connection that a restart leaves unserved is never served again
(`RestartEndsService`), and its requests end only with it (`LostRequestsStayLost`); so what
`FuseRestart` finds is no delay. An image that waits for its own mount does so whatever signal comes
(`StuckIsForever`), the exception of `TermReleases`.

*`DbLife`: `LifeInv`.* A database object belongs to the caller of `SubGet` that creates it
(`CallerInv`), to the entry of the map (`EntryInv`), or to its thread after `Close`; only the holder
of `subLk` moves it on. `ChannelInv` adds that a database about to be entered has the main one's
channel, or a `SetChannel` under way will still reach it.

*`UnsignedDir`: `UnsignedInv`.* What is listed and what is in the directory may differ as long as
a watcher has work left that repairs it: a file not listed is still to be scanned or has its event
in some queue (`AddInv`), one listed and gone has its removal in a queue (`RemoveInv`). A
removal that is out of date is followed by the creation that made up for it in the same queue
(`OrderInv`), which is what makes the order of events matter. `InnerInv` follows the states
between making the inner map and writing to it.

*`Resolve`: `TypeOK`, `PinsUnique`.* Here the invariants are short and the operators carry the
argument. The prover has no induction over data, but the library has the theorem that the order of the natural
numbers is well founded (`WFMin`, which takes sets and no operator): a set of numbers has a least element
(`Least`), and so a set of positions that contains each one all later ones of which it contains, contains
all (`Downward`). With it `CollationExists` and `NaturalExists` show that the two recursive functions over
positions exist, which turns their definitions into equations (`CollationStep`, `NaturalStep`), and every
later induction takes the set of positions at which the claim holds.

Keys. Byte order is a strict total order (`BytesLessIrreflexive`, `-Transitive`, `-Total`), a common
prefix does not matter (`BytesLessCancel`) and blocks of one length decide (`BytesLessBlock`). A key is a row
of tokens, and as no ASCII byte is a length, it can be read back (`Decode`): a key that starts with the key
of `s` belongs to a name that starts with `s`. Injectivity follows, and with it `KeysIdentifyNames`. Two names
are compared token by token as `natSort` compares them number by number (`NaturalIsCollated`): at a place
where they differ, the lengths of two runs decide in both orders, runs of one length are blocks, and a
length is above every letter.

The seek. The names that continue `name` with a dot have keys that start with the key of `name`
(`PrefixKey`: a dot continues no run of digits) and are in front of the seek (`MatchSmaller`), so a hit is
the largest of them (`UnderIs`), and by `NaturalIsCollated` the latest. If `Prev` lands on something else,
its key is between one of theirs and the seek, so it starts with the key of `name` too (`Between`), by
`Decode` its name starts with `name`, and what follows is ranked after a dot: a sibling (`UnderFound`).

*`FuseServer`: `ServerInv`.* Types, and the kernel's queue: every request in it waits, and is in it
once (`QueueInv`). `StarvedStays` says that the exception of `Answered` is final, since
nobody answers a release. `OnlyMainsCacheIsServed` follows contents from `GetInode` to the table,
the answer and the page; a push of a sub-database takes no part in it only because it is refused.

### Only model-checked

- All liveness (`RequestsEnd`, `EventuallyServed`, `CatchesUp`, `Answered`, `NewestAfterForget`,
  `TermReleases`, `AnsweredByFirstImage`, `SubGetEnds`, `Converges`, `CloseEnds`, `ListingSettles`): the
  prover does not reason about fairness.
- The two properties of section 5 that are violated.

## 5. Findings

Two runs expect a violation; each states what the repository says of itself.

- `FuseRestart`: after SIGUSR2 the new image calls `handleInit` on the descriptor it
  inherited. The kernel sends INIT once per mount, so what is read is some request: it is
  refused and not answered, `Serve` returns, and nobody reads the descriptor again.
  Requests the old image had taken are lost with its threads. The comment at
  `server_linux.go:74` says "pick up the mount seamlessly".
- `ResolveLatest`: with `a.b.2` and `a.b2.1` listed, `a.b` is not found; `src/README.md:55` says
  that less specific names resolve to the most recent matching version.

Seen while modelling, described by an exception of a property or by a ghost:

*Numbers and table*
- An unsigned package's `startIno` is visible before the package is in the tree
  (`package.go:146`). A second lookup answers at once, and a request for the number it
  returned fails: `LookupResolves` is about processes that looked up no unsigned package.
- A lookup whose `FillAttr` fails leaves its reference counted for ever (`fs.go:160`).
- References given by READDIRPLUS are not counted (`server.go:379-414`). An inode the kernel knows by
  one of them only is not in the table, and a FORGET of several may evict an entry that another
  reference of the kernel should keep, or wrap its count around (`cache.go:41`): requests then reach
  a new object for the same number, which works as objects of one number are alike.

*Packages*
- A package may be marked as downloaded with no file behind it and no retry to come. A
  validation fails and starts a timer; a second try succeeds; the timer clears `dlDone`
  and the package is opened again, which fails validation (a read error is enough) and
  drops `p.f`, while `p.squash` stays and sets `dlDone`; the next timer clears it once more
  and this time the open fails. `FileLostOnlyByReadError` says that without a failed read
  this does not happen.
- `ReadAt` and `handleLookup` test a pointer and load it again; `doDl` may set it to nil in
  between, and the process ends (`package.go:476-487`, `297-308`).
- A failed download is tried again by the next lookup at once; the ten seconds of the
  comment at `package.go:350` only delay a package that was mounted before.

*Distribution*
- A package removed by `apkg-index` stays at clients that had it: `index` only adds.
- A name with two builds, published, rebuilt and published in the first build again, keeps the
  second build at a client, because `index` skips hashes it has a record of
  (`index.go:249`): `InstalledBuildsCurrent` fails with `Rebuilds`.
- Pins are only added by `index` (`index.go:329`): a pin the publisher deletes stays in force.
- A pin on `sys-libs.glibc` does not reach `sys-libs.glibc.libs`, contrary to the example at
  `src/README.md:80`: `lookupPinTx` compares the whole name (`pin.go:116`).
- Collated keys rank `02` above `9`; the web listing ranks it below.

*Life cycle*
- A failed `NewOsArch` does not close the file it created (`db.go:115`). Its lock stays until
  the garbage collector runs, and the next lookup of that system waits for it with `subLk`
  held.
- A thread whose database is closed in the middle of an update asks for the file after `Close`
  returned. If the pair was looked up again, it waits as long as the new database has it open
  (`Shut` in `CloseEnds`).
- SIGHUP reaches the main database only, and is dropped while an update runs
  (`update.go:179`), which `src/README.md:28` calls an immediate check; the ticker makes up for it
  (`Converges`). The HTTP client has no timeout: a download that stalls stops the thread.

*Server and ld.so.cache*
- No push of `ld.so.cache` reaches the kernel. `InodeNotify` writes
  `notifyInvalInode` = -2 (`proto.go:62`) as the Status of a message with Unique 0
  (`server.go:457`), where the kernel expects the positive code 2, and the write fails with EINVAL.
  `InodeNotifyStoreCache`, which is not reached then, has a negative code as well and copies 16 of the
  24 bytes of its message (`server.go:482`, `491`). `ldso.go:113` says "push to kernel", `server.go:447`
  "tells the kernel to invalidate cached data". The kernel serves the old cache from its pages until it
  drops them; `NewestAfterForget` says that this is as long as it lasts.
- RELEASE is not answered (`server.go:157`). The kernel counts releases among its background
  requests, of which `handleInit` allows 12 (`Starved`).
- A sub-database pushes its own `ld.so.cache` to inode 2 of the mount (`notify.go:10`); that the
  notification is refused is all that keeps it from being served as the main one's
  (`CacheIsMains`). Its first index runs before it has a parent, and pushes nothing.
- The table keeps the snapshot it was entered with: a read of a dropped page
  brings the old content back, until the kernel forgets the inode (`NewestAfterForget`). A
  snapshot taken during the unlocked assignment may have the pointer of one slice and the
  length of another.

*Daemon*
- SIGHUP before the database is loaded calls `Update` on nil and crashes (`main.go:60`,
  `Panics`).
- The channel of signals has room for one: a TERM that comes while another signal waits is
  dropped.
- A read error other than ENODEV and EINTR, and a refused INIT, end `Serve`; `main` is not told
  and goes on with a mount nobody serves.
- A new image stats its mount before it serves it, and may wait for itself (`stuck`); SIGTERM
  is noticed by the signal goroutine but never by `main`.
- `gracefulRestart` beside the shutdown may hand over a descriptor that is unmounted or
  closed (`overtaken`).
- The updater sets `v = n` before the restart: a failed `Exec`, or a USR2 that was dropped, is
  not tried again until the next version. The version compared is one `Readlink`, the file
  copied is what the link leads to later (`mixed`). A `DATE_TAG` of "unknown" compares greater
  than any date and is never updated.

*Unsigned packages*
- `initUnsigned` replaces the map without its lock for every database that is opened: an
  `addUnsignedFile` in between writes to a nil map. Every `SubGet` adds one more watcher that is
  never stopped.
- A lookup of a file that is half copied, removed or moved away opens it, ignores the error and
  uses the nil image; a complete file that is no squashfs image, or that cannot be opened for lack of
  descriptors, does the same, with one database and an untouched directory (`unsigned.go:46-49`, `127`).
- Files moved away, overflows of inotify's queue and errors of `ReadDir` (`unsigned.go:149`) are not
  noticed (`blind`), against
  the words "without restart" of `src/README.md`.

## 6. Not modelled

- Cryptography and the list of certificates (`ssltrust.go`, a third of the repository's lines,
  is data): verification is modelled by its outcome.
- Binary layouts: exports, headers of packages, FUSE messages (`proto.go`), the bytes of
  `ld.so.cache`; outcomes and build numbers only.
- `apkg-convert`, a sequential writer of one file.
- A second `Close` of a database, which closes a closed channel and panics. Nothing in the repository
  calls `Close`; `CloseEnds` is about one call, as `SetChannel`, which `main` calls before any lookup, is
  modelled beside lookups: both are what the exported functions promise, not what this program does.
- An unmount of the mount by another process.
- File modes, attributes and status codes, which have no state; reading of directories and files
  inside a mounted image, which is the squashfs library's.
- Rendering of the HTTP listing, and the debugging listener of `ctrl.go`, which are I/O.
- The prefix match of `lookupUnsigned`, which takes any of several matches in the random order
  of a Go map; names of unsigned packages are model values here.
- The size of the buffer `handleInit` reads with, which a newer kernel may refuse (EINVAL);
  it is one of the failures of `ReadFails`.

## 7. Plan

Modules and runs are complete for the parts named in section 2, and every safety property of the
passing runs is proved. What could be added:

1. `FuseServer`: a bound on how old the content in the table can be, as an invariant beside
   `NewestAfterForget`.
2. `PkgInodes`: that the number of an unsigned package resolves once its insertion is over, if it
   overlapped with no other, which is the safety part of the exception of `LookupResolves`.

All liveness stays with TLC.
