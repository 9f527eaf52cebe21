------------------------------ MODULE Resolve ------------------------------
(***************************************************************************)
(* Which package a name in the root directory stands for (apkgdb/lookup.go,*)
(* collate.go, pin.go, and natsort.go for the order versions have).        *)
(*                                                                         *)
(* Full names are stored in the ordered bucket p2p under a collated key.   *)
(* A shorter name is resolved with one seek behind all keys it is a prefix *)
(* of, and one step back.  Names are sequences of byte values.             *)
(***************************************************************************)
EXTENDS Naturals, Sequences, SequencesExt, FiniteSets

CONSTANTS
    DBs, Main,   \* databases, and the one the file system is mounted on
    Suffix,      \* ".os.arch" of each database
    Files,       \* published packages: database and full name
    Pins,        \* pins they may carry: database, channel, prefix, version
    Channels     \* values of -channel

Dot == 46
IsDigit(c) == c \in 48 .. 57
None == <<>>

\* databases have different pairs of OS and architecture, and the name of
\* neither holds a dot: no suffix ends another's
ASSUME ResolveAssumption ==
    /\ Main \in DBs
    /\ \A d \in DBs : Suffix[d] \in Seq(Nat) /\ Suffix[d] # <<>> /\ Suffix[d][1] = Dot
    /\ \A d, e \in DBs : IsSuffix(Suffix[d], Suffix[e]) => d = e
    /\ IsFiniteSet(Files)
    /\ \A f \in Files : /\ f.db \in DBs /\ f.name \in Seq(Nat)
                         /\ IsSuffix(Suffix[f.db], f.name)
    /\ \A p \in Pins : p.version \in Seq(Nat)

VARIABLES
    p2p,         \* the names each database lists
    pins,        \* the pins buckets
    channel      \* DB.channel

vars == <<p2p, pins, channel>>

----------------------------------------------------------------------------
(* Order of keys.                                                          *)

\* length of the run of digits at position i
DigitsAt(s, i) ==
    LET ends == {j \in i .. Len(s) + 1 : j > Len(s) \/ ~IsDigit(s[j])} IN
    (CHOOSE j \in ends : \A k \in ends : j <= k) - i

\* bytes.Compare(a, b) < 0, the order of a bolt bucket
BytesLess(a, b) ==
    \/ IsStrictPrefix(a, b)
    \/ \E i \in 1 .. Len(a) :
         /\ i <= Len(b) /\ a[i] < b[i]
         /\ \A j \in 1 .. i - 1 : a[j] = b[j]

\* mutant: no length in front of the digits
LengthByteNone(k) == <<>>

\* mutant: digits are ranked before letters
LengthByteLow(k) == <<k>>

\* a run of digits is preceded by its length, above all letters
LengthByte(k) == <<127 + k>>

\* a longer run of digits is cut
MaxRun == 33

\* digits of the run at position i that go behind one length
RunAt(s, i) == LET d == DigitsAt(s, i) IN IF d > MaxRun THEN MaxRun ELSE d

\* the key of what follows each position
Collation(s) ==
    LET rest[i \in 1 .. Len(s) + 1] ==
            IF i > Len(s) THEN <<>>
            ELSE IF ~IsDigit(s[i]) THEN <<s[i]>> \o rest[i + 1]
            ELSE LET k == RunAt(s, i) IN
                 LengthByte(k) \o SubSeq(s, i, i + k - 1) \o rest[i + k]
    IN rest

CollatedVersion(s) == Collation(s)[1]

\* zeros in front of another digit are skipped
ZerosAt(s, i) ==
    LET zs == {z \in 0 .. DigitsAt(s, i) - 1 :
                 \A j \in i .. i + z - 1 : s[j] = 48} IN
    CHOOSE z \in zs : \A y \in zs : y <= z

\* the number at position i
NumberAt(s, i) == SubSeq(s, i + ZerosAt(s, i), i + DigitsAt(s, i) - 1)

\* whether what follows a position of a is before what follows one of b
NaturalOrder(a, b) ==
    LET less[p \in (1 .. Len(a) + 1) \X (1 .. Len(b) + 1)] ==
            LET i == p[1]
                j == p[2]
                x == NumberAt(a, i)
                y == NumberAt(b, j)
            IN IF i > Len(a) THEN j <= Len(b)
               ELSE IF j > Len(b) THEN FALSE
               ELSE IF IsDigit(a[i]) /\ IsDigit(b[j])
               THEN IF Len(x) # Len(y) THEN Len(x) < Len(y)
                    ELSE IF x # y THEN BytesLess(x, y)
                    ELSE less[<<i + DigitsAt(a, i), j + DigitsAt(b, j)>>]
               ELSE IF a[i] = b[j] THEN less[<<i + 1, j + 1>>]
               ELSE IF IsDigit(b[j]) THEN TRUE
               ELSE IF IsDigit(a[i]) THEN FALSE
               ELSE a[i] < b[j]
    IN less

NatsortCompare(a, b) == NaturalOrder(a, b)[<<1, 1>>]

----------------------------------------------------------------------------
(* Resolution.                                                             *)

\* mutant: the seek stops in front of the names it should be behind of
SeekKeyBare(name) == CollatedVersion(name)

\* behind every key that starts with the collated name
SeekKey(name) == Append(CollatedVersion(name), 255)

\* c.Seek(SeekKey(name)) and c.Prev()
Before(d, name) ==
    LET smaller == {m \in p2p[d] : BytesLess(CollatedVersion(m), SeekKey(name))}
    IN IF smaller = {} THEN None
       ELSE CHOOSE m \in smaller : \A q \in smaller \ {m} :
                BytesLess(CollatedVersion(q), CollatedVersion(m))

\* mutant: the package's name is not compared
UnderUnchecked(d, name) == Before(d, name)

\* ... whose name must continue the one looked up with a dot
Under(d, name) ==
    LET m == Before(d, name) IN
    IF IsPrefix(Append(name, Dot), m) THEN m ELSE None

\* lookupPinTx: the active channel's pin for exactly this name
LookupPin(d, name) ==
    {p \in pins : p.db = d /\ channel # "latest" /\ p.channel = channel
                  /\ p.prefix = name}

PinnedName(name, p) == name \o <<Dot>> \o p.version

\* internalLookup: the full name, the pinned version, the latest version
InternalLookup(d, name) ==
    LET pinned == {Under(d, PinnedName(name, p)) : p \in LookupPin(d, name)} \ {None} IN
    IF ~Contains(name, Dot) THEN None
    ELSE IF name \in p2p[d] THEN name
    ELSE IF pinned # {} THEN CHOOSE m \in pinned : TRUE
    ELSE Under(d, name)

Stripped(d, name) == SubSeq(name, 1, Len(name) - Len(Suffix[d]))

\* ParseArch and ParseOS accept the last two parts of the name
Suffixed(name) == \E d \in DBs : IsSuffix(Suffix[d], name)

\* SubGet: the database itself, or its sub-database, of that pair
SubGet(name) == CHOOSE d \in DBs : IsSuffix(Suffix[d], name)

\* Lookup: an OS and architecture suffix names the database; the name is
\* tried with it, then without
Lookup(name) ==
    IF ~Suffixed(name) THEN InternalLookup(Main, name)
    ELSE LET d == SubGet(name) IN
         IF InternalLookup(d, name) # None THEN InternalLookup(d, name)
         ELSE InternalLookup(d, Stripped(d, name))

----------------------------------------------------------------------------
Init ==
    /\ p2p = [d \in DBs |-> {}]
    /\ pins = {}
    /\ channel \in Channels

\* download reads the exports from an address with the database's own OS and
\* architecture; index itself does not compare those of the file
Published(d, f) == f.db = d

\* index: a package of an export
Index(d, f) ==
    /\ Published(d, f)
    /\ f.name \notin p2p[d]
    /\ p2p' = [p2p EXCEPT ![d] = @ \cup {f.name}]
    /\ UNCHANGED <<pins, channel>>

\* index: a pin of an export replaces the one under the same key
IndexPin(p) ==
    /\ p \notin pins
    /\ pins' = {q \in pins : q.db # p.db \/ q.channel # p.channel
                               \/ q.prefix # p.prefix} \cup {p}
    /\ UNCHANGED <<p2p, channel>>

SetChannel(c) ==
    /\ channel # c
    /\ channel' = c
    /\ UNCHANGED <<p2p, pins>>

Next ==
    \/ \E d \in DBs, f \in Files : Index(d, f)
    \/ \E p \in Pins : IndexPin(p)
    \/ \E c \in Channels : SetChannel(c)

Spec == Init /\ [][Next]_vars

----------------------------------------------------------------------------
(* Names the order of keys is made for, which nothing in the code checks.  *)

Ascii(s) == \A i \in 1 .. Len(s) : s[i] \in 0 .. 127

ShortNumbers(s) == \A i \in 1 .. Len(s) : DigitsAt(s, i) <= MaxRun

\* a byte from 128 on would be taken for the length of a run of digits
AsciiNames ==
    /\ \A f \in Files : Ascii(f.name)
    /\ \A d \in DBs : Ascii(Suffix[d])
    /\ \A p \in Pins : Ascii(p.version)

\* no run of digits is cut
ShortNames == \A f \in Files : ShortNumbers(f.name)

\* OS and architecture end a name: no name goes on with a dot behind them
SuffixLast ==
    \A f \in Files, d \in DBs : \A i \in 0 .. Len(f.name) :
        ~IsPrefix(Append(Suffix[d], Dot), SubSeq(f.name, i + 1, Len(f.name)))

----------------------------------------------------------------------------
(* What a lookup should return.                                            *)

\* a database lists only packages of its own OS and architecture
TypeOK ==
    /\ p2p \in [DBs -> SUBSET {f.name : f \in Files}]
    /\ \A d \in DBs : p2p[d] \subseteq {f.name : f \in {g \in Files : g.db = d}}
    /\ pins \subseteq Pins
    /\ channel \in Channels

\* every name a user may type: a full name, or one cut at a dot
Queries ==
    LET Cuts(m) == {SubSeq(m, 1, i - 1) : i \in {j \in 2 .. Len(m) : m[j] = Dot}}
        short(f) == Cuts(Stripped(f.db, f.name)) \cup {Stripped(f.db, f.name)}
    IN UNION {short(f) \cup {f.name} \cup {q \o Suffix[f.db] : q \in short(f)} : f \in Files}

Matches(d, name) == {m \in p2p[d] : IsPrefix(Append(name, Dot), m)}

\* no number is written with a leading zero
Plain(m) == \A i \in 1 .. Len(m) : IsDigit(m[i]) =>
               (i > 1 /\ IsDigit(m[i - 1])) \/ ZerosAt(m, i) = 0

\* the order of versions natSort gives; collated keys rank 02 above 9, so
\* nothing is said of names with leading zeros
IsLatest(m, set) == m \in set /\ \A q \in set \ {m} : NatsortCompare(q, m)

PinnedMatches(d, name) ==
    UNION {Matches(d, PinnedName(name, p)) : p \in LookupPin(d, name)}

\* a listed name that continues this one with something ranked after a dot
Sibling(d, name) ==
    \E m \in p2p[d] : IsStrictPrefix(name, m) /\ m[Len(name) + 1] > Dot

(***************************************************************************)
(* A name never stands for the wrong package: a hit is the package of that *)
(* full name, or in natural order the latest of the pinned versions, or    *)
(* the latest of all versions.                                             *)
(***************************************************************************)
NeverWrongVersion ==
    \A d \in DBs, name \in Queries :
        LET m == InternalLookup(d, name) IN
        \/ \E q \in Matches(d, name) : ~Plain(q)
        \/ m = None
        \/ m = name
        \/ IsLatest(m, PinnedMatches(d, name))
        \/ IsLatest(m, Matches(d, name))

(***************************************************************************)
(* A lookup only misses, or only passes over a pinned version, if another  *)
(* package's name continues the name looked for with a letter, a digit or  *)
(* an underscore.                                                          *)
(***************************************************************************)
FoundUnlessSibling ==
    \A d \in DBs, name \in Queries :
        LET m == InternalLookup(d, name) IN
        /\ Matches(d, name) # {} /\ Contains(name, Dot) /\ ~Sibling(d, name) =>
               m # None
        /\ (/\ PinnedMatches(d, name) # {} /\ name \notin p2p[d]
            /\ Contains(name, Dot) /\ \A q \in Matches(d, name) : Plain(q)
            /\ \A p \in LookupPin(d, name) : ~Sibling(d, PinnedName(name, p))) =>
               IsLatest(m, PinnedMatches(d, name))

(***************************************************************************)
(* Adding the suffix of a database to a short name gives the package the   *)
(* short name has there, and nothing of another database.                  *)
(***************************************************************************)
SuffixSelectsDb ==
    \A d \in DBs, name \in Queries :
        ~Suffixed(name) =>
            Lookup(name \o Suffix[d]) =
                IF name \o Suffix[d] \in p2p[d]
                THEN name \o Suffix[d] ELSE InternalLookup(d, name)

(***************************************************************************)
(* The byte order of collated keys is the natural order natSort gives the  *)
(* web listing, for names without leading zeros.                           *)
(***************************************************************************)
CollationIsNatural ==
    \A d \in DBs : \A a, b \in {m \in p2p[d] : Plain(m)} :
        BytesLess(CollatedVersion(a), CollatedVersion(b)) <=> NatsortCompare(a, b)

(***************************************************************************)
(* Less-specific names resolve to the most recent matching version.        *)
(***************************************************************************)
LatestFound ==
    \A name \in Queries :
        (/\ Contains(name, Dot) /\ channel = "latest" /\ name \notin p2p[Main]
         /\ Matches(Main, name) # {} /\ \A q \in Matches(Main, name) : Plain(q)) =>
            IsLatest(InternalLookup(Main, name), Matches(Main, name))

=============================================================================
