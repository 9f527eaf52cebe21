--------------------------- MODULE Resolve_proofs ---------------------------
(***************************************************************************)
(* Proofs about Resolve, for any databases, packages, pins and channels.   *)
(*                                                                         *)
(* Keys first: their order is a strict total order, a key can be decoded   *)
(* into the name it was made from, and it is ordered as natSort orders     *)
(* the names.  Then the seek: what is in front of it, and what is between  *)
(* it and the names looked for.  Last the specification, whose inductive   *)
(* invariants are short, as all of the work is in the operators.           *)
(*                                                                         *)
(* collatedVersion and natSort are recursive functions over positions.     *)
(* What they compute is shown by induction on the position, which Downward *)
(* derives from the least element of a set of numbers.                     *)
(***************************************************************************)
EXTENDS Resolve, FiniteSetTheorems, SequenceTheorems, WellFoundedInduction, TLAPS

----------------------------------------------------------------------------
(* Numbers, prefixes, and the order of a bucket.                           *)

\* a set of numbers that is not empty has a least one
LEMMA Least ==
    ASSUME NEW T \in SUBSET Nat, T # {}
    PROVE  \E x \in T : \A y \in T : x <= y
<1> DEFINE R == OpToRel(<, Nat)
<1>1. PICK x \in T : \A y \in T : ~(<<y, x>> \in R)
  <2> HIDE DEF R
  <2>1. IsWellFoundedOn(R, Nat)
    BY NatLessThanWellFounded DEF R
  <2> QED BY <2>1, WFMin
<1>2. \A y \in T : ~(y < x)
  BY <1>1 DEF OpToRel
<1> QED BY <1>2

\* induction over the positions of a sequence, from behind its end to its
\* first: the set T stands for what is shown of a position
LEMMA Downward ==
    ASSUME NEW n \in Nat, NEW T,
           \A i \in 1 .. n + 1 : (\A k \in i + 1 .. n + 1 : k \in T) => i \in T
    PROVE  \A i \in 1 .. n + 1 : i \in T
<1> DEFINE Bad == {m \in Nat : \E i \in 1 .. n + 1 : m = n + 1 - i /\ i \notin T}
<1> SUFFICES ASSUME NEW i \in 1 .. n + 1, i \notin T
             PROVE  FALSE
  OBVIOUS
<1>1. n + 1 - i \in Bad
  OBVIOUS
<1>2. PICK m \in Bad : \A y \in Bad : m <= y
  <2>1. Bad \in SUBSET Nat /\ Bad # {}
    BY <1>1
  <2> HIDE DEF Bad
  <2> QED BY <2>1, Least
<1>3. PICK j \in 1 .. n + 1 : m = n + 1 - j /\ j \notin T
  BY <1>2
<1>4. \A k \in j + 1 .. n + 1 : k \in T
  <2> SUFFICES ASSUME NEW k \in j + 1 .. n + 1, k \notin T
               PROVE  FALSE
    OBVIOUS
  <2>1. n + 1 - k \in Bad
    OBVIOUS
  <2> QED BY <2>1, <1>2, <1>3
<1> QED BY <1>3, <1>4

\* a prefix is no longer, and agrees at its positions
LEMMA PrefixAgrees ==
    ASSUME NEW s \in Seq(Nat), NEW t \in Seq(Nat)
    PROVE  IsPrefix(s, t) <=> /\ Len(s) <= Len(t)
                              /\ \A i \in 1 .. Len(s) : s[i] = t[i]
<1> SUFFICES ASSUME Len(s) <= Len(t)
             PROVE  SubSeq(s, 1, Len(s)) = SubSeq(t, 1, Len(s))
                      <=> \A i \in 1 .. Len(s) : s[i] = t[i]
  BY DEF IsPrefix
<1> DEFINE u == SubSeq(s, 1, Len(s))
           v == SubSeq(t, 1, Len(s))
<1>1. /\ u \in Seq(Nat) /\ v \in Seq(Nat)
      /\ Len(u) = Len(s) /\ Len(v) = Len(s)
      /\ \A i \in 1 .. Len(s) : u[i] = s[i] /\ v[i] = t[i]
  <2>1. \A i \in 1 .. Len(s) : s[i] \in Nat /\ t[i] \in Nat
    BY ElementOfSeq, LenProperties
  <2>2. Len(s) \in Nat
    OBVIOUS
  <2> QED BY <2>1, <2>2, SubSeqProperties
<1> HIDE DEF u, v
<1>2. u = v => \A i \in 1 .. Len(s) : s[i] = t[i]
  BY <1>1
<1>3. (\A i \in 1 .. Len(s) : s[i] = t[i]) => u = v
  BY <1>1, SeqEqual
<1> QED BY <1>2, <1>3 DEF u, v

\* the first n - 1 bytes agree, and at n the first ends or has the smaller
\* byte
LessAt(a, b, n) ==
    /\ n \in 1 .. Len(b)
    /\ n <= Len(a) + 1
    /\ \A j \in 1 .. n - 1 : a[j] = b[j]
    /\ n <= Len(a) => a[n] < b[n]

\* bytes.Compare decides at one position
LEMMA BytesLessAt ==
    ASSUME NEW a \in Seq(Nat), NEW b \in Seq(Nat)
    PROVE  BytesLess(a, b) <=> \E n \in Nat : LessAt(a, b, n)
<1> USE LenProperties
<1>1. ASSUME IsStrictPrefix(a, b)
      PROVE  LessAt(a, b, Len(a) + 1)
  <2>1. Len(a) <= Len(b) /\ \A i \in 1 .. Len(a) : a[i] = b[i]
    BY <1>1, PrefixAgrees DEF IsStrictPrefix
  <2>2. Len(a) # Len(b)
    BY <1>1, <2>1, SeqEqual DEF IsStrictPrefix
  <2> QED BY <2>1, <2>2 DEF LessAt
<1>2. ASSUME NEW i \in 1 .. Len(a), i <= Len(b), a[i] < b[i],
             \A j \in 1 .. i - 1 : a[j] = b[j]
      PROVE  LessAt(a, b, i)
  BY <1>2 DEF LessAt
<1>3. ASSUME NEW n \in Nat, LessAt(a, b, n)
      PROVE  BytesLess(a, b)
  <2>1. CASE n <= Len(a)
    BY <1>3, <2>1 DEF LessAt, BytesLess
  <2>2. CASE n = Len(a) + 1
    <3>1. IsPrefix(a, b) /\ Len(a) # Len(b)
      BY <1>3, <2>2, PrefixAgrees DEF LessAt
    <3> QED BY <3>1 DEF BytesLess, IsStrictPrefix
  <2> QED BY <1>3, <2>1, <2>2 DEF LessAt
<1> QED BY <1>1, <1>2, <1>3 DEF BytesLess

\* the order of a bucket is a strict total order (this lemma and the next
\* two)
LEMMA BytesLessIrreflexive ==
    ASSUME NEW a \in Seq(Nat)
    PROVE  ~BytesLess(a, a)
<1>1. \A i \in 1 .. Len(a) : a[i] \in Nat
  BY ElementOfSeq
<1> QED BY <1>1, BytesLessAt DEF LessAt

\* transitivity: the earlier of the two deciding positions decides
LEMMA BytesLessTransitive ==
    ASSUME NEW a \in Seq(Nat), NEW b \in Seq(Nat), NEW c \in Seq(Nat),
           BytesLess(a, b), BytesLess(b, c)
    PROVE  BytesLess(a, c)
<1>1. PICK m \in Nat : LessAt(a, b, m)
  BY BytesLessAt
<1>2. PICK n \in Nat : LessAt(b, c, n)
  BY BytesLessAt
<1>3. /\ Len(a) \in Nat /\ Len(b) \in Nat /\ Len(c) \in Nat
      /\ \A i \in 1 .. Len(a) : a[i] \in Nat
      /\ \A i \in 1 .. Len(b) : b[i] \in Nat
      /\ \A i \in 1 .. Len(c) : c[i] \in Nat
  BY LenProperties, ElementOfSeq
<1>4. /\ m \in 1 .. Len(b) /\ m <= Len(a) + 1
      /\ \A j \in 1 .. m - 1 : a[j] = b[j]
      /\ m <= Len(a) => a[m] < b[m]
  BY <1>1 DEF LessAt
<1>5. /\ n \in 1 .. Len(c) /\ n <= Len(b) + 1
      /\ \A j \in 1 .. n - 1 : b[j] = c[j]
      /\ n <= Len(b) => b[n] < c[n]
  BY <1>2 DEF LessAt
<1>6. CASE m <= n
  <2>1. \A j \in 1 .. m - 1 : a[j] = c[j]
    BY <1>3, <1>4, <1>5, <1>6
  <2>2. m < n => b[m] = c[m]
    BY <1>3, <1>4, <1>5
  <2>3. m <= Len(a) => a[m] < c[m]
    <3> SUFFICES ASSUME m <= Len(a) PROVE a[m] < c[m]
      OBVIOUS
    <3>1. a[m] \in Nat /\ b[m] \in Nat /\ c[m] \in Nat
      BY <1>3, <1>4, <1>5, <1>6
    <3>2. CASE m < n
      BY <1>4, <2>2, <3>2
    <3>3. CASE m = n
      <4>1. a[m] < b[m] /\ b[m] < c[m]
        BY <1>3, <1>4, <1>5, <3>3
      <4> QED BY <3>1, <4>1
    <3> QED BY <1>6, <3>2, <3>3
  <2>4. LessAt(a, c, m)
    BY <1>3, <1>4, <1>5, <1>6, <2>1, <2>3 DEF LessAt
  <2> QED BY <2>4, BytesLessAt
<1>7. CASE n < m
  <2>1. \A j \in 1 .. n - 1 : a[j] = c[j]
    BY <1>3, <1>4, <1>5, <1>7
  <2>2. a[n] = b[n] /\ b[n] < c[n]
    BY <1>3, <1>4, <1>5, <1>7
  <2>3. LessAt(a, c, n)
    BY <1>3, <1>4, <1>5, <1>7, <2>1, <2>2 DEF LessAt
  <2> QED BY <2>3, BytesLessAt
<1> QED BY <1>6, <1>7

\* totality: the least position at which they differ decides
LEMMA BytesLessTotal ==
    ASSUME NEW a \in Seq(Nat), NEW b \in Seq(Nat), a # b
    PROVE  BytesLess(a, b) \/ BytesLess(b, a)
<1> DEFINE D == {i \in Nat : i \in 1 .. Len(a) /\ i \in 1 .. Len(b) /\ a[i] # b[i]}
<1>1. \A i \in 1 .. Len(a) : a[i] \in Nat
  BY LenProperties, ElementOfSeq
<1>2. \A i \in 1 .. Len(b) : b[i] \in Nat
  BY LenProperties, ElementOfSeq
<1>3. Len(a) \in Nat /\ Len(b) \in Nat
  BY LenProperties
<1>4. CASE D = {}
  <2>1. \A i \in 1 .. Len(a) : i <= Len(b) => a[i] = b[i]
    BY <1>4, <1>3, SMTT(30)
  <2>2. Len(a) # Len(b)
    BY <1>3, <2>1, SeqEqual
  <2>3. CASE Len(a) < Len(b)
    <3>1. LessAt(a, b, Len(a) + 1)
      BY <1>3, <2>1, <2>3 DEF LessAt
    <3> QED BY <1>3, <3>1, BytesLessAt
  <2>4. CASE Len(b) < Len(a)
    <3>1. LessAt(b, a, Len(b) + 1)
      BY <1>3, <2>1, <2>4 DEF LessAt
    <3> QED BY <1>3, <3>1, BytesLessAt
  <2> QED BY <1>3, <2>2, <2>3, <2>4
<1>5. CASE D # {}
  <2>1. PICK n \in D : \A y \in D : n <= y
    <3>1. D \in SUBSET Nat
      OBVIOUS
    <3> HIDE DEF D
    <3> QED BY <3>1, <1>5, Least
  <2>2. /\ n \in 1 .. Len(a) /\ n \in 1 .. Len(b) /\ a[n] # b[n]
        /\ \A j \in 1 .. n - 1 : a[j] = b[j]
    BY <2>1, <1>3
  <2>3. CASE a[n] < b[n]
    <3>1. LessAt(a, b, n)
      BY <1>3, <2>2, <2>3 DEF LessAt
    <3> QED BY <2>2, <3>1, BytesLessAt
  <2>4. CASE b[n] < a[n]
    <3>1. LessAt(b, a, n)
      BY <1>3, <2>2, <2>4 DEF LessAt
    <3> QED BY <2>2, <3>1, BytesLessAt
  <2> QED BY <1>1, <1>2, <2>2, <2>3, <2>4
<1> QED BY <1>4, <1>5

\* the bytes of a concatenation
LEMMA ConcatAt ==
    ASSUME NEW p \in Seq(Nat), NEW a \in Seq(Nat)
    PROVE  /\ p \o a \in Seq(Nat)
           /\ Len(p) \in Nat /\ Len(a) \in Nat
           /\ Len(p \o a) = Len(p) + Len(a)
           /\ \A i \in 1 .. Len(p) : (p \o a)[i] = p[i] /\ p[i] \in Nat
           /\ \A i \in 1 .. Len(a) : (p \o a)[Len(p) + i] = a[i] /\ a[i] \in Nat
  OBVIOUS

\* a common prefix does not matter
LEMMA BytesLessCancel ==
    ASSUME NEW p \in Seq(Nat), NEW a \in Seq(Nat), NEW b \in Seq(Nat)
    PROVE  BytesLess(p \o a, p \o b) <=> BytesLess(a, b)
<1> DEFINE pa == p \o a
           pb == p \o b
<1>1. /\ pa \in Seq(Nat) /\ pb \in Seq(Nat)
      /\ Len(p) \in Nat /\ Len(a) \in Nat /\ Len(b) \in Nat
      /\ Len(pa) = Len(p) + Len(a) /\ Len(pb) = Len(p) + Len(b)
      /\ \A i \in 1 .. Len(p) : pa[i] = p[i] /\ pb[i] = p[i] /\ p[i] \in Nat
      /\ \A i \in 1 .. Len(a) : pa[Len(p) + i] = a[i]
      /\ \A i \in 1 .. Len(b) : pb[Len(p) + i] = b[i]
  BY ConcatAt
<1> HIDE DEF pa, pb
<1>2. ASSUME NEW n \in Nat, LessAt(a, b, n)
      PROVE  LessAt(pa, pb, Len(p) + n)
  <2>1. /\ n \in 1 .. Len(b) /\ n <= Len(a) + 1
        /\ \A j \in 1 .. n - 1 : a[j] = b[j]
        /\ n <= Len(a) => a[n] < b[n]
    BY <1>2 DEF LessAt
  <2>2. ASSUME NEW j \in 1 .. Len(p) + n - 1
        PROVE  pa[j] = pb[j]
    <3>1. CASE j <= Len(p)
      BY <1>1, <3>1
    <3>2. CASE j > Len(p)
      <4>1. PICK i \in 1 .. n - 1 : j = Len(p) + i
        <5>1. j - Len(p) \in 1 .. n - 1 /\ j = Len(p) + (j - Len(p))
          BY <1>1, <3>2
        <5> QED BY <5>1
      <4>2. i \in 1 .. Len(a) /\ i \in 1 .. Len(b)
        <5>1. n \in 1 .. Len(b) /\ n <= Len(a) + 1
          BY <2>1
        <5>2. Len(a) \in Nat /\ Len(b) \in Nat
          BY <1>1
        <5> QED BY <5>1, <5>2
      <4>3. pa[j] = a[i] /\ pb[j] = b[i]
        BY <1>1, <4>1, <4>2
      <4> QED BY <2>1, <4>3
    <3> QED BY <1>1, <3>1, <3>2
  <2>3. n <= Len(a) => pa[Len(p) + n] = a[n]
    BY <1>1, <2>1
  <2>4. pb[Len(p) + n] = b[n]
    BY <1>1, <2>1
  <2>5. Len(p) + n <= Len(pa) => pa[Len(p) + n] < pb[Len(p) + n]
    BY <1>1, <2>1, <2>3, <2>4
  <2>6. Len(p) + n \in 1 .. Len(pb) /\ Len(p) + n <= Len(pa) + 1
    BY <1>1, <2>1
  <2> QED BY <2>2, <2>5, <2>6 DEF LessAt
<1>3. ASSUME NEW n \in Nat, LessAt(pa, pb, n)
      PROVE  \E k \in Nat : LessAt(a, b, k)
  <2>1. /\ n \in 1 .. Len(pb) /\ n <= Len(pa) + 1
        /\ \A j \in 1 .. n - 1 : pa[j] = pb[j]
        /\ n <= Len(pa) => pa[n] < pb[n]
    BY <1>3 DEF LessAt
  <2>2. n > Len(p)
    <3> SUFFICES ASSUME n \in 1 .. Len(p)
                 PROVE  FALSE
      BY <1>1, <2>1
    <3>1. pa[n] = p[n] /\ pb[n] = p[n] /\ p[n] \in Nat
      BY <1>1
    <3>2. n <= Len(pa)
      BY <1>1
    <3> QED BY <2>1, <3>1, <3>2
  <2>3. PICK k \in Nat : n = Len(p) + k /\ k >= 1
    <3>1. n - Len(p) \in Nat /\ n = Len(p) + (n - Len(p)) /\ n - Len(p) >= 1
      BY <1>1, <2>2
    <3> QED BY <3>1
  <2>4. k \in 1 .. Len(b) /\ k <= Len(a) + 1
    BY <1>1, <2>1, <2>3
  <2>5. ASSUME NEW j \in 1 .. k - 1
        PROVE  a[j] = b[j]
    <3>1. Len(p) + j \in 1 .. n - 1 /\ j \in 1 .. Len(a) /\ j \in 1 .. Len(b)
      <4>1. Len(p) \in Nat /\ Len(a) \in Nat /\ Len(b) \in Nat
        BY <1>1
      <4> QED BY <2>3, <2>4, <4>1
    <3>2. pa[Len(p) + j] = a[j] /\ pb[Len(p) + j] = b[j]
      BY <1>1, <3>1
    <3> QED BY <2>1, <3>1, <3>2
  <2>6. k <= Len(a) => a[k] < b[k]
    <3>1. k <= Len(a) => pa[Len(p) + k] = a[k]
      BY <1>1, <2>3, <2>4
    <3>2. pb[Len(p) + k] = b[k]
      BY <1>1, <2>3, <2>4
    <3> QED BY <1>1, <2>1, <2>3, <3>1, <3>2
  <2> QED BY <2>4, <2>5, <2>6 DEF LessAt
<1>4. BytesLess(a, b) => BytesLess(pa, pb)
  BY <1>1, <1>2, BytesLessAt
<1>5. BytesLess(pa, pb) => BytesLess(a, b)
  BY <1>1, <1>3, BytesLessAt
<1> QED BY <1>4, <1>5 DEF pa, pb

\* two different blocks of one length decide, whatever follows them
LEMMA BytesLessBlock ==
    ASSUME NEW x \in Seq(Nat), NEW y \in Seq(Nat), Len(x) = Len(y), x # y,
           NEW a \in Seq(Nat), NEW b \in Seq(Nat)
    PROVE  BytesLess(x \o a, y \o b) <=> BytesLess(x, y)
<1>1. ASSUME NEW u \in Seq(Nat), NEW v \in Seq(Nat), Len(u) = Len(v),
             NEW c \in Seq(Nat), NEW d \in Seq(Nat), BytesLess(u, v)
      PROVE  BytesLess(u \o c, v \o d)
  <2>1. PICK n \in Nat : LessAt(u, v, n)
    BY <1>1, BytesLessAt
  <2> DEFINE uc == u \o c
             vd == v \o d
  <2>2. /\ uc \in Seq(Nat) /\ vd \in Seq(Nat)
        /\ Len(u) \in Nat /\ Len(c) \in Nat /\ Len(d) \in Nat
        /\ Len(uc) = Len(u) + Len(c) /\ Len(vd) = Len(u) + Len(d)
        /\ \A j \in 1 .. Len(u) : uc[j] = u[j] /\ vd[j] = v[j]
    BY <1>1, ConcatAt, SMTT(30)
  <2> HIDE DEF uc, vd
  <2>3. /\ n \in 1 .. Len(u)
        /\ \A j \in 1 .. n - 1 : u[j] = v[j]
        /\ u[n] < v[n]
    BY <1>1, <2>1, <2>2 DEF LessAt
  <2>4. ASSUME NEW j \in 1 .. n - 1
        PROVE  uc[j] = vd[j]
    <3>1. n \in 1 .. Len(u) /\ Len(u) \in Nat
      BY <2>2, <2>3
    <3>2. j \in 1 .. Len(u)
      BY <3>1
    <3> QED BY <2>2, <2>3, <3>2
  <2>5. uc[n] < vd[n] /\ n \in 1 .. Len(vd) /\ n <= Len(uc) + 1
    BY <2>2, <2>3
  <2>6. LessAt(uc, vd, n)
    BY <2>4, <2>5 DEF LessAt
  <2> QED BY <2>2, <2>6, BytesLessAt DEF uc, vd
<1>2. x \o a \in Seq(Nat) /\ y \o b \in Seq(Nat)
  BY ConcatProperties
<1>3. CASE BytesLess(x, y)
  BY <1>1, <1>3
<1>4. CASE BytesLess(y, x)
  <2>1. ~BytesLess(x, y)
    BY <1>4, BytesLessTransitive, BytesLessIrreflexive
  <2>2. BytesLess(y \o b, x \o a)
    BY <1>1, <1>4
  <2>3. ~BytesLess(x \o a, y \o b)
    BY <1>2, <2>2, BytesLessTransitive, BytesLessIrreflexive
  <2> QED BY <2>1, <2>3
<1> QED BY <1>3, <1>4, BytesLessTotal
----------------------------------------------------------------------------
(* Keys: what collatedVersion computes.                                    *)

\* DigitsAt is the length of a run of digits that cannot be continued
LEMMA DigitsRun ==
    ASSUME NEW s \in Seq(Nat), NEW i \in 1 .. Len(s) + 1
    PROVE  /\ DigitsAt(s, i) \in Nat
           /\ i + DigitsAt(s, i) <= Len(s) + 1
           /\ \A j \in i .. i + DigitsAt(s, i) - 1 : IsDigit(s[j])
           /\ i + DigitsAt(s, i) <= Len(s) => ~IsDigit(s[i + DigitsAt(s, i)])
<1> DEFINE ends == {j \in i .. Len(s) + 1 : j > Len(s) \/ ~IsDigit(s[j])}
           e == CHOOSE j \in ends : \A k \in ends : j <= k
<1>1. Len(s) \in Nat
  OBVIOUS
<1>2. e \in ends /\ \A k \in ends : e <= k
  <2>1. Len(s) + 1 \in ends
    BY <1>1
  <2>2. ends \in SUBSET Nat
    BY <1>1
  <2> HIDE DEF ends
  <2>3. \E x \in ends : \A y \in ends : x <= y
    BY <2>1, <2>2, Least
  <2> QED BY <2>3
<1>3. DigitsAt(s, i) = e - i
  BY DEF DigitsAt
<1> HIDE DEF e
<1>4. /\ e \in i .. Len(s) + 1
      /\ e > Len(s) \/ ~IsDigit(s[e])
      /\ \A k \in i .. Len(s) + 1 : k < e => k <= Len(s) /\ IsDigit(s[k])
  <2>1. e \in i .. Len(s) + 1 /\ (e > Len(s) \/ ~IsDigit(s[e]))
    BY <1>2
  <2>2. ASSUME NEW k \in i .. Len(s) + 1, k < e
        PROVE  k <= Len(s) /\ IsDigit(s[k])
    <3>1. k \notin ends
      BY <1>1, <1>2, <2>1, <2>2
    <3> QED BY <1>1, <3>1
  <2> QED BY <2>1, <2>2
<1>5. DigitsAt(s, i) \in Nat /\ i + DigitsAt(s, i) = e /\ e <= Len(s) + 1
  BY <1>1, <1>3, <1>4
<1>6. ASSUME NEW j \in i .. e - 1
      PROVE  IsDigit(s[j])
  <2>1. j \in i .. Len(s) + 1 /\ j < e
    BY <1>1, <1>5
  <2> QED BY <1>4, <2>1
<1>7. \A j \in i .. i + DigitsAt(s, i) - 1 : IsDigit(s[j])
  BY <1>5, <1>6
<1>8. e <= Len(s) => ~IsDigit(s[e])
  BY <1>1, <1>4
<1> QED BY <1>5, <1>7, <1>8

\* ... and there is only one such length
LEMMA DigitsUnique ==
    ASSUME NEW s \in Seq(Nat), NEW i \in 1 .. Len(s) + 1, NEW d \in Nat,
           i + d <= Len(s) + 1,
           \A j \in i .. i + d - 1 : IsDigit(s[j]),
           i + d <= Len(s) => ~IsDigit(s[i + d])
    PROVE  DigitsAt(s, i) = d
<1> DEFINE n == DigitsAt(s, i)
<1>1. /\ n \in Nat /\ i + n <= Len(s) + 1
      /\ \A j \in i .. i + n - 1 : IsDigit(s[j])
      /\ i + n <= Len(s) => ~IsDigit(s[i + n])
  BY DigitsRun
<1>2. Len(s) \in Nat
  OBVIOUS
<1> HIDE DEF n
<1>3. ~(n < d)
  <2> SUFFICES ASSUME n < d
               PROVE  FALSE
    OBVIOUS
  <2>1. i + n \in i .. i + d - 1 /\ i + n <= Len(s)
    BY <1>1, <1>2
  <2> QED BY <1>1, <2>1
<1>4. ~(d < n)
  <2> SUFFICES ASSUME d < n
               PROVE  FALSE
    OBVIOUS
  <2>1. i + d \in i .. i + n - 1 /\ i + d <= Len(s)
    BY <1>1, <1>2
  <2> QED BY <1>1, <2>1
<1>5. n = d
  BY <1>1, <1>3, <1>4
<1> QED BY <1>5 DEF n

\* bytes of a name that one step of collatedVersion's loop consumes
Width(s, i) == IF IsDigit(s[i]) THEN RunAt(s, i) ELSE 1

\* ... and the bytes of the key it appends
Token(s, i) ==
    IF IsDigit(s[i])
    THEN LengthByte(RunAt(s, i)) \o SubSeq(s, i, i + RunAt(s, i) - 1)
    ELSE <<s[i]>>

\* the run behind one length is inside the name, and all digits
LEMMA RunFits ==
    ASSUME NEW s \in Seq(Nat), NEW i \in 1 .. Len(s), IsDigit(s[i])
    PROVE  /\ RunAt(s, i) \in Nat /\ RunAt(s, i) >= 1 /\ RunAt(s, i) \in 1 .. MaxRun
           /\ i + RunAt(s, i) <= Len(s) + 1
           /\ \A j \in i .. i + RunAt(s, i) - 1 : IsDigit(s[j])
<1> DEFINE d == DigitsAt(s, i)
           r == RunAt(s, i)
<1>1. Len(s) \in Nat /\ i \in 1 .. Len(s) + 1
  OBVIOUS
<1>2. /\ d \in Nat /\ i + d <= Len(s) + 1
      /\ \A j \in i .. i + d - 1 : IsDigit(s[j])
      /\ i + d <= Len(s) => ~IsDigit(s[i + d])
  BY <1>1, DigitsRun
<1>3. r = IF d > MaxRun THEN MaxRun ELSE d
  BY DEF RunAt
<1> HIDE DEF d, r
<1>4. d # 0
  BY <1>1, <1>2
<1>5. r \in 1 .. MaxRun /\ r <= d
  BY <1>2, <1>3, <1>4 DEF MaxRun
<1>6. i + r <= Len(s) + 1
  BY <1>1, <1>2, <1>5 DEF MaxRun
<1>7. ASSUME NEW j \in i .. i + r - 1
      PROVE  IsDigit(s[j])
  <2>1. j \in i .. i + d - 1
    BY <1>2, <1>5 DEF MaxRun
  <2> QED BY <1>2, <2>1
<1>8. r \in Nat /\ r >= 1
  BY <1>5 DEF MaxRun
<1> QED BY <1>5, <1>6, <1>7, <1>8 DEF r

\* a step consumes something, stays inside the name, and what it appends
\* starts with the byte itself, or the length of the run
LEMMA TokenFits ==
    ASSUME NEW s \in Seq(Nat), NEW i \in 1 .. Len(s)
    PROVE  /\ Width(s, i) \in Nat /\ Width(s, i) >= 1
           /\ i + Width(s, i) \in i + 1 .. Len(s) + 1
           /\ Token(s, i) \in Seq(Nat)
           /\ Len(Token(s, i)) >= 1
           /\ ~IsDigit(s[i]) => Token(s, i)[1] = s[i]
           /\ IsDigit(s[i]) => /\ Token(s, i)[1] = 127 + RunAt(s, i)
                               /\ Len(Token(s, i)) = 1 + RunAt(s, i)
                               /\ \A j \in 1 .. RunAt(s, i) :
                                     Token(s, i)[1 + j] = s[i + j - 1]
<1>1. Len(s) \in Nat /\ s[i] \in Nat
  OBVIOUS
<1>2. CASE ~IsDigit(s[i])
  BY <1>1, <1>2 DEF Width, Token
<1>3. CASE IsDigit(s[i])
  <2> DEFINE r == RunAt(s, i)
             t == SubSeq(s, i, i + r - 1)
  <2>1. r \in 1 .. MaxRun /\ i + r <= Len(s) + 1
    BY <1>3, RunFits
  <2>2. Width(s, i) = r /\ Token(s, i) = <<127 + r>> \o t
    BY <1>3 DEF Width, Token, LengthByte
  <2> HIDE DEF r
  <2>3. r \in Nat /\ r >= 1 /\ i + r \in i + 1 .. Len(s) + 1
    BY <1>1, <2>1 DEF MaxRun
  <2>4. t \in Seq(Nat) /\ Len(t) = r /\ \A j \in 1 .. r : t[j] = s[i + j - 1]
    BY <1>1, <2>3
  <2> HIDE DEF t
  <2>5. /\ <<127 + r>> \o t \in Seq(Nat)
        /\ Len(<<127 + r>> \o t) = 1 + r
        /\ (<<127 + r>> \o t)[1] = 127 + r
    BY <2>3, <2>4
  <2>6. ASSUME NEW j \in 1 .. r
        PROVE  (<<127 + r>> \o t)[1 + j] = s[i + j - 1]
    <3> DEFINE q == <<127 + r>>
    <3>1. q \in Seq(Nat) /\ Len(q) = 1
      BY <2>3
    <3> HIDE DEF q
    <3>2. (q \o t)[Len(q) + j] = t[j]
      BY <2>4, <3>1, ConcatAt
    <3> QED BY <2>4, <3>1, <3>2 DEF q
  <2> QED BY <1>3, <2>2, <2>3, <2>5, <2>6 DEF r
<1> QED BY <1>2, <1>3

\* the loop of collatedVersion computes something from every position: there
\* is a function that satisfies its equation
LEMMA CollationExists ==
    ASSUME NEW s \in Seq(Nat)
    PROVE  \E f \in [1 .. Len(s) + 1 -> Seq(Nat)] :
              \A j \in 1 .. Len(s) + 1 :
                 f[j] = IF j > Len(s) THEN <<>> ELSE Token(s, j) \o f[j + Width(s, j)]
<1> DEFINE n == Len(s)
           Good(i) == \E f \in [i .. n + 1 -> Seq(Nat)] :
                         \A j \in i .. n + 1 :
                            f[j] = IF j > n THEN <<>>
                                   ELSE Token(s, j) \o f[j + Width(s, j)]
           T == {i \in 1 .. n + 1 : Good(i)}
<1>1. n \in Nat
  OBVIOUS
<1>2. ASSUME NEW i \in 1 .. n + 1, \A k \in i + 1 .. n + 1 : k \in T
      PROVE  i \in T
  <2>1. CASE i = n + 1
    <3> DEFINE g == [j \in i .. n + 1 |-> <<>>]
    <3>1. g \in [i .. n + 1 -> Seq(Nat)] /\ \A j \in i .. n + 1 : j > n /\ g[j] = <<>>
      BY <1>1, <2>1
    <3> HIDE DEF g
    <3>2. Good(i)
      BY <3>1
    <3> QED BY <3>2
  <2>2. CASE i # n + 1
    <3>1. i \in 1 .. n /\ i + 1 \in i + 1 .. n + 1
      BY <1>1, <2>2
    <3>2. Good(i + 1)
      BY <1>2, <3>1
    <3>3. PICK f \in [i + 1 .. n + 1 -> Seq(Nat)] :
             \A j \in i + 1 .. n + 1 :
                f[j] = IF j > n THEN <<>> ELSE Token(s, j) \o f[j + Width(s, j)]
      BY <3>2
    <3> DEFINE v == Token(s, i) \o f[i + Width(s, i)]
               g == [j \in i .. n + 1 |-> IF j = i THEN v ELSE f[j]]
    <3>4. v \in Seq(Nat)
      <4>1. i + Width(s, i) \in i + 1 .. n + 1 /\ Token(s, i) \in Seq(Nat)
        BY <3>1, TokenFits
      <4>2. f[i + Width(s, i)] \in Seq(Nat)
        BY <4>1
      <4> QED BY <4>1, <4>2
    <3>5. g \in [i .. n + 1 -> Seq(Nat)]
      <4> HIDE DEF v
      <4>1. \A j \in i .. n + 1 : j # i => j \in i + 1 .. n + 1
        BY <1>1
      <4> QED BY <3>4, <4>1
    <3>6. ASSUME NEW j \in i .. n + 1
          PROVE  g[j] = IF j > n THEN <<>> ELSE Token(s, j) \o g[j + Width(s, j)]
      <4>1. CASE j = i
        <5>1. i + Width(s, i) \in i + 1 .. n + 1
          BY <3>1, TokenFits
        <5>2. g[i + Width(s, i)] = f[i + Width(s, i)]
          BY <1>1, <3>1, <5>1
        <5>3. g[i] = v /\ ~(i > n)
          <6> HIDE DEF v
          <6>1. i \in i .. n + 1 /\ ~(i > n)
            BY <1>1, <3>1
          <6> QED BY <6>1
        <5> QED BY <4>1, <5>2, <5>3
      <4>2. CASE j # i /\ j > n
        <5>1. j \in i + 1 .. n + 1
          BY <1>1, <4>2
        <5>2. g[j] = f[j]
          BY <4>2
        <5> QED BY <3>3, <4>2, <5>1, <5>2
      <4>3. CASE j # i /\ ~(j > n)
        <5>1. j \in i + 1 .. n + 1 /\ j \in 1 .. n
          BY <1>1, <4>3
        <5>2. j + Width(s, j) \in j + 1 .. n + 1
          BY <5>1, TokenFits
        <5>3. j + Width(s, j) \in i .. n + 1 /\ j + Width(s, j) # i
          BY <1>1, <5>1, <5>2
        <5>4. g[j] = f[j] /\ g[j + Width(s, j)] = f[j + Width(s, j)]
          BY <4>3, <5>3
        <5>5. f[j] = Token(s, j) \o f[j + Width(s, j)]
          BY <3>3, <4>3, <5>1
        <5> QED BY <4>3, <5>4, <5>5
      <4> QED BY <4>1, <4>2, <4>3
    <3> HIDE DEF g
    <3>7. Good(i)
      BY <3>5, <3>6
    <3> QED BY <3>7
  <2> QED BY <2>1, <2>2
<1>3. 1 \in T
  <2> HIDE DEF T
  <2>1. \A i \in 1 .. n + 1 : i \in T
    BY <1>1, <1>2, Downward
  <2> QED BY <1>1, <2>1
<1> QED BY <1>3

\* the equation of the loop: the key of the rest of a name is one token, and
\* the key of what is behind it
LEMMA CollationStep ==
    ASSUME NEW s \in Seq(Nat)
    PROVE  /\ Collation(s) \in [1 .. Len(s) + 1 -> Seq(Nat)]
           /\ Collation(s)[Len(s) + 1] = <<>>
           /\ \A i \in 1 .. Len(s) :
                 Collation(s)[i] = Token(s, i) \o Collation(s)[i + Width(s, i)]
<1> DEFINE Body(f, i) == IF i > Len(s) THEN <<>>
                         ELSE IF ~IsDigit(s[i]) THEN <<s[i]>> \o f[i + 1]
                         ELSE LengthByte(RunAt(s, i)) \o SubSeq(s, i, i + RunAt(s, i) - 1)
                                  \o f[i + RunAt(s, i)]
           Step(f, i) == IF i > Len(s) THEN <<>> ELSE Token(s, i) \o f[i + Width(s, i)]
<1>1. \A f, i : Step(f, i) = Body(f, i)
  BY DEF Token, Width
<1>2. PICK f \in [1 .. Len(s) + 1 -> Seq(Nat)] :
         \A j \in 1 .. Len(s) + 1 : f[j] = Step(f, j)
  BY CollationExists
<1>3. f = [i \in 1 .. Len(s) + 1 |-> Body(f, i)]
  <2>1. \A j \in 1 .. Len(s) + 1 : f[j] = Body(f, j)
    BY <1>1, <1>2
  <2> HIDE DEF Body
  <2> QED BY <2>1
<1>4. Collation(s) = [i \in 1 .. Len(s) + 1 |-> Body(Collation(s), i)]
  BY <1>3, Zenon DEF Collation
<1> DEFINE c == Collation(s)
<1> HIDE DEF Body
<1>5. \A i \in 1 .. Len(s) + 1 : c[i] = Step(c, i)
  BY <1>1, <1>4
<1> HIDE DEF c
<1>6. Len(s) \in Nat
  OBVIOUS
<1>7. c[Len(s) + 1] = <<>>
  <2>1. Len(s) + 1 \in 1 .. Len(s) + 1 /\ Len(s) + 1 > Len(s)
    BY <1>6
  <2>2. c[Len(s) + 1] = Step(c, Len(s) + 1)
    BY <1>5, <2>1
  <2> QED BY <2>1, <2>2
<1>8. ASSUME NEW i \in 1 .. Len(s)
      PROVE  c[i] = Token(s, i) \o c[i + Width(s, i)]
  <2>1. i \in 1 .. Len(s) + 1 /\ ~(i > Len(s))
    BY <1>6
  <2> QED BY <1>5, <2>1
<1> DEFINE T == {i \in 1 .. Len(s) + 1 : c[i] \in Seq(Nat)}
<1>9. ASSUME NEW i \in 1 .. Len(s) + 1, \A k \in i + 1 .. Len(s) + 1 : k \in T
      PROVE  i \in T
  <2>1. CASE i = Len(s) + 1
    <3>1. <<>> \in Seq(Nat) /\ c[i] = <<>>
      BY <1>7, <2>1
    <3> QED BY <3>1
  <2>2. CASE i # Len(s) + 1
    <3>1. i \in 1 .. Len(s)
      BY <1>6, <2>2
    <3>2. i + Width(s, i) \in i + 1 .. Len(s) + 1 /\ Token(s, i) \in Seq(Nat)
      BY <3>1, TokenFits
    <3>3. c[i + Width(s, i)] \in Seq(Nat)
      BY <1>9, <3>2
    <3>4. c[i] \in Seq(Nat)
      <4>1. Token(s, i) \o c[i + Width(s, i)] \in Seq(Nat)
        BY <3>2, <3>3, ConcatAt
      <4>2. c[i] = Token(s, i) \o c[i + Width(s, i)]
        BY <1>8, <3>1
      <4> QED BY <4>1, <4>2
    <3> QED BY <3>4
  <2> QED BY <2>1, <2>2
<1>10. \A i \in 1 .. Len(s) + 1 : c[i] \in Seq(Nat)
  <2>1. \A i \in 1 .. Len(s) + 1 : i \in T
    <3> HIDE DEF T
    <3> QED BY <1>6, <1>9, Downward
  <2> QED BY <2>1
<1>11. c \in [1 .. Len(s) + 1 -> Seq(Nat)]
  <2>1. c = [i \in 1 .. Len(s) + 1 |-> Body(c, i)]
    BY <1>4 DEF c
  <2>2. c = [i \in 1 .. Len(s) + 1 |-> c[i]]
    BY <2>1
  <2> QED BY <1>10, <2>2
<1> QED BY <1>7, <1>8, <1>11 DEF c

\* only the empty rest has the empty key
LEMMA CollationEnd ==
    ASSUME NEW s \in Seq(Nat), NEW i \in 1 .. Len(s) + 1
    PROVE  Collation(s)[i] = <<>> <=> i = Len(s) + 1
<1> DEFINE c == Collation(s)
<1>1. Len(s) \in Nat
  OBVIOUS
<1>2. CASE i = Len(s) + 1
  BY <1>2, CollationStep
<1>3. CASE i # Len(s) + 1
  <2>1. i \in 1 .. Len(s)
    BY <1>1, <1>3
  <2>2. /\ Token(s, i) \in Seq(Nat) /\ Len(Token(s, i)) >= 1
        /\ i + Width(s, i) \in i + 1 .. Len(s) + 1
    BY <2>1, TokenFits
  <2>3. i + Width(s, i) \in 1 .. Len(s) + 1
    BY <1>1, <2>1, <2>2
  <2>4. c[i + Width(s, i)] \in Seq(Nat)
    BY <2>3, CollationStep
  <2>5. c[i] = Token(s, i) \o c[i + Width(s, i)]
    BY <2>1, CollationStep
  <2> HIDE DEF c
  <2>6. Len(c[i]) = Len(Token(s, i)) + Len(c[i + Width(s, i)])
    BY <2>2, <2>4, <2>5
  <2>7. Len(c[i]) # 0
    BY <2>2, <2>4, <2>6
  <2>8. c[i] # <<>>
    BY <2>7
  <2> QED BY <1>3, <2>8 DEF c
<1> QED BY <1>2, <1>3
----------------------------------------------------------------------------
(* Keys can be decoded.                                                    *)

\* the bytes of an ASCII name
LEMMA AsciiNat ==
    ASSUME NEW s \in Seq(Nat), Ascii(s)
    PROVE  /\ s \in Seq(Nat) /\ Len(s) \in Nat
           /\ \A i \in 1 .. Len(s) : s[i] \in 0 .. 127 /\ s[i] \in Nat
  BY DEF Ascii

\* sequences with a common prefix and the same whole have the same rest
LEMMA ConcatCancel ==
    ASSUME NEW p \in Seq(Nat), NEW a \in Seq(Nat), NEW b \in Seq(Nat),
           p \o a = p \o b
    PROVE  a = b
  BY ConcatSimplifications

\* concatenation is associative
LEMMA ConcatAssoc ==
    ASSUME NEW p \in Seq(Nat), NEW a \in Seq(Nat), NEW b \in Seq(Nat)
    PROVE  (p \o a) \o b = p \o (a \o b)
  BY ConcatAssociative, SMTT(30)

\* no length of a run is an ASCII byte, and lengths can be told apart
LEMMA LengthByteAbove ==
    /\ \A x \in 0 .. 127, k \in 1 .. 33 : x # 127 + k
    /\ \A h, k \in 1 .. 33 : 127 + h = 127 + k => h = k
  OBVIOUS

\* z is p and then x
Splits(z, p, x) == z = p \o x

\* what starts with a token of s and with one of t starts with the same: a
\* byte from 128 on can only be a length, and says how many digits follow
LEMMA TokenEqual ==
    ASSUME NEW s \in Seq(Nat), NEW t \in Seq(Nat), Ascii(s), Ascii(t),
           NEW i \in 1 .. Len(s), i <= Len(t),
           NEW x \in Seq(Nat), NEW y \in Seq(Nat), NEW z,
           Splits(z, Token(s, i), x), Splits(z, Token(t, i), y)
    PROVE  /\ Width(s, i) = Width(t, i) /\ x = y
           /\ \A j \in i .. i + Width(s, i) - 1 : s[j] = t[j]
<1>1. /\ s \in Seq(Nat) /\ t \in Seq(Nat) /\ Len(s) \in Nat /\ Len(t) \in Nat
      /\ i \in 1 .. Len(t)
      /\ s[i] \in 0 .. 127 /\ t[i] \in 0 .. 127
  BY AsciiNat
<1> DEFINE u == Token(s, i)
           v == Token(t, i)
<1>2. u \in Seq(Nat) /\ v \in Seq(Nat) /\ Len(u) >= 1 /\ Len(v) >= 1
  BY <1>1, TokenFits
<1>3. /\ ~IsDigit(s[i]) => u[1] = s[i] /\ u = <<s[i]>> /\ Width(s, i) = 1
      /\ IsDigit(s[i]) => /\ u[1] = 127 + RunAt(s, i)
                          /\ Len(u) = 1 + RunAt(s, i) /\ Width(s, i) = RunAt(s, i)
                          /\ RunAt(s, i) \in 1 .. 33
                          /\ \A j \in 1 .. RunAt(s, i) : u[1 + j] = s[i + j - 1]
  BY <1>1, TokenFits, RunFits DEF Token, Width, MaxRun
<1>4. /\ ~IsDigit(t[i]) => v[1] = t[i] /\ v = <<t[i]>> /\ Width(t, i) = 1
      /\ IsDigit(t[i]) => /\ v[1] = 127 + RunAt(t, i)
                          /\ Len(v) = 1 + RunAt(t, i) /\ Width(t, i) = RunAt(t, i)
                          /\ RunAt(t, i) \in 1 .. 33
                          /\ \A j \in 1 .. RunAt(t, i) : v[1 + j] = t[i + j - 1]
  BY <1>1, TokenFits, RunFits DEF Token, Width, MaxRun
<1> HIDE DEF u, v
<1>5. u \o x = v \o y
  BY DEF u, v, Splits
<1>6. u[1] = v[1]
  <2>1. (u \o x)[1] = u[1] /\ (v \o y)[1] = v[1]
    BY <1>2
  <2> QED BY <1>5, <2>1
<1>7. CASE ~IsDigit(s[i])
  <2>1. ~IsDigit(t[i])
    <3> SUFFICES ASSUME IsDigit(t[i])
                 PROVE  FALSE
      OBVIOUS
    <3>1. u[1] = s[i] /\ s[i] \in 0 .. 127
      BY <1>1, <1>3, <1>7
    <3>2. v[1] = 127 + RunAt(t, i) /\ RunAt(t, i) \in 1 .. 33
      BY <1>4
    <3> QED BY <1>6, <3>1, <3>2, LengthByteAbove, ZenonT(40)
  <2>2. u = v /\ s[i] = t[i] /\ Width(s, i) = 1 /\ Width(t, i) = 1
    BY <1>3, <1>4, <1>6, <1>7, <2>1
  <2>3. x = y
    BY <1>2, <1>5, <2>2, ConcatCancel
  <2>4. \A j \in i .. i + Width(s, i) - 1 : s[j] = t[j]
    BY <1>1, <2>2
  <2> QED BY <2>2, <2>3, <2>4
<1>8. CASE IsDigit(s[i])
  <2> DEFINE k == RunAt(s, i)
  <2>1. u[1] = 127 + k /\ k \in 1 .. 33
    BY <1>3, <1>8
  <2>2. IsDigit(t[i])
    <3> SUFFICES ASSUME ~IsDigit(t[i])
                 PROVE  FALSE
      OBVIOUS
    <3>1. v[1] = t[i] /\ t[i] \in 0 .. 127
      BY <1>1, <1>4
    <3>2. t[i] = 127 + k
      BY <1>6, <2>1, <3>1
    <3> QED BY <2>1, <3>1, <3>2, LengthByteAbove, ZenonT(40)
  <2>3. RunAt(t, i) = k /\ k \in 1 .. 33
    <3>1. v[1] = 127 + RunAt(t, i) /\ RunAt(t, i) \in 1 .. 33
      BY <1>4, <2>2
    <3> QED BY <1>6, <2>1, <3>1, LengthByteAbove, Zenon
  <2> HIDE DEF k
  <2>4. Len(u) = 1 + k /\ Len(v) = 1 + k
    BY <1>3, <1>4, <1>8, <2>2, <2>3 DEF k
  <2>5. \A j \in 1 .. 1 + k : u[j] = v[j]
    <3>1. \A j \in 1 .. 1 + k : (u \o x)[j] = u[j] /\ (v \o y)[j] = v[j]
      BY <1>2, <2>3, <2>4, SMTT(30)
    <3> QED BY <1>5, <3>1
  <2>6. u = v
    BY <1>2, <2>4, <2>5, SeqEqual
  <2>7. x = y
    BY <1>2, <1>5, <2>6, ConcatCancel
  <2>8. Width(s, i) = k /\ Width(t, i) = k
    BY <1>3, <1>4, <1>8, <2>2, <2>3 DEF k
  <2>9. ASSUME NEW j \in i .. i + k - 1
        PROVE  s[j] = t[j]
    <3> DEFINE h == j - i + 1
    <3>1. h \in 1 .. k /\ i + h - 1 = j
      BY <2>3
    <3> HIDE DEF h
    <3>2. u[1 + h] = s[i + h - 1]
      BY <1>3, <1>8, <3>1 DEF k
    <3>3. v[1 + h] = t[i + h - 1]
      BY <1>4, <2>2, <2>3, <3>1
    <3> QED BY <2>6, <3>1, <3>2, <3>3
  <2> QED BY <2>7, <2>8, <2>9
<1> QED BY <1>7, <1>8

\* a key of t that starts with the token of s at a position was built from
\* the same bytes
LEMMA DecodeStep ==
    ASSUME NEW s \in Seq(Nat), NEW t \in Seq(Nat), Ascii(s), Ascii(t),
           NEW i \in 1 .. Len(s), i <= Len(t),
           NEW x \in Seq(Nat), Splits(Collation(t)[i], Token(s, i), x)
    PROVE  /\ Width(s, i) = Width(t, i)
           /\ x = Collation(t)[i + Width(s, i)]
           /\ i + Width(s, i) <= Len(t) + 1
           /\ \A j \in i .. i + Width(s, i) - 1 : s[j] = t[j]
<1> DEFINE y == Collation(t)[i + Width(t, i)]
<1>1. /\ s \in Seq(Nat) /\ t \in Seq(Nat) /\ Len(s) \in Nat /\ Len(t) \in Nat
      /\ i \in 1 .. Len(t)
  BY AsciiNat
<1>2. i + Width(t, i) \in i + 1 .. Len(t) + 1
  BY <1>1, TokenFits
<1>3. i + Width(t, i) \in 1 .. Len(t) + 1 /\ i + Width(t, i) <= Len(t) + 1
  BY <1>1, <1>2
<1>4. y \in Seq(Nat) /\ Collation(t)[i] = Token(t, i) \o y
  BY <1>1, <1>3, CollationStep
<1> HIDE DEF y
<1>5. Splits(Collation(t)[i], Token(s, i), x) /\ Splits(Collation(t)[i], Token(t, i), y)
  BY <1>4 DEF Splits
<1>6. /\ Width(s, i) = Width(t, i) /\ x = y
      /\ \A j \in i .. i + Width(s, i) - 1 : s[j] = t[j]
  BY <1>4, <1>5, TokenEqual
<1> QED BY <1>3, <1>6 DEF y

\* a key that starts with the key of s is the key of a name that starts with
\* s, and goes on with the key of the rest of that name
LEMMA Decode ==
    ASSUME NEW s \in Seq(Nat), NEW t \in Seq(Nat), Ascii(s), Ascii(t), NEW r \in Seq(Nat),
           Collation(t)[1] = Collation(s)[1] \o r
    PROVE  /\ Len(s) <= Len(t) /\ \A j \in 1 .. Len(s) : s[j] = t[j]
           /\ r = Collation(t)[Len(s) + 1]
<1> DEFINE c == Collation(s)
           e == Collation(t)
           Same(i) == /\ Len(s) <= Len(t) /\ \A j \in i .. Len(s) : s[j] = t[j]
                      /\ r = e[Len(s) + 1]
           T == {i \in 1 .. Len(s) + 1 : i <= Len(t) + 1 /\ e[i] = c[i] \o r => Same(i)}
<1>1. s \in Seq(Nat) /\ t \in Seq(Nat) /\ Len(s) \in Nat /\ Len(t) \in Nat
  BY AsciiNat
<1>2. /\ c \in [1 .. Len(s) + 1 -> Seq(Nat)] /\ c[Len(s) + 1] = <<>>
      /\ \A i \in 1 .. Len(s) : c[i] = Token(s, i) \o c[i + Width(s, i)]
  BY <1>1, CollationStep
<1>3. /\ e \in [1 .. Len(t) + 1 -> Seq(Nat)] /\ e[Len(t) + 1] = <<>>
      /\ \A i \in 1 .. Len(t) : e[i] = Token(t, i) \o e[i + Width(t, i)]
  BY <1>1, CollationStep
<1> HIDE DEF c, e
<1>4. ASSUME NEW i \in 1 .. Len(s) + 1, \A k \in i + 1 .. Len(s) + 1 : k \in T,
             i <= Len(t) + 1, e[i] = c[i] \o r
      PROVE  Same(i)
  <2>1. CASE i = Len(s) + 1
    <3>1. e[i] = r
      BY <1>2, <1>4, <2>1
    <3>2. Len(s) <= Len(t)
      BY <1>1, <1>4, <2>1
    <3>3. \A j \in i .. Len(s) : s[j] = t[j]
      BY <1>1, <2>1
    <3> QED BY <2>1, <3>1, <3>2, <3>3
  <2>2. CASE i # Len(s) + 1
    <3> DEFINE w == Width(s, i)
    <3>1. i \in 1 .. Len(s)
      BY <1>1, <2>2
    <3>2. /\ Token(s, i) \in Seq(Nat) /\ Len(Token(s, i)) >= 1 /\ w \in Nat /\ w >= 1
          /\ i + w \in i + 1 .. Len(s) + 1
      BY <1>1, <3>1, TokenFits
    <3> HIDE DEF w
    <3>3. i + w \in 1 .. Len(s) + 1
      BY <1>1, <3>1, <3>2
    <3> DEFINE x == c[i + w] \o r
    <3>4. c[i + w] \in Seq(Nat) /\ x \in Seq(Nat)
      <4>1. c[i + w] \in Seq(Nat)
        BY <1>2, <3>3
      <4> QED BY <4>1, ConcatAt
    <3>5. e[i] = Token(s, i) \o x /\ Splits(e[i], Token(s, i), x)
      <4>1. c[i] = Token(s, i) \o c[i + w]
        BY <1>2, <3>1 DEF w
      <4>2. (Token(s, i) \o c[i + w]) \o r = Token(s, i) \o (c[i + w] \o r)
        BY <3>2, <3>4, ConcatAssoc
      <4> QED BY <1>4, <4>1, <4>2 DEF Splits
    <3> HIDE DEF x
    <3>6. i <= Len(t)
      <4> SUFFICES ASSUME i = Len(t) + 1
                   PROVE  FALSE
        BY <1>1, <1>4
      <4>1. Len(Token(s, i) \o x) >= 1
        BY <3>2, <3>4
      <4> QED BY <1>3, <3>5, <4>1
    <3>7. /\ w = Width(t, i) /\ x = e[i + w] /\ i + w <= Len(t) + 1
          /\ \A j \in i .. i + w - 1 : s[j] = t[j]
      <4>1. Splits(Collation(t)[i], Token(s, i), x)
        BY <3>5 DEF e
      <4>2. /\ Width(s, i) = Width(t, i)
            /\ x = Collation(t)[i + Width(s, i)]
            /\ i + Width(s, i) <= Len(t) + 1
            /\ \A j \in i .. i + Width(s, i) - 1 : s[j] = t[j]
        BY <3>1, <3>4, <3>6, <4>1, DecodeStep
      <4> QED BY <4>2 DEF e, w
    <3>8. Same(i + w)
      <4>1. i + w \in T
        BY <1>4, <3>2
      <4>2. i + w <= Len(t) + 1
        BY <3>7
      <4>3. e[i + w] = c[i + w] \o r
        BY <3>7 DEF x
      <4> QED BY <4>1, <4>2, <4>3
    <3>9. \A j \in i .. Len(s) : s[j] = t[j]
      <4> TAKE j \in i .. Len(s)
      <4>1. j \in i .. i + w - 1 \/ j \in i + w .. Len(s)
        BY <1>1, <3>2
      <4> QED BY <3>7, <3>8, <4>1
    <3> QED BY <3>8, <3>9
  <2> QED BY <2>1, <2>2
<1>5. \A i \in 1 .. Len(s) + 1 : i \in T
  <2>1. ASSUME NEW i \in 1 .. Len(s) + 1, \A k \in i + 1 .. Len(s) + 1 : k \in T
        PROVE  i \in T
    BY <1>4, <2>1
  <2> HIDE DEF T
  <2> QED BY <1>1, <2>1, Downward
<1>6. Same(1)
  <2>1. 1 \in 1 .. Len(s) + 1 /\ 1 <= Len(t) + 1
    BY <1>1
  <2>2. e[1] = c[1] \o r
    BY DEF c, e
  <2> QED BY <1>5, <2>1, <2>2
<1> QED BY <1>6 DEF e

\* names with the same key are the same name
LEMMA CollationInjective ==
    ASSUME NEW s \in Seq(Nat), NEW t \in Seq(Nat), Ascii(s), Ascii(t),
           CollatedVersion(s) = CollatedVersion(t)
    PROVE  s = t
<1>1. s \in Seq(Nat) /\ t \in Seq(Nat) /\ Len(s) \in Nat /\ Len(t) \in Nat
  BY AsciiNat
<1>2. Collation(s)[1] \in Seq(Nat) /\ Collation(t)[1] = Collation(s)[1]
  <2>1. 1 \in 1 .. Len(s) + 1
    BY <1>1
  <2> QED BY <1>1, <2>1, CollationStep DEF CollatedVersion
<1>3. Collation(t)[1] = Collation(s)[1] \o <<>>
  BY <1>2, ConcatEmptySeq
<1>4. <<>> \in Seq(Nat)
  OBVIOUS
<1>5. /\ Len(s) <= Len(t) /\ \A j \in 1 .. Len(s) : s[j] = t[j]
      /\ <<>> = Collation(t)[Len(s) + 1]
  BY <1>3, <1>4, Decode
<1>6. Len(s) + 1 \in 1 .. Len(t) + 1
  BY <1>1, <1>5
<1>7. Len(s) = Len(t)
  <2>1. Len(s) + 1 = Len(t) + 1
    BY <1>1, <1>5, <1>6, CollationEnd
  <2> QED BY <1>1, <2>1
<1> QED BY <1>1, <1>5, <1>7, SeqEqual

\* a position that is not behind the end is inside
LEMMA Inside ==
    \A n \in Nat : \A i \in 1 .. n : \A d \in Nat :
        i + d <= n + 1 /\ i + d # n + 1 => i + d \in 1 .. n
  OBVIOUS

\* a name and one that continues it with something other than a digit have
\* the same tokens: no run of digits is continued
LEMMA SameToken ==
    ASSUME NEW s \in Seq(Nat), NEW t \in Seq(Nat), Len(s) < Len(t),
           \A j \in 1 .. Len(s) : s[j] = t[j], ~IsDigit(t[Len(s) + 1]),
           NEW i \in 1 .. Len(s)
    PROVE  Width(t, i) = Width(s, i) /\ Token(t, i) = Token(s, i)
<1>1. Len(s) \in Nat /\ Len(t) \in Nat /\ s[i] = t[i]
  OBVIOUS
<1>2. CASE ~IsDigit(s[i])
  BY <1>1, <1>2 DEF Width, Token
<1>3. CASE IsDigit(s[i])
  <2> DEFINE d == DigitsAt(s, i)
  <2>1. i \in 1 .. Len(s) + 1 /\ i \in 1 .. Len(t) + 1
    BY <1>1
  <2>2. /\ d \in Nat /\ i + d <= Len(s) + 1
        /\ \A j \in i .. i + d - 1 : IsDigit(s[j])
        /\ i + d <= Len(s) => ~IsDigit(s[i + d])
    BY <2>1, DigitsRun
  <2> HIDE DEF d
  <2>3. i + d <= Len(t) + 1
    BY <1>1, <2>2
  <2>4. ASSUME NEW j \in i .. i + d - 1
        PROVE  IsDigit(t[j])
    <3>1. j \in 1 .. Len(s)
      BY <1>1, <2>2
    <3> QED BY <2>2, <3>1
  <2>5. ~IsDigit(t[i + d])
    <3>1. CASE i + d = Len(s) + 1
      BY <3>1
    <3>2. CASE i + d # Len(s) + 1
      <4>1. i + d \in 1 .. Len(s)
        <5>1. d \in Nat /\ i + d <= Len(s) + 1
          BY <2>2
        <5> QED BY <1>1, <3>2, <5>1, Inside, Zenon
      <4> QED BY <2>2, <4>1
    <3> QED BY <3>1, <3>2
  <2>6. DigitsAt(t, i) = d
    BY <2>1, <2>2, <2>3, <2>4, <2>5, DigitsUnique
  <2>7. RunAt(t, i) = RunAt(s, i)
    BY <2>6 DEF RunAt, d
  <2> DEFINE k == RunAt(s, i)
  <2>8. k \in Nat /\ i + k <= Len(s) + 1 /\ k >= 1
    BY <1>3, RunFits
  <2> HIDE DEF k
  <2>9. SubSeq(t, i, i + k - 1) = SubSeq(s, i, i + k - 1)
    <3> DEFINE u == SubSeq(s, i, i + k - 1)
               v == SubSeq(t, i, i + k - 1)
    <3>1. u \in Seq(Nat) /\ Len(u) = k /\ \A j \in 1 .. k : u[j] = s[i + j - 1]
      BY <1>1, <2>8
    <3>2. v \in Seq(Nat) /\ Len(v) = k /\ \A j \in 1 .. k : v[j] = t[i + j - 1]
      BY <1>1, <2>8
    <3>3. \A j \in 1 .. k : i + j - 1 \in 1 .. Len(s)
      BY <1>1, <2>8
    <3> HIDE DEF u, v
    <3>4. u = v
      BY <3>1, <3>2, <3>3, SeqEqual
    <3> QED BY <3>4 DEF u, v
  <2> QED BY <1>1, <1>3, <2>7, <2>9 DEF Width, Token, k
<1> QED BY <1>2, <1>3

\* the key of a name that continues s with something other than a digit
\* starts with the key of s
LEMMA PrefixKey ==
    ASSUME NEW s \in Seq(Nat), NEW t \in Seq(Nat), Len(s) < Len(t),
           \A j \in 1 .. Len(s) : s[j] = t[j], ~IsDigit(t[Len(s) + 1])
    PROVE  Collation(t)[1] = Collation(s)[1] \o Collation(t)[Len(s) + 1]
<1> DEFINE c == Collation(s)
           e == Collation(t)
           r == e[Len(s) + 1]
           T == {i \in 1 .. Len(s) + 1 : e[i] = c[i] \o r}
<1>1. Len(s) \in Nat /\ Len(t) \in Nat
  OBVIOUS
<1>2. /\ c \in [1 .. Len(s) + 1 -> Seq(Nat)] /\ c[Len(s) + 1] = <<>>
      /\ \A i \in 1 .. Len(s) : c[i] = Token(s, i) \o c[i + Width(s, i)]
  BY CollationStep
<1>3. /\ e \in [1 .. Len(t) + 1 -> Seq(Nat)]
      /\ \A i \in 1 .. Len(t) : e[i] = Token(t, i) \o e[i + Width(t, i)]
  BY CollationStep
<1> HIDE DEF c, e
<1>4. r \in Seq(Nat)
  <2>1. Len(s) + 1 \in 1 .. Len(t) + 1
    BY <1>1
  <2> QED BY <1>3, <2>1
<1>5. ASSUME NEW i \in 1 .. Len(s) + 1, \A k \in i + 1 .. Len(s) + 1 : k \in T
      PROVE  i \in T
  <2>1. CASE i = Len(s) + 1
    <3>1. e[i] = <<>> \o r
      BY <1>4, <2>1, ConcatEmptySeq
    <3> QED BY <1>2, <2>1, <3>1
  <2>2. CASE i # Len(s) + 1
    <3> DEFINE w == Width(s, i)
    <3>1. i \in 1 .. Len(s) /\ i \in 1 .. Len(t)
      BY <1>1, <2>2
    <3>2. Token(s, i) \in Seq(Nat) /\ i + w \in i + 1 .. Len(s) + 1
      BY <3>1, TokenFits
    <3>3. Width(t, i) = w /\ Token(t, i) = Token(s, i)
      BY <3>1, SameToken
    <3> HIDE DEF w
    <3>4. c[i + w] \in Seq(Nat)
      <4>1. i + w \in 1 .. Len(s) + 1
        BY <1>1, <3>1, <3>2
      <4> QED BY <1>2, <4>1
    <3>5. e[i] = Token(s, i) \o e[i + w] /\ c[i] = Token(s, i) \o c[i + w]
      BY <1>2, <1>3, <3>1, <3>3 DEF w
    <3>6. e[i + w] = c[i + w] \o r
      BY <1>5, <3>2
    <3>7. e[i] = c[i] \o r
      <4>1. (Token(s, i) \o c[i + w]) \o r = Token(s, i) \o (c[i + w] \o r)
        BY <1>4, <3>2, <3>4, ConcatAssoc, ZenonT(40)
      <4> QED BY <3>5, <3>6, <4>1
    <3> QED BY <3>7
  <2> QED BY <2>1, <2>2
<1>6. \A i \in 1 .. Len(s) + 1 : i \in T
  <2> HIDE DEF T
  <2> QED BY <1>1, <1>5, Downward
<1>7. e[1] = c[1] \o r
  <2>1. 1 \in 1 .. Len(s) + 1
    BY <1>1
  <2> QED BY <1>6, <2>1
<1> QED BY <1>7 DEF c, e
----------------------------------------------------------------------------
(* What natSort computes.                                                  *)

\* one step of natSort's comparison, with f for the rest
NatStep(a, b, f, i, j) ==
    IF i > Len(a) THEN j <= Len(b)
    ELSE IF j > Len(b) THEN FALSE
    ELSE IF IsDigit(a[i]) /\ IsDigit(b[j])
    THEN IF Len(NumberAt(a, i)) # Len(NumberAt(b, j))
         THEN Len(NumberAt(a, i)) < Len(NumberAt(b, j))
         ELSE IF NumberAt(a, i) # NumberAt(b, j)
         THEN BytesLess(NumberAt(a, i), NumberAt(b, j))
         ELSE f[<<i + DigitsAt(a, i), j + DigitsAt(b, j)>>]
    ELSE IF a[i] = b[j] THEN f[<<i + 1, j + 1>>]
    ELSE IF IsDigit(b[j]) THEN TRUE
    ELSE IF IsDigit(a[i]) THEN FALSE
    ELSE a[i] < b[j]

\* a run of digits that starts with one is not empty
LEMMA DigitsAtDigit ==
    ASSUME NEW s \in Seq(Nat), NEW i \in 1 .. Len(s), IsDigit(s[i])
    PROVE  /\ DigitsAt(s, i) \in Nat /\ DigitsAt(s, i) >= 1
           /\ i + DigitsAt(s, i) \in i + 1 .. Len(s) + 1
<1> DEFINE d == DigitsAt(s, i)
<1>1. Len(s) \in Nat /\ i \in 1 .. Len(s) + 1
  OBVIOUS
<1>2. d \in Nat /\ i + d <= Len(s) + 1 /\ (i + d <= Len(s) => ~IsDigit(s[i + d]))
  BY <1>1, DigitsRun
<1> HIDE DEF d
<1>3. d # 0
  BY <1>1, <1>2
<1>4. d >= 1 /\ i + d \in i + 1 .. Len(s) + 1
  BY <1>1, <1>2, <1>3
<1> QED BY <1>2, <1>4 DEF d

\* f and g are the same for all later positions of a
AgreeAfter(a, b, f, g, i) ==
    \A k \in i + 1 .. Len(a) + 1, h \in 1 .. Len(b) + 1 : f[<<k, h>>] = g[<<k, h>>]

\* a step only looks at later positions of a
LEMMA NatLocal ==
    ASSUME NEW a \in Seq(Nat), NEW b \in Seq(Nat), NEW f, NEW g,
           NEW i \in 1 .. Len(a) + 1, NEW j \in 1 .. Len(b) + 1,
           AgreeAfter(a, b, f, g, i)
    PROVE  NatStep(a, b, f, i, j) = NatStep(a, b, g, i, j)
<1>1. Len(a) \in Nat /\ Len(b) \in Nat
  OBVIOUS
<1>2. CASE i > Len(a)
  BY <1>2, Zenon DEF NatStep
<1>3. CASE ~(i > Len(a)) /\ j > Len(b)
  BY <1>3, Zenon DEF NatStep
<1>4. CASE ~(i > Len(a)) /\ ~(j > Len(b))
  <2>1. /\ i \in 1 .. Len(a) /\ j \in 1 .. Len(b)
        /\ i + 1 \in i + 1 .. Len(a) + 1 /\ j + 1 \in 1 .. Len(b) + 1
    BY <1>1, <1>4
  <2>2. f[<<i + 1, j + 1>>] = g[<<i + 1, j + 1>>]
    BY <2>1 DEF AgreeAfter
  <2>3. ASSUME IsDigit(a[i]), IsDigit(b[j])
        PROVE  f[<<i + DigitsAt(a, i), j + DigitsAt(b, j)>>]
                 = g[<<i + DigitsAt(a, i), j + DigitsAt(b, j)>>]
    <3>1. i + DigitsAt(a, i) \in i + 1 .. Len(a) + 1
      BY <2>1, <2>3, DigitsAtDigit
    <3>2. j + DigitsAt(b, j) \in j + 1 .. Len(b) + 1
      BY <2>1, <2>3, DigitsAtDigit
    <3>3. j + DigitsAt(b, j) \in 1 .. Len(b) + 1
      BY <1>1, <2>1, <3>2
    <3> QED BY <3>1, <3>3 DEF AgreeAfter
  <2> QED BY <2>2, <2>3, Zenon DEF NatStep
<1> QED BY <1>2, <1>3, <1>4

\* natSort's comparison terminates: there is a function that satisfies its
\* equation
LEMMA NaturalExists ==
    ASSUME NEW a \in Seq(Nat), NEW b \in Seq(Nat)
    PROVE  \E f : \A k \in 1 .. Len(a) + 1, h \in 1 .. Len(b) + 1 :
              f[<<k, h>>] = NatStep(a, b, f, k, h)
<1> DEFINE n == Len(a)
           m == Len(b)
           Good(i) == \E f : \A k \in i .. n + 1, h \in 1 .. m + 1 :
                         f[<<k, h>>] = NatStep(a, b, f, k, h)
           T == {i \in 1 .. n + 1 : Good(i)}
<1>1. n \in Nat /\ m \in Nat
  OBVIOUS
<1>2. ASSUME NEW i \in 1 .. n + 1, NEW f,
             \A k \in i + 1 .. n + 1, h \in 1 .. m + 1 :
                f[<<k, h>>] = NatStep(a, b, f, k, h)
      PROVE  Good(i)
  <2> DEFINE g == [p \in (i .. n + 1) \X (1 .. m + 1) |->
                     IF p[1] = i THEN NatStep(a, b, f, i, p[2]) ELSE f[<<p[1], p[2]>>]]
  <2>1. \A k \in i .. n + 1, h \in 1 .. m + 1 :
           g[<<k, h>>] = IF k = i THEN NatStep(a, b, f, i, h) ELSE f[<<k, h>>]
    OBVIOUS
  <2> HIDE DEF g
  <2>2. \A k \in i + 1 .. n + 1, h \in 1 .. m + 1 : f[<<k, h>>] = g[<<k, h>>]
    <3> TAKE k \in i + 1 .. n + 1, h \in 1 .. m + 1
    <3>1. k \in i .. n + 1 /\ k # i
      BY <1>1
    <3> QED BY <2>1, <3>1
  <2>3. ASSUME NEW k \in i .. n + 1, NEW h \in 1 .. m + 1
        PROVE  g[<<k, h>>] = NatStep(a, b, g, k, h)
    <3>1. \A x \in k + 1 .. n + 1, y \in 1 .. m + 1 : f[<<x, y>>] = g[<<x, y>>]
      <4> TAKE x \in k + 1 .. n + 1, y \in 1 .. m + 1
      <4>1. x \in i + 1 .. n + 1
        BY <1>1
      <4> QED BY <2>2, <4>1
    <3>2. k \in 1 .. n + 1
      BY <1>1
    <3>3. NatStep(a, b, f, k, h) = NatStep(a, b, g, k, h)
      <4>1. AgreeAfter(a, b, f, g, k)
        BY <3>1 DEF AgreeAfter
      <4> QED BY <3>2, <4>1, NatLocal
    <3>4. g[<<k, h>>] = NatStep(a, b, f, k, h)
      <4>1. CASE k = i
        BY <2>1, <4>1
      <4>2. CASE k # i
        <5>1. k \in i + 1 .. n + 1
          BY <1>1, <4>2
        <5> QED BY <1>2, <2>2, <5>1
      <4> QED BY <4>1, <4>2
    <3> QED BY <3>3, <3>4
  <2> QED BY <2>3
<1>3. ASSUME NEW i \in 1 .. n + 1, \A k \in i + 1 .. n + 1 : k \in T
      PROVE  i \in T
  <2>1. CASE i = n + 1
    <3>1. \A k \in i + 1 .. n + 1 : FALSE
      BY <1>1, <2>1
    <3>2. Good(i)
      BY <1>2, <3>1
    <3> QED BY <3>2
  <2>2. CASE i # n + 1
    <3>1. i + 1 \in i + 1 .. n + 1
      BY <1>1, <2>2
    <3>2. Good(i + 1)
      BY <1>3, <3>1
    <3>3. Good(i)
      BY <1>2, <3>2
    <3> QED BY <3>3
  <2> QED BY <2>1, <2>2
<1>4. \A i \in 1 .. n + 1 : i \in T
  <2> HIDE DEF T
  <2> QED BY <1>1, <1>3, Downward
<1>5. Good(1)
  <2>1. 1 \in 1 .. n + 1
    BY <1>1
  <2> QED BY <1>4, <2>1
<1> QED BY <1>5

\* the equation of natSort's comparison
LEMMA NaturalStep ==
    ASSUME NEW a \in Seq(Nat), NEW b \in Seq(Nat),
           NEW i \in 1 .. Len(a) + 1, NEW j \in 1 .. Len(b) + 1
    PROVE  NaturalOrder(a, b)[<<i, j>>] = NatStep(a, b, NaturalOrder(a, b), i, j)
<1> DEFINE D == (1 .. Len(a) + 1) \X (1 .. Len(b) + 1)
<1>1. PICK f : \A k \in 1 .. Len(a) + 1, h \in 1 .. Len(b) + 1 :
                  f[<<k, h>>] = NatStep(a, b, f, k, h)
  BY NaturalExists
<1>2. \E g : g = [p \in D |-> NatStep(a, b, g, p[1], p[2])]
  <2> DEFINE g == [p \in D |-> f[<<p[1], p[2]>>]]
  <2>1. \A k \in 1 .. Len(a) + 1, h \in 1 .. Len(b) + 1 : f[<<k, h>>] = g[<<k, h>>]
    OBVIOUS
  <2>2. ASSUME NEW p \in D
        PROVE  f[<<p[1], p[2]>>] = NatStep(a, b, g, p[1], p[2])
    <3>1. p[1] \in 1 .. Len(a) + 1 /\ p[2] \in 1 .. Len(b) + 1
      OBVIOUS
    <3> DEFINE k == p[1]
               h == p[2]
    <3> HIDE DEF g, k, h, D
    <3>2. k \in 1 .. Len(a) + 1 /\ h \in 1 .. Len(b) + 1
      BY <3>1 DEF k, h
    <3>3. \A x \in k + 1 .. Len(a) + 1, y \in 1 .. Len(b) + 1 : f[<<x, y>>] = g[<<x, y>>]
      <4>1. \A x \in k + 1 .. Len(a) + 1 : x \in 1 .. Len(a) + 1
        BY <3>2
      <4> QED BY <2>1, <4>1
    <3>4. NatStep(a, b, f, k, h) = NatStep(a, b, g, k, h)
      <4>1. AgreeAfter(a, b, f, g, k)
        BY <3>3 DEF AgreeAfter
      <4> QED BY <3>2, <4>1, NatLocal
    <3>5. f[<<k, h>>] = NatStep(a, b, f, k, h)
      BY <1>1, <3>2
    <3>6. f[<<k, h>>] = NatStep(a, b, g, k, h)
      BY <3>4, <3>5
    <3> QED BY <3>6 DEF k, h
  <2> DEFINE e == [p \in D |-> NatStep(a, b, g, p[1], p[2])]
  <2>3. g = e
    <3> HIDE DEF D
    <3>1. \A p \in D : f[<<p[1], p[2]>>] = NatStep(a, b, g, p[1], p[2])
      BY <2>2
    <3> QED BY <3>1, Zenon
  <2> HIDE DEF g
  <2> QED BY <2>3
<1>3. NaturalOrder(a, b) = [p \in D |-> NatStep(a, b, NaturalOrder(a, b), p[1], p[2])]
  BY <1>2, Zenon DEF NaturalOrder, NatStep
<1>4. <<i, j>> \in D
  OBVIOUS
<1> HIDE DEF D
<1>5. NaturalOrder(a, b)[<<i, j>>] = NatStep(a, b, NaturalOrder(a, b), <<i, j>>[1], <<i, j>>[2])
  BY <1>3, <1>4
<1> QED BY <1>5
----------------------------------------------------------------------------
(* The order of keys is the natural order.                                 *)

\* i is not in the middle of a run of digits
RunStart(s, i) == i = 1 \/ i > Len(s) \/ ~IsDigit(s[i]) \/ ~IsDigit(s[i - 1])

\* lengths of runs are ranked above ASCII bytes, and as numbers are
LEMMA ByteOrder ==
    /\ \A x \in 0 .. 127, k \in Nat :
          k >= 1 => x < 127 + k /\ ~(127 + k < x) /\ x # 127 + k
    /\ \A h, k \in Nat : 127 + h < 127 + k <=> h < k
    /\ \A h, k \in Nat : 127 + h = 127 + k => h = k
    /\ \A n \in Nat : \A i \in 1 .. n : \A k \in i + 1 .. n + 1 : k \in 1 .. n + 1
  OBVIOUS

\* one length in front of a sequence
LEMMA ByteInFront ==
    ASSUME NEW k \in Nat, NEW x \in Seq(Nat)
    PROVE  /\ <<k>> \in Seq(Nat) /\ <<127 + k>> \o x \in Seq(Nat)
           /\ Len(<<127 + k>> \o x) = 1 + Len(x)
  OBVIOUS

\* different first bytes decide
LEMMA BytesLessFirst ==
    ASSUME NEW p \in Seq(Nat), NEW q \in Seq(Nat),
           Len(p) >= 1, Len(q) >= 1, p[1] # q[1]
    PROVE  BytesLess(p, q) <=> p[1] < q[1]
<1>1. Len(p) \in Nat /\ Len(q) \in Nat
  OBVIOUS
<1>2. ASSUME p[1] < q[1]
      PROVE  BytesLess(p, q)
  <2>1. \A j \in 1 .. 1 - 1 : p[j] = q[j]
    OBVIOUS
  <2>2. LessAt(p, q, 1)
    BY <1>1, <1>2, <2>1 DEF LessAt
  <2> QED BY <2>2, BytesLessAt
<1>3. ASSUME NEW n \in Nat, LessAt(p, q, n)
      PROVE  p[1] < q[1]
  <2>1. n = 1
    BY <1>1, <1>3 DEF LessAt
  <2> QED BY <1>3, <2>1 DEF LessAt
<1> QED BY <1>2, <1>3, BytesLessAt

\* the empty key is the least
LEMMA BytesLessEmpty ==
    ASSUME NEW p \in Seq(Nat)
    PROVE  ~BytesLess(p, <<>>) /\ (BytesLess(<<>>, p) <=> p # <<>>)
<1>1. <<>> \in Seq(Nat) /\ Len(<<>>) = 0
  OBVIOUS
<1>2. ~BytesLess(p, <<>>)
  <2>1. \A n \in Nat : ~LessAt(p, <<>>, n)
    BY <1>1 DEF LessAt
  <2> QED BY <1>1, <2>1, BytesLessAt
<1>3. BytesLess(<<>>, p) => p # <<>>
  BY <1>2
<1>4. p # <<>> => BytesLess(<<>>, p)
  BY <1>1, <1>2, BytesLessTotal
<1> QED BY <1>2, <1>3, <1>4

\* the first byte of a key
LEMMA FirstByte ==
    ASSUME NEW s \in Seq(Nat), NEW i \in 1 .. Len(s)
    PROVE  /\ Collation(s)[i] \in Seq(Nat) /\ Len(Collation(s)[i]) >= 1
           /\ ~IsDigit(s[i]) => Collation(s)[i][1] = s[i]
           /\ IsDigit(s[i]) => Collation(s)[i][1] = 127 + RunAt(s, i)
<1> DEFINE k == Token(s, i)
           x == Collation(s)[i + Width(s, i)]
<1>1. /\ k \in Seq(Nat) /\ Len(k) >= 1 /\ i + Width(s, i) \in i + 1 .. Len(s) + 1
      /\ ~IsDigit(s[i]) => k[1] = s[i]
      /\ IsDigit(s[i]) => k[1] = 127 + RunAt(s, i)
  BY TokenFits
<1>2. Len(s) \in Nat
  OBVIOUS
<1>3. i + Width(s, i) \in 1 .. Len(s) + 1
  BY <1>1, <1>2
<1>4. x \in Seq(Nat) /\ Collation(s)[i] = k \o x
  BY <1>3, CollationStep
<1> HIDE DEF k, x
<1>5. k \o x \in Seq(Nat) /\ Len(k \o x) >= 1 /\ (k \o x)[1] = k[1]
  BY <1>1, <1>4
<1> QED BY <1>1, <1>4, <1>5

\* for names without leading zeros and without cut runs, a number of natSort
\* is a run of collatedVersion
LEMMA NumberToken ==
    ASSUME NEW s \in Seq(Nat), NEW i \in 1 .. Len(s), IsDigit(s[i]),
           Plain(s), ShortNumbers(s), RunStart(s, i)
    PROVE  /\ DigitsAt(s, i) \in Nat /\ DigitsAt(s, i) >= 1
           /\ i + DigitsAt(s, i) \in i + 1 .. Len(s) + 1
           /\ NumberAt(s, i) \in Seq(Nat) /\ Len(NumberAt(s, i)) = DigitsAt(s, i)
           /\ Width(s, i) = DigitsAt(s, i) /\ RunAt(s, i) = DigitsAt(s, i)
           /\ Token(s, i) = <<127 + DigitsAt(s, i)>> \o NumberAt(s, i)
           /\ RunStart(s, i + DigitsAt(s, i))
<1> DEFINE d == DigitsAt(s, i)
<1>1. Len(s) \in Nat /\ i \in 1 .. Len(s) + 1
  OBVIOUS
<1>2. d \in Nat /\ d >= 1 /\ i + d \in i + 1 .. Len(s) + 1
  BY DigitsAtDigit
<1>3. RunAt(s, i) = d
  <2>1. d <= MaxRun
    BY DEF ShortNumbers
  <2> QED BY <1>2, <2>1 DEF RunAt, MaxRun
<1>4. ZerosAt(s, i) = 0
  <2>1. ~(i > 1 /\ IsDigit(s[i - 1]))
    BY DEF RunStart
  <2> QED BY <2>1 DEF Plain
<1>5. RunStart(s, i + d)
  <2>1. i + d <= Len(s) => ~IsDigit(s[i + d])
    BY <1>1, DigitsRun
  <2> HIDE DEF d
  <2>2. i + d > Len(s) \/ i + d <= Len(s)
    BY <1>1, <1>2
  <2> QED BY <2>1, <2>2 DEF RunStart
<1>6. NumberAt(s, i) = SubSeq(s, i, i + d - 1)
  <2>1. i + 0 = i
    OBVIOUS
  <2> QED BY <1>4, <2>1 DEF NumberAt
<1>7. Width(s, i) = d /\ Token(s, i) = <<127 + d>> \o NumberAt(s, i)
  BY <1>3, <1>6 DEF Width, Token, LengthByte
<1>8. NumberAt(s, i) \in Seq(Nat) /\ Len(NumberAt(s, i)) = d
  <2> HIDE DEF d
  <2>1. SubSeq(s, i, i + d - 1) \in Seq(Nat) /\ Len(SubSeq(s, i, i + d - 1)) = d
    BY <1>1, <1>2
  <2> QED BY <1>6, <2>1
<1> QED BY <1>2, <1>3, <1>5, <1>7, <1>8

\* for such names the two orders are one: keys are compared as the names
\* they were made from are
LEMMA NaturalIsCollated ==
    ASSUME NEW a \in Seq(Nat), NEW b \in Seq(Nat), Ascii(a), Ascii(b),
           Plain(a), Plain(b), ShortNumbers(a), ShortNumbers(b)
    PROVE  NatsortCompare(a, b) <=> BytesLess(CollatedVersion(a), CollatedVersion(b))
<1> DEFINE c == Collation(a)
           e == Collation(b)
           N == NaturalOrder(a, b)
           Same(i) == N[<<i, i>>] <=> BytesLess(c[i], e[i])
           T == {i \in 1 .. Len(a) + 1 :
                   i <= Len(b) + 1 /\ RunStart(a, i) /\ RunStart(b, i) => Same(i)}
<1>1. a \in Seq(Nat) /\ b \in Seq(Nat) /\ Len(a) \in Nat /\ Len(b) \in Nat
  BY AsciiNat
<1>2. /\ c \in [1 .. Len(a) + 1 -> Seq(Nat)] /\ c[Len(a) + 1] = <<>>
      /\ \A i \in 1 .. Len(a) : c[i] = Token(a, i) \o c[i + Width(a, i)]
  BY <1>1, CollationStep
<1>3. /\ e \in [1 .. Len(b) + 1 -> Seq(Nat)] /\ e[Len(b) + 1] = <<>>
      /\ \A i \in 1 .. Len(b) : e[i] = Token(b, i) \o e[i + Width(b, i)]
  BY <1>1, CollationStep
<1>4. ASSUME NEW i \in 1 .. Len(a) + 1, \A k \in i + 1 .. Len(a) + 1 : k \in T,
             i <= Len(b) + 1, RunStart(a, i), RunStart(b, i)
      PROVE  Same(i)
  <2> HIDE DEF c, e, N
  <2>1. i \in 1 .. Len(b) + 1
    BY <1>1, <1>4
  <2>2. N[<<i, i>>] = NatStep(a, b, N, i, i)
    BY <1>1, <2>1, NaturalStep DEF N
  <2>3. c[i] \in Seq(Nat) /\ e[i] \in Seq(Nat)
    BY <1>2, <1>3, <2>1
  <2>4. CASE i > Len(a)
    <3>1. NatStep(a, b, N, i, i) <=> i <= Len(b)
      BY <2>4, Zenon DEF NatStep
    <3>2. c[i] = <<>>
      <4>1. i = Len(a) + 1
        BY <1>1, <2>4
      <4> QED BY <1>2, <4>1
    <3>3. i <= Len(b) <=> e[i] # <<>>
      <4>1. e[i] = <<>> <=> i = Len(b) + 1
        BY <1>1, <2>1, CollationEnd DEF e
      <4>2. i <= Len(b) <=> i # Len(b) + 1
        BY <1>1, <2>1
      <4> QED BY <4>1, <4>2
    <3> QED BY <2>2, <2>3, <3>1, <3>2, <3>3, BytesLessEmpty
  <2>5. CASE ~(i > Len(a)) /\ i > Len(b)
    <3>1. ~NatStep(a, b, N, i, i)
      BY <2>5, Zenon DEF NatStep
    <3>2. e[i] = <<>>
      <4>1. i = Len(b) + 1
        BY <1>1, <2>1, <2>5
      <4> QED BY <1>3, <4>1
    <3> QED BY <2>2, <2>3, <3>1, <3>2, BytesLessEmpty
  <2>6. CASE ~(i > Len(a)) /\ ~(i > Len(b)) /\ IsDigit(a[i]) /\ IsDigit(b[i])
    <3> DEFINE x == NumberAt(a, i)
               y == NumberAt(b, i)
               d == DigitsAt(a, i)
               h == DigitsAt(b, i)
    <3>1. i \in 1 .. Len(a) /\ i \in 1 .. Len(b)
      BY <1>1, <2>1, <2>6
    <3>2. /\ d \in Nat /\ d >= 1 /\ i + d \in i + 1 .. Len(a) + 1
          /\ x \in Seq(Nat) /\ Len(x) = d /\ Width(a, i) = d /\ RunAt(a, i) = d
          /\ Token(a, i) = <<127 + d>> \o x /\ RunStart(a, i + d)
      BY <1>1, <1>4, <2>6, <3>1, NumberToken
    <3>3. /\ h \in Nat /\ h >= 1 /\ i + h \in i + 1 .. Len(b) + 1
          /\ y \in Seq(Nat) /\ Len(y) = h /\ Width(b, i) = h /\ RunAt(b, i) = h
          /\ Token(b, i) = <<127 + h>> \o y /\ RunStart(b, i + h)
      BY <1>1, <1>4, <2>6, <3>1, NumberToken
    <3> HIDE DEF x, y, d, h
    <3> DEFINE u == <<127 + d>> \o x
               v == <<127 + h>> \o y
               cr == c[i + d]
               er == e[i + h]
    <3>4. c[i] = u \o cr /\ e[i] = v \o er
      BY <1>2, <1>3, <3>1, <3>2, <3>3
    <3>5. cr \in Seq(Nat) /\ er \in Seq(Nat)
      <4>1. i + d \in 1 .. Len(a) + 1 /\ i + h \in 1 .. Len(b) + 1
        BY <1>1, <3>1, <3>2, <3>3, ByteOrder, Zenon
      <4> QED BY <1>2, <1>3, <4>1
    <3>6. u \in Seq(Nat) /\ v \in Seq(Nat) /\ Len(u) = 1 + d /\ Len(v) = 1 + h
      BY <3>2, <3>3, ByteInFront
    <3>7. CASE Len(x) # Len(y)
      <4>1. NatStep(a, b, N, i, i) <=> Len(x) < Len(y)
        BY <2>6, <3>7, Zenon DEF NatStep, x, y, d, h
      <4>2. /\ c[i][1] = 127 + d /\ e[i][1] = 127 + h
            /\ Len(c[i]) >= 1 /\ Len(e[i]) >= 1
        <5>1. c[i][1] = 127 + RunAt(a, i) /\ Len(c[i]) >= 1
          BY <1>1, <2>6, <3>1, FirstByte DEF c
        <5>2. e[i][1] = 127 + RunAt(b, i) /\ Len(e[i]) >= 1
          BY <1>1, <2>6, <3>1, FirstByte DEF e
        <5>3. RunAt(a, i) = d /\ RunAt(b, i) = h
          BY <3>2, <3>3
        <5> QED BY <5>1, <5>2, <5>3
      <4>3. BytesLess(c[i], e[i]) <=> c[i][1] < e[i][1]
        <5>1. c[i][1] # e[i][1]
          BY <3>2, <3>3, <3>7, <4>2, ByteOrder, ZenonT(40)
        <5> QED BY <2>3, <4>2, <5>1, BytesLessFirst
      <4>4. c[i][1] < e[i][1] <=> Len(x) < Len(y)
        <5>1. 127 + d < 127 + h <=> d < h
          BY <3>2, <3>3, ByteOrder, Zenon
        <5> QED BY <3>2, <3>3, <4>2, <5>1
      <4> QED BY <2>2, <4>1, <4>3, <4>4
    <3>8. CASE Len(x) = Len(y) /\ x # y
      <4>1. NatStep(a, b, N, i, i) <=> BytesLess(x, y)
        BY <2>6, <3>8, Zenon DEF NatStep, x, y, d, h
      <4>2. d = h
        BY <3>2, <3>3, <3>8
      <4> DEFINE l == <<127 + d>>
      <4>3. l \in Seq(Nat)
        BY <3>2
      <4> HIDE DEF l
      <4>4. u = l \o x /\ v = l \o y
        BY <4>2 DEF l
      <4> HIDE DEF u, v, cr, er
      <4>5. Len(u) = Len(v)
        BY <3>6, <4>2
      <4>6. u # v
        BY <3>2, <3>3, <3>8, <4>3, <4>4, ConcatCancel
      <4>7. BytesLess(c[i], e[i]) <=> BytesLess(u, v)
        BY <3>4, <3>5, <3>6, <4>5, <4>6, BytesLessBlock
      <4>8. BytesLess(u, v) <=> BytesLess(x, y)
        BY <3>2, <3>3, <4>3, <4>4, BytesLessCancel
      <4> QED BY <2>2, <4>1, <4>7, <4>8
    <3>9. CASE x = y
      <4>1. NatStep(a, b, N, i, i) = N[<<i + d, i + h>>]
        BY <2>6, <3>9, Zenon DEF NatStep, x, y, d, h
      <4>2. d = h /\ u = v
        BY <3>2, <3>3, <3>9
      <4> HIDE DEF u, v, cr, er
      <4>3. BytesLess(c[i], e[i]) <=> BytesLess(cr, er)
        BY <3>4, <3>5, <3>6, <4>2, BytesLessCancel
      <4>4. Same(i + d)
        <5>1. i + d \in T
          BY <1>4, <3>2
        <5>2. i + d <= Len(b) + 1
          BY <1>1, <3>3, <4>2
        <5> QED BY <3>2, <3>3, <4>2, <5>1, <5>2
      <4> QED BY <2>2, <4>1, <4>2, <4>3, <4>4 DEF cr, er
    <3> QED BY <3>7, <3>8, <3>9
  <2>7. CASE ~(i > Len(a)) /\ ~(i > Len(b)) /\ ~(IsDigit(a[i]) /\ IsDigit(b[i]))
    <3>1. i \in 1 .. Len(a) /\ i \in 1 .. Len(b)
      BY <1>1, <2>1, <2>7
    <3>2. a[i] \in 0 .. 127 /\ b[i] \in 0 .. 127 /\ a[i] \in Nat
      BY <3>1, AsciiNat
    <3>3. CASE a[i] = b[i]
      <4>1. NatStep(a, b, N, i, i) = N[<<i + 1, i + 1>>]
        BY <2>7, <3>3, Zenon DEF NatStep
      <4>2. ~IsDigit(a[i]) /\ ~IsDigit(b[i])
        BY <2>7, <3>3
      <4>3. /\ Token(a, i) = <<a[i]>> /\ Width(a, i) = 1
            /\ Token(b, i) = <<a[i]>> /\ Width(b, i) = 1
        BY <3>3, <4>2 DEF Token, Width
      <4> DEFINE k == <<a[i]>>
                 cr == c[i + 1]
                 er == e[i + 1]
      <4>4. c[i] = k \o cr /\ e[i] = k \o er
        BY <1>2, <1>3, <3>1, <4>3
      <4>5. k \in Seq(Nat) /\ cr \in Seq(Nat) /\ er \in Seq(Nat)
        <5>1. i + 1 \in 1 .. Len(a) + 1 /\ i + 1 \in 1 .. Len(b) + 1
          BY <1>1, <3>1
        <5>2. a[i] \in Nat
          BY <3>2
        <5>3. k \in Seq(Nat)
          BY <5>2, ByteInFront
        <5> QED BY <1>2, <1>3, <5>1, <5>3
      <4> HIDE DEF k, cr, er
      <4>6. BytesLess(c[i], e[i]) <=> BytesLess(cr, er)
        BY <4>4, <4>5, BytesLessCancel
      <4>7. Same(i + 1)
        <5>1. i + 1 \in i + 1 .. Len(a) + 1 /\ i + 1 <= Len(b) + 1 /\ (i + 1) - 1 = i
          BY <1>1, <3>1
        <5>2. RunStart(a, i + 1) /\ RunStart(b, i + 1)
          BY <4>2, <5>1 DEF RunStart
        <5>3. i + 1 \in T
          BY <1>4, <5>1
        <5> QED BY <5>1, <5>2, <5>3
      <4> QED BY <2>2, <4>1, <4>6, <4>7 DEF cr, er
    <3>4. CASE a[i] # b[i] /\ IsDigit(b[i])
      <4>1. NatStep(a, b, N, i, i)
        BY <2>7, <3>4, Zenon DEF NatStep
      <4>2. /\ c[i][1] = a[i] /\ e[i][1] = 127 + RunAt(b, i)
            /\ Len(c[i]) >= 1 /\ Len(e[i]) >= 1
        BY <1>1, <2>7, <3>1, <3>4, FirstByte DEF c, e
      <4>3. RunAt(b, i) \in Nat /\ RunAt(b, i) >= 1
        BY <1>1, <3>1, <3>4, RunFits
      <4>4. c[i][1] < e[i][1] /\ c[i][1] # e[i][1]
        <5>1. a[i] < 127 + RunAt(b, i) /\ a[i] # 127 + RunAt(b, i)
          BY <3>2, <4>3, ByteOrder, Zenon
        <5> QED BY <4>2, <5>1
      <4> QED BY <2>2, <2>3, <4>1, <4>2, <4>4, BytesLessFirst
    <3>5. CASE a[i] # b[i] /\ ~IsDigit(b[i]) /\ IsDigit(a[i])
      <4>1. ~NatStep(a, b, N, i, i)
        BY <2>7, <3>5, Zenon DEF NatStep
      <4>2. /\ e[i][1] = b[i] /\ c[i][1] = 127 + RunAt(a, i)
            /\ Len(c[i]) >= 1 /\ Len(e[i]) >= 1
        BY <1>1, <3>1, <3>5, FirstByte, SMTT(30) DEF c, e
      <4>3. RunAt(a, i) \in Nat /\ RunAt(a, i) >= 1
        BY <1>1, <3>1, <3>5, RunFits
      <4>4. ~(c[i][1] < e[i][1]) /\ c[i][1] # e[i][1]
        <5>1. ~(127 + RunAt(a, i) < b[i]) /\ 127 + RunAt(a, i) # b[i]
          BY <3>2, <4>3, ByteOrder, Zenon
        <5> QED BY <4>2, <5>1
      <4> QED BY <2>2, <2>3, <4>1, <4>2, <4>4, BytesLessFirst
    <3>6. CASE a[i] # b[i] /\ ~IsDigit(b[i]) /\ ~IsDigit(a[i])
      <4>1. NatStep(a, b, N, i, i) <=> a[i] < b[i]
        BY <2>7, <3>6, Zenon DEF NatStep
      <4>2. /\ e[i][1] = b[i] /\ c[i][1] = a[i]
            /\ Len(c[i]) >= 1 /\ Len(e[i]) >= 1
        BY <1>1, <3>1, <3>6, FirstByte DEF c, e
      <4>3. c[i][1] # e[i][1]
        BY <3>6, <4>2
      <4>4. BytesLess(c[i], e[i]) <=> c[i][1] < e[i][1]
        BY <2>3, <4>2, <4>3, BytesLessFirst
      <4> QED BY <2>2, <4>1, <4>2, <4>4
    <3> QED BY <3>3, <3>4, <3>5, <3>6
  <2> QED BY <2>4, <2>5, <2>6, <2>7
<1>5. \A i \in 1 .. Len(a) + 1 : i \in T
  <2>1. ASSUME NEW i \in 1 .. Len(a) + 1, \A k \in i + 1 .. Len(a) + 1 : k \in T
        PROVE  i \in T
    BY <1>4, <2>1
  <2> HIDE DEF T
  <2> QED BY <1>1, <2>1, Downward
<1>6. Same(1)
  <2>1. 1 \in 1 .. Len(a) + 1 /\ 1 <= Len(b) + 1
    BY <1>1
  <2>2. RunStart(a, 1) /\ RunStart(b, 1)
    BY DEF RunStart
  <2> HIDE DEF c, e, N
  <2> QED BY <1>5, <2>1, <2>2
<1> QED BY <1>6 DEF NatsortCompare, CollatedVersion
----------------------------------------------------------------------------
(* The seek.                                                               *)

\* names a bucket may hold
Listed(M) == IsFiniteSet(M) /\ \A m \in M : m \in Seq(Nat) /\ Ascii(m)

\* keys are sequences of bytes
LEMMA KeyType ==
    ASSUME NEW s \in Seq(Nat)
    PROVE  CollatedVersion(s) \in Seq(Nat)
<1>1. 1 \in 1 .. Len(s) + 1
  OBVIOUS
<1> QED BY <1>1, CollationStep DEF CollatedVersion

\* the keys of the names a bucket holds are in a strict total order
LEMMA KeyOrder ==
    ASSUME NEW M, Listed(M), NEW p \in M, NEW q \in M, NEW r \in M
    PROVE  /\ ~BytesLess(CollatedVersion(p), CollatedVersion(p))
           /\ /\ BytesLess(CollatedVersion(p), CollatedVersion(q))
              /\ BytesLess(CollatedVersion(q), CollatedVersion(r))
              => BytesLess(CollatedVersion(p), CollatedVersion(r))
           /\ p # q => \/ BytesLess(CollatedVersion(p), CollatedVersion(q))
                       \/ BytesLess(CollatedVersion(q), CollatedVersion(p))
<1>1. /\ p \in Seq(Nat) /\ q \in Seq(Nat) /\ r \in Seq(Nat)
      /\ Ascii(p) /\ Ascii(q)
  BY DEF Listed
<1> DEFINE x == CollatedVersion(p)
           y == CollatedVersion(q)
           z == CollatedVersion(r)
<1>2. x \in Seq(Nat) /\ y \in Seq(Nat) /\ z \in Seq(Nat)
  BY <1>1, KeyType
<1>3. p # q => x # y
  BY <1>1, CollationInjective
<1> HIDE DEF x, y, z
<1>4. ~BytesLess(x, x)
  BY <1>2, BytesLessIrreflexive
<1>5. BytesLess(x, y) /\ BytesLess(y, z) => BytesLess(x, z)
  BY <1>2, BytesLessTransitive
<1>6. x # y => BytesLess(x, y) \/ BytesLess(y, x)
  BY <1>2, BytesLessTotal
<1> QED BY <1>3, <1>4, <1>5, <1>6 DEF x, y, z

\* ... so of any names, one has the last key
LEMMA Maximum ==
    ASSUME NEW M, Listed(M), M # {}
    PROVE  \E m \in M : \A q \in M \ {m} :
              BytesLess(CollatedVersion(q), CollatedVersion(m))
<1> DEFINE Above(m) == {q \in M : BytesLess(CollatedVersion(m), CollatedVersion(q))}
           T == {Cardinality(Above(m)) : m \in M}
<1>1. IsFiniteSet(M)
  BY DEF Listed
<1>2. \A m \in M : IsFiniteSet(Above(m)) /\ Cardinality(Above(m)) \in Nat
  BY <1>1, FS_Subset, FS_CardinalityType
<1>3. PICK x \in T : \A y \in T : x <= y
  <2>1. T \in SUBSET Nat /\ T # {}
    BY <1>2
  <2> HIDE DEF T
  <2> QED BY <2>1, Least
<1>4. PICK m \in M : x = Cardinality(Above(m))
  BY <1>3
<1>5. ASSUME NEW q \in M, q # m, BytesLess(CollatedVersion(m), CollatedVersion(q))
      PROVE  FALSE
  <2>1. Above(q) \subseteq Above(m)
    BY <1>5, KeyOrder
  <2>2. q \in Above(m) /\ q \notin Above(q)
    BY <1>5, KeyOrder
  <2> DEFINE A == Above(m)
             B == Above(q)
  <2>3. IsFiniteSet(A) /\ B \subseteq A /\ A # B
    BY <1>2, <2>1, <2>2
  <2>4. Cardinality(A) <= Cardinality(B)
    BY <1>3, <1>4
  <2>5. Cardinality(A) \in Nat /\ Cardinality(B) \in Nat
    BY <1>2
  <2> HIDE DEF A, B
  <2>6. Cardinality(B) < Cardinality(A)
    BY <2>3, <2>5, FS_Subset
  <2> QED BY <2>4, <2>5, <2>6
<1>6. \A q \in M \ {m} : BytesLess(CollatedVersion(q), CollatedVersion(m))
  BY <1>5, KeyOrder
<1> QED BY <1>6

\* the names whose keys are in front of the seek
Smaller(d, name) == {m \in p2p[d] : BytesLess(CollatedVersion(m), SeekKey(name))}

\* Seek and Prev find the last key in front of the seek
LEMMA BeforeIs ==
    ASSUME NEW d, Listed(p2p[d]), NEW name
    PROVE  IF Smaller(d, name) = {} THEN Before(d, name) = None
           ELSE /\ Before(d, name) \in Smaller(d, name)
                /\ \A q \in Smaller(d, name) \ {Before(d, name)} :
                      BytesLess(CollatedVersion(q), CollatedVersion(Before(d, name)))
<1> DEFINE S == Smaller(d, name)
           P(m) == \A q \in S \ {m} : BytesLess(CollatedVersion(q), CollatedVersion(m))
<1>1. Before(d, name) = IF S = {} THEN None ELSE CHOOSE m \in S : P(m)
  BY DEF Before, Smaller
<1>2. ASSUME S # {}
      PROVE  \E m \in S : P(m)
  <2>1. Listed(S)
    <3>1. S \subseteq p2p[d]
      BY DEF Smaller
    <3> HIDE DEF S
    <3> QED BY <3>1, FS_Subset DEF Listed
  <2> HIDE DEF S
  <2> QED BY <1>2, <2>1, Maximum
<1> HIDE DEF S
<1>3. CASE S = {}
  BY <1>1, <1>3 DEF S
<1>4. CASE S # {}
  <2> DEFINE b == CHOOSE m \in S : P(m)
  <2>1. b \in S /\ P(b)
    BY <1>2, <1>4
  <2>2. Before(d, name) = b
    BY <1>1, <1>4
  <2> HIDE DEF b
  <2> QED BY <1>4, <2>1, <2>2 DEF S
<1> QED BY <1>3, <1>4

\* a name continues s with a dot
LEMMA AppendPrefix ==
    ASSUME NEW s \in Seq(Nat), NEW t \in Seq(Nat)
    PROVE  IsPrefix(Append(s, Dot), t) <=>
              /\ Len(s) < Len(t) /\ \A j \in 1 .. Len(s) : s[j] = t[j]
              /\ t[Len(s) + 1] = Dot
<1> DEFINE u == Append(s, Dot)
<1>1. /\ u \in Seq(Nat) /\ Len(u) = Len(s) + 1 /\ Len(s) \in Nat /\ Len(t) \in Nat
      /\ u[Len(s) + 1] = Dot
      /\ \A j \in 1 .. Len(s) : u[j] = s[j]
  BY DEF Dot
<1> HIDE DEF u
<1>2. IsPrefix(u, t) <=> Len(u) <= Len(t) /\ \A j \in 1 .. Len(u) : u[j] = t[j]
  BY <1>1, PrefixAgrees
<1>3. (\A j \in 1 .. Len(u) : u[j] = t[j]) <=>
         (\A j \in 1 .. Len(s) : s[j] = t[j]) /\ t[Len(s) + 1] = Dot
  <2>1. ASSUME \A j \in 1 .. Len(u) : u[j] = t[j]
        PROVE  (\A j \in 1 .. Len(s) : s[j] = t[j]) /\ t[Len(s) + 1] = Dot
    <3>1. Len(s) + 1 \in 1 .. Len(u) /\ \A j \in 1 .. Len(s) : j \in 1 .. Len(u)
      BY <1>1
    <3> QED BY <1>1, <2>1, <3>1
  <2>2. ASSUME \A j \in 1 .. Len(s) : s[j] = t[j], t[Len(s) + 1] = Dot,
               NEW j \in 1 .. Len(u)
        PROVE  u[j] = t[j]
    <3>1. j \in 1 .. Len(s) \/ j = Len(s) + 1
      BY <1>1
    <3> QED BY <1>1, <2>2, <3>1
  <2> QED BY <2>1, <2>2
<1>4. Len(u) <= Len(t) <=> Len(s) < Len(t)
  BY <1>1
<1> QED BY <1>2, <1>3, <1>4 DEF u

\* the key of such a name starts with the key of s and a dot
LEMMA MatchKey ==
    ASSUME NEW s \in Seq(Nat), NEW t \in Seq(Nat), IsPrefix(Append(s, Dot), t)
    PROVE  /\ Collation(t)[Len(s) + 1] \in Seq(Nat)
           /\ Len(Collation(t)[Len(s) + 1]) >= 1
           /\ Collation(t)[Len(s) + 1][1] = Dot
           /\ CollatedVersion(t) = CollatedVersion(s) \o Collation(t)[Len(s) + 1]
<1>1. Len(s) < Len(t) /\ (\A j \in 1 .. Len(s) : s[j] = t[j]) /\ t[Len(s) + 1] = Dot
  BY AppendPrefix
<1>2. ~IsDigit(t[Len(s) + 1])
  BY <1>1 DEF IsDigit, Dot
<1>3. Len(s) + 1 \in 1 .. Len(t)
  BY <1>1
<1>4. CollatedVersion(t) = CollatedVersion(s) \o Collation(t)[Len(s) + 1]
  BY <1>1, <1>2, PrefixKey DEF CollatedVersion
<1>5. /\ Collation(t)[Len(s) + 1] \in Seq(Nat) /\ Len(Collation(t)[Len(s) + 1]) >= 1
      /\ Collation(t)[Len(s) + 1][1] = t[Len(s) + 1]
  BY <1>2, <1>3, FirstByte
<1> QED BY <1>1, <1>4, <1>5

\* the seek is the key of the name and a byte above all others
LEMMA SeekKeyIs ==
    ASSUME NEW s \in Seq(Nat)
    PROVE  SeekKey(s) = CollatedVersion(s) \o <<255>> /\ <<255>> \in Seq(Nat)
<1> DEFINE k == CollatedVersion(s)
<1>1. k \in Seq(Nat)
  BY KeyType
<1> HIDE DEF k
<1>2. Append(k, 255) = k \o <<255>>
  BY <1>1
<1> QED BY <1>2 DEF SeekKey, k

\* the names looked for are in front of the seek
LEMMA MatchSmaller ==
    ASSUME NEW s \in Seq(Nat), NEW t \in Seq(Nat), IsPrefix(Append(s, Dot), t)
    PROVE  BytesLess(CollatedVersion(t), SeekKey(s))
<1> DEFINE k == CollatedVersion(s)
           x == Collation(t)[Len(s) + 1]
           y == <<255>>
<1>1. x \in Seq(Nat) /\ Len(x) >= 1 /\ x[1] = Dot /\ CollatedVersion(t) = k \o x
  BY MatchKey
<1>2. k \in Seq(Nat)
  BY KeyType
<1>3. y \in Seq(Nat) /\ Len(y) >= 1 /\ y[1] = 255
  OBVIOUS
<1>4. SeekKey(s) = k \o y
  BY SeekKeyIs
<1> HIDE DEF k, x, y
<1>5. BytesLess(x, y)
  <2>1. x[1] < y[1] /\ x[1] # y[1]
    BY <1>1, <1>3 DEF Dot
  <2>2. x \in Seq(Nat) /\ Len(x) >= 1
    BY <1>1
  <2> QED BY <1>3, <2>1, <2>2, BytesLessFirst
<1>6. BytesLess(k \o x, k \o y)
  BY <1>1, <1>2, <1>3, <1>5, BytesLessCancel
<1> QED BY <1>1, <1>4, <1>6

\* a hit continues the name looked up with a dot, and no listed name that
\* does has a later key
LEMMA UnderIs ==
    ASSUME NEW d, Listed(p2p[d]), NEW name \in Seq(Nat), Under(d, name) # None
    PROVE  /\ Under(d, name) \in Matches(d, name)
           /\ \A q \in Matches(d, name) \ {Under(d, name)} :
                 BytesLess(CollatedVersion(q), CollatedVersion(Under(d, name)))
<1> DEFINE b == Before(d, name)
<1>1. Under(d, name) = b /\ IsPrefix(Append(name, Dot), b)
  BY DEF Under
<1>2. b # None
  BY <1>1
<1>3. /\ b \in Smaller(d, name)
      /\ \A q \in Smaller(d, name) \ {b} : BytesLess(CollatedVersion(q), CollatedVersion(b))
  BY <1>2, BeforeIs
<1> HIDE DEF b
<1>4. b \in Matches(d, name)
  BY <1>1, <1>3 DEF Smaller, Matches
<1>5. Matches(d, name) \subseteq Smaller(d, name)
  BY MatchSmaller DEF Smaller, Matches, Listed
<1> QED BY <1>1, <1>3, <1>4, <1>5
\* what is behind the first l elements
LEMMA Rest ==
    ASSUME NEW z \in Seq(Nat), NEW l \in Nat, l <= Len(z)
    PROVE  /\ SubSeq(z, l + 1, Len(z)) \in Seq(Nat)
           /\ Len(SubSeq(z, l + 1, Len(z))) = Len(z) - l
           /\ \A j \in 1 .. Len(z) - l : SubSeq(z, l + 1, Len(z))[j] = z[l + j]
<1>1. Len(z) \in Nat
  OBVIOUS
<1>2. CASE l < Len(z)
  BY <1>1, <1>2
<1>3. CASE l = Len(z)
  <2>1. SubSeq(z, l + 1, Len(z)) = <<>>
    BY <1>1, <1>3, SubSeqEmpty
  <2> QED BY <1>1, <1>3, <2>1
<1> QED BY <1>1, <1>2, <1>3

\* a key between two that start with k starts with k itself
LEMMA Between ==
    ASSUME NEW k \in Seq(Nat), NEW x \in Seq(Nat), NEW y \in Seq(Nat), NEW z \in Seq(Nat),
           Len(x) >= 1, Len(y) = 1,
           BytesLess(k \o x, z), BytesLess(z, k \o y)
    PROVE  \E r \in Seq(Nat) : z = k \o r /\ Len(r) >= 1 /\ x[1] <= r[1]
<1> DEFINE kx == k \o x
           ky == k \o y
<1>1. /\ kx \in Seq(Nat) /\ ky \in Seq(Nat)
      /\ Len(k) \in Nat /\ Len(x) \in Nat /\ Len(z) \in Nat
      /\ Len(kx) = Len(k) + Len(x) /\ Len(ky) = Len(k) + 1
      /\ \A i \in 1 .. Len(k) : kx[i] = k[i] /\ ky[i] = k[i]
  <2>1. /\ kx \in Seq(Nat) /\ Len(kx) = Len(k) + Len(x)
        /\ \A i \in 1 .. Len(k) : kx[i] = k[i]
    BY ConcatAt
  <2>2. /\ ky \in Seq(Nat) /\ Len(ky) = Len(k) + Len(y)
        /\ \A i \in 1 .. Len(k) : ky[i] = k[i]
    BY ConcatAt, ZenonT(40)
  <2>3. Len(k) \in Nat /\ Len(x) \in Nat /\ Len(z) \in Nat
    BY LenProperties
  <2> HIDE DEF kx, ky
  <2> QED BY <2>1, <2>2, <2>3
<1> HIDE DEF kx, ky
<1>2. BytesLess(kx, z) /\ BytesLess(z, ky)
  BY DEF kx, ky
<1>3. PICK n \in Nat : LessAt(z, ky, n)
  BY <1>1, <1>2, BytesLessAt
<1>4. /\ n \in 1 .. Len(k) + 1 /\ n <= Len(z) + 1
      /\ \A j \in 1 .. n - 1 : z[j] = ky[j]
      /\ n <= Len(z) => z[n] < ky[n]
  BY <1>1, <1>3 DEF LessAt
<1>5. n = Len(k) + 1
  <2> SUFFICES ASSUME n # Len(k) + 1
               PROVE  FALSE
    OBVIOUS
  <2>1. n \in 1 .. Len(k) /\ n \in 1 .. Len(kx)
    <3>1. /\ n \in 1 .. Len(k) + 1 /\ Len(k) \in Nat /\ Len(x) \in Nat
          /\ Len(kx) = Len(k) + Len(x)
      BY <1>1, <1>4
    <3> QED BY <3>1
  <2>2. ASSUME NEW j \in 1 .. n - 1
        PROVE  z[j] = kx[j]
    <3>1. j \in 1 .. Len(k)
      BY <1>1, <2>1
    <3> QED BY <1>1, <1>4, <3>1
  <2>3. n <= Len(z) => z[n] < kx[n]
    BY <1>1, <1>4, <2>1
  <2>4. LessAt(z, kx, n)
    BY <1>4, <2>1, <2>2, <2>3 DEF LessAt
  <2>5. BytesLess(z, kx)
    BY <1>1, <2>4, BytesLessAt
  <2> QED BY <1>1, <1>2, <2>5, BytesLessTransitive, BytesLessIrreflexive
<1>6. Len(k) <= Len(z)
  BY <1>1, <1>4, <1>5
<1>7. \A j \in 1 .. Len(k) : z[j] = k[j]
  <2>1. \A j \in 1 .. Len(k) : j \in 1 .. n - 1
    BY <1>1, <1>5
  <2> QED BY <1>1, <1>4, <2>1
<1> DEFINE r == SubSeq(z, Len(k) + 1, Len(z))
           kr == k \o r
<1>8. /\ r \in Seq(Nat) /\ Len(r) = Len(z) - Len(k)
      /\ \A j \in 1 .. Len(z) - Len(k) : r[j] = z[Len(k) + j]
  BY <1>1, <1>6, Rest
<1> HIDE DEF r
<1>9. /\ kr \in Seq(Nat) /\ Len(kr) = Len(k) + Len(r)
      /\ \A i \in 1 .. Len(k) : kr[i] = k[i]
      /\ \A i \in 1 .. Len(r) : kr[Len(k) + i] = r[i]
  BY <1>8, ConcatAt, SMTT(30)
<1> HIDE DEF kr
<1>10. kr = z
  <2>1. Len(kr) = Len(z)
    BY <1>1, <1>8, <1>9
  <2>2. ASSUME NEW j \in 1 .. Len(z)
        PROVE  kr[j] = z[j]
    <3>1. CASE j <= Len(k)
      <4>1. j \in 1 .. Len(k)
        BY <1>1, <3>1
      <4> QED BY <1>7, <1>9, <4>1
    <3>2. CASE j > Len(k)
      <4>1. PICK h \in 1 .. Len(z) - Len(k) : j = Len(k) + h
        <5>1. j - Len(k) \in 1 .. Len(z) - Len(k) /\ j = Len(k) + (j - Len(k))
          BY <1>1, <3>2
        <5> QED BY <5>1
      <4>2. h \in 1 .. Len(r)
        BY <1>8, <4>1
      <4> QED BY <1>8, <1>9, <4>1, <4>2
    <3> QED BY <1>1, <3>1, <3>2
  <2> QED BY <1>9, <2>1, <2>2, SeqEqual
<1>11. BytesLess(x, r)
  <2>1. BytesLess(k \o x, k \o r)
    BY <1>2, <1>10 DEF kx, kr
  <2> QED BY <1>8, <2>1, BytesLessCancel
<1>12. r # <<>>
  BY <1>11, BytesLessEmpty
<1>13. Len(r) >= 1
  BY <1>8, <1>12
<1>14. x[1] <= r[1]
  <2>1. x[1] \in Nat /\ r[1] \in Nat
    BY <1>8, <1>13, SMTT(30)
  <2>2. x[1] # r[1] => x[1] < r[1]
    BY <1>8, <1>11, <1>13, BytesLessFirst
  <2> QED BY <2>1, <2>2
<1> QED BY <1>8, <1>10, <1>13, <1>14 DEF kr

\* a miss means that no listed name continues this one with a dot, or that
\* one continues it with something ranked after a dot: that one's key is
\* between the keys looked for and the seek
LEMMA UnderFound ==
    ASSUME NEW d, Listed(p2p[d]), NEW name \in Seq(Nat), Ascii(name),
           Matches(d, name) # {}, ~Sibling(d, name)
    PROVE  Under(d, name) # None
<1> DEFINE b == Before(d, name)
           k == CollatedVersion(name)
           y == <<255>>
<1>1. PICK q \in p2p[d] : IsPrefix(Append(name, Dot), q)
  BY DEF Matches
<1>2. q \in Seq(Nat)
  BY DEF Listed
<1>3. q \in Smaller(d, name)
  BY <1>1, <1>2, MatchSmaller DEF Smaller
<1>4. /\ b \in Smaller(d, name)
      /\ b # q => BytesLess(CollatedVersion(q), CollatedVersion(b))
  BY <1>3, BeforeIs
<1>5. b \in p2p[d] /\ b \in Seq(Nat) /\ Ascii(b) /\ BytesLess(CollatedVersion(b), SeekKey(name))
  BY <1>4 DEF Smaller, Listed
<1>6. Len(name) \in Nat /\ Len(b) \in Nat
  BY <1>5
<1> HIDE DEF b
<1>7. IsPrefix(Append(name, Dot), b)
  <2>1. CASE b = q
    BY <1>1, <2>1
  <2>2. CASE b # q
    <3> DEFINE x == Collation(q)[Len(name) + 1]
               z == CollatedVersion(b)
    <3>1. x \in Seq(Nat) /\ Len(x) >= 1 /\ x[1] = Dot /\ CollatedVersion(q) = k \o x
      BY <1>1, <1>2, MatchKey
    <3>2. k \in Seq(Nat) /\ z \in Seq(Nat)
      BY <1>5, KeyType
    <3>3. SeekKey(name) = k \o y /\ y \in Seq(Nat) /\ Len(y) = 1
      BY SeekKeyIs
    <3>4. BytesLess(k \o x, z)
      BY <1>4, <2>2, <3>1
    <3>5. BytesLess(z, k \o y)
      BY <1>5, <3>3
    <3> HIDE DEF x, z, k, y
    <3>6. PICK r \in Seq(Nat) : z = k \o r /\ Len(r) >= 1 /\ x[1] <= r[1]
      BY <3>1, <3>2, <3>3, <3>4, <3>5, Between
    <3>7. Collation(b)[1] = Collation(name)[1] \o r
      BY <3>6 DEF z, k, CollatedVersion
    <3>8. /\ Len(name) <= Len(b) /\ \A j \in 1 .. Len(name) : name[j] = b[j]
          /\ r = Collation(b)[Len(name) + 1]
      BY <1>5, <3>7, Decode
    <3>9. Len(name) + 1 \in 1 .. Len(b)
      <4>1. Len(name) + 1 \in 1 .. Len(b) + 1
        BY <1>6, <3>8
      <4>2. r # <<>>
        BY <3>6
      <4>3. Len(name) + 1 # Len(b) + 1
        BY <1>5, <3>8, <4>1, <4>2, CollationEnd
      <4> QED BY <1>6, <4>1, <4>3
    <3>10. Len(name) < Len(b)
      BY <1>6, <3>9
    <3> DEFINE c == b[Len(name) + 1]
    <3>11. c \in Nat
      BY <1>5, <3>9
    <3>12. (~IsDigit(c) => r[1] = c) /\ 46 <= r[1]
      <4>1. ~IsDigit(c) => r[1] = c
        BY <1>5, <3>8, <3>9, FirstByte
      <4>2. 46 <= r[1]
        BY <3>1, <3>6 DEF Dot
      <4> QED BY <4>1, <4>2
    <3> HIDE DEF c
    <3>13. c >= 46
      BY <3>11, <3>12 DEF IsDigit
    <3>14. ~(c > Dot)
      <4> SUFFICES ASSUME c > Dot
                   PROVE  Sibling(d, name)
        OBVIOUS
      <4>1. IsPrefix(name, b)
        BY <1>5, <3>8, PrefixAgrees
      <4>2. name # b
        BY <3>10, <1>6
      <4> QED BY <1>5, <4>1, <4>2 DEF Sibling, IsStrictPrefix, c
    <3>15. c = Dot
      BY <3>11, <3>13, <3>14 DEF Dot
    <3> QED BY <1>5, <3>8, <3>10, <3>15, AppendPrefix DEF c
  <2> QED BY <2>1, <2>2
<1>8. b # None
  <2>1. Len(b) > 0
    BY <1>5, <1>6, <1>7, AppendPrefix
  <2> QED BY <2>1 DEF None
<1> QED BY <1>7, <1>8 DEF Under, b
----------------------------------------------------------------------------
(* The specification.                                                      *)

\* a pin's key in its bucket is the channel and the prefix
PinsUnique ==
    \A p, q \in pins :
        p.db = q.db /\ p.channel = q.channel /\ p.prefix = q.prefix => p = q

(***************************************************************************)
(* The variables keep their types: a database lists published names of its *)
(* own OS and architecture only, whatever exports are indexed (index,      *)
(* apkgdb/index.go).                                                       *)
(***************************************************************************)
THEOREM ResolveTypes == Spec => []TypeOK
<1>1. Init => TypeOK
  BY DEF Init, TypeOK
<1>2. TypeOK /\ [Next]_vars => TypeOK'
  <2> SUFFICES ASSUME TypeOK, [Next]_vars
               PROVE  TypeOK'
    OBVIOUS
  <2> USE DEF TypeOK
  <2>1. ASSUME NEW d \in DBs, NEW f \in Files, Index(d, f)
        PROVE  TypeOK'
    BY <2>1 DEF Index, Published
  <2>2. ASSUME NEW p \in Pins, IndexPin(p)
        PROVE  TypeOK'
    BY <2>2 DEF IndexPin
  <2>3. ASSUME NEW c \in Channels, SetChannel(c)
        PROVE  TypeOK'
    BY <2>3 DEF SetChannel
  <2>4. CASE UNCHANGED vars
    BY <2>4 DEF vars
  <2> QED BY <2>1, <2>2, <2>3, <2>4 DEF Next
<1> QED BY <1>1, <1>2, PTL DEF Spec

(***************************************************************************)
(* The pins buckets hold at most one version for each channel and prefix,  *)
(* in whatever order exports bring pins: the Put of a pin replaces the one *)
(* that was there.                                                         *)
(***************************************************************************)
THEOREM OnePinPerKey == Spec => []PinsUnique
<1>1. Init => PinsUnique
  BY DEF Init, PinsUnique
<1>2. PinsUnique /\ [Next]_vars => PinsUnique'
  <2> SUFFICES ASSUME PinsUnique, [Next]_vars
               PROVE  PinsUnique'
    OBVIOUS
  <2> USE DEF PinsUnique
  <2>1. ASSUME NEW d \in DBs, NEW f \in Files, Index(d, f)
        PROVE  PinsUnique'
    BY <2>1 DEF Index
  <2>2. ASSUME NEW p \in Pins, IndexPin(p)
        PROVE  PinsUnique'
    BY <2>2 DEF IndexPin
  <2>3. ASSUME NEW c \in Channels, SetChannel(c)
        PROVE  PinsUnique'
    BY <2>3 DEF SetChannel
  <2>4. CASE UNCHANGED vars
    BY <2>4 DEF vars
  <2> QED BY <2>1, <2>2, <2>3, <2>4 DEF Next
<1> QED BY <1>1, <1>2, PTL DEF Spec

\* a database lists names of published packages of its own
LEMMA ListedNames ==
    ASSUME TypeOK, AsciiNames, NEW d \in DBs
    PROVE  /\ Listed(p2p[d])
           /\ \A m \in p2p[d] : \E f \in Files : m = f.name /\ f.db = d
<1> DEFINE N == {f.name : f \in Files}
<1>1. IsFiniteSet(N)
  <2> DEFINE g == [f \in Files |-> f.name]
  <2>1. g \in Surjection(Files, N)
    BY DEF Surjection
  <2> HIDE DEF g, N
  <2> QED BY <2>1, ResolveAssumption, FS_Surjection
<1>2. p2p[d] \subseteq N
  BY DEF TypeOK
<1>3. IsFiniteSet(p2p[d])
  <2> HIDE DEF N
  <2> QED BY <1>1, <1>2, FS_Subset
<1>4. \A m \in N : m \in Seq(Nat) /\ Ascii(m)
  BY ResolveAssumption DEF AsciiNames
<1>5. \A m \in p2p[d] : \E f \in Files : m = f.name /\ f.db = d
  BY DEF TypeOK
<1> HIDE DEF N
<1> QED BY <1>2, <1>3, <1>4, <1>5 DEF Listed

\* no two listed names share a key
KeysDiffer ==
    \A d \in DBs : \A m, q \in p2p[d] :
        CollatedVersion(m) = CollatedVersion(q) => m = q

(***************************************************************************)
(* A database never stores two names under one key: what index puts into   *)
(* p2p under a collated key overwrites no other name's entry, even if runs *)
(* of digits are cut, so the bucket may be modelled by the set of its      *)
(* names.                                                                  *)
(***************************************************************************)
THEOREM KeysIdentifyNames == AsciiNames /\ Spec => []KeysDiffer
<1> SUFFICES ASSUME AsciiNames
             PROVE  Spec => []KeysDiffer
  OBVIOUS
<1>1. TypeOK => KeysDiffer
  <2> SUFFICES ASSUME TypeOK, NEW d \in DBs, NEW m \in p2p[d], NEW q \in p2p[d],
                      CollatedVersion(m) = CollatedVersion(q)
               PROVE  m = q
    BY DEF KeysDiffer
  <2>1. m \in Seq(Nat) /\ Ascii(m) /\ q \in Seq(Nat) /\ Ascii(q)
    BY ListedNames DEF Listed
  <2> QED BY <2>1, CollationInjective
<1> QED BY <1>1, ResolveTypes, PTL

(***************************************************************************)
(* The byte order of the keys collatedVersion makes is natSort's order of  *)
(* the names they were made from, for every set of ASCII names in which no *)
(* run of digits is longer than 33 and no number has a leading zero.       *)
(***************************************************************************)
THEOREM KeysAreNatural == AsciiNames /\ ShortNames /\ Spec => []CollationIsNatural
<1> SUFFICES ASSUME AsciiNames, ShortNames
             PROVE  Spec => []CollationIsNatural
  OBVIOUS
<1>1. TypeOK => CollationIsNatural
  <2> SUFFICES ASSUME TypeOK, NEW d \in DBs, NEW a \in p2p[d], NEW b \in p2p[d],
                      Plain(a), Plain(b)
               PROVE  BytesLess(CollatedVersion(a), CollatedVersion(b))
                        <=> NatsortCompare(a, b)
    BY DEF CollationIsNatural
  <2>1. /\ a \in Seq(Nat) /\ b \in Seq(Nat) /\ Ascii(a) /\ Ascii(b)
        /\ ShortNumbers(a) /\ ShortNumbers(b)
    BY ListedNames DEF Listed, ShortNames
  <2> QED BY <2>1, NaturalIsCollated
<1> QED BY <1>1, ResolveTypes, PTL
\* the elements of a reversed sequence
LEMMA ReverseAt ==
    ASSUME NEW s \in Seq(Nat)
    PROVE  /\ Reverse(s) \in Seq(Nat) /\ Len(Reverse(s)) = Len(s)
           /\ \A i \in 1 .. Len(s) : Reverse(s)[i] = s[(Len(s) - i) + 1]
<1> DEFINE r == [i \in 1 .. Len(s) |-> s[(Len(s) - i) + 1]]
<1>1. Len(s) \in Nat
  OBVIOUS
<1>2. \A i \in 1 .. Len(s) : s[(Len(s) - i) + 1] \in Nat
  <2> TAKE i \in 1 .. Len(s)
  <2>1. (Len(s) - i) + 1 \in 1 .. Len(s)
    BY <1>1
  <2> QED BY <2>1
<1>3. r \in Seq(Nat) /\ Len(r) = Len(s)
  BY <1>1, <1>2
<1> QED BY <1>3 DEF Reverse

\* a suffix is no longer, and agrees at its positions
LEMMA SuffixAgrees ==
    ASSUME NEW s \in Seq(Nat), NEW t \in Seq(Nat)
    PROVE  IsSuffix(s, t) <=>
              /\ Len(s) <= Len(t)
              /\ \A i \in 1 .. Len(s) : s[i] = t[(Len(t) - Len(s)) + i]
<1> DEFINE u == Reverse(s)
           v == Reverse(t)
<1>1. /\ u \in Seq(Nat) /\ Len(u) = Len(s) /\ Len(s) \in Nat
      /\ \A i \in 1 .. Len(s) : u[i] = s[(Len(s) - i) + 1]
  BY ReverseAt, LenProperties, Zenon
<1>2. /\ v \in Seq(Nat) /\ Len(v) = Len(t) /\ Len(t) \in Nat
      /\ \A i \in 1 .. Len(t) : v[i] = t[(Len(t) - i) + 1]
  BY ReverseAt, LenProperties, Zenon
<1> HIDE DEF u, v
<1>3. IsSuffix(s, t) <=> Len(s) <= Len(t) /\ \A i \in 1 .. Len(s) : u[i] = v[i]
  BY <1>1, <1>2, PrefixAgrees, SMTT(30) DEF IsSuffix, u, v
<1>4. ASSUME Len(s) <= Len(t), \A i \in 1 .. Len(s) : u[i] = v[i],
             NEW i \in 1 .. Len(s)
      PROVE  s[i] = t[(Len(t) - Len(s)) + i]
  <2> DEFINE j == (Len(s) - i) + 1
  <2>1. /\ j \in 1 .. Len(s) /\ j \in 1 .. Len(t)
        /\ (Len(s) - j) + 1 = i /\ (Len(t) - j) + 1 = (Len(t) - Len(s)) + i
    <3>1. Len(s) \in Nat /\ Len(t) \in Nat
      BY <1>1, <1>2
    <3> QED BY <1>4, <3>1
  <2> HIDE DEF j
  <2>2. u[j] = s[i]
    BY <1>1, <2>1
  <2>3. v[j] = t[(Len(t) - Len(s)) + i]
    BY <1>2, <2>1
  <2> QED BY <1>4, <2>1, <2>2, <2>3
<1>5. ASSUME Len(s) <= Len(t),
             \A i \in 1 .. Len(s) : s[i] = t[(Len(t) - Len(s)) + i],
             NEW j \in 1 .. Len(s)
      PROVE  u[j] = v[j]
  <2> DEFINE i == (Len(s) - j) + 1
  <2>1. /\ i \in 1 .. Len(s) /\ j \in 1 .. Len(t)
        /\ (Len(t) - j) + 1 = (Len(t) - Len(s)) + i
    <3>1. Len(s) \in Nat /\ Len(t) \in Nat
      BY <1>1, <1>2
    <3> QED BY <1>5, <3>1
  <2>2. u[j] = s[i]
    BY <1>1
  <2>3. v[j] = t[(Len(t) - Len(s)) + i]
    BY <1>2, <2>1
  <2> HIDE DEF i
  <2> QED BY <1>5, <2>1, <2>2, <2>3
<1> QED BY <1>3, <1>4, <1>5

\* a name that is cut
LEMMA CutName ==
    ASSUME NEW s \in Seq(Nat), NEW n \in Nat, n <= Len(s)
    PROVE  /\ SubSeq(s, 1, n) \in Seq(Nat) /\ Len(SubSeq(s, 1, n)) = n
           /\ \A i \in 1 .. n : SubSeq(s, 1, n)[i] = s[i]
           /\ Ascii(s) => Ascii(SubSeq(s, 1, n))
<1>1. Len(s) \in Nat /\ \A i \in 1 .. n : s[i] \in Nat /\ i \in 1 .. Len(s)
  OBVIOUS
<1>2. /\ SubSeq(s, 1, n) \in Seq(Nat) /\ Len(SubSeq(s, 1, n)) = n
      /\ \A i \in 1 .. n : SubSeq(s, 1, n)[i] = s[i]
  <2>1. CASE n = 0
    <3>1. SubSeq(s, 1, n) = <<>>
      BY <2>1, SubSeqEmpty
    <3> QED BY <2>1, <3>1
  <2>2. CASE n # 0
    BY <1>1, <2>2
  <2> QED BY <2>1, <2>2
<1> DEFINE u == SubSeq(s, 1, n)
<1> HIDE DEF u
<1>3. Len(u) = n /\ \A i \in 1 .. n : u[i] = s[i]
  BY <1>2 DEF u
<1>4. Ascii(s) => Ascii(u)
  BY <1>1, <1>3 DEF Ascii
<1> QED BY <1>2, <1>4 DEF u

\* ASCII names in a row
LEMMA ConcatAscii ==
    ASSUME NEW s \in Seq(Nat), NEW t \in Seq(Nat), Ascii(s), Ascii(t)
    PROVE  s \o t \in Seq(Nat) /\ Ascii(s \o t)
<1> DEFINE u == s \o t
<1>1. /\ u \in Seq(Nat) /\ Len(u) = Len(s) + Len(t) /\ Len(s) \in Nat /\ Len(t) \in Nat
      /\ \A i \in 1 .. Len(s) : u[i] = s[i]
      /\ \A i \in 1 .. Len(t) : u[Len(s) + i] = t[i]
  BY ConcatAt
<1> HIDE DEF u
<1>2. ASSUME NEW i \in 1 .. Len(u)
      PROVE  u[i] \in 0 .. 127
  <2>1. CASE i <= Len(s)
    <3>1. i \in 1 .. Len(s)
      BY <1>1, <2>1
    <3> QED BY <1>1, <3>1 DEF Ascii
  <2>2. CASE i > Len(s)
    <3>1. i - Len(s) \in 1 .. Len(t) /\ i = Len(s) + (i - Len(s))
      BY <1>1, <2>2
    <3>2. PICK j \in 1 .. Len(t) : i = Len(s) + j
      BY <3>1
    <3>3. u[i] = t[j]
      BY <1>1, <3>2
    <3> QED BY <3>3 DEF Ascii
  <2> QED BY <1>1, <2>1, <2>2
<1>3. Ascii(u)
  BY <1>2 DEF Ascii
<1> QED BY <1>1, <1>3 DEF u

\* names a user may type are names of the kind that is listed
LEMMA QueryNames ==
    ASSUME AsciiNames, NEW name \in Queries
    PROVE  name \in Seq(Nat) /\ Ascii(name)
<1> DEFINE Cuts(m) == {SubSeq(m, 1, i - 1) : i \in {j \in 2 .. Len(m) : m[j] = Dot}}
           short(f) == Cuts(Stripped(f.db, f.name)) \cup {Stripped(f.db, f.name)}
           Good(q) == q \in Seq(Nat) /\ Ascii(q)
<1>1. PICK f \in Files :
         name \in short(f) \cup {f.name} \cup {q \o Suffix[f.db] : q \in short(f)}
  BY Zenon DEF Queries
<1>2. Good(f.name) /\ Good(Suffix[f.db]) /\ IsSuffix(Suffix[f.db], f.name)
  BY ResolveAssumption DEF AsciiNames
<1> DEFINE s == Stripped(f.db, f.name)
<1>3. Good(s)
  <2> DEFINE n == f.name
             x == Suffix[f.db]
  <2>1. Len(x) <= Len(n) /\ Len(x) \in Nat /\ Len(n) \in Nat
    BY <1>2, SuffixAgrees
  <2>2. s = SubSeq(n, 1, Len(n) - Len(x))
    BY DEF Stripped
  <2> HIDE DEF n, x
  <2>3. Len(n) - Len(x) \in Nat /\ Len(n) - Len(x) <= Len(n)
    BY <2>1
  <2>4. n \in Seq(Nat) /\ Ascii(n)
    BY <1>2 DEF n
  <2> QED BY <2>2, <2>3, <2>4, CutName
<1> HIDE DEF s
<1>4. ASSUME NEW q \in short(f)
      PROVE  Good(q)
  <2>1. CASE q = s
    BY <1>3, <2>1
  <2>2. CASE q # s
    <3>1. q \in Cuts(s)
      BY <2>2 DEF s
    <3>2. PICK i \in 2 .. Len(s) : q = SubSeq(s, 1, i - 1)
      BY <3>1
    <3>3. Len(s) \in Nat
      BY <1>3
    <3>4. i - 1 \in Nat /\ i - 1 <= Len(s)
      BY <3>2, <3>3
    <3> QED BY <1>3, <3>2, <3>4, CutName
  <2> QED BY <2>1, <2>2
<1> HIDE DEF short
<1>5. CASE name \in short(f)
  BY <1>4, <1>5
<1>6. CASE name = f.name
  BY <1>2, <1>6
<1>7. ASSUME NEW q \in short(f), name = q \o Suffix[f.db]
      PROVE  Good(name)
  BY <1>2, <1>4, <1>7, ConcatAscii
<1> QED BY <1>1, <1>5, <1>6, <1>7

\* the hit is the latest version, by natSort's order
LEMMA UnderLatest ==
    ASSUME TypeOK, AsciiNames, ShortNames, NEW d \in DBs, NEW name \in Seq(Nat),
           Under(d, name) # None, \A q \in Matches(d, name) : Plain(q)
    PROVE  IsLatest(Under(d, name), Matches(d, name))
<1> DEFINE m == Under(d, name)
<1>1. /\ m \in Matches(d, name)
      /\ \A q \in Matches(d, name) \ {m} : BytesLess(CollatedVersion(q), CollatedVersion(m))
  BY ListedNames, UnderIs
<1>2. \A q \in Matches(d, name) : q \in Seq(Nat) /\ Ascii(q) /\ ShortNumbers(q)
  BY ListedNames DEF Listed, Matches, ShortNames
<1> HIDE DEF m
<1>3. \A q \in Matches(d, name) \ {m} : NatsortCompare(q, m)
  BY <1>1, <1>2, NaturalIsCollated
<1> QED BY <1>1, <1>3 DEF IsLatest, m

\* a pinned name is a name, and what continues it continues the name that
\* was looked up
LEMMA PinnedNames ==
    ASSUME TypeOK, AsciiNames, NEW d \in DBs, NEW name \in Seq(Nat), Ascii(name),
           NEW p \in LookupPin(d, name)
    PROVE  /\ PinnedName(name, p) \in Seq(Nat) /\ Ascii(PinnedName(name, p))
           /\ Matches(d, PinnedName(name, p)) \subseteq Matches(d, name)
<1> DEFINE u == name \o <<Dot>>
           v == p.version
           n == u \o v
<1>1. PinnedName(name, p) = n
  BY DEF PinnedName
<1>2. p \in Pins
  BY DEF LookupPin, TypeOK
<1>3. v \in Seq(Nat) /\ Ascii(v)
  BY <1>2, ResolveAssumption DEF AsciiNames
<1>4. <<Dot>> \in Seq(Nat) /\ Ascii(<<Dot>>) /\ Len(<<Dot>>) = 1 /\ <<Dot>>[1] = Dot
  BY DEF Dot, Ascii
<1>5. u \in Seq(Nat) /\ Ascii(u)
  BY <1>4, ConcatAscii
<1>6. /\ Len(u) = Len(name) + 1 /\ Len(name) \in Nat /\ u[Len(name) + 1] = Dot
      /\ \A j \in 1 .. Len(name) : u[j] = name[j]
  <2>1. /\ Len(u) = Len(name) + Len(<<Dot>>)
        /\ \A j \in 1 .. Len(name) : u[j] = name[j]
        /\ \A j \in 1 .. Len(<<Dot>>) : u[Len(name) + j] = <<Dot>>[j]
    BY <1>4, ConcatAt
  <2> HIDE DEF u
  <2>2. 1 \in 1 .. Len(<<Dot>>)
    BY <1>4
  <2>3. u[Len(name) + 1] = Dot
    BY <1>4, <2>1, <2>2
  <2> QED BY <1>4, <2>1, <2>3
<1> HIDE DEF u, v
<1>7. n \in Seq(Nat) /\ Ascii(n)
  BY <1>3, <1>5, ConcatAscii
<1>8. Len(n) >= Len(u) /\ Len(n) \in Nat /\ \A j \in 1 .. Len(u) : n[j] = u[j]
  BY <1>3, <1>5, ConcatAt
<1> HIDE DEF n
<1>9. /\ Len(name) < Len(n) /\ n[Len(name) + 1] = Dot
      /\ \A j \in 1 .. Len(name) : n[j] = name[j]
  <2>1. Len(name) < Len(n)
    BY <1>6, <1>8
  <2>2. Len(name) + 1 \in 1 .. Len(u) /\ \A j \in 1 .. Len(name) : j \in 1 .. Len(u)
    BY <1>6
  <2> QED BY <1>6, <1>8, <2>1, <2>2
<1>10. ASSUME NEW m \in Matches(d, n)
       PROVE  m \in Matches(d, name)
  <2>1. m \in p2p[d] /\ m \in Seq(Nat) /\ IsPrefix(Append(n, Dot), m)
    BY <1>10, ListedNames DEF Matches, Listed
  <2>2. Len(n) < Len(m) /\ \A j \in 1 .. Len(n) : n[j] = m[j]
    BY <1>7, <2>1, AppendPrefix
  <2>3. Len(name) < Len(m) /\ Len(m) \in Nat
    BY <1>6, <1>8, <1>9, <2>1, <2>2
  <2>4. Len(name) + 1 \in 1 .. Len(n) /\ \A j \in 1 .. Len(name) : j \in 1 .. Len(n)
    BY <1>6, <1>8, <1>9
  <2>5. m[Len(name) + 1] = Dot /\ \A j \in 1 .. Len(name) : name[j] = m[j]
    BY <1>9, <2>2, <2>4
  <2>6. IsPrefix(Append(name, Dot), m)
    BY <2>1, <2>3, <2>5, AppendPrefix
  <2> QED BY <2>1, <2>6 DEF Matches
<1> QED BY <1>1, <1>7, <1>10

\* at most one pin applies to a lookup
LEMMA PinnedIs ==
    ASSUME PinsUnique, NEW d, NEW name, NEW p \in LookupPin(d, name)
    PROVE  /\ LookupPin(d, name) = {p}
           /\ PinnedMatches(d, name) = Matches(d, PinnedName(name, p))
<1>1. LookupPin(d, name) = {p}
  BY DEF LookupPin, PinsUnique
<1> QED BY <1>1 DEF PinnedMatches

\* what internalLookup finds that is not the full name
LEMMA HitIs ==
    ASSUME NEW d, NEW name, InternalLookup(d, name) # None, InternalLookup(d, name) # name
    PROVE  \/ \E p \in LookupPin(d, name) :
                 InternalLookup(d, name) = Under(d, PinnedName(name, p))
           \/ InternalLookup(d, name) = Under(d, name)
<1> DEFINE P == {Under(d, PinnedName(name, p)) : p \in LookupPin(d, name)} \ {None}
<1>1. CASE P = {}
  BY <1>1 DEF InternalLookup
<1>2. CASE P # {}
  <2>1. (CHOOSE m \in P : TRUE) \in P
    BY <1>2
  <2>2. InternalLookup(d, name) = CHOOSE m \in P : TRUE
    BY <1>2 DEF InternalLookup
  <2>3. InternalLookup(d, name) \in P
    BY <2>1, <2>2
  <2> QED BY <2>3
<1> QED BY <1>1, <1>2

\* what is found under a name with a dot is a hit
LEMMA HitFound ==
    ASSUME NEW d, NEW name, Contains(name, Dot), name # None, Under(d, name) # None
    PROVE  InternalLookup(d, name) # None
<1> DEFINE P == {Under(d, PinnedName(name, p)) : p \in LookupPin(d, name)} \ {None}
<1>1. CASE P = {}
  BY <1>1 DEF InternalLookup
<1>2. CASE P # {}
  <2>1. (CHOOSE m \in P : TRUE) \in P
    BY <1>2
  <2>2. name \notin p2p[d] => InternalLookup(d, name) = CHOOSE m \in P : TRUE
    BY <1>2 DEF InternalLookup
  <2>3. name \in p2p[d] => InternalLookup(d, name) = name
    BY DEF InternalLookup
  <2>4. None \notin P
    OBVIOUS
  <2> HIDE DEF P
  <2> QED BY <2>1, <2>2, <2>3, <2>4
<1> QED BY <1>1, <1>2

(***************************************************************************)
(* With any packages, pins and channels, a name in the root directory      *)
(* never stands for the wrong package: a hit of internalLookup is the      *)
(* package of that full name, or in natSort's order the latest of the      *)
(* pinned versions, or the latest of all versions. One seek and one step   *)
(* back are enough.                                                        *)
(***************************************************************************)
THEOREM WrongVersionNever == AsciiNames /\ ShortNames /\ Spec => []NeverWrongVersion
<1> SUFFICES ASSUME AsciiNames, ShortNames
             PROVE  Spec => []NeverWrongVersion
  OBVIOUS
<1>1. TypeOK /\ PinsUnique => NeverWrongVersion
  <2> SUFFICES ASSUME TypeOK, PinsUnique, NEW d \in DBs, NEW name \in Queries,
                      \A q \in Matches(d, name) : Plain(q),
                      InternalLookup(d, name) # None, InternalLookup(d, name) # name
               PROVE  \/ IsLatest(InternalLookup(d, name), PinnedMatches(d, name))
                      \/ IsLatest(InternalLookup(d, name), Matches(d, name))
    BY DEF NeverWrongVersion
  <2> DEFINE m == InternalLookup(d, name)
  <2>1. name \in Seq(Nat) /\ Ascii(name)
    BY QueryNames
  <2>2. \/ \E p \in LookupPin(d, name) : m = Under(d, PinnedName(name, p))
        \/ m = Under(d, name)
    BY HitIs
  <2> HIDE DEF m
  <2>3. m # None
    BY DEF m
  <2>4. ASSUME NEW p \in LookupPin(d, name), m = Under(d, PinnedName(name, p))
        PROVE  IsLatest(m, PinnedMatches(d, name))
    <3> DEFINE n == PinnedName(name, p)
    <3>1. n \in Seq(Nat) /\ Matches(d, n) \subseteq Matches(d, name)
      BY <2>1, PinnedNames
    <3>2. PinnedMatches(d, name) = Matches(d, n)
      BY PinnedIs
    <3> HIDE DEF n
    <3>3. Under(d, n) # None
      BY <2>3, <2>4 DEF n
    <3>4. IsLatest(Under(d, n), Matches(d, n))
      BY <3>1, <3>3, UnderLatest
    <3> QED BY <2>4, <3>2, <3>4 DEF n
  <2>5. ASSUME m = Under(d, name)
        PROVE  IsLatest(m, Matches(d, name))
    <3>1. Under(d, name) # None
      BY <2>3, <2>5
    <3>2. IsLatest(Under(d, name), Matches(d, name))
      BY <2>1, <3>1, UnderLatest
    <3> QED BY <2>5, <3>2
  <2> QED BY <2>2, <2>4, <2>5 DEF m
<1> QED BY <1>1, ResolveTypes, OnePinPerKey, PTL

(***************************************************************************)
(* internalLookup only misses a listed version, or passes over a pinned    *)
(* one, if another listed name continues the name looked for with          *)
(* something ranked after a dot: the check of the name behind Prev rejects *)
(* nothing else.                                                           *)
(***************************************************************************)
THEOREM MissOnlyBySibling == AsciiNames /\ ShortNames /\ Spec => []FoundUnlessSibling
<1> SUFFICES ASSUME AsciiNames, ShortNames
             PROVE  Spec => []FoundUnlessSibling
  OBVIOUS
<1>1. TypeOK /\ PinsUnique => FoundUnlessSibling
  <2> SUFFICES ASSUME TypeOK, PinsUnique, NEW d \in DBs, NEW name \in Queries,
                      Contains(name, Dot)
               PROVE  /\ Matches(d, name) # {} /\ ~Sibling(d, name) =>
                            InternalLookup(d, name) # None
                      /\ (/\ PinnedMatches(d, name) # {} /\ name \notin p2p[d]
                          /\ \A q \in Matches(d, name) : Plain(q)
                          /\ \A p \in LookupPin(d, name) : ~Sibling(d, PinnedName(name, p))) =>
                            IsLatest(InternalLookup(d, name), PinnedMatches(d, name))
    BY DEF FoundUnlessSibling
  <2> DEFINE m == InternalLookup(d, name)
  <2>1. name \in Seq(Nat) /\ Ascii(name) /\ name # None
    BY QueryNames DEF Contains, None
  <2>2. Listed(p2p[d])
    BY ListedNames
  <2>3. ASSUME Matches(d, name) # {}, ~Sibling(d, name)
        PROVE  m # None
    <3>1. Under(d, name) # None
      BY <2>1, <2>2, <2>3, UnderFound
    <3> QED BY <2>1, <3>1, HitFound
  <2>4. ASSUME PinnedMatches(d, name) # {}, name \notin p2p[d],
               \A q \in Matches(d, name) : Plain(q),
               \A p \in LookupPin(d, name) : ~Sibling(d, PinnedName(name, p))
        PROVE  IsLatest(m, PinnedMatches(d, name))
    <3>1. PICK p \in LookupPin(d, name) : Matches(d, PinnedName(name, p)) # {}
      BY <2>4 DEF PinnedMatches
    <3> DEFINE n == PinnedName(name, p)
    <3>2. n \in Seq(Nat) /\ Ascii(n) /\ Matches(d, n) \subseteq Matches(d, name)
      BY <2>1, PinnedNames
    <3>3. LookupPin(d, name) = {p} /\ PinnedMatches(d, name) = Matches(d, n)
      BY PinnedIs
    <3>4. Under(d, n) # None
      <4>1. Matches(d, n) # {} /\ ~Sibling(d, n)
        BY <2>4, <3>1
      <4> HIDE DEF n
      <4> QED BY <2>2, <3>2, <4>1, UnderFound
    <3>5. m = Under(d, n)
      <4>1. {Under(d, PinnedName(name, q)) : q \in LookupPin(d, name)} \ {None} = {Under(d, n)}
        BY <3>3, <3>4
      <4> QED BY <2>4, <4>1 DEF InternalLookup
    <3> HIDE DEF n
    <3>6. \A q \in Matches(d, n) : Plain(q)
      BY <2>4, <3>2
    <3>7. IsLatest(Under(d, n), Matches(d, n))
      BY <3>2, <3>4, <3>6, UnderLatest
    <3> QED BY <3>3, <3>5, <3>7
  <2> QED BY <2>3, <2>4
<1> QED BY <1>1, ResolveTypes, OnePinPerKey, PTL

\* nothing listed continues a suffix with a dot
LEMMA NothingAfterSuffix ==
    ASSUME TypeOK, AsciiNames, SuffixLast, NEW d \in DBs, NEW name \in Seq(Nat)
    PROVE  Matches(d, name \o Suffix[d]) = {}
<1> DEFINE x == Suffix[d]
           n == name \o x
<1>1. x \in Seq(Nat)
  BY ResolveAssumption
<1> HIDE DEF x
<1>2. /\ n \in Seq(Nat) /\ Len(name) \in Nat /\ Len(x) \in Nat
      /\ Len(n) = Len(name) + Len(x)
      /\ \A i \in 1 .. Len(x) : n[Len(name) + i] = x[i]
  BY <1>1, ConcatAt
<1> HIDE DEF n
<1> SUFFICES ASSUME NEW m \in Matches(d, n)
             PROVE  FALSE
  BY DEF n, x
<1>3. /\ m \in p2p[d] /\ m \in Seq(Nat) /\ IsPrefix(Append(n, Dot), m)
      /\ \E f \in Files : m = f.name
  BY ListedNames DEF Matches, Listed
<1>4. /\ Len(n) < Len(m) /\ m[Len(n) + 1] = Dot /\ Len(m) \in Nat
      /\ \A j \in 1 .. Len(n) : n[j] = m[j]
  <2>1. n \in Seq(Nat) /\ m \in Seq(Nat) /\ IsPrefix(Append(n, Dot), m)
    BY <1>2, <1>3
  <2>2. /\ Len(n) < Len(m) /\ m[Len(n) + 1] = Dot
        /\ \A j \in 1 .. Len(n) : n[j] = m[j]
    BY <2>1, AppendPrefix
  <2>3. Len(m) \in Nat
    BY <2>1
  <2> QED BY <2>2, <2>3
<1> DEFINE l == Len(name)
           r == SubSeq(m, l + 1, Len(m))
<1>5. l \in Nat /\ l <= Len(m) /\ l \in 0 .. Len(m)
  BY <1>2, <1>4
<1> HIDE DEF l
<1>6. /\ r \in Seq(Nat) /\ Len(r) = Len(m) - l
      /\ \A j \in 1 .. Len(m) - l : r[j] = m[l + j]
  BY <1>3, <1>5, Rest
<1>7. ~IsPrefix(Append(x, Dot), r)
  BY <1>3, <1>5 DEF SuffixLast, x
<1> HIDE DEF r
<1>8. Len(x) < Len(r)
  BY <1>2, <1>4, <1>6 DEF l
<1>9. ASSUME NEW j \in 1 .. Len(x)
      PROVE  x[j] = r[j]
  <2>1. j \in 1 .. Len(m) - l /\ l + j \in 1 .. Len(n)
    BY <1>2, <1>4 DEF l
  <2> QED BY <1>2, <1>4, <1>6, <2>1 DEF l
<1>10. r[Len(x) + 1] = Dot
  <2>1. Len(x) + 1 \in 1 .. Len(m) - l /\ l + (Len(x) + 1) = Len(n) + 1
    BY <1>2, <1>4 DEF l
  <2>2. r[Len(x) + 1] = m[l + (Len(x) + 1)]
    BY <1>6, <2>1
  <2> QED BY <1>4, <2>1, <2>2
<1> QED BY <1>1, <1>6, <1>7, <1>8, <1>9, <1>10, AppendPrefix

\* with the suffix only a full name is found
LEMMA SuffixedHit ==
    ASSUME TypeOK, AsciiNames, SuffixLast, NEW d \in DBs, NEW name \in Seq(Nat), Ascii(name)
    PROVE  /\ name \o Suffix[d] \in p2p[d] =>
                 InternalLookup(d, name \o Suffix[d]) = name \o Suffix[d]
           /\ name \o Suffix[d] \notin p2p[d] => InternalLookup(d, name \o Suffix[d]) = None
           /\ name \o Suffix[d] # None
<1> DEFINE x == Suffix[d]
           n == name \o x
<1>1. x \in Seq(Nat) /\ Ascii(x) /\ x # <<>> /\ x[1] = Dot
  BY ResolveAssumption DEF AsciiNames
<1> HIDE DEF x
<1>2. n \in Seq(Nat) /\ Ascii(n)
  BY <1>1, ConcatAscii
<1>3. Contains(n, Dot) /\ n # None
  <2>1. Len(x) >= 1 /\ Len(name) \in Nat /\ Len(x) \in Nat
    BY <1>1
  <2>2. n[Len(name) + 1] = x[1] /\ Len(n) = Len(name) + Len(x)
    BY <1>1, <2>1, ConcatAt
  <2> HIDE DEF n
  <2>3. Len(name) + 1 \in 1 .. Len(n)
    BY <2>1, <2>2
  <2>4. Len(n) # 0
    BY <2>1, <2>2
  <2> QED BY <1>1, <2>2, <2>3, <2>4 DEF Contains, None
<1>4. Matches(d, n) = {}
  BY NothingAfterSuffix DEF x
<1> HIDE DEF n
<1>5. Listed(p2p[d])
  BY ListedNames
<1>6. Under(d, n) = None
  BY <1>2, <1>4, <1>5, UnderIs
<1>7. ASSUME NEW p \in LookupPin(d, n)
      PROVE  Under(d, PinnedName(n, p)) = None
  <2>1. PinnedName(n, p) \in Seq(Nat) /\ Matches(d, PinnedName(n, p)) \subseteq Matches(d, n)
    BY <1>2, PinnedNames
  <2> QED BY <1>4, <1>5, <2>1, UnderIs
<1>8. {Under(d, PinnedName(n, p)) : p \in LookupPin(d, n)} \ {None} = {}
  BY <1>7
<1>9. InternalLookup(d, n) = IF n \in p2p[d] THEN n ELSE None
  BY <1>3, <1>6, <1>8 DEF InternalLookup
<1> QED BY <1>3, <1>9 DEF n, x

\* ParseArch and ParseOS recover the database a suffix was added for, and
\* cutting the suffix gives the name back
LEMMA SuffixDecides ==
    ASSUME NEW d \in DBs, NEW name \in Seq(Nat)
    PROVE  /\ Suffixed(name \o Suffix[d]) /\ SubGet(name \o Suffix[d]) = d
           /\ Stripped(d, name \o Suffix[d]) = name
<1> DEFINE x == Suffix[d]
           n == name \o x
<1>1. x \in Seq(Nat)
  BY ResolveAssumption
<1> HIDE DEF x
<1>2. /\ n \in Seq(Nat) /\ Len(name) \in Nat /\ Len(x) \in Nat
      /\ Len(n) = Len(name) + Len(x)
      /\ \A i \in 1 .. Len(x) : n[Len(name) + i] = x[i]
      /\ \A i \in 1 .. Len(name) : n[i] = name[i]
  BY <1>1, ConcatAt
<1> HIDE DEF n
<1>3. Len(n) - Len(x) = Len(name) /\ Len(x) <= Len(n) /\ Len(name) <= Len(n)
  BY <1>2
<1>4. IsSuffix(x, n)
  BY <1>1, <1>2, <1>3, SuffixAgrees
<1>5. ASSUME NEW e \in DBs, IsSuffix(Suffix[e], n)
      PROVE  e = d
  <2> DEFINE y == Suffix[e]
  <2>1. y \in Seq(Nat) /\ Len(y) \in Nat
    BY ResolveAssumption
  <2>2. IsSuffix(x, y) => d = e
    BY ResolveAssumption DEF x
  <2>3. IsSuffix(y, x) => d = e
    BY ResolveAssumption DEF x
  <2>4. IsSuffix(y, n)
    BY <1>5
  <2> HIDE DEF y
  <2>5. Len(y) <= Len(n) /\ \A i \in 1 .. Len(y) : y[i] = n[(Len(n) - Len(y)) + i]
    BY <1>2, <2>1, <2>4, SuffixAgrees
  <2>6. CASE Len(y) <= Len(x)
    <3>1. ASSUME NEW i \in 1 .. Len(y)
          PROVE  y[i] = x[(Len(x) - Len(y)) + i]
      <4> DEFINE j == (Len(x) - Len(y)) + i
      <4>1. j \in 1 .. Len(x) /\ Len(name) + j = (Len(n) - Len(y)) + i
        <5>1. /\ Len(name) \in Nat /\ Len(x) \in Nat /\ Len(y) \in Nat
              /\ Len(n) = Len(name) + Len(x)
          BY <1>2, <2>1
        <5> QED BY <2>6, <5>1
      <4> HIDE DEF j
      <4>2. n[Len(name) + j] = x[j]
        BY <1>2, <4>1
      <4> QED BY <2>5, <4>1, <4>2 DEF j
    <3>2. IsSuffix(y, x)
      BY <1>1, <2>1, <2>6, <3>1, SuffixAgrees
    <3> QED BY <2>3, <3>2
  <2>7. CASE Len(x) < Len(y)
    <3>1. ASSUME NEW i \in 1 .. Len(x)
          PROVE  x[i] = y[(Len(y) - Len(x)) + i]
      <4> DEFINE j == (Len(y) - Len(x)) + i
      <4>1. j \in 1 .. Len(y) /\ Len(name) + i = (Len(n) - Len(y)) + j
        <5>1. /\ Len(name) \in Nat /\ Len(x) \in Nat /\ Len(y) \in Nat
              /\ Len(n) = Len(name) + Len(x)
          BY <1>2, <2>1
        <5> QED BY <2>7, <5>1
      <4> HIDE DEF j
      <4>2. n[Len(name) + i] = x[i]
        BY <1>2
      <4> QED BY <2>5, <4>1, <4>2 DEF j
    <3>2. IsSuffix(x, y)
      <4>1. Len(x) <= Len(y)
        BY <1>2, <2>1, <2>7
      <4> QED BY <1>1, <2>1, <3>1, <4>1, SuffixAgrees
    <3> QED BY <2>2, <3>2
  <2> QED BY <1>2, <2>1, <2>6, <2>7
<1>6. Suffixed(n)
  BY <1>4 DEF Suffixed, x
<1>7. SubGet(n) = d
  <2>1. \E e \in DBs : IsSuffix(Suffix[e], n)
    BY <1>6 DEF Suffixed
  <2> QED BY <1>5, <2>1 DEF SubGet
<1>8. Stripped(d, n) = name
  <2>1. Stripped(d, n) = SubSeq(n, 1, Len(name))
    BY <1>3 DEF Stripped, x
  <2> DEFINE u == SubSeq(n, 1, Len(name))
  <2>2. u \in Seq(Nat) /\ Len(u) = Len(name) /\ \A i \in 1 .. Len(name) : u[i] = n[i]
    BY <1>2, <1>3, CutName
  <2> HIDE DEF u
  <2>3. u = name
    BY <1>2, <2>2, SeqEqual
  <2> QED BY <2>1, <2>3 DEF u
<1> QED BY <1>6, <1>7, <1>8 DEF n, x

(***************************************************************************)
(* Lookup with the suffix of a database gives the package the short name   *)
(* has there, for any databases no suffix of which ends another's.         *)
(***************************************************************************)
THEOREM SuffixNamesDb == AsciiNames /\ SuffixLast /\ Spec => []SuffixSelectsDb
<1> SUFFICES ASSUME AsciiNames, SuffixLast
             PROVE  Spec => []SuffixSelectsDb
  OBVIOUS
<1>1. TypeOK => SuffixSelectsDb
  <2> SUFFICES ASSUME TypeOK, NEW d \in DBs, NEW name \in Queries
               PROVE  Lookup(name \o Suffix[d]) =
                        IF name \o Suffix[d] \in p2p[d]
                        THEN name \o Suffix[d] ELSE InternalLookup(d, name)
    BY DEF SuffixSelectsDb
  <2> DEFINE n == name \o Suffix[d]
  <2>1. name \in Seq(Nat) /\ Ascii(name)
    BY QueryNames
  <2>2. /\ n \in p2p[d] => InternalLookup(d, n) = n
        /\ n \notin p2p[d] => InternalLookup(d, n) = None
        /\ n # None
    BY <2>1, SuffixedHit
  <2>3. Suffixed(n) /\ SubGet(n) = d /\ Stripped(d, n) = name
    BY <2>1, SuffixDecides
  <2> HIDE DEF n
  <2>4. Lookup(n) = IF n \in p2p[d] THEN n ELSE InternalLookup(d, name)
    BY <2>2, <2>3 DEF Lookup
  <2> QED BY <2>4 DEF n
<1> QED BY <1>1, ResolveTypes, PTL
=============================================================================
