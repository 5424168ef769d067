------------------------- MODULE SemanticIndexProofs -------------------------
(***************************************************************************)
(* Proofs about semantic retrieval, for any states of the repository and   *)
(* any size of a batch.                                                    *)
(*                                                                         *)
(* Any number of inspections, any faults: SemInv says that every list of   *)
(* ids, in memory, on disk and under way, is of documents of its own       *)
(* fingerprint, none of them twice.  So the count that index_status        *)
(* compares decides whether the documents are all there (ReadyIsComplete). *)
(*                                                                         *)
(* One inspection at a time:                                               *)
(*   WholeInv    what is searched compares every chunk (AnswerIsWhole)     *)
(*   BackedInv   the vectors of an id are on disk before a status file     *)
(*               names it (StatusIsBacked)                                 *)
(*   AlignedInv  with at most one fault, the file of rows a search finds   *)
(*               was written with the ids it finds (AnswerIsAligned)       *)
(***************************************************************************)
EXTENDS SemanticIndex, FiniteSetTheorems, SequenceTheorems, TLAPS

-----------------------------------------------------------------------------
(* Sequences of documents.                                                 *)

\* Filtering keeps the order, so that no document is lost or doubled.
LEMMA WithoutProperties ==
  ASSUME NEW S, NEW s \in Seq(S), NEW gone
  PROVE  /\ Without(s, gone) \in Seq(S)
         /\ Range(Without(s, gone)) = Range(s) \ gone
         /\ IsInjective(s) => IsInjective(Without(s, gone))
<1> DEFINE kept == {i \in DOMAIN s : s[i] \notin gone}
           upTo(i) == {j \in kept : j <= i}
           N == Cardinality(kept)
           pick(k) == CHOOSE i \in kept : Cardinality(upTo(i)) = k
<1>1. DOMAIN s = 1 .. Len(s) /\ Len(s) \in Nat /\ \A i \in DOMAIN s : s[i] \in S
  BY LenProperties, ElementOfSeq
<1>2. IsFiniteSet(kept) /\ N \in Nat
  <2>1. IsFiniteSet(1 .. Len(s))
    BY <1>1, FS_Interval
  <2>2. kept \subseteq 1 .. Len(s)
    BY <1>1
  <2> HIDE DEF kept
  <2> QED BY <2>1, <2>2, FS_Subset, FS_CardinalityType
<1>3. ASSUME NEW i \in kept
      PROVE  IsFiniteSet(upTo(i)) /\ Cardinality(upTo(i)) \in 1 .. N
  <2>1. upTo(i) \subseteq kept /\ i \in upTo(i)
    BY <1>1
  <2>2. IsFiniteSet(upTo(i)) /\ Cardinality(upTo(i)) <= N /\ Cardinality(upTo(i)) \in Nat
    BY <2>1, <1>2, FS_Subset, FS_CardinalityType
  <2>3. Cardinality(upTo(i)) # 0
    BY <2>1, <2>2, FS_EmptySet
  <2> QED BY <2>2, <2>3, <1>2
<1>4. ASSUME NEW i \in kept, NEW j \in kept, i < j
      PROVE  Cardinality(upTo(i)) < Cardinality(upTo(j))
  <2>1. upTo(i) \subseteq upTo(j) /\ upTo(i) # upTo(j)
    BY <1>1, <1>4
  <2>2. IsFiniteSet(upTo(j))
    BY <1>3
  <2> HIDE DEF upTo
  <2> QED BY <2>1, <2>2, FS_Subset, FS_CardinalityType
<1>5. \A k \in 1 .. N : pick(k) \in kept /\ Cardinality(upTo(pick(k))) = k
  <2> DEFINE R == [i \in kept |-> Cardinality(upTo(i))]
  <2>1. R \in Injection(kept, 1 .. N)
    <3>1. R \in [kept -> 1 .. N]
      BY <1>3
    <3>2. ASSUME NEW i \in kept, NEW j \in kept, R[i] = R[j] PROVE i = j
      <4>1. i \in Nat /\ j \in Nat
        BY <1>1
      <4>2. Cardinality(upTo(i)) = Cardinality(upTo(j)) /\ Cardinality(upTo(i)) \in Nat
        <5>1. R[i] = Cardinality(upTo(i)) /\ R[j] = Cardinality(upTo(j))
          OBVIOUS
        <5> HIDE DEF upTo, kept, R
        <5> QED BY <5>1, <3>2, <1>3
      <4> HIDE DEF upTo, kept
      <4> QED BY <4>1, <4>2, <1>4
    <3> QED BY <3>1, <3>2 DEF Injection, IsInjective
  <2>2. IsFiniteSet(1 .. N) /\ Cardinality(1 .. N) = N
    BY <1>2, FS_Interval
  <2> HIDE DEF R
  <2>3. R \in Surjection(kept, 1 .. N)
    BY <2>1, <2>2, <1>2, FS_Injection
  <2>4. ASSUME NEW k \in 1 .. N PROVE \E i \in kept : Cardinality(upTo(i)) = k
    BY <2>3 DEF Surjection, R
  <2> QED BY <2>4
<1>6. Without(s, gone) = [k \in 1 .. N |-> s[pick(k)]]
  BY DEF Without
<1> DEFINE w == [k \in 1 .. N |-> s[pick(k)]]
<1>7. w \in Seq(S)
  <2>1. \A k \in 1 .. N : s[pick(k)] \in S
    BY <1>1, <1>5
  <2>2. w \in [1 .. N -> S]
    BY <2>1
  <2> HIDE DEF w, N
  <2> QED BY <2>2, <1>2, SeqDef
<1>8. Range(w) = Range(s) \ gone
  <2>1. ASSUME NEW x \in Range(w) PROVE x \in Range(s) \ gone
    BY <1>5 DEF Range
  <2>2. ASSUME NEW x \in Range(s) \ gone PROVE x \in Range(w)
    <3>1. PICK i \in kept : x = s[i]
      BY DEF Range
    <3>2. Cardinality(upTo(i)) \in 1 .. N
      BY <1>3
    <3>3. PICK k \in 1 .. N : k = Cardinality(upTo(i))
      BY <3>2
    <3>4. pick(k) \in kept /\ Cardinality(upTo(pick(k))) = Cardinality(upTo(i))
      BY <1>5, <3>3
    <3>5. pick(k) = i
      <4>1. pick(k) \in Nat /\ i \in Nat /\ Cardinality(upTo(i)) \in Nat
        <5>1. pick(k) \in DOMAIN s /\ i \in DOMAIN s
          BY <3>4
        <5>2. Cardinality(upTo(i)) \in Nat
          <6> HIDE DEF kept, upTo
          <6> QED BY <3>2, <1>2
        <5> HIDE DEF kept, upTo, pick
        <5> QED BY <5>1, <5>2, <1>1
      <4>2. ~(pick(k) < i) /\ ~(i < pick(k))
        <5> HIDE DEF kept, upTo, pick
        <5> QED BY <4>1, <3>4, <1>4
      <4> HIDE DEF kept, upTo, pick
      <4> QED BY <4>1, <4>2
    <3> QED BY <3>1, <3>3, <3>5 DEF Range
  <2> QED BY <2>1, <2>2
<1>9. ASSUME IsInjective(s) PROVE IsInjective(w)
  <2>1. ASSUME NEW k \in 1 .. N, NEW m \in 1 .. N, s[pick(k)] = s[pick(m)] PROVE k = m
    <3>1. pick(k) \in DOMAIN s /\ pick(m) \in DOMAIN s
      BY <1>5
    <3>2. pick(k) = pick(m)
      BY <3>1, <2>1, <1>9 DEF IsInjective
    <3> QED BY <3>2, <1>5
  <2> QED BY <2>1 DEF IsInjective
<1> QED BY <1>6, <1>7, <1>8, <1>9

LEMMA IntervalSize ==
  ASSUME NEW m \in Nat
  PROVE  IsFiniteSet(1 .. m) /\ Cardinality(1 .. m) = m
<1>1. 1 \in Int /\ m \in Int
  OBVIOUS
<1> QED BY <1>1, FS_Interval

\* A list without repetitions is as long as its documents are many.
LEMMA ListSize ==
  ASSUME NEW S, NEW s \in Seq(S), IsInjective(s)
  PROVE  IsFiniteSet(Range(s)) /\ Cardinality(Range(s)) = Len(s)
<1>1. DOMAIN s = 1 .. Len(s) /\ Len(s) \in Nat /\ s \in [1 .. Len(s) -> S]
  BY LenProperties
<1>2. s \in Bijection(1 .. Len(s), Range(s))
  BY <1>1 DEF Bijection, Injection, Surjection, Range, IsInjective
<1>3. IsFiniteSet(1 .. Len(s)) /\ Cardinality(1 .. Len(s)) = Len(s)
  BY <1>1, IntervalSize
<1> QED BY <1>2, <1>3, FS_Bijection DEF ExistsBijection

\* Two lists without repetitions, one with the documents of the other: if they
\* are as long they hold the same (what index_status relies on).
LEMMA CountDecides ==
  ASSUME NEW S, NEW s \in Seq(S), NEW t \in Seq(S), IsInjective(s), IsInjective(t),
         Range(s) \subseteq Range(t)
  PROVE  Len(s) = Len(t) <=> Range(s) = Range(t)
<1>1. /\ IsFiniteSet(Range(s)) /\ Cardinality(Range(s)) = Len(s)
      /\ IsFiniteSet(Range(t)) /\ Cardinality(Range(t)) = Len(t)
  BY ListSize
<1> QED BY <1>1, FS_Subset

\* What is put behind a list without what the list has.
LEMMA MergeProperties ==
  ASSUME NEW S, NEW s \in Seq(S), NEW t \in Seq(S)
  PROVE  LET both == s \o Without(t, Range(s)) IN
         /\ both \in Seq(S)
         /\ Range(both) = Range(s) \cup Range(t)
         /\ IsInjective(s) /\ IsInjective(t) => IsInjective(both)
<1> DEFINE w == Without(t, Range(s))
           both == s \o w
<1>1. w \in Seq(S) /\ Range(w) = Range(t) \ Range(s) /\ (IsInjective(t) => IsInjective(w))
  BY WithoutProperties
<1> HIDE DEF w
<1>2. /\ both \in Seq(S) /\ Len(both) = Len(s) + Len(w)
      /\ \A i \in 1 .. Len(s) + Len(w) : both[i] = IF i <= Len(s) THEN s[i] ELSE w[i - Len(s)]
  BY <1>1, ConcatProperties
<1>3. /\ Len(s) \in Nat /\ Len(w) \in Nat /\ DOMAIN s = 1 .. Len(s) /\ DOMAIN w = 1 .. Len(w)
      /\ DOMAIN both = 1 .. Len(s) + Len(w)
  BY <1>1, <1>2, LenProperties
<1> HIDE DEF both
<1>4. Range(both) = Range(s) \cup Range(w)
  <2>1. ASSUME NEW x \in Range(both) PROVE x \in Range(s) \cup Range(w)
    <3>1. PICK i \in 1 .. Len(s) + Len(w) : x = both[i]
      BY <1>3 DEF Range
    <3>2. CASE i <= Len(s)
      BY <3>1, <3>2, <1>2, <1>3 DEF Range
    <3>3. CASE ~(i <= Len(s))
      <4>1. i - Len(s) \in 1 .. Len(w) /\ x = w[i - Len(s)]
        BY <3>1, <3>3, <1>2, <1>3
      <4> QED BY <4>1, <1>3 DEF Range
    <3> QED BY <3>2, <3>3
  <2>2. ASSUME NEW x \in Range(s) PROVE x \in Range(both)
    <3>1. PICK i \in 1 .. Len(s) : x = s[i]
      BY <1>3 DEF Range
    <3>2. i \in 1 .. Len(s) + Len(w) /\ both[i] = x
      BY <3>1, <1>2, <1>3
    <3> QED BY <3>2, <1>3 DEF Range
  <2>3. ASSUME NEW x \in Range(w) PROVE x \in Range(both)
    <3>1. PICK i \in 1 .. Len(w) : x = w[i]
      BY <1>3 DEF Range
    <3>2. i + Len(s) \in 1 .. Len(s) + Len(w) /\ both[i + Len(s)] = w[(i + Len(s)) - Len(s)]
      <4>1. i + Len(s) \in 1 .. Len(s) + Len(w) /\ ~(i + Len(s) <= Len(s))
        BY <3>1, <1>3
      <4> QED BY <4>1, <1>2
    <3>3. (i + Len(s)) - Len(s) = i
      BY <1>3
    <3> QED BY <3>1, <3>2, <3>3, <1>3 DEF Range
  <2> QED BY <2>1, <2>2, <2>3
<1>5. ASSUME IsInjective(s), IsInjective(t) PROVE IsInjective(both)
  <2> SUFFICES ASSUME NEW i \in 1 .. Len(s) + Len(w), NEW j \in 1 .. Len(s) + Len(w),
                      both[i] = both[j]
               PROVE  i = j
    BY <1>3 DEF IsInjective
  <2>1. \A x : ~(x \in Range(s) /\ x \in Range(w))
    BY <1>1
  <2>2. CASE i <= Len(s) /\ j <= Len(s)
    BY <2>2, <1>2, <1>3, <1>5 DEF IsInjective
  <2>3. CASE ~(i <= Len(s)) /\ ~(j <= Len(s))
    <3>1. i - Len(s) \in DOMAIN w /\ j - Len(s) \in DOMAIN w /\ w[i - Len(s)] = w[j - Len(s)]
      BY <2>3, <1>2, <1>3
    <3>2. i - Len(s) = j - Len(s)
      BY <3>1, <1>1, <1>5 DEF IsInjective
    <3> QED BY <3>2, <1>3
  <2>4. ASSUME NEW m \in 1 .. Len(s) + Len(w), NEW n \in 1 .. Len(s) + Len(w),
               m <= Len(s), ~(n <= Len(s)), both[m] = both[n]
        PROVE  FALSE
    <3>1. m \in DOMAIN s /\ n - Len(s) \in DOMAIN w /\ s[m] = w[n - Len(s)]
      BY <2>4, <1>2, <1>3
    <3> QED BY <3>1, <2>1 DEF Range
  <2> QED BY <2>2, <2>3, <2>4
<1> QED BY <1>1, <1>2, <1>4, <1>5 DEF both, w

LEMMA QuotientBounds ==
  ASSUME NEW x \in Nat, NEW b \in Nat, b > 0
  PROVE  /\ x \div b \in Nat
         /\ (x \div b) * b <= x
         /\ x < ((x \div b) + 1) * b
  OBVIOUS

\* The batches of an upload: each document is in one of them.
LEMMA BatchesProperties ==
  ASSUME NEW S, NEW docs \in Seq(S), NEW carries \in BOOLEAN
  PROVE  LET batches == Batches(docs, carries) IN
         /\ batches \in Seq(Seq(S))
         /\ docs # <<>> \/ carries => batches # <<>>
         /\ \A i \in DOMAIN batches :
               /\ Range(batches[i]) \subseteq Range(docs)
               /\ IsInjective(docs) => IsInjective(batches[i])
         /\ \A x \in Range(docs) : \E i \in DOMAIN batches : x \in Range(batches[i])
<1> DEFINE L == Len(docs)
           B == BatchSize
           n == (L + B - 1) \div B
           lo(i) == (i - 1) * B + 1
           hi(i) == IF i = n THEN L ELSE i * B
           cut == [i \in 1 .. n |-> SubSeq(docs, lo(i), hi(i))]
<1>1. L \in Nat /\ B \in Nat /\ B > 0 /\ DOMAIN docs = 1 .. L /\ \A i \in 1 .. L : docs[i] \in S
  BY LenProperties, ElementOfSeq, SemanticAssumption
<1> HIDE DEF L, B
<1>2. n \in Nat /\ n * B <= L + B - 1 /\ L + B - 1 < (n + 1) * B
  <2>1. L + B - 1 \in Nat
    BY <1>1
  <2> QED BY <1>1, <2>1, QuotientBounds
<1> HIDE DEF n
<1>3. (n = 0 <=> L = 0) /\ L <= n * B /\ (n > 0 => (n - 1) * B < L)
  <2>1. n * B \in Nat /\ (n + 1) * B = n * B + B /\ (n - 1) * B = n * B - B
    BY <1>1, <1>2
  <2>2. L <= n * B
    BY <1>1, <1>2, <2>1
  <2>3. n > 0 => (n - 1) * B < L
    BY <1>1, <1>2, <2>1
  <2>4. n = 0 => L = 0
    BY <1>1, <2>2, <1>2
  <2>5. ASSUME L = 0, n # 0 PROVE FALSE
    <3>1. (n - 1) * B < 0 /\ n - 1 \in Nat
      BY <2>3, <2>5, <1>2
    <3> QED BY <3>1, <1>1
  <2> QED BY <2>2, <2>3, <2>4, <2>5
<1>4. ASSUME NEW i \in 1 .. n PROVE lo(i) \in 1 .. L /\ hi(i) \in 0 .. L
  <2>1. i \in Nat /\ (i - 1) * B \in Nat /\ i * B \in Nat /\ i * B = (i - 1) * B + B
    BY <1>1, <1>2
  <2>2. (i - 1) * B <= (n - 1) * B
    BY <1>1, <1>2
  <2>3. i # n => i * B <= (n - 1) * B
    BY <1>1, <1>2
  <2>4. (n - 1) * B < L /\ (n - 1) * B \in Nat
    BY <1>1, <1>2, <1>3
  <2> QED BY <2>1, <2>2, <2>3, <2>4, <1>1
<1> HIDE DEF lo, hi
<1>5. ASSUME NEW i \in 1 .. n
      PROVE  /\ cut[i] \in Seq(S)
             /\ DOMAIN cut[i] = 1 .. hi(i) - lo(i) + 1
             /\ \A k \in 1 .. hi(i) - lo(i) + 1 : k + lo(i) - 1 \in 1 .. L /\ cut[i][k] = docs[k + lo(i) - 1]
  <2>1. lo(i) \in Int /\ hi(i) \in Int /\ \A k \in lo(i) .. hi(i) : docs[k] \in S
    BY <1>4, <1>1
  <2>2. cut[i] = SubSeq(docs, lo(i), hi(i))
    OBVIOUS
  <2>3. /\ cut[i] \in Seq(S)
        /\ Len(cut[i]) = IF lo(i) <= hi(i) THEN hi(i) - lo(i) + 1 ELSE 0
        /\ \A k \in 1 .. hi(i) - lo(i) + 1 : cut[i][k] = docs[lo(i) + k - 1]
    BY <2>1, <2>2, SubSeqProperties
  <2>4. DOMAIN cut[i] = 1 .. Len(cut[i])
    BY <2>3, LenProperties
  <2> HIDE DEF cut
  <2>5. DOMAIN cut[i] = 1 .. hi(i) - lo(i) + 1
    BY <2>1, <2>3, <2>4
  <2>6. ASSUME NEW k \in 1 .. hi(i) - lo(i) + 1 PROVE k + lo(i) - 1 \in 1 .. L /\ k + lo(i) - 1 = lo(i) + k - 1
    BY <1>4, <1>1
  <2> QED BY <2>3, <2>5, <2>6
<1>6. ASSUME NEW x \in Range(docs) PROVE \E i \in 1 .. n : x \in Range(cut[i])
  <2>1. PICK j \in 1 .. L : x = docs[j]
    BY <1>1 DEF Range
  <2> DEFINE q == (j - 1) \div B
  <2>2. q \in Nat /\ q * B <= j - 1 /\ j - 1 < (q + 1) * B
    BY <1>1
  <2> HIDE DEF q
  <2>3. q + 1 \in 1 .. n
    <3>1. q * B < n * B
      BY <2>2, <1>1, <1>2, <1>3
    <3> QED BY <3>1, <2>2, <1>1, <1>2
  <2>4. lo(q + 1) = q * B + 1 /\ hi(q + 1) = IF q + 1 = n THEN L ELSE (q + 1) * B
    BY <2>2, <1>1 DEF lo, hi
  <2>5. j - q * B \in 1 .. hi(q + 1) - lo(q + 1) + 1 /\ (j - q * B) + lo(q + 1) - 1 = j
    <3>1. q * B \in Nat /\ (q + 1) * B \in Nat
      BY <2>2, <1>1
    <3> QED BY <3>1, <2>2, <2>4, <1>1
  <2>6. x = cut[q + 1][j - q * B] /\ j - q * B \in DOMAIN cut[q + 1]
    BY <2>1, <2>3, <2>5, <1>5
  <2> QED BY <2>3, <2>6 DEF Range
<1>7. ASSUME NEW i \in 1 .. n PROVE Range(cut[i]) \subseteq Range(docs)
  BY <1>5, <1>1 DEF Range
<1>8. ASSUME NEW i \in 1 .. n, IsInjective(docs) PROVE IsInjective(cut[i])
  <2> SUFFICES ASSUME NEW k \in 1 .. hi(i) - lo(i) + 1, NEW m \in 1 .. hi(i) - lo(i) + 1,
                      cut[i][k] = cut[i][m]
               PROVE  k = m
    BY <1>5 DEF IsInjective
  <2>1. docs[k + lo(i) - 1] = docs[m + lo(i) - 1]
    BY <1>5
  <2>2. k + lo(i) - 1 = m + lo(i) - 1
    BY <2>1, <1>5, <1>1, <1>8 DEF IsInjective
  <2> QED BY <2>2, <1>4
<1>9. cut \in Seq(Seq(S)) /\ DOMAIN cut = 1 .. n
  <2>1. cut \in [1 .. n -> Seq(S)]
    BY <1>5
  <2> HIDE DEF cut
  <2> QED BY <2>1, <1>2, SeqDef
<1>10. Batches(docs, carries) = IF n = 0 /\ carries THEN << <<>> >> ELSE cut
  BY DEF Batches, n, L, B, cut, lo, hi
<1>11. CASE n = 0 /\ carries
  <2>1. Batches(docs, carries) = << <<>> >>
    BY <1>10, <1>11
  <2>2. Range(docs) = {}
    BY <1>1, <1>3, <1>11 DEF Range
  <2>3. <<>> \in Seq(S) /\ Range(<<>>) = {} /\ IsInjective(<<>>)
    BY DEF Range, IsInjective
  <2> DEFINE one == << <<>> >>
  <2>4. one \in Seq(Seq(S)) /\ one # <<>> /\ DOMAIN one = {1} /\ one[1] = <<>>
    BY <2>3
  <2> HIDE DEF one
  <2>5. Batches(docs, carries) = one
    BY <2>1 DEF one
  <2> QED BY <2>2, <2>3, <2>4, <2>5
<1>12. CASE ~(n = 0 /\ carries)
  <2>1. Batches(docs, carries) = cut
    BY <1>10, <1>12
  <2>2. docs # <<>> \/ carries => cut # <<>>
    <3>1. docs # <<>> => L # 0
      BY EmptySeq DEF L
    <3>2. n # 0 => 1 \in DOMAIN cut
      BY <1>9, <1>2
    <3>3. DOMAIN <<>> = {}
      OBVIOUS
    <3> HIDE DEF cut
    <3> QED BY <3>1, <3>2, <3>3, <1>3, <1>12
  <2> HIDE DEF cut
  <2> QED BY <2>1, <2>2, <1>6, <1>7, <1>8, <1>9
<1> QED BY <1>11, <1>12

-----------------------------------------------------------------------------
(* Every list of ids is of documents of its own fingerprint.               *)

List(f, s) == s \in Seq(Doc) /\ Range(s) \subseteq Range(Docs[f]) /\ IsInjective(s)
Plan(f, p) == p \in Seq(Seq(Doc)) /\ \A i \in DOMAIN p : List(f, p[i])

FileFits(f, s) == s \in FileType /\ List(f, s.ids) /\ (s.kind = "none" => s = NoFile)
RecordFits(f, r) ==
  /\ r \in RecordType /\ List(f, r.docs)
  /\ r.rows = <<>> \/ r.rows = r.docs
  /\ r.kind = "none" => r = NoRecord

Handling == {"embed", "store", "merge", "alias", "copy", "file", "rows"}
Uploading == Handling \cup {"open"}

\* A document of the base that is not removed is a document of the fingerprint.
RemovalFits(r) ==
  r.first /\ r.base # NoFp => Range(Docs[r.base]) \ r.removed \subseteq Range(Docs[r.fp])

ClientFits(r) ==
  /\ r.pc # "idle" => r.fp \in Fps /\ r.base # r.fp
  /\ r.pc \in Uploading => Plan(r.fp, r.plan) /\ r.plan # <<>> /\ RemovalFits(r)
  /\ r.reused => r.base # NoFp
  /\ r.pc \in Handling => RecordFits(r.fp, r.own)
  /\ r.pc \notin Handling => r.own = NoRecord
  /\ r.pc \in {"alias", "copy"} => r.first /\ r.reused /\ r.removed = {}
  /\ r.pc = "copy" => FileFits(r.fp, r.copy)

AliasFits(al) ==
  /\ al \in [Fps -> Fps \cup {NoFp}]
  /\ \A f \in Fps : al[f] # NoFp => Range(Docs[al[f]]) \subseteq Range(Docs[f])

StoresFit ==
  /\ status \in [Fps -> FileType] /\ \A f \in Fps : FileFits(f, status[f])
  /\ index \in [Fps -> RecordType] /\ \A f \in Fps : RecordFits(f, index[f])
  /\ AliasFits(alias)

DataFits ==
  /\ rows \in [Fps -> Seq(Doc)]
  /\ found \in [Fps -> [ids : Seq(Doc), rows : Seq(Doc)]]
  /\ shard \subseteq Doc /\ vectors \subseteq Doc /\ shardMem \subseteq Doc
  /\ manifest \in Fps \cup {NoFp} /\ faults \in 0 .. MaxFaults

ClientsFit == client \in [Clients -> ClientType] /\ \A c \in Clients : ClientFits(client[c])

SemInv == StoresFit /\ DataFits /\ ClientsFit

-----------------------------------------------------------------------------
(* What is read of the stores fits.                                        *)

LEMMA ConstantsFit ==
  /\ NoFp \notin Fps
  /\ \A f \in Fps : List(f, Docs[f]) /\ Docs[f] # <<>> /\ List(f, <<>>)
<1>1. ASSUME NEW f \in Fps
      PROVE  Docs[f] \in Seq(Doc) /\ IsInjective(Docs[f]) /\ Docs[f] # <<>>
  BY SemanticAssumption
<1>2. <<>> \in Seq(Doc) /\ Range(<<>>) = {} /\ IsInjective(<<>>)
  BY DEF Range, IsInjective
<1> QED BY <1>1, <1>2, SemanticAssumption DEF List

LEMMA ListInDoc ==
  ASSUME NEW f \in Fps, NEW s, List(f, s)
  PROVE  s \in Seq(Doc) /\ IsInjective(s) /\ Range(s) \subseteq Doc
BY DEF List, Doc

LEMMA ListWithout ==
  ASSUME NEW f \in Fps, NEW g \in Fps, NEW s, NEW gone,
         List(g, s), Range(Docs[g]) \ gone \subseteq Range(Docs[f])
  PROVE  List(f, Without(s, gone))
<1>1. s \in Seq(Doc) /\ IsInjective(s) /\ Range(s) \subseteq Range(Docs[g])
  BY DEF List
<1>2. /\ Without(s, gone) \in Seq(Doc) /\ Range(Without(s, gone)) = Range(s) \ gone
      /\ IsInjective(Without(s, gone))
  BY <1>1, WithoutProperties
<1> QED BY <1>1, <1>2 DEF List

LEMMA ListMerge ==
  ASSUME NEW f \in Fps, NEW s, NEW t, List(f, s), List(f, t)
  PROVE  List(f, s \o Without(t, Range(s)))
BY MergeProperties DEF List

LEMMA PlanBatches ==
  ASSUME NEW f \in Fps, NEW docs, List(f, docs), NEW carries \in BOOLEAN
  PROVE  /\ Plan(f, Batches(docs, carries))
         /\ docs # <<>> \/ carries => Batches(docs, carries) # <<>>
<1> DEFINE b == Batches(docs, carries)
<1>1. /\ b \in Seq(Seq(Doc)) /\ (docs # <<>> \/ carries => b # <<>>)
      /\ \A i \in DOMAIN b : Range(b[i]) \subseteq Range(docs) /\ IsInjective(b[i])
  BY BatchesProperties DEF List
<1> HIDE DEF b
<1>2. ASSUME NEW i \in DOMAIN b PROVE b[i] \in Seq(Doc)
  BY <1>1, <1>2, LenProperties, ElementOfSeq
<1>3. Plan(f, b)
  BY <1>1, <1>2 DEF Plan, List
<1> QED BY <1>1, <1>3 DEF b

LEMMA PlanParts ==
  ASSUME NEW f \in Fps, NEW p, Plan(f, p), p # <<>>
  PROVE  List(f, Head(p)) /\ Plan(f, Tail(p)) /\ Range(Head(p)) \subseteq Doc
<1>1. p \in Seq(Seq(Doc)) /\ DOMAIN p = 1 .. Len(p) /\ Len(p) \in Nat /\ Len(p) # 0
  BY LenProperties, EmptySeq DEF Plan
<1>2. Head(p) = p[1] /\ 1 \in DOMAIN p
  BY <1>1
<1>3. /\ Tail(p) \in Seq(Seq(Doc)) /\ DOMAIN Tail(p) = 1 .. Len(p) - 1
      /\ \A i \in 1 .. Len(p) - 1 : Tail(p)[i] = p[i + 1] /\ i + 1 \in DOMAIN p
  BY <1>1
<1> QED BY <1>1, <1>2, <1>3, ListInDoc DEF Plan

\* Aliases only lead to states whose documents the repository still has.
LEMMA ChainFits ==
  ASSUME AliasFits(alias), NEW f \in Fps, NEW pass, \A h \in pass : alias[h] # NoFp,
         NEW g \in Chain(f, pass)
  PROVE  g \in Fps /\ Range(Docs[g]) \subseteq Range(Docs[f])
<1> DEFINE S == {h \in Fps : Range(Docs[h]) \subseteq Range(Docs[f])}
<1>1. S \in SUBSET Fps /\ f \in S
  OBVIOUS
<1>2. ASSUME NEW h \in S \cap pass PROVE alias[h] \in S
  BY <1>2 DEF AliasFits
<1> QED BY <1>1, <1>2 DEF Chain

LEMMA StatusOfFits ==
  ASSUME StoresFit, NEW f \in Fps
  PROVE  FileFits(f, StatusOf(f))
<1> DEFINE pass == {g \in Fps : status[g] = NoFile /\ alias[g] # NoFp}
           ends == Ends(f, pass)
<1>1. CASE ends = {}
  <2>1. StatusOf(f) = NoFile
    BY <1>1 DEF StatusOf
  <2>2. List(f, <<>>) /\ <<>> \in Seq(Doc)
    BY ConstantsFit, ListInDoc
  <2> QED BY <2>1, <2>2 DEF FileFits, NoFile, FileType
<1>2. CASE ends # {}
  <2> DEFINE g == CHOOSE h \in ends : TRUE
  <2>1. g \in Chain(f, pass) /\ StatusOf(f) = status[g]
    BY <1>2 DEF StatusOf, Ends
  <2> HIDE DEF g
  <2>2. g \in Fps /\ Range(Docs[g]) \subseteq Range(Docs[f])
    <3>1. AliasFits(alias) /\ \A h \in pass : alias[h] # NoFp
      BY DEF StoresFit
    <3> HIDE DEF pass
    <3> QED BY <3>1, <2>1, ChainFits
  <2>3. FileFits(g, status[g])
    BY <2>2 DEF StoresFit
  <2> QED BY <2>1, <2>2, <2>3 DEF FileFits, List
<1> QED BY <1>1, <1>2

LEMMA RowsOfFits ==
  ASSUME StoresFit, DataFits, NEW f \in Fps
  PROVE  RowsOf(f) \in Seq(Doc)
<1> DEFINE pass == {g \in Fps : rows[g] = <<>> /\ alias[g] # NoFp /\ ~Faiss}
           ends == Ends(f, pass)
<1>1. CASE ends = {}
  BY <1>1 DEF RowsOf
<1>2. CASE ends # {}
  <2> DEFINE g == CHOOSE h \in ends : TRUE
  <2>1. g \in Chain(f, pass) /\ RowsOf(f) = rows[g]
    BY <1>2 DEF RowsOf, Ends
  <2>2. g \in Fps
    BY <2>1 DEF Chain
  <2> QED BY <2>1, <2>2 DEF DataFits
<1> QED BY <1>1, <1>2

LEMMA IndexOfFits ==
  ASSUME StoresFit, NEW f \in Fps
  PROVE  RecordFits(f, IndexOf(f)) /\ FileFits(f, StatusFile(IndexOf(f).ready, IndexOf(f).docs))
<1>1. RecordFits(f, index[f]) /\ FileFits(f, status[f]) /\ List(f, <<>>)
  BY ConstantsFit DEF StoresFit
<1>2. RecordFits(f, Record(TRUE, status[f].ids)) /\ RecordFits(f, NoRecord)
  BY <1>1 DEF RecordFits, FileFits, List, Record, NoRecord, RecordType
<1>3. RecordFits(f, IndexOf(f))
  BY <1>1, <1>2 DEF IndexOf
<1>4. IndexOf(f).ready \in BOOLEAN /\ List(f, IndexOf(f).docs) /\ IndexOf(f).docs \in Seq(Doc)
  BY <1>3 DEF RecordFits, RecordType
<1> QED BY <1>3, <1>4 DEF FileFits, StatusFile, FileType

-----------------------------------------------------------------------------
(* The stores and the inspections keep fitting.                            *)

LEMMA InitFits == Init => SemInv
<1> SUFFICES ASSUME Init PROVE SemInv
  OBVIOUS
<1>1. NoFile \in FileType /\ NoRecord \in RecordType /\ \A f \in Fps : List(f, <<>>)
  BY ConstantsFit DEF NoFile, NoRecord, FileType, RecordType
<1>2. StoresFit
  BY <1>1, ConstantsFit DEF Init, StoresFit, FileFits, RecordFits, AliasFits, NoFile, NoRecord
<1>3. DataFits
  BY SemanticAssumption DEF Init, DataFits
<1>4. Idle \in ClientType /\ ClientFits(Idle)
  BY <1>1 DEF Idle, ClientType, ClientFits, Uploading, Handling, NoFile, FileType
<1>5. ClientsFit
  BY <1>4 DEF Init, ClientsFit
<1> QED BY <1>2, <1>3, <1>5 DEF SemInv

LEMMA ThenFits ==
  ASSUME ClientsFit, NEW c \in Clients, NEW local, local \in ClientType, ClientFits(local),
         client' = [client EXCEPT ![c] = local]
  PROVE  ClientsFit'
BY DEF ClientsFit

\* An inspection between two attempts.
LEMMA RestsFits ==
  ASSUME NEW r, r.pc = "idle", r.own = NoRecord, r.reused = FALSE
  PROVE  ClientFits(r)
BY DEF ClientFits, Uploading, Handling

LEMMA IdleFits == Idle \in ClientType /\ Idle.pc = "idle" /\ Idle.own = NoRecord /\ Idle.reused = FALSE
<1>1. NoFile \in FileType /\ NoRecord \in RecordType
  BY DEF NoFile, NoRecord, FileType, RecordType
<1> QED BY <1>1 DEF Idle, ClientType

LEMMA EndFits ==
  ASSUME ClientsFit, NEW c \in Clients, NEW out \in {"none", "gpu", "degraded"}, End(c, out)
  PROVE  ClientsFit'
<1> DEFINE r == [Idle EXCEPT !.fp = client[c].fp, !.out = out]
<1>1. client[c].fp \in Fps \cup {NoFp}
  BY DEF ClientsFit, ClientType
<1>2. r \in ClientType
  BY <1>1, IdleFits DEF ClientType
<1>3. r.pc = "idle" /\ r.own = NoRecord /\ r.reused = FALSE
  BY IdleFits DEF ClientType
<1>4. client' = [client EXCEPT ![c] = r]
  BY DEF End, Then
<1> HIDE DEF r
<1> QED BY <1>2, <1>3, <1>4, RestsFits, ThenFits

LEMMA AnsweredFits ==
  ASSUME ClientsFit, NEW c \in Clients, NEW pairs \in SUBSET (Doc \X Doc), Answered(c, pairs)
  PROVE  ClientsFit'
<1> DEFINE r == [Idle EXCEPT !.fp = client[c].fp, !.out = "gpu", !.answer = pairs]
<1>1. client[c].fp \in Fps \cup {NoFp}
  BY DEF ClientsFit, ClientType
<1>2. r \in ClientType
  BY <1>1, IdleFits DEF ClientType
<1>3. r.pc = "idle" /\ r.own = NoRecord /\ r.reused = FALSE
  BY IdleFits DEF ClientType
<1>4. CASE client' = [client EXCEPT ![c] = r]
  <2> HIDE DEF r
  <2> QED BY <1>2, <1>3, <1>4, RestsFits, ThenFits
<1>5. CASE End(c, "degraded")
  BY <1>5, EndFits
<1> QED BY <1>4, <1>5 DEF Answered, Then

LEMMA UnchangedFits ==
  /\ StoresFit /\ UNCHANGED <<status, index, alias>> => StoresFit'
  /\ DataFits /\ UNCHANGED <<rows, found, shard, vectors, shardMem, manifest, faults>> => DataFits'
BY DEF StoresFit, DataFits

LEMMA LoadIndexFits ==
  ASSUME StoresFit, DataFits, NEW f \in Fps, LoadIndex(f)
  PROVE  AliasFits(alias)' /\ vectors' \subseteq Doc /\ shardMem' \subseteq Doc
<1>1. AliasFits(alias)'
  BY DEF LoadIndex, StoresFit, AliasFits
<1>2. LoadedShard \subseteq Doc /\ KnownVectors \subseteq Doc
  BY DEF LoadedShard, KnownVectors, DataFits
<1>3. vectors' \subseteq Doc /\ shardMem' \subseteq Doc
  BY <1>2 DEF LoadIndex, DataFits
<1> QED BY <1>1, <1>3

LEMMA BeginFits ==
  ASSUME SemInv, NEW c \in Clients, NEW f \in Fps, Begin(c, f)
  PROVE  SemInv'
<1> DEFINE r == [Idle EXCEPT !.pc = "status", !.fp = f, !.base = IF manifest = f THEN NoFp ELSE manifest]
<1>1. manifest \in Fps \cup {NoFp} /\ NoFp \notin Fps
  BY ConstantsFit DEF SemInv, DataFits
<1>2. r \in ClientType
  BY <1>1, IdleFits DEF ClientType
<1>3. r.pc = "status" /\ r.fp \in Fps /\ r.base # r.fp /\ r.own = NoRecord /\ r.reused = FALSE
  BY <1>1, IdleFits DEF ClientType
<1>4. client' = [client EXCEPT ![c] = r]
  BY DEF Begin, Then
<1> HIDE DEF r
<1>5. ClientFits(r)
  BY <1>3 DEF ClientFits, Uploading, Handling
<1>6. ClientsFit'
  BY <1>2, <1>4, <1>5, ThenFits DEF SemInv
<1> QED BY <1>6, UnchangedFits DEF Begin, SemInv, ServiceAlone, files, memory, store

\* The upload of everything, and the upload of the difference to the base.
LEMMA UploadFits ==
  ASSUME ClientsFit, NEW c \in Clients, client[c].pc = "status"
  PROVE  /\ client[c].base = NoFp => FullUpload(c) \in ClientType /\ ClientFits(FullUpload(c))
         /\ client[c].base # NoFp => DeltaUpload(c) \in ClientType /\ ClientFits(DeltaUpload(c))
<1> DEFINE f == client[c].fp
           base == client[c].base
           old == Range(Docs[base])
           full == FullUpload(c)
           delta == DeltaUpload(c)
<1>1. client[c] \in ClientType /\ ClientFits(client[c])
  BY DEF ClientsFit
<1>2. /\ f \in Fps /\ base \in Fps \cup {NoFp} /\ base # f /\ client[c].own = NoRecord
      /\ client[c].reused => base # NoFp
  BY <1>1 DEF ClientFits, ClientType, Handling
<1>3. List(f, Docs[f]) /\ Docs[f] # <<>> /\ NoFp \notin Fps
  BY <1>2, ConstantsFit
<1>4. ASSUME base = NoFp PROVE full \in ClientType /\ ClientFits(full)
  <2>1. Plan(f, Batches(Docs[f], FALSE)) /\ Batches(Docs[f], FALSE) # <<>>
    BY <1>2, <1>3, PlanBatches
  <2>2. Batches(Docs[f], FALSE) \in Seq(Seq(Doc))
    BY <2>1 DEF Plan
  <2>3. full \in ClientType
    BY <1>1, <2>2 DEF FullUpload, Goto, ClientType
  <2>4. /\ full.pc = "open" /\ full.fp = f /\ full.base = NoFp /\ full.own = NoRecord
        /\ full.plan = Batches(Docs[f], FALSE) /\ full.reused = client[c].reused
    BY <1>1, <1>2 DEF FullUpload, Goto, ClientType
  <2> HIDE DEF full
  <2>5. ClientFits(full)
    <3>1. full.reused = FALSE
      BY <1>1, <1>2, <1>4, <2>4 DEF ClientType
    <3> HIDE DEF f, base
    <3> QED BY <3>1, <1>2, <1>3, <2>1, <2>4 DEF ClientFits, RemovalFits, Uploading, Handling
  <2> QED BY <2>3, <2>5
<1>5. ASSUME base # NoFp PROVE delta \in ClientType /\ ClientFits(delta)
  <2>1. List(f, Without(Docs[f], old))
    BY <1>2, <1>3, ListWithout
  <2>2. /\ Plan(f, Batches(Without(Docs[f], old), TRUE))
        /\ Batches(Without(Docs[f], old), TRUE) # <<>>
    BY <1>2, <2>1, PlanBatches
  <2>3. Batches(Without(Docs[f], old), TRUE) \in Seq(Seq(Doc))
    BY <2>2 DEF Plan
  <2>4. old \subseteq Doc
    BY <1>2, <1>5, ConstantsFit, ListInDoc
  <2>5. delta \in ClientType
    BY <1>1, <2>3, <2>4 DEF DeltaUpload, Goto, ClientType
  <2>6. /\ delta.pc = "open" /\ delta.fp = f /\ delta.base = base /\ delta.own = NoRecord
        /\ delta.plan = Batches(Without(Docs[f], old), TRUE) /\ delta.reused = client[c].reused
        /\ delta.removed = old \ Range(Docs[f])
    BY <1>1, <1>2 DEF DeltaUpload, Goto, ClientType
  <2> HIDE DEF delta
  <2>7. Range(Docs[base]) \ delta.removed \subseteq Range(Docs[f])
    BY <2>6
  <2>8. ClientFits(delta)
    <3> HIDE DEF f, base, old
    <3> QED BY <1>2, <1>5, <2>2, <2>6, <2>7 DEF ClientFits, RemovalFits, Uploading, Handling
  <2> QED BY <2>5, <2>8
<1> QED BY <1>4, <1>5

\* A step between two requests that leads to a place outside of the uploads.
LEMMA GotoFits ==
  ASSUME ClientsFit, NEW c \in Clients, NEW pc \in {"manifest", "search"},
         client[c].pc \notin Uploading \cup {"idle"}
  PROVE  Goto(c, pc) \in ClientType /\ ClientFits(Goto(c, pc))
<1> DEFINE r == Goto(c, pc)
<1>1. client[c] \in ClientType /\ ClientFits(client[c])
  BY DEF ClientsFit
<1>2. r \in ClientType
  BY <1>1 DEF Goto, ClientType
<1>3. /\ r.pc = pc /\ r.fp = client[c].fp /\ r.base = client[c].base /\ r.own = client[c].own
      /\ r.reused = client[c].reused
  BY <1>1 DEF Goto, ClientType
<1> HIDE DEF r
<1>4. ClientFits(r)
  BY <1>1, <1>3 DEF ClientFits, Uploading, Handling
<1> QED BY <1>2, <1>4 DEF r

LEMMA ClientStepFits ==
  ASSUME SemInv, NEW c \in Clients, ClientStep(c)
  PROVE  SemInv'
<1>1. CASE CheckStatus(c)
  <2>1. client[c].pc = "status"
    BY <1>1 DEF CheckStatus, At
  <2>2. PICK local : /\ client' = [client EXCEPT ![c] = local]
                     /\ \/ local = Goto(c, "manifest")
                        \/ client[c].base = NoFp /\ local = FullUpload(c)
                        \/ client[c].base # NoFp /\ local = DeltaUpload(c)
    BY <1>1 DEF CheckStatus, Then
  <2>3. Goto(c, "manifest") \in ClientType /\ ClientFits(Goto(c, "manifest"))
    BY <2>1, GotoFits DEF SemInv, Uploading, Handling
  <2>4. local \in ClientType /\ ClientFits(local)
    BY <2>1, <2>2, <2>3, UploadFits DEF SemInv
  <2>5. ClientsFit'
    BY <2>2, <2>4, ThenFits DEF SemInv
  <2> QED BY <1>1, <2>5, UnchangedFits DEF CheckStatus, SemInv, ServiceAlone, files, memory, store
<1>2. CASE CheckFinalized(c)
  <2>1. client[c].pc = "finalized"
    BY <1>2 DEF CheckFinalized, At
  <2>2. Goto(c, "manifest") \in ClientType /\ ClientFits(Goto(c, "manifest"))
    BY <2>1, GotoFits DEF SemInv, Uploading, Handling
  <2>3. ClientsFit'
    <3>1. CASE client' = [client EXCEPT ![c] = Goto(c, "manifest")]
      BY <2>2, <3>1, ThenFits DEF SemInv
    <3>2. CASE End(c, "degraded")
      BY <3>2, EndFits DEF SemInv
    <3> QED BY <1>2, <3>1, <3>2 DEF CheckFinalized, Then
  <2> QED BY <1>2, <2>3, UnchangedFits DEF CheckFinalized, SemInv, ServiceAlone, files, memory, store
<1>3. CASE WriteManifest(c)
  <2>1. client[c].pc = "manifest" /\ client' = [client EXCEPT ![c] = Goto(c, "search")]
    BY <1>3 DEF WriteManifest, At, Then
  <2>2. Goto(c, "search") \in ClientType /\ ClientFits(Goto(c, "search"))
    BY <2>1, GotoFits DEF SemInv, Uploading, Handling
  <2>3. ClientsFit'
    BY <2>1, <2>2, ThenFits DEF SemInv
  <2>4. client[c].fp \in Fps
    BY <2>1 DEF SemInv, ClientsFit, ClientFits
  <2>5. DataFits'
    BY <1>3, <2>4 DEF WriteManifest, SemInv, DataFits, ServiceAlone, files, memory, store
  <2> QED BY <1>3, <2>3, <2>5, UnchangedFits DEF WriteManifest, SemInv, ServiceAlone, files, memory, store
<1> QED BY <1>1, <1>2, <1>3 DEF ClientStep

\* Where a request stands that is under way.
LEMMA UnderWay ==
  ASSUME SemInv, NEW c \in Clients, client[c].pc \in Uploading
  PROVE  /\ client[c] \in ClientType /\ ClientFits(client[c])
         /\ client[c].fp \in Fps /\ client[c].base \in Fps \cup {NoFp} /\ client[c].base # client[c].fp
         /\ Plan(client[c].fp, client[c].plan) /\ client[c].plan # <<>>
         /\ List(client[c].fp, Head(client[c].plan)) /\ Plan(client[c].fp, Tail(client[c].plan))
         /\ Batch(c) \subseteq Doc
         /\ RecordFits(client[c].fp, index[client[c].fp])
         /\ client[c].pc \in Handling => RecordFits(client[c].fp, Held(c))
<1>1. client[c] \in ClientType /\ ClientFits(client[c]) /\ client[c].pc # "idle"
  BY DEF SemInv, ClientsFit, Uploading, Handling
<1>2. /\ client[c].fp \in Fps /\ client[c].base \in Fps \cup {NoFp} /\ client[c].base # client[c].fp
      /\ Plan(client[c].fp, client[c].plan) /\ client[c].plan # <<>>
  BY <1>1 DEF ClientFits, ClientType
<1>3. List(client[c].fp, Head(client[c].plan)) /\ Plan(client[c].fp, Tail(client[c].plan))
      /\ Range(Head(client[c].plan)) \subseteq Doc
  BY <1>2, PlanParts
<1>4. RecordFits(client[c].fp, index[client[c].fp])
  BY <1>2 DEF SemInv, StoresFit
<1>5. client[c].pc \in Handling => RecordFits(client[c].fp, Held(c))
  BY <1>1, <1>4 DEF ClientFits, Held
<1> QED BY <1>1, <1>2, <1>3, <1>4, <1>5 DEF Batch

LEMMA AcceptedFits ==
  ASSUME SemInv, NEW c \in Clients, client[c].pc \in Handling
  PROVE  LET r == Accepted(c, client[c].reused) IN r \in ClientType /\ ClientFits(r)
<1> DEFINE f == client[c].fp
           rest == Tail(client[c].plan)
           after == [client[c] EXCEPT !.own = NoRecord, !.copy = NoFile, !.removed = {}, !.first = FALSE]
           next == [after EXCEPT !.pc = "open", !.plan = rest, !.reused = client[c].reused]
           again == [after EXCEPT !.pc = "open", !.plan = Batches(Docs[f], FALSE), !.first = TRUE,
                                  !.base = NoFp, !.reused = FALSE]
           over == [after EXCEPT !.pc = "finalized", !.plan = <<>>, !.reused = FALSE]
<1>1. /\ client[c] \in ClientType /\ ClientFits(client[c]) /\ f \in Fps /\ client[c].base # f
      /\ Plan(f, rest)
  BY UnderWay DEF Uploading
<1>2. /\ List(f, Docs[f]) /\ Docs[f] # <<>> /\ NoFp \notin Fps
      /\ NoRecord \in RecordType /\ NoFile \in FileType /\ <<>> \in Seq(Seq(Doc))
  BY <1>1, ConstantsFit, IdleFits DEF Idle, ClientType
<1>3. Plan(f, Batches(Docs[f], FALSE)) /\ Batches(Docs[f], FALSE) # <<>>
  BY <1>1, <1>2, PlanBatches
<1>4. rest \in Seq(Seq(Doc)) /\ Batches(Docs[f], FALSE) \in Seq(Seq(Doc))
  BY <1>1, <1>3 DEF Plan
<1>5. after \in ClientType /\ after.fp = f /\ after.base = client[c].base /\ after.own = NoRecord
      /\ after.first = FALSE
  BY <1>1, <1>2 DEF ClientType
<1> HIDE DEF after
<1>6. ASSUME rest # <<>> PROVE next \in ClientType /\ ClientFits(next)
  <2>1. next \in ClientType
    BY <1>1, <1>4, <1>5 DEF ClientType
  <2>2. /\ next.pc = "open" /\ next.fp = f /\ next.base = client[c].base /\ next.own = NoRecord
        /\ next.first = FALSE /\ next.plan = rest /\ next.reused = client[c].reused
    BY <1>5 DEF ClientType
  <2> HIDE DEF next, rest, f
  <2>3. ClientFits(next)
    BY <1>1, <1>6, <2>2 DEF ClientFits, RemovalFits, Uploading, Handling, f
  <2> QED BY <2>1, <2>3
<1>7. again \in ClientType /\ ClientFits(again)
  <2>1. again \in ClientType
    BY <1>4, <1>5 DEF ClientType
  <2>2. /\ again.pc = "open" /\ again.fp = f /\ again.base = NoFp /\ again.own = NoRecord
        /\ again.plan = Batches(Docs[f], FALSE) /\ again.reused = FALSE
    BY <1>5 DEF ClientType
  <2> HIDE DEF again
  <2>3. ClientFits(again)
    BY <1>1, <1>2, <1>3, <2>2 DEF ClientFits, RemovalFits, Uploading, Handling
  <2> QED BY <2>1, <2>3
<1>8. over \in ClientType /\ ClientFits(over)
  <2>1. over \in ClientType
    BY <1>2, <1>5 DEF ClientType
  <2>2. /\ over.pc = "finalized" /\ over.fp = f /\ over.base = client[c].base /\ over.own = NoRecord
        /\ over.reused = FALSE
    BY <1>5 DEF ClientType
  <2> HIDE DEF over
  <2>3. ClientFits(over)
    BY <1>1, <2>2 DEF ClientFits, Uploading, Handling
  <2> QED BY <2>1, <2>3
<1>9. Accepted(c, client[c].reused) =
        IF rest # <<>> THEN next ELSE IF client[c].base # NoFp /\ ~client[c].reused THEN again ELSE over
  BY DEF Accepted, after
<1> HIDE DEF next, again, over, rest
<1> QED BY <1>6, <1>7, <1>8, <1>9

LEMMA OpenFits ==
  ASSUME SemInv, NEW c \in Clients, Open(c)
  PROVE  SemInv'
<1> DEFINE f == client[c].fp
           base == client[c].base
           missing == Batch(c) \ KnownVectors
           pc == IF missing = {} THEN "merge" ELSE "embed"
           local == [Goto(c, pc) EXCEPT !.missing = missing]
           from == IF base = NoFp THEN NoRecord ELSE IndexOf(base)
           kept == IF from.ready THEN Without(from.docs, client[c].removed) ELSE <<>>
<1>1. client[c].pc = "open"
  BY DEF Open, At
<1>2. /\ client[c] \in ClientType /\ ClientFits(client[c]) /\ f \in Fps /\ base \in Fps \cup {NoFp}
      /\ base # f /\ Plan(f, client[c].plan) /\ client[c].plan # <<>> /\ missing \subseteq Doc
      /\ RecordFits(f, index[f]) /\ client[c].own = NoRecord
      /\ (client[c].reused => base # NoFp) /\ RemovalFits(client[c])
  BY <1>1, UnderWay DEF Uploading, Handling, ClientFits
<1>3. List(f, <<>>) /\ <<>> \in Seq(Doc) /\ NoFp \notin Fps
  BY <1>2, ConstantsFit, ListInDoc
<1>4. RecordFits(f, NoRecord) /\ RecordFits(f, Record(FALSE, <<>>))
  BY <1>3 DEF RecordFits, RecordType, NoRecord, Record
<1>5. local \in ClientType
  <2>1. pc \in {"merge", "embed"}
    OBVIOUS
  <2> HIDE DEF pc, missing
  <2> QED BY <1>2, <2>1 DEF Goto, ClientType
<1>6. /\ local.pc \in {"merge", "embed"} /\ local.fp = f /\ local.base = base /\ local.own = NoRecord
      /\ local.plan = client[c].plan /\ local.removed = client[c].removed
      /\ local.first = client[c].first /\ local.reused = client[c].reused
  <2>1. pc \in {"merge", "embed"}
    OBVIOUS
  <2> HIDE DEF pc, missing
  <2> QED BY <1>2, <2>1 DEF Goto, ClientType
<1> HIDE DEF local
<1>7. RemovalFits(local)
  BY <1>2, <1>6 DEF RemovalFits
<1>8. ASSUME client[c].first, Replace(c, local)
      PROVE  StoresFit' /\ ClientsFit' /\ vectors' \subseteq Doc /\ shardMem' \subseteq Doc
  <2>1. base # NoFp => RecordFits(base, from)
    BY <1>2, IndexOfFits DEF SemInv
  <2>2. from.ready \in BOOLEAN /\ (from.ready => base # NoFp)
    BY <2>1 DEF RecordFits, RecordType, NoRecord
  <2>3. List(f, kept)
    <3>1. CASE from.ready
      <4>1. base \in Fps /\ List(base, from.docs)
        BY <3>1, <2>1, <2>2, <1>2 DEF RecordFits
      <4>2. Range(Docs[base]) \ client[c].removed \subseteq Range(Docs[f])
        BY <1>2, <1>8, <4>1, <1>3 DEF RemovalFits
      <4>3. List(f, Without(from.docs, client[c].removed))
        BY <4>1, <4>2, <1>2, ListWithout
      <4> QED BY <3>1, <4>3
    <3>2. CASE ~from.ready
      BY <3>2, <1>3
    <3> QED BY <3>1, <3>2
  <2> HIDE DEF kept
  <2>4. RecordFits(f, Record(FALSE, kept))
    BY <2>3 DEF RecordFits, RecordType, Record, List
  <2>5. index' = [g \in Fps |-> IF g = f THEN Record(FALSE, kept) ELSE IF g = base THEN from ELSE index[g]]
    BY <1>8 DEF Replace, kept
  <2> HIDE DEF from
  <2>6. index' \in [Fps -> RecordType] /\ \A g \in Fps : RecordFits(g, index'[g])
    <3>1. \A g \in Fps : RecordFits(g, index[g]) /\ (g = base => RecordFits(g, from))
      BY <2>1, <1>3 DEF SemInv, StoresFit
    <3> HIDE DEF f, base
    <3>2. \A g \in Fps : RecordFits(g, index'[g])
      BY <2>4, <2>5, <3>1
    <3>3. \A g \in Fps : index'[g] \in RecordType
      BY <3>2 DEF RecordFits
    <3> QED BY <3>2, <3>3, <2>5
  <2>7. AliasFits(alias)' /\ vectors' \subseteq Doc /\ shardMem' \subseteq Doc
    <3>1. CASE base # NoFp /\ LoadIndex(base)
      BY <3>1, <1>2, LoadIndexFits DEF SemInv
    <3>2. CASE UNCHANGED <<alias, vectors, shardMem>>
      BY <3>2 DEF SemInv, StoresFit, DataFits
    <3> QED BY <1>8, <3>1, <3>2 DEF Replace
  <2>8. StoresFit'
    BY <2>6, <2>7 DEF Open, SemInv, StoresFit
  <2> DEFINE mine == [local EXCEPT !.reused = from.ready]
  <2>9. mine \in ClientType /\ ClientFits(mine)
    <3>1. mine \in ClientType
      BY <1>5, <2>2 DEF ClientType
    <3>2. /\ mine.pc \in {"merge", "embed"} /\ mine.fp = f /\ mine.base = base /\ mine.own = NoRecord
          /\ mine.plan = client[c].plan /\ mine.removed = client[c].removed
          /\ mine.first = client[c].first /\ mine.reused = from.ready
      BY <1>5, <1>6 DEF ClientType
    <3> HIDE DEF mine, f, base
    <3>3. RemovalFits(mine)
      BY <1>7, <1>6, <3>2 DEF RemovalFits
    <3>4. ClientFits(mine)
      BY <1>2, <1>4, <2>2, <3>2, <3>3 DEF ClientFits, Uploading, Handling
    <3> QED BY <3>1, <3>4
  <2>10. ASSUME NEW d \in Clients, d # c PROVE client'[d] \in ClientType /\ ClientFits(client'[d])
    <3>1. client[d] \in ClientType /\ ClientFits(client[d])
      BY DEF SemInv, ClientsFit
    <3> DEFINE other == [client[d] EXCEPT !.own = index[f]]
    <3>2. ASSUME Holds(d, f) PROVE other \in ClientType /\ ClientFits(other)
      <4>1. client[d].fp = f /\ client[d].pc \in Handling
        BY <3>2 DEF Holds, Handling
      <4>2. other \in ClientType
        BY <3>1, <1>2 DEF ClientType, RecordFits
      <4>3. /\ other.pc = client[d].pc /\ other.fp = f /\ other.base = client[d].base
            /\ other.plan = client[d].plan /\ other.removed = client[d].removed
            /\ other.first = client[d].first /\ other.reused = client[d].reused
            /\ other.copy = client[d].copy /\ other.own = index[f]
        BY <3>1, <4>1 DEF ClientType
      <4> HIDE DEF other, f
      <4>4. RemovalFits(other) <=> RemovalFits(client[d])
        BY <4>1, <4>3 DEF RemovalFits
      <4>5. ClientFits(other)
        BY <3>1, <4>1, <4>3, <4>4, <1>2 DEF ClientFits
      <4> QED BY <4>2, <4>5
    <3>3. client'[d] = IF Holds(d, f) /\ client[d].own = NoRecord THEN other ELSE client[d]
      BY <1>8, <2>10 DEF Replace
    <3> HIDE DEF other
    <3> QED BY <3>1, <3>2, <3>3
  <2>11. client' \in [Clients -> ClientType] /\ \A d \in Clients : ClientFits(client'[d])
    <3>1. client'[c] = mine /\ DOMAIN client' = Clients /\ client' = [d \in Clients |-> client'[d]]
      BY <1>8 DEF Replace, from
    <3> HIDE DEF mine
    <3> QED BY <3>1, <2>9, <2>10
  <2> QED BY <2>7, <2>8, <2>11 DEF ClientsFit
<1>9. ASSUME ~client[c].first, Continue(c, local)
      PROVE  StoresFit' /\ ClientsFit' /\ vectors' \subseteq Doc /\ shardMem' \subseteq Doc
  <2>1. StoresFit'
    <3>1. index' = [index EXCEPT ![f] = IF index[f] = NoRecord THEN Record(FALSE, <<>>) ELSE index[f]]
      BY <1>9 DEF Continue
    <3>2. RecordFits(f, IF index[f] = NoRecord THEN Record(FALSE, <<>>) ELSE index[f])
      BY <1>2, <1>4
    <3> HIDE DEF f
    <3>3. index' \in [Fps -> RecordType] /\ \A g \in Fps : RecordFits(g, index'[g])
      BY <3>1, <3>2, <1>2 DEF SemInv, StoresFit, RecordFits
    <3> QED BY <3>3, <1>9 DEF Continue, Open, SemInv, StoresFit
  <2>2. ClientFits(local)
    BY <1>2, <1>3, <1>4, <1>6, <1>7 DEF ClientFits, Uploading, Handling
  <2>3. ClientsFit'
    BY <1>5, <1>9, <2>2, ThenFits DEF Continue, Then, SemInv
  <2> QED BY <1>9, <2>1, <2>3 DEF Continue, SemInv, DataFits
<1>10. StoresFit' /\ ClientsFit' /\ vectors' \subseteq Doc /\ shardMem' \subseteq Doc
  BY <1>8, <1>9 DEF Open, local
<1>11. DataFits'
  <2>1. found' \in [Fps -> [ids : Seq(Doc), rows : Seq(Doc)]]
    BY <1>2, <1>3 DEF Open, SemInv, DataFits
  <2> QED BY <1>10, <2>1 DEF Open, SemInv, DataFits
<1> QED BY <1>10, <1>11 DEF SemInv

LEMMA EmbedFits ==
  ASSUME SemInv, NEW c \in Clients, Embed(c)
  PROVE  SemInv'
<1> DEFINE r == [Goto(c, "store") EXCEPT !.persisted = LoadedShard \cup client[c].missing, !.missing = {}]
<1>1. client[c].pc = "embed"
  BY DEF Embed, At
<1>2. client[c] \in ClientType /\ ClientFits(client[c]) /\ client[c].missing \subseteq Doc
  BY <1>1, UnderWay DEF Uploading, Handling, ClientType
<1>3. LoadedShard \subseteq Doc /\ KnownVectors \subseteq Doc
  BY DEF LoadedShard, KnownVectors, DataFits, SemInv
<1>4. r \in ClientType
  BY <1>2, <1>3 DEF Goto, ClientType
<1>5. /\ r.pc = "store" /\ r.fp = client[c].fp /\ r.base = client[c].base /\ r.own = client[c].own
      /\ r.plan = client[c].plan /\ r.removed = client[c].removed /\ r.first = client[c].first
      /\ r.reused = client[c].reused
  BY <1>2 DEF Goto, ClientType
<1>6. client' = [client EXCEPT ![c] = r]
  BY DEF Embed, Then
<1> HIDE DEF r
<1>7. ClientFits(r)
  BY <1>1, <1>2, <1>5 DEF ClientFits, RemovalFits, Uploading, Handling
<1>8. ClientsFit'
  BY <1>4, <1>6, <1>7, ThenFits DEF SemInv
<1>9. DataFits'
  BY <1>2, <1>3 DEF Embed, SemInv, DataFits, files, memory
<1> QED BY <1>8, <1>9, UnchangedFits DEF Embed, SemInv, files, memory

LEMMA StoreFits ==
  ASSUME SemInv, NEW c \in Clients, Store(c)
  PROVE  SemInv'
<1> DEFINE r == [Goto(c, "merge") EXCEPT !.persisted = {}]
<1>1. client[c].pc = "store"
  BY DEF Store, At
<1>2. client[c] \in ClientType /\ ClientFits(client[c]) /\ client[c].persisted \subseteq Doc
  BY <1>1, UnderWay DEF Uploading, Handling, ClientType
<1>4. r \in ClientType
  BY <1>2 DEF Goto, ClientType
<1>5. /\ r.pc = "merge" /\ r.fp = client[c].fp /\ r.base = client[c].base /\ r.own = client[c].own
      /\ r.plan = client[c].plan /\ r.removed = client[c].removed /\ r.first = client[c].first
      /\ r.reused = client[c].reused
  BY <1>2 DEF Goto, ClientType
<1>6. client' = [client EXCEPT ![c] = r]
  BY DEF Store, Then
<1> HIDE DEF r
<1>7. ClientFits(r)
  BY <1>1, <1>2, <1>5 DEF ClientFits, RemovalFits, Uploading, Handling
<1>8. ClientsFit'
  BY <1>4, <1>6, <1>7, ThenFits DEF SemInv
<1>9. DataFits'
  BY <1>2 DEF Store, SemInv, DataFits, files, memory
<1> QED BY <1>8, <1>9, UnchangedFits DEF Store, SemInv, files, memory

\* A record of a fingerprint that takes the place of the one in indexes.
LEMMA IndexFits ==
  ASSUME StoresFit, NEW f \in Fps, NEW r, RecordFits(f, r), index' = [index EXCEPT ![f] = r],
         UNCHANGED <<status, alias>>
  PROVE  StoresFit'
<1>1. index' \in [Fps -> RecordType] /\ \A g \in Fps : RecordFits(g, index'[g])
  BY DEF StoresFit, RecordFits
<1> QED BY <1>1 DEF StoresFit

\* The search state of a record is prepared from its documents.
LEMMA PreparedFits ==
  ASSUME NEW f \in Fps, NEW r, RecordFits(f, r)
  PROVE  RecordFits(f, [r EXCEPT !.rows = r.docs])
<1> DEFINE s == [r EXCEPT !.rows = r.docs]
<1>1. r \in RecordType /\ r.docs \in Seq(Doc) /\ List(f, r.docs)
  BY DEF RecordFits, RecordType
<1>2. s \in RecordType
  BY <1>1 DEF RecordType
<1>3. s.rows = r.docs /\ s.docs = r.docs /\ s.kind = r.kind
  BY <1>1 DEF RecordType
<1>4. r.kind = "none" => s = NoRecord
  <2> SUFFICES ASSUME r = NoRecord PROVE s = NoRecord
    BY DEF RecordFits
  <2> QED BY DEF NoRecord
<1> HIDE DEF s
<1>5. RecordFits(f, s)
  BY <1>1, <1>2, <1>3, <1>4 DEF RecordFits
<1> QED BY <1>5 DEF s

LEMMA MergeFits ==
  ASSUME SemInv, NEW c \in Clients, Merge(c)
  PROVE  SemInv'
<1> DEFINE f == client[c].fp
           have == Held(c).docs
           docs == have \o Without(Head(client[c].plan), Range(have))
           rec == IF Final(c) THEN [Record(TRUE, docs) EXCEPT !.rows = docs] ELSE Record(Held(c).ready, docs)
           clone == client[c].reused /\ client[c].first /\ client[c].removed = {} /\ Batch(c) = {}
           pc == IF clone THEN "alias" ELSE "file"
           own == IF client[c].own = NoRecord THEN NoRecord ELSE rec
           local == [Goto(c, pc) EXCEPT !.own = IF @ = NoRecord THEN NoRecord ELSE rec]
<1>1. client[c].pc = "merge"
  BY DEF Merge, At
<1>2. /\ client[c] \in ClientType /\ ClientFits(client[c]) /\ f \in Fps
      /\ RecordFits(f, Held(c)) /\ List(f, Head(client[c].plan))
  BY <1>1, UnderWay DEF Uploading, Handling
<1>3. List(f, docs) /\ Held(c).ready \in BOOLEAN
  BY <1>2, ListMerge DEF RecordFits, RecordType
<1> HIDE DEF docs
<1>4. RecordFits(f, rec) /\ RecordFits(f, NoRecord)
  <2>1. docs \in Seq(Doc) /\ List(f, <<>>)
    BY <1>3, <1>2, ConstantsFit DEF List
  <2>2. \A b \in BOOLEAN : RecordFits(f, Record(b, docs)) /\ Record(b, docs).docs = docs
    BY <1>3, <2>1 DEF RecordFits, RecordType, Record
  <2>3. RecordFits(f, [Record(TRUE, docs) EXCEPT !.rows = Record(TRUE, docs).docs])
    BY <2>2, <1>2, PreparedFits
  <2>4. RecordFits(f, NoRecord)
    BY <2>1 DEF RecordFits, RecordType, NoRecord
  <2> HIDE DEF have
  <2> QED BY <1>3, <2>2, <2>3, <2>4
<1> HIDE DEF rec
<1>5. StoresFit'
  <2>1. CASE client[c].own = NoRecord
    BY <2>1, <1>2, <1>4, IndexFits DEF Merge, SemInv, files, docs, rec
  <2>2. CASE client[c].own # NoRecord
    BY <2>2, UnchangedFits DEF Merge, SemInv, files
  <2> QED BY <2>1, <2>2
<1>6. local \in ClientType /\ ClientFits(local)
  <2>1. pc \in {"alias", "file"} /\ (pc = "alias" => clone) /\ RecordFits(f, own) /\ own \in RecordType
    BY <1>4 DEF RecordFits
  <2>2. local = [client[c] EXCEPT !.pc = pc, !.own = own]
    BY <1>2 DEF Goto, ClientType
  <2>3. local \in ClientType
    <3> HIDE DEF pc, own, local
    <3> QED BY <1>2, <2>1, <2>2 DEF ClientType
  <2>4. /\ local.pc = pc /\ local.fp = f /\ local.base = client[c].base /\ local.own = own
        /\ local.plan = client[c].plan /\ local.removed = client[c].removed
        /\ local.first = client[c].first /\ local.reused = client[c].reused
    <3> HIDE DEF pc, own, local
    <3> QED BY <1>2, <2>2 DEF ClientType
  <2> HIDE DEF local, own, pc
  <2>5. ClientFits(local)
    BY <1>1, <1>2, <2>1, <2>4 DEF ClientFits, RemovalFits, Uploading, Handling
  <2> QED BY <2>3, <2>5
<1>7. ClientsFit'
  <2>1. CASE client' = [client EXCEPT ![c] = local]
    <3> HIDE DEF local
    <3> QED BY <1>6, <2>1, ThenFits DEF SemInv
  <2>2. CASE client' = [client EXCEPT ![c] = Accepted(c, client[c].reused)]
    BY <1>1, <2>2, AcceptedFits, ThenFits DEF SemInv, Handling
  <2> QED BY <2>1, <2>2 DEF Merge, Then, docs, rec
<1> QED BY <1>5, <1>7, UnchangedFits DEF Merge, SemInv, files, store

LEMMA WriteAliasFits ==
  ASSUME SemInv, NEW c \in Clients, WriteAlias(c)
  PROVE  SemInv'
<1> DEFINE f == client[c].fp
           base == client[c].base
           read == StatusOf(base)
           copy == IF read # NoFile THEN read
                   ELSE IF IndexOf(base) # NoRecord
                   THEN StatusFile(IndexOf(base).ready, IndexOf(base).docs)
                   ELSE NoFile
           gone == Goto(c, "file")
           made == [Goto(c, "copy") EXCEPT !.copy = copy]
<1>1. client[c].pc = "alias"
  BY DEF WriteAlias, At
<1>2. /\ client[c] \in ClientType /\ ClientFits(client[c]) /\ f \in Fps /\ base \in Fps
      /\ Range(Docs[base]) \subseteq Range(Docs[f])
  <2>1. client[c] \in ClientType /\ ClientFits(client[c]) /\ f \in Fps /\ base \in Fps \cup {NoFp}
    BY <1>1, UnderWay DEF Uploading, Handling
  <2>2. client[c].first /\ client[c].reused /\ client[c].removed = {} /\ RemovalFits(client[c])
    BY <1>1, <2>1 DEF ClientFits, Uploading, Handling
  <2>3. base # NoFp
    BY <2>1, <2>2 DEF ClientFits
  <2> QED BY <2>1, <2>2, <2>3 DEF RemovalFits
<1>3. FileFits(f, copy)
  <2>1. FileFits(base, copy)
    <3>1. FileFits(base, read) /\ FileFits(base, StatusFile(IndexOf(base).ready, IndexOf(base).docs))
      BY <1>2, StatusOfFits, IndexOfFits DEF SemInv
    <3>2. read # NoFile \/ IndexOf(base) # NoRecord \/ copy = read
      OBVIOUS
    <3> HIDE DEF read
    <3> QED BY <3>1, <3>2
  <2> HIDE DEF copy
  <2> QED BY <2>1, <1>2 DEF FileFits, List
<1> HIDE DEF copy
<1>4. gone \in ClientType /\ ClientFits(gone)
  <2>1. gone \in ClientType
    BY <1>2 DEF Goto, ClientType
  <2>2. /\ gone.pc = "file" /\ gone.fp = f /\ gone.base = base /\ gone.own = client[c].own
        /\ gone.plan = client[c].plan /\ gone.removed = client[c].removed
        /\ gone.first = client[c].first /\ gone.reused = client[c].reused
    BY <1>2 DEF Goto, ClientType
  <2> HIDE DEF gone
  <2>3. ClientFits(gone)
    BY <1>1, <1>2, <2>2 DEF ClientFits, RemovalFits, Uploading, Handling
  <2> QED BY <2>1, <2>3
<1>5. made \in ClientType /\ ClientFits(made)
  <2>1. made \in ClientType
    BY <1>2, <1>3 DEF Goto, ClientType, FileFits
  <2>2. /\ made.pc = "copy" /\ made.fp = f /\ made.base = base /\ made.own = client[c].own
        /\ made.plan = client[c].plan /\ made.removed = client[c].removed
        /\ made.first = client[c].first /\ made.reused = client[c].reused /\ made.copy = copy
    BY <1>2 DEF Goto, ClientType
  <2> HIDE DEF made
  <2>3. ClientFits(made)
    BY <1>1, <1>2, <1>3, <2>2 DEF ClientFits, RemovalFits, Uploading, Handling
  <2> QED BY <2>1, <2>3
<1>6. \/ client' = [client EXCEPT ![c] = gone] /\ UNCHANGED alias
      \/ client' = [client EXCEPT ![c] = made] /\ alias' = [alias EXCEPT ![f] = base]
  BY DEF WriteAlias, Then, copy
<1>7. ClientsFit'
  <2> HIDE DEF gone, made
  <2> QED BY <1>4, <1>5, <1>6, ThenFits DEF SemInv
<1>8. AliasFits(alias)'
  <2>1. AliasFits(alias)
    BY DEF SemInv, StoresFit
  <2> HIDE DEF f, base
  <2> QED BY <1>2, <1>6, <2>1 DEF AliasFits
<1>9. StoresFit'
  BY <1>8 DEF WriteAlias, SemInv, StoresFit, memory
<1> QED BY <1>7, <1>9, UnchangedFits DEF WriteAlias, SemInv, memory, store

\* A status file of a fingerprint is replaced; an alias may go.
LEMMA StatusFits ==
  ASSUME StoresFit, NEW f \in Fps, NEW r, FileFits(f, r), status' = [status EXCEPT ![f] = r],
         alias' = alias \/ alias' = [alias EXCEPT ![f] = NoFp], UNCHANGED index
  PROVE  StoresFit'
<1>1. status' \in [Fps -> FileType] /\ \A g \in Fps : FileFits(g, status'[g])
  BY DEF StoresFit, FileFits
<1>2. AliasFits(alias)'
  BY DEF StoresFit, AliasFits
<1> QED BY <1>1, <1>2 DEF StoresFit

LEMMA CopyStatusFits ==
  ASSUME SemInv, NEW c \in Clients, CopyStatus(c)
  PROVE  SemInv'
<1>1. client[c].pc = "copy" /\ client[c].pc \in Handling
  BY DEF CopyStatus, At, Handling
<1>2. client[c].fp \in Fps /\ FileFits(client[c].fp, client[c].copy)
  BY <1>1, UnderWay DEF Uploading, ClientFits
<1>3. StoresFit'
  BY <1>2, StatusFits DEF CopyStatus, SemInv, memory
<1>4. ClientsFit'
  BY <1>1, AcceptedFits, ThenFits DEF CopyStatus, Then, SemInv
<1> QED BY <1>3, <1>4, UnchangedFits DEF CopyStatus, SemInv, memory, store

LEMMA WriteStatusFits ==
  ASSUME SemInv, NEW c \in Clients, WriteStatus(c)
  PROVE  SemInv'
<1> DEFINE f == client[c].fp
           r == Goto(c, "rows")
<1>1. client[c].pc = "file"
  BY DEF WriteStatus, At
<1>2. client[c] \in ClientType /\ ClientFits(client[c]) /\ f \in Fps /\ RecordFits(f, Held(c))
  BY <1>1, UnderWay DEF Uploading, Handling
<1>3. FileFits(f, StatusFile(Held(c).ready, Held(c).docs))
  BY <1>2 DEF RecordFits, RecordType, FileFits, FileType, StatusFile
<1>4. StoresFit'
  BY <1>2, <1>3, StatusFits DEF WriteStatus, SemInv, memory
<1>5. r \in ClientType
  BY <1>2 DEF Goto, ClientType
<1>6. /\ r.pc = "rows" /\ r.fp = f /\ r.base = client[c].base /\ r.own = client[c].own
      /\ r.plan = client[c].plan /\ r.removed = client[c].removed
      /\ r.first = client[c].first /\ r.reused = client[c].reused
  BY <1>2 DEF Goto, ClientType
<1> HIDE DEF r
<1>7. ClientFits(r)
  BY <1>1, <1>2, <1>6 DEF ClientFits, RemovalFits, Uploading, Handling
<1>8. ClientsFit'
  BY <1>5, <1>7, ThenFits DEF WriteStatus, Then, SemInv, r
<1> QED BY <1>4, <1>8, UnchangedFits DEF WriteStatus, SemInv, memory, store

LEMMA WriteRowsFits ==
  ASSUME SemInv, NEW c \in Clients, WriteRows(c)
  PROVE  SemInv'
<1>1. client[c].pc = "rows" /\ client[c].pc \in Handling
  BY DEF WriteRows, At, Handling
<1>2. client[c].fp \in Fps /\ Held(c).rows \in Seq(Doc)
  BY <1>1, UnderWay DEF Uploading, RecordFits, RecordType
<1>3. ClientsFit'
  BY <1>1, AcceptedFits, ThenFits DEF WriteRows, Then, SemInv
<1>4. DataFits'
  BY <1>2 DEF WriteRows, SemInv, DataFits, memory, store
<1> QED BY <1>3, <1>4, UnchangedFits DEF WriteRows, SemInv, memory, store

LEMMA PairsFit ==
  ASSUME NEW s \in Seq(Doc), NEW t \in Seq(Doc)
  PROVE  Pairs(s, t) \subseteq Doc \X Doc
<1>1. \A i \in DOMAIN s : s[i] \in Doc
  BY LenProperties, ElementOfSeq
<1>2. \A i \in DOMAIN t : t[i] \in Doc
  BY LenProperties, ElementOfSeq
<1> QED BY <1>1, <1>2 DEF Pairs

LEMMA SearchRecordFits ==
  ASSUME SemInv, NEW c \in Clients, SearchRecord(c)
  PROVE  SemInv'
<1> DEFINE f == client[c].fp
           order == IF index[f].rows # <<>> THEN index[f].rows ELSE index[f].docs
<1>1. client[c].pc = "search" /\ f \in Fps
  BY DEF SearchRecord, At, SemInv, ClientsFit, ClientFits
<1>2. RecordFits(f, index[f]) /\ index[f].docs \in Seq(Doc)
  BY <1>1 DEF SemInv, StoresFit, RecordFits, RecordType
<1>3. order = index[f].docs \/ index[f].rows = <<>>
  BY <1>2 DEF RecordFits
<1>4. order = index[f].docs
  BY <1>2, <1>3 DEF RecordFits
<1>5. CASE index[f].ready
  <2>1. index' = [index EXCEPT ![f].rows = order] /\ Answered(c, Pairs(order, order))
    BY <1>5 DEF SearchRecord
  <2> HIDE DEF order
  <2>2. RecordFits(f, [index[f] EXCEPT !.rows = order])
    BY <1>2, <1>4, <1>5 DEF RecordFits, RecordType, NoRecord
  <2>3. index' = [index EXCEPT ![f] = [index[f] EXCEPT !.rows = order]]
    BY <2>1
  <2>4. StoresFit'
    BY <1>1, <2>2, <2>3, IndexFits DEF SearchRecord, SemInv, files
  <2>5. ClientsFit'
    BY <1>2, <1>4, <2>1, PairsFit, AnsweredFits DEF SemInv
  <2> QED BY <2>4, <2>5, UnchangedFits DEF SearchRecord, SemInv, files, store
<1>6. CASE ~index[f].ready
  <2>1. ClientsFit'
    BY <1>6, EndFits DEF SearchRecord, SemInv
  <2> QED BY <1>6, <2>1, UnchangedFits DEF SearchRecord, SemInv, files, store
<1> QED BY <1>5, <1>6

LEMMA SearchFilesFits ==
  ASSUME SemInv, NEW c \in Clients, SearchFiles(c)
  PROVE  SemInv'
<1> DEFINE f == client[c].fp
           read == StatusOf(f)
           kept == IF found[f].ids # <<>> THEN found[f] ELSE [ids |-> read.ids, rows |-> RowsOf(f)]
<1>1. client[c].pc = "search" /\ f \in Fps
  BY DEF SearchFiles, At, SemInv, ClientsFit, ClientFits
<1>2. kept \in [ids : Seq(Doc), rows : Seq(Doc)]
  <2>1. read.ids \in Seq(Doc) /\ RowsOf(f) \in Seq(Doc)
    BY <1>1, StatusOfFits, RowsOfFits DEF SemInv, FileFits, FileType
  <2>2. found[f] \in [ids : Seq(Doc), rows : Seq(Doc)]
    BY <1>1 DEF SemInv, DataFits
  <2> HIDE DEF read
  <2> QED BY <2>1, <2>2
<1>3. /\ found' = [found EXCEPT ![f] = kept]
      /\ \/ \E some \in SUBSET Pairs(kept.ids, kept.rows) : Answered(c, some)
         \/ End(c, "degraded")
  BY DEF SearchFiles
<1> HIDE DEF kept
<1>4. DataFits'
  BY <1>1, <1>2, <1>3 DEF SearchFiles, SemInv, DataFits, files, store
<1>5. ClientsFit'
  <2>1. Pairs(kept.ids, kept.rows) \subseteq Doc \X Doc
    BY <1>2, PairsFit
  <2> QED BY <1>3, <2>1, AnsweredFits, EndFits DEF SemInv
<1> QED BY <1>4, <1>5, UnchangedFits DEF SearchFiles, SemInv, files, store

LEMMA SearchRebuiltFits ==
  ASSUME SemInv, NEW c \in Clients, SearchRebuilt(c)
  PROVE  SemInv'
<1> DEFINE f == client[c].fp
           record == IndexOf(f)
           rec == [record EXCEPT !.rows = record.docs]
<1>1. client[c].pc = "search" /\ f \in Fps
  BY DEF SearchRebuilt, At, SemInv, ClientsFit, ClientFits
<1>2. RecordFits(f, record) /\ record.docs \in Seq(Doc)
  BY <1>1, IndexOfFits DEF SemInv, RecordFits, RecordType
<1>3. /\ index' = [index EXCEPT ![f] = rec] /\ Answered(c, Pairs(record.docs, record.docs))
      /\ LoadIndex(f)
  BY DEF SearchRebuilt
<1> HIDE DEF record
<1>4. RecordFits(f, rec)
  BY <1>1, <1>2, PreparedFits
<1> HIDE DEF rec
<1>5. AliasFits(alias)' /\ vectors' \subseteq Doc /\ shardMem' \subseteq Doc
  BY <1>1, <1>3, LoadIndexFits DEF SemInv
<1>6. StoresFit'
  <2>1. index' \in [Fps -> RecordType] /\ \A g \in Fps : RecordFits(g, index'[g])
    BY <1>1, <1>3, <1>4 DEF SemInv, StoresFit, RecordFits
  <2> QED BY <1>5, <2>1 DEF SearchRebuilt, SemInv, StoresFit
<1>7. ClientsFit'
  BY <1>2, <1>3, PairsFit, AnsweredFits DEF SemInv
<1>8. DataFits'
  BY <1>5 DEF SearchRebuilt, SemInv, DataFits
<1> QED BY <1>6, <1>7, <1>8 DEF SemInv

LEMMA FaultFits ==
  ASSUME SemInv, \/ \E c \in Clients : EmbedFails(c) \/ Kill(c)
                 \/ Restart("restart") \/ Restart("loss")
  PROVE  SemInv'
<1>1. ASSUME NEW kind, Strike(kind) PROVE faults' \in 0 .. MaxFaults
  BY <1>1, SemanticAssumption DEF Strike, SemInv, DataFits
<1>2. ASSUME NEW c \in Clients, EmbedFails(c) \/ Kill(c) PROVE SemInv'
  <2>1. ClientsFit' /\ faults' \in 0 .. MaxFaults
    BY <1>1, <1>2, EndFits DEF EmbedFails, Kill, SemInv
  <2>2. UNCHANGED <<status, index, alias, rows, found, shard, vectors, shardMem, manifest>>
    BY <1>2 DEF EmbedFails, Kill, files, memory, store
  <2> QED BY <2>1, <2>2, UnchangedFits DEF SemInv, DataFits
<1>3. ASSUME NEW kind, Restart(kind) PROVE SemInv'
  <2>1. /\ NoFile \in FileType /\ NoRecord \in RecordType /\ <<>> \in Seq(Doc)
        /\ \A f \in Fps : FileFits(f, NoFile) /\ RecordFits(f, NoRecord)
    <3>1. NoFile \in FileType /\ NoRecord \in RecordType
      BY DEF NoFile, NoRecord, FileType, RecordType
    <3> QED BY <3>1, ConstantsFit DEF NoFile, NoRecord, FileFits, RecordFits
  <2>2. StoresFit'
    <3>1. index' = [f \in Fps |-> NoRecord]
      BY <1>3 DEF Restart
    <3>2. CASE UNCHANGED <<status, alias>>
      BY <2>1, <3>1, <3>2 DEF SemInv, StoresFit
    <3>3. CASE status' = [f \in Fps |-> NoFile] /\ alias' = [f \in Fps |-> NoFp]
      BY <2>1, <3>1, <3>3 DEF StoresFit, AliasFits
    <3> QED BY <1>3, <3>2, <3>3 DEF Restart, files
  <2>3. DataFits'
    <3>1. vectors' \subseteq Doc /\ shardMem' \subseteq Doc /\ shard' \subseteq Doc
      BY <1>3 DEF Restart, SemInv, DataFits
    <3>2. rows' \in [Fps -> Seq(Doc)]
      <4>1. CASE UNCHANGED rows
        BY <4>1 DEF SemInv, DataFits
      <4>2. CASE rows' = [f \in Fps |-> <<>>]
        BY <4>2, <2>1
      <4> QED BY <1>3, <4>1, <4>2 DEF Restart, files
    <3>3. found' \in [Fps -> [ids : Seq(Doc), rows : Seq(Doc)]]
      BY <1>3, <2>1 DEF Restart
    <3>4. faults' \in 0 .. MaxFaults
      BY <1>1, <1>3 DEF Restart
    <3> QED BY <1>3, <3>1, <3>2, <3>3, <3>4 DEF Restart, SemInv, DataFits
  <2>4. ClientsFit'
    <3>1. ASSUME NEW c \in Clients
          PROVE  client'[c] \in ClientType /\ ClientFits(client'[c])
      <4> DEFINE r == [Idle EXCEPT !.fp = client[c].fp, !.out = "degraded"]
      <4>1. client[c] \in ClientType /\ ClientFits(client[c])
        BY DEF SemInv, ClientsFit
      <4>2. r \in ClientType /\ r.pc = "idle" /\ r.own = NoRecord /\ r.reused = FALSE
        BY <4>1, IdleFits DEF ClientType
      <4>3. client'[c] = r \/ client'[c] = client[c]
        BY <1>3 DEF Restart
      <4> HIDE DEF r
      <4> QED BY <4>1, <4>2, <4>3, RestsFits
    <3>2. client' = [c \in Clients |-> client'[c]]
      BY <1>3 DEF Restart
    <3> QED BY <3>1, <3>2 DEF ClientsFit
  <2> QED BY <2>2, <2>3, <2>4 DEF SemInv
<1> QED BY <1>2, <1>3

LEMMA StepFits ==
  ASSUME SemInv, [Next]_vars
  PROVE  SemInv'
<1>1. ASSUME NEW c \in Clients, ServiceStep(c) PROVE SemInv'
  BY <1>1, OpenFits, EmbedFits, StoreFits, MergeFits, WriteAliasFits, CopyStatusFits, WriteStatusFits,
     WriteRowsFits, SearchRecordFits, SearchFilesFits, SearchRebuiltFits DEF ServiceStep
<1>2. CASE UNCHANGED vars
  BY <1>2 DEF vars, SemInv, StoresFit, DataFits, ClientsFit
<1> QED BY <1>1, <1>2, BeginFits, ClientStepFits, FaultFits DEF Next

LEMMA SemInvariant == Spec => []SemInv
<1>1. SemInv /\ [Next]_vars => SemInv'
  BY StepFits
<1> QED BY <1>1, InitFits, PTL DEF Spec

\* Every variable stays in its domain and no list of ids names a document
\* twice, for any number of inspections, repository states and faults.
THEOREM SemanticTypeCorrect == Spec => []SemTypeOK
<1>1. SemInv => SemTypeOK
  BY DEF SemInv, StoresFit, DataFits, ClientsFit, AliasFits, FileFits, RecordFits, List, SemTypeOK
<1> QED BY <1>1, SemInvariant, PTL

LEMMA ReadyComplete == SemInv => ReadyIsComplete
<1> SUFFICES ASSUME SemInv, NEW f \in Fps, IsReady(f)
             PROVE  Range(IF index[f] # NoRecord THEN index[f].docs ELSE StatusOf(f).ids)
                      = Range(Docs[f])
  BY DEF ReadyIsComplete
<1> DEFINE s == IF index[f] # NoRecord THEN index[f].docs ELSE StatusOf(f).ids
<1>1. List(f, s)
  BY StatusOfFits DEF SemInv, StoresFit, RecordFits, FileFits
<1>2. Len(s) = Len(Docs[f])
  BY DEF IsReady
<1>3. List(f, Docs[f])
  BY ConstantsFit
<1> HIDE DEF s
<1>4. Range(s) = Range(Docs[f])
  BY <1>1, <1>2, <1>3, CountDecides DEF List
<1> QED BY <1>4 DEF s

\* Whoever interleaves with whom and whatever dies: the count that index_status
\* compares is enough, since no list of ids holds a document of another state
\* of the repository, or one twice.
THEOREM ReadyMeansComplete == Spec => []ReadyIsComplete
<1>1. SemInv => ReadyIsComplete
  BY ReadyComplete
<1> QED BY <1>1, SemInvariant, PTL

-----------------------------------------------------------------------------
(* One inspection at a time, NumPy, any faults: what is searched is whole. *)

Whole(f, s) == Range(s) = Range(Docs[f])
Sealed(f) == status[f].ready /\ Whole(f, status[f].ids)
Handled(f) == \E c \in Clients : Holds(c, f)

\* What a search of f finds, in memory or in the files, is whole.
Searchable(f) ==
  /\ index[f].ready => Whole(f, index[f].docs)
  /\ StatusOf(f).ready => Whole(f, StatusOf(f).ids)

\* The record of an upload is not ready before its last batch; what is cloned
\* is the ready record of the base, and its file follows the record.
UploadIsOpen(r) ==
  /\ r.pc \in {"embed", "store", "merge"} \/ (r.pc = "open" /\ ~r.first) => ~index[r.fp].ready
  /\ r.pc \in {"alias", "copy", "file", "rows"} => Tail(r.plan) = <<>>
  /\ r.pc \in {"embed", "store", "merge", "alias"} /\ r.first /\ r.reused /\ r.removed = {}
       => index[r.base].ready /\ Range(index[r.fp].docs) = Range(index[r.base].docs)
  /\ r.pc = "copy" /\ index[r.fp].ready /\ Whole(r.fp, index[r.fp].docs)
       => r.copy.ready /\ Whole(r.fp, r.copy.ids)
  /\ r.pc = "rows" => status[r.fp] = StatusFile(index[r.fp].ready, index[r.fp].docs)

AnswerWhole(r) == ~Faiss /\ r.out = "gpu" => {p[1] : p \in r.answer} = Range(Docs[r.fp])

FoundIsWhole == \A f \in Fps : found[f].ids = <<>> \/ Whole(f, found[f].ids)

ReadyIsSealed ==
  \A f \in Fps : ~Handled(f) /\ index[f].ready /\ Whole(f, index[f].docs) => Sealed(f)

InspectionWhole(r) ==
  /\ r.own = NoRecord
  /\ UploadIsOpen(r)
  /\ r.pc \in {"manifest", "search"} => Searchable(r.fp)
  /\ AnswerWhole(r)

WholeInv == FoundIsWhole /\ ReadyIsSealed /\ \A c \in Clients : InspectionWhole(client[c])

\* What is on disk under its own name is what is read.
LEMMA StatusOfOwn ==
  ASSUME NEW f \in Fps, status[f] # NoFile \/ alias[f] = NoFp
  PROVE  StatusOf(f) = status[f]
<1> DEFINE pass == {g \in Fps : status[g] = NoFile /\ alias[g] # NoFp}
<1>1. f \notin pass
  OBVIOUS
<1> HIDE DEF pass
<1>2. Chain(f, pass) = {f}
  <2>1. f \in Chain(f, pass)
    BY DEF Chain
  <2>2. ASSUME NEW g \in Chain(f, pass) PROVE g = f
    <3>1. {f} \in SUBSET Fps /\ \A h \in {f} \cap pass : alias[h] \in {f}
      BY <1>1
    <3>2. g \in {f}
      BY <3>1 DEF Chain
    <3> QED BY <3>2
  <2> QED BY <2>1, <2>2
<1>3. Ends(f, pass) = {f}
  BY <1>1, <1>2 DEF Ends
<1> QED BY <1>3 DEF StatusOf, pass

LEMMA StatusOfStays ==
  ASSUME NEW f, UNCHANGED <<status, alias>>
  PROVE  StatusOf(f)' = StatusOf(f)
<1> DEFINE pass == {g \in Fps : status[g] = NoFile /\ alias[g] # NoFp}
           ends == Ends(f, pass)
           file(e) == IF e = {} THEN NoFile ELSE status[CHOOSE g \in e : TRUE]
<1>1. StatusOf(f) = file(ends)
  BY DEF StatusOf
<1>2. StatusOf(f)' = file(ends)'
  BY DEF StatusOf
<1>3. ends' = ends
  <2>1. pass' = pass
    OBVIOUS
  <2>2. Chain(f, pass)' = Chain(f, pass)
    <3> HIDE DEF pass
    <3> QED BY <2>1 DEF Chain
  <2> HIDE DEF pass
  <2> QED BY <2>1, <2>2 DEF Ends
<1> HIDE DEF ends
<1>4. file(ends)' = file(ends)
  BY <1>3
<1> QED BY <1>1, <1>2, <1>4

\* What one inspection does leaves it alone in the steps below.
LEMMA OnlyInspection ==
  ASSUME NEW c, Clients = {c}, SemInv
  PROVE  /\ c \in Clients
         /\ client[c] \in ClientType /\ ClientFits(client[c])
         /\ \A local : client' = [client EXCEPT ![c] = local] => client'[c] = local
         /\ \A f : Handled(f) <=> client[c].fp = f /\ client[c].pc \in Handling
         /\ \A f : Handled(f)' <=> client'[c].fp = f /\ client'[c].pc \in Handling
<1>1. client \in [Clients -> ClientType] /\ ClientFits(client[c])
  BY DEF SemInv, ClientsFit
<1>2. \A f : Handled(f) <=> client[c].fp = f /\ client[c].pc \in Handling
  BY DEF Handled, Holds, Handling
<1>3. \A f : Handled(f)' <=> client'[c].fp = f /\ client'[c].pc \in Handling
  BY DEF Handled, Holds, Handling
<1> QED BY <1>1, <1>2, <1>3

LEMMA ReadyIsSearchable ==
  ASSUME SemInv, WholeInv, NEW f \in Fps, ~Handled(f), IsReady(f)
  PROVE  Searchable(f)
<1>1. Range(IF index[f] # NoRecord THEN index[f].docs ELSE StatusOf(f).ids) = Range(Docs[f])
  BY ReadyComplete DEF ReadyIsComplete
<1>2. CASE index[f] # NoRecord
  <2>1. Sealed(f) /\ Whole(f, index[f].docs)
    BY <1>1, <1>2 DEF IsReady, Whole, WholeInv, ReadyIsSealed
  <2>2. StatusOf(f) = status[f]
    BY <2>1, StatusOfOwn DEF Sealed, NoFile
  <2> QED BY <2>1, <2>2 DEF Searchable, Sealed
<1>3. CASE index[f] = NoRecord
  BY <1>1, <1>3 DEF Searchable, Whole, NoRecord
<1> QED BY <1>2, <1>3

\* The inspection waits, or starts an upload.
LEMMA WaitsWhole ==
  ASSUME NEW c, Clients = {c}, AnswerWhole(client[c])', client'[c].own = NoRecord,
         client'[c].pc \in {"idle", "status", "finalized"} \/ (client'[c].pc = "open" /\ client'[c].first)
  PROVE  \A d \in Clients : InspectionWhole(client[d])'
BY DEF InspectionWhole, UploadIsOpen

\* Nothing is written and no request is under way afterwards.
LEMMA QuietWhole ==
  ASSUME NEW c, Clients = {c}, SemInv, WholeInv, UNCHANGED <<status, index, found>>,
         client[c].pc \in Handling => ~index[client[c].fp].ready,
         AnswerWhole(client[c])', client'[c].own = NoRecord,
         client'[c].pc \in {"idle", "status", "finalized"} \/ (client'[c].pc = "open" /\ client'[c].first)
  PROVE  WholeInv'
<1>1. FoundIsWhole'
  BY DEF WholeInv, FoundIsWhole
<1>2. ReadyIsSealed'
  BY OnlyInspection DEF WholeInv, ReadyIsSealed, Sealed, Handling
<1> QED BY <1>1, <1>2, WaitsWhole DEF WholeInv

LEMMA EndedAs ==
  ASSUME NEW c, Clients = {c}, SemInv, NEW out, End(c, out)
  PROVE  /\ client'[c].pc = "idle" /\ client'[c].own = NoRecord /\ client'[c].fp = client[c].fp
         /\ client'[c].out = out /\ client'[c].answer = {}
<1> DEFINE r == [Idle EXCEPT !.fp = client[c].fp, !.out = out]
<1>1. client' = [client EXCEPT ![c] = r]
  BY DEF End, Then
<1>2. r.pc = "idle" /\ r.own = NoRecord /\ r.fp = client[c].fp /\ r.out = out /\ r.answer = {}
  BY DEF Idle
<1> HIDE DEF r
<1> QED BY <1>1, <1>2, OnlyInspection

LEMMA AnsweredAs ==
  ASSUME NEW c, Clients = {c}, SemInv, NEW pairs, Answered(c, pairs)
  PROVE  /\ client'[c].pc = "idle" /\ client'[c].own = NoRecord /\ client'[c].fp = client[c].fp
         /\ \/ client'[c].out = "gpu" /\ client'[c].answer = pairs /\ pairs # {}
            \/ client'[c].out = "degraded" /\ client'[c].answer = {}
<1>1. CASE End(c, "degraded")
  BY <1>1, EndedAs
<1> DEFINE r == [Idle EXCEPT !.fp = client[c].fp, !.out = "gpu", !.answer = pairs]
<1>2. CASE client' = [client EXCEPT ![c] = r] /\ pairs # {}
  <2>1. r.pc = "idle" /\ r.own = NoRecord /\ r.fp = client[c].fp /\ r.out = "gpu" /\ r.answer = pairs
    BY DEF Idle
  <2> HIDE DEF r
  <2> QED BY <1>2, <2>1, OnlyInspection
<1> QED BY <1>1, <1>2 DEF Answered, Then

\* What is left of an inspection whose batch was accepted.
LEMMA AcceptedAs ==
  ASSUME NEW c, Clients = {c}, SemInv, client[c].pc \in Handling,
         client' = [client EXCEPT ![c] = Accepted(c, client[c].reused)]
  PROVE  /\ client'[c].pc \in {"open", "finalized"} /\ client'[c].own = NoRecord
         /\ client'[c].fp = client[c].fp /\ client'[c].out = client[c].out
         /\ client'[c].answer = client[c].answer
         /\ Tail(client[c].plan) = <<>> /\ client'[c].pc = "open" => client'[c].first
         /\ Tail(client[c].plan) = <<>> /\ (client[c].base = NoFp \/ client[c].reused)
              => client'[c].pc = "finalized"
         /\ Tail(client[c].plan) # <<>> =>
              /\ client'[c].pc = "open" /\ client'[c].first = FALSE
              /\ client'[c].plan = Tail(client[c].plan) /\ client'[c].base = client[c].base
              /\ client'[c].reused = client[c].reused
<1> DEFINE r == Accepted(c, client[c].reused)
           after == [client[c] EXCEPT !.own = NoRecord, !.copy = NoFile, !.removed = {}, !.first = FALSE]
           rest == Tail(client[c].plan)
           next == [after EXCEPT !.pc = "open", !.plan = rest, !.reused = client[c].reused]
           again == [after EXCEPT !.pc = "open", !.plan = Batches(Docs[client[c].fp], FALSE),
                                  !.first = TRUE, !.base = NoFp, !.reused = FALSE]
           over == [after EXCEPT !.pc = "finalized", !.plan = <<>>, !.reused = FALSE]
<1>1. client'[c] = r /\ client[c] \in ClientType
  <2> HIDE DEF r
  <2> QED BY OnlyInspection DEF r
<1>2. /\ after.fp = client[c].fp /\ after.own = NoRecord /\ after.first = FALSE
      /\ after.base = client[c].base
      /\ after.out = client[c].out /\ after.answer = client[c].answer
      /\ DOMAIN after = DOMAIN client[c]
  BY <1>1 DEF ClientType
<1>3. DOMAIN client[c] = {"pc", "fp", "base", "plan", "removed", "first", "reused", "own", "missing",
                          "persisted", "copy", "answer", "out"}
  BY <1>1 DEF ClientType
<1>4. r = IF rest # <<>> THEN next ELSE IF client[c].base # NoFp /\ ~client[c].reused THEN again ELSE over
  BY DEF Accepted
<1> HIDE DEF after, rest, r
<1>5. /\ next.pc = "open" /\ next.own = NoRecord /\ next.fp = client[c].fp /\ next.first = FALSE
      /\ next.out = client[c].out /\ next.answer = client[c].answer
      /\ next.plan = rest /\ next.base = client[c].base /\ next.reused = client[c].reused
  BY <1>2, <1>3
<1>6. /\ again.pc = "open" /\ again.own = NoRecord /\ again.fp = client[c].fp /\ again.first = TRUE
      /\ again.out = client[c].out /\ again.answer = client[c].answer
  BY <1>2, <1>3
<1>7. /\ over.pc = "finalized" /\ over.own = NoRecord /\ over.fp = client[c].fp
      /\ over.out = client[c].out /\ over.answer = client[c].answer
  BY <1>2, <1>3
<1> HIDE DEF next, again, over
<1> QED BY <1>1, <1>4, <1>5, <1>6, <1>7 DEF rest

\* Where the inspection stands after a step of its upload.
Continues(r, s) ==
  /\ s.fp = r.fp /\ s.base = r.base /\ s.plan = r.plan /\ s.removed = r.removed /\ s.first = r.first
  /\ s.out = r.out /\ s.answer = r.answer

LEMMA OpenAs ==
  ASSUME NEW c, Clients = {c}, SemInv, Open(c)
  PROVE  /\ client'[c].pc \in {"merge", "embed"} /\ client'[c].own = NoRecord
         /\ Continues(client[c], client'[c])
         /\ ~client[c].first => client'[c].reused = client[c].reused
         /\ client[c].first => client'[c].reused = (IF client[c].base = NoFp THEN NoRecord
                                                    ELSE IndexOf(client[c].base)).ready
<1> DEFINE base == client[c].base
           missing == Batch(c) \ KnownVectors
           pc == IF missing = {} THEN "merge" ELSE "embed"
           local == [Goto(c, pc) EXCEPT !.missing = missing]
           from == IF base = NoFp THEN NoRecord ELSE IndexOf(base)
           mine(b) == [local EXCEPT !.reused = b]
<1>1. c \in Clients /\ client[c] \in ClientType /\ client[c].own = NoRecord
  BY OnlyInspection DEF Open, At, ClientFits, Handling
<1>2. pc \in {"merge", "embed"}
  OBVIOUS
<1> HIDE DEF pc, missing
<1>3. local \in ClientType \/ DOMAIN local = DOMAIN client[c]
  BY <1>1 DEF Goto, ClientType
<1>4. /\ local.pc = pc /\ local.own = NoRecord /\ Continues(client[c], local)
      /\ local.reused = client[c].reused
  BY <1>1 DEF Goto, ClientType, Continues
<1>5. ASSUME NEW b
      PROVE  mine(b).pc = pc /\ mine(b).own = NoRecord /\ Continues(client[c], mine(b)) /\ mine(b).reused = b
  BY <1>1 DEF Goto, ClientType, Continues
<1> HIDE DEF local, mine
<1>6. CASE client[c].first /\ Replace(c, local)
  <2>1. client'[c] = mine(from.ready)
    BY <1>1, <1>6 DEF Replace, from, mine
  <2> HIDE DEF from
  <2>2. client'[c].pc = pc /\ client'[c].own = NoRecord /\ Continues(client[c], client'[c])
        /\ client'[c].reused = from.ready
    BY <1>5, <2>1
  <2> QED BY <1>2, <1>6, <2>2 DEF from
<1>7. CASE ~client[c].first /\ Continue(c, local)
  <2>1. client'[c] = local
    BY <1>7, OnlyInspection DEF Continue, Then
  <2> QED BY <1>2, <1>4, <1>7, <2>1
<1> QED BY <1>6, <1>7 DEF Open, local, pc, missing

LEMMA EmbedAs ==
  ASSUME NEW c, Clients = {c}, SemInv, Embed(c) \/ Store(c)
  PROVE  /\ client[c].pc \in {"embed", "store"} /\ client'[c].pc \in {"store", "merge"}
         /\ client'[c].own = client[c].own /\ Continues(client[c], client'[c])
         /\ client'[c].reused = client[c].reused
<1> DEFINE r == [Goto(c, "store") EXCEPT !.persisted = LoadedShard \cup client[c].missing, !.missing = {}]
           s == [Goto(c, "merge") EXCEPT !.persisted = {}]
<1>1. client[c] \in ClientType /\ client[c].pc \in {"embed", "store"}
  BY OnlyInspection DEF Embed, Store, At
<1>2. client' = [client EXCEPT ![c] = r] \/ client' = [client EXCEPT ![c] = s]
  BY DEF Embed, Store, Then
<1>3. r.pc = "store" /\ r.own = client[c].own /\ Continues(client[c], r) /\ r.reused = client[c].reused
  BY <1>1 DEF Goto, ClientType, Continues
<1>4. s.pc = "merge" /\ s.own = client[c].own /\ Continues(client[c], s) /\ s.reused = client[c].reused
  BY <1>1 DEF Goto, ClientType, Continues
<1> HIDE DEF r, s
<1> QED BY <1>1, <1>2, <1>3, <1>4, OnlyInspection

LEMMA WriteStatusAs ==
  ASSUME NEW c, Clients = {c}, SemInv, WriteStatus(c)
  PROVE  /\ client[c].pc = "file" /\ client'[c].pc = "rows" /\ client'[c].own = client[c].own
         /\ Continues(client[c], client'[c]) /\ client'[c].reused = client[c].reused
<1> DEFINE r == Goto(c, "rows")
<1>1. client[c] \in ClientType /\ client[c].pc = "file" /\ client' = [client EXCEPT ![c] = r]
  BY OnlyInspection DEF WriteStatus, At, Then
<1>2. r.pc = "rows" /\ r.own = client[c].own /\ Continues(client[c], r) /\ r.reused = client[c].reused
  BY <1>1 DEF Goto, ClientType, Continues
<1> HIDE DEF r
<1> QED BY <1>1, <1>2, OnlyInspection

LEMMA WriteAliasAs ==
  ASSUME NEW c, Clients = {c}, SemInv, WriteAlias(c)
  PROVE  /\ client[c].pc = "alias" /\ client'[c].pc \in {"file", "copy"}
         /\ client'[c].own = client[c].own /\ Continues(client[c], client'[c])
         /\ client'[c].reused = client[c].reused
         /\ IF StatusOf(client[c].base) = NoFile /\ IndexOf(client[c].base) = NoRecord
            THEN client'[c].pc = "file" /\ UNCHANGED alias
            ELSE /\ StatusOf(client[c].base) # NoFile =>
                      /\ client'[c].pc = "copy" /\ client'[c].copy = StatusOf(client[c].base)
                      /\ alias' = [alias EXCEPT ![client[c].fp] = client[c].base]
                 /\ StatusOf(client[c].base) = NoFile /\ client'[c].pc = "copy" =>
                      client'[c].copy =
                         StatusFile(IndexOf(client[c].base).ready, IndexOf(client[c].base).docs)
<1> DEFINE base == client[c].base
           read == StatusOf(base)
           copy == IF read # NoFile THEN read
                   ELSE IF IndexOf(base) # NoRecord
                   THEN StatusFile(IndexOf(base).ready, IndexOf(base).docs)
                   ELSE NoFile
           gone == Goto(c, "file")
           made == [Goto(c, "copy") EXCEPT !.copy = copy]
<1>1. client[c] \in ClientType /\ client[c].pc = "alias"
  BY OnlyInspection DEF WriteAlias, At
<1>2. IF copy = NoFile
      THEN client' = [client EXCEPT ![c] = gone] /\ UNCHANGED alias
      ELSE client' = [client EXCEPT ![c] = made] /\ alias' = [alias EXCEPT ![client[c].fp] = base]
  BY DEF WriteAlias, Then
<1>3. (read # NoFile => copy = read)
      /\ (read = NoFile /\ IndexOf(base) # NoRecord
            => copy = StatusFile(IndexOf(base).ready, IndexOf(base).docs))
      /\ (read = NoFile /\ IndexOf(base) = NoRecord => copy = NoFile)
  OBVIOUS
<1> HIDE DEF copy
<1>4. /\ gone.pc = "file" /\ gone.own = client[c].own /\ Continues(client[c], gone)
      /\ gone.reused = client[c].reused
  BY <1>1 DEF Goto, ClientType, Continues
<1>5. /\ made.pc = "copy" /\ made.own = client[c].own /\ Continues(client[c], made)
      /\ made.reused = client[c].reused /\ made.copy = copy
  BY <1>1 DEF Goto, ClientType, Continues
<1> HIDE DEF gone, made
<1>6. CASE copy = NoFile
  BY <1>1, <1>2, <1>3, <1>4, <1>6, OnlyInspection
<1>7. CASE copy # NoFile
  BY <1>1, <1>2, <1>3, <1>5, <1>7, OnlyInspection
<1> QED BY <1>6, <1>7

LEMMA MergeAs ==
  ASSUME NEW c, Clients = {c}, SemInv, Merge(c), client[c].own = NoRecord
  PROVE  /\ client[c].pc = "merge" /\ client'[c].own = NoRecord /\ client'[c].fp = client[c].fp
         /\ Final(c) =>
              /\ client'[c].pc \in {"alias", "file"} /\ Continues(client[c], client'[c])
              /\ client'[c].reused = client[c].reused
              /\ client'[c].pc = "alias" =>
                   client[c].reused /\ client[c].first /\ client[c].removed = {} /\ Batch(c) = {}
         /\ ~Final(c) => client' = [client EXCEPT ![c] = Accepted(c, client[c].reused)]
<1> DEFINE have == Held(c).docs
           docs == have \o Without(Head(client[c].plan), Range(have))
           clone == client[c].reused /\ client[c].first /\ client[c].removed = {} /\ Batch(c) = {}
           pc == IF clone THEN "alias" ELSE "file"
           rec == IF Final(c) THEN [Record(TRUE, docs) EXCEPT !.rows = docs] ELSE Record(Held(c).ready, docs)
           local == [Goto(c, pc) EXCEPT !.own = IF @ = NoRecord THEN NoRecord ELSE rec]
<1>1. c \in Clients /\ client[c] \in ClientType /\ client[c].pc = "merge"
  BY OnlyInspection DEF Merge, At
<1>2. client' = [client EXCEPT ![c] = IF Final(c) THEN local ELSE Accepted(c, client[c].reused)]
  BY DEF Merge, Then
<1>3. pc \in {"alias", "file"} /\ (pc = "alias" => clone)
  OBVIOUS
<1> HIDE DEF pc, rec, clone
<1>4. local.pc = pc /\ local.own = NoRecord /\ Continues(client[c], local) /\ local.reused = client[c].reused
  BY <1>1 DEF Goto, ClientType, Continues
<1> HIDE DEF local
<1>5. CASE Final(c)
  <2>1. client' = [client EXCEPT ![c] = local]
    BY <1>2, <1>5
  <2>2. client'[c] = local
    BY <2>1, OnlyInspection
  <2>3. Continues(client[c], local) => local.fp = client[c].fp
    BY DEF Continues
  <2>4. local.pc = "alias" => client[c].reused /\ client[c].first /\ client[c].removed = {} /\ Batch(c) = {}
    BY <1>3, <1>4 DEF clone
  <2> QED BY <1>1, <1>3, <1>4, <1>5, <2>2, <2>3, <2>4
<1>6. CASE ~Final(c)
  <2>1. client' = [client EXCEPT ![c] = Accepted(c, client[c].reused)]
    BY <1>2, <1>6
  <2> QED BY <1>1, <1>6, <2>1, AcceptedAs DEF Handling
<1> QED BY <1>5, <1>6

LEMMA MergeRecord ==
  ASSUME NEW c, Clients = {c}, SemInv, Merge(c), client[c].own = NoRecord
  PROVE  \E rec : LET have == index[client[c].fp].docs IN
           /\ index' = [index EXCEPT ![client[c].fp] = rec] /\ rec # NoRecord
           /\ rec.docs = have \o Without(Head(client[c].plan), Range(have))
           /\ Range(rec.docs) = Range(have) \cup Range(Head(client[c].plan))
           /\ rec.ready = (Final(c) \/ index[client[c].fp].ready)
<1> DEFINE f == client[c].fp
           have == index[f].docs
           docs == have \o Without(Head(client[c].plan), Range(have))
           rec == IF Final(c) THEN [Record(TRUE, docs) EXCEPT !.rows = docs] ELSE Record(index[f].ready, docs)
<1>1. index' = [index EXCEPT ![f] = rec]
  BY DEF Merge, Held
<1>2. have \in Seq(Doc) /\ Head(client[c].plan) \in Seq(Doc) /\ index[f].ready \in BOOLEAN
  <2>1. List(f, Head(client[c].plan)) /\ RecordFits(f, index[f])
    BY OnlyInspection, UnderWay DEF Merge, At, Uploading, Handling
  <2> QED BY <2>1 DEF List, RecordFits, RecordType
<1>3. Range(docs) = Range(have) \cup Range(Head(client[c].plan))
  <2> HIDE DEF have
  <2> QED BY <1>2, MergeProperties
<1> HIDE DEF docs
<1>4. /\ [Record(TRUE, docs) EXCEPT !.rows = docs].docs = docs
      /\ [Record(TRUE, docs) EXCEPT !.rows = docs].ready = TRUE
      /\ Record(index[f].ready, docs).docs = docs /\ Record(index[f].ready, docs).ready = index[f].ready
      /\ [Record(TRUE, docs) EXCEPT !.rows = docs].kind = "record"
      /\ Record(index[f].ready, docs).kind = "record"
  BY DEF Record
<1>5. rec.docs = docs /\ rec.ready = (Final(c) \/ index[f].ready) /\ rec.kind = "record"
  <2>1. CASE Final(c)
    BY <1>4, <2>1
  <2>2. CASE ~Final(c)
    BY <1>2, <1>4, <2>2
  <2> QED BY <2>1, <2>2
<1> HIDE DEF rec
<1>6. rec # NoRecord
  BY <1>5 DEF NoRecord
<1> QED BY <1>1, <1>3, <1>5, <1>6 DEF docs

LEMMA BeginWhole ==
  ASSUME NEW c, Clients = {c}, SemInv, WholeInv, NEW f \in Fps, Begin(c, f)
  PROVE  WholeInv'
<1>1. client[c].pc = "idle" /\ UNCHANGED <<status, index, found>>
  BY DEF Begin, At, ServiceAlone, files, memory
<1> DEFINE r == [Idle EXCEPT !.pc = "status", !.fp = f, !.base = IF manifest = f THEN NoFp ELSE manifest]
<1>2. /\ client'[c].pc = "status" /\ client'[c].own = NoRecord /\ client'[c].out = "none"
  <2>1. client' = [client EXCEPT ![c] = r]
    BY DEF Begin, Then
  <2>2. r.pc = "status" /\ r.own = NoRecord /\ r.out = "none"
    BY DEF Idle
  <2> HIDE DEF r
  <2> QED BY <2>1, <2>2, OnlyInspection
<1> HIDE DEF r
<1> QED BY <1>1, <1>2, QuietWhole DEF AnswerWhole, Handling

\* With the stores as they were, an inspection goes on to search.
LEMMA SearchesWhole ==
  ASSUME NEW c, Clients = {c}, SemInv, WholeInv, UNCHANGED <<status, alias, index, found>>,
         client[c].pc \notin Handling, Searchable(client[c].fp), AnswerWhole(client[c]),
         NEW pc \in {"manifest", "search"}, client' = [client EXCEPT ![c] = Goto(c, pc)]
  PROVE  WholeInv'
<1>1. /\ client'[c].pc = pc /\ client'[c].own = client[c].own /\ client'[c].fp = client[c].fp
      /\ client'[c].out = client[c].out /\ client'[c].answer = client[c].answer
  <2> DEFINE r == Goto(c, pc)
  <2>1. client'[c] = r /\ client[c] \in ClientType
    BY OnlyInspection
  <2>2. /\ r.pc = pc /\ r.own = client[c].own /\ r.fp = client[c].fp
        /\ r.out = client[c].out /\ r.answer = client[c].answer
    BY <2>1 DEF Goto, ClientType
  <2> HIDE DEF r
  <2> QED BY <2>1, <2>2
<1>2. FoundIsWhole'
  BY DEF WholeInv, FoundIsWhole
<1>3. ReadyIsSealed'
  BY <1>1, OnlyInspection DEF WholeInv, ReadyIsSealed, Sealed, Handling
<1>4. Searchable(client[c].fp)'
  <2>1. PICK f : f = client[c].fp /\ f = client'[c].fp
    BY <1>1
  <2>2. StatusOf(f)' = StatusOf(f)
    BY StatusOfStays
  <2>3. Searchable(f)'
    BY <2>1, <2>2 DEF Searchable
  <2> QED BY <2>1, <2>3
<1>5. InspectionWhole(client[c])'
  BY <1>1, <1>4 DEF WholeInv, InspectionWhole, UploadIsOpen, AnswerWhole
<1> QED BY <1>2, <1>3, <1>5 DEF WholeInv

LEMMA ClientStepWhole ==
  ASSUME NEW c, Clients = {c}, SemInv, WholeInv, ClientStep(c)
  PROVE  WholeInv'
<1>1. UNCHANGED <<status, alias, index, found>>
  BY DEF ClientStep, CheckStatus, CheckFinalized, WriteManifest, ServiceAlone, files, memory
<1>2. client[c].pc \in {"status", "finalized", "manifest"} /\ client[c].fp \in Fps
  BY OnlyInspection DEF ClientStep, CheckStatus, CheckFinalized, WriteManifest, At, ClientFits
<1>3. client[c].pc \notin Handling /\ ~Handled(client[c].fp)
  BY <1>2, OnlyInspection DEF Handling
<1>4. InspectionWhole(client[c])
  BY OnlyInspection DEF WholeInv
<1>5. CASE IsReady(client[c].fp) /\ client' = [client EXCEPT ![c] = Goto(c, "manifest")]
  BY <1>1, <1>2, <1>3, <1>4, <1>5, ReadyIsSearchable, SearchesWhole DEF InspectionWhole
<1>6. CASE client[c].pc = "manifest" /\ client' = [client EXCEPT ![c] = Goto(c, "search")]
  BY <1>1, <1>3, <1>4, <1>6, SearchesWhole DEF InspectionWhole
<1>7. CASE client' = [client EXCEPT ![c] = FullUpload(c)] \/ client' = [client EXCEPT ![c] = DeltaUpload(c)]
  <2>1. /\ client'[c].pc = "open" /\ client'[c].first = TRUE /\ client'[c].own = client[c].own
        /\ client'[c].fp = client[c].fp /\ client'[c].out = client[c].out
        /\ client'[c].answer = client[c].answer
    <3> DEFINE full == FullUpload(c)
               delta == DeltaUpload(c)
    <3>1. (client'[c] = full \/ client'[c] = delta) /\ client[c] \in ClientType
      BY <1>7, OnlyInspection
    <3>2. /\ full.pc = "open" /\ full.first = TRUE /\ full.own = client[c].own
          /\ full.fp = client[c].fp /\ full.out = client[c].out /\ full.answer = client[c].answer
      BY <3>1 DEF FullUpload, Goto, ClientType
    <3>3. /\ delta.pc = "open" /\ delta.first = TRUE /\ delta.own = client[c].own
          /\ delta.fp = client[c].fp /\ delta.out = client[c].out /\ delta.answer = client[c].answer
      BY <3>1 DEF DeltaUpload, Goto, ClientType
    <3> HIDE DEF full, delta
    <3> QED BY <3>1, <3>2, <3>3
  <2> QED BY <1>1, <1>3, <1>4, <2>1, QuietWhole DEF InspectionWhole, AnswerWhole
<1>8. CASE End(c, "degraded")
  BY <1>1, <1>3, <1>8, EndedAs, QuietWhole DEF AnswerWhole
<1> QED BY <1>5, <1>6, <1>7, <1>8 DEF ClientStep, CheckStatus, CheckFinalized, WriteManifest, Then, At

LEMMA IndexOfSealed ==
  ASSUME SemInv, NEW f \in Fps, index[f] = NoRecord, IndexOf(f).ready
  PROVE  /\ IndexOf(f) = Record(TRUE, status[f].ids) /\ IndexOf(f).docs = status[f].ids
         /\ status[f].ready /\ status[f] # NoFile /\ StatusOf(f) = status[f]
<1>1. IndexOf(f) = Record(TRUE, status[f].ids) /\ status[f].ready
  BY DEF IndexOf, NoRecord
<1>2. status[f] # NoFile
  BY <1>1 DEF NoFile
<1>3. Record(TRUE, status[f].ids).docs = status[f].ids
  BY DEF Record
<1> QED BY <1>1, <1>2, <1>3, StatusOfOwn

LEMMA OpenWhole ==
  ASSUME NEW c, Clients = {c}, SemInv, WholeInv, Open(c)
  PROVE  WholeInv'
<1> DEFINE f == client[c].fp
           base == client[c].base
           missing == Batch(c) \ KnownVectors
           pc == IF missing = {} THEN "merge" ELSE "embed"
           local == [Goto(c, pc) EXCEPT !.missing = missing]
           from == IF base = NoFp THEN NoRecord ELSE IndexOf(base)
           kept == IF from.ready THEN Without(from.docs, client[c].removed) ELSE <<>>
<1>1. client[c].pc = "open" /\ c \in Clients /\ client[c] \in ClientType /\ ClientFits(client[c])
  BY OnlyInspection DEF Open, At
<1>2. /\ f \in Fps /\ base \in Fps \cup {NoFp} /\ base # f /\ NoFp \notin Fps
      /\ InspectionWhole(client[c])
  BY <1>1, UnderWay, ConstantsFit DEF Uploading, WholeInv
<1>3. /\ local.pc \in {"merge", "embed"} /\ local.fp = f /\ local.base = base /\ local.own = NoRecord
      /\ local.removed = client[c].removed /\ local.first = client[c].first
      /\ local.out = client[c].out /\ local.answer = client[c].answer
      /\ \A b : [local EXCEPT !.reused = b].reused = b /\ [local EXCEPT !.reused = b].pc = local.pc
                /\ [local EXCEPT !.reused = b].fp = local.fp /\ [local EXCEPT !.reused = b].base = local.base
                /\ [local EXCEPT !.reused = b].own = local.own
                /\ [local EXCEPT !.reused = b].removed = local.removed
                /\ [local EXCEPT !.reused = b].first = local.first
                /\ [local EXCEPT !.reused = b].out = local.out
                /\ [local EXCEPT !.reused = b].answer = local.answer
  <2>1. pc \in {"merge", "embed"} /\ client[c].own = NoRecord
    BY <1>2 DEF InspectionWhole
  <2> HIDE DEF pc, missing
  <2> QED BY <1>1, <2>1 DEF Goto, ClientType
<1> HIDE DEF local
<1>4. FoundIsWhole'
  BY <1>2 DEF Open, WholeInv, FoundIsWhole, SemInv, DataFits
<1>5. /\ client'[c].pc \in {"merge", "embed"} /\ client'[c].fp = f /\ client'[c].base = base
      /\ client'[c].own = NoRecord /\ client'[c].first = client[c].first
      /\ client'[c].removed = client[c].removed
      /\ client'[c].out = client[c].out /\ client'[c].answer = client[c].answer
      /\ client[c].first => client'[c].reused = from.ready
  <2>1. CASE client[c].first /\ Replace(c, local)
    <3>1. client'[c] = [local EXCEPT !.reused = from.ready]
      BY <1>1, <2>1 DEF Replace, from
    <3> HIDE DEF from
    <3> QED BY <1>3, <3>1
  <2>2. CASE ~client[c].first /\ Continue(c, local)
    BY <1>3, <2>2, OnlyInspection DEF Continue, Then
  <2> QED BY <2>1, <2>2 DEF Open, local
<1>6. AnswerWhole(client[c])'
  BY <1>2, <1>5 DEF InspectionWhole, AnswerWhole
<1>7. ASSUME client[c].first, Replace(c, local)
      PROVE  ReadyIsSealed' /\ UploadIsOpen(client[c])'
  <2>1. base # NoFp => RecordFits(base, from)
    BY <1>2, IndexOfFits DEF SemInv
  <2>2. /\ index' = [g \in Fps |-> IF g = f THEN Record(FALSE, kept) ELSE IF g = base THEN from ELSE index[g]]
        /\ UNCHANGED status
    BY <1>7 DEF Replace, Open, kept, from
  <2>3. ASSUME NEW g \in Fps, g # f, index'[g].ready, Whole(g, index'[g].docs) PROVE Sealed(g)'
    <3>1. ~Handled(g)
      BY <1>1, OnlyInspection DEF Handling
    <3>2. CASE index'[g] = index[g]
      BY <2>2, <2>3, <3>1, <3>2 DEF WholeInv, ReadyIsSealed, Sealed
    <3>3. CASE g = base /\ index[g] = NoRecord
      <4>1. index'[g] = IndexOf(g)
        BY <2>2, <2>3, <3>3, <1>2 DEF from
      <4>2. status[g].ready /\ index'[g].docs = status[g].ids
        BY <4>1, <2>3, <3>3, IndexOfSealed
      <4> QED BY <2>2, <2>3, <4>2 DEF Sealed
    <3>4. g = base /\ index[g] # NoRecord => from = index[g]
      BY <1>2 DEF from, IndexOf
    <3> QED BY <2>2, <2>3, <3>2, <3>3, <3>4
  <2>4. ReadyIsSealed'
    BY <1>5, <2>3, OnlyInspection DEF ReadyIsSealed, Handling, Whole
  <2>5. index'[f].ready = FALSE /\ index'[f].docs = kept
    BY <1>2, <2>2 DEF Record
  <2>6. ASSUME client'[c].reused, client[c].removed = {}
        PROVE  index'[base].ready /\ Range(index'[f].docs) = Range(index'[base].docs)
    <3>1. from.ready /\ base # NoFp /\ from.docs \in Seq(Doc)
      <4>1. from.ready
        BY <1>5, <1>7, <2>6
      <4>2. base # NoFp
        BY <4>1 DEF NoRecord
      <4> QED BY <4>1, <4>2, <2>1 DEF RecordFits, RecordType
    <3>2. index'[base] = from
      BY <1>2, <2>2, <3>1
    <3>3. kept = Without(from.docs, {})
      BY <3>1, <2>6
    <3> HIDE DEF from, kept
    <3>4. Range(kept) = Range(from.docs)
      <4>1. Range(Without(from.docs, {})) = Range(from.docs) \ {}
        BY <3>1, WithoutProperties
      <4> QED BY <3>3, <4>1
    <3> QED BY <2>5, <3>1, <3>2, <3>4
  <2>7. UploadIsOpen(client[c])'
    <3> HIDE DEF from, kept
    <3> QED BY <1>5, <2>5, <2>6 DEF UploadIsOpen
  <2> QED BY <2>4, <2>7
<1>8. ASSUME ~client[c].first, Continue(c, local)
      PROVE  ReadyIsSealed' /\ UploadIsOpen(client[c])'
  <2>1. /\ index' = [index EXCEPT ![f] = IF index[f] = NoRecord THEN Record(FALSE, <<>>) ELSE index[f]]
        /\ UNCHANGED status
    BY <1>8 DEF Continue, Open
  <2>2. index \in [Fps -> RecordType]
    BY DEF SemInv, StoresFit
  <2>3. ReadyIsSealed'
    BY <1>1, <1>5, <2>1, <2>2, OnlyInspection DEF WholeInv, ReadyIsSealed, Sealed, Handling
  <2>4. index'[f].ready = FALSE
    <3>1. ~index[f].ready /\ index[f].ready \in BOOLEAN
      BY <1>1, <1>2, <1>8, <2>2 DEF InspectionWhole, UploadIsOpen, RecordType
    <3> QED BY <1>2, <2>1, <2>2, <3>1 DEF Record
  <2>5. UploadIsOpen(client[c])'
    BY <1>5, <1>8, <2>4 DEF UploadIsOpen
  <2> QED BY <2>3, <2>5
<1>9. ReadyIsSealed' /\ UploadIsOpen(client[c])'
  BY <1>7, <1>8 DEF Open, local
<1>10. InspectionWhole(client[c])'
  BY <1>5, <1>6, <1>9 DEF InspectionWhole
<1> QED BY <1>4, <1>9, <1>10 DEF WholeInv

LEMMA EmbedWhole ==
  ASSUME NEW c, Clients = {c}, SemInv, WholeInv, Embed(c) \/ Store(c)
  PROVE  WholeInv'
<1>1. /\ client[c] \in ClientType /\ InspectionWhole(client[c]) /\ client[c].pc \in {"embed", "store"}
      /\ UNCHANGED <<status, index, found>>
  BY OnlyInspection DEF Embed, Store, At, WholeInv, files, memory
<1>2. /\ client'[c].pc \in {"store", "merge"} /\ client'[c].own = client[c].own
      /\ client'[c].fp = client[c].fp /\ client'[c].base = client[c].base
      /\ client'[c].first = client[c].first /\ client'[c].reused = client[c].reused
      /\ client'[c].removed = client[c].removed /\ client'[c].out = client[c].out
      /\ client'[c].answer = client[c].answer
  <2> DEFINE r == [Goto(c, "store") EXCEPT !.persisted = LoadedShard \cup client[c].missing, !.missing = {}]
             s == [Goto(c, "merge") EXCEPT !.persisted = {}]
  <2>1. client' = [client EXCEPT ![c] = r] \/ client' = [client EXCEPT ![c] = s]
    BY DEF Embed, Store, Then
  <2>2. /\ r.pc = "store" /\ r.own = client[c].own /\ r.fp = client[c].fp /\ r.base = client[c].base
        /\ r.first = client[c].first /\ r.reused = client[c].reused /\ r.removed = client[c].removed
        /\ r.out = client[c].out /\ r.answer = client[c].answer
    BY <1>1 DEF Goto, ClientType
  <2>3. /\ s.pc = "merge" /\ s.own = client[c].own /\ s.fp = client[c].fp /\ s.base = client[c].base
        /\ s.first = client[c].first /\ s.reused = client[c].reused /\ s.removed = client[c].removed
        /\ s.out = client[c].out /\ s.answer = client[c].answer
    BY <1>1 DEF Goto, ClientType
  <2> HIDE DEF r, s
  <2> QED BY <2>1, <2>2, <2>3, OnlyInspection
<1>3. FoundIsWhole'
  BY <1>1 DEF WholeInv, FoundIsWhole
<1>4. ReadyIsSealed'
  BY <1>1, <1>2, OnlyInspection DEF WholeInv, ReadyIsSealed, Sealed, Handling
<1>5. InspectionWhole(client[c])'
  BY <1>1, <1>2 DEF InspectionWhole, UploadIsOpen, AnswerWhole
<1> QED BY <1>3, <1>4, <1>5 DEF WholeInv

\* After its last batch an upload leaves the files as its record is.
LEMMA LastAccepted ==
  ASSUME NEW c, Clients = {c}, SemInv, WholeInv, client[c].pc \in {"copy", "rows"},
         client' = [client EXCEPT ![c] = Accepted(c, client[c].reused)], UNCHANGED <<index, found>>,
         \A f \in Fps : f # client[c].fp => status'[f] = status[f],
         index[client[c].fp].ready /\ Whole(client[c].fp, index[client[c].fp].docs)
             => Sealed(client[c].fp)'
  PROVE  WholeInv'
<1>1. InspectionWhole(client[c]) /\ client[c].pc \in Handling
  BY OnlyInspection DEF WholeInv, Handling
<1>2. /\ client'[c].pc \in {"open", "finalized"} /\ client'[c].own = NoRecord
      /\ client'[c].fp = client[c].fp /\ client'[c].out = client[c].out
      /\ client'[c].answer = client[c].answer /\ (client'[c].pc = "open" => client'[c].first)
  BY <1>1, AcceptedAs DEF InspectionWhole, UploadIsOpen
<1>3. FoundIsWhole'
  BY DEF WholeInv, FoundIsWhole
<1>4. AnswerWhole(client[c])'
  BY <1>1, <1>2 DEF InspectionWhole, AnswerWhole
<1>5. ReadyIsSealed'
  <2> SUFFICES ASSUME NEW f \in Fps, index[f].ready, Whole(f, index[f].docs)
               PROVE  Sealed(f)'
    BY DEF ReadyIsSealed, Whole
  <2>1. CASE f # client[c].fp
    <3>1. Sealed(f)
      BY <2>1, OnlyInspection DEF WholeInv, ReadyIsSealed
    <3> QED BY <2>1, <3>1 DEF Sealed
  <2>2. CASE f = client[c].fp
    <3>1. Sealed(client[c].fp)' <=> status'[f].ready /\ Whole(f, status'[f].ids)
      BY <1>2, <2>2 DEF Sealed
    <3> QED BY <2>2, <3>1 DEF Sealed
  <2> QED BY <2>1, <2>2
<1> QED BY <1>2, <1>3, <1>4, <1>5, WaitsWhole DEF WholeInv

LEMMA CopyStatusWhole ==
  ASSUME NEW c, Clients = {c}, SemInv, WholeInv, CopyStatus(c) \/ WriteRows(c)
  PROVE  WholeInv'
<1> DEFINE f == client[c].fp
<1>1. /\ InspectionWhole(client[c]) /\ client[c].pc \in {"copy", "rows"} /\ c \in Clients
      /\ UNCHANGED <<index, found>>
      /\ client' = [client EXCEPT ![c] = Accepted(c, client[c].reused)]
  BY OnlyInspection DEF WholeInv, CopyStatus, WriteRows, At, Then, memory
<1>2. f \in Fps /\ status \in [Fps -> FileType]
  BY <1>1, UnderWay DEF Uploading, Handling, SemInv, StoresFit
<1>3. client'[c].fp = f
  BY <1>1, AcceptedAs DEF Handling
<1>4. CASE CopyStatus(c)
  <2>1. status' = [status EXCEPT ![f] = client[c].copy] /\ client[c].pc = "copy"
    BY <1>4 DEF CopyStatus, At
  <2>2. index[f].ready /\ Whole(f, index[f].docs) => client[c].copy.ready /\ Whole(f, client[c].copy.ids)
    BY <1>1, <2>1 DEF InspectionWhole, UploadIsOpen
  <2>3. index[f].ready /\ Whole(f, index[f].docs) => Sealed(f)'
    BY <1>2, <1>3, <2>1, <2>2 DEF Sealed
  <2> QED BY <1>1, <1>2, <2>1, <2>3, LastAccepted
<1>5. CASE WriteRows(c)
  <2>1. UNCHANGED status /\ status[f] = StatusFile(index[f].ready, index[f].docs)
    BY <1>1, <1>5 DEF WriteRows, At, InspectionWhole, UploadIsOpen
  <2>2. index[f].ready /\ Whole(f, index[f].docs) => Sealed(f)'
    BY <1>2, <1>3, <2>1 DEF Sealed, StatusFile
  <2> QED BY <1>1, <1>2, <2>1, <2>2, LastAccepted
<1> QED BY <1>4, <1>5

LEMMA WriteStatusWhole ==
  ASSUME NEW c, Clients = {c}, SemInv, WholeInv, WriteStatus(c)
  PROVE  WholeInv'
<1> DEFINE f == client[c].fp
           r == Goto(c, "rows")
<1>1. /\ client[c] \in ClientType /\ InspectionWhole(client[c]) /\ client[c].pc = "file"
      /\ UNCHANGED <<index, found>> /\ c \in Clients
  BY OnlyInspection DEF WriteStatus, At, WholeInv, memory
<1>2. f \in Fps /\ status \in [Fps -> FileType] /\ Held(c) = index[f]
  BY <1>1, UnderWay DEF Uploading, Handling, SemInv, StoresFit, InspectionWhole, Held
<1>3. status' = [status EXCEPT ![f] = StatusFile(index[f].ready, index[f].docs)]
  BY <1>2 DEF WriteStatus
<1>4. /\ client'[c].pc = "rows" /\ client'[c].own = client[c].own /\ client'[c].fp = f
      /\ client'[c].plan = client[c].plan /\ client'[c].out = client[c].out
      /\ client'[c].answer = client[c].answer
  <2>1. client' = [client EXCEPT ![c] = r]
    BY DEF WriteStatus, Then
  <2>2. /\ r.pc = "rows" /\ r.own = client[c].own /\ r.fp = client[c].fp /\ r.plan = client[c].plan
        /\ r.out = client[c].out /\ r.answer = client[c].answer
    BY <1>1 DEF Goto, ClientType
  <2> HIDE DEF r
  <2> QED BY <2>1, <2>2, OnlyInspection
<1>5. FoundIsWhole'
  BY <1>1 DEF WholeInv, FoundIsWhole
<1>6. ReadyIsSealed'
  <2> SUFFICES ASSUME NEW g \in Fps, g # f, index[g].ready, Whole(g, index[g].docs)
               PROVE  Sealed(g)'
    BY <1>1, <1>4, OnlyInspection DEF ReadyIsSealed, Whole, Handling
  <2>1. Sealed(g)
    BY OnlyInspection DEF WholeInv, ReadyIsSealed
  <2> QED BY <1>2, <1>3, <2>1 DEF Sealed
<1>7. InspectionWhole(client[c])'
  <2>1. status'[f] = StatusFile(index'[f].ready, index'[f].docs)
    BY <1>1, <1>2, <1>3
  <2> QED BY <1>1, <1>4, <2>1 DEF InspectionWhole, UploadIsOpen, AnswerWhole
<1> QED BY <1>5, <1>6, <1>7 DEF WholeInv

\* The last batch is the one nothing follows.
LEMMA LastBatch ==
  ASSUME NEW c, SemInv, c \in Clients, client[c].pc \in Uploading
  PROVE  Final(c) <=> Tail(client[c].plan) = <<>>
<1> DEFINE p == client[c].plan
<1>1. p \in Seq(Seq(Doc)) /\ p # <<>>
  BY UnderWay DEF Plan
<1> HIDE DEF p
<1>2. Len(p) \in Nat /\ Len(p) # 0 /\ Tail(p) \in Seq(Seq(Doc)) /\ Len(Tail(p)) = Len(p) - 1
  BY <1>1, EmptySeq, HeadTailProperties, LenProperties
<1>3. Len(p) = 1 <=> Tail(p) = <<>>
  <2>1. PICK q : q = Tail(p)
    OBVIOUS
  <2>2. q = <<>> <=> Len(q) = 0
    BY <1>2, <2>1, EmptySeq
  <2> QED BY <1>2, <2>1, <2>2
<1> QED BY <1>3 DEF Final, p

LEMMA MergeWhole ==
  ASSUME NEW c, Clients = {c}, SemInv, WholeInv, Merge(c)
  PROVE  WholeInv'
<1> DEFINE f == client[c].fp
           base == client[c].base
           have == index[f].docs
           docs == have \o Without(Head(client[c].plan), Range(have))
           clone == client[c].reused /\ client[c].first /\ client[c].removed = {} /\ Batch(c) = {}
           pc == IF clone THEN "alias" ELSE "file"
           rec == IF Final(c) THEN [Record(TRUE, docs) EXCEPT !.rows = docs] ELSE Record(index[f].ready, docs)
           local == [Goto(c, pc) EXCEPT !.own = IF @ = NoRecord THEN NoRecord ELSE rec]
<1>1. /\ c \in Clients /\ client[c] \in ClientType /\ InspectionWhole(client[c]) /\ client[c].pc = "merge"
      /\ UNCHANGED <<status, found>> /\ ClientFits(client[c])
  BY OnlyInspection DEF Merge, At, WholeInv, files
<1>2. /\ f \in Fps /\ base \in Fps \cup {NoFp} /\ base # f /\ Held(c) = index[f] /\ client[c].own = NoRecord
      /\ have \in Seq(Doc) /\ Head(client[c].plan) \in Seq(Doc) /\ index \in [Fps -> RecordType]
      /\ Final(c) <=> Tail(client[c].plan) = <<>>
  <2>1. f \in Fps /\ base \in Fps \cup {NoFp} /\ base # f /\ List(f, Head(client[c].plan))
    BY <1>1, UnderWay DEF Uploading, Handling
  <2>2. Final(c) <=> Tail(client[c].plan) = <<>>
    BY <1>1, LastBatch DEF Uploading, Handling
  <2>3. index \in [Fps -> RecordType] /\ have \in Seq(Doc)
    BY <2>1 DEF SemInv, StoresFit, RecordType
  <2> QED BY <1>1, <2>1, <2>2, <2>3 DEF Held, InspectionWhole, List
<1>3. index' = [index EXCEPT ![f] = rec]
  BY <1>2 DEF Merge
<1>4. rec.docs = docs /\ (~Final(c) => rec.ready = index[f].ready)
  BY DEF Record
<1>5. Range(docs) = Range(have) \cup Range(Head(client[c].plan))
  <2> HIDE DEF have
  <2> QED BY <1>2, MergeProperties
<1> HIDE DEF rec, docs
<1>6. FoundIsWhole'
  BY <1>1 DEF WholeInv, FoundIsWhole
<1>7. ASSUME NEW g \in Fps, g # f, index'[g].ready, Whole(g, index'[g].docs)
      PROVE  Sealed(g)'
  <2>1. index'[g] = index[g] /\ ~Handled(g)
    BY <1>2, <1>3, <1>7, OnlyInspection
  <2> QED BY <1>1, <1>7, <2>1 DEF WholeInv, ReadyIsSealed, Sealed
<1>8. CASE Final(c)
  <2>1. client' = [client EXCEPT ![c] = local]
    BY <1>2, <1>8 DEF Merge, Then, rec, docs
  <2>2. pc \in {"alias", "file"} /\ (pc = "alias" => clone)
    OBVIOUS
  <2>3. /\ client'[c].pc = pc /\ client'[c].own = NoRecord /\ client'[c].fp = f
        /\ client'[c].plan = client[c].plan /\ client'[c].base = base
        /\ client'[c].out = client[c].out /\ client'[c].answer = client[c].answer
    <3>1. /\ local.pc = pc /\ local.own = NoRecord /\ local.fp = f
          /\ local.plan = client[c].plan /\ local.base = base
          /\ local.out = client[c].out /\ local.answer = client[c].answer
      <4> HIDE DEF pc
      <4> QED BY <1>1, <1>2 DEF Goto, ClientType
    <3> HIDE DEF local, pc
    <3> QED BY <2>1, <3>1, OnlyInspection
  <2>4. ReadyIsSealed'
    BY <1>7, <2>2, <2>3, OnlyInspection DEF ReadyIsSealed, Handling, Whole
  <2>5. clone => index'[base].ready /\ Range(index'[f].docs) = Range(index'[base].docs)
    <3> SUFFICES ASSUME clone PROVE index'[base].ready /\ Range(index'[f].docs) = Range(index'[base].docs)
      OBVIOUS
    <3>1. index[base].ready /\ Range(have) = Range(index[base].docs)
      BY <1>1 DEF InspectionWhole, UploadIsOpen
    <3>2. base \in Fps
      BY <1>1, <1>2 DEF ClientFits
    <3>3. index'[base] = index[base] /\ index'[f] = rec
      BY <1>2, <1>3, <3>2
    <3>4. Range(docs) = Range(have)
      BY <1>5 DEF Batch
    <3> QED BY <1>4, <3>1, <3>3, <3>4
  <2> HIDE DEF pc, clone
  <2>6. InspectionWhole(client[c])'
    BY <1>1, <1>2, <1>8, <2>2, <2>3, <2>5 DEF InspectionWhole, UploadIsOpen, AnswerWhole
  <2> QED BY <1>6, <2>4, <2>6 DEF WholeInv
<1>9. CASE ~Final(c)
  <2>1. client' = [client EXCEPT ![c] = Accepted(c, client[c].reused)]
    BY <1>9 DEF Merge, Then
  <2>2. /\ client'[c].pc = "open" /\ client'[c].own = NoRecord /\ client'[c].fp = f
        /\ client'[c].out = client[c].out /\ client'[c].answer = client[c].answer
    BY <1>1, <1>2, <1>9, <2>1, AcceptedAs DEF Handling
  <2>3. ~index'[f].ready
    BY <1>1, <1>2, <1>3, <1>4, <1>9 DEF InspectionWhole, UploadIsOpen
  <2>4. ReadyIsSealed'
    BY <1>7, <2>3 DEF ReadyIsSealed, Whole
  <2>5. InspectionWhole(client[c])'
    BY <1>1, <2>2, <2>3 DEF InspectionWhole, UploadIsOpen, AnswerWhole
  <2> QED BY <1>6, <2>4, <2>5 DEF WholeInv
<1> QED BY <1>8, <1>9

LEMMA WriteAliasWhole ==
  ASSUME NEW c, Clients = {c}, SemInv, WholeInv, WriteAlias(c)
  PROVE  WholeInv'
<1> DEFINE f == client[c].fp
           base == client[c].base
           read == StatusOf(base)
           copy == IF read # NoFile THEN read
                   ELSE IF IndexOf(base) # NoRecord
                   THEN StatusFile(IndexOf(base).ready, IndexOf(base).docs)
                   ELSE NoFile
           gone == Goto(c, "file")
           made == [Goto(c, "copy") EXCEPT !.copy = copy]
<1>1. /\ c \in Clients /\ client[c] \in ClientType /\ InspectionWhole(client[c]) /\ client[c].pc = "alias"
      /\ UNCHANGED <<status, index, found>> /\ ClientFits(client[c])
  BY OnlyInspection DEF WriteAlias, At, WholeInv, memory
<1>2. /\ f \in Fps /\ base \in Fps /\ base # f /\ Range(Docs[base]) \subseteq Range(Docs[f])
      /\ client[c].first /\ client[c].reused /\ client[c].removed = {}
  <2>1. f \in Fps /\ base \in Fps \cup {NoFp} /\ base # f
    BY <1>1, UnderWay DEF Uploading, Handling
  <2>2. client[c].first /\ client[c].reused /\ client[c].removed = {} /\ RemovalFits(client[c])
    BY <1>1 DEF ClientFits, Uploading, Handling
  <2>3. base # NoFp
    BY <1>1, <2>2 DEF ClientFits
  <2> QED BY <2>1, <2>2, <2>3 DEF RemovalFits
<1>3. ASSUME index[f].ready, Whole(f, index[f].docs)
      PROVE  copy.ready /\ Whole(f, copy.ids)
  <2>1. index[base].ready /\ Range(index[base].docs) = Range(Docs[f])
    BY <1>1, <1>2, <1>3 DEF InspectionWhole, UploadIsOpen, Whole
  <2>2. List(base, index[base].docs)
    BY <1>2 DEF SemInv, StoresFit, RecordFits
  <2>3. Range(Docs[base]) = Range(Docs[f]) /\ Whole(base, index[base].docs)
    BY <1>2, <2>1, <2>2 DEF List, Whole
  <2>4. Sealed(base)
    BY <1>2, <2>1, <2>3, OnlyInspection DEF WholeInv, ReadyIsSealed
  <2>5. status[base] # NoFile
    BY <2>4 DEF Sealed, NoFile
  <2>6. StatusOf(base) = status[base]
    BY <1>2, <2>5, StatusOfOwn
  <2>7. copy = status[base]
    BY <2>5, <2>6
  <2> HIDE DEF copy
  <2> QED BY <2>3, <2>4, <2>7 DEF Sealed, Whole
<1> HIDE DEF copy
<1>4. client' = [client EXCEPT ![c] = gone] \/ client' = [client EXCEPT ![c] = made]
  BY DEF WriteAlias, Then, copy
<1>5. /\ gone.pc = "file" /\ gone.own = client[c].own /\ gone.fp = f /\ gone.plan = client[c].plan
      /\ gone.out = client[c].out /\ gone.answer = client[c].answer
  BY <1>1 DEF Goto, ClientType
<1>6. /\ made.pc = "copy" /\ made.own = client[c].own /\ made.fp = f /\ made.plan = client[c].plan
      /\ made.out = client[c].out /\ made.answer = client[c].answer /\ made.copy = copy
  BY <1>1 DEF Goto, ClientType
<1> HIDE DEF gone, made
<1>7. /\ client'[c].pc \in {"file", "copy"} /\ client'[c].own = client[c].own /\ client'[c].fp = f
      /\ client'[c].plan = client[c].plan
      /\ client'[c].out = client[c].out /\ client'[c].answer = client[c].answer
      /\ client'[c].pc = "copy" => client'[c].copy = copy
  BY <1>4, <1>5, <1>6, OnlyInspection
<1>8. FoundIsWhole'
  BY <1>1 DEF WholeInv, FoundIsWhole
<1>9. ReadyIsSealed'
  BY <1>1, <1>7, OnlyInspection DEF WholeInv, ReadyIsSealed, Sealed, Handling
<1>10. InspectionWhole(client[c])'
  BY <1>1, <1>3, <1>7 DEF InspectionWhole, UploadIsOpen, AnswerWhole
<1> QED BY <1>8, <1>9, <1>10 DEF WholeInv

\* A list of ids paired with at least as many rows.
LEMMA PairsOfAll ==
  ASSUME NEW s \in Seq(Doc), NEW t \in Seq(Doc), Len(t) >= Len(s)
  PROVE  {p[1] : p \in Pairs(s, t)} = Range(s)
<1>1. DOMAIN s = 1 .. Len(s) /\ DOMAIN t = 1 .. Len(t) /\ Len(s) \in Nat /\ Len(t) \in Nat
  BY LenProperties
<1>2. DOMAIN s \subseteq DOMAIN t
  BY <1>1
<1>3. ASSUME NEW x \in Range(s) PROVE x \in {p[1] : p \in Pairs(s, t)}
  <2>1. PICK i \in DOMAIN s : x = s[i]
    BY DEF Range
  <2>2. <<s[i], t[i]>> \in Pairs(s, t) /\ <<s[i], t[i]>>[1] = x
    BY <1>2, <2>1 DEF Pairs
  <2> QED BY <2>2
<1>4. ASSUME NEW x \in {p[1] : p \in Pairs(s, t)} PROVE x \in Range(s)
  BY <1>4 DEF Pairs, Range
<1> QED BY <1>3, <1>4

\* An answer is nothing, or all documents of the state asked about.
LEMMA AnsweredWhole ==
  ASSUME NEW c, Clients = {c}, SemInv, NEW pairs, Answered(c, pairs),
         ~Faiss => pairs = {} \/ {p[1] : p \in pairs} = Range(Docs[client[c].fp])
  PROVE  AnswerWhole(client[c])' /\ client'[c].pc = "idle" /\ client'[c].own = NoRecord
BY AnsweredAs DEF AnswerWhole

LEMMA SearchWhole ==
  ASSUME NEW c, Clients = {c}, SemInv, WholeInv,
         SearchRecord(c) \/ SearchFiles(c) \/ SearchRebuilt(c)
  PROVE  WholeInv'
<1> DEFINE f == client[c].fp
<1>1. /\ c \in Clients /\ client[c] \in ClientType /\ client[c].pc = "search" /\ client[c].own = NoRecord
      /\ f \in Fps /\ Searchable(f) /\ UNCHANGED status /\ ~Handled(f) /\ \A g : ~Handled(g)
      /\ index \in [Fps -> RecordType]
  BY OnlyInspection DEF SearchRecord, SearchFiles, SearchRebuilt, At, WholeInv, InspectionWhole,
     ClientFits, Handling, files, SemInv, StoresFit
<1>2. RecordFits(f, index[f]) /\ index[f].docs \in Seq(Doc)
  BY <1>1 DEF SemInv, StoresFit, RecordFits, RecordType
<1>3. ASSUME FoundIsWhole', AnswerWhole(client[c])', client'[c].pc = "idle", client'[c].own = NoRecord,
             \A g \in Fps : index'[g].ready /\ Whole(g, index'[g].docs) => Sealed(g)
      PROVE  WholeInv'
  <2>1. ReadyIsSealed'
    BY <1>1, <1>3 DEF ReadyIsSealed, Sealed, Whole
  <2> QED BY <1>3, <2>1, WaitsWhole DEF WholeInv
<1>4. \A g \in Fps : index[g].ready /\ Whole(g, index[g].docs) => Sealed(g)
  BY <1>1 DEF WholeInv, ReadyIsSealed
<1>5. CASE SearchRecord(c)
  <2> DEFINE order == IF index[f].rows # <<>> THEN index[f].rows ELSE index[f].docs
  <2>1. order = index[f].docs
    BY <1>2 DEF RecordFits
  <2>2. FoundIsWhole'
    BY <1>5 DEF SearchRecord, WholeInv, FoundIsWhole
  <2>3. CASE index[f].ready
    <3>1. index' = [index EXCEPT ![f].rows = order] /\ Answered(c, Pairs(order, order))
      BY <1>5, <2>3 DEF SearchRecord
    <3> HIDE DEF order
    <3>2. {p[1] : p \in Pairs(order, order)} = Range(Docs[f])
      <4>1. order \in Seq(Doc) /\ Len(order) >= Len(order)
        BY <1>2, <2>1, LenProperties
      <4>2. {p[1] : p \in Pairs(order, order)} = Range(order)
        BY <4>1, PairsOfAll
      <4> QED BY <1>1, <2>1, <2>3, <4>2 DEF Searchable, Whole
    <3>3. \A g \in Fps : index'[g].ready = index[g].ready /\ index'[g].docs = index[g].docs
      BY <1>1, <3>1 DEF RecordType
    <3> QED BY <1>3, <1>4, <2>2, <3>1, <3>2, <3>3, AnsweredWhole
  <2>4. CASE ~index[f].ready
    <3>1. End(c, "degraded") /\ UNCHANGED index
      BY <1>5, <2>4 DEF SearchRecord
    <3> QED BY <1>3, <1>4, <2>2, <3>1, EndedAs DEF AnswerWhole
  <2> QED BY <2>3, <2>4
<1>6. CASE SearchFiles(c)
  <2> DEFINE read == StatusOf(f)
             kept == IF found[f].ids # <<>> THEN found[f] ELSE [ids |-> read.ids, rows |-> RowsOf(f)]
             AllOf(some) ==
               ~Faiss => Len(kept.rows) >= Len(kept.ids) /\ some = Pairs(kept.ids, kept.rows)
  <2>1. /\ found' = [found EXCEPT ![f] = kept] /\ UNCHANGED index
        /\ found[f].ids # <<>> \/ read.ready
        /\ (\E some : Answered(c, some) /\ AllOf(some)) \/ End(c, "degraded")
    BY <1>6 DEF SearchFiles
  <2>2. Whole(f, kept.ids) /\ kept.ids \in Seq(Doc) /\ kept.rows \in Seq(Doc)
    <3>1. read.ids \in Seq(Doc) /\ RowsOf(f) \in Seq(Doc)
      BY <1>1, StatusOfFits, RowsOfFits DEF SemInv, FileFits, FileType
    <3>2. found[f] \in [ids : Seq(Doc), rows : Seq(Doc)]
      BY <1>1 DEF SemInv, DataFits
    <3>3. CASE found[f].ids # <<>>
      BY <1>1, <3>2, <3>3 DEF WholeInv, FoundIsWhole
    <3>4. CASE found[f].ids = <<>>
      BY <1>1, <2>1, <3>1, <3>4 DEF Searchable
    <3> QED BY <3>3, <3>4
  <2> HIDE DEF kept
  <2>3. FoundIsWhole'
    BY <1>1, <2>1, <2>2 DEF WholeInv, FoundIsWhole, SemInv, DataFits
  <2>4. ASSUME NEW some, Answered(c, some), AllOf(some)
        PROVE  WholeInv'
    <3>1. ~Faiss => {p[1] : p \in some} = Range(Docs[f])
      <4>1. Len(kept.rows) >= Len(kept.ids)
              => {p[1] : p \in Pairs(kept.ids, kept.rows)} = Range(kept.ids)
        BY <2>2, PairsOfAll
      <4> QED BY <2>2, <2>4, <4>1 DEF Whole
    <3>2. AnswerWhole(client[c])' /\ client'[c].pc = "idle" /\ client'[c].own = NoRecord
      BY <2>4, <3>1, AnsweredWhole
    <3>3. \A g \in Fps : index'[g].ready /\ Whole(g, index'[g].docs) => Sealed(g)
      BY <1>4, <2>1
    <3> QED BY <1>3, <2>3, <3>2, <3>3
  <2>5. CASE End(c, "degraded")
    BY <1>3, <1>4, <2>1, <2>3, <2>5, EndedAs DEF AnswerWhole
  <2> HIDE DEF AllOf
  <2> QED BY <2>1, <2>4, <2>5
<1>7. CASE SearchRebuilt(c)
  <2> DEFINE record == IndexOf(f)
             rec == [record EXCEPT !.rows = record.docs]
  <2>1. index' = [index EXCEPT ![f] = rec] /\ Answered(c, Pairs(record.docs, record.docs))
        /\ index[f] = NoRecord /\ UNCHANGED found
    BY <1>7 DEF SearchRebuilt
  <2>2. RecordFits(f, record) /\ record \in RecordType /\ record.docs \in Seq(Doc)
    BY <1>1, IndexOfFits DEF SemInv, RecordFits, RecordType
  <2>3. record.ready => record.docs = status[f].ids /\ status[f].ready /\ StatusOf(f) = status[f]
    BY <1>1, <2>1, IndexOfSealed
  <2>4. ~record.ready => record = NoRecord
    BY <2>1 DEF IndexOf, Record
  <2> HIDE DEF record
  <2>5. FoundIsWhole'
    BY <2>1 DEF WholeInv, FoundIsWhole
  <2>6. rec.ready = record.ready /\ rec.docs = record.docs
    BY <2>2 DEF RecordType
  <2> HIDE DEF rec
  <2>7. \A g \in Fps : index'[g].ready /\ Whole(g, index'[g].docs) => Sealed(g)
    BY <1>1, <1>4, <2>1, <2>3, <2>6 DEF Sealed
  <2>8. Pairs(record.docs, record.docs) = {}
          \/ {p[1] : p \in Pairs(record.docs, record.docs)} = Range(Docs[f])
    <3>1. CASE record.ready
      <4>1. Len(record.docs) >= Len(record.docs)
        BY <2>2, LenProperties
      <4>2. {p[1] : p \in Pairs(record.docs, record.docs)} = Range(record.docs)
        BY <2>2, <4>1, PairsOfAll
      <4> QED BY <1>1, <2>3, <3>1, <4>2 DEF Searchable, Whole
    <3>2. CASE ~record.ready
      BY <2>4, <3>2 DEF NoRecord, Pairs
    <3> QED BY <3>1, <3>2
  <2> QED BY <1>3, <2>1, <2>5, <2>7, <2>8, AnsweredWhole
<1> QED BY <1>5, <1>6, <1>7

LEMMA FaultWhole ==
  ASSUME NEW c, Clients = {c}, SemInv, WholeInv,
         EmbedFails(c) \/ Kill(c) \/ Restart("restart") \/ Restart("loss")
  PROVE  WholeInv'
<1>1. CASE EmbedFails(c) \/ Kill(c)
  <2>1. UNCHANGED <<status, index, found>> /\ End(c, "degraded")
    BY <1>1 DEF EmbedFails, Kill, files, memory
  <2>2. client[c].pc \in Handling => client[c].pc = "embed"
    BY <1>1 DEF EmbedFails, Kill, Handling
  <2>3. client[c].pc \in Handling => ~index[client[c].fp].ready
    BY <2>2, OnlyInspection DEF WholeInv, InspectionWhole, UploadIsOpen
  <2> QED BY <2>1, <2>3, EndedAs, QuietWhole DEF AnswerWhole
<1>2. ASSUME NEW kind, Restart(kind) PROVE WholeInv'
  <2>1. index' = [f \in Fps |-> NoRecord] /\ found' = [f \in Fps |-> [ids |-> <<>>, rows |-> <<>>]]
    BY <1>2 DEF Restart
  <2>2. FoundIsWhole' /\ ReadyIsSealed'
    BY <2>1 DEF FoundIsWhole, ReadyIsSealed, NoRecord
  <2>3. CASE client'[c] = client[c] /\ client[c].pc \notin Handling
    <3>1. client[c].fp \in Fps \/ client[c].pc = "idle"
      BY OnlyInspection DEF ClientFits
    <3>2. UploadIsOpen(client[c])'
      BY <2>1, <2>3, <3>1 DEF UploadIsOpen, NoRecord, Handling
    <3>3. InspectionWhole(client[c])
      BY OnlyInspection DEF WholeInv
    <3>4. ASSUME client[c].pc \in {"manifest", "search"} PROVE Searchable(client[c].fp)'
      <4>1. PICK f \in Fps : f = client[c].fp /\ f = client'[c].fp
        BY <2>3, <3>1, <3>4
      <4>2. Searchable(f) /\ index'[f].ready = FALSE
        BY <2>1, <3>3, <3>4, <4>1 DEF InspectionWhole, NoRecord
      <4>3. CASE UNCHANGED <<status, alias>>
        <5>1. StatusOf(f)' = StatusOf(f)
          BY <4>3, StatusOfStays
        <5>2. Searchable(f)'
          BY <4>2, <5>1 DEF Searchable
        <5> QED BY <4>1, <5>2
      <4>4. CASE status' = [g \in Fps |-> NoFile]
        <5>1. StatusOf(f)' = NoFile
          BY <4>4 DEF StatusOf, Ends, Chain
        <5>2. Searchable(f)'
          BY <4>2, <5>1 DEF Searchable, NoFile
        <5> QED BY <4>1, <5>2
      <4> QED BY <1>2, <4>3, <4>4 DEF Restart, files
    <3>5. InspectionWhole(client[c])'
      BY <2>3, <3>2, <3>3, <3>4 DEF InspectionWhole, AnswerWhole
    <3> QED BY <2>2, <3>5 DEF WholeInv
  <2>4. CASE client'[c] = [Idle EXCEPT !.fp = client[c].fp, !.out = "degraded"]
    <3> DEFINE r == [Idle EXCEPT !.fp = client[c].fp, !.out = "degraded"]
    <3>1. r.pc = "idle" /\ r.own = NoRecord /\ r.out = "degraded"
      BY DEF Idle
    <3> HIDE DEF r
    <3>2. client'[c].pc = "idle" /\ client'[c].own = NoRecord /\ client'[c].out = "degraded"
      BY <2>4, <3>1 DEF r
    <3> QED BY <2>2, <3>2, WaitsWhole DEF WholeInv, AnswerWhole
  <2> QED BY <1>2, <2>3, <2>4, OnlyInspection DEF Restart, Holds, Handling
<1> QED BY <1>1, <1>2

LEMMA StepWhole ==
  ASSUME NEW c, Clients = {c}, SemInv, WholeInv, [Next]_vars
  PROVE  WholeInv'
<1>1. CASE ServiceStep(c)
  BY <1>1, OpenWhole, EmbedWhole, MergeWhole, WriteAliasWhole, CopyStatusWhole, WriteStatusWhole,
     SearchWhole DEF ServiceStep
<1>2. CASE UNCHANGED vars
  <2>1. \A f : StatusOf(f)' = StatusOf(f)
    BY <1>2, StatusOfStays DEF vars
  <2>2. PICK f : f = client[c].fp /\ f = client'[c].fp
    BY <1>2 DEF vars
  <2>3. Searchable(client[c].fp) <=> Searchable(client[c].fp)'
    <3>1. Searchable(f) <=> Searchable(f)'
      BY <1>2, <2>1 DEF vars, Searchable
    <3> QED BY <2>2, <3>1
  <2>4. InspectionWhole(client[c])'
    BY <1>2, <2>3, OnlyInspection DEF vars, WholeInv, InspectionWhole, UploadIsOpen, AnswerWhole
  <2>5. FoundIsWhole' /\ ReadyIsSealed'
    BY <1>2, OnlyInspection DEF vars, WholeInv, FoundIsWhole, ReadyIsSealed, Sealed
  <2> QED BY <2>4, <2>5 DEF WholeInv
<1> QED BY <1>1, <1>2, BeginWhole, ClientStepWhole, FaultWhole DEF Next

LEMMA InitWhole == ASSUME NEW c, Clients = {c}, Init PROVE WholeInv
<1>1. Idle.pc = "idle" /\ Idle.own = NoRecord /\ Idle.out = "none"
  BY DEF Idle
<1>2. client[c] = Idle /\ index = [f \in Fps |-> NoRecord]
       /\ found = [f \in Fps |-> [ids |-> <<>>, rows |-> <<>>]]
  BY DEF Init
<1>3. FoundIsWhole /\ ReadyIsSealed
  BY <1>2 DEF FoundIsWhole, ReadyIsSealed, NoRecord
<1>4. InspectionWhole(client[c])
  BY <1>1, <1>2 DEF InspectionWhole, UploadIsOpen, AnswerWhole
<1> QED BY <1>3, <1>4 DEF WholeInv

\* One inspection at a time and NumPy: an answer compared every chunk of the
\* repository, whatever was restarted, lost or killed before it and however
\* many states of the repository were indexed.
THEOREM OneInspectionIsWhole ==
  ASSUME NEW c, Clients = {c}, ~Faiss
  PROVE  Spec => []AnswerIsWhole
<1>1. Init => WholeInv
  BY InitWhole
<1>2. SemInv /\ WholeInv /\ [Next]_vars => WholeInv'
  BY StepWhole
<1>3. WholeInv => AnswerIsWhole
  BY DEF WholeInv, InspectionWhole, AnswerWhole, AnswerIsWhole
<1> QED BY <1>1, <1>2, <1>3, SemInvariant, PTL DEF Spec

-----------------------------------------------------------------------------
(* One inspection at a time and at most one fault: the scores of an answer *)
(* belong to its chunks.  Until the service is restarted, what has no      *)
(* record has no files, and an upload that nothing disturbs is done once   *)
(* for each state of the repository; what a restart leaves is therefore    *)
(* ready and never written again, or has no file of its own.               *)

Untouched(f) == status[f] = NoFile /\ rows[f] = <<>> /\ alias[f] = NoFp

FreshInv ==
  /\ \A f \in Fps : (index[f] = NoRecord => Untouched(f)) /\ found[f].ids = <<>>
  /\ \A c \in Clients : client[c].pc \in Handling => index[client[c].fp] # NoRecord

\* The file of rows is as the status file or missing, and so is what an alias
\* of it leads to.
RowsFollow(f) ==
  /\ rows[f] \in {<<>>, status[f].ids}
  /\ alias[f] # NoFp => status[alias[f]] # NoFile /\ status[alias[f]].ids = status[f].ids

Settled(f) == index[f].ready /\ Whole(f, index[f].docs) /\ Sealed(f) /\ RowsFollow(f)

\* The documents of the batches that are left.
Left(p) == UNION {Range(p[i]) : i \in DOMAIN p}

Busy(r) == r.pc \in Handling \/ (r.pc = "open" /\ ~r.first)

Orderly(r) ==
  /\ r.pc \in Uploading \cup {"status"} /\ r.base # NoFp => index[r.base] # NoRecord
  /\ r.pc = "open" /\ r.first =>
        /\ index[r.fp] = NoRecord
        /\ Range(Docs[r.fp]) \subseteq
              Left(r.plan) \cup (IF r.base = NoFp THEN {} ELSE Range(Docs[r.base]) \ r.removed)
  /\ Busy(r) =>
        /\ index[r.fp] # NoRecord /\ rows[r.fp] = <<>> /\ (r.base # NoFp => r.reused)
        /\ r.pc # "rows" => status[r.fp] = NoFile
        /\ alias[r.fp] = IF r.pc = "copy" THEN r.base ELSE NoFp
  /\ (r.pc = "open" /\ ~r.first) \/ r.pc \in {"embed", "store", "merge"} =>
        Range(Docs[r.fp]) \subseteq Range(index[r.fp].docs) \cup Left(r.plan)
  /\ r.pc \in {"alias", "copy", "file", "rows"} => index[r.fp].ready /\ Whole(r.fp, index[r.fp].docs)
  /\ r.pc = "copy" => r.copy = status[r.base]
  /\ r.pc = "manifest" => index[r.fp] # NoRecord

OrderlyInv ==
  /\ \A f \in Fps : index[f] = NoRecord \/ Settled(f) \/ \E c \in Clients : Busy(client[c]) /\ client[c].fp = f
  /\ manifest # NoFp => index[manifest] # NoRecord
  /\ \A c \in Clients : Orderly(client[c])

Agree(s, t) == \A i \in DOMAIN s \cap DOMAIN t : s[i] = t[i]

\* What was ready at the restart stays as it is; the rest has a record or no
\* files but an alias to what was ready.
RecoveredInv(safe) ==
  /\ \A f \in safe :
        /\ Sealed(f) /\ rows[f] \in {<<>>, status[f].ids}
        /\ index[f] = NoRecord \/ (index[f].ready /\ Whole(f, index[f].docs))
        /\ alias[f] = NoFp \/ (alias[f] \in safe /\ status[alias[f]].ids = status[f].ids)
  /\ \A f \in Fps \ safe :
        index[f] = NoRecord => status[f] = NoFile /\ rows[f] = <<>> /\ alias[f] \in safe \cup {NoFp}
  /\ \A f \in Fps : index[f] = NoRecord => Agree(found[f].ids, found[f].rows)
  /\ \A c \in Clients :
        /\ client[c].pc \in Uploading => client[c].fp \notin safe
        /\ client[c].pc \in Handling => index[client[c].fp] # NoRecord

AlignedInv ==
  /\ AnswerIsAligned
  /\ \/ FreshInv /\ (faults < MaxFaults => OrderlyInv)
     \/ faults = MaxFaults /\ \E safe \in SUBSET Fps : RecoveredInv(safe)

LEMMA RecordsAre ==
  /\ \A b, docs : Record(b, docs) # NoRecord
  /\ \A b, docs, s : [Record(b, docs) EXCEPT !.rows = s] # NoRecord
  /\ \A r, s : r \in RecordType /\ r # NoRecord /\ (r.kind = "none" => r = NoRecord)
                => [r EXCEPT !.rows = s] # NoRecord
BY DEF Record, NoRecord, RecordType

\* A fingerprint without record and files reads as one the service never saw.
LEMMA FreshReads ==
  ASSUME FreshInv, NEW f \in Fps, index[f] = NoRecord
  PROVE  StatusOf(f) = NoFile /\ IndexOf(f) = NoRecord /\ ~IsReady(f)
<1>1. status[f] = NoFile /\ alias[f] = NoFp
  BY DEF FreshInv, Untouched
<1>2. StatusOf(f) = NoFile
  BY <1>1, StatusOfOwn
<1>3. ~NoFile.ready
  BY DEF NoFile
<1> QED BY <1>1, <1>2, <1>3 DEF IndexOf, IsReady

LEMMA FreshKept ==
  ASSUME NEW c, Clients = {c}, FreshInv,
         \A f \in Fps : /\ index'[f] = NoRecord =>
                              /\ index[f] = NoRecord
                              /\ status'[f] = status[f] /\ rows'[f] = rows[f]
                              /\ alias'[f] = alias[f] \/ alias'[f] = NoFp
                        /\ found'[f].ids = <<>>,
         client'[c].pc \in Handling => index'[client'[c].fp] # NoRecord
  PROVE  FreshInv'
BY DEF FreshInv, Untouched

LEMMA LoadIndexDrops ==
  ASSUME NEW f, LoadIndex(f), NEW g \in Fps
  PROVE  alias'[g] = alias[g] \/ alias'[g] = NoFp
BY DEF LoadIndex

\* What an upload request leaves of the records: its own, and those there were.
LEMMA OpenRecords ==
  ASSUME NEW c, Clients = {c}, SemInv, FreshInv, Open(c)
  PROVE  /\ \A f \in Fps : /\ alias'[f] = alias[f]
                           /\ f # client[c].fp => index'[f] = index[f]
         /\ index'[client[c].fp] # NoRecord
<1> DEFINE f == client[c].fp
           base == client[c].base
           missing == Batch(c) \ KnownVectors
           local == [Goto(c, IF missing = {} THEN "merge" ELSE "embed") EXCEPT !.missing = missing]
           from == IF base = NoFp THEN NoRecord ELSE IndexOf(base)
           kept == IF from.ready THEN Without(from.docs, client[c].removed) ELSE <<>>
<1>1. f \in Fps /\ base \in Fps \cup {NoFp} /\ index \in [Fps -> RecordType]
  BY OnlyInspection, UnderWay DEF Open, At, Uploading, SemInv, StoresFit
<1>2. base # NoFp => from = index[base]
  BY <1>1, FreshReads DEF IndexOf
<1>3. CASE Replace(c, local)
  <2>1. index' = [g \in Fps |-> IF g = f THEN Record(FALSE, kept) ELSE IF g = base THEN from ELSE index[g]]
    BY <1>3 DEF Replace, from, kept
  <2>2. index'[f] # NoRecord
    BY <1>1, <2>1, RecordsAre
  <2>3. \A g \in Fps : g # f => index'[g] = index[g]
    <3> HIDE DEF from, kept
    <3> QED BY <1>2, <2>1, ConstantsFit
  <2>4. ASSUME NEW g \in Fps PROVE alias'[g] = alias[g]
    <3>1. CASE base # NoFp /\ index[base] = NoRecord
      <4>1. LoadIndex(base) /\ alias[base] = NoFp
        BY <1>1, <1>3, <3>1 DEF Replace, FreshInv, Untouched
      <4>2. alias[g] = NoFp => alias'[g] = alias[g]
        BY <4>1, LoadIndexDrops
      <4>3. Aliased(base) = {}
        <5> DEFINE pass == {h \in Fps : alias[h] # NoFp}
        <5>1. base \notin pass
          BY <4>1
        <5> HIDE DEF pass
        <5>2. {base} \in SUBSET Fps /\ \A h \in {base} \cap pass : alias[h] \in {base}
          BY <1>1, <3>1, <5>1
        <5>3. Chain(base, pass) \subseteq {base}
          BY <5>2 DEF Chain
        <5> QED BY <5>1, <5>3 DEF Aliased, pass
      <4>4. alias' = [h \in Fps |-> IF h \in Aliased(base) THEN NoFp ELSE alias[h]]
        BY <4>1 DEF LoadIndex
      <4> QED BY <4>3, <4>4
    <3>2. CASE ~(base # NoFp /\ index[base] = NoRecord)
      BY <1>3, <3>2 DEF Replace
    <3> QED BY <3>1, <3>2
  <2> QED BY <2>2, <2>3, <2>4
<1>4. CASE Continue(c, local)
  BY <1>1, <1>4, RecordsAre DEF Continue
<1> QED BY <1>3, <1>4 DEF Open

LEMMA FreshStep ==
  ASSUME NEW c, Clients = {c}, SemInv, WholeInv, FreshInv, [Next]_vars, ~Restart("restart")
  PROVE  FreshInv'
<1>1. /\ c \in Clients /\ client[c] \in ClientType /\ ClientFits(client[c]) /\ client[c].own = NoRecord
      /\ \A f \in Fps : found[f].ids = <<>> /\ RecordFits(f, index[f])
      /\ client[c].pc \in Handling => index[client[c].fp] # NoRecord
      /\ client[c].pc # "idle" => client[c].fp \in Fps
      /\ index \in [Fps -> RecordType] /\ alias \in [Fps -> Fps \cup {NoFp}]
      /\ rows \in [Fps -> Seq(Doc)] /\ status \in [Fps -> FileType]
      /\ found \in [Fps -> [ids : Seq(Doc), rows : Seq(Doc)]]
  BY OnlyInspection DEF WholeInv, InspectionWhole, FreshInv, SemInv, StoresFit, DataFits, ClientFits, AliasFits
<1>2. ASSUME UNCHANGED <<status, rows, alias, index, found>>,
             client'[c].pc \in Handling => client[c].pc \in Handling /\ client'[c].fp = client[c].fp
      PROVE  FreshInv'
  BY <1>1, <1>2, FreshKept
<1>3. ASSUME client' = [client EXCEPT ![c] = Accepted(c, client[c].reused)], client[c].pc \in Handling
      PROVE  client'[c].pc \notin Handling
  BY <1>3, AcceptedAs DEF Handling
<1>4. ASSUME NEW f \in Fps, Begin(c, f) PROVE FreshInv'
  <2> DEFINE r == [Idle EXCEPT !.pc = "status", !.fp = f, !.base = IF manifest = f THEN NoFp ELSE manifest]
  <2>1. client' = [client EXCEPT ![c] = r]
    BY <1>4 DEF Begin, Then
  <2>2. r.pc = "status"
    BY DEF Idle
  <2> HIDE DEF r
  <2>3. client'[c].pc = "status"
    BY <2>1, <2>2, OnlyInspection
  <2> QED BY <1>2, <1>4, <2>3 DEF Begin, ServiceAlone, files, memory, Handling
<1>5. CASE ClientStep(c)
  <2>1. client'[c].pc \notin Handling
    <3> DEFINE full == FullUpload(c)
               delta == DeltaUpload(c)
               go(pc) == Goto(c, pc)
    <3>1. \/ client' = [client EXCEPT ![c] = go("manifest")] \/ client' = [client EXCEPT ![c] = go("search")]
          \/ client' = [client EXCEPT ![c] = full] \/ client' = [client EXCEPT ![c] = delta]
          \/ End(c, "degraded")
      BY <1>5 DEF ClientStep, CheckStatus, CheckFinalized, WriteManifest, Then
    <3>2. full.pc = "open" /\ delta.pc = "open" /\ go("manifest").pc = "manifest" /\ go("search").pc = "search"
      BY <1>1 DEF FullUpload, DeltaUpload, Goto, ClientType
    <3> HIDE DEF full, delta, go
    <3> QED BY <3>1, <3>2, EndedAs, OnlyInspection DEF Handling
  <2> QED BY <1>2, <1>5, <2>1 DEF ClientStep, CheckStatus, CheckFinalized, WriteManifest, ServiceAlone,
             files, memory
<1>6. CASE Open(c)
  <2>1. /\ \A f \in Fps : alias'[f] = alias[f] /\ (f # client[c].fp => index'[f] = index[f])
        /\ index'[client[c].fp] # NoRecord
    BY <1>6, OpenRecords
  <2>2. \A f \in Fps : found'[f].ids = <<>>
    BY <1>1, <1>6 DEF Open
  <2>3. client'[c].fp = client[c].fp
    BY <1>6, OpenAs DEF Continues
  <2> QED BY <1>6, <2>1, <2>2, <2>3, FreshKept DEF Open
<1>7. CASE Embed(c) \/ Store(c)
  <2>1. client[c].pc \in Handling /\ client'[c].fp = client[c].fp
    BY <1>7, EmbedAs DEF Handling, Continues
  <2> QED BY <1>2, <1>7, <2>1 DEF Embed, Store, files, memory
<1>8. CASE Merge(c)
  <2>1. client'[c].fp = client[c].fp /\ client[c].fp \in Fps
    BY <1>1, <1>8, MergeAs DEF Merge, At
  <2>2. index'[client[c].fp] # NoRecord /\ \A f \in Fps : f # client[c].fp => index'[f] = index[f]
    <3>1. PICK rec : index' = [index EXCEPT ![client[c].fp] = rec] /\ rec # NoRecord
      BY <1>1, <1>8, MergeRecord
    <3> QED BY <1>1, <2>1, <3>1
  <2> QED BY <1>1, <1>8, <2>1, <2>2, FreshKept DEF Merge, files
<1>9. CASE WriteAlias(c)
  <2>1. client'[c].fp = client[c].fp /\ client[c].fp \in Fps /\ index[client[c].fp] # NoRecord
    BY <1>1, <1>9, WriteAliasAs DEF Handling, Continues
  <2>2. \A f \in Fps : f # client[c].fp => alias'[f] = alias[f]
    BY <1>1, <1>9 DEF WriteAlias
  <2> QED BY <1>1, <1>9, <2>1, <2>2, FreshKept DEF WriteAlias, memory
<1>10. CASE CopyStatus(c) \/ WriteRows(c)
  <2>1. client'[c].pc \notin Handling /\ index[client[c].fp] # NoRecord /\ client[c].fp \in Fps
    BY <1>1, <1>3, <1>10 DEF CopyStatus, WriteRows, At, Then, Handling
  <2>2. /\ \A f \in Fps : f # client[c].fp => status'[f] = status[f] /\ rows'[f] = rows[f]
        /\ UNCHANGED <<index, found, alias>>
    BY <1>1, <1>10 DEF CopyStatus, WriteRows, memory
  <2> QED BY <1>1, <2>1, <2>2, FreshKept
<1>11. CASE WriteStatus(c)
  <2>1. client'[c].fp = client[c].fp /\ client[c].fp \in Fps /\ index[client[c].fp] # NoRecord
    BY <1>1, <1>11, WriteStatusAs DEF Handling, Continues
  <2>2. \A f \in Fps : f # client[c].fp => status'[f] = status[f] /\ alias'[f] = alias[f]
    BY <1>1, <1>11 DEF WriteStatus
  <2> QED BY <1>1, <1>11, <2>1, <2>2, FreshKept DEF WriteStatus, memory
<1>12. CASE SearchRecord(c)
  <2>1. client'[c].pc \notin Handling
    BY <1>12, EndedAs, AnsweredAs DEF SearchRecord, Handling
  <2>2. \A f \in Fps : index'[f] = NoRecord => index[f] = NoRecord
    <3>1. client[c].fp \in Fps
      BY <1>1, <1>12 DEF SearchRecord, At
    <3>2. CASE UNCHANGED index
      BY <3>2
    <3>3. ASSUME NEW s, index' = [index EXCEPT ![client[c].fp].rows = s]
          PROVE  \A f \in Fps : index'[f] = NoRecord => index[f] = NoRecord
      BY <1>1, <3>1, <3>3, RecordsAre DEF RecordFits
    <3> QED BY <1>12, <3>2, <3>3 DEF SearchRecord
  <2> QED BY <1>1, <1>12, <2>1, <2>2, FreshKept DEF SearchRecord, files
<1>13. ~SearchFiles(c)
  <2> SUFFICES ASSUME SearchFiles(c) PROVE FALSE
    OBVIOUS
  <2>1. client[c].fp \in Fps /\ index[client[c].fp] = NoRecord
        /\ (found[client[c].fp].ids # <<>> \/ StatusOf(client[c].fp).ready)
    BY <1>1 DEF SearchFiles, At
  <2> QED BY <1>1, <2>1, FreshReads DEF NoFile
<1>14. CASE SearchRebuilt(c)
  <2>1. client'[c].pc \notin Handling
    BY <1>14, AnsweredAs DEF SearchRebuilt, Handling
  <2>2. /\ client[c].fp \in Fps /\ index[client[c].fp] = NoRecord /\ LoadIndex(client[c].fp)
        /\ \A f \in Fps : f # client[c].fp => index'[f] = index[f]
    BY <1>1, <1>14 DEF SearchRebuilt, At
  <2> QED BY <1>1, <1>14, <2>1, <2>2, LoadIndexDrops, FreshKept DEF SearchRebuilt
<1>15. CASE EmbedFails(c) \/ Kill(c)
  <2>1. client'[c].pc \notin Handling
    BY <1>15, EndedAs DEF EmbedFails, Kill, Handling
  <2> QED BY <1>2, <1>15, <2>1 DEF EmbedFails, Kill, files, memory
<1>16. CASE Restart("loss")
  <2>1. client'[c].pc \notin Handling
    <3> DEFINE r == [Idle EXCEPT !.fp = client[c].fp, !.out = "degraded"]
    <3>1. client'[c] = r \/ (client'[c] = client[c] /\ client[c].pc \notin Handling)
      BY <1>1, <1>16 DEF Restart, Holds, Handling
    <3>2. r.pc = "idle"
      BY DEF Idle
    <3> HIDE DEF r
    <3> QED BY <3>1, <3>2 DEF Handling
  <2> QED BY <1>16, <2>1 DEF Restart, FreshInv, Untouched
<1>17. CASE UNCHANGED vars
  BY <1>1, <1>2, <1>17 DEF vars
<1> QED BY <1>4, <1>5, <1>6, <1>7, <1>8, <1>9, <1>10, <1>11, <1>12, <1>13, <1>14, <1>15, <1>16, <1>17
        DEF Next, ServiceStep

LEMMA LeftParts ==
  ASSUME NEW f \in Fps, NEW p, Plan(f, p), p # <<>>
  PROVE  /\ Left(p) = Range(Head(p)) \cup Left(Tail(p))
         /\ Tail(p) = <<>> => Left(Tail(p)) = {}
<1>1. p \in Seq(Seq(Doc)) /\ DOMAIN p = 1 .. Len(p) /\ Len(p) \in Nat /\ Len(p) # 0
  BY LenProperties, EmptySeq DEF Plan
<1>2. Head(p) = p[1] /\ 1 \in DOMAIN p
  BY <1>1
<1>3. /\ DOMAIN Tail(p) = 1 .. Len(p) - 1
      /\ \A i \in 1 .. Len(p) - 1 : Tail(p)[i] = p[i + 1] /\ i + 1 \in DOMAIN p
  BY <1>1
<1>4. ASSUME NEW x \in Left(p) PROVE x \in Range(Head(p)) \cup Left(Tail(p))
  <2>1. PICK i \in DOMAIN p : x \in Range(p[i])
    BY DEF Left
  <2>2. CASE i = 1
    BY <1>2, <2>1, <2>2
  <2>3. CASE i # 1
    <3>1. i - 1 \in 1 .. Len(p) - 1 /\ (i - 1) + 1 = i
      BY <1>1, <2>3
    <3>2. i - 1 \in DOMAIN Tail(p) /\ Tail(p)[i - 1] = p[i]
      BY <1>3, <3>1
    <3> QED BY <2>1, <3>2 DEF Left
  <2> QED BY <2>2, <2>3
<1>5. ASSUME NEW x \in Left(Tail(p)) PROVE x \in Left(p)
  <2>1. PICK i \in DOMAIN Tail(p) : x \in Range(Tail(p)[i])
    BY DEF Left
  <2>2. Tail(p)[i] = p[i + 1] /\ i + 1 \in DOMAIN p
    BY <1>3
  <2> QED BY <2>1, <2>2 DEF Left
<1>6. Range(Head(p)) \subseteq Left(p)
  BY <1>2 DEF Left
<1>7. Left(<<>>) = {}
  BY DEF Left
<1> QED BY <1>4, <1>5, <1>6, <1>7

LEMMA LeftBatches ==
  ASSUME NEW f \in Fps, NEW docs, List(f, docs), NEW carries \in BOOLEAN
  PROVE  Range(docs) \subseteq Left(Batches(docs, carries))
BY BatchesProperties DEF List, Left

LEMMA SettledReads ==
  ASSUME SemInv, NEW f \in Fps, Settled(f)
  PROVE  index[f] # NoRecord /\ status[f] # NoFile /\ StatusOf(f) = status[f] /\ IsReady(f)
<1>1. index[f] # NoRecord /\ status[f] # NoFile
  BY DEF Settled, Sealed, NoRecord, NoFile
<1>2. StatusOf(f) = status[f]
  BY <1>1, StatusOfOwn
<1>3. List(f, index[f].docs) /\ List(f, Docs[f]) /\ Range(index[f].docs) = Range(Docs[f])
  BY ConstantsFit DEF SemInv, StoresFit, RecordFits, Settled, Whole
<1>4. Len(index[f].docs) = Len(Docs[f])
  BY <1>3, CountDecides DEF List
<1> QED BY <1>1, <1>2, <1>4 DEF IsReady, Settled

LEMMA SettledKept ==
  ASSUME NEW f \in Fps, Settled(f), index'[f].ready = index[f].ready, index'[f].docs = index[f].docs,
         status'[f] = status[f], rows'[f] = rows[f], alias'[f] = alias[f] \/ alias'[f] = NoFp,
         alias \in [Fps -> Fps \cup {NoFp}],
         \A g \in Fps : status[g] # NoFile => status'[g] = status[g]
  PROVE  Settled(f)'
BY DEF Settled, Whole, Sealed, RowsFollow

\* What an upload begins with.
LEMMA UploadAs ==
  ASSUME NEW c, Clients = {c}, SemInv
  PROVE  /\ LET r == FullUpload(c) IN
              r.pc = "open" /\ r.first = TRUE /\ r.fp = client[c].fp /\ r.base = NoFp
                /\ r.plan = Batches(Docs[client[c].fp], FALSE)
         /\ LET r == DeltaUpload(c)
                old == Range(Docs[client[c].base]) IN
              r.pc = "open" /\ r.first = TRUE /\ r.fp = client[c].fp /\ r.base = client[c].base
                /\ r.removed = old \ Range(Docs[client[c].fp])
                /\ r.plan = Batches(Without(Docs[client[c].fp], old), TRUE)
<1>1. client[c] \in ClientType
  BY OnlyInspection
<1> QED BY <1>1 DEF FullUpload, DeltaUpload, Goto, ClientType

LEMMA QuietOrderly ==
  ASSUME NEW c, Clients = {c}, OrderlyInv, UNCHANGED <<status, rows, alias, index>>,
         Busy(client[c]) => Busy(client'[c]) /\ client'[c].fp = client[c].fp
  PROVE  \A f \in Fps : \/ index'[f] = NoRecord \/ Settled(f)'
                        \/ \E d \in Clients : Busy(client'[d]) /\ client'[d].fp = f
BY DEF OrderlyInv, Settled, Whole, Sealed, RowsFollow

LEMMA BeginOrderly ==
  ASSUME NEW c, Clients = {c}, SemInv, OrderlyInv, NEW f \in Fps, Begin(c, f)
  PROVE  OrderlyInv'
<1> DEFINE base == IF manifest = f THEN NoFp ELSE manifest
           r == [Idle EXCEPT !.pc = "status", !.fp = f, !.base = base]
<1>1. client[c].pc = "idle" /\ UNCHANGED <<status, rows, alias, index, manifest>>
  BY DEF Begin, At, ServiceAlone, files, memory
<1>2. client'[c].pc = "status" /\ client'[c].base = base
  <2>1. client' = [client EXCEPT ![c] = r]
    BY DEF Begin, Then
  <2>2. r.pc = "status" /\ r.base = base
    BY DEF Idle
  <2> HIDE DEF r, base
  <2> QED BY <2>1, <2>2, OnlyInspection
<1> HIDE DEF r
<1>3. base # NoFp => index'[base] # NoRecord
  BY <1>1 DEF OrderlyInv
<1> HIDE DEF base
<1>4. Orderly(client[c])'
  BY <1>2, <1>3 DEF Orderly, Uploading, Handling, Busy
<1>5. ~Busy(client[c])
  BY <1>1 DEF Busy, Handling
<1>6. manifest' # NoFp => index'[manifest'] # NoRecord
  BY <1>1 DEF OrderlyInv
<1> QED BY <1>1, <1>4, <1>5, <1>6, QuietOrderly DEF OrderlyInv

LEMMA ClientStepOrderly ==
  ASSUME NEW c, Clients = {c}, SemInv, FreshInv, OrderlyInv, ClientStep(c)
  PROVE  OrderlyInv'
<1> DEFINE f == client[c].fp
           base == client[c].base
<1>1. /\ c \in Clients /\ client[c] \in ClientType /\ client[c].pc \in {"status", "finalized", "manifest"}
      /\ f \in Fps /\ UNCHANGED <<status, rows, alias, index>> /\ Orderly(client[c])
  BY OnlyInspection DEF ClientStep, CheckStatus, CheckFinalized, WriteManifest, At, ClientFits,
     ServiceAlone, files, memory, OrderlyInv
<1>2. ~Busy(client[c])
  BY <1>1 DEF Busy, Handling
<1>3. ASSUME manifest' # NoFp => index'[manifest'] # NoRecord, Orderly(client[c])'
      PROVE  OrderlyInv'
  BY <1>1, <1>2, <1>3, QuietOrderly DEF OrderlyInv
<1>4. UNCHANGED manifest => (manifest' # NoFp => index'[manifest'] # NoRecord)
  BY <1>1 DEF OrderlyInv
<1>5. IsReady(f) => index[f] # NoRecord
  BY <1>1, FreshReads
<1>6. ~IsReady(f) => index[f] = NoRecord
  BY <1>1, <1>2, SettledReads DEF OrderlyInv
<1>7. CASE CheckStatus(c) /\ ~IsReady(f)
  <2>1. client[c].pc = "status" /\ UNCHANGED manifest /\ index'[f] = NoRecord
    BY <1>1, <1>6, <1>7 DEF CheckStatus, At
  <2>2. List(f, Docs[f]) /\ Docs[f] # <<>>
    BY <1>1, ConstantsFit
  <2>3. CASE base = NoFp
    <3> DEFINE r == FullUpload(c)
    <3>1. client'[c] = r
      <4>1. client' = [client EXCEPT ![c] = r]
        BY <1>7, <2>3 DEF CheckStatus, Then
      <4> HIDE DEF r
      <4> QED BY <4>1, OnlyInspection
    <3>2. r.pc = "open" /\ r.first = TRUE /\ r.fp = f /\ r.base = NoFp /\ r.plan = Batches(Docs[f], FALSE)
      BY UploadAs
    <3> HIDE DEF r
    <3>3. Range(Docs[f]) \subseteq Left(client'[c].plan)
      BY <1>1, <2>2, <3>1, <3>2, LeftBatches
    <3>4. Orderly(client[c])'
      <4> HIDE DEF f
      <4> QED BY <2>1, <3>1, <3>2, <3>3 DEF Orderly, Busy, Uploading, Handling
    <3> QED BY <1>3, <1>4, <2>1, <3>4
  <2>4. CASE base # NoFp
    <3> DEFINE r == DeltaUpload(c)
               old == Range(Docs[base])
    <3>1. client'[c] = r
      <4>1. client' = [client EXCEPT ![c] = r]
        BY <1>7, <2>4 DEF CheckStatus, Then
      <4> HIDE DEF r
      <4> QED BY <4>1, OnlyInspection
    <3>2. /\ r.pc = "open" /\ r.first = TRUE /\ r.fp = f /\ r.base = base
          /\ r.removed = old \ Range(Docs[f]) /\ r.plan = Batches(Without(Docs[f], old), TRUE)
      BY UploadAs
    <3> HIDE DEF r
    <3>3. List(f, Without(Docs[f], old)) /\ Range(Without(Docs[f], old)) = Range(Docs[f]) \ old
      BY <1>1, <2>2, ListWithout, WithoutProperties DEF List
    <3>4. Range(Docs[f]) \subseteq Left(client'[c].plan) \cup (old \ client'[c].removed)
      <4>1. Range(Without(Docs[f], old)) \subseteq Left(r.plan)
        BY <1>1, <3>2, <3>3, LeftBatches
      <4> HIDE DEF old
      <4> QED BY <3>1, <3>2, <3>3, <4>1
    <3>5. index'[base] # NoRecord
      BY <1>1, <2>1, <2>4 DEF Orderly
    <3>6. Orderly(client[c])'
      <4> HIDE DEF f, base
      <4> QED BY <2>1, <2>4, <3>1, <3>2, <3>4, <3>5 DEF Orderly, Busy, Uploading, Handling, old
    <3> QED BY <1>3, <1>4, <2>1, <3>6
  <2> QED BY <2>3, <2>4
<1>8. CASE IsReady(f) /\ client' = [client EXCEPT ![c] = Goto(c, "manifest")] /\ UNCHANGED manifest
  <2> DEFINE r == Goto(c, "manifest")
  <2>1. r.pc = "manifest" /\ r.fp = f
    BY <1>1 DEF Goto, ClientType
  <2> HIDE DEF r
  <2>2. client'[c].pc = "manifest" /\ client'[c].fp = f
    BY <1>8, <2>1, OnlyInspection DEF r
  <2>3. Orderly(client[c])'
    <3> HIDE DEF f
    <3> QED BY <1>1, <1>5, <1>8, <2>2 DEF Orderly, Busy, Uploading, Handling
  <2> QED BY <1>3, <1>4, <1>8, <2>3
<1>9. CASE End(c, "degraded") /\ UNCHANGED manifest
  <2>1. client'[c].pc = "idle"
    BY <1>9, EndedAs
  <2>2. Orderly(client[c])'
    BY <2>1 DEF Orderly, Busy, Uploading, Handling
  <2> QED BY <1>3, <1>4, <1>9, <2>2
<1>10. CASE WriteManifest(c)
  <2> DEFINE r == Goto(c, "search")
  <2>1. r.pc = "search"
    BY <1>1 DEF Goto, ClientType
  <2>2. client' = [client EXCEPT ![c] = r] /\ client[c].pc = "manifest" /\ manifest' = f
    BY <1>10 DEF WriteManifest, At, Then
  <2> HIDE DEF r
  <2>3. client'[c].pc = "search"
    BY <2>1, <2>2, OnlyInspection
  <2>4. Orderly(client[c])'
    BY <2>3 DEF Orderly, Busy, Uploading, Handling
  <2>5. index'[manifest'] # NoRecord
    BY <1>1, <2>2 DEF Orderly
  <2> QED BY <1>3, <2>4, <2>5
<1>11. CASE CheckStatus(c) /\ IsReady(f)
  BY <1>8, <1>11 DEF CheckStatus, Then
<1>12. CASE CheckFinalized(c)
  BY <1>8, <1>9, <1>12 DEF CheckFinalized, Then
<1> QED BY <1>7, <1>10, <1>11, <1>12 DEF ClientStep

\* What an upload stands on.
LEMMA UploadStands ==
  ASSUME NEW c, Clients = {c}, SemInv, WholeInv, OrderlyInv, client[c].pc \in Uploading
  PROVE  /\ c \in Clients /\ client[c] \in ClientType /\ client[c].own = NoRecord
         /\ client[c].fp \in Fps /\ client[c].base \in Fps \cup {NoFp}
         /\ client[c].base # client[c].fp
         /\ Plan(client[c].fp, client[c].plan) /\ client[c].plan # <<>>
         /\ Orderly(client[c]) /\ UploadIsOpen(client[c])
         /\ client[c].base # NoFp => Settled(client[c].base)
<1>1. /\ c \in Clients /\ client[c] \in ClientType /\ client[c].own = NoRecord
      /\ client[c].fp \in Fps /\ client[c].base \in Fps \cup {NoFp} /\ client[c].base # client[c].fp
      /\ Plan(client[c].fp, client[c].plan) /\ client[c].plan # <<>>
      /\ Orderly(client[c]) /\ UploadIsOpen(client[c])
  BY OnlyInspection DEF ClientFits, Uploading, Handling, ClientType, WholeInv, InspectionWhole, OrderlyInv
<1>2. client[c].base # NoFp => index[client[c].base] # NoRecord
  BY <1>1 DEF Orderly
<1> QED BY <1>1, <1>2 DEF OrderlyInv

\* A step of an upload, seen from the other states of the repository.
LEMMA OrderlyKept ==
  ASSUME NEW c, Clients = {c}, SemInv, OrderlyInv, UNCHANGED manifest, NEW f \in Fps,
         \A g \in Fps : g # f => /\ index'[g] = index[g] /\ status'[g] = status[g]
                                 /\ rows'[g] = rows[g] /\ alias'[g] = alias[g],
         status[f] = NoFile \/ status'[f] = status[f], index'[f] # NoRecord,
         client[c].fp = f, Settled(f)' \/ (Busy(client'[c]) /\ client'[c].fp = f),
         Orderly(client[c])'
  PROVE  OrderlyInv'
<1>1. alias \in [Fps -> Fps \cup {NoFp}] /\ manifest \in Fps \cup {NoFp} /\ c \in Clients
  BY DEF SemInv, StoresFit, DataFits, AliasFits
<1>2. ASSUME NEW g \in Fps
      PROVE  \/ index'[g] = NoRecord \/ Settled(g)'
             \/ \E d \in Clients : Busy(client'[d]) /\ client'[d].fp = g
  <2>1. CASE g = f
    BY <1>1, <2>1
  <2>2. CASE g # f
    <3>1. index[g] = NoRecord \/ Settled(g)
      BY <2>2 DEF OrderlyInv
    <3>2. CASE Settled(g)
      <4>1. \A h \in Fps : status[h] # NoFile => status'[h] = status[h]
        OBVIOUS
      <4> QED BY <1>1, <2>2, <3>2, <4>1, SettledKept
    <3> QED BY <2>2, <3>1, <3>2
  <2> QED BY <2>1, <2>2
<1>3. manifest' # NoFp => index'[manifest'] # NoRecord
  BY <1>1 DEF OrderlyInv
<1> QED BY <1>2, <1>3 DEF OrderlyInv

LEMMA OpenCovers ==
  ASSUME NEW c, Clients = {c}, SemInv, WholeInv, FreshInv, OrderlyInv, Open(c)
  PROVE  /\ Range(Docs[client[c].fp]) \subseteq Range(index'[client[c].fp].docs) \cup Left(client[c].plan)
         /\ client[c].base # NoFp => client'[c].reused
<1> DEFINE f == client[c].fp
           base == client[c].base
           missing == Batch(c) \ KnownVectors
           local == [Goto(c, IF missing = {} THEN "merge" ELSE "embed") EXCEPT !.missing = missing]
           from == IF base = NoFp THEN NoRecord ELSE IndexOf(base)
           kept == IF from.ready THEN Without(from.docs, client[c].removed) ELSE <<>>
<1>1. client[c].pc = "open" /\ client[c].pc \in Uploading
  BY DEF Open, At, Uploading
<1>2. /\ f \in Fps /\ base \in Fps \cup {NoFp} /\ Orderly(client[c])
      /\ base # NoFp => Settled(base)
      /\ index \in [Fps -> RecordType]
  BY <1>1, UploadStands DEF SemInv, StoresFit
<1>3. base # NoFp => from = index[base] /\ from.ready
  BY <1>2, SettledReads DEF IndexOf, Settled
<1>4. CASE client[c].first
  <2>1. Replace(c, local)
    BY <1>4 DEF Open
  <2>2. index'[f] = Record(FALSE, kept)
    <3>1. index' = [g \in Fps |-> IF g = f THEN Record(FALSE, kept) ELSE IF g = base THEN from ELSE index[g]]
      BY <2>1 DEF Replace, from, kept
    <3> HIDE DEF kept, from
    <3> QED BY <1>2, <3>1
  <2>3. index'[f].docs = kept
    BY <2>2 DEF Record
  <2>4. Range(Docs[f]) \subseteq
          Left(client[c].plan) \cup (IF base = NoFp THEN {} ELSE Range(Docs[base]) \ client[c].removed)
    BY <1>1, <1>2, <1>4 DEF Orderly
  <2>5. base # NoFp => Range(kept) = Range(Docs[base]) \ client[c].removed
    <3> SUFFICES ASSUME base # NoFp PROVE Range(kept) = Range(Docs[base]) \ client[c].removed
      OBVIOUS
    <3>1. List(base, index[base].docs) /\ Range(index[base].docs) = Range(Docs[base])
      BY <1>2 DEF SemInv, StoresFit, RecordFits, Settled, Whole
    <3>2. kept = Without(index[base].docs, client[c].removed)
      BY <1>3
    <3> HIDE DEF kept
    <3> QED BY <3>1, <3>2, WithoutProperties DEF List
  <2>6. base # NoFp => client'[c].reused
    <3>1. client'[c].reused = from.ready
      BY <1>4, OpenAs DEF from
    <3> QED BY <1>3, <3>1
  <2> HIDE DEF f, base, kept
  <2> QED BY <2>3, <2>4, <2>5, <2>6 DEF f, base
<1>5. CASE ~client[c].first
  <2>1. Busy(client[c])
    BY <1>1, <1>5 DEF Busy
  <2>2. index[f] # NoRecord /\ (base # NoFp => client[c].reused)
        /\ Range(Docs[f]) \subseteq Range(index[f].docs) \cup Left(client[c].plan)
    BY <1>1, <1>2, <1>5, <2>1 DEF Orderly
  <2>3. index'[f] = index[f]
    BY <1>2, <1>5, <2>2 DEF Open, Continue
  <2>4. client'[c].reused = client[c].reused
    BY <1>5, OpenAs
  <2> HIDE DEF f, base
  <2> QED BY <2>2, <2>3, <2>4 DEF f, base
<1> QED BY <1>4, <1>5

LEMMA OpenOrderly ==
  ASSUME NEW c, Clients = {c}, SemInv, WholeInv, FreshInv, OrderlyInv, Open(c)
  PROVE  OrderlyInv'
<1>1. client[c].pc = "open" /\ client[c].pc \in Uploading /\ UNCHANGED <<status, rows, manifest>>
  BY DEF Open, At, Uploading
<1>2. PICK f \in Fps : f = client[c].fp
  BY <1>1, UploadStands
<1>3. /\ Orderly(client[c]) /\ client[c].base \in Fps \cup {NoFp} /\ client[c].base # f
      /\ client[c].base # NoFp => Settled(client[c].base)
  BY <1>1, <1>2, UploadStands
<1>4. /\ \A g \in Fps : alias'[g] = alias[g] /\ (g # f => index'[g] = index[g])
      /\ index'[f] # NoRecord
  BY <1>2, OpenRecords
<1>5. client'[c].pc \in {"merge", "embed"} /\ Continues(client[c], client'[c])
  BY OpenAs
<1>6. /\ Range(Docs[f]) \subseteq Range(index'[f].docs) \cup Left(client[c].plan)
      /\ client[c].base # NoFp => client'[c].reused
  BY <1>2, OpenCovers
<1>7. Busy(client'[c]) /\ client'[c].fp = f
  BY <1>2, <1>5 DEF Busy, Handling, Continues
<1>8. status[f] = NoFile /\ rows[f] = <<>> /\ alias[f] = NoFp
  <2>1. CASE client[c].first
    BY <1>1, <1>2, <1>3, <2>1 DEF Orderly, FreshInv, Untouched
  <2>2. CASE ~client[c].first
    BY <1>1, <1>2, <1>3, <2>2 DEF Orderly, Busy
  <2> QED BY <2>1, <2>2
<1>9. client[c].base # NoFp => index'[client[c].base] # NoRecord
  BY <1>3, <1>4, SettledReads
<1>10. Orderly(client[c])'
  BY <1>1, <1>4, <1>5, <1>6, <1>7, <1>8, <1>9 DEF Orderly, Continues, Busy, Handling, Uploading
<1> QED BY <1>1, <1>2, <1>4, <1>7, <1>10, OrderlyKept

LEMMA EmbedOrderly ==
  ASSUME NEW c, Clients = {c}, SemInv, WholeInv, OrderlyInv, Embed(c) \/ Store(c)
  PROVE  OrderlyInv'
<1>1. /\ UNCHANGED <<status, rows, alias, index, manifest>>
      /\ client[c].pc \in {"embed", "store"} /\ client'[c].pc \in {"store", "merge"}
      /\ Continues(client[c], client'[c]) /\ client'[c].reused = client[c].reused
  BY EmbedAs DEF Embed, Store, files, memory
<1>2. Orderly(client[c]) /\ Busy(client[c]) /\ Busy(client'[c]) /\ client'[c].fp = client[c].fp
  BY <1>1 DEF OrderlyInv, Busy, Handling, Continues
<1>3. Orderly(client[c])'
  BY <1>1, <1>2 DEF Orderly, Continues, Busy, Handling, Uploading
<1>4. manifest' # NoFp => index'[manifest'] # NoRecord
  BY <1>1 DEF OrderlyInv
<1> QED BY <1>1, <1>2, <1>3, <1>4, QuietOrderly DEF OrderlyInv

LEMMA MergeOrderly ==
  ASSUME NEW c, Clients = {c}, SemInv, SemInv', WholeInv, OrderlyInv, Merge(c)
  PROVE  OrderlyInv'
<1>1. client[c].pc = "merge" /\ client[c].pc \in Uploading /\ UNCHANGED <<status, rows, alias, manifest>>
  BY DEF Merge, At, Uploading, Handling, files
<1>2. PICK f \in Fps : f = client[c].fp
  BY <1>1, UploadStands
<1>3. /\ c \in Clients /\ Orderly(client[c]) /\ client[c].own = NoRecord
      /\ client[c].base \in Fps \cup {NoFp} /\ client[c].base # f
      /\ client[c].base # NoFp => index[client[c].base] # NoRecord
      /\ Plan(f, client[c].plan) /\ client[c].plan # <<>>
  BY <1>1, <1>2, UploadStands DEF Orderly
<1>4. PICK rec : /\ index' = [index EXCEPT ![f] = rec] /\ rec # NoRecord
                 /\ Range(rec.docs) = Range(index[f].docs) \cup Range(Head(client[c].plan))
                 /\ rec.ready = (Final(c) \/ index[f].ready)
  BY <1>2, <1>3, MergeRecord
<1>5. index'[f] = rec /\ \A g \in Fps : g # f => index'[g] = index[g]
  BY <1>4 DEF SemInv, StoresFit
<1>6. client[c].base # NoFp => index'[client[c].base] # NoRecord
  BY <1>3, <1>5
<1>7. Range(Docs[f]) \subseteq Range(index'[f].docs) \cup Left(Tail(client[c].plan))
  <2>1. Range(Docs[f]) \subseteq Range(index[f].docs) \cup Left(client[c].plan)
    BY <1>1, <1>2, <1>3 DEF Orderly
  <2>2. Left(client[c].plan) = Range(Head(client[c].plan)) \cup Left(Tail(client[c].plan))
    BY <1>3, LeftParts
  <2> QED BY <1>4, <1>5, <2>1, <2>2
<1>8. /\ status[f] = NoFile /\ rows[f] = <<>> /\ alias[f] = NoFp
      /\ client[c].base # NoFp => client[c].reused
  BY <1>1, <1>2, <1>3 DEF Orderly, Busy, Handling
<1>9. Final(c) <=> Tail(client[c].plan) = <<>>
  BY <1>1, <1>3, LastBatch
<1>10. CASE Final(c)
  <2>1. /\ client'[c].pc \in {"alias", "file"} /\ Continues(client[c], client'[c])
        /\ client'[c].reused = client[c].reused
    BY <1>3, <1>10, MergeAs
  <2>2. index'[f].ready
    BY <1>4, <1>5, <1>10
  <2>3. Whole(f, index'[f].docs)
    <3>1. Left(Tail(client[c].plan)) = {}
      BY <1>3, <1>9, <1>10, LeftParts
    <3>2. Range(index'[f].docs) \subseteq Range(Docs[f])
      BY DEF SemInv, StoresFit, RecordFits, List
    <3> QED BY <1>7, <3>1, <3>2 DEF Whole
  <2>4. Busy(client'[c]) /\ client'[c].fp = f
    BY <1>2, <2>1 DEF Busy, Handling, Continues
  <2>5. Orderly(client[c])'
    BY <1>1, <1>4, <1>5, <1>6, <1>8, <2>1, <2>2, <2>3, <2>4
       DEF Orderly, Whole, Continues, Busy, Handling, Uploading
  <2> QED BY <1>1, <1>2, <1>4, <1>5, <2>4, <2>5, OrderlyKept
<1>11. CASE ~Final(c)
  <2>1. client' = [client EXCEPT ![c] = Accepted(c, client[c].reused)]
    BY <1>3, <1>11, MergeAs
  <2>2. /\ client'[c].fp = f /\ client'[c].pc = "open" /\ client'[c].first = FALSE
        /\ client'[c].plan = Tail(client[c].plan) /\ client'[c].base = client[c].base
        /\ client'[c].reused = client[c].reused
    BY <1>1, <1>2, <1>9, <1>11, <2>1, AcceptedAs DEF Handling
  <2>3. Busy(client'[c])
    BY <2>2 DEF Busy
  <2>4. Orderly(client[c])'
    BY <1>1, <1>4, <1>5, <1>6, <1>7, <1>8, <2>2, <2>3 DEF Orderly, Busy, Handling, Uploading
  <2> QED BY <1>1, <1>2, <1>4, <1>5, <2>2, <2>3, <2>4, OrderlyKept
<1> QED BY <1>10, <1>11

LEMMA WriteAliasOrderly ==
  ASSUME NEW c, Clients = {c}, SemInv, WholeInv, OrderlyInv, WriteAlias(c)
  PROVE  OrderlyInv'
<1>1. client[c].pc = "alias" /\ client[c].pc \in Uploading /\ UNCHANGED <<status, rows, index, manifest>>
  BY DEF WriteAlias, At, Uploading, Handling, memory
<1>2. PICK f \in Fps : f = client[c].fp
  BY <1>1, UploadStands
<1>3. PICK base \in Fps : base = client[c].base
  BY <1>1, UploadStands, OnlyInspection DEF ClientFits
<1>4. Orderly(client[c]) /\ base # f /\ Settled(base) /\ base # NoFp
  BY <1>1, <1>2, <1>3, UploadStands, ConstantsFit
<1>5. StatusOf(base) = status[base] /\ status[base] # NoFile /\ index[base] # NoRecord
  BY <1>4, SettledReads
<1>6. /\ client'[c].pc = "copy" /\ client'[c].copy = status[base]
      /\ Continues(client[c], client'[c]) /\ client'[c].reused = client[c].reused
      /\ alias' = [alias EXCEPT ![f] = base]
  BY <1>2, <1>3, <1>5, WriteAliasAs
<1>7. alias'[f] = base /\ \A g \in Fps : g # f => alias'[g] = alias[g]
  BY <1>6 DEF SemInv, StoresFit, AliasFits
<1>8. Busy(client'[c]) /\ client'[c].fp = f
  BY <1>2, <1>6 DEF Busy, Handling, Continues
<1>9. /\ index[f] # NoRecord /\ rows[f] = <<>> /\ client[c].reused /\ status[f] = NoFile
      /\ index[f].ready /\ Whole(f, index[f].docs)
  BY <1>1, <1>2, <1>3, <1>4 DEF Orderly, Busy, Handling
<1>10. Orderly(client[c])'
  BY <1>1, <1>3, <1>5, <1>6, <1>7, <1>8, <1>9
     DEF Orderly, Whole, Continues, Busy, Handling, Uploading
<1> QED BY <1>1, <1>2, <1>7, <1>8, <1>9, <1>10, OrderlyKept

LEMMA WriteStatusOrderly ==
  ASSUME NEW c, Clients = {c}, SemInv, WholeInv, OrderlyInv, WriteStatus(c)
  PROVE  OrderlyInv'
<1>1. client[c].pc = "file" /\ client[c].pc \in Uploading /\ UNCHANGED <<rows, index, manifest>>
  BY DEF WriteStatus, At, Uploading, Handling, memory
<1>2. PICK f \in Fps : f = client[c].fp
  BY <1>1, UploadStands
<1>3. /\ Orderly(client[c]) /\ client[c].base \in Fps \cup {NoFp} /\ client[c].base # f
      /\ client[c].base # NoFp => index[client[c].base] # NoRecord
  BY <1>1, <1>2, UploadStands DEF Orderly
<1>4. /\ client'[c].pc = "rows" /\ Continues(client[c], client'[c])
      /\ client'[c].reused = client[c].reused
  BY WriteStatusAs
<1>5. /\ index[f] # NoRecord /\ rows[f] = <<>> /\ (client[c].base # NoFp => client[c].reused)
      /\ status[f] = NoFile /\ alias[f] = NoFp /\ index[f].ready /\ Whole(f, index[f].docs)
  BY <1>1, <1>2, <1>3 DEF Orderly, Busy, Handling
<1>6. /\ alias'[f] = NoFp
      /\ \A g \in Fps : g # f => alias'[g] = alias[g] /\ status'[g] = status[g]
  BY <1>2 DEF WriteStatus, SemInv, StoresFit, AliasFits
<1>7. Busy(client'[c]) /\ client'[c].fp = f
  BY <1>2, <1>4 DEF Busy, Handling, Continues
<1>8. Orderly(client[c])'
  BY <1>1, <1>3, <1>4, <1>5, <1>6, <1>7 DEF Orderly, Whole, Continues, Busy, Handling, Uploading
<1> QED BY <1>1, <1>2, <1>5, <1>6, <1>7, <1>8, OrderlyKept

LEMMA WrittenOrderly ==
  ASSUME NEW c, Clients = {c}, SemInv, WholeInv, OrderlyInv, CopyStatus(c) \/ WriteRows(c)
  PROVE  OrderlyInv'
<1>1. /\ client[c].pc \in {"copy", "rows"} /\ client[c].pc \in Uploading /\ client[c].pc \in Handling
      /\ UNCHANGED <<alias, index, manifest>>
      /\ client' = [client EXCEPT ![c] = Accepted(c, client[c].reused)]
  BY DEF CopyStatus, WriteRows, At, Then, Uploading, Handling, memory
<1>2. PICK f \in Fps : f = client[c].fp
  BY <1>1, UploadStands
<1>3. /\ Orderly(client[c]) /\ UploadIsOpen(client[c]) /\ client[c].own = NoRecord
      /\ client[c].base \in Fps \cup {NoFp} /\ client[c].base # f
      /\ client[c].base # NoFp => Settled(client[c].base)
  BY <1>1, <1>2, UploadStands
<1>4. /\ index[f] # NoRecord /\ rows[f] = <<>> /\ (client[c].base # NoFp => client[c].reused)
      /\ index[f].ready /\ Whole(f, index[f].docs)
  BY <1>1, <1>2, <1>3 DEF Orderly, Busy, Handling
<1>5. client'[c].pc = "finalized"
  BY <1>1, <1>3, <1>4, AcceptedAs DEF UploadIsOpen
<1>6. Orderly(client[c])'
  BY <1>5 DEF Orderly, Busy, Uploading, Handling
<1>7. CASE CopyStatus(c)
  <2>1. client[c].pc = "copy" /\ UNCHANGED rows /\ status' = [status EXCEPT ![f] = client[c].copy]
    BY <1>2, <1>7 DEF CopyStatus, At
  <2>2. status'[f] = client[c].copy /\ \A g \in Fps : g # f => status'[g] = status[g]
    BY <2>1 DEF SemInv, StoresFit
  <2>3. status[f] = NoFile /\ alias[f] = client[c].base /\ client[c].copy = status[client[c].base]
    BY <1>2, <1>3, <2>1 DEF Orderly, Busy, Handling
  <2>4. client[c].base \in Fps /\ status[client[c].base] # NoFile
    BY <1>3, <2>1, OnlyInspection, SettledReads DEF ClientFits
  <2>5. Sealed(f)'
    BY <1>2, <1>3, <1>4, <2>1, <2>2 DEF UploadIsOpen, Sealed, Whole
  <2>6. RowsFollow(f)'
    BY <1>1, <1>3, <1>4, <2>1, <2>2, <2>3, <2>4 DEF RowsFollow
  <2>7. Settled(f)'
    BY <1>1, <1>4, <2>5, <2>6 DEF Settled, Whole
  <2> QED BY <1>1, <1>2, <1>4, <1>6, <2>1, <2>2, <2>3, <2>7, OrderlyKept
<1>8. CASE WriteRows(c)
  <2>1. client[c].pc = "rows" /\ UNCHANGED status /\ rows' = [rows EXCEPT ![f] = index[f].rows]
    BY <1>2, <1>3, <1>8 DEF WriteRows, At, Held
  <2>2. rows'[f] = index[f].rows /\ \A g \in Fps : g # f => rows'[g] = rows[g]
    BY <2>1 DEF SemInv, DataFits
  <2>3. status[f] = StatusFile(index[f].ready, index[f].docs)
    BY <1>2, <1>3, <2>1 DEF UploadIsOpen
  <2>4. status[f].ready = index[f].ready /\ status[f].ids = index[f].docs
    BY <2>3 DEF StatusFile
  <2>5. index[f].rows = <<>> \/ index[f].rows = index[f].docs
    BY DEF SemInv, StoresFit, RecordFits
  <2>6. alias[f] = NoFp
    BY <1>2, <1>3, <2>1 DEF Orderly, Busy, Handling
  <2>7. Settled(f)'
    BY <1>1, <1>4, <2>1, <2>2, <2>4, <2>5, <2>6 DEF Settled, Sealed, Whole, RowsFollow
  <2> QED BY <1>1, <1>2, <1>4, <1>6, <2>1, <2>2, <2>7, OrderlyKept
<1> QED BY <1>7, <1>8

\* A search leaves the documents of the records and the files as they are.
LEMMA SearchOrderly ==
  ASSUME NEW c, Clients = {c}, SemInv, FreshInv, OrderlyInv, SearchRecord(c) \/ SearchRebuilt(c)
  PROVE  OrderlyInv'
<1>1. client[c].pc = "search" /\ UNCHANGED <<status, rows, manifest>>
  BY DEF SearchRecord, SearchRebuilt, At, files
<1>2. PICK f \in Fps : f = client[c].fp
  BY <1>1, OnlyInspection DEF ClientFits
<1>3. client'[c].pc = "idle"
  BY EndedAs, AnsweredAs DEF SearchRecord, SearchRebuilt
<1>4. Orderly(client[c])' /\ ~Busy(client[c])
  BY <1>1, <1>3 DEF Orderly, Busy, Uploading, Handling
<1>5. index \in [Fps -> RecordType] /\ alias \in [Fps -> Fps \cup {NoFp}] /\ \A g \in Fps : RecordFits(g, index[g])
      /\ manifest \in Fps \cup {NoFp}
  BY DEF SemInv, StoresFit, DataFits, AliasFits
<1>6. \A g \in Fps : /\ index'[g] = NoRecord <=> index[g] = NoRecord
                     /\ index'[g].ready = index[g].ready /\ index'[g].docs = index[g].docs
                     /\ alias'[g] = alias[g] \/ alias'[g] = NoFp
  <2>1. CASE SearchRecord(c)
    <3>1. UNCHANGED alias
      BY <2>1 DEF SearchRecord, files
    <3>2. CASE UNCHANGED index
      BY <3>1, <3>2
    <3>3. ASSUME NEW s, index' = [index EXCEPT ![f].rows = s], index[f] # NoRecord
          PROVE  \A g \in Fps : /\ index'[g] = NoRecord <=> index[g] = NoRecord
                                /\ index'[g].ready = index[g].ready /\ index'[g].docs = index[g].docs
      <4>1. index'[f] = [index[f] EXCEPT !.rows = s] /\ \A g \in Fps : g # f => index'[g] = index[g]
        BY <1>5, <3>3
      <4>2. index'[f] # NoRecord
        BY <1>5, <3>3, <4>1, RecordsAre DEF RecordFits
      <4>3. index'[f].ready = index[f].ready /\ index'[f].docs = index[f].docs
        BY <1>5, <4>1 DEF RecordType
      <4> QED BY <3>3, <4>1, <4>2, <4>3
    <3>4. index[f] # NoRecord /\ (UNCHANGED index \/ \E s : index' = [index EXCEPT ![f].rows = s])
      BY <1>2, <2>1 DEF SearchRecord
    <3> QED BY <3>1, <3>2, <3>3, <3>4
  <2>2. CASE SearchRebuilt(c)
    <3>1. index[f] = NoRecord /\ LoadIndex(f)
          /\ index' = [index EXCEPT ![f] = [IndexOf(f) EXCEPT !.rows = IndexOf(f).docs]]
      BY <1>2, <2>2 DEF SearchRebuilt
    <3>2. IndexOf(f) = NoRecord
      BY <3>1, FreshReads
    <3>3. [NoRecord EXCEPT !.rows = NoRecord.docs] = NoRecord
      BY DEF NoRecord
    <3>4. \A g \in Fps : index'[g] = index[g]
      BY <1>5, <3>1, <3>2, <3>3
    <3> QED BY <3>1, <3>4, LoadIndexDrops
  <2> QED BY <2>1, <2>2
<1>7. ASSUME NEW g \in Fps
      PROVE  index'[g] = NoRecord \/ Settled(g)'
  <2>1. CASE index[g] = NoRecord
    BY <1>6, <2>1
  <2>2. CASE Settled(g)
    BY <1>1, <1>5, <1>6, <2>2, SettledKept
  <2> QED BY <1>4, <2>1, <2>2 DEF OrderlyInv
<1>8. manifest' # NoFp => index'[manifest'] # NoRecord
  BY <1>1, <1>5, <1>6 DEF OrderlyInv
<1> QED BY <1>4, <1>7, <1>8 DEF OrderlyInv

\* Without a fault uploads stay in order.
LEMMA OrderlyStep ==
  ASSUME NEW c, Clients = {c}, SemInv, SemInv', WholeInv, FreshInv, OrderlyInv,
         [Next]_vars, UNCHANGED faults
  PROVE  OrderlyInv'
<1>1. ~SearchFiles(c)
  <2> SUFFICES ASSUME SearchFiles(c) PROVE FALSE
    OBVIOUS
  <2>1. client[c].fp \in Fps /\ index[client[c].fp] = NoRecord
        /\ (found[client[c].fp].ids # <<>> \/ StatusOf(client[c].fp).ready)
    BY OnlyInspection DEF SearchFiles, At, ClientFits
  <2> QED BY <2>1, FreshReads DEF NoFile, FreshInv
<1>2. CASE UNCHANGED vars
  BY <1>2, QuietOrderly DEF vars, OrderlyInv, Orderly, Busy, Whole
<1>3. ASSUME NEW kind, Strike(kind) PROVE faults' # faults
  BY <1>3 DEF Strike, SemInv, DataFits
<1>4. CASE ServiceStep(c)
  BY <1>1, <1>4, OpenOrderly, EmbedOrderly, MergeOrderly, WriteAliasOrderly, WriteStatusOrderly,
     WrittenOrderly, SearchOrderly DEF ServiceStep
<1>5. ASSUME NEW d \in Clients, EmbedFails(d) \/ Kill(d) PROVE faults' # faults
  BY <1>3, <1>5 DEF EmbedFails, Kill
<1>6. CASE Restart("restart") \/ Restart("loss")
  BY <1>3, <1>6 DEF Restart
<1> QED BY <1>2, <1>4, <1>5, <1>6, BeginOrderly, ClientStepOrderly DEF Next

-----------------------------------------------------------------------------
(* After the restart.                                                      *)

LEMMA ChainWithin ==
  ASSUME NEW S \in SUBSET Fps, NEW f \in S, NEW pass, \A h \in S \cap pass : alias[h] \in S
  PROVE  Chain(f, pass) \subseteq S
BY DEF Chain

LEMMA NothingAgrees == \A s : Agree(<<>>, s) /\ Agree(s, <<>>) /\ Agree(s, s)
BY DEF Agree

\* The file of rows a search of f finds is the one its ids were written with.
LEMMA RecoveredReads ==
  ASSUME SemInv, NEW safe \in SUBSET Fps, RecoveredInv(safe), NEW f \in Fps, index[f] = NoRecord
  PROVE  Agree(StatusOf(f).ids, RowsOf(f))
<1> DEFINE files_ == {g \in Fps : status[g] = NoFile /\ alias[g] # NoFp}
           rows_ == {g \in Fps : rows[g] = <<>> /\ alias[g] # NoFp /\ ~Faiss}
           alike(g) == {h \in safe : status[h].ids = status[g].ids}
<1>1. alias \in [Fps -> Fps \cup {NoFp}] /\ NoFp \notin Fps
  BY ConstantsFit DEF SemInv, StoresFit, AliasFits
<1>2. ASSUME NEW g \in safe, NEW h \in alike(g) \cap rows_ PROVE alias[h] \in alike(g)
  BY <1>2 DEF RecoveredInv
<1>3. ASSUME NEW g \in safe, NEW h \in alike(g) PROVE rows[h] \in {<<>>, status[g].ids}
  BY <1>3 DEF RecoveredInv
<1>4. ASSUME NEW S \in SUBSET Fps, NEW ids, Chain(f, rows_) \subseteq S,
             \A h \in S : rows[h] \in {<<>>, ids}
      PROVE  RowsOf(f) \in {<<>>, ids}
  <2> DEFINE ends == Ends(f, rows_)
  <2>1. RowsOf(f) = IF ends = {} THEN <<>> ELSE rows[CHOOSE g \in ends : TRUE]
    BY DEF RowsOf
  <2>2. ends \subseteq S
    BY <1>4 DEF Ends
  <2> HIDE DEF ends
  <2>3. CASE ends = {}
    BY <2>1, <2>3
  <2>4. CASE ends # {}
    <3>1. (CHOOSE g \in ends : TRUE) \in ends
      BY <2>4
    <3> QED BY <1>4, <2>1, <2>2, <2>4, <3>1
  <2> QED BY <2>3, <2>4
<1>5. CASE f \in safe
  <2>1. status[f] # NoFile
    BY <1>5 DEF RecoveredInv, Sealed, NoFile
  <2>2. StatusOf(f) = status[f]
    BY <2>1, StatusOfOwn
  <2>3. alike(f) \in SUBSET Fps /\ f \in alike(f)
    BY <1>5
  <2>4. Chain(f, rows_) \subseteq alike(f)
    <3>1. \A h \in alike(f) \cap rows_ : alias[h] \in alike(f)
      BY <1>2, <1>5
    <3> HIDE DEF alike, rows_
    <3> QED BY <2>3, <3>1, ChainWithin
  <2>5. \A h \in alike(f) : rows[h] \in {<<>>, status[f].ids}
    BY <1>3, <1>5
  <2>6. RowsOf(f) \in {<<>>, status[f].ids}
    <3> HIDE DEF alike, rows_
    <3> QED BY <1>4, <2>3, <2>4, <2>5
  <2> QED BY <2>2, <2>6, NothingAgrees
<1>6. CASE f \notin safe
  <2>1. status[f] = NoFile /\ rows[f] = <<>> /\ alias[f] \in safe \cup {NoFp}
    BY <1>6 DEF RecoveredInv
  <2>2. CASE alias[f] = NoFp
    <3>1. StatusOf(f) = NoFile
      BY <2>1, <2>2, StatusOfOwn
    <3> QED BY <3>1, NothingAgrees DEF NoFile
  <2>3. CASE alias[f] \in safe
    <3> DEFINE g == alias[f]
    <3>1. g \in safe /\ g \in Fps /\ status[g] # NoFile
      BY <2>3 DEF RecoveredInv, Sealed, NoFile
    <3>2. StatusOf(f) \in {NoFile, status[g]}
      <4> DEFINE ends == Ends(f, files_)
      <4>1. StatusOf(f) = IF ends = {} THEN NoFile ELSE status[CHOOSE h \in ends : TRUE]
        BY DEF StatusOf
      <4>2. Chain(f, files_) \subseteq {f, g}
        <5>1. \A h \in {f, g} \cap files_ : alias[h] \in {f, g}
          BY <3>1
        <5> HIDE DEF g, files_
        <5> QED BY <3>1, <5>1, ChainWithin
      <4>3. ends \subseteq {g}
        <5>1. f \in files_
          BY <1>1, <2>1, <3>1
        <5> HIDE DEF g, files_
        <5> QED BY <4>2, <5>1 DEF Ends
      <4> HIDE DEF ends, g
      <4>4. CASE ends = {}
        BY <4>1, <4>4
      <4>5. CASE ends # {}
        <5>1. (CHOOSE h \in ends : TRUE) \in ends
          BY <4>5
        <5> QED BY <4>1, <4>3, <4>5, <5>1
      <4> QED BY <4>4, <4>5
    <3>3. RowsOf(f) \in {<<>>, status[g].ids}
      <4> DEFINE S == {f} \cup alike(g)
      <4>1. S \in SUBSET Fps /\ f \in S /\ g \in S
        BY <3>1
      <4>2. \A h \in S \cap rows_ : alias[h] \in S
        <5> SUFFICES ASSUME NEW h \in S \cap rows_ PROVE alias[h] \in S
          OBVIOUS
        <5>1. CASE h = f
          BY <4>1, <5>1
        <5>2. CASE h \in alike(g)
          BY <1>2, <3>1, <5>2
        <5> QED BY <5>1, <5>2
      <4>3. \A h \in S : rows[h] \in {<<>>, status[g].ids}
        BY <1>3, <2>1, <3>1
      <4> HIDE DEF S, rows_, g
      <4>4. Chain(f, rows_) \subseteq S
        BY <4>1, <4>2, ChainWithin
      <4> QED BY <1>4, <4>1, <4>3, <4>4
    <3> HIDE DEF g
    <3> QED BY <3>2, <3>3, NothingAgrees DEF NoFile
  <2> QED BY <2>1, <2>2, <2>3
<1> QED BY <1>5, <1>6

\* What a restart finds on disk is what was ready, and what an upload left.
LEMMA RestartRecovers ==
  ASSUME NEW c, Clients = {c}, SemInv, WholeInv, FreshInv, OrderlyInv, Restart("restart")
  PROVE  \E safe \in SUBSET Fps : RecoveredInv(safe)'
<1>1. PICK safe \in SUBSET Fps : safe = {f \in Fps : status[f] # NoFile}
  OBVIOUS
<1>2. /\ UNCHANGED <<status, rows, alias>>
      /\ \A f \in Fps : index'[f] = NoRecord /\ found'[f].ids = <<>>
  BY DEF Restart, files
<1>3. /\ client'[c].pc \notin Handling
      /\ client'[c].pc = "open" => client'[c].fp = client[c].fp /\ client[c].pc = "open" /\ client'[c].fp \in Fps
  <2> DEFINE r == [Idle EXCEPT !.fp = client[c].fp, !.out = "degraded"]
  <2>1. client'[c] = r \/ (client'[c] = client[c] /\ client[c].pc \notin Handling)
    BY OnlyInspection DEF Restart, Holds, Handling
  <2>2. r.pc = "idle"
    BY DEF Idle
  <2> HIDE DEF r
  <2> QED BY <2>1, <2>2, OnlyInspection DEF Handling, ClientFits
<1>4. ASSUME NEW f \in Fps, status[f] # NoFile
      PROVE  /\ Sealed(f) /\ rows[f] \in {<<>>, status[f].ids}
             /\ alias[f] = NoFp \/ (status[alias[f]] # NoFile /\ status[alias[f]].ids = status[f].ids)
  <2>1. Settled(f) \/ (Busy(client[c]) /\ client[c].fp = f)
    BY <1>4 DEF FreshInv, Untouched, OrderlyInv
  <2>2. CASE Settled(f)
    BY <2>2 DEF Settled, RowsFollow
  <2>3. CASE Busy(client[c]) /\ client[c].fp = f
    <3>1. Orderly(client[c]) /\ UploadIsOpen(client[c])
      BY OnlyInspection DEF OrderlyInv, WholeInv, InspectionWhole
    <3>2. client[c].pc = "rows"
      BY <1>4, <2>3, <3>1 DEF Orderly
    <3>3. rows[f] = <<>> /\ alias[f] = NoFp /\ index[f].ready /\ Whole(f, index[f].docs)
      BY <2>3, <3>1, <3>2 DEF Orderly
    <3>4. status[f] = StatusFile(index[f].ready, index[f].docs)
      BY <2>3, <3>1, <3>2 DEF UploadIsOpen
    <3> QED BY <3>3, <3>4 DEF Sealed, StatusFile
  <2> QED BY <2>1, <2>2, <2>3
<1>5. ASSUME NEW f \in Fps, status[f] = NoFile
      PROVE  rows[f] = <<>> /\ (alias[f] = NoFp \/ status[alias[f]] # NoFile)
  <2>1. \/ Untouched(f) \/ Settled(f) \/ (Busy(client[c]) /\ client[c].fp = f)
    BY DEF FreshInv, OrderlyInv
  <2>2. CASE Settled(f)
    BY <1>5, <2>2 DEF Settled, Sealed, NoFile
  <2>3. CASE Busy(client[c]) /\ client[c].fp = f
    <3>1. client[c].pc \in Uploading
      BY <2>3 DEF Busy, Uploading
    <3>2. Orderly(client[c]) /\ client[c].base # NoFp => Settled(client[c].base)
      BY <3>1, UploadStands
    <3>3. rows[f] = <<>> /\ alias[f] = (IF client[c].pc = "copy" THEN client[c].base ELSE NoFp)
      BY <2>3, <3>1, UploadStands DEF Orderly
    <3>4. client[c].base # NoFp => status[client[c].base] # NoFile
      BY <3>1, UploadStands, SettledReads
    <3> QED BY <3>3, <3>4
  <2> QED BY <2>1, <2>2, <2>3 DEF Untouched
<1>6. client[c].pc = "open" => status[client[c].fp] = NoFile
  <2> SUFFICES ASSUME client[c].pc = "open" PROVE status[client[c].fp] = NoFile
    OBVIOUS
  <2>1. client[c].fp \in Fps /\ Orderly(client[c])
    BY UploadStands DEF Uploading
  <2>2. CASE client[c].first
    BY <2>1, <2>2 DEF Orderly, FreshInv, Untouched
  <2>3. CASE ~client[c].first
    BY <2>1, <2>3 DEF Orderly, Busy
  <2> QED BY <2>2, <2>3
<1>7. alias \in [Fps -> Fps \cup {NoFp}]
  BY DEF SemInv, StoresFit, AliasFits
<1>8. ASSUME NEW f \in safe
      PROVE  (/\ Sealed(f) /\ rows[f] \in {<<>>, status[f].ids}
              /\ index[f] = NoRecord \/ (index[f].ready /\ Whole(f, index[f].docs))
              /\ alias[f] = NoFp \/ (alias[f] \in safe /\ status[alias[f]].ids = status[f].ids))'
  BY <1>1, <1>2, <1>4, <1>7 DEF Sealed
<1>9. ASSUME NEW f \in Fps \ safe
      PROVE  (status[f] = NoFile /\ rows[f] = <<>> /\ alias[f] \in safe \cup {NoFp})'
  BY <1>1, <1>2, <1>5, <1>7
<1>10. \A f \in Fps : Agree(found[f].ids, found[f].rows)'
  BY <1>2, NothingAgrees DEF Agree
<1>11. /\ client'[c].pc \in Uploading => client'[c].fp \notin safe
       /\ client'[c].pc \notin Handling
  BY <1>1, <1>3, <1>6 DEF Uploading
<1>12. RecoveredInv(safe)'
  BY <1>8, <1>9, <1>10, <1>11 DEF RecoveredInv
<1> QED BY <1>12

LEMMA RecoveredKept ==
  ASSUME NEW c, Clients = {c}, SemInv, NEW safe \in SUBSET Fps, RecoveredInv(safe),
         \A f \in Fps : f \in safe \/ index'[f] = NoRecord =>
                           /\ status'[f] = status[f] /\ rows'[f] = rows[f]
                           /\ alias'[f] = alias[f] \/ alias'[f] = NoFp,
         \A f \in safe : index'[f] = NoRecord \/ (index'[f].ready /\ Whole(f, index'[f].docs)),
         \A f \in Fps \ safe : index'[f] = NoRecord => index[f] = NoRecord,
         \A f \in Fps : index'[f] = NoRecord => Agree(found'[f].ids, found'[f].rows),
         client'[c].pc \in Uploading => client'[c].fp \notin safe,
         client'[c].pc \in Handling => index'[client'[c].fp] # NoRecord
  PROVE  RecoveredInv(safe)'
<1>1. alias \in [Fps -> Fps \cup {NoFp}]
  BY DEF SemInv, StoresFit, AliasFits
<1>2. ASSUME NEW f \in safe
      PROVE  (/\ Sealed(f) /\ rows[f] \in {<<>>, status[f].ids}
              /\ index[f] = NoRecord \/ (index[f].ready /\ Whole(f, index[f].docs))
              /\ alias[f] = NoFp \/ (alias[f] \in safe /\ status[alias[f]].ids = status[f].ids))'
  BY <1>1, <1>2 DEF RecoveredInv, Sealed, Whole
<1>3. ASSUME NEW f \in Fps \ safe, index'[f] = NoRecord
      PROVE  (status[f] = NoFile /\ rows[f] = <<>> /\ alias[f] \in safe \cup {NoFp})'
  BY <1>3 DEF RecoveredInv
<1> QED BY <1>2, <1>3 DEF RecoveredInv, Agree

\* A state of the repository that was ready is not uploaded again.
LEMMA SafeIsReady ==
  ASSUME SemInv, NEW safe \in SUBSET Fps, RecoveredInv(safe), NEW f \in safe
  PROVE  IsReady(f)
<1>1. Sealed(f) /\ (index[f] = NoRecord \/ (index[f].ready /\ Whole(f, index[f].docs)))
  BY DEF RecoveredInv
<1>2. StatusOf(f) = status[f]
  BY <1>1, StatusOfOwn DEF Sealed, NoFile
<1>3. List(f, Docs[f]) /\ List(f, status[f].ids) /\ List(f, index[f].docs)
  BY ConstantsFit DEF SemInv, StoresFit, FileFits, RecordFits
<1>4. /\ Whole(f, status[f].ids) => Len(status[f].ids) = Len(Docs[f])
      /\ Whole(f, index[f].docs) => Len(index[f].docs) = Len(Docs[f])
  BY <1>3, CountDecides DEF List, Whole
<1> QED BY <1>1, <1>2, <1>4 DEF IsReady, Sealed

\* What _get_index makes of the files.
LEMMA RebuiltIs ==
  ASSUME SemInv, NEW safe \in SUBSET Fps, RecoveredInv(safe), NEW f \in Fps, index[f] = NoRecord
  PROVE  /\ f \in safe => IndexOf(f) = NoRecord \/ IndexOf(f) = Record(TRUE, status[f].ids)
         /\ f \notin safe => IndexOf(f) = NoRecord
<1>1. IndexOf(f) = NoRecord \/ (status[f].ready /\ IndexOf(f) = Record(TRUE, status[f].ids))
  BY DEF IndexOf
<1>2. f \notin safe => ~status[f].ready
  BY DEF RecoveredInv, NoFile
<1> QED BY <1>1, <1>2

LEMMA OpenRecovered ==
  ASSUME NEW c, Clients = {c}, SemInv, WholeInv, NEW safe \in SUBSET Fps, RecoveredInv(safe), Open(c)
  PROVE  RecoveredInv(safe)'
<1> DEFINE base == client[c].base
           missing == Batch(c) \ KnownVectors
           local == [Goto(c, IF missing = {} THEN "merge" ELSE "embed") EXCEPT !.missing = missing]
           from == IF base = NoFp THEN NoRecord ELSE IndexOf(base)
           kept == IF from.ready THEN Without(from.docs, client[c].removed) ELSE <<>>
<1>1. client[c].pc \in Uploading /\ UNCHANGED <<status, rows>> /\ c \in Clients
  BY DEF Open, At, Uploading
<1>2. PICK f \in Fps : f = client[c].fp
  BY <1>1, UnderWay
<1>3. /\ base \in Fps \cup {NoFp} /\ index \in [Fps -> RecordType]
      /\ found \in [Fps -> [ids : Seq(Doc), rows : Seq(Doc)]] /\ f \notin safe
      /\ alias \in [Fps -> Fps \cup {NoFp}]
  BY <1>1, <1>2, UnderWay DEF SemInv, StoresFit, DataFits, AliasFits, RecoveredInv
<1>4. client'[c].fp = f /\ client'[c].pc \in {"merge", "embed"}
  BY <1>2, OpenAs DEF Continues
<1>5. /\ index'[f] # NoRecord
      /\ \A g \in Fps : g # f => index'[g] = index[g] \/ (g = base /\ index'[g] = IndexOf(g))
      /\ \A g \in Fps : alias'[g] = alias[g] \/ alias'[g] = NoFp
  <2>1. CASE Replace(c, local)
    <3>1. index' = [g \in Fps |-> IF g = f THEN Record(FALSE, kept) ELSE IF g = base THEN from ELSE index[g]]
      BY <1>2, <2>1 DEF Replace, from, kept
    <3>2. base # NoFp => from = IndexOf(base)
      OBVIOUS
    <3> HIDE DEF from, kept
    <3>3. index'[f] # NoRecord
      BY <3>1, RecordsAre
    <3>4. \A g \in Fps : g # f => index'[g] = index[g] \/ (g = base /\ index'[g] = IndexOf(g))
      BY <3>1, <3>2, ConstantsFit
    <3>5. \A g \in Fps : alias'[g] = alias[g] \/ alias'[g] = NoFp
      BY <2>1, LoadIndexDrops DEF Replace
    <3> QED BY <3>3, <3>4, <3>5
  <2>2. CASE Continue(c, local)
    BY <1>2, <1>3, <2>2, RecordsAre DEF Continue
  <2> QED BY <2>1, <2>2 DEF Open
<1>6. ASSUME NEW g \in safe
      PROVE  index'[g] = NoRecord \/ (index'[g].ready /\ Whole(g, index'[g].docs))
  <2>1. g # f /\ g \in Fps
    BY <1>3
  <2>2. /\ index[g] = NoRecord \/ (index[g].ready /\ Whole(g, index[g].docs))
        /\ status[g].ready /\ Whole(g, status[g].ids)
    BY DEF RecoveredInv, Sealed
  <2>3. IndexOf(g) = NoRecord \/ (IndexOf(g).ready /\ Whole(g, IndexOf(g).docs))
    <3>1. index[g] # NoRecord => IndexOf(g) = index[g]
      BY DEF IndexOf
    <3>2. index[g] = NoRecord => IndexOf(g) = NoRecord \/ IndexOf(g) = Record(TRUE, status[g].ids)
      BY <2>1, RebuiltIs
    <3>3. Record(TRUE, status[g].ids).ready /\ Record(TRUE, status[g].ids).docs = status[g].ids
      BY DEF Record
    <3> QED BY <2>2, <3>1, <3>2, <3>3
  <2> QED BY <1>5, <2>1, <2>2, <2>3
<1>7. ASSUME NEW g \in Fps \ safe, index'[g] = NoRecord
      PROVE  index[g] = NoRecord
  BY <1>5, <1>7 DEF IndexOf
<1>8. ASSUME NEW g \in Fps, index'[g] = NoRecord PROVE Agree(found'[g].ids, found'[g].rows)
  <2>1. g # f
    BY <1>5, <1>8
  <2>2. found'[g] = found[g]
    BY <1>2, <1>3, <2>1 DEF Open
  <2>3. index[g] = NoRecord
    BY <1>5, <1>8, <2>1 DEF IndexOf
  <2> QED BY <2>2, <2>3 DEF RecoveredInv
<1> QED BY <1>1, <1>3, <1>4, <1>5, <1>6, <1>7, <1>8, RecoveredKept

LEMMA SearchRecovered ==
  ASSUME NEW c, Clients = {c}, SemInv, WholeInv, NEW safe \in SUBSET Fps, RecoveredInv(safe),
         SearchRecord(c) \/ SearchFiles(c) \/ SearchRebuilt(c)
  PROVE  RecoveredInv(safe)'
<1>1. client[c].pc = "search" /\ UNCHANGED <<status, rows>>
  BY DEF SearchRecord, SearchFiles, SearchRebuilt, At, files
<1>2. PICK f \in Fps : f = client[c].fp
  BY <1>1, OnlyInspection DEF ClientFits
<1>3. client'[c].pc = "idle"
  BY EndedAs, AnsweredAs DEF SearchRecord, SearchFiles, SearchRebuilt
<1>4. client'[c].pc \notin Uploading /\ client'[c].pc \notin Handling
  BY <1>3 DEF Uploading, Handling
<1>5. /\ index \in [Fps -> RecordType] /\ \A g \in Fps : RecordFits(g, index[g])
      /\ found \in [Fps -> [ids : Seq(Doc), rows : Seq(Doc)]]
  BY DEF SemInv, StoresFit, DataFits
<1>6. /\ \A g \in safe : index[g] = NoRecord \/ (index[g].ready /\ Whole(g, index[g].docs))
      /\ \A g \in Fps : index[g] = NoRecord => Agree(found[g].ids, found[g].rows)
  BY DEF RecoveredInv
<1>7. CASE SearchRecord(c)
  <2>1. UNCHANGED <<alias, found>> /\ index[f] # NoRecord
        /\ (UNCHANGED index \/ \E s : index' = [index EXCEPT ![f].rows = s])
    BY <1>2, <1>7 DEF SearchRecord, files
  <2>2. ASSUME NEW s, index' = [index EXCEPT ![f].rows = s]
        PROVE  \A g \in Fps : /\ index'[g] = NoRecord <=> index[g] = NoRecord
                              /\ index'[g].ready = index[g].ready /\ index'[g].docs = index[g].docs
    <3>1. index'[f] = [index[f] EXCEPT !.rows = s] /\ \A g \in Fps : g # f => index'[g] = index[g]
      BY <1>5, <2>2
    <3>2. index'[f] # NoRecord
      BY <1>5, <2>1, <3>1, RecordsAre DEF RecordFits
    <3>3. index'[f].ready = index[f].ready /\ index'[f].docs = index[f].docs
      BY <1>5, <3>1 DEF RecordType
    <3> QED BY <2>1, <3>1, <3>2, <3>3
  <2>3. \A g \in Fps : /\ index'[g] = NoRecord <=> index[g] = NoRecord
                       /\ index'[g].ready = index[g].ready /\ index'[g].docs = index[g].docs
    BY <2>1, <2>2
  <2> QED BY <1>1, <1>4, <1>6, <2>1, <2>3, RecoveredKept
<1>8. CASE SearchFiles(c)
  <2> DEFINE kept == IF found[f].ids # <<>> THEN found[f] ELSE [ids |-> StatusOf(f).ids, rows |-> RowsOf(f)]
  <2>1. UNCHANGED <<alias, index>> /\ index[f] = NoRecord /\ found' = [found EXCEPT ![f] = kept]
    BY <1>2, <1>8 DEF SearchFiles, files
  <2>2. Agree(kept.ids, kept.rows)
    BY <1>6, <2>1, RecoveredReads
  <2> HIDE DEF kept
  <2>3. \A g \in Fps : index'[g] = NoRecord => Agree(found'[g].ids, found'[g].rows)
    BY <1>5, <1>6, <2>1, <2>2
  <2> QED BY <1>1, <1>4, <1>6, <2>1, <2>3, RecoveredKept
<1>9. CASE SearchRebuilt(c)
  <2> DEFINE rec == [IndexOf(f) EXCEPT !.rows = IndexOf(f).docs]
  <2>1. index[f] = NoRecord /\ LoadIndex(f) /\ index' = [index EXCEPT ![f] = rec] /\ UNCHANGED found
    BY <1>2, <1>9 DEF SearchRebuilt
  <2>2. [NoRecord EXCEPT !.rows = NoRecord.docs] = NoRecord
    BY DEF NoRecord
  <2>3. rec = NoRecord \/ (f \in safe /\ rec.ready /\ Whole(f, rec.docs))
    <3>1. CASE IndexOf(f) = NoRecord
      BY <2>2, <3>1
    <3>2. CASE f \in safe /\ IndexOf(f) = Record(TRUE, status[f].ids)
      <4>1. rec.ready /\ rec.docs = status[f].ids
        BY <3>2 DEF Record
      <4>2. Whole(f, status[f].ids)
        BY <3>2 DEF RecoveredInv, Sealed
      <4> QED BY <3>2, <4>1, <4>2
    <3> QED BY <2>1, <3>1, <3>2, RebuiltIs
  <2> HIDE DEF rec
  <2>4. index'[f] = rec /\ \A g \in Fps : g # f => index'[g] = index[g]
    BY <1>5, <2>1
  <2>5. \A g \in Fps : alias'[g] = alias[g] \/ alias'[g] = NoFp
    BY <2>1, LoadIndexDrops
  <2>6. \A g \in safe : index'[g] = NoRecord \/ (index'[g].ready /\ Whole(g, index'[g].docs))
    BY <1>6, <2>3, <2>4
  <2>7. \A g \in Fps : index'[g] = NoRecord => index[g] = NoRecord
    BY <2>1, <2>4
  <2> QED BY <1>1, <1>4, <1>6, <2>1, <2>5, <2>6, <2>7, RecoveredKept
<1> QED BY <1>7, <1>8, <1>9

\* The other steps of an upload change what belongs to its own fingerprint.
LEMMA UploadRecovered ==
  ASSUME NEW c, Clients = {c}, SemInv, WholeInv, NEW safe \in SUBSET Fps, RecoveredInv(safe),
         Embed(c) \/ Store(c) \/ Merge(c) \/ WriteAlias(c) \/ CopyStatus(c) \/ WriteStatus(c) \/ WriteRows(c)
  PROVE  RecoveredInv(safe)'
<1>1. client[c].pc \in Handling /\ client[c].pc \in Uploading /\ c \in Clients /\ UNCHANGED found
  BY DEF Embed, Store, Merge, WriteAlias, CopyStatus, WriteStatus, WriteRows, At, Handling, Uploading, memory
<1>2. PICK f \in Fps : f = client[c].fp
  BY <1>1, UnderWay
<1>3. f \notin safe /\ index[f] # NoRecord /\ client[c].own = NoRecord
  BY <1>1, <1>2 DEF RecoveredInv, WholeInv, InspectionWhole
<1>4. client'[c].fp = f
  <2>1. CASE CopyStatus(c) \/ WriteRows(c)
    BY <1>1, <1>2, <2>1, AcceptedAs DEF CopyStatus, WriteRows, Then
  <2> QED BY <1>2, <1>3, <2>1, EmbedAs, MergeAs, WriteAliasAs, WriteStatusAs DEF Continues
<1>5. /\ \A g \in Fps : g # f => /\ index'[g] = index[g] /\ status'[g] = status[g]
                                 /\ rows'[g] = rows[g] /\ alias'[g] = alias[g]
      /\ index'[f] # NoRecord
  <2>1. CASE Embed(c) \/ Store(c)
    BY <1>3, <2>1 DEF Embed, Store, files, memory
  <2>2. CASE Merge(c)
    <3>1. PICK rec : index' = [index EXCEPT ![f] = rec] /\ rec # NoRecord
      BY <1>2, <1>3, <2>2, MergeRecord
    <3>2. UNCHANGED files
      BY <2>2 DEF Merge
    <3> QED BY <3>1, <3>2 DEF SemInv, StoresFit, files
  <2>3. CASE WriteAlias(c)
    BY <1>2, <1>3, <2>3 DEF WriteAlias, memory, SemInv, StoresFit, AliasFits
  <2>4. CASE CopyStatus(c) \/ WriteStatus(c)
    BY <1>2, <1>3, <2>4 DEF CopyStatus, WriteStatus, memory, SemInv, StoresFit, AliasFits
  <2>5. CASE WriteRows(c)
    BY <1>2, <1>3, <2>5 DEF WriteRows, memory, SemInv, DataFits
  <2> QED BY <2>1, <2>2, <2>3, <2>4, <2>5
<1>6. /\ \A g \in safe : index[g] = NoRecord \/ (index[g].ready /\ Whole(g, index[g].docs))
      /\ \A g \in Fps : index[g] = NoRecord => Agree(found[g].ids, found[g].rows)
  BY DEF RecoveredInv
<1>7. \A g \in safe : index'[g] = NoRecord \/ (index'[g].ready /\ Whole(g, index'[g].docs))
  BY <1>3, <1>5, <1>6
<1>8. \A g \in Fps : index'[g] = NoRecord => index[g] = NoRecord /\ g # f
  BY <1>5
<1>9. \A g \in Fps : index'[g] = NoRecord => Agree(found'[g].ids, found'[g].rows)
  BY <1>1, <1>6, <1>8
<1> QED BY <1>3, <1>4, <1>5, <1>7, <1>8, <1>9, RecoveredKept

LEMMA RecoveredStep ==
  ASSUME NEW c, Clients = {c}, SemInv, WholeInv, NEW safe \in SUBSET Fps, RecoveredInv(safe),
         [Next]_vars, UNCHANGED faults
  PROVE  RecoveredInv(safe)'
<1>1. ASSUME UNCHANGED <<status, rows, alias, index, found>>,
             client'[c].pc \in Uploading => client'[c].fp \notin safe,
             client'[c].pc \in Handling => client[c].pc \in Handling /\ client'[c].fp = client[c].fp
      PROVE  RecoveredInv(safe)'
  BY <1>1 DEF RecoveredInv, Sealed, Whole, Agree
<1>2. ASSUME NEW kind, Strike(kind) PROVE FALSE
  BY <1>2 DEF Strike, SemInv, DataFits
<1>3. CASE UNCHANGED vars
  BY <1>1, <1>3 DEF vars, RecoveredInv
<1>4. ASSUME NEW f \in Fps, Begin(c, f) PROVE RecoveredInv(safe)'
  <2> DEFINE r == [Idle EXCEPT !.pc = "status", !.fp = f, !.base = IF manifest = f THEN NoFp ELSE manifest]
  <2>1. client' = [client EXCEPT ![c] = r]
    BY <1>4 DEF Begin, Then
  <2>2. r.pc = "status"
    BY DEF Idle
  <2> HIDE DEF r
  <2>3. client'[c].pc = "status"
    BY <2>1, <2>2, OnlyInspection
  <2> QED BY <1>1, <1>4, <2>3 DEF Begin, ServiceAlone, files, memory, Handling, Uploading
<1>5. CASE ClientStep(c)
  <2> DEFINE full == FullUpload(c)
             delta == DeltaUpload(c)
             go(pc) == Goto(c, pc)
  <2>1. \/ client' = [client EXCEPT ![c] = go("manifest")] \/ client' = [client EXCEPT ![c] = go("search")]
        \/ End(c, "degraded")
        \/ /\ client' = [client EXCEPT ![c] = full] \/ client' = [client EXCEPT ![c] = delta]
           /\ ~IsReady(client[c].fp)
    BY <1>5 DEF ClientStep, CheckStatus, CheckFinalized, WriteManifest, Then
  <2>2. /\ full.pc = "open" /\ delta.pc = "open" /\ full.fp = client[c].fp /\ delta.fp = client[c].fp
    BY UploadAs
  <2>3. go("manifest").pc = "manifest" /\ go("search").pc = "search"
    BY OnlyInspection DEF Goto, ClientType
  <2> HIDE DEF full, delta, go
  <2>4. /\ client'[c].pc \notin Handling
        /\ client'[c].pc \in Uploading => client'[c].fp = client[c].fp /\ ~IsReady(client[c].fp)
    BY <2>1, <2>2, <2>3, EndedAs, OnlyInspection DEF Handling, Uploading
  <2>5. client'[c].pc \in Uploading => client'[c].fp \notin safe
    BY <2>4, SafeIsReady
  <2> QED BY <1>1, <1>5, <2>4, <2>5 DEF ClientStep, CheckStatus, CheckFinalized, WriteManifest, ServiceAlone,
             files, memory
<1>6. CASE ServiceStep(c)
  BY <1>6, OpenRecovered, SearchRecovered, UploadRecovered DEF ServiceStep
<1>7. ASSUME NEW d \in Clients, EmbedFails(d) \/ Kill(d) PROVE FALSE
  BY <1>2, <1>7 DEF EmbedFails, Kill
<1>8. CASE Restart("restart") \/ Restart("loss")
  BY <1>2, <1>8 DEF Restart
<1> QED BY <1>3, <1>4, <1>5, <1>6, <1>7, <1>8 DEF Next

-----------------------------------------------------------------------------
(* The answers.                                                            *)

LEMMA PairsAligned ==
  ASSUME NEW s, NEW t, Agree(s, t)
  PROVE  \A p \in Pairs(s, t) : p[1] = p[2]
BY DEF Agree, Pairs

LEMMA AnswersAligned ==
  ASSUME NEW c, Clients = {c}, SemInv, WholeInv, AnswerIsAligned, [Next]_vars,
         \A f \in Fps : index[f] = NoRecord =>
             Agree(found[f].ids, found[f].rows) /\ Agree(StatusOf(f).ids, RowsOf(f))
  PROVE  AnswerIsAligned'
<1>1. /\ c \in Clients /\ client[c] \in ClientType /\ client[c].own = NoRecord
      /\ \A p \in client[c].answer : p[1] = p[2]
  BY OnlyInspection DEF WholeInv, InspectionWhole, AnswerIsAligned
<1>2. ASSUME \A p \in client'[c].answer : p[1] = p[2] PROVE AnswerIsAligned'
  BY <1>2 DEF AnswerIsAligned
<1>3. ASSUME client'[c].answer = {} \/ client'[c].answer = client[c].answer PROVE AnswerIsAligned'
  BY <1>1, <1>2, <1>3
<1>4. ASSUME NEW pairs, \A p \in pairs : p[1] = p[2], Answered(c, pairs) PROVE AnswerIsAligned'
  BY <1>2, <1>4, AnsweredAs
<1>5. ASSUME NEW f \in Fps, Begin(c, f) PROVE AnswerIsAligned'
  <2> DEFINE r == [Idle EXCEPT !.pc = "status", !.fp = f, !.base = IF manifest = f THEN NoFp ELSE manifest]
  <2>1. client' = [client EXCEPT ![c] = r]
    BY <1>5 DEF Begin, Then
  <2>2. r.answer = {}
    BY DEF Idle
  <2> HIDE DEF r
  <2> QED BY <1>3, <2>1, <2>2, OnlyInspection
<1>6. CASE ClientStep(c)
  <2> DEFINE full == FullUpload(c)
             delta == DeltaUpload(c)
             go(pc) == Goto(c, pc)
  <2>1. \/ client' = [client EXCEPT ![c] = go("manifest")] \/ client' = [client EXCEPT ![c] = go("search")]
        \/ End(c, "degraded")
        \/ client' = [client EXCEPT ![c] = full] \/ client' = [client EXCEPT ![c] = delta]
    BY <1>6 DEF ClientStep, CheckStatus, CheckFinalized, WriteManifest, Then
  <2>2. /\ full.answer = client[c].answer /\ delta.answer = client[c].answer
        /\ \A pc : go(pc).answer = client[c].answer
    BY <1>1 DEF FullUpload, DeltaUpload, Goto, ClientType
  <2> HIDE DEF full, delta, go
  <2> QED BY <1>3, <2>1, <2>2, EndedAs, OnlyInspection
<1>7. CASE Open(c) \/ Embed(c) \/ Store(c) \/ WriteAlias(c) \/ WriteStatus(c)
  BY <1>3, <1>7, OpenAs, EmbedAs, WriteAliasAs, WriteStatusAs DEF Continues
<1>8. CASE Merge(c) \/ CopyStatus(c) \/ WriteRows(c)
  <2>1. client[c].pc \in Handling
    BY <1>8 DEF Merge, CopyStatus, WriteRows, At, Handling
  <2>2. \/ client' = [client EXCEPT ![c] = Accepted(c, client[c].reused)]
        \/ Continues(client[c], client'[c])
    BY <1>1, <1>8, MergeAs DEF CopyStatus, WriteRows, Then
  <2> QED BY <1>3, <2>1, <2>2, AcceptedAs DEF Continues
<1>9. CASE SearchRecord(c)
  BY <1>3, <1>4, <1>9, EndedAs, NothingAgrees, PairsAligned DEF SearchRecord
<1>10. CASE SearchFiles(c)
  <2> DEFINE f == client[c].fp
             kept == IF found[f].ids # <<>> THEN found[f] ELSE [ids |-> StatusOf(f).ids, rows |-> RowsOf(f)]
  <2>1. f \in Fps /\ index[f] = NoRecord
    BY <1>10, OnlyInspection DEF SearchFiles, At, ClientFits
  <2>2. Agree(kept.ids, kept.rows)
    BY <2>1
  <2>3. End(c, "degraded") \/ \E some \in SUBSET Pairs(kept.ids, kept.rows) : Answered(c, some)
    <3>1. \/ End(c, "degraded")
          \/ \E some \in IF Len(kept.rows) > Len(kept.ids) /\ Faiss
                         THEN SUBSET Pairs(kept.ids, kept.rows) ELSE {Pairs(kept.ids, kept.rows)} :
                  Answered(c, some)
      BY <1>10 DEF SearchFiles
    <3> HIDE DEF kept
    <3> QED BY <3>1
  <2> HIDE DEF kept
  <2> QED BY <1>3, <1>4, <2>2, <2>3, EndedAs, PairsAligned
<1>11. CASE SearchRebuilt(c)
  BY <1>4, <1>11, NothingAgrees, PairsAligned DEF SearchRebuilt
<1>12. ASSUME NEW d \in Clients, EmbedFails(d) \/ Kill(d) PROVE AnswerIsAligned'
  BY <1>3, <1>12, EndedAs DEF EmbedFails, Kill
<1>13. ASSUME NEW kind, Restart(kind) PROVE AnswerIsAligned'
  <2> DEFINE r == [Idle EXCEPT !.fp = client[c].fp, !.out = "degraded"]
  <2>1. client'[c] = r \/ client'[c] = client[c]
    BY <1>1, <1>13 DEF Restart
  <2>2. r.answer = {}
    BY DEF Idle
  <2> HIDE DEF r
  <2> QED BY <1>3, <2>1, <2>2
<1>14. CASE UNCHANGED vars
  BY <1>3, <1>14 DEF vars
<1> QED BY <1>5, <1>6, <1>7, <1>8, <1>9, <1>10, <1>11, <1>12, <1>13, <1>14 DEF Next, ServiceStep

LEMMA FaultsCount ==
  ASSUME NEW c, Clients = {c}, [Next]_vars
  PROVE  UNCHANGED faults \/ (faults < MaxFaults /\ faults' = faults + 1)
<1>1. ASSUME NEW kind, Strike(kind) PROVE faults < MaxFaults /\ faults' = faults + 1
  BY <1>1 DEF Strike
<1>2. ASSUME NEW d \in Clients, EmbedFails(d) \/ Kill(d) PROVE faults < MaxFaults /\ faults' = faults + 1
  BY <1>1, <1>2 DEF EmbedFails, Kill
<1>3. ASSUME NEW kind, Restart(kind) PROVE faults < MaxFaults /\ faults' = faults + 1
  BY <1>1, <1>3 DEF Restart
<1>4. ASSUME ClientStep(c) \/ \E f \in Fps : Begin(c, f) PROVE UNCHANGED faults
  BY <1>4 DEF ClientStep, CheckStatus, CheckFinalized, WriteManifest, Begin, ServiceAlone
<1>5. CASE ServiceStep(c)
  BY <1>5 DEF ServiceStep, Open, Embed, Store, Merge, WriteAlias, CopyStatus, WriteStatus, WriteRows,
              SearchRecord, SearchFiles, SearchRebuilt
<1>6. CASE UNCHANGED vars
  BY <1>6 DEF vars
<1> QED BY <1>2, <1>3, <1>4, <1>5, <1>6 DEF Next

LEMMA AlignedStep ==
  ASSUME NEW c, Clients = {c}, MaxFaults <= 1, SemInv, SemInv', WholeInv, AlignedInv, [Next]_vars
  PROVE  AlignedInv'
<1>1. faults \in Nat /\ faults <= MaxFaults /\ MaxFaults \in Nat
  BY SemanticAssumption DEF SemInv, DataFits
<1>2. UNCHANGED faults \/ (faults < MaxFaults /\ faults' = faults + 1 /\ faults' = MaxFaults)
  BY <1>1, FaultsCount
<1>3. AnswerIsAligned
  BY DEF AlignedInv
<1>4. CASE FreshInv /\ (faults < MaxFaults => OrderlyInv)
  <2>1. \A f \in Fps : index[f] = NoRecord =>
            Agree(found[f].ids, found[f].rows) /\ Agree(StatusOf(f).ids, RowsOf(f))
    <3> SUFFICES ASSUME NEW f \in Fps, index[f] = NoRecord
                 PROVE  Agree(found[f].ids, found[f].rows) /\ Agree(StatusOf(f).ids, RowsOf(f))
      OBVIOUS
    <3>1. StatusOf(f) = NoFile /\ found[f].ids = <<>>
      BY <1>4, FreshReads DEF FreshInv
    <3>2. NoFile.ids = <<>>
      BY DEF NoFile
    <3> QED BY <3>1, <3>2, NothingAgrees
  <2>2. AnswerIsAligned'
    BY <1>3, <2>1, AnswersAligned
  <2>3. CASE Restart("restart")
    <3>1. faults < MaxFaults /\ faults' = MaxFaults
      BY <1>1, <1>2, <2>3 DEF Restart, Strike
    <3>2. \E safe \in SUBSET Fps : RecoveredInv(safe)'
      BY <1>4, <2>3, <3>1, RestartRecovers
    <3> QED BY <2>2, <3>1, <3>2 DEF AlignedInv
  <2>4. CASE ~Restart("restart")
    <3>1. FreshInv'
      BY <1>4, <2>4, FreshStep
    <3>2. CASE UNCHANGED faults
      <4>1. faults < MaxFaults => OrderlyInv'
        BY <1>4, <3>2, OrderlyStep
      <4> QED BY <2>2, <3>1, <3>2, <4>1 DEF AlignedInv
    <3>3. CASE faults' = MaxFaults
      BY <1>1, <2>2, <3>1, <3>3 DEF AlignedInv
    <3> QED BY <1>2, <3>2, <3>3
  <2> QED BY <2>3, <2>4
<1>5. ASSUME faults = MaxFaults, NEW safe \in SUBSET Fps, RecoveredInv(safe) PROVE AlignedInv'
  <2>1. UNCHANGED faults
    BY <1>1, <1>2, <1>5
  <2>2. RecoveredInv(safe)'
    BY <1>5, <2>1, RecoveredStep
  <2>3. AnswerIsAligned'
    BY <1>3, <1>5, RecoveredReads, AnswersAligned DEF RecoveredInv
  <2> QED BY <1>5, <2>1, <2>2, <2>3 DEF AlignedInv
<1> QED BY <1>4, <1>5 DEF AlignedInv

LEMMA InitAligned == ASSUME NEW c, Clients = {c}, Init PROVE AlignedInv
<1>1. Idle.pc = "idle" /\ Idle.answer = {}
  BY DEF Idle
<1>2. /\ client[c] = Idle /\ \A f \in Fps : index[f] = NoRecord /\ found[f].ids = <<>> /\ Untouched(f)
      /\ manifest = NoFp
  BY DEF Init, Untouched
<1>3. FreshInv
  BY <1>1, <1>2 DEF FreshInv, Handling
<1>4. Orderly(client[c])
  BY <1>1, <1>2 DEF Orderly, Busy, Uploading, Handling
<1>5. OrderlyInv
  BY <1>2, <1>4 DEF OrderlyInv
<1>6. AnswerIsAligned
  BY <1>1, <1>2 DEF AnswerIsAligned
<1> QED BY <1>3, <1>5, <1>6 DEF AlignedInv

\* One inspection at a time and at most one fault, with NumPy or with FAISS:
\* a score belongs to the chunk it is reported for.
THEOREM OneInspectionIsAligned ==
  ASSUME NEW c, Clients = {c}, MaxFaults <= 1
  PROVE  Spec => []AnswerIsAligned
<1>1. Init => WholeInv /\ AlignedInv
  BY InitWhole, InitAligned
<1>2. SemInv /\ SemInv' /\ WholeInv /\ AlignedInv /\ [Next]_vars => WholeInv' /\ AlignedInv'
  BY StepWhole, AlignedStep
<1>3. WholeInv /\ AlignedInv => AnswerIsAligned
  BY DEF AlignedInv
<1> QED BY <1>1, <1>2, <1>3, SemInvariant, PTL DEF Spec

-----------------------------------------------------------------------------
(* One inspection at a time: the vectors of what a status file lists were  *)
(* written before it, so that a restarted service can rebuild the index.   *)

StoresBacked ==
  /\ shardMem \in {{}, shard}
  /\ \A f \in Fps : Range(status[f].ids) \subseteq shard /\ Range(index[f].docs) \subseteq shard

\* The vectors of a batch are known before its documents join the record.
RequestBacked(r) ==
  /\ vectors \subseteq shard \cup (IF r.pc = "store" THEN r.persisted ELSE {})
  /\ r.pc = "embed" => Range(Head(r.plan)) \subseteq shard \cup r.missing
  /\ r.pc = "store" => shard \cup Range(Head(r.plan)) \subseteq r.persisted
  /\ r.pc = "merge" => Range(Head(r.plan)) \subseteq shard
  /\ r.pc = "copy" => Range(r.copy.ids) \subseteq shard

BackedInv == StoresBacked /\ \A c \in Clients : RequestBacked(client[c])

LEMMA KnownBacked ==
  ASSUME NEW c, Clients = {c}, BackedInv, client[c].pc # "store"
  PROVE  LoadedShard = shard /\ KnownVectors = shard
BY DEF BackedInv, StoresBacked, RequestBacked, LoadedShard, KnownVectors

LEMMA ReadBacked ==
  ASSUME SemInv, BackedInv, NEW f \in Fps
  PROVE  Range(StatusOf(f).ids) \subseteq shard /\ Range(IndexOf(f).docs) \subseteq shard
<1>1. Range(<<>>) = {}
  BY DEF Range
<1>2. Range(StatusOf(f).ids) \subseteq shard
  <2> DEFINE pass == {g \in Fps : status[g] = NoFile /\ alias[g] # NoFp}
             ends == Ends(f, pass)
  <2>1. ends \subseteq Fps
    BY DEF Ends, Chain
  <2>2. StatusOf(f) = IF ends = {} THEN NoFile ELSE status[CHOOSE g \in ends : TRUE]
    BY DEF StatusOf
  <2> HIDE DEF ends
  <2>3. CASE ends = {}
    BY <1>1, <2>2, <2>3 DEF NoFile
  <2>4. CASE ends # {}
    <3>1. (CHOOSE g \in ends : TRUE) \in Fps
      BY <2>1, <2>4
    <3> QED BY <2>2, <2>4, <3>1 DEF BackedInv, StoresBacked
  <2> QED BY <2>3, <2>4
<1>3. \/ IndexOf(f) = index[f] \/ IndexOf(f) = NoRecord
      \/ IndexOf(f) = Record(TRUE, status[f].ids)
  BY DEF IndexOf
<1>4. NoRecord.docs = <<>> /\ Record(TRUE, status[f].ids).docs = status[f].ids
  BY DEF NoRecord, Record
<1>5. Range(status[f].ids) \subseteq shard /\ Range(index[f].docs) \subseteq shard
  BY DEF BackedInv, StoresBacked
<1> QED BY <1>1, <1>2, <1>3, <1>4, <1>5

\* The service has loaded what is on disk.
LEMMA LoadBacked ==
  ASSUME NEW c, Clients = {c}, BackedInv, client[c].pc # "store", NEW f,
         LoadIndex(f) \/ UNCHANGED <<vectors, shardMem>>, UNCHANGED shard
  PROVE  vectors' \subseteq shard' /\ shardMem' \in {{}, shard'}
<1>1. vectors \subseteq shard /\ shardMem \in {{}, shard}
  BY DEF BackedInv, StoresBacked, RequestBacked
<1> QED BY <1>1, KnownBacked DEF LoadIndex

LEMMA QuietBacked ==
  ASSUME NEW c, Clients = {c}, BackedInv, UNCHANGED <<status, index, store>>, client[c].pc # "store",
         client'[c].pc \notin {"embed", "store", "merge", "copy"}
  PROVE  BackedInv'
BY DEF BackedInv, StoresBacked, RequestBacked, store

LEMMA OpenBacked ==
  ASSUME NEW c, Clients = {c}, SemInv, WholeInv, BackedInv, Open(c)
  PROVE  BackedInv'
<1> DEFINE f == client[c].fp
           base == client[c].base
           missing == Batch(c) \ KnownVectors
           local == [Goto(c, IF missing = {} THEN "merge" ELSE "embed") EXCEPT !.missing = missing]
           from == IF base = NoFp THEN NoRecord ELSE IndexOf(base)
           kept == IF from.ready THEN Without(from.docs, client[c].removed) ELSE <<>>
           mine(b) == [local EXCEPT !.reused = b]
<1>1. /\ client[c].pc = "open" /\ client[c].pc \in Uploading /\ UNCHANGED <<status, shard>> /\ c \in Clients
      /\ client[c] \in ClientType
  BY OnlyInspection DEF Open, At, Uploading
<1>2. /\ f \in Fps /\ base \in Fps \cup {NoFp} /\ index \in [Fps -> RecordType]
      /\ \A g \in Fps : /\ Range(status[g].ids) \subseteq shard /\ Range(index[g].docs) \subseteq shard
      /\ Range(<<>>) = {}
  BY <1>1, UnderWay DEF SemInv, StoresFit, BackedInv, StoresBacked, Range
<1>3. KnownVectors = shard
  BY <1>1, KnownBacked
<1>4. local.missing = missing /\ local.plan = client[c].plan /\ (local.pc = "merge" <=> missing = {})
      /\ local.pc \in {"merge", "embed"}
  BY <1>1 DEF Goto, ClientType
<1>5. \A b : mine(b).missing = missing /\ mine(b).plan = client[c].plan /\ mine(b).pc = local.pc
  BY <1>1 DEF Goto, ClientType
<1>6. \/ client'[c] = local \/ \E b : client'[c] = mine(b)
  <2>1. CASE Replace(c, local)
    <3>1. client'[c] = mine(from.ready)
      BY <1>1, <2>1 DEF Replace, from, mine
    <3> QED BY <3>1
  <2>2. CASE Continue(c, local)
    <3> HIDE DEF local
    <3> QED BY <2>2, OnlyInspection DEF Continue, Then
  <2> QED BY <2>1, <2>2 DEF Open
<1> HIDE DEF local, mine, missing
<1>7. /\ client'[c].pc \in {"merge", "embed"} /\ client'[c].plan = client[c].plan
      /\ client'[c].missing = missing /\ (client'[c].pc = "merge" <=> missing = {})
  BY <1>4, <1>5, <1>6
<1>8. vectors' \subseteq shard' /\ shardMem' \in {{}, shard'}
  BY <1>1, LoadBacked DEF Open, Replace, Continue
<1>9. ASSUME NEW g \in Fps PROVE Range(index'[g].docs) \subseteq shard
  <2>1. Range(from.docs) \subseteq shard
    <3>1. base # NoFp => Range(IndexOf(base).docs) \subseteq shard
      BY <1>2, ReadBacked
    <3> QED BY <1>2, <3>1 DEF NoRecord
  <2>2. from.docs \in Seq(Doc) /\ IsInjective(from.docs)
    <3>1. base # NoFp => List(base, IndexOf(base).docs)
      BY <1>2, IndexOfFits DEF SemInv, RecordFits
    <3>2. NoRecord.docs = <<>> /\ List(f, <<>>)
      BY <1>2, ConstantsFit DEF NoRecord
    <3> QED BY <3>1, <3>2 DEF List
  <2>3. Range(kept) \subseteq shard
    <3> DEFINE s == from.docs
    <3>1. Range(Without(s, client[c].removed)) \subseteq Range(s)
      <4> HIDE DEF s
      <4> QED BY <2>2, WithoutProperties DEF s
    <3> QED BY <1>2, <2>1, <3>1
  <2>4. Record(FALSE, kept).docs = kept /\ Record(FALSE, <<>>).docs = <<>>
    BY DEF Record
  <2>5. CASE Replace(c, [Goto(c, IF missing = {} THEN "merge" ELSE "embed") EXCEPT !.missing = missing])
    <3>1. index' = [h \in Fps |-> IF h = f THEN Record(FALSE, kept) ELSE IF h = base THEN from ELSE index[h]]
      BY <2>5 DEF Replace, from, kept
    <3> HIDE DEF kept, from, f, base
    <3> QED BY <1>2, <2>1, <2>3, <2>4, <3>1
  <2>6. CASE Continue(c, [Goto(c, IF missing = {} THEN "merge" ELSE "embed") EXCEPT !.missing = missing])
    BY <1>2, <2>4, <2>6 DEF Continue
  <2> QED BY <2>5, <2>6 DEF Open, missing
<1>10. StoresBacked'
  BY <1>1, <1>2, <1>8, <1>9 DEF StoresBacked
<1>11. RequestBacked(client[c])'
  BY <1>1, <1>3, <1>7, <1>8 DEF RequestBacked, missing, Batch
<1> QED BY <1>10, <1>11 DEF BackedInv

LEMMA EmbedBacked ==
  ASSUME NEW c, Clients = {c}, SemInv, BackedInv, Embed(c) \/ Store(c)
  PROVE  BackedInv'
<1> DEFINE r == [Goto(c, "store") EXCEPT !.persisted = LoadedShard \cup client[c].missing, !.missing = {}]
           s == [Goto(c, "merge") EXCEPT !.persisted = {}]
<1>1. client[c] \in ClientType /\ UNCHANGED <<status, index>> /\ RequestBacked(client[c]) /\ StoresBacked
  BY OnlyInspection DEF Embed, Store, files, memory, BackedInv
<1>2. CASE Embed(c)
  <2>1. client' = [client EXCEPT ![c] = r] /\ UNCHANGED <<shard, shardMem>> /\ client[c].pc = "embed"
        /\ vectors' = KnownVectors \cup client[c].missing
    BY <1>2 DEF Embed, At, Then
  <2>2. r.pc = "store" /\ r.plan = client[c].plan /\ r.persisted = LoadedShard \cup client[c].missing
    BY <1>1 DEF Goto, ClientType
  <2> HIDE DEF r
  <2>3. client'[c] = r
    BY <2>1, OnlyInspection
  <2>4. LoadedShard = shard /\ KnownVectors = shard
    BY <2>1, KnownBacked
  <2>5. RequestBacked(client[c])'
    BY <1>1, <2>1, <2>2, <2>3, <2>4 DEF RequestBacked
  <2>6. StoresBacked'
    BY <1>1, <2>1 DEF StoresBacked
  <2> QED BY <2>5, <2>6 DEF BackedInv
<1>3. CASE Store(c)
  <2>1. client' = [client EXCEPT ![c] = s] /\ UNCHANGED vectors /\ client[c].pc = "store"
        /\ shard' = client[c].persisted /\ shardMem' = client[c].persisted
    BY <1>3 DEF Store, At, Then
  <2>2. s.pc = "merge" /\ s.plan = client[c].plan
    BY <1>1 DEF Goto, ClientType
  <2> HIDE DEF s
  <2>3. client'[c] = s
    BY <2>1, OnlyInspection
  <2>4. RequestBacked(client[c])'
    BY <1>1, <2>1, <2>2, <2>3 DEF RequestBacked
  <2>5. StoresBacked'
    BY <1>1, <2>1 DEF StoresBacked, RequestBacked
  <2> QED BY <2>4, <2>5 DEF BackedInv
<1> QED BY <1>2, <1>3

LEMMA MergeBacked ==
  ASSUME NEW c, Clients = {c}, SemInv, WholeInv, BackedInv, Merge(c)
  PROVE  BackedInv'
<1>1. /\ client[c].pc = "merge" /\ client[c].pc \in Uploading /\ client[c].own = NoRecord
      /\ UNCHANGED status /\ UNCHANGED store /\ RequestBacked(client[c]) /\ StoresBacked
  BY OnlyInspection DEF Merge, At, Uploading, Handling, WholeInv, InspectionWhole, BackedInv, files
<1>2. PICK f \in Fps : f = client[c].fp
  BY <1>1, OnlyInspection, UnderWay
<1>3. PICK rec : /\ index' = [index EXCEPT ![f] = rec]
                 /\ Range(rec.docs) = Range(index[f].docs) \cup Range(Head(client[c].plan))
  BY <1>1, <1>2, MergeRecord
<1>4. \A g \in Fps : Range(index'[g].docs) \subseteq shard
  BY <1>1, <1>3 DEF SemInv, StoresFit, StoresBacked, RequestBacked
<1>5. client'[c].pc \in {"alias", "file", "open", "finalized"}
  <2>1. CASE Final(c)
    BY <1>1, <2>1, MergeAs
  <2>2. CASE ~Final(c)
    BY <1>1, <2>2, MergeAs, AcceptedAs DEF Handling
  <2> QED BY <2>1, <2>2
<1>6. StoresBacked' /\ RequestBacked(client[c])'
  BY <1>1, <1>4, <1>5 DEF StoresBacked, RequestBacked, store
<1> QED BY <1>6 DEF BackedInv

LEMMA FilesBacked ==
  ASSUME NEW c, Clients = {c}, SemInv, WholeInv, BackedInv,
         WriteAlias(c) \/ CopyStatus(c) \/ WriteStatus(c) \/ WriteRows(c)
  PROVE  BackedInv'
<1>1. /\ client[c].pc \in {"alias", "copy", "file", "rows"} /\ client[c].pc \in Uploading
      /\ client[c].pc \in Handling /\ client[c].own = NoRecord
      /\ UNCHANGED index /\ UNCHANGED store /\ RequestBacked(client[c]) /\ StoresBacked
  BY OnlyInspection DEF WriteAlias, CopyStatus, WriteStatus, WriteRows, At, Uploading, Handling,
                        WholeInv, InspectionWhole, BackedInv, memory
<1>2. PICK f \in Fps : f = client[c].fp
  BY <1>1, OnlyInspection, UnderWay
<1>3. status \in [Fps -> FileType] /\ vectors \subseteq shard
  BY <1>1 DEF SemInv, StoresFit, RequestBacked
<1>4. CASE WriteAlias(c)
  <2>1. PICK base \in Fps : base = client[c].base
    BY <1>1, <1>4, OnlyInspection DEF ClientFits, ClientType, WriteAlias, At
  <2>2. StatusFile(IndexOf(base).ready, IndexOf(base).docs).ids = IndexOf(base).docs
    BY DEF StatusFile
  <2>3. client'[c].pc \in {"file", "copy"} /\ (client'[c].pc = "copy" => Range(client'[c].copy.ids) \subseteq shard)
    <3>1. Range(StatusOf(base).ids) \subseteq shard /\ Range(IndexOf(base).docs) \subseteq shard
      BY ReadBacked
    <3> QED BY <1>4, <2>1, <2>2, <3>1, WriteAliasAs
  <2>4. UNCHANGED status
    BY <1>4 DEF WriteAlias
  <2> QED BY <1>1, <1>3, <2>3, <2>4 DEF BackedInv, StoresBacked, RequestBacked, store
<1>5. CASE CopyStatus(c) \/ WriteRows(c)
  <2>1. client' = [client EXCEPT ![c] = Accepted(c, client[c].reused)]
    BY <1>5 DEF CopyStatus, WriteRows, Then
  <2>2. client'[c].pc \in {"open", "finalized"}
    BY <1>1, <2>1, AcceptedAs
  <2>3. \A g \in Fps : Range(status'[g].ids) \subseteq shard
    BY <1>1, <1>2, <1>3, <1>5 DEF CopyStatus, WriteRows, At, RequestBacked, StoresBacked
  <2> QED BY <1>1, <1>3, <2>2, <2>3 DEF BackedInv, StoresBacked, RequestBacked, store
<1>6. CASE WriteStatus(c)
  <2>1. client'[c].pc = "rows"
    BY <1>6, WriteStatusAs
  <2>2. status' = [status EXCEPT ![f] = StatusFile(index[f].ready, index[f].docs)]
    BY <1>1, <1>2, <1>6 DEF WriteStatus, Held
  <2>3. \A g \in Fps : Range(status'[g].ids) \subseteq shard
    BY <1>1, <1>3, <2>2 DEF StoresBacked, StatusFile
  <2> QED BY <1>1, <1>3, <2>1, <2>3 DEF BackedInv, StoresBacked, RequestBacked, store
<1> QED BY <1>4, <1>5, <1>6

LEMMA SearchBacked ==
  ASSUME NEW c, Clients = {c}, SemInv, BackedInv, SearchRecord(c) \/ SearchFiles(c) \/ SearchRebuilt(c)
  PROVE  BackedInv'
<1>1. client[c].pc = "search" /\ UNCHANGED <<status, shard>> /\ StoresBacked
  BY DEF SearchRecord, SearchFiles, SearchRebuilt, At, files, store, BackedInv
<1>2. PICK f \in Fps : f = client[c].fp
  BY <1>1, OnlyInspection DEF ClientFits
<1>3. client'[c].pc = "idle"
  BY EndedAs, AnsweredAs DEF SearchRecord, SearchFiles, SearchRebuilt
<1>4. vectors' \subseteq shard' /\ shardMem' \in {{}, shard'}
  BY <1>1, LoadBacked DEF SearchRecord, SearchFiles, SearchRebuilt, store
<1>5. index \in [Fps -> RecordType]
  BY DEF SemInv, StoresFit
<1>6. ASSUME NEW g \in Fps PROVE Range(index'[g].docs) \subseteq shard
  <2>1. Range(index[g].docs) \subseteq shard
    BY <1>1 DEF StoresBacked
  <2>2. ASSUME NEW s, index' = [index EXCEPT ![f].rows = s] PROVE index'[g].docs = index[g].docs
    <3>1. index'[g] = index[g] \/ index'[g] = [index[g] EXCEPT !.rows = s]
      BY <1>5, <2>2
    <3> QED BY <1>5, <3>1 DEF RecordType
  <2>3. CASE SearchRecord(c)
    BY <1>2, <2>1, <2>2, <2>3 DEF SearchRecord
  <2>4. CASE SearchFiles(c)
    BY <2>1, <2>4 DEF SearchFiles
  <2>5. CASE SearchRebuilt(c)
    <3> DEFINE rec == [IndexOf(f) EXCEPT !.rows = IndexOf(f).docs]
    <3>1. index' = [index EXCEPT ![f] = rec]
      BY <1>2, <2>5 DEF SearchRebuilt
    <3>2. rec.docs = IndexOf(f).docs
      <4>1. IndexOf(f) \in RecordType
        BY IndexOfFits DEF SemInv, RecordFits
      <4> QED BY <4>1 DEF RecordType
    <3> HIDE DEF rec
    <3> QED BY <1>5, <2>1, <3>1, <3>2, ReadBacked
  <2> QED BY <2>3, <2>4, <2>5
<1> QED BY <1>1, <1>3, <1>4, <1>6 DEF BackedInv, StoresBacked, RequestBacked

LEMMA RestartBacked ==
  ASSUME NEW c, Clients = {c}, SemInv, BackedInv, NEW kind, Restart(kind)
  PROVE  BackedInv'
<1>1. client'[c].pc \notin {"embed", "store", "merge", "copy"}
  <2> DEFINE r == [Idle EXCEPT !.fp = client[c].fp, !.out = "degraded"]
  <2>1. client'[c] = r \/ (client'[c] = client[c] /\ client[c].pc \notin Handling)
    BY OnlyInspection DEF Restart, Holds, Handling
  <2>2. r.pc = "idle"
    BY DEF Idle
  <2> HIDE DEF r
  <2> QED BY <2>1, <2>2 DEF Handling
<1>2. Range(<<>>) = {} /\ NoRecord.docs = <<>> /\ NoFile.ids = <<>>
  BY DEF Range, NoRecord, NoFile
<1>3. /\ \A f \in Fps : index'[f] = NoRecord
      /\ vectors' = {} /\ shardMem' = {}
      /\ \/ \A f \in Fps : status'[f] = NoFile
         \/ UNCHANGED <<status, shard>>
  BY DEF Restart, files
<1>4. StoresBacked'
  BY <1>2, <1>3 DEF BackedInv, StoresBacked
<1> QED BY <1>1, <1>3, <1>4 DEF BackedInv, RequestBacked

LEMMA BackedStep ==
  ASSUME NEW c, Clients = {c}, SemInv, WholeInv, BackedInv, [Next]_vars
  PROVE  BackedInv'
<1>1. CASE UNCHANGED vars
  BY <1>1 DEF vars, BackedInv, StoresBacked, RequestBacked
<1>2. ASSUME NEW f \in Fps, Begin(c, f) PROVE BackedInv'
  <2> DEFINE r == [Idle EXCEPT !.pc = "status", !.fp = f, !.base = IF manifest = f THEN NoFp ELSE manifest]
  <2>1. client' = [client EXCEPT ![c] = r]
    BY <1>2 DEF Begin, Then
  <2>2. r.pc = "status"
    BY DEF Idle
  <2> HIDE DEF r
  <2>3. client'[c].pc = "status"
    BY <2>1, <2>2, OnlyInspection
  <2> QED BY <1>2, <2>3, QuietBacked DEF Begin, At, ServiceAlone, files, memory
<1>3. CASE ClientStep(c)
  <2> DEFINE full == FullUpload(c)
             delta == DeltaUpload(c)
             go(pc) == Goto(c, pc)
  <2>1. \/ client' = [client EXCEPT ![c] = go("manifest")] \/ client' = [client EXCEPT ![c] = go("search")]
        \/ client' = [client EXCEPT ![c] = full] \/ client' = [client EXCEPT ![c] = delta]
        \/ End(c, "degraded")
    BY <1>3 DEF ClientStep, CheckStatus, CheckFinalized, WriteManifest, Then
  <2>2. full.pc = "open" /\ delta.pc = "open"
    BY UploadAs
  <2>3. go("manifest").pc = "manifest" /\ go("search").pc = "search"
    BY OnlyInspection DEF Goto, ClientType
  <2> HIDE DEF full, delta, go
  <2>4. client'[c].pc \in {"manifest", "search", "open", "idle"}
    BY <2>1, <2>2, <2>3, EndedAs, OnlyInspection
  <2> QED BY <1>3, <2>4, QuietBacked DEF ClientStep, CheckStatus, CheckFinalized, WriteManifest, At,
             ServiceAlone, files, memory
<1>4. CASE ServiceStep(c)
  BY <1>4, OpenBacked, EmbedBacked, MergeBacked, FilesBacked, SearchBacked DEF ServiceStep
<1>5. CASE EmbedFails(c) \/ Kill(c)
  BY <1>5, EndedAs, QuietBacked DEF EmbedFails, Kill, files, memory
<1> QED BY <1>1, <1>2, <1>3, <1>4, <1>5, RestartBacked DEF Next

\* One inspection at a time, whatever is restarted, lost or killed: what a
\* status file calls ready can be rebuilt from the file of vectors.
THEOREM OneInspectionIsBacked ==
  ASSUME NEW c, Clients = {c}
  PROVE  Spec => []StatusIsBacked
<1>1. Init => WholeInv /\ BackedInv
  <2> SUFFICES ASSUME Init PROVE BackedInv
    BY InitWhole
  <2>1. Idle.pc = "idle" /\ NoFile.ids = <<>> /\ NoRecord.docs = <<>> /\ Range(<<>>) = {}
    BY DEF Idle, NoFile, NoRecord, Range
  <2> QED BY <2>1 DEF Init, BackedInv, StoresBacked, RequestBacked
<1>2. SemInv /\ WholeInv /\ BackedInv /\ [Next]_vars => WholeInv' /\ BackedInv'
  BY StepWhole, BackedStep
<1>3. BackedInv => StatusIsBacked
  BY DEF BackedInv, StoresBacked, StatusIsBacked
<1> QED BY <1>1, <1>2, <1>3, SemInvariant, PTL DEF Spec
=============================================================================
