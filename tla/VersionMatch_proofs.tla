-------------------------- MODULE VersionMatch_proofs --------------------------
(***************************************************************************)
(* Proofs about VersionMatch, for every set of versions.                   *)
(***************************************************************************)
EXTENDS VersionMatch, SequenceTheorems, TLAPS

\* The versions that reach the comparison.
Compared == {v \in Seq(Int) : Len(v) <= MaxLength}

(***************************************************************************)
(* The two minima of compare_versions exist.                               *)
(***************************************************************************)
LEMMA MinOfTwo ==
    ASSUME NEW x \in Int, NEW y \in Int
    PROVE  Min({x, y}) = IF x <= y THEN x ELSE y
<1> DEFINE m == IF x <= y THEN x ELSE y
<1>1. m \in {x, y} /\ \A z \in {x, y} : m <= z
  OBVIOUS
<1>2. \A k \in {x, y} : (\A z \in {x, y} : k <= z) => k = m
  OBVIOUS
<1> QED BY <1>1, <1>2 DEF Min

LEMMA MinOfIndexes ==
    ASSUME NEW S \in SUBSET (1 .. MaxLength), S # {}
    PROVE  Min(S) \in S /\ \A j \in S : Min(S) <= j
<1>1. \E m \in S : \A j \in S : m <= j
  <2>1. CASE 1 \in S
    BY <2>1 DEF MaxLength
  <2>2. CASE 1 \notin S /\ 2 \in S
    BY <2>2 DEF MaxLength
  <2>3. CASE 1 \notin S /\ 2 \notin S /\ 3 \in S
    BY <2>3 DEF MaxLength
  <2>4. CASE 1 \notin S /\ 2 \notin S /\ 3 \notin S /\ 4 \in S
    BY <2>4 DEF MaxLength
  <2>5. CASE 1 \notin S /\ 2 \notin S /\ 3 \notin S /\ 4 \notin S
    <3>1. \A j \in S : j = 5
      BY <2>5 DEF MaxLength
    <3>2. 5 \in S
      BY <3>1
    <3>3. \A j \in S : 5 <= j
      BY <3>1
    <3> QED BY <3>2, <3>3
  <2> QED BY <2>1, <2>2, <2>3, <2>4, <2>5
<1> QED BY <1>1 DEF Min

(***************************************************************************)
(* A padded version has as many integers as its key or three at most.      *)
(***************************************************************************)
LEMMA PaddedVersion ==
    ASSUME NEW v \in Compared
    PROVE  /\ Padded(v) \in Seq(Int) /\ Len(Padded(v)) \in 0 .. MaxLength
           /\ Len(Padded(v)) = IF Len(v) = 4 THEN 5 ELSE Len(v)
           /\ \A i \in 1 .. Len(Padded(v)) : Padded(v)[i] \in Int /\ Padded(v)[i] = Key(v)[i]
<1> DEFINE n == Len(v)
<1>1. v \in Seq(Int) /\ n \in 0 .. MaxLength
  <2>1. v \in Seq(Int) /\ n <= MaxLength
    BY DEF Compared
  <2>2. n \in Nat
    BY <2>1, LenProperties
  <2>3. n <= 5
    BY <2>1 DEF MaxLength
  <2> HIDE DEF n
  <2>4. n \in 0 .. 5
    BY <2>2, <2>3
  <2> QED BY <2>1, <2>4 DEF MaxLength
<1>2. \A i \in 1 .. Len(v) : v[i] \in Int
  BY <1>1
<1>3. CASE Len(v) = 4
  <2>1. Padded(v) = Append(v, 0)
    BY <1>3 DEF Padded
  <2>2. /\ Append(v, 0) \in Seq(Int)
        /\ Len(Append(v, 0)) = Len(v) + 1
        /\ \A i \in 1 .. Len(v) : Append(v, 0)[i] = v[i]
        /\ Append(v, 0)[Len(v) + 1] = 0
    BY <1>1, AppendProperties
  <2>3. /\ Padded(v) \in Seq(Int) /\ Len(Padded(v)) = 5
        /\ Padded(v)[5] = 0 /\ \A i \in 1 .. 4 : Padded(v)[i] = v[i]
    BY <1>3, <2>1, <2>2
  <2>4. Key(v)[5] = 0 /\ \A i \in 1 .. 4 : Key(v)[i] = v[i]
    BY <1>3 DEF Key, MaxLength
  <2>5. \A i \in 1 .. 5 : i \in 1 .. 4 \/ i = 5
    OBVIOUS
  <2> QED BY <1>2, <1>3, <2>3, <2>4, <2>5 DEF MaxLength
<1>4. CASE Len(v) # 4
  <2>1. Padded(v) = v
    BY <1>4 DEF Padded
  <2>2. \A i \in 1 .. n : i \in 1 .. MaxLength /\ i <= n
    <3> HIDE DEF n
    <3> QED BY <1>1 DEF MaxLength
  <2>3. \A i \in 1 .. Len(v) : Key(v)[i] = v[i]
    BY <2>2 DEF Key
  <2> QED BY <1>1, <1>2, <1>4, <2>1, <2>3
<1> QED BY <1>3, <1>4

(***************************************************************************)
(* compare_versions in terms of the keys: the first of the shared numbers  *)
(* that differs decides, and the lengths if there is none.                 *)
(***************************************************************************)
Shared(a, b) == IF Len(Padded(a)) <= Len(Padded(b)) THEN Len(Padded(a)) ELSE Len(Padded(b))

Differing(a, b) == {i \in 1 .. Shared(a, b) : Key(a)[i] # Key(b)[i]}

LEMMA Compare ==
    ASSUME NEW a \in Compared, NEW b \in Compared
    PROVE  /\ Differing(a, b) \in SUBSET (1 .. MaxLength)
           /\ \A i \in 1 .. Shared(a, b) : Key(a)[i] \in Int /\ Key(b)[i] \in Int
           /\ compare_versions(a, b) =
                 IF Differing(a, b) = {} THEN compare_releases(Padded(a), Padded(b))
                 ELSE IF Key(a)[Min(Differing(a, b))] > Key(b)[Min(Differing(a, b))] THEN 1 ELSE -1
<1> DEFINE x == Padded(a)
           y == Padded(b)
           n == Shared(a, b)
<1>1. /\ Len(x) \in 0 .. MaxLength /\ Len(y) \in 0 .. MaxLength
      /\ \A i \in 1 .. Len(x) : x[i] \in Int /\ x[i] = Key(a)[i]
      /\ \A i \in 1 .. Len(y) : y[i] \in Int /\ y[i] = Key(b)[i]
  BY PaddedVersion
<1>2. Min({Len(x), Len(y)}) = n
  BY <1>1, MinOfTwo DEF Shared
<1>3. /\ \A i \in 1 .. n : i \in 1 .. Len(x) /\ i \in 1 .. Len(y)
      /\ n \in 0 .. MaxLength
  BY <1>1 DEF Shared
<1> HIDE DEF x, y, n
<1>4. \A i \in 1 .. n : /\ x[i] = Key(a)[i] /\ y[i] = Key(b)[i]
                        /\ Key(a)[i] \in Int /\ Key(b)[i] \in Int
  BY <1>1, <1>3
<1>5. Difference(x, y) = {i \in 1 .. n : Key(a)[i] # Key(b)[i]}
  BY <1>2, <1>4 DEF Difference
<1>6. Difference(x, y) = Differing(a, b)
  BY <1>5 DEF Differing, n
<1>7. Differing(a, b) \in SUBSET (1 .. MaxLength)
  BY <1>3 DEF Differing, n, MaxLength
<1>8. Differing(a, b) # {} => Min(Differing(a, b)) \in 1 .. n
  BY <1>7, MinOfIndexes DEF Differing, n
<1>9. Differing(a, b) # {} =>
         /\ x[Min(Differing(a, b))] = Key(a)[Min(Differing(a, b))]
         /\ y[Min(Differing(a, b))] = Key(b)[Min(Differing(a, b))]
  BY <1>4, <1>8
<1>10. compare_versions(a, b) =
          IF Differing(a, b) = {} THEN compare_releases(x, y)
          ELSE IF x[Min(Differing(a, b))] > y[Min(Differing(a, b))] THEN 1 ELSE -1
  BY <1>6 DEF compare_versions, x, y
<1> QED BY <1>4, <1>7, <1>9, <1>10 DEF n, x, y

(***************************************************************************)
(* Exchanging the versions exchanges the answer.                           *)
(***************************************************************************)
LEMMA Antisymmetric ==
    ASSUME NEW a \in Compared, NEW b \in Compared
    PROVE  /\ compare_versions(a, b) \in {-1, 0, 1}
           /\ compare_versions(b, a) = -compare_versions(a, b)
<1> DEFINE D == Differing(a, b)
           i == Min(D)
<1>1. Len(Padded(a)) \in Nat /\ Len(Padded(b)) \in Nat
  BY PaddedVersion DEF MaxLength
<1>2. Shared(b, a) = Shared(a, b)
  BY <1>1 DEF Shared
<1>3. Differing(b, a) = D
  BY <1>2 DEF Differing
<1>4. CASE D = {}
  <2>1. /\ compare_versions(a, b) = compare_releases(Padded(a), Padded(b))
        /\ compare_versions(b, a) = compare_releases(Padded(b), Padded(a))
    BY <1>3, <1>4, Compare
  <2> QED BY <1>1, <2>1 DEF compare_releases
<1>5. CASE D # {}
  <2>1. i \in D
    BY <1>5, Compare, MinOfIndexes
  <2>2. Key(a)[i] \in Int /\ Key(b)[i] \in Int /\ Key(a)[i] # Key(b)[i]
    BY <2>1, Compare DEF Differing
  <2>3. /\ compare_versions(a, b) = IF Key(a)[i] > Key(b)[i] THEN 1 ELSE -1
        /\ compare_versions(b, a) = IF Key(b)[i] > Key(a)[i] THEN 1 ELSE -1
    BY <1>3, <1>5, Compare
  <2> HIDE DEF i
  <2> QED BY <2>2, <2>3
<1> QED BY <1>4, <1>5

-----------------------------------------------------------------------------
(***************************************************************************)
(* The precedence of complete versions.                                    *)
(***************************************************************************)
LEMMA FirstDecides ==
    ASSUME NEW a, NEW b, NEW i \in 1 .. MaxLength,
           \A k \in 1 .. MaxLength : Key(a)[k] \in Int /\ Key(b)[k] \in Int,
           Key(a)[i] < Key(b)[i],
           \A j \in 1 .. i - 1 : Key(a)[j] = Key(b)[j]
    PROVE  Precedes(a, b) /\ ~Precedes(b, a) /\ Key(a) # Key(b)
<1>1. Precedes(a, b)
  BY DEF Precedes
<1>2. ASSUME NEW k \in 1 .. MaxLength, Key(b)[k] < Key(a)[k],
             \A j \in 1 .. k - 1 : Key(b)[j] = Key(a)[j]
      PROVE  FALSE
  <2>1. i \in Int /\ k \in Int /\ i >= 1 /\ k >= 1
    BY DEF MaxLength
  <2>2. Key(a)[k] # Key(b)[k] /\ Key(a)[i] # Key(b)[i]
    BY <1>2
  <2>3. k \notin 1 .. i - 1 /\ i \notin 1 .. k - 1
    BY <1>2, <2>2
  <2>4. k = i
    BY <2>1, <2>3
  <2> QED BY <1>2, <2>4
<1>3. ~Precedes(b, a)
  BY <1>2 DEF Precedes
<1>4. Key(a) # Key(b)
  OBVIOUS
<1> QED BY <1>1, <1>3, <1>4

LEMMA SameKeys ==
    ASSUME NEW a, NEW b,
           \A k \in 1 .. MaxLength : Key(a)[k] \in Int /\ Key(b)[k] = Key(a)[k]
    PROVE  Key(a) = Key(b) /\ ~Precedes(a, b) /\ ~Precedes(b, a)
<1>1. Key(a) = Key(b)
  BY DEF Key
<1>2. \A k \in 1 .. MaxLength : ~(Key(a)[k] < Key(b)[k]) /\ ~(Key(b)[k] < Key(a)[k])
  OBVIOUS
<1> QED BY <1>1, <1>2 DEF Precedes

LEMMA CompleteVersion ==
    ASSUME NEW v \in Compared, Complete(v)
    PROVE  /\ \A k \in 1 .. MaxLength : Key(v)[k] \in Int
           /\ Len(Padded(v)) \in {3, 5}
           /\ Len(Padded(v)) = 3 => Key(v)[4] = 0 /\ Key(v)[5] = 0
           /\ Len(Padded(v)) = 5 => Key(v)[4] < 0
<1> DEFINE n == Len(v)
<1>1. v \in Seq(Int) /\ n \in {3, 4, 5} /\ (n > 3 => v[4] < 0)
  <2>1. n \in 3 .. 5 /\ (n > 3 => v[4] < 0)
    BY DEF Complete, MaxLength
  <2>2. v \in Seq(Int)
    BY DEF Compared
  <2> HIDE DEF n
  <2> QED BY <2>1, <2>2
<1>2. \A k \in 1 .. n : v[k] \in Int
  BY <1>1
<1>3. \A k \in 1 .. 5 : Key(v)[k] = IF k <= n THEN v[k] ELSE 0
  BY DEF Key, MaxLength
<1>4. Len(Padded(v)) = IF n = 4 THEN 5 ELSE n
  BY PaddedVersion
<1> HIDE DEF n
<1>5. \A k \in 1 .. 5 : Key(v)[k] \in Int
  <2> TAKE k \in 1 .. 5
  <2>1. k <= n => k \in 1 .. n
    BY <1>1
  <2> QED BY <1>2, <1>3, <2>1
<1>6. n = 3 => Key(v)[4] = 0 /\ Key(v)[5] = 0
  BY <1>3
<1>7. n > 3 => Key(v)[4] < 0
  BY <1>1, <1>3
<1> QED BY <1>1, <1>4, <1>5, <1>6, <1>7 DEF MaxLength

(***************************************************************************)
(* The comparison of complete versions is their precedence.                *)
(***************************************************************************)
LEMMA ComparePrecedence ==
    ASSUME NEW a \in Compared, NEW b \in Compared, Complete(a), Complete(b)
    PROVE  \/ compare_versions(a, b) = 1 /\ Precedes(b, a) /\ ~Precedes(a, b) /\ Key(a) # Key(b)
           \/ compare_versions(a, b) = 0 /\ ~Precedes(b, a) /\ ~Precedes(a, b) /\ Key(a) = Key(b)
           \/ compare_versions(a, b) = -1 /\ ~Precedes(b, a) /\ Precedes(a, b) /\ Key(a) # Key(b)
<1> DEFINE D == Differing(a, b)
           i == Min(D)
           n == Shared(a, b)
<1>1. \A k \in 1 .. MaxLength : Key(a)[k] \in Int /\ Key(b)[k] \in Int
  BY CompleteVersion
<1>2. /\ D \in SUBSET (1 .. MaxLength)
      /\ compare_versions(a, b) =
            IF D = {} THEN compare_releases(Padded(a), Padded(b))
            ELSE IF Key(a)[i] > Key(b)[i] THEN 1 ELSE -1
  BY Compare
<1>3. Len(Padded(a)) \in {3, 5} /\ Len(Padded(b)) \in {3, 5}
  BY CompleteVersion
<1>4. n \in {3, 5} /\ (n = 5 <=> Len(Padded(a)) = 5 /\ Len(Padded(b)) = 5)
  <2>1. \A x, y \in {3, 5} :
           LET m == IF x <= y THEN x ELSE y IN m \in {3, 5} /\ (m = 5 <=> x = 5 /\ y = 5)
    OBVIOUS
  <2> QED BY <1>3, <2>1 DEF Shared
<1>5. \A k \in 1 .. n : k \notin D => Key(a)[k] = Key(b)[k]
  BY DEF Differing
<1>6. CASE D # {}
  <2>1. i \in D /\ \A j \in D : i <= j
    BY <1>2, <1>6, MinOfIndexes
  <2>2. i \in 1 .. n /\ i \in 1 .. MaxLength /\ Key(a)[i] # Key(b)[i]
    BY <1>2, <2>1 DEF Differing
  <2>3. compare_versions(a, b) = IF Key(a)[i] > Key(b)[i] THEN 1 ELSE -1
    BY <1>2, <1>6
  <2> HIDE DEF i, n, D
  <2>4. \A j \in 1 .. i - 1 : j \in 1 .. n /\ j \notin D
    BY <1>4, <2>1, <2>2 DEF MaxLength
  <2>5. \A j \in 1 .. i - 1 : Key(a)[j] = Key(b)[j]
    BY <1>5, <2>4
  <2>6. Key(a)[i] \in Int /\ Key(b)[i] \in Int
    BY <1>1, <2>2
  <2>7. CASE Key(a)[i] < Key(b)[i]
    <3>1. Precedes(a, b) /\ ~Precedes(b, a) /\ Key(a) # Key(b)
      BY <1>1, <2>2, <2>5, <2>7, FirstDecides
    <3> QED BY <2>3, <2>6, <2>7, <3>1
  <2>8. CASE Key(b)[i] < Key(a)[i]
    <3>1. Precedes(b, a) /\ ~Precedes(a, b) /\ Key(b) # Key(a)
      BY <1>1, <2>2, <2>5, <2>8, FirstDecides
    <3> QED BY <2>3, <2>6, <2>8, <3>1
  <2> QED BY <2>2, <2>6, <2>7, <2>8
<1>7. CASE D = {}
  <2>1. compare_versions(a, b) = compare_releases(Padded(a), Padded(b))
    BY <1>2, <1>7
  <2>2. \A k \in 1 .. n : Key(a)[k] = Key(b)[k]
    BY <1>5, <1>7
  <2> HIDE DEF n, D
  <2>3. \A k \in 1 .. 3 : Key(a)[k] = Key(b)[k]
    BY <1>4, <2>2
  <2>4. CASE Len(Padded(a)) = Len(Padded(b))
    <3>1. compare_versions(a, b) = 0
      BY <1>3, <2>1, <2>4 DEF compare_releases
    <3>2. \A k \in 1 .. MaxLength : Key(a)[k] = Key(b)[k]
      <4>1. CASE n = 5
        BY <2>2, <4>1 DEF MaxLength
      <4>2. CASE n = 3
        <5>0. Len(Padded(a)) = 3 /\ Len(Padded(b)) = 3
          BY <1>3, <1>4, <2>4, <4>2
        <5>1. Key(a)[4] = Key(b)[4] /\ Key(a)[5] = Key(b)[5]
          BY <5>0, CompleteVersion
        <5>2. \A k \in 1 .. 5 : k \in 1 .. 3 \/ k = 4 \/ k = 5
          OBVIOUS
        <5> QED BY <2>3, <5>1, <5>2 DEF MaxLength
      <4> QED BY <1>4, <4>1, <4>2
    <3>3. Key(a) = Key(b) /\ ~Precedes(a, b) /\ ~Precedes(b, a)
      BY <1>1, <3>2, SameKeys
    <3> QED BY <3>1, <3>3
  <2>5. 4 \in 1 .. MaxLength /\ \A j \in 1 .. 4 - 1 : Key(a)[j] = Key(b)[j]
    BY <2>3 DEF MaxLength
  <2>6. CASE Len(Padded(a)) = 3 /\ Len(Padded(b)) = 5
    <3>1. compare_versions(a, b) = 1
      BY <2>1, <2>6 DEF compare_releases
    <3>2. Key(b)[4] < Key(a)[4]
      BY <2>6, CompleteVersion
    <3>3. Precedes(b, a) /\ ~Precedes(a, b) /\ Key(b) # Key(a)
      BY <1>1, <2>5, <3>2, FirstDecides
    <3> QED BY <3>1, <3>3
  <2>7. CASE Len(Padded(a)) = 5 /\ Len(Padded(b)) = 3
    <3>1. compare_versions(a, b) = -1
      BY <2>1, <2>7 DEF compare_releases
    <3>2. Key(a)[4] < Key(b)[4]
      BY <2>7, CompleteVersion
    <3>3. Precedes(a, b) /\ ~Precedes(b, a) /\ Key(a) # Key(b)
      BY <1>1, <2>5, <3>2, FirstDecides
    <3> QED BY <3>1, <3>3
  <2> QED BY <1>3, <2>4, <2>6, <2>7
<1> QED BY <1>6, <1>7

(***************************************************************************)
(* A complete version against one with three numbers at most.              *)
(***************************************************************************)
LEMMA ComparePrefix ==
    ASSUME NEW a \in Compared, NEW b \in Compared, Complete(a), Len(b) <= 3
    PROVE  compare_versions(a, b) = 0 <=> Len(a) = 3 /\ SubSeq(a, 1, Len(b)) = b
<1> DEFINE n == Len(b)
           D == Differing(a, b)
           i == Min(D)
           within == SubSeq(a, 1, n) = b
<1>1. /\ a \in Seq(Int) /\ b \in Seq(Int) /\ Len(a) \in 3 .. 5 /\ n \in 0 .. 3
  <2>1. n \in Nat /\ n <= 3
    BY LenProperties DEF Compared
  <2>2. Len(a) \in 3 .. 5
    BY DEF Complete, MaxLength
  <2> HIDE DEF n
  <2> QED BY <2>1, <2>2 DEF Compared
<1>2. /\ Len(Padded(a)) = IF Len(a) = 4 THEN 5 ELSE Len(a)
      /\ Len(Padded(b)) = n
  <2>1. Len(Padded(b)) = IF n = 4 THEN 5 ELSE n
    BY PaddedVersion
  <2>2. n # 4
    <3> HIDE DEF n
    <3> QED BY <1>1
  <2> QED BY <2>1, <2>2, PaddedVersion
<1>3. Shared(a, b) = n
  BY <1>1, <1>2 DEF Shared
<1>4. \A k \in 1 .. n : Key(a)[k] = a[k] /\ Key(b)[k] = b[k]
  BY <1>1 DEF Key, MaxLength
<1>5. D = {k \in 1 .. n : a[k] # b[k]}
  BY <1>3, <1>4 DEF Differing
<1>6. D = {} <=> within
  <2> DEFINE t == SubSeq(a, 1, n)
  <2>1. \A k \in 1 .. n : a[k] \in Int
    BY <1>1
  <2>2. t \in Seq(Int) /\ Len(t) = n /\ \A k \in 1 .. n : t[k] = a[k]
    <3>1. /\ t \in Seq(Int)
          /\ Len(t) = IF 1 <= n THEN n - 1 + 1 ELSE 0
          /\ \A k \in 1 .. n - 1 + 1 : t[k] = a[1 + k - 1]
      BY <1>1, <2>1, SubSeqProperties
    <3> HIDE DEF t, n
    <3> QED BY <1>1, <3>1
  <2> HIDE DEF t
  <2>3. (\A k \in 1 .. n : t[k] = b[k]) <=> t = b
    BY <1>1, <2>2, SeqEqual
  <2>4. D = {} <=> \A k \in 1 .. n : t[k] = b[k]
    BY <1>5, <2>2
  <2> QED BY <2>3, <2>4 DEF t
<1>7. compare_versions(a, b) =
         IF D = {} THEN compare_releases(Padded(a), Padded(b))
         ELSE IF Key(a)[i] > Key(b)[i] THEN 1 ELSE -1
  BY Compare
<1>8. compare_releases(Padded(a), Padded(b)) = IF Len(a) = 3 THEN 0 ELSE -1
  <2> DEFINE x == Len(Padded(a))
             y == Len(Padded(b))
             m == Len(a)
  <2>1. compare_releases(Padded(a), Padded(b)) =
            IF y < 4 /\ x >= 4 THEN -1 ELSE IF x < 4 /\ y >= 4 THEN 1 ELSE 0
    BY DEF compare_releases
  <2>2. x = (IF m = 4 THEN 5 ELSE m) /\ y = n /\ m \in 3 .. 5 /\ n \in 0 .. 3
    BY <1>1, <1>2
  <2> HIDE DEF x, y, m, n
  <2>3. y < 4 /\ (m = 3 => x < 4) /\ (m # 3 => x >= 4)
    BY <2>2
  <2>4. y \in Int
    BY <2>2
  <2>5. ~(y >= 4)
    BY <2>3, <2>4
  <2>6. m = 3 => ~(x >= 4)
    BY <2>2
  <2> QED BY <2>1, <2>3, <2>5, <2>6 DEF m
<1> HIDE DEF D, i, within
<1> QED BY <1>6, <1>7, <1>8 DEF within

-----------------------------------------------------------------------------
(***************************************************************************)
(* What the condition returned belongs to the versions it was asked about. *)
(***************************************************************************)
ResultOK ==
    /\ installed \in Compared
    /\ version \in {NotSet} \cup Parameter
    /\ Decided =>
          /\ version.value \in Compared
          /\ result = "SUCCESS"
                 <=> Holds(version.type, compare_versions(installed, version.value))

LEMMA AlwaysResultOK == Spec => []ResultOK
<1>1. Init => ResultOK
  BY VersionAssumption DEF Init, ResultOK, Decided, Compared, NotSet
<1>2. ResultOK /\ [Next]_vars => ResultOK'
  <2> SUFFICES ASSUME ResultOK, [Next]_vars PROVE ResultOK'
    OBVIOUS
  <2>1. ASSUME NEW parameter \in Parameter, Override(parameter) PROVE ResultOK'
    BY <2>1 DEF Override, ResultOK, Decided
  <2>2. ASSUME NEW r \in PlatResults, CheckVersion(r) PROVE ResultOK'
    <3>1. /\ result' = suit_condition_version(version, dry_run, installed, r)
          /\ UNCHANGED <<installed, version, dry_run>>
      BY <2>2 DEF CheckVersion
    <3>2. ASSUME Decided'
          PROVE  /\ version.value \in Compared
                 /\ result' = "SUCCESS"
                        <=> Holds(version.type, compare_versions(installed, version.value))
      <4>1. /\ version.type \in Comparison /\ result' \in {"SUCCESS", "FAIL_CONDITION"}
            /\ ~dry_run
        BY <3>1, <3>2 DEF Decided
      <4>2. version # NotSet /\ version # Malformed
        <5>1. NotSet.type = "not set" /\ Malformed.type = "malformed"
          BY DEF NotSet, Malformed
        <5>2. "not set" \notin Comparison /\ "malformed" \notin Comparison
          BY DEF Comparison
        <5> QED BY <4>1, <5>1, <5>2
      <4>3. version \in [type : Comparison, value : Version]
        BY <4>2 DEF ResultOK, Parameter
      <4>4. Len(version.value) <= MaxLength
        <5>1. ~(Len(version.value) > MaxLength)
          <6> SUFFICES ASSUME Len(version.value) > MaxLength PROVE FALSE
            OBVIOUS
          <6>1. parse_version_check(version) = "ERR_DECODING"
            BY DEF parse_version_check
          <6>2. result' = "ERR_DECODING"
            BY <3>1, <4>2, <6>1 DEF suit_condition_version
          <6> QED BY <4>1, <6>2
        <5>2. Len(version.value) \in Nat
          BY <4>3, VersionAssumption, LenProperties
        <5> QED BY <5>1, <5>2 DEF MaxLength
      <4>5. parse_version_check(version) = "SUCCESS"
        <5>1. ~(Len(version.value) > MaxLength)
          <6>1. Len(version.value) \in Nat
            BY <4>3, VersionAssumption, LenProperties
          <6> QED BY <4>4, <6>1 DEF MaxLength
        <5> QED BY <4>2, <5>1 DEF parse_version_check
      <4>6. result' = IF r # "SUCCESS" THEN r
                      ELSE IF Holds(version.type, compare_versions(installed, version.value))
                           THEN "SUCCESS" ELSE "FAIL_CONDITION"
        BY <3>1, <4>1, <4>2, <4>5 DEF suit_condition_version
      <4>7. version.value \in Compared
        BY <4>3, <4>4, VersionAssumption DEF Compared
      <4>8. r = "SUCCESS"
        BY <4>1, <4>6, PlatformAssumption
      <4> QED BY <4>6, <4>7, <4>8
    <3> QED BY <3>1, <3>2 DEF ResultOK
  <2>3. CASE UNCHANGED vars
    BY <2>3 DEF vars, ResultOK, Decided
  <2> QED BY <2>1, <2>2, <2>3 DEF Next
<1> QED BY <1>1, <1>2, PTL DEF Spec

(***************************************************************************)
(* The version condition decides as the precedence of semantic versions    *)
(* does, for all complete versions.                                        *)
(***************************************************************************)
THEOREM DecidesByPrecedence == Spec => []AgreesWithPrecedence
<1>1. ResultOK => AgreesWithPrecedence
  <2> SUFFICES ASSUME ResultOK, Decided, Complete(installed), Complete(version.value)
               PROVE  result = "SUCCESS" <=> Related(version.type, installed, version.value)
    BY DEF AgreesWithPrecedence
  <2> DEFINE a == installed
             b == version.value
             cmp == compare_versions(a, b)
  <2>1. /\ a \in Compared /\ b \in Compared /\ version.type \in Comparison
        /\ result = "SUCCESS" <=> Holds(version.type, cmp)
    BY DEF ResultOK, Decided
  <2>2. \/ cmp = 1 /\ Precedes(b, a) /\ ~Precedes(a, b) /\ Key(a) # Key(b)
        \/ cmp = 0 /\ ~Precedes(b, a) /\ ~Precedes(a, b) /\ Key(a) = Key(b)
        \/ cmp = -1 /\ ~Precedes(b, a) /\ Precedes(a, b) /\ Key(a) # Key(b)
    BY <2>1, ComparePrecedence
  <2> HIDE DEF cmp
  <2>3. ASSUME NEW c \in Comparison
        PROVE  /\ cmp = 1 => (Holds(c, cmp) <=> c \in {"greater", "greater_equal"})
               /\ cmp = 0 => (Holds(c, cmp) <=> c \in {"equal", "greater_equal", "lesser_equal"})
               /\ cmp = -1 => (Holds(c, cmp) <=> c \in {"lesser", "lesser_equal"})
    <3>1. /\ Holds("greater", cmp) <=> cmp > 0
          /\ Holds("greater_equal", cmp) <=> cmp >= 0
          /\ Holds("equal", cmp) <=> cmp = 0
          /\ Holds("lesser_equal", cmp) <=> cmp <= 0
          /\ Holds("lesser", cmp) <=> cmp < 0
      BY DEF Holds
    <3>2. CASE c = "greater"
      BY <3>1, <3>2
    <3>3. CASE c = "greater_equal"
      BY <3>1, <3>3
    <3>4. CASE c = "equal"
      BY <3>1, <3>4
    <3>5. CASE c = "lesser_equal"
      BY <3>1, <3>5
    <3>6. CASE c = "lesser"
      BY <3>1, <3>6
    <3> QED BY <3>2, <3>3, <3>4, <3>5, <3>6 DEF Comparison
  <2> QED BY <2>1, <2>2, <2>3 DEF Related, Comparison
<1> QED BY <1>1, AlwaysResultOK, PTL

(***************************************************************************)
(* The five comparisons never contradict each other, for all versions that *)
(* reach the comparison, complete or not.                                  *)
(***************************************************************************)
THEOREM ComparesConsistently == Spec => []ConsistentComparisons
<1>1. ResultOK => ConsistentComparisons
  <2> SUFFICES ASSUME ResultOK, Decided PROVE ConsistentComparisons
    BY DEF ConsistentComparisons
  <2> DEFINE cmp == compare_versions(installed, version.value)
             back == compare_versions(version.value, installed)
  <2>1. cmp \in {-1, 0, 1} /\ back = -cmp
    BY Antisymmetric DEF ResultOK
  <2> HIDE DEF cmp, back
  <2>2. /\ Holds("greater", cmp) <=> ~Holds("lesser_equal", cmp)
        /\ Holds("lesser", cmp) <=> ~Holds("greater_equal", cmp)
        /\ Holds("equal", cmp) <=> Holds("greater_equal", cmp) /\ Holds("lesser_equal", cmp)
        /\ Holds("greater", cmp) <=> Holds("lesser", back)
    BY <2>1 DEF Holds
  <2> QED BY <2>2 DEF ConsistentComparisons, cmp, back
<1> QED BY <1>1, AlwaysResultOK, PTL

(***************************************************************************)
(* A required release with fewer numbers stands for all releases that      *)
(* begin with them.                                                        *)
(***************************************************************************)
THEOREM PrefixIsAllReleases == Spec => []PrefixStandsForReleases
<1>1. ResultOK => PrefixStandsForReleases
  <2> SUFFICES ASSUME ResultOK, Decided, Complete(installed), Len(version.value) <= 3
               PROVE  PrefixStandsForReleases
    BY DEF PrefixStandsForReleases
  <2> DEFINE cmp == compare_versions(installed, version.value)
             within == SubSeq(installed, 1, Len(version.value)) = version.value
             release == Len(installed) = 3
  <2>1. cmp = 0 <=> release /\ within
    BY ComparePrefix DEF ResultOK
  <2>2. result = "SUCCESS" <=> Holds(version.type, cmp)
    BY DEF ResultOK
  <2>3. result \in {"SUCCESS", "FAIL_CONDITION"}
    BY DEF Decided
  <2> HIDE DEF cmp, within, release
  <2>4. version.type = "equal" => (Holds(version.type, cmp) <=> cmp = 0)
    BY DEF Holds
  <2>5. version.type \in {"greater", "lesser"} /\ cmp = 0 => ~Holds(version.type, cmp)
    <3>1. Holds("greater", cmp) <=> cmp > 0
      BY DEF Holds
    <3>2. Holds("lesser", cmp) <=> cmp < 0
      BY DEF Holds
    <3> QED BY <3>1, <3>2
  <2> QED BY <2>1, <2>2, <2>3, <2>4, <2>5 DEF PrefixStandsForReleases, within, release
<1> QED BY <1>1, AlwaysResultOK, PTL
=============================================================================
