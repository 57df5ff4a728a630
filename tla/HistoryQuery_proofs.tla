------------------------- MODULE HistoryQuery_proofs ------------------------
(***************************************************************************)
(* For every capacity, window, limit and resolution: a GetHistory call     *)
(* reads the ring of HistoryRing and leaves it as it was, whatever goes on *)
(* between its steps; and its answer is a track in the window, with its    *)
(* ends, and whole when there is room.  Sorting is proved without          *)
(* induction: the ranks of a finite set of times are a bijection.          *)
(***************************************************************************)
EXTENDS HistoryQuery, HistoryRing_proofs, FiniteSetTheorems

(* Rounding down, as the division of SampleIndex does it.                   *)
LEMMA DivisionRoundsDown ==
    ASSUME NEW x \in Nat, NEW d \in Nat \ {0}
    PROVE  /\ x \div d \in Nat
           /\ d * (x \div d) <= x
           /\ x < d * (x \div d) + d
OBVIOUS

(* The samples start at the first point, end at the last one, and each is   *)
(* later than the one before it, when there are more points than samples.   *)
LEMMA SamplesAdvance ==
    ASSUME NEW n \in Nat, NEW last \in Nat, 1 < n, n <= last
    PROVE  /\ SampleIndex(0, last, n) = 0
           /\ SampleIndex(n - 1, last, n) = last
           /\ \A i \in 0 .. n - 1 : SampleIndex(i, last, n) \in 0 .. last
           /\ \A i, j \in 0 .. n - 1 :
                i < j => SampleIndex(i, last, n) < SampleIndex(j, last, n)
<1> DEFINE d == n - 1
<1>1. d \in Nat \ {0} /\ d < last
  OBVIOUS
<1> HIDE DEF d
<1>2. ASSUME NEW i \in Nat
      PROVE  /\ (i * last) \div d \in Nat
             /\ d * ((i * last) \div d) <= i * last
             /\ i * last < d * ((i * last) \div d) + d
  <2>1. i * last \in Nat  OBVIOUS
  <2> QED  BY <1>1, <2>1, DivisionRoundsDown
<1>3. (0 * last) \div d = 0
  BY <1>1
<1>4. (d * last) \div d = last
  BY <1>1
<1>5. ASSUME NEW i \in Nat, NEW j \in Nat, i < j
      PROVE  (i * last) \div d < (j * last) \div d
  <2> DEFINE p == (i * last) \div d
             q == (j * last) \div d
  <2>1. p \in Nat /\ q \in Nat /\ d * p <= i * last /\ j * last < d * q + d
    BY <1>2
  <2>2. i * last + last <= j * last
    <3>1. PICK k \in Nat : j = i + 1 + k
      <4>1. j - i - 1 \in Nat /\ j = i + 1 + (j - i - 1)
        BY <1>5
      <4> QED  BY <4>1
    <3>2. (i + 1 + k) * last = i * last + last + k * last /\ k * last \in Nat
      OBVIOUS
    <3> QED  BY <3>1, <3>2
  <2> HIDE DEF p, q
  <2>3. d * p < d * q
    <3>1. d * p \in Nat /\ d * q \in Nat /\ i * last \in Nat /\ j * last \in Nat
      BY <1>1, <2>1
    <3> QED  BY <1>1, <2>1, <2>2, <3>1
  <2>4. p < q
    BY <1>1, <2>1, <2>3
  <2> QED  BY <2>4 DEF p, q
<1>6. ASSUME NEW i \in 0 .. d
      PROVE  (i * last) \div d \in 0 .. last
  <2>1. i = d \/ (i * last) \div d < (d * last) \div d
    BY <1>1, <1>5
  <2> QED  BY <1>1, <1>2, <1>4, <2>1
<1> QED  BY <1>1, <1>3, <1>4, <1>5, <1>6 DEF SampleIndex, d

\* A track: strictly later from point to point.
Later(s) == \A i, j \in 1 .. Len(s) : i < j => s[i] < s[j]

(* The thinning of mergeAndDownsample (drone_service.go, 160-173): of a     *)
(* track it makes a track of at most n of its points, with its last point,  *)
(* and with its first one unless only one is asked for.                     *)
THEOREM DownsampleKeepsTrack ==
    ASSUME NEW s \in Seq(Nat), s # <<>>, Later(s), NEW n \in Nat \ {0}
    PROVE  /\ Downsample(s, n) \in Seq(Nat) /\ Downsample(s, n) # <<>>
           /\ Len(Downsample(s, n)) <= n
           /\ Later(Downsample(s, n))
           /\ \A i \in 1 .. Len(Downsample(s, n)) :
                \E k \in 1 .. Len(s) : Downsample(s, n)[i] = s[k]
           /\ Last(Downsample(s, n)) = Last(s)
           /\ n > 1 => Head(Downsample(s, n)) = Head(s)
           /\ Len(s) <= n => Downsample(s, n) = s
<1>1. Len(s) \in Nat \ {0}
  OBVIOUS
<1>2. CASE Len(s) <= n
  BY <1>1, <1>2 DEF Downsample
<1>3. CASE Len(s) > n /\ n = 1
  <2>1. Downsample(s, n) = <<s[Len(s)]>> /\ s[Len(s)] \in Nat
    BY <1>1, <1>3 DEF Downsample
  <2> DEFINE t == <<s[Len(s)]>>
  <2>2. /\ t \in Seq(Nat) /\ t # <<>> /\ Len(t) = 1
        /\ Last(t) = s[Len(s)] /\ t[1] = s[Len(s)]
    BY <2>1 DEF Last
  <2>3. Later(t)
    BY <2>2 DEF Later
  <2>4. Len(s) \in 1 .. Len(s) /\ Last(s) = s[Len(s)]
    BY <1>1 DEF Last
  <2> HIDE DEF t
  <2>5. Downsample(s, n) = t
    BY <2>1 DEF t
  <2>6. \A i \in 1 .. Len(t) : t[i] = s[Len(s)]
    BY <2>2
  <2>7. ~(n > 1) /\ ~(Len(s) <= n) /\ Len(t) <= n
    BY <1>1, <1>3, <2>2
  <2> QED  BY <2>2, <2>3, <2>4, <2>5, <2>6, <2>7
<1>4. CASE Len(s) > n /\ n > 1
  <2> DEFINE at(i) == SampleIndex(i - 1, Len(s) - 1, n) + 1
             t == [i \in 1 .. n |-> s[at(i)]]
  <2>1. /\ Len(s) - 1 \in Nat /\ 1 < n /\ n <= Len(s) - 1
    BY <1>1, <1>4
  <2>2. /\ at(1) = 1 /\ at(n) = Len(s)
        /\ \A i \in 1 .. n : at(i) \in 1 .. Len(s)
        /\ \A i, j \in 1 .. n : i < j => at(i) < at(j)
    <3>1. /\ SampleIndex(0, Len(s) - 1, n) = 0
          /\ SampleIndex(n - 1, Len(s) - 1, n) = Len(s) - 1
          /\ \A i \in 0 .. n - 1 : SampleIndex(i, Len(s) - 1, n) \in 0 .. Len(s) - 1
          /\ \A i, j \in 0 .. n - 1 :
               i < j => SampleIndex(i, Len(s) - 1, n) < SampleIndex(j, Len(s) - 1, n)
      BY <2>1, SamplesAdvance
    <3>2. \A i \in 1 .. n : i - 1 \in 0 .. n - 1
      OBVIOUS
    <3>3. \A i, j \in 1 .. n : i < j => i - 1 < j - 1
      OBVIOUS
    <3>4. 1 \in 1 .. n /\ n \in 1 .. n /\ 1 - 1 = 0
      BY <2>1
    <3>5. at(1) = 1 /\ at(n) = Len(s)
      BY <3>1, <3>4, <1>1
    <3>6. ASSUME NEW i \in 1 .. n
          PROVE  at(i) \in 1 .. Len(s)
      <4>1. SampleIndex(i - 1, Len(s) - 1, n) \in 0 .. Len(s) - 1
        BY <3>1, <3>2
      <4> QED  BY <4>1, <1>1
    <3>7. ASSUME NEW i \in 1 .. n, NEW j \in 1 .. n, i < j
          PROVE  at(i) < at(j)
      <4>1. /\ SampleIndex(i - 1, Len(s) - 1, n) \in 0 .. Len(s) - 1
            /\ SampleIndex(j - 1, Len(s) - 1, n) \in 0 .. Len(s) - 1
            /\ SampleIndex(i - 1, Len(s) - 1, n) < SampleIndex(j - 1, Len(s) - 1, n)
        BY <3>1, <3>2, <3>3, <3>7
      <4> QED  BY <4>1, <1>1
    <3> QED  BY <3>5, <3>6, <3>7
  <2>3. Downsample(s, n) = t
    BY <1>4, <2>1 DEF Downsample
  <2> HIDE DEF at
  <2>4. \A i \in 1 .. n : s[at(i)] \in Nat
    BY <2>2
  <2>5. t \in [1 .. n -> Nat]
    BY <2>4
  <2>6. t \in Seq(Nat) /\ Len(t) = n
    BY <2>5
  <2>7. Later(t)
    BY <2>2, <2>6 DEF Later
  <2>8. t # <<>> /\ Head(t) = Head(s) /\ Last(t) = Last(s)
    <3>1. t[1] = s[1] /\ t[n] = s[Len(s)]
      BY <2>1, <2>2
    <3>2. Head(t) = t[1] /\ Last(t) = t[n]
      BY <2>1, <2>6 DEF Last
    <3>3. Head(s) = s[1] /\ Last(s) = s[Len(s)]
      BY DEF Last
    <3> QED  BY <2>1, <2>6, <3>1, <3>2, <3>3
  <2>9. \A i \in 1 .. n : at(i) \in 1 .. Len(s) /\ t[i] = s[at(i)]
    BY <2>2
  <2> HIDE DEF t
  <2>10. \A i \in 1 .. Len(t) : \E k \in 1 .. Len(s) : t[i] = s[k]
    BY <2>6, <2>9
  <2> QED  BY <1>4, <2>3, <2>6, <2>7, <2>8, <2>10
<1> QED  BY <1>1, <1>2, <1>3, <1>4

\* How many of the times are before t.
Rank(times, t) == Cardinality({u \in times : u < t})

(* Ranks number a finite set of times in their order, without a gap.        *)
LEMMA RanksAreBijective ==
    ASSUME NEW times \in SUBSET Nat, IsFiniteSet(times)
    PROVE  /\ Cardinality(times) \in Nat
           /\ \A t \in times : Rank(times, t) \in 0 .. Cardinality(times) - 1
           /\ \A t, u \in times : t < u => Rank(times, t) < Rank(times, u)
           /\ \A i \in 1 .. Cardinality(times) : \E t \in times : Rank(times, t) = i - 1
<1> DEFINE n == Cardinality(times)
           before(t) == {u \in times : u < t}
<1>1. n \in Nat
  BY FS_CardinalityType
<1>2. ASSUME NEW t \in times
      PROVE  /\ IsFiniteSet(before(t)) /\ Cardinality(before(t)) \in Nat
             /\ Cardinality(before(t)) < n
  <2>1. before(t) \in SUBSET times /\ t \notin before(t)
    OBVIOUS
  <2>2. /\ IsFiniteSet(before(t))
        /\ Cardinality(before(t)) <= n
        /\ n = Cardinality(before(t)) => times = before(t)
    BY <2>1, FS_Subset
  <2>3. Cardinality(before(t)) \in Nat
    BY <2>2, FS_CardinalityType
  <2>4. n # Cardinality(before(t))
    BY <2>1, <2>2
  <2> HIDE DEF before, n
  <2> QED  BY <1>1, <2>2, <2>3, <2>4
<1>3. ASSUME NEW t \in times, NEW u \in times, t < u
      PROVE  Cardinality(before(t)) < Cardinality(before(u))
  <2>1. t \in Nat /\ u \in Nat /\ \A v \in times : v \in Nat
    OBVIOUS
  <2>2. \A v \in before(t) : v \in before(u)
    BY <1>3, <2>1
  <2>3. t \in before(u) /\ t \notin before(t)
    BY <1>3, <2>1
  <2>4. /\ Cardinality(before(t)) <= Cardinality(before(u))
        /\ Cardinality(before(u)) = Cardinality(before(t)) => before(u) = before(t)
    BY <1>2, <2>2, FS_Subset
  <2>5. Cardinality(before(t)) # Cardinality(before(u))
    BY <2>3, <2>4
  <2>6. Cardinality(before(t)) \in Nat /\ Cardinality(before(u)) \in Nat
    BY <1>2
  <2> HIDE DEF before
  <2> QED  BY <2>4, <2>5, <2>6
<1> HIDE DEF before
<1> DEFINE r == [t \in times |-> Cardinality(before(t)) + 1]
<1>4. r \in Injection(times, 1 .. n)
  <2>1. \A t \in times : Cardinality(before(t)) + 1 \in 1 .. n
    BY <1>1, <1>2
  <2>2. r \in [times -> 1 .. n]
    BY <2>1
  <2>3. ASSUME NEW t \in times, NEW u \in times, r[t] = r[u]
        PROVE  t = u
    <3>1. Cardinality(before(t)) = Cardinality(before(u))
      BY <1>2, <2>3
    <3>2. ~(t < u) /\ ~(u < t)
      BY <1>2, <1>3, <3>1
    <3> QED  BY <3>2
  <2> QED  BY <2>2, <2>3 DEF Injection, IsInjective
<1>5. IsFiniteSet(1 .. n) /\ Cardinality(1 .. n) = n
  BY <1>1, FS_Interval
<1>6. r \in Surjection(times, 1 .. n)
  BY <1>4, <1>5, FS_Injection
<1>7. \A i \in 1 .. n : \E t \in times : r[t] = i
  BY <1>6 DEF Surjection
<1>8. ASSUME NEW i \in 1 .. n
      PROVE  \E t \in times : Cardinality(before(t)) = i - 1
  <2>1. PICK t \in times : r[t] = i
    BY <1>7
  <2>2. Cardinality(before(t)) \in Nat
    BY <1>2
  <2> QED  BY <2>1, <2>2
<1>9. \A t \in times : Rank(times, t) = Cardinality(before(t))
  BY DEF Rank, before
<1>10. \A t \in times : Rank(times, t) \in 0 .. n - 1
  BY <1>1, <1>2, <1>9
<1> QED  BY <1>1, <1>3, <1>8, <1>9, <1>10

(* Chronological sorts: it makes a track of exactly the times it is given.  *)
LEMMA ChronologicalSorts ==
    ASSUME NEW times \in SUBSET Nat, IsFiniteSet(times)
    PROVE  /\ Chronological(times) \in Seq(Nat)
           /\ Len(Chronological(times)) = Cardinality(times)
           /\ Later(Chronological(times))
           /\ ToSet(Chronological(times)) = times
<1> DEFINE n == Cardinality(times)
           at(i) == CHOOSE t \in times : Rank(times, t) = i - 1
           s == [i \in 1 .. n |-> at(i)]
<1>1. /\ n \in Nat
      /\ \A t \in times : Rank(times, t) \in 0 .. n - 1
      /\ \A t, u \in times : t < u => Rank(times, t) < Rank(times, u)
      /\ \A i \in 1 .. n : \E t \in times : Rank(times, t) = i - 1
  BY RanksAreBijective
<1>2. Chronological(times) = s
  BY DEF Chronological, Rank
<1>3. \A i \in 1 .. n : at(i) \in times /\ Rank(times, at(i)) = i - 1
  BY <1>1
<1> HIDE DEF at, n
<1>4. s \in [1 .. n -> Nat]
  BY <1>3
<1>5. s \in Seq(Nat) /\ Len(s) = n
  BY <1>1, <1>4
<1>6. ASSUME NEW i \in 1 .. n, NEW j \in 1 .. n, i < j
      PROVE  s[i] < s[j]
  <2>1. at(i) \in times /\ at(j) \in times /\ Rank(times, at(i)) < Rank(times, at(j))
    BY <1>1, <1>3, <1>6
  <2>2. ~(at(j) < at(i)) /\ at(j) # at(i)
    <3>1. Rank(times, at(i)) \in Int /\ Rank(times, at(j)) \in Int
      BY <1>3
    <3>2. at(j) < at(i) => Rank(times, at(j)) < Rank(times, at(i))
      BY <1>1, <2>1
    <3> QED  BY <2>1, <3>1, <3>2
  <2>3. at(i) \in Nat /\ at(j) \in Nat
    BY <2>1
  <2> QED  BY <2>2, <2>3
<1>7. Later(s)
  BY <1>5, <1>6 DEF Later
<1>8. DOMAIN s = 1 .. n
  OBVIOUS
<1>9. \A i \in 1 .. n : s[i] \in times
  BY <1>3
<1>10. ASSUME NEW t \in times
       PROVE  \E i \in 1 .. n : s[i] = t
  <2>1. Rank(times, t) + 1 \in 1 .. n
    BY <1>1
  <2>2. /\ at(Rank(times, t) + 1) \in times
        /\ Rank(times, at(Rank(times, t) + 1)) = Rank(times, t)
    BY <1>1, <1>3, <2>1
  <2>3. at(Rank(times, t) + 1) = t
    <3> DEFINE u == at(Rank(times, t) + 1)
    <3>1. u \in times /\ Rank(times, u) = Rank(times, t) /\ Rank(times, t) \in Int
      BY <1>1, <2>2
    <3> HIDE DEF u
    <3>2. ~(u < t) /\ ~(t < u)
      BY <1>1, <3>1
    <3>3. u \in Nat /\ t \in Nat
      BY <3>1
    <3>4. u = t
      BY <3>2, <3>3
    <3> QED  BY <3>4 DEF u
  <2> QED  BY <2>1, <2>3
<1>11. ToSet(s) = times
  BY <1>8, <1>9, <1>10 DEF ToSet
<1> HIDE DEF s
<1> QED  BY <1>2, <1>5, <1>7, <1>11 DEF n

(* Every point of a track lies between its ends.                            *)
LEMMA TrackEnds ==
    ASSUME NEW s \in Seq(Nat), s # <<>>, Later(s)
    PROVE  \A p \in ToSet(s) : Head(s) <= p /\ p <= Last(s)
<1>1. Head(s) = s[1] /\ Last(s) = s[Len(s)] /\ DOMAIN s = 1 .. Len(s)
  BY DEF Last
<1>2. ASSUME NEW i \in 1 .. Len(s) PROVE s[1] <= s[i] /\ s[i] <= s[Len(s)]
  <2>1. 1 \in 1 .. Len(s) /\ Len(s) \in 1 .. Len(s)
    OBVIOUS
  <2>2. (i = 1 \/ 1 < i) /\ (i = Len(s) \/ i < Len(s))
    OBVIOUS
  <2>3. s[i] \in Nat /\ s[1] \in Nat /\ s[Len(s)] \in Nat
    BY <2>1
  <2> QED  BY <2>1, <2>2, <2>3 DEF Later
<1> QED  BY <1>1, <1>2 DEF ToSet

(* The rows of a query are rows of the table.                               *)
LEMMA BucketsPickRows ==
    ASSUME NEW s \in Seq(Nat), NEW n \in Nat \ {0}
    PROVE  /\ FirstOfBuckets(s, n) \in Seq(Nat)
           /\ ToSet(FirstOfBuckets(s, n)) \subseteq ToSet(s)
<1> DEFINE L == Len(s)
           q == L \div n
           longer == L % n
           at(j) == (j - 1) * q + (IF j - 1 < longer THEN j - 1 ELSE longer) + 1
<1>1. CASE L <= n
  BY <1>1 DEF FirstOfBuckets
<1>2. CASE ~(L <= n)
  <2>1. L \in Nat /\ n < L
    BY <1>2
  <2>2. q \in Nat /\ longer \in Nat /\ longer < n /\ L = n * q + longer
    BY <2>1
  <2> HIDE DEF L, q, longer
  <2>3. q >= 1
    <3>1. q # 0
      BY <2>1, <2>2
    <3> QED  BY <2>2, <3>1
  <2>4. ASSUME NEW j \in 1 .. n PROVE at(j) \in 1 .. L
    <3>1. PICK k \in Nat : n = j + k
      <4>1. n - j \in Nat /\ n = j + (n - j)
        OBVIOUS
      <4> QED  BY <4>1
    <3>2. (j - 1) * q \in Nat /\ n * q = (j - 1) * q + q + k * q /\ k * q \in Nat
      BY <2>2, <3>1
    <3>3. (j - 1) * q + q <= n * q
      BY <2>2, <3>2
    <3> QED  BY <2>1, <2>2, <2>3, <3>2, <3>3
  <2>5. FirstOfBuckets(s, n) = [j \in 1 .. n |-> s[at(j)]]
    BY <1>2 DEF FirstOfBuckets, L, q, longer
  <2> HIDE DEF at
  <2>6. \A j \in 1 .. n : s[at(j)] \in Nat /\ s[at(j)] \in ToSet(s)
    BY <2>4 DEF ToSet, L
  <2>7. [j \in 1 .. n |-> s[at(j)]] \in Seq(Nat)
    BY <2>6
  <2>8. ToSet([j \in 1 .. n |-> s[at(j)]]) \subseteq ToSet(s)
    BY <2>6 DEF ToSet
  <2> QED  BY <2>5, <2>7, <2>8
<1> QED  BY <1>1, <1>2

(* What mergeAndDownsample makes of the points it is given.                 *)
LEMMA MergeMakesTrack ==
    ASSUME NEW U \in SUBSET Nat, IsFiniteSet(U), NEW n \in Nat \ {0},
           NEW m, m = Downsample(Chronological(U), n)
    PROVE  /\ m \in Seq(Nat) /\ Len(m) <= n /\ Later(m)
           /\ ToSet(m) \subseteq U
           /\ Cardinality(U) <= n => ToSet(m) = U
           /\ U # {} => /\ m # <<>>
                        /\ \A p \in U : p <= Last(m) /\ (n > 1 => Head(m) <= p)
<1> DEFINE s == Chronological(U)
<1>1. /\ s \in Seq(Nat) /\ Len(s) = Cardinality(U)
      /\ Later(s) /\ ToSet(s) = U
  BY ChronologicalSorts
<1> HIDE DEF s
<1>2. m = Downsample(s, n)
  BY DEF s
<1>3. CASE s = <<>>
  <2>1. Len(s) = 0 /\ Len(s) <= n
    BY <1>3
  <2>2. m = s
    BY <1>2, <2>1 DEF Downsample
  <2>3. U = {}
    BY <1>1, <1>3 DEF ToSet
  <2> QED  BY <1>1, <2>1, <2>2, <2>3
<1>4. CASE s # <<>>
  <2>1. /\ m \in Seq(Nat) /\ m # <<>> /\ Len(m) <= n /\ Later(m)
        /\ \A i \in 1 .. Len(m) : \E k \in 1 .. Len(s) : m[i] = s[k]
        /\ Last(m) = Last(s)
        /\ n > 1 => Head(m) = Head(s)
        /\ Len(s) <= n => m = s
    BY <1>1, <1>2, <1>4, DownsampleKeepsTrack
  <2>2. ToSet(m) \subseteq ToSet(s)
    <3>1. DOMAIN m = 1 .. Len(m) /\ DOMAIN s = 1 .. Len(s)
      BY <1>1, <2>1
    <3> QED  BY <2>1, <3>1 DEF ToSet
  <2>3. \A p \in U : Head(s) <= p /\ p <= Last(s)
    BY <1>1, <1>4, TrackEnds
  <2> QED  BY <1>1, <2>1, <2>2, <2>3
<1> QED  BY <1>3, <1>4

(* The newest n points of a track that has more of them are n of its points *)
(* and later than all others.                                               *)
LEMMA NewestAreLater ==
    ASSUME NEW s \in Seq(Nat), Later(s), NEW n \in Nat \ {0},
           NEW a, a = History!Newest(s, n)
    PROVE  /\ a \in Seq(Nat)
           /\ ToSet(a) \subseteq ToSet(s)
           /\ Len(s) <= n => a = s
           /\ \A p \in ToSet(s) \ ToSet(a) :
                 /\ IsFiniteSet(ToSet(a)) /\ Cardinality(ToSet(a)) = n
                 /\ \A q \in ToSet(a) : p < q
<1>1. Len(s) \in Nat /\ DOMAIN s = 1 .. Len(s)
  OBVIOUS
<1>2. CASE Len(s) <= n
  BY <1>1, <1>2 DEF History!Newest
<1>3. CASE n < Len(s)
  <2> DEFINE k == Len(s) - n
  <2>1. a = SubSeq(s, Len(s) - n + 1, Len(s))
    BY <1>1, <1>3 DEF History!Newest
  <2>2. k \in Nat /\ Len(s) = k + n
    BY <1>1, <1>3
  <2>3. a \in Seq(Nat) /\ Len(a) = n /\ \A i \in 1 .. n : a[i] = s[k + i]
    BY <1>1, <1>3, <2>1
  <2> HIDE DEF k
  <2>4. DOMAIN a = 1 .. n
    BY <2>3
  <2>5. \A i \in 1 .. n : k + i \in 1 .. Len(s)
    BY <2>2
  <2>6. ToSet(a) \subseteq ToSet(s)
    BY <1>1, <2>3, <2>4, <2>5 DEF ToSet
  <2>7. IsFiniteSet(ToSet(a)) /\ Cardinality(ToSet(a)) = n
    <3>1. a \in [1 .. n -> ToSet(a)]
      BY <2>3, <2>4 DEF ToSet
    <3>2. a \in Surjection(1 .. n, ToSet(a))
      BY <2>4, <3>1 DEF Surjection, ToSet
    <3>3. ASSUME NEW i \in 1 .. n, NEW j \in 1 .. n, i < j PROVE a[i] # a[j]
      <4>1. k + i < k + j
        BY <2>2, <3>3
      <4>2. a[i] < a[j]
        BY <2>3, <2>5, <4>1 DEF Later
      <4>3. a[i] \in Nat /\ a[j] \in Nat
        BY <2>3
      <4> QED  BY <4>2, <4>3
    <3>4. ASSUME NEW i \in 1 .. n, NEW j \in 1 .. n, a[i] = a[j] PROVE i = j
      <4>1. ~(i < j) /\ ~(j < i)
        BY <3>3, <3>4
      <4> QED  BY <4>1
    <3>5. a \in Injection(1 .. n, ToSet(a))
      BY <3>1, <3>4 DEF Injection, IsInjective
    <3>6. IsFiniteSet(1 .. n) /\ Cardinality(1 .. n) = n
      BY FS_Interval
    <3> QED  BY <3>2, <3>5, <3>6, FS_Surjection
  <2>8. ASSUME NEW p \in ToSet(s) \ ToSet(a), NEW q \in ToSet(a)
        PROVE  p < q
    <3>1. PICK i \in 1 .. Len(s) : p = s[i]
      BY <1>1 DEF ToSet
    <3>2. PICK j \in 1 .. n : q = a[j]
      BY <2>4 DEF ToSet
    <3>3. i <= k
      <4>1. ASSUME ~(i <= k) PROVE FALSE
        <5>1. i - k \in 1 .. n /\ k + (i - k) = i
          BY <2>2, <4>1
        <5>2. a[i - k] = p
          BY <2>3, <3>1, <5>1
        <5> QED  BY <2>4, <5>1, <5>2 DEF ToSet
      <4> QED  BY <4>1
    <3>4. i < k + j /\ k + j \in 1 .. Len(s)
      BY <2>2, <2>5, <3>3
    <3> QED  BY <2>3, <3>1, <3>2, <3>4 DEF Later
  <2> QED  BY <1>3, <2>3, <2>6, <2>7, <2>8
<1> QED  BY <1>1, <1>2, <1>3
-----------------------------------------------------------------------------
(* The RPC and the ring.                                                    *)

\* A call under way asks the cache for a number of points it allows.
LimitInv == phase # "idle" => limit \in Limits

(* The limit of a call is one the cache accepts.                            *)
LEMMA LimitIsLegal == QuerySpec => []LimitInv
<1>1. QueryInit => LimitInv
  BY DEF QueryInit, LimitInv
<1>2. LimitInv /\ [QueryNext]_allVars => LimitInv'
  <2> SUFFICES ASSUME LimitInv, [QueryNext]_allVars PROVE LimitInv'
    OBVIOUS
  <2> USE DEF LimitInv
  <2>1. ASSUME NEW p \in Point, Record(p) PROVE LimitInv'
    BY <2>1 DEF Record, queryVars
  <2>2. CASE Forget \/ Flush \/ Purge
    BY <2>2 DEF Forget, Flush, Purge, queryVars
  <2>3. ASSUME NEW s \in Starts, NEW e \in Ends, NEW n \in Limits, Ask(s, e, n)
        PROVE  LimitInv'
    <3>1. PointLimit(n) \in Limits
      BY PointsAssumption DEF PointLimit
    <3> QED  BY <2>3, <3>1 DEF Ask
  <2>4. CASE QueryRows \/ ReadCache
    BY <2>4 DEF QueryRows, ReadCache
  <2>5. CASE UNCHANGED allVars
    BY <2>5 DEF allVars, queryVars
  <2> QED  BY <2>1, <2>2, <2>3, <2>4, <2>5 DEF QueryNext
<1> QED  BY <1>1, <1>2, PTL DEF QuerySpec

(* Whatever a GetHistory call interleaves with, the ring takes steps of its *)
(* own specification only: one read per call, no write.                     *)
THEOREM QueryImplementsRing == QuerySpec => Spec
<1>1. QueryInit => Init
  BY DEF QueryInit
<1>2. LimitInv /\ [QueryNext]_allVars => [Next]_vars
  <2> SUFFICES ASSUME LimitInv, [QueryNext]_allVars PROVE [Next]_vars
    OBVIOUS
  <2>1. ASSUME NEW p \in Point, Record(p) PROVE [Next]_vars
    BY <2>1 DEF Record, Next
  <2>2. CASE Forget
    BY <2>2 DEF Forget, Next
  <2>3. CASE Flush \/ Purge \/ QueryRows \/ UNCHANGED allVars
    BY <2>3 DEF Flush, Purge, QueryRows, allVars
  <2>4. ASSUME NEW s \in Starts, NEW e \in Ends, NEW n \in Limits, Ask(s, e, n)
        PROVE  [Next]_vars
    BY <2>4 DEF Ask
  <2>5. CASE ReadCache
    BY <2>5 DEF ReadCache, LimitInv, Next
  <2> QED  BY <2>1, <2>2, <2>3, <2>4, <2>5 DEF QueryNext
<1> QED  BY <1>1, <1>2, LimitIsLegal, PTL DEF QuerySpec, Spec

(* Beside the RPC, too, the ring implements the bounded window ...          *)
THEOREM QueriedRingImplementsWindow == QuerySpec => ImplementsBoundedHistory
<1> QED  BY QueryImplementsRing, RingImplementsWindow, PTL

(* ... and the latest update is the last point of the track.                *)
THEOREM QueriedLatestEndsTrack == QuerySpec => []LatestEndsTrack
<1> QED  BY QueryImplementsRing, LatestEndsTrackAlways, PTL
-----------------------------------------------------------------------------
(* The answer of a call.                                                    *)
USE CapacityAssumption, TimeAssumption

\* The ring is a track of the past.
PastInv == Later(Window) /\ \A p \in ToSet(Window) : p <= clock

\* The rows a call has read are rows of its window, and it has no answer yet.
CallInv ==
    /\ phase = "cache" =>
         \A p \in ToSet(rows) : Stored(start) <= p /\ p <= end
    /\ phase # "idle" => reply = <<>>

\* QueryTypeOK without the ring's part of it.
QueryTypes ==
    /\ clock \in Nat /\ start \in Nat /\ end \in Nat
    /\ phase \in {"idle", "rows", "cache"}
    /\ limit \in Limits /\ limit <= MaxPoints /\ (phase # "idle" => limit > 0)
    /\ rows \in Seq(Nat) /\ reply \in Seq(Nat)
    /\ \A p \in unsaved \cup table \cup ToSet(rows) \cup ToSet(reply) :
          p \in Nat /\ p <= clock

QueryInv == QueryTypes /\ PastInv /\ CallInv /\ AnswerInOrder

(* Storing a time rounds it down.                                           *)
LEMMA StoredIsEarlier ==
    \A t \in Nat : Stored(t) \in Nat /\ Stored(t) <= t
<1> SUFFICES ASSUME NEW t \in Nat PROVE Stored(t) \in Nat /\ Stored(t) <= t
  OBVIOUS
<1>1. t \div Resolution \in Nat /\ Resolution * (t \div Resolution) <= t
  BY DivisionRoundsDown
<1>2. (t \div Resolution) * Resolution = Resolution * (t \div Resolution)
  BY <1>1
<1>3. (t \div Resolution) * Resolution \in Nat
  BY <1>1
<1> QED  BY <1>1, <1>2, <1>3 DEF Stored

(* A ring holds times.                                                      *)
LEMMA WindowIsTimes ==
    ASSUME RingInv
    PROVE  Window \in Seq(Nat)
<1>1. Window \in Seq(Point) /\ Point \subseteq Nat
  BY WindowIsTrack
<1>2. /\ Len(Window) \in Nat /\ DOMAIN Window = 1 .. Len(Window)
      /\ \A i \in 1 .. Len(Window) : Window[i] \in Point
  BY <1>1
<1>3. Window = [i \in 1 .. Len(Window) |-> Window[i]]
  BY <1>1
<1>4. \A i \in 1 .. Len(Window) : Window[i] \in Nat
  BY <1>1, <1>2
<1>5. [i \in 1 .. Len(Window) |-> Window[i]] \in Seq(Nat)
  BY <1>2, <1>4
<1> QED  BY <1>3, <1>5

(* Reading the rows: the part of the table in the window, whole or thinned. *)
LEMMA RowsComeFromWindow ==
    ASSUME QueryInv, QueryRows
    PROVE  /\ rows' \in Seq(Nat)
           /\ \A p \in ToSet(rows') :
                p \in table /\ Stored(start) <= p /\ p <= end
<1> DEFINE window == {r \in table : Stored(start) <= r /\ r <= Stored(end)}
<1>1. /\ clock \in Nat /\ end \in Nat /\ limit \in Nat \ {0}
      /\ \A p \in table : p \in Nat /\ p <= clock
  BY LimitsAssumption DEF QueryInv, QueryTypes, QueryRows
<1>2. window \in SUBSET Nat /\ IsFiniteSet(window)
  <2>1. window \in SUBSET Nat /\ \A p \in window : p <= clock
    BY <1>1
  <2> HIDE DEF window
  <2> QED  BY <1>1, <2>1, FS_BoundedSetOfNaturals
<1>3. rows' \in {<<>>, FirstOfBuckets(Chronological(window), limit)}
  BY DEF QueryRows
<1>4. Stored(end) <= end /\ Stored(end) \in Nat
  BY <1>1, StoredIsEarlier
<1>5. \A p \in window : p \in table /\ Stored(start) <= p /\ p <= Stored(end) /\ p \in Nat
  BY <1>1
<1> HIDE DEF window
<1>6. CASE rows' = <<>>
  BY <1>6 DEF ToSet
<1>7. CASE rows' = FirstOfBuckets(Chronological(window), limit)
  <2>1. Chronological(window) \in Seq(Nat) /\ ToSet(Chronological(window)) = window
    BY <1>2, ChronologicalSorts
  <2>2. rows' \in Seq(Nat) /\ ToSet(rows') \subseteq window
    BY <1>1, <1>7, <2>1, BucketsPickRows
  <2>3. \A p \in window : p <= end
    BY <1>1, <1>4, <1>5
  <2> QED  BY <1>5, <2>2, <2>3
<1> QED  BY <1>3, <1>6, <1>7

(* Reading the cache: the answer is the track that mergeAndDownsample makes *)
(* of the rows and of the newest points of the ring.                        *)
LEMMA AnswerIsMerged ==
    ASSUME RingInv, QueryInv, ReadCache
    PROVE  /\ limit \in Nat \ {0}
           /\ Window \in Seq(Nat) /\ Window' = Window
           /\ answer' = History!Newest(Window, limit)
           /\ ToSet(answer') \subseteq ToSet(Window)
           /\ ToSet(rows) \cup InWindow(answer') \in SUBSET Nat
           /\ IsFiniteSet(ToSet(rows) \cup InWindow(answer'))
           /\ \A p \in ToSet(rows) \cup InWindow(answer') :
                Stored(start) <= p /\ p <= end /\ p <= clock
           /\ reply' = Downsample(Chronological(ToSet(rows) \cup InWindow(answer')), limit)
<1>1. limit \in Nat \ {0} /\ clock \in Nat /\ start \in Nat /\ end \in Nat
  BY LimitsAssumption DEF QueryInv, QueryTypes, ReadCache
<1>2. Window \in Seq(Nat)
  BY WindowIsTimes
<1>3. answer' = History!Newest(Window, limit) /\ ring' = ring
  BY <1>1, ReadIsNewest DEF ReadCache, GetHistory
<1>4. Window' = Window
  BY <1>3 DEF Window
<1>5. ToSet(answer') \subseteq ToSet(Window)
  BY <1>1, <1>2, <1>3, NewestAreLater DEF QueryInv, PastInv
<1>6. ASSUME NEW p \in ToSet(rows)
      PROVE  p \in Nat /\ Stored(start) <= p /\ p <= end /\ p <= clock
  BY DEF QueryInv, QueryTypes, CallInv, ReadCache
<1>7. ASSUME NEW p \in InWindow(answer')
      PROVE  p \in Nat /\ Stored(start) <= p /\ p <= end /\ p <= clock
  <2>1. p \in ToSet(answer') /\ start <= p /\ p <= end
    BY DEF InWindow
  <2>2. p \in Nat
    BY <1>2, <1>5, <2>1 DEF ToSet
  <2>3. p <= clock
    BY <1>5, <2>1 DEF QueryInv, PastInv
  <2>4. Stored(start) \in Nat /\ Stored(start) <= start
    BY <1>1, StoredIsEarlier
  <2> QED  BY <1>1, <2>1, <2>2, <2>3, <2>4
<1> DEFINE U == ToSet(rows) \cup InWindow(answer')
<1>8. U \in SUBSET Nat /\ \A p \in U : p <= clock
  BY <1>6, <1>7
<1>9. IsFiniteSet(U)
  <2> HIDE DEF U
  <2> QED  BY <1>1, <1>8, FS_BoundedSetOfNaturals
<1>10. reply' = Downsample(Chronological(U), limit)
  BY DEF ReadCache, mergeAndDownsample
<1> QED  BY <1>1, <1>2, <1>3, <1>4, <1>5, <1>6, <1>7, <1>8, <1>9, <1>10

(* A tick appends a point later than all others to the track.               *)
LEMMA RecordKeepsPast ==
    ASSUME RingInv, QueryInv, NEW p \in Point, Record(p)
    PROVE  PastInv'
<1>1. /\ clock \in Nat /\ p \in Nat /\ clock < p /\ clock' = p
      /\ History!Record(p)
  BY SetRecords DEF QueryInv, QueryTypes, Record
<1>2. Window \in Seq(Nat)
  BY WindowIsTimes
<1> DEFINE old == IF Len(Window) < Capacity THEN Window ELSE Tail(Window)
<1>3. Window' = Append(old, p)
  BY <1>1 DEF History!Record
<1>4. \A i, j \in 1 .. Len(Window) : i < j => Window[i] < Window[j]
  BY DEF QueryInv, PastInv, Later
<1>5. \A i \in 1 .. Len(Window) : Window[i] <= clock
  BY <1>2 DEF QueryInv, PastInv, ToSet
<1>6. /\ old \in Seq(Nat)
      /\ \A i, j \in 1 .. Len(old) : i < j => old[i] < old[j]
      /\ \A i \in 1 .. Len(old) : old[i] <= clock
  <2>1. CASE Len(Window) < Capacity
    BY <1>2, <1>4, <1>5, <2>1
  <2>2. CASE ~(Len(Window) < Capacity)
    <3>1. Len(Window) \in Nat /\ Len(Window) > 0 /\ Window # <<>>
      BY <1>2, <2>2
    <3>2. /\ Tail(Window) \in Seq(Nat) /\ Len(Tail(Window)) = Len(Window) - 1
          /\ \A i \in 1 .. Len(Window) - 1 : Tail(Window)[i] = Window[i + 1]
      BY <1>2, <3>1
    <3>3. \A i \in 1 .. Len(Window) - 1 : i + 1 \in 1 .. Len(Window)
      BY <3>1
    <3>4. \A i, j \in 1 .. Len(Window) - 1 : i < j => i + 1 < j + 1
      OBVIOUS
    <3>5. old = Tail(Window)
      BY <2>2
    <3> HIDE DEF old
    <3> QED  BY <1>4, <1>5, <3>2, <3>3, <3>4, <3>5
  <2> QED  BY <2>1, <2>2
<1> HIDE DEF old
<1>7. /\ Append(old, p) \in Seq(Nat) /\ Len(Append(old, p)) = Len(old) + 1 /\ Len(old) \in Nat
      /\ Append(old, p)[Len(old) + 1] = p
      /\ \A i \in 1 .. Len(old) : Append(old, p)[i] = old[i] /\ old[i] \in Nat
  BY <1>1, <1>6
<1>8. ASSUME NEW i \in 1 .. Len(old) + 1, NEW j \in 1 .. Len(old) + 1, i < j
      PROVE  Append(old, p)[i] < Append(old, p)[j]
  <2>1. i \in 1 .. Len(old)
    BY <1>7, <1>8
  <2>2. CASE j \in 1 .. Len(old)
    BY <1>6, <1>7, <1>8, <2>1, <2>2
  <2>3. CASE j = Len(old) + 1
    <3>1. Append(old, p)[i] \in Nat /\ Append(old, p)[i] <= clock
      BY <1>6, <1>7, <2>1
    <3> QED  BY <1>1, <1>7, <2>3, <3>1
  <2> QED  BY <1>7, <2>2, <2>3
<1>9. Later(Window')
  BY <1>3, <1>7, <1>8 DEF Later
<1>10. ASSUME NEW i \in 1 .. Len(old) + 1
       PROVE  Append(old, p)[i] <= p
  <2>1. CASE i \in 1 .. Len(old)
    BY <1>1, <1>6, <1>7, <2>1
  <2>2. CASE i = Len(old) + 1
    BY <1>1, <1>7, <2>2
  <2> QED  BY <1>7, <2>1, <2>2
<1>11. \A q \in ToSet(Window') : q <= clock'
  <2>1. DOMAIN Append(old, p) = 1 .. Len(old) + 1
    BY <1>7
  <2> QED  BY <1>1, <1>3, <1>10, <2>1 DEF ToSet
<1> QED  BY <1>9, <1>11 DEF PastInv

(* What goes on beside the call keeps its variables right.                  *)
LEMMA BesideKeepsTypes ==
    ASSUME QueryTypes, CallInv, AnswerInOrder, UNCHANGED queryVars,
           clock' \in Nat, clock <= clock',
           \A p \in unsaved' \cup table' : p \in Nat /\ p <= clock'
    PROVE  (QueryTypes /\ CallInv /\ AnswerInOrder)'
<1>1. \A p \in ToSet(rows) \cup ToSet(reply) : p \in Nat /\ p <= clock'
  BY DEF QueryTypes
<1>2. /\ phase' = phase /\ start' = start /\ end' = end /\ limit' = limit
      /\ rows' = rows /\ reply' = reply
  BY DEF queryVars
<1>3. CallInv'
  BY <1>2 DEF CallInv, Stored
<1>4. AnswerInOrder'
  BY <1>2 DEF AnswerInOrder, Stored
<1>5. QueryTypes'
  BY <1>1, <1>2 DEF QueryTypes
<1> QED  BY <1>3, <1>4, <1>5

(* The inductive invariant of a call and of what it reads: the ring is a    *)
(* track of the past, the rows are of the window that was asked for, and    *)
(* the answer is in order.                                                  *)
LEMMA QueryStep ==
    ASSUME RingInv, QueryInv, [QueryNext]_allVars
    PROVE  QueryInv'
<1>1. ASSUME NEW p \in Point, Record(p) PROVE QueryInv'
  <2>1. PastInv'
    BY <1>1, RecordKeepsPast
  <2>2. /\ p \in Nat /\ clock' = p /\ clock \in Nat /\ clock <= p
        /\ Stored(p) \in Nat /\ Stored(p) <= p
    BY <1>1, StoredIsEarlier DEF Record, QueryInv, QueryTypes
  <2>3. \A t \in unsaved' \cup table' : t \in Nat /\ t <= clock'
    BY <1>1, <2>2 DEF Record, QueryInv, QueryTypes
  <2>4. (QueryTypes /\ CallInv /\ AnswerInOrder)'
    BY <1>1, <2>2, <2>3, BesideKeepsTypes DEF Record, QueryInv
  <2> QED  BY <2>1, <2>4 DEF QueryInv
<1>2. CASE Forget
  <2>1. Window' = <<>>
    BY <1>2 DEF Forget, Clear, Window
  <2>2. PastInv'
    BY <2>1 DEF PastInv, Later, ToSet
  <2>3. (QueryTypes /\ CallInv /\ AnswerInOrder)'
    BY <1>2, BesideKeepsTypes DEF Forget, QueryInv, QueryTypes
  <2> QED  BY <2>2, <2>3 DEF QueryInv
<1>3. ASSUME UNCHANGED <<vars, clock>> PROVE PastInv'
  BY <1>3 DEF vars, PastInv, Window, QueryInv
<1>4. CASE Flush \/ Purge
  <2>1. \A t \in unsaved' \cup table' : t \in Nat /\ t <= clock'
    BY <1>4 DEF Flush, Purge, QueryInv, QueryTypes
  <2>2. (QueryTypes /\ CallInv /\ AnswerInOrder)'
    BY <1>4, <2>1, BesideKeepsTypes DEF Flush, Purge, QueryInv, QueryTypes
  <2> QED  BY <1>3, <1>4, <2>2 DEF Flush, Purge, QueryInv
<1>5. ASSUME NEW s \in Starts, NEW e \in Ends, NEW n \in Limits, Ask(s, e, n)
      PROVE  QueryInv'
  <2>1. PastInv'
    BY <1>3, <1>5 DEF Ask
  <2>2. /\ PointLimit(n) \in Limits /\ PointLimit(n) <= MaxPoints /\ PointLimit(n) > 0
    BY PointsAssumption, LimitsAssumption DEF PointLimit
  <2>3. /\ limit' \in Limits /\ limit' <= MaxPoints /\ (phase' # "idle" => limit' > 0)
        /\ start' \in Nat /\ end' \in Nat
        /\ phase' \in {"idle", "rows"}
    <3>1. CASE UNCHANGED <<phase, start, end, limit>>
      BY <1>5, <3>1 DEF Ask, QueryInv, QueryTypes
    <3>2. CASE /\ phase' = "rows"
               /\ start' = IF s # Nil THEN s
                           ELSE IF clock > DefaultSpan THEN clock - DefaultSpan ELSE 0
               /\ end' = (IF e # Nil THEN e ELSE clock)
               /\ limit' = PointLimit(n)
      <4>1. clock \in Nat /\ s \in Nat \cup {Nil} /\ e \in Nat \cup {Nil} /\ DefaultSpan \in Nat
        BY DEF QueryInv, QueryTypes
      <4>2. start' \in Nat /\ end' \in Nat
        BY <3>2, <4>1
      <4> QED  BY <2>2, <3>2, <4>2
    <3> QED  BY <1>5, <3>1, <3>2 DEF Ask
  <2>4. /\ reply' = <<>> /\ rows' = rows
        /\ clock' = clock /\ unsaved' = unsaved /\ table' = table
    BY <1>5 DEF Ask
  <2>5. QueryTypes'
    <3>1. ToSet(reply') = {}
      BY <2>4 DEF ToSet
    <3> QED  BY <2>3, <2>4, <3>1 DEF QueryTypes, QueryInv
  <2>6. CallInv'
    BY <2>3, <2>4 DEF CallInv
  <2>7. AnswerInOrder'
    <3>1. Len(reply') = 0 /\ limit' \in Nat
      BY <2>3, <2>4, LimitsAssumption
    <3> QED  BY <3>1 DEF AnswerInOrder
  <2> QED  BY <2>1, <2>5, <2>6, <2>7 DEF QueryInv
<1>6. CASE QueryRows
  <2>1. /\ rows' \in Seq(Nat)
        /\ \A p \in ToSet(rows') : p \in table /\ Stored(start) <= p /\ p <= end
    BY <1>6, RowsComeFromWindow
  <2>2. /\ phase = "rows" /\ phase' = "cache" /\ start' = start /\ end' = end
        /\ limit' = limit /\ reply' = reply
        /\ clock' = clock /\ unsaved' = unsaved /\ table' = table
    BY <1>6 DEF QueryRows
  <2>3. PastInv'
    BY <1>3, <1>6 DEF QueryRows
  <2>4. reply = <<>>
    BY <2>2 DEF QueryInv, CallInv
  <2>5. QueryTypes'
    BY <2>1, <2>2 DEF QueryInv, QueryTypes
  <2>6. CallInv'
    BY <2>1, <2>2, <2>4 DEF CallInv, Stored
  <2>7. AnswerInOrder'
    BY <2>2 DEF QueryInv, AnswerInOrder, Stored
  <2> QED  BY <2>3, <2>5, <2>6, <2>7 DEF QueryInv
<1>7. CASE ReadCache
  <2> DEFINE U == ToSet(rows) \cup InWindow(answer')
  <2>1. /\ limit \in Nat \ {0} /\ Window' = Window
        /\ U \in SUBSET Nat /\ IsFiniteSet(U)
        /\ \A p \in U : Stored(start) <= p /\ p <= end /\ p <= clock
        /\ reply' = Downsample(Chronological(U), limit)
    BY <1>7, AnswerIsMerged
  <2> HIDE DEF U
  <2>2. /\ reply' \in Seq(Nat) /\ Len(reply') <= limit /\ Later(reply')
        /\ ToSet(reply') \subseteq U
    BY <2>1, MergeMakesTrack
  <2>3. /\ phase' = "idle" /\ rows' = <<>> /\ start' = start /\ end' = end
        /\ limit' = limit /\ clock' = clock /\ unsaved' = unsaved /\ table' = table
    BY <1>7 DEF ReadCache
  <2>4. PastInv'
    BY <2>1, <2>3 DEF QueryInv, PastInv
  <2>5. QueryTypes'
    <3>1. ToSet(rows') = {}
      BY <2>3 DEF ToSet
    <3>2. \A p \in ToSet(reply') : p \in Nat /\ p <= clock
      BY <2>1, <2>2
    <3> QED  BY <2>2, <2>3, <3>1, <3>2 DEF QueryInv, QueryTypes
  <2>6. CallInv'
    BY <2>3 DEF CallInv
  <2>7. AnswerInOrder'
    <3>1. \A i \in 1 .. Len(reply') : reply'[i] \in ToSet(reply')
      BY <2>2 DEF ToSet
    <3>2. \A i \in 1 .. Len(reply') : Stored(start) <= reply'[i] /\ reply'[i] <= end
      BY <2>1, <2>2, <3>1
    <3>3. ASSUME NEW i \in 1 .. Len(reply'), i > 1
          PROVE  reply'[i - 1] < reply'[i]
      <4>1. Len(reply') \in Nat
        BY <2>2
      <4>2. i - 1 \in 1 .. Len(reply') /\ i - 1 < i
        BY <3>3, <4>1
      <4> QED  BY <2>2, <4>2 DEF Later
    <3> QED  BY <2>2, <2>3, <3>2, <3>3 DEF AnswerInOrder, Stored
  <2> QED  BY <2>4, <2>5, <2>6, <2>7 DEF QueryInv
<1>8. CASE UNCHANGED allVars
  <2>1. (QueryTypes /\ CallInv /\ AnswerInOrder)'
    BY <1>8, BesideKeepsTypes DEF allVars, QueryInv, QueryTypes
  <2> QED  BY <1>3, <1>8, <2>1 DEF allVars, QueryInv
<1> QED
  BY <1>1, <1>2, <1>4, <1>5, <1>6, <1>7, <1>8 DEF QueryNext

(* The invariant of the ring and that of the calls hold together, whatever  *)
(* goes on between the steps of a call.                                     *)
THEOREM QueryInvariant == QuerySpec => [](RingInv /\ QueryInv)
<1>1. QuerySpec => []RingInv
  BY QueryImplementsRing, EntryIsWellFormed, PTL
<1>2. QueryInit => QueryInv
  <2> SUFFICES ASSUME QueryInit PROVE QueryInv
    OBVIOUS
  <2>1. Window = <<>> /\ rows = <<>> /\ reply = <<>>
    BY DEF QueryInit, Init, Window
  <2>2. ToSet(Window) = {} /\ ToSet(rows) = {} /\ ToSet(reply) = {}
    BY <2>1 DEF ToSet
  <2>3. PastInv /\ CallInv /\ AnswerInOrder
    BY <2>1, <2>2 DEF QueryInit, PastInv, CallInv, AnswerInOrder, Later
  <2>4. QueryTypes
    BY <2>1, <2>2, PointsAssumption, LimitsAssumption DEF QueryInit, QueryTypes
  <2> QED  BY <2>3, <2>4 DEF QueryInv
<1>3. RingInv /\ QueryInv /\ [QueryNext]_allVars => QueryInv'
  BY QueryStep
<1> QED  BY <1>1, <1>2, <1>3, PTL DEF QuerySpec

(* Types; nothing that was recorded, stored or answered lies in the future. *)
THEOREM QueryTypesHold == QuerySpec => []QueryTypeOK
<1>1. RingInv /\ QueryInv => QueryTypeOK
  BY DEF RingInv, QueryInv, QueryTypes, QueryTypeOK
<1> QED  BY <1>1, QueryInvariant, PTL

(* Every answer of GetHistory is strictly later from point to point, no     *)
(* longer than asked for and within the window.                             *)
THEOREM AnswerAlwaysInOrder == QuerySpec => []AnswerInOrder
<1>1. QueryInv => AnswerInOrder
  BY DEF QueryInv
<1> QED  BY <1>1, QueryInvariant, PTL

(* A call answers in ReadCache and nowhere else.                            *)
LEMMA OnlyReadCacheAnswers ==
    ASSUME [QueryNext]_allVars, Answers
    PROVE  ReadCache
<1>1. ASSUME NEW s \in Starts, NEW e \in Ends, NEW n \in Limits, Ask(s, e, n) PROVE FALSE
  BY <1>1 DEF Ask, Answers
<1> QED
  BY <1>1 DEF QueryNext, Answers, Record, Forget, Flush, Purge, QueryRows, queryVars, allVars

(* The newest point known in the window ends the answer and the oldest row  *)
(* is not missed, unless the cache was cut to points that are too late.     *)
THEOREM AnswerAlwaysKeepsEnds == QuerySpec => AnswerKeepsEnds
<1> DEFINE Keeps == Answers /\ Found # {} =>
                      \/ Cardinality(TooLate) >= limit
                      \/ /\ reply' # <<>>
                         /\ \A p \in Found : p <= Last(reply')
                         /\ limit > 1 /\ rows # <<>> => Head(reply') <= Head(rows)
<1>1. RingInv /\ QueryInv /\ [QueryNext]_allVars => Keeps
  <2> SUFFICES ASSUME RingInv, QueryInv, [QueryNext]_allVars, Answers, Found # {},
                      ~(Cardinality(TooLate) >= limit)
               PROVE  /\ reply' # <<>>
                      /\ \A p \in Found : p <= Last(reply')
                      /\ limit > 1 /\ rows # <<>> => Head(reply') <= Head(rows)
    OBVIOUS
  <2> DEFINE U == ToSet(rows) \cup InWindow(answer')
  <2>1. ReadCache
    BY OnlyReadCacheAnswers
  <2>2. /\ limit \in Nat \ {0} /\ Window \in Seq(Nat)
        /\ answer' = History!Newest(Window, limit)
        /\ ToSet(answer') \subseteq ToSet(Window)
        /\ U \in SUBSET Nat /\ IsFiniteSet(U)
        /\ reply' = Downsample(Chronological(U), limit)
    BY <2>1, AnswerIsMerged
  <2>3. /\ clock \in Nat /\ end \in Nat /\ start \in Nat /\ rows \in Seq(Nat)
        /\ Later(Window) /\ \A p \in ToSet(Window) : p \in Nat /\ p <= clock
    BY <2>2 DEF QueryInv, QueryTypes, PastInv, ToSet
  \* A point of the window that the limit cut off has a later one behind it.
  <2>4. ASSUME NEW p \in Found PROVE \E q \in U : p <= q
    <3>1. CASE p \in U
      <4>1. p \in Nat
        BY <2>2, <3>1
      <4> QED  BY <3>1, <4>1
    <3>2. CASE p \notin U
      <4>1. /\ p \in ToSet(Window) \ ToSet(answer')
            /\ start <= p /\ p <= end /\ p \in Nat
        BY <2>3, <3>2 DEF Found, InWindow
      <4>2. /\ IsFiniteSet(ToSet(answer')) /\ Cardinality(ToSet(answer')) = limit
            /\ \A q \in ToSet(answer') : p < q
        BY <2>2, <2>3, <4>1, NewestAreLater
      <4>3. \E q \in ToSet(answer') : q <= end
        <5>1. SUFFICES ASSUME \A q \in ToSet(answer') : ~(q <= end) PROVE FALSE
          OBVIOUS
        <5>2. \A q \in ToSet(answer') : q \in ToSet(Window) /\ q > end
          BY <2>2, <2>3, <5>1
        <5>3. ToSet(answer') \in SUBSET TooLate
          BY <5>2 DEF TooLate
        <5>4. IsFiniteSet(TooLate)
          <6>1. TooLate \in SUBSET Nat /\ \A q \in TooLate : q <= clock
            BY <2>3 DEF TooLate
          <6> QED  BY <2>3, <6>1, FS_BoundedSetOfNaturals
        <5>5. limit <= Cardinality(TooLate) /\ Cardinality(TooLate) \in Nat
          BY <4>2, <5>3, <5>4, FS_Subset, FS_CardinalityType
        <5> QED  BY <2>2, <5>5
      <4>4. PICK q \in ToSet(answer') : q <= end
        BY <4>3
      <4>5. p < q /\ q \in Nat
        BY <2>2, <2>3, <4>2
      <4>6. q \in InWindow(answer')
        BY <2>3, <4>1, <4>4, <4>5 DEF InWindow
      <4> QED  BY <4>1, <4>5, <4>6
    <3> QED  BY <3>1, <3>2
  <2>5. U # {}
    BY <2>4
  <2>6. ToSet(rows) \subseteq U
    OBVIOUS
  <2> HIDE DEF U
  <2>7. /\ reply' \in Seq(Nat) /\ reply' # <<>>
        /\ \A p \in U : p <= Last(reply') /\ (limit > 1 => Head(reply') <= p)
    <3>1. /\ reply' \in Seq(Nat)
          /\ U # {} => /\ reply' # <<>>
                       /\ \A p \in U : p <= Last(reply') /\ (limit > 1 => Head(reply') <= p)
      BY <2>2, MergeMakesTrack
    <3> QED  BY <2>5, <3>1
  <2>8. ASSUME NEW p \in Found PROVE p <= Last(reply')
    <3>1. PICK q \in U : p <= q
      BY <2>4
    <3>2. p \in Nat /\ q \in Nat
      BY <2>2, <2>3 DEF Found, InWindow, ToSet
    <3>3. Last(reply') \in Nat
      <4>1. Len(reply') \in 1 .. Len(reply')
        BY <2>7
      <4> QED  BY <2>7, <4>1 DEF Last
    <3> QED  BY <2>7, <3>1, <3>2, <3>3
  <2>9. rows # <<>> => Head(rows) \in U
    <3>1. rows # <<>> => Head(rows) \in ToSet(rows)
      BY <2>3 DEF ToSet
    <3> QED  BY <2>6, <3>1
  <2> QED  BY <2>7, <2>8, <2>9
<1>2. RingInv /\ QueryInv /\ [QueryNext]_allVars => [Keeps]_allVars
  BY <1>1
<1> QED  BY <1>2, QueryInvariant, PTL DEF QuerySpec, AnswerKeepsEnds

(* When the limit has room for the ring and for what was found, all of it   *)
(* is in the answer.                                                        *)
THEOREM AnswerIsAlwaysComplete == QuerySpec => AnswerIsComplete
<1> DEFINE Complete == Answers /\ Len(Window) <= limit /\ Cardinality(Found) <= limit =>
                         ToSet(reply') = Found
<1>1. RingInv /\ QueryInv /\ [QueryNext]_allVars => Complete
  <2> SUFFICES ASSUME RingInv, QueryInv, [QueryNext]_allVars, Answers,
                      Len(Window) <= limit, Cardinality(Found) <= limit
               PROVE  ToSet(reply') = Found
    OBVIOUS
  <2>1. ReadCache
    BY OnlyReadCacheAnswers
  <2> DEFINE U == ToSet(rows) \cup InWindow(answer')
  <2>2. /\ limit \in Nat \ {0} /\ Window \in Seq(Nat) /\ Later(Window)
        /\ answer' = History!Newest(Window, limit)
        /\ U \in SUBSET Nat /\ IsFiniteSet(U)
        /\ reply' = Downsample(Chronological(U), limit)
    BY <2>1, AnswerIsMerged DEF QueryInv, PastInv
  <2>3. answer' = Window
    BY <2>2, NewestAreLater
  <2>4. U = Found
    BY <2>3 DEF Found
  <2> HIDE DEF U
  <2>5. Cardinality(U) <= limit => ToSet(reply') = U
    BY <2>2, MergeMakesTrack
  <2> QED  BY <2>4, <2>5
<1>2. RingInv /\ QueryInv /\ [QueryNext]_allVars => [Complete]_allVars
  BY <1>1
<1> QED  BY <1>2, QueryInvariant, PTL DEF QuerySpec, AnswerIsComplete
=============================================================================
