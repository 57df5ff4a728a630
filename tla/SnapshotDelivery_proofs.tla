----------------------- MODULE SnapshotDelivery_proofs -----------------------
(***************************************************************************)
(* A client shows whole snapshots, for any number of connections, drones   *)
(* and broadcasts, any filter, limit and part size, unless a connection    *)
(* with a limit and no filter is one of several: it sorts the slice the    *)
(* others read.  The argument follows a call: what matched is copied       *)
(* (FilterInv), the sort only permutes it, sorted so far (SortInv), so the *)
(* head it keeps is the smallest of it (FirstAreSmallest), the parts cut   *)
(* it up without a gap (PartsCover), and the assembler, which never has    *)
(* but the parts of one snapshot (PendingInv), puts it together again      *)
(* (PartsAssemble).                                                        *)
(***************************************************************************)
EXTENDS SnapshotDelivery, FiniteSetTheorems, SequenceTheorems, WellFoundedInduction, TLAPS

(* Every set of natural numbers that is not empty has a least element.      *)
LEMMA LeastElement ==
    ASSUME NEW T, T \subseteq Nat, T # {}
    PROVE  \E m \in T : \A k \in T : m <= k
<1> DEFINE R == OpToRel(<, Nat)
<1>1. IsWellFoundedOn(R, Nat)  BY NatLessThanWellFounded
<1>2. \A x, y \in Nat : x < y => <<x, y>> \in R  BY DEF OpToRel
<1> HIDE DEF R
<1>3. PICK m \in T : \A y \in T : ~ (<<y, m>> \in R)  BY <1>1, WFMin
<1>4. ASSUME NEW k \in T PROVE m <= k
  <2>1. ~ (k < m)  BY <1>2, <1>3
  <2>2. k \in Nat /\ m \in Nat OBVIOUS
  <2> QED  BY <2>1, <2>2
<1> QED  BY <1>4

\* F[i] is what the first i of n sequences make.
JoinsStepwise(F, seqs, n) ==
    /\ F[1] = seqs[1]
    /\ \A i \in 2 .. n : F[i] = F[i - 1] \o seqs[i]

(* FlattenSeq joins the members of a sequence of sequences one by one.      *)
LEMMA FlattenJoins ==
    ASSUME NEW seqs, NEW n \in Nat \ {0}, Len(seqs) = n,
           NEW V, NEW F \in [1 .. n -> V], JoinsStepwise(F, seqs, n)
    PROVE  FlattenSeq(seqs) = F[n]
<1> DEFINE Def(f) ==
             [i \in 1 .. n |-> IF i = 1 THEN seqs[i] ELSE f[i - 1] \o seqs[i]]
           G == CHOOSE f : f = Def(f)
<1>1. F = Def(F)
  <2>1. ASSUME NEW i \in 1 .. n
        PROVE  F[i] = IF i = 1 THEN seqs[i] ELSE F[i - 1] \o seqs[i]
    <3>1. i = 1 \/ i \in 2 .. n  OBVIOUS
    <3> QED  BY <3>1 DEF JoinsStepwise
  <2> QED  BY <2>1
<1>2. FlattenSeq(seqs) = G[n]
  <2>1. FlattenSeq(seqs) = (CHOOSE f : f = Def(f))[n]  BY DEF FlattenSeq
  <2> QED  BY <2>1
<1>3. G = Def(G)  BY <1>1
<1> HIDE DEF G
<1>4. \A i \in 1 .. n : G[i] = IF i = 1 THEN seqs[i] ELSE G[i - 1] \o seqs[i]
  BY <1>3
<1> DEFINE Differ == {i \in 1 .. n : G[i] # F[i]}
<1>5. Differ = {}
  <2> SUFFICES ASSUME Differ # {} PROVE FALSE
    OBVIOUS
  <2>1. PICK m \in Differ : \A k \in Differ : m <= k
    <3>1. Differ \subseteq Nat  OBVIOUS
    <3> HIDE DEF Differ
    <3> QED  BY <3>1, LeastElement
  <2>2. m \in 1 .. n /\ G[m] # F[m]  BY <2>1
  <2>3. m # 1  BY <2>2, <1>4 DEF JoinsStepwise
  <2>4. m \in 2 .. n /\ m - 1 \in 1 .. n /\ m - 1 \notin Differ  BY <2>1, <2>2, <2>3
  <2>5. G[m - 1] = F[m - 1]  BY <2>4
  <2>6. G[m] = G[m - 1] \o seqs[m]  BY <2>2, <2>3, <1>4
  <2>7. F[m] = F[m - 1] \o seqs[m]  BY <2>4 DEF JoinsStepwise
  <2> QED  BY <2>2, <2>5, <2>6, <2>7
<1>6. n \in 1 .. n  OBVIOUS
<1> QED  BY <1>2, <1>5, <1>6

(* A sequence without repetition has as many elements as it is long.        *)
LEMMA InjectiveCardinality ==
    ASSUME NEW s \in Seq(Nat), IsInjective(s)
    PROVE  IsFiniteSet(ToSet(s)) /\ Cardinality(ToSet(s)) = Len(s)
<1>1. DOMAIN s = 1 .. Len(s) /\ Len(s) \in Nat  OBVIOUS
<1>2. IsFiniteSet(1 .. Len(s)) /\ Cardinality(1 .. Len(s)) = Len(s)
  <2> DEFINE n == Len(s)
  <2>1. n \in Int /\ 1 \in Int /\ n - 1 + 1 = n /\ (1 > n <=> n = 0)  BY <1>1
  <2> HIDE DEF n
  <2> QED  BY <2>1, FS_Interval DEF n
<1>3. s \in Injection(1 .. Len(s), ToSet(s)) /\ s \in Surjection(1 .. Len(s), ToSet(s))
  BY <1>1 DEF Injection, Surjection, IsInjective, ToSet
<1> QED  BY <1>2, <1>3, FS_Surjection

(* The first n elements of a sequence.                                      *)
LEMMA FirstElements ==
    ASSUME NEW s \in Seq(Nat), NEW n \in 0 .. Len(s)
    PROVE  /\ SubSeq(s, 1, n) \in Seq(Nat)
           /\ Len(SubSeq(s, 1, n)) = n
           /\ \A k \in 1 .. n : SubSeq(s, 1, n)[k] = s[k]
           /\ ToSet(SubSeq(s, 1, n)) = {s[k] : k \in 1 .. n}
           /\ IsInjective(s) => IsInjective(SubSeq(s, 1, n))
<1>1. /\ SubSeq(s, 1, n) \in Seq(Nat) /\ Len(SubSeq(s, 1, n)) = n
      /\ DOMAIN SubSeq(s, 1, n) = 1 .. n /\ DOMAIN s = 1 .. Len(s)
      /\ \A k \in 1 .. n : SubSeq(s, 1, n)[k] = s[k]
  OBVIOUS
<1>2. 1 .. n \subseteq 1 .. Len(s)  OBVIOUS
<1>3. ToSet(SubSeq(s, 1, n)) = {s[k] : k \in 1 .. n}  BY <1>1 DEF ToSet
<1>4. IsInjective(s) => IsInjective(SubSeq(s, 1, n))  BY <1>1, <1>2 DEF IsInjective
<1> QED  BY <1>1, <1>3, <1>4

Ascending(s) == \A x, y \in 1 .. Len(s) : x < y => s[x] < s[y]

(* In a sorted sequence without repetition the first n elements are those   *)
(* with fewer than n smaller ones.                                          *)
LEMMA FirstAreSmallest ==
    ASSUME NEW s \in Seq(Nat), Ascending(s), NEW n \in 0 .. Len(s)
    PROVE  ToSet(SubSeq(s, 1, n)) =
             {d \in ToSet(s) : Cardinality({e \in ToSet(s) : e < d}) < n}
<1> DEFINE below(d) == {e \in ToSet(s) : e < d}
<1>1. DOMAIN s = 1 .. Len(s) /\ Len(s) \in Nat /\ \A k \in 1 .. Len(s) : s[k] \in Nat
  OBVIOUS
<1>2. IsInjective(s)
  <2> SUFFICES ASSUME NEW x \in 1 .. Len(s), NEW y \in 1 .. Len(s), s[x] = s[y]
               PROVE  x = y
    BY <1>1 DEF IsInjective
  <2>1. ~ (x < y) /\ ~ (y < x)  BY <1>1 DEF Ascending
  <2> QED  BY <2>1
<1>3. ASSUME NEW k \in 1 .. Len(s) PROVE Cardinality(below(s[k])) = k - 1
  <2>1. k - 1 \in 0 .. Len(s)  OBVIOUS
  <2>2. below(s[k]) = {s[x] : x \in 1 .. k - 1}
    <3>1. ASSUME NEW x \in 1 .. Len(s) PROVE s[x] < s[k] <=> x \in 1 .. k - 1
      <4>1. x < k => s[x] < s[k]  BY DEF Ascending
      <4>2. k < x => s[k] < s[x]  BY DEF Ascending
      <4>3. x < k \/ x = k \/ k < x  OBVIOUS
      <4>4. x < k <=> x \in 1 .. k - 1  OBVIOUS
      <4>5. s[x] \in Nat /\ s[k] \in Nat  BY <1>1
      <4> QED  BY <4>1, <4>2, <4>3, <4>4, <4>5
    <3>2. 1 .. k - 1 \subseteq 1 .. Len(s)  BY <2>1
    <3> QED  BY <1>1, <3>1, <3>2 DEF ToSet
  <2>3. Cardinality(ToSet(SubSeq(s, 1, k - 1))) = k - 1
    BY <1>2, <2>1, FirstElements, InjectiveCardinality
  <2> QED  BY <2>1, <2>2, <2>3, FirstElements
<1>4. \A k \in 1 .. Len(s) : Cardinality(below(s[k])) < n <=> k \in 1 .. n
  BY <1>3
<1>5. ToSet(SubSeq(s, 1, n)) = {s[k] : k \in 1 .. n}  BY FirstElements
<1>6. 1 .. n \subseteq 1 .. Len(s)  OBVIOUS
<1> HIDE DEF below
<1>7. {d \in ToSet(s) : Cardinality(below(d)) < n} = {s[k] : k \in 1 .. n}
  BY <1>1, <1>4, <1>6 DEF ToSet
<1> QED  BY <1>5, <1>7 DEF below

(* Of n or fewer elements every one has fewer than n smaller ones.          *)
LEMMA FewAreSmallest ==
    ASSUME NEW M \in SUBSET Nat, IsFiniteSet(M), NEW n \in Nat, Cardinality(M) <= n
    PROVE  {d \in M : Cardinality({e \in M : e < d}) < n} = M
<1> SUFFICES ASSUME NEW d \in M PROVE Cardinality({e \in M : e < d}) < n
  OBVIOUS
<1> DEFINE below == {e \in M : e < d}
<1>1. below \in SUBSET M /\ below # M
  <2>1. d \notin below  OBVIOUS
  <2> QED  BY <2>1
<1>2. Cardinality(below) <= Cardinality(M) /\ Cardinality(below) # Cardinality(M)
      /\ IsFiniteSet(below)
  <2> HIDE DEF below
  <2> QED  BY <1>1, FS_Subset
<1>3. Cardinality(below) \in Nat /\ Cardinality(M) \in Nat  BY <1>2, FS_CardinalityType
<1> QED  BY <1>2, <1>3
-----------------------------------------------------------------------------
\* The elements up to the i-th are sorted but for the j-th, which has yet to
\* find its place among those before it.
SortedBut(s, i, j) ==
    \A x, y \in 1 .. Len(s) : x < y /\ y <= i /\ y # j => s[x] < s[y]

(* The inner loop ends: one element more is sorted.                         *)
LEMMA InsertionEnds ==
    ASSUME NEW s \in Seq(Nat), IsInjective(s), NEW i \in 1 .. Len(s), NEW j \in 1 .. i,
           SortedBut(s, i, j), j = 1 \/ ~ (s[j] < s[j - 1])
    PROVE  SortedBut(s, i + 1, i + 1)
<1>1. DOMAIN s = 1 .. Len(s) /\ Len(s) \in Nat /\ \A k \in 1 .. Len(s) : s[k] \in Nat
  OBVIOUS
<1>2. ASSUME NEW x \in 1 .. Len(s), NEW y \in 1 .. Len(s), x < y, y <= i
      PROVE  s[x] < s[y]
  <2>1. CASE y # j  BY <1>2, <2>1 DEF SortedBut
  <2>2. CASE y = j
    <3>1. j - 1 \in 1 .. Len(s) /\ j \in 1 .. Len(s) /\ x <= j - 1 /\ j - 1 < j
      BY <1>2, <2>2
    <3>2. s[j - 1] < s[j]
      <4>1. s[j - 1] # s[j]
        <5>1. \A a, b \in 1 .. Len(s) : s[a] = s[b] => a = b  BY <1>1 DEF IsInjective
        <5>2. j - 1 # j  OBVIOUS
        <5> QED  BY <3>1, <5>1, <5>2
      <4>2. ~ (s[j] < s[j - 1])  BY <1>2, <2>2
      <4>3. s[j] \in Nat /\ s[j - 1] \in Nat  BY <1>1, <3>1
      <4> QED  BY <4>1, <4>2, <4>3
    <3>3. x = j - 1 \/ s[x] < s[j - 1]
      <4>1. x < j - 1 => s[x] < s[j - 1]
        <5>1. j - 1 <= i /\ j - 1 # j  BY <3>1
        <5> QED  BY <3>1, <5>1 DEF SortedBut
      <4> QED  BY <3>1, <4>1
    <3>4. s[x] \in Nat /\ s[j] \in Nat /\ s[j - 1] \in Nat  BY <1>1, <3>1
    <3> QED  BY <2>2, <3>2, <3>3, <3>4
  <2> QED  BY <2>1, <2>2
<1>3. ASSUME NEW y \in 1 .. Len(s), y <= i + 1, y # i + 1 PROVE y <= i
  BY <1>3
<1> QED  BY <1>2, <1>3 DEF SortedBut

\* s with two neighbours swapped.
Swapped(s, j) == [s EXCEPT ![j] = s[j - 1], ![j - 1] = s[j]]

(* A swap moves the element one place on and keeps the elements.            *)
LEMMA SwapInserts ==
    ASSUME NEW s \in Seq(Nat), IsInjective(s), NEW i \in 1 .. Len(s), NEW j \in 2 .. i,
           SortedBut(s, i, j), s[j] < s[j - 1],
           NEW t, t = Swapped(s, j)
    PROVE  /\ t \in Seq(Nat) /\ Len(t) = Len(s)
           /\ IsInjective(t) /\ ToSet(t) = ToSet(s)
           /\ SortedBut(t, i, j - 1)
<1>1. DOMAIN s = 1 .. Len(s) /\ Len(s) \in Nat /\ \A k \in 1 .. Len(s) : s[k] \in Nat
  OBVIOUS
<1>2. j \in 1 .. Len(s) /\ j - 1 \in 1 .. Len(s) /\ j # j - 1 /\ j - 1 < j  OBVIOUS
<1>3. /\ t \in Seq(Nat) /\ Len(t) = Len(s) /\ DOMAIN t = 1 .. Len(s)
      /\ t[j] = s[j - 1] /\ t[j - 1] = s[j]
      /\ \A k \in 1 .. Len(s) : k # j /\ k # j - 1 => t[k] = s[k]
  BY <1>1, <1>2 DEF Swapped
<1> DEFINE other(k) == IF k = j THEN j - 1 ELSE IF k = j - 1 THEN j ELSE k
<1>4. \A k \in 1 .. Len(s) :
         /\ other(k) \in 1 .. Len(s) /\ other(other(k)) = k
         /\ t[k] = s[other(k)] /\ s[k] = t[other(k)]
  BY <1>2, <1>3
<1> HIDE DEF other
<1>5. ToSet(t) = ToSet(s)
  <2>1. /\ ToSet(t) = {t[k] : k \in 1 .. Len(s)}
        /\ ToSet(s) = {s[k] : k \in 1 .. Len(s)}
    BY <1>1, <1>3 DEF ToSet
  <2>2. \A k \in 1 .. Len(s) : t[k] \in ToSet(s) /\ s[k] \in ToSet(t)
    BY <1>4, <2>1
  <2> QED  BY <2>1, <2>2
<1>6. IsInjective(t)
  <2> SUFFICES ASSUME NEW x \in 1 .. Len(s), NEW y \in 1 .. Len(s), t[x] = t[y]
               PROVE  x = y
    BY <1>3 DEF IsInjective
  <2>1. other(x) = other(y)  BY <1>1, <1>4 DEF IsInjective
  <2> QED  BY <1>4, <2>1
<1>7. ASSUME NEW x \in 1 .. Len(s), NEW y \in 1 .. Len(s),
             x < y, y <= i, y # j - 1
      PROVE  t[x] < t[y]
  <2>1. \A a, b \in 1 .. Len(s) : a < b /\ b <= i /\ b # j => s[a] < s[b]
    BY DEF SortedBut
  <2>2. CASE y = j
    <3>1. CASE x = j - 1  BY <1>3, <2>2, <3>1
    <3>2. CASE x # j - 1
      <4>1. x < j - 1 /\ j - 1 <= i /\ x # j  BY <1>7, <2>2, <3>2
      <4>2. s[x] < s[j - 1]  BY <1>2, <2>1, <4>1
      <4> QED  BY <1>3, <2>2, <3>2, <4>1, <4>2
    <3> QED  BY <3>1, <3>2
  <2>3. CASE y # j
    <3>1. t[y] = s[y]  BY <1>3, <1>7, <2>3
    <3>2. CASE x = j
      <4>1. j - 1 < y  BY <1>7, <3>2
      <4>2. s[j - 1] < s[y]  BY <1>2, <1>7, <2>1, <2>3, <4>1
      <4> QED  BY <1>3, <3>1, <3>2, <4>2
    <3>3. CASE x = j - 1
      <4>1. j < y  BY <1>7, <2>3, <3>3
      <4>2. s[j] < s[y]  BY <1>2, <1>7, <2>1, <2>3, <4>1
      <4> QED  BY <1>3, <3>1, <3>3, <4>2
    <3>4. CASE x # j /\ x # j - 1
      <4>1. s[x] < s[y]  BY <1>7, <2>1, <2>3
      <4> QED  BY <1>3, <3>1, <3>4, <4>1
    <3> QED  BY <3>2, <3>3, <3>4
  <2> QED  BY <2>2, <2>3
<1>8. SortedBut(t, i, j - 1)  BY <1>3, <1>7 DEF SortedBut
<1> QED  BY <1>3, <1>5, <1>6, <1>8
-----------------------------------------------------------------------------
USE SizeAssumption

(* All parts but the last are full, and the last one ends the slice.        *)
LEMMA PartsCover ==
    ASSUME NEW c \in Conn, NEW len \in Nat
    PROVE  /\ Total(c, len) \in Nat \ {0}
           /\ c \notin Chunked => Total(c, len) = 1
           /\ PartEnd(c, Total(c, len) - 1, len) = len
           /\ \A part \in 0 .. Total(c, len) - 1 :
                /\ part * PartSize \in Nat /\ PartEnd(c, part, len) \in Nat
                /\ part * PartSize <= PartEnd(c, part, len)
                /\ PartEnd(c, part, len) <= len
                /\ part + 1 < Total(c, len) => PartEnd(c, part, len) = (part + 1) * PartSize
<1> DEFINE total == Total(c, len)
<1>0. PartSize \in Nat \ {0} /\ PartSize \in Nat  OBVIOUS
<1>1. CASE c \notin Chunked \/ len = 0
  <2>1. total = 1  BY <1>1 DEF Total
  <2>2. PartEnd(c, 0, len) = len  BY <1>1 DEF PartEnd
  <2>3. 0 * PartSize = 0  OBVIOUS
  <2>4. 0 .. total - 1 = {0}  BY <2>1
  <2> QED  BY <1>1, <2>1, <2>2, <2>3, <2>4
<1>2. CASE c \in Chunked /\ len # 0
  <2> DEFINE x == len + PartSize - 1
  <2>1. total = x \div PartSize /\ x \in Nat  BY <1>2 DEF Total
  <2> HIDE DEF x
  <2>2. total \in Nat /\ PartSize * total <= x /\ x < PartSize * total + PartSize
    BY <2>1
  <2>3. PartSize * total \in Nat  BY <2>2
  <2>4. PartSize * total <= len + PartSize - 1 /\ len <= PartSize * total
    <3>1. x = len + PartSize - 1  BY DEF x
    <3> QED  BY <2>2, <2>3, <3>1
  <2>5. total # 0
    <3>1. total = 0 => PartSize * total = 0  OBVIOUS
    <3> QED  BY <1>2, <2>4, <3>1
  <2>6. ASSUME NEW part \in 0 .. total - 1
        PROVE /\ part * PartSize \in Nat /\ (part + 1) * PartSize = part * PartSize + PartSize
              /\ part * PartSize < len
              /\ part + 1 < total => (part + 1) * PartSize < len
              /\ part + 1 = total => len <= (part + 1) * PartSize
    <3>1. part \in Nat /\ part + 1 <= total /\ total \in Nat  BY <2>2
    <3>2. /\ part * PartSize \in Nat
          /\ (part + 1) * PartSize = part * PartSize + PartSize
          /\ total * PartSize = PartSize * total
      BY <3>1
    <3>3. (part + 1) * PartSize <= total * PartSize  BY <3>1
    <3>4. part + 1 < total => (part + 1) * PartSize + PartSize <= total * PartSize
      <4>1. ASSUME part + 1 < total PROVE (part + 2) * PartSize <= total * PartSize
        BY <3>1, <4>1
      <4>2. (part + 2) * PartSize = (part + 1) * PartSize + PartSize  BY <3>1
      <4> QED  BY <4>1, <4>2
    <3>5. part + 1 = total => (part + 1) * PartSize = total * PartSize  OBVIOUS
    <3> DEFINE a == part * PartSize
               b == (part + 1) * PartSize
               d == total * PartSize
    <3>6. a \in Nat /\ b = a + PartSize /\ d = PartSize * total /\ b <= d  BY <3>2, <3>3
    <3>7. d <= len + PartSize - 1 /\ len <= d  BY <2>4, <3>6
    <3>8. part + 1 < total => b + PartSize <= d  BY <3>4
    <3>9. part + 1 = total => b = d  BY <3>5
    <3> HIDE DEF a, b, d
    <3>10. a < len /\ (part + 1 < total => b < len) /\ (part + 1 = total => len <= b)
      BY <3>6, <3>7, <3>8, <3>9
    <3> QED  BY <3>6, <3>10 DEF a, b
  <2>7. ASSUME NEW part \in 0 .. total - 1
        PROVE /\ part * PartSize \in Nat /\ PartEnd(c, part, len) \in Nat
              /\ part * PartSize <= PartEnd(c, part, len)
              /\ PartEnd(c, part, len) <= len
              /\ part + 1 < total => PartEnd(c, part, len) = (part + 1) * PartSize
              /\ part + 1 = total => PartEnd(c, part, len) = len
    <3> DEFINE a == part * PartSize
               b == (part + 1) * PartSize
    <3>1. /\ a \in Nat /\ b = a + PartSize /\ a < len
          /\ part + 1 < total => b < len
          /\ part + 1 = total => len <= b
      BY <2>6
    <3>2. PartEnd(c, part, len) = IF b < len THEN b ELSE len  BY <1>2 DEF PartEnd
    <3>3. part + 1 < total \/ part + 1 = total  BY <2>2
    <3> HIDE DEF a, b
    <3>4. /\ PartEnd(c, part, len) \in Nat
          /\ a <= PartEnd(c, part, len)
          /\ PartEnd(c, part, len) <= len
          /\ part + 1 < total => PartEnd(c, part, len) = b
          /\ part + 1 = total => PartEnd(c, part, len) = len
      BY <3>1, <3>2
    <3> QED  BY <3>1, <3>4 DEF a, b
  <2>8. total - 1 \in 0 .. total - 1 /\ (total - 1) + 1 = total
    <3> HIDE DEF total
    <3> QED  BY <2>2, <2>5
  <2>9. PartEnd(c, total - 1, len) = len  BY <2>7, <2>8
  <2> QED  BY <1>2, <2>2, <2>5, <2>7, <2>9
<1> QED  BY <1>1, <1>2

\* The drones of one part of the first len elements of s.
PartOf(c, s, len, part) ==
    SubSeq(s, part * PartSize + 1, PartEnd(c, part, len))

(* The parts, joined, are what was cut into parts.                          *)
LEMMA PartsAssemble ==
    ASSUME NEW c \in Conn, NEW s \in Seq(Nat), NEW len \in 0 .. Len(s),
           NEW seqs, Len(seqs) = Total(c, len),
           \A p \in 1 .. Total(c, len) : seqs[p] = PartOf(c, s, len, p - 1)
    PROVE  FlattenSeq(seqs) = SubSeq(s, 1, len)
<1> DEFINE total == Total(c, len)
           F == [p \in 1 .. total |-> SubSeq(s, 1, PartEnd(c, p - 1, len))]
<1>1. /\ total \in Nat \ {0}
      /\ PartEnd(c, total - 1, len) = len
      /\ \A part \in 0 .. total - 1 :
            /\ part * PartSize \in Nat /\ PartEnd(c, part, len) \in Nat
            /\ part * PartSize <= PartEnd(c, part, len)
            /\ PartEnd(c, part, len) <= len
            /\ part + 1 < total => PartEnd(c, part, len) = (part + 1) * PartSize
  <2>1. len \in Nat  OBVIOUS
  <2> QED  BY <2>1, PartsCover
<1>2. Len(seqs) = total /\ \A p \in 1 .. total : seqs[p] = PartOf(c, s, len, p - 1)
  BY <1>1
<1> HIDE DEF total
<1>3. F[1] = seqs[1]
  <2>1. 1 \in 1 .. total /\ 0 * PartSize = 0 /\ 1 - 1 = 0  BY <1>1
  <2>2. F[1] = SubSeq(s, 1, PartEnd(c, 0, len))  BY <2>1
  <2>3. seqs[1] = SubSeq(s, 0 + 1, PartEnd(c, 0, len))  BY <1>2, <2>1 DEF PartOf
  <2> HIDE DEF F
  <2>4. 0 + 1 = 1  OBVIOUS
  <2> QED  BY <2>2, <2>3, <2>4
<1>4. ASSUME NEW i \in 2 .. total PROVE F[i] = F[i - 1] \o seqs[i]
  <2> DEFINE k == (i - 1) * PartSize
             e == PartEnd(c, i - 1, len)
  <2>1. /\ i - 1 \in 0 .. total - 1 /\ i - 2 \in 0 .. total - 1
        /\ (i - 2) + 1 = i - 1 /\ i - 1 < total
        /\ i \in 1 .. total /\ i - 1 \in 1 .. total /\ (i - 1) - 1 = i - 2
    BY <1>1
  <2>2. k \in Nat /\ e \in Nat /\ k <= e /\ e <= len
    BY <1>1, <2>1
  <2>3. PartEnd(c, i - 2, len) = k
    BY <1>1, <2>1
  <2>4. F[i] = SubSeq(s, 1, e) /\ F[i - 1] = SubSeq(s, 1, k)
    BY <2>1, <2>3
  <2>5. seqs[i] = SubSeq(s, k + 1, e)
    BY <1>2, <2>1 DEF PartOf
  <2> HIDE DEF k, e, F
  <2>6. k \in 1 - 1 .. Len(s) /\ e \in k .. Len(s) /\ 1 \in 1 .. Len(s) + 1
    BY <2>2
  <2>7. SubSeq(s, 1, k) \o SubSeq(s, k + 1, e) = SubSeq(s, 1, e)
    BY <2>6, ConcatAdjacentSubSeq
  <2> QED  BY <2>4, <2>5, <2>7
<1>5. F \in [1 .. total -> Seq(Nat)]
  <2>1. ASSUME NEW p \in 1 .. total
        PROVE  SubSeq(s, 1, PartEnd(c, p - 1, len)) \in Seq(Nat)
    <3>1. p - 1 \in 0 .. total - 1  BY <1>1
    <3>2. PartEnd(c, p - 1, len) \in 0 .. Len(s)  BY <1>1, <3>1
    <3> QED  BY <3>2, FirstElements
  <2> QED  BY <2>1
<1>6. F[total] = SubSeq(s, 1, len)
  BY <1>1
<1> HIDE DEF F
<1>7. FlattenSeq(seqs) = F[total]
  <2>1. total \in Nat \ {0} /\ Len(seqs) = total  BY <1>1, <1>2
  <2>2. JoinsStepwise(F, seqs, total)  BY <1>3, <1>4 DEF JoinsStepwise
  <2> QED  BY <2>1, <2>2, <1>5, FlattenJoins
<1> QED  BY <1>6, <1>7
-----------------------------------------------------------------------------
USE ConnectionAssumption

\* What a connection asks for of a broadcast of n drones.
Matching(c, n) == IF c \in Filtering THEN (1 .. n) \cap Wanted ELSE 1 .. n
Smallest(c, n) ==
    IF c \in Limited
    THEN {d \in Matching(c, n) :
             Cardinality({e \in Matching(c, n) : e < d}) < StreamLimit}
    ELSE Matching(c, n)

Call == [pc : {"select", "filter", "sort", "swap", "swapped", "write"},
         len : Nat, pos : Nat, i : Nat, j : Nat, held : Nat,
         part : Nat, chunk : Seq(Nat)]

TypeInv ==
    /\ sequence \in 0 .. MaxSequence
    /\ slice \in [1 .. MaxSequence \cup Conn -> Seq(Nat)]
    /\ taken \in [Conn -> Nat]
    /\ call \in [Conn -> Call]
    /\ DOMAIN pending = Conn
    /\ shown \in [Conn -> [sequence : Nat, updates : Seq(Nat)]]

\* Nobody changes a broadcast, but for a call that sorts it.
BroadcastInv ==
    \A s \in 1 .. sequence :
       (\A c \in Limited \ Filtering : taken[c] < s) =>
          IsInjective(slice[s]) /\ ToSet(slice[s]) = 1 .. Len(slice[s])

\* A call's slice filtered.
Filtered(c, own, source) == IF c \in Filtering THEN own ELSE source

\* The loop of filterUpdates has filled own with what it wants of source so far.
FilterInv(c, at, own, source) ==
    /\ c \in Filtering
    /\ at.pos \in 1 .. Len(source) + 1
    /\ IsInjective(own)
    /\ ToSet(own) = {source[k] : k \in 1 .. at.pos - 1} \cap Wanted

\* The insertion sort of s, a permutation of what matched, has come to i and j.
SortInv(c, at, s, n, j) ==
    /\ c \in Limited
    /\ at.len = Len(s) /\ at.len > StreamLimit
    /\ at.i \in 2 .. at.len + 1 /\ j \in 1 .. at.i
    /\ at.i > at.len => j = at.i
    /\ IsInjective(s) /\ ToSet(s) = Matching(c, n)
    /\ SortedBut(s, at.i, j)

SwapInv(at) == at.i <= at.len /\ at.j > 1

\* The first len elements of s are what was asked for; the part encoded so far is
\* a piece of them.
WriteInv(c, at, s, n) ==
    /\ at.len <= Len(s)
    /\ IsInjective(SubSeq(s, 1, at.len))
    /\ ToSet(SubSeq(s, 1, at.len)) = Smallest(c, n)
    /\ at.part \in 0 .. Total(c, at.len) - 1
    /\ at.pos \in at.part * PartSize + 1 .. PartEnd(c, at.part, at.len) + 1
    /\ at.chunk = SubSeq(s, at.part * PartSize + 1, at.pos - 1)

CallInv(c, at, own, source) ==
    LET s == Filtered(c, own, source)
        n == Len(source)
    IN  /\ at.pc = "select" => at = Waiting /\ own = <<>>
        /\ at.pc = "filter" => FilterInv(c, at, own, source)
        /\ at.pc = "sort" => SortInv(c, at, s, n, at.j)
        /\ at.pc = "swap" =>
             /\ SortInv(c, at, s, n, at.j)
             /\ SwapInv(at) /\ s[at.j] < s[at.j - 1]
        /\ at.pc = "swapped" =>
             /\ SwapInv(at)
             /\ SortInv(c, at, [s EXCEPT ![at.j - 1] = at.held], n, at.j - 1)
        /\ at.pc = "write" => WriteInv(c, at, s, n)

\* The assembler has the parts before the one being written, and nothing else.
PendingInv(c, at, s, old, k) ==
    IF c \in Chunked /\ at.pc = "write" /\ at.part > 0
    THEN /\ DOMAIN old = {k}
         /\ old[k].total = Total(c, at.len)
         /\ DOMAIN old[k].parts = 0 .. at.part - 1
         /\ \A p \in 0 .. at.part - 1 : old[k].parts[p] = PartOf(c, s, at.len, p)
    ELSE DOMAIN old = {}

ShownInv(at, seen, k) ==
    IF at.pc = "select" THEN seen.sequence <= k ELSE seen.sequence < k

ConnInv(c) ==
    /\ taken[c] <= sequence
    /\ call[c].pc # "select" => taken[c] >= 1
    /\ CallInv(c, call[c], slice[c], slice[taken[c]])
    /\ PendingInv(c, call[c], slice[Array(c)], pending[c], taken[c])
    /\ ShownInv(call[c], shown[c], taken[c])

\* No connection sorts a slice that another one reads: one with a limit and no
\* filter is the only one.
NoSharedSort == \A c \in Limited \ Filtering : Conn = {c}

(* The inductive invariant.                                                 *)
DeliveryInv == TypeInv /\ BroadcastInv /\ \A c \in Conn : ConnInv(c)

(* A connection nobody touches keeps its invariant.                         *)
LEMMA Untouched ==
    ASSUME TypeInv, NEW c \in Conn, ConnInv(c),
           sequence' \in Nat, sequence <= sequence',
           \A s \in 1 .. sequence : slice'[s] = slice[s],
           slice'[c] = slice[c], taken'[c] = taken[c], call'[c] = call[c],
           pending'[c] = pending[c], shown'[c] = shown[c]
    PROVE  ConnInv(c)'
<1>1. taken[c] \in Nat /\ sequence \in Nat /\ taken[c] <= sequence
  BY DEF TypeInv, ConnInv
<1>2. taken'[c] <= sequence' /\ (call'[c].pc # "select" => taken'[c] >= 1)
  BY <1>1 DEF ConnInv
<1>3. CallInv(c, call[c], slice[c], slice[taken[c]]) /\ ShownInv(call[c], shown[c], taken[c])
      /\ PendingInv(c, call[c], slice[Array(c)], pending[c], taken[c])
  BY DEF ConnInv
<1>4. CASE taken[c] >= 1
  <2>1. taken[c] \in 1 .. sequence  BY <1>1, <1>4
  <2>2. slice'[taken[c]] = slice[taken[c]]  BY <2>1
  <2>3. slice'[Array(c)'] = slice[Array(c)]  BY <2>2 DEF Array
  <2> QED  BY <1>2, <1>3, <2>2, <2>3 DEF ConnInv
<1>5. CASE ~ (taken[c] >= 1)
  <2>1. call[c].pc = "select"  BY <1>5 DEF ConnInv
  <2>2. CallInv(c, call[c], slice[c], slice'[taken[c]])
    BY <1>3, <2>1 DEF CallInv
  <2>3. PendingInv(c, call[c], slice'[Array(c)'], pending[c], taken[c])
    BY <1>3, <2>1 DEF PendingInv
  <2> QED  BY <1>2, <1>3, <2>2, <2>3 DEF ConnInv
<1> QED  BY <1>4, <1>5

(* A step of one connection: it is left to show that it keeps the types and *)
(* its own invariant.                                                       *)
LEMMA StepOfOne ==
    ASSUME NoSharedSort, DeliveryInv, NEW c \in Conn, sequence' = sequence,
           \A s \in 1 .. sequence :
              slice'[s] = slice[s] \/ (s = taken[c] /\ c \in Limited \ Filtering),
           taken[c] <= taken'[c],
           \A d \in Conn \ {c} :
              /\ slice'[d] = slice[d] /\ taken'[d] = taken[d] /\ call'[d] = call[d]
              /\ pending'[d] = pending[d] /\ shown'[d] = shown[d],
           TypeInv', ConnInv(c)'
    PROVE  DeliveryInv'
<1>1. BroadcastInv'
  <2> SUFFICES ASSUME NEW s \in 1 .. sequence,
                      \A d \in Limited \ Filtering : taken'[d] < s
               PROVE  IsInjective(slice'[s]) /\ ToSet(slice'[s]) = 1 .. Len(slice'[s])
    BY DEF BroadcastInv
  <2>1. taken \in [Conn -> Nat] /\ taken' \in [Conn -> Nat] /\ sequence \in Nat
    BY DEF DeliveryInv, TypeInv
  <2>2. \A d \in Limited \ Filtering : taken[d] < s
    <3> SUFFICES ASSUME NEW d \in Limited \ Filtering PROVE taken[d] < s
      OBVIOUS
    <3>1. d \in Conn /\ taken'[d] < s  OBVIOUS
    <3>2. taken[d] <= taken'[d]
      <4>1. CASE d = c  BY <4>1
      <4>2. CASE d # c
        <5>1. taken'[d] = taken[d] /\ taken[d] \in Nat  BY <2>1, <3>1, <4>2
        <5> QED  BY <5>1
      <4> QED  BY <4>1, <4>2
    <3>3. taken[d] \in Nat /\ taken'[d] \in Nat /\ s \in Nat  BY <2>1, <3>1
    <3> QED  BY <3>1, <3>2, <3>3
  <2>3. slice'[s] = slice[s]
    <3>1. ~ (s = taken[c] /\ c \in Limited \ Filtering)
      <4>1. s \in Nat  BY <2>1
      <4> QED  BY <2>2, <4>1
    <3> QED  BY <3>1
  <2> QED  BY <2>2, <2>3 DEF DeliveryInv, BroadcastInv
<1>2. ASSUME NEW d \in Conn PROVE ConnInv(d)'
  <2>1. CASE d = c  BY <2>1
  <2>2. CASE d # c
    <3>1. sequence' \in Nat /\ sequence <= sequence'  BY DEF DeliveryInv, TypeInv
    <3>2. c \notin Limited \ Filtering  BY <2>2 DEF NoSharedSort
    <3>3. \A s \in 1 .. sequence : slice'[s] = slice[s]  BY <3>2
    <3> QED  BY <2>2, <3>1, <3>3, Untouched DEF DeliveryInv
  <2> QED  BY <2>1, <2>2
<1> QED  BY <1>1, <1>2 DEF DeliveryInv
-----------------------------------------------------------------------------
(* The states a call begins and ends its sort in.                           *)
LEMMA CallTypes ==
    ASSUME NEW len \in Nat
    PROVE  /\ Waiting \in Call
           /\ [Waiting EXCEPT !.pc = "filter"] \in Call
           /\ [Waiting EXCEPT !.pc = "write", !.len = len] \in Call
           /\ [Waiting EXCEPT !.pc = "sort", !.len = len, !.i = 2, !.j = 2] \in Call
<1>1. <<>> \in Seq(Nat)  OBVIOUS
<1>2. Waiting \in Call  BY <1>1 DEF Waiting, Call
<1> HIDE DEF Waiting
<1>3. /\ [Waiting EXCEPT !.pc = "filter"] \in Call
      /\ [Waiting EXCEPT !.pc = "write", !.len = len] \in Call
      /\ [Waiting EXCEPT !.pc = "sort", !.len = len, !.i = 2, !.j = 2] \in Call
  BY <1>2 DEF Call
<1> QED  BY <1>2, <1>3

(* What matched, if it need not be cut, is what was asked for.              *)
LEMMA MatchedIsAsked ==
    ASSUME NEW c \in Conn, NEW s \in Seq(Nat), NEW n \in Nat, IsInjective(s),
           ToSet(s) = Matching(c, n), c \notin Limited \/ Len(s) <= StreamLimit
    PROVE  ToSet(SubSeq(s, 1, Len(s))) = Smallest(c, n)
<1>1. SubSeq(s, 1, Len(s)) = s  BY SubSeqFull
<1>2. CASE c \notin Limited  BY <1>1, <1>2 DEF Smallest
<1>3. CASE c \in Limited
  <2> DEFINE M == ToSet(s)
  <2>1. IsFiniteSet(M) /\ Cardinality(M) = Len(s)  BY InjectiveCardinality
  <2>2. M \in SUBSET Nat  BY DEF ToSet
  <2>3. Cardinality(M) <= StreamLimit /\ StreamLimit \in Nat  BY <1>3, <2>1
  <2> HIDE DEF M
  <2>4. {d \in M : Cardinality({e \in M : e < d}) < StreamLimit} = M
    BY <2>1, <2>2, <2>3, FewAreSmallest
  <2>5. Smallest(c, n) = {d \in M : Cardinality({e \in M : e < d}) < StreamLimit}
    BY <1>3 DEF Smallest, M
  <2> QED  BY <1>1, <2>4, <2>5 DEF M
<1> QED  BY <1>2, <1>3

(* A call begins to write.                                                  *)
LEMMA WriteStarts ==
    ASSUME NEW c \in Conn, NEW s \in Seq(Nat), NEW len \in 0 .. Len(s), NEW n \in Nat,
           IsInjective(s), ToSet(SubSeq(s, 1, len)) = Smallest(c, n),
           NEW at, at.len = len, at.part = 0, at.pos = 1, at.chunk = <<>>
    PROVE  WriteInv(c, at, s, n)
<1>2. IsInjective(SubSeq(s, 1, len))  BY FirstElements
<1>3. /\ Total(c, len) \in Nat \ {0}
      /\ 0 * PartSize \in Nat /\ PartEnd(c, 0, len) \in Nat
      /\ 0 * PartSize <= PartEnd(c, 0, len)
  <2>1. len \in Nat  OBVIOUS
  <2>2. Total(c, len) \in Nat \ {0}  BY <2>1, PartsCover
  <2>3. 0 \in 0 .. Total(c, len) - 1  BY <2>2
  <2> QED  BY <2>1, <2>2, <2>3, PartsCover
<1>4. 0 * PartSize = 0  OBVIOUS
<1>5. 0 \in 0 .. Total(c, len) - 1 /\ 1 \in 0 * PartSize + 1 .. PartEnd(c, 0, len) + 1
  BY <1>3, <1>4
<1>6. <<>> = SubSeq(s, 0 * PartSize + 1, 1 - 1)
  <2>1. 0 * PartSize + 1 = 1 /\ 1 - 1 = 0  BY <1>4
  <2>2. SubSeq(s, 1, 0) = <<>>  BY SubSeqEmpty
  <2> QED  BY <2>1, <2>2
<1>7. len <= Len(s)  OBVIOUS
<1> QED  BY <1>2, <1>5, <1>6, <1>7 DEF WriteInv

(* GetFiltered's snapshot has each drone once, and nobody has it yet.       *)
LEMMA BroadcastStep ==
    ASSUME DeliveryInv, Broadcast
    PROVE  DeliveryInv'
<1>1. PICK n \in 0 .. MaxDrones : \E order \in SetToSeqs(1 .. n) :
          slice' = [slice EXCEPT ![sequence + 1] = order]
  BY DEF Broadcast
<1>2. PICK order \in SetToSeqs(1 .. n) : slice' = [slice EXCEPT ![sequence + 1] = order]
  BY <1>1
<1>3. Cardinality(1 .. n) = n /\ IsFiniteSet(1 .. n)
  <2>1. n \in Int /\ 1 \in Int /\ n - 1 + 1 = n /\ (1 > n <=> n = 0)  OBVIOUS
  <2> QED  BY <2>1, FS_Interval
<1>4. order \in [1 .. n -> 1 .. n] /\ \A i, j \in 1 .. n : i # j => order[i] # order[j]
  BY <1>3 DEF SetToSeqs
<1>5. /\ order \in Seq(Nat) /\ Len(order) = n /\ DOMAIN order = 1 .. n
      /\ IsInjective(order)
  BY <1>4 DEF IsInjective
<1>6. ToSet(order) = 1 .. n
  <2>1. order \in Injection(1 .. n, 1 .. n)  BY <1>4 DEF Injection, IsInjective
  <2>2. order \in Surjection(1 .. n, 1 .. n)  BY <1>3, <2>1, FS_Injection
  <2> QED  BY <1>5, <2>2 DEF Surjection, ToSet
<1>7. /\ sequence \in Nat /\ sequence + 1 \in 1 .. MaxSequence
      /\ sequence' = sequence + 1
  BY DEF DeliveryInv, TypeInv, Broadcast
<1>8. slice' \in [1 .. MaxSequence \cup Conn -> Seq(Nat)]
  <2>1. slice \in [1 .. MaxSequence \cup Conn -> Seq(Nat)]  BY DEF DeliveryInv, TypeInv
  <2> QED  BY <1>2, <1>5, <2>1
<1>9. /\ slice'[sequence + 1] = order
      /\ \A a \in 1 .. MaxSequence \cup Conn : a # sequence + 1 => slice'[a] = slice[a]
  <2>1. slice \in [1 .. MaxSequence \cup Conn -> Seq(Nat)]  BY DEF DeliveryInv, TypeInv
  <2> QED  BY <1>2, <1>7, <2>1
<1>10. TypeInv'
  <2>1. sequence' \in 0 .. MaxSequence  BY <1>7
  <2> QED  BY <1>8, <2>1 DEF DeliveryInv, TypeInv, Broadcast
<1>11. BroadcastInv'
  <2>0. taken' = taken  BY DEF Broadcast
  <2> SUFFICES ASSUME NEW s \in 1 .. sequence + 1,
                      \A d \in Limited \ Filtering : taken[d] < s
               PROVE  IsInjective(slice'[s]) /\ ToSet(slice'[s]) = 1 .. Len(slice'[s])
    BY <1>7, <2>0 DEF BroadcastInv
  <2>1. CASE s = sequence + 1  BY <1>5, <1>6, <1>9, <2>1
  <2>2. CASE s # sequence + 1
    <3>1. s \in 1 .. sequence /\ s \in 1 .. MaxSequence  BY <1>7, <2>2
    <3> QED  BY <1>9, <2>2, <3>1 DEF DeliveryInv, BroadcastInv
  <2> QED  BY <2>1, <2>2
<1>12. ASSUME NEW c \in Conn PROVE ConnInv(c)'
  <2>1. c \notin 1 .. MaxSequence  OBVIOUS
  <2>2. slice'[c] = slice[c]  BY <1>7, <1>9, <2>1
  <2>3. \A s \in 1 .. sequence : slice'[s] = slice[s]
    <3>1. \A s \in 1 .. sequence : s \in 1 .. MaxSequence /\ s # sequence + 1  BY <1>7
    <3> QED  BY <1>9, <3>1
  <2>4. taken' = taken /\ call' = call /\ pending' = pending /\ shown' = shown
    BY DEF Broadcast
  <2>5. sequence' \in Nat /\ sequence <= sequence'  BY <1>7
  <2> QED  BY <2>2, <2>3, <2>4, <2>5, Untouched DEF DeliveryInv
<1> QED  BY <1>10, <1>11, <1>12 DEF DeliveryInv

\* What the invariant says of one connection.
LEMMA OneConnection ==
    ASSUME DeliveryInv, NEW c \in Conn
    PROVE  /\ sequence \in Nat /\ taken[c] \in Nat /\ taken[c] <= sequence
           /\ sequence \in 0 .. MaxSequence
           /\ call[c] \in Call
           /\ slice[c] \in Seq(Nat)
           /\ taken[c] >= 1 =>
                /\ taken[c] \in 1 .. sequence /\ taken[c] \in 1 .. MaxSequence
                /\ slice[taken[c]] \in Seq(Nat)
           /\ call[c].pc # "select" => taken[c] >= 1
           /\ CallInv(c, call[c], slice[c], slice[taken[c]])
           /\ PendingInv(c, call[c], slice[Array(c)], pending[c], taken[c])
           /\ ShownInv(call[c], shown[c], taken[c])
<1>1. TypeInv /\ BroadcastInv /\ ConnInv(c)  BY DEF DeliveryInv
<1>2. /\ sequence \in 0 .. MaxSequence /\ taken[c] \in Nat
      /\ call[c] \in Call
      /\ \A a \in 1 .. MaxSequence \cup Conn : slice[a] \in Seq(Nat)
  BY <1>1 DEF TypeInv
<1>3. taken[c] <= sequence /\ sequence \in Nat  BY <1>1, <1>2 DEF ConnInv
<1>4. ASSUME taken[c] >= 1
      PROVE  /\ taken[c] \in 1 .. sequence /\ taken[c] \in 1 .. MaxSequence
             /\ slice[taken[c]] \in Seq(Nat)
  <2>1. taken[c] \in 1 .. sequence /\ taken[c] \in 1 .. MaxSequence  BY <1>2, <1>3, <1>4
  <2> QED  BY <1>2, <2>1
<1> QED  BY <1>1, <1>2, <1>3, <1>4 DEF ConnInv

(* A broadcast has each drone once for those who copy it, and for those who *)
(* have yet to receive it.                                                  *)
LEMMA WholeBroadcast ==
    ASSUME NoSharedSort, DeliveryInv, NEW c \in Conn, NEW s \in 1 .. sequence,
           c \in Filtering \/ taken[c] < s
    PROVE  IsInjective(slice[s]) /\ ToSet(slice[s]) = 1 .. Len(slice[s])
<1>1. ASSUME NEW d \in Limited \ Filtering PROVE taken[d] < s
  <2>1. d = c  BY DEF NoSharedSort
  <2> QED  BY <2>1
<1> QED  BY <1>1 DEF DeliveryInv, BroadcastInv

(* filtered is complete: s has, once, what matched.                         *)
LEMMA SortOrWriteStarts ==
    ASSUME NEW c \in Conn, NEW s \in Seq(Nat), NEW own, NEW source \in Seq(Nat),
           Filtered(c, own, source) = s,
           IsInjective(s), ToSet(s) = Matching(c, Len(source)),
           SortOrWrite(c, Len(s)), call \in [Conn -> Call]
    PROVE  \E at \in Call :
              /\ call' = [call EXCEPT ![c] = at]
              /\ at.pc # "select" /\ at.part = 0
              /\ CallInv(c, at, own, source)
<1>0. Len(s) \in Nat /\ Len(source) \in Nat /\ DOMAIN s = 1 .. Len(s)  OBVIOUS
<1>1. CASE c \in Limited /\ Len(s) > StreamLimit
  <2> DEFINE at == [Waiting EXCEPT !.pc = "sort", !.len = Len(s), !.i = 2, !.j = 2]
  <2>1. call' = [call EXCEPT ![c] = at]  BY <1>1 DEF SortOrWrite
  <2>2. at \in Call  BY ONLY <1>0, CallTypes
  <2>3. at.pc = "sort" /\ at.len = Len(s) /\ at.i = 2 /\ at.j = 2 /\ at.part = 0
    BY DEF Waiting
  <2> HIDE DEF at
  <2>4. 2 \in 2 .. Len(s) + 1 /\ 2 \in 1 .. 2 /\ ~ (2 > Len(s))  BY <1>0, <1>1
  <2>5. SortedBut(s, 2, 2)
    <3>1. \A x, y \in 1 .. Len(s) : ~ (x < y /\ y <= 2 /\ y # 2)  OBVIOUS
    <3> QED  BY <3>1 DEF SortedBut
  <2>6. SortInv(c, at, s, Len(source), at.j)
    BY <1>1, <2>3, <2>4, <2>5 DEF SortInv
  <2>7. CallInv(c, at, own, source)  BY <2>3, <2>6 DEF CallInv
  <2> QED  BY <2>1, <2>2, <2>3, <2>7
<1>2. CASE ~ (c \in Limited /\ Len(s) > StreamLimit)
  <2> DEFINE at == [Waiting EXCEPT !.pc = "write", !.len = Len(s)]
  <2>1. call' = [call EXCEPT ![c] = at]  BY <1>2 DEF SortOrWrite
  <2>2. at \in Call  BY ONLY <1>0, CallTypes
  <2>3. at.pc = "write" /\ at.len = Len(s) /\ at.part = 0 /\ at.pos = 1 /\ at.chunk = <<>>
    BY DEF Waiting
  <2> HIDE DEF at
  <2>4. c \notin Limited \/ Len(s) <= StreamLimit
    <3>1. StreamLimit \in Nat  OBVIOUS
    <3> QED  BY <1>0, <1>2, <3>1
  <2>5. ToSet(SubSeq(s, 1, Len(s))) = Smallest(c, Len(source))
    BY <1>0, <2>4, MatchedIsAsked
  <2>6. Len(s) \in 0 .. Len(s)  BY <1>0
  <2>7. WriteInv(c, at, s, Len(source))
    BY <1>0, <2>3, <2>5, <2>6, WriteStarts
  <2>8. CallInv(c, at, own, source)  BY <2>3, <2>7 DEF CallInv
  <2> QED  BY <2>1, <2>2, <2>3, <2>8
<1> QED  BY <1>1, <1>2

(* A call receives the newest broadcast.                                    *)
LEMMA ReceiveStep ==
    ASSUME NoSharedSort, DeliveryInv, NEW c \in Conn, Receive(c)
    PROVE  DeliveryInv'
<1> DEFINE src == slice[sequence]
           at == call'[c]
<1>1. /\ sequence \in Nat /\ taken[c] \in Nat /\ taken[c] < sequence
      /\ sequence >= 1 /\ sequence \in 1 .. MaxSequence /\ sequence \in 1 .. sequence
      /\ call[c].pc = "select"
  BY OneConnection DEF Receive
<1>2. src \in Seq(Nat) /\ IsInjective(src) /\ ToSet(src) = 1 .. Len(src) /\ Len(src) \in Nat
  <2>1. src \in Seq(Nat)  BY <1>1 DEF DeliveryInv, TypeInv
  <2>2. IsInjective(src) /\ ToSet(src) = 1 .. Len(src)
    BY <1>1, WholeBroadcast
  <2> QED  BY <2>1, <2>2
<1>3. call[c] = Waiting /\ slice[c] = <<>> /\ DOMAIN pending[c] = {}
      /\ shown[c].sequence <= taken[c]
  BY <1>1, OneConnection DEF CallInv, PendingInv, ShownInv
<1>4. /\ taken' = [taken EXCEPT ![c] = sequence]
      /\ sequence' = sequence /\ slice' = slice /\ pending' = pending /\ shown' = shown
  BY DEF Receive
<1>5. /\ TypeInv /\ DOMAIN call = Conn /\ DOMAIN taken = Conn
  BY DEF DeliveryInv, TypeInv
<1>6. taken'[c] = sequence /\ \A d \in Conn \ {c} : taken'[d] = taken[d]
  BY <1>4, <1>5
<1>7. CASE c \in Filtering
  <2>1. call' = [call EXCEPT ![c].pc = "filter"]  BY <1>7 DEF Receive
  <2>2. at = [Waiting EXCEPT !.pc = "filter"] /\ \A d \in Conn \ {c} : call'[d] = call[d]
    BY <1>3, <1>5, <2>1
  <2>3. at.pc = "filter" /\ at.pos = 1  BY <2>2 DEF Waiting
  <2>4. FilterInv(c, at, slice[c], src)
    <3>1. 1 \in 1 .. Len(src) + 1 /\ {src[k] : k \in 1 .. 1 - 1} = {}  BY <1>2
    <3>2. IsInjective(<<>>) /\ ToSet(<<>>) = {}  BY DEF IsInjective, ToSet
    <3> QED  BY <1>3, <1>7, <2>3, <3>1, <3>2 DEF FilterInv
  <2>5. CallInv(c, at, slice[c], src)  BY <2>3, <2>4 DEF CallInv
  <2>6. PendingInv(c, at, slice[Array(c)'], pending[c], sequence)
    BY <1>3, <2>3 DEF PendingInv
  <2>7. ShownInv(at, shown[c], sequence)
    <3>1. shown[c].sequence \in Nat  BY <1>5 DEF TypeInv
    <3> QED  BY <1>1, <1>3, <2>3, <3>1 DEF ShownInv
  <2> HIDE DEF src, at
  <2>8. ConnInv(c)'
    BY <1>1, <1>4, <1>6, <2>5, <2>6, <2>7 DEF ConnInv, src, at
  <2>9. TypeInv'
    <3>1. call' \in [Conn -> Call]
      <4>1. [Waiting EXCEPT !.pc = "filter"] \in Call
        <5>1. 0 \in Nat  OBVIOUS
        <5> QED  BY ONLY <5>1, CallTypes
      <4>2. call' = [call EXCEPT ![c] = [Waiting EXCEPT !.pc = "filter"]]
        BY <1>3, <2>1
      <4> QED  BY <1>5, <4>1, <4>2 DEF TypeInv
    <3> QED  BY <1>1, <1>4, <1>5, <3>1 DEF TypeInv
  <2> QED  BY <1>1, <1>4, <1>6, <2>2, <2>8, <2>9, StepOfOne
<1>8. CASE c \notin Filtering
  <2>1. SortOrWrite(c, Len(src))  BY <1>8 DEF Receive
  <2>2. Filtered(c, slice[c], src) = src /\ ToSet(src) = Matching(c, Len(src))
    BY <1>2, <1>8 DEF Filtered, Matching
  <2>3. call \in [Conn -> Call]  BY <1>5 DEF TypeInv
  <2>4. PICK to \in Call :
              /\ call' = [call EXCEPT ![c] = to]
              /\ to.pc # "select" /\ to.part = 0
              /\ CallInv(c, to, slice[c], src)
    <3> HIDE DEF src
    <3> QED  BY <1>2, <2>1, <2>2, <2>3, SortOrWriteStarts
  <2>5. call'[c] = to /\ \A d \in Conn \ {c} : call'[d] = call[d]
    BY <1>5, <2>4
  <2>6. PendingInv(c, to, slice[Array(c)'], pending[c], sequence)
    BY <1>3, <2>4 DEF PendingInv
  <2>7. ShownInv(to, shown[c], sequence)
    <3>1. shown[c].sequence \in Nat  BY <1>5 DEF TypeInv
    <3> QED  BY <1>1, <1>3, <2>4, <3>1 DEF ShownInv
  <2>8. ConnInv(c)'
    BY <1>1, <1>4, <1>6, <2>4, <2>5, <2>6, <2>7 DEF ConnInv
  <2>9. TypeInv'
    <3>1. call' \in [Conn -> Call]  BY <2>3, <2>4
    <3> QED  BY <1>1, <1>4, <1>5, <3>1 DEF TypeInv
  <2> QED  BY <1>1, <1>4, <1>6, <2>5, <2>8, <2>9, StepOfOne
<1> QED  BY <1>7, <1>8

(* A step of a call that only moves the call on and writes filtered.        *)
LEMMA OwnStep ==
    ASSUME NoSharedSort, DeliveryInv, NEW c \in Conn, call[c].pc # "select",
           NEW s \in Seq(Nat), slice' = [slice EXCEPT ![Array(c)] = s],
           s = slice[Array(c)] \/ c \in Filtering \/ c \in Limited,
           NEW own, own = IF c \in Filtering THEN s ELSE slice[c],
           NEW source, source = IF c \in Filtering THEN slice[taken[c]] ELSE s,
           NEW at \in Call, at.pc # "select", call' = [call EXCEPT ![c] = at],
           sequence' = sequence, taken' = taken, pending' = pending, shown' = shown,
           CallInv(c, at, own, source), PendingInv(c, at, s, pending[c], taken[c])
    PROVE  DeliveryInv'
<1>1. /\ sequence \in Nat /\ taken[c] \in Nat /\ taken[c] <= sequence
      /\ sequence \in 0 .. MaxSequence
      /\ taken[c] >= 1 /\ taken[c] \in 1 .. sequence /\ taken[c] \in 1 .. MaxSequence
      /\ ShownInv(call[c], shown[c], taken[c])
  BY OneConnection
<1>2. slice \in [1 .. MaxSequence \cup Conn -> Seq(Nat)] /\ call \in [Conn -> Call]
  BY DEF DeliveryInv, TypeInv
<1>3. /\ Array(c) = (IF c \in Filtering THEN c ELSE taken[c]) /\ Array(c)' = Array(c)
      /\ Array(c) \in 1 .. MaxSequence \cup Conn
  BY <1>1 DEF Array
<1>4. \A d \in Conn : d \notin 1 .. MaxSequence  OBVIOUS
<1>5. /\ slice' \in [1 .. MaxSequence \cup Conn -> Seq(Nat)]
      /\ slice'[Array(c)] = s
      /\ \A a \in 1 .. MaxSequence \cup Conn : a # Array(c) => slice'[a] = slice[a]
  BY <1>2, <1>3
<1>6. /\ call' \in [Conn -> Call] /\ call'[c] = at
      /\ \A d \in Conn \ {c} : call'[d] = call[d]
  BY <1>2
<1>7. slice'[c] = own /\ slice'[taken[c]] = source
  <2>1. c # taken[c]  BY <1>1, <1>4
  <2> QED  BY <1>1, <1>3, <1>5, <2>1
<1>8. \A b \in 1 .. sequence :
         slice'[b] = slice[b] \/ (b = taken[c] /\ c \in Limited \ Filtering)
  <2> SUFFICES ASSUME NEW b \in 1 .. sequence
               PROVE  slice'[b] = slice[b] \/ (b = taken[c] /\ c \in Limited \ Filtering)
    OBVIOUS
  <2>1. b \in 1 .. MaxSequence /\ b # c  BY <1>1, <1>4
  <2>2. CASE b # Array(c)  BY <1>5, <2>1, <2>2
  <2>3. CASE b = Array(c)
    <3>1. c \notin Filtering /\ b = taken[c]  BY <1>3, <2>1, <2>3
    <3> QED  BY <1>5, <2>3, <3>1
  <2> QED  BY <2>2, <2>3
<1>9. \A d \in Conn \ {c} : slice'[d] = slice[d]
  <2>1. \A d \in Conn \ {c} : d # Array(c)  BY <1>1, <1>3, <1>4
  <2> QED  BY <1>5, <2>1
<1>10. ShownInv(at, shown[c], taken[c])  BY <1>1 DEF ShownInv
<1>11. ConnInv(c)'
  BY <1>1, <1>3, <1>5, <1>6, <1>7, <1>10 DEF ConnInv
<1>12. TypeInv'  BY <1>5, <1>6 DEF DeliveryInv, TypeInv
<1> QED  BY <1>1, <1>6, <1>8, <1>9, <1>11, <1>12, StepOfOne

(* The loop of filterUpdates.                                               *)
LEMMA FilterStep ==
    ASSUME NoSharedSort, DeliveryInv, NEW c \in Conn, filterUpdates(c)
    PROVE  DeliveryInv'
<1> DEFINE source == slice[taken[c]]
           own == slice[c]
           pos == call[c].pos
<1>1. /\ call[c].pc = "filter" /\ taken[c] >= 1 /\ call[c] \in Call
      /\ own \in Seq(Nat) /\ source \in Seq(Nat) /\ taken[c] \in 1 .. sequence
      /\ DOMAIN pending[c] = {} /\ FilterInv(c, call[c], own, source)
  <2>1. call[c].pc = "filter"  BY DEF filterUpdates
  <2> QED  BY <2>1, OneConnection DEF PendingInv, CallInv
<1>2. /\ FilterInv(c, call[c], own, source) /\ c \in Filtering
      /\ Array(c) = c /\ Filtered(c, own, source) = own
      /\ IsInjective(source) /\ ToSet(source) = 1 .. Len(source)
  <2>1. c \in Filtering  BY <1>1 DEF FilterInv
  <2> QED  BY <1>1, <2>1, WholeBroadcast DEF Array, Filtered
<1>3. slice \in [1 .. MaxSequence \cup Conn -> Seq(Nat)] /\ call \in [Conn -> Call]
  BY DEF DeliveryInv, TypeInv
<1>4. sequence' = sequence /\ taken' = taken /\ pending' = pending /\ shown' = shown
  BY DEF filterUpdates
<1>5. slice = [slice EXCEPT ![c] = own]  BY <1>3
<1>6. /\ Len(source) \in Nat /\ DOMAIN source = 1 .. Len(source)
      /\ Len(own) \in Nat /\ DOMAIN own = 1 .. Len(own)
      /\ \A k \in 1 .. Len(source) : source[k] \in Nat
  BY <1>1
<1>7. CASE pos <= Len(source)
  <2> DEFINE at == [call[c] EXCEPT !.pos = pos + 1]
             more == IF source[pos] \in Wanted THEN Append(own, source[pos]) ELSE own
  <2>1. call' = [call EXCEPT ![c] = at] /\ slice' = [slice EXCEPT ![c] = more]
    BY <1>5, <1>7 DEF filterUpdates
  <2>2. pos \in 1 .. Len(source) /\ pos \in Nat /\ pos + 1 \in Nat
    BY <1>1, <1>2, <1>6, <1>7 DEF FilterInv
  <2>3. at \in Call /\ at.pc = "filter" /\ at.pos = pos + 1
    BY <1>1, <2>2 DEF Call
  <2>4. {source[k] : k \in 1 .. (pos + 1) - 1} = {source[k] : k \in 1 .. pos - 1} \cup {source[pos]}
    <3>1. 1 .. (pos + 1) - 1 = (1 .. pos - 1) \cup {pos}  BY <2>2
    <3> QED  BY <3>1
  <2>5. ToSet(own) = {source[k] : k \in 1 .. pos - 1} \cap Wanted /\ IsInjective(own)
        /\ c \in Filtering
    BY <1>2 DEF FilterInv
  <2>6. source[pos] \notin ToSet(own)
    <3>1. \A k \in 1 .. pos - 1 : k \in DOMAIN source /\ k # pos  BY <1>6, <2>2
    <3>2. pos \in DOMAIN source  BY <1>6, <2>2
    <3>3. \A k \in 1 .. pos - 1 : source[k] # source[pos]
      BY <1>2, <3>1, <3>2 DEF IsInjective
    <3> QED  BY <2>5, <3>3
  <2>7. /\ more \in Seq(Nat) /\ IsInjective(more)
        /\ ToSet(more) = {source[k] : k \in 1 .. (pos + 1) - 1} \cap Wanted
    <3>1. CASE source[pos] \notin Wanted
      BY <1>1, <2>4, <2>5, <3>1
    <3>2. CASE source[pos] \in Wanted
      <4> DEFINE n == Len(own)
                 x == source[pos]
      <4>1. more = Append(own, x) /\ x \in Nat  BY <1>6, <2>2, <3>2
      <4>2. /\ more \in Seq(Nat) /\ Len(more) = n + 1 /\ DOMAIN more = 1 .. n + 1
            /\ more[n + 1] = x /\ \A k \in 1 .. n : more[k] = own[k]
        <5> HIDE DEF more, x
        <5> QED  BY <1>1, <4>1
      <4>3. n \in Nat /\ 1 .. n + 1 = (1 .. n) \cup {n + 1} /\ n + 1 \notin 1 .. n
        BY <1>6
      <4>4. DOMAIN own = 1 .. n  BY <1>6
      <4> HIDE DEF more, n, x
      <4>5. ToSet(more) = ToSet(own) \cup {x}
        BY <4>2, <4>3, <4>4 DEF ToSet
      <4>6. IsInjective(more)
        <5> SUFFICES ASSUME NEW a \in 1 .. n + 1, NEW b \in 1 .. n + 1, more[a] = more[b]
                     PROVE  a = b
          BY <4>2 DEF IsInjective
        <5>1. \A k \in 1 .. n : own[k] # x  BY <2>6, <4>4 DEF ToSet, x
        <5>2. CASE a \in 1 .. n /\ b \in 1 .. n
          BY <2>5, <4>2, <4>4, <5>2 DEF IsInjective
        <5>3. CASE ~ (a \in 1 .. n /\ b \in 1 .. n)
          <6>1. ~ (a \in 1 .. n /\ b = n + 1) /\ ~ (b \in 1 .. n /\ a = n + 1)
            BY <4>2, <5>1
          <6> QED  BY <4>3, <5>3, <6>1
        <5> QED  BY <5>2, <5>3
      <4>7. ToSet(more) = {source[k] : k \in 1 .. (pos + 1) - 1} \cap Wanted
        BY <2>4, <2>5, <3>2, <4>5 DEF x
      <4> QED  BY <4>2, <4>6, <4>7
    <3> QED  BY <3>1, <3>2
  <2>8. pos + 1 \in 1 .. Len(source) + 1  BY <2>2
  <2> HIDE DEF at, more
  <2>9. CallInv(c, at, more, source)
    <3>1. FilterInv(c, at, more, source)  BY <2>3, <2>5, <2>7, <2>8 DEF FilterInv
    <3> QED  BY <2>3, <3>1 DEF CallInv
  <2>10. \A s : PendingInv(c, at, s, pending[c], taken[c])
    BY <1>1, <2>3 DEF PendingInv
  <2>11. call[c].pc # "select" /\ at.pc # "select"  BY <1>1, <2>3
  <2> QED  BY <1>2, <1>4, <2>1, <2>3, <2>7, <2>9, <2>10, <2>11, OwnStep
<1>8. CASE ~ (pos <= Len(source))
  <2>1. SortOrWrite(c, Len(own)) /\ slice' = slice
    BY <1>8 DEF filterUpdates
  <2>2. ToSet(own) = Matching(c, Len(source)) /\ IsInjective(own) /\ c \in Filtering
    <3>1. pos = Len(source) + 1
      BY <1>2, <1>6, <1>8 DEF FilterInv
    <3>2. 1 .. pos - 1 = DOMAIN source  BY <1>6, <3>1
    <3>3. {source[k] : k \in 1 .. pos - 1} = ToSet(source)  BY <3>2 DEF ToSet
    <3> QED  BY <1>2, <3>3 DEF FilterInv, Matching
  <2>3. PICK at \in Call :
              /\ call' = [call EXCEPT ![c] = at]
              /\ at.pc # "select" /\ at.part = 0
              /\ CallInv(c, at, own, source)
    BY <1>1, <1>2, <1>3, <2>1, <2>2, SortOrWriteStarts
  <2>4. \A s : PendingInv(c, at, s, pending[c], taken[c])
    BY <1>1, <2>3 DEF PendingInv
  <2>5. slice' = [slice EXCEPT ![c] = own]  BY <1>5, <2>1
  <2>6. call[c].pc # "select" BY <1>1
  <2> QED  BY <1>1, <1>2, <1>4, <2>3, <2>4, <2>5, <2>6, OwnStep
<1> QED  BY <1>7, <1>8

(* The loops of the sort, and the truncation after them.                    *)
LEMMA CompareStep ==
    ASSUME NoSharedSort, DeliveryInv, NEW c \in Conn, Compare(c)
    PROVE  DeliveryInv'
<1> DEFINE source == slice[taken[c]]
           s == slice[Array(c)]
           n == Len(source)
           i == call[c].i
           j == call[c].j
           len == call[c].len
<1>1. /\ call[c].pc = "sort" /\ taken[c] >= 1 /\ call[c] \in Call
      /\ source \in Seq(Nat) /\ slice[c] \in Seq(Nat)
      /\ DOMAIN pending[c] = {} /\ CallInv(c, call[c], slice[c], source)
  <2>1. call[c].pc = "sort"  BY DEF Compare
  <2> QED  BY <2>1, OneConnection DEF PendingInv
<1>2. s = Filtered(c, slice[c], source) /\ s \in Seq(Nat) /\ SortInv(c, call[c], s, n, j)
  <2>1. s = Filtered(c, slice[c], source)  BY DEF Array, Filtered
  <2>2. s \in Seq(Nat)  BY <1>1, <2>1 DEF Filtered
  <2> HIDE DEF s, source
  <2> QED  BY <1>1, <2>1, <2>2 DEF CallInv
<1>3. /\ c \in Limited /\ len = Len(s) /\ len > StreamLimit
      /\ i \in 2 .. len + 1 /\ j \in 1 .. i /\ (i > len => j = i)
      /\ IsInjective(s) /\ ToSet(s) = Matching(c, n) /\ SortedBut(s, i, j)
      /\ len \in Nat /\ i \in Nat /\ j \in Nat /\ n \in Nat
  <2>1. len \in Nat /\ i \in Nat /\ j \in Nat  BY <1>1 DEF Call
  <2>2. n \in Nat  BY <1>1
  <2> QED  BY <1>2, <2>1, <2>2 DEF SortInv
<1>4. slice \in [1 .. MaxSequence \cup Conn -> Seq(Nat)] /\ call \in [Conn -> Call]
  BY DEF DeliveryInv, TypeInv
<1>5. /\ sequence' = sequence /\ taken' = taken /\ pending' = pending /\ shown' = shown
      /\ slice' = [slice EXCEPT ![Array(c)] = s]
  BY <1>4 DEF Compare
<1>6. \A k : Element(c, k) = s[k]  BY DEF Element
<1>7. ASSUME NEW at \in Call, at.pc # "select", at.part = 0 \/ at.pc # "write",
             call' = [call EXCEPT ![c] = at], CallInv(c, at, slice[c], source)
      PROVE  DeliveryInv'
  <2>1. PendingInv(c, at, s, pending[c], taken[c])
    BY <1>1, <1>7 DEF PendingInv
  <2>2. call[c].pc # "select"  BY <1>1
  <2>3. /\ slice[c] = IF c \in Filtering THEN s ELSE slice[c]
        /\ source = IF c \in Filtering THEN slice[taken[c]] ELSE s
    BY DEF Array
  <2> HIDE DEF source
  <2> QED  BY <1>2, <1>5, <1>7, <2>1, <2>2, <2>3, OwnStep
<1>8. CASE i > len
  <2> DEFINE at == [Waiting EXCEPT !.pc = "write", !.len = StreamLimit]
  <2>1. call' = [call EXCEPT ![c] = at]  BY <1>8 DEF Compare
  <2>2. at \in Call
    <3>1. StreamLimit \in Nat  OBVIOUS
    <3> QED  BY <3>1, CallTypes
  <2>3. at.pc = "write" /\ at.len = StreamLimit /\ at.part = 0 /\ at.pos = 1 /\ at.chunk = <<>>
    BY DEF Waiting
  <2>4. StreamLimit \in 0 .. Len(s)  BY <1>3
  <2>5. Ascending(s)
    <3>1. i = len + 1 /\ j = len + 1  BY <1>3, <1>8
    <3>2. \A y \in 1 .. Len(s) : y <= i /\ y # j  BY <1>3, <3>1
    <3> QED  BY <1>3, <3>2 DEF SortedBut, Ascending
  <2>6. ToSet(SubSeq(s, 1, StreamLimit)) = Smallest(c, n)
    <3> DEFINE M == ToSet(s)
    <3>1. ToSet(SubSeq(s, 1, StreamLimit)) =
             {d \in M : Cardinality({e \in M : e < d}) < StreamLimit}
      BY <1>2, <2>4, <2>5, FirstAreSmallest
    <3>2. M = Matching(c, n)  BY <1>3
    <3> HIDE DEF M
    <3> QED  BY <1>3, <3>1, <3>2 DEF Smallest
  <2> HIDE DEF at
  <2>7. WriteInv(c, at, s, n)
    <3> HIDE DEF s, n
    <3> QED  BY <1>2, <1>3, <2>3, <2>4, <2>6, WriteStarts
  <2>8. CallInv(c, at, slice[c], source)  BY <1>2, <2>3, <2>7 DEF CallInv
  <2> QED  BY <1>7, <2>1, <2>2, <2>3, <2>8
<1>9. CASE ~ (i > len) /\ j > 1 /\ s[j] < s[j - 1]
  <2> DEFINE at == [call[c] EXCEPT !.pc = "swap"]
  <2>1. call' = [call EXCEPT ![c] = at]  BY <1>6, <1>9 DEF Compare
  <2>2. /\ at \in Call /\ at.pc = "swap"
        /\ at.len = len /\ at.i = i /\ at.j = j
    BY <1>1 DEF Call
  <2> HIDE DEF at
  <2>3. SortInv(c, at, s, n, j)  BY <1>2, <2>2 DEF SortInv
  <2>4. SwapInv(at)  BY <1>3, <1>9, <2>2 DEF SwapInv
  <2>5. CallInv(c, at, slice[c], source)  BY <1>2, <1>9, <2>2, <2>3, <2>4 DEF CallInv
  <2> QED  BY <1>7, <2>1, <2>2, <2>5
<1>10. CASE ~ (i > len) /\ ~ (j > 1 /\ s[j] < s[j - 1])
  <2> DEFINE at == [call[c] EXCEPT !.i = i + 1, !.j = i + 1]
  <2>1. call' = [call EXCEPT ![c] = at]  BY <1>6, <1>10 DEF Compare
  <2>2. /\ at \in Call /\ at.pc = "sort"
        /\ at.len = len /\ at.i = i + 1 /\ at.j = i + 1
    <3>1. i + 1 \in Nat  BY <1>3
    <3> QED  BY <1>1, <3>1 DEF Call
  <2> HIDE DEF at
  <2>3. i \in 1 .. Len(s) /\ (j = 1 \/ ~ (s[j] < s[j - 1]))  BY <1>3, <1>10
  <2>4. SortedBut(s, i + 1, i + 1)  BY <1>2, <1>3, <2>3, InsertionEnds
  <2>5. i + 1 \in 2 .. len + 1 /\ i + 1 \in 1 .. i + 1  BY <1>3, <1>10
  <2>6. SortInv(c, at, s, n, i + 1)  BY <1>3, <2>2, <2>4, <2>5 DEF SortInv
  <2>7. CallInv(c, at, slice[c], source)  BY <1>2, <2>2, <2>6 DEF CallInv
  <2> QED  BY <1>7, <2>1, <2>2, <2>7
<1> QED  BY <1>8, <1>9, <1>10

(* The first half of a swap.                                                *)
LEMMA SwapFirstStep ==
    ASSUME NoSharedSort, DeliveryInv, NEW c \in Conn, SwapFirst(c)
    PROVE  DeliveryInv'
<1> DEFINE source == slice[taken[c]]
           s == slice[Array(c)]
           n == Len(source)
           i == call[c].i
           j == call[c].j
           new == [s EXCEPT ![j] = s[j - 1]]
           at == [call[c] EXCEPT !.pc = "swapped", !.held = s[j]]
           t == Swapped(s, j)
           own == IF c \in Filtering THEN new ELSE slice[c]
           sorted == IF c \in Filtering THEN slice[taken[c]] ELSE new
<1>1. /\ call[c].pc = "swap" /\ taken[c] >= 1 /\ call[c] \in Call
      /\ source \in Seq(Nat) /\ slice[c] \in Seq(Nat)
      /\ DOMAIN pending[c] = {} /\ CallInv(c, call[c], slice[c], source)
  <2>1. call[c].pc = "swap"  BY DEF SwapFirst
  <2> QED  BY <2>1, OneConnection DEF PendingInv
<1>2. /\ s = Filtered(c, slice[c], source) /\ s \in Seq(Nat)
      /\ SortInv(c, call[c], s, n, j) /\ SwapInv(call[c]) /\ s[j] < s[j - 1]
  <2>1. s = Filtered(c, slice[c], source)  BY DEF Array, Filtered
  <2>2. s \in Seq(Nat)  BY <1>1, <2>1 DEF Filtered
  <2> HIDE DEF s, source
  <2> QED  BY <1>1, <2>1, <2>2 DEF CallInv
<1>3. /\ c \in Limited
      /\ call[c].len = Len(s) /\ call[c].len > StreamLimit
      /\ i \in 2 .. Len(s) + 1 /\ j \in 1 .. i /\ i <= Len(s) /\ j > 1
      /\ IsInjective(s) /\ ToSet(s) = Matching(c, n) /\ SortedBut(s, i, j)
      /\ Len(s) \in Nat /\ i \in Nat /\ j \in Nat
  <2>1. i \in Nat /\ j \in Nat  BY <1>1 DEF Call
  <2>2. Len(s) \in Nat  BY <1>2
  <2> QED  BY <1>2, <2>1, <2>2 DEF SortInv, SwapInv
<1>4. /\ i \in 1 .. Len(s) /\ j \in 2 .. i
      /\ j \in 1 .. Len(s) /\ j - 1 \in 1 .. Len(s) /\ j # j - 1
  BY <1>3
<1>5. s[j] \in Nat /\ s[j - 1] \in Nat /\ DOMAIN s = 1 .. Len(s)
  <2> HIDE DEF s, j
  <2> QED  BY <1>2, <1>4
<1>6. new \in Seq(Nat) /\ Len(new) = Len(s)
  <2> HIDE DEF s, j
  <2> QED  BY <1>2, <1>4, <1>5
<1>7. at \in Call /\ at.pc = "swapped" /\ at.held = s[j]
      /\ at.len = call[c].len /\ at.i = i /\ at.j = j
  BY <1>1, <1>5 DEF Call
<1>8. slice \in [1 .. MaxSequence \cup Conn -> Seq(Nat)] /\ call \in [Conn -> Call]
  BY DEF DeliveryInv, TypeInv
<1>9. slice' = [slice EXCEPT ![Array(c)] = new] /\ call' = [call EXCEPT ![c] = at]
  <2>1. /\ slice' = [slice EXCEPT ![Array(c)][j] = s[j - 1]]
        /\ call' = [call EXCEPT ![c].pc = "swapped", ![c].held = s[j]]
    BY DEF SwapFirst, Element
  <2> QED  BY <1>8, <2>1
<1>10. /\ t \in Seq(Nat) /\ Len(t) = Len(s)
       /\ IsInjective(t) /\ ToSet(t) = ToSet(s)
       /\ SortedBut(t, i, j - 1)
  <2> HIDE DEF s, i, j
  <2> QED  BY <1>2, <1>3, <1>4, SwapInserts
<1>11. t = [new EXCEPT ![j - 1] = s[j]]
  BY <1>4, <1>5 DEF Swapped
<1>12. SortInv(c, at, t, n, j - 1)
  <2>1. j - 1 \in 1 .. i /\ ~ (i > Len(s))  BY <1>3
  <2> HIDE DEF t, at, i, j, s
  <2> QED  BY <1>3, <1>7, <1>10, <2>1 DEF SortInv
<1>13. CallInv(c, at, own, sorted)
  <2>1. SwapInv(at)  BY <1>3, <1>7 DEF SwapInv
  <2>2. Filtered(c, own, sorted) = new  BY DEF Filtered
  <2>3. Len(sorted) = n
    <3>1. c \notin Filtering => s = source  BY DEF Array
    <3> HIDE DEF s, new
    <3> QED  BY <1>6, <3>1
  <2> HIDE DEF t, at, s, new, own, sorted, n
  <2> QED  BY <1>7, <1>11, <1>12, <2>1, <2>2, <2>3 DEF CallInv
<1>14. \A u : PendingInv(c, at, u, pending[c], taken[c])
  <2> HIDE DEF at
  <2> QED  BY <1>1, <1>7 DEF PendingInv
<1>15. sequence' = sequence /\ taken' = taken /\ pending' = pending /\ shown' = shown
  BY DEF SwapFirst
<1>16. call[c].pc # "select" /\ at.pc # "select"  BY <1>1, <1>7
<1>17. own = (IF c \in Filtering THEN new ELSE slice[c])
       /\ sorted = IF c \in Filtering THEN slice[taken[c]] ELSE new
  OBVIOUS
<1> HIDE DEF new, at, source, t, own, sorted
<1> QED
  BY <1>3, <1>6, <1>7, <1>9, <1>13, <1>14, <1>15, <1>16, <1>17, OwnStep

(* The second half.                                                         *)
LEMMA SwapSecondStep ==
    ASSUME NoSharedSort, DeliveryInv, NEW c \in Conn, SwapSecond(c)
    PROVE  DeliveryInv'
<1> DEFINE source == slice[taken[c]]
           s == slice[Array(c)]
           n == Len(source)
           j == call[c].j
           new == [s EXCEPT ![j - 1] = call[c].held]
           at == [call[c] EXCEPT !.pc = "sort", !.j = j - 1, !.held = 0]
           own == IF c \in Filtering THEN new ELSE slice[c]
           sorted == IF c \in Filtering THEN slice[taken[c]] ELSE new
<1>1. /\ call[c].pc = "swapped" /\ taken[c] >= 1 /\ call[c] \in Call
      /\ source \in Seq(Nat) /\ slice[c] \in Seq(Nat)
      /\ DOMAIN pending[c] = {} /\ CallInv(c, call[c], slice[c], source)
  <2>1. call[c].pc = "swapped"  BY DEF SwapSecond
  <2> QED  BY <2>1, OneConnection DEF PendingInv
<1>2. /\ s = Filtered(c, slice[c], source) /\ s \in Seq(Nat)
      /\ SortInv(c, call[c], new, n, j - 1) /\ SwapInv(call[c])
  <2>1. s = Filtered(c, slice[c], source)  BY DEF Array, Filtered
  <2>2. s \in Seq(Nat)  BY <1>1, <2>1 DEF Filtered
  <2> HIDE DEF s, source
  <2> QED  BY <1>1, <2>1, <2>2 DEF CallInv
<1>3. /\ c \in Limited /\ j - 1 \in Nat /\ call[c].held \in Nat
  <2>1. c \in Limited /\ j > 1  BY <1>2 DEF SortInv, SwapInv
  <2>2. j \in Nat /\ call[c].held \in Nat  BY <1>1 DEF Call
  <2> QED  BY <2>1, <2>2
<1>4. new \in Seq(Nat) /\ Len(new) = Len(s)
  <2> HIDE DEF s, j
  <2>1. Len(s) \in Nat /\ s \in [1 .. Len(s) -> Nat]  BY <1>2
  <2>2. new \in [1 .. Len(s) -> Nat]  BY <1>3, <2>1
  <2> QED  BY <2>1, <2>2
<1>5. at \in Call /\ at.pc = "sort"
      /\ at.len = call[c].len /\ at.i = call[c].i /\ at.j = j - 1
  BY <1>1, <1>3 DEF Call
<1>6. slice \in [1 .. MaxSequence \cup Conn -> Seq(Nat)] /\ call \in [Conn -> Call]
  BY DEF DeliveryInv, TypeInv
<1>7. slice' = [slice EXCEPT ![Array(c)] = new] /\ call' = [call EXCEPT ![c] = at]
  <2>1. /\ slice' = [slice EXCEPT ![Array(c)][j - 1] = call[c].held]
        /\ call' = [call EXCEPT ![c].pc = "sort", ![c].j = j - 1, ![c].held = 0]
    BY DEF SwapSecond
  <2> QED  BY <1>6, <2>1
<1>8. CallInv(c, at, own, sorted)
  <2>1. Filtered(c, own, sorted) = new  BY DEF Filtered
  <2>2. Len(sorted) = n
    <3>1. c \notin Filtering => s = source  BY DEF Array
    <3> HIDE DEF s, new
    <3> QED  BY <1>4, <3>1
  <2> HIDE DEF new, at, own, sorted, n
  <2>3. SortInv(c, at, new, n, j - 1)  BY <1>2, <1>5 DEF SortInv
  <2> QED  BY <1>5, <2>1, <2>2, <2>3 DEF CallInv
<1>9. \A u : PendingInv(c, at, u, pending[c], taken[c])
  <2> HIDE DEF at
  <2> QED  BY <1>1, <1>5 DEF PendingInv
<1>10. sequence' = sequence /\ taken' = taken /\ pending' = pending /\ shown' = shown
  BY DEF SwapSecond
<1>11. call[c].pc # "select" /\ at.pc # "select"  BY <1>1, <1>5
<1>12. own = (IF c \in Filtering THEN new ELSE slice[c])
       /\ sorted = IF c \in Filtering THEN slice[taken[c]] ELSE new
  OBVIOUS
<1> HIDE DEF new, at, source, own, sorted
<1> QED
  BY <1>3, <1>4, <1>5, <1>7, <1>8, <1>9, <1>10, <1>11, <1>12, OwnStep

\* Where a call writes from.
LEMMA Writing ==
    ASSUME DeliveryInv, NEW c \in Conn, call[c].pc = "write"
    PROVE  /\ slice[Array(c)] = IF c \in Filtering THEN slice[c] ELSE slice[taken[c]]
           /\ slice[Array(c)] \in Seq(Nat)
           /\ WriteInv(c, call[c], slice[Array(c)], Len(slice[taken[c]]))
           /\ taken[c] \in 1 .. sequence /\ taken[c] \in 1 .. MaxSequence
           /\ call[c] \in Call
           /\ shown[c].sequence < taken[c]
           /\ PendingInv(c, call[c], slice[Array(c)], pending[c], taken[c])
<1>1. slice[Array(c)] = IF c \in Filtering THEN slice[c] ELSE slice[taken[c]]
  BY DEF Array
<1>2. /\ taken[c] >= 1 /\ taken[c] \in 1 .. sequence /\ sequence \in 0 .. MaxSequence
      /\ slice[c] \in Seq(Nat) /\ slice[taken[c]] \in Seq(Nat)
      /\ call[c] \in Call
      /\ CallInv(c, call[c], slice[c], slice[taken[c]])
      /\ PendingInv(c, call[c], slice[Array(c)], pending[c], taken[c])
      /\ ShownInv(call[c], shown[c], taken[c])
  BY OneConnection
<1>3. taken[c] \in 1 .. MaxSequence  BY <1>2
<1>4. WriteInv(c, call[c], slice[Array(c)], Len(slice[taken[c]]))
  BY <1>1, <1>2 DEF CallInv, Filtered
<1>5. shown[c].sequence < taken[c]  BY <1>2 DEF ShownInv
<1> QED  BY <1>1, <1>2, <1>3, <1>4, <1>5

(* json.Marshal of one element.                                             *)
LEMMA EncodeStep ==
    ASSUME NoSharedSort, DeliveryInv, NEW c \in Conn, Encode(c)
    PROVE  DeliveryInv'
<1> DEFINE s == slice[Array(c)]
           source == slice[taken[c]]
           n == Len(source)
           old == call[c]
           end == PartEnd(c, old.part, old.len)
           start == old.part * PartSize
           at == [old EXCEPT !.pos = old.pos + 1, !.chunk = Append(old.chunk, s[old.pos])]
<1>1. old.pc = "write" /\ old.pos <= end  BY DEF Encode
<1>2. /\ s = IF c \in Filtering THEN slice[c] ELSE source
      /\ s \in Seq(Nat) /\ WriteInv(c, old, s, n) /\ old \in Call
      /\ PendingInv(c, old, s, pending[c], taken[c])
  BY <1>1, Writing
<1>3. /\ old.len \in Nat /\ old.pos \in Nat /\ old.part \in Nat /\ old.chunk \in Seq(Nat)
  BY <1>2 DEF Call
<1>4. /\ old.len <= Len(s) /\ old.part \in 0 .. Total(c, old.len) - 1
      /\ old.pos \in start + 1 .. end + 1
      /\ old.chunk = SubSeq(s, start + 1, old.pos - 1)
  BY <1>2 DEF WriteInv
<1>5. start \in Nat /\ end \in Nat /\ end <= old.len
  BY <1>3, <1>4, PartsCover
<1>6. /\ start + 1 \in 1 .. Len(s) /\ old.pos \in start + 1 .. Len(s)
      /\ old.pos \in 1 .. Len(s) /\ old.pos + 1 \in start + 1 .. end + 1
  <2>1. Len(s) \in Nat  BY <1>2
  <2> HIDE DEF s, start, end, old
  <2> QED  BY <1>1, <1>3, <1>4, <1>5, <2>1
<1>7. SubSeq(s, start + 1, old.pos) = Append(old.chunk, s[old.pos]) /\ s[old.pos] \in Nat
  <2> HIDE DEF s, start
  <2>1. s[old.pos] \in Nat
    <3>1. s \in Seq(Nat) /\ old.pos \in 1 .. Len(s)  BY <1>2, <1>6
    <3> HIDE DEF old
    <3> QED  BY ONLY <3>1, ElementOfSeq
  <2>2. SubSeq(s, start + 1, old.pos) =
          SubSeq(s, start + 1, old.pos - 1) \o <<s[old.pos]>>
    BY <1>2, <1>6, SubSeqRecursiveSecond
  <2>3. Append(old.chunk, s[old.pos]) = old.chunk \o <<s[old.pos]>>
    BY <1>3, <2>1, AppendIsConcat
  <2> QED  BY <1>4, <2>1, <2>2, <2>3
<1>8. /\ at \in Call /\ at.pc = "write" /\ at.pos = old.pos + 1
      /\ at.chunk = SubSeq(s, start + 1, old.pos)
      /\ at.len = old.len /\ at.part = old.part
  <2>1. old.pos + 1 \in Nat /\ Append(old.chunk, s[old.pos]) \in Seq(Nat)
    <3> HIDE DEF s, start
    <3> QED  BY <1>3, <1>7
  <2> QED  BY <1>1, <1>2, <1>7, <2>1 DEF Call
<1>9. call' = [call EXCEPT ![c] = at]
  <2>1. Element(c, old.pos) = s[old.pos]  BY DEF Element
  <2>2. call \in [Conn -> Call]  BY DEF DeliveryInv, TypeInv
  <2> QED  BY <2>1, <2>2 DEF Encode
<1>10. WriteInv(c, at, s, n)
  <2>1. (old.pos + 1) - 1 = old.pos  BY <1>3
  <2> HIDE DEF at
  <2>2. at.pos \in start + 1 .. end + 1 /\ at.chunk = SubSeq(s, start + 1, at.pos - 1)
    BY <1>6, <1>8, <2>1
  <2> QED  BY <1>2, <1>8, <2>2 DEF WriteInv
<1> HIDE DEF at
<1>11. CallInv(c, at, slice[c], source)
  BY <1>2, <1>8, <1>10 DEF CallInv, Filtered
<1>12. PendingInv(c, at, s, pending[c], taken[c])
  BY <1>1, <1>2, <1>8 DEF PendingInv
<1>13. /\ sequence' = sequence /\ taken' = taken /\ pending' = pending /\ shown' = shown
       /\ slice' = [slice EXCEPT ![Array(c)] = s]
  BY DEF Encode, DeliveryInv, TypeInv
<1>14. call[c].pc # "select" /\ at.pc # "select"  BY <1>1, <1>8
<1>15. slice[c] = (IF c \in Filtering THEN s ELSE slice[c])
       /\ source = IF c \in Filtering THEN slice[taken[c]] ELSE s
  BY <1>2
<1> HIDE DEF source
<1> QED  BY <1>2, <1>8, <1>9, <1>11, <1>12, <1>13, <1>14, <1>15, OwnStep

(* After the last part the client has all that was sent and the assembler   *)
(* is empty again; after another one the assembler has one part more.       *)
LEMMA PartArrives ==
    ASSUME DeliveryInv, NEW c \in Conn, WritePart(c),
           NEW s, s = slice[Array(c)], NEW old, old = call[c],
           NEW total, total = Total(c, old.len)
    PROVE  /\ DOMAIN pending' = Conn
           /\ \A d \in Conn \ {c} : pending'[d] = pending[d]
           /\ old.part + 1 = total =>
                /\ DOMAIN pending'[c] = {}
                /\ shown' = [shown EXCEPT ![c] =
                               [sequence |-> taken[c], updates |-> SubSeq(s, 1, old.len)]]
           /\ old.part + 1 # total =>
                /\ c \in Chunked /\ shown' = shown
                /\ DOMAIN pending'[c] = {taken[c]}
                /\ pending'[c][taken[c]].total = total
                /\ DOMAIN pending'[c][taken[c]].parts = 0 .. old.part
                /\ \A p \in 0 .. old.part :
                      pending'[c][taken[c]].parts[p] = PartOf(c, s, old.len, p)
<1> DEFINE k == taken[c]
           end == PartEnd(c, old.part, old.len)
<1>1. old.pc = "write" /\ old.pos > end  BY DEF WritePart
<1>2. /\ s \in Seq(Nat) /\ WriteInv(c, old, s, Len(slice[k])) /\ old \in Call
      /\ PendingInv(c, old, s, pending[c], k) /\ k \in Nat
  <2>1. k \in 1 .. sequence  BY <1>1, Writing
  <2> QED  BY <1>1, <2>1, Writing
<1>3. /\ old.len \in Nat /\ old.pos \in Nat /\ old.part \in Nat
  BY <1>2 DEF Call
<1>4. /\ old.len <= Len(s) /\ old.part \in 0 .. total - 1
      /\ old.pos \in old.part * PartSize + 1 .. end + 1
      /\ old.chunk = SubSeq(s, old.part * PartSize + 1, old.pos - 1)
  BY <1>2 DEF WriteInv
<1>5. /\ total \in Nat \ {0} /\ (c \notin Chunked => total = 1)
      /\ PartEnd(c, total - 1, old.len) = old.len
      /\ old.part * PartSize \in Nat /\ end \in Nat
  BY <1>3, <1>4, PartsCover
<1>6. old.chunk = PartOf(c, s, old.len, old.part)
  <2>1. old.pos - 1 = end
    <3>1. /\ old.pos \in Nat /\ end \in Nat /\ old.part * PartSize \in Nat
          /\ old.pos > end /\ old.pos \in old.part * PartSize + 1 .. end + 1
      BY <1>1, <1>3, <1>4, <1>5
    <3>2. \A pos, last, start \in Nat :
             pos > last /\ pos \in start + 1 .. last + 1 => pos - 1 = last
      OBVIOUS
    <3> HIDE DEF end
    <3> QED  BY ONLY <3>1, <3>2
  <2> QED  BY <1>4, <2>1 DEF PartOf
<1>7. old.len \in 0 .. Len(s)
  <2>1. Len(s) \in Nat  BY <1>2
  <2> QED  BY <1>3, <1>4, <2>1
<1>8. DOMAIN pending = Conn /\ DOMAIN shown = Conn  BY DEF DeliveryInv, TypeInv
<1>9. CASE c \notin Chunked
  <2>1. total = 1 /\ old.part = 0  BY <1>4, <1>5, <1>9
  <2>2. pending' = pending
        /\ shown' = [shown EXCEPT ![c] = [sequence |-> k, updates |-> old.chunk]]
    BY <1>9 DEF WritePart
  <2>3. old.chunk = SubSeq(s, 1, old.len)
    <3>1. 0 * PartSize + 1 = 1 /\ PartEnd(c, 0, old.len) = old.len
      BY <1>5, <2>1
    <3> QED  BY <1>6, <2>1, <3>1 DEF PartOf
  <2>4. DOMAIN pending[c] = {}  BY <1>2, <1>9 DEF PendingInv
  <2> QED  BY <1>8, <2>1, <2>2, <2>3, <2>4
<1>10. CASE c \in Chunked
  <2> DEFINE kept == WithPart(pending[c], k, old.part, total, old.chunk)
             seqs == [p \in 1 .. total |-> kept[k].parts[p - 1]]
  <2>1. /\ DOMAIN kept = {k}
        /\ kept[k].total = total
        /\ DOMAIN kept[k].parts = 0 .. old.part
        /\ \A p \in 0 .. old.part : kept[k].parts[p] = PartOf(c, s, old.len, p)
    <3> DEFINE part == old.part
               was == pending[c]
    <3>1. kept = WithPart(was, k, part, total, old.chunk) /\ part \in Nat /\ k \in Nat
          /\ k >= k - 1 /\ old.chunk = PartOf(c, s, old.len, part)
      BY <1>2, <1>3, <1>6
    <3>2. CASE part = 0
      <4>1. DOMAIN was = {}  BY <1>2, <3>2 DEF PendingInv
      <4>2. {x \in DOMAIN was : x >= k - 1} = {} /\ DOMAIN <<>> = {}  BY <4>1
      <4>3. kept = [x \in {k} |-> [total |-> total,
                                   parts |-> [p \in {0} |-> old.chunk]]]
        <5> HIDE DEF k, was, kept, part
        <5> QED  BY ONLY <3>1, <3>2, <4>2 DEF WithPart
      <4>4. 0 .. 0 = {0}  OBVIOUS
      <4> HIDE DEF kept, k
      <4> QED  BY <3>1, <3>2, <4>3, <4>4
    <3>3. CASE part # 0
      <4>1. /\ DOMAIN was = {k} /\ was[k].total = total
            /\ DOMAIN was[k].parts = 0 .. part - 1
            /\ \A p \in 0 .. part - 1 : was[k].parts[p] = PartOf(c, s, old.len, p)
        BY <1>1, <1>2, <1>3, <1>10, <3>3 DEF PendingInv
      <4> HIDE DEF k, was
      <4>2. {x \in DOMAIN was : x >= k - 1} = {k}  BY <3>1, <4>1
      <4>3. kept = [x \in {k} |-> [total |-> total,
                      parts |-> [p \in (0 .. part - 1) \cup {part} |->
                                   IF p = part THEN old.chunk ELSE was[k].parts[p]]]]
        <5> HIDE DEF kept, part
        <5> QED  BY ONLY <3>1, <4>1, <4>2 DEF WithPart
      <4>4. (0 .. part - 1) \cup {part} = 0 .. part  BY <3>1
      <4> HIDE DEF kept
      <4>5. kept[k] = [total |-> total, parts |-> [p \in 0 .. part |->
                         IF p = part THEN old.chunk ELSE was[k].parts[p]]]
        BY <4>3, <4>4
      <4>6. ASSUME NEW p \in 0 .. part
            PROVE  kept[k].parts[p] = PartOf(c, s, old.len, p)
        <5>1. p = part \/ p \in 0 .. part - 1  BY <3>1
        <5>2. kept[k].parts[p] = IF p = part THEN old.chunk ELSE was[k].parts[p]
          BY <4>5
        <5> QED  BY <3>1, <4>1, <5>1, <5>2
      <4> QED  BY <4>3, <4>5, <4>6
    <3> QED  BY <3>2, <3>3
  <2>2. Add(c, k, old.part, total, old.chunk)
    BY <1>10 DEF WritePart
  <2>3. DOMAIN Removed(kept, k) = {}
    <3> HIDE DEF kept
    <3> QED  BY <2>1 DEF Removed
  <2>4. CASE old.part + 1 = total
    <3>1. 0 .. old.part = 0 .. total - 1  BY <1>3, <2>4
    <3>2. /\ pending' = [pending EXCEPT ![c] = Removed(kept, k)]
          /\ shown' = [shown EXCEPT ![c] = [sequence |-> k, updates |-> FlattenSeq(seqs)]]
      BY <2>1, <2>2, <3>1 DEF Add
    <3>3. Len(seqs) = total  BY <1>5
    <3>4. \A p \in 1 .. total : seqs[p] = PartOf(c, s, old.len, p - 1)
      <4>1. \A p \in 1 .. total : p - 1 \in 0 .. old.part  BY <1>3, <2>4
      <4> HIDE DEF kept
      <4> QED  BY <2>1, <4>1
    <3>5. FlattenSeq(seqs) = SubSeq(s, 1, old.len)
      <4> HIDE DEF seqs
      <4> QED  BY <1>2, <1>7, <3>3, <3>4, PartsAssemble
    <3> HIDE DEF kept, seqs
    <3> QED  BY <1>8, <2>3, <2>4, <3>2, <3>5
  <2>5. CASE old.part + 1 # total
    <3>1. 0 .. old.part # 0 .. total - 1
      <4>1. total - 1 \in 0 .. total - 1 /\ total - 1 \notin 0 .. old.part
        <5>1. /\ old.part \in Nat /\ total \in Nat /\ old.part \in 0 .. total - 1
              /\ old.part + 1 # total
          BY <1>3, <1>4, <1>5, <2>5
        <5>2. \A p, t \in Nat : p \in 0 .. t - 1 /\ p + 1 # t =>
                 t - 1 \in 0 .. t - 1 /\ t - 1 \notin 0 .. p
          OBVIOUS
        <5> QED  BY ONLY <5>1, <5>2
      <4> QED  BY <4>1
    <3>2. pending' = [pending EXCEPT ![c] = kept] /\ shown' = shown
      BY <2>1, <2>2, <3>1 DEF Add
    <3> HIDE DEF kept
    <3> QED  BY <1>8, <1>10, <2>1, <2>5, <3>2
  <2> QED  BY <2>4, <2>5
<1> QED  BY <1>9, <1>10

(* A part is sent.                                                          *)
LEMMA WritePartStep ==
    ASSUME NoSharedSort, DeliveryInv, NEW c \in Conn, WritePart(c)
    PROVE  DeliveryInv'
<1> DEFINE s == slice[Array(c)]
           old == call[c]
           total == Total(c, old.len)
           end == PartEnd(c, old.part, old.len)
           k == taken[c]
           source == slice[k]
<1>1. old.pc = "write"  BY DEF WritePart
<1>2. /\ s \in Seq(Nat) /\ WriteInv(c, old, s, Len(source)) /\ old \in Call
      /\ s = IF c \in Filtering THEN slice[c] ELSE source
      /\ k \in 1 .. sequence /\ k \in 1 .. MaxSequence /\ shown[c].sequence < k
  BY <1>1, Writing
<1>3. /\ DOMAIN pending' = Conn
      /\ \A d \in Conn \ {c} : pending'[d] = pending[d]
      /\ old.part + 1 = total =>
           /\ DOMAIN pending'[c] = {}
           /\ shown' = [shown EXCEPT ![c] =
                          [sequence |-> k, updates |-> SubSeq(s, 1, old.len)]]
      /\ old.part + 1 # total =>
           /\ c \in Chunked /\ shown' = shown
           /\ DOMAIN pending'[c] = {k}
           /\ pending'[c][k].total = total
           /\ DOMAIN pending'[c][k].parts = 0 .. old.part
           /\ \A p \in 0 .. old.part :
                 pending'[c][k].parts[p] = PartOf(c, s, old.len, p)
  BY PartArrives
<1>4. sequence' = sequence /\ taken' = taken  BY DEF WritePart
<1>5. TypeInv  BY DEF DeliveryInv
<1>6. k \in Nat /\ sequence \in Nat /\ k >= 1 /\ k <= sequence
  <2>1. sequence \in Nat  BY <1>5 DEF TypeInv
  <2> QED  BY <1>2, <2>1
<1>7. /\ old.len \in Nat /\ old.part \in Nat
      /\ old.len <= Len(s) /\ old.part \in 0 .. total - 1
  BY <1>2 DEF WriteInv, Call
<1>8. c \notin 1 .. MaxSequence  OBVIOUS
<1>9. CASE old.part + 1 = total
  <2>1. call' = [call EXCEPT ![c] = Waiting] /\ slice' = [slice EXCEPT ![c] = <<>>]
    BY <1>9 DEF WritePart
  <2>2. /\ call'[c] = Waiting /\ \A d \in Conn \ {c} : call'[d] = call[d]
        /\ slice'[c] = <<>>
        /\ \A a \in 1 .. MaxSequence \cup Conn : a # c => slice'[a] = slice[a]
        /\ \A d \in Conn \ {c} : shown'[d] = shown[d]
        /\ shown'[c] = [sequence |-> k, updates |-> SubSeq(s, 1, old.len)]
    BY <1>3, <1>5, <1>9, <2>1 DEF TypeInv
  <2>3. TypeInv'
    <3>1. call' \in [Conn -> Call]  BY <1>5, <2>1, CallTypes DEF TypeInv
    <3>2. slice' \in [1 .. MaxSequence \cup Conn -> Seq(Nat)]
      <4>1. <<>> \in Seq(Nat)  OBVIOUS
      <4> QED  BY <1>5, <2>1, <4>1 DEF TypeInv
    <3>3. shown' \in [Conn -> [sequence : Nat, updates : Seq(Nat)]]
      <4>1. SubSeq(s, 1, old.len) \in Seq(Nat)
        <5>1. old.len \in 0 .. Len(s)
          <6>1. Len(s) \in Nat  BY <1>2
          <6> QED  BY <1>7, <6>1
        <5> QED  BY <1>2, <5>1, FirstElements
      <4>2. [sequence |-> k, updates |-> SubSeq(s, 1, old.len)]
              \in [sequence : Nat, updates : Seq(Nat)]
        BY <1>6, <4>1
      <4> HIDE DEF k, s, old
      <4> QED  BY <1>3, <1>5, <1>9, <4>2 DEF TypeInv
    <3> QED  BY <1>3, <1>4, <1>5, <3>1, <3>2, <3>3 DEF TypeInv
  <2>4. Waiting.pc = "select"  BY DEF Waiting
  <2>5. ConnInv(c)'
    <3>1. CallInv(c, Waiting, <<>>, slice'[taken'[c]])  BY <2>4 DEF CallInv
    <3>2. PendingInv(c, Waiting, slice'[Array(c)'], pending'[c], taken'[c])
      BY <1>3, <1>9, <2>4 DEF PendingInv
    <3>3. ShownInv(Waiting, shown'[c], taken'[c])
      BY <1>4, <1>6, <2>2, <2>4 DEF ShownInv
    <3> QED  BY <1>4, <1>6, <2>2, <2>4, <3>1, <3>2, <3>3 DEF ConnInv
  <2>6. /\ \A d \in Conn \ {c} : slice'[d] = slice[d] /\ taken'[d] = taken[d]
        /\ \A b \in 1 .. sequence : slice'[b] = slice[b]
    <3>1. \A b \in 1 .. sequence : b \in 1 .. MaxSequence  BY <1>5 DEF TypeInv
    <3> QED  BY <1>4, <1>8, <2>2, <3>1
  <2>7. taken[c] <= taken'[c]  BY <1>4, <1>6
  <2> QED  BY <1>3, <1>4, <2>2, <2>3, <2>5, <2>6, <2>7, StepOfOne
<1>10. CASE old.part + 1 # total
  <2> DEFINE at == [old EXCEPT !.part = old.part + 1, !.chunk = <<>>]
  <2>1. call' = [call EXCEPT ![c] = at] /\ slice' = slice
    BY <1>5, <1>10 DEF WritePart, TypeInv
  <2>2. /\ at \in Call /\ at.pc = "write" /\ at.part = old.part + 1 /\ at.chunk = <<>>
        /\ at.len = old.len /\ at.pos = old.pos
    <3>1. old.part + 1 \in Nat /\ <<>> \in Seq(Nat)  BY <1>7
    <3> QED  BY <1>1, <1>2, <3>1 DEF Call
  <2> HIDE DEF at
  <2>3. call'[c] = at /\ \A d \in Conn \ {c} : call'[d] = call[d]
    BY <1>5, <2>1 DEF TypeInv
  <2>4. call' \in [Conn -> Call]  BY <1>5, <2>1, <2>2 DEF TypeInv
  <2>5. TypeInv'
    BY <1>3, <1>4, <1>5, <1>10, <2>1, <2>4 DEF TypeInv
  <2>6. WriteInv(c, at, s, Len(source))
    <3> DEFINE start == (old.part + 1) * PartSize
    <3>1. /\ old.len <= Len(s) /\ IsInjective(SubSeq(s, 1, old.len))
          /\ ToSet(SubSeq(s, 1, old.len)) = Smallest(c, Len(source))
          /\ old.pos \in old.part * PartSize + 1 .. end + 1
      BY <1>2 DEF WriteInv
    <3>2. total \in Nat \ {0}  BY <1>7, PartsCover
    <3>3. old.part + 1 \in 0 .. total - 1 /\ old.part + 1 < total
      <4> HIDE DEF old, total
      <4> QED  BY <1>7, <1>10, <3>2
    <3>4. end = start /\ end \in Nat /\ old.part * PartSize \in Nat
      BY <1>7, <3>3, PartsCover
    <3>5. start <= PartEnd(c, old.part + 1, old.len) /\ PartEnd(c, old.part + 1, old.len) \in Nat
      BY <1>7, <3>3, PartsCover
    <3>6. old.pos > end /\ old.pos \in Nat  BY <1>2 DEF WritePart, Call
    <3>7. old.pos = start + 1
      <4> HIDE DEF old, end, start
      <4> QED  BY <3>1, <3>4, <3>6
    <3>8. old.pos \in start + 1 .. PartEnd(c, old.part + 1, old.len) + 1
      <4> HIDE DEF start
      <4> QED  BY <3>4, <3>5, <3>7
    <3>9. <<>> = SubSeq(s, start + 1, old.pos - 1)
      <4>1. start + 1 \in Int /\ old.pos - 1 \in Int /\ old.pos - 1 < start + 1
        <5> HIDE DEF old, start
        <5> QED  BY <3>4, <3>6, <3>7
      <4> HIDE DEF start, old, s
      <4> QED  BY <4>1, SubSeqEmpty
    <3> HIDE DEF old, s, start, source
    <3> QED  BY <2>2, <3>1, <3>3, <3>8, <3>9 DEF WriteInv, start, total
  <2>7. ConnInv(c)'
    <3>1. CallInv(c, at, slice[c], source)  BY <1>2, <2>2, <2>6 DEF CallInv, Filtered
    <3>2. PendingInv(c, at, s, pending'[c], k)
      <4>1. (old.part + 1) - 1 = old.part /\ old.part + 1 > 0  BY <1>7
      <4>2. /\ DOMAIN pending'[c] = {k}
            /\ pending'[c][k].total = Total(c, at.len)
            /\ DOMAIN pending'[c][k].parts = 0 .. at.part - 1
            /\ \A p \in 0 .. at.part - 1 :
                  pending'[c][k].parts[p] = PartOf(c, s, at.len, p)
        BY <1>3, <1>10, <2>2, <4>1
      <4> QED  BY <1>3, <1>10, <2>2, <4>1, <4>2 DEF PendingInv
    <3>3. ShownInv(at, shown'[c], k)  BY <1>2, <1>3, <1>10, <2>2 DEF ShownInv
    <3>4. slice'[Array(c)'] = s  BY <1>4, <2>1 DEF Array
    <3> QED  BY <1>4, <1>6, <2>1, <2>2, <2>3, <3>1, <3>2, <3>3, <3>4 DEF ConnInv
  <2>8. taken[c] <= taken'[c]  BY <1>4, <1>6
  <2> QED  BY <1>3, <1>4, <1>10, <2>1, <2>3, <2>5, <2>7, <2>8, StepOfOne
<1> QED  BY <1>9, <1>10
-----------------------------------------------------------------------------
(* A client connects again.                                                 *)
LEMMA ReconnectStep ==
    ASSUME NoSharedSort, DeliveryInv, NEW c \in Conn, Reconnect(c)
    PROVE  DeliveryInv'
<1>1. /\ sequence' = sequence /\ shown' = shown
      /\ call' = [call EXCEPT ![c] = Waiting]
      /\ slice' = [slice EXCEPT ![c] = <<>>]
      /\ taken' = [taken EXCEPT ![c] = sequence]
      /\ pending' = [pending EXCEPT ![c] = <<>>]
  BY DEF Reconnect
<1>2. TypeInv  BY DEF DeliveryInv
<1>3. /\ sequence \in 0 .. MaxSequence /\ sequence \in Nat
      /\ taken[c] \in Nat /\ taken[c] <= sequence
      /\ shown[c].sequence \in Nat
      /\ ShownInv(call[c], shown[c], taken[c])
  BY <1>2, OneConnection DEF TypeInv
<1>4. /\ call'[c] = Waiting /\ slice'[c] = <<>> /\ taken'[c] = sequence
      /\ pending'[c] = <<>>
      /\ \A d \in Conn \ {c} : /\ call'[d] = call[d] /\ taken'[d] = taken[d]
                               /\ pending'[d] = pending[d] /\ slice'[d] = slice[d]
      /\ \A a \in 1 .. MaxSequence : slice'[a] = slice[a]
  BY <1>1, <1>2 DEF TypeInv
<1>5. TypeInv'
  <2>1. call' \in [Conn -> Call]  BY <1>1, <1>2, CallTypes DEF TypeInv
  <2>2. slice' \in [1 .. MaxSequence \cup Conn -> Seq(Nat)]
    <3>1. <<>> \in Seq(Nat)  OBVIOUS
    <3> QED  BY <1>1, <1>2, <3>1 DEF TypeInv
  <2>3. taken' \in [Conn -> Nat] /\ DOMAIN pending' = Conn
    BY <1>1, <1>2, <1>3 DEF TypeInv
  <2> QED  BY <1>1, <1>2, <2>1, <2>2, <2>3 DEF TypeInv
<1>6. Waiting.pc = "select" /\ DOMAIN <<>> = {}  BY DEF Waiting
<1>7. ConnInv(c)'
  <2>1. CallInv(c, Waiting, <<>>, slice'[taken'[c]])  BY <1>6 DEF CallInv
  <2>2. PendingInv(c, Waiting, slice'[Array(c)'], pending'[c], taken'[c])
    BY <1>4, <1>6 DEF PendingInv
  <2>3. ShownInv(Waiting, shown'[c], taken'[c])
    <3>1. shown[c].sequence <= sequence  BY <1>3 DEF ShownInv
    <3> QED  BY <1>1, <1>4, <1>6, <3>1 DEF ShownInv
  <2> QED  BY <1>1, <1>3, <1>4, <1>6, <2>1, <2>2, <2>3 DEF ConnInv
<1>8. \A s \in 1 .. sequence : slice'[s] = slice[s]
  <2>1. \A s \in 1 .. sequence : s \in 1 .. MaxSequence  BY <1>3
  <2> QED  BY <1>4, <2>1
<1>9. taken[c] <= taken'[c]  BY <1>3, <1>4
<1> QED  BY <1>1, <1>4, <1>5, <1>7, <1>8, <1>9, StepOfOne

(* At the start nothing is sent.                                            *)
LEMMA DeliveryStarts == Init => DeliveryInv
<1> SUFFICES ASSUME Init PROVE DeliveryInv
  OBVIOUS
<1>1. TypeInv
  <2>1. <<>> \in Seq(Nat)  OBVIOUS
  <2>2. slice \in [1 .. MaxSequence \cup Conn -> Seq(Nat)]  BY <2>1 DEF Init
  <2>3. call \in [Conn -> Call]  BY CallTypes DEF Init
  <2>4. [sequence |-> 0, updates |-> <<>>] \in [sequence : Nat, updates : Seq(Nat)]
    BY <2>1
  <2>5. shown \in [Conn -> [sequence : Nat, updates : Seq(Nat)]]  BY <2>4 DEF Init
  <2> QED  BY <2>2, <2>3, <2>5 DEF Init, TypeInv
<1>2. BroadcastInv
  <2>1. 1 .. sequence = {}  BY DEF Init
  <2> QED  BY <2>1 DEF BroadcastInv
<1>3. ASSUME NEW c \in Conn PROVE ConnInv(c)
  <2>1. /\ sequence = 0 /\ taken[c] = 0 /\ call[c] = Waiting /\ slice[c] = <<>>
        /\ pending[c] = <<>> /\ shown[c].sequence = 0
    BY DEF Init
  <2>2. Waiting.pc = "select" /\ DOMAIN <<>> = {}  BY DEF Waiting
  <2>3. CallInv(c, call[c], slice[c], slice[taken[c]])  BY <2>1, <2>2 DEF CallInv
  <2>4. PendingInv(c, call[c], slice[Array(c)], pending[c], taken[c])
    BY <2>1, <2>2 DEF PendingInv
  <2>5. ShownInv(call[c], shown[c], taken[c])  BY <2>1, <2>2 DEF ShownInv
  <2> QED  BY <2>1, <2>2, <2>3, <2>4, <2>5 DEF ConnInv
<1> QED  BY <1>1, <1>2, <1>3 DEF DeliveryInv

(* Every step keeps the invariant if no call sorts what others read.        *)
LEMMA DeliveryStep ==
    ASSUME NoSharedSort, DeliveryInv, [Next]_vars
    PROVE  DeliveryInv'
<1>1. CASE Broadcast  BY <1>1, BroadcastStep
<1>2. ASSUME NEW c \in Conn, Receive(c) PROVE DeliveryInv'  BY <1>2, ReceiveStep
<1>3. ASSUME NEW c \in Conn, filterUpdates(c) PROVE DeliveryInv'  BY <1>3, FilterStep
<1>4. ASSUME NEW c \in Conn, Compare(c) PROVE DeliveryInv'  BY <1>4, CompareStep
<1>5. ASSUME NEW c \in Conn, SwapFirst(c) PROVE DeliveryInv'  BY <1>5, SwapFirstStep
<1>6. ASSUME NEW c \in Conn, SwapSecond(c) PROVE DeliveryInv'  BY <1>6, SwapSecondStep
<1>7. ASSUME NEW c \in Conn, Encode(c) PROVE DeliveryInv'  BY <1>7, EncodeStep
<1>8. ASSUME NEW c \in Conn, WritePart(c) PROVE DeliveryInv'  BY <1>8, WritePartStep
<1>9. ASSUME NEW c \in Conn, Reconnect(c) PROVE DeliveryInv'  BY <1>9, ReconnectStep
<1>10. CASE UNCHANGED vars
  <2>1. /\ sequence' = sequence /\ slice' = slice /\ taken' = taken /\ call' = call
        /\ pending' = pending /\ shown' = shown
    BY <1>10 DEF vars
  <2>2. TypeInv' /\ BroadcastInv'
    BY <2>1 DEF DeliveryInv, TypeInv, BroadcastInv
  <2>3. ASSUME NEW c \in Conn PROVE ConnInv(c)'
    <3>1. sequence' \in Nat /\ sequence <= sequence'  BY <2>1 DEF DeliveryInv, TypeInv
    <3> QED  BY <2>1, <3>1, Untouched DEF DeliveryInv
  <2> QED  BY <2>2, <2>3 DEF DeliveryInv
<1> QED
  BY <1>1, <1>2, <1>3, <1>4, <1>5, <1>6, <1>7, <1>8, <1>9, <1>10 DEF Next

(* Nobody changes a broadcast that others read, each call has its drones or *)
(* is on its way to, and the assembler has the parts of one snapshot.       *)
THEOREM DeliveryInvariant ==
    ASSUME NoSharedSort
    PROVE  Spec => []DeliveryInv
<1>1. Init => DeliveryInv  BY DeliveryStarts
<1>2. DeliveryInv /\ [Next]_vars => DeliveryInv'
  BY DeliveryStep
<1> QED  BY <1>1, <1>2, PTL DEF Spec

(* What Asked says of a broadcast is what the invariant says of a slice.    *)
LEMMA AskedIsSmallest ==
    ASSUME NEW c \in Conn, NEW s PROVE Asked(c, s) = Smallest(c, Len(slice[s]))
BY DEF Asked, Smallest, Matching

(* What a step shows a client is what it asked for of a later broadcast.    *)
LEMMA ShowStep ==
    ASSUME DeliveryInv, [Next]_vars, NEW c \in Conn, shown'[c] # shown[c]
    PROVE  /\ shown'[c].sequence > shown[c].sequence
           /\ ToSet(shown'[c].updates) = Asked(c, shown'[c].sequence)
           /\ Len(shown'[c].updates) = Cardinality(ToSet(shown'[c].updates))
<1>1. PICK d \in Conn : WritePart(d)
  BY DEF Next, vars, Broadcast, Receive, filterUpdates, Compare, SwapFirst, SwapSecond,
         Encode, Reconnect
<1> DEFINE s == slice[Array(c)]
           len == call[c].len
           k == taken[c]
           sent == SubSeq(s, 1, len)
<1>2. shown \in [Conn -> [sequence : Nat, updates : Seq(Nat)]]
  BY DEF DeliveryInv, TypeInv
<1>3. d = c /\ shown' = [shown EXCEPT ![c] = [sequence |-> k, updates |-> sent]]
  <2>1. d = c
    <3>1. \/ shown' = shown
          \/ shown' = [shown EXCEPT ![d] = [sequence |-> taken[d],
                          updates |-> SubSeq(slice[Array(d)], 1, call[d].len)]]
      BY <1>1, PartArrives
    <3> QED  BY <1>2, <3>1
  <2>2. shown' = shown \/ shown' = [shown EXCEPT ![c] = [sequence |-> k, updates |-> sent]]
    BY <1>1, <2>1, PartArrives
  <2> QED  BY <2>1, <2>2
<1>4. shown'[c].sequence = k /\ shown'[c].updates = sent  BY <1>2, <1>3
<1>5. call[c].pc = "write"  BY <1>1, <1>3 DEF WritePart
<1>6. /\ s \in Seq(Nat) /\ WriteInv(c, call[c], s, Len(slice[k]))
      /\ call[c] \in Call /\ shown[c].sequence < k /\ k \in 1 .. sequence
  BY <1>5, Writing
<1>7. /\ len <= Len(s) /\ IsInjective(sent) /\ ToSet(sent) = Smallest(c, Len(slice[k]))
  BY <1>6 DEF WriteInv
<1>8. ToSet(sent) = Asked(c, k)  BY <1>7, AskedIsSmallest
<1>9. sent \in Seq(Nat)
  <2>1. len \in Nat  BY <1>6 DEF Call
  <2>2. len \in 0 .. Len(s)
    <3>1. Len(s) \in Nat  BY <1>6
    <3> QED  BY <1>7, <2>1, <3>1
  <2> HIDE DEF s, len
  <2> QED  BY <1>6, <2>2, FirstElements
<1>10. Len(sent) = Cardinality(ToSet(sent))
  <2> HIDE DEF sent
  <2> QED  BY <1>7, <1>9, InjectiveCardinality
<1>11. k > shown[c].sequence
  <2>1. k \in Nat /\ shown[c].sequence \in Nat  BY <1>2, <1>6
  <2> QED  BY <1>6, <2>1
<1> QED  BY <1>4, <1>8, <1>10, <1>11

(* A client shows whole snapshots, whatever the number of connections, of   *)
(* drones and of broadcasts, the limit and the size of a part, as long as   *)
(* nobody sorts a slice others read (ServeSSE, _SnapshotAssembler.add).     *)
THEOREM WholeSnapshots ==
    ASSUME NoSharedSort
    PROVE  Spec => ShowsWholeSnapshots
<1>1. DeliveryInv /\ [Next]_vars =>
         [\A c \in Conn : shown'[c] # shown[c] =>
            /\ shown'[c].sequence > shown[c].sequence
            /\ ToSet(shown'[c].updates) = Asked(c, shown'[c].sequence)
            /\ Len(shown'[c].updates) = Cardinality(ToSet(shown'[c].updates))]_vars
  BY ShowStep
<1> QED  BY <1>1, DeliveryInvariant, PTL DEF Spec, ShowsWholeSnapshots
=============================================================================
