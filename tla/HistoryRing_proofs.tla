------------------------- MODULE HistoryRing_proofs -------------------------
(***************************************************************************)
(* For every capacity and every set of points: the ring of HistoryRing     *)
(* keeps its shape, and it implements the bounded window.                  *)
(***************************************************************************)
EXTENDS HistoryRing, SequenceTheorems, TLAPS

USE CapacityAssumption

(* Indices within two laps of the array: what the modulus of setLocked and  *)
(* GetHistory computes on them.                                             *)
LEMMA ModFirstLap == \A x \in 0 .. Capacity - 1 : x % Capacity = x
  OBVIOUS

(* An index on the second lap loses one lap.                                *)
LEMMA ModSecondLap ==
    \A x \in Nat : x >= Capacity /\ x < Capacity + Capacity => x % Capacity = x - Capacity
  OBVIOUS

(* Every index lands on a slot.                                             *)
LEMMA ModSlot == \A x \in Nat : x % Capacity \in Slot
  BY DEF Slot

(* Two offsets below the capacity land on different slots.                  *)
LEMMA OffsetsAreDistinct ==
    ASSUME NEW s \in Slot, NEW i \in Slot, NEW j \in Slot,
           (s + i) % Capacity = (s + j) % Capacity
    PROVE  i = j
<1>1. (s + i) % Capacity = IF s + i < Capacity THEN s + i ELSE s + i - Capacity
  BY ModFirstLap, ModSecondLap DEF Slot
<1>2. (s + j) % Capacity = IF s + j < Capacity THEN s + j ELSE s + j - Capacity
  BY ModFirstLap, ModSecondLap DEF Slot
<1> QED  BY <1>1, <1>2 DEF Slot

(* Every slot is some offset from any start.                                *)
LEMMA OffsetsCover ==
    ASSUME NEW s \in Slot, NEW k \in Slot
    PROVE  \E i \in Slot : (s + i) % Capacity = k
<1>1. CASE k >= s
  <2>1. k - s \in Slot /\ (s + (k - s)) % Capacity = k
    BY <1>1, ModFirstLap DEF Slot
  <2> QED  BY <2>1
<1>2. CASE k < s
  <2>1. k + Capacity - s \in Slot  BY <1>2 DEF Slot
  <2>2. (s + (k + Capacity - s)) % Capacity = k
    BY <1>2, ModSecondLap DEF Slot
  <2> QED  BY <2>1, <2>2
<1> QED  BY <1>1, <1>2 DEF Slot

(* Starting one slot later shifts every offset by one.                      *)
LEMMA NextStart ==
    ASSUME NEW s \in Slot, NEW i \in Slot
    PROVE  (((s + 1) % Capacity) + i) % Capacity = (s + (i + 1)) % Capacity
<1>1. CASE s + 1 < Capacity
  BY <1>1, ModFirstLap DEF Slot
<1>2. CASE s + 1 = Capacity
  <2>1. (s + 1) % Capacity = 0  BY <1>2, ModSecondLap DEF Slot
  <2>2. (s + (i + 1)) % Capacity = i  BY <1>2, ModSecondLap DEF Slot
  <2> QED  BY <2>1, <2>2, ModFirstLap DEF Slot
<1> QED  BY <1>1, <1>2 DEF Slot

\* The slots of the live part of r hold recorded points.
Live(r) == \A i \in 0 .. r.length - 1 : r.points[(r.start + i) % Capacity] \in Point

(* What one Push does to the live part of a ring, slot by slot.             *)
LEMMA PushShape ==
    ASSUME NEW r \in Ring, NEW p \in Point, Live(r)
    PROVE  /\ Push(r, p) \in Ring
           /\ Live(Push(r, p))
           /\ Push(r, p).length = IF r.length < Capacity THEN r.length + 1 ELSE Capacity
           /\ Push(r, p).points[(Push(r, p).start + (Push(r, p).length - 1)) % Capacity] = p
           /\ r.length < Capacity =>
                /\ Push(r, p).start = r.start
                /\ \A i \in 0 .. r.length - 1 :
                     Push(r, p).points[(r.start + i) % Capacity]
                       = r.points[(r.start + i) % Capacity]
           /\ r.length = Capacity =>
                \A i \in 0 .. Capacity - 2 :
                     Push(r, p).points[(Push(r, p).start + i) % Capacity]
                       = r.points[(r.start + (i + 1)) % Capacity]
<1> DEFINE q == Push(r, p)
<1>1. /\ r.points \in [Slot -> Point \cup {Blank}]
      /\ r.start \in Slot
      /\ r.length \in 0 .. Capacity
      /\ r.start \in Nat /\ r.length \in Nat
  BY DEF Ring, Slot
<1>2. CASE r.length < Capacity
  <2> DEFINE at == (r.start + r.length) % Capacity
  <2>1. at \in Slot
    <3>1. r.start + r.length \in Nat  BY <1>1
    <3> QED  BY <3>1, ModSlot
  <2>2. q = [points |-> [r.points EXCEPT ![at] = p], start |-> r.start,
             length |-> r.length + 1]
    BY <1>2 DEF Push, Ring
  <2>3. q \in Ring  BY <1>1, <1>2, <2>1, <2>2 DEF Ring
  <2>4. q.points[(q.start + (q.length - 1)) % Capacity] = p
    BY <1>1, <2>1, <2>2
  <2>5. ASSUME NEW i \in 0 .. r.length - 1
        PROVE  q.points[(r.start + i) % Capacity] = r.points[(r.start + i) % Capacity]
    <3>0. i \in Slot /\ r.length \in Slot /\ i # r.length
      BY <1>1, <1>2 DEF Slot
    <3>1. (r.start + i) % Capacity # at
      BY <1>1, <3>0, OffsetsAreDistinct
    <3>2. (r.start + i) % Capacity \in Slot
      <4>1. r.start + i \in Nat  BY <1>1
      <4> QED  BY <4>1, ModSlot
    <3> QED  BY <1>1, <2>1, <2>2, <3>1, <3>2
  <2>6. Live(q)
    <3> SUFFICES ASSUME NEW i \in 0 .. q.length - 1
                 PROVE  q.points[(q.start + i) % Capacity] \in Point
      BY DEF Live
    <3>1. CASE i = r.length  BY <1>1, <2>1, <2>2, <3>1
    <3>2. CASE i # r.length
      <4>1. i \in 0 .. r.length - 1  BY <1>1, <2>2, <3>2
      <4>2. r.points[(r.start + i) % Capacity] \in Point  BY <4>1 DEF Live
      <4>3. q.points[(r.start + i) % Capacity] = r.points[(r.start + i) % Capacity]
        BY <2>5, <4>1
      <4>4. q.start = r.start  BY <2>2
      <4> QED  BY <4>2, <4>3, <4>4
    <3> QED  BY <3>1, <3>2
  <2> HIDE DEF q
  <2> QED  BY <1>1, <1>2, <2>2, <2>3, <2>4, <2>5, <2>6 DEF q
<1>3. CASE r.length = Capacity
  <2>1. q = [points |-> [r.points EXCEPT ![r.start] = p],
             start |-> (r.start + 1) % Capacity, length |-> Capacity]
    <3>1. ~(r.length < Capacity)  BY <1>3
    <3>2. q = [r EXCEPT !.points[r.start] = p, !.start = (r.start + 1) % Capacity]
      BY <3>1 DEF Push
    <3> QED  BY <1>3, <3>2 DEF Ring
  <2>2. (r.start + 1) % Capacity \in Slot
    <3>1. r.start + 1 \in Nat  BY <1>1
    <3> QED  BY <3>1, ModSlot
  <2>0. /\ r.points \in [Slot -> Point \cup {Blank}]
        /\ 0 \in Slot /\ (r.start + 0) % Capacity = r.start
    BY <1>1, ModFirstLap DEF Slot
  <2>3. q \in Ring  BY <1>1, <2>1, <2>2 DEF Ring
  <2>4. ASSUME NEW i \in 0 .. Capacity - 2
        PROVE  q.points[(q.start + i) % Capacity]
                 = r.points[(r.start + (i + 1)) % Capacity]
    <3>1. i \in Slot /\ i + 1 \in Slot /\ i + 1 # 0 /\ r.start + (i + 1) \in Nat
      BY <1>1 DEF Slot
    <3>2. (((r.start + 1) % Capacity) + i) % Capacity = (r.start + (i + 1)) % Capacity
      BY <1>1, <3>1, NextStart
    <3>3. (r.start + (i + 1)) % Capacity # r.start
      BY <1>1, <2>0, <3>1, OffsetsAreDistinct
    <3>4. (r.start + (i + 1)) % Capacity \in Slot  BY <3>1, ModSlot
    <3> QED  BY <2>0, <2>1, <3>2, <3>3, <3>4
  <2>5. q.points[(q.start + (Capacity - 1)) % Capacity] = p
    <3>1. Capacity - 1 \in Slot /\ (Capacity - 1) + 1 = Capacity  BY DEF Slot
    <3>2. (((r.start + 1) % Capacity) + (Capacity - 1)) % Capacity
            = (r.start + ((Capacity - 1) + 1)) % Capacity
      BY <1>1, <3>1, NextStart
    <3>3. (r.start + Capacity) % Capacity = r.start
      <4>1. /\ r.start + Capacity \in Nat
            /\ r.start + Capacity >= Capacity
            /\ r.start + Capacity < Capacity + Capacity
            /\ r.start + Capacity - Capacity = r.start
        BY <1>1 DEF Slot
      <4> QED  BY <1>1, <4>1, ModSecondLap
    <3> QED  BY <1>1, <2>0, <2>1, <3>1, <3>2, <3>3
  <2>6. Live(q)
    <3> SUFFICES ASSUME NEW i \in 0 .. Capacity - 1
                 PROVE  q.points[(q.start + i) % Capacity] \in Point
      BY <2>1 DEF Live
    <3>1. CASE i = Capacity - 1  BY <2>5, <3>1
    <3>2. CASE i # Capacity - 1
      <4>1. i \in 0 .. Capacity - 2 /\ i + 1 \in 0 .. r.length - 1
        BY <1>3, <3>2
      <4>2. r.points[(r.start + (i + 1)) % Capacity] \in Point  BY <4>1 DEF Live
      <4>3. q.points[(q.start + i) % Capacity] = r.points[(r.start + (i + 1)) % Capacity]
        BY <2>4, <4>1
      <4> QED  BY <4>2, <4>3
    <3> QED  BY <3>1, <3>2
  <2> HIDE DEF q
  <2> QED  BY <1>1, <1>3, <2>1, <2>3, <2>4, <2>5, <2>6 DEF q
<1> QED  BY <1>1, <1>2, <1>3
-----------------------------------------------------------------------------
(* The inductive invariant of the entry.                                    *)
RingInv == TypeOK /\ StartsAtZeroUntilFull /\ LatestEndsTrack

\* What setLocked pushes onto: the drone's ring, made on its first update.
Base == IF ring = Nil THEN EmptyRing ELSE ring

(* setLocked always has a well-formed ring to write to.                     *)
LEMMA BaseShape ==
    ASSUME RingInv
    PROVE  /\ Base \in Ring
           /\ Live(Base)
           /\ Base.length < Capacity => Base.start = 0
           /\ Base.length = 0 <=> ring = Nil
<1>1. CASE ring = Nil
  <2>1. EmptyRing \in Ring  BY DEF EmptyRing, Ring, Slot
  <2>2. Live(EmptyRing)  BY DEF Live, EmptyRing
  <2> QED  BY <1>1, <2>1, <2>2 DEF Base, EmptyRing
<1>2. CASE ring # Nil
  <2>1. ring \in Ring /\ ring.length \in 0 .. Capacity
    BY <1>2 DEF RingInv, TypeOK, Ring
  <2> QED  BY <1>2, <2>1 DEF RingInv, TypeOK, StartsAtZeroUntilFull, Live, Base
<1> QED  BY <1>1, <1>2

(* What a reader gets back is a sequence of recorded points.                *)
LEMMA ReadIsTrack ==
    ASSUME RingInv, NEW n \in Nat
    PROVE  ReadRing(n) \in Seq(Point)
<1>1. CASE ring = Nil  BY <1>1 DEF ReadRing
<1>2. CASE ring # Nil
  <2>1. /\ ring \in Ring
        /\ ring.length \in 0 .. Capacity /\ ring.length \in Nat
        /\ \A i \in 0 .. ring.length - 1 :
             ring.points[(ring.start + i) % Capacity] \in Point
    BY <1>2 DEF RingInv, TypeOK, Ring
  <2>2. ASSUME NEW offset \in Nat, NEW count \in Nat, offset + count <= ring.length
        PROVE  PointsFrom(ring, offset, count) \in Seq(Point)
    <3>1. ASSUME NEW i \in 1 .. count
          PROVE  ring.points[(ring.start + offset + (i - 1)) % Capacity] \in Point
      <4>1. /\ offset + (i - 1) \in 0 .. ring.length - 1
            /\ ring.start + offset + (i - 1) = ring.start + (offset + (i - 1))
        BY <2>1, <2>2 DEF Ring, Slot
      <4> QED  BY <2>1, <4>1
    <3> QED  BY <3>1 DEF PointsFrom
  <2>3. CASE n > 0 /\ ring.length > n
    BY <1>2, <2>1, <2>2, <2>3 DEF ReadRing
  <2>4. CASE ~(n > 0 /\ ring.length > n)
    BY <1>2, <2>1, <2>2, <2>4 DEF ReadRing
  <2> QED  BY <2>3, <2>4
<1> QED  BY <1>1, <1>2

(* One update preserves the shape of the entry.                             *)
LEMMA SetKeepsShape ==
    ASSUME RingInv, NEW p \in Point, setLocked(p)
    PROVE  RingInv'
<1>1. /\ ring' = Push(Base, p) /\ item' = p /\ answer' = answer
  BY DEF setLocked, Base
<1>2. Base \in Ring /\ Live(Base)  BY BaseShape
<1>3. ring' \in Ring /\ Live(ring')  BY <1>1, <1>2, PushShape
<1>4. ring' # Nil  BY <1>3, NilAssumption
<1>5. TypeOK'  BY <1>1, <1>3 DEF TypeOK, RingInv, Live
<1>6. StartsAtZeroUntilFull'
  <2>1. Base.length \in 0 .. Capacity  BY <1>2 DEF Ring
  <2>2. Push(Base, p).length = IF Base.length < Capacity THEN Base.length + 1 ELSE Capacity
    BY <1>2, PushShape
  <2>3. Base.length < Capacity => Push(Base, p).start = Base.start
    BY <1>2, PushShape
  <2> QED  BY <1>1, <2>1, <2>2, <2>3, BaseShape DEF StartsAtZeroUntilFull
<1>7. LatestEndsTrack'
  <2>1. Push(Base, p).points[(Push(Base, p).start + (Push(Base, p).length - 1)) % Capacity] = p
    BY <1>2, PushShape
  <2> QED  BY <1>1, <1>4, <2>1, NilAssumption DEF LatestEndsTrack
<1> QED  BY <1>5, <1>6, <1>7 DEF RingInv

(* Every reachable entry is well formed: the types hold, an unwrapped ring  *)
(* starts at slot 0, and the latest update is the end of the track.         *)
THEOREM EntryIsWellFormed == Spec => []RingInv
<1>1. Init => RingInv
  BY DEF Init, RingInv, TypeOK, StartsAtZeroUntilFull, LatestEndsTrack
<1>2. RingInv /\ [Next]_vars => RingInv'
  <2> SUFFICES ASSUME RingInv, [Next]_vars PROVE RingInv'
    OBVIOUS
  <2>1. ASSUME NEW p \in Point, setLocked(p) PROVE RingInv'
    BY <2>1, SetKeepsShape
  <2>2. CASE Clear
    BY <2>2 DEF Clear, RingInv, TypeOK, StartsAtZeroUntilFull, LatestEndsTrack
  <2>3. ASSUME NEW n \in Limits, GetHistory(n) PROVE RingInv'
    <3>1. ReadRing(n) \in Seq(Point)  BY ReadIsTrack, LimitsAssumption
    <3>2. item' = item /\ ring' = ring /\ answer' = ReadRing(n)
      BY <2>3 DEF GetHistory
    <3> QED
      BY <3>1, <3>2 DEF RingInv, TypeOK, StartsAtZeroUntilFull, LatestEndsTrack
  <2>4. CASE UNCHANGED vars
    BY <2>4 DEF vars, RingInv, TypeOK, StartsAtZeroUntilFull, LatestEndsTrack
  <2> QED  BY <2>1, <2>2, <2>3, <2>4 DEF Next
<1> QED  BY <1>1, <1>2, PTL DEF Spec

(* The ring's array, its start and its length keep their types.             *)
THEOREM RingTypes == Spec => []TypeOK
<1>1. RingInv => TypeOK  BY DEF RingInv
<1> QED  BY <1>1, EntryIsWellFormed, PTL

(* The latest update Get returns is the last point GetHistory returns.      *)
THEOREM LatestEndsTrackAlways == Spec => []LatestEndsTrack
<1>1. RingInv => LatestEndsTrack  BY DEF RingInv
<1> QED  BY <1>1, EntryIsWellFormed, PTL
-----------------------------------------------------------------------------
(* The sequence a ring stands for.                                          *)
Track(r) == PointsFrom(r, 0, r.length)

(* The track of a live ring is a sequence of its length.                    *)
LEMMA TrackShape ==
    ASSUME NEW r \in Ring, Live(r)
    PROVE  /\ Track(r) \in Seq(Point)
           /\ Len(Track(r)) = r.length
           /\ \A i \in 1 .. r.length :
                Track(r)[i] = r.points[(r.start + (i - 1)) % Capacity]
<1>1. r.length \in Nat /\ r.start \in Nat  BY DEF Ring, Slot
<1>2. ASSUME NEW i \in 1 .. r.length
      PROVE  /\ r.points[(r.start + (i - 1)) % Capacity] \in Point
             /\ r.start + 0 + (i - 1) = r.start + (i - 1)
  <2>1. i - 1 \in 0 .. r.length - 1  BY <1>1
  <2> QED  BY <1>1, <2>1 DEF Live
<1>3. Track(r) = [i \in 1 .. r.length |-> r.points[(r.start + (i - 1)) % Capacity]]
  BY <1>1, <1>2 DEF Track, PointsFrom
<1>4. [i \in 1 .. r.length |-> r.points[(r.start + (i - 1)) % Capacity]] \in Seq(Point)
  <2>1. \A i \in 1 .. r.length : r.points[(r.start + (i - 1)) % Capacity] \in Point
    BY <1>2
  <2>2. [i \in 1 .. r.length |-> r.points[(r.start + (i - 1)) % Capacity]]
          \in [1 .. r.length -> Point]
    BY <2>1
  <2> QED  BY <1>1, <2>2, SeqDef
<1> QED  BY <1>1, <1>3, <1>4

(* Pushing a point appends it to the track, dropping the oldest point when  *)
(* the ring was full.                                                       *)
LEMMA PushAppends ==
    ASSUME NEW r \in Ring, NEW p \in Point, Live(r)
    PROVE  Track(Push(r, p))
             = Append(IF r.length < Capacity THEN Track(r) ELSE Tail(Track(r)), p)
<1> DEFINE q == Push(r, p)
           old == IF r.length < Capacity THEN Track(r) ELSE Tail(Track(r))
<1>1. r.length \in 0 .. Capacity /\ r.start \in Slot  BY DEF Ring
<1>2. /\ q \in Ring /\ Live(q)
      /\ q.length = IF r.length < Capacity THEN r.length + 1 ELSE Capacity
      /\ q.points[(q.start + (q.length - 1)) % Capacity] = p
  BY PushShape
<1>3. /\ Track(q) \in Seq(Point) /\ Len(Track(q)) = q.length
      /\ \A i \in 1 .. q.length :
           Track(q)[i] = q.points[(q.start + (i - 1)) % Capacity]
  BY <1>2, TrackShape
<1>4. /\ Track(r) \in Seq(Point) /\ Len(Track(r)) = r.length
      /\ \A i \in 1 .. r.length :
           Track(r)[i] = r.points[(r.start + (i - 1)) % Capacity]
  BY TrackShape
<1>5. /\ old \in Seq(Point)
      /\ Len(old) = q.length - 1
      /\ q.length \in Nat \ {0}
  BY <1>1, <1>2, <1>4
<1> HIDE DEF q, old
<1>6. ASSUME NEW i \in 1 .. q.length - 1
      PROVE  Track(q)[i] = old[i]
  <2>1. CASE r.length < Capacity
    <3>1. q.start = r.start
      BY <2>1, PushShape DEF q
    <3>2. i - 1 \in 0 .. r.length - 1 /\ i \in 1 .. r.length /\ i \in 1 .. q.length
      BY <1>1, <1>2, <2>1
    <3>3. q.points[(r.start + (i - 1)) % Capacity] = r.points[(r.start + (i - 1)) % Capacity]
      BY <2>1, <3>2, PushShape DEF q
    <3>4. Track(q)[i] = q.points[(q.start + (i - 1)) % Capacity]  BY <1>3, <3>2
    <3>5. Track(r)[i] = r.points[(r.start + (i - 1)) % Capacity]  BY <1>4, <3>2
    <3>6. old = Track(r)  BY <2>1 DEF old
    <3> QED  BY <3>1, <3>3, <3>4, <3>5, <3>6
  <2>2. CASE r.length = Capacity
    <3>1. /\ i - 1 \in 0 .. Capacity - 2 /\ i \in 1 .. q.length
          /\ i + 1 \in 1 .. r.length /\ (i - 1) + 1 = (i + 1) - 1
          /\ i \in 1 .. Len(Track(r)) - 1
      BY <1>2, <1>4, <2>2
    <3>2. q.points[(q.start + (i - 1)) % Capacity]
            = r.points[(r.start + ((i - 1) + 1)) % Capacity]
      BY <2>2, <3>1, PushShape DEF q
    <3>3. Track(q)[i] = q.points[(q.start + (i - 1)) % Capacity]  BY <1>3, <3>1
    <3>4. Track(r)[i + 1] = r.points[(r.start + ((i + 1) - 1)) % Capacity]
      BY <1>4, <3>1
    <3>5. old = Tail(Track(r))  BY <2>2 DEF old
    <3>6. Tail(Track(r))[i] = Track(r)[i + 1]  BY <1>4, <3>1
    <3> QED  BY <3>1, <3>2, <3>3, <3>4, <3>5, <3>6
  <2> QED  BY <1>1, <2>1, <2>2
<1>7. Track(q)[q.length] = p
  BY <1>2, <1>3, <1>5
<1>8. /\ Append(old, p) \in Seq(Point)
      /\ Len(Append(old, p)) = q.length
      /\ \A i \in 1 .. q.length - 1 : Append(old, p)[i] = old[i]
      /\ Append(old, p)[q.length] = p
  BY <1>5
<1>9. \A i \in 1 .. q.length : Track(q)[i] = Append(old, p)[i]
  <2> SUFFICES ASSUME NEW i \in 1 .. q.length
               PROVE  Track(q)[i] = Append(old, p)[i]
    OBVIOUS
  <2>1. i = q.length \/ i \in 1 .. q.length - 1  BY <1>5
  <2> QED  BY <1>6, <1>7, <1>8, <2>1
<1>10. Track(q) = Append(old, p)
  BY <1>3, <1>8, <1>9, SeqEqual
<1> QED  BY <1>10 DEF q, old
(* The reader's view of the entry is the track of the ring it is based on.  *)
LEMMA WindowIsTrack ==
    ASSUME RingInv
    PROVE  /\ Window = Track(Base)
           /\ Window \in Seq(Point)
           /\ Len(Window) = Base.length
           /\ ring # Nil => ring = Base /\ Window = Track(ring)
<1>1. Base \in Ring /\ Live(Base)  BY BaseShape
<1>2. Track(Base) \in Seq(Point) /\ Len(Track(Base)) = Base.length
  BY <1>1, TrackShape
<1>3. CASE ring = Nil
  <2>1. Len(Track(Base)) = 0  BY <1>2, <1>3, BaseShape
  <2>2. Track(Base) = <<>>  BY <1>2, <2>1
  <2> QED  BY <1>2, <1>3, <2>2 DEF Window
<1>4. CASE ring # Nil
  BY <1>2, <1>4 DEF Window, Base, Track
<1> QED  BY <1>3, <1>4

(* setLocked is Record of the bounded window.                               *)
LEMMA SetRecords ==
    ASSUME RingInv, NEW p \in Point, setLocked(p)
    PROVE  History!Record(p)
<1>1. Base \in Ring /\ Live(Base) /\ Base.length \in 0 .. Capacity
  BY BaseShape DEF Ring
<1>2. ring' = Push(Base, p) /\ answer' = answer
  BY DEF setLocked, Base
<1>3. ring' # Nil
  BY <1>1, <1>2, PushShape, NilAssumption
<1>4. Window' = Track(Push(Base, p))
  BY <1>2, <1>3 DEF Window, Track
<1>5. Track(Push(Base, p))
        = Append(IF Base.length < Capacity THEN Track(Base) ELSE Tail(Track(Base)), p)
  BY <1>1, PushAppends
<1>6. Window = Track(Base) /\ Len(Window) = Base.length  BY WindowIsTrack
<1> QED  BY <1>2, <1>4, <1>5, <1>6 DEF History!Record

(* GetHistory is Query of the bounded window.                               *)
LEMMA ReadIsNewest ==
    ASSUME RingInv, NEW n \in Nat
    PROVE  ReadRing(n) = History!Newest(Window, n)
<1>1. Window \in Seq(Point) /\ Len(Window) = Base.length /\ Base \in Ring /\ Live(Base)
  BY WindowIsTrack, BaseShape
<1>2. CASE ring = Nil
  <2>1. Len(Window) = 0  BY <1>1, <1>2, BaseShape
  <2> QED  BY <1>2, <2>1 DEF History!Newest, ReadRing, Window
<1>3. CASE ring # Nil
  <2>1. /\ ring = Base /\ Window = Track(ring) /\ Window = PointsFrom(ring, 0, ring.length)
        /\ ring.length \in Nat /\ ring.start \in Nat
    BY <1>1, <1>3, WindowIsTrack DEF Ring, Slot, Window
  <2>2. CASE ~(n > 0 /\ ring.length > n)
    BY <1>1, <1>3, <2>1, <2>2 DEF History!Newest, ReadRing
  <2>3. CASE n > 0 /\ ring.length > n
    <3> DEFINE skip == ring.length - n
               newest == SubSeq(Window, Len(Window) - n + 1, Len(Window))
    <3>1. History!Newest(Window, n) = newest /\ ReadRing(n) = PointsFrom(ring, skip, n)
      BY <1>1, <1>3, <2>1, <2>3 DEF History!Newest, ReadRing
    <3>2. /\ skip \in Nat /\ Len(Window) = ring.length
          /\ Len(Window) - n + 1 = skip + 1
      BY <1>1, <2>1, <2>3
    <3>3. /\ newest \in Seq(Point) /\ Len(newest) = n
          /\ \A i \in 1 .. n : newest[i] = Window[skip + i]
      BY <1>1, <2>3, <3>2
    <3>4. /\ PointsFrom(ring, skip, n) \in Seq(Point)
          /\ Len(PointsFrom(ring, skip, n)) = n
      <4>1. PointsFrom(ring, skip, n) \in Seq(Point)  BY <3>1, ReadIsTrack
      <4> QED  BY <4>1 DEF PointsFrom
    <3>5. \A i \in 1 .. n : PointsFrom(ring, skip, n)[i] = Window[skip + i]
      <4> SUFFICES ASSUME NEW i \in 1 .. n
                   PROVE  PointsFrom(ring, skip, n)[i] = Window[skip + i]
        OBVIOUS
      <4>1. i \in Nat /\ i >= 1 /\ i <= n  OBVIOUS
      <4>2. ring.length \in Nat /\ ring.start \in Nat /\ n <= ring.length
        BY <2>1, <2>3
      <4>3. skip + i \in 1 .. ring.length
        BY ONLY <4>1, <4>2, n \in Nat DEF skip
      <4>4. ring.start + ((skip + i) - 1) = ring.start + skip + (i - 1)
        BY ONLY <4>1, <4>2, n \in Nat DEF skip
      <4>5. Window[skip + i] = ring.points[(ring.start + ((skip + i) - 1)) % Capacity]
        BY <1>1, <2>1, <4>3, TrackShape
      <4>6. PointsFrom(ring, skip, n)[i]
              = ring.points[(ring.start + skip + (i - 1)) % Capacity]
        BY DEF PointsFrom
      <4> QED  BY <4>4, <4>5, <4>6
    <3> HIDE DEF newest, skip
    <3>6. PointsFrom(ring, skip, n) = newest
      BY <3>3, <3>4, <3>5, SeqEqual
    <3> QED  BY <3>1, <3>6
  <2> QED  BY <2>2, <2>3
<1> QED  BY <1>2, <1>3

(* For every capacity, the ring of cache.go implements the bounded window:  *)
(* a history query answers with the newest points recorded since the last   *)
(* Clear, in the order they were recorded.                                  *)
THEOREM RingImplementsWindow == Spec => ImplementsBoundedHistory
<1>1. Init => History!Init
  BY DEF Init, History!Init, Window
<1>2. RingInv /\ [Next]_vars => [History!Next]_<<Window, answer>>
  <2> SUFFICES ASSUME RingInv, [Next]_vars
               PROVE  [History!Next]_<<Window, answer>>
    OBVIOUS
  <2>1. ASSUME NEW p \in Point, setLocked(p) PROVE History!Next
    <3>1. History!Record(p)  BY <2>1, SetRecords
    <3> QED  BY <3>1 DEF History!Next
  <2>2. CASE Clear
    <3>1. History!Forget  BY <2>2 DEF Clear, History!Forget, Window
    <3> QED  BY <3>1 DEF History!Next
  <2>3. ASSUME NEW n \in Limits, GetHistory(n) PROVE History!Next
    <3>1. answer' = History!Newest(Window, n)
      BY <2>3, ReadIsNewest, LimitsAssumption DEF GetHistory
    <3>2. Window' = Window
      BY <2>3 DEF GetHistory, Window, PointsFrom
    <3>3. History!Query(n)  BY <3>1, <3>2 DEF History!Query
    <3> QED  BY <3>3 DEF History!Next
  <2>4. CASE UNCHANGED vars
    BY <2>4 DEF vars, Window, PointsFrom
  <2> QED  BY <2>1, <2>2, <2>3, <2>4 DEF Next
<1> QED
  BY <1>1, <1>2, EntryIsWellFormed, PTL
     DEF Spec, ImplementsBoundedHistory, History!Spec
=============================================================================
