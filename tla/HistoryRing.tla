---------------------------- MODULE HistoryRing -----------------------------
(***************************************************************************)
(* One drone's entry in the sharded memory cache (internal/memory):        *)
(* its latest update, items[id], and its historyRing, history[id].  Every  *)
(* operation below runs under the lock of the drone's shard, so each is    *)
(* one step; how the operations of several shards interleave is the        *)
(* subject of ControlPlane.                                                *)
(***************************************************************************)
EXTENDS Naturals, Sequences

CONSTANTS Point,     \* telemetry points, told apart by what they record
          Blank,     \* the zero historyPoint of a freshly made array
          Nil,       \* a missing map entry
          Capacity,  \* maxHistory
          Limits     \* the maxPoints arguments of GetHistory

ASSUME CapacityAssumption == Capacity \in Nat \ {0}
ASSUME LimitsAssumption == Limits \subseteq Nat
ASSUME BlankAssumption == Blank \notin Point

Slot == 0 .. Capacity - 1

Ring == [points : [Slot -> Point \cup {Blank}], start : Slot, length : 0 .. Capacity]

ASSUME NilAssumption == Nil \notin Ring /\ Nil \notin Point

VARIABLES item,      \* items[id]: the latest update, or Nil
          ring,      \* history[id]: the ring, or Nil
          answer     \* what the last call of GetHistory returned

vars == <<item, ring, answer>>

Init == item = Nil /\ ring = Nil /\ answer = <<>>

EmptyRing == [points |-> [i \in Slot |-> Blank], start |-> 0, length |-> 0]

\* Mutant of Push: the free slot is taken to be one further on.
Push_PastEnd(r, p) ==
    IF r.length < Capacity
    THEN [r EXCEPT !.points[(r.start + r.length + 1) % Capacity] = p,
                   !.length = r.length + 1]
    ELSE [r EXCEPT !.points[r.start] = p,
                   !.start = (r.start + 1) % Capacity]

\* The write half of setLocked: fill the next free slot, or overwrite the
\* oldest point and move start past it.
Push(r, p) ==
    IF r.length < Capacity
    THEN [r EXCEPT !.points[(r.start + r.length) % Capacity] = p,
                   !.length = r.length + 1]
    ELSE [r EXCEPT !.points[r.start] = p,
                   !.start = (r.start + 1) % Capacity]

\* Set and SetBatch reach a drone through setLocked.
setLocked(p) ==
    /\ item' = p
    /\ ring' = Push(IF ring = Nil THEN EmptyRing ELSE ring, p)
    /\ UNCHANGED answer

\* Mutant of Clear: the histories are forgotten, the latest updates kept.
Clear_HistoryOnly ==
    /\ ring' = Nil
    /\ UNCHANGED <<item, answer>>

\* Clear replaces both maps of the shard.
Clear ==
    /\ item' = Nil
    /\ ring' = Nil
    /\ UNCHANGED answer

\* The count points of r that follow its offset oldest ones.
PointsFrom(r, offset, count) ==
    [i \in 1 .. count |-> r.points[(r.start + offset + (i - 1)) % Capacity]]

\* Mutant of ReadRing: a limit keeps the oldest points.
ReadRing_Oldest(maxPoints) ==
    IF ring = Nil THEN <<>>
    ELSE IF maxPoints > 0 /\ ring.length > maxPoints
         THEN PointsFrom(ring, 0, maxPoints)
         ELSE PointsFrom(ring, 0, ring.length)

ReadRing(maxPoints) ==
    IF ring = Nil THEN <<>>
    ELSE IF maxPoints > 0 /\ ring.length > maxPoints
         THEN PointsFrom(ring, ring.length - maxPoints, maxPoints)
         ELSE PointsFrom(ring, 0, ring.length)

GetHistory(maxPoints) ==
    /\ answer' = ReadRing(maxPoints)
    /\ UNCHANGED <<item, ring>>

Next == \/ \E p \in Point : setLocked(p)
        \/ Clear
        \/ \E n \in Limits : GetHistory(n)

Spec == Init /\ [][Next]_vars
-----------------------------------------------------------------------------
(* The types of the three variables, and that no slot inside the live part *)
(* of the ring still holds the zero point the array was made with.         *)
TypeOK ==
    /\ item \in Point \cup {Nil}
    /\ ring \in Ring \cup {Nil}
    /\ answer \in Seq(Point)
    /\ ring # Nil => \A i \in 0 .. ring.length - 1 :
                         ring.points[(ring.start + i) % Capacity] \in Point

(* A ring that has not wrapped starts at slot 0: setLocked moves start only *)
(* once the array is full, so the first branch never lands on a live slot.  *)
StartsAtZeroUntilFull ==
    ring # Nil => ring.length > 0 /\ (ring.length < Capacity => ring.start = 0)

(* Get and GetHistory agree: a drone that is listed has a track, and the    *)
(* last point of that track is the update Get returns for it.               *)
LatestEndsTrack ==
    /\ item = Nil <=> ring = Nil
    /\ ring # Nil =>
         item = ring.points[(ring.start + (ring.length - 1)) % Capacity]

(* The track a reader sees, as a sequence.                                  *)
Window == IF ring = Nil THEN <<>> ELSE PointsFrom(ring, 0, ring.length)

History == INSTANCE BoundedHistory WITH window <- Window

(* The ring implements the bounded window: what GetHistory returns is the   *)
(* newest points recorded since the last Clear, in order, however often the *)
(* array has wrapped (cache.go, setLocked and GetHistory).                  *)
ImplementsBoundedHistory == History!Spec
=============================================================================
