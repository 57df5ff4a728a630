--------------------- MODULE PostgresRepository_proofs ----------------------
(***************************************************************************)
(* Proofs about PostgresRepository, for every batch size, queue size and   *)
(* retention: every row is accounted for, a row in hand has its partition  *)
(* while the maintenance has not failed for longer than three days, and    *)
(* nothing younger than the retention is dropped.                          *)
(***************************************************************************)
EXTENDS PostgresRepository, TLAPS

\* What the worker's and main's positions say about each other and the rows.
Life ==
    /\ main \in {"down", "starting", "offline", "closed"} =>
           worker = "done" /\ pending = 0
    /\ main = "serving" => worker = "select" /\ ~stopped
    /\ main = "closing" => pending = 0
    /\ worker \in {"last", "done"} => batchChan = <<>>
    /\ worker = "done" => buffer = <<>> /\ ~flushing
    /\ ~flushing => Len(buffer) < BatchSize
    /\ main = "starting" => cleaner = "ensure" /\ ~stopped

Balance ==
    saved = pending + Len(batchChan) + Len(buffer) + dropped + inserted + failed

\* Rows in hand are at most a day old.
Fresh == \A row \in InHand : day - 1 <= row /\ row <= day

\* The days an ensurePartitions that succeeded has prepared, and those the one
\* under way has prepared so far, are there or expired.
Prepared ==
    /\ ensured # -1 =>
           \A d \in ensured .. ensured + DaysAhead :
               d \in partitions \/ d < day - RetentionDays
    /\ cleaner = "ensure" =>
           \A d \in today .. today + ahead - 1 : d \in partitions

Expired == \A p \in expired : p < day - RetentionDays

RepositoryInv == TypeOK /\ Life /\ Balance /\ Fresh /\ Prepared /\ Expired
-----------------------------------------------------------------------------
(* Sequences of days.                                                       *)

LEMMA AppendDay ==
  ASSUME NEW s \in Seq(Day), NEW d \in Day
  PROVE  /\ Append(s, d) \in Seq(Day)
         /\ Len(Append(s, d)) = Len(s) + 1
         /\ ToSet(Append(s, d)) \subseteq ToSet(s) \cup {d}
  BY DEF ToSet, Day

LEMMA TakeDay ==
  ASSUME NEW s \in Seq(Day), s # <<>>
  PROVE  /\ Head(s) \in Day /\ Tail(s) \in Seq(Day)
         /\ Len(Tail(s)) = Len(s) - 1
         /\ Head(s) \in ToSet(s)
         /\ ToSet(Tail(s)) \subseteq ToSet(s)
  <1>1. /\ Len(s) \in Nat \ {0} /\ Head(s) = s[1]
        /\ Tail(s) \in Seq(Day) /\ Len(Tail(s)) = Len(s) - 1
        /\ \A i \in 1 .. Len(s) - 1 : Tail(s)[i] = s[i + 1]
        OBVIOUS
  <1>2. \A i \in 1 .. Len(s) : s[i] \in Day
        OBVIOUS
  <1>3. ToSet(Tail(s)) \subseteq ToSet(s)
        <2> SUFFICES ASSUME NEW i \in 1 .. Len(s) - 1
                     PROVE  Tail(s)[i] \in ToSet(s)
            BY <1>1 DEF ToSet
        <2>1. i + 1 \in 1 .. Len(s) /\ Tail(s)[i] = s[i + 1]
              BY <1>1
        <2> QED BY <2>1 DEF ToSet
  <1>4. 1 \in 1 .. Len(s)
        BY <1>1
  <1> QED BY <1>1, <1>2, <1>3, <1>4 DEF ToSet

LEMMA OnlyDays ==
  ASSUME NEW s \in Seq(Day)
  PROVE  ToSet(s) \subseteq Day
  BY DEF ToSet

LEMMA NoDay == ToSet(<<>>) = {} /\ <<>> \in Seq(Day) /\ Len(<<>>) = 0
  BY DEF ToSet
-----------------------------------------------------------------------------
(* The inductive invariant.                                                 *)

LEMMA InitInv == Init => RepositoryInv
  <1> SUFFICES ASSUME Init PROVE RepositoryInv
      OBVIOUS
  <1> USE SizeAssumption, NoDay DEF Init
  <1>1. TypeOK
        <2>1. stopped \in BOOLEAN /\ flushing \in BOOLEAN
              BY Zenon
        <2>2. /\ batchChan \in Seq(Day) /\ Len(batchChan) = 0
              /\ buffer \in Seq(Day) /\ Len(buffer) = 0
              OBVIOUS
        <2>3. day \in Day /\ stamp \in Day /\ today \in Day
              BY DEF Day
        <2> HIDE NoDay
        <2> QED BY <2>1, <2>2, <2>3 DEF TypeOK, DaysAhead
  <1>2. Life
        BY DEF Life
  <1>3. Balance
        BY DEF Balance
  <1>4. Fresh /\ Prepared /\ Expired
        BY DEF Fresh, InHand, Prepared, Expired
  <1> QED BY <1>1, <1>2, <1>3, <1>4 DEF RepositoryInv

(* Types; a batch is flushed as soon as it is full.                         *)
LEMMA TypeStep == TypeOK /\ Life /\ [Next]_vars => TypeOK'
  <1> SUFFICES ASSUME TypeOK, Life, [Next]_vars PROVE TypeOK'
      OBVIOUS
  <1> USE SizeAssumption, NoDay
      DEF TypeOK, rowVars, cleanerVars, Day, DaysAhead
  <1>1. CASE Start
        <2>1. stopped' \in BOOLEAN
              BY <1>1, Zenon DEF Start
        <2> QED BY <1>1, <2>1 DEF Start
  <1>2. CASE Kill
        <2>1. stopped' \in BOOLEAN /\ flushing' \in BOOLEAN
              BY <1>2, Zenon DEF Kill
        <2> QED BY <1>2, <2>1 DEF Kill
  <1>3. CASE NextDay
        BY <1>3 DEF NextDay
  <1>4. CASE SaveBatch
        <2>1. PICK rows \in 1 .. MaxSnapshot :
                  pending' = rows /\ saved' = saved + rows
              BY <1>4 DEF SaveBatch
        <2>2. pending' \in Nat /\ saved' \in Nat
              BY <2>1
        <2> QED BY <1>4, <2>2 DEF SaveBatch
  <1>5. CASE Offer
        <2>1. /\ Append(batchChan, stamp) \in Seq(Day)
              /\ Len(Append(batchChan, stamp)) = Len(batchChan) + 1
              /\ Len(batchChan) \in Nat
              BY AppendDay
        <2>2. /\ batchChan' \in Seq(Day) /\ Len(batchChan') <= QueueSize
              /\ dropped' \in Nat
              <3>1. CASE Len(batchChan) < QueueSize
                    <4>1. batchChan' = Append(batchChan, stamp) /\ dropped' = dropped
                          BY <1>5, <3>1 DEF Offer
                    <4>2. Len(batchChan) + 1 <= QueueSize
                          BY <2>1, <3>1
                    <4> QED BY <2>1, <4>1, <4>2
              <3>2. CASE ~(Len(batchChan) < QueueSize)
                    BY <1>5, <3>2 DEF Offer
              <3> QED BY <3>1, <3>2
        <2>3. pending' \in Nat /\ stamp' \in Day
              BY <1>5 DEF Offer
        <2> QED BY <1>5, <2>2, <2>3 DEF Offer
  <1>6. CASE Collect
        <2>1. /\ Head(batchChan) \in Day /\ Tail(batchChan) \in Seq(Day)
              /\ Len(Tail(batchChan)) = Len(batchChan) - 1
              BY <1>6, TakeDay DEF Collect
        <2>2. /\ Append(buffer, Head(batchChan)) \in Seq(Day)
              /\ Len(Append(buffer, Head(batchChan))) = Len(buffer) + 1
              BY <2>1, AppendDay
        <2>3. Len(buffer) < BatchSize /\ Len(buffer) \in Nat
              BY <1>6 DEF Life, Collect
        <2>4. /\ buffer' \in Seq(Day) /\ Len(buffer') <= BatchSize
              /\ batchChan' \in Seq(Day) /\ Len(batchChan') <= QueueSize
              BY <1>6, <2>1, <2>2, <2>3 DEF Collect
        <2>5. flushing' \in BOOLEAN /\ worker' # "done"
              BY <1>6 DEF Collect
        <2> QED BY <1>6, <2>4, <2>5 DEF Collect
  <1>7. CASE FlushTick
        BY <1>7 DEF FlushTick
  <1>8. CASE SeeStop
        BY <1>8 DEF SeeStop
  <1>9. CASE Drained
        BY <1>9 DEF Drained
  <1>10. CASE flushBuffer
        <2>1. Len(buffer) \in Nat
              OBVIOUS
        <2>2. inserted' \in Nat /\ failed' \in Nat
              BY <1>10, <2>1 DEF flushBuffer
        <2>3. buffer' = <<>> /\ buffer' \in Seq(Day) /\ Len(buffer') <= BatchSize
              BY <1>10 DEF flushBuffer
        <2>4. worker' \in {worker, "done"} /\ flushing' = FALSE
              BY <1>10 DEF flushBuffer
        <2> HIDE NoDay
        <2> QED BY <1>10, <2>2, <2>3, <2>4 DEF flushBuffer
  <1>11. CASE MaintenanceTick
        BY <1>11 DEF MaintenanceTick
  <1>12. CASE CreatePartition
        <2>1. today + ahead \in 0 .. MaxDay + DaysAhead
              OBVIOUS
        <2>2. partitions' \subseteq 0 .. MaxDay + DaysAhead
              BY <1>12, <2>1 DEF CreatePartition
        <2>3. /\ ahead' \in 0 .. DaysAhead /\ today' \in Day
              /\ ensured' \in Day \cup {-1}
              BY <1>12 DEF CreatePartition, AfterEnsure
        <2>4. /\ main' \in {main, "serving"} /\ worker' \in {worker, "select"}
              /\ cleaner' \in {"ensure", "select", "list"}
              BY <1>12 DEF CreatePartition, AfterEnsure
        <2> QED BY <1>12, <2>2, <2>3, <2>4 DEF CreatePartition
  <1>13. CASE CreateFails
        BY <1>13 DEF CreateFails
  <1>14. CASE ListPartitions
        BY <1>14 DEF ListPartitions
  <1>15. CASE DropPartition
        <2>1. /\ partitions' \subseteq 0 .. MaxDay + DaysAhead
              /\ expired' \subseteq 0 .. MaxDay + DaysAhead
              <3>1. PICK p \in expired :
                        /\ expired' = expired \ {p}
                        /\ partitions' \in {partitions, partitions \ {p}}
                    BY <1>15 DEF DropPartition
              <3> QED BY <3>1
        <2> QED BY <1>15, <2>1 DEF DropPartition
  <1>16. CASE PurgeEnds
        BY <1>16 DEF PurgeEnds
  <1>17. CASE CleanerStops
        BY <1>17 DEF CleanerStops
  <1>18. CASE Close
        BY <1>18 DEF Close
  <1>19. CASE CloseWait
        BY <1>19 DEF CloseWait
  <1>20. CASE UNCHANGED vars
        BY <1>20 DEF vars
  <1> QED BY <1>1, <1>2, <1>3, <1>4, <1>5, <1>6, <1>7, <1>8, <1>9, <1>10, <1>11,
             <1>12, <1>13, <1>14, <1>15, <1>16, <1>17, <1>18, <1>19, <1>20
          DEF Next, batchWorker, retentionRound
(* Where the worker and main are; Collect is the only step that fills the   *)
(* buffer and Offer the only one that fills the queue.                      *)
LEMMA LifeStep == TypeOK /\ Life /\ [Next]_vars => Life'
  <1> SUFFICES ASSUME TypeOK, Life, [Next]_vars PROVE Life'
      OBVIOUS
  <1> USE SizeAssumption, NoDay DEF TypeOK, Life, rowVars, cleanerVars
  <1>1. CASE Start
        BY <1>1 DEF Start
  <1>2. CASE Kill
        BY <1>2 DEF Kill
  <1>3. CASE NextDay
        BY <1>3 DEF NextDay
  <1>4. CASE SaveBatch
        BY <1>4 DEF SaveBatch
  <1>5. CASE Offer
        BY <1>5 DEF Offer
  <1>6. CASE Collect
        <2>1. Len(buffer') = Len(buffer) + 1 /\ Len(buffer) \in Nat
              BY <1>6, TakeDay, AppendDay DEF Collect
        <2>2. ~flushing' => Len(buffer') < BatchSize
              <3>1. flushing' = (Len(buffer) + 1 >= BatchSize)
                    BY <1>6 DEF Collect
              <3>2. ~flushing' => ~(Len(buffer) + 1 >= BatchSize)
                    BY <3>1, Zenon
              <3> QED BY <2>1, <3>2
        <2> QED BY <1>6, <2>2 DEF Collect
  <1>7. CASE FlushTick
        BY <1>7 DEF FlushTick
  <1>8. CASE SeeStop
        BY <1>8 DEF SeeStop
  <1>9. CASE Drained
        BY <1>9 DEF Drained
  <1>10. CASE flushBuffer
        <2>1. flushing' = FALSE /\ buffer' = <<>> /\ worker # "done"
              BY <1>10 DEF flushBuffer
        <2>2. worker' = IF worker = "last" THEN "done" ELSE worker
              BY <1>10 DEF flushBuffer
        <2>3. UNCHANGED <<main, stopped, pending, batchChan, cleaner>>
              BY <1>10 DEF flushBuffer
        <2>4. Len(buffer') < BatchSize
              BY <2>1
        <2> QED BY <2>1, <2>2, <2>3, <2>4
  <1>11. CASE MaintenanceTick
        BY <1>11 DEF MaintenanceTick
  <1>12. CASE CreatePartition
        BY <1>12 DEF CreatePartition, AfterEnsure
  <1>13. CASE CreateFails
        BY <1>13 DEF CreateFails
  <1>14. CASE ListPartitions
        BY <1>14 DEF ListPartitions
  <1>15. CASE DropPartition
        BY <1>15 DEF DropPartition
  <1>16. CASE PurgeEnds
        BY <1>16 DEF PurgeEnds
  <1>17. CASE CleanerStops
        BY <1>17 DEF CleanerStops
  <1>18. CASE Close
        BY <1>18 DEF Close
  <1>19. CASE CloseWait
        BY <1>19 DEF CloseWait
  <1>20. CASE UNCHANGED vars
        BY <1>20 DEF vars
  <1> QED BY <1>1, <1>2, <1>3, <1>4, <1>5, <1>6, <1>7, <1>8, <1>9, <1>10, <1>11,
             <1>12, <1>13, <1>14, <1>15, <1>16, <1>17, <1>18, <1>19, <1>20
          DEF Next, batchWorker, retentionRound

(* Rows move from one place to another; only the steps of SaveBatch, of the *)
(* worker and of a restart touch them.                                      *)
LEMMA BalanceStep == TypeOK /\ Life /\ Balance /\ [Next]_vars => Balance'
  <1> SUFFICES ASSUME TypeOK, Life, Balance, [Next]_vars PROVE Balance'
      OBVIOUS
  <1> USE NoDay DEF Balance
  <1>1. CASE Start
        <2>1. pending = 0 /\ batchChan = <<>> /\ buffer = <<>>
              BY <1>1 DEF Start, Life
        <2> QED BY <1>1, <2>1 DEF Start
  <1>2. CASE Kill
        BY <1>2 DEF Kill
  <1>3. CASE SaveBatch
        <2>1. PICK rows \in 1 .. MaxSnapshot :
                  pending' = rows /\ saved' = saved + rows
              BY <1>3 DEF SaveBatch
        <2>2. rows \in Nat
              BY <2>1, SizeAssumption
        <2>3. /\ pending = 0 /\ batchChan' = batchChan /\ buffer' = buffer
              /\ dropped' = dropped /\ inserted' = inserted /\ failed' = failed
              BY <1>3 DEF SaveBatch
        <2>4. /\ Len(batchChan) \in Nat /\ Len(buffer) \in Nat
              /\ saved \in Nat /\ dropped \in Nat
              /\ inserted \in Nat /\ failed \in Nat
              BY DEF TypeOK
        <2> QED BY <2>1, <2>2, <2>3, <2>4
  <1>4. CASE Offer
        <2>1. Len(Append(batchChan, stamp)) = Len(batchChan) + 1
              BY AppendDay DEF TypeOK
        <2>2. \/ Len(batchChan') = Len(batchChan) + 1 /\ dropped' = dropped
              \/ batchChan' = batchChan /\ dropped' = dropped + 1
              BY <1>4, <2>1 DEF Offer
        <2>3. /\ pending' = pending - 1 /\ pending \in Nat /\ dropped \in Nat
              /\ Len(batchChan) \in Nat /\ Len(buffer) \in Nat
              /\ inserted \in Nat /\ failed \in Nat
              BY <1>4 DEF Offer, TypeOK
        <2>4. /\ buffer' = buffer /\ saved' = saved
              /\ inserted' = inserted /\ failed' = failed
              BY <1>4 DEF Offer
        <2> QED BY <2>2, <2>3, <2>4
  <1>5. CASE Collect
        <2>1. /\ Len(batchChan') = Len(batchChan) - 1
              /\ Len(buffer') = Len(buffer) + 1
              BY <1>5, TakeDay, AppendDay DEF Collect, TypeOK
        <2>2. Len(batchChan) \in Nat /\ Len(buffer) \in Nat
              BY DEF TypeOK
        <2>3. UNCHANGED <<pending, saved, dropped, inserted, failed>>
              BY <1>5 DEF Collect
        <2>4. /\ pending \in Nat /\ dropped \in Nat
              /\ inserted \in Nat /\ failed \in Nat
              BY DEF TypeOK
        <2> QED BY <2>1, <2>2, <2>3, <2>4
  <1>6. CASE flushBuffer
        <2>1. Len(buffer') = 0
              BY <1>6 DEF flushBuffer
        <2>2. \/ inserted' = inserted + Len(buffer) /\ failed' = failed
              \/ failed' = failed + Len(buffer) /\ inserted' = inserted
              BY <1>6 DEF flushBuffer
        <2>3. UNCHANGED <<pending, batchChan, saved, dropped>>
              BY <1>6 DEF flushBuffer
        <2>4. /\ pending \in Nat /\ dropped \in Nat /\ inserted \in Nat
              /\ failed \in Nat /\ Len(batchChan) \in Nat /\ Len(buffer) \in Nat
              BY DEF TypeOK
        <2> QED BY <2>1, <2>2, <2>3, <2>4
  <1>7. CASE UNCHANGED <<pending, batchChan, buffer, saved, dropped, inserted, failed>>
        BY <1>7
  <1>8. ASSUME \/ NextDay \/ FlushTick \/ SeeStop \/ Drained
               \/ MaintenanceTick \/ retentionRound \/ CleanerStops
               \/ Close \/ CloseWait \/ UNCHANGED vars
        PROVE  UNCHANGED <<pending, batchChan, buffer, saved, dropped, inserted, failed>>
        BY <1>8
        DEF NextDay, FlushTick, SeeStop, Drained, MaintenanceTick, retentionRound,
            CreatePartition, CreateFails, ListPartitions, DropPartition, PurgeEnds,
            CleanerStops, Close, CloseWait, rowVars, cleanerVars, vars
  <1> QED BY <1>1, <1>2, <1>3, <1>4, <1>5, <1>6, <1>7, <1>8 DEF Next, batchWorker
(* A day passes only when no row in hand is from an earlier one.            *)
LEMMA FreshStep == TypeOK /\ Life /\ Fresh /\ [Next]_vars => Fresh'
  <1> SUFFICES ASSUME TypeOK, Life, Fresh, [Next]_vars PROVE Fresh'
      OBVIOUS
  <1>a. day \in Nat /\ stamp \in Nat
        BY SizeAssumption DEF TypeOK, Day
  <1>1. CASE NextDay
        <2>1. InHand' = InHand
              BY <1>1 DEF NextDay, InHand, rowVars
        <2>2. day' = day + 1 /\ \A row \in InHand : row = day
              BY <1>1 DEF NextDay
        <2> QED BY <2>1, <2>2, <1>a DEF Fresh
  <1>2. CASE SaveBatch
        <2>1. InHand' \subseteq InHand \cup {day}
              BY <1>2 DEF SaveBatch, InHand
        <2> QED BY <1>2, <2>1, <1>a DEF Fresh, SaveBatch
  <1>3. ASSUME day' = day, InHand' \subseteq InHand PROVE Fresh'
        BY <1>3 DEF Fresh
  <1>4. CASE Start
        BY <1>3, <1>4 DEF Start, InHand
  <1>5. CASE Kill
        BY <1>3, <1>5, NoDay DEF Kill, InHand
  <1>6. CASE Offer
        <2>1. ToSet(batchChan') \subseteq ToSet(batchChan) \cup {stamp}
              BY <1>6, AppendDay DEF Offer, TypeOK
        <2>2. /\ pending > 0 /\ pending' = pending - 1 /\ pending \in Nat
              /\ stamp' = IF pending = 1 THEN 0 ELSE stamp
              /\ buffer' = buffer /\ day' = day
              BY <1>6 DEF Offer, TypeOK
        <2>3. pending' > 0 => stamp' = stamp
              BY <2>2
        <2>4. InHand' \subseteq InHand
              BY <2>1, <2>2, <2>3 DEF InHand
        <2> QED BY <1>3, <2>2, <2>4
  <1>7. CASE Collect
        <2>1. /\ ToSet(batchChan') \subseteq ToSet(batchChan)
              /\ ToSet(buffer') \subseteq ToSet(buffer) \cup {Head(batchChan)}
              /\ Head(batchChan) \in ToSet(batchChan)
              BY <1>7, TakeDay, AppendDay DEF Collect, TypeOK
        <2>2. UNCHANGED <<day, pending, stamp>>
              BY <1>7 DEF Collect
        <2>3. InHand' \subseteq InHand
              BY <2>1, <2>2 DEF InHand
        <2> QED BY <1>3, <2>2, <2>3
  <1>8. CASE flushBuffer
        BY <1>3, <1>8, NoDay DEF flushBuffer, InHand
  <1>9. CASE UNCHANGED <<day, pending, stamp, batchChan, buffer>>
        BY <1>3, <1>9 DEF InHand
  <1>10. ASSUME \/ FlushTick \/ SeeStop \/ Drained
                \/ MaintenanceTick \/ retentionRound \/ CleanerStops
                \/ Close \/ CloseWait \/ UNCHANGED vars
         PROVE  UNCHANGED <<day, pending, stamp, batchChan, buffer>>
        BY <1>10
        DEF FlushTick, SeeStop, Drained, MaintenanceTick, retentionRound,
            CreatePartition, CreateFails, ListPartitions, DropPartition, PurgeEnds,
            CleanerStops, Close, CloseWait, rowVars, cleanerVars, vars
  <1> QED BY <1>1, <1>2, <1>4, <1>5, <1>6, <1>7, <1>8, <1>9, <1>10
          DEF Next, batchWorker

(* The partitions change only in rounds of the cleaner, which does not drop *)
(* any while it creates some.                                               *)
LEMMA PreparedStep ==
  TypeOK /\ Prepared /\ Expired /\ [Next]_vars => Prepared' /\ Expired'
  <1> SUFFICES ASSUME TypeOK, Prepared, Expired, [Next]_vars
               PROVE  Prepared' /\ Expired'
      OBVIOUS
  <1>a. /\ day \in Nat /\ RetentionDays \in Nat
        /\ today \in Nat /\ ahead \in Nat
        /\ partitions \subseteq Int /\ expired \subseteq Int
        /\ ensured \in Int
        BY SizeAssumption DEF TypeOK, Day, DaysAhead
  <1>1. CASE NextDay
        <2>1. /\ day' = day + 1
              /\ UNCHANGED <<partitions, ensured, cleaner, today, ahead, expired>>
              BY <1>1 DEF NextDay, cleanerVars
        <2>2. \A d \in Int : d < day - RetentionDays => d < day' - RetentionDays
              BY <2>1, <1>a
        <2>3. Expired'
              BY <2>1, <2>2, <1>a DEF Expired
        <2>4. Prepared'
              BY <2>1, <2>2, <1>a DEF Prepared, DaysAhead
        <2> QED BY <2>3, <2>4
  <1>2. CASE CreatePartition
        <2>1. /\ partitions' = partitions \cup {today + ahead}
              /\ UNCHANGED <<day, expired>>
              BY <1>2 DEF CreatePartition
        <2>2. \A d \in today .. today + ahead : d \in partitions'
              BY <1>2, <2>1, <1>a DEF CreatePartition, Prepared
        <2>3. CASE ahead = DaysAhead
              <3>1. ensured' = today /\ cleaner' # "ensure"
                    BY <1>2, <2>3 DEF CreatePartition, AfterEnsure
              <3> QED BY <2>1, <2>2, <2>3, <3>1 DEF Prepared, Expired
        <2>4. CASE ahead # DaysAhead
              <3>1. /\ ahead' = ahead + 1
                    /\ UNCHANGED <<ensured, cleaner, today>>
                    BY <1>2, <2>4 DEF CreatePartition
              <3>2. today + ahead = today' + ahead' - 1 /\ today' = today
                    BY <3>1, <1>a
              <3> QED BY <2>1, <2>2, <3>1, <3>2 DEF Prepared, Expired
        <2> QED BY <2>3, <2>4
  <1>3. CASE ListPartitions
        BY <1>3 DEF ListPartitions, Prepared, Expired
  <1>4. CASE DropPartition
        <2>1. PICK p \in expired :
                  /\ expired' = expired \ {p}
                  /\ partitions' \in {partitions, partitions \ {p}}
              BY <1>4 DEF DropPartition
        <2>2. UNCHANGED <<day, ensured, cleaner>> /\ cleaner = "purge"
              BY <1>4 DEF DropPartition
        <2> QED BY <2>1, <2>2 DEF Prepared, Expired
  <1>5. CASE Start \/ MaintenanceTick
        <2>1. /\ today' = day /\ ahead' = 0
              /\ UNCHANGED <<day, partitions, ensured, expired>>
              BY <1>5 DEF Start, MaintenanceTick
        <2>2. today' .. today' + ahead' - 1 = {}
              BY <2>1, <1>a
        <2> QED BY <2>1, <2>2 DEF Prepared, Expired
  <1>6. CASE Kill \/ CreateFails \/ PurgeEnds \/ CleanerStops
        <2>1. /\ UNCHANGED <<day, partitions, ensured>>
              /\ cleaner' # "ensure" /\ expired' \subseteq expired
              BY <1>6 DEF Kill, CreateFails, PurgeEnds, CleanerStops
        <2> QED BY <2>1 DEF Prepared, Expired
  <1>7. CASE UNCHANGED <<day, partitions, ensured, cleaner, today, ahead, expired>>
        BY <1>7 DEF Prepared, Expired
  <1>8. ASSUME \/ SaveBatch \/ Offer \/ batchWorker \/ Close \/ CloseWait
               \/ UNCHANGED vars
        PROVE  UNCHANGED <<day, partitions, ensured, cleaner, today, ahead, expired>>
        BY <1>8
        DEF SaveBatch, Offer, batchWorker, Collect, FlushTick, SeeStop, Drained,
            flushBuffer, Close, CloseWait, rowVars, cleanerVars, vars
  <1> QED BY <1>1, <1>2, <1>3, <1>4, <1>5, <1>6, <1>7, <1>8
          DEF Next, retentionRound
-----------------------------------------------------------------------------
(* The invariant holds: batchWorker, SaveBatch, retentionCleaner and Close  *)
(* keep the queue, the buffer and the partitions consistent.                *)
THEOREM RepositoryInvariant == Spec => []RepositoryInv
  <1>1. RepositoryInv /\ [Next]_vars => RepositoryInv'
        BY TypeStep, LifeStep, BalanceStep, FreshStep, PreparedStep
        DEF RepositoryInv
  <1> QED BY InitInv, <1>1, PTL DEF Spec

(* Every variable of the repository keeps its type, and no INSERT is larger *)
(* than a batch, for every BATCH_SIZE.                                      *)
THEOREM RepositoryTypes == Spec => []TypeOK
  <1>1. RepositoryInv => TypeOK
        BY DEF RepositoryInv
  <1> QED BY RepositoryInvariant, <1>1, PTL

(* No row vanishes and none is inserted twice, and Close leaves none behind.*)
THEOREM RowsAreAccounted == Spec => []RowsAccounted
  <1>1. RepositoryInv => RowsAccounted
        <2> SUFFICES ASSUME TypeOK, Life, Balance PROVE RowsAccounted
            BY DEF RepositoryInv
        <2>1. main = "closed" => pending = 0 /\ batchChan = <<>> /\ buffer = <<>>
              BY DEF Life
        <2>2. main = "closed" => saved = dropped + inserted + failed
              BY <2>1, NoDay DEF Balance, TypeOK
        <2> QED BY <2>2 DEF Balance, RowsAccounted
  <1> QED BY RepositoryInvariant, <1>1, PTL

(* A row in hand has its partition while the last successful maintenance is *)
(* at most three days old, for every retention.                             *)
THEOREM RowsAlwaysHavePartition == Spec => []RowsHavePartition
  <1>1. RepositoryInv => RowsHavePartition
        <2> SUFFICES ASSUME TypeOK, Fresh, Prepared, ensured # -1,
                            NEW row \in InHand,
                            ensured <= row, row <= ensured + DaysAhead
                     PROVE  row \in partitions
            BY DEF RepositoryInv, RowsHavePartition
        <2>1. /\ day \in Nat /\ ensured \in Int
              /\ RetentionDays \in Nat /\ RetentionDays >= 1
              BY SizeAssumption DEF TypeOK, Day
        <2>2. row \in Int
              <3>1. batchChan \in Seq(Day) /\ buffer \in Seq(Day) /\ stamp \in Day
                    BY DEF TypeOK
              <3>2. row \in Day
                    BY <3>1, OnlyDays DEF InHand
              <3> QED BY <3>2 DEF Day
        <2>3. day - 1 <= row
              BY DEF Fresh
        <2>4. row \in ensured .. ensured + DaysAhead
              BY <2>1, <2>2 DEF DaysAhead
        <2>5. ~(row < day - RetentionDays)
              BY <2>1, <2>2, <2>3
        <2> QED BY <2>4, <2>5 DEF Prepared
  <1> QED BY RepositoryInvariant, <1>1, PTL

(* purgeOldPartitions drops only what is older than RETENTION_DAYS.         *)
THEOREM RetentionIsKept == Spec => RetentionKept
  <1>1. RepositoryInv /\ [Next]_vars =>
            [\A p \in partitions : p \notin partitions' => p < day - RetentionDays]_vars
        <2> SUFFICES ASSUME Expired, Next,
                            NEW p \in partitions, p \notin partitions'
                     PROVE  p < day - RetentionDays
            BY DEF RepositoryInv
        <2>1. DropPartition
              BY DEF Next, Start, Kill, NextDay, SaveBatch, Offer, batchWorker,
                     Collect, FlushTick, SeeStop, Drained, flushBuffer,
                     MaintenanceTick, retentionRound, CreatePartition, CreateFails,
                     ListPartitions, PurgeEnds, CleanerStops, Close, CloseWait,
                     rowVars, cleanerVars
        <2>2. p \in expired
              BY <2>1 DEF DropPartition
        <2> QED BY <2>2 DEF Expired
  <1> QED BY RepositoryInvariant, <1>1, PTL DEF Spec, RetentionKept
=============================================================================
