------------------------- MODULE PostgresRepository -------------------------
(***************************************************************************)
(* internal/repository/postgres.go: SaveBatch puts the rows of a sampled   *)
(* snapshot into a bounded queue; batchWorker collects them in a buffer    *)
(* and inserts the buffer when it is full, every 250 ms, and on Close;     *)
(* retentionCleaner prepares the daily partitions of drone_history and     *)
(* drops the old ones.  A row is the day of its time stamp.  The process   *)
(* may be killed and started again; the partitions are what is left then.  *)
(***************************************************************************)
EXTENDS Integers, SequencesExt

CONSTANTS BatchSize,      \* BATCH_SIZE
          QueueSize,      \* capacity of batchChan, 4 * BATCH_SIZE in the code
          RetentionDays,  \* RETENTION_DAYS
          MaxSnapshot,    \* bound: rows of one snapshot
          MaxRows,        \* bound: rows saved in one life of the process
          MaxDay          \* bound: days that pass

ASSUME SizeAssumption ==
    /\ BatchSize \in Nat \ {0} /\ QueueSize \in Nat \ {0}
    /\ RetentionDays \in Nat \ {0}
    /\ MaxSnapshot \in Nat /\ MaxRows \in Nat /\ MaxDay \in Nat

DaysAhead == 3  \* ensurePartitions prepares today and the next three days

VARIABLES
    day,         \* the date, in UTC
    partitions,  \* the days that have a partition
    ensured,     \* day of the last ensurePartitions that succeeded, -1: none
    main,        \* "down", "starting" (in NewPostgresRepository), "offline"
                 \* (which failed), "serving", "closing", "closed"
    stopped,     \* is stopChan closed?
    \* SaveBatch
    pending,     \* rows of the snapshot it still has to offer
    stamp,       \* their day, 0 when there are none
    batchChan,   \* the rows queued
    \* batchWorker
    worker,      \* "select", "drain", "last" (its last flush), "done"
    buffer,      \* the rows collected
    flushing,    \* is it in flushBuffer?
    \* retentionCleaner, and initSchema before it
    cleaner,     \* "select", "ensure", "purge", "done"
    today,       \* the day its round reads from the clock, 0 between rounds
    ahead,       \* the next partition ensurePartitions has to create
    expired,     \* the partitions purgeOldPartitions has still to drop
    \* what became of the rows, for the properties
    saved, dropped, inserted, failed

rowVars == <<pending, stamp, batchChan, worker, buffer, flushing,
             saved, dropped, inserted, failed>>
cleanerVars == <<partitions, ensured, cleaner, today, ahead, expired>>
vars == <<day, main, stopped, rowVars, cleanerVars>>

Init ==
    /\ day = 0 /\ partitions = {} /\ ensured = -1
    /\ main = "down" /\ stopped = FALSE
    /\ pending = 0 /\ stamp = 0 /\ batchChan = <<>>
    /\ worker = "done" /\ buffer = <<>> /\ flushing = FALSE
    /\ cleaner = "done" /\ today = 0 /\ ahead = 0 /\ expired = {}
    /\ saved = 0 /\ dropped = 0 /\ inserted = 0 /\ failed = 0
-----------------------------------------------------------------------------
(* The process.                                                             *)

\* NewPostgresRepository, up to initSchema: ensurePartitions comes next.
Start ==
    /\ main \in {"down", "closed", "offline"}
    /\ main' = "starting" /\ stopped' = FALSE
    /\ cleaner' = "ensure" /\ today' = day /\ ahead' = 0
    /\ saved' = 0 /\ dropped' = 0 /\ inserted' = 0 /\ failed' = 0
    /\ UNCHANGED <<day, partitions, ensured, expired, pending, stamp, batchChan,
                   worker, buffer, flushing>>

\* The process is killed: queue and buffer are gone.
Kill ==
    /\ main \in {"starting", "serving", "closing"}
    /\ main' = "down"
    /\ pending' = 0 /\ stamp' = 0
    /\ batchChan' = <<>> /\ buffer' = <<>> /\ flushing' = FALSE
    /\ worker' = "done" /\ cleaner' = "done"
    /\ today' = 0 /\ ahead' = 0 /\ expired' = {}
    /\ saved' = 0 /\ dropped' = 0 /\ inserted' = 0 /\ failed' = 0
    /\ stopped' = FALSE
    /\ UNCHANGED <<day, partitions, ensured>>

InHand == ToSet(batchChan) \cup ToSet(buffer)
          \cup (IF pending > 0 THEN {stamp} ELSE {})

\* Midnight.  A day is longer than the rows in hand, or a round of the cleaner
\* with its time limits of 10 and 30 seconds, need.
NextDay ==
    /\ day < MaxDay
    /\ \A row \in InHand : row = day
    /\ cleaner \in {"ensure", "purge"} => today = day
    /\ day' = day + 1
    /\ UNCHANGED <<main, stopped, rowVars, cleanerVars>>
-----------------------------------------------------------------------------
(* SaveBatch, called by the telemetry pipeline on the tick loop.            *)

SaveBatch ==
    /\ main = "serving" /\ pending = 0
    /\ \E rows \in 1 .. MaxSnapshot :
          /\ saved + rows <= MaxRows
          /\ pending' = rows /\ saved' = saved + rows
    /\ stamp' = day
    /\ UNCHANGED <<day, main, stopped, batchChan, worker, buffer, flushing,
                   dropped, inserted, failed, cleanerVars>>

\* One turn of its loop: a full queue drops the row.
Offer ==
    /\ pending > 0
    /\ pending' = pending - 1
    /\ IF Len(batchChan) < QueueSize
       THEN batchChan' = Append(batchChan, stamp) /\ UNCHANGED dropped
       ELSE dropped' = dropped + 1 /\ UNCHANGED batchChan
    /\ stamp' = IF pending = 1 THEN 0 ELSE stamp
    /\ UNCHANGED <<day, main, stopped, worker, buffer, flushing, saved,
                   inserted, failed, cleanerVars>>
-----------------------------------------------------------------------------
(* batchWorker.                                                             *)

\* Mutant of Collect: it flushes once the buffer is larger than a batch.
Collect_OneMore ==
    /\ worker \in {"select", "drain"} /\ ~flushing
    /\ batchChan # <<>>
    /\ buffer' = Append(buffer, Head(batchChan))
    /\ batchChan' = Tail(batchChan)
    /\ flushing' = (Len(buffer) + 1 > BatchSize)
    /\ UNCHANGED <<day, main, stopped, pending, stamp, worker, saved, dropped,
                   inserted, failed, cleanerVars>>

\* It takes a row, while it serves or drains, and flushes a full buffer.
Collect ==
    /\ worker \in {"select", "drain"} /\ ~flushing
    /\ batchChan # <<>>
    /\ buffer' = Append(buffer, Head(batchChan))
    /\ batchChan' = Tail(batchChan)
    /\ flushing' = (Len(buffer) + 1 >= BatchSize)
    /\ UNCHANGED <<day, main, stopped, pending, stamp, worker, saved, dropped,
                   inserted, failed, cleanerVars>>

\* The ticker of flushInterval.
FlushTick ==
    /\ worker = "select" /\ ~flushing /\ buffer # <<>>
    /\ flushing' = TRUE
    /\ UNCHANGED <<day, main, stopped, pending, stamp, batchChan, worker, buffer,
                   saved, dropped, inserted, failed, cleanerVars>>

\* stopChan is closed: drain the queue.
SeeStop ==
    /\ worker = "select" /\ ~flushing /\ stopped
    /\ worker' = "drain"
    /\ UNCHANGED <<day, main, stopped, pending, stamp, batchChan, buffer, flushing,
                   saved, dropped, inserted, failed, cleanerVars>>

\* The queue is empty: one last flush, of nothing perhaps.
Drained ==
    /\ worker = "drain" /\ ~flushing /\ batchChan = <<>>
    /\ worker' = "last"
    /\ flushing' = TRUE
    /\ UNCHANGED <<day, main, stopped, pending, stamp, batchChan, buffer,
                   saved, dropped, inserted, failed, cleanerVars>>

\* Mutant of flushBuffer: the buffer is not emptied.
flushBuffer_Keep ==
    /\ flushing
    /\ \/ /\ ToSet(buffer) \subseteq partitions
          /\ inserted' = inserted + Len(buffer)
          /\ UNCHANGED failed
       \/ /\ buffer # <<>>
          /\ failed' = failed + Len(buffer)
          /\ UNCHANGED inserted
    /\ flushing' = FALSE
    /\ worker' = IF worker = "last" THEN "done" ELSE worker
    /\ UNCHANGED <<day, main, stopped, pending, stamp, batchChan, buffer, saved,
                   dropped, cleanerVars>>

\* One INSERT of the whole buffer: all of it, if every row has a partition and
\* the database answers in time, or an error that is only logged.  An empty
\* buffer returns at once.
flushBuffer ==
    /\ flushing
    /\ \/ /\ ToSet(buffer) \subseteq partitions
          /\ inserted' = inserted + Len(buffer)
          /\ UNCHANGED failed
       \/ /\ buffer # <<>>
          /\ failed' = failed + Len(buffer)
          /\ UNCHANGED inserted
    /\ buffer' = <<>>
    /\ flushing' = FALSE
    /\ worker' = IF worker = "last" THEN "done" ELSE worker
    /\ UNCHANGED <<day, main, stopped, pending, stamp, batchChan, saved, dropped,
                   cleanerVars>>

batchWorker == Collect \/ FlushTick \/ SeeStop \/ Drained \/ flushBuffer
-----------------------------------------------------------------------------
(* retentionCleaner; ensurePartitions also runs in NewPostgresRepository.   *)

MaintenanceTick ==
    /\ cleaner = "select"
    /\ cleaner' = "ensure" /\ today' = day /\ ahead' = 0
    /\ UNCHANGED <<day, main, stopped, rowVars, partitions, ensured, expired>>

\* What follows ensurePartitions: the workers start, or the old partitions are
\* looked for.
AfterEnsure ==
    /\ today' = 0 /\ ahead' = 0
    /\ IF main = "starting"
       THEN main' = "serving" /\ worker' = "select" /\ cleaner' = "select"
       ELSE cleaner' = "list" /\ UNCHANGED <<main, worker>>

\* Mutant of CreatePartition: the last of the days is left out.
CreatePartition_OneShort ==
    /\ cleaner = "ensure"
    /\ partitions' = partitions \cup {today + ahead}
    /\ IF ahead + 1 = DaysAhead
       THEN ensured' = today /\ AfterEnsure
       ELSE ahead' = ahead + 1 /\ UNCHANGED <<ensured, main, worker, cleaner, today>>
    /\ UNCHANGED <<day, stopped, expired, pending, stamp, batchChan, buffer,
                   flushing, saved, dropped, inserted, failed>>

\* One turn of the loop of ensurePartitions.
CreatePartition ==
    /\ cleaner = "ensure"
    /\ partitions' = partitions \cup {today + ahead}
    /\ IF ahead = DaysAhead
       THEN ensured' = today /\ AfterEnsure
       ELSE ahead' = ahead + 1 /\ UNCHANGED <<ensured, main, worker, cleaner, today>>
    /\ UNCHANGED <<day, stopped, expired, pending, stamp, batchChan, buffer,
                   flushing, saved, dropped, inserted, failed>>

\* Its first error ends it.  In NewPostgresRepository main then goes on without
\* a repository; the cleaner logs it and goes on.
CreateFails ==
    /\ cleaner = "ensure"
    /\ IF main = "starting"
       THEN main' = "offline" /\ cleaner' = "done"
       ELSE cleaner' = "list" /\ UNCHANGED main
    /\ today' = 0 /\ ahead' = 0
    /\ UNCHANGED <<day, stopped, partitions, ensured, expired, rowVars>>

\* Mutant of ListPartitions: the first day to keep is dropped as well.
ListPartitions_Inclusive ==
    /\ cleaner = "list"
    /\ today' = day
    /\ cleaner' = "purge"
    /\ expired' = {p \in partitions : p <= day - RetentionDays}
    /\ UNCHANGED <<day, main, stopped, partitions, ensured, ahead, rowVars>>

\* purgeOldPartitions: the cutoff, and the query of the partitions, which fails
\* or shows the expired ones.
ListPartitions ==
    /\ cleaner = "list"
    /\ \/ cleaner' = "select" /\ UNCHANGED <<today, expired>>
       \/ /\ cleaner' = "purge" /\ today' = day
          /\ expired' = {p \in partitions : p < day - RetentionDays}
    /\ UNCHANGED <<day, main, stopped, partitions, ensured, ahead, rowVars>>

\* A failed DROP TABLE leaves the partition to the next round.
DropPartition ==
    /\ cleaner = "purge"
    /\ \E p \in expired :
          /\ expired' = expired \ {p}
          /\ partitions' \in {partitions, partitions \ {p}}
    /\ UNCHANGED <<day, main, stopped, ensured, cleaner, today, ahead, rowVars>>

\* No more rows, or no more time.
PurgeEnds ==
    /\ cleaner = "purge"
    /\ cleaner' = "select" /\ today' = 0 /\ expired' = {}
    /\ UNCHANGED <<day, main, stopped, partitions, ensured, ahead, rowVars>>

CleanerStops ==
    /\ cleaner = "select" /\ stopped
    /\ cleaner' = "done"
    /\ UNCHANGED <<day, main, stopped, partitions, ensured, today, ahead, expired,
                   rowVars>>

retentionRound == CreatePartition \/ CreateFails \/ ListPartitions
                  \/ DropPartition \/ PurgeEnds
-----------------------------------------------------------------------------
(* Close, deferred by main so that it runs after the engine has stopped and *)
(* its last call of SaveBatch has returned.                                 *)

\* Mutant of Close: it waits before it closes the channel.
Close_NoSignal ==
    /\ main = "serving" /\ pending = 0
    /\ main' = "closing"
    /\ UNCHANGED <<day, stopped, rowVars, cleanerVars>>

Close ==
    /\ main = "serving" /\ pending = 0
    /\ main' = "closing" /\ stopped' = TRUE
    /\ UNCHANGED <<day, rowVars, cleanerVars>>

CloseWait ==
    /\ main = "closing" /\ worker = "done" /\ cleaner = "done"
    /\ main' = "closed"
    /\ UNCHANGED <<day, stopped, rowVars, cleanerVars>>

Next == \/ Start \/ Kill \/ NextDay
        \/ SaveBatch \/ Offer \/ batchWorker
        \/ MaintenanceTick \/ retentionRound \/ CleanerStops
        \/ Close \/ CloseWait

\* The goroutines are scheduled, and the database calls end: each has a time
\* limit.  select does not ignore a closed channel for ever in favour of a tick.
Spec == /\ Init /\ [][Next]_vars
        /\ WF_vars(Offer) /\ WF_vars(batchWorker) /\ WF_vars(retentionRound)
        /\ SF_vars(CleanerStops) /\ WF_vars(CloseWait)
-----------------------------------------------------------------------------
Day == 0 .. MaxDay

(* Types; no flush is larger than BatchSize, which keeps an INSERT below    *)
(* the parameter limit of the database, and nobody is in flushBuffer who    *)
(* has stopped.                                                             *)
TypeOK ==
    /\ day \in Day /\ stamp \in Day /\ today \in Day
    /\ partitions \subseteq 0 .. MaxDay + DaysAhead
    /\ expired \subseteq 0 .. MaxDay + DaysAhead
    /\ ensured \in Day \cup {-1} /\ ahead \in 0 .. DaysAhead
    /\ main \in {"down", "starting", "offline", "serving", "closing", "closed"}
    /\ worker \in {"select", "drain", "last", "done"}
    /\ cleaner \in {"select", "ensure", "list", "purge", "done"}
    /\ stopped \in BOOLEAN /\ flushing \in BOOLEAN
    /\ batchChan \in Seq(Day) /\ Len(batchChan) <= QueueSize
    /\ buffer \in Seq(Day) /\ Len(buffer) <= BatchSize
    /\ flushing => worker # "done"
    /\ pending \in Nat
    /\ saved \in Nat /\ dropped \in Nat /\ inserted \in Nat /\ failed \in Nat

(* Every row of a snapshot was dropped by a full queue, inserted once, was  *)
(* in a flush that failed, or is still in hand; and when Close has returned *)
(* nothing is in hand.                                                      *)
RowsAccounted ==
    /\ saved = pending + Len(batchChan) + Len(buffer) + dropped + inserted + failed
    /\ main = "closed" => saved = dropped + inserted + failed

(* A row finds its partition for as long as ensurePartitions has succeeded  *)
(* within the last three days, however the rounds of the cleaner, midnight, *)
(* failures and restarts fall: the cleaner never drops the partition of a   *)
(* row that is still queued.                                                *)
RowsHavePartition ==
    ensured # -1 =>
        \A row \in InHand : ensured <= row /\ row <= ensured + DaysAhead
                                => row \in partitions

(* What is dropped is older than RETENTION_DAYS, even when the cutoff was   *)
(* read before midnight and the partition is dropped after it.              *)
RetentionKept ==
    [][\A p \in partitions : p \notin partitions' => p < day - RetentionDays]_vars

(* Close returns, unless the process is killed: the worker drains the queue *)
(* and the cleaner ends its round.                                          *)
CloseReturns == main = "closing" ~> main # "closing"
=============================================================================
