------------------------- MODULE TelemetryPipeline --------------------------
(***************************************************************************)
(* internal/service/telemetry_pipeline.go: one call of ConsumeBatch per    *)
(* simulator tick writes the snapshot to the cache, offers it to the NATS  *)
(* publisher through a one-slot queue, and hands a sample of the snapshots *)
(* to the PostgreSQL writer.  SimulationEngine guarantees the one caller   *)
(* (its OneLoop); publishLoop runs beside it.  Snapshots are numbered in   *)
(* the order in which they are produced.                                   *)
(***************************************************************************)
EXTENDS Naturals

CONSTANTS Publisher,       \* what main passes: "connected", or "nil pointer",
                           \* the *NATSService of a failed connection, which
                           \* makes an interface that is not nil
          SampleInterval,  \* HISTORY_SAMPLE_INTERVAL
          Steps,           \* time between two ticks
          MaxTicks         \* bound: snapshots produced in one behaviour

ASSUME PublisherAssumption == Publisher \in {"connected", "nil pointer"}
ASSUME NumberAssumption ==
    /\ SampleInterval \in Nat /\ MaxTicks \in Nat
    /\ Steps \subseteq Nat \ {0}

VARIABLES
    \* the pipeline
    cached,        \* the snapshot SetBatch wrote last
    publishQueue,  \* the snapshot in the one-slot channel, 0: empty
    droppedNATS,   \* the two counters of /healthz
    droppedDB,
    lastSample,    \* time stamp of the last snapshot offered to the writer, 0: none
    stop,          \* is the stop channel closed?
    \* ConsumeBatch
    pc, batch, now,     \* where it is, the snapshot it handles, its time stamp
    \* publishLoop
    loop, taken,        \* where it is, the snapshot it took last
    \* what became of the snapshots, for the properties
    published, failed,
    main,          \* the caller of Close: "running", "closing" (in Close), "closed"
    crashed        \* did a goroutine panic?

vars == <<cached, publishQueue, droppedNATS, droppedDB, lastSample, stop, pc,
          batch, now, loop, taken, published, failed, main, crashed>>

Init ==
    /\ cached = 0 /\ publishQueue = 0
    /\ droppedNATS = 0 /\ droppedDB = 0 /\ lastSample = 0
    /\ stop = FALSE
    /\ pc = "idle" /\ batch = 0 /\ now = 0
    /\ loop = "select" /\ taken = 0
    /\ published = 0 /\ failed = 0
    /\ main = "running" /\ crashed = FALSE
-----------------------------------------------------------------------------
(* ConsumeBatch, on the goroutine of the tick loop.  A snapshot is never    *)
(* empty: a population has at least one drone.                              *)

\* A tick: SetBatch.
Store ==
    /\ ~crashed /\ pc = "idle"
    /\ batch < MaxTicks
    /\ batch' = batch + 1
    /\ \E step \in Steps : now' = now + step
    /\ cached' = batch + 1
    /\ pc' = "send"
    /\ UNCHANGED <<publishQueue, droppedNATS, droppedDB, lastSample, stop, loop,
                   taken, published, failed, main, crashed>>

\* The first select: the queue takes the snapshot if it has room.
Send ==
    /\ ~crashed /\ pc = "send"
    /\ IF publishQueue = 0
       THEN publishQueue' = batch /\ pc' = "sample"
       ELSE UNCHANGED publishQueue /\ pc' = "evict"
    /\ UNCHANGED <<cached, droppedNATS, droppedDB, lastSample, stop, batch, now,
                   loop, taken, published, failed, main, crashed>>

\* Mutant of Evict: the receive from the queue is not counted.
Evict_Uncounted ==
    /\ ~crashed /\ pc = "evict"
    /\ publishQueue' = 0
    /\ pc' = "resend"
    /\ UNCHANGED <<cached, droppedNATS, droppedDB, lastSample, stop, batch, now,
                   loop, taken, published, failed, main, crashed>>

\* The second: throw the waiting snapshot away, unless publishLoop has just
\* taken it.
Evict ==
    /\ ~crashed /\ pc = "evict"
    /\ publishQueue' = 0
    /\ droppedNATS' = IF publishQueue = 0 THEN droppedNATS ELSE droppedNATS + 1
    /\ pc' = "resend"
    /\ UNCHANGED <<cached, droppedDB, lastSample, stop, batch, now, loop, taken,
                   published, failed, main, crashed>>

\* Mutant of Resend: the new snapshot is given up, not the one that waited.
Resend_GiveUp ==
    /\ ~crashed /\ pc = "resend"
    /\ droppedNATS' = droppedNATS + 1
    /\ pc' = "sample"
    /\ UNCHANGED <<cached, publishQueue, droppedDB, lastSample, stop, batch, now,
                   loop, taken, published, failed, main, crashed>>

\* The third: one more try, which gives the snapshot up if it fails.
Resend ==
    /\ ~crashed /\ pc = "resend"
    /\ IF publishQueue = 0
       THEN publishQueue' = batch /\ UNCHANGED droppedNATS
       ELSE UNCHANGED publishQueue /\ droppedNATS' = droppedNATS + 1
    /\ pc' = "sample"
    /\ UNCHANGED <<cached, droppedDB, lastSample, stop, batch, now, loop, taken,
                   published, failed, main, crashed>>

\* Mutant of Sample: it remembers when the next sample is due.
Sample_Due ==
    /\ ~crashed /\ pc = "sample"
    /\ IF lastSample = 0 \/ now - lastSample >= SampleInterval
       THEN /\ lastSample' = now + SampleInterval
            /\ \E dropped \in 0 .. 1 : droppedDB' = droppedDB + dropped
       ELSE UNCHANGED <<lastSample, droppedDB>>
    /\ pc' = "idle"
    /\ UNCHANGED <<cached, publishQueue, droppedNATS, stop, batch, now, loop, taken,
                   published, failed, main, crashed>>

\* SaveBatch takes the points its own queue has room for; here the outcome is
\* whether it dropped any.
Sample ==
    /\ ~crashed /\ pc = "sample"
    /\ IF lastSample = 0 \/ now - lastSample >= SampleInterval
       THEN /\ lastSample' = now
            /\ \E dropped \in 0 .. 1 : droppedDB' = droppedDB + dropped
       ELSE UNCHANGED <<lastSample, droppedDB>>
    /\ pc' = "idle"
    /\ UNCHANGED <<cached, publishQueue, droppedNATS, stop, batch, now, loop, taken,
                   published, failed, main, crashed>>

ConsumeBatch == Store \/ Send \/ Evict \/ Resend \/ Sample
-----------------------------------------------------------------------------
(* publishLoop.                                                             *)

Take ==
    /\ ~crashed /\ loop = "select" /\ publishQueue # 0
    /\ taken' = publishQueue
    /\ publishQueue' = 0
    /\ loop' = "publish"
    /\ UNCHANGED <<cached, droppedNATS, droppedDB, lastSample, stop, pc, batch, now,
                   published, failed, main, crashed>>

\* PublishBatch returns, perhaps with an error, or dereferences the nil pointer
\* it was called on.
Publish ==
    /\ ~crashed /\ loop = "publish"
    /\ IF Publisher = "nil pointer"
       THEN crashed' = TRUE /\ UNCHANGED <<published, failed>>
       ELSE \E errors \in 0 .. 1 :
                /\ published' = published + (1 - errors)
                /\ failed' = failed + errors
                /\ UNCHANGED crashed
    /\ loop' = "select"
    /\ UNCHANGED <<cached, publishQueue, droppedNATS, droppedDB, lastSample, stop,
                   pc, batch, now, taken, main>>

\* select chooses freely between a closed stop channel and a full queue.
SeeStop ==
    /\ ~crashed /\ loop = "select" /\ stop
    /\ loop' = "done"
    /\ UNCHANGED <<cached, publishQueue, droppedNATS, droppedDB, lastSample, stop,
                   pc, batch, now, taken, published, failed, main, crashed>>

publishLoop == Take \/ Publish \/ SeeStop
-----------------------------------------------------------------------------
(* Close.  Nothing in it waits for ConsumeBatch: that the engine has stopped *)
(* before is main's part, in ServerMain.                                    *)

Close ==
    /\ ~crashed /\ main = "running"
    /\ stop' = TRUE
    /\ main' = "closing"
    /\ UNCHANGED <<cached, publishQueue, droppedNATS, droppedDB, lastSample, pc,
                   batch, now, loop, taken, published, failed, crashed>>

CloseWait ==
    /\ ~crashed /\ main = "closing" /\ loop = "done"
    /\ main' = "closed"
    /\ UNCHANGED <<cached, publishQueue, droppedNATS, droppedDB, lastSample, stop, pc,
                   batch, now, loop, taken, published, failed, crashed>>

Next == ConsumeBatch \/ publishLoop \/ Close \/ CloseWait

Spec == Init /\ [][Next]_vars
-----------------------------------------------------------------------------
Number == 0 .. MaxTicks

(* Types; and the last sample is never younger than the snapshot in hand,   *)
(* so that the age ConsumeBatch compares with the interval is a duration.   *)
TypeOK ==
    /\ lastSample <= now
    /\ cached \in Number /\ publishQueue \in Number /\ batch \in Number
    /\ taken \in Number
    /\ droppedNATS \in Nat /\ droppedDB \in Nat
    /\ published \in Nat /\ failed \in Nat
    /\ lastSample \in Nat /\ now \in Nat
    /\ stop \in BOOLEAN /\ crashed \in BOOLEAN
    /\ pc \in {"idle", "send", "evict", "resend", "sample"}
    /\ loop \in {"select", "publish", "done"}
    /\ main \in {"running", "closing", "closed"}

Count(condition) == IF condition THEN 1 ELSE 0

(* The books balance at every moment: a snapshot that entered the pipeline  *)
(* was published, failed in PublishBatch, is counted as dropped, waits in   *)
(* the queue, is being published, or has not been offered yet.              *)
EverySnapshotAccounted ==
    ~crashed =>
        batch = published + failed + droppedNATS
                  + Count(publishQueue # 0) + Count(loop = "publish")
                  + Count(pc \in {"send", "evict", "resend"})

(* The second drop of ConsumeBatch never happens: the only receiver cannot  *)
(* fill the queue, so what is given up is always an older snapshot.         *)
NewestNeverDropped == pc = "resend" => publishQueue = 0

\* The queue as LatestMailbox sees it.  A snapshot counts as produced when the
\* first select put it in the queue or the second made room for it.
Offered == pc \in {"resend", "sample", "idle"}
newest == IF Offered THEN batch ELSE batch - 1
held == IF pc = "resend" THEN batch ELSE publishQueue

Mailbox == INSTANCE LatestMailbox WITH seen <- taken

(* The three selects of ConsumeBatch and publishLoop implement the latest-  *)
(* wins mailbox: snapshots reach NATS in order, and when the publisher has  *)
(* not taken the newest one, the newest one is in the queue for it.         *)
ImplementsMailbox == Mailbox!Spec

(* The server keeps running: main logs a failed connection to NATS and goes *)
(* on "in local memory pubsub mode".                                        *)
KeepsRunning == ~crashed
=============================================================================
