---------------------------- MODULE HistoryQuery ----------------------------
(***************************************************************************)
(* The GetHistory RPC (internal/service/drone_service.go) for one drone:   *)
(* it asks PostgreSQL for the rows of a window of time, then the memory    *)
(* cache for the drone's ring, and merges the two into at most max_points  *)
(* points.  Ticks, resizes, flushes and purges go on between its steps.    *)
(*                                                                         *)
(* A point is its time stamp, in units of the server's clock (1 ns).  The  *)
(* database keeps Resolution units (1 us): a stored point has the last     *)
(* multiple of Resolution that is not later.  Ticks are further apart than *)
(* that.                                                                   *)
(***************************************************************************)
EXTENDS HistoryRing, FiniteSets, SequencesExt

CONSTANTS Resolution,     \* of a TIMESTAMPTZ
          Starts, Ends,   \* the times a request may carry; Nil: none
          DefaultSpan,    \* seven days
          DefaultPoints,  \* 500, used when max_points is not positive
          MaxPoints       \* 5000

ASSUME TimeAssumption ==
    /\ Point \subseteq Nat \ {0}
    /\ Resolution \in Nat \ {0}
    /\ Starts \subseteq Nat \cup {Nil} /\ Ends \subseteq Nat \cup {Nil}
    /\ DefaultSpan \in Nat
ASSUME PointsAssumption ==
    /\ 0 \in Limits
    /\ DefaultPoints \in Limits \ {0} /\ MaxPoints \in Limits \ {0}
    /\ DefaultPoints <= MaxPoints

VARIABLES
    clock,    \* the server's clock
    unsaved,  \* stored stamps of the samples on their way to the table
    table,    \* drone_history, the rows of this drone
    phase,    \* of the RPC: "idle", "rows" (in repo.GetHistory), "cache"
    start, end, limit,  \* what it asks for, after the defaults
    rows,     \* what repo.GetHistory returned
    reply     \* the history of the response

queryVars == <<phase, start, end, limit, rows, reply>>
allVars == <<vars, clock, unsaved, table, queryVars>>

Stored(t) == (t \div Resolution) * Resolution

QueryInit ==
    /\ Init
    /\ clock = 0 /\ unsaved = {} /\ table = {}
    /\ phase = "idle" /\ start = 0 /\ end = 0 /\ limit = 0
    /\ rows = <<>> /\ reply = <<>>
-----------------------------------------------------------------------------
(* What goes on beside the RPC.                                             *)

\* A tick at time p; the pipeline may have SaveBatch sample it.
Record(p) ==
    /\ p >= clock + Resolution
    /\ setLocked(p)
    /\ clock' = p
    /\ unsaved' \in {unsaved, unsaved \cup {Stored(p)}}
    /\ UNCHANGED <<table, queryVars>>

\* A resize.
Forget == Clear /\ UNCHANGED <<clock, unsaved, table, queryVars>>

\* flushBuffer inserts everything or, when the database fails, nothing.
Flush ==
    /\ unsaved # {}
    /\ unsaved' = {}
    /\ table' \in {table, table \cup unsaved}
    /\ UNCHANGED <<vars, clock, queryVars>>

\* purgeOldPartitions.
Purge ==
    /\ \E t \in table : table' = {r \in table : r > t}
    /\ UNCHANGED <<vars, clock, unsaved, queryVars>>
-----------------------------------------------------------------------------
(* DroneServer.GetHistory.                                                  *)

\* Mutant of PointLimit: the upper bound is forgotten.
PointLimit_Unbounded(n) == IF n = 0 THEN DefaultPoints ELSE n

\* The limit after its default and its upper bound.
PointLimit(n) ==
    IF n = 0 THEN DefaultPoints ELSE IF n > MaxPoints THEN MaxPoints ELSE n

\* A request is read, and the time is read for what it leaves out.
Ask(s, e, n) ==
    LET first == IF s # Nil THEN s
                 ELSE IF clock > DefaultSpan THEN clock - DefaultSpan ELSE 0
        last  == IF e # Nil THEN e ELSE clock
    IN  /\ phase = "idle"
        /\ reply' = <<>>
        /\ IF last < first  \* InvalidArgument
           THEN UNCHANGED <<phase, start, end, limit>>
           ELSE /\ phase' = "rows"
                /\ start' = first /\ end' = last /\ limit' = PointLimit(n)
        /\ UNCHANGED <<vars, clock, unsaved, table, rows>>

\* The elements of a finite set of times, in order: the i-th has i - 1 before it.
Chronological(times) ==
    [i \in 1 .. Cardinality(times) |->
        CHOOSE t \in times : Cardinality({u \in times : u < t}) = i - 1]

\* ntile(n) cuts the rows into n buckets, the first Len(s) % n of them one row
\* longer; DISTINCT ON keeps the first row of each.
FirstOfBuckets(s, n) ==
    IF Len(s) <= n THEN s
    ELSE LET longer == Len(s) % n
         IN  [j \in 1 .. n |->
                 s[(j - 1) * (Len(s) \div n)
                    + (IF j - 1 < longer THEN j - 1 ELSE longer) + 1]]

\* repo.GetHistory.  The driver stores the bounds of the window as it stores the
\* stamps.  Without a repository, or after an error, the cache must do.
QueryRows ==
    /\ phase = "rows"
    /\ LET window == {r \in table : Stored(start) <= r /\ r <= Stored(end)}
       IN  rows' \in {<<>>, FirstOfBuckets(Chronological(window), limit)}
    /\ phase' = "cache"
    /\ UNCHANGED <<vars, clock, unsaved, table, start, end, limit, reply>>

\* Mutant of SampleIndex: the last point is not reached.
SampleIndex_Short(i, lastIndex, n) == (i * lastIndex) \div n

\* Which of the points 0 .. lastIndex the i-th of n samples is.
SampleIndex(i, lastIndex, n) == (i * lastIndex) \div (n - 1)

\* The second half of mergeAndDownsample, on points with distinct times.
Downsample(s, n) ==
    IF Len(s) <= n THEN s
    ELSE IF n = 1 THEN <<s[Len(s)]>>
    ELSE [i \in 1 .. n |-> s[SampleIndex(i - 1, Len(s) - 1, n) + 1]]

\* Mutant of mergeAndDownsample: the points of the cache are put after the rows,
\* neither sorted nor compared with them.
mergeAndDownsample_Unsorted(persistent, recent, n) ==
    Downsample(Chronological(persistent) \o Chronological(recent), n)

\* Sorting by time and skipping a point with the time of the one before it
\* leaves one point for each time.
mergeAndDownsample(persistent, recent, n) ==
    Downsample(Chronological(persistent \cup recent), n)

\* The points of a track that lie in the window.
InWindow(s) == {p \in ToSet(s) : start <= p /\ p <= end}

\* Mutant of ReadCache: the cache is not asked when there are rows.
ReadCache_Fallback ==
    /\ phase = "cache"
    /\ IF rows = <<>> THEN GetHistory(limit) ELSE UNCHANGED vars
    /\ reply' = mergeAndDownsample(ToSet(rows), IF rows = <<>> THEN InWindow(answer') ELSE {}, limit)
    /\ phase' = "idle"
    /\ rows' = <<>>
    /\ UNCHANGED <<clock, unsaved, table, start, end, limit>>

\* The cache's newest points, those in the window, merged with the rows.
ReadCache ==
    /\ phase = "cache"
    /\ GetHistory(limit)
    /\ reply' = mergeAndDownsample(ToSet(rows), InWindow(answer'), limit)
    /\ phase' = "idle"
    /\ rows' = <<>>
    /\ UNCHANGED <<clock, unsaved, table, start, end, limit>>

QueryNext ==
    \/ \E p \in Point : Record(p)
    \/ Forget \/ Flush \/ Purge
    \/ \E s \in Starts, e \in Ends, n \in Limits : Ask(s, e, n)
    \/ QueryRows \/ ReadCache

QuerySpec == QueryInit /\ [][QueryNext]_allVars
-----------------------------------------------------------------------------
(* Types; a sample on its way to the table, a row and an answer never lie   *)
(* in the future.                                                           *)
QueryTypeOK ==
    /\ TypeOK
    /\ clock \in Nat /\ start \in Nat /\ end \in Nat
    /\ phase \in {"idle", "rows", "cache"}
    /\ limit \in Limits /\ limit <= MaxPoints /\ (phase # "idle" => limit > 0)
    /\ rows \in Seq(Nat) /\ reply \in Seq(Nat)
    /\ \A p \in unsaved \cup table \cup ToSet(rows) \cup ToSet(reply) :
          p \in Nat /\ p <= clock

(* What a client gets is a track: strictly later from point to point, no    *)
(* longer than it asked for, and within the window to the resolution of the *)
(* database (GetHistory, mergeAndDownsample).                               *)
AnswerInOrder ==
    /\ Len(reply) <= limit
    /\ \A i \in 1 .. Len(reply) :
          /\ Stored(start) <= reply[i] /\ reply[i] <= end
          /\ i > 1 => reply[i - 1] < reply[i]

Answers == phase = "cache" /\ phase' = "idle"

\* What the window holds when the cache is read.
Found == ToSet(rows) \cup InWindow(Window)

\* The points of the cache that are too late for the window.
TooLate == {p \in ToSet(Window) : p > end}

(* The newest point known in the window ends the answer, however many the   *)
(* limit leaves out, and the oldest row starts it unless one point was asked *)
(* for.  The one exception is a cache whose newest max_points points are all *)
(* later than the window: GetHistory cuts before it looks at the window.    *)
AnswerKeepsEnds ==
    [][Answers /\ Found # {} =>
         \/ Cardinality(TooLate) >= limit
         \/ /\ reply' # <<>>
            /\ \A p \in Found : p <= Last(reply')
            /\ limit > 1 /\ rows # <<>> => Head(reply') <= Head(rows)]_allVars

(* Nothing is left out without need: when the limit has room for the ring   *)
(* and for all that was found, the answer is all of it.                     *)
AnswerIsComplete ==
    [][Answers /\ Len(Window) <= limit /\ Cardinality(Found) <= limit =>
         ToSet(reply') = Found]_allVars
=============================================================================
