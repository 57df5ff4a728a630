--------------------------- MODULE BoundedHistory ---------------------------
(***************************************************************************)
(* What internal/memory promises about the track of one drone: the last    *)
(* Capacity points recorded since the cache was last cleared, oldest       *)
(* first, whatever number of points was recorded before them.  HistoryRing *)
(* implements this with a fixed array and two indices.                     *)
(***************************************************************************)
EXTENDS Naturals, Sequences

CONSTANTS Point,     \* the telemetry points a simulator tick may record
          Capacity,  \* MEMORY_HISTORY_POINTS
          Limits     \* the max_points arguments a history query may carry

VARIABLES window,    \* the points the cache still remembers
          answer     \* the points the last history query returned

\* The newest n elements of s; a limit of 0 asks for everything.
Newest(s, n) ==
    IF n > 0 /\ Len(s) > n THEN SubSeq(s, Len(s) - n + 1, Len(s)) ELSE s

Init == window = <<>> /\ answer = <<>>

Record(p) ==
    /\ window' = Append(IF Len(window) < Capacity THEN window ELSE Tail(window), p)
    /\ UNCHANGED answer

Forget == window' = <<>> /\ UNCHANGED answer

Query(n) == answer' = Newest(window, n) /\ UNCHANGED window

Next == \/ \E p \in Point : Record(p)
        \/ Forget
        \/ \E n \in Limits : Query(n)

Spec == Init /\ [][Next]_<<window, answer>>
=============================================================================
