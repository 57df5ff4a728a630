--------------------------- MODULE LatestMailbox ----------------------------
(***************************************************************************)
(* The promise behind the server's one-slot channels: a producer that      *)
(* never waits and a receiver that may be slow.  The receiver misses       *)
(* snapshots, but what it gets is in order, and whenever it has not seen   *)
(* the newest one, the newest one is what waits for it.  TelemetryPipeline *)
(* (to NATS) and StreamBridge (to each SSE client) implement it with a     *)
(* channel of capacity 1 and non-blocking sends.                           *)
(***************************************************************************)
EXTENDS Naturals

VARIABLES newest,  \* number of the last snapshot produced
          held,    \* the snapshot that waits, 0: none
          seen     \* the last snapshot received

Init == newest = 0 /\ held = 0 /\ seen = 0

\* Snapshots are numbered in the order in which they are produced; a receiver
\* that joins late finds the first numbers gone.
Put == newest' > newest /\ held' = newest' /\ UNCHANGED seen

Get == held # 0 /\ seen' = held /\ held' = 0 /\ UNCHANGED newest

Next == Put \/ Get

Spec == Init /\ [][Next]_<<newest, held, seen>>
=============================================================================
