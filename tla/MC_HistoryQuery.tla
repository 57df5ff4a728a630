--------------------------- MODULE MC_HistoryQuery --------------------------
(* A ring of two slots that wraps past its end and back to its beginning, a *)
(* database that keeps every second instant, and up to four ticks between   *)
(* the instants 1 and 7: odd stamps are stored earlier than they were       *)
(* taken, even ones as they are.  The requests leave out the bounds of the  *)
(* window or the limit, ask for windows in the past and in the future, and  *)
(* for fewer and for more points than there are.                            *)
EXTENDS HistoryQuery
MCPoint == 1 .. 7
MCLimits == 0 .. 4
MCStarts == {Nil, 0, 3}
MCEnds == {Nil, 2, 5}
=============================================================================
