-------------------------- MODULE MC_StreamBridge ---------------------------
(* Two connections, one of them with a peer that may stop reading, so that  *)
(* a call can leave, join or drain its channel while the loop deals with    *)
(* the other one, and enough broadcasts for a channel to be full, replaced  *)
(* and drained.                                                             *)
EXTENDS StreamBridge
CONSTANTS reader, stalled
MCCall == {reader, stalled}
MCStalled == {stalled}
=============================================================================
