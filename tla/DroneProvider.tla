--------------------------- MODULE DroneProvider ----------------------------
(***************************************************************************)
(* app/lib/providers/drone_provider.dart: the dashboard's connection to    *)
(* the server the user configured, and the history of the drone selected.  *)
(* All code runs on one isolate: a handler is atomic up to its next await. *)
(* connectionGeneration tells the stream of the configured server from     *)
(* those before it; a stream is known here by the generation it was opened *)
(* for, since a generation opens its next stream after the last one ended. *)
(*                                                                         *)
(* A stream comes from an async* function, SseClient.connect.  Cancelling  *)
(* it ends that function only where it yields; one that awaits a response  *)
(* or a line goes on until its next yield, and so does the future of       *)
(* cancel().                                                               *)
(***************************************************************************)
EXTENDS Naturals

CONSTANTS Servers,         \* the URLs the user configures
          Stalled,         \* those that may fall silent without closing
          Drones,
          None,            \* no URL, no drone
          MaxGeneration    \* bound: calls of configureBaseUrl

ASSUME ServerAssumption == Stalled \subseteq Servers /\ None \notin Servers \cup Drones
ASSUME GenerationAssumption == MaxGeneration \in Nat

Generation == 1 .. MaxGeneration

VARIABLES
    baseUrl,
    connectionGeneration,
    connectionState,     \* "disconnected", "connecting", "connected", "stale"
    disposed,
    streamSubscription,  \* the stream it holds: its generation, 0: none
    stream,              \* per generation: "none", "await" (a response or a
                         \* line), "yield" (an event is being parsed),
                         \* "cancelled" (in an await), "ended"
    source,              \* the server a stream was opened to
    restarting,          \* per generation, the stream whose end its call of
                         \* restartStream awaits, 0: none, Idle: no call
    reconnectTimer,      \* the generation it will restart, 0: not set
    targetDrones,        \* the server whose snapshot is shown
    selectedDroneId,
    historyTrajectory,   \* the drone whose history is shown
    historyRequest       \* the drone being loaded: isLoadingHistory

connection == <<baseUrl, connectionGeneration, disposed>>
streams == <<streamSubscription, stream, source, restarting, reconnectTimer>>
history == <<selectedDroneId, historyTrajectory, historyRequest>>
vars == <<connection, connectionState, streams, targetDrones, history>>

Idle == MaxGeneration + 1

Init ==
    /\ baseUrl = None /\ connectionGeneration = 0
    /\ connectionState = "disconnected" /\ disposed = FALSE
    /\ streamSubscription = 0 /\ reconnectTimer = 0
    /\ stream = [g \in Generation |-> "none"]
    /\ source = [g \in Generation |-> None]
    /\ restarting = [g \in Generation |-> Idle]
    /\ targetDrones = None
    /\ selectedDroneId = None /\ historyTrajectory = None /\ historyRequest = None
-----------------------------------------------------------------------------
(* The connection.                                                          *)

\* cancel() of the subscription it holds.
Cancelled ==
    [g \in Generation |->
        IF g # streamSubscription \/ stream[g] \notin {"await", "yield"} THEN stream[g]
        ELSE IF stream[g] = "await" THEN "cancelled" ELSE "ended"]

\* restartStream up to its await.
RestartStream(g) ==
    /\ reconnectTimer' = 0
    /\ stream' = Cancelled
    /\ restarting' = [restarting EXCEPT ![g] = streamSubscription]

\* Mutant of configureBaseUrl: what the old server sent stays on the map.
configureBaseUrl_Keep(url) ==
    /\ ~disposed /\ url # baseUrl
    /\ connectionGeneration < MaxGeneration
    /\ baseUrl' = url
    /\ connectionGeneration' = connectionGeneration + 1
    /\ connectionState' = "disconnected"
    /\ historyTrajectory' = None
    /\ RestartStream(connectionGeneration + 1)
    /\ UNCHANGED <<disposed, streamSubscription, source, targetDrones,
                   selectedDroneId, historyRequest>>

\* The user's Connect or Reset: clearTelemetry, then restartStream.
configureBaseUrl(url) ==
    /\ ~disposed /\ url # baseUrl
    /\ connectionGeneration < MaxGeneration
    /\ baseUrl' = url
    /\ connectionGeneration' = connectionGeneration + 1
    /\ targetDrones' = None /\ historyTrajectory' = None
    /\ connectionState' = "disconnected"
    /\ RestartStream(connectionGeneration + 1)
    /\ UNCHANGED <<disposed, streamSubscription, source, selectedDroneId,
                   historyRequest>>

Ended(g) == g = 0 \/ (g \in Generation /\ stream[g] = "ended")

\* Mutant of Resume: the generation is not checked after the await.
Resume_Unchecked(g) ==
    /\ restarting[g] # Idle /\ Ended(restarting[g])
    /\ restarting' = [restarting EXCEPT ![g] = Idle]
    /\ IF disposed \/ baseUrl = None
       THEN UNCHANGED <<connectionState, streamSubscription, stream, source>>
       ELSE /\ connectionState' = "connecting"
            /\ streamSubscription' = g
            /\ stream' = [stream EXCEPT ![g] = "await"]
            /\ source' = [source EXCEPT ![g] = baseUrl]
    /\ UNCHANGED <<connection, reconnectTimer, targetDrones, history>>

\* restartStream after its await, when the cancelled stream has ended.
Resume(g) ==
    /\ restarting[g] # Idle /\ Ended(restarting[g])
    /\ restarting' = [restarting EXCEPT ![g] = Idle]
    /\ IF disposed \/ g # connectionGeneration \/ baseUrl = None
       THEN UNCHANGED <<connectionState, streamSubscription, stream, source>>
       ELSE /\ connectionState' = "connecting"
            /\ streamSubscription' = g
            /\ stream' = [stream EXCEPT ![g] = "await"]
            /\ source' = [source EXCEPT ![g] = baseUrl]
    /\ UNCHANGED <<connection, reconnectTimer, targetDrones, history>>

\* Mutant of StreamFailure: the failure is shown but nothing is scheduled.
StreamFailure_NoTimer(g) ==
    IF g = connectionGeneration
    THEN connectionState' = "disconnected" /\ UNCHANGED reconnectTimer
    ELSE UNCHANGED <<connectionState, reconnectTimer>>

\* onError and onDone of the stream of generation g.
StreamFailure(g) ==
    IF g = connectionGeneration
    THEN connectionState' = "disconnected" /\ reconnectTimer' = g
    ELSE UNCHANGED <<connectionState, reconnectTimer>>

\* A whole SSE event: asyncMap pauses the function at its yield and parses.  If
\* the stream was cancelled the yield ends it.
Arrive(g) ==
    /\ stream[g] \in {"await", "cancelled"}
    /\ stream' = [stream EXCEPT
                     ![g] = IF stream[g] = "await" THEN "yield" ELSE "ended"]
    /\ UNCHANGED <<connection, connectionState, streamSubscription, source,
                   restarting, reconnectTimer, targetDrones, history>>

\* The event is parsed: a snapshot, shown if the generation is still the one
\* configured; a part of one, kept by the assembler; or an error, which cancels
\* the stream.
Parsed(g) ==
    /\ stream[g] = "yield"
    /\ \/ /\ stream' = [stream EXCEPT ![g] = "await"]
          /\ \/ UNCHANGED <<targetDrones, connectionState>>
             \/ IF g = connectionGeneration
                THEN targetDrones' = source[g] /\ connectionState' = "connected"
                ELSE UNCHANGED <<targetDrones, connectionState>>
          /\ UNCHANGED reconnectTimer
       \/ /\ stream' = [stream EXCEPT ![g] = "ended"]
          /\ StreamFailure(g)
          /\ UNCHANGED targetDrones
    /\ UNCHANGED <<connection, streamSubscription, source, restarting, history>>

\* The server refuses the request or closes the stream, or the network does.
Break(g) ==
    /\ stream[g] \in {"await", "cancelled"}
    /\ stream' = [stream EXCEPT ![g] = "ended"]
    /\ IF stream[g] = "await"
       THEN StreamFailure(g)
       ELSE UNCHANGED <<connectionState, reconnectTimer>>
    /\ UNCHANGED <<connection, streamSubscription, source, restarting,
                   targetDrones, history>>

\* The reconnect timer, whatever its delay.
Reconnect ==
    /\ reconnectTimer # 0
    /\ RestartStream(reconnectTimer)
    /\ UNCHANGED <<connection, connectionState, streamSubscription, source,
                   targetDrones, history>>

\* The metrics timer: no snapshot for two seconds.
GoStale ==
    /\ ~disposed /\ connectionState = "connected"
    /\ connectionState' = "stale"
    /\ UNCHANGED <<connection, streams, targetDrones, history>>

\* Mutant of Dispose: the reconnect timer is left running.
Dispose_KeepsTimer ==
    /\ ~disposed
    /\ disposed' = TRUE
    /\ connectionGeneration' = connectionGeneration + 1
    /\ stream' = Cancelled
    /\ UNCHANGED <<baseUrl, connectionState, streamSubscription, source, restarting,
                   reconnectTimer, targetDrones, history>>

\* dispose; closing the client breaks what is still open.
Dispose ==
    /\ ~disposed
    /\ disposed' = TRUE
    /\ connectionGeneration' = connectionGeneration + 1
    /\ reconnectTimer' = 0
    /\ stream' = Cancelled
    /\ UNCHANGED <<baseUrl, connectionState, streamSubscription, source, restarting,
                   targetDrones, history>>
-----------------------------------------------------------------------------
(* The selected drone and its history.                                      *)

\* selectDrone, and with None clearSelection.
Select(d) ==
    /\ ~disposed
    /\ selectedDroneId' = d /\ historyTrajectory' = None
    /\ UNCHANGED <<connection, connectionState, streams, targetDrones,
                   historyRequest>>

\* fetchHistoryForSelected up to its await.
FetchHistory ==
    /\ ~disposed
    /\ selectedDroneId # None /\ historyRequest = None
    /\ historyRequest' = selectedDroneId
    /\ UNCHANGED <<connection, connectionState, streams, targetDrones,
                   selectedDroneId, historyTrajectory>>

\* Mutant of HistoryLoaded: the answer is shown whatever is selected by now.
HistoryLoaded_Unchecked ==
    /\ historyRequest # None
    /\ historyRequest' = None
    /\ historyTrajectory' = historyRequest
    /\ UNCHANGED <<connection, connectionState, streams, targetDrones,
                   selectedDroneId>>

\* Its answer, which counts if the selection has not changed.
HistoryLoaded ==
    /\ historyRequest # None
    /\ historyRequest' = None
    /\ historyTrajectory' = IF selectedDroneId = historyRequest
                            THEN historyRequest ELSE historyTrajectory
    /\ UNCHANGED <<connection, connectionState, streams, targetDrones,
                   selectedDroneId>>

\* An error, or the time limit of eight seconds.
HistoryFails ==
    /\ historyRequest # None
    /\ historyRequest' = None
    /\ UNCHANGED <<connection, connectionState, streams, targetDrones,
                   selectedDroneId, historyTrajectory>>

Next ==
    \/ \E url \in Servers : configureBaseUrl(url)
    \/ \E g \in Generation : Resume(g) \/ Arrive(g) \/ Parsed(g) \/ Break(g)
    \/ Reconnect \/ GoStale \/ Dispose
    \/ \E d \in Drones \cup {None} : Select(d)
    \/ FetchHistory \/ HistoryLoaded \/ HistoryFails

Silent(g) == source[g] \in Stalled /\ ~disposed

\* Timers fire, awaits that are over resume, events are parsed, and a server
\* that has not fallen silent sends its next event or closes.
Spec ==
    /\ Init /\ [][Next]_vars
    /\ WF_vars(Reconnect)
    /\ \A g \in Generation :
          /\ WF_vars(Resume(g)) /\ WF_vars(Parsed(g))
          /\ WF_vars(~Silent(g) /\ (Arrive(g) \/ Break(g)))
-----------------------------------------------------------------------------
(* Types; and the reconnect timer, when it is set, is for the generation    *)
(* configured and for a provider in use.                                    *)
TypeOK ==
    /\ baseUrl \in Servers \cup {None}
    /\ connectionGeneration \in 0 .. MaxGeneration + 1
    /\ ~disposed => connectionGeneration <= MaxGeneration
    /\ disposed \in BOOLEAN
    /\ connectionState \in {"disconnected", "connecting", "connected", "stale"}
    /\ streamSubscription \in 0 .. MaxGeneration
    /\ stream \in [Generation -> {"none", "await", "yield", "cancelled", "ended"}]
    /\ source \in [Generation -> Servers \cup {None}]
    /\ restarting \in [Generation -> 0 .. MaxGeneration \cup {Idle}]
    /\ reconnectTimer \in {0, connectionGeneration}
    /\ disposed => reconnectTimer = 0
    /\ targetDrones \in Servers \cup {None}
    /\ selectedDroneId \in Drones \cup {None}
    /\ historyTrajectory \in Drones \cup {None}
    /\ historyRequest \in Drones \cup {None}

(* The map never shows a snapshot of a server other than the one configured,*)
(* however switches, reconnects, late events and late ends of streams fall. *)
OnlyConfiguredServer == targetDrones \in {None, baseUrl}

Listening(g) == stream[g] \in {"await", "yield"}

(* No stream is leaked: one that still delivers is the one the provider     *)
(* holds and can cancel, is of the current generation and server, and there *)
(* is none once the provider is disposed.                                   *)
NoLeakedStream ==
    \A g \in Generation :
        Listening(g) => /\ g = streamSubscription /\ g = connectionGeneration
                        /\ source[g] = baseUrl /\ ~disposed

(* The history shown is the selected drone's, although selections change    *)
(* while it loads.                                                          *)
HistoryMatchesSelection == historyTrajectory \in {None, selectedDroneId}

(* The configured server is connected to: after a switch, and again after   *)
(* every loss of its stream.                                                *)
ServerIsConnected ==
    \A url \in Servers :
        baseUrl = url
            ~> \/ \E g \in Generation : Listening(g) /\ source[g] = url
               \/ baseUrl # url \/ disposed
=============================================================================
