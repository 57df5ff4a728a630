----------------------- MODULE DroneProvider_proofs -------------------------
(* Theorems about DroneProvider, for any servers, drones and number of      *)
(* switches.  The strengthening says that a restart, or the timer that will *)
(* make one, exists for the configured generation only when no stream       *)
(* delivers any more.                                                       *)
EXTENDS DroneProvider, TLAPS

NoneListens == \A g \in Generation : ~Listening(g)

Restarts ==
    /\ \A g \in Generation :
          g = connectionGeneration /\ restarting[g] # Idle
              => NoneListens /\ reconnectTimer = 0
    /\ reconnectTimer # 0 => NoneListens

Inv == /\ TypeOK /\ NoLeakedStream /\ Restarts
       /\ OnlyConfiguredServer /\ HistoryMatchesSelection

\* What the provider holds is cancelled, and nothing else delivers.
LEMMA CancelSilences ==
    ASSUME TypeOK, NoLeakedStream, stream' = Cancelled
    PROVE  /\ stream' \in [Generation -> {"none", "await", "yield", "cancelled", "ended"}]
           /\ \A g \in Generation : stream'[g] \notin {"await", "yield"}
<1>1. \A g \in Generation : Cancelled[g] \in {"none", "cancelled", "ended"}
  <2> SUFFICES ASSUME NEW g \in Generation
               PROVE  Cancelled[g] \in {"none", "cancelled", "ended"}
    OBVIOUS
  <2>1. stream[g] \in {"none", "await", "yield", "cancelled", "ended"}
    BY DEF TypeOK
  <2>2. CASE g # streamSubscription
    BY <2>1, <2>2 DEF Cancelled, NoLeakedStream, Listening
  <2>3. CASE g = streamSubscription
    BY <2>1, <2>3 DEF Cancelled
  <2> QED BY <2>2, <2>3
<1>2. Cancelled = [g \in Generation |-> Cancelled[g]]
  BY DEF Cancelled
<1> QED BY <1>1, <1>2

\* The invariant holds at the start.
LEMMA InitInv == Init => Inv
<1> SUFFICES ASSUME Init PROVE Inv
  OBVIOUS
<1>1. /\ restarting \in [Generation -> 0 .. MaxGeneration \cup {Idle}]
      /\ stream \in [Generation -> {"none", "await", "yield", "cancelled", "ended"}]
      /\ source \in [Generation -> Servers \cup {None}]
  BY DEF Init
<1>2. TypeOK
  <2>1. 0 \in 0 .. MaxGeneration /\ 0 \in 0 .. MaxGeneration + 1 /\ 0 <= MaxGeneration
    BY GenerationAssumption
  <2>2. disposed \in BOOLEAN
    BY DEF Init
  <2> QED BY <1>1, <2>1, <2>2 DEF Init, TypeOK
<1>3. NoLeakedStream /\ Restarts
  BY DEF Init, NoLeakedStream, Restarts, Listening, NoneListens
<1> QED BY <1>2, <1>3 DEF Init, Inv, OnlyConfiguredServer, HistoryMatchesSelection

\* The steps that silence every stream and then restart, or never again.
LEMMA ConfigureKeeps ==
    ASSUME Inv, NEW url \in Servers, configureBaseUrl(url)
    PROVE  Inv'
<1> USE GenerationAssumption DEF Inv, configureBaseUrl, RestartStream
<1>1. /\ stream' \in [Generation -> {"none", "await", "yield", "cancelled", "ended"}]
      /\ NoneListens'
  BY CancelSilences DEF NoneListens, Listening
<1>2. TypeOK'
  BY <1>1 DEF TypeOK, Generation, Idle
<1>3. NoLeakedStream' /\ Restarts'
  BY <1>1 DEF NoLeakedStream, NoneListens, Restarts
<1>4. OnlyConfiguredServer' /\ HistoryMatchesSelection'
  BY DEF OnlyConfiguredServer, HistoryMatchesSelection
<1> QED BY <1>2, <1>3, <1>4

LEMMA ReconnectKeeps ==
    ASSUME Inv, Reconnect
    PROVE  Inv'
<1> USE GenerationAssumption DEF Inv, Reconnect, RestartStream, connection, history
<1>1. /\ stream' \in [Generation -> {"none", "await", "yield", "cancelled", "ended"}]
      /\ NoneListens'
  BY CancelSilences DEF NoneListens, Listening
<1>2. TypeOK'
  BY <1>1 DEF TypeOK, Generation, Idle
<1>3. NoLeakedStream' /\ Restarts'
  BY <1>1 DEF NoLeakedStream, NoneListens, Restarts
<1>4. OnlyConfiguredServer' /\ HistoryMatchesSelection'
  BY DEF OnlyConfiguredServer, HistoryMatchesSelection
<1> QED BY <1>2, <1>3, <1>4

LEMMA DisposeKeeps ==
    ASSUME Inv, Dispose
    PROVE  Inv'
<1> USE GenerationAssumption DEF Inv, Dispose, history
<1>1. /\ stream' \in [Generation -> {"none", "await", "yield", "cancelled", "ended"}]
      /\ NoneListens'
  BY CancelSilences DEF NoneListens, Listening
<1>2. TypeOK'
  BY <1>1 DEF TypeOK, Generation, Idle
<1>3. NoLeakedStream' /\ Restarts'
  BY <1>1 DEF NoLeakedStream, NoneListens, Restarts
<1>4. OnlyConfiguredServer' /\ HistoryMatchesSelection'
  BY DEF OnlyConfiguredServer, HistoryMatchesSelection
<1> QED BY <1>2, <1>3, <1>4

\* A restart goes on: it alone may open a stream.
LEMMA ResumeKeeps ==
    ASSUME Inv, NEW g \in Generation, Resume(g)
    PROVE  Inv'
<1> USE GenerationAssumption DEF Inv, Resume, connection, history
<1>1. TypeOK'
  <2>1. restarting' \in [Generation -> 0 .. MaxGeneration \cup {Idle}]
    BY DEF TypeOK
  <2>2. /\ connectionState' \in {"disconnected", "connecting", "connected", "stale"}
        /\ streamSubscription' \in 0 .. MaxGeneration
        /\ stream' \in [Generation -> {"none", "await", "yield", "cancelled", "ended"}]
        /\ source' \in [Generation -> Servers \cup {None}]
    BY DEF TypeOK, Generation
  <2> QED BY <2>1, <2>2 DEF TypeOK
<1>2. CASE disposed \/ g # connectionGeneration \/ baseUrl = None
  <2>1. stream' = stream /\ streamSubscription' = streamSubscription /\ source' = source
    BY <1>2
  <2>2. /\ connectionGeneration' = connectionGeneration /\ reconnectTimer' = reconnectTimer
        /\ \A h \in Generation : restarting'[h] # Idle => restarting[h] # Idle
    BY DEF TypeOK
  <2>3. NoLeakedStream' /\ Restarts'
    BY <2>1, <2>2 DEF NoLeakedStream, NoneListens, Listening, Restarts
  <2> QED BY <1>1, <2>3 DEF OnlyConfiguredServer, HistoryMatchesSelection
<1>3. CASE ~(disposed \/ g # connectionGeneration \/ baseUrl = None)
  <2>1. NoneListens /\ reconnectTimer = 0
    BY <1>3 DEF Restarts
  <2>2. \A h \in Generation : stream'[h] \in {"await", "yield"} => h = g
    BY <1>3, <2>1 DEF NoneListens, Listening, TypeOK
  <2>3. /\ streamSubscription' = g /\ source'[g] = baseUrl /\ restarting'[g] = Idle
        /\ connectionGeneration' = g /\ ~disposed'
    BY <1>3 DEF TypeOK
  <2>4. NoLeakedStream'
    BY <2>2, <2>3 DEF NoLeakedStream, Listening
  <2>5. Restarts'
    BY <2>1, <2>3 DEF Restarts
  <2> QED BY <1>1, <2>4, <2>5 DEF OnlyConfiguredServer, HistoryMatchesSelection
<1> QED BY <1>2, <1>3

\* An event arrives: a stream that delivers goes on delivering.
LEMMA ArriveKeeps ==
    ASSUME Inv, NEW g \in Generation, Arrive(g)
    PROVE  Inv'
<1> USE GenerationAssumption DEF Inv, Arrive, connection, history
<1>1. TypeOK'
  BY DEF TypeOK
<1>2. \A h \in Generation : Listening(h)' => Listening(h)
  BY DEF Listening, TypeOK
<1>3. NoLeakedStream' /\ Restarts'
  BY <1>2 DEF NoLeakedStream, NoneListens, Restarts, Listening
<1> QED BY <1>1, <1>3 DEF OnlyConfiguredServer, HistoryMatchesSelection

\* A stream ends with StreamFailure: it was the only one that delivered.
LEMMA FailureKeeps ==
    ASSUME Inv, NEW g \in Generation, Listening(g), StreamFailure(g),
           stream' = [stream EXCEPT ![g] = "ended"],
           UNCHANGED <<connection, streamSubscription, source, restarting,
                       targetDrones, history>>
    PROVE  Inv'
<1> USE GenerationAssumption DEF Inv, connection, history
<1>1. g = connectionGeneration /\ ~disposed /\ g = streamSubscription
  BY DEF NoLeakedStream
<1>2. connectionState' = "disconnected" /\ reconnectTimer' = g
  BY <1>1 DEF StreamFailure
<1>3. NoneListens'
  BY <1>1 DEF NoLeakedStream, NoneListens, Listening, TypeOK
<1>4. restarting[g] = Idle
  BY <1>1 DEF Restarts, NoneListens
<1>5. TypeOK'
  BY <1>1, <1>2 DEF TypeOK, Generation
<1>6. NoLeakedStream' /\ Restarts'
  BY <1>1, <1>3, <1>4 DEF NoLeakedStream, NoneListens, Restarts
<1> QED BY <1>5, <1>6 DEF OnlyConfiguredServer, HistoryMatchesSelection

LEMMA ParsedKeeps ==
    ASSUME Inv, NEW g \in Generation, Parsed(g)
    PROVE  Inv'
<1>1. Listening(g)
  BY DEF Parsed, Listening
<1>2. CASE stream' = [stream EXCEPT ![g] = "ended"] /\ StreamFailure(g)
           /\ UNCHANGED targetDrones
  BY <1>1, <1>2, FailureKeeps DEF Parsed
<1>3. CASE /\ stream' = [stream EXCEPT ![g] = "await"] /\ UNCHANGED reconnectTimer
           /\ \/ UNCHANGED <<targetDrones, connectionState>>
              \/ targetDrones' = source[g] /\ connectionState' = "connected"
  <2> USE GenerationAssumption DEF Inv, connection, history
  <2>0. UNCHANGED <<connection, streamSubscription, source, restarting, history>>
    BY DEF Parsed
  <2>1. source[g] = baseUrl
    BY <1>1 DEF NoLeakedStream
  <2>2. TypeOK'
    BY <1>3, <2>0, <2>1 DEF TypeOK
  <2>3. \A h \in Generation : Listening(h)' => Listening(h)
    BY <1>1, <1>3 DEF Listening, TypeOK
  <2>4. NoLeakedStream'
    BY <2>0, <2>3 DEF NoLeakedStream
  <2>5. Restarts'
    BY <1>3, <2>0, <2>3 DEF NoneListens, Restarts
  <2>6. OnlyConfiguredServer' /\ HistoryMatchesSelection'
    BY <1>3, <2>0, <2>1 DEF OnlyConfiguredServer, HistoryMatchesSelection
  <2> QED BY <2>2, <2>4, <2>5, <2>6
<1> QED BY <1>2, <1>3 DEF Parsed

LEMMA BreakKeeps ==
    ASSUME Inv, NEW g \in Generation, Break(g)
    PROVE  Inv'
<1>1. CASE stream[g] = "await"
  <2>1. Listening(g) /\ StreamFailure(g)
    BY <1>1 DEF Break, Listening
  <2> QED BY <2>1, FailureKeeps DEF Break
<1>2. CASE stream[g] = "cancelled"
  <2> USE GenerationAssumption DEF Inv, Break, connection, history
  <2>1. UNCHANGED <<connectionState, reconnectTimer>>
    BY <1>2
  <2>2. TypeOK'
    BY <2>1 DEF TypeOK
  <2>3. \A h \in Generation : Listening(h)' => Listening(h)
    BY DEF Listening, TypeOK
  <2>4. NoLeakedStream' /\ Restarts'
    BY <2>1, <2>3 DEF NoLeakedStream, NoneListens, Restarts
  <2> QED BY <2>2, <2>4 DEF OnlyConfiguredServer, HistoryMatchesSelection
<1> QED BY <1>1, <1>2 DEF Break

\* The steps that leave the streams alone.
LEMMA OthersKeep ==
    ASSUME Inv,
           \/ GoStale \/ FetchHistory \/ HistoryLoaded \/ HistoryFails
           \/ \E d \in Drones \cup {None} : Select(d)
           \/ UNCHANGED vars
    PROVE  Inv'
<1> USE DEF Inv
<1>1. UNCHANGED <<connection, streams, targetDrones>>
  BY DEF GoStale, FetchHistory, HistoryLoaded, HistoryFails, Select, vars
<1>2. TypeOK'
  BY <1>1 DEF TypeOK, GoStale, FetchHistory, HistoryLoaded, HistoryFails, Select,
              vars, connection, streams, history
<1>3. NoLeakedStream' /\ Restarts' /\ OnlyConfiguredServer'
  BY <1>1 DEF NoLeakedStream, NoneListens, Restarts, OnlyConfiguredServer,
              Listening, connection, streams
<1>4. HistoryMatchesSelection'
  BY DEF HistoryMatchesSelection, GoStale, FetchHistory, HistoryLoaded,
         HistoryFails, Select, vars, history
<1> QED BY <1>2, <1>3, <1>4

\* Every reachable state satisfies the invariant.
THEOREM ProviderInvariant == Spec => []Inv
<1>1. Inv /\ [Next]_vars => Inv'
  BY ConfigureKeeps, ReconnectKeeps, DisposeKeeps, ResumeKeeps, ArriveKeeps,
     ParsedKeeps, BreakKeeps, OthersKeep DEF Next
<1> QED BY <1>1, InitInv, PTL DEF Spec

\* The provider's fields keep their types, and a reconnect timer is set only for
\* the generation configured and never on a disposed provider.
THEOREM ProviderTypes == Spec => []TypeOK
BY ProviderInvariant, PTL DEF Inv

\* Whatever the order of switches, reconnects and late events, only snapshots of
\* the configured server are shown.
THEOREM OnlyConfiguredServerShown == Spec => []OnlyConfiguredServer
BY ProviderInvariant, PTL DEF Inv

\* restartStream never leaves two streams delivering, nor one of a server
\* configured before, nor one after dispose.
THEOREM NeverLeaksStream == Spec => []NoLeakedStream
BY ProviderInvariant, PTL DEF Inv

\* A history that arrives after the selection has changed is never shown.
THEOREM HistoryAlwaysMatches == Spec => []HistoryMatchesSelection
BY ProviderInvariant, PTL DEF Inv
=============================================================================
