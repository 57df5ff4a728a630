---------------------- MODULE TelemetryPipeline_proofs ----------------------
(***************************************************************************)
(* Proofs about TelemetryPipeline, for every publisher, every sampling     *)
(* interval and every number of ticks: the books of the pipeline balance,  *)
(* the newest snapshot is never the one that is dropped, and the three     *)
(* selects of ConsumeBatch with publishLoop are a latest-wins mailbox.     *)
(* The server around it, ServerMain, runs the pipeline as it is, so all of *)
(* this holds there too; and main closes nothing that is still in use.     *)
(***************************************************************************)
EXTENDS ServerMain, TLAPS

\* What TypeOK leaves out: a snapshot is in hand whenever ConsumeBatch is past
\* the call of SetBatch.
InHand == pc # "idle" => batch # 0

PipelineInv == TypeOK /\ InHand /\ EverySnapshotAccounted /\ NewestNeverDropped

LEMMA InitInv == Init => PipelineInv
  <1> SUFFICES ASSUME Init PROVE PipelineInv
      OBVIOUS
  <1>1. TypeOK /\ InHand /\ NewestNeverDropped
        <2>1. stop \in BOOLEAN /\ crashed \in BOOLEAN
              BY Zenon DEF Init
        <2> QED BY <2>1, NumberAssumption
                DEF Init, TypeOK, InHand, NewestNeverDropped, Number
  <1>2. EverySnapshotAccounted
        BY DEF Init, EverySnapshotAccounted, Count
  <1> QED BY <1>1, <1>2 DEF PipelineInv

(* Types alone are inductive.                                               *)
LEMMA TypeStep == TypeOK /\ [Next]_vars => TypeOK'
  <1> SUFFICES ASSUME TypeOK, [Next]_vars PROVE TypeOK'
      OBVIOUS
  <1> USE NumberAssumption DEF TypeOK, Number
  <1>1. CASE Store
        <2>1. PICK step \in Steps : now' = now + step
              BY <1>1 DEF Store
        <2>2. step \in Nat
              BY <2>1
        <2>3. now' \in Nat /\ lastSample <= now'
              BY <2>1, <2>2
        <2> QED BY <1>1, <2>3 DEF Store
  <1>2. CASE Send
        BY <1>2 DEF Send
  <1>3. CASE Evict
        BY <1>3 DEF Evict
  <1>4. CASE Resend
        BY <1>4 DEF Resend
  <1>5. CASE Sample
        <2>1. droppedDB' \in Nat
              BY <1>5 DEF Sample
        <2>2. lastSample' \in Nat /\ lastSample' <= now'
              BY <1>5 DEF Sample
        <2> QED BY <1>5, <2>1, <2>2 DEF Sample
  <1>6. CASE Take
        BY <1>6 DEF Take
  <1>7. CASE Publish
        <2>1. CASE Publisher = "nil pointer"
              BY <1>7, <2>1 DEF Publish
        <2>2. CASE Publisher # "nil pointer"
              <3>1. PICK errors \in 0 .. 1 :
                        /\ published' = published + (1 - errors)
                        /\ failed' = failed + errors
                        /\ UNCHANGED crashed
                    BY <1>7, <2>2 DEF Publish
              <3>2. /\ published' \in Nat /\ failed' \in Nat
                    /\ published' + failed' = published + failed + 1
                    BY <3>1
              <3> QED BY <1>7, <3>1, <3>2 DEF Publish
        <2> QED BY <2>1, <2>2
  <1>8. CASE SeeStop
        BY <1>8 DEF SeeStop
  <1>9. CASE Close
        BY <1>9 DEF Close
  <1>10. CASE CloseWait
        BY <1>10 DEF CloseWait
  <1>11. CASE UNCHANGED vars
        BY <1>11 DEF vars
  <1> QED BY <1>1, <1>2, <1>3, <1>4, <1>5, <1>6, <1>7, <1>8, <1>9, <1>10, <1>11
          DEF Next, ConsumeBatch, publishLoop

(* Between the receive that made room for the snapshot in hand and the send *)
(* that follows, nothing can fill the queue again.                          *)
LEMMA QueueStep ==
    ASSUME TypeOK, InHand, NewestNeverDropped, [Next]_vars
    PROVE  InHand' /\ NewestNeverDropped'
  <1> USE NumberAssumption DEF TypeOK, Number, InHand, NewestNeverDropped
  <1>1. CASE ConsumeBatch
        BY <1>1 DEF ConsumeBatch, Store, Send, Evict, Resend, Sample
  <1>2. CASE publishLoop
        BY <1>2 DEF publishLoop, Take, Publish, SeeStop
  <1>3. CASE Close \/ CloseWait \/ UNCHANGED vars
        BY <1>3 DEF Close, CloseWait, vars
  <1> QED BY <1>1, <1>2, <1>3 DEF Next

(* Every action moves a snapshot from one heading of the books to another.  *)
LEMMA BooksStep ==
    ASSUME TypeOK, NewestNeverDropped, EverySnapshotAccounted, [Next]_vars
    PROVE  EverySnapshotAccounted'
  <1> USE NumberAssumption
      DEF TypeOK, Number, EverySnapshotAccounted, NewestNeverDropped, Count
  <1>1. CASE Store
        BY <1>1 DEF Store
  <1>2. CASE Send
        BY <1>2 DEF Send
  <1>3. CASE Evict
        BY <1>3 DEF Evict
  <1>4. CASE Resend
        BY <1>4 DEF Resend
  <1>5. CASE Sample
        BY <1>5 DEF Sample
  <1>6. CASE Take
        BY <1>6 DEF Take
  <1>7. CASE Publish
        <2>1. CASE Publisher = "nil pointer"
              BY <1>7, <2>1 DEF Publish
        <2>2. CASE Publisher # "nil pointer"
              <3>1. PICK errors \in 0 .. 1 :
                        /\ published' = published + (1 - errors)
                        /\ failed' = failed + errors
                        /\ UNCHANGED crashed
                    BY <1>7, <2>2 DEF Publish
              <3>2. /\ published' \in Nat /\ failed' \in Nat
                    /\ published' + failed' = published + failed + 1
                    BY <3>1
              <3>3. /\ ~crashed /\ batch' = batch /\ droppedNATS' = droppedNATS
                    /\ publishQueue' = publishQueue /\ pc' = pc
                    /\ loop = "publish" /\ loop' = "select"
                    BY <1>7 DEF Publish
              <3>4. PICK waiting \in 0 .. 1 : waiting = Count(publishQueue # 0)
                    OBVIOUS
              <3>5. PICK inHand \in 0 .. 1 :
                        inHand = Count(pc \in {"send", "evict", "resend"})
                    OBVIOUS
              <3>6. batch = published + failed + droppedNATS + waiting + 1 + inHand
                    BY <3>3, <3>4, <3>5
              <3>7. batch = published' + failed' + droppedNATS + waiting + 0 + inHand
                    <4>1. PICK p0 \in Nat, f0 \in Nat, d0 \in Nat :
                              p0 = published /\ f0 = failed /\ d0 = droppedNATS
                          OBVIOUS
                    <4>2. PICK p1 \in Nat, f1 \in Nat :
                              p1 = published' /\ f1 = failed'
                          BY <3>2
                    <4>3. p1 + f1 = p0 + f0 + 1
                          BY <3>2, <4>1, <4>2
                    <4>4. p0 + f0 + d0 + waiting + 1 + inHand
                            = p1 + f1 + d0 + waiting + 0 + inHand
                          BY <4>3
                    <4> QED BY <3>6, <4>1, <4>2, <4>4
              <3> QED BY <3>3, <3>4, <3>5, <3>7
        <2> QED BY <2>1, <2>2
  <1>8. CASE SeeStop
        BY <1>8 DEF SeeStop
  <1>9. CASE Close \/ CloseWait \/ UNCHANGED vars
        BY <1>9 DEF Close, CloseWait, vars
  <1> QED BY <1>1, <1>2, <1>3, <1>4, <1>5, <1>6, <1>7, <1>8, <1>9
          DEF Next, ConsumeBatch, publishLoop

(* The inductive invariant of the pipeline: types, books and queue together *)
(* (telemetry_pipeline.go, ConsumeBatch, publishLoop and Close).            *)
THEOREM PipelineInvariant == Spec => []PipelineInv
  <1>1. PipelineInv /\ [Next]_vars => PipelineInv'
        BY TypeStep, QueueStep, BooksStep DEF PipelineInv
  <1> QED BY InitInv, <1>1, PTL DEF Spec

(* The variables keep their types, and the age of the last sample is never  *)
(* negative.                                                                *)
THEOREM PipelineTypes == Spec => []TypeOK
  <1>1. PipelineInv => TypeOK
        BY DEF PipelineInv
  <1> QED BY <1>1, PipelineInvariant, PTL

(* No snapshot disappears without a counter of /healthz showing it.         *)
THEOREM BooksBalance == Spec => []EverySnapshotAccounted
  <1>1. PipelineInv => EverySnapshotAccounted
        BY DEF PipelineInv
  <1> QED BY <1>1, PipelineInvariant, PTL

(* The drop after the second try of ConsumeBatch is never reached.          *)
THEOREM NewestIsKept == Spec => []NewestNeverDropped
  <1>1. PipelineInv => NewestNeverDropped
        BY DEF PipelineInv
  <1> QED BY <1>1, PipelineInvariant, PTL
-----------------------------------------------------------------------------
(* The refinement.                                                          *)

MailboxVars == <<newest, held, taken>>

LEMMA MailboxStarts == Init => Mailbox!Init
  BY DEF Init, Mailbox!Init, newest, held, Offered

(* Each step of the pipeline puts a snapshot in the mailbox, gets the one   *)
(* that waits there, or leaves the mailbox alone.                           *)
LEMMA MailboxStep ==
    PipelineInv /\ [Next]_vars => [Mailbox!Next]_MailboxVars
  <1> SUFFICES ASSUME PipelineInv, [Next]_vars
               PROVE  Mailbox!Next \/ UNCHANGED MailboxVars
      OBVIOUS
  <1> USE NumberAssumption
      DEF PipelineInv, TypeOK, Number, InHand, NewestNeverDropped, MailboxVars,
          newest, held, Offered
  <1>1. CASE Store
        BY <1>1 DEF Store
  <1>2. CASE Send
        <2>1. CASE publishQueue # 0
              BY <1>2, <2>1 DEF Send
        <2>2. CASE publishQueue = 0
              <3>1. newest = batch - 1 /\ newest' = batch /\ held' = batch /\ taken' = taken
                    BY <1>2, <2>2 DEF Send
              <3>2. PICK b \in Nat : b = batch
                    OBVIOUS
              <3>3. newest' > newest
                    BY <3>1, <3>2
              <3> QED BY <3>1, <3>3 DEF Mailbox!Next, Mailbox!Put
        <2> QED BY <2>1, <2>2
  <1>3. CASE Evict
        <2>1. newest = batch - 1 /\ newest' = batch /\ held' = batch /\ taken' = taken
              BY <1>3 DEF Evict
        <2>2. PICK b \in Nat : b = batch
              OBVIOUS
        <2>3. newest' > newest
              BY <2>1, <2>2
        <2> QED BY <2>1, <2>3 DEF Mailbox!Next, Mailbox!Put
  <1>4. CASE Resend
        BY <1>4 DEF Resend
  <1>5. CASE Sample
        BY <1>5 DEF Sample
  <1>6. CASE Take
        BY <1>6 DEF Take, Mailbox!Next, Mailbox!Get
  <1>7. CASE Publish \/ SeeStop
        BY <1>7 DEF Publish, SeeStop
  <1>8. CASE Close \/ CloseWait \/ UNCHANGED vars
        BY <1>8 DEF Close, CloseWait, vars
  <1> QED BY <1>1, <1>2, <1>3, <1>4, <1>5, <1>6, <1>7, <1>8
          DEF Next, ConsumeBatch, publishLoop

(* The one-slot queue and its three selects implement the latest-wins       *)
(* mailbox, however ConsumeBatch and publishLoop interleave.                *)
THEOREM PipelineIsMailbox == Spec => ImplementsMailbox
  <1> QED BY MailboxStarts, MailboxStep, PipelineInvariant, PTL
          DEF Spec, ImplementsMailbox, Mailbox!Spec, MailboxVars
-----------------------------------------------------------------------------
(* The server.                                                              *)

(* A step of the server is one of the pipeline, or leaves it alone.         *)
LEMMA ServerStep == [ServerNext]_allVars => [Next]_vars
  <1> SUFFICES ASSUME [ServerNext]_allVars PROVE [Next]_vars
      OBVIOUS
  <1>1. CASE Pipeline
        BY <1>1 DEF Pipeline, Tick, PublishBatch, Next, ConsumeBatch, publishLoop
  <1>2. CASE ClosePipeline
        BY <1>2 DEF ClosePipeline, Next
  <1>3. CASE \/ ConnectFails \/ ConnectSucceeds \/ StartEngine \/ Listen
             \/ Connection \/ Client \/ Signal \/ Expire
        BY <1>3 DEF ConnectFails, ConnectSucceeds, StartEngine, Listen, Connection,
                    Disconnect, ReconnectFails, Reconnect, Client, CallRPC, OpenStream,
                    Leave, Signal, Expire
  <1>4. CASE \/ StopGRPC \/ ShutdownHTTP \/ CloseBridge \/ StopEngine \/ EngineStopped
             \/ CloseRepository \/ CloseNATS
        BY <1>4 DEF StopGRPC, ShutdownHTTP, CloseBridge, StopEngine, EngineStopped,
                    CloseRepository, CloseNATS
  <1>5. CASE ServerGone \/ UNCHANGED allVars
        BY <1>5 DEF ServerGone, allVars
  <1> QED BY <1>1, <1>2, <1>3, <1>4, <1>5 DEF ServerNext, Stop

(* main's server runs the pipeline of TelemetryPipeline: what is proved of  *)
(* the pipeline alone holds with the engine, the clients and the shutdown   *)
(* around it.                                                               *)
THEOREM ServerImplementsPipeline == ServerSpec => Spec
  <1>1. ServerInit => Init
        BY DEF ServerInit
  <1> QED BY <1>1, ServerStep, PTL DEF ServerSpec, Spec

(* In the server too every snapshot is accounted for, from the first tick   *)
(* to the end of the deferred calls and after a crash.                      *)
THEOREM ServerBooksBalance == ServerSpec => []EverySnapshotAccounted
  BY ServerImplementsPipeline, BooksBalance, PTL

(* And the queue between the engine's loop and the publisher is the mailbox *)
(* that keeps the newest, whatever clients, NATS and main do.               *)
THEOREM ServerIsMailbox == ServerSpec => ImplementsMailbox
  BY ServerImplementsPipeline, PipelineIsMailbox, PTL

\* How far main has come with the deferred calls, and what that says about the
\* loops they wait for.
Deferred ==
    /\ stop => main # "running"
    /\ engine = "stopped" => pc = "idle"
    /\ stage = "pipeline" => engine = "stopped"
    /\ main # "running" => engine = "stopped"
    /\ stage \in {"connect", "open"} => main = "running"
    /\ engine = "stopping" => stage = "engine"
    /\ main = "closed" => loop = "done"
    /\ stage \in {"repo", "nats", "exited"} => main = "closed"
    /\ repo = "closed" => main = "closed"
    /\ nats = "closed" => main = "closed"

LEMMA DeferredStep == Deferred /\ [ServerNext]_allVars => Deferred'
  <1> SUFFICES ASSUME Deferred, [ServerNext]_allVars PROVE Deferred'
      OBVIOUS
  <1> USE DEF Deferred, Goto
  <1>1. CASE Tick
        BY <1>1 DEF Tick, Store, serverVars
  <1>2. CASE PublishBatch
        BY <1>2 DEF PublishBatch, Publish, serverVars
  <1>3. CASE (Send \/ Evict \/ Resend \/ Sample \/ Take \/ SeeStop) /\ UNCHANGED serverVars
        BY <1>3 DEF Send, Evict, Resend, Sample, Take, SeeStop, serverVars
  <1>4. CASE Connection \/ Client \/ Signal \/ Expire
        BY <1>4 DEF Connection, Disconnect, ReconnectFails, Reconnect, Client, CallRPC,
                    OpenStream, Leave, Signal, Expire, vars
  <1>5. CASE ConnectFails
    <2>1. stage' \in {stage, "open"} /\ stage = "connect"
        BY <1>5 DEF ConnectFails
    <2>2. UNCHANGED <<vars, nats, repo, engine>>
        BY <1>5 DEF ConnectFails
    <2> QED BY <2>1, <2>2 DEF vars
  <1>6. CASE ConnectSucceeds
        BY <1>6 DEF ConnectSucceeds, vars
  <1>7. CASE StartEngine
        BY <1>7 DEF StartEngine, vars
  <1>8. CASE Listen
        BY <1>8 DEF Listen, vars
  <1>9. CASE StopGRPC \/ ShutdownHTTP \/ CloseBridge \/ StopEngine \/ EngineStopped
        BY <1>9 DEF StopGRPC, ShutdownHTTP, CloseBridge, StopEngine, EngineStopped, vars
  <1>10. CASE ClosePipeline
        BY <1>10 DEF ClosePipeline, Close, CloseWait
  <1>11. CASE CloseRepository \/ CloseNATS
        BY <1>11 DEF CloseRepository, CloseNATS, vars
  <1>12. CASE UNCHANGED allVars
        BY <1>12 DEF allVars, vars, serverVars
  <1> QED BY <1>1, <1>2, <1>3, <1>4, <1>5, <1>6, <1>7, <1>8, <1>9, <1>10, <1>11, <1>12
          DEF ServerNext, Pipeline, Stop, ServerGone

(* The order of the deferred calls is right: when one closes a component,   *)
(* everything that feeds it has already stopped (main.go, 47, 55, 60, 67).  *)
THEOREM NothingUsedAfterClose == ServerSpec => []NoUseAfterClose
  <1>1. ServerInit => Deferred
        BY DEF ServerInit, Init, Deferred
  <1>2. Deferred => NoUseAfterClose
        BY DEF Deferred, NoUseAfterClose
  <1> QED BY <1>1, <1>2, DeferredStep, PTL DEF ServerSpec

\* Attempts are counted for the connection that is being made.
AttemptsInv ==
    /\ attempts \in Nat /\ attempts <= ConnectAttempts + MaxReconnects
    /\ stage = "connect" => attempts < ConnectAttempts /\ nats = "none"
    /\ nats = "reconnecting" => attempts < MaxReconnects

(* Every variable of the server keeps its type, and neither the attempts to *)
(* connect nor those to reconnect run past their limits (nats.go, 22-76).   *)
THEOREM ServerTypes == ServerSpec => []ServerTypeOK
  <1> DEFINE Types ==
        /\ stage \in {"connect", "open", "listen", "serving", "grpc", "http", "bridge",
                      "engine", "pipeline", "repo", "nats", "exited", "fatal"}
        /\ nats \in {"none", "connected", "reconnecting", "lost", "closed"}
        /\ repo \in {"none", "open", "closed"}
        /\ engine \in {"none", "running", "stopping", "stopped"}
        /\ rpcs \in BOOLEAN /\ viewers \in BOOLEAN /\ deadline \in BOOLEAN
             Inv == Types /\ AttemptsInv
  <1> USE AttemptAssumption DEF AttemptsInv
  <1>1. ServerInit => Inv
    <2>1. ServerInit => Types
        BY DEF ServerInit
    <2>2. ServerInit => AttemptsInv
        BY DEF ServerInit
    <2> QED BY <2>1, <2>2
  <1>2. Inv /\ [ServerNext]_allVars => Inv'
    <2> SUFFICES ASSUME Inv, [ServerNext]_allVars PROVE Inv'
        OBVIOUS
    <2>1. CASE ConnectFails
      <3>1. /\ attempts' = attempts + 1 /\ attempts < ConnectAttempts
            /\ stage' \in {stage, "open"} /\ stage = "connect" /\ nats = "none"
            /\ attempts' = ConnectAttempts => stage' = "open"
        BY <2>1 DEF ConnectFails, Goto
      <3>2. attempts' \in Nat /\ attempts' <= ConnectAttempts
        BY <3>1
      <3>3. UNCHANGED <<nats, repo, engine, rpcs, viewers, deadline>>
        BY <2>1 DEF ConnectFails
      <3>4. attempts' # ConnectAttempts => attempts' < ConnectAttempts
        BY <3>2
      <3> QED BY <3>1, <3>2, <3>3, <3>4
    <2>2. CASE ConnectSucceeds \/ Disconnect \/ Reconnect
        BY <2>2 DEF ConnectSucceeds, Disconnect, Reconnect, Goto
    <2>3. CASE ReconnectFails
        BY <2>3 DEF ReconnectFails
    <2>4. CASE StartEngine \/ Listen
        BY <2>4 DEF StartEngine, Listen, Goto
    <2>5. CASE Pipeline \/ UNCHANGED allVars
        BY <2>5 DEF Pipeline, Tick, PublishBatch, serverVars, allVars
    <2>6. CASE Client \/ Signal \/ Expire
      <3>1. stage' \in {stage, "grpc"} /\ UNCHANGED <<attempts, nats, repo, engine>>
        BY <2>6 DEF Client, CallRPC, OpenStream, Leave, Signal, Expire, Goto
      <3>2. rpcs' \in BOOLEAN /\ viewers' \in BOOLEAN /\ deadline' \in BOOLEAN
        BY <2>6, Zenon DEF Client, CallRPC, OpenStream, Leave, Signal, Expire
      <3> QED BY <3>1, <3>2
    <2>7. CASE StopGRPC \/ ShutdownHTTP \/ CloseBridge \/ StopEngine \/ EngineStopped
        BY <2>7 DEF StopGRPC, ShutdownHTTP, CloseBridge, StopEngine, EngineStopped, Goto
    <2>8. CASE ClosePipeline \/ CloseRepository \/ CloseNATS
        BY <2>8 DEF ClosePipeline, CloseRepository, CloseNATS, Goto
    <2> QED BY <2>1, <2>2, <2>3, <2>4, <2>5, <2>6, <2>7, <2>8
            DEF ServerNext, Connection, Stop, ServerGone
  <1>3. Inv /\ TypeOK => ServerTypeOK
    <2>1. Inv => attempts \in 0 .. ConnectAttempts + MaxReconnects
        OBVIOUS
    <2> QED BY <2>1 DEF ServerTypeOK
  <1> HIDE DEF Inv
  <1> QED BY <1>1, <1>2, <1>3, ServerImplementsPipeline, PipelineTypes, PTL
          DEF ServerSpec
=============================================================================
