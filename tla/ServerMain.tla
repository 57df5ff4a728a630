----------------------------- MODULE ServerMain -----------------------------
(***************************************************************************)
(* cmd/server/main.go around the telemetry pipeline: the connections it    *)
(* tries to make (NewNATSService, NewPostgresRepository), the engine that  *)
(* ticks before the listeners open, the signal, the two shutdowns that     *)
(* share one time limit of five seconds, and the deferred calls, which run *)
(* in the reverse order of their defer statements.  Beside it: streaming   *)
(* clients, which leave when they like, and the NATS connection, which is  *)
(* lost and regained.                                                      *)
(***************************************************************************)
EXTENDS TelemetryPipeline

CONSTANTS ConnectAttempts,  \* of NewNATSService, 5 in the code
          MaxReconnects     \* 10 in the code

ASSUME AttemptAssumption ==
    ConnectAttempts \in Nat \ {0} /\ MaxReconnects \in Nat \ {0}

VARIABLES
    stage,       \* where main is
    attempts,    \* connections to NATS that failed, one after the other
    nats,        \* "none", "connected", "reconnecting", "lost" (for good), "closed"
    repo,        \* "none", "open", "closed"
    engine,      \* "none", "running", "stopping" (main is in Stop), "stopped"
    rpcs,        \* is a client in StreamPositions?
    viewers,     \* is a client in ServeSSE?
    deadline     \* has shutdownCtx expired?

serverVars == <<stage, attempts, nats, repo, engine, rpcs, viewers, deadline>>
allVars == <<vars, serverVars>>

Goto(s) == stage' = s

ServerInit ==
    /\ Init
    /\ stage = "connect" /\ attempts = 0
    /\ nats = "none" /\ repo = "none" /\ engine = "none"
    /\ rpcs = FALSE /\ viewers = FALSE /\ deadline = FALSE

\* Gone once main has returned, log.Fatalf was called or a goroutine panicked.
Alive == stage \notin {"exited", "fatal"} /\ ~crashed
-----------------------------------------------------------------------------
(* The start.                                                               *)

\* nats.Connect fails; after the last attempt natsSvc stays nil.
ConnectFails ==
    /\ stage = "connect"
    /\ attempts' = attempts + 1
    /\ IF attempts' = ConnectAttempts
       THEN Publisher = "nil pointer" /\ Goto("open")
       ELSE UNCHANGED stage
    /\ UNCHANGED <<vars, nats, repo, engine, rpcs, viewers, deadline>>

\* It succeeds, and the JetStream stream is configured or core NATS must do.
ConnectSucceeds ==
    /\ stage = "connect" /\ Publisher = "connected"
    /\ nats' = "connected" /\ attempts' = 0
    /\ Goto("open")
    /\ UNCHANGED <<vars, repo, engine, rpcs, viewers, deadline>>

\* The repository, the pipeline and the engine, which starts to tick.
StartEngine ==
    /\ stage = "open"
    /\ repo' \in {"open", "none"}
    /\ engine' = "running"
    /\ Goto("listen")
    /\ UNCHANGED <<vars, attempts, nats, rpcs, viewers, deadline>>

\* A port that is taken ends the process, and no deferred call runs.
Listen ==
    /\ stage = "listen"
    /\ stage' \in {"serving", "fatal"}
    /\ UNCHANGED <<vars, attempts, nats, repo, engine, rpcs, viewers, deadline>>
-----------------------------------------------------------------------------
(* The pipeline, driven by the engine's loop.                               *)

Tick ==
    /\ engine \in {"running", "stopping"}
    /\ Store
    /\ UNCHANGED serverVars

\* A connection that is being restored buffers what is published, one that is
\* lost or closed refuses it.
PublishBatch ==
    /\ Publish
    /\ nats \in {"lost", "closed"} => published' = published
    /\ UNCHANGED serverVars

Pipeline ==
    \/ Tick \/ PublishBatch
    \/ (Send \/ Evict \/ Resend \/ Sample \/ Take \/ SeeStop) /\ UNCHANGED serverVars
-----------------------------------------------------------------------------
(* The connection to NATS.                                                  *)

Disconnect ==
    /\ nats = "connected"
    /\ nats' = "reconnecting" /\ attempts' = 0
    /\ UNCHANGED <<vars, stage, repo, engine, rpcs, viewers, deadline>>

\* Every second, until MaxReconnects attempts have failed: then it is closed.
ReconnectFails ==
    /\ nats = "reconnecting"
    /\ IF attempts + 1 = MaxReconnects
       THEN nats' = "lost" /\ attempts' = 0
       ELSE attempts' = attempts + 1 /\ UNCHANGED nats
    /\ UNCHANGED <<vars, stage, repo, engine, rpcs, viewers, deadline>>

Reconnect ==
    /\ nats = "reconnecting"
    /\ nats' = "connected" /\ attempts' = 0
    /\ UNCHANGED <<vars, stage, repo, engine, rpcs, viewers, deadline>>

Connection == Disconnect \/ ReconnectFails \/ Reconnect
-----------------------------------------------------------------------------
(* The clients.                                                             *)

\* A StreamPositions call starts; GracefulStop lets no new one in.
CallRPC ==
    /\ stage = "serving" /\ ~rpcs
    /\ rpcs' = TRUE
    /\ UNCHANGED <<vars, stage, attempts, nats, repo, engine, viewers, deadline>>

\* A dashboard connects; httpServer accepts until its Shutdown begins.
OpenStream ==
    /\ stage \in {"serving", "grpc"} /\ ~viewers
    /\ viewers' = TRUE
    /\ UNCHANGED <<vars, stage, attempts, nats, repo, engine, rpcs, deadline>>

Leave ==
    /\ \/ rpcs /\ rpcs' = FALSE /\ UNCHANGED viewers
       \/ viewers /\ viewers' = FALSE /\ UNCHANGED rpcs
    /\ UNCHANGED <<vars, stage, attempts, nats, repo, engine, deadline>>

Client == CallRPC \/ OpenStream \/ Leave
-----------------------------------------------------------------------------
(* The end.                                                                 *)

\* SIGINT or SIGTERM: the time limit starts, and GracefulStop.
Signal ==
    /\ stage = "serving"
    /\ Goto("grpc")
    /\ UNCHANGED <<vars, attempts, nats, repo, engine, rpcs, viewers, deadline>>

Expire ==
    /\ stage \in {"grpc", "http"} /\ ~deadline
    /\ deadline' = TRUE
    /\ UNCHANGED <<vars, stage, attempts, nats, repo, engine, rpcs, viewers>>

\* Mutant of StopGRPC: GracefulStop is waited for without a limit.
StopGRPC_NoLimit ==
    /\ stage = "grpc"
    /\ ~rpcs
    /\ Goto("http")
    /\ UNCHANGED <<vars, attempts, nats, repo, engine, rpcs, viewers, deadline>>

\* GracefulStop returns when no call is left; at the deadline Stop ends them.
StopGRPC ==
    /\ stage = "grpc"
    /\ ~rpcs \/ deadline
    /\ rpcs' = FALSE
    /\ Goto("http")
    /\ UNCHANGED <<vars, attempts, nats, repo, engine, viewers, deadline>>

\* httpServer.Shutdown waits for the streams, but cannot end them.
ShutdownHTTP ==
    /\ stage = "http"
    /\ ~viewers \/ deadline
    /\ Goto("bridge")
    /\ UNCHANGED <<vars, attempts, nats, repo, engine, rpcs, viewers, deadline>>

\* streamBridge.Close, and the gateway's connection is cancelled.
CloseBridge ==
    /\ stage = "bridge"
    /\ Goto("engine")
    /\ UNCHANGED <<vars, attempts, nats, repo, engine, rpcs, viewers, deadline>>

\* simEngine.Stop closes the loop's stop channel ...
StopEngine ==
    /\ stage = "engine" /\ engine = "running"
    /\ engine' = "stopping"
    /\ UNCHANGED <<vars, stage, attempts, nats, repo, rpcs, viewers, deadline>>

\* Mutant of EngineStopped: Stop does not wait for the loop.
EngineStopped_NoWait ==
    /\ engine = "stopping"
    /\ engine' = "stopped"
    /\ Goto("pipeline")
    /\ UNCHANGED <<vars, attempts, nats, repo, rpcs, viewers, deadline>>

\* ... which the loop sees between two deliveries.
EngineStopped ==
    /\ engine = "stopping" /\ pc = "idle"
    /\ engine' = "stopped"
    /\ Goto("pipeline")
    /\ UNCHANGED <<vars, attempts, nats, repo, rpcs, viewers, deadline>>

\* pipeline.Close.
ClosePipeline ==
    /\ stage = "pipeline"
    /\ \/ Close /\ UNCHANGED stage
       \/ CloseWait /\ Goto("repo")
    /\ UNCHANGED <<attempts, nats, repo, engine, rpcs, viewers, deadline>>

\* repo.Close, deferred if there is one.
CloseRepository ==
    /\ stage = "repo"
    /\ repo' = IF repo = "open" THEN "closed" ELSE repo
    /\ Goto("nats")
    /\ UNCHANGED <<vars, attempts, nats, engine, rpcs, viewers, deadline>>

\* natsSvc.Close, deferred if there is one; main returns.
CloseNATS ==
    /\ stage = "nats"
    /\ nats' = IF nats = "none" THEN nats ELSE "closed"
    /\ Goto("exited")
    /\ UNCHANGED <<vars, attempts, repo, engine, rpcs, viewers, deadline>>

Stop ==
    \/ StopGRPC \/ ShutdownHTTP \/ CloseBridge \/ StopEngine \/ EngineStopped
    \/ ClosePipeline \/ CloseRepository \/ CloseNATS

ServerGone == ~Alive /\ UNCHANGED allVars

ServerNext ==
    \/ /\ Alive
       /\ \/ ConnectFails \/ ConnectSucceeds \/ StartEngine \/ Listen
          \/ Pipeline \/ Connection \/ Client
          \/ Signal \/ Expire \/ Stop
    \/ ServerGone

ServerSpec == ServerInit /\ [][ServerNext]_allVars

(* Nothing makes a client leave, a signal come or NATS return.  Goroutines  *)
(* run, the time limit expires, and a loop that is told to stop does not    *)
(* find its timer ready for ever instead.                                   *)
ServerFairness ==
    /\ WF_allVars(Alive /\ (Send \/ Evict \/ Resend \/ Sample) /\ UNCHANGED serverVars)
    /\ WF_allVars(Alive /\ (PublishBatch \/ ((Take \/ SeeStop) /\ UNCHANGED serverVars)))
    /\ WF_allVars(Alive /\ Expire)
    /\ WF_allVars(Alive /\ Stop) /\ SF_allVars(Alive /\ EngineStopped)

LiveServerSpec == ServerSpec /\ ServerFairness
-----------------------------------------------------------------------------
(* Types; and what main has started so far and not closed yet.              *)
ServerTypeOK ==
    /\ TypeOK
    /\ stage \in {"connect", "open", "listen", "serving", "grpc", "http", "bridge",
                  "engine", "pipeline", "repo", "nats", "exited", "fatal"}
    /\ attempts \in 0 .. ConnectAttempts + MaxReconnects
    /\ nats \in {"none", "connected", "reconnecting", "lost", "closed"}
    /\ repo \in {"none", "open", "closed"}
    /\ engine \in {"none", "running", "stopping", "stopped"}
    /\ rpcs \in BOOLEAN /\ viewers \in BOOLEAN /\ deadline \in BOOLEAN

(* The order of the deferred calls is the reverse of the flow of data: no   *)
(* tick enters a pipeline that is being closed or offers rows to a closed   *)
(* repository, and nothing is published on a connection main has closed.    *)
NoUseAfterClose ==
    /\ pc # "idle" => ~stop /\ repo # "closed"
    /\ loop = "publish" => nats # "closed"

(* A signalled server exits, with clients that stream for ever, whatever    *)
(* NATS does and wherever the tick loop and the publisher are.              *)
ServerStops == stage = "grpc" ~> (stage = "exited" \/ crashed)

(* Every snapshot, or a later one, reaches the publisher while the server   *)
(* runs: a slow or failing publish delays a snapshot but loses only those   *)
(* that a newer one replaced.                                               *)
NewestGetsOut ==
    \A n \in 1 .. MaxTicks :
        batch = n ~> (taken >= n \/ stage \notin {"listen", "serving"} \/ crashed)
=============================================================================
