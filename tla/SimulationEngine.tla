-------------------------- MODULE SimulationEngine --------------------------
(***************************************************************************)
(* The simulation engine of internal/simulator/engine.go: the tick loop    *)
(* (runLoop), the reconfiguration calls that reach it from concurrent RPC  *)
(* handlers (UpdateConfig, with Start and Stop inside), and main, which    *)
(* starts the engine before it serves and stops it after the servers have  *)
(* drained.                                                                *)
(*                                                                         *)
(* A step is what runs between two points where another goroutine can look *)
(* at the shared fields.  Time is left out: a timer that is armed may fire *)
(* at any moment, and what it was armed with is kept in period.  Where the *)
(* drones are and how they move is left out too: a population is its size, *)
(* because initDrones seeds its generator with a constant, so that the     *)
(* drones of a small population are the first ones of a larger one.        *)
(***************************************************************************)
EXTENDS Naturals, FiniteSets

CONSTANTS Handler,       \* goroutines that run a ControlSimulation RPC
          Main,          \* the goroutine of cmd/server/main.go
          Loop,          \* identities for the goroutines that run runLoop
          Free,          \* controlMu held by nobody
          Counts,        \* target_drone_count of the requests
          Intervals,     \* update_interval_ms of the requests
          MaxCount,      \* largest legal population, 10000 in the code
          MinInterval,   \* shortest and longest legal interval, 100 and
          MaxInterval,   \* 2000 ms in the code
          InitialCount,  \* cfg.TargetDroneCount and
          InitialInterval, \* cfg.UpdateIntervalMS, both validated
          MaxCalls       \* bound: RPCs issued in one behaviour

ASSUME ProcessAssumption == Main \notin Handler /\ Free \notin Handler
ASSUME RangeAssumption ==
    /\ Counts \subseteq Nat /\ Intervals \subseteq Nat
    /\ MaxCount \in Nat /\ MinInterval \in Nat /\ MaxInterval \in Nat
    /\ MaxCalls \in Nat
    /\ InitialCount \in 1 .. MaxCount
    /\ InitialInterval \in MinInterval .. MaxInterval

Process == Handler \cup {Main}

Request == [count : Counts, interval : Intervals, active : BOOLEAN]

VARIABLES
    \* the fields of SimulationEngine
    targetCount, intervalMs, active,
    drones,         \* the size of se.drones
    stopChan,       \* which channel the stopChan field holds
    configChanged,  \* does the configChanged channel hold its one token?
    controlMu,      \* the handler inside UpdateConfig, or Free
    closed,         \* the stop channels that were closed
    \* the goroutines
    pc,             \* where main and each handler are
    req,            \* the request a handler serves
    reset,          \* the reset result UpdateConfig will return
    lpc,            \* where each runLoop is; "none": not running
    period,         \* the duration its timer was last armed with
    waits,          \* the stop channel its select is blocked on
    snapshot,       \* the population of the tick it is delivering
    calls           \* RPCs issued so far

engineVars == <<targetCount, intervalMs, active, drones, stopChan,
                configChanged, controlMu, closed>>
handlerVars == <<pc, req, reset, calls>>
loopVars == <<lpc, period, waits, snapshot>>
vars == <<engineVars, handlerVars, loopVars>>

Running == {l \in Loop : lpc[l] # "none"}

\* Mutant of Valid: the interval is not checked.
Valid_AnyInterval(r) == r.count \in 1 .. MaxCount

\* The validation at the head of UpdateConfig.
Valid(r) == r.count \in 1 .. MaxCount /\ r.interval \in MinInterval .. MaxInterval

NoRequest == [count |-> InitialCount, interval |-> InitialInterval, active |-> TRUE]

Init ==
    /\ targetCount = InitialCount /\ drones = InitialCount
    /\ intervalMs = InitialInterval
    /\ active = 0
    /\ stopChan = 0 /\ closed = {}
    /\ configChanged = FALSE
    /\ controlMu = Free
    /\ pc = [p \in Process |-> IF p = Main THEN "boot" ELSE "idle"]
    /\ req = [h \in Handler |-> NoRequest]
    /\ reset = [h \in Handler |-> FALSE]
    /\ lpc = [l \in Loop |-> "none"]
    /\ period = [l \in Loop |-> InitialInterval]
    /\ waits = [l \in Loop |-> 0]
    /\ snapshot = [l \in Loop |-> InitialCount]
    /\ calls = 0

Goto(p, next) == pc' = [pc EXCEPT ![p] = next]
-----------------------------------------------------------------------------
(* Start and Stop, which main and UpdateConfig share.                      *)

\* Start, from where its compare-and-swap succeeds: go se.runLoop().
Start(p, next) ==
    /\ active = 0
    /\ active' = 1
    /\ \E l \in Loop \ Running : lpc' = [lpc EXCEPT ![l] = "born"]
    /\ Goto(p, next)
    /\ UNCHANGED <<targetCount, intervalMs, drones, stopChan, configChanged,
                   controlMu, closed, req, reset, calls, period, waits, snapshot>>

\* Stop, from where its compare-and-swap succeeds, in three steps.
StopSwap(p) ==
    /\ active = 1
    /\ active' = 0
    /\ Goto(p, "close")
    /\ UNCHANGED <<targetCount, intervalMs, drones, stopChan, configChanged,
                   controlMu, closed, req, reset, calls, loopVars>>

\* Mutant of StopClose: the loop is never told.
StopClose_Silent(p) ==
    /\ pc[p] = "close"
    /\ Goto(p, "wait")
    /\ UNCHANGED <<engineVars, req, reset, calls, loopVars>>

StopClose(p) ==
    /\ pc[p] = "close"
    /\ closed' = closed \cup {stopChan}
    /\ Goto(p, "wait")
    /\ UNCHANGED <<targetCount, intervalMs, active, drones, stopChan,
                   configChanged, controlMu, req, reset, calls, loopVars>>

\* Mutant of StopWait: Stop returns without waiting for the loop.
StopWait_NoWait(p) ==
    /\ pc[p] = "wait"
    /\ Goto(p, IF p = Main THEN "exited" ELSE "unlock")
    /\ UNCHANGED <<engineVars, req, reset, calls, loopVars>>

\* wg counts the loops that run: Wait returns when there is none.
StopWait(p) ==
    /\ pc[p] = "wait"
    /\ Running = {}
    /\ Goto(p, IF p = Main THEN "exited" ELSE "unlock")
    /\ UNCHANGED <<engineVars, req, reset, calls, loopVars>>
-----------------------------------------------------------------------------
(* UpdateConfig, called by handler h.                                      *)

Call(h) ==
    /\ pc[h] = "idle" /\ pc[Main] = "serving"
    /\ calls < MaxCalls
    /\ calls' = calls + 1
    /\ \E r \in Request : req' = [req EXCEPT ![h] = r]
    /\ Goto(h, "lock")
    /\ UNCHANGED <<engineVars, reset, loopVars>>

\* An illegal request is refused under the lock and changes nothing.
Reject(h) ==
    /\ pc[h] = "lock" /\ controlMu = Free
    /\ ~Valid(req[h])
    /\ Goto(h, "idle")
    /\ UNCHANGED <<engineVars, req, reset, calls, loopVars>>

Accept(h) ==
    /\ pc[h] = "lock" /\ controlMu = Free
    /\ Valid(req[h])
    /\ controlMu' = h
    /\ reset' = [reset EXCEPT ![h] = FALSE]
    /\ Goto(h, "population")
    /\ UNCHANGED <<targetCount, intervalMs, active, drones, stopChan,
                   configChanged, closed, req, calls, loopVars>>

\* Mutant of InitDrones: only the reported count changes.
InitDrones_CountOnly(h) ==
    /\ pc[h] = "population"
    /\ req[h].count # targetCount
    /\ Goto(h, "storeCount")
    /\ UNCHANGED <<engineVars, req, reset, calls, loopVars>>

\* initDrones replaces the population under mu; the atomic targetCount that
\* other goroutines read follows in a step of its own.
InitDrones(h) ==
    /\ pc[h] = "population"
    /\ req[h].count # targetCount
    /\ drones' = req[h].count
    /\ Goto(h, "storeCount")
    /\ UNCHANGED <<targetCount, intervalMs, active, stopChan, configChanged,
                   controlMu, closed, req, reset, calls, loopVars>>

StoreCount(h) ==
    /\ pc[h] = "storeCount"
    /\ targetCount' = req[h].count
    /\ reset' = [reset EXCEPT ![h] = TRUE]
    /\ Goto(h, "interval")
    /\ UNCHANGED <<intervalMs, active, drones, stopChan, configChanged,
                   controlMu, closed, req, calls, loopVars>>

KeepDrones(h) ==
    /\ pc[h] = "population"
    /\ req[h].count = targetCount
    /\ Goto(h, "interval")
    /\ UNCHANGED <<engineVars, req, reset, calls, loopVars>>

StoreInterval(h) ==
    /\ pc[h] = "interval"
    /\ req[h].interval # intervalMs
    /\ intervalMs' = req[h].interval
    /\ Goto(h, "notify")
    /\ UNCHANGED <<targetCount, active, drones, stopChan, configChanged,
                   controlMu, closed, req, reset, calls, loopVars>>

\* The non-blocking send: a token that is already there does for both.
Notify(h) ==
    /\ pc[h] = "notify"
    /\ configChanged' = TRUE
    /\ Goto(h, "activate")
    /\ UNCHANGED <<targetCount, intervalMs, active, drones, stopChan,
                   controlMu, closed, req, reset, calls, loopVars>>

KeepInterval(h) ==
    /\ pc[h] = "interval"
    /\ req[h].interval = intervalMs
    /\ Goto(h, "activate")
    /\ UNCHANGED <<engineVars, req, reset, calls, loopVars>>

\* Mutant of MakeStopChan: Start runs on the channel the last Stop closed.
MakeStopChan_Reuse(h) ==
    /\ pc[h] = "activate"
    /\ req[h].active /\ active = 0
    /\ Goto(h, "start")
    /\ UNCHANGED <<engineVars, req, reset, calls, loopVars>>

\* Resuming needs a stop channel that was never closed.
MakeStopChan(h) ==
    /\ pc[h] = "activate"
    /\ req[h].active /\ active = 0
    /\ stopChan' = stopChan + 1
    /\ Goto(h, "start")
    /\ UNCHANGED <<targetCount, intervalMs, active, drones, configChanged,
                   controlMu, closed, req, reset, calls, loopVars>>

Resume(h) == pc[h] = "start" /\ Start(h, "unlock")

Pause(h) ==
    /\ pc[h] = "activate"
    /\ ~req[h].active
    /\ StopSwap(h)

KeepActive(h) ==
    /\ pc[h] = "activate"
    /\ req[h].active <=> active = 1
    /\ Goto(h, "unlock")
    /\ UNCHANGED <<engineVars, req, reset, calls, loopVars>>

Return(h) ==
    /\ pc[h] = "unlock"
    /\ controlMu' = Free
    /\ Goto(h, "idle")
    /\ UNCHANGED <<targetCount, intervalMs, active, drones, stopChan,
                   configChanged, closed, req, reset, calls, loopVars>>

UpdateConfig(h) ==
    \/ Reject(h) \/ Accept(h)
    \/ InitDrones(h) \/ StoreCount(h) \/ KeepDrones(h)
    \/ StoreInterval(h) \/ Notify(h) \/ KeepInterval(h)
    \/ MakeStopChan(h) \/ Resume(h)
    \/ Pause(h) \/ StopClose(h) \/ StopWait(h)
    \/ KeepActive(h)
    \/ Return(h)
-----------------------------------------------------------------------------
(* runLoop, on goroutine l.                                                *)

\* time.NewTimer, and resetTimer after a tick or a token: the timer is armed
\* with the interval as it is now, and nothing it had pending survives.
Arm(l) ==
    /\ lpc[l] \in {"born", "rearm"}
    /\ period' = [period EXCEPT ![l] = intervalMs]
    /\ lpc' = [lpc EXCEPT ![l] = "top"]
    /\ UNCHANGED <<engineVars, handlerVars, waits, snapshot>>

\* select evaluates the stopChan field once, then blocks on its value.
Block(l) ==
    /\ lpc[l] = "top"
    /\ waits' = [waits EXCEPT ![l] = stopChan]
    /\ lpc' = [lpc EXCEPT ![l] = "select"]
    /\ UNCHANGED <<engineVars, handlerVars, period, snapshot>>

SeeStop(l) ==
    /\ lpc[l] = "select"
    /\ waits[l] \in closed
    /\ lpc' = [lpc EXCEPT ![l] = "none"]
    /\ UNCHANGED <<engineVars, handlerVars, period, waits, snapshot>>

\* Mutant of SeeConfigChanged: the token is consumed, the timer kept.
SeeConfigChanged_NoRearm(l) ==
    /\ lpc[l] = "select"
    /\ configChanged
    /\ configChanged' = FALSE
    /\ lpc' = [lpc EXCEPT ![l] = "top"]
    /\ UNCHANGED <<targetCount, intervalMs, active, drones, stopChan, controlMu,
                   closed, handlerVars, period, waits, snapshot>>

SeeConfigChanged(l) ==
    /\ lpc[l] = "select"
    /\ configChanged
    /\ configChanged' = FALSE
    /\ lpc' = [lpc EXCEPT ![l] = "rearm"]
    /\ UNCHANGED <<targetCount, intervalMs, active, drones, stopChan, controlMu,
                   closed, handlerVars, period, waits, snapshot>>

\* The timer fires: generateSnapshot copies the population under mu.
Tick(l) ==
    /\ lpc[l] = "select"
    /\ snapshot' = [snapshot EXCEPT ![l] = drones]
    /\ lpc' = [lpc EXCEPT ![l] = "deliver"]
    /\ UNCHANGED <<engineVars, handlerVars, period, waits>>

\* sink.ConsumeBatch, outside mu.
Deliver(l) ==
    /\ lpc[l] = "deliver"
    /\ lpc' = [lpc EXCEPT ![l] = "rearm"]
    /\ UNCHANGED <<engineVars, handlerVars, period, waits, snapshot>>

runLoop(l) == \/ Arm(l) \/ Block(l)
              \/ SeeStop(l) \/ SeeConfigChanged(l) \/ Tick(l)
              \/ Deliver(l)
-----------------------------------------------------------------------------
(* main: Start before the listeners open; Stop, deferred, once the servers  *)
(* have drained.  An UpdateConfig in flight takes far less than the five    *)
(* seconds GracefulStop waits for it, and after GracefulStop none begins.   *)
Boot == pc[Main] = "boot" /\ Start(Main, "serving")

Shutdown ==
    /\ pc[Main] = "serving"
    /\ \A h \in Handler : pc[h] = "idle"
    /\ \/ StopSwap(Main)
       \/ /\ active = 0
          /\ Goto(Main, "exited")
          /\ UNCHANGED <<engineVars, req, reset, calls, loopVars>>

Finish == StopClose(Main) \/ StopWait(Main)

\* The process is gone.
Exited == pc[Main] = "exited" /\ UNCHANGED vars

Next == \/ \E h \in Handler : Call(h) \/ UpdateConfig(h)
        \/ \E l \in Loop : runLoop(l)
        \/ Boot \/ Shutdown \/ Finish \/ Exited

Spec == Init /\ [][Next]_vars

(* The Go scheduler runs every goroutine that can run, a mutex is handed to *)
(* a waiter, and select does not ignore a closed channel for ever in favour *)
(* of a timer that has only just been rearmed.                              *)
Fairness ==
    /\ WF_vars(Boot) /\ WF_vars(Finish)
    /\ \A h \in Handler : WF_vars(UpdateConfig(h))
    /\ \A l \in Loop : WF_vars(runLoop(l)) /\ SF_vars(SeeStop(l))

LiveSpec == Spec /\ Fairness
-----------------------------------------------------------------------------
Critical == {"population", "storeCount", "interval", "notify", "activate",
             "start", "close", "wait", "unlock"}

TypeOK ==
    /\ targetCount \in 1 .. MaxCount /\ drones \in 1 .. MaxCount
    /\ intervalMs \in MinInterval .. MaxInterval
    /\ active \in {0, 1}
    /\ stopChan \in Nat /\ closed \subseteq 0 .. stopChan
    /\ configChanged \in BOOLEAN
    /\ controlMu \in Handler \cup {Free}
    /\ pc \in [Process -> {"boot", "serving", "exited", "idle", "lock"} \cup Critical]
    /\ req \in [Handler -> Request \cup {NoRequest}]
    /\ reset \in [Handler -> BOOLEAN]
    /\ lpc \in [Loop -> {"none", "born", "top", "select", "deliver", "rearm"}]
    /\ period \in [Loop -> MinInterval .. MaxInterval]
    /\ waits \in [Loop -> Nat]
    /\ snapshot \in [Loop -> 1 .. MaxCount]
    /\ calls \in 0 .. MaxCalls

(* Pausing and resuming from concurrent RPCs never leaves two tick loops    *)
(* writing to the sink: ConsumeBatch, which is not synchronised, relies on  *)
(* having one caller.                                                       *)
OneLoop == \A l, m \in Running : l = m

(* Between two reconfigurations the active flag that /healthz reports tells *)
(* the truth: paused means that no loop is left that could still deliver a  *)
(* tick, active means that a loop runs and that its stop channel is open.   *)
ActiveIsTrue ==
    controlMu = Free /\ pc[Main] = "serving" =>
        /\ active = 0 => Running = {}
        /\ active = 1 => Running # {} /\ stopChan \notin closed

(* Stop never closes a channel twice, which would panic.                    *)
NoDoubleClose ==
    \A p \in Process : pc[p] = "close" => stopChan \notin closed

(* No interval change is lost: a loop that is about to block, or blocks, on *)
(* a timer armed with an old interval will be told, because the token is in *)
(* the channel or the handler that stored the interval is about to send it. *)
NoLostInterval ==
    \A l \in Running :
        lpc[l] \in {"top", "select"} /\ period[l] # intervalMs =>
            configChanged \/ \E h \in Handler : pc[h] = "notify"

(* Every reconfiguration returns, and so does the Stop of main: a Stop,     *)
(* which waits for the loop and may hold controlMu while it does, never     *)
(* waits for a loop that waits for it.                                      *)
EveryCallReturns ==
    /\ \A h \in Handler : pc[h] = "lock" ~> pc[h] = "idle"
    /\ pc[Main] = "close" ~> pc[Main] = "exited"

(* A running engine keeps ticking as it was asked to: after the last        *)
(* reconfiguration its ticks go on for as long as it is active, and from    *)
(* some moment on each is of targetCount drones and comes after the         *)
(* interval that was last accepted.                                         *)
KeepsTicking ==
    <>[](active = 1) =>
        /\ []<>(\E l \in Running : lpc[l] = "deliver")
        /\ <>[](\A l \in Running :
                  lpc[l] = "deliver" =>
                      snapshot[l] = targetCount /\ period[l] = intervalMs)
=============================================================================
