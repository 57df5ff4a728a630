------------------------ MODULE ControlPlane_proofs -------------------------
(***************************************************************************)
(* First the engine, for any set of handlers, any ranges and any number of *)
(* reconfigurations: it never runs two loops, its active flag tells the    *)
(* truth, no stop channel is closed twice and no interval change is lost.  *)
(* Then what the cache can rely on, for any number of shards and drones.   *)
(* The argument has two halves: the composition takes no step the engine   *)
(* would not take, so the engine's invariant holds in it; and with one     *)
(* tick loop, the tick being delivered is always the latest one.           *)
(***************************************************************************)
EXTENDS ControlPlane, TLAPS

USE ProcessAssumption, RangeAssumption

\* controlMu excludes, and only a validated request gets past it.
MutexInv ==
    \A h \in Handler :
        /\ pc[h] \in {"idle", "lock"} \cup Critical
        /\ pc[h] \in Critical <=> controlMu = h
        /\ pc[h] \in Critical => Valid(req[h])

\* Handlers work only while main serves.
MainInv ==
    /\ pc[Main] \in {"boot", "serving", "close", "wait", "exited"}
    /\ pc[Main] # "serving" => \A h \in Handler : pc[h] = "idle"
    /\ pc[Main] = "boot" => active = 0 /\ Running = {} /\ stopChan \notin closed

\* How active, the loop and the stop channel follow each other through a Start
\* or a Stop.
StopInv ==
    /\ active = 1 => Running # {} /\ stopChan \notin closed
    /\ active = 0 /\ Running # {} => \E p \in Process : pc[p] \in {"close", "wait"}
    /\ \A p \in Process :
         /\ pc[p] = "close" => active = 0 /\ stopChan \notin closed
         /\ pc[p] = "wait" => active = 0
         /\ pc[p] = "start" => active = 0 /\ Running = {} /\ stopChan \notin closed
    /\ \A l \in Loop : lpc[l] = "select" => waits[l] = stopChan

(* The inductive invariant.                                                 *)
EngineInv ==
    TypeOK /\ MutexInv /\ MainInv /\ StopInv /\ OneLoop /\ NoLostInterval

(* The engine as NewSimulationEngine makes it satisfies the invariant.      *)
LEMMA InitInv == Init => EngineInv
<1> SUFFICES ASSUME Init PROVE EngineInv
  OBVIOUS
<1>1. TypeOK
  <2>1. /\ targetCount \in 1 .. MaxCount /\ drones \in 1 .. MaxCount
        /\ intervalMs \in MinInterval .. MaxInterval
        /\ active \in {0, 1}
        /\ stopChan \in Nat /\ closed \subseteq 0 .. stopChan
        /\ configChanged \in BOOLEAN
        /\ controlMu \in Handler \cup {Free}
        /\ calls \in 0 .. MaxCalls
    <3>1. /\ targetCount = InitialCount /\ drones = InitialCount
          /\ intervalMs = InitialInterval /\ active = 0
          /\ stopChan = 0 /\ closed = {} /\ configChanged = FALSE
          /\ controlMu = Free /\ calls = 0
      BY DEF Init
    <3>2. closed \subseteq 0 .. stopChan /\ calls \in 0 .. MaxCalls  BY <3>1
    <3>3. /\ targetCount \in 1 .. MaxCount /\ drones \in 1 .. MaxCount
          /\ intervalMs \in MinInterval .. MaxInterval
      BY <3>1
    <3> QED  BY <3>1, <3>2, <3>3
  <2>2. pc \in [Process -> {"boot", "serving", "exited", "idle", "lock"} \cup Critical]
    BY DEF Init
  <2>3. /\ req \in [Handler -> Request \cup {NoRequest}]
        /\ reset \in [Handler -> BOOLEAN]
    BY DEF Init
  <2>4. /\ lpc \in [Loop -> {"none", "born", "top", "select", "deliver", "rearm"}]
        /\ period \in [Loop -> MinInterval .. MaxInterval]
        /\ waits \in [Loop -> Nat]
        /\ snapshot \in [Loop -> 1 .. MaxCount]
    BY DEF Init
  <2> QED  BY <2>1, <2>2, <2>3, <2>4 DEF TypeOK
<1>2. Running = {}  BY DEF Init, Running
<1>3. MutexInv  BY DEF Init, MutexInv, Process, Critical
<1>4. MainInv  BY <1>2 DEF Init, MainInv, Process
<1>5. StopInv  BY <1>2 DEF Init, StopInv, Process
<1>6. OneLoop /\ NoLostInterval  BY <1>2 DEF OneLoop, NoLostInterval
<1> QED  BY <1>1, <1>3, <1>4, <1>5, <1>6 DEF EngineInv

(* A step keeps the types.                                                  *)
LEMMA TypeStep ==
    ASSUME EngineInv, [Next]_vars
    PROVE  TypeOK'
<1> USE DEF TypeOK, EngineInv, MutexInv, Process, Critical, Valid,
           Goto, engineVars, loopVars, handlerVars
<1>1. ASSUME NEW h \in Handler, Call(h) PROVE TypeOK'
  BY <1>1 DEF Call
<1>2. ASSUME NEW h \in Handler, Reject(h) PROVE TypeOK'
  BY <1>2 DEF Reject
<1>3. ASSUME NEW h \in Handler, Accept(h) PROVE TypeOK'
  BY <1>3 DEF Accept
<1>4. ASSUME NEW h \in Handler, InitDrones(h) PROVE TypeOK'
  BY <1>4 DEF InitDrones
<1>5. ASSUME NEW h \in Handler, StoreCount(h) PROVE TypeOK'
  BY <1>5 DEF StoreCount
<1>6. ASSUME NEW h \in Handler, KeepDrones(h) PROVE TypeOK'
  BY <1>6 DEF KeepDrones
<1>7. ASSUME NEW h \in Handler, StoreInterval(h) PROVE TypeOK'
  BY <1>7 DEF StoreInterval
<1>8. ASSUME NEW h \in Handler, Notify(h) PROVE TypeOK'
  BY <1>8 DEF Notify
<1>9. ASSUME NEW h \in Handler, KeepInterval(h) PROVE TypeOK'
  BY <1>9 DEF KeepInterval
<1>10. ASSUME NEW h \in Handler, MakeStopChan(h) PROVE TypeOK'
  BY <1>10 DEF MakeStopChan
<1>11. ASSUME NEW h \in Handler, Resume(h) PROVE TypeOK'
  BY <1>11 DEF Resume, Start
<1>12. ASSUME NEW h \in Handler, Pause(h) PROVE TypeOK'
  BY <1>12 DEF Pause, StopSwap
<1>13. ASSUME NEW h \in Handler, KeepActive(h) PROVE TypeOK'
  BY <1>13 DEF KeepActive
<1>14. ASSUME NEW h \in Handler, Return(h) PROVE TypeOK'
  BY <1>14 DEF Return
<1>15. ASSUME NEW p \in Process, StopClose(p) PROVE TypeOK'
  BY <1>15 DEF StopClose
<1>16. ASSUME NEW p \in Process, StopWait(p) PROVE TypeOK'
  BY <1>16 DEF StopWait
<1>17. ASSUME NEW l \in Loop, Arm(l) PROVE TypeOK'
  BY <1>17 DEF Arm
<1>18. ASSUME NEW l \in Loop, Block(l) PROVE TypeOK'
  BY <1>18 DEF Block
<1>19. ASSUME NEW l \in Loop, SeeStop(l) PROVE TypeOK'
  BY <1>19 DEF SeeStop
<1>20. ASSUME NEW l \in Loop, SeeConfigChanged(l) PROVE TypeOK'
  BY <1>20 DEF SeeConfigChanged
<1>21. ASSUME NEW l \in Loop, Tick(l) PROVE TypeOK'
  BY <1>21 DEF Tick
<1>22. ASSUME NEW l \in Loop, Deliver(l) PROVE TypeOK'
  BY <1>22 DEF Deliver
<1>23. ASSUME Boot PROVE TypeOK'
  BY <1>23 DEF Boot, Start
<1>24. ASSUME Shutdown PROVE TypeOK'
  BY <1>24 DEF Shutdown, StopSwap
<1>25. CASE UNCHANGED vars
  BY <1>25 DEF vars
<1> QED
  BY <1>1, <1>2, <1>3, <1>4, <1>5, <1>6, <1>7, <1>8, <1>9, <1>10, <1>11, <1>12, <1>13, <1>14, <1>15, <1>16, <1>17, <1>18, <1>19, <1>20, <1>21, <1>22, <1>23, <1>24, <1>25
     DEF Next, UpdateConfig, runLoop, Finish, Exited, Process

(* A step keeps the mutual exclusion of controlMu.                          *)
LEMMA MutexStep ==
    ASSUME EngineInv, [Next]_vars
    PROVE  MutexInv'
<1> USE DEF MutexInv, TypeOK, EngineInv, Process, Critical, Valid,
           Goto, engineVars, loopVars, handlerVars
<1>1. ASSUME NEW h \in Handler, Call(h) PROVE MutexInv'
  BY <1>1 DEF Call
<1>2. ASSUME NEW h \in Handler, Reject(h) PROVE MutexInv'
  BY <1>2 DEF Reject
<1>3. ASSUME NEW h \in Handler, Accept(h) PROVE MutexInv'
  BY <1>3 DEF Accept
<1>4. ASSUME NEW h \in Handler, InitDrones(h) PROVE MutexInv'
  BY <1>4 DEF InitDrones
<1>5. ASSUME NEW h \in Handler, StoreCount(h) PROVE MutexInv'
  BY <1>5 DEF StoreCount
<1>6. ASSUME NEW h \in Handler, KeepDrones(h) PROVE MutexInv'
  BY <1>6 DEF KeepDrones
<1>7. ASSUME NEW h \in Handler, StoreInterval(h) PROVE MutexInv'
  BY <1>7 DEF StoreInterval
<1>8. ASSUME NEW h \in Handler, Notify(h) PROVE MutexInv'
  BY <1>8 DEF Notify
<1>9. ASSUME NEW h \in Handler, KeepInterval(h) PROVE MutexInv'
  BY <1>9 DEF KeepInterval
<1>10. ASSUME NEW h \in Handler, MakeStopChan(h) PROVE MutexInv'
  BY <1>10 DEF MakeStopChan
<1>11. ASSUME NEW h \in Handler, Resume(h) PROVE MutexInv'
  BY <1>11 DEF Resume, Start
<1>12. ASSUME NEW h \in Handler, Pause(h) PROVE MutexInv'
  BY <1>12 DEF Pause, StopSwap
<1>13. ASSUME NEW h \in Handler, KeepActive(h) PROVE MutexInv'
  BY <1>13 DEF KeepActive
<1>14. ASSUME NEW h \in Handler, Return(h) PROVE MutexInv'
  BY <1>14 DEF Return
<1>15. ASSUME NEW p \in Process, StopClose(p) PROVE MutexInv'
  BY <1>15 DEF StopClose
<1>16. ASSUME NEW p \in Process, StopWait(p) PROVE MutexInv'
  BY <1>16 DEF StopWait
<1>17. ASSUME NEW l \in Loop, Arm(l) PROVE MutexInv'
  BY <1>17 DEF Arm
<1>18. ASSUME NEW l \in Loop, Block(l) PROVE MutexInv'
  BY <1>18 DEF Block
<1>19. ASSUME NEW l \in Loop, SeeStop(l) PROVE MutexInv'
  BY <1>19 DEF SeeStop
<1>20. ASSUME NEW l \in Loop, SeeConfigChanged(l) PROVE MutexInv'
  BY <1>20 DEF SeeConfigChanged
<1>21. ASSUME NEW l \in Loop, Tick(l) PROVE MutexInv'
  BY <1>21 DEF Tick
<1>22. ASSUME NEW l \in Loop, Deliver(l) PROVE MutexInv'
  BY <1>22 DEF Deliver
<1>23. ASSUME Boot PROVE MutexInv'
  BY <1>23 DEF Boot, Start
<1>24. ASSUME Shutdown PROVE MutexInv'
  BY <1>24 DEF Shutdown, StopSwap
<1>25. CASE UNCHANGED vars
  BY <1>25 DEF vars
<1> QED
  BY <1>1, <1>2, <1>3, <1>4, <1>5, <1>6, <1>7, <1>8, <1>9, <1>10, <1>11, <1>12, <1>13, <1>14, <1>15, <1>16, <1>17, <1>18, <1>19, <1>20, <1>21, <1>22, <1>23, <1>24, <1>25
     DEF Next, UpdateConfig, runLoop, Finish, Exited, Process

(* A step keeps handlers inside the time main serves.                       *)
LEMMA MainStep ==
    ASSUME EngineInv, [Next]_vars
    PROVE  MainInv'
<1> USE DEF MainInv, MutexInv, TypeOK, EngineInv, Process, Critical, Running,
           Goto, engineVars, loopVars, handlerVars
<1>1. ASSUME NEW h \in Handler, Call(h) PROVE MainInv'
  BY <1>1 DEF Call
<1>2. ASSUME NEW h \in Handler, Reject(h) PROVE MainInv'
  BY <1>2 DEF Reject
<1>3. ASSUME NEW h \in Handler, Accept(h) PROVE MainInv'
  BY <1>3 DEF Accept
<1>4. ASSUME NEW h \in Handler, InitDrones(h) PROVE MainInv'
  BY <1>4 DEF InitDrones
<1>5. ASSUME NEW h \in Handler, StoreCount(h) PROVE MainInv'
  BY <1>5 DEF StoreCount
<1>6. ASSUME NEW h \in Handler, KeepDrones(h) PROVE MainInv'
  BY <1>6 DEF KeepDrones
<1>7. ASSUME NEW h \in Handler, StoreInterval(h) PROVE MainInv'
  BY <1>7 DEF StoreInterval
<1>8. ASSUME NEW h \in Handler, Notify(h) PROVE MainInv'
  BY <1>8 DEF Notify
<1>9. ASSUME NEW h \in Handler, KeepInterval(h) PROVE MainInv'
  BY <1>9 DEF KeepInterval
<1>10. ASSUME NEW h \in Handler, MakeStopChan(h) PROVE MainInv'
  BY <1>10 DEF MakeStopChan
<1>11. ASSUME NEW h \in Handler, Resume(h) PROVE MainInv'
  BY <1>11 DEF Resume, Start
<1>12. ASSUME NEW h \in Handler, Pause(h) PROVE MainInv'
  BY <1>12 DEF Pause, StopSwap
<1>13. ASSUME NEW h \in Handler, KeepActive(h) PROVE MainInv'
  BY <1>13 DEF KeepActive
<1>14. ASSUME NEW h \in Handler, Return(h) PROVE MainInv'
  BY <1>14 DEF Return
<1>15. ASSUME NEW p \in Process, StopClose(p) PROVE MainInv'
  BY <1>15 DEF StopClose
<1>16. ASSUME NEW p \in Process, StopWait(p) PROVE MainInv'
  BY <1>16 DEF StopWait
<1>17. ASSUME NEW l \in Loop, Arm(l) PROVE MainInv'
  BY <1>17 DEF Arm
<1>18. ASSUME NEW l \in Loop, Block(l) PROVE MainInv'
  BY <1>18 DEF Block
<1>19. ASSUME NEW l \in Loop, SeeStop(l) PROVE MainInv'
  BY <1>19 DEF SeeStop
<1>20. ASSUME NEW l \in Loop, SeeConfigChanged(l) PROVE MainInv'
  BY <1>20 DEF SeeConfigChanged
<1>21. ASSUME NEW l \in Loop, Tick(l) PROVE MainInv'
  BY <1>21 DEF Tick
<1>22. ASSUME NEW l \in Loop, Deliver(l) PROVE MainInv'
  BY <1>22 DEF Deliver
<1>23. ASSUME Boot PROVE MainInv'
  BY <1>23 DEF Boot, Start
<1>24. ASSUME Shutdown PROVE MainInv'
  BY <1>24 DEF Shutdown, StopSwap
<1>25. CASE UNCHANGED vars
  BY <1>25 DEF vars
<1> QED
  BY <1>1, <1>2, <1>3, <1>4, <1>5, <1>6, <1>7, <1>8, <1>9, <1>10, <1>11, <1>12, <1>13, <1>14, <1>15, <1>16, <1>17, <1>18, <1>19, <1>20, <1>21, <1>22, <1>23, <1>24, <1>25
     DEF Next, UpdateConfig, runLoop, Finish, Exited, Process

(* A step keeps active, the loop and the stop channel in agreement.         *)
LEMMA StopStep ==
    ASSUME EngineInv, [Next]_vars
    PROVE  StopInv'
<1> USE DEF StopInv, MainInv, MutexInv, TypeOK, EngineInv, Process, Critical, Running,
           Goto, engineVars, loopVars, handlerVars
<1>1. ASSUME NEW h \in Handler, Call(h) PROVE StopInv'
  BY <1>1 DEF Call
<1>2. ASSUME NEW h \in Handler, Reject(h) PROVE StopInv'
  BY <1>2 DEF Reject
<1>3. ASSUME NEW h \in Handler, Accept(h) PROVE StopInv'
  BY <1>3 DEF Accept
<1>4. ASSUME NEW h \in Handler, InitDrones(h) PROVE StopInv'
  BY <1>4 DEF InitDrones
<1>5. ASSUME NEW h \in Handler, StoreCount(h) PROVE StopInv'
  BY <1>5 DEF StoreCount
<1>6. ASSUME NEW h \in Handler, KeepDrones(h) PROVE StopInv'
  BY <1>6 DEF KeepDrones
<1>7. ASSUME NEW h \in Handler, StoreInterval(h) PROVE StopInv'
  BY <1>7 DEF StoreInterval
<1>8. ASSUME NEW h \in Handler, Notify(h) PROVE StopInv'
  BY <1>8 DEF Notify
<1>9. ASSUME NEW h \in Handler, KeepInterval(h) PROVE StopInv'
  BY <1>9 DEF KeepInterval
<1>10. ASSUME NEW h \in Handler, MakeStopChan(h) PROVE StopInv'
  BY <1>10 DEF MakeStopChan
<1>11. ASSUME NEW h \in Handler, Resume(h) PROVE StopInv'
  BY <1>11 DEF Resume, Start
<1>12. ASSUME NEW h \in Handler, Pause(h) PROVE StopInv'
  BY <1>12 DEF Pause, StopSwap
<1>13. ASSUME NEW h \in Handler, KeepActive(h) PROVE StopInv'
  BY <1>13 DEF KeepActive
<1>14. ASSUME NEW h \in Handler, Return(h) PROVE StopInv'
  BY <1>14 DEF Return
<1>15. ASSUME NEW p \in Process, StopClose(p) PROVE StopInv'
  BY <1>15 DEF StopClose
<1>16. ASSUME NEW p \in Process, StopWait(p) PROVE StopInv'
  BY <1>16 DEF StopWait
<1>17. ASSUME NEW l \in Loop, Arm(l) PROVE StopInv'
  BY <1>17 DEF Arm
<1>18. ASSUME NEW l \in Loop, Block(l) PROVE StopInv'
  BY <1>18 DEF Block
<1>19. ASSUME NEW l \in Loop, SeeStop(l) PROVE StopInv'
  BY <1>19 DEF SeeStop
<1>20. ASSUME NEW l \in Loop, SeeConfigChanged(l) PROVE StopInv'
  BY <1>20 DEF SeeConfigChanged
<1>21. ASSUME NEW l \in Loop, Tick(l) PROVE StopInv'
  BY <1>21 DEF Tick
<1>22. ASSUME NEW l \in Loop, Deliver(l) PROVE StopInv'
  BY <1>22 DEF Deliver
<1>23. ASSUME Boot PROVE StopInv'
  BY <1>23 DEF Boot, Start
<1>24. ASSUME Shutdown PROVE StopInv'
  BY <1>24 DEF Shutdown, StopSwap
<1>25. CASE UNCHANGED vars
  BY <1>25 DEF vars
<1> QED
  BY <1>1, <1>2, <1>3, <1>4, <1>5, <1>6, <1>7, <1>8, <1>9, <1>10, <1>11, <1>12, <1>13, <1>14, <1>15, <1>16, <1>17, <1>18, <1>19, <1>20, <1>21, <1>22, <1>23, <1>24, <1>25
     DEF Next, UpdateConfig, runLoop, Finish, Exited, Process

(* A step never starts a second loop.                                      *)
LEMMA OneLoopStep ==
    ASSUME EngineInv, [Next]_vars
    PROVE  OneLoop'
<1> USE DEF OneLoop, StopInv, MainInv, MutexInv, TypeOK, EngineInv, Process, Critical, Running,
           Goto, engineVars, loopVars, handlerVars
<1>1. ASSUME NEW h \in Handler, Call(h) PROVE OneLoop'
  BY <1>1 DEF Call
<1>2. ASSUME NEW h \in Handler, Reject(h) PROVE OneLoop'
  BY <1>2 DEF Reject
<1>3. ASSUME NEW h \in Handler, Accept(h) PROVE OneLoop'
  BY <1>3 DEF Accept
<1>4. ASSUME NEW h \in Handler, InitDrones(h) PROVE OneLoop'
  BY <1>4 DEF InitDrones
<1>5. ASSUME NEW h \in Handler, StoreCount(h) PROVE OneLoop'
  BY <1>5 DEF StoreCount
<1>6. ASSUME NEW h \in Handler, KeepDrones(h) PROVE OneLoop'
  BY <1>6 DEF KeepDrones
<1>7. ASSUME NEW h \in Handler, StoreInterval(h) PROVE OneLoop'
  BY <1>7 DEF StoreInterval
<1>8. ASSUME NEW h \in Handler, Notify(h) PROVE OneLoop'
  BY <1>8 DEF Notify
<1>9. ASSUME NEW h \in Handler, KeepInterval(h) PROVE OneLoop'
  BY <1>9 DEF KeepInterval
<1>10. ASSUME NEW h \in Handler, MakeStopChan(h) PROVE OneLoop'
  BY <1>10 DEF MakeStopChan
<1>11. ASSUME NEW h \in Handler, Resume(h) PROVE OneLoop'
  BY <1>11 DEF Resume, Start
<1>12. ASSUME NEW h \in Handler, Pause(h) PROVE OneLoop'
  BY <1>12 DEF Pause, StopSwap
<1>13. ASSUME NEW h \in Handler, KeepActive(h) PROVE OneLoop'
  BY <1>13 DEF KeepActive
<1>14. ASSUME NEW h \in Handler, Return(h) PROVE OneLoop'
  BY <1>14 DEF Return
<1>15. ASSUME NEW p \in Process, StopClose(p) PROVE OneLoop'
  BY <1>15 DEF StopClose
<1>16. ASSUME NEW p \in Process, StopWait(p) PROVE OneLoop'
  BY <1>16 DEF StopWait
<1>17. ASSUME NEW l \in Loop, Arm(l) PROVE OneLoop'
  BY <1>17 DEF Arm
<1>18. ASSUME NEW l \in Loop, Block(l) PROVE OneLoop'
  BY <1>18 DEF Block
<1>19. ASSUME NEW l \in Loop, SeeStop(l) PROVE OneLoop'
  BY <1>19 DEF SeeStop
<1>20. ASSUME NEW l \in Loop, SeeConfigChanged(l) PROVE OneLoop'
  BY <1>20 DEF SeeConfigChanged
<1>21. ASSUME NEW l \in Loop, Tick(l) PROVE OneLoop'
  BY <1>21 DEF Tick
<1>22. ASSUME NEW l \in Loop, Deliver(l) PROVE OneLoop'
  BY <1>22 DEF Deliver
<1>23. ASSUME Boot PROVE OneLoop'
  BY <1>23 DEF Boot, Start
<1>24. ASSUME Shutdown PROVE OneLoop'
  BY <1>24 DEF Shutdown, StopSwap
<1>25. CASE UNCHANGED vars
  BY <1>25 DEF vars
<1> QED
  BY <1>1, <1>2, <1>3, <1>4, <1>5, <1>6, <1>7, <1>8, <1>9, <1>10, <1>11, <1>12, <1>13, <1>14, <1>15, <1>16, <1>17, <1>18, <1>19, <1>20, <1>21, <1>22, <1>23, <1>24, <1>25
     DEF Next, UpdateConfig, runLoop, Finish, Exited, Process

(* A step never loses an interval change.                                   *)
LEMMA IntervalStep ==
    ASSUME EngineInv, [Next]_vars
    PROVE  NoLostInterval'
<1> USE DEF NoLostInterval, OneLoop, StopInv, MainInv, MutexInv, TypeOK, EngineInv, Process, Critical, Running,
           Goto, engineVars, loopVars, handlerVars
<1>1. ASSUME NEW h \in Handler, Call(h) PROVE NoLostInterval'
  BY <1>1 DEF Call
<1>2. ASSUME NEW h \in Handler, Reject(h) PROVE NoLostInterval'
  BY <1>2 DEF Reject
<1>3. ASSUME NEW h \in Handler, Accept(h) PROVE NoLostInterval'
  BY <1>3 DEF Accept
<1>4. ASSUME NEW h \in Handler, InitDrones(h) PROVE NoLostInterval'
  BY <1>4 DEF InitDrones
<1>5. ASSUME NEW h \in Handler, StoreCount(h) PROVE NoLostInterval'
  BY <1>5 DEF StoreCount
<1>6. ASSUME NEW h \in Handler, KeepDrones(h) PROVE NoLostInterval'
  BY <1>6 DEF KeepDrones
<1>7. ASSUME NEW h \in Handler, StoreInterval(h) PROVE NoLostInterval'
  BY <1>7 DEF StoreInterval
<1>8. ASSUME NEW h \in Handler, Notify(h) PROVE NoLostInterval'
  BY <1>8 DEF Notify
<1>9. ASSUME NEW h \in Handler, KeepInterval(h) PROVE NoLostInterval'
  BY <1>9 DEF KeepInterval
<1>10. ASSUME NEW h \in Handler, MakeStopChan(h) PROVE NoLostInterval'
  BY <1>10 DEF MakeStopChan
<1>11. ASSUME NEW h \in Handler, Resume(h) PROVE NoLostInterval'
  BY <1>11 DEF Resume, Start
<1>12. ASSUME NEW h \in Handler, Pause(h) PROVE NoLostInterval'
  BY <1>12 DEF Pause, StopSwap
<1>13. ASSUME NEW h \in Handler, KeepActive(h) PROVE NoLostInterval'
  BY <1>13 DEF KeepActive
<1>14. ASSUME NEW h \in Handler, Return(h) PROVE NoLostInterval'
  BY <1>14 DEF Return
<1>15. ASSUME NEW p \in Process, StopClose(p) PROVE NoLostInterval'
  BY <1>15 DEF StopClose
<1>16. ASSUME NEW p \in Process, StopWait(p) PROVE NoLostInterval'
  BY <1>16 DEF StopWait
<1>17. ASSUME NEW l \in Loop, Arm(l) PROVE NoLostInterval'
  BY <1>17 DEF Arm
<1>18. ASSUME NEW l \in Loop, Block(l) PROVE NoLostInterval'
  BY <1>18 DEF Block
<1>19. ASSUME NEW l \in Loop, SeeStop(l) PROVE NoLostInterval'
  BY <1>19 DEF SeeStop
<1>20. ASSUME NEW l \in Loop, SeeConfigChanged(l) PROVE NoLostInterval'
  BY <1>20 DEF SeeConfigChanged
<1>21. ASSUME NEW l \in Loop, Tick(l) PROVE NoLostInterval'
  BY <1>21 DEF Tick
<1>22. ASSUME NEW l \in Loop, Deliver(l) PROVE NoLostInterval'
  BY <1>22 DEF Deliver
<1>23. ASSUME Boot PROVE NoLostInterval'
  BY <1>23 DEF Boot, Start
<1>24. ASSUME Shutdown PROVE NoLostInterval'
  BY <1>24 DEF Shutdown, StopSwap
<1>25. CASE UNCHANGED vars
  BY <1>25 DEF vars
<1> QED
  BY <1>1, <1>2, <1>3, <1>4, <1>5, <1>6, <1>7, <1>8, <1>9, <1>10, <1>11, <1>12, <1>13, <1>14, <1>15, <1>16, <1>17, <1>18, <1>19, <1>20, <1>21, <1>22, <1>23, <1>24, <1>25
     DEF Next, UpdateConfig, runLoop, Finish, Exited, Process

(* The invariant is inductive.                                              *)
THEOREM EngineInvariant == Spec => []EngineInv
<1>1. EngineInv /\ [Next]_vars => EngineInv'
  <2> SUFFICES ASSUME EngineInv, [Next]_vars PROVE EngineInv'
    OBVIOUS
  <2> QED
    BY TypeStep, MutexStep, MainStep, StopStep, OneLoopStep, IntervalStep
       DEF EngineInv
<1> QED  BY InitInv, <1>1, PTL DEF Spec

(* Type correctness of the engine.                                          *)
THEOREM EngineTypes == Spec => []TypeOK
<1>1. EngineInv => TypeOK  BY DEF EngineInv
<1> QED  BY <1>1, EngineInvariant, PTL

(* However RPCs pause, resume and resize the simulation concurrently, the   *)
(* sink never has two tick loops writing to it.                             *)
THEOREM AlwaysOneLoop == Spec => []OneLoop
<1>1. EngineInv => OneLoop  BY DEF EngineInv
<1> QED  BY <1>1, EngineInvariant, PTL

(* While no RPC is inside UpdateConfig, active = 0 means that every tick    *)
(* loop has returned, and active = 1 that one runs and can still be stopped.*)
THEOREM ActiveIsAlwaysTrue == Spec => []ActiveIsTrue
<1>1. EngineInv => ActiveIsTrue
  <2> SUFFICES ASSUME EngineInv, controlMu = Free, pc[Main] = "serving"
               PROVE  /\ active = 0 => Running = {}
                      /\ active = 1 => Running # {} /\ stopChan \notin closed
    BY DEF ActiveIsTrue
  <2>1. \A p \in Process : pc[p] \notin {"close", "wait"}
    BY DEF EngineInv, MutexInv, Process, Critical
  <2> QED  BY <2>1 DEF EngineInv, StopInv
<1> QED  BY <1>1, EngineInvariant, PTL

(* Stop never panics by closing a closed channel.                           *)
THEOREM NeverClosesTwice == Spec => []NoDoubleClose
<1>1. EngineInv => NoDoubleClose  BY DEF EngineInv, StopInv, NoDoubleClose
<1> QED  BY <1>1, EngineInvariant, PTL

(* A loop never sleeps on an outdated interval without a token in the       *)
(* configChanged channel or on its way there.                               *)
THEOREM NeverLosesInterval == Spec => []NoLostInterval
<1>1. EngineInv => NoLostInterval  BY DEF EngineInv
<1> QED  BY <1>1, EngineInvariant, PTL
-----------------------------------------------------------------------------

USE ShardAssumption

(* Composing the engine with the cache gives it no new behaviour.           *)
THEOREM ControlImplementsEngine == ControlSpec => Spec
<1>1. ControlInit => Init  BY DEF ControlInit
<1>2. [ControlNext]_allVars => [Next]_vars
  <2> SUFFICES ASSUME [ControlNext]_allVars PROVE [Next]_vars
    OBVIOUS
  <2>1. ASSUME NEW h \in Handler, BeginControl(h) PROVE [Next]_vars
    BY <2>1 DEF BeginControl, Next
  <2>2. ASSUME NEW h \in Handler, ControlSimulation(h) PROVE [Next]_vars
    BY <2>2 DEF ControlSimulation, ReturnToControl, ClearShard, ClearLastUpdate,
                UpdateConfig, Next
  <2>3. ASSUME NEW l \in Loop, tickLoop(l) PROVE [Next]_vars
    BY <2>3 DEF tickLoop, StampedTick, SetShard, SetLastUpdate, runLoop, Next
  <2>4. CASE ControlMain  BY <2>4 DEF ControlMain, Next
  <2>5. CASE UNCHANGED allVars  BY <2>5 DEF allVars
  <2> QED  BY <2>1, <2>2, <2>3, <2>4, <2>5 DEF ControlNext
<1> QED  BY <1>1, <1>2, PTL DEF ControlSpec, Spec

(* The RPC may come at any moment of a tick's delivery, and Clear at any    *)
(* moment of a SetBatch: still there is one loop at most, the flag tells    *)
(* the truth, no channel is closed twice and no interval change is lost.    *)
THEOREM ControlKeepsEngine ==
    ControlSpec => [](OneLoop /\ ActiveIsTrue /\ NoDoubleClose /\ NoLostInterval)
BY ControlImplementsEngine, AlwaysOneLoop, ActiveIsAlwaysTrue, NeverClosesTwice,
   NeverLosesInterval, PTL

(* Nothing in the cache is later than the clock, and a delivery that is     *)
(* under way is that of the latest tick.                                    *)
ClockInv ==
    /\ clock \in Nat
    /\ items \in [Drone -> Nat]
    /\ \A d \in Drone : items[d] <= clock
    /\ stamp \in [Loop -> Nat]
    /\ \A l \in Loop : lpc[l] = "deliver" => stamp[l] = clock

\* The half-steps of the engine that leave the deliveries alone.
Elsewhere == lpc' = lpc \/ \E l \in Loop : /\ lpc' = [lpc EXCEPT ![l] = lpc'[l]]
                                           /\ lpc'[l] # "deliver"

(* A step keeps the deliveries and the clock together.                      *)
LEMMA ClockStep ==
    ASSUME EngineInv, ClockInv, [ControlNext]_allVars
    PROVE  ClockInv'
<1> USE DEF ClockInv, cacheVars
<1>0. lpc \in [Loop -> {"none", "born", "top", "select", "deliver", "rearm"}]
  BY DEF EngineInv, TypeOK
<1>1. ASSUME UNCHANGED cacheVars, Elsewhere PROVE ClockInv'
  BY <1>0, <1>1 DEF Elsewhere
<1>2. ASSUME NEW h \in Handler, BeginControl(h) PROVE ClockInv'
  BY <1>2 DEF BeginControl, Call, loopVars
<1>3. ASSUME NEW h \in Handler, ControlSimulation(h) PROVE ClockInv'
  <2>1. CASE ReturnToControl(h)
    BY <2>1 DEF ReturnToControl, Return, loopVars
  <2>2. CASE ClearShard(h)
    BY <2>2 DEF ClearShard, vars, loopVars
  <2>3. CASE ClearLastUpdate(h)
    BY <2>3 DEF ClearLastUpdate, vars, loopVars
  <2>4. CASE Resume(h) /\ UNCHANGED cacheVars
    <3>1. Elsewhere  BY <1>0, <2>4 DEF Resume, Start, Elsewhere
    <3> QED  BY <1>1, <2>4, <3>1
  <2>5. CASE /\ \/ Reject(h) \/ Accept(h)
                \/ InitDrones(h) \/ StoreCount(h) \/ KeepDrones(h)
                \/ StoreInterval(h) \/ Notify(h) \/ KeepInterval(h)
                \/ MakeStopChan(h)
                \/ Pause(h) \/ StopClose(h) \/ StopWait(h)
                \/ KeepActive(h)
             /\ UNCHANGED cacheVars
    <3>1. lpc' = lpc
      BY <2>5 DEF Reject, Accept, InitDrones, StoreCount, KeepDrones,
                  StoreInterval, Notify, KeepInterval, MakeStopChan, Pause,
                  StopSwap, StopClose, StopWait, KeepActive, loopVars
    <3> QED  BY <1>1, <2>5, <3>1 DEF Elsewhere
  <2> QED  BY <1>3, <2>1, <2>2, <2>3, <2>4, <2>5 DEF ControlSimulation
<1>4. ASSUME NEW l \in Loop, tickLoop(l) PROVE ClockInv'
  <2>1. CASE (Arm(l) \/ Block(l) \/ SeeStop(l) \/ SeeConfigChanged(l)) /\ UNCHANGED cacheVars
    <3>1. Elsewhere
      BY <1>0, <2>1 DEF Arm, Block, SeeStop, SeeConfigChanged, Elsewhere
    <3> QED  BY <1>1, <2>1, <3>1
  <2>2. CASE StampedTick(l)
    \* The new tick is the latest, and l is the only loop that delivers.
    <3>1. \A m \in Loop : lpc'[m] = "deliver" => m = l
      BY <1>0, <2>2 DEF StampedTick, Tick, EngineInv, OneLoop, Running
    <3>2. /\ clock' = IF clock < MaxClock THEN clock + 1 ELSE clock
          /\ stamp' = [stamp EXCEPT ![l] = clock']
          /\ items' = items
      BY <2>2 DEF StampedTick
    <3>3. clock' \in Nat /\ clock <= clock'  BY <3>2
    <3> QED  BY <3>1, <3>2, <3>3
  <2>3. CASE SetShard(l)
    BY <2>3 DEF SetShard, vars, loopVars
  <2>4. CASE SetLastUpdate(l)
    BY <1>0, <2>4 DEF SetLastUpdate, Deliver
  <2> QED  BY <1>4, <2>1, <2>2, <2>3, <2>4 DEF tickLoop
<1>5. CASE ControlMain
  <2>1. Elsewhere
    BY <1>0, <1>5 DEF ControlMain, Boot, Start, Shutdown, StopSwap, Finish,
                      StopClose, StopWait, Exited, vars, loopVars, Elsewhere
  <2> QED  BY <1>1, <1>5, <2>1 DEF ControlMain
<1>6. CASE UNCHANGED allVars
  BY <1>6 DEF allVars, vars, loopVars
<1> QED  BY <1>2, <1>3, <1>4, <1>5, <1>6 DEF ControlNext

(* The engine's invariant and the clock's, together, hold in the composed   *)
(* system.                                                                  *)
THEOREM ControlInvariant == ControlSpec => [](EngineInv /\ ClockInv)
<1>1. ControlInit => ClockInv
  BY DEF ControlInit, Init, ClockInv
<1>2. EngineInv /\ ClockInv /\ [ControlNext]_allVars => ClockInv'
  BY ClockStep
<1> QED
  BY <1>1, <1>2, ControlImplementsEngine, EngineInvariant, PTL DEF ControlSpec

\* The part of ControlTypeOK about the cache and about who writes to it.
CacheTypes ==
    /\ items \in [Drone -> 0 .. MaxClock]
    /\ lastUpdate \in 0 .. MaxClock /\ clock \in 0 .. MaxClock
    /\ stamp \in [Loop -> 0 .. MaxClock]
    /\ written \in [Loop -> 0 .. NumShards]
    /\ cleared \in [Handler -> 0 .. Away]

(* Every step keeps the stamps within the clock and the two walks over the  *)
(* shards within the array.                                                 *)
LEMMA CacheTypesStep ==
    ASSUME CacheTypes, [ControlNext]_allVars
    PROVE  CacheTypes'
<1> USE DEF CacheTypes, Away
<1>1. ASSUME UNCHANGED cacheVars PROVE CacheTypes'
  BY <1>1 DEF cacheVars
<1>2. ASSUME NEW h \in Handler, ReturnToControl(h) PROVE CacheTypes'
  BY <1>2 DEF ReturnToControl
<1>3. ASSUME NEW h \in Handler, ClearShard(h) PROVE CacheTypes'
  BY <1>3 DEF ClearShard
<1>4. ASSUME NEW h \in Handler, ClearLastUpdate(h) PROVE CacheTypes'
  BY <1>4 DEF ClearLastUpdate
<1>5. ASSUME NEW l \in Loop, StampedTick(l) PROVE CacheTypes'
  <2>1. clock' \in 0 .. MaxClock  BY <1>5 DEF StampedTick
  <2> QED  BY <1>5, <2>1 DEF StampedTick
<1>6. ASSUME NEW l \in Loop, SetShard(l) PROVE CacheTypes'
  BY <1>6 DEF SetShard
<1>7. ASSUME NEW l \in Loop, SetLastUpdate(l) PROVE CacheTypes'
  BY <1>7 DEF SetLastUpdate
<1> QED
  BY <1>1, <1>2, <1>3, <1>4, <1>5, <1>6, <1>7
     DEF ControlNext, BeginControl, ControlSimulation, tickLoop, ControlMain,
         cacheVars, allVars

(* The composition is well typed: no walk over the shards, of SetBatch or   *)
(* of Clear, leaves the array, and no entry is stamped later than the clock *)
(* can be.                                                                  *)
THEOREM ControlTypes == ControlSpec => []ControlTypeOK
<1>1. ControlInit => CacheTypes
  BY DEF ControlInit, CacheTypes, Away
<1>2. CacheTypes /\ [ControlNext]_allVars => CacheTypes'
  BY CacheTypesStep
<1>3. EngineInv /\ CacheTypes => ControlTypeOK
  BY DEF EngineInv, CacheTypes, ControlTypeOK
<1> QED  BY <1>1, <1>2, <1>3, ControlInvariant, PTL DEF ControlSpec

(* No write to the cache replaces a drone's entry by that of an earlier     *)
(* tick.                                                                    *)
THEOREM NeverOverwritesWithStale == ControlSpec => NoStaleOverwrite
<1> DEFINE Forward == \A d \in Drone : items'[d] = 0 \/ items'[d] >= items[d]
<1>1. EngineInv /\ ClockInv /\ [ControlNext]_allVars => [Forward]_items
  <2> SUFFICES ASSUME EngineInv, ClockInv, [ControlNext]_allVars, items' # items
               PROVE  Forward
    OBVIOUS
  <2>1. ASSUME NEW h \in Handler, ControlSimulation(h), items' # items PROVE Forward
    <3>1. ClearShard(h)
      BY <2>1 DEF ControlSimulation, ReturnToControl, ClearLastUpdate, cacheVars
    <3> QED  BY <3>1 DEF ClearShard, ClockInv
  <2>2. ASSUME NEW l \in Loop, tickLoop(l), items' # items PROVE Forward
    <3>1. SetShard(l)
      BY <2>2 DEF tickLoop, StampedTick, SetLastUpdate, cacheVars
    <3>2. stamp[l] = clock  BY <3>1 DEF SetShard, ClockInv
    <3> QED  BY <3>1, <3>2 DEF SetShard, ClockInv
  <2> QED
    BY <2>1, <2>2 DEF ControlNext, BeginControl, ControlMain, cacheVars, allVars
<1> QED  BY <1>1, ControlInvariant, PTL DEF ControlSpec, NoStaleOverwrite

(* While no RPC is in flight and the engine is inactive, the cache does not *)
(* change.                                                                  *)
THEOREM PausedCacheIsFrozen == ControlSpec => PausedIsFrozen
<1> DEFINE Idle == /\ pc[Main] = "serving" /\ active = 0
                   /\ \A h \in Handler : pc[h] \in {"idle", "lock"} /\ cleared[h] = Away
           Frozen == Idle => UNCHANGED <<items, lastUpdate>>
<1>1. EngineInv /\ [ControlNext]_allVars => Frozen
  <2> SUFFICES ASSUME EngineInv, [ControlNext]_allVars, Idle
               PROVE  UNCHANGED <<items, lastUpdate>>
    OBVIOUS
  <2>1. Running = {}
    <3>1. \A p \in Process : pc[p] \notin {"close", "wait"}
      BY DEF Process
    <3> QED  BY <3>1 DEF EngineInv, StopInv
  <2>2. ASSUME NEW h \in Handler, ControlSimulation(h)
        PROVE  UNCHANGED <<items, lastUpdate>>
    <3>1. cleared[h] = NumShards + 1  BY DEF Away
    <3> QED
      BY <2>2, <3>1 DEF ControlSimulation, ReturnToControl, ClearShard,
                        ClearLastUpdate, cacheVars
  <2>3. ASSUME NEW l \in Loop, tickLoop(l)
        PROVE  UNCHANGED <<items, lastUpdate>>
    <3>1. lpc[l] = "none"  BY <2>1 DEF Running
    <3> QED
      BY <2>3, <3>1 DEF tickLoop, StampedTick, Tick, SetShard, SetLastUpdate,
                        Deliver, cacheVars
  <2> QED
    BY <2>2, <2>3 DEF ControlNext, BeginControl, ControlMain, cacheVars, allVars
<1>2. EngineInv /\ [ControlNext]_allVars => [Frozen]_<<items, lastUpdate>>
  BY <1>1
<1> QED  BY <1>2, ControlInvariant, PTL DEF ControlSpec, PausedIsFrozen
=============================================================================
