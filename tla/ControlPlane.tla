---------------------------- MODULE ControlPlane ----------------------------
(***************************************************************************)
(* The simulation engine composed with the sharded memory cache it feeds   *)
(* and with the ControlSimulation RPC that resizes one and then clears the *)
(* other.  The tick's sink is TelemetryPipeline.ConsumeBatch, of which the *)
(* write to the cache matters here: SetBatch visits the shards in order,   *)
(* one lock at a time, and stores lastUpdate at the end.  Clear visits     *)
(* them in the same way, after UpdateConfig has released controlMu.        *)
(*                                                                         *)
(* A drone's entry is the time stamp of the tick that wrote it; time stops *)
(* advancing at MaxClock, which keeps the order of the first MaxClock      *)
(* ticks and makes all later ones equal.                                   *)
(***************************************************************************)
EXTENDS SimulationEngine

CONSTANTS NumShards,   \* ShardCount, 32 in the code
          shardIndex,  \* the shard of a drone: a hash of its id
          MaxClock     \* bound: ticks with a time stamp of their own

Drone == 0 .. MaxCount - 1
Shard == 0 .. NumShards - 1

ASSUME ShardAssumption ==
    /\ NumShards \in Nat \ {0} /\ MaxClock \in Nat \ {0}
    /\ shardIndex \in [Drone -> Shard]

VARIABLES
    items,       \* the stamp of each drone's latest update, 0 if it has none
    lastUpdate,  \* the cache's lastUpdate, 0 after Clear
    clock,       \* the stamp of the latest tick
    stamp,       \* the stamp of the tick a loop is delivering
    written,     \* the shards that SetBatch is done with, in that delivery
    cleared      \* the shards that Clear is done with; NumShards + 1: not in Clear

cacheVars == <<items, lastUpdate, clock, stamp, written, cleared>>
allVars == <<vars, cacheVars>>

Away == NumShards + 1

ControlInit ==
    /\ Init
    /\ items = [d \in Drone |-> 0]
    /\ lastUpdate = 0 /\ clock = 0
    /\ stamp = [l \in Loop |-> 0]
    /\ written = [l \in Loop |-> 0]
    /\ cleared = [h \in Handler |-> Away]

\* Mutant of Batch: the last drone of the population is left out.
Batch_OneShort(l) == 0 .. snapshot[l] - 2

\* The drones of the population that l is delivering.
Batch(l) == 0 .. snapshot[l] - 1

\* A tick reads the clock, then copies the population.
StampedTick(l) ==
    /\ Tick(l)
    /\ clock' = IF clock < MaxClock THEN clock + 1 ELSE clock
    /\ stamp' = [stamp EXCEPT ![l] = clock']
    /\ written' = [written EXCEPT ![l] = 0]
    /\ UNCHANGED <<items, lastUpdate, cleared>>

\* Mutant of SetShard: the loop over the shards runs one too far.
SetShard_PastEnd(l) ==
    /\ lpc[l] = "deliver"
    /\ written[l] <= NumShards
    /\ items' = [d \in Drone |->
                    IF d \in Batch(l) /\ shardIndex[d] = written[l]
                    THEN stamp[l] ELSE items[d]]
    /\ written' = [written EXCEPT ![l] = @ + 1]
    /\ UNCHANGED <<vars, lastUpdate, clock, stamp, cleared>>

\* SetBatch, one shard: every update of the batch that hashes to it.
SetShard(l) ==
    /\ lpc[l] = "deliver"
    /\ written[l] < NumShards
    /\ items' = [d \in Drone |->
                    IF d \in Batch(l) /\ shardIndex[d] = written[l]
                    THEN stamp[l] ELSE items[d]]
    /\ written' = [written EXCEPT ![l] = @ + 1]
    /\ UNCHANGED <<vars, lastUpdate, clock, stamp, cleared>>

\* The store that ends SetBatch, and with it the delivery.
SetLastUpdate(l) ==
    /\ written[l] = NumShards
    /\ Deliver(l)
    /\ lastUpdate' = stamp[l]
    /\ UNCHANGED <<items, clock, stamp, written, cleared>>

tickLoop(l) ==
    \/ (Arm(l) \/ Block(l) \/ SeeStop(l) \/ SeeConfigChanged(l)) /\ UNCHANGED cacheVars
    \/ StampedTick(l) \/ SetShard(l) \/ SetLastUpdate(l)
-----------------------------------------------------------------------------
(* ControlSimulation, on handler h: UpdateConfig, then Clear if the engine  *)
(* asked for a cache reset.                                                 *)

BeginControl(h) == cleared[h] = Away /\ Call(h) /\ UNCHANGED cacheVars

ReturnToControl(h) ==
    /\ Return(h)
    /\ cleared' = [cleared EXCEPT ![h] = IF reset[h] THEN 0 ELSE Away]
    /\ UNCHANGED <<items, lastUpdate, clock, stamp, written>>

ClearShard(h) ==
    /\ cleared[h] < NumShards
    /\ items' = [d \in Drone |-> IF shardIndex[d] = cleared[h] THEN 0 ELSE items[d]]
    /\ cleared' = [cleared EXCEPT ![h] = @ + 1]
    /\ UNCHANGED <<vars, lastUpdate, clock, stamp, written>>

ClearLastUpdate(h) ==
    /\ cleared[h] = NumShards
    /\ lastUpdate' = 0
    /\ cleared' = [cleared EXCEPT ![h] = Away]
    /\ UNCHANGED <<vars, items, clock, stamp, written>>

ControlSimulation(h) ==
    \/ /\ \/ Reject(h) \/ Accept(h)
          \/ InitDrones(h) \/ StoreCount(h) \/ KeepDrones(h)
          \/ StoreInterval(h) \/ Notify(h) \/ KeepInterval(h)
          \/ MakeStopChan(h) \/ Resume(h)
          \/ Pause(h) \/ StopClose(h) \/ StopWait(h)
          \/ KeepActive(h)
       /\ UNCHANGED cacheVars
    \/ ReturnToControl(h)
    \/ ClearShard(h) \/ ClearLastUpdate(h)

\* main stops the engine when no RPC is left.
ControlMain ==
    /\ \/ Boot
       \/ Shutdown /\ \A h \in Handler : cleared[h] = Away
       \/ Finish \/ Exited
    /\ UNCHANGED cacheVars

ControlNext ==
    \/ \E h \in Handler : BeginControl(h) \/ ControlSimulation(h)
    \/ \E l \in Loop : tickLoop(l)
    \/ ControlMain

ControlSpec == ControlInit /\ [][ControlNext]_allVars

\* The assumptions of SimulationEngine, for the longer steps.
ControlFairness ==
    /\ WF_allVars(Boot /\ UNCHANGED cacheVars)
    /\ WF_allVars(Finish /\ UNCHANGED cacheVars)
    /\ \A h \in Handler : WF_allVars(ControlSimulation(h))
    /\ \A l \in Loop : /\ WF_allVars(tickLoop(l))
                       /\ SF_allVars(SeeStop(l) /\ UNCHANGED cacheVars)

LiveControlSpec == ControlSpec /\ ControlFairness
-----------------------------------------------------------------------------
ControlTypeOK ==
    /\ TypeOK
    /\ items \in [Drone -> 0 .. MaxClock]
    /\ lastUpdate \in 0 .. MaxClock /\ clock \in 0 .. MaxClock
    /\ stamp \in [Loop -> 0 .. MaxClock]
    /\ written \in [Loop -> 0 .. NumShards]
    /\ cleared \in [Handler -> 0 .. Away]

(* A drone's entry never goes back in time: between two Clears every write  *)
(* to it is of a later tick, through any pause, resume and resize.          *)
NoStaleOverwrite ==
    [][\A d \in Drone : items'[d] = 0 \/ items'[d] >= items[d]]_items

(* A paused simulation is frozen: when no RPC is in flight and the engine   *)
(* reports inactive, nothing any reader can see of the cache changes.       *)
PausedIsFrozen ==
    [][(/\ pc[Main] = "serving" /\ active = 0
        /\ \A h \in Handler : pc[h] \in {"idle", "lock"} /\ cleared[h] = Away)
       => UNCHANGED <<items, lastUpdate>>]_<<items, lastUpdate>>

(* However resizes and Clears interleaved with ticks, a simulation that is  *)
(* left running ends up with every drone of its population in the cache and *)
(* with a snapshot age to report.                                           *)
PopulationComplete ==
    <>[](active = 1) =>
        <>[](/\ lastUpdate # 0
             /\ \A d \in 0 .. targetCount - 1 : items[d] # 0)

(* A simulation that is left running ends up with only the drones of its    *)
(* population in the cache, so that current_drones settles on target_drones.*)
OnlyCurrentDrones ==
    <>[](active = 1) => <>[](\A d \in Drone : items[d] # 0 => d < targetCount)
=============================================================================
