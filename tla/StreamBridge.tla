---------------------------- MODULE StreamBridge ----------------------------
(***************************************************************************)
(* internal/service/stream_bridge.go: broadcastLoop reads the cache at     *)
(* every tick and offers the snapshot to the one-slot channel of each      *)
(* subscriber; each call of ServeSSE registers a channel, writes what it   *)
(* receives to its connection and leaves when the peer does.  The calls    *)
(* and the loop share the subscriber map under one mutex, but a call       *)
(* receives from its channel without it.  One loop reads the cache and     *)
(* numbers what it read, so a snapshot is its sequence number here.        *)
(***************************************************************************)
EXTENDS Naturals

CONSTANTS Call,         \* the calls of ServeSSE; a peer that reconnects makes another
          Stalled,      \* the calls whose peer may stop reading for ever
          NoCall,
          MaxSequence   \* bound: broadcasts in one behaviour

ASSUME CallAssumption == Stalled \subseteq Call /\ NoCall \notin Call
ASSUME SequenceAssumption == MaxSequence \in Nat

VARIABLES
    \* the bridge
    subscribers,  \* the map, as the set of the calls whose channel it holds
    sequence,     \* number of the last snapshot broadcast
    stop,         \* is the stop channel closed?
    \* broadcastLoop
    loop,         \* "select", "read" (no lock), "broadcast", "evict", "resend" (lock)
    pending,      \* the subscribers the for statement has not reached
    target,       \* the subscriber whose full channel it deals with
    \* each call of ServeSSE
    handler,      \* where it is
    queue,        \* the snapshot in its channel, 0: empty
    closed,       \* the calls that have closed their channel
    got,          \* the last snapshot it received
    joined,       \* the value of sequence when it registered, for the properties
    \* main
    main          \* "running", "closing" (in Close), "closed"

vars == <<subscribers, sequence, stop, loop, pending, target, handler, queue,
          closed, got, joined, main>>

Init ==
    /\ subscribers = {} /\ sequence = 0 /\ stop = FALSE
    /\ loop = "select" /\ pending = {} /\ target = NoCall
    /\ handler = [c \in Call |-> "absent"]
    /\ queue = [c \in Call |-> 0]
    /\ closed = {}
    /\ got = [c \in Call |-> 0]
    /\ joined = [c \in Call |-> 0]
    /\ main = "running"

\* Does broadcastLoop hold the mutex?
Locked == loop \in {"broadcast", "evict", "resend"}
-----------------------------------------------------------------------------
(* broadcastLoop.                                                           *)

\* The ticker fires; without subscribers the loop goes back to its select.
Tick ==
    /\ loop = "select" /\ sequence < MaxSequence
    /\ subscribers # {}
    /\ loop' = "read"
    /\ UNCHANGED <<subscribers, sequence, stop, pending, target, handler, queue,
                   closed, got, joined, main>>

\* The cache has been read without the lock; take it and start the iteration.
Lock ==
    /\ loop = "read"
    /\ sequence' = sequence + 1
    /\ pending' = subscribers
    /\ loop' = "broadcast"
    /\ UNCHANGED <<subscribers, stop, target, handler, queue, closed, got, joined,
                   main>>

\* Mutant of Send: a plain send, which waits for room.
Send_Blocking(c) ==
    /\ loop = "broadcast" /\ c \in pending
    /\ queue[c] = 0
    /\ queue' = [queue EXCEPT ![c] = sequence]
    /\ pending' = pending \ {c}
    /\ UNCHANGED <<subscribers, sequence, stop, loop, target, handler, closed, got,
                   joined, main>>

\* The first select, for the next subscriber of the map.
Send(c) ==
    /\ loop = "broadcast" /\ c \in pending
    /\ pending' = pending \ {c}
    /\ IF queue[c] = 0
       THEN /\ queue' = [queue EXCEPT ![c] = sequence]
            /\ UNCHANGED <<loop, target>>
       ELSE /\ loop' = "evict" /\ target' = c
            /\ UNCHANGED queue
    /\ UNCHANGED <<subscribers, sequence, stop, handler, closed, got, joined, main>>

\* The second: throw the stale snapshot away, unless the call has just taken it.
Evict ==
    /\ loop = "evict"
    /\ queue' = [queue EXCEPT ![target] = 0]
    /\ loop' = "resend"
    /\ UNCHANGED <<subscribers, sequence, stop, pending, target, handler, closed,
                   got, joined, main>>

\* Mutant of Resend: the snapshot is left for the next tick.
Resend_Skip ==
    /\ loop = "resend"
    /\ loop' = "broadcast" /\ target' = NoCall
    /\ UNCHANGED <<subscribers, sequence, stop, pending, handler, queue, closed,
                   got, joined, main>>

\* The third.
Resend ==
    /\ loop = "resend"
    /\ queue' = IF queue[target] = 0 THEN [queue EXCEPT ![target] = sequence]
                                     ELSE queue
    /\ loop' = "broadcast" /\ target' = NoCall
    /\ UNCHANGED <<subscribers, sequence, stop, pending, handler, closed, got,
                   joined, main>>

Unlock ==
    /\ loop = "broadcast" /\ pending = {}
    /\ loop' = "select"
    /\ UNCHANGED <<subscribers, sequence, stop, pending, target, handler, queue,
                   closed, got, joined, main>>

SeeStop ==
    /\ loop = "select" /\ stop
    /\ loop' = "done"
    /\ UNCHANGED <<subscribers, sequence, stop, pending, target, handler, queue,
                   closed, got, joined, main>>

\* What the loop does once the ticker has fired.
Broadcast == Lock \/ (\E c \in Call : Send(c)) \/ Evict \/ Resend \/ Unlock

broadcastLoop == Tick \/ Broadcast \/ SeeStop
-----------------------------------------------------------------------------
(* One call of ServeSSE.  The heartbeat it writes changes nothing here.     *)

\* A request arrives, while main still serves; the channel is made.
Connect(c) ==
    /\ handler[c] = "absent" /\ main = "running"
    /\ handler' = [handler EXCEPT ![c] = "register"]
    /\ UNCHANGED <<subscribers, sequence, stop, loop, pending, target, queue, closed,
                   got, joined, main>>

Register(c) ==
    /\ handler[c] = "register" /\ ~Locked
    /\ subscribers' = subscribers \cup {c}
    /\ joined' = [joined EXCEPT ![c] = sequence]
    /\ handler' = [handler EXCEPT ![c] = "select"]
    /\ UNCHANGED <<sequence, stop, loop, pending, target, queue, closed, got, main>>

Receive(c) ==
    /\ handler[c] = "select" /\ queue[c] # 0
    /\ got' = [got EXCEPT ![c] = queue[c]]
    /\ queue' = [queue EXCEPT ![c] = 0]
    /\ handler' = [handler EXCEPT ![c] = "write"]
    /\ UNCHANGED <<subscribers, sequence, stop, loop, pending, target, closed,
                   joined, main>>

\* The snapshot is written, or the write fails and the call returns.
Write(c) ==
    /\ handler[c] = "write"
    /\ \E next \in {"select", "leave"} : handler' = [handler EXCEPT ![c] = next]
    /\ UNCHANGED <<subscribers, sequence, stop, loop, pending, target, queue, closed,
                   got, joined, main>>

\* The context of the request is done.
Disconnect(c) ==
    /\ handler[c] = "select"
    /\ handler' = [handler EXCEPT ![c] = "leave"]
    /\ UNCHANGED <<subscribers, sequence, stop, loop, pending, target, queue, closed,
                   got, joined, main>>

\* Mutant of Leave: the subscriber is removed without the lock.
Leave_Unlocked(c) ==
    /\ handler[c] = "leave"
    /\ subscribers' = subscribers \ {c}
    /\ handler' = [handler EXCEPT ![c] = "close"]
    /\ UNCHANGED <<sequence, stop, loop, pending, target, queue, closed, got, joined,
                   main>>

\* Mutant of Leave: the subscriber stays in the map.
Leave_Registered(c) ==
    /\ handler[c] = "leave" /\ ~Locked
    /\ handler' = [handler EXCEPT ![c] = "close"]
    /\ UNCHANGED <<subscribers, sequence, stop, loop, pending, target, queue, closed,
                   got, joined, main>>

\* The deferred function: leave the map ...
Leave(c) ==
    /\ handler[c] = "leave" /\ ~Locked
    /\ subscribers' = subscribers \ {c}
    /\ handler' = [handler EXCEPT ![c] = "close"]
    /\ UNCHANGED <<sequence, stop, loop, pending, target, queue, closed, got, joined,
                   main>>

\* ... and close the channel, without the lock.
CloseChannel(c) ==
    /\ handler[c] = "close"
    /\ closed' = closed \cup {c}
    /\ handler' = [handler EXCEPT ![c] = "gone"]
    /\ UNCHANGED <<subscribers, sequence, stop, loop, pending, target, queue, got,
                   joined, main>>

\* What a call does whatever its peer does.
Serve(c) == Register(c) \/ Receive(c) \/ Leave(c) \/ CloseChannel(c)

ServeSSE(c) == Connect(c) \/ Serve(c) \/ Write(c) \/ Disconnect(c)
-----------------------------------------------------------------------------
(* Close, deferred by main.  The calls of ServeSSE that are left when the   *)
(* five seconds of httpServer.Shutdown are over go on beside it.            *)

Close ==
    /\ main = "running"
    /\ stop' = TRUE
    /\ main' = "closing"
    /\ UNCHANGED <<subscribers, sequence, loop, pending, target, handler, queue,
                   closed, got, joined>>

CloseWait ==
    /\ main = "closing" /\ loop = "done"
    /\ main' = "closed"
    /\ UNCHANGED <<subscribers, sequence, stop, loop, pending, target, handler,
                   queue, closed, got, joined>>

\* The process may end.
Over == main = "closed" /\ UNCHANGED vars

Next == broadcastLoop \/ (\E c \in Call : ServeSSE(c)) \/ Close \/ CloseWait \/ Over

\* The goroutines are scheduled; select is fair between a ticker and a closed
\* channel; a write to a peer that reads ends.
Spec == /\ Init /\ [][Next]_vars
        /\ WF_vars(Broadcast) /\ SF_vars(SeeStop)
        /\ \A c \in Call : WF_vars(Serve(c))
        /\ \A c \in Call \ Stalled : WF_vars(Write(c))
        /\ WF_vars(CloseWait)
-----------------------------------------------------------------------------
Sequence == 0 .. MaxSequence

(* Types; and while the loop iterates over the map nobody it has not        *)
(* reached leaves it.                                                       *)
TypeOK ==
    /\ subscribers \subseteq Call /\ closed \subseteq Call
    /\ pending \subseteq subscribers
    /\ sequence \in Sequence
    /\ stop \in BOOLEAN
    /\ loop \in {"select", "read", "broadcast", "evict", "resend", "done"}
    /\ target \in Call \cup {NoCall}
    /\ handler \in [Call -> {"absent", "register", "select", "write", "leave",
                             "close", "gone"}]
    /\ queue \in [Call -> Sequence] /\ got \in [Call -> Sequence]
    /\ joined \in [Call -> Sequence]
    /\ main \in {"running", "closing", "closed"}

\* The subscribers the broadcast under way has still to serve.
Unserved == pending \cup (IF loop \in {"evict", "resend"} THEN {target} ELSE {})

(* The loop never sends to a closed channel, which would panic: ServeSSE    *)
(* leaves the map under the lock before it closes its channel.              *)
NoSendOnClosed == Unserved \cap closed = {}

(* A subscriber the last broadcast has served has its snapshot: it waits in *)
(* the channel or has been received, however slow the subscriber was ("slow *)
(* clients always receive the latest state", broadcastLoop).                *)
LatestReachesChannel ==
    \A c \in subscribers \ Unserved :
        joined[c] < sequence =>
            queue[c] = sequence \/ (queue[c] = 0 /\ got[c] = sequence)

\* The channel of a call as LatestMailbox sees it.
Replacing(c) == loop = "resend" /\ target = c
Held(c) == IF Replacing(c) THEN sequence ELSE queue[c]
Newest(c) == IF Held(c) # 0 THEN Held(c) ELSE got[c]

Mailbox(c) == INSTANCE LatestMailbox WITH newest <- Newest(c), held <- Held(c),
                                          seen <- got[c]

(* Each channel is a latest-wins mailbox: the snapshots of a connection     *)
(* carry increasing sequence numbers, whatever the loop and the call do     *)
(* between the selects of the replacement.                                  *)
ImplementsMailboxes ==
    /\ \A c \in Call : Mailbox(c)!Init
    /\ [][\A c \in Call : [Mailbox(c)!Next]_<<Newest(c), Held(c), got[c]>>]_vars

(* One stalled connection delays nobody else: a subscriber whose peer reads *)
(* gets each broadcast, or a later one, unless it leaves.                   *)
ReaderCatchesUp ==
    \A c \in Call \ Stalled, n \in 1 .. MaxSequence :
        (c \in subscribers /\ joined[c] < n /\ sequence = n)
            ~> (got[c] >= n \/ handler[c] \notin {"select", "write"})

(* A call whose peer has gone always gets out of the bridge, and Close      *)
(* returns, however many connections are open or stalled.                   *)
LeavingEnds ==
    /\ \A c \in Call : handler[c] = "leave" ~> handler[c] = "gone"
    /\ main = "closing" ~> main = "closed"
=============================================================================
