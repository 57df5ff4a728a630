------------------------ MODULE StreamBridge_proofs -------------------------
(***************************************************************************)
(* Proofs about StreamBridge, for any set of connections, stalled or not,  *)
(* and any number of broadcasts: the loop never sends to a closed channel, *)
(* every subscriber it has served has the latest snapshot, and each        *)
(* channel is a latest-wins mailbox.                                       *)
(***************************************************************************)
EXTENDS StreamBridge, TLAPS

(* The map holds exactly calls that have registered and not left; a closed  *)
(* channel belongs to a call that is over.  The iteration exists only under *)
(* the lock, and deals with subscribers only.                               *)
Membership ==
    /\ \A c \in subscribers : handler[c] \in {"select", "write", "leave"}
    /\ \A c \in closed : handler[c] = "gone"
    /\ ~Locked => pending = {}
    /\ loop \in {"evict", "resend"} => target \in subscribers \ pending

(* What is queued for a call is newer than what it has received, and        *)
(* neither has the number of a broadcast that has not reached the call.     *)
Order ==
    /\ loop = "read" => sequence < MaxSequence
    /\ \A c \in Call :
         /\ queue[c] <= sequence /\ got[c] <= sequence
         /\ queue[c] # 0 => got[c] < queue[c]
    /\ \A c \in Unserved : queue[c] < sequence /\ got[c] < sequence
    /\ loop = "resend" => queue[target] = 0

BridgeInv == TypeOK /\ Membership /\ Order /\ LatestReachesChannel

LEMMA InitInv == Init => BridgeInv
  <1> SUFFICES ASSUME Init PROVE BridgeInv
      OBVIOUS
  <1> USE SequenceAssumption, CallAssumption DEF Init
  <1>1. TypeOK
        <2>1. stop \in BOOLEAN
              BY Zenon
        <2> QED BY <2>1 DEF TypeOK, Sequence
  <1>2. Membership
        BY DEF Membership, Locked
  <1>3. Order
        BY DEF Order, Unserved
  <1>4. LatestReachesChannel
        BY DEF LatestReachesChannel
  <1> QED BY <1>1, <1>2, <1>3, <1>4 DEF BridgeInv

LEMMA TypeStep ==
    ASSUME TypeOK, Membership, Order, [Next]_vars
    PROVE  TypeOK'
  <1> USE SequenceAssumption, CallAssumption DEF TypeOK, Sequence
  <1>1. CASE Tick
        BY <1>1 DEF Tick
  <1>2. CASE Lock
        <2>1. sequence < MaxSequence /\ sequence' = sequence + 1
              BY <1>2 DEF Lock, Order
        <2>2. PICK n \in Sequence : n = sequence
              OBVIOUS
        <2>3. sequence' \in Sequence
              BY <2>1, <2>2
        <2> QED BY <1>2, <2>3 DEF Lock
  <1>3. ASSUME NEW c \in Call, Send(c) PROVE TypeOK'
        BY <1>3 DEF Send
  <1>4. CASE Evict
        <2>1. 0 \in Sequence
              OBVIOUS
        <2>2. queue' \in [Call -> Sequence]
              BY <1>4, <2>1 DEF Evict
        <2> QED BY <1>4, <2>2 DEF Evict
  <1>5. CASE Resend
        BY <1>5 DEF Resend
  <1>6. CASE Unlock \/ SeeStop
        BY <1>6 DEF Unlock, SeeStop
  <1>7. ASSUME NEW c \in Call, Connect(c) \/ Write(c) \/ Disconnect(c) PROVE TypeOK'
        BY <1>7 DEF Connect, Write, Disconnect
  <1>8. ASSUME NEW c \in Call, Register(c) PROVE TypeOK'
        BY <1>8 DEF Register
  <1>9. ASSUME NEW c \in Call, Receive(c) PROVE TypeOK'
        BY <1>9 DEF Receive
  <1>10. ASSUME NEW c \in Call, Leave(c) PROVE TypeOK'
        BY <1>10 DEF Leave, Membership
  <1>11. ASSUME NEW c \in Call, CloseChannel(c) PROVE TypeOK'
        BY <1>11 DEF CloseChannel
  <1>12. CASE Close \/ CloseWait
        BY <1>12 DEF Close, CloseWait
  <1>13. CASE UNCHANGED vars
        BY <1>13 DEF vars
  <1> QED BY <1>1, <1>2, <1>3, <1>4, <1>5, <1>6, <1>7, <1>8, <1>9, <1>10, <1>11,
             <1>12, <1>13
          DEF Next, broadcastLoop, Broadcast, ServeSSE, Serve, Over

LEMMA MembershipStep ==
    ASSUME TypeOK, Membership, [Next]_vars
    PROVE  Membership'
  <1> USE CallAssumption DEF TypeOK, Membership, Locked
  <1>1. CASE Tick \/ Lock \/ Evict \/ Resend \/ Unlock \/ SeeStop
        BY <1>1 DEF Tick, Lock, Evict, Resend, Unlock, SeeStop
  <1>2. ASSUME NEW c \in Call, Send(c) PROVE Membership'
        BY <1>2 DEF Send
  <1>3. ASSUME NEW c \in Call, Connect(c) PROVE Membership'
        BY <1>3 DEF Connect
  <1>4. ASSUME NEW c \in Call, Register(c) PROVE Membership'
        BY <1>4 DEF Register
  <1>5. ASSUME NEW c \in Call, Receive(c) PROVE Membership'
        BY <1>5 DEF Receive
  <1>6. ASSUME NEW c \in Call, Write(c) \/ Disconnect(c) PROVE Membership'
        BY <1>6 DEF Write, Disconnect
  <1>7. ASSUME NEW c \in Call, Leave(c) PROVE Membership'
        BY <1>7 DEF Leave
  <1>8. ASSUME NEW c \in Call, CloseChannel(c) PROVE Membership'
        BY <1>8 DEF CloseChannel
  <1>9. CASE Close \/ CloseWait \/ UNCHANGED vars
        BY <1>9 DEF Close, CloseWait, vars
  <1> QED BY <1>1, <1>2, <1>3, <1>4, <1>5, <1>6, <1>7, <1>8, <1>9
          DEF Next, broadcastLoop, Broadcast, ServeSSE, Serve, Over

LEMMA OrderStep ==
    ASSUME TypeOK, Membership, Order, [Next]_vars
    PROVE  Order'
  <1> USE SequenceAssumption, CallAssumption
      DEF TypeOK, Sequence, Membership, Locked, Order, Unserved
  <1>1. CASE Tick
        BY <1>1 DEF Tick
  <1>2. CASE Lock
        <2>1. PICK n \in Nat : n = sequence /\ sequence' = n + 1
              BY <1>2 DEF Lock
        <2>2. \A c \in Call : queue'[c] < sequence' /\ got'[c] < sequence'
              BY <1>2, <2>1 DEF Lock
        <2> QED BY <1>2, <2>2 DEF Lock
  <1>3. ASSUME NEW c \in Call, Send(c) PROVE Order'
        BY <1>3 DEF Send
  <1>4. CASE Evict
        BY <1>4 DEF Evict
  <1>5. CASE Resend
        BY <1>5 DEF Resend
  <1>6. CASE Unlock \/ SeeStop
        BY <1>6 DEF Unlock, SeeStop
  <1>7. ASSUME NEW c \in Call, Connect(c) \/ Write(c) \/ Disconnect(c) PROVE Order'
        BY <1>7 DEF Connect, Write, Disconnect
  <1>8. ASSUME NEW c \in Call, Register(c) PROVE Order'
        BY <1>8 DEF Register
  <1>9. ASSUME NEW c \in Call, Receive(c) PROVE Order'
        BY <1>9 DEF Receive
  <1>10. ASSUME NEW c \in Call, Leave(c) \/ CloseChannel(c) PROVE Order'
        BY <1>10 DEF Leave, CloseChannel
  <1>11. CASE Close \/ CloseWait \/ UNCHANGED vars
        BY <1>11 DEF Close, CloseWait, vars
  <1> QED BY <1>1, <1>2, <1>3, <1>4, <1>5, <1>6, <1>7, <1>8, <1>9, <1>10, <1>11
          DEF Next, broadcastLoop, Broadcast, ServeSSE, Serve, Over

LEMMA LatestStep ==
    ASSUME TypeOK, Membership, Order, LatestReachesChannel, [Next]_vars
    PROVE  LatestReachesChannel'
  <1> USE SequenceAssumption, CallAssumption
      DEF TypeOK, Sequence, Membership, Locked, LatestReachesChannel, Unserved
  <1>1. CASE Tick \/ Lock \/ Evict \/ Unlock \/ SeeStop
        BY <1>1 DEF Tick, Lock, Evict, Unlock, SeeStop
  <1>2. ASSUME NEW c \in Call, Send(c) PROVE LatestReachesChannel'
        BY <1>2 DEF Send
  <1>3. CASE Resend
        BY <1>3 DEF Resend, Order
  <1>4. ASSUME NEW c \in Call, Connect(c) \/ Write(c) \/ Disconnect(c)
        PROVE  LatestReachesChannel'
        BY <1>4 DEF Connect, Write, Disconnect
  <1>5. ASSUME NEW c \in Call, Register(c) PROVE LatestReachesChannel'
        BY <1>5 DEF Register
  <1>6. ASSUME NEW c \in Call, Receive(c) PROVE LatestReachesChannel'
        BY <1>6 DEF Receive
  <1>7. ASSUME NEW c \in Call, Leave(c) \/ CloseChannel(c)
        PROVE  LatestReachesChannel'
        BY <1>7 DEF Leave, CloseChannel
  <1>8. CASE Close \/ CloseWait \/ UNCHANGED vars
        BY <1>8 DEF Close, CloseWait, vars
  <1> QED BY <1>1, <1>2, <1>3, <1>4, <1>5, <1>6, <1>7, <1>8
          DEF Next, broadcastLoop, Broadcast, ServeSSE, Serve, Over

(* The inductive invariant: who is in the map and in the iteration, the     *)
(* order of the numbers each call has seen, queued and not yet been         *)
(* offered, and what follows from them (stream_bridge.go, broadcastLoop and *)
(* ServeSSE).                                                               *)
THEOREM BridgeInvariant == Spec => []BridgeInv
  <1>1. BridgeInv /\ [Next]_vars => BridgeInv'
        BY TypeStep, MembershipStep, OrderStep, LatestStep DEF BridgeInv
  <1> QED BY InitInv, <1>1, PTL DEF Spec

(* Types, and the map does not change under the loop's iteration.           *)
THEOREM BridgeTypes == Spec => []TypeOK
  <1>1. BridgeInv => TypeOK
        BY DEF BridgeInv
  <1> QED BY <1>1, BridgeInvariant, PTL

(* broadcastLoop never sends to a channel that ServeSSE has closed.         *)
THEOREM SendsReachOpenChannels == Spec => []NoSendOnClosed
  <1>1. BridgeInv => NoSendOnClosed
        BY DEF BridgeInv, TypeOK, Membership, NoSendOnClosed, Unserved
  <1> QED BY <1>1, BridgeInvariant, PTL

(* Every subscriber that has been served has the latest snapshot, or it     *)
(* waits for it in its channel.                                             *)
THEOREM LatestAlwaysReachesChannel == Spec => []LatestReachesChannel
  <1>1. BridgeInv => LatestReachesChannel
        BY DEF BridgeInv
  <1> QED BY <1>1, BridgeInvariant, PTL
-----------------------------------------------------------------------------
(* The refinement.                                                          *)

MailboxStep(c) == [Mailbox(c)!Next]_<<Newest(c), Held(c), got[c]>>

\* A mailbox nobody touches.
Untouched(c) == Held(c)' = Held(c) /\ got'[c] = got[c]

LEMMA UntouchedStutters == \A c \in Call : Untouched(c) => MailboxStep(c)
  BY DEF Untouched, MailboxStep, Newest

(* A snapshot that is put in a mailbox is newer than any it has held.       *)
LEMMA PutStep ==
    ASSUME BridgeInv, NEW c \in Call, c \in Unserved,
           Held(c)' = sequence, got' = got, sequence' = sequence, sequence # 0
    PROVE  MailboxStep(c)
  <1>1. Newest(c)' = sequence
        BY DEF Newest
  <1>2. CASE Replacing(c)
        BY <1>1, <1>2 DEF MailboxStep, Held, Newest
  <1>3. CASE ~Replacing(c)
        <2>1. Newest(c) \in {queue[c], got[c]}
              BY <1>3 DEF Newest, Held
        <2>2. queue[c] < sequence /\ got[c] < sequence
              BY DEF BridgeInv, Order
        <2>3. Newest(c)' > Newest(c)
              BY <1>1, <2>1, <2>2 DEF BridgeInv, TypeOK, Sequence
        <2> QED BY <1>1, <2>3 DEF MailboxStep, Mailbox!Next, Mailbox!Put
  <1> QED BY <1>2, <1>3

(* Every step of the bridge puts a snapshot in a mailbox, gets the one that *)
(* waits there, or leaves it alone.                                         *)
LEMMA EveryStep ==
    ASSUME BridgeInv, [Next]_vars
    PROVE  \A c \in Call : MailboxStep(c)
  <1> SUFFICES ASSUME NEW c \in Call PROVE MailboxStep(c)
      OBVIOUS
  <1> USE CallAssumption DEF BridgeInv, TypeOK
  <1>1. CASE Tick \/ Lock \/ Unlock \/ SeeStop \/ Close \/ CloseWait \/ UNCHANGED vars
        <2>1. Untouched(c)
              BY <1>1 DEF Tick, Lock, Unlock, SeeStop, Close, CloseWait, vars,
                          Untouched, Held, Replacing
        <2> QED BY <2>1, UntouchedStutters
  <1>2. ASSUME NEW d \in Call,
               \/ Connect(d) \/ Register(d) \/ Write(d) \/ Disconnect(d)
               \/ Leave(d) \/ CloseChannel(d)
        PROVE  MailboxStep(c)
        <2>1. Untouched(c)
              BY <1>2 DEF Connect, Register, Write, Disconnect, Leave, CloseChannel,
                          Untouched, Held, Replacing
        <2> QED BY <2>1, UntouchedStutters
  <1>3. ASSUME NEW d \in Call, Send(d) PROVE MailboxStep(c)
        <2>1. CASE c = d /\ queue[c] = 0
              <3>1. c \in Unserved
                    BY <1>3, <2>1 DEF Send, Unserved
              <3>2. sequence # 0
                    BY <3>1 DEF Order, Sequence
              <3>3. Held(c)' = sequence
                    BY <1>3, <2>1 DEF Send, Held, Replacing
              <3>4. got' = got /\ sequence' = sequence
                    BY <1>3 DEF Send
              <3> QED BY <3>1, <3>2, <3>3, <3>4, PutStep
        <2>2. CASE ~(c = d /\ queue[c] = 0)
              <3>1. Untouched(c)
                    BY <1>3, <2>2 DEF Send, Untouched, Held, Replacing
              <3> QED BY <3>1, UntouchedStutters
        <2> QED BY <2>1, <2>2
  <1>4. CASE Evict
        <2>1. CASE c = target
              <3>1. c \in Unserved
                    BY <1>4, <2>1 DEF Evict, Unserved
              <3>2. sequence # 0
                    BY <3>1 DEF Order, Sequence
              <3>3. Held(c)' = sequence
                    BY <1>4, <2>1 DEF Evict, Held, Replacing
              <3>4. got' = got /\ sequence' = sequence
                    BY <1>4 DEF Evict
              <3> QED BY <3>1, <3>2, <3>3, <3>4, PutStep
        <2>2. CASE c # target
              <3>1. Untouched(c)
                    BY <1>4, <2>2 DEF Evict, Untouched, Held, Replacing
              <3> QED BY <3>1, UntouchedStutters
        <2> QED BY <2>1, <2>2
  <1>5. CASE Resend
        <2>1. Untouched(c)
              BY <1>5 DEF Resend, Order, Untouched, Held, Replacing
        <2> QED BY <2>1, UntouchedStutters
  <1>6. ASSUME NEW d \in Call, Receive(d) PROVE MailboxStep(c)
        <2>1. CASE c = d
              <3>1. ~Replacing(c) /\ ~Replacing(c)'
                    BY <1>6, <2>1 DEF Receive, Replacing, Order
              <3>2. /\ Held(c) # 0 /\ got'[c] = Held(c) /\ Held(c)' = 0
                    BY <1>6, <2>1, <3>1 DEF Receive, Held
              <3>3. Newest(c)' = Newest(c)
                    BY <3>2 DEF Newest
              <3> QED BY <3>2, <3>3 DEF MailboxStep, Mailbox!Next, Mailbox!Get
        <2>2. CASE c # d
              <3>1. Untouched(c)
                    BY <1>6, <2>2 DEF Receive, Untouched, Held, Replacing
              <3> QED BY <3>1, UntouchedStutters
        <2> QED BY <2>1, <2>2
  <1> QED BY <1>1, <1>2, <1>3, <1>4, <1>5, <1>6
          DEF Next, broadcastLoop, Broadcast, ServeSSE, Serve, Over

LEMMA MailboxesStart == Init => \A c \in Call : Mailbox(c)!Init
  BY DEF Init, Mailbox!Init, Newest, Held, Replacing

(* Each subscriber's channel, with the three selects of the loop and the    *)
(* receive of ServeSSE, is a latest-wins mailbox.                           *)
THEOREM BridgeIsMailboxes == Spec => ImplementsMailboxes
  <1>1. BridgeInv /\ [Next]_vars =>
            [\A c \in Call : [Mailbox(c)!Next]_<<Newest(c), Held(c), got[c]>>]_vars
        BY EveryStep DEF MailboxStep
  <1> QED BY MailboxesStart, <1>1, BridgeInvariant, PTL
          DEF Spec, ImplementsMailboxes
=============================================================================
