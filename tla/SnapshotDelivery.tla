-------------------------- MODULE SnapshotDelivery --------------------------
(***************************************************************************)
(* internal/service/stream_bridge.go, the way of a snapshot through        *)
(* ServeSSE, and _SnapshotAssembler of app/lib/providers/drone_provider.dart*)
(* behind it.  All subscribers of a broadcast are given one slice: a call  *)
(* with a filter copies what it wants of it, a call with a limit sorts it  *)
(* in place and keeps its head, and each sends its drones in parts that    *)
(* the app assembles.  Who is given which snapshot is StreamBridge's       *)
(* subject: here a call receives the newest.  An event arrives in order    *)
(* and whole, or the connection is lost.                                   *)
(***************************************************************************)
EXTENDS Integers, SequencesExt

CONSTANTS Conn,          \* the connections
          Filtering,     \* those with ?type= or ?search=
          Limited,       \* those with ?limit=
          Chunked,       \* those with ?chunked=1: the app's
          Wanted,        \* the drones the filters match
          StreamLimit,   \* the limit
          PartSize,
          MaxDrones,     \* bound: drones of a snapshot, in the order of their names
          MaxSequence    \* bound: broadcasts

ASSUME ConnectionAssumption ==
    /\ Filtering \subseteq Conn /\ Limited \subseteq Conn /\ Chunked \subseteq Conn
    /\ Conn \cap (1 .. MaxSequence) = {}
ASSUME SizeAssumption ==
    /\ StreamLimit \in Nat \ {0} /\ PartSize \in Nat \ {0}
    /\ MaxDrones \in Nat /\ MaxSequence \in Nat

VARIABLES
    sequence,  \* of the last broadcast
    slice,     \* of each broadcast, and the copy of each call
    taken,     \* per connection, the broadcast its call received last
    call,      \* what its call is doing
    pending,   \* the assembler's snapshots: their total and parts so far
    shown      \* the snapshot the client has, with its broadcast

vars == <<sequence, slice, taken, call, pending, shown>>

\* A call of ServeSSE in its select.  len is the length of filtered, pos the next
\* element of a loop over a slice, i and j are those of the sort, held is the
\* element in a swap, part and chunk are the part being encoded.
Waiting == [pc |-> "select", len |-> 0, pos |-> 1, i |-> 0, j |-> 0,
            held |-> 0, part |-> 0, chunk |-> <<>>]

\* Where a call's slice filtered is: in the broadcast's if it has no filter.
Array(c) == IF c \in Filtering THEN c ELSE taken[c]

Element(c, k) == slice[Array(c)][k]

Init ==
    /\ sequence = 0
    /\ slice = [a \in 1 .. MaxSequence \cup Conn |-> <<>>]
    /\ taken = [c \in Conn |-> 0]
    /\ call = [c \in Conn |-> Waiting]
    /\ pending = [c \in Conn |-> <<>>]
    /\ shown = [c \in Conn |-> [sequence |-> 0, updates |-> <<>>]]
-----------------------------------------------------------------------------
(* GetFiltered returns the drones in the order of its maps: any order.      *)
Broadcast ==
    /\ sequence < MaxSequence
    /\ sequence' = sequence + 1
    /\ \E n \in 0 .. MaxDrones :
       \E order \in SetToSeqs(1 .. n) :
          slice' = [slice EXCEPT ![sequence + 1] = order]
    /\ UNCHANGED <<taken, call, pending, shown>>

\* filtered is known: sort it if it is longer than the limit, or write it.
SortOrWrite(c, len) ==
    call' = [call EXCEPT ![c] =
                IF c \in Limited /\ len > StreamLimit
                THEN [Waiting EXCEPT !.pc = "sort", !.len = len, !.i = 2, !.j = 2]
                ELSE [Waiting EXCEPT !.pc = "write", !.len = len]]

Receive(c) ==
    /\ call[c].pc = "select" /\ taken[c] < sequence
    /\ taken' = [taken EXCEPT ![c] = sequence]
    /\ IF c \in Filtering
       THEN call' = [call EXCEPT ![c].pc = "filter"]
       ELSE SortOrWrite(c, Len(slice[sequence]))
    /\ UNCHANGED <<sequence, slice, pending, shown>>

\* The loop of filterUpdates, which fills a slice of the call's own.
filterUpdates(c) ==
    LET source == slice[taken[c]]
        pos == call[c].pos
    IN  /\ call[c].pc = "filter"
        /\ IF pos <= Len(source)
           THEN /\ call' = [call EXCEPT ![c].pos = pos + 1]
                /\ slice' = IF source[pos] \in Wanted
                            THEN [slice EXCEPT ![c] = Append(@, source[pos])]
                            ELSE slice
           ELSE SortOrWrite(c, Len(slice[c])) /\ UNCHANGED slice
        /\ UNCHANGED <<sequence, taken, pending, shown>>
-----------------------------------------------------------------------------
(* sort.Slice, which is this insertion sort for a dozen elements or fewer.  *)

\* Its two loops, and the truncation after them.
Compare(c) ==
    LET i == call[c].i
        j == call[c].j
    IN  /\ call[c].pc = "sort"
        /\ call' = [call EXCEPT ![c] =
              IF i > call[c].len
              THEN [Waiting EXCEPT !.pc = "write", !.len = StreamLimit]
              ELSE IF j > 1 /\ Element(c, j) < Element(c, j - 1)
              THEN [@ EXCEPT !.pc = "swap"]
              ELSE [@ EXCEPT !.i = i + 1, !.j = i + 1]]
        /\ UNCHANGED <<sequence, slice, taken, pending, shown>>

\* A swap reads both elements and writes one after the other.
SwapFirst(c) ==
    LET j == call[c].j
    IN  /\ call[c].pc = "swap"
        /\ slice' = [slice EXCEPT ![Array(c)][j] = Element(c, j - 1)]
        /\ call' = [call EXCEPT ![c].pc = "swapped", ![c].held = Element(c, j)]
        /\ UNCHANGED <<sequence, taken, pending, shown>>

SwapSecond(c) ==
    LET j == call[c].j
    IN  /\ call[c].pc = "swapped"
        /\ slice' = [slice EXCEPT ![Array(c)][j - 1] = call[c].held]
        /\ call' = [call EXCEPT ![c].pc = "sort", ![c].j = j - 1, ![c].held = 0]
        /\ UNCHANGED <<sequence, taken, pending, shown>>
-----------------------------------------------------------------------------
(* writeSnapshotParts, writeSnapshotEvent for a client that did not opt in  *)
(* to parts, and the assembler that gets each part.                         *)

\* Mutant of Total: a last part that is not full is left out.
Total_Floor(c, len) ==
    IF c \in Chunked /\ len >= PartSize THEN len \div PartSize ELSE 1

Total(c, len) ==
    IF c \in Chunked /\ len > 0 THEN (len + PartSize - 1) \div PartSize ELSE 1

\* The last element of a part.
PartEnd(c, part, len) ==
    IF c \in Chunked /\ (part + 1) * PartSize < len THEN (part + 1) * PartSize ELSE len

\* json.Marshal of one element.
Encode(c) ==
    LET at == call[c]
    IN  /\ at.pc = "write" /\ at.pos <= PartEnd(c, at.part, at.len)
        /\ call' = [call EXCEPT ![c].pos = at.pos + 1,
                                ![c].chunk = Append(@, Element(c, at.pos))]
        /\ UNCHANGED <<sequence, slice, taken, pending, shown>>

\* _SnapshotAssembler.add up to the store of the part: what is left of the
\* snapshots in pending, with this part in its own.
WithPart(old, s, part, total, updates) ==
    LET recent == {k \in DOMAIN old : k >= s - 1}
        known == s \in recent
        parts == IF known THEN old[s].parts ELSE <<>>
    IN  [k \in recent \cup {s} |->
            IF k # s THEN old[k]
            ELSE [total |-> IF known THEN old[s].total ELSE total,
                  parts |-> [p \in DOMAIN parts \cup {part} |->
                                IF p = part THEN updates ELSE parts[p]]]]

\* pending without a snapshot.
Removed(kept, s) == [k \in DOMAIN kept \ {s} |-> kept[k]]

\* The rest of add: a snapshot whose total changes is forgotten, one that is
\* complete is forgotten and shown.
Add(c, s, part, total, updates) ==
    LET kept == WithPart(pending[c], s, part, total, updates)
        complete == DOMAIN kept[s].parts = 0 .. total - 1
    IN  IF kept[s].total # total
        THEN pending' = [pending EXCEPT ![c] = Removed(kept, s)] /\ UNCHANGED shown
        ELSE IF complete
        THEN /\ pending' = [pending EXCEPT ![c] = Removed(kept, s)]
             /\ shown' = [shown EXCEPT ![c] =
                   [sequence |-> s,
                    updates |-> FlattenSeq([p \in 1 .. total |-> kept[s].parts[p - 1]])]]
        ELSE pending' = [pending EXCEPT ![c] = kept] /\ UNCHANGED shown

\* A part is encoded: the event is sent, and the client's assembler adds it.  A
\* call's own slice is garbage after the last one.
WritePart(c) ==
    LET at == call[c]
        total == Total(c, at.len)
        last == at.part + 1 = total
    IN  /\ at.pc = "write" /\ at.pos > PartEnd(c, at.part, at.len)
        /\ IF c \in Chunked
           THEN Add(c, taken[c], at.part, total, at.chunk)
           ELSE /\ shown' = [shown EXCEPT ![c] =
                      [sequence |-> taken[c], updates |-> at.chunk]]
                /\ UNCHANGED pending
        /\ call' = [call EXCEPT ![c] =
              IF last THEN Waiting ELSE [@ EXCEPT !.part = at.part + 1, !.chunk = <<>>]]
        /\ slice' = IF last THEN [slice EXCEPT ![c] = <<>>] ELSE slice
        /\ UNCHANGED <<sequence, taken>>

\* The connection is lost and the client connects again: a new call, which gets
\* the next broadcast, and a new assembler.
Reconnect(c) ==
    /\ call' = [call EXCEPT ![c] = Waiting]
    /\ slice' = [slice EXCEPT ![c] = <<>>]
    /\ taken' = [taken EXCEPT ![c] = sequence]
    /\ pending' = [pending EXCEPT ![c] = <<>>]
    /\ UNCHANGED <<sequence, shown>>

Next ==
    \/ Broadcast
    \/ \E c \in Conn :
          \/ Receive(c) \/ filterUpdates(c)
          \/ Compare(c) \/ SwapFirst(c) \/ SwapSecond(c)
          \/ Encode(c) \/ WritePart(c)
          \/ Reconnect(c)

Spec == Init /\ [][Next]_vars
-----------------------------------------------------------------------------
(* The drones a connection asked for, of a broadcast.                       *)
Asked(c, s) ==
    LET all == 1 .. Len(slice[s])
        matched == IF c \in Filtering THEN all \cap Wanted ELSE all
    IN  IF c \in Limited
        THEN {d \in matched : Cardinality({e \in matched : e < d}) < StreamLimit}
        ELSE matched

(* What a client shows is a whole snapshot: every drone it asked for, the   *)
(* same ones each time if it set a limit, each once, all of one broadcast,  *)
(* and of a later one than before, whatever connections are lost between    *)
(* two parts and however many other clients there are.                      *)
ShowsWholeSnapshots ==
    [][\A c \in Conn : shown'[c] # shown[c] =>
          /\ shown'[c].sequence > shown[c].sequence
          /\ ToSet(shown'[c].updates) = Asked(c, shown'[c].sequence)
          /\ Len(shown'[c].updates) = Cardinality(ToSet(shown'[c].updates))]_vars
=============================================================================
