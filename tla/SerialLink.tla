----------------------------- MODULE SerialLink -----------------------------
(***************************************************************************)
(* One direction of the serial protocol: the EgressThread of one end, the  *)
(* UART in both directions, and the IngressThread of the other end.  Both  *)
(* ends of the protocol are the classes of the serial package; the second  *)
(* end stands for the firmware of the light panels, which may reset.       *)
(*                                                                         *)
(* The two wires are FIFO and lossy.  A frame that was garbled, truncated  *)
(* or skipped over is one that COBS, the CRC or the length test drops, so  *)
(* losing the frame at the head of a wire stands for all of these.         *)
(***************************************************************************)
EXTENDS Integers, Sequences

CONSTANTS
    Modulus,            \* sequence numbers are bytes: 256
    WindowSize,         \* WINDOW_SIZE: 16
    BatchCapacity,      \* capacity of the batch taken from the collector: 8
    FlushCount,         \* FLUSH_COUNT: 256
    CursorResetHoldoff, \* CURSOR_RESET_HOLDOFF: 5
    MinBurst,           \* frames of the largest size one cycle may send: 2
    Frames,             \* bound: client frames submitted in a behaviour
    WireCapacity,       \* bound: a wire with this many frames takes no more
    MaxResets,          \* bound: resets of the receiving end
    MaxLosses           \* bound: frames lost by the wires

\* The constructor of EgressThread rejects a batch larger than half a window.
ASSUME WindowAssumption ==
    /\ Modulus \in Nat /\ WindowSize \in Nat /\ BatchCapacity \in Nat
    /\ 1 <= BatchCapacity /\ 2 * BatchCapacity <= WindowSize
    /\ WindowSize < Modulus

ASSUME ParameterAssumption ==
    /\ FlushCount \in Nat /\ CursorResetHoldoff \in Nat /\ MinBurst \in Nat
    /\ 1 <= FlushCount /\ 1 <= CursorResetHoldoff /\ 1 <= MinBurst

ASSUME BoundAssumption ==
    /\ Frames \in Nat /\ WireCapacity \in Nat
    /\ MaxResets \in Nat /\ MaxLosses \in Nat

VARIABLES
    \* The egress thread.
    phase,              \* where its loop is: the next call it makes
    initialised, head, tail, cursor, holdoff, countdown,
    slots,              \* the frame each sequence number carries, 0 for none
    \* The atomics through which the ingress thread feeds it back.
    pongs, acknowledged, initialisations, uninitialisations,
    \* The wires.
    outward, inward,
    \* The ingress thread of the other end.
    ready,              \* its "initialised"
    accept,
    respondPong, respondUninitialised, respondInitialised, respondAcknowledge,
    \* History: frames 1..submitted were accepted into the window, log holds
    \* those handed to the receiver's inbox since its last reset, and got those
    \* handed to it ever.
    submitted, log, got,
    resets, losses

egressVars == <<initialised, head, tail, cursor, holdoff, countdown, slots>>
feedbackVars == <<pongs, acknowledged, initialisations, uninitialisations>>
responseVars == <<respondPong, respondUninitialised, respondInitialised,
                  respondAcknowledge>>
receiverVars == <<ready, accept, responseVars>>
historyVars == <<submitted, log, got>>
vars == <<phase, egressVars, feedbackVars, outward, inward, receiverVars,
          historyVars, resets, losses>>

SeqNums == 0..(Modulus - 1)

\* Mutant: numbers wrap one too late.
modPlus(n) == n % (Modulus + 1)

mod(n) == n % Modulus

\* Frames on the outward wire.
Ping == [kind |-> "PING"]
Initialise(s) == [kind |-> "INITIALISE", seq |-> s]
Message(s, f) == [kind |-> "MESSAGE", seq |-> s, frame |-> f]

\* Frames on the inward wire.
Pong == [kind |-> "PONG"]
Initialised == [kind |-> "INITIALISED"]
Uninitialised == [kind |-> "UNINITIALISED"]
Acknowledge(s) == [kind |-> "ACKNOWLEDGE", seq |-> s]

Init ==
    /\ phase = "accept"
    /\ initialised = FALSE
    /\ head = 0 /\ tail = 0 /\ cursor = 0 /\ holdoff = 0
    /\ countdown = FlushCount
    /\ slots = [s \in SeqNums |-> 0]
    /\ pongs = 0 /\ acknowledged = -1
    /\ initialisations = 0 /\ uninitialisations = 0
    /\ outward = <<>> /\ inward = <<>>
    /\ ready = FALSE /\ accept = 0
    /\ respondPong = FALSE /\ respondUninitialised = FALSE
    /\ respondInitialised = FALSE /\ respondAcknowledge = -1
    /\ submitted = 0 /\ log = <<>> /\ got = {}
    /\ resets = 0 /\ losses = 0

-----------------------------------------------------------------------------
(* The egress thread: accept batches until the next transmission is due,   *)
(* take the feedback, publish.                                             *)

window == mod(tail - head)

\* Mutant: off by one in the space a batch may need.
HasAlmostSpace == WindowSize - window >= BatchCapacity - 1

HasSpace == WindowSize - window >= BatchCapacity

InWindow(s) == s >= 0 /\ mod(s - head) < window

Waiting == cursor = tail /\ holdoff < CursorResetHoldoff

FirstSequence == head

\* One batch exchanged with the collector: it holds at least one frame.
AcceptBatch(count) ==
    /\ phase = "accept"
    /\ HasSpace
    /\ submitted + count <= Frames
    /\ slots' = [s \in SeqNums |-> IF mod(s - tail) < count
                                   THEN submitted + 1 + mod(s - tail)
                                   ELSE slots[s]]
    /\ tail' = mod(tail + count)
    /\ submitted' = submitted + count
    /\ UNCHANGED <<phase, initialised, head, cursor, holdoff, countdown,
                   feedbackVars, outward, inward, receiverVars, log, got,
                   resets, losses>>

\* The period is over.  handleFeedback reads one atomic after the other, and
\* the ingress thread may write between two reads.
HandlePongs ==
    /\ phase = "accept"
    /\ phase' = "acknowledgement"
    /\ countdown' = IF countdown > 0 THEN countdown - pongs ELSE countdown
    /\ pongs' = 0
    /\ UNCHANGED <<initialised, head, tail, cursor, holdoff, slots,
                   acknowledged, initialisations, uninitialisations,
                   outward, inward, receiverVars, historyVars, resets, losses>>

HandleAcknowledgement ==
    /\ phase = "acknowledgement"
    /\ phase' = "initialisation"
    /\ head' = IF InWindow(acknowledged) THEN mod(acknowledged + 1) ELSE head
    /\ acknowledged' = -1
    /\ UNCHANGED <<initialised, tail, cursor, holdoff, countdown, slots,
                   pongs, initialisations, uninitialisations,
                   outward, inward, receiverVars, historyVars, resets, losses>>

HandleInitialisations ==
    /\ phase = "initialisation"
    /\ phase' = "uninitialisation"
    /\ initialised' = (initialised \/ initialisations > 0)
    /\ initialisations' = 0
    /\ UNCHANGED <<head, tail, cursor, holdoff, countdown, slots,
                   pongs, acknowledged, uninitialisations,
                   outward, inward, receiverVars, historyVars, resets, losses>>

HandleUninitialisations ==
    /\ phase = "uninitialisation"
    /\ phase' = "publish"
    /\ uninitialisations' = 0
    /\ LET reset == initialised /\ uninitialisations > 0 IN
       /\ countdown' = IF reset THEN FlushCount ELSE countdown
       /\ initialised' = (initialised /\ ~reset)
    /\ UNCHANGED <<head, tail, cursor, holdoff, slots,
                   pongs, acknowledged, initialisations,
                   outward, inward, receiverVars, historyVars, resets, losses>>

\* publishBatch ends its cycle by flushing into the outbox, which blocks while
\* the outbox is full.
Publish(frames) ==
    /\ phase = "publish"
    /\ phase' = "accept"
    /\ Len(outward) < WireCapacity
    /\ outward' = outward \o frames
    /\ UNCHANGED <<initialised, head, tail, countdown, slots, feedbackVars,
                   inward, receiverVars, historyVars, resets, losses>>

PublishNothing ==
    /\ initialised /\ head = tail
    /\ Publish(<<>>)
    /\ UNCHANGED <<cursor, holdoff>>

\* The cursor is at the end of the window: wait some cycles for new data
\* before it wraps to the head and everything is sent again.
PublishHoldoff ==
    /\ initialised /\ head # tail
    /\ Waiting
    /\ Publish(<<>>)
    /\ holdoff' = holdoff + 1
    /\ UNCHANGED cursor

\* A cycle sends from the cursor to the end of the window, or fewer frames when
\* the bytes run out, which they never do below MinBurst frames.
PublishMessages ==
    /\ initialised /\ head # tail
    /\ ~Waiting
    /\ LET first == IF mod(cursor - head) >= window THEN head ELSE cursor
           available == mod(tail - first)
       IN \E count \in 1..available :
            /\ count = available \/ count >= MinBurst
            /\ Publish([i \in 1..count |->
                  Message(mod(first + i - 1), slots[mod(first + i - 1)])])
            /\ cursor' = mod(first + count)
            /\ holdoff' = IF count = available THEN 1 ELSE 0

PublishPing ==
    /\ ~initialised /\ countdown > 0
    /\ Publish(<<Ping>>)
    /\ UNCHANGED <<cursor, holdoff>>

PublishInitialise ==
    /\ ~initialised /\ countdown <= 0
    /\ Publish(<<Initialise(FirstSequence)>>)
    /\ UNCHANGED <<cursor, holdoff>>

PublishBatch ==
    \/ PublishNothing \/ PublishHoldoff \/ PublishMessages
    \/ PublishPing \/ PublishInitialise

Egress ==
    \/ \E count \in 1..BatchCapacity : AcceptBatch(count)
    \/ HandlePongs \/ HandleAcknowledgement
    \/ HandleInitialisations \/ HandleUninitialisations
    \/ PublishBatch
-----------------------------------------------------------------------------
(* The ingress thread of the sender's own end: everything on the inward    *)
(* wire is in the response range and goes to feedback().                   *)

Feedback ==
    /\ inward # <<>>
    /\ inward' = Tail(inward)
    /\ LET f == Head(inward) IN
       /\ pongs' = pongs + (IF f.kind = "PONG" THEN 1 ELSE 0)
       /\ acknowledged' = IF f.kind = "ACKNOWLEDGE" THEN f.seq ELSE acknowledged
       /\ initialisations' =
            initialisations + (IF f.kind = "INITIALISED" THEN 1 ELSE 0)
       /\ uninitialisations' =
            uninitialisations + (IF f.kind = "UNINITIALISED" THEN 1 ELSE 0)
    /\ UNCHANGED <<phase, egressVars, outward, receiverVars, historyVars,
                   resets, losses>>
-----------------------------------------------------------------------------
(* The ingress thread of the receiving end: process every frame of a read  *)
(* cycle, then answer once for the whole cycle.                            *)

\* Mutant: messages are taken before the handshake.
AnyTime == TRUE

MayHandle == ready

\* Mutant: any message of the window is taken.
NotBehind(s) == mod(s - accept) < WindowSize

Expected(s) == s = accept

\* Mutant: the number to come is acknowledged.
NextAccepted == accept

\* Mutant: a repeated message is not acknowledged again.
NoAcknowledgement == -1

LastAccepted == mod(accept - 1)

Consume(kind) ==
    /\ outward # <<>>
    /\ Head(outward).kind = kind
    /\ outward' = Tail(outward)
    /\ UNCHANGED <<phase, egressVars, feedbackVars, inward, submitted,
                   resets, losses>>

ProcessPing ==
    /\ Consume("PING")
    /\ respondPong' = TRUE
    /\ UNCHANGED <<ready, accept, respondUninitialised, respondInitialised,
                   respondAcknowledge, log, got>>

HandleInitialise ==
    /\ Consume("INITIALISE")
    /\ accept' = Head(outward).seq
    /\ ready' = TRUE
    /\ respondInitialised' = TRUE
    /\ UNCHANGED <<respondPong, respondUninitialised, respondAcknowledge,
                   log, got>>

RejectMessage ==
    /\ Consume("MESSAGE")
    /\ ~MayHandle
    /\ respondUninitialised' = TRUE
    /\ UNCHANGED <<ready, accept, respondPong, respondInitialised,
                   respondAcknowledge, log, got>>

HandleMessage ==
    /\ Consume("MESSAGE")
    /\ MayHandle
    /\ LET m == Head(outward) IN
       IF Expected(m.seq)
       THEN /\ accept' = mod(accept + 1)
            /\ respondAcknowledge' = m.seq
            /\ log' = Append(log, m.frame)
            /\ got' = got \cup {m.frame}
       ELSE /\ respondAcknowledge' = LastAccepted
            /\ UNCHANGED <<accept, log, got>>
    /\ UNCHANGED <<ready, respondPong, respondUninitialised,
                   respondInitialised>>

\* The answers of a cycle, in the order respond() writes them.
responses ==
    (IF respondPong THEN <<Pong>> ELSE <<>>)
    \o (IF respondUninitialised THEN <<Uninitialised>> ELSE <<>>)
    \o (IF respondInitialised THEN <<Initialised>> ELSE <<>>)
    \o (IF respondAcknowledge >= 0
        THEN <<Acknowledge(respondAcknowledge)>> ELSE <<>>)

Respond ==
    /\ responses # <<>>
    /\ Len(inward) < WireCapacity
    /\ inward' = inward \o responses
    /\ respondPong' = FALSE /\ respondUninitialised' = FALSE
    /\ respondInitialised' = FALSE /\ respondAcknowledge' = -1
    /\ UNCHANGED <<phase, egressVars, feedbackVars, outward, ready, accept,
                   historyVars, resets, losses>>

Ingress ==
    ProcessPing \/ HandleInitialise \/ RejectMessage \/ HandleMessage \/ Respond
-----------------------------------------------------------------------------
(* The environment. *)

\* The receiving end restarts: its ingress thread is a new one.
ResetReceiver ==
    /\ resets < MaxResets
    /\ resets' = resets + 1
    /\ ready' = FALSE /\ accept' = 0
    /\ respondPong' = FALSE /\ respondUninitialised' = FALSE
    /\ respondInitialised' = FALSE /\ respondAcknowledge' = -1
    /\ log' = <<>>
    /\ UNCHANGED <<phase, egressVars, feedbackVars, outward, inward,
                   submitted, got, losses>>

LoseOutward ==
    /\ losses < MaxLosses /\ outward # <<>>
    /\ outward' = Tail(outward)
    /\ losses' = losses + 1
    /\ UNCHANGED <<phase, egressVars, feedbackVars, inward, receiverVars,
                   historyVars, resets>>

LoseInward ==
    /\ losses < MaxLosses /\ inward # <<>>
    /\ inward' = Tail(inward)
    /\ losses' = losses + 1
    /\ UNCHANGED <<phase, egressVars, feedbackVars, outward, receiverVars,
                   historyVars, resets>>

Next ==
    \/ Egress \/ Feedback \/ Ingress
    \/ ResetReceiver \/ LoseOutward \/ LoseInward

Spec == Init /\ [][Next]_vars

\* Each thread keeps running: the egress loop is timed, and a read returns as
\* soon as a byte is there.  Accepting is left to the clients.
Fairness ==
    /\ WF_vars(HandlePongs \/ HandleAcknowledgement \/ HandleInitialisations
               \/ HandleUninitialisations \/ PublishBatch)
    /\ WF_vars(Feedback)
    /\ WF_vars(ProcessPing \/ HandleInitialise \/ RejectMessage \/ HandleMessage)
    /\ WF_vars(Respond)

FairSpec == Spec /\ Fairness
-----------------------------------------------------------------------------
(* Properties. *)

OutwardFrames == {Ping} \cup {Initialise(s) : s \in SeqNums}
                 \cup {Message(s, f) : s \in SeqNums, f \in 1..Frames}

InwardFrames == {Pong, Initialised, Uninitialised}
                \cup {Acknowledge(s) : s \in SeqNums}

\* Every variable of both threads and of the wires stays in its range; in
\* particular a slot sent over the wire always holds a frame.
TypeOK ==
    /\ phase \in {"accept", "acknowledgement", "initialisation",
                  "uninitialisation", "publish"}
    /\ initialised \in BOOLEAN
    /\ head \in SeqNums /\ tail \in SeqNums /\ cursor \in SeqNums
    /\ holdoff \in 0..CursorResetHoldoff
    /\ countdown \in Int
    /\ slots \in [SeqNums -> 0..Frames]
    /\ pongs \in Nat /\ acknowledged \in SeqNums \cup {-1}
    /\ initialisations \in Nat /\ uninitialisations \in Nat
    /\ outward \in Seq(OutwardFrames)
    /\ inward \in Seq(InwardFrames)
    /\ ready \in BOOLEAN /\ accept \in SeqNums
    /\ respondPong \in BOOLEAN /\ respondUninitialised \in BOOLEAN
    /\ respondInitialised \in BOOLEAN
    /\ respondAcknowledge \in SeqNums \cup {-1}
    /\ submitted \in 0..Frames
    /\ log \in Seq(1..Frames) /\ got \subseteq 1..Frames
    /\ resets \in 0..MaxResets /\ losses \in 0..MaxLosses

\* The window never holds more frames than WINDOW_SIZE, so tail never laps head
\* and a slot is never overwritten before its frame was acknowledged: each
\* sequence number of the window still carries the frame it was allocated for.
WindowIntact ==
    /\ window <= WindowSize
    /\ \A i \in 0..(window - 1) :
          slots[mod(head + i)] = submitted - window + 1 + i

\* However acknowledgements are lost, delayed and coalesced, and whichever
\* incarnation of the receiver sent them, the sender retires a frame only
\* after a receiver put it in its inbox.
RetiredWereReceived == 1..(submitted - window) \subseteq got

\* When the window is being transmitted, a receiver that is ready expects a
\* sequence number of that window (or the one after it): a message it has
\* already taken is never taken again, one it lacks is never acknowledged.
ReceiverInWindow ==
    initialised /\ ready => mod(accept - head) <= window

\* The wires never carry a message whose sequence number is ambiguous: within
\* an incarnation the receiver gets consecutive frames, none twice, although
\* sequence numbers wrap and messages are retransmitted.
InboxInOrder ==
    \A i \in 1..(Len(log) - 1) : log[i + 1] = log[i] + 1

Transport == INSTANCE ReliableTransport WITH
    MaxPending <- WindowSize, settled <- submitted - window

\* The sliding window implements reliable transport: in order, without gaps or
\* duplicates per incarnation, resuming at the first unsettled frame.
ImplementsTransport == Transport!Spec

\* Once losses and resets have ended, every accepted frame is received and
\* retired: handshake, flush and retransmission never stay stuck.
EveryFrameSettles ==
    \A f \in 1..Frames : submitted >= f ~> submitted - window >= f
=============================================================================
