------------------------------ MODULE Pipeline ------------------------------
(***************************************************************************)
(* The threads of SerialDriver and the bounded hand-overs between them:    *)
(*   clients -> collector ring -> collector thread -> Exchanger -> window  *)
(*   of the egress thread -> wire -> ingress thread -> inbox ring -> inbox *)
(*   thread, whose handler may itself be a client of the collector.        *)
(* Publishing to a ring blocks while the ring is full.  What happens on    *)
(* the wire is SerialLink's subject: here the other end answers with a     *)
(* feedback frame that empties the window, after any number of messages.   *)
(* The outbox is left out: its thread only waits for the UART.             *)
(***************************************************************************)
EXTENDS Integers, Sequences

CONSTANTS
    CollectorSize,  \* COLLECTOR_SIZE: 256
    InboxSize,      \* INBOX_SIZE: 256
    BatchCapacity,  \* MAX_EXCHANGE_BATCH_SIZE: 8
    WindowSize,     \* EgressThread.WINDOW_SIZE: 16
    PublicationSize,\* IngressThread.MAX_PUBLICATION_BATCH_SIZE
    Kinds,          \* messages that arrive: "event", or "query" to be answered
    Frames,         \* bound: clients submit no frame beyond this one
    Messages,       \* bound: messages that arrive in a behaviour
    WireCapacity    \* bound: frames waiting in the receive buffer

ASSUME PipelineAssumption ==
    /\ CollectorSize \in Nat \ {0} /\ InboxSize \in Nat \ {0}
    /\ BatchCapacity \in Nat \ {0} /\ WindowSize \in Nat
    /\ 2 * BatchCapacity <= WindowSize
    /\ PublicationSize \in 1..InboxSize
    /\ Kinds \subseteq {"event", "query"}
    /\ Frames \in Nat /\ Messages \in Nat /\ WireCapacity \in Nat

VARIABLES
    submitted,      \* frames 1..submitted were published to the collector
    collector,      \* the ring of the collector
    collected,      \* events of the present batch its handler is through with
    collecting,     \* events in the present batch, 0 between batches
    collectorBatch, \* the state the collector thread fills
    offering,       \* it waits in the exchanger
    egressBatch,    \* the state the egress thread took last
    accepted,       \* history: every frame given a sequence number, in order
    window,         \* of these, the number not acknowledged
    wire,           \* the receive buffer
    acknowledging,  \* the frames the feedback in it acknowledges
    arrived,        \* messages that arrived so far
    inboxBatch,     \* messages the ingress thread is to publish
    flushing,       \* it is publishing them
    inbox,          \* the ring of the inbox
    handled,        \* events of the present batch the inbox handler is through with
    handling        \* events in the present batch, 0 between batches

collectorVars == <<collector, collected, collecting>>
exchangeVars == <<collectorBatch, offering, egressBatch, accepted, window>>
ingressVars == <<inboxBatch, flushing>>
inboxVars == <<inbox, handled, handling>>
wireVars == <<wire, acknowledging>>
vars == <<submitted, collectorVars, exchangeVars, wireVars, arrived,
          ingressVars, inboxVars>>

Init ==
    /\ submitted = 0
    /\ collector = <<>> /\ collected = 0 /\ collecting = 0
    /\ collectorBatch = <<>> /\ offering = FALSE /\ egressBatch = <<>>
    /\ accepted = <<>> /\ window = 0
    /\ wire = <<>> /\ acknowledging = 0 /\ arrived = 0
    /\ inboxBatch = <<>> /\ flushing = FALSE
    /\ inbox = <<>> /\ handled = 0 /\ handling = 0

\* publishEvent blocks its caller until the ring has room.
PublishToCollector ==
    /\ Len(collector) < CollectorSize
    /\ collector' = Append(collector, submitted + 1)
    /\ submitted' = submitted + 1
    /\ UNCHANGED <<collected, collecting>>

Submit ==
    /\ submitted < Frames
    /\ PublishToCollector
    /\ UNCHANGED <<exchangeVars, wireVars, arrived, ingressVars, inboxVars>>
-----------------------------------------------------------------------------
(* The collector thread.  A ring gives up the room of a batch only when    *)
(* the whole batch was handled.                                            *)

CollectorBatchBegins ==
    /\ collecting = 0 /\ collector # <<>>
    /\ collecting' = Len(collector) /\ collected' = 0
    /\ UNCHANGED <<submitted, collector, exchangeVars, wireVars, arrived,
                   ingressVars, inboxVars>>

\* Mutant: a batch is flushed only when it is full.
FlushesWhenFull == Len(collectorBatch) + 1 = BatchCapacity

Flushes == \/ Len(collectorBatch) + 1 = BatchCapacity
           \/ collected + 1 = collecting

\* handleCollector: insert, which flushes a full batch, and flush at the end.
HandleCollector ==
    /\ collected < collecting /\ ~offering
    /\ collectorBatch' = Append(collectorBatch, collector[collected + 1])
    /\ offering' = Flushes
    /\ collected' = collected + 1
    /\ UNCHANGED <<submitted, collector, collecting, egressBatch, accepted,
                   window, wireVars, arrived, ingressVars, inboxVars>>

CollectorBatchEnds ==
    /\ collecting > 0 /\ collected = collecting /\ ~offering
    /\ collector' = SubSeq(collector, collecting + 1, Len(collector))
    /\ collecting' = 0 /\ collected' = 0
    /\ UNCHANGED <<submitted, exchangeVars, wireVars, arrived, ingressVars, inboxVars>>

\* Mutant: the state that came back is not reset.
NotReset == egressBatch

AfterReset == <<>>

\* Mutant: any free slot will do.
HasSomeSpace == WindowSize - window > 0

HasSpace == WindowSize - window >= BatchCapacity

\* Both threads meet in the exchanger and swap their states: the collector
\* thread resets the one it got, the egress thread gives each frame of the other
\* a sequence number.  The egress thread comes there only with space for a full
\* batch in its window.
Exchange ==
    /\ offering
    /\ HasSpace
    /\ egressBatch' = collectorBatch
    /\ collectorBatch' = AfterReset
    /\ offering' = FALSE
    /\ accepted' = accepted \o collectorBatch
    /\ window' = window + Len(collectorBatch)
    /\ UNCHANGED <<submitted, collectorVars, wireVars, arrived, ingressVars, inboxVars>>
-----------------------------------------------------------------------------
(* The other end. *)

SendFeedback ==
    /\ window > 0
    /\ "feedback" \notin {wire[i] : i \in DOMAIN wire}
    /\ Len(wire) < WireCapacity
    /\ wire' = Append(wire, "feedback")
    /\ acknowledging' = window
    /\ UNCHANGED <<submitted, collectorVars, exchangeVars, arrived, ingressVars,
                   inboxVars>>

SendMessage(kind) ==
    /\ arrived < Messages /\ Len(wire) < WireCapacity
    /\ wire' = Append(wire, kind)
    /\ arrived' = arrived + 1
    /\ UNCHANGED <<submitted, acknowledging, collectorVars, exchangeVars, ingressVars, inboxVars>>
-----------------------------------------------------------------------------
(* The ingress thread: it consumes what was received, then publishes the   *)
(* messages, and does not read while it waits for room in the inbox.       *)

\* Mutant: the acknowledgement is dropped.
Unretired == window

Retired == window - acknowledging

ConsumeFeedback ==
    /\ ~flushing /\ wire # <<>> /\ Head(wire) = "feedback"
    /\ wire' = Tail(wire)
    /\ window' = Retired
    /\ acknowledging' = 0
    /\ UNCHANGED <<submitted, collectorVars, collectorBatch, offering,
                   egressBatch, accepted, arrived, ingressVars, inboxVars>>

ConsumeMessage ==
    /\ ~flushing /\ wire # <<>> /\ Head(wire) \in Kinds
    /\ wire' = Tail(wire)
    /\ inboxBatch' = Append(inboxBatch, Head(wire))
    /\ flushing' = (Len(inboxBatch') = PublicationSize)
    /\ UNCHANGED <<submitted, acknowledging, collectorVars, exchangeVars, arrived, inboxVars>>

ReadCycleEnds ==
    /\ ~flushing /\ inboxBatch # <<>>
    /\ flushing' = TRUE
    /\ UNCHANGED <<submitted, collectorVars, exchangeVars, wireVars, arrived,
                   inboxBatch, inboxVars>>

PublishToInbox ==
    /\ flushing
    /\ Len(inbox) + Len(inboxBatch) <= InboxSize
    /\ inbox' = inbox \o inboxBatch
    /\ inboxBatch' = <<>> /\ flushing' = FALSE
    /\ UNCHANGED <<submitted, collectorVars, exchangeVars, wireVars, arrived,
                   handled, handling>>
-----------------------------------------------------------------------------
(* The inbox thread. *)

InboxBatchBegins ==
    /\ handling = 0 /\ inbox # <<>>
    /\ handling' = Len(inbox) /\ handled' = 0
    /\ UNCHANGED <<submitted, collectorVars, exchangeVars, wireVars, arrived,
                   ingressVars, inbox>>

\* A response or a broadcast: at most a task for the global pool.
HandleEvent ==
    /\ handled < handling /\ inbox[handled + 1] = "event"
    /\ handled' = handled + 1
    /\ UNCHANGED <<submitted, collectorVars, exchangeVars, wireVars, arrived,
                   ingressVars, inbox, handling>>

\* A node ID query: each stage of the Allocator is answered with a broadcast.
HandleQuery ==
    /\ handled < handling /\ inbox[handled + 1] = "query"
    /\ PublishToCollector
    /\ handled' = handled + 1
    /\ UNCHANGED <<exchangeVars, wireVars, arrived, ingressVars, inbox, handling>>

InboxBatchEnds ==
    /\ handling > 0 /\ handled = handling
    /\ inbox' = SubSeq(inbox, handling + 1, Len(inbox))
    /\ handling' = 0 /\ handled' = 0
    /\ UNCHANGED <<submitted, collectorVars, exchangeVars, wireVars, arrived, ingressVars>>
-----------------------------------------------------------------------------
CollectorThread == CollectorBatchBegins \/ HandleCollector \/ CollectorBatchEnds
IngressThread == ConsumeFeedback \/ ConsumeMessage \/ ReadCycleEnds \/ PublishToInbox
InboxThread == InboxBatchBegins \/ HandleEvent \/ HandleQuery \/ InboxBatchEnds

Next ==
    \/ Submit \/ CollectorThread \/ Exchange
    \/ SendFeedback \/ \E kind \in Kinds : SendMessage(kind)
    \/ IngressThread \/ InboxThread

Spec == Init /\ [][Next]_vars

\* Every thread runs, the other end acknowledges what it gets, and nobody is
\* obliged to submit or to send.
Fairness ==
    /\ WF_vars(CollectorThread) /\ WF_vars(Exchange) /\ WF_vars(SendFeedback)
    /\ WF_vars(IngressThread) /\ WF_vars(InboxThread)

FairSpec == Spec /\ Fairness
-----------------------------------------------------------------------------
(* Properties. *)

\* Rings, batches and the window stay within their capacities.
TypeOK ==
    /\ submitted \in Nat
    /\ collector \in Seq(Nat) /\ Len(collector) <= CollectorSize
    /\ collecting \in 0..Len(collector) /\ collected \in 0..collecting
    /\ collectorBatch \in Seq(Nat) /\ Len(collectorBatch) <= BatchCapacity
    /\ offering \in BOOLEAN
    /\ egressBatch \in Seq(Nat) /\ Len(egressBatch) <= BatchCapacity
    /\ accepted \in Seq(Nat) /\ window \in 0..WindowSize
    /\ wire \in Seq(Kinds \cup {"feedback"}) /\ Len(wire) <= WireCapacity
    /\ acknowledging \in 0..window /\ arrived \in 0..Messages
    /\ inboxBatch \in Seq(Kinds) /\ Len(inboxBatch) <= PublicationSize
    /\ flushing \in BOOLEAN
    /\ inbox \in Seq(Kinds) /\ Len(inbox) <= InboxSize
    /\ handling \in 0..Len(inbox) /\ handled \in 0..handling

\* Frames get their sequence numbers in the order they were published to the
\* collector: swapping the two states in the exchanger neither loses, nor
\* repeats, nor reorders one, whatever batches the rings happen to form.
HandOverInOrder ==
    accepted \o collectorBatch \o SubSeq(collector, collected + 1, Len(collector))
        = [i \in 1..submitted |-> i]

\* No published frame lingers in a half-filled batch: it gets into the window.
EveryFrameAccepted ==
    \A f \in 1..(Frames + Messages) : submitted >= f ~> Len(accepted) >= f

\* The inbox thread is never blocked for good: what it began to handle it ends.
InboxKeepsMoving == handling > 0 ~> handling = 0
=============================================================================
