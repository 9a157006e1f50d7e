# LumiCube daemon: TLA+ models, checks and proofs

The daemon runs on a Raspberry Pi between its clients (Python scripts, the web
site, PulseAudio) and the modules of a LumiCube, which it reaches over one
serial line. It is a Java program of many threads that meet in bounded queues,
tables and pools. This directory holds TLA+ models of the parts where those
threads, the lossy line and the modules' resets make the program hard to get
right, the TLC configurations that check them, and TLAPS proofs.

`S/` below stands for `src/src/main/java/com/abstractfoundry/daemon/`.
`W/` for `src/src/main/resources/META-INF/resources/static/`. `PROJECT.json` maps
every definition to the lines it stands for.

## 1. Inventory

| Component | State | Operations | Hard behaviour | Correct when |
|---|---|---|---|---|
| **Serial link** `S/serial/EgressThread`, `IngressThread` | window (`head`, `tail`, `cursor`, slots), handshake (`initialised`, `countdown`), four feedback atomics; receiver: `accept`, `initialised`, pending responses | accept a batch, handle feedback, publish; process a frame, respond | lost frames, reset of the other end, stale acknowledgements, one-byte sequence numbers, feedback read piecemeal | each frame delivered in order, once per incarnation of the receiver; nothing forgotten before it was received; never stuck |
| **Driver and hand-over** `S/serial/SerialDriver`, `*Batch`, `*Frame` | collector, inbox and outbox rings, exchanger, two swapped batch states | submit, `handleCollector`, exchange, ingress flush, `handleInbox` | ring batches, partial batches, blocking publication, threads waiting on each other | frames get sequence numbers in order of submission; none lingers; no circular wait |
| **Service requests** `S/uavcan/Node`, `ServiceTable`, `PooledCountdownContinuation`, `S/common/SimpleObjectPool`, `S/uavcan/SerialConnector` | 32 transfer IDs per destination and type, continuation and reply pools of 64 per client | claim, release, request one/many, `handleResponse`, `abortExpired`, continuation `next`/`timeout` | client, inbox, heartbeat and pool threads on one continuation; exhaustion half-way; reuse of pooled objects | a reply means every request ended; a slot is never advanced for another command; nothing leaks; every command is replied to |
| **Native methods** `S/server/method/node/**` | cached IDs and keys, the client's continuation pool | `set_fields`, `get_fields`, `display.set`, `screen.*` | countdown against number of frames; back-off after a claim | countdown = requests attached to the continuation |
| **Socket clients** `S/server/*` | connection buffers, write lock, pool of reply tasks | accept, parse, dispatch, reply, retry | retry under exhaustion; replies from many threads; slow readers | one reply per command; replies not interleaved |
| **Expiry** `S/heartbeat/AbortExpiredRequestsTask` | counter | `abortExpiredRequests` every fifth pulse | races with answers | see service requests |
| **Allocation and discovery** `S/uavcan/Allocator`, `NodeInfo`, `BroadcastTable`, `S/heartbeat/Query*Task`, `SubscribeDefaultFieldsTask` | exchange buffer and cursor, ID table (memory only), query progress per node, accumulated metadata | three allocation stages; node info, name and metadata queries; subscription renewal | several anonymous nodes interleave; 500 ms timeout; duplicate query chains; time-outs in callbacks | distinct IDs; metadata stored only when complete; every connected node described |
| **Store and namespace** `S/store/Store`, `S/bus/Namespace`, `QueriedMetadata`, `RecursiveDictionary`, `S/utility/BroadcastHandler` | maps by node ID, the derived namespace, caches taken from it | put/get, rebuild, handle a publication | caches outlive rebuilds; conflicts empty the namespace; a database failure half-way | namespace = function of the maps; caches agree with it |
| **Scripts** `S/script/ScriptExecutor`, `S/heartbeat/StartMainScriptTask` and others | current process, launch count, start timer | launch, terminate, automatic start | user launch between test and automatic launch; a process that outlives the kill time-out | at most one foreground script; a user's script is not replaced by the automatic one |
| **Codecs and parsers** `S/common/COBS`, `CRC16`, `S/bus/FlatDictionary`, JSON parsers | none | encode, decode | boundaries (254-byte runs, skip and run widths) | decode inverts encode, lengths stay in the bounds the callers allot |
| **Web site** `W/index.html`, on the vendored `immer.umd.development.js` | the dashboard's state tree; polls of the daemon under way; drafts of a recipe | `transformState` with or without a poll, set, get and delete on drafts, finalize | a poll's data arrives after the user changed the page; states share what they do not change | a change is as if made on a private copy of the page as it is by then; no state that was read ever changes |
| **Python service**, **REST interface**, **audio**, **Redis**, **start-up and utilities** | external processes, pipes, no protocol state | start, stop, forward | I/O | not modelled: they call the components above or move bytes |

How they interact: a client thread parses a command, claims a reply slot and a
continuation slot, claims transfer IDs and publishes its frames to the
*collector* ring; the collector thread packs them into batches it swaps with the
*egress* thread; that thread numbers, sends and re-sends them. The *ingress*
thread turns bytes into frames: feedback for the egress thread, messages for the
*inbox* ring. The inbox thread hands responses to continuations (whose tasks run
in the global pool and write the reply), publications to the store, and node ID
queries to the allocator, which broadcasts its answer, through the collector
again. Once a second the main thread runs the *heartbeat*: expiry, discovery,
persistence, automatic scripts.

The hazards, each at its line with the properties that would notice it, are
listed in `PROJECT.json`.

## 2. What is modelled

### `SerialLink` (with `ReliableTransport` and `SerialLinkProofs`, `SerialLinkSafetyProofs`, `SerialLinkTransportProofs`)

One direction of the link: the egress thread of one end, both wires, the ingress
thread of the other. The two ends of the protocol are symmetric; the far end is
the firmware, which is not in the repository, so it is taken to run the ingress
code of the daemon, which is the only definition of the receiving half here.

| Model | Code |
|---|---|
| `phase`, `AcceptBatch`, `HandlePongs` ... `HandleUninitialisations` | the egress loop: accept until the period is over, `handleFeedback` (one action per atomic it reads, since the ingress thread writes between two reads), then `publishBatch` |
| `PublishNothing`, `PublishHoldoff`, `PublishMessages`, `PublishPing`, `PublishInitialise` | the alternatives of `publishBatch`; a full outbox blocks the flush at its end |
| `Feedback` | `feedback()`, called by the ingress thread of the sender's end |
| `ProcessPing`, `HandleInitialise`, `RejectMessage`, `HandleMessage`, `Respond` | `process`, `handleInitialise`, `handleMessage` and the one `respond()` per read cycle |
| `ResetReceiver`, `LoseOutward`, `LoseInward` | the environment |

A garbled, truncated or discarded frame fails COBS, CRC or the length test and
is dropped, so bytes are abstracted to whole frames that arrive or do not. The
order of frames on one wire is kept. `submitted`, `log` and `got` are history:
which frames entered the window, which the receiver's present incarnation put in
its inbox, and which any incarnation did.

`ReliableTransport` states the promise: frames enter in order, an incarnation of
the receiver gets consecutive frames starting at the first one not settled, and
a frame is settled only after someone got it. `ImplementsTransport` is the
refinement `settled <- submitted - window`.

### `Pipeline` (with `PipelineProofs`)

The threads of `SerialDriver` and every bounded hand-over between them: collector
ring, `TransferBatch` exchanger, window, receive buffer, ingress batch, inbox
ring, and the inbox handler, which for a node ID query is itself a client of the
collector. A Disruptor ring gives up the room of a batch only when the whole
batch was handled, which is why `handleCollector` and `handleInbox` are split
into begin, one event, end. The wire protocol is replaced by a feedback frame
that empties the window; `SerialLink` shows that such a frame keeps coming.

### `ServiceRequests` (with `ServiceRequestsProofs`, `ServiceRepliesProofs`)

All requests for one destination and one type (one entry of the `ServiceTable`),
from the command to its reply. `Invoke` is `handle()`/`invoke()` of the method up
to the request; `ClaimTransferId`, `BackOff`, `SendRequests` are `Node.request`;
`HandleResponse` and `NextContinuation` are the two halves of
`Node.handleResponse`, split where the lock of the table is given up;
`AbortExpired` and `AbortNext` are `ServiceTable.abortExpired`, the look at the clock
and one expired ID of its loop; `RunTask` is the wrapper of a continuation's task in
the global pool. The heartbeat holds the lock of the table for the whole loop, so while
`expiring`, what it has yet to abort, is not empty, nobody claims or releases a transfer
ID. Nothing else waits for it: between two IDs the pool may return the slot of the
first and a client claim it. Two things are atomic that are not in the code: the
unwinding of a back-off, which releases each ID under the lock of its own, and
`PooledCountdownContinuation.set`, which writes the countdown before the two tasks. `Methods` says how many
frames a command has and which countdown its method sets. A slot's `user` and a
claimed ID's `command` are history.

Time is abstracted: a request's stamp is a number no other request in progress
or in flight has, because only equality of stamps matters, and any set of stamps
may be the expired one. With `LateAnswers = FALSE` an answer never arrives after
the expiry and no client is held up for five seconds between stamp and send.

### `Discovery` (with `DiscoveryProofs`)

What the daemon asks the modules about themselves and what it makes of the
answers. `QueryNodeInfo`, `QueryPreferredNames` and `QueryMetadata` are the
`run()` of the three heartbeat tasks, each a loop over the connected nodes;
`Answer` and `Expire` are `Node.handleResponse` and `ServiceTable.abortExpired`
for a request with a callback; `RunNodeInfo`, `RunPreferredName`,
`AccumulateFields`, `CompleteMetadata` and `RunError` are the callbacks, each
under the lock of its task, in a pool that runs them in any order. A callback
that stores something rebuilds the namespace in the same step (`Build` is
`Namespace.build`). `PublishedFields` is what the inbox thread does with a
publication, its two caches included.

The pair of keys of an enumeration query is a position in the list of a node's
properties, `Description[n]`: an answer is any non-empty stretch that starts
there, or nothing past the end. A query that expires may still be answered, and
the answer then finds its transfer ID free or used by a younger query. Names are
model values; only what two nodes could disagree about is kept of a field: its
module, its name and its key. The environment constant `Prompt` lists the kinds
of query that are over before the next heartbeat; it only exists to bound the
run, and the theorems hold for every value of it, the empty set included.

### `NodeAllocation` (with `NodeAllocationProofs`)

How a module that is plugged in gets its node ID. It is anonymous, so it sends
its UUID in three fragments, and every stage is answered by a broadcast of what
was collected so far. `HandleFirstAllocationStage`, `HandleSecondAllocationStage`,
`HandleFinalAllocationStage` and `RejectQuery` are the paths through
`Allocator.handleMessage`; `Gives` is `allocateId`. `exchange` is the buffer up
to the cursor, which is only ever 0, 7, 13 or 17, so that a sequence of fragments
is enough; `late` says whether `QUERY_TIMEOUT` has passed since the last stage. A
broadcast blocks while the collector is full, so it is part of the guard. The
modules are firmware and modelled from what the allocator expects of them: they
go on with the fragment after the last one they heard repeated, take the ID that
comes with their whole UUID, and begin again after a while. Nothing keeps two of
them from asking at once, so one's fragment may continue what another began, and
the allocator may record a UUID that nobody has.

### `PageState` (with `PageValues`)

The state of the dashboard. `transformState` of `index.html` runs every change as
a recipe of immer's `produce`: reads return drafts, a draft copies its object
when it is first written, and what is not written the new state shares with the
old. Immer is vendored, not written here; it is modelled because everything the
page does with its state rests on it, and only as far as the page uses it.

| Model | Code |
|---|---|
| `heap`, `frozen`, `state`, `held` | the objects by name, `Object.freeze`, `this.state`, what `informer(this.state)` was given |
| `Tick`, `Inform`, `UserEvent` | the two forms of `transformState` (`tick` and `oneShot` poll; the rest are events); `Produce` opens the scope |
| `Get`, `Set`, `SetNew`, `DeleteProperty` | the traps of a draft; `Unmarked`, `Marked`, `WithCopies`, `ShallowCopy` are `markChangedProxy` |
| `ProcessResult` with `Finalize`, `FreezeDeep`, `MustSearch` | `processResult`, `finalize`, `finalizeProperty`, `freeze`; and React's merge of the result |

A recipe is any sequence of reads, writes and deletions, which is more than the
page's recipes do (none of them moves an object or deletes). It is synchronous,
returns nothing and is not nested, as all of theirs are. Copies are named by the
recipe and the path of their draft, and what nothing leads to any more is
forgotten, which keeps the states few.

`PageValues` states the promise, after the comment of `produce`: "All mutations
are only ever applied to a copy of the base state". It has no objects, only values: a change
copies the whole page, works on the copy and puts it in place; a poll keeps what
it saw. `ImplementsValues` is the refinement: `page` is the value of `state`,
`seen` the value of what is held, `work` what the recipe would find if it read on
from its first draft, wherever it has been.

## 3. What the runs check

| Run | Question | Bounds, and why they suffice | Result |
|---|---|---|---|
| `serial_reset` | Is anything lost, repeated, reordered or retired too early? `WindowIntact`, `RetiredWereReceived`, `ReceiverInWindow`, `InboxInOrder`, `ImplementsTransport` | modulus 4, window 2, batches of 1: the modulus exceeds the window by more than one, as 256 exceeds 16, so an overfull window and a number outside it can be told apart, and five frames wrap the sequence numbers; a wire with a frame on it takes no more, but the burst of a cycle and the answers of a read go out together, so two messages or several answers of before a reset can still be under way after it; one reset and two losses, at any moment | holds, 1.7 million states |
| `serial_progress` | Does every accepted frame settle once losses and resets end? `EveryFrameSettles` | modulus 5, window 4, batches of up to 2, a cursor that waits two cycles before it wraps, two frames, one reset and one loss at any moment | holds |
| `requests_single` | One-frame commands: pools, IDs, expiry. `RepliesAreUltimate`, `NoDanglingTransferId`, `NoLeakedContinuation`, `EveryCommandReplies` | three commands of two clients for two transfer IDs, so that exhaustion, back-off, expiry and reuse of slots all happen | holds |
| `requests_batch` | Commands of one or two frames on one countdown, answered or expired, on orderly steps (section 4). `RepliesAreUltimate`, `NoDanglingTransferId`, `NoStaleResponse`, `NoLeakedContinuation`, `EveryCommandReplies` | two clients, three commands, IDs enough for two full commands in flight, a pool of one slot that is reused at once, any batch expired at any moment and timed out ID by ID | holds, 109,000 states |
| `requests_unwind` | `NoDanglingTransferId` when IDs run out within a batch | two commands of up to two frames, two IDs | **violated**, finding 1 |
| `requests_race` | `NoStaleResponse` when the rest of a batch expires during an answer | one client, two commands | **violated**, finding 2 |
| `requests_set_fields` | `RepliesAreUltimate` for `set_fields` | two frames, countdown one | **violated**, finding 3 |
| `pipeline_flow` | `HandOverInOrder`, `EveryFrameAccepted`, `InboxKeepsMoving` while what arrives fits the inbox | rings of 2, batches of 2, window 4, four frames, two messages: full rings, partial and full batches, a window without space | holds |
| `discovery` | Is a node described fully, once and for all? `MetadataComplete`, `NamespaceUnambiguous`, `OrderDoesNotMatter`, `PublicationsUnderstood`, `DiscoverySettles` | a cube with two fields, one of which names the module another node is called by (so the namespace is empty until the cube is known to be one); the cube's enumeration may be repeated, overtaken and expire once with an answer that is lost or late, everything else is prompt; each field has one property, so that answers split the list of fields but not a field, which is left to the theorems; one transfer ID per node and type, so that repetition and chain compete for it | holds, 300,000 states |
| `node_allocation` | Can two modules end up with one ID, or the allocator locked? `TypeOK`, `IdsNotReused`, `LastNodeServed` | three modules, two of whose UUIDs begin and end alike and the third of which asks for an ID of its choice; two IDs, so that they run out; a collector with room for one answer; one fault (a delay, a lost query or answer, an unplugged module) at any moment | holds, 304,000 states |
| `page_state` | Do recipes on shared objects behave as if on copies? `StatesAreFinal`, `ImplementsValues`, `UntouchedKept` | a page of three levels with a sibling to share, both keys at every level; two changes and a poll; two writes in all, and one new object: enough to move a draft into a new object, to write below a draft that was copied already, to write in two changes, or to put something back | holds, 93,000 states |
| `pipeline_queries` | `InboxKeepsMoving` with more queries than the inbox holds | rings of 2, window 2, four messages | **violated**, finding 4 |

The bounds `Frames`, `Commands`, `Messages` only limit what clients and modules
send; `WireCapacity` limits frames on the way (the UART and the outbox are
finite); `MaxResets` and `MaxLosses` limit faults, which for the liveness run is
also its premise: faults end. `CHECK_DEADLOCK FALSE` stands only where the
system comes to rest when every bounded command or message has been served; the
two serial runs are checked for deadlock (the egress thread never stops).

### Fairness

Weak fairness of each thread's steps, nothing else. *SerialLink*: the egress loop
is driven by a clock and a read returns once a byte is there; clients need not
submit. *Pipeline*: collector, ingress and inbox threads, the exchange when both
sides are at it, and the far end acknowledging; nobody need submit or send.
*ServiceRequests*: a client in a request goes on, a client with a pending command
tries again (the retry loop of `GenericSocketClientHandler`), the inbox thread,
the heartbeat and the pool run; the lock of the table is held for a loop over at most
32 IDs. A module need not answer where requests may expire; it must where `Expiry` is
off. `requests_batch` asks only about behaviours of orderly steps (`OrderlyFairSpec`).
Fairness can always be met there: with four IDs no back-off has any to unwind, a slot
can be timed out or claimed again once its response was passed on, its IDs are claimed
or the heartbeat is through, and each of these comes about by orderly steps. *Discovery*: of heartbeat, pool, modules and publications
some one goes on as long as any can, which is all it takes, because everything is
asked and answered finitely often. *NodeAllocation*: the inbox thread handles
what waits, broadcasts go out, and a plugged module goes on asking (`SendQuery`
or `GiveUp`); faults are not fair, and finitely many. `LastNodeServed` asks only
for a module that is alone in asking: two that ask in step may interrupt each
other for ever, which the code does nothing about. *PageState*: none. No strong fairness is assumed.

### Findings

1. **Unwinding keeps one transfer ID** (`S/uavcan/Node.java:96`). The loop runs
   to `unwind < index - 1`, the last ID claimed is `index - 1`. It stays in the
   table with a continuation that was reset and given back to its pool, and five
   seconds later times out whichever command uses the slot by then.
2. **Answer against expiry** (`S/uavcan/Node.java:129`). The ID is released under
   the table's lock and `next()` called after it. If the batch's other IDs expire
   in between, the reply runs, the slot is returned and may be claimed, and
   `next()` counts down for another command. The comment at line 90 argues that
   equal stamps exclude this: otherwise the continuation could expire on one ID and be
   returned before the next expires. They do not exclude that either. The heartbeat
   times the IDs out one by one (`S/uavcan/ServiceTable.java:86`), and only the table
   is locked meanwhile: after the first, the pool may reply and return the slot and
   the client begin its next command with it, which the second ID then times out. With
   `RepliesAreUltimate` as its invariant the configuration of `requests_race` ends in
   that, a command replied to before any of its requests was sent.
3. **`set_fields` counts to one** (`S/server/method/node/SetFieldsMethod.java:92`)
   whatever the number of frames, so the first response replies for all and the
   slot is returned while other requests of the command hold it.
4. **A circle of full queues** (`S/uavcan/Allocator.java:102`). The allocator
   broadcasts from the inbox thread. With collector and inbox full, the ingress
   thread blocks in its flush, never reads the acknowledgement that would free
   the window, the egress thread never empties the exchanger, and the inbox
   thread never gets room. With rings of 256 this takes a query in front of some 256 messages of
   any kind, while the collector is full.

## 4. What is proved

`SerialLinkProofs`, for every modulus, window size, batch size, flush count,
hold-off, burst and every value of the bounds that `WindowAssumption`,
`ParameterAssumption` and `BoundAssumption` allow. The first says what the
constructor of `EgressThread` enforces (a batch is at most half a window) and
that the window is smaller than the range of sequence numbers (16 < 256).

* `TypeCorrect == Spec => []TypeOK`
* `WindowStaysIntact == Spec => []WindowIntact`: the window never overflows, and
  every sequence number in it still carries the frame it was allocated for.

Neither is inductive alone. `TypeOK` says that a message on the wire carries a
frame, which is true only because `PublishMessages` sends slots of the window and
those are filled: that is `WindowIntact`. `WindowIntact` in turn needs the types,
and `window <= submitted` so that slots of a window are frames at all. The
inductive invariant is their conjunction,
`IInv == TypeOK /\ WindowIntact /\ window <= submitted`.

The argument: `Advance` and `Distance` turn `mod` into a case distinction, so
that SMT sees linear arithmetic only. Three kinds of step touch the window:
`AcceptKeepsWindow` (the tail moves over slots just written; there is space since
a full batch fits), `AcknowledgementKeepsWindow` (the head moves to just after an
acknowledgement inside the window, which shifts the window's offsets), and
`MessagesAreFrames` (nothing moves, but what is sent is read from the window).
Every other step leaves `head`, `tail`, `slots` and `submitted` alone, for which
`WindowUnchanged` needs only the types. `NextIInv` collects them.

`SerialLinkSafetyProofs`, for the same constants and with sequence numbers for two
windows and two more (`AmpleNumbers`: 256 against 2 * 16 + 2), for any number of
frames, resets and losses and any length of the wires:

* `RetiredStayReceived == Spec => []RetiredWereReceived`: a frame leaves the window
  only after a receiver put it in its inbox

The difficulty is that a sequence number does not say which frame it means, since
it is used again and again. `Frame(s)` is the frame nearest to the window that has
number `s`. The invariant `SInv` says of everything under way what it means and how
old it can be: a message carries the frame of its number (`OutwardOK`); a receiver
that is ready has every frame before that of `accept` (`ReceiverOK`); an
acknowledgement names a frame up to which all were received (`AcksOK`); and nothing
under way is a window older than what was received, retired, or put on the same
wire after it. Then `Frame` keeps its value while the window moves on (`FrameKept`,
the place where `AmpleNumbers` is needed), and an acknowledgement inside the window,
whichever incarnation of the receiver sent it, is about the frame it seems to be
about. `Kept` carries the invariant through the steps that receive nothing
(`AcknowledgementKeeps` among them, which moves the window); `OutwardExtended` is
for what is sent, and `MessageKeeps` for what is received. The run `serial_reset` has a
smaller modulus than the theorem asks for, 4 for a window of 2: there the wires hold
little, and the property holds for that reason. `SInv` itself was checked with a
modulus of 6 before it was proved.

`SerialLinkTransportProofs`, under `AmpleNumbers` and `EnoughPings` (the sender counts
at least three pongs before it starts anew; `FLUSH_COUNT` is 256), again for any number
of frames, resets and losses and any length of the wires:

* `LinkImplementsTransport == Spec => ImplementsTransport`: the refinement
* `InboxStaysInOrder == Spec => []InboxInOrder`
* `ReceiverStaysInWindow == Spec => []ReceiverInWindow`

All three rest on the handshake. After a reset the wires are full of what belonged to
the incarnation before, and nothing on them says so. A refusal (`UNINITIALISED`) of then,
taken for one of now, makes the sender begin another handshake while the receiver goes
on accepting messages; an `INITIALISE` of then would move the receiver to a window that
is gone. `HInv` says why this does not happen, part by part: while pings are flushed the
receiver is not ready and accepts nothing (`NotReady`), and a refusal is still true when
it is read (`StillRefused`); pings precede the offer and the offer the messages on the
way out (`OutwardOrder`), pongs the grant and the grant a refusal on the way back
(`InwardOrder`, `EchoesFirst`); and when the offer is made nothing of before is left
(`Quiet`). The last is what the pings are for. `FlushOutlasts` counts: in front of every
message, due refusal and answer left over, added to the pongs that have already been
counted, there are at most one, one and two pings or pongs of the present flush, so
that each has gone before the third pong is counted. Not zero, because a handshake may
start with an echo of the one before still under way: a grant that was given twice is
taken for the grant of the next handshake (`StaleGreeting`), after which messages are
sent to a receiver that refuses them and one ping or pong is left over (`FewEchoes`).
Two from before and one to be sure of make the three that the theorem asks for. Frames of a wire are counted as the cardinality of the set of their places;
`CountShift` and `CountBehind` say what taking a frame off its head or putting some
behind it does to the count.

`RInv` is about the window: a receiver that is ready expects the first frame that is not
settled, or the one after the last it got, and nothing under way acknowledges that frame
(`Expecting`); an offer on the wire names the first frame of a window that stands still
(`Offered`). The invariant is `TInv == IInv /\ SInv /\ Counting /\ HInv /\ RInv`, with
one lemma per action for `HInv` and one per kind of step for `RInv`; it was checked with
TLC before it was proved. The refinement then follows step by step (`StepImplements`):
`AcceptBatch` is `Submit` (`BatchSubmits`), an expected `HandleMessage` is `Deliver`
(`MessageDelivers`), a `HandleAcknowledgement` inside the window is `Settle`
(`AcknowledgementSettles`), `ResetReceiver` is `Reset`, and everything else stutters. The
run `serial_reset` flushes one ping only, with wires so short that one is enough;
there the properties are checked below the hypotheses of the theorems, which are sufficient,
not necessary.

`PipelineProofs`, for every size of rings, batches, window and receive buffer
that `PipelineAssumption` allows (a batch is at most half a window, a publication
fits the inbox):

* `TypeCorrect == Spec => []TypeOK`: nothing exceeds its capacity
* `HandOverStaysInOrder == Spec => []HandOverInOrder`: what the window accepted,
  the collector's batch and the rest of its ring are together the frames
  `1..submitted`, in order

`TypeOK` needs `BatchesFit`: a thread that is not flushing has room in its batch,
because it flushes a full one at once. The inductive invariant is
`IInv == TypeOK /\ BatchesFit /\ HandOverInOrder`. Four lemmas, one for each place
where frames move, carry the order: `PublishKeepsOrder` (a frame joins the end of
the ring, whether a client or the inbox thread publishes it),
`CollectKeepsOrder` (the first frame left in the ring joins the batch),
`BatchEndKeepsOrder` (the ring drops what was collected) and
`ExchangeKeepsOrder` (the batch joins what was accepted, an empty one comes
back). They rest on `Rest` and `RestOfAppend`, about what is left of a ring;
`ArrivalKeepsIInv` collects the steps that move no frame.

`DiscoveryProofs`, for every bus: any number of nodes, any descriptions and
names, any transfer IDs, any number of expired requests and waiting callbacks,
and no query prompt:

* `MetadataStaysComplete == Spec => []MetadataComplete`
* `NamespaceStaysUnambiguous == Spec => []NamespaceUnambiguous`
* `OrderNeverMatters == Spec => []OrderDoesNotMatter`
* `PublicationsStayUnderstood == Spec => []PublicationsUnderstood`
* `TypesHold == Spec => []TypeOK`

The invariant `Inv` says `KnownUpTo(n, at)` of every position in use: of
`position[n]`, of every query on the bus, late ones included, and of the first
property of every answer that waits in the pool: everything before it has been
accumulated. `KnownGrows` keeps it, since `merge` never forgets; `ChunkIsKnown`
extends it over an answer; and an empty answer, which starts past the end, then
means that all is known (`CompleteInv`). Without the part about late queries a
stale answer could not be told from a fresh one. The namespace theorems rest on
`NamespaceOK` (it is `Build` of the maps at every moment) and the last one on
`CacheOK` (what is cached is complete) beside `Inv`.

`TypeOK` alone is not inductive either: a callback stores what it carries under the node
it carries, so `HeardOf` says of every request, claim and callback that its node is
connected and its transfer ID and ticket in range (`Least`: the ID or ticket taken, the
smallest free one, is a free one), and `CacheFresh` that the broadcast handler's cache
holds the metadata of the store, although it is never emptied: what is stored is always
complete, so that storing metadata again changes nothing.

`NodeAllocationProofs`, for any modules and UUIDs, any number of IDs, any capacity
and any number of faults:

* `TypeCorrect == Spec => []TypeOK`
* `IdsNeverReused == Spec => []IdsNotReused`

That IDs are not reused cannot be inductive alone, since it does not say where a
module gets its ID from. `Inv` adds the chain from the table to the modules:
`RecordedOnce` (a UUID is in the table once), `AnswersTrue` (an answer with an ID
names the whole UUID the table has for it, and the table never changes an entry,
`TableGrows`) and `OwnersRecorded` (who took an ID is who the table has for it).
Nothing in it says that the fragments of an exchange belong together: uniqueness
does not depend on it, because a module only takes an answer that names all of
its own UUID. One lemma per kind of step keeps it: `EarlyStageInv`, `AllocateInv`
and `FinalStageInv`, `RejectInv`, `DeliverInv`, and `NodeStepInv` for the rest.

`ServiceRequestsProofs`, for any number of clients, commands, transfer IDs and slots,
whether or not requests expire and answers come late. For commands of any number of
frames that are counted down from that number (`Counted`: every method but
`set_fields`):

* `BatchesTypeCorrect == OrderlySpec => []TypeOK`: no continuation is
  submitted to the global pool again before its task ran
* `BatchIdsNeverDangle == OrderlySpec => []NoDanglingTransferId`
* `BatchResponsesNeverStale == OrderlySpec => []NoStaleResponse`
* `BatchContinuationsNeverLeak == OrderlySpec => []NoLeakedContinuation`

and for commands of one frame (`SingleFrame`, as `draw_rectangle` and `write_text` of the screen) with no condition
on the steps: `TypeCorrect`, `TransferIdsNeverDangle`, `ResponsesNeverStale`,
`ContinuationsNeverLeak`, each `Spec => []` of the same property.

`OrderlySpec` is `Spec` without the steps that are not `Orderly`. These are:

* a back-off that has transfer IDs to unwind (finding 1);
* a timeout of a continuation whose response is in hand (finding 2);
* a timeout of a continuation while its client is still claiming IDs for it, which needs
  a client thread held up for longer than the expiry between two claims, and after which
  the IDs claimed later would refer to a slot on its way back to the pool;
* the claim of a slot while the heartbeat has IDs of its last use to abort (finding 2,
  the other way), for which the reply and the client's next command must both overtake
  the rest of a loop over 32 IDs.

The code has no guard against any of them; the theorems say what holds as long as none
comes about. `Counted` leaves out `set_fields` (finding 3). Retries, the order of
answers, answers too late, slots and IDs claimed by others meanwhile, and the pool's reply
between two timeouts of a batch are all orderly. A command of one frame never has an ID to
unwind, one ID to time out, and one answer, taken from the table before it is in hand, so
its steps are all orderly (`SingleFrameOrderly`, from `SingleInv`).

Of every claimed slot the invariant `IInv == TypeOK /\ Own` says that its countdown is
the number of batches whose answers it awaits, and that a slot with a task awaits none
(`SlotsOwn`). `Awaited(s)` collects them from the three who can have one: the client, which
has not claimed its ID yet (`Unclaimed`); the table (`Asked`); the inbox thread, with the
response in hand (`Answered`). For the count to go down by one with each answer nobody may
have a batch twice, hence `ClientsOwn` (a client has the batches after those it has IDs
for) and `EntriesOwn` (two IDs of a slot are of different batches, and of one stamp, so
that a scan finds all of them or none: `ScanOwns`). Once the heartbeat has aborted the
first of them the countdown is zero, and the others, still in the table, await nothing
(`TimedOut`): their slot has its task, or is back in the pool and free. There is a lemma per
action, which also says what becomes of `Awaited`: claiming, sending, taking a response
and the beginning of a scan pass a batch on or leave it, `next` drops one, `AbortNext`
drops all that its slot has, and everything else leaves it alone. `IInv` was checked with
TLC on orderly steps of commands of up to three frames before it was proved. `StampType`
is where the clients have to be finitely many: there is always a stamp that nobody has.

`ServiceRepliesProofs`, while answers do not come after the expiry (`~LateAnswers`):

* `BatchRepliesStayUltimate == OrderlySpec => []RepliesAreUltimate`, under
  `Counted`
* `RepliesStayUltimate == Spec => []RepliesAreUltimate`, under `SingleFrame`

A count that is right is not enough for this: what is counted must be of the right
command, and what is no longer awaited must be settled. `Match` ties together what is
scattered over pools, table, bus and clients: the reply task of a claimed continuation
belongs to its user, which has had no reply, and every request of that user that its slot
does not await is answered or expired (`Due`, in `SlotsMatch`); no two continuations are of
one command or share a reply task (`SlotsDiffer`); a client has its slot and its reply task
for the command it prepares (`ClientsMatch`); a request on the bus is the one its
transfer ID was claimed for (`BusMatches`); what the heartbeat has yet to abort is
settled, not on the bus, and of a command that no client works on (`ScanMatches`); and a command that waits to be tried again
after a back-off has nothing on the bus and no other slot (`Pending`). When the countdown
reaches zero nothing is awaited, so all is settled, and the task replies. The hypothesis
enters twice, both times in `AbortExpiredMatch`: a late answer would find its transfer ID
claimed by a younger request, and a client held up past the expiry would send a request
that nobody waits for.

Only model-checked: everything of `PageState`, whose operators are recursive over the
tree of objects, which is out of the prover's reach; those behaviours of `ServiceRequests`
with commands of several frames that are not orderly, where findings 1 and 2 are
counterexamples; and all liveness, which rests on fairness and `ENABLED`, beyond the
prover too.

## 5. What is not modelled

* In `SerialLink`: bytes, COBS, CRC, padding, `INITIALISE` frames of another
  version, and a restart of the sending end.
* In `Pipeline`: the outbox, whose thread only waits for the UART; exceptions in
  handlers; interruption at shutdown.
* In `ServiceRequests`: a timeout between the writes of
  `PooledCountdownContinuation.set`, requests with a callback instead of a pooled slot,
  exceptions in a method between claim and request, a `display.set` with no
  fields (zero frames), answers after the expiry (`LateAnswers`, present but not
  asked about, since nothing in the repository promises anything of it), framing
  and the write lock of a connection.
* In `Discovery`: the values of fields and their time series in Redis, exceptions
  while a malformed answer is read, a `HashMap` read while another thread writes it, nodes that leave (the daemon never removes
  one), subscriptions.
* In `NodeAllocation`: a restart of the daemon, whose table is in memory only.
  Whether modules keep their IDs over it is a matter of their firmware, which is
  not in the repository.
* In `PageState`: the data of polls (so not that a slow poll's older answer may
  overwrite a younger one, although `index.html:1530` means to prevent overlap),
  recipes that throw half-way (the error path of `produce`, which revokes the drafts
  and leaves the state as it was), rendering, and the plugins of immer that the page does not enable, which are
  half of its file. Of the JavaScript here only immer and the editor are files of their
  own, both vendored; how much of the repository is modelled is better judged by
  the Java.
* `Scripts`: the methods of `ScriptExecutor` are synchronised; what is left is
  what the operating system does to processes that are told to stop. That a
  user's script launched between the test and the automatic launch is replaced
  (`StartMainScriptTask.java:39`) is plain from the code and listed as a hazard.
* Whole components: see `PROJECT.json`.

## 6. Plan

In this order:

1. *(done)* `SerialLink`, `ReliableTransport`, `Pipeline`, `ServiceRequests`;
   `TypeCorrect` and `WindowStaysIntact` of the link, `TypeCorrect` and
   `HandOverStaysInOrder` of the pipeline.
2. *(done)* `Discovery`: the query tasks, the store's maps, the namespace and the
   broadcast handler, with four theorems.
3. *(done)* `NodeAllocation`, with the theorem that `Store.java:37` relies on.
4. *(done)* `PageState` and the abstract `PageValues`.
5. Extensions of the existing modules, within their runs: restart of the sending
   end, exceptions between claim and request, zero frames.
6. *(done)* Proofs: `RetiredWereReceived` of the link and the five safety properties of
   `ServiceRequests`, for single frames and, on orderly steps, for any number of them;
   `ReceiverInWindow`, `InboxInOrder` and the refinement to `ReliableTransport`; the
   types of `Discovery`.
