--------------------------- MODULE ServiceRequests ---------------------------
(***************************************************************************)
(* Requests to the modules, from a client's command to its reply:          *)
(* GenericSocketClientHandler, the methods it invokes, Node.request,       *)
(* ServiceTable, PooledCountdownContinuation, and the three kinds of       *)
(* threads that meet in them: the client threads, the inbox thread that    *)
(* handles responses and the heartbeat that aborts expired requests, with  *)
(* the global pool running the replies.                                    *)
(*                                                                         *)
(* All requests are for one destination and one service type, so that they *)
(* share the transfer IDs of one entry of the table.                       *)
(***************************************************************************)
EXTENDS Integers, Sequences, FiniteSets, FiniteSetsExt

CONSTANTS
    Clients,        \* client connections, each with a thread and pools
    Commands,       \* bound: the commands the clients send in a behaviour
    Methods,        \* what a command may ask: [batches, countdown] records
    TransferIds,    \* 0..31
    PoolSize,       \* slots of each client's reply and continuation pools: 64
    Expiry,         \* environment: requests may stay unanswered for 5 seconds
    LateAnswers,    \* environment: an answer may come after the expiry, and a
                    \* client be held up for longer than it within a request
    None

ASSUME ServiceAssumption ==
    /\ Methods \subseteq [batches : Nat \ {0}, countdown : Nat \ {0}]
    /\ IsFiniteSet(Clients)
    /\ TransferIds \subseteq Nat /\ IsFiniteSet(TransferIds)
    /\ PoolSize \in Nat \ {0}
    /\ Expiry \in BOOLEAN /\ LateAnswers \in BOOLEAN

Slots == Clients \X (1..PoolSize)

VARIABLES
    table,      \* the claimed transfer IDs: who continues, and since when
    continuations,  \* the pooled continuations
    replies,    \* the pooled reply tasks: the command each answers, or None
    client,     \* the client threads
    response,   \* the inbox thread: the entry whose continuation it will advance
    expiring,   \* the heartbeat: the transfer IDs it has yet to abort, {} while it
                \* does not hold the lock of the table
    tasks,      \* submitted to the global pool and not run yet, per slot
    bus,        \* requests sent to the module and not answered yet
    \* History.
    method,     \* the method of each command, None before it is issued
    answers,    \* how many replies each command has had
    settled     \* <<command, batch>> pairs answered by the module or expired

vars == <<table, continuations, replies, client, response, expiring, tasks, bus,
          method, answers, settled>>

\* A claimed transfer ID.  The command and the batch are history.
Entry == [slot : Slots, stamp : Nat, command : Commands, batch : Nat \ {0}]

ASSUME NoneAssumption ==
    None \notin Clients /\ None \notin Commands /\ None \notin Methods /\ None \notin Entry

Idle == [pc |-> "idle", command |-> None]

\* Mutants: one of the slots is not released.
LeakedContinuation == [claimed |-> TRUE, countdown |-> 0, task |-> None, user |-> None]
LeakedReply(j) == j

ResetContinuation == [claimed |-> FALSE, countdown |-> 0, task |-> None, user |-> None]
ReleasedReply(j) == None

Init ==
    /\ table = [t \in TransferIds |-> None]
    /\ continuations = [s \in Slots |-> ResetContinuation]
    /\ replies = [s \in Slots |-> None]
    /\ client = [c \in Clients |-> Idle]
    /\ response = None
    /\ expiring = {}
    /\ tasks = [s \in Slots |-> 0]
    /\ bus = {}
    /\ method = [j \in Commands |-> None]
    /\ answers = [j \in Commands |-> 0]
    /\ settled = {}

FreeIds == {t \in TransferIds : table[t] = None}
ClaimedIds == TransferIds \ FreeIds

\* Mutant: the ID after the highest claimed one, free or not.
AfterHighestClaimed == Max(ClaimedIds \cup {-1}) + 1

LowestFree == Min(FreeIds)

\* System.nanoTime() as a request starts: a stamp that no claimed transfer ID and
\* no request in progress has.  Only whether two stamps are equal matters.
NewStamp ==
    LET used == {table[t].stamp : t \in ClaimedIds}
                \cup {client[c].stamp : c \in {d \in Clients : client[d].pc = "claim"}}
    IN Min((0..Cardinality(used)) \ used)

-----------------------------------------------------------------------------
(* The client thread.  While a pool or the table is exhausted the command  *)
(* stays pending and is tried again.                                       *)

FreeReplies(c) == {k \in 1..PoolSize : replies[<<c, k>>] = None}
FreeContinuations(c) == {k \in 1..PoolSize : ~continuations[<<c, k>>].claimed}

\* handle() and invoke() up to the request: claim the lowest free slot of both
\* pools and set the continuation up.
Invoke(c, j, m) ==
    /\ client[c].pc = "idle"
    /\ client[c].command = j \/ (client[c].command = None /\ method[j] = None)
    /\ method[j] \in {None, m}
    /\ FreeReplies(c) # {} /\ FreeContinuations(c) # {}
    /\ LET r == <<c, Min(FreeReplies(c))>>
           s == <<c, Min(FreeContinuations(c))>>
       IN /\ replies' = [replies EXCEPT ![r] = j]
          /\ continuations' = [continuations EXCEPT ![s] =
                [claimed |-> TRUE, countdown |-> m.countdown, task |-> r, user |-> j]]
          /\ client' = [client EXCEPT ![c] =
                [pc |-> "claim", command |-> j, slot |-> s, reply |-> r,
                 stamp |-> NewStamp, ids |-> <<>>]]
    /\ method' = [method EXCEPT ![j] = m]
    /\ settled' = {x \in settled : x[1] # j}
    /\ UNCHANGED <<table, response, expiring, tasks, bus, answers>>

Batches(c) == method[client[c].command].batches

\* ServiceTable.claim, under the lock: the lowest free transfer ID.
ClaimTransferId(c) ==
    /\ expiring = {}
    /\ client[c].pc = "claim" /\ Len(client[c].ids) < Batches(c)
    /\ FreeIds # {}
    /\ LET t == LowestFree IN
       /\ table' = [table EXCEPT ![t] =
             [slot |-> client[c].slot, stamp |-> client[c].stamp,
              command |-> client[c].command, batch |-> Len(client[c].ids) + 1]]
       /\ client' = [client EXCEPT ![c].ids = Append(@, t)]
    /\ UNCHANGED <<continuations, replies, response, expiring, tasks, bus, method,
                   answers, settled>>

\* The first of the n transfer IDs claimed that the unwinding loop releases.
Unwound(n) == 1..(n - 1)

\* KeyExhaustedException: release what was claimed so far (by number, whoever
\* holds it by now), reset and release both slots, and let the client try again.
BackOff(c) ==
    /\ expiring = {}
    /\ client[c].pc = "claim" /\ Len(client[c].ids) < Batches(c)
    /\ FreeIds = {}
    /\ LET ids == client[c].ids
           released == {ids[i] : i \in Unwound(Len(ids))}
       IN table' = [t \in TransferIds |-> IF t \in released THEN None ELSE table[t]]
    /\ continuations' = [continuations EXCEPT ![client[c].slot] =
          ResetContinuation]
    /\ replies' = [replies EXCEPT ![client[c].reply] = ReleasedReply(@)]
    /\ client' = [client EXCEPT ![c] = [pc |-> "idle", command |-> @.command]]
    /\ UNCHANGED <<response, expiring, tasks, bus, method, answers, settled>>

SentBatches(c) == 1..Batches(c)

\* sendRequests hands the frames to the collector, which may block for long.
SendRequests(c) ==
    /\ client[c].pc = "claim" /\ Len(client[c].ids) = Batches(c)
    /\ bus' = bus \cup {[id |-> client[c].ids[b], command |-> client[c].command,
                         batch |-> b] : b \in SentBatches(c)}
    /\ client' = [client EXCEPT ![c] = Idle]
    /\ UNCHANGED <<table, continuations, replies, response, expiring, tasks, method,
                   answers, settled>>

-----------------------------------------------------------------------------
(* The inbox thread.  The transfer ID is released under the lock of the    *)
(* table, the continuation advanced after the lock was given up.           *)

HandleResponse(a) ==
    /\ expiring = {}
    /\ response = None
    /\ a \in bus
    /\ bus' = bus \ {a}
    /\ IF table[a.id] = None
       THEN UNCHANGED <<table, response>>       \* "Unexpected response"
       ELSE /\ response' = table[a.id]
            /\ table' = [table EXCEPT ![a.id] = None]
    /\ settled' = settled \cup {<<a.command, a.batch>>}
    /\ UNCHANGED <<continuations, replies, client, expiring, tasks, method, answers>>

\* Mutant: the continuation runs one response early.
Penultimate == 1

\* The value the countdown is compared with to find the last response.
Ultimate == 0

NextContinuation ==
    /\ response # None
    /\ response' = None
    /\ LET s == response.slot
           value == continuations[s].countdown - 1
       IN /\ continuations' = [continuations EXCEPT ![s].countdown = value]
          /\ tasks' = [tasks EXCEPT ![s] = IF value = Ultimate THEN @ + 1 ELSE @]
    /\ UNCHANGED <<table, replies, client, expiring, bus, method, answers, settled>>

-----------------------------------------------------------------------------
(* The heartbeat.  It holds the lock of the table while it looks for the   *)
(* transfer IDs that are older than the expiry, frees each and times its   *)
(* continuation out.  The lock keeps claims and releases away meanwhile,   *)
(* but neither the tasks of the global pool nor claims of a slot.          *)

\* Mutant: the ID of an expired request is not freed.
Kept(t) == table[t]

Freed(t) == None

\* The scan begins: time is read once, so that requests that share a stamp are all
\* found expired or none.
AbortExpired(stamps) ==
    LET expired == {t \in ClaimedIds : table[t].stamp \in stamps}
        batches == {<<table[t].command, table[t].batch>> : t \in expired}
    IN /\ Expiry
       /\ expiring = {} /\ expired # {}
       /\ LateAnswers \/ \A c \in Clients :
             client[c].pc = "claim" => client[c].stamp \notin stamps
       /\ expiring' = expired
       /\ settled' = settled \cup batches
       /\ bus' = IF LateAnswers THEN bus
                 ELSE {a \in bus : <<a.command, a.batch>> \notin batches}
       /\ UNCHANGED <<table, continuations, replies, client, response, tasks, method,
                      answers>>

\* The next expired ID is freed and its continuation, whoever uses it by now, timed out.
AbortNext ==
    /\ expiring # {}
    /\ LET t == Min(expiring)
           s == table[t].slot
       IN /\ expiring' = expiring \ {t}
          /\ table' = [table EXCEPT ![t] = Freed(t)]
          /\ continuations' = [continuations EXCEPT ![s].countdown = 0]
          /\ tasks' = [tasks EXCEPT ![s] =
                IF continuations[s].countdown > 0 THEN @ + 1 ELSE @]
    /\ UNCHANGED <<replies, client, response, bus, method, answers, settled>>

-----------------------------------------------------------------------------
(* The global pool.  Both tasks of a continuation are the reply task of    *)
(* the command, looked up when the wrapper runs; the slot is released      *)
(* whatever the task did.                                                  *)

RunTask(s) ==
    /\ tasks[s] > 0
    /\ tasks' = [tasks EXCEPT ![s] = @ - 1]
    /\ LET r == continuations[s].task IN
       IF r = None \/ replies[r] = None         \* no task, or one already run
       THEN UNCHANGED <<replies, answers>>
       ELSE /\ answers' = [answers EXCEPT ![replies[r]] = @ + 1]
            /\ replies' = [replies EXCEPT ![r] = None]
    /\ continuations' = [continuations EXCEPT ![s].claimed = FALSE, ![s].user = None]
    /\ UNCHANGED <<table, client, response, expiring, bus, method, settled>>

-----------------------------------------------------------------------------
Next ==
    \/ \E c \in Clients :
          \/ \E j \in Commands, m \in Methods : Invoke(c, j, m)
          \/ ClaimTransferId(c) \/ BackOff(c) \/ SendRequests(c)
    \/ \E a \in bus : HandleResponse(a)
    \/ NextContinuation
    \/ \E stamps \in SUBSET {table[t].stamp : t \in ClaimedIds} : AbortExpired(stamps)
    \/ AbortNext
    \/ \E s \in Slots : RunTask(s)

Spec == Init /\ [][Next]_vars

\* Client threads, the inbox thread, the heartbeat and the global pool all keep
\* running.  A module need not answer: what is not answered expires.
Fairness ==
    /\ \A c \in Clients :
          /\ WF_vars(ClaimTransferId(c) \/ SendRequests(c))
          /\ WF_vars(BackOff(c))
          /\ WF_vars(\E j \in Commands, m \in Methods :
                       client[c].command = j /\ Invoke(c, j, m))
    /\ WF_vars(~Expiry /\ \E a \in bus : HandleResponse(a))
    /\ WF_vars(NextContinuation)
    /\ WF_vars(\E stamps \in SUBSET {table[t].stamp : t \in ClaimedIds} :
                  AbortExpired(stamps))
    /\ WF_vars(AbortNext)
    /\ \A s \in Slots : WF_vars(RunTask(s))

FairSpec == Spec /\ Fairness

-----------------------------------------------------------------------------
(* The behaviours in which the threads stay out of each other's way where  *)
(* the code does not see to it.                                            *)

\* The client thread has transfer IDs to claim yet.
Preparing(c) == client[c].pc = "claim" /\ Len(client[c].ids) < Batches(c)

\* No back-off has transfer IDs to unwind; no continuation is timed out whose response
\* is in hand or whose IDs are still being claimed; and none is claimed again before the
\* heartbeat is through with the IDs of its last user.
Orderly ==
    /\ \A c \in Clients : BackOff(c) => client[c].ids = <<>>
    /\ AbortNext =>
          LET s == table[Min(expiring)].slot
          IN /\ response # None => response.slot # s
             /\ \A c \in Clients : Preparing(c) => client[c].slot # s
    /\ \A t \in expiring :
          continuations'[table[t].slot].claimed => continuations[table[t].slot].claimed

OrderlySpec == Init /\ [][Next /\ Orderly]_vars

OrderlyFairSpec == OrderlySpec /\ Fairness
-----------------------------------------------------------------------------
(* Properties. *)

\* The state of every thread, pool and table entry is one the code can be in.
TypeOK ==
    /\ table \in [TransferIds -> Entry \cup {None}]
    /\ continuations \in [Slots -> [claimed : BOOLEAN, countdown : Int,
          task : Slots \cup {None}, user : Commands \cup {None}]]
    /\ replies \in [Slots -> Commands \cup {None}]
    /\ client \in [Clients -> [pc : {"idle"}, command : Commands \cup {None}]
          \cup [pc : {"claim"}, command : Commands, slot : Slots, reply : Slots,
                stamp : Nat, ids : Seq(TransferIds)]]
    /\ response \in Entry \cup {None}
    /\ expiring \subseteq ClaimedIds
    /\ tasks \in [Slots -> 0..1]
    /\ bus \subseteq [id : TransferIds, command : Commands, batch : Nat \ {0}]
    /\ method \in [Commands -> Methods \cup {None}]
    /\ answers \in [Commands -> Nat]
    /\ settled \subseteq Commands \X (Nat \ {0})

\* A command is replied to only when each of its requests was answered by the
\* module or expired: "the ultimate invocation".
RepliesAreUltimate ==
    \A j \in Commands : answers[j] > 0 =>
        \A b \in 1..method[j].batches : <<j, b>> \in settled

\* A claimed transfer ID never outlives the use of its pooled continuation: the slot
\* it advances or times out still belongs to the command it was claimed for.  Only an
\* ID the heartbeat is about to abort may find it back in its pool, without effect.
NoDanglingTransferId ==
    \A t \in ClaimedIds :
        LET user == continuations[table[t].slot].user
        IN user = table[t].command \/ (user = None /\ t \in expiring)

\* Nor does a response that is being handled: between the release of its transfer
\* ID and the call of next() its continuation was not returned to the pool.
NoStaleResponse ==
    response # None =>
        continuations[response.slot].user = response.command

\* A claimed continuation always has something left that will release it: a
\* request in preparation, a claimed transfer ID, a response in progress or a
\* submitted task.
NoLeakedContinuation ==
    \A s \in Slots : continuations[s].claimed =>
        \/ \E c \in Clients : client[c].pc = "claim" /\ client[c].slot = s
        \/ \E t \in ClaimedIds : table[t].slot = s
        \/ response # None /\ response.slot = s
        \/ tasks[s] > 0

\* Every command that was issued is replied to in the end.
EveryCommandReplies ==
    \A j \in Commands : method[j] # None ~> answers[j] > 0
=============================================================================
