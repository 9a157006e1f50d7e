--------------------------- MODULE NodeAllocation ---------------------------
(***************************************************************************)
(* How a module that is plugged in gets its node ID: the Allocator of the  *)
(* daemon and the anonymous nodes that query it.  A node cannot address    *)
(* anybody and nobody can address it, so it tells its UUID in three        *)
(* fragments and recognises the answers by the prefix they repeat.         *)
(*                                                                         *)
(* The nodes' side is firmware, modelled from what the allocator expects   *)
(* of them.  Bytes are abstracted to the three fragments of a UUID: 6, 6   *)
(* and 4 bytes.                                                            *)
(***************************************************************************)
EXTENDS Integers, Sequences

CONSTANTS
    Nodes,          \* the modules that may be plugged in
    Fragments,      \* pieces of UUIDs
    Uuid,           \* the UUID of each node
    Requesting,     \* the nodes that ask for an ID of their choice
    MaxId,          \* the candidates are 1..MaxId: 125
    Capacity,       \* answers that may wait in the collector
    MaxFaults,      \* bound: delays beyond 500 ms, lost frames and unplugged nodes
    None

Uuids == [1..3 -> Fragments]
NodeIds == 1..MaxId

ASSUME NodeAssumption ==
    /\ Uuid \in [Nodes -> Uuids]
    /\ \A m, n \in Nodes : Uuid[m] = Uuid[n] => m = n
    /\ Requesting \subseteq Nodes
    /\ None \notin Uuids

ASSUME AllocatorAssumption ==
    /\ MaxId \in Nat \ {0}
    /\ Capacity \in Nat \ {0}
    /\ MaxFaults \in Nat

VARIABLES
    \* The Allocator.
    exchange,   \* the fragments up to the cursor, which is 0, 7, 13 or 17
    late,       \* more than QUERY_TIMEOUT has passed since the timestamp
    table,      \* AllocationTable: the UUID each ID was given to
    \* The bus.
    answers,    \* broadcasts of the daemon under way, in order
    pending,    \* per node: the stage of the query it has under way, 0 for none
    \* The nodes.
    heard,      \* fragments of a node's UUID in the last answer; Waiting for one to
                \* its own query; Off if unplugged
    id,         \* the ID a node has taken, 0 while it is anonymous
    \* History and bounds.
    owners,     \* the nodes that ever took an ID
    faults

allocatorVars == <<exchange, late, table>>
nodeVars == <<heard, id, owners>>
vars == <<exchange, late, table, answers, pending, heard, id, owners, faults>>

Off == -1
Waiting == 3

Init ==
    /\ exchange = <<>>
    /\ late = FALSE
    /\ table = [i \in NodeIds |-> None]
    /\ answers = <<>>
    /\ pending = [n \in Nodes |-> 0]
    /\ heard = [n \in Nodes |-> Off]
    /\ id = [n \in Nodes |-> 0]
    /\ owners = [i \in NodeIds |-> {}]
    /\ faults = 0

-----------------------------------------------------------------------------
(* AllocationTable. *)

IdsOf(uuid) == {i \in NodeIds : table[i] = uuid}

\* Mutant: an ID that is taken counts as free.
AnyId(i) == TRUE

Unallocated(i) == table[i] = None

FreeIds == {i \in NodeIds : Unallocated(i)}

\* allocateId: the ID this UUID was given before, else the highest that is free.
Gives(uuid, i) ==
    \/ i \in IdsOf(uuid)
    \/ IdsOf(uuid) = {} /\ i \in FreeIds /\ \A j \in FreeIds : j <= i

-----------------------------------------------------------------------------
(* handleMessage, on the inbox thread: every stage answers with the bytes  *)
(* collected so far, which blocks while the collector is full.             *)

\* The exchange after the test for QUERY_TIMEOUT.
Current == IF exchange # <<>> /\ late THEN <<>> ELSE exchange

\* Mutant: a new query does not interrupt an exchange in progress.
FitsInOrder(stage) == Len(Current) = stage - 1

\* A query with the first bit starts a new exchange, whatever was going on; another
\* one must continue the exchange, whoever began it.
Fits(stage) == stage = 1 \/ Len(Current) = stage - 1

Receive(n, stage) ==
    /\ pending[n] = stage
    /\ Fits(stage)
    /\ pending' = [pending EXCEPT ![n] = 0]
    /\ UNCHANGED <<nodeVars, faults>>

\* Mutant: the collector is taken to have room.
AlwaysRoom == TRUE

HasRoom == Len(answers) < Capacity

Broadcast(uuid, given) ==
    /\ HasRoom
    /\ answers' = Append(answers, [uuid |-> uuid, id |-> given])

HandleFirstAllocationStage(n) ==
    /\ Receive(n, 1)
    /\ exchange' = <<Uuid[n][1]>> /\ late' = FALSE
    /\ Broadcast(exchange', 0)
    /\ UNCHANGED table

HandleSecondAllocationStage(n) ==
    /\ Receive(n, 2)
    /\ exchange' = Append(exchange, Uuid[n][2]) /\ late' = FALSE
    /\ Broadcast(exchange', 0)
    /\ UNCHANGED table

\* The ID is recorded and answered, which ends the exchange.
Allocate(uuid) ==
    /\ \E i \in NodeIds :
          /\ Gives(uuid, i)
          /\ table' = [table EXCEPT ![i] = uuid]
          /\ Broadcast(uuid, i)
    /\ exchange' = <<>>

\* Nothing is answered and the exchange is left full: "Node ID exhaustion", or
\* UnsupportedOperationException for an ID of the node's choice.
LeaveFull(uuid) ==
    /\ exchange' = uuid
    /\ UNCHANGED <<table, answers>>

HandleFinalAllocationStage(n) ==
    /\ Receive(n, 3)
    /\ LET uuid == Append(exchange, Uuid[n][3]) IN
       \/ /\ IdsOf(uuid) # {} \/ (n \notin Requesting /\ FreeIds # {})
          /\ Allocate(uuid)
       \/ /\ IdsOf(uuid) = {} /\ (n \in Requesting \/ FreeIds = {})
          /\ LeaveFull(uuid)
    /\ late' = FALSE

\* "Invalid allocation query": a follow-up that does not fit the exchange.
RejectQuery(n) ==
    /\ pending[n] # 0 /\ ~Fits(pending[n])
    /\ pending' = [pending EXCEPT ![n] = 0]
    /\ exchange' = Current
    /\ late' = (late /\ exchange' # <<>>)
    /\ UNCHANGED <<table, answers, nodeVars, faults>>

HandleMessage(n) ==
    \/ HandleFirstAllocationStage(n) \/ HandleSecondAllocationStage(n)
    \/ HandleFinalAllocationStage(n) \/ RejectQuery(n)

-----------------------------------------------------------------------------
(* The nodes. *)

PlugIn(n) ==
    /\ heard[n] = Off
    /\ heard' = [heard EXCEPT ![n] = 0]
    /\ UNCHANGED <<allocatorVars, answers, pending, id, owners, faults>>

\* An anonymous node sends the fragment that follows what it last heard of itself,
\* once, and waits for the answer.
SendQuery(n) ==
    /\ heard[n] \in 0..2 /\ id[n] = 0 /\ pending[n] = 0
    /\ pending' = [pending EXCEPT ![n] = heard[n] + 1]
    /\ heard' = [heard EXCEPT ![n] = Waiting]
    /\ UNCHANGED <<allocatorVars, answers, id, owners, faults>>

\* A node waits for longer than an answer takes, then begins again.
GiveUp(n) ==
    /\ heard[n] = Waiting /\ pending[n] = 0 /\ answers = <<>>
    /\ heard' = [heard EXCEPT ![n] = 0]
    /\ UNCHANGED <<allocatorVars, answers, pending, id, owners, faults>>

\* Every node hears an answer; an anonymous one takes part while it is a prefix of
\* its own UUID, and takes the ID that comes with the whole of it.
Deliver ==
    /\ answers # <<>>
    /\ answers' = Tail(answers)
    /\ LET a == Head(answers)
           Listening(n) == heard[n] # Off /\ id[n] = 0
           Mine(n) == \A i \in 1..Len(a.uuid) : a.uuid[i] = Uuid[n][i]
           takers == {n \in Nodes : Listening(n) /\ Mine(n) /\ a.id # 0}
       IN /\ heard' = [n \in Nodes |->
                IF ~Listening(n) THEN heard[n]
                ELSE IF Mine(n) /\ a.id = 0 THEN Len(a.uuid) ELSE 0]
          /\ id' = [n \in Nodes |-> IF n \in takers THEN a.id ELSE id[n]]
          /\ owners' = [i \in NodeIds |->
                IF i = a.id THEN owners[i] \cup takers ELSE owners[i]]
    /\ UNCHANGED <<allocatorVars, pending, faults>>

-----------------------------------------------------------------------------
(* What may go wrong. *)

Fault ==
    /\ faults < MaxFaults
    /\ faults' = faults + 1

\* The next query comes more than 500 ms after the last stage.
Elapse ==
    /\ Fault
    /\ exchange # <<>> /\ ~late
    /\ late' = TRUE
    /\ UNCHANGED <<exchange, table, answers, pending, nodeVars>>

\* An answer takes longer than a node waits.
GiveUpEarly(n) ==
    /\ Fault
    /\ heard[n] = Waiting
    /\ heard' = [heard EXCEPT ![n] = 0]
    /\ UNCHANGED <<allocatorVars, answers, pending, id, owners>>

LoseQuery(n) ==
    /\ Fault
    /\ pending[n] # 0
    /\ pending' = [pending EXCEPT ![n] = 0]
    /\ UNCHANGED <<allocatorVars, answers, nodeVars>>

LoseAnswer ==
    /\ Fault
    /\ answers # <<>>
    /\ answers' = Tail(answers)
    /\ UNCHANGED <<allocatorVars, pending, nodeVars>>

\* A node that is unplugged forgets its ID; what it sent may still arrive.
Unplug(n) ==
    /\ Fault
    /\ heard[n] # Off
    /\ heard' = [heard EXCEPT ![n] = Off]
    /\ id' = [id EXCEPT ![n] = 0]
    /\ UNCHANGED <<allocatorVars, answers, pending, owners>>

-----------------------------------------------------------------------------
Next ==
    \/ \E n \in Nodes :
          \/ HandleMessage(n) \/ PlugIn(n) \/ SendQuery(n) \/ GiveUp(n)
          \/ GiveUpEarly(n) \/ LoseQuery(n) \/ Unplug(n)
    \/ Deliver
    \/ Elapse
    \/ LoseAnswer

Spec == Init /\ [][Next]_vars

\* The inbox thread handles what arrives, broadcasts go out, a plugged anonymous
\* node goes on asking.
Fairness ==
    /\ \A n \in Nodes :
          /\ WF_vars(HandleMessage(n))
          /\ WF_vars(SendQuery(n) \/ GiveUp(n))
    /\ WF_vars(Deliver)

FairSpec == Spec /\ Fairness

-----------------------------------------------------------------------------
(* Properties. *)

\* The exchange, the table and the frames under way are what the code can hold.
TypeOK ==
    /\ exchange \in Seq(Fragments) /\ Len(exchange) <= 3 /\ late \in BOOLEAN
    /\ table \in [NodeIds -> Uuids \cup {None}]
    /\ answers \in Seq([uuid : Seq(Fragments), id : 0..MaxId])
    /\ Len(answers) <= Capacity
    /\ pending \in [Nodes -> 0..3]
    /\ heard \in [Nodes -> Off..Waiting] /\ id \in [Nodes -> 0..MaxId]
    /\ owners \in [NodeIds -> SUBSET Nodes]
    /\ faults \in 0..MaxFaults

\* "node IDs are not dynamically reused" (Store.java): over the life of the daemon
\* an ID is taken by one node only, and a node that is plugged in again, or whose
\* exchange was mixed with another's, never takes a second one.
IdsNotReused ==
    /\ \A i \in NodeIds, m, n \in Nodes : m \in owners[i] /\ n \in owners[i] => m = n
    /\ \A i, j \in NodeIds : owners[i] \cap owners[j] # {} => i = j

\* What the table has for a UUID that no node has: IDs lost to mixed exchanges.
Exhausted(n) == FreeIds = {} /\ IdsOf(Uuid[n]) = {}

\* An exchange that was given up, mixed with another node's, rejected or left full
\* never locks the allocator: a node that keeps asking gets an ID once the others
\* have theirs or are gone, unless every ID is gone too.
LastNodeServed ==
    \A n \in Nodes \ Requesting :
        <>[](heard[n] # Off /\ \A m \in Nodes \ {n} : id[m] # 0 \/ heard[m] = Off)
            => <>(id[n] # 0 \/ Exhausted(n))
=============================================================================
