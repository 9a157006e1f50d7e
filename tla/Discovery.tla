------------------------------ MODULE Discovery ------------------------------
(***************************************************************************)
(* How the daemon learns what the modules of a bus are: the query tasks    *)
(* of the heartbeat (QueryNodeInfoTask, QueryPreferredNamesTask,           *)
(* QueryMetadataTask), their callbacks in the global pool, the maps of the *)
(* Store, the Namespace derived from them, and the BroadcastHandler, which *)
(* drops what a node publishes until it can tell what it means.            *)
(*                                                                         *)
(* A node enumerates its fields in chunks.  The pair of keys a query       *)
(* starts from is a position in the list of the properties of the node's   *)
(* fields; an answer is never longer than a frame and empty only past the  *)
(* end.                                                                    *)
(***************************************************************************)
EXTENDS Integers, Sequences, FiniteSets, FiniteSetsExt

CONSTANTS
    Nodes,          \* the modules on the bus
    Names,          \* names of modules
    Fields,         \* names of fields
    Description,    \* per node: [key, name, module] records, in order of keys
    PreferredName,  \* per node: the module of the fields that name none
    IsCube,         \* the nodes whose info says com.abstractfoundry.cube
    Microphone,     \* the module BroadcastHandler waits for: "microphone",
    MicrophoneField,    \* for its field "data"
    Buttons, SystemButton,  \* "buttons" and "system_button"
    TransferIds,    \* 0..31, per node and type of request
    Prompt,         \* environment: what is always answered, and its callback run,
                    \* before the next heartbeat
    Publishers,     \* the nodes that publish fields
    MaxTasks,       \* bound: callbacks of a task and node waiting in the pool
    MaxExpiries,    \* bound: requests that expire in a behaviour
    None

Info == "info"
Name == "name"
Enumerate == "fields"
Kinds == {Info, Name, Enumerate}

Length(n) == Len(Description[n])
Positions(n) == 1..Length(n)

ASSUME DescriptionAssumption ==
    /\ DOMAIN Description = Nodes
    /\ \A n \in Nodes :
          Description[n] \in Seq([key : Nat, name : Fields, module : Names \cup {None}])
    /\ PreferredName \in [Nodes -> Names]
    /\ IsCube \subseteq Nodes
    /\ {Microphone, Buttons, SystemButton} \subseteq Names /\ MicrophoneField \in Fields

ASSUME DiscoveryAssumption ==
    /\ TransferIds \subseteq 0..31
    /\ Prompt \subseteq Nodes \X Kinds /\ Publishers \subseteq Nodes
    /\ MaxTasks \in Nat /\ MaxExpiries \in Nat
    /\ None \notin Names /\ \A n \in Nodes : \A S \in SUBSET Positions(n) : S # None

VARIABLES
    connected,      \* connectedIds
    position,       \* queryKeysById: where the next query starts, 0 = complete
    accumulated,    \* accumulatedResultsById
    names,          \* the nodes in preferredNamesById
    infos,          \* the nodes in nodeInfoById
    metadata,       \* metadataById
    namespace,      \* what a module and field resolve to: [module, name, node, key]
    claimed,        \* transfer IDs in use: [node, kind, id]
    queries,        \* requests on the bus: [node, kind, id, at]
    tasks,          \* callbacks in the global pool
    cached,         \* BroadcastHandler.cachedMetadataById
    microphone,     \* BroadcastHandler.microphoneKey is known
    latest,         \* the nodes in latestFieldsById
    expiries        \* bookkeeping for MaxExpiries

stored == <<names, infos, metadata, namespace>>
progress == <<position, accumulated>>
transport == <<claimed, queries, tasks, expiries>>
publications == <<cached, microphone, latest>>
vars == <<connected, progress, stored, transport, publications>>

Init ==
    /\ connected = {}
    /\ position = [n \in Nodes |-> 1]
    /\ accumulated = [n \in Nodes |-> {}]
    /\ names = {} /\ infos = {} /\ metadata = [n \in Nodes |-> None]
    /\ namespace = {}
    /\ claimed = {} /\ queries = {} /\ tasks = {} /\ expiries = 0
    /\ cached = [n \in Nodes |-> None] /\ microphone = FALSE /\ latest = {}

-----------------------------------------------------------------------------
(* The namespace, from the three maps as they are.                         *)

\* The field a node has at a key, from the properties known of it.  Its module is
\* the one it names, or else the node's; the cube's own buttons are renamed.
ModuleOf(n, known, key, info) ==
    LET explicit == {Description[n][i].module : i \in {j \in known : Description[n][j].key = key}}
                    \ {None}
        module == IF explicit = {} THEN None ELSE CHOOSE m \in explicit : TRUE
    IN CASE module = None -> PreferredName[n]
         [] module = Buttons /\ n \in info \cap IsCube -> SystemButton
         [] OTHER -> module

EntriesOf(n, known, info) ==
    {[module |-> ModuleOf(n, known, Description[n][i].key, info),
      name |-> Description[n][i].name, node |-> n, key |-> Description[n][i].key] : i \in known}

\* Mutant: the last node to claim a name gets it.
SameEntry(e, f) == FALSE

\* Two nodes claim one module, or one module's field has two keys.
Conflicting(e, f) ==
    /\ e.module = f.module
    /\ e.node # f.node \/ (e.name = f.name /\ e.key # f.key)

\* Mutant: nodes count whose name is not known yet.
AnyName(named, described) == {n \in Nodes : described[n] # None}

Named(named, described) == {n \in named : described[n] # None}

\* Namespace.build: EMPTY on any conflict.
Build(named, described, info) ==
    LET entries == UNION {EntriesOf(n, described[n], info) : n \in Named(named, described)}
    IN IF \E e, f \in entries : Conflicting(e, f) THEN {} ELSE entries

\* Mutant: node info is stored without a rebuild.
NotRebuilt(n) == namespace

\* The namespace once the info of a node is stored.
WithInfo(n) == Build(names, metadata, infos \cup {n})

-----------------------------------------------------------------------------
(* Queries.  Node.request claims the lowest free transfer ID, or backs off *)
(* and leaves the query to a later heartbeat.                              *)

FreeIds(n, kind) == {t \in TransferIds : [node |-> n, kind |-> kind, id |-> t] \notin claimed}

\* The requests, of [node, kind, at] records, that get a transfer ID.
Granted(asked) ==
    {[node |-> a.node, kind |-> a.kind, id |-> Min(FreeIds(a.node, a.kind)), at |-> a.at] :
        a \in {b \in asked : FreeIds(b.node, b.kind) # {}}}

IssueQueries(asked) ==
    /\ queries' = queries \cup Granted(asked)
    /\ claimed' = claimed \cup
          {[node |-> q.node, kind |-> q.kind, id |-> q.id] : q \in Granted(asked)}

\* A NODE_STATUS broadcast.
NodeStatus(n) ==
    /\ connected' = connected \cup {n}
    /\ UNCHANGED <<progress, stored, transport, publications>>

\* Nothing asked of a node before is still going on that the environment promises to
\* be over by the next heartbeat.
MayQuery(n, kind) ==
    <<n, kind>> \in Prompt => \A x \in claimed \cup tasks : <<x.node, x.kind>> # <<n, kind>>

\* The three tasks the heartbeat runs once a second, each for every connected node of
\* which it does not know the answer.  It may ask again while the query before is on
\* its way or its callback waiting to run.  (The first two look at a map that callbacks
\* write without taking their lock: missing an entry just written is the same as having
\* asked just before it.)
Query(kind, nodes, at) ==
    LET asked == {n \in nodes \cap connected : MayQuery(n, kind)}
    IN /\ \E n \in asked : FreeIds(n, kind) # {}
       /\ IssueQueries({[node |-> n, kind |-> kind, at |-> at[n]] : n \in asked})
       /\ UNCHANGED <<connected, progress, stored, tasks, expiries, publications>>

Beginning == [n \in Nodes |-> 0]

QueryNodeInfo == Query(Info, Nodes \ infos, Beginning)

QueryPreferredNames == Query(Name, Nodes \ names, Beginning)

QueryMetadata == Query(Enumerate, {n \in Nodes : position[n] > 0}, position)

\* The places of callbacks in the pool: those of equal contents are told apart.
FreeTickets(n, kind) ==
    (1..MaxTasks) \ {t.ticket : t \in {u \in tasks : u.node = n /\ u.kind = kind}}

Task(q, error, last) ==
    [node |-> q.node, kind |-> q.kind, error |-> error, first |-> q.at, last |-> last,
     ticket |-> Min(FreeTickets(q.node, q.kind))]

\* The ends an answer to a query may have: a chunk of at least one property, or
\* nothing when none is left.
Answers(q) ==
    IF q.kind # Enumerate THEN {q.at}
    ELSE IF q.at \in Positions(q.node) THEN q.at..Length(q.node) ELSE {q.at - 1}

\* The node answers and handleResponse releases the transfer ID and hands the
\* callback to the pool.  An answer later than the expiry finds its transfer ID
\* free, and is dropped, or claimed by a younger query, whose callback it gets.
Answer(q) ==
    /\ q \in queries /\ FreeTickets(q.node, q.kind) # {}
    /\ queries' = queries \ {q}
    /\ LET entry == [node |-> q.node, kind |-> q.kind, id |-> q.id]
       IN IF entry \in claimed
          THEN /\ claimed' = claimed \ {entry}
               /\ \E last \in Answers(q) : tasks' = tasks \cup {Task(q, FALSE, last)}
          ELSE UNCHANGED <<claimed, tasks>>
    /\ UNCHANGED <<connected, progress, stored, expiries, publications>>

\* A request expires: its answer is late, or lost, and the callback is told.
Expire(c) ==
    /\ c \in claimed /\ <<c.node, c.kind>> \notin Prompt
    /\ expiries < MaxExpiries /\ FreeTickets(c.node, c.kind) # {}
    /\ expiries' = expiries + 1
    /\ claimed' = claimed \ {c}
    /\ \/ queries' = {q \in queries : <<q.node, q.kind, q.id>> # <<c.node, c.kind, c.id>>}
       \/ UNCHANGED queries
    /\ tasks' = tasks \cup {Task([node |-> c.node, kind |-> c.kind, at |-> 1], TRUE, 0)}
    /\ UNCHANGED <<connected, progress, stored, publications>>

-----------------------------------------------------------------------------
(* The callbacks, run in the global pool under the lock of their task.  On *)
(* an error the buffer is null and reading it throws: nothing changes, and *)
(* a later heartbeat asks again.                                           *)

\* Mutant: an expired request looks like an empty answer.
EvenOnError(t) == TRUE

Readable(t) == ~t.error

RunError(t) ==
    /\ t \in tasks /\ ~Readable(t)
    /\ tasks' = tasks \ {t}
    /\ UNCHANGED <<connected, progress, stored, claimed, queries, expiries, publications>>

RunNodeInfo(t) ==
    /\ t \in tasks /\ t.kind = Info /\ Readable(t)
    /\ tasks' = tasks \ {t}
    /\ infos' = infos \cup {t.node}
    /\ namespace' = WithInfo(t.node)
    /\ UNCHANGED <<connected, progress, names, metadata, claimed, queries, expiries, publications>>

RunPreferredName(t) ==
    /\ t \in tasks /\ t.kind = Name /\ Readable(t)
    /\ tasks' = tasks \ {t}
    /\ names' = names \cup {t.node}
    /\ namespace' = Build(names', metadata, infos)
    /\ UNCHANGED <<connected, progress, infos, metadata, claimed, queries, expiries, publications>>

Results(t) == t.first..t.last

\* Mutant: each chunk replaces the ones before; the empty one at the end does not.
Replaced(n, results) == IF results = {} THEN accumulated[n] ELSE results

Merged(n, results) == accumulated[n] \cup results

\* A chunk: go on just after it, whatever was known to follow, without waiting for
\* the heartbeat.
AccumulateFields(t) ==
    /\ t \in tasks /\ t.kind = Enumerate /\ Readable(t) /\ Results(t) # {}
    /\ tasks' = tasks \ {t}
    /\ accumulated' = [accumulated EXCEPT ![t.node] = Merged(t.node, Results(t))]
    /\ position' = [position EXCEPT ![t.node] = t.last + 1]
    /\ IssueQueries({[node |-> t.node, kind |-> Enumerate, at |-> t.last + 1]})
    /\ UNCHANGED <<connected, stored, expiries, publications>>

\* Nothing follows: the metadata is complete and goes to the store.
CompleteMetadata(t) ==
    /\ t \in tasks /\ t.kind = Enumerate /\ Readable(t) /\ Results(t) = {}
    /\ tasks' = tasks \ {t}
    /\ accumulated' = [accumulated EXCEPT ![t.node] = Merged(t.node, {})]
    /\ position' = [position EXCEPT ![t.node] = 0]
    /\ metadata' = [metadata EXCEPT ![t.node] = accumulated'[t.node]]
    /\ namespace' = Build(names, metadata', infos)
    /\ UNCHANGED <<connected, names, infos, claimed, queries, expiries, publications>>

-----------------------------------------------------------------------------
(* What a node publishes (the inbox thread).                               *)

\* Mutant: the cache is consulted and never filled.
NeverFilled(n) == cached[n]

Refreshed(n) == IF cached[n] = None THEN metadata[n] ELSE cached[n]

\* Otherwise the module is absent, or asking it for the key throws: either way the
\* publication is dropped.
HasMicrophone == \E e \in namespace : e.module = Microphone /\ e.name = MicrophoneField

\* Mutant: the microphone is not waited for.
HasMetadata(n) == Refreshed(n) # None

Understood(n) == Refreshed(n) # None /\ (microphone \/ HasMicrophone)

\* Cache the node's metadata and the microphone's key; store the fields only once
\* both are known.
PublishedFields(n) ==
    /\ n \in Publishers
    /\ cached' = [cached EXCEPT ![n] = Refreshed(n)]
    /\ microphone' = (microphone \/ HasMicrophone)
    /\ latest' = IF Understood(n) THEN latest \cup {n} ELSE latest
    /\ UNCHANGED <<connected, progress, stored, transport>>

-----------------------------------------------------------------------------
Next ==
    \/ \E n \in Nodes :
          NodeStatus(n) \/ PublishedFields(n)
    \/ QueryNodeInfo \/ QueryPreferredNames \/ QueryMetadata
    \/ \E q \in queries : Answer(q)
    \/ \E c \in claimed : Expire(c)
    \/ \E t \in tasks : RunError(t) \/ RunNodeInfo(t) \/ RunPreferredName(t)
    \/ \E t \in tasks : AccumulateFields(t) \/ CompleteMetadata(t)

Spec == Init /\ [][Next]_vars

Run(t) ==
    \/ RunError(t) \/ RunNodeInfo(t) \/ RunPreferredName(t)
    \/ AccumulateFields(t) \/ CompleteMetadata(t)

\* The heartbeat, the publications, the pool and the modules, which answer what they
\* are asked unless it expires first.
Progress ==
    \/ QueryNodeInfo \/ QueryPreferredNames \/ QueryMetadata
    \/ \E n \in Nodes : PublishedFields(n)
    \/ \E q \in queries : Answer(q)
    \/ \E t \in tasks : Run(t)

\* They do not all stop while one of them has something to do.  No node, query or
\* callback need be served before another.
FairSpec == Spec /\ WF_vars(Progress)

-----------------------------------------------------------------------------
(* Properties                                                              *)

TypeOK ==
    /\ connected \subseteq Nodes /\ names \subseteq connected /\ infos \subseteq connected
    /\ \A n \in Nodes :
          /\ position[n] \in 0..(Length(n) + 1)
          /\ accumulated[n] \subseteq Positions(n)
          /\ metadata[n] = None \/ metadata[n] \subseteq Positions(n)
          /\ cached[n] \in {None, metadata[n]}
    /\ \A e \in namespace : e.node \in names
    /\ \A c \in claimed \cup queries :
          c.node \in connected /\ c.kind \in Kinds /\ c.id \in TransferIds
    /\ \A t \in tasks : t.node \in connected /\ t.kind \in Kinds /\ t.ticket \in 1..MaxTasks
    /\ latest \subseteq Nodes

\* A node's metadata is stored only when all of its properties are known, whatever
\* chunks they came in and whichever queries expired, were repeated or answered late
\* (QueryMetadataTask.java:79, "Mark as completed").
MetadataComplete ==
    \A n \in Nodes : metadata[n] # None => metadata[n] = Positions(n)

\* A module of the namespace belongs to one node, and its fields have one key, in
\* whichever order names, metadata and infos come in (Namespace.java:98-107).
NamespaceUnambiguous ==
    \A e, f \in namespace :
        e.module = f.module => e.node = f.node /\ (e.name = f.name => e.key = f.key)

\* What the nodes mean their fields to be called.
Intended == UNION {EntriesOf(n, Positions(n), Nodes) : n \in Nodes}

\* Whatever order the answers came in, and whatever conflicts there were in between,
\* the namespace of a fully described bus is the one the nodes intend
\* (Store.java:123).
OrderDoesNotMatter ==
    /\ names = Nodes /\ infos = Nodes /\ \A n \in Nodes : metadata[n] # None
    /\ \A e, f \in Intended : ~Conflicting(e, f)
    => namespace = Intended

\* Once every node is connected, the namespace eventually has every field of every
\* node, what nodes publish reaches the store, and both stay so: neither an expired
\* query, nor a conflict that lasts while some info is missing, nor a cache filled too
\* early leaves the daemon short of what the bus has (Heartbeat.java:23).
DiscoverySettles ==
    (connected = Nodes) ~> [](namespace = Intended /\ latest = Publishers)

\* A publication is decoded with the complete metadata of its node and only when the
\* microphone can be told apart (BroadcastHandler.java:56, "Don't try to process the
\* data unless we can determine whether or not it is microphone data").
PublicationsUnderstood ==
    \A n \in latest : microphone /\ cached[n] = Positions(n)
=============================================================================
