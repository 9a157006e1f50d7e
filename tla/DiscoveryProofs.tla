--------------------------- MODULE DiscoveryProofs ---------------------------
(***************************************************************************)
(* Proofs about Discovery, for every bus: any nodes, any descriptions, any *)
(* transfer IDs, any number of expired requests and waiting callbacks.     *)
(*                                                                         *)
(* The enumeration of the fields is correct because a query is only ever   *)
(* sent for a position up to which everything is known, and stays so:      *)
(* what is accumulated never shrinks, so late and repeated answers are     *)
(* harmless.                                                               *)
(***************************************************************************)
EXTENDS Discovery, TLAPS, WellFoundedInduction

\* Everything before a position of a node's properties has been accumulated.
KnownUpTo(n, at) == at \in 1..(Length(n) + 1) /\ 1..(at - 1) \subseteq accumulated[n]

AccumulatedOK ==
    /\ accumulated \in [Nodes -> SUBSET Nat]
    /\ \A n \in Nodes : accumulated[n] \subseteq Positions(n)

PositionOK ==
    /\ position \in [Nodes -> Nat]
    /\ \A n \in Nodes : position[n] # 0 => KnownUpTo(n, position[n])

QueriesOK ==
    \A q \in queries : q.node \in Nodes /\ (q.kind = Enumerate => KnownUpTo(q.node, q.at))

\* An answer is what follows the position asked for; an empty one means the end.
TasksOK ==
    \A t \in tasks :
        /\ t.node \in Nodes
        /\ t.kind = Enumerate /\ ~t.error =>
              /\ KnownUpTo(t.node, t.first)
              /\ t.last \in (t.first - 1)..Length(t.node)
              /\ t.last = t.first - 1 => t.first = Length(t.node) + 1

EnumerationOK == AccumulatedOK /\ PositionOK /\ QueriesOK /\ TasksOK

ClaimsOK == \A c \in claimed : c.node \in Nodes

MetadataOK == metadata \in [Nodes -> (SUBSET Nat) \cup {None}] /\ MetadataComplete

Inv == EnumerationOK /\ ClaimsOK /\ MetadataOK

\* Positions are positions.
LEMMA LengthIsNat == \A n \in Nodes : Length(n) \in Nat
  BY DescriptionAssumption DEF Length

\* Accumulating more keeps what was known.
LEMMA KnownGrows ==
  ASSUME NEW n \in Nodes, NEW at, KnownUpTo(n, at), accumulated[n] \subseteq accumulated'[n]
  PROVE  KnownUpTo(n, at)'
  BY DEF KnownUpTo, Length

\* A chunk that begins where everything before is known is known to its end.
LEMMA ChunkIsKnown ==
  ASSUME NEW n \in Nodes, NEW first, NEW last,
         KnownUpTo(n, first), last \in first..Length(n),
         accumulated'[n] = accumulated[n] \cup (first..last)
  PROVE  KnownUpTo(n, last + 1)'
<1>1. /\ first \in 1..(Length(n) + 1) /\ last \in Int /\ last + 1 \in 1..(Length(n) + 1)
      /\ (last + 1) - 1 = last
  BY LengthIsNat DEF KnownUpTo
<1>2. 1..last \subseteq (1..(first - 1)) \cup (first..last)
  BY <1>1
<1>3. 1..((last + 1) - 1) \subseteq accumulated'[n]
  BY <1>1, <1>2 DEF KnownUpTo
<1>. QED BY <1>1, <1>3 DEF KnownUpTo, Length

\* Issuing queries from known positions keeps queries and claims in order.
LEMMA IssueKeeps ==
  ASSUME NEW asked, IssueQueries(asked), QueriesOK, ClaimsOK,
         \A n \in Nodes : accumulated[n] \subseteq accumulated'[n],
         \A a \in asked : a.node \in Nodes /\ (a.kind = Enumerate => KnownUpTo(a.node, a.at)')
  PROVE  QueriesOK' /\ ClaimsOK'
<1>1. \A g \in Granted(asked) : g.node \in Nodes /\ (g.kind = Enumerate => KnownUpTo(g.node, g.at)')
  BY DEF Granted
<1>2. QueriesOK'
  <2>1. SUFFICES ASSUME NEW q \in queries'
                 PROVE  q.node \in Nodes /\ (q.kind = Enumerate => KnownUpTo(q.node, q.at)')
    BY DEF QueriesOK
  <2>2. CASE q \in queries
    BY <2>2, KnownGrows DEF QueriesOK
  <2>3. CASE q \in Granted(asked)
    BY <2>3, <1>1
  <2>. QED BY <2>2, <2>3 DEF IssueQueries
<1>3. ClaimsOK'
  BY <1>1 DEF ClaimsOK, IssueQueries
<1>. QED BY <1>2, <1>3

LEMMA InitInv == Init => Inv
<1>. SUFFICES ASSUME Init PROVE Inv
  OBVIOUS
<1>1. AccumulatedOK /\ QueriesOK /\ TasksOK /\ ClaimsOK
  BY DEF Init, AccumulatedOK, QueriesOK, TasksOK, ClaimsOK
<1>2. PositionOK
  BY LengthIsNat DEF Init, PositionOK, KnownUpTo
<1>3. MetadataOK
  BY DEF Init, MetadataOK, MetadataComplete
<1>. QED BY <1>1, <1>2, <1>3 DEF Inv, EnumerationOK

\* Steps that change neither progress nor metadata, and no request or callback.
LEMMA OthersUnchanged ==
  ASSUME Inv, UNCHANGED <<progress, metadata, claimed, queries, tasks>>
  PROVE  Inv'
BY DEF Inv, EnumerationOK, AccumulatedOK, PositionOK, QueriesOK, TasksOK, ClaimsOK, MetadataOK,
       MetadataComplete, KnownUpTo, Results, progress

LEMMA QueryInv ==
  ASSUME Inv, NEW kind \in Kinds, NEW nodes \in SUBSET Nodes, NEW at, Query(kind, nodes, at),
         kind = Enumerate => \A n \in nodes : KnownUpTo(n, at[n])
  PROVE  Inv'
<1>. DEFINE asked == {n \in nodes \cap connected : MayQuery(n, kind)}
            records == {[node |-> n, kind |-> kind, at |-> at[n]] : n \in asked}
<1>1. IssueQueries(records) /\ UNCHANGED <<progress, metadata, tasks>>
  BY DEF Query, stored
<1>2. \A n \in Nodes : \A p : KnownUpTo(n, p)' = KnownUpTo(n, p)
  BY <1>1 DEF KnownUpTo, progress, Length
<1>3. \A a \in records : a.node \in Nodes /\ (a.kind = Enumerate => KnownUpTo(a.node, a.at)')
  BY <1>2
<1>4. QueriesOK' /\ ClaimsOK'
  <2>1. QueriesOK /\ ClaimsOK
    BY DEF Inv, EnumerationOK
  <2>2. \A n \in Nodes : accumulated[n] \subseteq accumulated'[n]
    BY <1>1 DEF progress
  <2>. HIDE DEF records
  <2>. QED BY <1>1, <1>3, <2>1, <2>2, IssueKeeps
<1>5. AccumulatedOK' /\ PositionOK' /\ TasksOK' /\ MetadataOK'
  BY <1>1, <1>2 DEF Inv, EnumerationOK, AccumulatedOK, PositionOK, TasksOK, MetadataOK,
     MetadataComplete, progress
<1>. QED BY <1>4, <1>5 DEF Inv, EnumerationOK

LEMMA AnswerInv ==
  ASSUME Inv, NEW q \in queries, Answer(q)
  PROVE  Inv'
<1>1. UNCHANGED <<progress, metadata>> /\ queries' \subseteq queries /\ claimed' \subseteq claimed
  BY DEF Answer, stored
<1>2. \A n \in Nodes : \A p : KnownUpTo(n, p)' = KnownUpTo(n, p)
  BY <1>1 DEF KnownUpTo, progress, Length
<1>3. TasksOK'
  <2>1. TasksOK /\ QueriesOK
    BY DEF Inv, EnumerationOK
  <2>2. CASE tasks' = tasks
    BY <2>1, <2>2, <1>2 DEF TasksOK
  <2>3. ASSUME NEW last \in Answers(q), tasks' = tasks \cup {Task(q, FALSE, last)}
        PROVE  TasksOK'
    <3>. DEFINE t == Task(q, FALSE, last)
    <3>1. t.node = q.node /\ t.kind = q.kind /\ t.first = q.at /\ t.last = last
      BY DEF Task
    <3>2. q.node \in Nodes /\ (q.kind = Enumerate => KnownUpTo(q.node, q.at))
      BY <2>1 DEF QueriesOK
    <3>3. ASSUME q.kind = Enumerate
          PROVE  /\ last \in (q.at - 1)..Length(q.node)
                 /\ last = q.at - 1 => q.at = Length(q.node) + 1
      BY <3>2, <3>3, LengthIsNat DEF Answers, KnownUpTo, Positions
    <3>. HIDE DEF t
    <3>4. /\ t.node \in Nodes
          /\ t.kind = Enumerate /\ ~t.error =>
                /\ KnownUpTo(t.node, t.first)
                /\ t.last \in (t.first - 1)..Length(t.node)
                /\ t.last = t.first - 1 => t.first = Length(t.node) + 1
      BY <3>1, <3>2, <3>3
    <3>5. tasks' = tasks \cup {t}
      BY <2>3 DEF t
    <3>. SUFFICES ASSUME NEW u \in tasks'
                  PROVE  /\ u.node \in Nodes
                         /\ u.kind = Enumerate /\ ~u.error =>
                               /\ KnownUpTo(u.node, u.first)'
                               /\ u.last \in (u.first - 1)..Length(u.node)
                               /\ u.last = u.first - 1 => u.first = Length(u.node) + 1
      BY DEF TasksOK
    <3>6. CASE u \in tasks
      BY <2>1, <3>6, <1>2 DEF TasksOK
    <3>7. CASE u = t
      BY <3>4, <3>7, <1>2
    <3>. QED BY <3>5, <3>6, <3>7
  <2>. QED BY <2>2, <2>3 DEF Answer
<1>4. AccumulatedOK' /\ PositionOK' /\ QueriesOK' /\ ClaimsOK' /\ MetadataOK'
  BY <1>1, <1>2 DEF Inv, EnumerationOK, AccumulatedOK, PositionOK, QueriesOK, ClaimsOK, MetadataOK,
     MetadataComplete, progress
<1>. QED BY <1>3, <1>4 DEF Inv, EnumerationOK

LEMMA ExpireInv ==
  ASSUME Inv, NEW c \in claimed, Expire(c)
  PROVE  Inv'
<1>1. UNCHANGED <<progress, metadata>> /\ queries' \subseteq queries /\ claimed' \subseteq claimed
  BY DEF Expire, stored
<1>2. \A n \in Nodes : \A p : KnownUpTo(n, p)' = KnownUpTo(n, p)
  BY <1>1 DEF KnownUpTo, progress, Length
<1>3. TasksOK'
  <2>. DEFINE t == Task([node |-> c.node, kind |-> c.kind, at |-> 1], TRUE, 0)
  <2>1. TasksOK /\ ClaimsOK /\ tasks' = tasks \cup {t}
    BY DEF Inv, EnumerationOK, Expire
  <2>2. t.node \in Nodes /\ t.error
    BY <2>1 DEF ClaimsOK, Task
  <2>. HIDE DEF t
  <2>. QED BY <2>1, <2>2, <1>2 DEF TasksOK
<1>4. AccumulatedOK' /\ PositionOK' /\ QueriesOK' /\ ClaimsOK' /\ MetadataOK'
  BY <1>1, <1>2 DEF Inv, EnumerationOK, AccumulatedOK, PositionOK, QueriesOK, ClaimsOK, MetadataOK,
     MetadataComplete, progress
<1>. QED BY <1>3, <1>4 DEF Inv, EnumerationOK

\* A callback that learns nothing about fields, or nothing at all.
LEMMA CallbackInv ==
  ASSUME Inv, tasks' \subseteq tasks, UNCHANGED <<progress, metadata, claimed, queries>>
  PROVE  Inv'
BY DEF Inv, EnumerationOK, AccumulatedOK, PositionOK, QueriesOK, TasksOK, ClaimsOK, MetadataOK,
       MetadataComplete, KnownUpTo, progress

LEMMA AccumulateInv ==
  ASSUME Inv, NEW t \in tasks, AccumulateFields(t)
  PROVE  Inv'
<1>. DEFINE n == t.node
<1>1. /\ n \in Nodes /\ KnownUpTo(n, t.first)
      /\ t.last \in t.first..Length(n) /\ t.first \in 1..(Length(n) + 1)
  <2>1. n \in Nodes /\ KnownUpTo(n, t.first) /\ t.last \in (t.first - 1)..Length(n)
    BY DEF Inv, EnumerationOK, TasksOK, AccumulateFields, Readable
  <2>2. t.first..t.last # {}
    BY DEF AccumulateFields, Results
  <2>. QED BY <2>1, <2>2, LengthIsNat DEF KnownUpTo
<1>2. /\ accumulated' = [accumulated EXCEPT ![n] = accumulated[n] \cup (t.first..t.last)]
      /\ position' = [position EXCEPT ![n] = t.last + 1]
      /\ tasks' \subseteq tasks
      /\ IssueQueries({[node |-> n, kind |-> Enumerate, at |-> t.last + 1]})
      /\ UNCHANGED metadata
  BY DEF AccumulateFields, Merged, Results, stored
<1>3. accumulated \in [Nodes -> SUBSET Nat] /\ position \in [Nodes -> Nat]
  BY DEF Inv, EnumerationOK, AccumulatedOK, PositionOK
<1>4. \A m \in Nodes : accumulated[m] \subseteq accumulated'[m]
  BY <1>1, <1>2, <1>3
<1>5. AccumulatedOK'
  <2>1. t.first..t.last \subseteq Positions(n) /\ Positions(n) \subseteq Nat
    BY <1>1, LengthIsNat DEF Positions
  <2>2. \A m \in Nodes : accumulated'[m] \subseteq Positions(m)
    BY <1>2, <1>3, <2>1 DEF Inv, EnumerationOK, AccumulatedOK
  <2>. QED BY <1>2, <1>3, <2>1, <2>2 DEF AccumulatedOK, Positions, Length
<1>6. KnownUpTo(n, t.last + 1)'
  <2>1. accumulated'[n] = accumulated[n] \cup (t.first..t.last)
    BY <1>1, <1>2, <1>3
  <2>. QED BY <1>1, <2>1, ChunkIsKnown
<1>7. PositionOK'
  <2>1. ASSUME NEW m \in Nodes, position'[m] # 0
        PROVE  KnownUpTo(m, position[m])'
    <3>1. CASE m = n
      BY <3>1, <1>1, <1>2, <1>3, <1>6
    <3>2. CASE m # n
      <4>1. position'[m] = position[m] /\ KnownUpTo(m, position[m])
        BY <3>2, <2>1, <1>2, <1>3 DEF Inv, EnumerationOK, PositionOK
      <4>. QED BY <4>1, <1>4 DEF KnownUpTo, Length
    <3>. QED BY <3>1, <3>2
  <2>2. position' \in [Nodes -> Nat]
    <3>1. t.last + 1 \in Nat
      BY <1>1, LengthIsNat
    <3>. QED BY <1>1, <1>2, <1>3, <3>1
  <2>. QED BY <2>1, <2>2 DEF PositionOK
<1>8. QueriesOK' /\ ClaimsOK'
  <2>. DEFINE asked == {[node |-> n, kind |-> Enumerate, at |-> t.last + 1]}
  <2>1. \A a \in asked : a.node \in Nodes /\ (a.kind = Enumerate => KnownUpTo(a.node, a.at)')
    BY <1>1, <1>6
  <2>2. IssueQueries(asked) /\ QueriesOK /\ ClaimsOK
    BY <1>2 DEF Inv, EnumerationOK
  <2>. HIDE DEF asked
  <2>. QED BY <2>1, <2>2, <1>4, IssueKeeps
<1>9. TasksOK'
  <2>1. ASSUME NEW u \in tasks', u.node \in Nodes, KnownUpTo(u.node, u.first)
        PROVE  KnownUpTo(u.node, u.first)'
    BY <2>1, <1>4 DEF KnownUpTo, Length
  <2>. QED BY <2>1, <1>2 DEF Inv, EnumerationOK, TasksOK, Length
<1>10. MetadataOK'
  BY <1>2 DEF Inv, MetadataOK, MetadataComplete
<1>. QED BY <1>5, <1>7, <1>8, <1>9, <1>10 DEF Inv, EnumerationOK

\* An empty answer is past the end, so that everything is known by then.
LEMMA CompletedIsComplete ==
  ASSUME Inv, NEW t \in tasks, CompleteMetadata(t)
  PROVE  /\ t.node \in Nodes /\ accumulated' = accumulated
         /\ metadata' = [metadata EXCEPT ![t.node] = Positions(t.node)]
<1>. DEFINE n == t.node
<1>1. n \in Nodes /\ accumulated[n] = Positions(n)
  <2>1. /\ n \in Nodes /\ KnownUpTo(n, t.first) /\ t.last \in (t.first - 1)..Length(n)
        /\ t.last = t.first - 1 => t.first = Length(n) + 1
    BY DEF Inv, EnumerationOK, TasksOK, CompleteMetadata, Readable
  <2>2. t.first..t.last = {}
    BY DEF CompleteMetadata, Results
  <2>3. t.first \in Int /\ t.last \in Int /\ t.last >= t.first - 1
    BY <2>1, LengthIsNat DEF KnownUpTo
  <2>4. t.last = t.first - 1
    BY <2>2, <2>3
  <2>5. Positions(n) \subseteq accumulated[n]
    <3>1. (Length(n) + 1) - 1 = Length(n)
      BY <2>1, LengthIsNat
    <3>2. t.first = Length(n) + 1
      BY <2>1, <2>4
    <3>. QED BY <2>1, <3>1, <3>2 DEF KnownUpTo, Positions
  <2>. QED BY <2>1, <2>5 DEF Inv, EnumerationOK, AccumulatedOK
<1>2. accumulated \in [Nodes -> SUBSET Nat] /\ position \in [Nodes -> Nat]
  BY DEF Inv, EnumerationOK, AccumulatedOK, PositionOK
<1>3. accumulated' = accumulated /\ metadata' = [metadata EXCEPT ![n] = Positions(n)]
  BY <1>1, <1>2 DEF CompleteMetadata, Merged
<1>. QED BY <1>1, <1>3

LEMMA CompleteInv ==
  ASSUME Inv, NEW t \in tasks, CompleteMetadata(t)
  PROVE  Inv'
<1>. DEFINE n == t.node
<1>1. n \in Nodes
  BY CompletedIsComplete
<1>2. accumulated \in [Nodes -> SUBSET Nat] /\ position \in [Nodes -> Nat]
  BY DEF Inv, EnumerationOK, AccumulatedOK, PositionOK
<1>3. accumulated' = accumulated /\ metadata' = [metadata EXCEPT ![n] = Positions(n)]
  BY CompletedIsComplete
<1>4. /\ position' = [position EXCEPT ![n] = 0] /\ tasks' \subseteq tasks
      /\ UNCHANGED <<claimed, queries>>
  BY DEF CompleteMetadata
<1>5. \A m \in Nodes : \A p : KnownUpTo(m, p)' = KnownUpTo(m, p)
  BY <1>3 DEF KnownUpTo, Length
<1>6. PositionOK'
  BY <1>1, <1>2, <1>4, <1>5 DEF Inv, EnumerationOK, PositionOK
<1>7. MetadataOK'
  BY <1>1, <1>3, LengthIsNat DEF Inv, MetadataOK, MetadataComplete, Positions
<1>8. AccumulatedOK' /\ QueriesOK' /\ TasksOK' /\ ClaimsOK'
  BY <1>3, <1>4, <1>5 DEF Inv, EnumerationOK, AccumulatedOK, QueriesOK, TasksOK, ClaimsOK
<1>. QED BY <1>6, <1>7, <1>8 DEF Inv, EnumerationOK

LEMMA NextInv == Inv /\ [Next]_vars => Inv'
<1>. SUFFICES ASSUME Inv, [Next]_vars PROVE Inv'
  OBVIOUS
<1>1. ASSUME NEW n \in Nodes, NodeStatus(n) PROVE Inv'
  BY <1>1, OthersUnchanged DEF NodeStatus, stored, transport
<1>2. ASSUME NEW n \in Nodes, PublishedFields(n) PROVE Inv'
  BY <1>2, OthersUnchanged DEF PublishedFields, stored, transport
<1>3. CASE QueryNodeInfo
  BY <1>3, QueryInv DEF QueryNodeInfo, Kinds, Info, Enumerate
<1>4. CASE QueryPreferredNames
  BY <1>4, QueryInv DEF QueryPreferredNames, Kinds, Name, Enumerate
<1>5. CASE QueryMetadata
  <2>1. \A n \in {m \in Nodes : position[m] > 0} : KnownUpTo(n, position[n])
    BY DEF Inv, EnumerationOK, PositionOK
  <2>. QED BY <1>5, <2>1, QueryInv DEF QueryMetadata, Kinds
<1>6. ASSUME NEW q \in queries, Answer(q) PROVE Inv'
  BY <1>6, AnswerInv
<1>7. ASSUME NEW c \in claimed, Expire(c) PROVE Inv'
  BY <1>7, ExpireInv
<1>8. ASSUME NEW t \in tasks, RunError(t) \/ RunNodeInfo(t) \/ RunPreferredName(t) PROVE Inv'
  <2>1. tasks' \subseteq tasks /\ UNCHANGED <<progress, metadata, claimed, queries>>
    BY <1>8 DEF RunError, RunNodeInfo, RunPreferredName, stored
  <2>. QED BY <2>1, CallbackInv
<1>9. ASSUME NEW t \in tasks, AccumulateFields(t) PROVE Inv'
  BY <1>9, AccumulateInv
<1>10. ASSUME NEW t \in tasks, CompleteMetadata(t) PROVE Inv'
  BY <1>10, CompleteInv
<1>11. CASE UNCHANGED vars
  BY <1>11, OthersUnchanged DEF vars, stored, transport
<1>. QED BY <1>1, <1>2, <1>3, <1>4, <1>5, <1>6, <1>7, <1>8, <1>9, <1>10, <1>11 DEF Next

\* Metadata is stored only complete: however the fields are split into answers, and
\* whichever queries are repeated, expire, or are answered late
\* (QueryMetadataTask.java:79).
THEOREM MetadataStaysComplete == Spec => []MetadataComplete
<1>1. Inv => MetadataComplete
  BY DEF Inv, MetadataOK
<1>. QED BY <1>1, InitInv, NextInv, PTL DEF Spec

-----------------------------------------------------------------------------
(* The namespace is what the maps say, at every moment.                    *)

NamespaceOK == namespace = Build(names, metadata, infos)

LEMMA InitNamespace == Init => NamespaceOK
  BY DEF Init, NamespaceOK, Build, Named

LEMMA NextNamespace == NamespaceOK /\ [Next]_vars => NamespaceOK'
<1>. SUFFICES ASSUME NamespaceOK, [Next]_vars PROVE NamespaceOK'
  OBVIOUS
<1>1. CASE UNCHANGED stored
  BY <1>1 DEF NamespaceOK, stored
<1>2. ASSUME NEW t \in tasks, RunNodeInfo(t) PROVE NamespaceOK'
  BY <1>2 DEF RunNodeInfo, WithInfo, NamespaceOK
<1>3. ASSUME NEW t \in tasks, RunPreferredName(t) PROVE NamespaceOK'
  BY <1>3 DEF RunPreferredName, NamespaceOK
<1>4. ASSUME NEW t \in tasks, CompleteMetadata(t) PROVE NamespaceOK'
  BY <1>4 DEF CompleteMetadata, NamespaceOK
<1>5. CASE QueryNodeInfo \/ QueryPreferredNames \/ QueryMetadata
  BY <1>5, <1>1 DEF QueryNodeInfo, QueryPreferredNames, QueryMetadata, Query
<1>6. ASSUME NEW n \in Nodes, NodeStatus(n) \/ PublishedFields(n) PROVE NamespaceOK'
  BY <1>6, <1>1 DEF NodeStatus, PublishedFields
<1>7. ASSUME NEW q \in queries, Answer(q) PROVE NamespaceOK'
  BY <1>7, <1>1 DEF Answer
<1>8. ASSUME NEW c \in claimed, Expire(c) PROVE NamespaceOK'
  BY <1>8, <1>1 DEF Expire
<1>9. ASSUME NEW t \in tasks, RunError(t) \/ AccumulateFields(t) PROVE NamespaceOK'
  BY <1>9, <1>1 DEF RunError, AccumulateFields
<1>10. CASE UNCHANGED vars
  BY <1>10, <1>1 DEF vars
<1>. QED BY <1>2, <1>3, <1>4, <1>5, <1>6, <1>7, <1>8, <1>9, <1>10 DEF Next

\* No module of the namespace belongs to two nodes and no field has two keys, in
\* whatever order names, metadata and infos come in (Namespace.java:98-107).
THEOREM NamespaceStaysUnambiguous == Spec => []NamespaceUnambiguous
<1>1. NamespaceOK => NamespaceUnambiguous
  <2>. SUFFICES ASSUME NamespaceOK PROVE NamespaceUnambiguous
    OBVIOUS
  <2>1. \A e, f \in namespace : ~Conflicting(e, f)
    <3>. DEFINE entries == UNION {EntriesOf(n, metadata[n], infos) : n \in Named(names, metadata)}
    <3>1. namespace = IF \E e, f \in entries : Conflicting(e, f) THEN {} ELSE entries
      BY DEF NamespaceOK, Build
    <3>. HIDE DEF entries
    <3>. QED BY <3>1
  <2>. QED BY <2>1 DEF NamespaceUnambiguous, Conflicting
<1>. QED BY <1>1, InitNamespace, NextNamespace, PTL DEF Spec

\* Once a bus is fully described its namespace is the one the nodes intend, whatever
\* order the answers came in and whatever conflicts there were meanwhile
\* (Store.java:123).
THEOREM OrderNeverMatters == Spec => []OrderDoesNotMatter
<1>1. NamespaceOK /\ Inv => OrderDoesNotMatter
  <2>. SUFFICES ASSUME NamespaceOK, Inv, names = Nodes, infos = Nodes,
                       \A n \in Nodes : metadata[n] # None,
                       \A e, f \in Intended : ~Conflicting(e, f)
                PROVE  namespace = Intended
    BY DEF OrderDoesNotMatter
  <2>. DEFINE entries == UNION {EntriesOf(n, metadata[n], infos) : n \in Named(names, metadata)}
  <2>1. Named(names, metadata) = Nodes /\ \A n \in Nodes : metadata[n] = Positions(n)
    BY DEF Named, Inv, MetadataOK, MetadataComplete
  <2>2. entries = Intended
    BY <2>1 DEF Intended
  <2>3. namespace = IF \E e, f \in entries : Conflicting(e, f) THEN {} ELSE entries
    BY DEF NamespaceOK, Build
  <2>. HIDE DEF entries
  <2>. QED BY <2>2, <2>3
<1>. QED BY <1>1, InitInv, NextInv, InitNamespace, NextNamespace, PTL DEF Spec

-----------------------------------------------------------------------------
(* Publications.                                                           *)

CacheOK ==
    /\ cached \in [Nodes -> (SUBSET Nat) \cup {None}]
    /\ \A n \in Nodes : cached[n] \in {None, Positions(n)}
    /\ latest \subseteq Nodes

PublicationsOK == CacheOK /\ PublicationsUnderstood

LEMMA NextPublications == Inv /\ PublicationsOK /\ [Next]_vars => PublicationsOK'
<1>. SUFFICES ASSUME Inv, PublicationsOK, [Next]_vars PROVE PublicationsOK'
  OBVIOUS
<1>1. CASE UNCHANGED publications
  BY <1>1 DEF PublicationsOK, CacheOK, PublicationsUnderstood, publications, Positions, Length
<1>2. ASSUME NEW n \in Nodes, PublishedFields(n) PROVE PublicationsOK'
  <2>1. metadata \in [Nodes -> (SUBSET Nat) \cup {None}] /\ metadata[n] \in {None, Positions(n)}
    BY DEF Inv, MetadataOK, MetadataComplete
  <2>2. Refreshed(n) \in {None, Positions(n)} /\ Refreshed(n) \in (SUBSET Nat) \cup {None}
    BY <2>1 DEF Refreshed, PublicationsOK, CacheOK
  <2>3. cached[n] # None => Refreshed(n) = cached[n]
    BY DEF Refreshed
  <2>4. cached' = [cached EXCEPT ![n] = Refreshed(n)] /\ (microphone => microphone')
    BY <1>2 DEF PublishedFields
  <2>5. CacheOK'
    <3>1. latest' \subseteq Nodes
      BY <1>2 DEF PublishedFields, PublicationsOK, CacheOK
    <3>. QED BY <2>2, <2>4, <3>1 DEF PublicationsOK, CacheOK, Positions, Length
  <2>6. \A m \in latest : microphone' /\ cached'[m] = Positions(m)
    <3>1. \A m \in latest : m \in Nodes /\ microphone /\ cached[m] = Positions(m)
      BY DEF PublicationsOK, CacheOK, PublicationsUnderstood
    <3>2. \A m \in Nodes : Positions(m) # None
      BY DiscoveryAssumption
    <3>. QED BY <2>3, <2>4, <3>1, <3>2 DEF PublicationsOK, CacheOK
  <2>7. Understood(n) => microphone' /\ cached'[n] = Positions(n)
    BY <1>2, <2>2, <2>4 DEF Understood, PublishedFields, PublicationsOK, CacheOK
  <2>8. latest' \subseteq latest \cup (IF Understood(n) THEN {n} ELSE {})
    BY <1>2 DEF PublishedFields
  <2>9. PublicationsUnderstood'
    BY <2>6, <2>7, <2>8 DEF PublicationsUnderstood, Positions, Length
  <2>. QED BY <2>5, <2>9 DEF PublicationsOK
<1>3. CASE QueryNodeInfo \/ QueryPreferredNames \/ QueryMetadata
  BY <1>3, <1>1 DEF QueryNodeInfo, QueryPreferredNames, QueryMetadata, Query
<1>4. ASSUME NEW n \in Nodes, NodeStatus(n) PROVE PublicationsOK'
  BY <1>4, <1>1 DEF NodeStatus
<1>5. ASSUME NEW q \in queries, Answer(q) PROVE PublicationsOK'
  BY <1>5, <1>1 DEF Answer
<1>6. ASSUME NEW c \in claimed, Expire(c) PROVE PublicationsOK'
  BY <1>6, <1>1 DEF Expire
<1>7. ASSUME NEW t \in tasks, RunError(t) \/ RunNodeInfo(t) \/ RunPreferredName(t) PROVE PublicationsOK'
  BY <1>7, <1>1 DEF RunError, RunNodeInfo, RunPreferredName
<1>8. ASSUME NEW t \in tasks, AccumulateFields(t) \/ CompleteMetadata(t) PROVE PublicationsOK'
  BY <1>8, <1>1 DEF AccumulateFields, CompleteMetadata
<1>9. CASE UNCHANGED vars
  BY <1>9, <1>1 DEF vars
<1>. QED BY <1>2, <1>3, <1>4, <1>5, <1>6, <1>7, <1>8, <1>9 DEF Next

\* A publication is stored only with its node's complete metadata and once the
\* microphone can be told apart (BroadcastHandler.java:56).
THEOREM PublicationsStayUnderstood == Spec => []PublicationsUnderstood
<1>1. Init => PublicationsOK
  BY DEF Init, PublicationsOK, CacheOK, PublicationsUnderstood
<1>2. PublicationsOK => PublicationsUnderstood
  BY DEF PublicationsOK
<1>. QED BY <1>1, <1>2, InitInv, NextInv, NextPublications, PTL DEF Spec

-----------------------------------------------------------------------------
(* What is known and under way is of nodes that were heard of.             *)

\* The least of some natural numbers is one of them.
LEMMA Least ==
  ASSUME NEW S, S \subseteq Nat, S # {}
  PROVE  Min(S) \in S
<1>1. PICK x \in S : \A y \in S : ~(<<y, x>> \in OpToRel(<, Nat))
  BY NatLessThanWellFounded, WFMin
<1>2. ASSUME NEW y \in S PROVE x <= y
  <2>1. x \in Nat /\ y \in Nat
    OBVIOUS
  <2>2. ~(y < x)
    BY <1>1, <2>1 DEF OpToRel
  <2>. QED BY <2>1, <2>2
<1>. QED BY <1>2 DEF Min

\* A request gets a transfer ID, and is of a node that was heard of.
Heard(c) == c.node \in connected /\ c.kind \in Kinds /\ c.id \in TransferIds

HeardOf ==
    /\ connected \subseteq Nodes /\ names \subseteq connected /\ infos \subseteq connected
    /\ \A c \in claimed \cup queries : Heard(c)
    /\ \A t \in tasks : t.node \in connected /\ t.kind \in Kinds /\ t.ticket \in 1..MaxTasks

\* What the BroadcastHandler has cached is what the store has.
CacheFresh == \A n \in Nodes : cached[n] # None => cached[n] = metadata[n]

LEMMA GrantedHeard ==
  ASSUME NEW asked, \A a \in asked : a.node \in connected /\ a.kind \in Kinds,
         NEW g \in Granted(asked)
  PROVE  Heard(g)
<1>1. PICK a \in asked :
         /\ FreeIds(a.node, a.kind) # {}
         /\ g = [node |-> a.node, kind |-> a.kind, id |-> Min(FreeIds(a.node, a.kind)), at |-> a.at]
  BY DEF Granted
<1>2. FreeIds(a.node, a.kind) \subseteq TransferIds /\ TransferIds \subseteq Nat
  BY DiscoveryAssumption DEF FreeIds
<1>3. Min(FreeIds(a.node, a.kind)) \in TransferIds
  <2>1. FreeIds(a.node, a.kind) \subseteq Nat
    BY <1>2
  <2>2. Min(FreeIds(a.node, a.kind)) \in FreeIds(a.node, a.kind)
    BY <1>1, <2>1, Least
  <2>. QED BY <1>2, <2>2
<1>. QED BY <1>1, <1>3 DEF Heard

LEMMA IssuedHeard ==
  ASSUME HeardOf, NEW asked, IssueQueries(asked), UNCHANGED connected,
         \A a \in asked : a.node \in connected /\ a.kind \in Kinds
  PROVE  \A c \in claimed' \cup queries' : Heard(c)'
<1>1. SUFFICES ASSUME NEW c \in claimed' \cup queries' PROVE Heard(c)
  BY DEF Heard
<1>2. CASE c \in claimed \cup queries
  BY <1>2 DEF HeardOf
<1>3. CASE c \in Granted(asked)
  BY <1>3, GrantedHeard
<1>4. ASSUME NEW q \in Granted(asked), c = [node |-> q.node, kind |-> q.kind, id |-> q.id]
      PROVE  Heard(c)
  <2>1. Heard(q)
    BY GrantedHeard
  <2>. QED BY <1>4, <2>1 DEF Heard
<1>. QED BY <1>2, <1>3, <1>4 DEF IssueQueries

\* A callback that waits in the pool has a place there.
LEMMA TaskPlaced ==
  ASSUME NEW q, NEW error, NEW last, FreeTickets(q.node, q.kind) # {}
  PROVE  /\ Task(q, error, last).node = q.node /\ Task(q, error, last).kind = q.kind
         /\ Task(q, error, last).ticket \in 1..MaxTasks
<1>1. FreeTickets(q.node, q.kind) \subseteq 1..MaxTasks /\ 1..MaxTasks \subseteq Nat
  BY DiscoveryAssumption DEF FreeTickets
<1>2. Min(FreeTickets(q.node, q.kind)) \in 1..MaxTasks
  <2>1. FreeTickets(q.node, q.kind) \subseteq Nat
    BY <1>1
  <2>2. Min(FreeTickets(q.node, q.kind)) \in FreeTickets(q.node, q.kind)
    BY <2>1, Least
  <2>. QED BY <1>1, <2>2
<1>. QED BY <1>2 DEF Task

LEMMA QueryHeardOf ==
  ASSUME HeardOf, NEW kind \in Kinds, NEW nodes, NEW at, Query(kind, nodes, at)
  PROVE  HeardOf'
<1>. DEFINE asked == {n \in nodes \cap connected : MayQuery(n, kind)}
            records == {[node |-> n, kind |-> kind, at |-> at[n]] : n \in asked}
<1>1. IssueQueries(records) /\ UNCHANGED <<connected, names, infos, tasks>>
  BY DEF Query, stored
<1>2. \A a \in records : a.node \in connected /\ a.kind \in Kinds
  OBVIOUS
<1>. HIDE DEF records
<1>3. \A c \in claimed' \cup queries' : Heard(c)'
  BY <1>1, <1>2, IssuedHeard
<1>. QED BY <1>1, <1>3 DEF HeardOf

LEMMA NextHeardOf == HeardOf /\ [Next]_vars => HeardOf'
<1>. SUFFICES ASSUME HeardOf, [Next]_vars PROVE HeardOf'
  OBVIOUS
<1>1. ASSUME NEW n \in Nodes, NodeStatus(n) PROVE HeardOf'
  BY <1>1 DEF NodeStatus, HeardOf, Heard, stored, transport
<1>2. ASSUME NEW n \in Nodes, PublishedFields(n) PROVE HeardOf'
  BY <1>2 DEF PublishedFields, HeardOf, Heard, stored, transport
<1>3. CASE QueryNodeInfo \/ QueryPreferredNames \/ QueryMetadata
  BY <1>3, QueryHeardOf DEF QueryNodeInfo, QueryPreferredNames, QueryMetadata, Kinds
\* The callback of a request is of the request's node.
<1>a. ASSUME NEW q, q.node \in connected, q.kind \in Kinds, FreeTickets(q.node, q.kind) # {},
             NEW error, NEW last, tasks' = tasks \cup {Task(q, error, last)},
             UNCHANGED <<connected, names, infos>>,
             claimed' \subseteq claimed, queries' \subseteq queries
      PROVE  HeardOf'
  <2>. DEFINE t == Task(q, error, last)
  <2>1. t.node \in connected /\ t.kind \in Kinds /\ t.ticket \in 1..MaxTasks
    BY <1>a, TaskPlaced
  <2>2. tasks' = tasks \cup {t}
    BY <1>a
  <2>. HIDE DEF t
  <2>. QED BY <1>a, <2>1, <2>2 DEF HeardOf, Heard
<1>4. ASSUME NEW q \in queries, Answer(q) PROVE HeardOf'
  <2>1. /\ UNCHANGED <<connected, names, infos>>
        /\ claimed' \subseteq claimed /\ queries' \subseteq queries
        /\ FreeTickets(q.node, q.kind) # {}
    BY <1>4 DEF Answer, stored
  <2>2. q.node \in connected /\ q.kind \in Kinds
    BY DEF HeardOf, Heard
  <2>3. tasks' = tasks \/ \E last : tasks' = tasks \cup {Task(q, FALSE, last)}
    BY <1>4 DEF Answer
  <2>4. CASE tasks' = tasks
    BY <2>1, <2>4 DEF HeardOf, Heard
  <2>. QED BY <1>a, <2>1, <2>2, <2>3, <2>4
<1>5. ASSUME NEW c \in claimed, Expire(c) PROVE HeardOf'
  <2>. DEFINE q == [node |-> c.node, kind |-> c.kind, at |-> 1]
  <2>1. /\ UNCHANGED <<connected, names, infos>>
        /\ claimed' \subseteq claimed /\ queries' \subseteq queries
        /\ FreeTickets(c.node, c.kind) # {} /\ tasks' = tasks \cup {Task(q, TRUE, 0)}
    BY <1>5 DEF Expire, stored
  <2>2. q.node \in connected /\ q.kind \in Kinds /\ FreeTickets(q.node, q.kind) # {}
    BY <2>1 DEF HeardOf, Heard
  <2>. HIDE DEF q
  <2>. QED BY <1>a, <2>1, <2>2
<1>6. ASSUME NEW t \in tasks,
             RunError(t) \/ RunNodeInfo(t) \/ RunPreferredName(t) \/ CompleteMetadata(t)
      PROVE  HeardOf'
  <2>1. /\ UNCHANGED <<connected, claimed, queries>> /\ tasks' \subseteq tasks
        /\ names' \subseteq names \cup {t.node} /\ infos' \subseteq infos \cup {t.node}
    BY <1>6 DEF RunError, RunNodeInfo, RunPreferredName, CompleteMetadata, stored
  <2>. QED BY <2>1 DEF HeardOf, Heard
<1>7. ASSUME NEW t \in tasks, AccumulateFields(t) PROVE HeardOf'
  <2>. DEFINE records == {[node |-> t.node, kind |-> Enumerate, at |-> t.last + 1]}
  <2>1. /\ IssueQueries(records) /\ UNCHANGED <<connected, names, infos>> /\ tasks' \subseteq tasks
    BY <1>7 DEF AccumulateFields, stored
  <2>2. \A a \in records : a.node \in connected /\ a.kind \in Kinds
    BY DEF HeardOf, Kinds
  <2>. HIDE DEF records
  <2>3. \A c \in claimed' \cup queries' : Heard(c)'
    BY <2>1, <2>2, IssuedHeard
  <2>. QED BY <2>1, <2>3 DEF HeardOf
<1>8. CASE UNCHANGED vars
  BY <1>8 DEF vars, stored, transport, HeardOf, Heard
<1>. QED BY <1>1, <1>2, <1>3, <1>4, <1>5, <1>6, <1>7, <1>8 DEF Next

LEMMA NextCacheFresh == Inv /\ CacheOK /\ CacheFresh /\ [Next]_vars => CacheFresh'
<1>. SUFFICES ASSUME Inv, CacheOK, CacheFresh, [Next]_vars PROVE CacheFresh'
  OBVIOUS
<1>1. CASE UNCHANGED <<cached, metadata>>
  BY <1>1 DEF CacheFresh
<1>2. ASSUME NEW n \in Nodes, PublishedFields(n) PROVE CacheFresh'
  <2>1. cached' = [cached EXCEPT ![n] = Refreshed(n)] /\ metadata' = metadata
    BY <1>2 DEF PublishedFields, stored
  <2>2. Refreshed(n) # None => Refreshed(n) = metadata[n]
    BY DEF Refreshed, CacheFresh
  <2>. QED BY <2>1, <2>2 DEF CacheFresh, CacheOK
<1>3. ASSUME NEW t \in tasks, CompleteMetadata(t) PROVE CacheFresh'
  <2>1. /\ t.node \in Nodes /\ cached' = cached
        /\ metadata' = [metadata EXCEPT ![t.node] = Positions(t.node)]
    BY <1>3, CompletedIsComplete DEF CompleteMetadata, publications
  <2>2. cached[t.node] # None => cached[t.node] = Positions(t.node)
    BY <2>1 DEF CacheOK
  <2>. QED BY <2>1, <2>2 DEF CacheFresh, Inv, MetadataOK
<1>4. ASSUME NEW n \in Nodes, NodeStatus(n) PROVE CacheFresh'
  BY <1>1, <1>4 DEF NodeStatus, stored, publications
<1>5. CASE QueryNodeInfo \/ QueryPreferredNames \/ QueryMetadata
  BY <1>1, <1>5 DEF QueryNodeInfo, QueryPreferredNames, QueryMetadata, Query, stored, publications
<1>6. ASSUME NEW q \in queries, Answer(q) PROVE CacheFresh'
  BY <1>1, <1>6 DEF Answer, stored, publications
<1>7. ASSUME NEW c \in claimed, Expire(c) PROVE CacheFresh'
  BY <1>1, <1>7 DEF Expire, stored, publications
<1>8. ASSUME NEW t \in tasks, RunError(t) \/ RunNodeInfo(t) \/ RunPreferredName(t) \/ AccumulateFields(t)
      PROVE  CacheFresh'
  BY <1>1, <1>8 DEF RunError, RunNodeInfo, RunPreferredName, AccumulateFields, stored, publications
<1>9. CASE UNCHANGED vars
  BY <1>1, <1>9 DEF vars, stored, publications
<1>. QED BY <1>2, <1>3, <1>4, <1>5, <1>6, <1>7, <1>8, <1>9 DEF Next

LEMMA TypeFollows ==
  ASSUME Inv, NamespaceOK, PublicationsOK, HeardOf, CacheFresh
  PROVE  TypeOK
<1>1. ASSUME NEW n \in Nodes
      PROVE  /\ position[n] \in 0..(Length(n) + 1)
             /\ accumulated[n] \subseteq Positions(n)
             /\ metadata[n] = None \/ metadata[n] \subseteq Positions(n)
             /\ cached[n] \in {None, metadata[n]}
  <2>1. position[n] \in 0..(Length(n) + 1)
    <3>1. position[n] = 0 \/ position[n] \in 1..(Length(n) + 1)
      BY DEF Inv, EnumerationOK, PositionOK, KnownUpTo
    <3>. QED BY <3>1, LengthIsNat
  <2>2. accumulated[n] \subseteq Positions(n)
    BY DEF Inv, EnumerationOK, AccumulatedOK
  <2>3. metadata[n] = None \/ metadata[n] \subseteq Positions(n)
    BY DEF Inv, MetadataOK, MetadataComplete
  <2>. QED BY <2>1, <2>2, <2>3 DEF CacheFresh
<1>2. ASSUME NEW e \in namespace PROVE e.node \in names
  <2>. DEFINE entries == UNION {EntriesOf(n, metadata[n], infos) : n \in Named(names, metadata)}
  <2>1. namespace = IF \E d, f \in entries : Conflicting(d, f) THEN {} ELSE entries
    BY DEF NamespaceOK, Build
  <2>2. e \in entries
    <3>. HIDE DEF entries
    <3>. QED BY <2>1
  <2>3. PICK n \in Named(names, metadata) : e \in EntriesOf(n, metadata[n], infos)
    BY <2>2
  <2>. QED BY <2>3 DEF EntriesOf, Named
<1>3. latest \subseteq Nodes
  BY DEF PublicationsOK, CacheOK
<1>. QED BY <1>1, <1>2, <1>3 DEF TypeOK, HeardOf, Heard

\* Everything the daemon knows, waits for or resolves is of nodes that were heard of:
\* transfer IDs and places in the pool are valid, the namespace only has named nodes, and
\* what the BroadcastHandler has cached is never out of date.
THEOREM TypesHold == Spec => []TypeOK
<1>1. Init => PublicationsOK /\ HeardOf /\ CacheFresh
  BY DEF Init, PublicationsOK, CacheOK, PublicationsUnderstood, HeardOf, CacheFresh
<1>2. PublicationsOK => CacheOK
  BY DEF PublicationsOK
<1>. QED BY <1>1, <1>2, InitInv, NextInv, InitNamespace, NextNamespace, NextPublications,
            NextHeardOf, NextCacheFresh, TypeFollows, PTL DEF Spec
=============================================================================
