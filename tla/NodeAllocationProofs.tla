------------------------ MODULE NodeAllocationProofs ------------------------
(***************************************************************************)
(* Proofs about NodeAllocation, for any modules, any UUIDs, any number of  *)
(* candidates, any collector and any number of faults.                     *)
(*                                                                         *)
(* Exchanges are mixed freely: a fragment of one node may continue what    *)
(* another began.  IDs stay unique all the same, because an answer names   *)
(* the whole UUID its ID was recorded for, the table records a UUID once   *)
(* and never changes an entry, and a node only takes an answer that names  *)
(* all of its own UUID.                                                    *)
(***************************************************************************)
EXTENDS NodeAllocation, TLAPS

Answer == [uuid : Seq(Fragments), id : 0..MaxId]

AllocatorOK ==
    /\ exchange \in Seq(Fragments) /\ Len(exchange) <= 3 /\ late \in BOOLEAN
    /\ table \in [NodeIds -> Uuids \cup {None}]

AnswersOK == answers \in Seq(Answer) /\ Len(answers) <= Capacity

NodesOK ==
    /\ pending \in [Nodes -> 0..3]
    /\ heard \in [Nodes -> Off..Waiting] /\ id \in [Nodes -> 0..MaxId]
    /\ owners \in [NodeIds -> SUBSET Nodes]
    /\ faults \in 0..MaxFaults

\* A UUID is in the table once.
RecordedOnce ==
    \A i, j \in NodeIds : table[i] # None /\ table[i] = table[j] => i = j

\* An answer with an ID names the UUID the table has for it.
Truthful(a) ==
    /\ Len(a.uuid) <= 3
    /\ a.id # 0 => Len(a.uuid) = 3 /\ a.uuid \in Uuids /\ table[a.id] = a.uuid

AnswersTrue == \A k \in 1..Len(answers) : Truthful(answers[k])

\* Who took an ID is who the table has for it.
OwnersRecorded == \A i \in NodeIds : \A n \in owners[i] : table[i] = Uuid[n]

Inv == AllocatorOK /\ AnswersOK /\ NodesOK /\ RecordedOnce /\ AnswersTrue /\ OwnersRecorded

\* Entries of the table are never changed.
TableGrows == \A i \in NodeIds : table[i] # None => table'[i] = table[i]

\* The invariant gives the properties of the module.
LEMMA InvImplies == Inv => TypeOK /\ IdsNotReused
<1>. SUFFICES ASSUME Inv PROVE TypeOK /\ IdsNotReused
  OBVIOUS
<1>1. TypeOK
  BY DEF Inv, AllocatorOK, AnswersOK, NodesOK, TypeOK, Answer
<1>2. ASSUME NEW i \in NodeIds, NEW m \in owners[i], NEW n \in owners[i]
      PROVE  m = n
  <2>1. m \in Nodes /\ n \in Nodes
    BY DEF Inv, NodesOK
  <2>2. Uuid[m] = Uuid[n]
    BY DEF Inv, OwnersRecorded
  <2>. QED BY <2>1, <2>2, NodeAssumption
<1>3. ASSUME NEW i \in NodeIds, NEW j \in NodeIds, NEW n \in owners[i] \cap owners[j]
      PROVE  i = j
  <2>1. n \in Nodes /\ table[i] = Uuid[n] /\ table[j] = Uuid[n]
    BY DEF Inv, NodesOK, OwnersRecorded
  <2>2. Uuid[n] \in Uuids /\ Uuid[n] # None
    BY <2>1, NodeAssumption
  <2>. QED BY <2>1, <2>2 DEF Inv, RecordedOnce
<1>. QED BY <1>1, <1>2, <1>3 DEF IdsNotReused

LEMMA InitInv == Init => Inv
<1>. SUFFICES ASSUME Init PROVE Inv
  OBVIOUS
<1>0. <<>> \in Seq(Fragments) /\ <<>> \in Seq(Answer) /\ Len(<<>>) = 0
  OBVIOUS
<1>1. AllocatorOK /\ AnswersOK
  <2>1. table \in [NodeIds -> Uuids \cup {None}]
    BY DEF Init
  <2>2. exchange \in Seq(Fragments) /\ Len(exchange) <= 3
    BY <1>0 DEF Init
  <2>3. late \in BOOLEAN
    BY DEF Init
  <2>4. AllocatorOK
    BY <2>1, <2>2, <2>3 DEF AllocatorOK
  <2>5. AnswersOK
    BY <1>0, AllocatorAssumption DEF Init, AnswersOK
  <2>. QED BY <2>4, <2>5
<1>2. NodesOK
  <2>0. Off \in Off..Waiting /\ 0 \in 0..3
    BY DEF Off, Waiting
  <2>1. pending \in [Nodes -> 0..3] /\ heard \in [Nodes -> Off..Waiting]
    BY <2>0 DEF Init
  <2>2. id \in [Nodes -> 0..MaxId] /\ faults \in 0..MaxFaults
    BY AllocatorAssumption DEF Init
  <2>3. owners \in [NodeIds -> SUBSET Nodes]
    BY DEF Init
  <2>. QED BY <2>1, <2>2, <2>3 DEF NodesOK
<1>3. RecordedOnce /\ AnswersTrue /\ OwnersRecorded
  BY DEF Init, RecordedOnce, AnswersTrue, OwnersRecorded
<1>. QED BY <1>1, <1>2, <1>3 DEF Inv

\* Appending a true answer, with the table as it will be, keeps the answers true.
LEMMA BroadcastInv ==
  ASSUME Inv, NEW uuid \in Seq(Fragments), NEW given \in 0..MaxId, Broadcast(uuid, given),
         TableGrows, Len(uuid) <= 3,
         given # 0 => Len(uuid) = 3 /\ uuid \in Uuids /\ table'[given] = uuid
  PROVE  AnswersOK' /\ AnswersTrue'
<1> DEFINE a == [uuid |-> uuid, id |-> given]
<1>1. a \in Answer /\ a.id = given /\ a.uuid = uuid
  BY DEF Answer
<1>2. answers \in Seq(Answer) /\ answers' = Append(answers, a) /\ Len(answers) < Capacity
  BY DEF Inv, AnswersOK, Broadcast, HasRoom
<1>. HIDE DEF a
<1>3. answers' \in Seq(Answer) /\ Len(answers') = Len(answers) + 1 /\ Len(answers) \in Nat
  BY <1>1, <1>2
<1>4. AnswersOK'
  BY <1>2, <1>3, AllocatorAssumption DEF AnswersOK
<1>. SUFFICES ASSUME NEW k \in 1..Len(answers') PROVE Truthful(answers[k])'
  BY <1>4 DEF AnswersTrue, Truthful
<1>5. CASE k = Len(answers) + 1
  <2>1. answers'[k] = a
    BY <1>1, <1>2, <1>5
  <2>. QED BY <1>1, <2>1 DEF Truthful
<1>6. CASE k \in 1..Len(answers)
  <2>1. answers'[k] = answers[k] /\ answers[k] \in Answer /\ Truthful(answers[k])
    BY <1>2, <1>6 DEF Inv, AnswersTrue
  <2>2. answers[k].id # 0 => answers[k].id \in NodeIds
    BY <2>1, AllocatorAssumption DEF Answer, NodeIds
  <2>3. \A i : i \in Uuids => i # None
    BY NodeAssumption
  <2>. QED BY <2>1, <2>2, <2>3 DEF Truthful, TableGrows
<1>. QED BY <1>3, <1>5, <1>6

\* A fragment more.
LEMMA OneFragmentMore ==
  ASSUME NEW s \in Seq(Fragments), NEW f \in Fragments
  PROVE  Append(s, f) \in Seq(Fragments) /\ Len(Append(s, f)) = Len(s) + 1
  OBVIOUS

\* Three fragments are a UUID.
LEMMA WholeUuid ==
  ASSUME NEW s \in Seq(Fragments), Len(s) = 3
  PROVE  s \in Uuids
  BY DEF Uuids

\* Steps that leave the allocator alone and add no answer: the answers left are among
\* those there were, and owners only change as Deliver says.
LEMMA AllocatorIdle ==
  ASSUME Inv, UNCHANGED table, exchange' \in Seq(Fragments), Len(exchange') <= 3,
         late' \in BOOLEAN, answers' = answers \/ (answers # <<>> /\ answers' = Tail(answers))
  PROVE  AllocatorOK' /\ AnswersOK' /\ RecordedOnce' /\ AnswersTrue'
<1>1. AllocatorOK' /\ RecordedOnce'
  BY DEF Inv, AllocatorOK, RecordedOnce
<1>2. CASE answers' = answers
  BY <1>1, <1>2 DEF Inv, AnswersOK, AnswersTrue, Truthful
<1>3. CASE answers # <<>> /\ answers' = Tail(answers)
  <2>1. /\ answers' \in Seq(Answer) /\ Len(answers') = Len(answers) - 1 /\ Len(answers) \in Nat
        /\ \A k \in 1..Len(answers') : answers'[k] = answers[k + 1]
    BY <1>3 DEF Inv, AnswersOK
  <2>2. AnswersOK'
    BY <2>1, AllocatorAssumption DEF Inv, AnswersOK
  <2>3. ASSUME NEW k \in 1..Len(answers') PROVE Truthful(answers[k])'
    <3>1. Truthful(answers[k + 1]) /\ answers'[k] = answers[k + 1]
      BY <2>1 DEF Inv, AnswersTrue
    <3>. QED BY <3>1 DEF Truthful
  <2>. QED BY <1>1, <2>2, <2>3 DEF AnswersTrue
<1>. QED BY <1>1, <1>2, <1>3

\* Steps that leave the nodes' IDs and who took them alone.
LEMMA NobodyTakes ==
  ASSUME Inv, UNCHANGED <<owners, id>>, TableGrows,
         pending' \in [Nodes -> 0..3], heard' \in [Nodes -> Off..Waiting],
         faults' \in 0..MaxFaults
  PROVE  NodesOK' /\ OwnersRecorded'
<1>1. NodesOK'
  BY DEF Inv, NodesOK
<1>2. \A i \in NodeIds : owners[i] \subseteq Nodes
  BY DEF Inv, NodesOK
<1>3. \A n \in Nodes : Uuid[n] # None
  BY NodeAssumption
<1>4. OwnersRecorded'
  BY <1>2, <1>3 DEF Inv, OwnersRecorded, TableGrows
<1>. QED BY <1>1, <1>4

\* An idle table grows trivially.
LEMMA SameTableGrows == UNCHANGED table => TableGrows
  BY DEF TableGrows

\* The queries under way after one was handled.
LEMMA PendingHandled ==
  ASSUME NodesOK, NEW n \in Nodes, pending' = [pending EXCEPT ![n] = 0]
  PROVE  pending' \in [Nodes -> 0..3]
  BY DEF NodesOK

\* The first two stages extend the exchange by a fragment and answer without an ID.
LEMMA EarlyStageInv ==
  ASSUME Inv, NEW n \in Nodes,
         HandleFirstAllocationStage(n) \/ HandleSecondAllocationStage(n)
  PROVE  Inv'
<1>0. \A i \in 1..3 : Uuid[n][i] \in Fragments
  BY NodeAssumption DEF Uuids
<1>1. exchange' \in Seq(Fragments) /\ Len(exchange') <= 3
  <2>1. CASE HandleFirstAllocationStage(n)
    BY <2>1, <1>0 DEF HandleFirstAllocationStage
  <2>2. CASE HandleSecondAllocationStage(n)
    <3>1. exchange \in Seq(Fragments) /\ Len(exchange) <= 1
      BY <2>2 DEF HandleSecondAllocationStage, Receive, Fits, Current, Inv, AllocatorOK
    <3>2. exchange' = Append(exchange, Uuid[n][2]) /\ Uuid[n][2] \in Fragments
      BY <2>2, <1>0 DEF HandleSecondAllocationStage
    <3>. QED BY <3>1, <3>2, OneFragmentMore
  <2>. QED BY <2>1, <2>2
<1>2. /\ late' \in BOOLEAN /\ UNCHANGED <<table, nodeVars, faults>>
      /\ pending' = [pending EXCEPT ![n] = 0] /\ Broadcast(exchange', 0)
  BY DEF HandleFirstAllocationStage, HandleSecondAllocationStage, Receive
<1>3. AllocatorOK' /\ RecordedOnce'
  BY <1>1, <1>2 DEF Inv, AllocatorOK, RecordedOnce
<1>4. TableGrows
  BY <1>2, SameTableGrows
<1>5. AnswersOK' /\ AnswersTrue'
  <2>1. 0 \in 0..MaxId
    BY AllocatorAssumption
  <2>3. ASSUME NEW e \in Seq(Fragments), e = exchange' PROVE AnswersOK' /\ AnswersTrue'
    <3>1. Len(e) <= 3
      BY <1>1, <2>3
    <3>2. Broadcast(e, 0)
      BY <1>2, <2>3
    <3>. QED BY <1>4, <2>1, <3>1, <3>2, BroadcastInv
  <2>. QED BY <1>1, <2>3
<1>6. pending' \in [Nodes -> 0..3]
  BY <1>2, PendingHandled DEF Inv
<1>7. NodesOK' /\ OwnersRecorded'
  BY <1>2, <1>4, <1>6, NobodyTakes DEF Inv, NodesOK, nodeVars
<1>. QED BY <1>3, <1>5, <1>7 DEF Inv

\* Recording an ID: the UUID's own, or a free one for a UUID that has none.
LEMMA AllocateInv ==
  ASSUME Inv, NEW n \in Nodes, NEW uuid \in Seq(Fragments), Len(uuid) = 3,
         uuid \in Uuids, Allocate(uuid),
         late' \in BOOLEAN, UNCHANGED <<nodeVars, faults>>,
         pending' = [pending EXCEPT ![n] = 0]
  PROVE  Inv'
<1>1. PICK i \in NodeIds : /\ Gives(uuid, i)
                           /\ table' = [table EXCEPT ![i] = uuid]
                           /\ Broadcast(uuid, i)
  BY DEF Allocate
<1>2. exchange' = <<>>
  BY DEF Allocate
<1>3. table \in [NodeIds -> Uuids \cup {None}] /\ table'[i] = uuid /\ uuid # None
  BY <1>1, NodeAssumption DEF Inv, AllocatorOK
<1>4. TableGrows
  BY <1>1, <1>3 DEF Gives, IdsOf, FreeIds, Unallocated, TableGrows
<1>5. AllocatorOK'
  <2>1. table' \in [NodeIds -> Uuids \cup {None}]
    BY <1>1, <1>3
  <2>2. <<>> \in Seq(Fragments) /\ Len(<<>>) <= 3
    OBVIOUS
  <2>. QED BY <2>1, <2>2, <1>2 DEF AllocatorOK
<1>6. RecordedOnce'
  <2>1. CASE i \in IdsOf(uuid)
    BY <2>1, <1>1, <1>3 DEF IdsOf, Inv, RecordedOnce
  <2>2. CASE IdsOf(uuid) = {}
    <3>1. \A j \in NodeIds : table[j] # uuid
      BY <2>2 DEF IdsOf
    <3>2. \A j \in NodeIds \ {i} : table'[j] = table[j]
      BY <1>1, <1>3
    <3>. QED BY <3>1, <3>2, <1>3 DEF Inv, RecordedOnce
  <2>. QED BY <2>1, <2>2, <1>1 DEF Gives
<1>7. i \in 0..MaxId /\ Len(uuid) <= 3
  BY AllocatorAssumption DEF NodeIds
<1>8. AnswersOK' /\ AnswersTrue'
  BY <1>1, <1>3, <1>4, <1>7, BroadcastInv
<1>9. pending' \in [Nodes -> 0..3]
  BY PendingHandled DEF Inv
<1>10. NodesOK' /\ OwnersRecorded'
  BY <1>4, <1>9, NobodyTakes DEF Inv, NodesOK, nodeVars
<1>. QED BY <1>5, <1>6, <1>8, <1>10 DEF Inv

\* The whole UUID: allocated, or refused with nothing recorded.
LEMMA FinalStageInv ==
  ASSUME Inv, NEW n \in Nodes, HandleFinalAllocationStage(n)
  PROVE  Inv'
<1> DEFINE uuid == Append(exchange, Uuid[n][3])
<1>1. /\ late' = FALSE /\ UNCHANGED <<nodeVars, faults>>
      /\ pending' = [pending EXCEPT ![n] = 0] /\ Fits(3)
  BY DEF HandleFinalAllocationStage, Receive
<1>2. exchange \in Seq(Fragments) /\ Len(exchange) = 2
  BY <1>1 DEF Fits, Current, Inv, AllocatorOK
<1>3. Uuid[n][3] \in Fragments
  BY NodeAssumption DEF Uuids
<1>4. uuid \in Seq(Fragments) /\ Len(uuid) = 3
  <2>1. uuid \in Seq(Fragments) /\ Len(uuid) = Len(exchange) + 1
    BY <1>2, <1>3, OneFragmentMore
  <2>2. Len(exchange) + 1 = 3
    BY <1>2
  <2>. QED BY <2>1, <2>2
<1>5. Allocate(uuid) \/ LeaveFull(uuid)
  BY DEF HandleFinalAllocationStage
<1>. HIDE DEF uuid
<1>6. uuid \in Uuids
  BY <1>4, WholeUuid
<1>7. CASE Allocate(uuid)
  BY <1>1, <1>4, <1>6, <1>7, AllocateInv
<1>8. CASE LeaveFull(uuid)
  <2>1. exchange' = uuid /\ UNCHANGED <<table, answers>>
    BY <1>8 DEF LeaveFull
  <2>2. exchange' \in Seq(Fragments) /\ Len(exchange') <= 3
    BY <2>1, <1>4
  <2>6. late' \in BOOLEAN
    BY <1>1
  <2>5. AllocatorOK' /\ AnswersOK' /\ RecordedOnce' /\ AnswersTrue'
    BY <2>1, <2>2, <2>6, AllocatorIdle
  <2>3. pending' \in [Nodes -> 0..3] /\ TableGrows
    BY <2>1, <1>1, PendingHandled, SameTableGrows DEF Inv
  <2>4. NodesOK' /\ OwnersRecorded'
    BY <2>3, <1>1, NobodyTakes DEF Inv, NodesOK, nodeVars
  <2>. QED BY <2>5, <2>4 DEF Inv
<1>. QED BY <1>5, <1>7, <1>8

LEMMA RejectInv ==
  ASSUME Inv, NEW n \in Nodes, RejectQuery(n)
  PROVE  Inv'
<1>1. /\ pending' = [pending EXCEPT ![n] = 0] /\ exchange' = Current
      /\ late' \in BOOLEAN /\ UNCHANGED <<table, answers, nodeVars, faults>>
  BY DEF RejectQuery
<1>2. exchange' \in Seq(Fragments) /\ Len(exchange') <= 3
  <2>1. <<>> \in Seq(Fragments) /\ Len(<<>>) <= 3
    OBVIOUS
  <2>. QED BY <2>1, <1>1 DEF Current, Inv, AllocatorOK
<1>3. AllocatorOK' /\ AnswersOK' /\ RecordedOnce' /\ AnswersTrue'
  BY <1>1, <1>2, AllocatorIdle
<1>4. pending' \in [Nodes -> 0..3] /\ TableGrows
  BY <1>1, PendingHandled, SameTableGrows DEF Inv
<1>5. NodesOK' /\ OwnersRecorded'
  BY <1>1, <1>4, NobodyTakes DEF Inv, NodesOK, nodeVars
<1>. QED BY <1>3, <1>5 DEF Inv

\* A node takes an ID only from an answer that names its whole UUID.
LEMMA DeliverInv ==
  ASSUME Inv, Deliver
  PROVE  Inv'
<1> DEFINE a == Head(answers)
           Listening(n) == heard[n] # Off /\ id[n] = 0
           Mine(n) == \A i \in 1..Len(a.uuid) : a.uuid[i] = Uuid[n][i]
           takers == {n \in Nodes : Listening(n) /\ Mine(n) /\ a.id # 0}
<1>1. /\ answers # <<>> /\ answers' = Tail(answers)
      /\ UNCHANGED <<exchange, late, table, pending, faults>>
  BY DEF Deliver, allocatorVars
<1>2. /\ heard' = [n \in Nodes |->
            IF ~Listening(n) THEN heard[n]
            ELSE IF Mine(n) /\ a.id = 0 THEN Len(a.uuid) ELSE 0]
      /\ id' = [n \in Nodes |-> IF n \in takers THEN a.id ELSE id[n]]
      /\ owners' = [i \in NodeIds |->
            IF i = a.id THEN owners[i] \cup takers ELSE owners[i]]
  BY DEF Deliver
<1>3. a = answers[1] /\ 1 \in 1..Len(answers) /\ a \in Answer /\ Truthful(a)
  BY <1>1 DEF Inv, AnswersOK, AnswersTrue
<1>4. \A n \in takers : n \in Nodes /\ a.id # 0 /\ table[a.id] = Uuid[n]
  <2>1. SUFFICES ASSUME NEW n \in Nodes, Mine(n), a.id # 0 PROVE table[a.id] = Uuid[n]
    OBVIOUS
  <2>2. a.uuid \in Uuids /\ table[a.id] = a.uuid /\ Len(a.uuid) = 3
    BY <1>3, <2>1 DEF Truthful
  <2>3. Uuid[n] \in Uuids
    BY NodeAssumption
  <2>4. \A i \in 1..3 : a.uuid[i] = Uuid[n][i]
    BY <2>1, <2>2
  <2>5. a.uuid = Uuid[n]
    BY <2>2, <2>3, <2>4 DEF Uuids
  <2>. QED BY <2>2, <2>5
<1>5. Len(a.uuid) \in Off..Waiting /\ 0 \in Off..Waiting /\ a.id \in 0..MaxId
  <2>1. Len(a.uuid) \in Nat /\ Len(a.uuid) <= 3 /\ a.id \in 0..MaxId
    BY <1>3 DEF Truthful, Answer
  <2>2. \A l \in Nat : l <= 3 => l \in Off..Waiting
    BY DEF Off, Waiting
  <2>. QED BY <2>1, <2>2
<1>. HIDE DEF a, Listening, Mine, takers
<1>6. AllocatorOK' /\ AnswersOK' /\ RecordedOnce' /\ AnswersTrue'
  <2>1. exchange' \in Seq(Fragments) /\ Len(exchange') <= 3 /\ late' \in BOOLEAN
    BY <1>1 DEF Inv, AllocatorOK
  <2>. QED BY <1>1, <2>1, AllocatorIdle
<1>7. NodesOK'
  <2>1. heard' \in [Nodes -> Off..Waiting]
    BY <1>2, <1>5 DEF Inv, NodesOK
  <2>2. id' \in [Nodes -> 0..MaxId]
    BY <1>2, <1>5 DEF Inv, NodesOK
  <2>3. owners' \in [NodeIds -> SUBSET Nodes]
    BY <1>2, <1>4 DEF Inv, NodesOK
  <2>4. pending' \in [Nodes -> 0..3] /\ faults' \in 0..MaxFaults
    BY <1>1 DEF Inv, NodesOK
  <2>. QED BY <2>1, <2>2, <2>3, <2>4 DEF NodesOK
<1>8. OwnersRecorded'
  <2>1. SUFFICES ASSUME NEW i \in NodeIds, NEW n \in owners'[i] PROVE table[i] = Uuid[n]
    BY <1>1 DEF OwnersRecorded
  <2>2. CASE n \in owners[i]
    BY <2>2 DEF Inv, OwnersRecorded
  <2>3. CASE n \notin owners[i]
    <3>1. i = a.id /\ n \in takers
      BY <2>3, <1>2
    <3>. QED BY <3>1, <1>4
  <2>. QED BY <2>2, <2>3
<1>. QED BY <1>6, <1>7, <1>8 DEF Inv

\* The other steps change queries, fragments heard and the clock, or free a node.
LEMMA NodeStepInv ==
  ASSUME Inv, UNCHANGED <<exchange, table, owners>>, late' \in BOOLEAN,
         answers' = answers \/ (answers # <<>> /\ answers' = Tail(answers)),
         pending' \in [Nodes -> 0..3], heard' \in [Nodes -> Off..Waiting],
         id' \in [Nodes -> 0..MaxId], faults' \in 0..MaxFaults
  PROVE  Inv'
<1>1. exchange' \in Seq(Fragments) /\ Len(exchange') <= 3
  BY DEF Inv, AllocatorOK
<1>2. AllocatorOK' /\ AnswersOK' /\ RecordedOnce' /\ AnswersTrue'
  BY <1>1, AllocatorIdle
<1>3. NodesOK' /\ OwnersRecorded'
  BY DEF Inv, NodesOK, OwnersRecorded
<1>. QED BY <1>2, <1>3 DEF Inv

\* A fault more stays within the bound.
LEMMA FaultInv == NodesOK /\ Fault => faults' \in 0..MaxFaults
  BY AllocatorAssumption DEF NodesOK, Fault

LEMMA NextInv == Inv /\ [Next]_vars => Inv'
<1>. SUFFICES ASSUME Inv, [Next]_vars PROVE Inv'
  OBVIOUS
<1>0. /\ late \in BOOLEAN /\ pending \in [Nodes -> 0..3]
      /\ heard \in [Nodes -> Off..Waiting] /\ id \in [Nodes -> 0..MaxId]
      /\ faults \in 0..MaxFaults /\ NodesOK
  BY DEF Inv, AllocatorOK, NodesOK
<1>a. Off \in Off..Waiting /\ 0 \in Off..Waiting /\ Waiting \in Off..Waiting
  BY DEF Off, Waiting
<1>1. ASSUME NEW n \in Nodes, HandleMessage(n) PROVE Inv'
  BY <1>1, EarlyStageInv, FinalStageInv, RejectInv DEF HandleMessage
<1>2. ASSUME NEW n \in Nodes, PlugIn(n) \/ GiveUp(n) PROVE Inv'
  <2>1. heard' \in [Nodes -> Off..Waiting]
    BY <1>2, <1>0, <1>a DEF PlugIn, GiveUp
  <2>2. UNCHANGED <<exchange, late, table, answers, pending, id, owners, faults>>
    BY <1>2 DEF PlugIn, GiveUp, allocatorVars
  <2>. QED BY <2>1, <2>2, <1>0, NodeStepInv
<1>3. ASSUME NEW n \in Nodes, SendQuery(n) PROVE Inv'
  <2>1. heard' \in [Nodes -> Off..Waiting]
    BY <1>3, <1>0, <1>a DEF SendQuery
  <2>2. pending' \in [Nodes -> 0..3]
    <3>1. heard[n] + 1 \in 0..3
      BY <1>3 DEF SendQuery
    <3>. QED BY <3>1, <1>3, <1>0 DEF SendQuery
  <2>3. UNCHANGED <<exchange, late, table, answers, id, owners, faults>>
    BY <1>3 DEF SendQuery, allocatorVars
  <2>. QED BY <2>1, <2>2, <2>3, <1>0, NodeStepInv
<1>4. ASSUME NEW n \in Nodes, GiveUpEarly(n) PROVE Inv'
  <2>1. heard' \in [Nodes -> Off..Waiting]
    BY <1>4, <1>0, <1>a DEF GiveUpEarly
  <2>2. UNCHANGED <<exchange, late, table, answers, pending, id, owners>>
    BY <1>4 DEF GiveUpEarly, allocatorVars
  <2>3. faults' \in 0..MaxFaults
    BY <1>4, <1>0, FaultInv DEF GiveUpEarly
  <2>. QED BY <2>1, <2>2, <2>3, <1>0, NodeStepInv
<1>5. ASSUME NEW n \in Nodes, LoseQuery(n) PROVE Inv'
  <2>1. pending' \in [Nodes -> 0..3]
    BY <1>5, <1>0, PendingHandled DEF LoseQuery
  <2>2. UNCHANGED <<exchange, late, table, answers, heard, id, owners>>
    BY <1>5 DEF LoseQuery, allocatorVars, nodeVars
  <2>3. faults' \in 0..MaxFaults
    BY <1>5, <1>0, FaultInv DEF LoseQuery
  <2>. QED BY <2>1, <2>2, <2>3, <1>0, NodeStepInv
<1>6. ASSUME NEW n \in Nodes, Unplug(n) PROVE Inv'
  <2>1. heard' \in [Nodes -> Off..Waiting]
    BY <1>6, <1>0, <1>a DEF Unplug
  <2>2. id' \in [Nodes -> 0..MaxId]
    BY <1>6, <1>0, AllocatorAssumption DEF Unplug
  <2>3. UNCHANGED <<exchange, late, table, answers, pending, owners>>
    BY <1>6 DEF Unplug, allocatorVars
  <2>4. faults' \in 0..MaxFaults
    BY <1>6, <1>0, FaultInv DEF Unplug
  <2>. QED BY <2>1, <2>2, <2>3, <2>4, <1>0, NodeStepInv
<1>7. CASE Deliver
  BY <1>7, DeliverInv
<1>8. CASE Elapse
  <2>1. UNCHANGED <<exchange, table, answers, pending, heard, id, owners>> /\ late' \in BOOLEAN
    BY <1>8 DEF Elapse, nodeVars
  <2>2. faults' \in 0..MaxFaults
    BY <1>8, <1>0, FaultInv DEF Elapse
  <2>. QED BY <2>1, <2>2, <1>0, NodeStepInv
<1>9. CASE LoseAnswer
  <2>1. /\ UNCHANGED <<exchange, late, table, pending, heard, id, owners>>
        /\ answers # <<>> /\ answers' = Tail(answers)
    BY <1>9 DEF LoseAnswer, allocatorVars, nodeVars
  <2>2. faults' \in 0..MaxFaults
    BY <1>9, <1>0, FaultInv DEF LoseAnswer
  <2>. QED BY <2>1, <2>2, <1>0, NodeStepInv
<1>10. CASE UNCHANGED vars
  <2>1. UNCHANGED <<exchange, late, table, answers, pending, heard, id, owners, faults>>
    BY <1>10 DEF vars
  <2>. QED BY <2>1, <1>0, NodeStepInv
<1>. QED BY <1>1, <1>2, <1>3, <1>4, <1>5, <1>6, <1>7, <1>8, <1>9, <1>10 DEF Next

\* The allocator, the frames under way and the nodes keep their types: the exchange
\* never holds more than a UUID and the collector never more than its capacity.
THEOREM TypeCorrect == Spec => []TypeOK
<1>. QED BY InitInv, NextInv, InvImplies, PTL DEF Spec

\* An ID is taken by one node only, and a node takes one ID only, however queries and
\* answers are mixed, lost or late and however often modules are plugged in again.
THEOREM IdsNeverReused == Spec => []IdsNotReused
<1>. QED BY InitInv, NextInv, InvImplies, PTL DEF Spec
=============================================================================
