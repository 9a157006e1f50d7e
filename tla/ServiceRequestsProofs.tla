------------------------ MODULE ServiceRequestsProofs ------------------------
(***************************************************************************)
(* The continuations of commands are never shared, lost or left in the     *)
(* table, however the client threads, the inbox thread, the heartbeat and  *)
(* the pool interleave: for commands of one frame always, for commands of  *)
(* several frames as long as every step is orderly.                        *)
(*                                                                         *)
(* A claimed slot of a continuation pool is counted down to its task by    *)
(* what is still awaited for it: the batches without a transfer ID, which  *)
(* the client thread will claim, those with one, which the table has, and  *)
(* the one whose response the inbox thread has in hand.  Once the          *)
(* heartbeat timed the continuation out, nothing is awaited any more,      *)
(* though it may have other IDs of the slot to abort.                      *)
(***************************************************************************)
EXTENDS ServiceRequests, FiniteSetTheorems, WellFoundedInduction, SequenceTheorems, TLAPS

\* The methods that set their countdown to the number of their frames: all but set_fields.
Counted == \A m \in Methods : m.countdown = m.batches

SingleFrame == \A m \in Methods : m.batches = 1 /\ m.countdown = 1

-----------------------------------------------------------------------------
(* The invariant. *)

\* The continuation of a transfer ID was timed out on another ID of its batch.
TimedOut(t) == t \in expiring /\ continuations[table[t].slot].countdown = 0

Unclaimed(s, b) ==
    \E c \in Clients : /\ Preparing(c) /\ client[c].slot = s
                       /\ Len(client[c].ids) < b /\ b <= Batches(c)
Asked(s, b) ==
    \E t \in ClaimedIds : ~TimedOut(t) /\ table[t].slot = s /\ table[t].batch = b
Answered(s, b) == response # None /\ response.slot = s /\ response.batch = b

\* The batches whose answers slot s waits for.
Awaited(s) == {b \in Nat \ {0} : Unclaimed(s, b) \/ Asked(s, b) \/ Answered(s, b)}

\* The countdown is the number of answers that are awaited.
SlotOwn(s) ==
    /\ Awaited(s) # {} =>
          /\ continuations[s].claimed /\ tasks[s] = 0
          /\ continuations[s].user \in Commands /\ method[continuations[s].user] # None
          /\ Awaited(s) \subseteq 1..method[continuations[s].user].batches
          /\ continuations[s].countdown = Cardinality(Awaited(s))
    /\ tasks[s] > 0 => continuations[s].claimed
    /\ continuations[s].claimed => Awaited(s) # {} \/ tasks[s] > 0

SlotsOwn == \A s \in Slots : SlotOwn(s)

\* A client that prepares a command has a slot of its own, the IDs of its first batches
\* and their stamp.
ClientsOwn ==
    \A c \in Clients : client[c].pc = "claim" =>
       /\ client[c].slot[1] = c /\ method[client[c].command] # None
       /\ Preparing(c) =>
             /\ continuations[client[c].slot].user = client[c].command
             /\ \A t \in ClaimedIds : table[t].slot = client[c].slot =>
                   table[t].stamp = client[c].stamp /\ table[t].batch <= Len(client[c].ids)
             /\ response # None /\ response.slot = client[c].slot =>
                   response.batch <= Len(client[c].ids)

\* The IDs of a slot have one stamp, and each another batch.
EntriesOwn ==
    \A t \in ClaimedIds :
       /\ \/ continuations[table[t].slot].user = table[t].command
          \/ TimedOut(t) /\ continuations[table[t].slot].user = None
       /\ \A u \in ClaimedIds : table[u].slot = table[t].slot =>
             table[u].stamp = table[t].stamp /\ (table[u].batch = table[t].batch => u = t)
       /\ response # None /\ response.slot = table[t].slot => response.batch # table[t].batch

ResponseOwns == response # None => continuations[response.slot].user = response.command

\* The IDs of a slot expire together.
ScanOwns ==
    \A t \in expiring, u \in ClaimedIds : table[u].slot = table[t].slot => u \in expiring

Own == SlotsOwn /\ ClientsOwn /\ EntriesOwn /\ ResponseOwns /\ ScanOwns

IInv == TypeOK /\ Own

\* What a step does when it times no continuation out that has other IDs.
NoneTimesOut == \A t \in expiring' : TimedOut(t)' => t \in expiring /\ TimedOut(t)

-----------------------------------------------------------------------------
(* Numbers and slots that are chosen. *)

LEMMA Least ==
    ASSUME NEW S, S \subseteq Nat, S # {}
    PROVE  Min(S) \in S
  <1>1. PICK x \in S : \A y \in S : ~(<<y, x>> \in OpToRel(<, Nat))
    BY NatLessThanWellFounded, WFMin
  <1>2. \A y \in S : x <= y
    <2>1. ASSUME NEW y \in S PROVE x <= y
      <3>1. x \in Nat /\ y \in Nat
        OBVIOUS
      <3>2. ~(y < x)
        BY <1>1, <3>1 DEF OpToRel
      <3> QED
        BY <3>1, <3>2
    <2> QED
      BY <2>1
  <1> QED
    BY <1>2 DEF Min

\* There is always a stamp that nobody has.
LEMMA StampType == NewStamp \in Nat
  <1> DEFINE T == {table[t].stamp : t \in ClaimedIds}
             D == {d \in Clients : client[d].pc = "claim"}
             C == {client[c].stamp : c \in D}
             used == T \cup C
             n == Cardinality(used)
  <1>1. IsFiniteSet(T)
    <2> DEFINE f == [t \in ClaimedIds |-> table[t].stamp]
    <2>1. IsFiniteSet(ClaimedIds)
      BY ServiceAssumption, FS_Subset DEF ClaimedIds
    <2>2. f \in Surjection(ClaimedIds, T)
      BY DEF Surjection
    <2> HIDE DEF f, T
    <2> QED
      BY <2>1, <2>2, FS_Surjection
  <1>2. IsFiniteSet(C)
    <2> DEFINE f == [c \in D |-> client[c].stamp]
    <2>1. IsFiniteSet(D)
      BY ServiceAssumption, FS_Subset
    <2>2. f \in Surjection(D, C)
      BY DEF Surjection
    <2> HIDE DEF f, C, D
    <2> QED
      BY <2>1, <2>2, FS_Surjection
  <1>3. IsFiniteSet(used) /\ n \in Nat
    <2> HIDE DEF T, C
    <2>1. IsFiniteSet(used)
      BY <1>1, <1>2, FS_Union
    <2> HIDE DEF used
    <2> QED
      BY <2>1, FS_CardinalityType
  <1>4. NewStamp = Min((0..n) \ used)
    BY DEF NewStamp
  <1> HIDE DEF used, n
  <1>5. (0..n) \ used # {}
    <2> SUFFICES ASSUME 0..n \subseteq used PROVE FALSE
      OBVIOUS
    <2>1. Cardinality(0..n) <= n
      BY <1>3, FS_Subset DEF n
    <2>2. Cardinality(0..n) = n + 1
      BY <1>3, FS_Interval
    <2> QED
      BY <1>3, <2>1, <2>2
  <1>6. (0..n) \ used \subseteq Nat
    BY <1>3
  <1> QED
    BY <1>4, <1>5, <1>6, Least

LEMMA FreeIdType ==
    ASSUME FreeIds # {}
    PROVE  LowestFree \in TransferIds /\ table[LowestFree] = None
  <1>1. FreeIds \subseteq Nat
    BY ServiceAssumption DEF FreeIds
  <1>2. LowestFree \in FreeIds
    BY <1>1, Least DEF LowestFree
  <1> QED
    BY <1>2 DEF FreeIds

LEMMA FreeSlots ==
    ASSUME NEW c \in Clients, FreeReplies(c) # {}, FreeContinuations(c) # {}
    PROVE  /\ <<c, Min(FreeReplies(c))>> \in Slots
           /\ <<c, Min(FreeContinuations(c))>> \in Slots
           /\ replies[<<c, Min(FreeReplies(c))>>] = None
           /\ ~continuations[<<c, Min(FreeContinuations(c))>>].claimed
  <1>1. FreeReplies(c) \subseteq Nat /\ FreeContinuations(c) \subseteq Nat
    BY DEF FreeReplies, FreeContinuations
  <1>2. Min(FreeReplies(c)) \in FreeReplies(c) /\ Min(FreeContinuations(c)) \in FreeContinuations(c)
    BY <1>1, Least
  <1> QED
    BY <1>2 DEF FreeReplies, FreeContinuations, Slots

\* What the type says of a client.
LEMMA ClientType ==
    ASSUME TypeOK, NEW c \in Clients
    PROVE  /\ client[c].pc \in {"idle", "claim"} /\ client[c].command \in Commands \cup {None}
           /\ client[c].pc = "claim" =>
                 /\ client[c].command \in Commands /\ client[c].slot \in Slots
                 /\ client[c].reply \in Slots /\ client[c].stamp \in Nat
                 /\ client[c].ids \in Seq(TransferIds)
                 /\ client[c] = [pc |-> "claim", command |-> client[c].command,
                                 slot |-> client[c].slot, reply |-> client[c].reply,
                                 stamp |-> client[c].stamp, ids |-> client[c].ids]
  <1>1. client[c] \in [pc : {"idle"}, command : Commands \cup {None}]
          \cup [pc : {"claim"}, command : Commands, slot : Slots, reply : Slots,
                stamp : Nat, ids : Seq(TransferIds)]
    BY DEF TypeOK
  <1> QED
    BY <1>1

LEMMA TableType ==
    ASSUME TypeOK, NEW t \in ClaimedIds
    PROVE  /\ t \in TransferIds /\ table[t] # None /\ table[t] \in Entry
           /\ table[t].slot \in Slots /\ table[t].command \in Commands
           /\ table[t].stamp \in Nat /\ table[t].batch \in Nat \ {0}
  <1>1. t \in TransferIds /\ table[t] # None
    BY DEF ClaimedIds, FreeIds
  <1>2. table[t] \in Entry
    BY <1>1 DEF TypeOK
  <1> QED
    BY <1>1, <1>2 DEF Entry

LEMMA ResponseType ==
    ASSUME TypeOK, response # None
    PROVE  response.slot \in Slots /\ response.command \in Commands /\ response \in Entry
  <1>1. response \in Entry
    BY DEF TypeOK
  <1> QED
    BY <1>1 DEF Entry

\* A continuation that holds someone's answer has no task yet, and is claimed.
LEMMA SlotType ==
    ASSUME TypeOK, NEW s \in Slots
    PROVE  /\ continuations[s].claimed \in BOOLEAN /\ continuations[s].countdown \in Int
           /\ tasks[s] \in {0, 1}
           /\ continuations[s] = [claimed |-> continuations[s].claimed,
                 countdown |-> continuations[s].countdown, task |-> continuations[s].task,
                 user |-> continuations[s].user]
  <1>1. continuations[s] \in [claimed : BOOLEAN, countdown : Int,
          task : Slots \cup {None}, user : Commands \cup {None}]
    BY DEF TypeOK
  <1>2. tasks[s] \in 0..1
    BY DEF TypeOK
  <1> QED
    BY <1>1, <1>2

LEMMA BatchesType ==
    ASSUME TypeOK, NEW c \in Clients, client[c].pc = "claim", method[client[c].command] # None
    PROVE  /\ method[client[c].command] \in Methods
           /\ Batches(c) \in Nat \ {0} /\ Len(client[c].ids) \in Nat
  <1>1. client[c].command \in Commands /\ client[c].ids \in Seq(TransferIds)
    BY ClientType
  <1>2. method[client[c].command] \in Methods
    BY <1>1 DEF TypeOK
  <1> QED
    BY <1>1, <1>2, ServiceAssumption DEF Batches

\* What is awaited is what its three owners have.
LEMMA AwaitedBatch ==
    ASSUME NEW s, NEW b \in Nat \ {0}
    PROVE  b \in Awaited(s) <=> Unclaimed(s, b) \/ Asked(s, b) \/ Answered(s, b)
  BY DEF Awaited

LEMMA AwaitedByTable ==
    ASSUME TypeOK, NEW t \in ClaimedIds, ~TimedOut(t)
    PROVE  table[t].batch \in Awaited(table[t].slot)
  BY TableType DEF Awaited, Asked

LEMMA AwaitedByResponse ==
    ASSUME TypeOK, response # None
    PROVE  response.batch \in Nat \ {0} /\ response.batch \in Awaited(response.slot)
  <1>1. response \in Entry
    BY ResponseType
  <1> QED
    BY <1>1 DEF Entry, Awaited, Answered

LEMMA AwaitedByClient ==
    ASSUME IInv, NEW c \in Clients, Preparing(c)
    PROVE  Len(client[c].ids) + 1 \in Awaited(client[c].slot)
  <1>1. Batches(c) \in Nat /\ Len(client[c].ids) \in Nat /\ Len(client[c].ids) < Batches(c)
    BY BatchesType DEF IInv, Own, ClientsOwn, Preparing
  <1> DEFINE b == Len(client[c].ids) + 1
  <1>2. b \in Nat \ {0} /\ Len(client[c].ids) < b /\ b <= Batches(c)
    BY <1>1
  <1> HIDE DEF b
  <1>3. Unclaimed(client[c].slot, b)
    BY <1>2 DEF Unclaimed
  <1>4. b \in Awaited(client[c].slot)
    BY <1>2, <1>3, AwaitedBatch
  <1> QED
    BY <1>4 DEF b

\* A slot that waits for something is claimed, has no task, and a countdown to match.
LEMMA Waiting ==
    ASSUME IInv, NEW s \in Slots, Awaited(s) # {}
    PROVE  /\ continuations[s].claimed /\ tasks[s] = 0
           /\ continuations[s].user \in Commands /\ method[continuations[s].user] # None
           /\ method[continuations[s].user].batches \in Nat \ {0}
           /\ Awaited(s) \subseteq 1..method[continuations[s].user].batches
           /\ IsFiniteSet(Awaited(s)) /\ Cardinality(Awaited(s)) \in Nat \ {0}
           /\ continuations[s].countdown = Cardinality(Awaited(s))
  <1>1. /\ continuations[s].claimed /\ tasks[s] = 0
        /\ continuations[s].user \in Commands /\ method[continuations[s].user] # None
        /\ Awaited(s) \subseteq 1..method[continuations[s].user].batches
        /\ continuations[s].countdown = Cardinality(Awaited(s))
    BY DEF IInv, Own, SlotsOwn, SlotOwn
  <1> DEFINE n == method[continuations[s].user].batches
  <1>2. n \in Nat \ {0}
    <2>1. method[continuations[s].user] \in Methods
      BY <1>1 DEF IInv, TypeOK
    <2> QED
      BY <2>1, ServiceAssumption
  <1>3. IsFiniteSet(1..n)
    <2> HIDE DEF n
    <2> QED
      BY <1>2, FS_Interval
  <1>4. IsFiniteSet(Awaited(s))
    BY <1>1, <1>3, FS_Subset
  <1>5. Cardinality(Awaited(s)) \in Nat
    BY <1>4, FS_CardinalityType
  <1>6. Cardinality(Awaited(s)) # 0
    BY <1>4, FS_EmptySet
  <1> QED
    BY <1>1, <1>2, <1>4, <1>5, <1>6

\* Nothing is awaited for a slot that was timed out.
LEMMA TimedOutAwaitsNothing ==
    ASSUME IInv, NEW t \in ClaimedIds, TimedOut(t)
    PROVE  Awaited(table[t].slot) = {}
  <1>1. table[t].slot \in Slots
    BY TableType DEF IInv
  <1> QED
    BY <1>1, Waiting DEF TimedOut

\* A slot that a step does not concern.
LEMMA SlotKeeps ==
    ASSUME NEW s \in Slots, SlotOwn(s), Awaited(s)' = Awaited(s),
           continuations'[s] = continuations[s], tasks'[s] = tasks[s],
           \A j \in Commands : method[j] # None => method'[j] = method[j]
    PROVE  SlotOwn(s)'
  BY DEF SlotOwn

LEMMA InitInv == Init => IInv
  <1> SUFFICES ASSUME Init PROVE IInv
    OBVIOUS
  <1>1. ClaimedIds = {}
    BY DEF Init, ClaimedIds, FreeIds
  <1>2. TypeOK
    BY DEF Init, TypeOK, ResetContinuation, Idle
  <1>3. \A s \in Slots : Awaited(s) = {}
    BY <1>1 DEF Init, Awaited, Unclaimed, Asked, Answered, Preparing, Idle
  <1>4. SlotsOwn
    BY <1>3 DEF Init, SlotsOwn, SlotOwn, ResetContinuation
  <1>5. ClientsOwn /\ EntriesOwn /\ ResponseOwns /\ ScanOwns
    BY <1>1 DEF Init, ClientsOwn, EntriesOwn, ResponseOwns, ScanOwns, Idle
  <1> QED
    BY <1>2, <1>4, <1>5 DEF IInv, Own

-----------------------------------------------------------------------------
(* The client thread. *)

\* A command starts with all its batches awaited.
LEMMA InvokeInv ==
    ASSUME Counted, IInv, NEW c \in Clients, NEW j \in Commands, NEW m \in Methods,
           Invoke(c, j, m),
           \A t \in expiring :
              continuations'[table[t].slot].claimed => continuations[table[t].slot].claimed
    PROVE  /\ IInv' /\ NoneTimesOut
           /\ \A u \in Slots : Awaited(u)' = IF client'[c].slot = u THEN 1..m.batches ELSE Awaited(u)
  <1> DEFINE r == <<c, Min(FreeReplies(c))>>
  <1>0. TypeOK /\ Own
    BY DEF IInv
  <1>1. PICK s \in Slots : /\ s = <<c, Min(FreeContinuations(c))>>
                           /\ ~continuations[s].claimed /\ s[1] = c
    BY FreeSlots DEF Invoke
  <1>2. /\ client[c].pc = "idle" /\ method[j] \in {None, m} /\ r \in Slots
        /\ replies' = [replies EXCEPT ![r] = j]
        /\ continuations' = [continuations EXCEPT ![s] =
              [claimed |-> TRUE, countdown |-> m.countdown, task |-> r, user |-> j]]
        /\ client' = [client EXCEPT ![c] =
              [pc |-> "claim", command |-> j, slot |-> s, reply |-> r,
               stamp |-> NewStamp, ids |-> <<>>]]
        /\ method' = [method EXCEPT ![j] = m]
        /\ settled' = {x \in settled : x[1] # j}
        /\ UNCHANGED <<table, response, expiring, tasks, bus, answers>>
    BY <1>1, FreeSlots DEF Invoke
  <1> HIDE DEF r
  <1>3. m.countdown = m.batches /\ m.batches \in Nat \ {0} /\ m # None
    BY NoneAssumption, ServiceAssumption DEF Counted
  <1>4. /\ client' \in [Clients -> [pc : {"idle"}, command : Commands \cup {None}]
              \cup [pc : {"claim"}, command : Commands, slot : Slots, reply : Slots,
                    stamp : Nat, ids : Seq(TransferIds)]]
        /\ client'[c] = [pc |-> "claim", command |-> j, slot |-> s, reply |-> r,
                         stamp |-> NewStamp, ids |-> <<>>]
        /\ \A d \in Clients : d # c => client'[d] = client[d]
    <2>1. <<>> \in Seq(TransferIds)
      OBVIOUS
    <2>2. client \in [Clients -> [pc : {"idle"}, command : Commands \cup {None}]
              \cup [pc : {"claim"}, command : Commands, slot : Slots, reply : Slots,
                    stamp : Nat, ids : Seq(TransferIds)]]
      BY <1>0 DEF TypeOK
    <2> QED
      BY <1>1, <1>2, <2>1, <2>2, StampType
  <1>5. /\ continuations' \in [Slots -> [claimed : BOOLEAN, countdown : Int,
              task : Slots \cup {None}, user : Commands \cup {None}]]
        /\ continuations'[s] = [claimed |-> TRUE, countdown |-> m.batches, task |-> r, user |-> j]
        /\ \A u \in Slots : u # s => continuations'[u] = continuations[u]
    BY <1>0, <1>1, <1>2, <1>3 DEF TypeOK
  <1>6. TypeOK'
    <2>1. /\ replies' \in [Slots -> Commands \cup {None}]
          /\ method' \in [Commands -> Methods \cup {None}]
          /\ settled' \subseteq Commands \X (Nat \ {0})
      BY <1>0, <1>1, <1>2 DEF TypeOK
    <2>2. ClaimedIds' = ClaimedIds
      BY <1>2 DEF ClaimedIds, FreeIds
    <2> QED
      BY <1>0, <1>2, <1>4, <1>5, <2>1, <2>2 DEF TypeOK
  <1>7. ClaimedIds' = ClaimedIds
    BY <1>2 DEF ClaimedIds, FreeIds
  <1>8. /\ method'[j] = m
        /\ \A k \in Commands : method[k] # None => method'[k] = method[k]
    BY <1>0, <1>2 DEF TypeOK
  \* Nobody had anything to do with the slot.
  <1>9. /\ tasks[s] = 0 /\ Awaited(s) = {}
        /\ \A t \in ClaimedIds : table[t].slot # s
        /\ response # None => response.slot # s
    <2>1. Awaited(s) = {} /\ ~(tasks[s] > 0) /\ tasks[s] \in {0, 1}
      BY <1>0, <1>1, SlotType DEF Own, SlotsOwn, SlotOwn
    <2>2. \A t \in ClaimedIds : TimedOut(t) => table[t].slot # s
      BY <1>1, <1>5 DEF TimedOut
    <2> QED
      BY <1>0, <2>1, <2>2, AwaitedByTable, AwaitedByResponse
  <1>10. \A t \in ClaimedIds : /\ continuations'[table[t].slot] = continuations[table[t].slot]
                               /\ TimedOut(t)' <=> TimedOut(t)
    <2>1. ASSUME NEW t \in ClaimedIds
          PROVE  continuations'[table[t].slot] = continuations[table[t].slot]
      BY <1>0, <1>5, <1>9, TableType
    <2> QED
      BY <1>2, <2>1 DEF TimedOut
  <1>11. \A d \in Clients : d # c =>
            /\ Preparing(d)' <=> Preparing(d)
            /\ Preparing(d) => client'[d] = client[d] /\ Batches(d)' = Batches(d)
    <2>1. ASSUME NEW d \in Clients, d # c, client[d].pc = "claim"
          PROVE  Batches(d)' = Batches(d)
      <3>1. method[client[d].command] # None /\ client[d].command \in Commands
        BY <1>0, <2>1, ClientType DEF Own, ClientsOwn
      <3>2. client'[d] = client[d] /\ method'[client[d].command] = method[client[d].command]
        BY <1>4, <1>8, <2>1, <3>1
      <3> QED
        BY <3>2 DEF Batches
    <2>2. ASSUME NEW d \in Clients, d # c
          PROVE  client'[d] = client[d]
      BY <1>4, <2>2
    <2> QED
      BY <2>1, <2>2 DEF Preparing
  <1>12. /\ Batches(c)' = m.batches /\ Len(client'[c].ids) = 0 /\ Preparing(c)'
    <2>1. client'[c].ids = <<>> /\ client'[c].pc = "claim" /\ client'[c].command = j
      BY <1>4
    <2>2. Batches(c)' = m.batches
      BY <1>8, <2>1 DEF Batches
    <2>3. Len(client'[c].ids) = 0
      BY <2>1
    <2> QED
      BY <1>3, <2>1, <2>2, <2>3 DEF Preparing
  <1>13. ASSUME NEW u \in Slots, u # s
         PROVE  Awaited(u)' = Awaited(u)
    <2>1. ~Preparing(c) /\ client'[c].slot # u
      BY <1>2, <1>4, <1>13 DEF Preparing
    <2>2. \A b : Unclaimed(u, b)' <=> Unclaimed(u, b)
      BY <1>4, <1>11, <2>1 DEF Unclaimed
    <2>3. \A b : (Asked(u, b)' <=> Asked(u, b)) /\ (Answered(u, b)' <=> Answered(u, b))
      BY <1>2, <1>7, <1>10 DEF Asked, Answered
    <2> QED
      BY <2>2, <2>3 DEF Awaited
  <1>14. Awaited(s)' = 1..m.batches
    <2>1. \A d \in Clients : d # c /\ Preparing(d)' => client'[d].slot # s
      BY <1>0, <1>1, <1>4, <1>11 DEF Own, ClientsOwn, Preparing
    <2>2. client'[c].slot = s
      BY <1>4
    <2>3. \A b : Unclaimed(s, b)' <=> 0 < b /\ b <= m.batches
      BY <1>12, <2>1, <2>2 DEF Unclaimed
    <2>4. \A b : ~Asked(s, b)' /\ ~Answered(s, b)'
      BY <1>2, <1>7, <1>9 DEF Asked, Answered
    <2>5. Awaited(s)' = {b \in Nat \ {0} : 0 < b /\ b <= m.batches}
      BY <2>3, <2>4 DEF Awaited
    <2> QED
      BY <1>3, <2>5
  <1>15. SlotsOwn'
    <2>1. ASSUME NEW u \in Slots PROVE SlotOwn(u)'
      <3>1. CASE u = s
        <4>1. Cardinality(1..m.batches) = m.batches
          <5> DEFINE n == m.batches
          <5>1. n \in Nat \ {0}
            BY <1>3
          <5> HIDE DEF n
          <5>2. Cardinality(1..n) = n
            BY <5>1, FS_Interval
          <5> QED
            BY <5>2 DEF n
        <4>2. tasks'[s] = 0
          BY <1>2, <1>9
        <4>3. 1 \in 1..m.batches
          BY <1>3
        <4> QED
          BY <1>3, <1>5, <1>8, <1>14, <3>1, <4>1, <4>2, <4>3 DEF SlotOwn
      <3>2. CASE u # s
        <4>1. tasks'[u] = tasks[u] /\ continuations'[u] = continuations[u] /\ SlotOwn(u)
          BY <1>0, <1>2, <1>5, <3>2 DEF Own, SlotsOwn
        <4> QED
          BY <1>8, <1>13, <3>2, <4>1, SlotKeeps
      <3> QED
        BY <3>1, <3>2
    <2> QED
      BY <2>1 DEF SlotsOwn
  <1>16. ClientsOwn'
    <2>1. ASSUME NEW d \in Clients, client'[d].pc = "claim"
          PROVE  /\ client'[d].slot[1] = d
                 /\ method'[client'[d].command] # None
                 /\ Preparing(d)' =>
                      /\ continuations'[client'[d].slot].user = client'[d].command
                      /\ \A t \in ClaimedIds : table[t].slot = client'[d].slot =>
                            table[t].stamp = client'[d].stamp
                            /\ table[t].batch <= Len(client'[d].ids)
                      /\ response # None /\ response.slot = client'[d].slot =>
                            response.batch <= Len(client'[d].ids)
      <3>1. CASE d = c
        <4>1. /\ client'[d].slot = s /\ client'[d].command = j
              /\ continuations'[s].user = j
          BY <1>4, <1>5, <3>1
        <4> QED
          BY <1>1, <1>3, <1>8, <1>9, <3>1, <4>1
      <3>2. CASE d # c
        <4>1. /\ client'[d] = client[d] /\ client[d].pc = "claim"
              /\ client[d].slot[1] = d /\ client[d].slot # s
              /\ client[d].slot \in Slots /\ client[d].command \in Commands
          BY <1>0, <1>1, <1>4, <2>1, <3>2, ClientType DEF Own, ClientsOwn
        <4>2. continuations'[client[d].slot] = continuations[client[d].slot]
          BY <1>5, <4>1
        <4>3. method'[client[d].command] # None
          BY <1>0, <1>8, <4>1 DEF Own, ClientsOwn
        <4>4. Preparing(d)' => Preparing(d)
          BY <1>11, <3>2
        <4> QED
          BY <1>0, <4>1, <4>2, <4>3, <4>4 DEF Own, ClientsOwn
      <3> QED
        BY <3>1, <3>2
    <2> QED
      BY <1>2, <1>7, <2>1 DEF ClientsOwn
  <1>17. EntriesOwn'
    BY <1>0, <1>2, <1>7, <1>10 DEF Own, EntriesOwn
  <1>18. ResponseOwns' /\ ScanOwns'
    <2>1. ResponseOwns'
      BY <1>0, <1>2, <1>5, <1>9, ResponseType DEF Own, ResponseOwns
    <2> QED
      BY <1>0, <1>2, <1>7, <2>1 DEF Own, ScanOwns
  <1>19. NoneTimesOut
    BY <1>0, <1>2, <1>10 DEF NoneTimesOut, TypeOK
  <1>20. \A u \in Slots : Awaited(u)' = IF client'[c].slot = u THEN 1..m.batches ELSE Awaited(u)
    BY <1>4, <1>13, <1>14
  <1> QED
    BY <1>6, <1>15, <1>16, <1>17, <1>18, <1>20, <1>19 DEF IInv, Own

\* The batch that the client claims passes from the client to the table.
LEMMA ClaimInv ==
    ASSUME IInv, NEW c \in Clients, ClaimTransferId(c)
    PROVE  IInv' /\ \A u \in Slots : Awaited(u)' = Awaited(u)
  <1> DEFINE n == Len(client[c].ids)
  <1>0. TypeOK /\ Own
    BY DEF IInv
  <1>1. client[c].pc = "claim" /\ n < Batches(c) /\ Preparing(c)
    BY DEF ClaimTransferId, Preparing
  <1>2. /\ client[c].command \in Commands /\ client[c].slot \in Slots
        /\ client[c].reply \in Slots /\ client[c].stamp \in Nat
        /\ client[c].ids \in Seq(TransferIds)
        /\ client[c] = [pc |-> "claim", command |-> client[c].command,
                        slot |-> client[c].slot, reply |-> client[c].reply,
                        stamp |-> client[c].stamp, ids |-> client[c].ids]
    BY <1>0, <1>1, ClientType
  <1>3. PICK s \in Slots : client[c].slot = s
    BY <1>2
  <1>4. PICK t \in TransferIds : t = LowestFree /\ table[t] = None
    BY FreeIdType DEF ClaimTransferId
  <1>5. n \in Nat /\ Batches(c) \in Nat /\ n + 1 \in Nat \ {0}
    BY <1>0, <1>1, BatchesType DEF Own, ClientsOwn
  <1>6. PICK e \in Entry : e = [slot |-> s, stamp |-> client[c].stamp,
                                command |-> client[c].command, batch |-> n + 1]
    BY <1>2, <1>3, <1>5 DEF Entry
  <1>7. /\ table' = [table EXCEPT ![t] = e] /\ e # None
        /\ client' = [client EXCEPT ![c].ids = Append(@, t)]
        /\ expiring = {} /\ expiring' = {}
        /\ UNCHANGED <<continuations, replies, response, tasks, bus, method, answers, settled>>
    BY <1>3, <1>4, <1>6, NoneAssumption DEF ClaimTransferId
  <1>8. /\ table' \in [TransferIds -> Entry \cup {None}]
        /\ table'[t] = e /\ \A u \in TransferIds : u # t => table'[u] = table[u]
        /\ t \notin ClaimedIds /\ ClaimedIds' = ClaimedIds \cup {t}
    <2>1. table \in [TransferIds -> Entry \cup {None}]
      BY <1>0 DEF TypeOK
    <2>2. /\ table' \in [TransferIds -> Entry \cup {None}]
          /\ table'[t] = e /\ \A u \in TransferIds : u # t => table'[u] = table[u]
      BY <1>7, <2>1
    <2> QED
      BY <1>4, <1>7, <2>2 DEF ClaimedIds, FreeIds
  <1>9. \A u \in ClaimedIds : u # t /\ table'[u] = table[u] /\ u \in ClaimedIds'
    BY <1>0, <1>8, TableType
  <1>10. /\ client'[c] = [client[c] EXCEPT !.ids = Append(client[c].ids, t)]
         /\ \A d \in Clients : d # c => client'[d] = client[d]
         /\ Append(client[c].ids, t) \in Seq(TransferIds) /\ Len(Append(client[c].ids, t)) = n + 1
         /\ client' \in [Clients -> [pc : {"idle"}, command : Commands \cup {None}]
              \cup [pc : {"claim"}, command : Commands, slot : Slots, reply : Slots,
                    stamp : Nat, ids : Seq(TransferIds)]]
    <2>1. client \in [Clients -> [pc : {"idle"}, command : Commands \cup {None}]
              \cup [pc : {"claim"}, command : Commands, slot : Slots, reply : Slots,
                    stamp : Nat, ids : Seq(TransferIds)]]
      BY <1>0 DEF TypeOK
    <2>2. Append(client[c].ids, t) \in Seq(TransferIds) /\ Len(Append(client[c].ids, t)) = n + 1
      BY <1>2, AppendProperties
    <2>3. client' = [client EXCEPT ![c] = [client[c] EXCEPT !.ids = Append(client[c].ids, t)]]
      BY <1>7
    <2>4. client[c] \in [pc : {"claim"}, command : Commands, slot : Slots, reply : Slots,
                         stamp : Nat, ids : Seq(TransferIds)]
      BY <1>1, <2>1
    <2>5. [client[c] EXCEPT !.ids = Append(client[c].ids, t)]
             \in [pc : {"claim"}, command : Commands, slot : Slots, reply : Slots,
                  stamp : Nat, ids : Seq(TransferIds)]
      BY <2>2, <2>4
    <2> QED
      BY <2>1, <2>2, <2>3, <2>5
  <1>11. TypeOK'
    BY <1>0, <1>7, <1>8, <1>10 DEF TypeOK
  <1>12. /\ client'[c].slot = s /\ client'[c].command = client[c].command
         /\ client'[c].pc = "claim" /\ Len(client'[c].ids) = n + 1 /\ Batches(c)' = Batches(c)
         /\ client'[c].stamp = client[c].stamp
    <2>1. /\ client'[c].slot = s /\ client'[c].command = client[c].command
          /\ client'[c].pc = "claim" /\ Len(client'[c].ids) = n + 1
          /\ client'[c].stamp = client[c].stamp
      BY <1>2, <1>3, <1>10
    <2> QED
      BY <1>7, <2>1 DEF Batches
  <1> HIDE DEF n
  <1>13. \A d \in Clients : d # c =>
            /\ Preparing(d)' <=> Preparing(d)
            /\ client'[d] = client[d] /\ Batches(d)' = Batches(d)
            /\ Preparing(d) => client[d].slot # s
    <2>1. ASSUME NEW d \in Clients, d # c
          PROVE  client'[d] = client[d] /\ Batches(d)' = Batches(d)
      BY <1>7, <1>10, <2>1 DEF Batches
    <2>2. client[c].slot[1] = c /\ \A d \in Clients : Preparing(d) => client[d].slot[1] = d
      BY <1>0, <1>1 DEF Own, ClientsOwn, Preparing
    <2> QED
      BY <1>3, <2>1, <2>2 DEF Preparing
  <1>14. Preparing(c)' <=> n + 1 < Batches(c)
    BY <1>12 DEF Preparing
  \* Nothing else is awaited.
  <1>15. ASSUME NEW u \in Slots
         PROVE  Awaited(u)' = Awaited(u)
    <2>1. CASE u # s
      <3>1. \A b : Unclaimed(u, b)' <=> Unclaimed(u, b)
        BY <1>3, <1>12, <1>13, <2>1 DEF Unclaimed
      <3>2. \A b : Asked(u, b)' <=> Asked(u, b)
        BY <1>6, <1>7, <1>8, <1>9, <2>1 DEF Asked, TimedOut
      <3>3. \A b : Answered(u, b)' <=> Answered(u, b)
        BY <1>7 DEF Answered
      <3> QED
        BY <3>1, <3>2, <3>3 DEF Awaited
    <2>2. CASE u = s
      <3>1. \A b : Unclaimed(s, b) <=> n < b /\ b <= Batches(c)
        BY <1>1, <1>3, <1>13 DEF Unclaimed, n
      <3>2. \A b : Unclaimed(s, b)' <=> n + 1 < Batches(c) /\ n + 1 < b /\ b <= Batches(c)
        BY <1>12, <1>13, <1>14 DEF Unclaimed
      <3>3. \A b : Asked(s, b)' <=> Asked(s, b) \/ b = n + 1
        BY <1>6, <1>7, <1>8, <1>9 DEF Asked, TimedOut
      <3>4. \A b : Answered(s, b)' <=> Answered(s, b)
        BY <1>7 DEF Answered
      <3>5. n < Batches(c)
        BY <1>1 DEF n
      <3>6. \A b \in Nat \ {0} : /\ n + 1 < b => n + 1 < Batches(c) \/ ~(b <= Batches(c))
                                 /\ n < b <=> b = n + 1 \/ n + 1 < b
        BY <1>5, <3>5
      <3>7. n + 1 <= Batches(c)
        BY <1>5, <3>5
      <3>8. \A b \in Nat \ {0} : Unclaimed(s, b) \/ Asked(s, b) <=> Unclaimed(s, b)' \/ Asked(s, b)'
        BY <3>1, <3>2, <3>3, <3>6, <3>7
      <3>9. Awaited(s)' = Awaited(s)
        BY <3>4, <3>8 DEF Awaited
      <3> QED
        BY <2>2, <3>9
    <2> QED
      BY <2>1, <2>2
  <1>16. SlotsOwn'
    <2>1. ASSUME NEW u \in Slots PROVE SlotOwn(u)'
      <3>1. SlotOwn(u) /\ UNCHANGED <<continuations, tasks, method>>
        BY <1>0, <1>7 DEF Own, SlotsOwn
      <3> QED
        BY <1>15, <3>1, SlotKeeps
    <2> QED
      BY <2>1 DEF SlotsOwn
  <1>17. /\ continuations[s].user = client[c].command
         /\ \A u \in ClaimedIds : table[u].slot = s =>
               table[u].stamp = client[c].stamp /\ table[u].batch \in Nat /\ table[u].batch <= n
         /\ response # None /\ response.slot = s => response.batch \in Nat /\ response.batch <= n
    BY <1>0, <1>1, <1>3, TableType, AwaitedByResponse DEF Own, ClientsOwn, n
  <1>18. ClientsOwn'
    <2>1. ASSUME NEW d \in Clients, client'[d].pc = "claim"
          PROVE  /\ client'[d].slot[1] = d /\ method[client'[d].command] # None
                 /\ Preparing(d)' =>
                      /\ continuations[client'[d].slot].user = client'[d].command
                      /\ \A u \in ClaimedIds' : table'[u].slot = client'[d].slot =>
                            table'[u].stamp = client'[d].stamp
                            /\ table'[u].batch <= Len(client'[d].ids)
                      /\ response # None /\ response.slot = client'[d].slot =>
                            response.batch <= Len(client'[d].ids)
      <3>1. CASE d = c
        <4>1. s[1] = c /\ method[client[c].command] # None
          BY <1>0, <1>1, <1>3 DEF Own, ClientsOwn
        <4>2. \A u \in ClaimedIds' : table'[u].slot = s =>
                 table'[u].stamp = client[c].stamp /\ table'[u].batch <= n + 1
          <5>1. \A u \in ClaimedIds : table[u].slot = s => table[u].batch <= n + 1
            BY <1>5, <1>17
          <5> QED
            BY <1>5, <1>6, <1>8, <1>9, <1>17, <5>1
        <4>3. response # None /\ response.slot = s => response.batch <= n + 1
          BY <1>5, <1>17
        <4> QED
          BY <1>12, <1>17, <3>1, <4>1, <4>2, <4>3
      <3>2. CASE d # c
        <4>1. client'[d] = client[d] /\ client[d].pc = "claim"
          BY <1>13, <2>1, <3>2
        <4>2. Preparing(d)' => Preparing(d) /\ client[d].slot # s
          BY <1>13, <3>2
        <4> QED
          BY <1>0, <1>6, <1>8, <1>9, <4>1, <4>2 DEF Own, ClientsOwn
      <3> QED
        BY <3>1, <3>2
    <2> QED
      BY <1>7, <2>1 DEF ClientsOwn
  <1>19. EntriesOwn'
    <2>1. ASSUME NEW u \in ClaimedIds'
          PROVE  /\ continuations[table'[u].slot].user = table'[u].command
                 /\ \A v \in ClaimedIds' : table'[v].slot = table'[u].slot =>
                       table'[v].stamp = table'[u].stamp
                       /\ (table'[v].batch = table'[u].batch => v = u)
                 /\ response # None /\ response.slot = table'[u].slot =>
                       response.batch # table'[u].batch
      <3>1. \A v \in ClaimedIds : table[v].slot = s => table[v].batch # n + 1
        BY <1>5, <1>17
      <3>2. response # None /\ response.slot = s => response.batch # n + 1
        BY <1>5, <1>17
      <3>3. CASE u = t
        BY <1>6, <1>8, <1>9, <1>17, <3>1, <3>2, <3>3
      <3>4. CASE u # t
        BY <1>0, <1>6, <1>7, <1>8, <1>9, <1>17, <3>1, <3>4 DEF Own, EntriesOwn, TimedOut
      <3> QED
        BY <3>3, <3>4
    <2> QED
      BY <1>7, <2>1 DEF EntriesOwn
  <1>20. ResponseOwns' /\ ScanOwns'
    BY <1>0, <1>7 DEF Own, ResponseOwns, ScanOwns
  <1> QED
    BY <1>11, <1>15, <1>16, <1>18, <1>19, <1>20 DEF IInv, Own

\* A client that has claimed nothing yet gives its slot back.
LEMMA BackOffInv ==
    ASSUME IInv, NEW c \in Clients, BackOff(c), client[c].ids = <<>>
    PROVE  /\ IInv'
           /\ \A u \in Slots : client[c].slot # u => Awaited(u)' = Awaited(u)
  <1>0. TypeOK /\ Own
    BY DEF IInv
  <1>1. client[c].pc = "claim" /\ Preparing(c) /\ Len(client[c].ids) = 0
    BY DEF BackOff, Preparing
  <1>2. PICK s \in Slots : client[c].slot = s /\ s[1] = c
    BY <1>0, <1>1, ClientType DEF Own, ClientsOwn
  <1>3. /\ continuations' = [continuations EXCEPT ![s] = ResetContinuation]
        /\ replies' = [replies EXCEPT ![client[c].reply] = ReleasedReply(@)]
        /\ client' = [client EXCEPT ![c] = [pc |-> "idle", command |-> @.command]]
        /\ expiring = {} /\ expiring' = {}
        /\ UNCHANGED <<response, tasks, bus, method, answers, settled>>
    BY <1>2 DEF BackOff
  <1>4. table' = table
    <2>1. {client[c].ids[i] : i \in Unwound(Len(client[c].ids))} = {}
      BY <1>1 DEF Unwound
    <2>2. table' = [t \in TransferIds |-> table[t]]
      BY <2>1 DEF BackOff
    <2> QED
      BY <1>0, <2>2 DEF TypeOK
  <1>5. ClaimedIds' = ClaimedIds
    BY <1>4 DEF ClaimedIds, FreeIds
  <1>6. /\ continuations' \in [Slots -> [claimed : BOOLEAN, countdown : Int,
              task : Slots \cup {None}, user : Commands \cup {None}]]
        /\ ~continuations'[s].claimed
        /\ \A u \in Slots : u # s => continuations'[u] = continuations[u]
    BY <1>0, <1>3 DEF TypeOK, ResetContinuation
  <1>7. /\ client' \in [Clients -> [pc : {"idle"}, command : Commands \cup {None}]
              \cup [pc : {"claim"}, command : Commands, slot : Slots, reply : Slots,
                    stamp : Nat, ids : Seq(TransferIds)]]
        /\ client'[c].pc = "idle"
        /\ \A d \in Clients : d # c => client'[d] = client[d]
    <2>1. client \in [Clients -> [pc : {"idle"}, command : Commands \cup {None}]
              \cup [pc : {"claim"}, command : Commands, slot : Slots, reply : Slots,
                    stamp : Nat, ids : Seq(TransferIds)]]
      BY <1>0 DEF TypeOK
    <2>2. client[c].command \in Commands
      BY <1>0, <1>1, ClientType
    <2> QED
      BY <1>3, <2>1, <2>2
  <1>8. TypeOK'
    <2>1. replies' \in [Slots -> Commands \cup {None}]
      BY <1>0, <1>3 DEF TypeOK, ReleasedReply
    <2> QED
      BY <1>0, <1>3, <1>4, <1>6, <1>7, <2>1 DEF TypeOK
  \* All the batches were awaited, and unclaimed.
  <1>9. /\ tasks[s] = 0
        /\ \A t \in ClaimedIds : table[t].slot # s
        /\ response # None => response.slot # s
    <2>1. Awaited(s) # {}
      BY <1>1, <1>2, AwaitedByClient
    <2>2. \A t \in ClaimedIds : table[t].slot = s => table[t].batch \in Nat \ {0} /\ table[t].batch <= 0
      BY <1>0, <1>1, <1>2, TableType DEF Own, ClientsOwn
    <2>3. response # None /\ response.slot = s => response.batch \in Nat \ {0} /\ response.batch <= 0
      BY <1>0, <1>1, <1>2, AwaitedByResponse DEF Own, ClientsOwn
    <2> QED
      BY <2>1, <2>2, <2>3, Waiting
  <1>10. /\ ~Preparing(c)'
         /\ \A d \in Clients : d # c =>
               /\ Preparing(d)' <=> Preparing(d)
               /\ client'[d] = client[d] /\ Batches(d)' = Batches(d)
               /\ Preparing(d) => client[d].slot # s
    <2>1. ASSUME NEW d \in Clients, d # c
          PROVE  client'[d] = client[d] /\ Batches(d)' = Batches(d)
      BY <1>3, <1>7, <2>1 DEF Batches
    <2>2. \A d \in Clients : Preparing(d) => client[d].slot[1] = d
      BY <1>0 DEF Own, ClientsOwn, Preparing
    <2> QED
      BY <1>2, <1>7, <2>1, <2>2 DEF Preparing
  <1>11. Awaited(s)' = {}
    <2>1. \A b : ~Unclaimed(s, b)'
      BY <1>10 DEF Unclaimed
    <2>2. \A b : ~Asked(s, b)' /\ ~Answered(s, b)'
      BY <1>3, <1>4, <1>5, <1>9 DEF Asked, Answered, TimedOut
    <2> QED
      BY <2>1, <2>2 DEF Awaited
  <1>12. ASSUME NEW u \in Slots, u # s
         PROVE  Awaited(u)' = Awaited(u)
    <2>1. \A b : Unclaimed(u, b)' <=> Unclaimed(u, b)
      BY <1>2, <1>10, <1>12 DEF Unclaimed
    <2>2. \A b : (Asked(u, b)' <=> Asked(u, b)) /\ (Answered(u, b)' <=> Answered(u, b))
      BY <1>3, <1>4, <1>5 DEF Asked, Answered, TimedOut
    <2> QED
      BY <2>1, <2>2 DEF Awaited
  <1>13. SlotsOwn'
    <2>1. ASSUME NEW u \in Slots PROVE SlotOwn(u)'
      <3>1. CASE u = s
        <4>1. ~(tasks'[s] > 0)
          BY <1>3, <1>9
        <4> QED
          BY <1>6, <1>11, <3>1, <4>1 DEF SlotOwn
      <3>2. CASE u # s
        <4>1. SlotOwn(u) /\ continuations'[u] = continuations[u] /\ UNCHANGED <<tasks, method>>
          BY <1>0, <1>3, <1>6, <3>2 DEF Own, SlotsOwn
        <4> QED
          BY <1>12, <3>2, <4>1, SlotKeeps
      <3> QED
        BY <3>1, <3>2
    <2> QED
      BY <2>1 DEF SlotsOwn
  <1>14. ClientsOwn'
    <2>1. ASSUME NEW d \in Clients, client'[d].pc = "claim"
          PROVE  /\ client[d].pc = "claim" /\ client'[d] = client[d] /\ (Preparing(d)' => Preparing(d))
                 /\ continuations'[client[d].slot] = continuations[client[d].slot]
      <3>1. d # c /\ client'[d] = client[d] /\ client[d].slot \in Slots /\ client[d].slot[1] = d
        BY <1>0, <1>7, <2>1, ClientType DEF Own, ClientsOwn
      <3>2. client[d].slot # s
        BY <1>2, <3>1
      <3> QED
        BY <1>6, <1>10, <2>1, <3>1, <3>2
    <2> QED
      BY <1>0, <1>3, <1>4, <1>5, <2>1 DEF Own, ClientsOwn
  <1>15. EntriesOwn'
    <2>1. \A t \in ClaimedIds : continuations'[table[t].slot] = continuations[table[t].slot]
      BY <1>0, <1>6, <1>9, TableType
    <2> QED
      BY <1>0, <1>3, <1>4, <1>5, <2>1 DEF Own, EntriesOwn, TimedOut
  <1>16. ResponseOwns' /\ ScanOwns'
    <2>1. response # None => continuations'[response.slot] = continuations[response.slot]
      BY <1>0, <1>6, <1>9, ResponseType
    <2> QED
      BY <1>0, <1>3, <2>1 DEF Own, ResponseOwns, ScanOwns
  <1> QED
    BY <1>2, <1>8, <1>12, <1>13, <1>14, <1>15, <1>16 DEF IInv, Own

\* All the batches of the command are claimed: the client has nothing to do with the slot.
LEMMA SendInv ==
    ASSUME IInv, NEW c \in Clients, SendRequests(c)
    PROVE  IInv' /\ NoneTimesOut /\ \A u \in Slots : Awaited(u)' = Awaited(u)
  <1>0. TypeOK /\ Own
    BY DEF IInv
  <1>1. /\ client[c].pc = "claim" /\ ~Preparing(c) /\ client[c].command \in Commands
        /\ \A b \in SentBatches(c) : client[c].ids[b] \in TransferIds /\ b \in Nat \ {0}
    <2>1. client[c].pc = "claim" /\ Len(client[c].ids) = Batches(c)
      BY DEF SendRequests
    <2>2. client[c].ids \in Seq(TransferIds) /\ client[c].command \in Commands
      BY <1>0, <2>1, ClientType
    <2>3. Batches(c) \in Nat
      BY <1>0, <2>1, BatchesType DEF Own, ClientsOwn
    <2>4. SentBatches(c) = 1..Len(client[c].ids)
      BY <2>1 DEF SentBatches
    <2> QED
      BY <2>1, <2>2, <2>3, <2>4 DEF Preparing
  <1>2. /\ bus' = bus \cup {[id |-> client[c].ids[b], command |-> client[c].command,
                            batch |-> b] : b \in SentBatches(c)}
        /\ client' = [client EXCEPT ![c] = Idle]
        /\ UNCHANGED <<table, continuations, replies, response, expiring, tasks, method, answers,
                       settled>>
    BY DEF SendRequests
  <1>3. /\ client' \in [Clients -> [pc : {"idle"}, command : Commands \cup {None}]
              \cup [pc : {"claim"}, command : Commands, slot : Slots, reply : Slots,
                    stamp : Nat, ids : Seq(TransferIds)]]
        /\ client'[c].pc = "idle"
        /\ \A d \in Clients : d # c => client'[d] = client[d]
    <2>1. client \in [Clients -> [pc : {"idle"}, command : Commands \cup {None}]
              \cup [pc : {"claim"}, command : Commands, slot : Slots, reply : Slots,
                    stamp : Nat, ids : Seq(TransferIds)]]
      BY <1>0 DEF TypeOK
    <2> QED
      BY <1>2, <2>1 DEF Idle
  <1>4. bus' \subseteq [id : TransferIds, command : Commands, batch : Nat \ {0}]
    BY <1>0, <1>1, <1>2 DEF TypeOK
  <1>5. ClaimedIds' = ClaimedIds /\ \A t : TimedOut(t)' <=> TimedOut(t)
    BY <1>2 DEF ClaimedIds, FreeIds, TimedOut
  <1>6. TypeOK'
    BY <1>0, <1>2, <1>3, <1>4, <1>5 DEF TypeOK
  <1>7. /\ \A d \in Clients : client'[d].pc = "claim" => client[d].pc = "claim" /\ client'[d] = client[d]
        /\ \A d \in Clients : Preparing(d) => client'[d] = client[d]
        /\ \A d \in Clients : Preparing(d)' <=> Preparing(d)
        /\ \A d \in Clients : Preparing(d) => Batches(d)' = Batches(d)
    <2>1. \A d \in Clients : client'[d].pc = "claim" => client'[d] = client[d]
      BY <1>3
    <2>2. \A d \in Clients : Preparing(d) => client'[d] = client[d] /\ Batches(d)' = Batches(d)
      BY <1>1, <1>2, <1>3 DEF Batches
    <2>3. \A d \in Clients : Preparing(d)' => client'[d] = client[d] /\ Batches(d)' = Batches(d)
      BY <1>2, <1>3 DEF Batches, Preparing
    <2> QED
      BY <2>1, <2>2, <2>3 DEF Preparing
  <1>8. ASSUME NEW u \in Slots PROVE Awaited(u)' = Awaited(u)
    <2>1. \A b : Unclaimed(u, b)' <=> Unclaimed(u, b)
      BY <1>7 DEF Unclaimed
    <2>2. \A b : (Asked(u, b)' <=> Asked(u, b)) /\ (Answered(u, b)' <=> Answered(u, b))
      BY <1>2, <1>5 DEF Asked, Answered
    <2> QED
      BY <2>1, <2>2 DEF Awaited
  <1>9. SlotsOwn'
    <2>1. ASSUME NEW u \in Slots PROVE SlotOwn(u)'
      <3>1. SlotOwn(u) /\ UNCHANGED <<continuations, tasks, method>>
        BY <1>0, <1>2 DEF Own, SlotsOwn
      <3> QED
        BY <1>8, <3>1, SlotKeeps
    <2> QED
      BY <2>1 DEF SlotsOwn
  <1>10. ClientsOwn'
    BY <1>0, <1>2, <1>5, <1>7 DEF Own, ClientsOwn
  <1>11. EntriesOwn' /\ ResponseOwns' /\ ScanOwns' /\ NoneTimesOut
    BY <1>0, <1>2, <1>5 DEF Own, EntriesOwn, ResponseOwns, ScanOwns, NoneTimesOut
  <1> QED
    BY <1>6, <1>8, <1>9, <1>10, <1>11 DEF IInv, Own

-----------------------------------------------------------------------------
(* The inbox thread. *)

\* The batch that is answered passes from the table to the response.
LEMMA ResponseInv ==
    ASSUME IInv, NEW a \in bus, HandleResponse(a)
    PROVE  IInv' /\ \A u \in Slots : Awaited(u)' = Awaited(u)
  <1>0. TypeOK /\ Own
    BY DEF IInv
  <1>1. a.id \in TransferIds /\ a.command \in Commands /\ a.batch \in Nat \ {0}
    BY <1>0 DEF TypeOK
  <1>2. /\ response = None /\ bus' = bus \ {a}
        /\ settled' = settled \cup {<<a.command, a.batch>>}
        /\ expiring = {} /\ expiring' = {}
        /\ UNCHANGED <<continuations, replies, client, tasks, method, answers>>
    BY DEF HandleResponse
  <1>3. bus' \subseteq [id : TransferIds, command : Commands, batch : Nat \ {0}]
        /\ settled' \subseteq Commands \X (Nat \ {0})
    BY <1>0, <1>1, <1>2 DEF TypeOK
  <1>4. \A d \in Clients : (Preparing(d)' <=> Preparing(d)) /\ Batches(d)' = Batches(d)
    BY <1>2 DEF Preparing, Batches
  <1>5. CASE table[a.id] = None
    <2>1. UNCHANGED <<table, response>>
      BY <1>5 DEF HandleResponse
    <2>2. TypeOK'
      BY <1>0, <1>2, <1>3, <2>1 DEF TypeOK
    <2>3. ClaimedIds' = ClaimedIds
      BY <2>1 DEF ClaimedIds, FreeIds
    <2>4. ASSUME NEW s \in Slots PROVE SlotOwn(s)' /\ Awaited(s)' = Awaited(s)
      <3>1. \A b : /\ Unclaimed(s, b)' <=> Unclaimed(s, b)
                   /\ Asked(s, b)' <=> Asked(s, b)
                   /\ Answered(s, b)' <=> Answered(s, b)
        BY <1>2, <1>4, <2>1, <2>3 DEF Unclaimed, Asked, Answered, TimedOut
      <3>2. Awaited(s)' = Awaited(s)
        BY <3>1 DEF Awaited
      <3> QED
        BY <1>0, <1>2, <3>2, SlotKeeps DEF Own, SlotsOwn
    <2>5. SlotsOwn' /\ ClientsOwn' /\ EntriesOwn' /\ ResponseOwns' /\ ScanOwns'
      BY <1>0, <1>2, <1>4, <2>1, <2>3, <2>4
         DEF Own, SlotsOwn, ClientsOwn, EntriesOwn, ResponseOwns, ScanOwns, TimedOut
    <2> QED
      BY <2>2, <2>4, <2>5 DEF IInv, Own
  <1>6. CASE table[a.id] # None
    <2>1. PICK t \in TransferIds : t = a.id /\ t \in ClaimedIds
      BY <1>1, <1>6 DEF ClaimedIds, FreeIds
    <2>2. PICK e \in Entry : e = table[t] /\ e # None /\ e.slot \in Slots /\ e.batch \in Nat \ {0}
      BY <1>0, <2>1, TableType
    <2>3. response' = e /\ table' = [table EXCEPT ![t] = None]
      BY <1>6, <2>1, <2>2 DEF HandleResponse
    <2>4. /\ table' \in [TransferIds -> Entry \cup {None}]
          /\ ClaimedIds' = ClaimedIds \ {t}
          /\ \A u \in ClaimedIds' : u \in ClaimedIds /\ u # t /\ table'[u] = table[u]
      <3>1. table \in [TransferIds -> Entry \cup {None}]
        BY <1>0 DEF TypeOK
      <3>2. /\ table' \in [TransferIds -> Entry \cup {None}] /\ table'[t] = None
            /\ \A u \in TransferIds : u # t => table'[u] = table[u]
        BY <2>3, <3>1
      <3>3. ClaimedIds' = ClaimedIds \ {t}
        BY <3>2 DEF ClaimedIds, FreeIds
      <3> QED
        BY <3>2, <3>3 DEF ClaimedIds
    <2>5. TypeOK'
      BY <1>0, <1>2, <1>3, <2>3, <2>4 DEF TypeOK
    <2>6. ASSUME NEW s \in Slots PROVE SlotOwn(s)' /\ Awaited(s)' = Awaited(s)
      <3>1. \A b : Unclaimed(s, b)' <=> Unclaimed(s, b)
        BY <1>2, <1>4 DEF Unclaimed
      <3>2. \A b : Asked(s, b) <=> Asked(s, b)' \/ (e.slot = s /\ e.batch = b)
        BY <1>2, <2>1, <2>2, <2>4 DEF Asked, TimedOut
      <3>3. \A b : ~Answered(s, b) /\ (Answered(s, b)' <=> e.slot = s /\ e.batch = b)
        BY <1>2, <2>2, <2>3 DEF Answered
      <3>4. Awaited(s)' = Awaited(s)
        BY <3>1, <3>2, <3>3 DEF Awaited
      <3> QED
        BY <1>0, <1>2, <3>4, SlotKeeps DEF Own, SlotsOwn
    <2>7. ClientsOwn'
      <3>1. ASSUME NEW d \in Clients, Preparing(d)
            PROVE  /\ \A u \in ClaimedIds' : table'[u].slot = client[d].slot =>
                         table'[u].stamp = client[d].stamp /\ table'[u].batch <= Len(client[d].ids)
                   /\ e.slot = client[d].slot => e.batch <= Len(client[d].ids)
        BY <1>0, <2>1, <2>2, <2>4, <3>1 DEF Own, ClientsOwn, Preparing
      <3> QED
        BY <1>0, <1>2, <1>4, <2>3, <3>1 DEF Own, ClientsOwn
    <2>8. EntriesOwn'
      <3>1. ASSUME NEW u \in ClaimedIds'
            PROVE  /\ continuations[table'[u].slot].user = table'[u].command
                   /\ \A v \in ClaimedIds' : table'[v].slot = table'[u].slot =>
                         table'[v].stamp = table'[u].stamp
                         /\ (table'[v].batch = table'[u].batch => v = u)
                   /\ e.slot = table'[u].slot => e.batch # table'[u].batch
        BY <1>0, <1>2, <2>1, <2>2, <2>4 DEF Own, EntriesOwn, TimedOut
      <3> QED
        BY <1>2, <2>3, <3>1 DEF EntriesOwn
    <2>9. ResponseOwns' /\ ScanOwns'
      BY <1>0, <1>2, <2>1, <2>2, <2>3 DEF Own, EntriesOwn, ResponseOwns, ScanOwns, TimedOut
    <2>10. SlotsOwn'
      BY <2>6 DEF SlotsOwn
    <2> QED
      BY <2>5, <2>6, <2>7, <2>8, <2>9, <2>10 DEF IInv, Own
  <1> QED
    BY <1>5, <1>6

\* The answered batch is no longer awaited; the last one passes the slot to the pool's task.
LEMMA NextContinuationInv ==
    ASSUME IInv, NextContinuation
    PROVE  /\ IInv' /\ NoneTimesOut
           /\ \A u \in Slots : Awaited(u)' = IF response.slot = u THEN Awaited(u) \ {response.batch}
                                             ELSE Awaited(u)
  <1>0. TypeOK /\ Own /\ response # None
    BY DEF IInv, NextContinuation
  <1>1. PICK s \in Slots : response.slot = s
    BY <1>0, ResponseType
  <1>2. PICK k \in Nat \ {0} : response.batch = k /\ k \in Awaited(s)
    BY <1>0, <1>1, AwaitedByResponse
  <1>3. PICK n \in Nat \ {0} : /\ n = Cardinality(Awaited(s)) /\ continuations[s].countdown = n
                               /\ continuations[s].claimed /\ tasks[s] = 0
                               /\ IsFiniteSet(Awaited(s))
    BY <1>2, Waiting
  <1>4. /\ response' = None
        /\ continuations' = [continuations EXCEPT ![s].countdown = n - 1]
        /\ tasks' = [tasks EXCEPT ![s] = IF n - 1 = 0 THEN 1 ELSE 0]
        /\ UNCHANGED <<table, replies, client, expiring, bus, method, answers, settled>>
    <2>1. /\ response' = None
          /\ continuations' = [continuations EXCEPT ![s].countdown = n - 1]
          /\ tasks' = [tasks EXCEPT ![s] = IF n - 1 = 0 THEN tasks[s] + 1 ELSE tasks[s]]
          /\ UNCHANGED <<table, replies, client, expiring, bus, method, answers, settled>>
      BY <1>1, <1>3 DEF NextContinuation, Ultimate
    <2>2. (IF n - 1 = 0 THEN tasks[s] + 1 ELSE tasks[s]) = IF n - 1 = 0 THEN 1 ELSE 0
      BY <1>3
    <2> QED
      BY <2>1, <2>2, Zenon
  <1>5. /\ continuations' \in [Slots -> [claimed : BOOLEAN, countdown : Int,
              task : Slots \cup {None}, user : Commands \cup {None}]]
        /\ continuations'[s].claimed /\ continuations'[s].countdown = n - 1
        /\ \A u \in Slots : continuations'[u].user = continuations[u].user
        /\ \A u \in Slots : u # s => continuations'[u] = continuations[u]
    <2>1. continuations \in [Slots -> [claimed : BOOLEAN, countdown : Int,
              task : Slots \cup {None}, user : Commands \cup {None}]]
      BY <1>0 DEF TypeOK
    <2>2. n - 1 \in Int
      OBVIOUS
    <2> QED
      BY <1>3, <1>4, <2>1, <2>2
  <1>6. /\ tasks' \in [Slots -> 0..1]
        /\ n = 1 => tasks'[s] = 1
        /\ n # 1 => tasks'[s] = 0
        /\ \A u \in Slots : u # s => tasks'[u] = tasks[u]
    <2>1. tasks \in [Slots -> 0..1]
      BY <1>0 DEF TypeOK
    <2> QED
      BY <1>4, <2>1
  <1>7. ClaimedIds' = ClaimedIds
    BY <1>4 DEF ClaimedIds, FreeIds
  <1>8. TypeOK'
    BY <1>0, <1>4, <1>5, <1>6, <1>7 DEF TypeOK
  \* A slot that waits for another answer, too, is not counted down to zero.
  <1>9. ASSUME NEW t \in ClaimedIds PROVE TimedOut(t)' <=> TimedOut(t)
    <2>1. table[t].slot \in Slots
      BY <1>0, TableType
    <2>2. CASE table[t].slot = s
      <3>1. ~TimedOut(t)
        BY <1>3, <2>2 DEF TimedOut
      <3>2. PICK k2 \in Awaited(s) : k2 # k
        BY <1>0, <1>1, <1>2, <2>2, <3>1, AwaitedByTable DEF Own, EntriesOwn
      <3>3. n # 1
        <4>1. /\ Cardinality(Awaited(s) \ {k}) = n - 1 /\ IsFiniteSet(Awaited(s) \ {k})
              /\ Awaited(s) \ {k} # {}
          BY <1>2, <1>3, <3>2, FS_RemoveElement
        <4> QED
          BY <4>1, FS_EmptySet
      <3>4. continuations'[s].countdown # 0
        BY <1>5, <3>3
      <3> QED
        BY <1>4, <2>2, <3>1, <3>4 DEF TimedOut
    <2>3. CASE table[t].slot # s
      BY <1>4, <1>5, <2>1, <2>3 DEF TimedOut
    <2> QED
      BY <2>2, <2>3
  <1>10. \A d \in Clients : (Preparing(d)' <=> Preparing(d)) /\ Batches(d)' = Batches(d)
    BY <1>4 DEF Preparing, Batches
  <1>11. \A u, b : /\ Unclaimed(u, b)' <=> Unclaimed(u, b)
                   /\ Asked(u, b)' <=> Asked(u, b)
                   /\ ~Answered(u, b)'
                   /\ Answered(u, b) <=> u = s /\ b = k
    BY <1>0, <1>1, <1>2, <1>4, <1>7, <1>10, <1>9 DEF Unclaimed, Asked, Answered
  <1>12. ~Unclaimed(s, k) /\ ~Asked(s, k)
    <2>1. \A d \in Clients : Preparing(d) /\ client[d].slot = s =>
             k <= Len(client[d].ids) /\ Len(client[d].ids) \in Nat
      BY <1>0, <1>1, <1>2, BatchesType DEF Own, ClientsOwn, Preparing
    <2>2. ~Unclaimed(s, k)
      BY <2>1 DEF Unclaimed
    <2>3. ~Asked(s, k)
      BY <1>0, <1>1, <1>2 DEF Asked, Own, EntriesOwn
    <2> QED
      BY <2>2, <2>3
  <1>13. ASSUME NEW u \in Slots, u # s
         PROVE  Awaited(u)' = Awaited(u)
    BY <1>11, <1>13 DEF Awaited
  <1>14. Awaited(s)' = Awaited(s) \ {k}
    BY <1>11, <1>12 DEF Awaited
  <1>15. Cardinality(Awaited(s)') = n - 1 /\ IsFiniteSet(Awaited(s)')
    BY <1>2, <1>3, <1>14, FS_RemoveElement
  <1>16. Awaited(s)' = {} <=> n = 1
    BY <1>15, FS_EmptySet
  <1>17. SlotOwn(s)'
    <2>1. Awaited(s)' # {} => /\ tasks'[s] = 0 /\ continuations'[s].user \in Commands
                              /\ method'[continuations'[s].user] # None
                              /\ Awaited(s)' \subseteq 1..method'[continuations'[s].user].batches
      BY <1>2, <1>4, <1>5, <1>6, <1>14, <1>16, Waiting
    <2>2. continuations'[s].countdown = Cardinality(Awaited(s)')
      BY <1>5, <1>15
    <2>3. Awaited(s)' = {} => tasks'[s] > 0
      BY <1>6, <1>16
    <2> QED
      BY <1>5, <2>1, <2>2, <2>3 DEF SlotOwn
  <1>18. SlotsOwn'
    <2>1. ASSUME NEW u \in Slots, u # s PROVE SlotOwn(u)'
      <3>1. SlotOwn(u) /\ continuations'[u] = continuations[u] /\ tasks'[u] = tasks[u] /\ method' = method
        BY <1>0, <1>4, <1>5, <1>6, <2>1 DEF Own, SlotsOwn
      <3> QED
        BY <1>13, <2>1, <3>1, SlotKeeps
    <2> QED
      BY <1>17, <2>1 DEF SlotsOwn
  <1>19. ClientsOwn'
    <2>1. \A d \in Clients : client[d].pc = "claim" =>
             continuations'[client[d].slot].user = continuations[client[d].slot].user
      BY <1>0, <1>5, ClientType
    <2> QED
      BY <1>0, <1>4, <1>7, <1>10, <2>1 DEF Own, ClientsOwn
  <1>20. EntriesOwn'
    <2>1. \A t \in ClaimedIds :
             continuations'[table[t].slot].user = continuations[table[t].slot].user
      BY <1>0, <1>5, TableType
    <2> QED
      BY <1>0, <1>4, <1>7, <1>9, <2>1 DEF Own, EntriesOwn
  <1>21. ResponseOwns' /\ ScanOwns'
    BY <1>0, <1>4, <1>7 DEF Own, ResponseOwns, ScanOwns
  <1>22. NoneTimesOut
    BY <1>0, <1>4, <1>9 DEF NoneTimesOut, TypeOK
  <1> QED
    BY <1>1, <1>2, <1>8, <1>13, <1>14, <1>18, <1>19, <1>20, <1>21, <1>22 DEF IInv, Own

-----------------------------------------------------------------------------
(* The heartbeat. *)

\* When the heartbeat finds IDs expired, none of their continuations was timed out yet.
LEMMA AbortExpiredInv ==
    ASSUME IInv, NEW stamps, AbortExpired(stamps)
    PROVE  IInv' /\ NoneTimesOut /\ \A u \in Slots : Awaited(u)' = Awaited(u)
  <1> DEFINE expired == {t \in ClaimedIds : table[t].stamp \in stamps}
             batches == {<<table[t].command, table[t].batch>> : t \in expired}
  <1>0. TypeOK /\ Own
    BY DEF IInv
  <1>1. /\ expiring = {} /\ expiring' = expired
        /\ settled' = settled \cup batches
        /\ bus' \subseteq bus
        /\ UNCHANGED <<table, continuations, replies, client, response, tasks, method, answers>>
    BY DEF AbortExpired
  <1>2. ClaimedIds' = ClaimedIds
    BY <1>1 DEF ClaimedIds, FreeIds
  <1>3. TypeOK'
    <2>1. batches \subseteq Commands \X (Nat \ {0})
      BY <1>0, TableType
    <2>2. expiring' \subseteq ClaimedIds'
      BY <1>1, <1>2
    <2> HIDE DEF batches, expired
    <2> QED
      BY <1>0, <1>1, <2>1, <2>2 DEF TypeOK
  <1>4. ASSUME NEW t \in ClaimedIds PROVE ~TimedOut(t) /\ ~TimedOut(t)'
    <2>1. ~TimedOut(t)
      BY <1>1 DEF TimedOut
    <2>2. table[t].slot \in Slots /\ Awaited(table[t].slot) # {}
      BY <1>0, <2>1, TableType, AwaitedByTable
    <2>3. continuations[table[t].slot].countdown \in Nat \ {0}
      BY <2>2, Waiting
    <2> QED
      BY <1>1, <2>1, <2>3 DEF TimedOut
  <1>5. \A d \in Clients : (Preparing(d)' <=> Preparing(d)) /\ Batches(d)' = Batches(d)
    BY <1>1 DEF Preparing, Batches
  <1>6. ASSUME NEW s \in Slots PROVE SlotOwn(s)' /\ Awaited(s)' = Awaited(s)
    <2>1. \A b : /\ Unclaimed(s, b)' <=> Unclaimed(s, b)
                 /\ Asked(s, b)' <=> Asked(s, b)
                 /\ Answered(s, b)' <=> Answered(s, b)
      BY <1>1, <1>2, <1>4, <1>5 DEF Unclaimed, Asked, Answered
    <2>2. Awaited(s)' = Awaited(s)
      BY <2>1 DEF Awaited
    <2> QED
      BY <1>0, <1>1, <2>2, SlotKeeps DEF Own, SlotsOwn
  <1>7. ClientsOwn' /\ ResponseOwns'
    BY <1>0, <1>1, <1>2, <1>5 DEF Own, ClientsOwn, ResponseOwns
  <1>8. EntriesOwn'
    BY <1>0, <1>1, <1>2, <1>4 DEF Own, EntriesOwn
  \* The IDs of a slot have one stamp.
  <1>9. ScanOwns'
    BY <1>0, <1>1, <1>2 DEF Own, EntriesOwn, ScanOwns
  <1>10. NoneTimesOut
    BY <1>1, <1>4 DEF NoneTimesOut
  <1> QED
    BY <1>3, <1>6, <1>7, <1>8, <1>9, <1>10 DEF IInv, Own, SlotsOwn

\* The first ID of a slot takes all that is awaited for it, the others find nothing left.
LEMMA AbortNextInv ==
    ASSUME IInv, AbortNext,
           response # None => response.slot # table[Min(expiring)].slot,
           \A c \in Clients : Preparing(c) => client[c].slot # table[Min(expiring)].slot
    PROVE  /\ IInv'
           /\ Min(expiring) \in expiring
           /\ expiring' = expiring \ {Min(expiring)}
           /\ \A u \in Slots : Awaited(u)' = IF u = table[Min(expiring)].slot THEN {} ELSE Awaited(u)
  <1>0. TypeOK /\ Own
    BY DEF IInv
  <1>1. PICK t \in expiring : t = Min(expiring)
    <2>1. expiring \subseteq Nat /\ expiring # {}
      BY <1>0, ServiceAssumption DEF AbortNext, TypeOK, ClaimedIds
    <2> QED
      BY <2>1, Least
  <1>2. t \in ClaimedIds /\ t \in TransferIds
    BY <1>0, <1>1, TableType DEF TypeOK
  <1>3. PICK s \in Slots : s = table[t].slot
    BY <1>0, <1>2, TableType
  <1>4. /\ expiring' = expiring \ {t} /\ table' = [table EXCEPT ![t] = None]
        /\ continuations' = [continuations EXCEPT ![s].countdown = 0]
        /\ tasks' = [tasks EXCEPT ![s] =
              IF continuations[s].countdown > 0 THEN tasks[s] + 1 ELSE tasks[s]]
        /\ UNCHANGED <<replies, client, response, bus, method, answers, settled>>
    BY <1>1, <1>3 DEF AbortNext, Freed
  <1>5. /\ \A c \in Clients : Preparing(c) => client[c].slot # s
        /\ response # None => response.slot # s
    BY <1>1, <1>3
  <1>6. /\ table' \in [TransferIds -> Entry \cup {None}]
        /\ ClaimedIds' = ClaimedIds \ {t}
        /\ \A u \in ClaimedIds' : u \in ClaimedIds /\ u # t /\ table'[u] = table[u]
    <2>1. table \in [TransferIds -> Entry \cup {None}]
      BY <1>0 DEF TypeOK
    <2>2. /\ table' \in [TransferIds -> Entry \cup {None}] /\ table'[t] = None
          /\ \A u \in TransferIds : u # t => table'[u] = table[u]
      BY <1>2, <1>4, <2>1
    <2>3. ClaimedIds' = ClaimedIds \ {t}
      BY <2>2 DEF ClaimedIds, FreeIds
    <2> QED
      BY <2>2, <2>3 DEF ClaimedIds
  <1>7. /\ continuations' \in [Slots -> [claimed : BOOLEAN, countdown : Int,
              task : Slots \cup {None}, user : Commands \cup {None}]]
        /\ continuations'[s].countdown = 0
        /\ \A u \in Slots : /\ continuations'[u].claimed = continuations[u].claimed
                            /\ continuations'[u].user = continuations[u].user
        /\ \A u \in Slots : u # s => continuations'[u] = continuations[u]
    <2>1. continuations \in [Slots -> [claimed : BOOLEAN, countdown : Int,
              task : Slots \cup {None}, user : Commands \cup {None}]]
      BY <1>0 DEF TypeOK
    <2> QED
      BY <1>4, <2>1
  \* Either all IDs of the slot still wait for their answers, or none does.
  <1>8. \/ continuations[s].countdown = 0 /\ tasks'[s] = tasks[s]
        \/ continuations[s].claimed /\ tasks[s] = 0 /\ tasks'[s] = 1
    <2>1. tasks \in [Slots -> 0..1]
      BY <1>0 DEF TypeOK
    <2>2. CASE TimedOut(t)
      BY <1>3, <1>4, <2>1, <2>2 DEF TimedOut
    <2>3. CASE ~TimedOut(t)
      <3>1. Awaited(s) # {}
        BY <1>0, <1>2, <1>3, <2>3, AwaitedByTable
      <3>2. /\ continuations[s].claimed /\ tasks[s] = 0
            /\ continuations[s].countdown \in Nat \ {0}
        BY <3>1, Waiting
      <3>3. tasks'[s] = tasks[s] + 1
        BY <1>4, <2>1, <3>2
      <3> QED
        BY <3>2, <3>3
    <2> QED
      BY <2>2, <2>3
  <1>9. tasks' \in [Slots -> 0..1] /\ \A u \in Slots : u # s => tasks'[u] = tasks[u]
    <2>1. tasks \in [Slots -> 0..1]
      BY <1>0 DEF TypeOK
    <2>2. /\ tasks' = [u \in Slots |-> tasks'[u]]
          /\ \A u \in Slots : u # s => tasks'[u] = tasks[u]
      BY <1>4, <2>1
    <2>3. tasks'[s] \in 0..1
      BY <1>8, <2>1
    <2> QED
      BY <2>1, <2>2, <2>3
  <1>10. TypeOK'
    <2>1. expiring' \subseteq ClaimedIds'
      BY <1>0, <1>4, <1>6 DEF TypeOK
    <2> QED
      BY <1>0, <1>4, <1>6, <1>7, <1>9, <2>1 DEF TypeOK
  <1>11. \A d \in Clients : (Preparing(d)' <=> Preparing(d)) /\ Batches(d)' = Batches(d)
    BY <1>4 DEF Preparing, Batches
  <1>12. \A u, b : /\ Unclaimed(u, b)' <=> Unclaimed(u, b)
                   /\ Answered(u, b)' <=> Answered(u, b)
    BY <1>4, <1>11 DEF Unclaimed, Answered
  <1>13. ASSUME NEW u \in ClaimedIds'
         PROVE  IF table[u].slot = s THEN TimedOut(u)' ELSE TimedOut(u)' <=> TimedOut(u)
    <2>1. table[u].slot \in Slots /\ u \in ClaimedIds /\ u # t /\ table'[u] = table[u]
      BY <1>0, <1>6, TableType
    <2>2. CASE table[u].slot = s
      <3>1. u \in expiring'
        BY <1>0, <1>3, <1>4, <2>1, <2>2 DEF Own, ScanOwns
      <3> QED
        BY <1>7, <2>1, <2>2, <3>1 DEF TimedOut
    <2>3. CASE table[u].slot # s
      BY <1>4, <1>7, <2>1, <2>3 DEF TimedOut
    <2> QED
      BY <2>2, <2>3
  <1>14. Awaited(s)' = {}
    <2>1. \A b : ~Unclaimed(s, b) /\ ~Answered(s, b)
      BY <1>5 DEF Unclaimed, Answered
    <2>2. \A b : ~Asked(s, b)'
      BY <1>6, <1>13 DEF Asked
    <2> QED
      BY <1>12, <2>1, <2>2 DEF Awaited
  <1>15. ASSUME NEW u \in Slots, u # s
         PROVE  Awaited(u)' = Awaited(u)
    <2>1. \A b : Asked(u, b)' <=> Asked(u, b)
      BY <1>3, <1>6, <1>13, <1>15 DEF Asked
    <2> QED
      BY <1>12, <2>1 DEF Awaited
  <1>16. SlotsOwn'
    <2>1. SlotOwn(s)'
      <3>1. SlotOwn(s)
        BY <1>0 DEF Own, SlotsOwn
      <3>2. continuations[s].countdown = 0 => Awaited(s) = {}
        BY Waiting
      <3>3. CASE continuations[s].countdown = 0 /\ tasks'[s] = tasks[s]
        BY <1>7, <1>14, <3>1, <3>2, <3>3 DEF SlotOwn
      <3>4. CASE continuations[s].claimed /\ tasks[s] = 0 /\ tasks'[s] = 1
        BY <1>7, <1>14, <3>4 DEF SlotOwn
      <3> QED
        BY <1>8, <3>3, <3>4
    <2>2. ASSUME NEW u \in Slots, u # s PROVE SlotOwn(u)'
      <3>1. SlotOwn(u) /\ continuations'[u] = continuations[u] /\ tasks'[u] = tasks[u] /\ method' = method
        BY <1>0, <1>4, <1>7, <1>9, <2>2 DEF Own, SlotsOwn
      <3> QED
        BY <1>15, <2>2, <3>1, SlotKeeps
    <2> QED
      BY <2>1, <2>2 DEF SlotsOwn
  <1>17. ClientsOwn'
    <2>1. \A d \in Clients : client[d].pc = "claim" =>
             continuations'[client[d].slot].user = continuations[client[d].slot].user
      BY <1>0, <1>7, ClientType
    <2> QED
      BY <1>0, <1>4, <1>6, <1>11, <2>1 DEF Own, ClientsOwn
  <1>18. EntriesOwn'
    <2>1. ASSUME NEW u \in ClaimedIds'
          PROVE  \/ continuations'[table'[u].slot].user = table'[u].command
                 \/ TimedOut(u)' /\ continuations'[table'[u].slot].user = None
      <3>1. /\ u \in ClaimedIds /\ table'[u] = table[u] /\ table[u].slot \in Slots
            /\ TimedOut(u) => TimedOut(u)'
        BY <1>0, <1>6, <1>13, TableType
      <3> QED
        BY <1>0, <1>7, <3>1 DEF Own, EntriesOwn
    <2>2. ASSUME NEW u \in ClaimedIds'
          PROVE  /\ \A v \in ClaimedIds' : table'[v].slot = table'[u].slot =>
                       table'[v].stamp = table'[u].stamp
                       /\ (table'[v].batch = table'[u].batch => v = u)
                 /\ response # None /\ response.slot = table'[u].slot =>
                       response.batch # table'[u].batch
      BY <1>0, <1>6 DEF Own, EntriesOwn
    <2> QED
      BY <1>4, <2>1, <2>2 DEF EntriesOwn
  <1>19. ResponseOwns' /\ ScanOwns'
    <2>1. ResponseOwns'
      BY <1>0, <1>4, <1>7, ResponseType DEF Own, ResponseOwns
    <2>2. ScanOwns'
      <3>1. \A u \in expiring' : u \in ClaimedIds' /\ u \in expiring
        BY <1>0, <1>4, <1>6 DEF TypeOK
      <3> QED
        BY <1>0, <1>4, <1>6, <3>1 DEF Own, ScanOwns
    <2> QED
      BY <2>1, <2>2
  <1> QED
    BY <1>1, <1>3, <1>4, <1>10, <1>14, <1>15, <1>16, <1>17, <1>18, <1>19 DEF IInv, Own

-----------------------------------------------------------------------------
(* The global pool. *)

\* A slot with a task is not awaited for.
LEMMA RunTaskInv ==
    ASSUME IInv, NEW s \in Slots, RunTask(s)
    PROVE  IInv' /\ NoneTimesOut /\ \A u \in Slots : Awaited(u)' = Awaited(u)
  <1>0. TypeOK /\ Own
    BY DEF IInv
  <1>1. /\ tasks[s] > 0 /\ tasks' = [tasks EXCEPT ![s] = @ - 1]
        /\ continuations' = [continuations EXCEPT ![s].claimed = FALSE, ![s].user = None]
        /\ UNCHANGED <<table, client, response, expiring, bus, method, settled>>
    BY DEF RunTask
  <1>2. tasks[s] = 1 /\ tasks' \in [Slots -> 0..1] /\ tasks'[s] = 0
        /\ \A u \in Slots : u # s => tasks'[u] = tasks[u]
    <2>1. tasks \in [Slots -> 0..1]
      BY <1>0 DEF TypeOK
    <2> QED
      BY <1>1, <2>1
  <1>3. /\ continuations' \in [Slots -> [claimed : BOOLEAN, countdown : Int,
              task : Slots \cup {None}, user : Commands \cup {None}]]
        /\ ~continuations'[s].claimed /\ continuations'[s].user = None
        /\ continuations'[s].countdown = continuations[s].countdown
        /\ \A u \in Slots : u # s => continuations'[u] = continuations[u]
    <2>1. continuations \in [Slots -> [claimed : BOOLEAN, countdown : Int,
              task : Slots \cup {None}, user : Commands \cup {None}]]
      BY <1>0 DEF TypeOK
    <2> QED
      BY <1>1, <2>1
  <1>4. /\ replies' \in [Slots -> Commands \cup {None}]
        /\ answers' \in [Commands -> Nat]
    <2> DEFINE r == continuations[s].task
    <2>1. /\ replies \in [Slots -> Commands \cup {None}] /\ answers \in [Commands -> Nat]
          /\ r \in Slots \cup {None}
      BY <1>0 DEF TypeOK
    <2>2. CASE r = None \/ replies[r] = None
      BY <2>1, <2>2 DEF RunTask
    <2>3. CASE ~(r = None \/ replies[r] = None)
      <3>1. /\ answers' = [answers EXCEPT ![replies[r]] = @ + 1]
            /\ replies' = [replies EXCEPT ![r] = None]
        BY <2>3 DEF RunTask
      <3>2. replies[r] \in Commands /\ r \in Slots
        BY <2>1, <2>3
      <3>3. answers[replies[r]] + 1 \in Nat
        BY <2>1, <3>2
      <3> HIDE DEF r
      <3> QED
        BY <2>1, <3>1, <3>2, <3>3
    <2> QED
      BY <2>2, <2>3
  <1>5. ClaimedIds' = ClaimedIds
    BY <1>1 DEF ClaimedIds, FreeIds
  <1>6. TypeOK'
    BY <1>0, <1>1, <1>2, <1>3, <1>4, <1>5 DEF TypeOK
  <1>7. ASSUME NEW t \in ClaimedIds PROVE TimedOut(t)' <=> TimedOut(t)
    BY <1>0, <1>1, <1>3, TableType DEF TimedOut
  <1>8. \A d \in Clients : (Preparing(d)' <=> Preparing(d)) /\ Batches(d)' = Batches(d)
    BY <1>1 DEF Preparing, Batches
  <1>9. ASSUME NEW u \in Slots PROVE Awaited(u)' = Awaited(u)
    <2>1. \A b : /\ Unclaimed(u, b)' <=> Unclaimed(u, b)
                 /\ Asked(u, b)' <=> Asked(u, b)
                 /\ Answered(u, b)' <=> Answered(u, b)
      BY <1>1, <1>5, <1>8, <1>7 DEF Unclaimed, Asked, Answered
    <2> QED
      BY <2>1 DEF Awaited
  <1>10. Awaited(s) = {}
    BY <1>2, Waiting
  <1>11. SlotsOwn'
    <2>1. SlotOwn(s)'
      BY <1>2, <1>3, <1>9, <1>10 DEF SlotOwn
    <2>2. ASSUME NEW u \in Slots, u # s PROVE SlotOwn(u)'
      <3>1. SlotOwn(u) /\ continuations'[u] = continuations[u] /\ tasks'[u] = tasks[u] /\ method' = method
        BY <1>0, <1>1, <1>2, <1>3, <2>2 DEF Own, SlotsOwn
      <3> QED
        BY <1>9, <3>1, SlotKeeps
    <2> QED
      BY <2>1, <2>2 DEF SlotsOwn
  <1>12. UNCHANGED <<table, client, response, expiring, method>>
    BY <1>1
  <1>13. ClientsOwn'
    <2>1. ASSUME NEW d \in Clients, Preparing(d)
          PROVE  continuations'[client[d].slot] = continuations[client[d].slot]
      <3>1. client[d].slot \in Slots /\ client[d].slot # s
        BY <1>0, <1>10, <2>1, ClientType, AwaitedByClient DEF Preparing
      <3> QED
        BY <1>3, <3>1
    <2> QED
      BY <1>0, <1>5, <1>8, <1>12, <2>1 DEF Own, ClientsOwn
  <1>14. EntriesOwn'
    <2>1. ASSUME NEW t \in ClaimedIds
          PROVE  \/ continuations'[table[t].slot] = continuations[table[t].slot]
                 \/ TimedOut(t)' /\ continuations'[table[t].slot].user = None
      <3>1. table[t].slot \in Slots /\ (table[t].slot # s \/ TimedOut(t))
        BY <1>0, <1>10, TableType, AwaitedByTable
      <3> QED
        BY <1>3, <1>7, <3>1
    <2> QED
      BY <1>0, <1>5, <1>12, <1>7, <2>1 DEF Own, EntriesOwn
  <1>15. ScanOwns' /\ NoneTimesOut
    BY <1>0, <1>5, <1>12, <1>7 DEF Own, ScanOwns, NoneTimesOut, TypeOK
  <1>16. ResponseOwns'
    <2>1. ASSUME response # None
          PROVE  continuations'[response.slot] = continuations[response.slot]
      <3>1. response.slot \in Slots /\ response.slot # s
        BY <1>0, <1>10, <2>1, ResponseType, AwaitedByResponse
      <3> QED
        BY <1>3, <3>1
    <2> QED
      BY <1>0, <1>12, <2>1 DEF Own, ResponseOwns
  <1> QED
    BY <1>6, <1>9, <1>11, <1>13, <1>14, <1>16, <1>15 DEF IInv, Own

-----------------------------------------------------------------------------

LEMMA StutterInv ==
    ASSUME IInv, UNCHANGED vars
    PROVE  IInv' /\ NoneTimesOut /\ \A u \in Slots : Awaited(u)' = Awaited(u)
  <1>1. TypeOK'
    BY DEF vars, IInv, TypeOK, ClaimedIds, FreeIds
  <1>2. \A s \in Slots : Awaited(s)' = Awaited(s)
    BY DEF vars, Awaited, Unclaimed, Asked, Answered, Preparing, Batches, ClaimedIds, FreeIds,
           TimedOut
  <1>3. ASSUME NEW s \in Slots PROVE SlotOwn(s)'
    BY <1>2, SlotKeeps DEF vars, IInv, Own, SlotsOwn
  <1>4. ClientsOwn' /\ EntriesOwn' /\ ResponseOwns'
    BY DEF vars, IInv, Own, ClientsOwn, EntriesOwn, ResponseOwns, Preparing, Batches,
           ClaimedIds, FreeIds, TimedOut
  <1>5. ScanOwns' /\ NoneTimesOut
    BY DEF vars, IInv, Own, ScanOwns, NoneTimesOut, ClaimedIds, FreeIds, TimedOut
  <1> QED
    BY <1>1, <1>2, <1>3, <1>4, <1>5 DEF IInv, Own, SlotsOwn

LEMMA NextInv ==
    ASSUME Counted, IInv, [Next /\ Orderly]_vars
    PROVE  IInv' /\ (~AbortNext => NoneTimesOut)
  <1> SUFFICES ASSUME Next, Orderly PROVE IInv' /\ (~AbortNext => NoneTimesOut)
    BY StutterInv
  <1>0. \A t \in expiring :
           continuations'[table[t].slot].claimed => continuations[table[t].slot].claimed
    BY DEF Orderly
  <1>1. ASSUME NEW c \in Clients, NEW j \in Commands, NEW m \in Methods, Invoke(c, j, m)
        PROVE  IInv' /\ NoneTimesOut
    BY <1>0, <1>1, InvokeInv
  <1>2. ASSUME NEW c \in Clients, BackOff(c)
        PROVE  IInv' /\ NoneTimesOut
    BY <1>2, BackOffInv DEF Orderly, BackOff, NoneTimesOut
  <1>3. ASSUME NEW c \in Clients, ClaimTransferId(c) \/ SendRequests(c)
        PROVE  IInv' /\ NoneTimesOut
    BY <1>3, ClaimInv, SendInv DEF ClaimTransferId, NoneTimesOut
  <1>4. ASSUME NEW a \in bus, HandleResponse(a)
        PROVE  IInv' /\ NoneTimesOut
    BY <1>4, ResponseInv DEF HandleResponse, NoneTimesOut
  <1>5. CASE NextContinuation
    BY <1>5, NextContinuationInv
  <1>6. ASSUME NEW stamps \in SUBSET {table[t].stamp : t \in ClaimedIds}, AbortExpired(stamps)
        PROVE  IInv' /\ NoneTimesOut
    BY <1>6, AbortExpiredInv
  <1>7. CASE AbortNext
    BY <1>7, AbortNextInv DEF Orderly
  <1>8. ASSUME NEW s \in Slots, RunTask(s)
        PROVE  IInv' /\ NoneTimesOut
    BY <1>8, RunTaskInv
  <1> QED
    BY <1>1, <1>2, <1>3, <1>4, <1>5, <1>6, <1>7, <1>8 DEF Next

LEMMA Invariance ==
    ASSUME Counted
    PROVE  OrderlySpec => []IInv
  <1>1. Init => IInv
    BY InitInv
  <1>2. IInv /\ [Next /\ Orderly]_vars => IInv'
    BY NextInv
  <1> QED
    BY <1>1, <1>2, PTL DEF OrderlySpec

\* A command of one frame has one transfer ID, so that no other is left to abort.
SingleInv == IInv /\ \A t \in expiring : ~TimedOut(t)

\* All that a command of one frame awaits is its only batch.
LEMMA SingleFrameAwaited ==
    ASSUME SingleFrame, IInv, NEW s \in Slots, NEW b \in Awaited(s)
    PROVE  b = 1
  <1>1. continuations[s].user \in Commands /\ method[continuations[s].user] # None
        /\ Awaited(s) \subseteq 1..method[continuations[s].user].batches
    BY Waiting
  <1>2. method[continuations[s].user] \in Methods
    BY <1>1 DEF IInv, TypeOK
  <1>3. Awaited(s) \subseteq 1..1
    BY <1>1, <1>2 DEF SingleFrame
  <1> QED
    BY <1>3

LEMMA SingleFrameBatch ==
    ASSUME SingleFrame, SingleInv, NEW t \in ClaimedIds
    PROVE  table[t].slot \in Slots /\ table[t].batch = 1
  <1>1. ~TimedOut(t) /\ TypeOK /\ IInv
    BY DEF SingleInv, TimedOut, IInv
  <1>2. table[t].slot \in Slots /\ table[t].batch \in Awaited(table[t].slot)
    BY <1>1, TableType, AwaitedByTable
  <1> QED
    BY <1>1, <1>2, SingleFrameAwaited

\* Commands of one frame leave nothing to unwind, nothing to expire between the halves of
\* an answer, and nothing to abort after their continuation was timed out.
LEMMA SingleFrameOrderly ==
    ASSUME SingleFrame, SingleInv, Next
    PROVE  Orderly
  <1>0. TypeOK /\ Own /\ IInv
    BY DEF IInv, SingleInv
  <1>1. ASSUME NEW c \in Clients, Preparing(c)
        PROVE  client[c].ids = <<>>
    <2>1. client[c].ids \in Seq(TransferIds) /\ client[c].command \in Commands
          /\ Len(client[c].ids) < Batches(c) /\ client[c].pc = "claim"
      BY <1>0, <1>1, ClientType DEF Preparing
    <2>2. method[client[c].command] \in Methods
      BY <1>0, <2>1 DEF Own, ClientsOwn, TypeOK
    <2>3. Batches(c) = 1
      BY <2>2 DEF SingleFrame, Batches
    <2>4. client[c].ids # <<>> => Len(client[c].ids) \in Nat \ {0}
      BY <2>1, EmptySeq, LenProperties
    <2> QED
      BY <2>1, <2>3, <2>4
  <1>2. \A c \in Clients : BackOff(c) => client[c].ids = <<>>
    BY <1>1 DEF BackOff, Preparing
  <1>4. ASSUME NEW t \in ClaimedIds
        PROVE  /\ response # None => response.slot # table[t].slot
               /\ \A c \in Clients : Preparing(c) => client[c].slot # table[t].slot
    <2>1. table[t].slot \in Slots /\ table[t].batch = 1
      BY <1>0, SingleFrameBatch DEF SingleInv
    <2>2. response # None => response.slot # table[t].slot
      <3> SUFFICES ASSUME response # None, response.slot = table[t].slot PROVE FALSE
        OBVIOUS
      <3>1. response.batch = 1
        BY <1>0, <2>1, SingleFrameAwaited, AwaitedByResponse
      <3> QED
        BY <1>0, <2>1, <3>1 DEF Own, EntriesOwn
    <2>3. ASSUME NEW c \in Clients, Preparing(c), client[c].slot = table[t].slot
          PROVE  FALSE
      <3>1. Len(client[c].ids) = 0
        BY <1>1, <2>3
      <3>2. table[t].batch <= Len(client[c].ids)
        BY <1>0, <2>3 DEF Own, ClientsOwn, Preparing
      <3> QED
        BY <2>1, <3>1, <3>2
    <2> QED
      BY <2>2, <2>3
  <1>5. ASSUME AbortNext PROVE Min(expiring) \in ClaimedIds
    <2>1. expiring \subseteq Nat /\ expiring # {} /\ expiring \subseteq ClaimedIds
      BY <1>0, <1>5, ServiceAssumption DEF AbortNext, TypeOK, ClaimedIds
    <2> QED
      BY <2>1, Least
  <1>6. ASSUME NEW t \in expiring PROVE continuations[table[t].slot].claimed
    <2>1. t \in ClaimedIds /\ ~TimedOut(t)
      BY <1>0 DEF SingleInv, TypeOK
    <2>2. table[t].slot \in Slots /\ Awaited(table[t].slot) # {}
      BY <1>0, <2>1, TableType, AwaitedByTable
    <2> QED
      BY <1>0, <2>2, Waiting
  <1> QED
    BY <1>2, <1>4, <1>5, <1>6 DEF Orderly

\* Aborting the only ID of a continuation leaves none that was timed out.
LEMMA SingleFrameAborts ==
    ASSUME SingleFrame, SingleInv, AbortNext, IInv'
    PROVE  \A t \in expiring' : ~TimedOut(t)'
  <1>0. TypeOK /\ Own /\ IInv
    BY DEF IInv, SingleInv
  <1> DEFINE t == Min(expiring)
  <1>1. t \in expiring /\ expiring \subseteq ClaimedIds
    <2>1. expiring \subseteq Nat /\ expiring # {} /\ expiring \subseteq ClaimedIds
      BY <1>0, ServiceAssumption DEF AbortNext, TypeOK, ClaimedIds
    <2> QED
      BY <2>1, Least
  <1> HIDE DEF t
  <1>2. /\ expiring' = expiring \ {t} /\ table' = [table EXCEPT ![t] = None]
        /\ continuations' = [continuations EXCEPT ![table[t].slot].countdown = 0]
    BY DEF AbortNext, Freed, t
  <1>3. ASSUME NEW u \in expiring'
        PROVE  ~TimedOut(u)'
    <2>1. u \in expiring /\ u # t /\ u \in ClaimedIds /\ ~TimedOut(u)
      BY <1>1, <1>2 DEF SingleInv
    <2>2. /\ table[u].batch = 1 /\ table[t].batch = 1 /\ table[u].slot \in Slots
          /\ table[t].slot \in Slots
      BY <1>1, <2>1, SingleFrameBatch DEF SingleInv
    <2>3. table[u].slot # table[t].slot
      BY <1>0, <1>1, <2>1, <2>2 DEF Own, EntriesOwn
    <2>4. table'[u] = table[u]
      BY <1>0, <1>2, <2>1 DEF TypeOK, ClaimedIds
    <2>5. continuations'[table[u].slot] = continuations[table[u].slot]
      BY <1>0, <1>2, <2>2, <2>3 DEF TypeOK
    <2> QED
      BY <2>1, <2>4, <2>5 DEF TimedOut
  <1> QED
    BY <1>3

LEMMA SingleFrameCounted ==
    ASSUME SingleFrame
    PROVE  Counted
  BY DEF SingleFrame, Counted

LEMMA SingleFrameInvariance ==
    ASSUME SingleFrame
    PROVE  Spec => []SingleInv /\ OrderlySpec
  <1>1. Init => SingleInv
    BY InitInv DEF Init, SingleInv
  <1>2. SingleInv /\ [Next]_vars => [Next /\ Orderly]_vars
    BY SingleFrameOrderly
  <1>3. ASSUME SingleInv, [Next]_vars PROVE SingleInv'
    <2>1. IInv' /\ (~AbortNext => NoneTimesOut)
      BY <1>2, <1>3, SingleFrameCounted, NextInv DEF SingleInv
    <2>2. CASE AbortNext
      BY <1>3, <2>1, <2>2, SingleFrameAborts DEF SingleInv
    <2>3. CASE ~AbortNext
      BY <1>3, <2>1, <2>3 DEF SingleInv, NoneTimesOut
    <2> QED
      BY <2>2, <2>3
  <1> QED
    BY <1>1, <1>2, <1>3, PTL DEF Spec, OrderlySpec

\* What the invariant says of the properties.
LEMMA InvProperties ==
    IInv => TypeOK /\ NoDanglingTransferId /\ NoStaleResponse /\ NoLeakedContinuation
  <1> SUFFICES ASSUME IInv
               PROVE  TypeOK /\ NoDanglingTransferId /\ NoStaleResponse /\ NoLeakedContinuation
    OBVIOUS
  <1>1. TypeOK /\ NoDanglingTransferId /\ NoStaleResponse
    BY DEF IInv, Own, EntriesOwn, ResponseOwns, NoDanglingTransferId,
           NoStaleResponse, TimedOut
  <1>2. ASSUME NEW s \in Slots, continuations[s].claimed
        PROVE  \/ \E c \in Clients : client[c].pc = "claim" /\ client[c].slot = s
               \/ \E t \in ClaimedIds : table[t].slot = s
               \/ response # None /\ response.slot = s
               \/ tasks[s] > 0
    <2>1. Awaited(s) # {} \/ tasks[s] > 0
      BY <1>2 DEF IInv, Own, SlotsOwn, SlotOwn
    <2> QED
      BY <2>1 DEF Awaited, Unclaimed, Asked, Answered, Preparing
  <1> QED
    BY <1>1, <1>2 DEF NoLeakedContinuation

-----------------------------------------------------------------------------
(* Commands of any number of frames, as long as every step is orderly.     *)

\* While no back-off has IDs to unwind, no continuation is timed out in the middle of an
\* answer or of its preparation, and none is claimed again before the heartbeat is through
\* with the IDs of its last user, the state of the client threads, the pools, the table and
\* the inbox thread is always one the code can be in: however many frames a command has,
\* its continuation is submitted to the global pool once.
THEOREM BatchesTypeCorrect ==
    ASSUME Counted
    PROVE  OrderlySpec => []TypeOK
  BY Invariance, InvProperties, PTL

\* Then a claimed transfer ID of a command of several frames never outlives the use
\* of its pooled continuation either, even when answers come after the expiry.
THEOREM BatchIdsNeverDangle ==
    ASSUME Counted
    PROVE  OrderlySpec => []NoDanglingTransferId
  BY Invariance, InvProperties, PTL

\* Nor does a response that the inbox thread has in hand, with other frames of the
\* command answered before and after it.
THEOREM BatchResponsesNeverStale ==
    ASSUME Counted
    PROVE  OrderlySpec => []NoStaleResponse
  BY Invariance, InvProperties, PTL

\* And the countdown of a command of several frames never loses count: a continuation
\* that is claimed is still awaited for, or has its task.
THEOREM BatchContinuationsNeverLeak ==
    ASSUME Counted
    PROVE  OrderlySpec => []NoLeakedContinuation
  BY Invariance, InvProperties, PTL

-----------------------------------------------------------------------------
(* Commands of one frame: every step is orderly. *)

\* While the methods ask for one answer each, the state of the client threads, the
\* pools, the table and the inbox thread is always one the code can be in; in
\* particular no continuation is submitted to the global pool a second time before
\* its task has run.
THEOREM TypeCorrect ==
    ASSUME SingleFrame
    PROVE  Spec => []TypeOK
  BY SingleFrameInvariance, InvProperties, PTL DEF SingleInv

\* While the methods ask for one answer each, a claimed transfer ID never outlives
\* the use of its pooled continuation, for any number of clients, commands, IDs and
\* slots, even when answers come after the expiry.
THEOREM TransferIdsNeverDangle ==
    ASSUME SingleFrame
    PROVE  Spec => []NoDanglingTransferId
  BY SingleFrameInvariance, InvProperties, PTL DEF SingleInv

\* Nor does a response that the inbox thread took from the table and has not
\* passed to its continuation yet.
THEOREM ResponsesNeverStale ==
    ASSUME SingleFrame
    PROVE  Spec => []NoStaleResponse
  BY SingleFrameInvariance, InvProperties, PTL DEF SingleInv

\* While the methods ask for one answer each, a claimed continuation always has
\* something left that will release it, so that its slot is not lost.
THEOREM ContinuationsNeverLeak ==
    ASSUME SingleFrame
    PROVE  Spec => []NoLeakedContinuation
  BY SingleFrameInvariance, InvProperties, PTL DEF SingleInv
=============================================================================
