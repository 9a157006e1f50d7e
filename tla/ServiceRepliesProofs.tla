------------------------- MODULE ServiceRepliesProofs -------------------------
(***************************************************************************)
(* Commands whose answers do not come after the expiry: each is replied to *)
(* only after each of its requests was answered or expired.                *)
(*                                                                         *)
(* ServiceRequestsProofs shows that a slot is nobody else's and that its   *)
(* countdown is the number of the answers still awaited; here, that        *)
(* whoever has the slot acts for the same command - the reply task of a    *)
(* claimed continuation, the requests on the bus, the claimed transfer IDs *)
(* and the client that is still preparing it - and that what is no longer  *)
(* awaited is settled.                                                     *)
(***************************************************************************)
EXTENDS ServiceRequestsProofs

Uses(s, j) == continuations[s].claimed /\ continuations[s].user = j

\* Every batch of command j is settled, or awaited for slot s.
Due(s, j) ==
    \A b \in 1..method[j].batches : b \in Awaited(s) \/ <<j, b>> \in settled

\* A claimed continuation will reply to its command, which has no reply yet.
SlotsMatch ==
    \A s \in Slots, j \in Commands \cup {None} : Uses(s, j) =>
       /\ j # None /\ continuations[s].task \in Slots
       /\ replies[continuations[s].task] = j
       /\ method[j] # None /\ answers[j] = 0
       /\ Due(s, j)

\* No two of them are of one command, or share a reply task.
SlotsDiffer ==
    \A r, s \in Slots : continuations[r].claimed /\ continuations[s].claimed =>
       \/ r = s
       \/ /\ continuations[r].user # continuations[s].user
          /\ continuations[r].task # continuations[s].task

\* Transfer ID t is claimed by client c for batch i of command j.
ClaimedFor(c, j, i, t) ==
    /\ t \in ClaimedIds
    /\ table[t].slot = client[c].slot /\ table[t].stamp = client[c].stamp
    /\ table[t].command = j /\ table[t].batch = i

\* What client c has done so far for its command j, which nobody else works on.
Pending(c, j) ==
    /\ method[j] # None /\ answers[j] = 0
    /\ \A a \in bus : a.command # j
    /\ \A d \in Clients : client[d].command = j => d = c
    /\ client[c].pc = "idle" => \A s \in Slots : ~Uses(s, j)
    /\ client[c].pc = "claim" =>
          /\ Uses(client[c].slot, j)
          /\ continuations[client[c].slot].task = client[c].reply
          /\ \A i \in 1..Len(client[c].ids) : ClaimedFor(c, j, i, client[c].ids[i])

ClientsMatch ==
    \A c \in Clients : client[c].command # None => Pending(c, client[c].command)

BusMatches ==
    \A a \in bus : /\ a.id \in ClaimedIds /\ table[a.id].command = a.command
                   /\ table[a.id].batch = a.batch

Settles ==
    /\ response # None => <<response.command, response.batch>> \in settled
    /\ \A j \in Commands : answers[j] > 0 =>
          method[j] # None /\ \A b \in 1..method[j].batches : <<j, b>> \in settled

\* What the heartbeat has yet to abort is settled, and nobody works on its commands.
ScanMatches ==
    \A t \in expiring :
       /\ <<table[t].command, table[t].batch>> \in settled
       /\ method[table[t].command] # None
       /\ \A a \in bus : a.id # t
       /\ \A c \in Clients : client[c].command # table[t].command

Match == SlotsMatch /\ SlotsDiffer /\ ClientsMatch /\ BusMatches /\ Settles /\ ScanMatches

RInv == IInv /\ Match

-----------------------------------------------------------------------------

LEMMA MatchInit == Init => Match
  <1> SUFFICES ASSUME Init PROVE Match
    OBVIOUS
  <1>2. SlotsMatch /\ SlotsDiffer
    BY DEF Init, SlotsMatch, SlotsDiffer, Uses, ResetContinuation
  <1>3. ClientsMatch /\ BusMatches /\ Settles /\ ScanMatches
    BY DEF Init, ClientsMatch, BusMatches, Settles, ScanMatches, Idle
  <1> QED
    BY <1>2, <1>3 DEF Match

\* A claimed slot is used for some command.
LEMMA UsedBy ==
    ASSUME RInv, NEW s \in Slots, continuations[s].claimed
    PROVE  /\ Uses(s, continuations[s].user) /\ continuations[s].user \in Commands
           /\ continuations[s].task \in Slots
           /\ replies[continuations[s].task] = continuations[s].user
           /\ method[continuations[s].user] # None /\ answers[continuations[s].user] = 0
           /\ Due(s, continuations[s].user)
  <1>1. continuations[s] \in [claimed : BOOLEAN, countdown : Int,
          task : Slots \cup {None}, user : Commands \cup {None}]
    BY DEF RInv, IInv, TypeOK
  <1>2. continuations[s].user \in Commands \cup {None} /\ Uses(s, continuations[s].user)
    BY <1>1 DEF Uses
  <1> QED
    BY <1>2 DEF RInv, Match, SlotsMatch

\* Two claimed slots for one command are the same slot.
LEMMA OneUser ==
    ASSUME RInv, NEW r \in Slots, NEW s \in Slots, NEW j, Uses(r, j), Uses(s, j)
    PROVE  r = s
  BY DEF RInv, Match, SlotsDiffer, Uses

\* A claimed transfer ID is for the command that uses its slot, until that is timed out,
\* and so is a response.
LEMMA EntryUses ==
    ASSUME RInv, NEW t \in ClaimedIds, ~TimedOut(t)
    PROVE  table[t].slot \in Slots /\ Uses(table[t].slot, table[t].command)
  <1>1. table[t].slot \in Slots /\ Awaited(table[t].slot) # {}
    BY TableType, AwaitedByTable DEF RInv, IInv
  <1>2. continuations[table[t].slot].claimed
    BY <1>1, Waiting DEF RInv
  <1> QED
    BY <1>1, <1>2 DEF RInv, IInv, Own, EntriesOwn, Uses

LEMMA ResponseUses ==
    ASSUME RInv, response # None
    PROVE  response.slot \in Slots /\ Uses(response.slot, response.command)
  <1>1. response.slot \in Slots /\ Awaited(response.slot) # {}
    BY ResponseType, AwaitedByResponse DEF RInv, IInv
  <1>2. continuations[response.slot].claimed
    BY <1>1, Waiting DEF RInv
  <1> QED
    BY <1>1, <1>2 DEF RInv, IInv, Own, ResponseOwns, Uses

\* The slot of a client that has not sent its requests yet has no task.
LEMMA NoTaskYet ==
    ASSUME RInv, NEW c \in Clients, client[c].pc = "claim"
    PROVE  tasks[client[c].slot] = 0 /\ client[c].slot \in Slots
           /\ client[c].command \in Commands /\ Pending(c, client[c].command)
  <1>1. client[c].slot \in Slots /\ client[c].command \in Commands
    BY ClientType DEF RInv, IInv
  <1>2. Pending(c, client[c].command)
    BY <1>1, NoneAssumption DEF RInv, Match, ClientsMatch
  <1>3. Awaited(client[c].slot) # {}
    <2>1. CASE Preparing(c)
      BY <2>1, AwaitedByClient DEF RInv
    <2>2. CASE ~Preparing(c)
      <3>1. Batches(c) \in Nat \ {0} /\ Len(client[c].ids) \in Nat
        BY BatchesType DEF RInv, IInv, Own, ClientsOwn
      <3>2. 1 \in 1..Len(client[c].ids)
        BY <2>2, <3>1 DEF Preparing
      <3>3. PICK t \in ClaimedIds : /\ table[t].slot = client[c].slot
                                      /\ table[t].command = client[c].command
        BY <1>2, <3>2 DEF Pending, ClaimedFor
      <3>4. ~TimedOut(t)
        BY <3>3 DEF RInv, Match, ScanMatches, TimedOut
      <3> QED
        BY <3>3, <3>4, AwaitedByTable DEF RInv, IInv
    <2> QED
      BY <2>1, <2>2
  <1> QED
    BY <1>1, <1>2, <1>3, Waiting DEF RInv

\* What is due stays due, unless it is settled.
LEMMA DueKeeps ==
    ASSUME NEW s, NEW j, Due(s, j), method'[j] = method[j],
           \A b \in Nat : b \in Awaited(s) => b \in Awaited(s)' \/ <<j, b>> \in settled',
           \A b : <<j, b>> \in settled => <<j, b>> \in settled'
    PROVE  Due(s, j)'
  <1>1. Awaited(s) \subseteq Nat
    BY DEF Awaited
  <1>2. ASSUME NEW b \in 1..method[j].batches
        PROVE  b \in Awaited(s)' \/ <<j, b>> \in settled'
    BY <1>1 DEF Due
  <1> QED
    BY <1>2 DEF Due

-----------------------------------------------------------------------------
(* The client thread. *)

\* A command that is begun, or tried again, has left no trace yet.
LEMMA Untouched ==
    ASSUME RInv, NEW c \in Clients, NEW j \in Commands, NEW m \in Methods, Invoke(c, j, m)
    PROVE  /\ answers[j] = 0
           /\ \A s \in Slots : ~Uses(s, j)
           /\ \A a \in bus : a.command # j
           /\ \A d \in Clients : client[d].command = j => d = c
           /\ response # None => response.command # j
  <1>1. client[c].pc = "idle" /\ (client[c].command = j \/ method[j] = None)
    BY DEF Invoke
  <1>2. \A s \in Slots : ~Uses(s, j)
    <2>1. CASE client[c].command = j
      BY <1>1, <2>1, NoneAssumption DEF RInv, Match, ClientsMatch, Pending
    <2>2. CASE method[j] = None
      BY <2>2, UsedBy DEF Uses
    <2> QED
      BY <1>1, <2>1, <2>2
  <1>3. answers[j] = 0 /\ (\A a \in bus : a.command # j)
        /\ \A d \in Clients : client[d].command = j => d = c
    <2>1. CASE client[c].command = j
      BY <1>1, <2>1, NoneAssumption DEF RInv, Match, ClientsMatch, Pending
    <2>2. CASE method[j] = None
      <3>1. answers[j] = 0
        <4>1. ~(answers[j] > 0) /\ answers[j] \in Nat
          BY <2>2 DEF RInv, Match, Settles, IInv, TypeOK
        <4> QED
          BY <4>1
      <3>2. ASSUME NEW a \in bus, a.command = j PROVE FALSE
        <4>1. a.id \in ClaimedIds /\ table[a.id].command = j /\ ~TimedOut(a.id)
          BY <3>2 DEF RInv, Match, BusMatches, ScanMatches, TimedOut
        <4>2. Uses(table[a.id].slot, j) /\ table[a.id].slot \in Slots
          BY <4>1, EntryUses
        <4> QED
          BY <1>2, <4>2
      <3>3. ASSUME NEW d \in Clients, client[d].command = j PROVE FALSE
        BY <2>2, <3>3, NoneAssumption DEF RInv, Match, ClientsMatch, Pending
      <3> QED
        BY <3>1, <3>2, <3>3
    <2> QED
      BY <1>1, <2>1, <2>2
  <1>4. response # None => Uses(response.slot, response.command) /\ response.slot \in Slots
    BY ResponseUses
  <1> QED
    BY <1>2, <1>3, <1>4

LEMMA InvokeMatch ==
    ASSUME Counted, RInv, NEW c \in Clients, NEW j \in Commands, NEW m \in Methods,
           Invoke(c, j, m),
           \A t \in expiring :
              continuations'[table[t].slot].claimed => continuations[table[t].slot].claimed
    PROVE  Match'
  <1>0. TypeOK /\ Own /\ Match
    BY DEF RInv, IInv
  <1>1. PICK r \in Slots, s \in Slots :
           /\ r = <<c, Min(FreeReplies(c))>> /\ s = <<c, Min(FreeContinuations(c))>>
           /\ ~continuations[s].claimed /\ replies[r] = None
    BY FreeSlots DEF Invoke
  <1>2. /\ client[c].pc = "idle"
        /\ replies' = [replies EXCEPT ![r] = j]
        /\ continuations' = [continuations EXCEPT ![s] =
              [claimed |-> TRUE, countdown |-> m.countdown, task |-> r, user |-> j]]
        /\ client' = [client EXCEPT ![c] =
              [pc |-> "claim", command |-> j, slot |-> s, reply |-> r,
               stamp |-> NewStamp, ids |-> <<>>]]
        /\ method' = [method EXCEPT ![j] = m]
        /\ settled' = {x \in settled : x[1] # j}
        /\ UNCHANGED <<table, response, expiring, tasks, bus, answers>>
    BY <1>1 DEF Invoke
  <1>3. /\ answers[j] = 0
        /\ \A u \in Slots : ~Uses(u, j)
        /\ \A a \in bus : a.command # j
        /\ \A d \in Clients : client[d].command = j => d = c
        /\ response # None => response.command # j
    BY Untouched
  <1>4. /\ continuations'[s].claimed /\ continuations'[s].task = r /\ continuations'[s].user = j
        /\ \A u \in Slots : u # s => continuations'[u] = continuations[u]
    BY <1>0, <1>1, <1>2 DEF TypeOK
  <1>5. replies'[r] = j /\ \A u \in Slots : u # r => replies'[u] = replies[u]
    BY <1>0, <1>1, <1>2 DEF TypeOK
  <1>6. /\ method'[j] = m /\ m # None /\ method'[j] # None
        /\ \A k \in Commands : k # j => method'[k] = method[k]
    <2>1. m # None
      BY NoneAssumption
    <2> QED
      BY <1>0, <1>2, <2>1 DEF TypeOK
  <1>7. /\ client'[c].pc = "claim" /\ client'[c].command = j /\ client'[c].slot = s
        /\ client'[c].reply = r /\ client'[c].ids = <<>>
        /\ \A d \in Clients : d # c => client'[d] = client[d]
    BY <1>0, <1>2 DEF TypeOK
  <1>8. \A u \in Slots : Awaited(u)' = IF u = s THEN 1..m.batches ELSE Awaited(u)
    BY <1>7, InvokeInv DEF RInv
  <1>9. \A k, b : k # j /\ <<k, b>> \in settled => <<k, b>> \in settled'
    BY <1>2
  <1>10. ASSUME NEW u \in Slots, continuations[u].claimed
         PROVE  /\ u # s /\ continuations'[u] = continuations[u]
                /\ continuations[u].user # j /\ continuations[u].task # r
                /\ continuations[u].user \in Commands
    <2>1. u # s /\ continuations'[u] = continuations[u]
      BY <1>1, <1>4, <1>10
    <2>2. /\ Uses(u, continuations[u].user) /\ continuations[u].user \in Commands
          /\ replies[continuations[u].task] = continuations[u].user
      BY <1>10, UsedBy
    <2>3. continuations[u].task # r
      BY <1>1, <2>2, NoneAssumption
    <2> QED
      BY <1>3, <2>1, <2>2, <2>3
  <1>11. SlotsMatch'
    <2>1. ASSUME NEW u \in Slots, NEW k \in Commands \cup {None}, continuations'[u].claimed,
                 continuations'[u].user = k
          PROVE  /\ k # None /\ continuations'[u].task \in Slots
                 /\ replies'[continuations'[u].task] = k
                 /\ method'[k] # None /\ answers[k] = 0
                 /\ Due(u, k)'
      <3>1. CASE u = s
        <4>1. k = j /\ Due(u, j)'
          BY <1>8, <1>4, <1>6, <2>1, <3>1 DEF Due
        <4> QED
          BY <1>1, <1>3, <1>4, <1>5, <1>6, <3>1, <4>1, NoneAssumption
      <3>2. CASE u # s
        <4>1. continuations'[u] = continuations[u] /\ continuations[u].claimed
          BY <1>4, <2>1, <3>2
        <4>2. k # j /\ k \in Commands /\ continuations[u].task # r
          BY <1>10, <2>1, <4>1
        <4>3. /\ continuations[u].task \in Slots /\ replies[continuations[u].task] = k
              /\ method[k] # None /\ answers[k] = 0 /\ Due(u, k)
          BY <2>1, <4>1, UsedBy
        <4>4. Due(u, k)'
          BY <1>8, <1>6, <1>9, <3>2, <4>2, <4>3, DueKeeps
        <4> QED
          BY <1>5, <1>6, <4>1, <4>2, <4>3, <4>4, NoneAssumption
      <3> QED
        BY <3>1, <3>2
    <2> QED
      BY <1>2, <2>1 DEF SlotsMatch, Uses
  <1>12. SlotsDiffer'
    <2>1. ASSUME NEW u \in Slots, NEW v \in Slots, u # v,
                 continuations'[u].claimed, continuations'[v].claimed
          PROVE  /\ continuations'[u].user # continuations'[v].user
                 /\ continuations'[u].task # continuations'[v].task
      <3>1. CASE u = s
        BY <1>4, <1>10, <2>1, <3>1
      <3>2. CASE v = s
        BY <1>4, <1>10, <2>1, <3>2
      <3>3. CASE u # s /\ v # s
        BY <1>0, <1>4, <2>1, <3>3 DEF Match, SlotsDiffer
      <3> QED
        BY <3>1, <3>2, <3>3
    <2> QED
      BY <2>1 DEF SlotsDiffer
  <1>13. ClientsMatch'
    <2>1. ASSUME NEW d \in Clients, client'[d].command # None
          PROVE  Pending(d, client[d].command)'
      <3>1. CASE d = c
        <4>1. \A e \in Clients : client'[e].command = j => e = c
          BY <1>3, <1>7
        <4>2. UNCHANGED <<bus, answers>>
          BY <1>2
        <4>3. Pending(c, client[c].command)'
          <5>1. 1..Len(client'[c].ids) = {}
            BY <1>7
          <5> QED
            BY <1>1, <1>3, <1>4, <1>6, <1>7, <4>1, <4>2, <5>1 DEF Pending, Uses
        <4> QED
          BY <3>1, <4>3
      <3>2. CASE d # c
        <4>1. client'[d] = client[d] /\ client[d].command # j
          BY <1>3, <1>7, <3>2
        <4>2. Pending(d, client[d].command) /\ client[d].command \in Commands
          BY <1>0, <2>1, <4>1, ClientType DEF Match, ClientsMatch
        <4>3. \A e \in Clients : client'[e].command = client[d].command => e = d
          BY <1>7, <4>1, <4>2 DEF Pending
        <4>4. \A u \in Slots : Uses(u, client[d].command)' => Uses(u, client[d].command)
          BY <1>4, <4>1 DEF Uses
        <4>5. client[d].pc = "claim" =>
                /\ client[d].slot \in Slots /\ Uses(client[d].slot, client[d].command)
                /\ continuations'[client[d].slot] = continuations[client[d].slot]
          BY <1>0, <1>10, <4>2, ClientType DEF Pending, Uses
        <4>6. ClaimedIds' = ClaimedIds
          BY <1>2 DEF ClaimedIds, FreeIds
        <4>7. UNCHANGED <<table, bus, answers>> /\ method'[client[d].command] # None
          BY <1>2, <1>6, <4>1, <4>2 DEF Pending
        <4> QED
          BY <4>1, <4>2, <4>3, <4>4, <4>5, <4>6, <4>7 DEF Pending, Uses, ClaimedFor
      <3> QED
        BY <3>1, <3>2
    <2> QED
      BY <2>1 DEF ClientsMatch
  <1>14. BusMatches'
    BY <1>0, <1>2 DEF Match, BusMatches, ClaimedIds, FreeIds
  <1>15. Settles'
    <2>1. response # None => <<response.command, response.batch>> \in settled'
      BY <1>0, <1>3, <1>9 DEF Match, Settles
    <2>2. ASSUME NEW k \in Commands, answers[k] > 0
          PROVE  method'[k] # None /\ \A b \in 1..method'[k].batches : <<k, b>> \in settled'
      <3>1. k # j /\ method[k] # None /\ \A b \in 1..method[k].batches : <<k, b>> \in settled
        BY <1>0, <1>3, <2>2 DEF Match, Settles
      <3> QED
        BY <1>6, <1>9, <3>1
    <2> QED
      BY <1>2, <2>1, <2>2 DEF Settles
  \* A command that is begun is not one that expires.
  <1>16. ScanMatches'
    <2>1. ASSUME NEW t \in expiring
          PROVE  /\ <<table[t].command, table[t].batch>> \in settled'
                 /\ method'[table[t].command] # None
                 /\ \A d \in Clients : client'[d].command # table[t].command
      <3>1. /\ <<table[t].command, table[t].batch>> \in settled
            /\ method[table[t].command] # None /\ table[t].command \in Commands
            /\ \A d \in Clients : client[d].command # table[t].command
        BY <1>0, TableType DEF Match, ScanMatches, TypeOK
      <3>2. table[t].command # j
        BY <3>1 DEF Invoke
      <3> QED
        BY <1>6, <1>7, <1>9, <3>1, <3>2
    <2> QED
      BY <1>0, <1>2, <2>1 DEF Match, ScanMatches
  <1> QED
    BY <1>11, <1>12, <1>13, <1>14, <1>15, <1>16 DEF Match

\* Steps that neither begin nor settle a command.
LEMMA ScanKeeps ==
    ASSUME Match, UNCHANGED <<table, client, expiring, bus, method, settled>>
    PROVE  ScanMatches'
  BY DEF Match, ScanMatches

\* Steps that leave the pools alone.
LEMMA SlotsKeep ==
    ASSUME Match, UNCHANGED <<continuations, replies, method, answers>>,
           settled \subseteq settled', \A s \in Slots : Awaited(s)' = Awaited(s)
    PROVE  SlotsMatch' /\ SlotsDiffer'
  <1>1. SlotsDiffer'
    BY DEF Match, SlotsDiffer
  <1>2. SlotsMatch'
    <2>1. ASSUME NEW s \in Slots, NEW j \in Commands \cup {None}, Uses(s, j)
          PROVE  /\ j # None /\ continuations[s].task \in Slots
                 /\ replies[continuations[s].task] = j
                 /\ method[j] # None /\ answers[j] = 0
                 /\ Due(s, j)'
      BY <2>1, DueKeeps DEF Match, SlotsMatch
    <2> QED
      BY <2>1 DEF SlotsMatch, Uses
  <1> QED
    BY <1>1, <1>2

LEMMA ClaimMatch ==
    ASSUME RInv, NEW c \in Clients, ClaimTransferId(c)
    PROVE  Match'
  <1> DEFINE n == Len(client[c].ids)
             k == client[c].command
  <1>0. TypeOK /\ IInv /\ Match
    BY DEF RInv, IInv
  <1>1. PICK t \in TransferIds : t = LowestFree /\ table[t] = None
    BY FreeIdType DEF ClaimTransferId
  <1>2. /\ client[c].pc = "claim" /\ k \in Commands /\ client[c].slot \in Slots
        /\ client[c].stamp \in Nat /\ client[c].ids \in Seq(TransferIds) /\ n \in Nat
        /\ client[c] = [pc |-> "claim", command |-> k,
                        slot |-> client[c].slot, reply |-> client[c].reply,
                        stamp |-> client[c].stamp, ids |-> client[c].ids]
        /\ Pending(c, k)
    <2>1. client[c].pc = "claim"
      BY DEF ClaimTransferId
    <2> QED
      BY <1>0, <2>1, ClientType, NoTaskYet, LenProperties
  <1>3. PICK e \in Entry : e = [slot |-> client[c].slot, stamp |-> client[c].stamp,
                                command |-> k, batch |-> n + 1]
    <2>1. n + 1 \in Nat \ {0}
      BY <1>2
    <2> QED
      BY <1>2, <2>1 DEF Entry
  <1>4. /\ table' = [table EXCEPT ![t] = e] /\ e # None
        /\ client' = [client EXCEPT ![c].ids = Append(@, t)]
        /\ UNCHANGED <<continuations, replies, response, tasks, bus, method, answers, settled>>
        /\ expiring' = {}
    BY <1>1, <1>3, NoneAssumption DEF ClaimTransferId
  <1>5. /\ table'[t] = e /\ t \notin ClaimedIds /\ ClaimedIds' = ClaimedIds \cup {t}
        /\ \A u \in ClaimedIds : u # t /\ table'[u] = table[u]
    <2>1. /\ table'[t] = e /\ \A u \in TransferIds : u # t => table'[u] = table[u]
      BY <1>0, <1>4 DEF TypeOK
    <2> QED
      BY <1>1, <1>4, <2>1 DEF ClaimedIds, FreeIds
  <1>6. /\ client'[c].pc = "claim" /\ client'[c].command = k
        /\ client'[c].slot = client[c].slot /\ client'[c].reply = client[c].reply
        /\ client'[c].stamp = client[c].stamp /\ client'[c].ids = Append(client[c].ids, t)
        /\ \A d \in Clients : d # c => client'[d] = client[d]
        /\ \A d \in Clients : client'[d].command = client[d].command
    <2>1. client'[c] = [client[c] EXCEPT !.ids = Append(client[c].ids, t)]
          /\ \A d \in Clients : d # c => client'[d] = client[d]
      BY <1>0, <1>4 DEF TypeOK
    <2>2. client'[c] = [pc |-> "claim", command |-> k,
                       slot |-> client[c].slot, reply |-> client[c].reply,
                       stamp |-> client[c].stamp, ids |-> Append(client[c].ids, t)]
      BY <1>2, <2>1
    <2> QED
      BY <2>1, <2>2
  <1>7. /\ Len(client'[c].ids) = n + 1 /\ client'[c].ids[n + 1] = t
        /\ \A i \in 1..n : client'[c].ids[i] = client[c].ids[i]
    BY <1>2, <1>6, AppendProperties
  <1>8. SlotsMatch' /\ SlotsDiffer'
    BY <1>0, <1>4, ClaimInv, SlotsKeep
  <1>9. ClientsMatch'
    <2>1. UNCHANGED <<continuations, bus, method, answers>>
      BY <1>4
    <2>2. Pending(c, client[c].command)'
      <3>1. ASSUME NEW i \in 1..Len(client'[c].ids)
            PROVE  /\ client'[c].ids[i] \in ClaimedIds'
                   /\ table'[client'[c].ids[i]].slot = client'[c].slot
                   /\ table'[client'[c].ids[i]].stamp = client'[c].stamp
                   /\ table'[client'[c].ids[i]].command = client'[c].command
                   /\ table'[client'[c].ids[i]].batch = i
        <4>1. CASE i = n + 1
          <5>1. client'[c].ids[i] = t /\ t \in ClaimedIds' /\ table'[t] = e
            BY <1>5, <1>7, <4>1
          <5> QED
            BY <1>3, <1>6, <4>1, <5>1
        <4>2. CASE i # n + 1
          <5>1. i \in 1..n
            BY <1>2, <1>7, <4>2
          <5>2. ClaimedFor(c, k, i, client[c].ids[i]) /\ client'[c].ids[i] = client[c].ids[i]
            BY <1>2, <1>7, <5>1 DEF Pending
          <5>3. client[c].ids[i] \in ClaimedIds' /\ table'[client[c].ids[i]] = table[client[c].ids[i]]
            BY <1>5, <5>2 DEF ClaimedFor
          <5> QED
            BY <1>6, <5>2, <5>3 DEF ClaimedFor
        <4> QED
          BY <4>1, <4>2
      <3>2. /\ method[k] # None /\ answers[k] = 0 /\ Uses(client[c].slot, k)
            /\ continuations[client[c].slot].task = client[c].reply
            /\ \A a \in bus : a.command # k
            /\ \A d \in Clients : client'[d].command = k => d = c
        BY <1>2, <1>6 DEF Pending
      <3>3. /\ method'[client'[c].command] # None /\ answers'[client'[c].command] = 0
            /\ continuations'[client'[c].slot].claimed
            /\ continuations'[client'[c].slot].user = client'[c].command
            /\ continuations'[client'[c].slot].task = client'[c].reply
            /\ \A a \in bus' : a.command # client'[c].command
            /\ \A d \in Clients : client'[d].command = client'[c].command => d = c
            /\ client'[c].pc # "idle"
        BY <1>6, <2>1, <3>2 DEF Uses
      <3> QED
        BY <3>1, <3>3 DEF Pending, Uses, ClaimedFor
    <2>3. ASSUME NEW d \in Clients, client'[d].command # None, d # c
          PROVE  Pending(d, client[d].command)'
      <3>1. client'[d] = client[d] /\ Pending(d, client[d].command)
        BY <1>0, <1>6, <2>3 DEF Match, ClientsMatch
      <3>2. client[d].pc = "claim" => \A i \in 1..Len(client[d].ids) :
               /\ client[d].ids[i] \in ClaimedIds'
               /\ table'[client[d].ids[i]] = table[client[d].ids[i]]
        BY <1>5, <3>1 DEF Pending, ClaimedFor
      <3>3. \A f \in Clients : client'[f].command = client[d].command => f = d
        BY <1>6, <3>1 DEF Pending
      <3> QED
        BY <2>1, <3>1, <3>2, <3>3 DEF Pending, Uses, ClaimedFor
    <2> QED
      BY <2>2, <2>3 DEF ClientsMatch
  <1>10. BusMatches'
    BY <1>0, <1>4, <1>5 DEF Match, BusMatches
  <1>11. Settles'
    BY <1>0, <1>4 DEF Match, Settles
  <1>12. ScanMatches'
    BY <1>4 DEF ScanMatches
  <1> QED
    BY <1>8, <1>9, <1>10, <1>11, <1>12 DEF Match

LEMMA BackOffMatch ==
    ASSUME RInv, NEW c \in Clients, BackOff(c), client[c].ids = <<>>
    PROVE  Match'
  <1> DEFINE s == client[c].slot
             j == client[c].command
             r == client[c].reply
  <1>0. TypeOK /\ IInv /\ Match
    BY DEF RInv, IInv
  <1>1. /\ client[c].pc = "claim" /\ client[c].ids = <<>> /\ s \in Slots /\ r \in Slots
        /\ j \in Commands /\ Pending(c, j)
    <2>1. client[c].pc = "claim"
      BY DEF BackOff
    <2> QED
      BY <1>0, <2>1, ClientType, NoTaskYet
  <1>2. /\ continuations' = [continuations EXCEPT ![s] = ResetContinuation]
        /\ replies' = [replies EXCEPT ![r] = ReleasedReply(@)]
        /\ client' = [client EXCEPT ![c] = [pc |-> "idle", command |-> @.command]]
        /\ UNCHANGED <<response, tasks, bus, method, answers, settled>> /\ expiring' = {}
    BY DEF BackOff
  <1>3. table' = table
    <2>1. {client[c].ids[i] : i \in Unwound(Len(client[c].ids))} = {}
      BY <1>1 DEF Unwound
    <2>2. table' = [t \in TransferIds |-> table[t]]
      BY <2>1 DEF BackOff
    <2> QED
      BY <1>0, <2>2 DEF TypeOK
  <1>4. ClaimedIds' = ClaimedIds
    BY <1>3 DEF ClaimedIds, FreeIds
  <1> HIDE DEF s, j, r
  <1>5. /\ ~continuations'[s].claimed
        /\ \A u \in Slots : u # s => continuations'[u] = continuations[u]
    BY <1>0, <1>1, <1>2 DEF TypeOK, ResetContinuation
  <1>6. \A u \in Slots : u # r => replies'[u] = replies[u]
    BY <1>0, <1>1, <1>2 DEF TypeOK
  <1>7. /\ client'[c].pc = "idle" /\ client'[c].command = j
        /\ \A d \in Clients : d # c => client'[d] = client[d]
    <2>1. client' = [client EXCEPT ![c] = [pc |-> "idle", command |-> client[c].command]]
      BY <1>2
    <2> QED
      BY <1>0, <2>1 DEF TypeOK, j
  <1>8. continuations[s].claimed /\ continuations[s].user = j /\ continuations[s].task = r
    BY <1>1 DEF Pending, Uses, s, j, r
  <1>9. ASSUME NEW u \in Slots, continuations'[u].claimed
        PROVE  /\ u # s /\ continuations'[u] = continuations[u]
               /\ continuations[u].user # j /\ continuations[u].task # r
    BY <1>0, <1>1, <1>5, <1>8, <1>9 DEF Match, SlotsDiffer
  <1>10. SlotsMatch'
    <2>1. ASSUME NEW u \in Slots, NEW k \in Commands \cup {None}, continuations'[u].claimed,
                 continuations'[u].user = k
          PROVE  /\ k # None /\ continuations'[u].task \in Slots
                 /\ replies'[continuations'[u].task] = k
                 /\ method[k] # None /\ answers[k] = 0
                 /\ Due(u, k)'
      <3>1. continuations'[u] = continuations[u] /\ continuations[u].task # r /\ u # s
        BY <1>9, <2>1
      <3>2. /\ k \in Commands /\ continuations[u].task \in Slots
            /\ replies[continuations[u].task] = k
            /\ method[k] # None /\ answers[k] = 0 /\ Due(u, k)
        BY <2>1, <3>1, UsedBy
      <3>3. Awaited(u)' = Awaited(u)
        BY <1>0, <3>1, BackOffInv DEF s
      <3>4. Due(u, k)'
        BY <1>2, <3>2, <3>3, DueKeeps
      <3> QED
        BY <1>6, <3>1, <3>2, <3>4, NoneAssumption
    <2> QED
      BY <1>2, <2>1 DEF SlotsMatch, Uses
  <1>11. SlotsDiffer'
    BY <1>0, <1>9 DEF Match, SlotsDiffer
  <1>12. ClientsMatch'
    <2>1. UNCHANGED <<table, bus, method, answers>>
      BY <1>2, <1>3
    <2>2. \A d \in Clients : client'[d].command = client[d].command
      BY <1>7 DEF j
    <2>3. ASSUME NEW d \in Clients, client'[d].command # None
          PROVE  Pending(d, client[d].command)'
      <3>1. CASE d = c
        <4>1. \A u \in Slots : ~(continuations'[u].claimed /\ continuations'[u].user = j)
          BY <1>9
        <4>2. Pending(c, j)
          BY <1>1
        <4>3. Pending(c, client[c].command)'
          BY <1>7, <2>1, <2>2, <4>1, <4>2 DEF Pending, Uses
        <4> QED
          BY <3>1, <4>3
      <3>2. CASE d # c
        <4>1. client'[d] = client[d] /\ Pending(d, client[d].command) /\ client[d].command # j
          <5>1. client'[d] = client[d] /\ Pending(d, client[d].command)
            BY <1>0, <1>7, <2>3, <3>2 DEF Match, ClientsMatch
          <5> QED
            BY <1>1, <3>2, <5>1 DEF Pending
        <4>2. client[d].pc = "claim" =>
                continuations'[client[d].slot] = continuations[client[d].slot]
          BY <1>0, <1>5, <1>8, <4>1, ClientType DEF Pending, Uses
        <4>3. \A u \in Slots :
                continuations'[u].claimed /\ continuations'[u].user = client[d].command
                  => Uses(u, client[d].command)
          BY <1>9 DEF Uses
        <4> QED
          BY <1>4, <2>1, <2>2, <4>1, <4>2, <4>3 DEF Pending, Uses, ClaimedFor
      <3> QED
        BY <3>1, <3>2
    <2> QED
      BY <2>3 DEF ClientsMatch
  <1>13. BusMatches' /\ Settles'
    BY <1>0, <1>2, <1>3, <1>4 DEF Match, BusMatches, Settles
  <1>14. ScanMatches'
    BY <1>2 DEF ScanMatches
  <1> QED
    BY <1>10, <1>11, <1>12, <1>13, <1>14 DEF Match

LEMMA SendMatch ==
    ASSUME RInv, NEW c \in Clients, SendRequests(c)
    PROVE  Match'
  <1> DEFINE j == client[c].command
             ids == client[c].ids
  <1>0. TypeOK /\ IInv /\ Match
    BY DEF RInv, IInv
  <1>1. client[c].pc = "claim" /\ Pending(c, j) /\ SentBatches(c) = 1..Len(ids)
    <2>1. client[c].pc = "claim" /\ Len(ids) = Batches(c)
      BY DEF SendRequests
    <2> QED
      BY <2>1, NoTaskYet DEF SentBatches
  <1>2. \A a \in bus' : \/ a \in bus
                        \/ \E b \in 1..Len(ids) : a = [id |-> ids[b], command |-> j, batch |-> b]
    BY <1>1 DEF SendRequests
  <1>3. /\ client' = [client EXCEPT ![c] = Idle]
        /\ UNCHANGED <<table, continuations, replies, response, expiring, tasks, method,
                       answers, settled>>
    BY DEF SendRequests
  <1>4. \A b \in 1..Len(ids) :
           ids[b] \in ClaimedIds /\ table[ids[b]].command = j /\ table[ids[b]].batch = b
    BY <1>1 DEF Pending, ClaimedFor
  <1>5. \A a \in bus' : \/ a \in bus
                        \/ /\ a.command = j /\ a.id \in ClaimedIds
                           /\ table[a.id].command = j /\ table[a.id].batch = a.batch
    <2>1. ASSUME NEW b \in 1..Len(ids), NEW a, a = [id |-> ids[b], command |-> j, batch |-> b]
          PROVE  /\ a.command = j /\ a.id \in ClaimedIds
                 /\ table[a.id].command = j /\ table[a.id].batch = a.batch
      BY <1>4, <2>1
    <2> QED
      BY <1>2, <2>1
  <1> HIDE DEF j, ids
  <1>6. ClaimedIds' = ClaimedIds
    BY <1>3 DEF ClaimedIds, FreeIds
  <1>7. client'[c].command = None /\ \A d \in Clients : d # c => client'[d] = client[d]
    BY <1>0, <1>3 DEF TypeOK, Idle
  <1>8. SlotsMatch' /\ SlotsDiffer'
    BY <1>0, <1>3, SendInv, SlotsKeep
  <1>9. ClientsMatch'
    <2>1. ASSUME NEW d \in Clients, client'[d].command # None
          PROVE  Pending(d, client[d].command)'
      <3>1. d # c /\ client'[d] = client[d] /\ Pending(d, client[d].command)
        BY <1>0, <1>7, <2>1 DEF Match, ClientsMatch
      <3>2. client[d].command # j
        BY <1>1, <3>1 DEF Pending
      <3>3. \A b \in bus' : b.command # client[d].command
        BY <1>5, <3>1, <3>2 DEF Pending
      <3>4. \A e \in Clients : client'[e].command = client[d].command => e = d
        BY <1>7, <2>1, <3>1 DEF Pending
      <3>5. UNCHANGED <<table, continuations, method, answers>>
        BY <1>3
      <3> QED
        BY <1>6, <3>1, <3>3, <3>4, <3>5 DEF Pending, Uses, ClaimedFor
    <2> QED
      BY <2>1 DEF ClientsMatch
  <1>10. BusMatches'
    BY <1>0, <1>3, <1>5, <1>6 DEF Match, BusMatches
  <1>11. Settles'
    BY <1>0, <1>3 DEF Match, Settles
  <1>12. ScanMatches'
    <2>1. ASSUME NEW t \in expiring, NEW a \in bus'
          PROVE  a.id # t
      <3>1. client[c].command # table[t].command /\ \A b \in bus : b.id # t
        BY <1>0, <2>1 DEF Match, ScanMatches
      <3> QED
        BY <1>5, <3>1 DEF j
    <2>2. \A t \in expiring : table[t].command # None
      BY <1>0, TableType, NoneAssumption DEF TypeOK
    <2> QED
      BY <1>0, <1>3, <1>7, <2>1, <2>2 DEF Match, ScanMatches
  <1> QED
    BY <1>8, <1>9, <1>10, <1>11, <1>12 DEF Match

-----------------------------------------------------------------------------
(* The inbox thread. *)

LEMMA ResponseMatch ==
    ASSUME RInv, NEW a \in bus, HandleResponse(a)
    PROVE  Match'
  <1> DEFINE t == a.id
  <1>0. TypeOK /\ IInv /\ Match
    BY DEF RInv, IInv
  <1>1. /\ t \in ClaimedIds /\ table[t].command = a.command /\ table[t].batch = a.batch
        /\ a.command \in Commands
        /\ a \in [id : TransferIds, command : Commands, batch : Nat \ {0}]
    BY <1>0 DEF Match, BusMatches, TypeOK
  <1>2. table[t] # None
    BY <1>1 DEF ClaimedIds, FreeIds
  <1>3. /\ bus' = bus \ {a} /\ settled' = settled \cup {<<a.command, a.batch>>}
        /\ response' = table[t] /\ table' = [table EXCEPT ![t] = None]
        /\ UNCHANGED <<continuations, replies, client, tasks, method, answers>> /\ expiring' = {}
    BY <1>1, <1>2 DEF HandleResponse
  <1>4. /\ ClaimedIds' = ClaimedIds \ {t}
        /\ \A u \in ClaimedIds' : u \in ClaimedIds /\ table'[u] = table[u]
    <2>1. t \in TransferIds
      BY <1>1
    <2> HIDE DEF t
    <2>2. table'[t] = None /\ \A u \in TransferIds : u # t => table'[u] = table[u]
      BY <1>0, <1>3, <2>1 DEF TypeOK
    <2>3. ClaimedIds' = ClaimedIds \ {t}
      BY <2>2 DEF ClaimedIds, FreeIds
    <2> QED
      BY <2>2, <2>3 DEF ClaimedIds
  <1>5. SlotsMatch' /\ SlotsDiffer'
    BY <1>0, <1>3, ResponseInv, SlotsKeep
  \* The one request on the bus with this transfer ID was this one.
  <1>6. \A b \in bus' : b.id # t
    <2>1. ASSUME NEW b \in bus', b.id = t PROVE FALSE
      <3>1. b \in bus /\ b # a
        BY <1>3
      <3>2. b.id = a.id /\ b.command = a.command /\ b.batch = a.batch
        BY <1>0, <1>1, <2>1, <3>1 DEF Match, BusMatches
      <3>3. b \in [id : TransferIds, command : Commands, batch : Nat \ {0}]
        BY <1>0, <3>1 DEF TypeOK
      <3> QED
        BY <1>1, <3>1, <3>2, <3>3
    <2> QED
      BY <2>1
  <1> HIDE DEF t
  <1>7. ClientsMatch'
    <2>1. UNCHANGED <<continuations, client, method, answers>> /\ bus' \subseteq bus
      BY <1>3
    <2>2. ASSUME NEW d \in Clients, client[d].command # None
          PROVE  Pending(d, client[d].command)'
      <3>1. Pending(d, client[d].command)
        BY <1>0, <2>2 DEF Match, ClientsMatch
      <3>2. client[d].command # a.command
        BY <3>1 DEF Pending
      <3>3. \A u \in ClaimedIds : table[u].command = client[d].command =>
                u \in ClaimedIds' /\ table'[u] = table[u]
        BY <1>1, <1>4, <3>2
      <3>4. client[d].pc = "claim" => \A i \in 1..Len(client[d].ids) :
               client[d].ids[i] \in ClaimedIds' /\ table'[client[d].ids[i]] = table[client[d].ids[i]]
        BY <3>1, <3>3 DEF Pending, ClaimedFor
      <3> QED
        BY <2>1, <3>1, <3>4 DEF Pending, Uses, ClaimedFor
    <2> QED
      BY <2>1, <2>2 DEF ClientsMatch
  <1>8. BusMatches'
    BY <1>0, <1>3, <1>4, <1>6 DEF Match, BusMatches
  <1>9. Settles'
    BY <1>0, <1>1, <1>3 DEF Match, Settles
  <1>10. ScanMatches'
    BY <1>3 DEF ScanMatches
  <1> QED
    BY <1>5, <1>7, <1>8, <1>9, <1>10 DEF Match

LEMMA NextContinuationMatch ==
    ASSUME RInv, NextContinuation
    PROVE  Match'
  <1> DEFINE s == response.slot
  <1>0. TypeOK /\ IInv /\ Match
    BY DEF RInv, IInv
  <1>1. /\ response # None /\ s \in Slots /\ continuations[s].claimed
        /\ continuations[s].user = response.command
        /\ <<continuations[s].user, response.batch>> \in settled
    BY <1>0, ResponseUses DEF NextContinuation, Uses, Match, Settles
  <1>2. /\ response' = None
        /\ continuations' = [continuations EXCEPT ![s].countdown = continuations[s].countdown - 1]
        /\ tasks' = [tasks EXCEPT ![s] =
              IF continuations[s].countdown - 1 = Ultimate THEN @ + 1 ELSE @]
        /\ UNCHANGED <<table, replies, client, expiring, bus, method, answers, settled>>
    BY DEF NextContinuation
  <1>3. \A u \in Slots : Awaited(u)' = IF s = u THEN Awaited(u) \ {response.batch} ELSE Awaited(u)
    BY <1>0, NextContinuationInv
  <1> HIDE DEF s
  <1>4. \A u \in Slots : /\ continuations'[u].claimed = continuations[u].claimed
                         /\ continuations'[u].user = continuations[u].user
                         /\ continuations'[u].task = continuations[u].task
    <2>1. continuations \in [Slots -> [claimed : BOOLEAN, countdown : Int,
              task : Slots \cup {None}, user : Commands \cup {None}]]
      BY <1>0 DEF TypeOK
    <2> QED
      BY <1>1, <1>2, <2>1
  <1>5. SlotsMatch'
    <2>1. ASSUME NEW u \in Slots, NEW k \in Commands \cup {None}, continuations'[u].claimed,
                 continuations'[u].user = k
          PROVE  /\ k # None /\ continuations'[u].task \in Slots
                 /\ replies[continuations'[u].task] = k
                 /\ method[k] # None /\ answers[k] = 0
                 /\ Due(u, k)'
      <3>1. /\ continuations[u].claimed /\ continuations[u].user = k
            /\ continuations'[u].task = continuations[u].task
        BY <1>4, <2>1
      <3>2. \A b \in Nat : b \in Awaited(u) => b \in Awaited(u)' \/ <<k, b>> \in settled'
        BY <1>1, <1>2, <1>3, <3>1
      <3>3. Due(u, k)
        BY <3>1, UsedBy
      <3>4. Due(u, k)'
        BY <1>2, <3>2, <3>3, DueKeeps
      <3> QED
        BY <3>1, <3>4, UsedBy, NoneAssumption
    <2> QED
      BY <1>2, <2>1 DEF SlotsMatch, Uses
  <1>6. SlotsDiffer'
    BY <1>0, <1>4 DEF Match, SlotsDiffer
  <1>7. ClaimedIds' = ClaimedIds
    BY <1>2 DEF ClaimedIds, FreeIds
  <1>8. ClientsMatch'
    <2>1. UNCHANGED <<table, client, bus, method, answers>>
      BY <1>2
    <2>2. ASSUME NEW d \in Clients, client[d].command # None
          PROVE  Pending(d, client[d].command)'
      <3>1. Pending(d, client[d].command)
        BY <1>0, <2>2 DEF Match, ClientsMatch
      <3>2. client[d].pc = "claim" => client[d].slot \in Slots
        BY <1>0, ClientType
      <3> QED
        BY <1>4, <1>7, <2>1, <3>1, <3>2 DEF Pending, Uses, ClaimedFor
    <2> QED
      BY <2>1, <2>2 DEF ClientsMatch
  <1>9. BusMatches' /\ Settles'
    BY <1>0, <1>2, <1>7 DEF Match, BusMatches, Settles
  <1>10. ScanMatches'
    BY <1>0, <1>2, ScanKeeps
  <1> QED
    BY <1>5, <1>6, <1>8, <1>9, <1>10 DEF Match

-----------------------------------------------------------------------------
(* The heartbeat. *)

\* No client is held up in a request, and no answer comes after the expiry.
LEMMA AbortExpiredMatch ==
    ASSUME ~LateAnswers, RInv, NEW stamps, AbortExpired(stamps)
    PROVE  Match'
  <1> DEFINE expired == {t \in ClaimedIds : table[t].stamp \in stamps}
             batches == {<<table[t].command, table[t].batch>> : t \in expired}
  <1>0. TypeOK /\ IInv /\ Match
    BY DEF RInv, IInv
  <1>1. /\ expiring = {} /\ expiring' = expired
        /\ settled' = settled \cup batches
        /\ bus' = {a \in bus : <<a.command, a.batch>> \notin batches}
        /\ UNCHANGED <<table, continuations, replies, client, response, tasks, method, answers>>
        /\ \A c \in Clients : client[c].pc = "claim" => client[c].stamp \notin stamps
    BY DEF AbortExpired
  <1>2. \A t \in expired : /\ t \in ClaimedIds /\ table[t].stamp \in stamps
                           /\ <<table[t].command, table[t].batch>> \in batches
    OBVIOUS
  <1> HIDE DEF expired, batches
  <1>3. ClaimedIds' = ClaimedIds
    BY <1>1 DEF ClaimedIds, FreeIds
  <1>4. SlotsMatch' /\ SlotsDiffer'
    BY <1>0, <1>1, AbortExpiredInv, SlotsKeep
  <1>5. ClientsMatch'
    <2>1. UNCHANGED <<table, continuations, client, method, answers>> /\ bus' \subseteq bus
      BY <1>1
    <2>2. ASSUME NEW d \in Clients, client[d].command # None
          PROVE  Pending(d, client[d].command)'
      BY <1>0, <1>3, <2>1, <2>2 DEF Match, ClientsMatch, Pending, Uses, ClaimedFor
    <2> QED
      BY <2>1, <2>2 DEF ClientsMatch
  <1>6. BusMatches' /\ Settles'
    BY <1>0, <1>1, <1>3 DEF Match, BusMatches, Settles
  <1>7. ScanMatches'
    <2>1. ASSUME NEW t \in expired, NEW a \in bus' PROVE a.id # t
      BY <1>0, <1>1, <1>2, <2>1 DEF Match, BusMatches
    <2>2. ASSUME NEW t \in expired
          PROVE  /\ method[table[t].command] # None
                 /\ \A c \in Clients : client[c].command # table[t].command
      <3> DEFINE s == table[t].slot
                 j == table[t].command
      <3>1. t \in ClaimedIds /\ ~TimedOut(t)
        BY <1>1, <1>2 DEF TimedOut
      <3>2. Uses(s, j) /\ s \in Slots /\ j \in Commands
        BY <1>0, <3>1, EntryUses, TableType
      <3>3. ASSUME NEW c \in Clients, client[c].command = j PROVE FALSE
        <4>1. Pending(c, j) /\ client[c].pc = "claim" /\ client[c].slot \in Slots
          <5>1. Pending(c, j) /\ client[c].pc \in {"idle", "claim"}
            BY <1>0, <3>2, <3>3, ClientType, NoneAssumption DEF Match, ClientsMatch
          <5>2. client[c].pc = "claim"
            BY <3>2, <5>1 DEF Pending
          <5> QED
            BY <5>1, <5>2, NoTaskYet
        <4>2. client[c].slot = s
          BY <3>2, <4>1, OneUser DEF Pending
        <4>3. table[t].stamp = client[c].stamp
          <5>1. CASE Preparing(c)
            BY <1>0, <3>1, <4>1, <4>2, <5>1 DEF IInv, Own, ClientsOwn
          <5>2. CASE ~Preparing(c)
            <6>1. Batches(c) \in Nat \ {0} /\ Len(client[c].ids) \in Nat
              BY <1>0, <4>1, BatchesType DEF IInv, Own, ClientsOwn
            <6>2. 1 \in 1..Len(client[c].ids)
              BY <4>1, <5>2, <6>1 DEF Preparing
            <6>3. PICK u \in ClaimedIds : table[u].slot = s /\ table[u].stamp = client[c].stamp
              BY <4>1, <4>2, <6>2 DEF Pending, ClaimedFor
            <6> QED
              BY <1>0, <3>1, <6>3 DEF IInv, Own, EntriesOwn
          <5> QED
            BY <5>1, <5>2
        <4> QED
          BY <1>1, <1>2, <4>1, <4>3
      <3> QED
        BY <1>0, <3>2, <3>3 DEF Match, SlotsMatch
    <2> QED
      BY <1>1, <1>2, <2>1, <2>2 DEF ScanMatches
  <1> QED
    BY <1>4, <1>5, <1>6, <1>7 DEF Match

LEMMA AbortNextMatch ==
    ASSUME RInv, AbortNext,
           response # None => response.slot # table[Min(expiring)].slot,
           \A c \in Clients : Preparing(c) => client[c].slot # table[Min(expiring)].slot
    PROVE  Match'
  <1> DEFINE t == Min(expiring)
             s == table[t].slot
  <1>0. TypeOK /\ IInv /\ Match
    BY DEF RInv, IInv
  <1>1. /\ t \in expiring /\ expiring' = expiring \ {t}
        /\ \A u \in Slots : Awaited(u)' = IF u = s THEN {} ELSE Awaited(u)
    BY <1>0, AbortNextInv
  <1>2. t \in ClaimedIds /\ s \in Slots
    BY <1>0, <1>1, TableType DEF TypeOK
  <1>3. /\ table' = [table EXCEPT ![t] = None]
        /\ continuations' = [continuations EXCEPT ![s].countdown = 0]
        /\ UNCHANGED <<replies, client, response, bus, method, answers, settled>>
    BY DEF AbortNext, Freed
  <1>4. /\ response # None => response.slot # s
        /\ \A c \in Clients : Preparing(c) => client[c].slot # s
    OBVIOUS
  <1> HIDE DEF t
  <1>5. /\ ClaimedIds' = ClaimedIds \ {t}
        /\ \A u \in ClaimedIds' : u \in ClaimedIds /\ table'[u] = table[u]
    <2>1. table'[t] = None /\ \A u \in TransferIds : u # t => table'[u] = table[u]
      BY <1>0, <1>2, <1>3, TableType DEF TypeOK
    <2>2. ClaimedIds' = ClaimedIds \ {t}
      BY <2>1 DEF ClaimedIds, FreeIds
    <2> QED
      BY <2>1, <2>2 DEF ClaimedIds
  \* What is no longer awaited has expired.
  <1>6. ASSUME NEW b \in Awaited(s)
        PROVE  <<continuations[s].user, b>> \in settled
    <2>1. Asked(s, b)
      BY <1>4, <1>6 DEF Awaited, Unclaimed, Answered
    <2>2. PICK u \in ClaimedIds : ~TimedOut(u) /\ table[u].slot = s /\ table[u].batch = b
      BY <2>1 DEF Asked
    <2>3. u \in expiring
      BY <1>0, <1>1, <2>2 DEF IInv, Own, ScanOwns
    <2>4. continuations[s].user = table[u].command
      BY <1>0, <2>2 DEF IInv, Own, EntriesOwn
    <2> QED
      BY <1>0, <2>2, <2>3, <2>4 DEF Match, ScanMatches
  <1> HIDE DEF s
  <1>7. \A u \in Slots : /\ continuations'[u].claimed = continuations[u].claimed
                         /\ continuations'[u].user = continuations[u].user
                         /\ continuations'[u].task = continuations[u].task
    <2>1. continuations \in [Slots -> [claimed : BOOLEAN, countdown : Int,
              task : Slots \cup {None}, user : Commands \cup {None}]]
      BY <1>0 DEF TypeOK
    <2> QED
      BY <1>2, <1>3, <2>1
  <1>8. SlotsMatch'
    <2>1. ASSUME NEW u \in Slots, NEW k \in Commands \cup {None}, continuations'[u].claimed,
                 continuations'[u].user = k
          PROVE  /\ k # None /\ continuations'[u].task \in Slots
                 /\ replies[continuations'[u].task] = k
                 /\ method[k] # None /\ answers[k] = 0
                 /\ Due(u, k)'
      <3>1. /\ continuations[u].claimed /\ continuations[u].user = k
            /\ continuations'[u].task = continuations[u].task
        BY <1>7, <2>1
      <3>2. \A b \in Nat : b \in Awaited(u) => b \in Awaited(u)' \/ <<k, b>> \in settled'
        BY <1>1, <1>3, <1>6, <3>1
      <3>3. Due(u, k)
        BY <3>1, UsedBy
      <3>4. Due(u, k)'
        BY <1>3, <3>2, <3>3, DueKeeps
      <3> QED
        BY <3>1, <3>4, UsedBy, NoneAssumption
    <2> QED
      BY <1>3, <2>1 DEF SlotsMatch, Uses
  <1>9. SlotsDiffer'
    BY <1>0, <1>7 DEF Match, SlotsDiffer
  <1>10. ClientsMatch'
    <2>1. UNCHANGED <<client, bus, method, answers>>
      BY <1>3
    <2>2. ASSUME NEW d \in Clients, client[d].command # None
          PROVE  Pending(d, client[d].command)'
      <3>1. Pending(d, client[d].command) /\ client[d].command # table[t].command
        BY <1>0, <1>1, <2>2 DEF Match, ClientsMatch, ScanMatches
      <3>2. client[d].pc = "claim" => client[d].slot \in Slots
        BY <1>0, ClientType
      <3>3. client[d].pc = "claim" => \A i \in 1..Len(client[d].ids) :
               client[d].ids[i] \in ClaimedIds' /\ table'[client[d].ids[i]] = table[client[d].ids[i]]
        BY <1>5, <3>1 DEF Pending, ClaimedFor
      <3> QED
        BY <1>7, <2>1, <3>1, <3>2, <3>3 DEF Pending, Uses, ClaimedFor
    <2> QED
      BY <2>1, <2>2 DEF ClientsMatch
  <1>11. BusMatches'
    BY <1>0, <1>1, <1>3, <1>5 DEF Match, BusMatches, ScanMatches
  <1>12. Settles'
    BY <1>0, <1>3 DEF Match, Settles
  <1>13. ScanMatches'
    <2>1. \A u \in expiring' : u \in expiring /\ table'[u] = table[u]
      BY <1>0, <1>1, <1>5 DEF TypeOK
    <2> QED
      BY <1>0, <1>3, <2>1 DEF Match, ScanMatches
  <1> QED
    BY <1>8, <1>9, <1>10, <1>11, <1>12, <1>13 DEF Match

-----------------------------------------------------------------------------
(* The global pool. *)

LEMMA RunTaskMatch ==
    ASSUME RInv, NEW s \in Slots, RunTask(s)
    PROVE  Match'
  <1> DEFINE j == continuations[s].user
             r == continuations[s].task
  <1>0. TypeOK /\ IInv /\ Match
    BY DEF RInv, IInv
  <1>1. /\ tasks[s] > 0 /\ continuations[s].claimed /\ Uses(s, j) /\ j \in Commands /\ r \in Slots
        /\ replies[r] = j /\ method[j] # None
        /\ \A b \in 1..method[j].batches : <<j, b>> \in settled
    <2>1. tasks[s] > 0 /\ tasks[s] \in {0, 1} /\ continuations[s].claimed
      BY <1>0, SlotType DEF RunTask, IInv, Own, SlotsOwn, SlotOwn
    <2>2. Awaited(s) = {}
      BY <1>0, <2>1, Waiting
    <2> QED
      BY <2>1, <2>2, UsedBy DEF Due
  <1>2. /\ continuations' = [continuations EXCEPT ![s].claimed = FALSE, ![s].user = None]
        /\ tasks' = [tasks EXCEPT ![s] = @ - 1]
        /\ UNCHANGED <<table, client, response, expiring, bus, method, settled>>
    BY DEF RunTask
  <1>3. /\ \A u \in Slots : u # r => replies'[u] = replies[u]
        /\ \A k \in Commands : k # j => answers'[k] = answers[k]
    <2>1. CASE r = None \/ replies[r] = None
      BY <2>1 DEF RunTask
    <2>2. CASE ~(r = None \/ replies[r] = None)
      <3>1. answers' = [answers EXCEPT ![j] = @ + 1] /\ replies' = [replies EXCEPT ![r] = None]
        BY <1>1, <2>2 DEF RunTask
      <3> HIDE DEF j, r
      <3> QED
        BY <1>0, <3>1 DEF TypeOK
    <2> QED
      BY <2>1, <2>2
  <1> HIDE DEF r
  <1>4. /\ ~continuations'[s].claimed
        /\ \A u \in Slots : u # s => continuations'[u] = continuations[u]
    BY <1>0, <1>2 DEF TypeOK
  <1>5. ASSUME NEW u \in Slots, continuations'[u].claimed
        PROVE  /\ u # s /\ continuations'[u] = continuations[u]
               /\ continuations[u].user # j /\ continuations[u].task # r
    <2>1. u # s /\ continuations'[u] = continuations[u]
      BY <1>4, <1>5
    <2> QED
      BY <1>0, <1>1, <1>5, <2>1 DEF Match, SlotsDiffer, r
  <1>6. SlotsMatch'
    <2>1. ASSUME NEW u \in Slots, NEW k \in Commands \cup {None}, continuations'[u].claimed,
                 continuations'[u].user = k
          PROVE  /\ k # None /\ continuations'[u].task \in Slots
                 /\ replies'[continuations'[u].task] = k
                 /\ method[k] # None /\ answers'[k] = 0
                 /\ Due(u, k)'
      <3>1. /\ continuations'[u] = continuations[u] /\ k # j /\ continuations[u].task # r
        BY <1>5, <2>1
      <3>2. /\ k \in Commands /\ continuations[u].task \in Slots
            /\ replies[continuations[u].task] = k
            /\ method[k] # None /\ answers[k] = 0 /\ Due(u, k)
        BY <2>1, <3>1, UsedBy
      <3>3. Awaited(u)' = Awaited(u)
        BY <1>0, RunTaskInv
      <3>4. Due(u, k)'
        BY <1>2, <3>2, <3>3, DueKeeps
      <3> QED
        BY <1>3, <3>1, <3>2, <3>4, NoneAssumption
    <2> QED
      BY <1>2, <2>1 DEF SlotsMatch, Uses
  <1>7. SlotsDiffer'
    BY <1>0, <1>5 DEF Match, SlotsDiffer
  <1>8. ClaimedIds' = ClaimedIds
    BY <1>2 DEF ClaimedIds, FreeIds
  \* The command that is replied to is no longer any client's.
  <1>9. ClientsMatch'
    <2>1. UNCHANGED <<table, client, bus, method>>
      BY <1>2
    <2>2. ASSUME NEW d \in Clients, client[d].command # None
          PROVE  Pending(d, client[d].command)'
      <3>1. Pending(d, client[d].command) /\ client[d].command \in Commands
            /\ client[d].pc \in {"idle", "claim"}
        BY <1>0, <2>2, ClientType DEF Match, ClientsMatch
      <3>2. client[d].pc = "claim" =>
               client[d].slot \in Slots /\ client[d].slot # s
               /\ Uses(client[d].slot, client[d].command)
        BY <1>1, <3>1, NoTaskYet DEF Pending
      <3>3. client[d].command # j
        <4>1. CASE client[d].pc = "idle"
          BY <1>1, <3>1, <4>1 DEF Pending
        <4>2. CASE client[d].pc = "claim"
          BY <1>1, <3>2, <4>2, OneUser
        <4> QED
          BY <3>1, <4>1, <4>2
      <3>4. answers'[client[d].command] = 0
        BY <1>3, <3>1, <3>3 DEF Pending
      <3>5. \A u \in Slots :
              continuations'[u].claimed /\ continuations'[u].user = client[d].command
                => Uses(u, client[d].command)
        BY <1>5 DEF Uses
      <3> QED
        BY <1>4, <1>8, <2>1, <3>1, <3>2, <3>4, <3>5 DEF Pending, Uses, ClaimedFor
    <2> QED
      BY <2>1, <2>2 DEF ClientsMatch
  <1>10. BusMatches'
    BY <1>0, <1>2, <1>8 DEF Match, BusMatches
  <1>11. Settles'
    <2>1. \A k \in Commands : answers'[k] > 0 =>
             method[k] # None /\ \A b \in 1..method[k].batches : <<k, b>> \in settled
      BY <1>0, <1>1, <1>3 DEF Match, Settles
    <2> QED
      BY <1>0, <1>2, <2>1 DEF Match, Settles
  <1>12. ScanMatches'
    BY <1>0, <1>2, ScanKeeps
  <1> QED
    BY <1>6, <1>7, <1>9, <1>10, <1>11, <1>12 DEF Match

-----------------------------------------------------------------------------

LEMMA NextMatch ==
    ASSUME Counted, ~LateAnswers, RInv, [Next /\ Orderly]_vars
    PROVE  RInv'
  <1>0. IInv' /\ IInv /\ Match
    BY NextInv DEF RInv
  <1>1. CASE UNCHANGED vars
    <2>1. UNCHANGED <<table, continuations, replies, client, response, expiring, tasks, bus,
                      method, answers, settled>>
      BY <1>1 DEF vars
    <2>2. ClaimedIds' = ClaimedIds
      BY <2>1 DEF ClaimedIds, FreeIds
    <2>3. SlotsMatch' /\ SlotsDiffer'
      BY <1>0, <1>1, <2>1, StutterInv, SlotsKeep
    <2>4. ClientsMatch'
      <3>1. ASSUME NEW d \in Clients, client[d].command # None
            PROVE  Pending(d, client[d].command)'
        BY <1>0, <2>1, <2>2, <3>1 DEF Match, ClientsMatch, Pending, Uses, ClaimedFor
      <3> QED
        BY <2>1, <3>1 DEF ClientsMatch
    <2>5. BusMatches' /\ Settles' /\ ScanMatches'
      BY <1>0, <2>1, <2>2, ScanKeeps DEF Match, BusMatches, Settles
    <2> QED
      BY <1>0, <2>3, <2>4, <2>5 DEF Match, RInv
  <1>2. ASSUME Orderly, NEW c \in Clients, NEW j \in Commands, NEW m \in Methods,
               Invoke(c, j, m)
        PROVE  Match'
    BY <1>2, InvokeMatch DEF Orderly
  <1>3. ASSUME NEW c \in Clients, ClaimTransferId(c) \/ SendRequests(c)
        PROVE  Match'
    BY <1>3, ClaimMatch, SendMatch
  <1>4. ASSUME Orderly, NEW c \in Clients, BackOff(c)
        PROVE  Match'
    BY <1>4, BackOffMatch DEF Orderly
  <1>5. ASSUME NEW a \in bus, HandleResponse(a)
        PROVE  Match'
    BY <1>5, ResponseMatch
  <1>6. ASSUME NextContinuation
        PROVE  Match'
    BY <1>6, NextContinuationMatch
  <1>7. ASSUME NEW stamps \in SUBSET {table[t].stamp : t \in ClaimedIds}, AbortExpired(stamps)
        PROVE  Match'
    BY <1>7, AbortExpiredMatch
  <1>8. ASSUME Orderly, AbortNext
        PROVE  Match'
    BY <1>8, AbortNextMatch DEF Orderly
  <1>9. ASSUME NEW s \in Slots, RunTask(s)
        PROVE  Match'
    BY <1>9, RunTaskMatch
  <1> QED
    BY <1>0, <1>1, <1>2, <1>3, <1>4, <1>5, <1>6, <1>7, <1>8, <1>9 DEF Next, RInv

LEMMA RInvProperty == RInv => RepliesAreUltimate
  BY DEF RInv, Match, Settles, RepliesAreUltimate

\* While no answer comes after the expiry and every step is orderly, a command is
\* replied to only when each of its requests was answered by the module or expired:
\* for any number of frames, clients, transfer IDs and slots, however often a command
\* is tried again before it finds free ones, and though the heartbeat times its
\* continuation out on one transfer ID after another.
THEOREM BatchRepliesStayUltimate ==
    ASSUME Counted, ~LateAnswers
    PROVE  OrderlySpec => []RepliesAreUltimate
  <1>1. Init => RInv
    BY InitInv, MatchInit DEF RInv
  <1>2. RInv /\ [Next /\ Orderly]_vars => RInv'
    BY NextMatch
  <1> QED
    BY <1>1, <1>2, RInvProperty, PTL DEF OrderlySpec

\* A command of one frame is replied to only when its request was answered by the
\* module or expired, while no answer comes after the expiry: every step is orderly.
THEOREM RepliesStayUltimate ==
    ASSUME SingleFrame, ~LateAnswers
    PROVE  Spec => []RepliesAreUltimate
  BY SingleFrameInvariance, SingleFrameCounted, BatchRepliesStayUltimate, PTL
=============================================================================
