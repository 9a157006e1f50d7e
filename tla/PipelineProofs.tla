--------------------------- MODULE PipelineProofs ---------------------------
(***************************************************************************)
(* Proofs about Pipeline for every size of its rings, batches and windows. *)
(*                                                                         *)
(* TypeOK is not inductive: a batch has room for the next frame only       *)
(* because a full one is flushed before, which is BatchesFit.  The order   *)
(* of the frames needs the types, and nothing else.                        *)
(***************************************************************************)
EXTENDS Pipeline, SequenceTheorems, TLAPS

\* A thread that is not flushing has room for one more element in its batch.
BatchesFit ==
    /\ ~offering => Len(collectorBatch) < BatchCapacity
    /\ ~flushing => Len(inboxBatch) < PublicationSize

\* The inductive invariant.
IInv == TypeOK /\ BatchesFit /\ HandOverInOrder

\* The frames that are in the ring and not yet in a batch.
Uncollected == SubSeq(collector, collected + 1, Len(collector))

-----------------------------------------------------------------------------
(* Sequences. *)

\* What is left of a ring is a sequence, empty when all of it was taken.
LEMMA Rest ==
    ASSUME NEW S, NEW s \in Seq(S), NEW k \in 0..Len(s)
    PROVE  /\ SubSeq(s, k + 1, Len(s)) \in Seq(S)
           /\ Len(SubSeq(s, k + 1, Len(s))) = Len(s) - k
           /\ \A i \in 1..(Len(s) - k) : SubSeq(s, k + 1, Len(s))[i] = s[k + i]
  <1>1. Len(s) \in Nat /\ k \in Nat /\ k <= Len(s)
    BY LenProperties
  <1>2. k + 1 \in Int /\ Len(s) \in Int
    BY <1>1
  <1>3. ASSUME NEW i \in (k + 1)..Len(s)
        PROVE  s[i] \in S
    <2>1. i \in 1..Len(s)
      BY <1>1
    <2> QED
      BY <2>1, ElementOfSeq
  <1>4. /\ SubSeq(s, k + 1, Len(s)) \in Seq(S)
        /\ Len(SubSeq(s, k + 1, Len(s))) =
             IF k + 1 <= Len(s) THEN Len(s) - (k + 1) + 1 ELSE 0
        /\ \A i \in 1..(Len(s) - (k + 1) + 1) :
             SubSeq(s, k + 1, Len(s))[i] = s[(k + 1) + i - 1]
    BY <1>2, <1>3, SubSeqProperties
  <1>5. ASSUME NEW i \in 1..(Len(s) - k)
        PROVE  SubSeq(s, k + 1, Len(s))[i] = s[k + i]
    <2>1. i \in 1..(Len(s) - (k + 1) + 1) /\ (k + 1) + i - 1 = k + i
      BY <1>1
    <2> QED
      BY <1>4, <2>1
  <1> QED
    BY <1>1, <1>4, <1>5

\* Publishing one more element puts it at the end of what is left.
LEMMA RestOfAppend ==
    ASSUME NEW S, NEW s \in Seq(S), NEW e \in S, NEW k \in 0..Len(s)
    PROVE  SubSeq(Append(s, e), k + 1, Len(s) + 1)
             = SubSeq(s, k + 1, Len(s)) \o <<e>>
  <1> DEFINE t == Append(s, e)
             left == SubSeq(t, k + 1, Len(t))
             rest == SubSeq(s, k + 1, Len(s))
             right == rest \o <<e>>
  <1>1. Len(s) \in Nat /\ k \in Nat /\ k <= Len(s)
    BY LenProperties
  <1>2. /\ t \in Seq(S) /\ Len(t) = Len(s) + 1
        /\ \A i \in 1..Len(s) : t[i] = s[i]
        /\ t[Len(s) + 1] = e
    BY AppendProperties
  <1>3. /\ rest \in Seq(S) /\ Len(rest) = Len(s) - k
        /\ \A i \in 1..(Len(s) - k) : rest[i] = s[k + i]
    BY Rest
  <1>4. <<e>> \in Seq(S) /\ Len(<<e>>) = 1 /\ <<e>>[1] = e
    OBVIOUS
  <1> HIDE DEF t, rest
  <1>5. /\ left \in Seq(S) /\ Len(left) = Len(s) + 1 - k
        /\ \A i \in 1..(Len(s) + 1 - k) : left[i] = t[k + i]
    <2>1. k \in 0..Len(t)
      BY <1>1, <1>2
    <2> QED
      BY <1>2, <2>1, Rest
  <1>6. /\ right \in Seq(S) /\ Len(right) = Len(s) - k + 1
        /\ \A i \in 1..(Len(s) - k + 1) :
              right[i] = IF i <= Len(s) - k THEN rest[i] ELSE <<e>>[i - (Len(s) - k)]
    BY <1>3, <1>4, ConcatProperties
  <1> HIDE DEF left, right
  <1>7. ASSUME NEW i \in 1..Len(left)
        PROVE  left[i] = right[i]
    <2>1. i \in 1..(Len(s) + 1 - k) /\ i \in 1..(Len(s) - k + 1)
      BY <1>1, <1>5
    <2>2. CASE i <= Len(s) - k
      <3>1. i \in 1..(Len(s) - k) /\ k + i \in 1..Len(s)
        BY <1>1, <2>1, <2>2
      <3> QED
        BY <1>2, <1>3, <1>5, <1>6, <2>1, <2>2, <3>1
    <2>3. CASE i > Len(s) - k
      <3>1. k + i = Len(s) + 1 /\ i - (Len(s) - k) = 1 /\ ~(i <= Len(s) - k)
        BY <1>1, <2>1, <2>3
      <3> QED
        BY <1>2, <1>4, <1>5, <1>6, <2>1, <3>1
    <2> QED
      BY <1>1, <2>1, <2>2, <2>3
  <1>8. Len(left) = Len(right)
    BY <1>1, <1>5, <1>6
  <1>9. left = right
    BY <1>5, <1>6, <1>7, <1>8, SeqEqual
  <1> QED
    BY <1>2, <1>9 DEF left, right, t, rest

\* The frames 1..n, and one more.
Count(n) == [i \in 1..n |-> i]

LEMMA CountNext ==
    ASSUME NEW n \in Nat
    PROVE  Count(n) \in Seq(Nat) /\ Count(n) \o <<n + 1>> = Count(n + 1)
  <1>1. /\ Count(n) \in Seq(Nat) /\ Len(Count(n)) = n
        /\ Count(n + 1) \in Seq(Nat) /\ Len(Count(n + 1)) = n + 1
        /\ <<n + 1>> \in Seq(Nat) /\ Len(<<n + 1>>) = 1 /\ <<n + 1>>[1] = n + 1
    BY DEF Count
  <1> DEFINE left == Count(n) \o <<n + 1>>
  <1>2. /\ left \in Seq(Nat) /\ Len(left) = n + 1
        /\ \A i \in 1..(n + 1) :
             left[i] = IF i <= n THEN Count(n)[i] ELSE <<n + 1>>[i - n]
    BY <1>1, ConcatProperties
  <1> HIDE DEF left
  <1>3. ASSUME NEW i \in 1..(n + 1)
        PROVE  left[i] = Count(n + 1)[i]
    <2>1. CASE i <= n
      <3>1. Count(n)[i] = i /\ Count(n + 1)[i] = i
        BY <2>1 DEF Count
      <3> QED
        BY <1>2, <2>1, <3>1
    <2>2. CASE i = n + 1
      <3>1. Count(n + 1)[i] = n + 1 /\ i - n = 1 /\ ~(i <= n)
        BY <2>2 DEF Count
      <3> QED
        BY <1>1, <1>2, <3>1
    <2> QED
      BY <2>1, <2>2
  <1>4. left = Count(n + 1)
    BY <1>1, <1>2, <1>3, SeqEqual
  <1> QED
    BY <1>1, <1>4 DEF left
-----------------------------------------------------------------------------
(* The steps that move frames. *)

LEMMA InitIInv == Init => IInv
  <1> SUFFICES ASSUME Init PROVE IInv
    OBVIOUS
  <1> USE PipelineAssumption DEF Init
  <1>1. TypeOK
    <2>1. /\ <<>> \in Seq(Nat) /\ <<>> \in Seq(Kinds)
          /\ <<>> \in Seq(Kinds \cup {"feedback"}) /\ Len(<<>>) = 0
      BY EmptySeq
    <2>2. /\ 0 <= CollectorSize /\ 0 <= BatchCapacity /\ 0 <= WireCapacity
          /\ 0 <= PublicationSize /\ 0 <= InboxSize
          /\ 0 \in 0..WindowSize /\ 0 \in 0..Messages
      OBVIOUS
    <2>3. /\ collector \in Seq(Nat) /\ Len(collector) <= CollectorSize
          /\ collecting \in 0..Len(collector) /\ collected \in 0..collecting
          /\ collectorBatch \in Seq(Nat) /\ Len(collectorBatch) <= BatchCapacity
      BY <2>1, <2>2
    <2>4. /\ egressBatch \in Seq(Nat) /\ Len(egressBatch) <= BatchCapacity
          /\ accepted \in Seq(Nat)
      BY <2>1, <2>2
    <2>5. wire \in Seq(Kinds \cup {"feedback"}) /\ Len(wire) <= WireCapacity
      BY <2>1, <2>2
    <2>6. inboxBatch \in Seq(Kinds) /\ Len(inboxBatch) <= PublicationSize
      BY <2>1, <2>2
    <2>7. /\ inbox \in Seq(Kinds) /\ Len(inbox) <= InboxSize
          /\ handling \in 0..Len(inbox) /\ handled \in 0..handling
      BY <2>1, <2>2
    <2>8. /\ submitted \in Nat /\ window \in 0..WindowSize
          /\ acknowledging \in 0..window /\ arrived \in 0..Messages
      BY <2>2
    <2>9. offering \in BOOLEAN /\ flushing \in BOOLEAN
      OBVIOUS
    <2> HIDE DEF Init
    <2> QED
      BY <2>3, <2>4, <2>5, <2>6, <2>7, <2>8, <2>9 DEF TypeOK
  <1>2. BatchesFit
    BY DEF BatchesFit
  <1>3. HandOverInOrder
    <2>1. SubSeq(collector, collected + 1, Len(collector)) = <<>>
      BY SubSeqEmpty
    <2>2. accepted \o collectorBatch = <<>> /\ <<>> \o <<>> = <<>>
      OBVIOUS
    <2>3. [i \in 1..submitted |-> i] = <<>>
      OBVIOUS
    <2> QED
      BY <2>1, <2>2, <2>3 DEF HandOverInOrder
  <1> QED
    BY <1>1, <1>2, <1>3 DEF IInv

\* Publishing to the collector, by a client or by the inbox thread.
LEMMA PublishKeepsOrder ==
    ASSUME TypeOK, HandOverInOrder, PublishToCollector,
           UNCHANGED <<collectorBatch, accepted>>
    PROVE  /\ HandOverInOrder'
           /\ submitted' \in Nat
           /\ collector' \in Seq(Nat) /\ Len(collector') <= CollectorSize
           /\ collecting' \in 0..Len(collector') /\ collected' \in 0..collecting'
  <1>1. /\ submitted \in Nat /\ collector \in Seq(Nat) /\ Len(collector) \in Nat
        /\ collecting \in 0..Len(collector) /\ collected \in 0..collecting
        /\ collectorBatch \in Seq(Nat) /\ accepted \in Seq(Nat)
    BY LenProperties DEF TypeOK
  <1>2. /\ collector' = Append(collector, submitted + 1)
        /\ submitted' = submitted + 1 /\ Len(collector) < CollectorSize
        /\ collecting' = collecting /\ collected' = collected
        /\ collectorBatch' = collectorBatch /\ accepted' = accepted
    BY DEF PublishToCollector
  <1>3. collector' \in Seq(Nat) /\ Len(collector') = Len(collector) + 1
    BY <1>1, <1>2, AppendProperties
  <1>4. HandOverInOrder'
    <2> DEFINE moved == accepted \o collectorBatch
    <2>1. collected \in 0..Len(collector) /\ submitted + 1 \in Nat
      BY <1>1
    <2>2. Uncollected \in Seq(Nat)
      BY <1>1, <2>1, Rest DEF Uncollected
    <2>3. Uncollected' = Uncollected \o <<submitted + 1>>
      <3>1. SubSeq(Append(collector, submitted + 1), collected + 1, Len(collector) + 1)
              = SubSeq(collector, collected + 1, Len(collector)) \o <<submitted + 1>>
        BY <1>1, <2>1, RestOfAppend
      <3> QED
        BY <1>2, <1>3, <3>1 DEF Uncollected
    <2>4. moved \in Seq(Nat) /\ <<submitted + 1>> \in Seq(Nat)
      BY <1>1, <2>1, ConcatProperties
    <2> HIDE DEF moved
    <2>5. moved \o Uncollected = Count(submitted)
      BY DEF HandOverInOrder, Uncollected, Count, moved
    <2>6. moved \o Uncollected' = (moved \o Uncollected) \o <<submitted + 1>>
      BY <2>2, <2>3, <2>4, ConcatAssociative
    <2>7. moved \o Uncollected' = Count(submitted')
      BY <1>1, <1>2, <2>5, <2>6, CountNext
    <2> QED
      BY <1>2, <2>7 DEF HandOverInOrder, Uncollected, Count, moved
  <1>5. Len(collector') <= CollectorSize
    BY <1>1, <1>2, <1>3, PipelineAssumption
  <1>6. submitted' \in Nat /\ collecting' \in 0..Len(collector') /\ collected' \in 0..collecting'
    BY <1>1, <1>2, <1>3
  <1> QED
    BY <1>3, <1>4, <1>5, <1>6

\* The collector thread moves the first frame left in the ring to its batch.
LEMMA CollectKeepsOrder ==
    ASSUME TypeOK, HandOverInOrder, HandleCollector
    PROVE  /\ HandOverInOrder'
           /\ collectorBatch' \in Seq(Nat)
           /\ Len(collectorBatch') = Len(collectorBatch) + 1
  <1> DEFINE frame == collector[collected + 1]
             later == SubSeq(collector, collected + 2, Len(collector))
  <1>1. /\ collector \in Seq(Nat) /\ Len(collector) \in Nat
        /\ collected \in Nat /\ collected < Len(collector)
        /\ collectorBatch \in Seq(Nat) /\ accepted \in Seq(Nat)
    BY LenProperties DEF TypeOK, HandleCollector
  <1>2. /\ collectorBatch' = Append(collectorBatch, frame)
        /\ collected' = collected + 1 /\ collector' = collector
        /\ accepted' = accepted /\ submitted' = submitted
    BY DEF HandleCollector
  <1>3. collected + 1 \in 1..Len(collector) /\ frame \in Nat
    <2>1. collected + 1 \in 1..Len(collector)
      BY <1>1
    <2> QED
      BY <1>1, <2>1, ElementOfSeq
  <1>4. later \in Seq(Nat) /\ <<frame>> \in Seq(Nat)
    <2>1. collected + 1 \in 0..Len(collector) /\ (collected + 1) + 1 = collected + 2
      BY <1>1
    <2>2. SubSeq(collector, (collected + 1) + 1, Len(collector)) \in Seq(Nat)
      BY <1>1, <2>1, Rest
    <2> QED
      BY <1>3, <2>1, <2>2
  <1>5. Uncollected = <<frame>> \o later
    <2>1. Len(collector) \in (collected + 1)..Len(collector)
      BY <1>1
    <2>2. SubSeq(collector, collected + 1, Len(collector))
            = <<frame>> \o SubSeq(collector, (collected + 1) + 1, Len(collector))
      BY <1>1, <1>3, <2>1, SubSeqRecursiveFirst
    <2>3. (collected + 1) + 1 = collected + 2
      BY <1>1
    <2> QED
      BY <2>2, <2>3 DEF Uncollected
  <1>6. Uncollected' = later
    <2>1. (collected + 1) + 1 = collected + 2
      BY <1>1
    <2> QED
      BY <1>2, <2>1 DEF Uncollected
  <1>7. /\ collectorBatch' = collectorBatch \o <<frame>>
        /\ collectorBatch' \in Seq(Nat)
        /\ Len(collectorBatch') = Len(collectorBatch) + 1
    BY <1>1, <1>2, <1>3, AppendIsConcat, AppendProperties
  <1> HIDE DEF frame, later
  <1>8. (accepted \o collectorBatch') \o Uncollected'
          = (accepted \o collectorBatch) \o Uncollected
    <2> DEFINE moved == accepted \o collectorBatch
    <2>1. moved \in Seq(Nat)
      BY <1>1, ConcatProperties
    <2>2. accepted \o collectorBatch' = moved \o <<frame>>
      <3>1. accepted \in Seq(Nat) /\ collectorBatch \in Seq(Nat)
        BY <1>1
      <3>2. (accepted \o collectorBatch) \o <<frame>> = accepted \o (collectorBatch \o <<frame>>)
        BY <1>4, <3>1, ConcatAssociative
      <3> QED
        BY <1>7, <3>2
    <2> HIDE DEF moved
    <2>3. (moved \o <<frame>>) \o later = moved \o (<<frame>> \o later)
      BY <1>4, <2>1, ConcatAssociative
    <2> QED
      BY <1>5, <1>6, <2>2, <2>3 DEF moved
  <1> QED
    BY <1>2, <1>7, <1>8 DEF HandOverInOrder, Uncollected

\* The ring gives up the room of a batch that is through.
LEMMA BatchEndKeepsOrder ==
    ASSUME TypeOK, HandOverInOrder, CollectorBatchEnds
    PROVE  HandOverInOrder' /\ collector' \in Seq(Nat) /\ Len(collector') <= Len(collector)
  <1>1. /\ collector \in Seq(Nat) /\ Len(collector) \in Nat
        /\ collecting \in 0..Len(collector) /\ collected = collecting
    BY LenProperties DEF TypeOK, CollectorBatchEnds
  <1>2. /\ collector' = Uncollected /\ collected' = 0
        /\ UNCHANGED <<submitted, accepted, collectorBatch>>
    BY <1>1 DEF CollectorBatchEnds, Uncollected, exchangeVars
  <1>3. /\ Uncollected \in Seq(Nat)
        /\ Len(Uncollected) = Len(collector) - collected
    BY <1>1, Rest DEF Uncollected
  <1>4. Uncollected' = Uncollected
    <2>1. SubSeq(collector', 1, Len(collector')) = collector'
      BY <1>2, <1>3, SubSeqFull
    <2>2. Uncollected' = SubSeq(collector', 1, Len(collector'))
      BY <1>2 DEF Uncollected
    <2> QED
      BY <1>2, <2>1, <2>2
  <1>5. collector' \in Seq(Nat) /\ Len(collector') <= Len(collector)
    BY <1>1, <1>2, <1>3
  <1>6. HandOverInOrder'
    BY <1>2, <1>4 DEF HandOverInOrder, Uncollected
  <1> QED
    BY <1>5, <1>6

\* The swap: the batch goes behind what was accepted, an empty one comes back.
LEMMA ExchangeKeepsOrder ==
    ASSUME TypeOK, HandOverInOrder, Exchange
    PROVE  /\ HandOverInOrder'
           /\ accepted' \in Seq(Nat) /\ collectorBatch' = <<>>
  <1>1. /\ accepted \in Seq(Nat) /\ collectorBatch \in Seq(Nat)
    BY DEF TypeOK
  <1>2. /\ accepted' = accepted \o collectorBatch /\ collectorBatch' = <<>>
        /\ UNCHANGED <<collector, collected, submitted>>
    BY DEF Exchange, AfterReset, collectorVars
  <1>3. accepted' \in Seq(Nat) /\ accepted' \o collectorBatch' = accepted \o collectorBatch
    BY <1>1, <1>2, ConcatProperties, ConcatEmptySeq
  <1> QED
    BY <1>2, <1>3 DEF HandOverInOrder
-----------------------------------------------------------------------------
(* Every step keeps the inductive invariant. *)

\* The steps of the ingress thread and of the inbox thread that move no frame.
ArrivalStep ==
    \/ SendFeedback \/ (\E kind \in Kinds : SendMessage(kind))
    \/ IngressThread \/ InboxBatchBegins \/ HandleEvent \/ InboxBatchEnds

LEMMA ArrivalKeepsIInv ==
    ASSUME IInv, ArrivalStep
    PROVE  IInv'
  <1> USE PipelineAssumption
  <1> USE DEF collectorVars, exchangeVars, ingressVars, inboxVars, wireVars
  <1>1. TypeOK /\ BatchesFit /\ HandOverInOrder
    BY DEF IInv
  <1>2. UNCHANGED <<submitted, collectorVars, collectorBatch, offering, egressBatch, accepted>>
    BY DEF ArrivalStep, SendFeedback, SendMessage, IngressThread, ConsumeFeedback,
           ConsumeMessage, ReadCycleEnds, PublishToInbox, InboxBatchBegins,
           HandleEvent, InboxBatchEnds
  <1>3. HandOverInOrder'
    BY <1>1, <1>2 DEF HandOverInOrder
  <1> DEFINE Arrivals ==
               /\ window \in 0..WindowSize
               /\ wire \in Seq(Kinds \cup {"feedback"}) /\ Len(wire) <= WireCapacity
               /\ acknowledging \in 0..window /\ arrived \in 0..Messages
             Batch ==
               /\ inboxBatch \in Seq(Kinds) /\ Len(inboxBatch) <= PublicationSize
               /\ flushing \in BOOLEAN
               /\ ~flushing => Len(inboxBatch) < PublicationSize
             Ring ==
               /\ inbox \in Seq(Kinds) /\ Len(inbox) <= InboxSize
               /\ handling \in 0..Len(inbox) /\ handled \in 0..handling
  <1>4. Arrivals /\ Batch /\ Ring
    BY <1>1 DEF TypeOK, BatchesFit
  <1>5. Arrivals' /\ Batch' /\ Ring' => IInv'
    BY <1>1, <1>2, <1>3 DEF IInv, TypeOK, BatchesFit
  <1>6. /\ Len(wire) \in Nat /\ Len(inbox) \in Nat /\ Len(inboxBatch) \in Nat
    BY <1>4, LenProperties
  <1>7. CASE SendFeedback
    <2>1. /\ wire' \in Seq(Kinds \cup {"feedback"}) /\ Len(wire') = Len(wire) + 1
      BY <1>4, <1>7, AppendProperties DEF SendFeedback
    <2>2. Arrivals'
      BY <1>4, <1>6, <1>7, <2>1 DEF SendFeedback
    <2> QED
      BY <1>4, <1>5, <1>7, <2>2 DEF SendFeedback
  <1>8. CASE \E kind \in Kinds : SendMessage(kind)
    <2>1. PICK kind \in Kinds : SendMessage(kind)
      BY <1>8
    <2>2. /\ wire' \in Seq(Kinds \cup {"feedback"}) /\ Len(wire') = Len(wire) + 1
      BY <1>4, <2>1, AppendProperties DEF SendMessage
    <2>3. Arrivals'
      BY <1>4, <1>6, <2>1, <2>2 DEF SendMessage
    <2> QED
      BY <1>4, <1>5, <2>1, <2>3 DEF SendMessage
  <1>9. wire # <<>> => /\ Tail(wire) \in Seq(Kinds \cup {"feedback"})
                       /\ Len(Tail(wire)) <= WireCapacity
    <2> SUFFICES ASSUME wire # <<>>
                 PROVE  /\ Tail(wire) \in Seq(Kinds \cup {"feedback"})
                        /\ Len(Tail(wire)) <= WireCapacity
      OBVIOUS
    <2>1. /\ Tail(wire) \in Seq(Kinds \cup {"feedback"})
          /\ Len(Tail(wire)) = Len(wire) - 1
      BY <1>4, HeadTailProperties
    <2> QED
      BY <1>4, <1>6, <2>1
  <1>10. CASE ConsumeFeedback
    <2>1. Arrivals'
      BY <1>4, <1>9, <1>10 DEF ConsumeFeedback, Retired
    <2> QED
      BY <1>4, <1>5, <1>10, <2>1 DEF ConsumeFeedback
  <1>11. CASE ConsumeMessage
    <2>1. Arrivals'
      BY <1>4, <1>9, <1>11 DEF ConsumeMessage
    <2>2. /\ inboxBatch' \in Seq(Kinds) /\ Len(inboxBatch') = Len(inboxBatch) + 1
      BY <1>4, <1>11, AppendProperties DEF ConsumeMessage
    <2>3. ~flushing /\ flushing' = (Len(inboxBatch') = PublicationSize)
      BY <1>11 DEF ConsumeMessage
    <2>4. Len(inboxBatch') <= PublicationSize
      BY <1>4, <1>6, <2>2, <2>3
    <2>5. flushing' \in BOOLEAN
      BY <2>3
    <2>6. ~flushing' => Len(inboxBatch') < PublicationSize
      <3>1. ~flushing' => Len(inboxBatch') # PublicationSize
        BY <2>3
      <3> QED
        BY <1>6, <2>2, <2>4, <3>1
    <2> QED
      BY <1>4, <1>5, <1>11, <2>1, <2>2, <2>4, <2>5, <2>6 DEF ConsumeMessage
  <1>12. CASE ReadCycleEnds
    BY <1>4, <1>5, <1>12 DEF ReadCycleEnds
  <1>13. CASE PublishToInbox
    <2>1. /\ inbox' \in Seq(Kinds) /\ Len(inbox') = Len(inbox) + Len(inboxBatch)
      BY <1>4, <1>13, ConcatProperties DEF PublishToInbox
    <2>2. Ring'
      BY <1>4, <1>6, <1>13, <2>1 DEF PublishToInbox
    <2>3. inboxBatch' = <<>> /\ ~flushing' /\ flushing' \in BOOLEAN
      BY <1>13 DEF PublishToInbox
    <2>4. /\ <<>> \in Seq(Kinds) /\ Len(<<>>) = 0
          /\ 0 <= PublicationSize /\ 0 < PublicationSize
      BY EmptySeq
    <2> QED
      BY <1>4, <1>5, <1>13, <2>2, <2>3, <2>4 DEF PublishToInbox
  <1>14. CASE InboxBatchBegins
    BY <1>4, <1>5, <1>6, <1>14 DEF InboxBatchBegins
  <1>15. CASE HandleEvent
    BY <1>4, <1>5, <1>6, <1>15 DEF HandleEvent
  <1>16. CASE InboxBatchEnds
    <2>1. inbox' \in Seq(Kinds) /\ Len(inbox') = Len(inbox) - handling
      <3>1. handling \in 0..Len(inbox)
        BY <1>4
      <3>2. inbox' = SubSeq(inbox, handling + 1, Len(inbox))
        BY <1>16 DEF InboxBatchEnds
      <3> QED
        BY <1>4, <3>1, <3>2, Rest
    <2>2. Ring'
      BY <1>4, <1>6, <1>16, <2>1 DEF InboxBatchEnds
    <2> QED
      BY <1>4, <1>5, <1>16, <2>2 DEF InboxBatchEnds
  <1> QED
    BY <1>7, <1>8, <1>10, <1>11, <1>12, <1>13, <1>14, <1>15, <1>16
    DEF ArrivalStep, IngressThread
LEMMA NextIInv == IInv /\ [Next]_vars => IInv'
  <1> SUFFICES ASSUME IInv, [Next]_vars PROVE IInv'
    OBVIOUS
  <1> USE PipelineAssumption
  <1> USE DEF collectorVars, exchangeVars, ingressVars, inboxVars, wireVars
  <1>0. /\ TypeOK /\ BatchesFit /\ HandOverInOrder
        /\ Len(collector) \in Nat /\ Len(collectorBatch) \in Nat
        /\ Len(egressBatch) \in Nat
    BY LenProperties DEF IInv, TypeOK
  <1>1. CASE Submit
    <2>1. /\ HandOverInOrder' /\ submitted' \in Nat
          /\ collector' \in Seq(Nat) /\ Len(collector') <= CollectorSize
          /\ collecting' \in 0..Len(collector') /\ collected' \in 0..collecting'
      BY <1>0, <1>1, PublishKeepsOrder DEF Submit
    <2>2. TypeOK' /\ BatchesFit'
      BY <1>0, <1>1, <2>1 DEF Submit, TypeOK, BatchesFit
    <2> QED
      BY <2>1, <2>2 DEF IInv
  <1>2. CASE HandleQuery
    <2>1. /\ HandOverInOrder' /\ submitted' \in Nat
          /\ collector' \in Seq(Nat) /\ Len(collector') <= CollectorSize
          /\ collecting' \in 0..Len(collector') /\ collected' \in 0..collecting'
      BY <1>0, <1>2, PublishKeepsOrder DEF HandleQuery
    <2>2. handled' \in 0..handling
      BY <1>0, <1>2, LenProperties DEF HandleQuery, TypeOK
    <2>3. TypeOK' /\ BatchesFit'
      BY <1>0, <1>2, <2>1, <2>2 DEF HandleQuery, TypeOK, BatchesFit
    <2> QED
      BY <2>1, <2>3 DEF IInv
  <1>3. CASE CollectorBatchBegins
    <2>1. collecting' \in 0..Len(collector) /\ collected' \in 0..collecting'
      BY <1>0, <1>3 DEF CollectorBatchBegins
    <2>2. TypeOK' /\ BatchesFit'
      BY <1>0, <1>3, <2>1 DEF CollectorBatchBegins, TypeOK, BatchesFit
    \* A batch begins when the last one is through, so collected is 0 already.
    <2>3. collected = 0 /\ collected' = 0
      BY <1>0, <1>3 DEF CollectorBatchBegins, TypeOK
    <2>4. HandOverInOrder'
      BY <1>0, <1>3, <2>3 DEF CollectorBatchBegins, HandOverInOrder
    <2> QED
      BY <2>2, <2>4 DEF IInv
  <1>4. CASE HandleCollector
    <2>1. /\ HandOverInOrder' /\ collectorBatch' \in Seq(Nat)
          /\ Len(collectorBatch') = Len(collectorBatch) + 1
      BY <1>0, <1>4, CollectKeepsOrder
    <2>2. /\ Len(collectorBatch) < BatchCapacity
          /\ Len(collectorBatch') <= BatchCapacity
      BY <1>0, <1>4, <2>1 DEF HandleCollector, BatchesFit
    <2>3. collected' \in 0..collecting
      BY <1>0, <1>4 DEF HandleCollector, TypeOK
    <2>4. offering' \in BOOLEAN
      BY <1>4 DEF HandleCollector, Flushes
    <2>5. ~offering' => Len(collectorBatch') < BatchCapacity
      <3>1. ~offering' => Len(collectorBatch) + 1 # BatchCapacity
        BY <1>4 DEF HandleCollector, Flushes
      <3> QED
        BY <1>0, <2>1, <2>2, <3>1
    <2>6. TypeOK' /\ BatchesFit'
      BY <1>0, <1>4, <2>1, <2>2, <2>3, <2>4, <2>5 DEF HandleCollector, TypeOK, BatchesFit
    <2> QED
      BY <2>1, <2>6 DEF IInv
  <1>5. CASE CollectorBatchEnds
    <2>1. /\ HandOverInOrder' /\ collector' \in Seq(Nat)
          /\ Len(collector') <= Len(collector)
      BY <1>0, <1>5, BatchEndKeepsOrder
    <2>2. Len(collector') \in Nat
      BY <2>1, LenProperties
    <2>3. /\ Len(collector') <= CollectorSize
          /\ collecting' \in 0..Len(collector') /\ collected' \in 0..collecting'
      BY <1>0, <1>5, <2>1, <2>2 DEF CollectorBatchEnds, TypeOK
    <2>4. TypeOK' /\ BatchesFit'
      BY <1>0, <1>5, <2>1, <2>3 DEF CollectorBatchEnds, TypeOK, BatchesFit
    <2> QED
      BY <2>1, <2>4 DEF IInv
  <1>6. CASE Exchange
    <2>1. HandOverInOrder' /\ accepted' \in Seq(Nat) /\ collectorBatch' = <<>>
      BY <1>0, <1>6, ExchangeKeepsOrder
    <2>2. /\ collectorBatch' \in Seq(Nat) /\ Len(collectorBatch') <= BatchCapacity
          /\ Len(collectorBatch') < BatchCapacity
      <3>1. <<>> \in Seq(Nat) /\ Len(<<>>) = 0
        BY EmptySeq
      <3> QED
        BY <2>1, <3>1
    <2>3. egressBatch' \in Seq(Nat) /\ Len(egressBatch') <= BatchCapacity
      BY <1>0, <1>6 DEF Exchange, TypeOK
    <2>4. window' \in 0..WindowSize /\ acknowledging' \in 0..window'
      <3>1. /\ window \in 0..WindowSize /\ acknowledging \in 0..window
            /\ Len(collectorBatch) <= BatchCapacity
        BY <1>0 DEF TypeOK
      <3>2. /\ WindowSize - window >= BatchCapacity
            /\ window' = window + Len(collectorBatch) /\ acknowledging' = acknowledging
        BY <1>6 DEF Exchange, HasSpace
      <3> QED
        BY <1>0, <3>1, <3>2
    <2>5. offering' \in BOOLEAN /\ (~offering' => Len(collectorBatch') < BatchCapacity)
      BY <1>6, <2>2 DEF Exchange
    <2>6. TypeOK' /\ BatchesFit'
      BY <1>0, <1>6, <2>1, <2>2, <2>3, <2>4, <2>5 DEF Exchange, TypeOK, BatchesFit
    <2> QED
      BY <2>1, <2>6 DEF IInv
  <1>7. CASE ArrivalStep
    BY <1>7, ArrivalKeepsIInv
  <1>8. CASE UNCHANGED vars
    <2>1. TypeOK' /\ BatchesFit'
      BY <1>0, <1>8 DEF vars, TypeOK, BatchesFit
    <2>2. HandOverInOrder'
      BY <1>0, <1>8 DEF vars, HandOverInOrder
    <2> QED
      BY <2>1, <2>2 DEF IInv
  <1> QED
    BY <1>1, <1>2, <1>3, <1>4, <1>5, <1>6, <1>7, <1>8
    DEF Next, CollectorThread, InboxThread, ArrivalStep

-----------------------------------------------------------------------------
\* Rings, batches and the window stay within their capacities, whatever these are.
THEOREM TypeCorrect == Spec => []TypeOK
  <1>1. IInv => TypeOK
    BY DEF IInv
  <1> QED
    BY <1>1, InitIInv, NextIInv, PTL DEF Spec

\* No frame is lost, repeated or overtaken between the collector and the window,
\* however rings and batches are sized and however the threads interleave.
THEOREM HandOverStaysInOrder == Spec => []HandOverInOrder
  <1>1. IInv => HandOverInOrder
    BY DEF IInv
  <1> QED
    BY <1>1, InitIInv, NextIInv, PTL DEF Spec
=============================================================================
