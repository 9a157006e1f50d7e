---------------------- MODULE SerialLinkTransportProofs ----------------------
(***************************************************************************)
(* The sliding window implements reliable transport: within an incarnation *)
(* the receiver gets consecutive frames from the first unsettled one on,   *)
(* for any number of resets and losses.                                    *)
(*                                                                         *)
(* What makes it so is the handshake.  An UNINITIALISED left over from one *)
(* handshake and taken for a refusal of the next would flush messages that *)
(* a receiver accepts; an ACKNOWLEDGE or INITIALISE left over would move a *)
(* window it does not belong to.  The sender guards against them by        *)
(* counting pongs before it starts anew.  The invariant of this module     *)
(* counts the pings and pongs that may still be under way when the sender  *)
(* begins to flush, and at whose turn each leftover leaves the wires.      *)
(***************************************************************************)
EXTENDS SerialLinkSafetyProofs, FiniteSetTheorems

\* More pings are flushed than can overtake a leftover: FLUSH_COUNT is 256.
EnoughPings == FlushCount >= 3

-----------------------------------------------------------------------------
(* Wires by the kinds of their frames. *)

Has(w, k) == \E i \in 1..Len(w) : w[i].kind = k

NoneBefore(w, k, l) ==
    \A i, j \in 1..Len(w) : i < j => ~(w[i].kind = k /\ w[j].kind = l)

\* The frames of kind k among the first n.
Count(w, k, n) == Cardinality({i \in 1..n : w[i].kind = k})

LEMMA CountType ==
    ASSUME NEW w, NEW k, NEW n \in Nat
    PROVE  /\ IsFiniteSet({i \in 1..n : w[i].kind = k})
           /\ Count(w, k, n) \in Nat
  <1>1. IsFiniteSet(1..n)
    BY FS_Interval
  <1>2. IsFiniteSet({i \in 1..n : w[i].kind = k})
    BY <1>1, FS_Subset
  <1> QED
    BY <1>2, FS_CardinalityType DEF Count

LEMMA CountGrows ==
    ASSUME NEW w, NEW k, NEW m \in Nat, NEW n \in Nat, m <= n
    PROVE  Count(w, k, m) <= Count(w, k, n)
  <1>1. IsFiniteSet({i \in 1..n : w[i].kind = k})
    BY CountType
  <1>2. {i \in 1..m : w[i].kind = k} \subseteq {i \in 1..n : w[i].kind = k}
    OBVIOUS
  <1> QED
    BY <1>1, <1>2, FS_Subset DEF Count

LEMMA CountNone ==
    ASSUME NEW w, NEW k, NEW n \in Nat, \A i \in 1..n : w[i].kind # k
    PROVE  Count(w, k, n) = 0
  <1>1. {i \in 1..n : w[i].kind = k} = {}
    OBVIOUS
  <1> QED
    BY <1>1, FS_EmptySet DEF Count

LEMMA CountSame ==
    ASSUME NEW v, NEW w, NEW k, NEW n \in Nat, \A i \in 1..n : v[i] = w[i]
    PROVE  Count(v, k, n) = Count(w, k, n)
  <1>1. {i \in 1..n : v[i].kind = k} = {i \in 1..n : w[i].kind = k}
    OBVIOUS
  <1> QED
    BY <1>1 DEF Count

\* Every frame of the wire one place further on, and one more at the head.
LEMMA CountShift ==
    ASSUME NEW v, NEW w, NEW k, NEW n \in Nat, \A i \in 1..n : v[i] = w[i + 1]
    PROVE  /\ w[1].kind = k => Count(w, k, n + 1) = Count(v, k, n) + 1
           /\ w[1].kind # k => Count(w, k, n + 1) = Count(v, k, n)
  <1> DEFINE V == {i \in 1..n : v[i].kind = k}
             T == {i \in 2..(n + 1) : w[i].kind = k}
             W == {i \in 1..(n + 1) : w[i].kind = k}
  <1>1. IsFiniteSet(V) /\ Cardinality(V) \in Nat
    BY CountType DEF Count
  <1>2. ExistsBijection(V, T)
    <2> DEFINE f == [i \in V |-> i + 1]
    <2>1. f \in [V -> T]
      OBVIOUS
    <2>2. \A i, j \in V : f[i] = f[j] => i = j
      OBVIOUS
    <2>3. \A t \in T : \E i \in V : f[i] = t
      <3> SUFFICES ASSUME NEW t \in T PROVE \E i \in V : f[i] = t
        OBVIOUS
      <3>1. t - 1 \in 1..n /\ (t - 1) + 1 = t
        OBVIOUS
      <3>2. t - 1 \in V
        BY <3>1
      <3> QED
        BY <3>1, <3>2
    <2> HIDE DEF f, V, T
    <2> QED
      BY <2>1, <2>2, <2>3 DEF ExistsBijection, Bijection, Injection, Surjection, IsInjective
  <1> HIDE DEF V
  <1>3. IsFiniteSet(T) /\ Cardinality(T) = Cardinality(V)
    <2> HIDE DEF T
    <2> QED
      BY <1>1, <1>2, FS_Bijection
  <1>4. CASE w[1].kind = k
    <2>1. W = T \cup {1} /\ 1 \notin T
      BY <1>4
    <2> HIDE DEF T, W
    <2>2. Cardinality(W) = Cardinality(T) + 1
      BY <1>3, <2>1, FS_AddElement
    <2> QED
      BY <1>1, <1>3, <1>4, <2>2 DEF Count, V, W
  <1>5. CASE w[1].kind # k
    <2>1. W = T
      BY <1>5
    <2> HIDE DEF T, W
    <2> QED
      BY <1>1, <1>3, <1>5, <2>1 DEF Count, V, W
  <1> QED
    BY <1>4, <1>5

\* What is put behind m frames counts if it is of kind k, and at most the first is.
LEMMA CountBehind ==
    ASSUME NEW w, NEW v, NEW k, NEW m \in Nat, NEW n \in Nat,
           \A i \in 1..m : v[i] = w[i]
    PROVE  /\ (\A i \in (m + 1)..n : v[i].kind # k) => Count(v, k, n) <= Count(w, k, m)
           /\ (\A i \in (m + 1)..n : v[i].kind = k => i = m + 1) =>
                 Count(v, k, n) <= Count(w, k, m) + 1
  <1> DEFINE V == {i \in 1..n : v[i].kind = k}
             W == {i \in 1..m : w[i].kind = k}
  <1>1. IsFiniteSet(W) /\ Cardinality(W) \in Nat
    <2>1. IsFiniteSet(W) /\ Count(w, k, m) \in Nat
      BY CountType
    <2> QED
      BY <2>1 DEF Count
  <1>2. ASSUME \A i \in (m + 1)..n : v[i].kind # k
        PROVE  Count(v, k, n) <= Count(w, k, m)
    <2>1. V \in SUBSET W
      BY <1>2
    <2> HIDE DEF V, W
    <2>2. Cardinality(V) <= Cardinality(W)
      BY <1>1, <2>1, FS_Subset
    <2> QED
      BY <2>2 DEF Count, V, W
  <1>3. ASSUME \A i \in (m + 1)..n : v[i].kind = k => i = m + 1
        PROVE  Count(v, k, n) <= Count(w, k, m) + 1
    <2>1. ASSUME NEW i \in V
          PROVE  i \in W \cup {m + 1}
      <3>1. CASE i \in 1..m
        BY <3>1
      <3>2. CASE i \in (m + 1)..n
        BY <1>3, <3>2
      <3> QED
        BY <3>1, <3>2
    <2> HIDE DEF V, W
    <2>2. IsFiniteSet(W \cup {m + 1}) /\ Cardinality(W \cup {m + 1}) <= Cardinality(W) + 1
      <3>1. /\ IsFiniteSet(W \cup {m + 1})
            /\ Cardinality(W \cup {m + 1}) = IF m + 1 \in W THEN Cardinality(W)
                                             ELSE Cardinality(W) + 1
        BY <1>1, FS_AddElement
      <3> QED
        BY <1>1, <3>1
    <2>3. IsFiniteSet(V) /\ Cardinality(V) <= Cardinality(W \cup {m + 1})
      <3>1. V \in SUBSET (W \cup {m + 1})
        BY <2>1
      <3> QED
        BY <2>2, <3>1, FS_Subset
    <2>4. Cardinality(V) \in Nat /\ Cardinality(W \cup {m + 1}) \in Nat
      BY <2>2, <2>3, FS_CardinalityType
    <2>5. Cardinality(V) <= Cardinality(W) + 1
      BY <1>1, <2>2, <2>3, <2>4
    <2> QED
      BY <2>5 DEF Count, V, W
  <1> QED
    BY <1>2, <1>3

-----------------------------------------------------------------------------
(* What taking a frame off a wire, and putting frames onto it, does to it. *)

LEMMA TailKinds ==
    ASSUME NEW w, NEW v, Len(v) \in Nat, Len(w) = Len(v) + 1,
           \A i \in 1..Len(v) : v[i] = w[i + 1]
    PROVE  /\ Has(w, w[1].kind)
           /\ \A k : Has(v, k) => Has(w, k)
           /\ \A k, l : NoneBefore(w, k, l) =>
                 NoneBefore(v, k, l) /\ (w[1].kind = k => ~Has(v, l))
           /\ \A k : \A n \in 0..Len(v) :
                 /\ w[1].kind = k => Count(w, k, n + 1) = Count(v, k, n) + 1
                 /\ w[1].kind # k => Count(w, k, n + 1) = Count(v, k, n)
  <1>1. Has(w, w[1].kind)
    BY DEF Has
  <1>2. ASSUME NEW k, Has(v, k)
        PROVE  Has(w, k)
    <2>1. PICK i \in 1..Len(v) : v[i].kind = k
      BY <1>2 DEF Has
    <2>2. i + 1 \in 1..Len(w) /\ w[i + 1].kind = k
      BY <2>1
    <2> QED
      BY <2>2 DEF Has
  <1>3. ASSUME NEW k, NEW l, NoneBefore(w, k, l)
        PROVE  NoneBefore(v, k, l) /\ (w[1].kind = k => ~Has(v, l))
    <2>1. ASSUME NEW i \in 1..Len(v)
          PROVE  i + 1 \in 1..Len(w) /\ 1 \in 1..Len(w) /\ 1 < i + 1 /\ v[i] = w[i + 1]
      <3>1. i \in Nat /\ 1 <= i /\ i <= Len(v) /\ v[i] = w[i + 1]
        OBVIOUS
      <3>2. i + 1 \in 1..Len(w) /\ 1 \in 1..Len(w)
        BY <3>1
      <3> QED
        BY <3>1, <3>2
    <2>2. \A i, j \in 1..Len(v) : i < j => ~(v[i].kind = k /\ v[j].kind = l)
      BY <1>3, <2>1 DEF NoneBefore
    <2>3. ASSUME w[1].kind = k, NEW i \in 1..Len(v)
          PROVE  v[i].kind # l
      <3>1. ~(w[1].kind = k /\ w[i + 1].kind = l)
        BY <1>3, <2>1 DEF NoneBefore
      <3> QED
        BY <2>1, <2>3, <3>1
    <2> QED
      BY <2>2, <2>3 DEF NoneBefore, Has
  <1>4. ASSUME NEW k, NEW n \in 0..Len(v)
        PROVE  /\ w[1].kind = k => Count(w, k, n + 1) = Count(v, k, n) + 1
               /\ w[1].kind # k => Count(w, k, n + 1) = Count(v, k, n)
    <2>1. n \in Nat /\ \A i \in 1..n : v[i] = w[i + 1]
      OBVIOUS
    <2> QED
      BY <2>1, CountShift
  <1> QED
    BY <1>1, <1>2, <1>3, <1>4

LEMMA ConcatKinds ==
    ASSUME NEW w, NEW u, NEW v, Len(w) \in Nat, Len(u) \in Nat, Len(v) = Len(w) + Len(u),
           \A i \in 1..Len(v) : v[i] = IF i <= Len(w) THEN w[i] ELSE u[i - Len(w)]
    PROVE  /\ \A k : Has(v, k) <=> Has(w, k) \/ Has(u, k)
           /\ \A k, l : /\ NoneBefore(w, k, l) /\ NoneBefore(u, k, l)
                        /\ ~Has(w, k) \/ ~Has(u, l)
                        => NoneBefore(v, k, l)
  <1>1. ASSUME NEW i \in 1..Len(v)
        PROVE  \/ i \in 1..Len(w) /\ v[i] = w[i]
               \/ i > Len(w) /\ i - Len(w) \in 1..Len(u) /\ v[i] = u[i - Len(w)]
    OBVIOUS
  <1>2. ASSUME NEW k
        PROVE  Has(v, k) <=> Has(w, k) \/ Has(u, k)
    <2>1. Has(v, k) => Has(w, k) \/ Has(u, k)
      BY <1>1 DEF Has
    <2>2. ASSUME NEW i \in 1..Len(w)
          PROVE  i \in 1..Len(v) /\ v[i] = w[i]
      OBVIOUS
    <2>3. ASSUME NEW i \in 1..Len(u)
          PROVE  i + Len(w) \in 1..Len(v) /\ v[i + Len(w)] = u[i]
      OBVIOUS
    <2> QED
      BY <2>1, <2>2, <2>3 DEF Has
  <1>3. ASSUME NEW k, NEW l, NoneBefore(w, k, l), NoneBefore(u, k, l),
               ~Has(w, k) \/ ~Has(u, l)
        PROVE  NoneBefore(v, k, l)
    <2> SUFFICES ASSUME NEW i \in 1..Len(v), NEW j \in 1..Len(v), i < j
                 PROVE  ~(v[i].kind = k /\ v[j].kind = l)
      BY DEF NoneBefore
    <2>1. CASE j <= Len(w)
      <3>1. i \in 1..Len(w) /\ j \in 1..Len(w) /\ v[i] = w[i] /\ v[j] = w[j]
        BY <1>3, <2>1
      <3> QED
        BY <1>3, <3>1 DEF NoneBefore
    <2>2. CASE i > Len(w)
      <3>1. /\ i - Len(w) \in 1..Len(u) /\ j - Len(w) \in 1..Len(u)
            /\ i - Len(w) < j - Len(w) /\ v[i] = u[i - Len(w)] /\ v[j] = u[j - Len(w)]
        BY <1>3, <2>2
      <3> QED
        BY <1>3, <3>1 DEF NoneBefore
    <2>3. CASE i <= Len(w) /\ j > Len(w)
      <3>1. /\ i \in 1..Len(w) /\ j - Len(w) \in 1..Len(u)
            /\ v[i] = w[i] /\ v[j] = u[j - Len(w)]
        BY <1>3, <2>3
      <3> QED
        BY <1>3, <3>1 DEF Has
    <2> QED
      BY <2>1, <2>2, <2>3
  <1> QED
    BY <1>2, <1>3

-----------------------------------------------------------------------------
(* The handshake. *)

\* The sender waits for pongs, or offers its sequence number.
Flushing == ~initialised /\ countdown > 0
Handshaking == ~initialised /\ countdown <= 0

\* The sender is reading the feedback of a cycle.
MidCycle == phase \in {"acknowledgement", "initialisation", "uninitialisation"}

\* A refusal, or a grant, is under way to the sender, or will be.
Refused == respondUninitialised \/ Has(inward, "UNINITIALISED") \/ uninitialisations > 0
Greeting == \/ Has(outward, "INITIALISE") \/ respondInitialised
            \/ Has(inward, "INITIALISED") \/ initialisations > 0

\* Pings and pongs under way.
PingsOut == Count(outward, "PING", Len(outward))
PongsIn == Count(inward, "PONG", Len(inward))
PongDue == IF respondPong THEN 1 ELSE 0
InFlight == PingsOut + PongDue + PongsIn

\* Pongs that arrived since the flush began.
Flushed == FlushCount - countdown + pongs

\* Those that are under way or not yet counted, and those since the flush began.
Outstanding == InFlight + pongs
Elapsed == InFlight + Flushed

\* The pongs since the flush began that arrive before what is answered to a message on
\* the outward wire, before a refusal that is due, and before an answer on the inward wire.
BeforeMessage(i) == Flushed + PongsIn + PongDue + Count(outward, "PING", i)
BeforeRefusal == Flushed + PongsIn
BeforeAnswer(p) == Flushed + Count(inward, "PONG", p)

\* A receiver that is not ready has received nothing, and while pings are flushed none is.
NotReady ==
    /\ ~ready => log = <<>> /\ ~respondInitialised /\ respondAcknowledge = -1
    /\ Flushing => ~ready

\* Pings are sent before the offer, the offer before messages.
OutwardOrder ==
    /\ NoneBefore(outward, "MESSAGE", "INITIALISE")
    /\ NoneBefore(outward, "INITIALISE", "PING")
    /\ Has(outward, "INITIALISE") => ~Flushing /\ log = <<>>

\* When the offer is made nothing of the time before the flush is left.
Quiet ==
    Handshaking =>
       /\ log = <<>> /\ ~Has(outward, "MESSAGE") /\ ~respondUninitialised
       /\ ~Has(inward, "UNINITIALISED") /\ ~Has(inward, "ACKNOWLEDGE")
       /\ respondAcknowledge = -1
       /\ uninitialisations > 0 => MidCycle /\ initialisations = 0
       /\ acknowledged >= 0 => phase = "acknowledgement"

\* What was refused is refused until the sender has flushed.
StillRefused == Refused => ~ready /\ ~Has(outward, "INITIALISE")

\* No grant follows a refusal.
InwardOrder ==
    /\ Flushing \/ uninitialisations > 0 => ~Has(inward, "INITIALISED")
    /\ NoneBefore(inward, "UNINITIALISED", "INITIALISED")

\* No ping or pong follows the offer or the grant.
EchoesFirst ==
    ~Flushing =>
       /\ respondInitialised => ~Has(outward, "PING")
       /\ Has(inward, "INITIALISED") => ~Has(outward, "PING") /\ ~respondPong
       /\ NoneBefore(inward, "INITIALISED", "PONG")
       /\ initialisations > 0 => InFlight <= 0

\* Of an earlier flush at most one ping or pong is left when messages are sent: the one
\* sent when a grant given twice was taken for that of the next handshake.
FewEchoes ==
    initialised =>
       /\ InFlight <= 1
       /\ Greeting => InFlight <= 0
       /\ MidCycle /\ (Refused \/ Has(outward, "MESSAGE")) =>
             /\ Outstanding <= 1
             /\ Greeting => Outstanding <= 0

\* A grant that the sender finds after it began to flush.
StaleGreeting ==
    Flushing /\ initialisations > 0 =>
       /\ phase # "uninitialisation"
       /\ Elapsed <= IF phase = "publish" THEN 0 ELSE 1

\* Whatever is left of the time before the flush is handled before three pongs arrive.
FlushOutlasts ==
    Flushing =>
       /\ \A i \in 1..Len(outward) : outward[i].kind = "MESSAGE" =>
             BeforeMessage(i) <= 1
       /\ respondUninitialised => BeforeRefusal <= 1
       /\ \A p \in 1..Len(inward) : inward[p].kind \in {"UNINITIALISED", "ACKNOWLEDGE"} =>
             BeforeAnswer(p) <= 2

HInv ==
    /\ NotReady /\ OutwardOrder /\ Quiet /\ StillRefused /\ InwardOrder
    /\ EchoesFirst /\ FewEchoes /\ StaleGreeting /\ FlushOutlasts

LEMMA Quantities ==
    ASSUME TypeOK
    PROVE  /\ Len(outward) \in Nat /\ Len(inward) \in Nat
           /\ PingsOut \in Nat /\ PongsIn \in Nat /\ PongDue \in Nat /\ PongDue <= 1
           /\ InFlight \in Nat /\ Flushed \in Int /\ pongs \in Nat
           /\ Outstanding \in Int /\ Elapsed \in Int
           /\ initialisations \in Nat /\ uninitialisations \in Nat
           /\ countdown \in Int
  <1>1. Len(outward) \in Nat /\ Len(inward) \in Nat
    BY LenProperties DEF TypeOK
  <1>2. PingsOut \in Nat /\ PongsIn \in Nat
    BY <1>1, CountType DEF PingsOut, PongsIn
  <1>3. PongDue \in Nat /\ PongDue <= 1
    BY DEF PongDue
  <1>4. /\ initialisations \in Nat /\ uninitialisations \in Nat
        /\ countdown \in Int /\ pongs \in Nat
    BY DEF TypeOK
  <1>5. InFlight \in Nat /\ Flushed \in Int
    BY <1>2, <1>3, <1>4, ParameterAssumption DEF InFlight, Flushed
  <1> QED
    BY <1>1, <1>2, <1>3, <1>4, <1>5 DEF Outstanding, Elapsed

LEMMA Sums ==
    ASSUME NEW a \in Int, NEW b \in Int, NEW c \in Int, NEW d \in Int
    PROVE  /\ a + b \in Int
           /\ a <= c /\ b <= d => a + b <= c + d
           /\ a + 1 <= c /\ b <= d + 1 => a + b <= c + d
           /\ a <= c + 1 /\ b + 1 <= d => a + b <= c + d
           /\ a <= c + 1 /\ b <= d - 1 => a + b <= c + d
           /\ a <= c - 1 /\ b <= d + 1 => a + b <= c + d
  OBVIOUS

LEMMA QuantitiesNext ==
    ASSUME TypeOK'
    PROVE  /\ Len(outward') \in Nat /\ Len(inward') \in Nat
           /\ PingsOut' \in Nat /\ PongsIn' \in Nat /\ PongDue' \in Nat /\ PongDue' <= 1
           /\ InFlight' \in Nat /\ Flushed' \in Int /\ pongs' \in Nat
           /\ Outstanding' \in Int /\ Elapsed' \in Int
           /\ initialisations' \in Nat /\ uninitialisations' \in Nat
           /\ countdown' \in Int
  <1>1. Len(outward') \in Nat /\ Len(inward') \in Nat
    BY LenProperties DEF TypeOK
  <1>2. PingsOut' \in Nat /\ PongsIn' \in Nat
    BY <1>1, CountType DEF PingsOut, PongsIn
  <1>3. PongDue' \in Nat /\ PongDue' <= 1
    BY DEF PongDue
  <1>4. /\ initialisations' \in Nat /\ uninitialisations' \in Nat
        /\ countdown' \in Int /\ pongs' \in Nat
    BY DEF TypeOK
  <1>5. InFlight' \in Nat
    BY <1>2 DEF InFlight, PingsOut, PongsIn, PongDue
  <1>6. Flushed' \in Int
    BY <1>4, ParameterAssumption DEF Flushed
  <1>7. Outstanding' \in Int /\ Elapsed' \in Int
    <2>1. InFlight' \in Int /\ pongs' \in Int /\ Flushed' \in Int
      BY <1>4, <1>5, <1>6
    <2>2. InFlight' + pongs' \in Int /\ InFlight' + Flushed' \in Int
      BY <2>1, Sums
    <2> QED
      BY <2>2 DEF Outstanding, Elapsed
  <1> QED
    BY <1>1, <1>2, <1>3, <1>4, <1>5, <1>6, <1>7

\* As long as no more is under way.
LEMMA EchoesKept ==
    ASSUME TypeOK, TypeOK', Flushed' = Flushed, pongs' = pongs, InFlight' <= InFlight
    PROVE  Outstanding' <= Outstanding /\ Elapsed' <= Elapsed
  <1>1. /\ InFlight \in Int /\ InFlight' \in Int /\ pongs \in Int /\ pongs' \in Int
        /\ Flushed \in Int /\ Flushed' \in Int /\ pongs' <= pongs /\ Flushed' <= Flushed
    <2>1. InFlight \in Nat /\ Flushed \in Int /\ pongs \in Nat
      BY Quantities
    <2>2. InFlight' \in Nat
      BY QuantitiesNext
    <2> QED
      BY <2>1, <2>2
  <1>2. InFlight' + pongs' <= InFlight + pongs /\ InFlight' + Flushed' <= InFlight + Flushed
    BY <1>1, Sums
  <1> QED
    BY <1>2 DEF Outstanding, Elapsed

\* A frame of the outward wire is taken off or lost.
LEMMA OutwardTaken ==
    ASSUME Len(outward') \in Nat, Len(outward) = Len(outward') + 1,
           \A i \in 1..Len(outward') : outward'[i] = outward[i + 1]
    PROVE  /\ Has(outward, outward[1].kind)
           /\ \A k : Has(outward', k) => Has(outward, k)
           /\ \A k, l : NoneBefore(outward, k, l) =>
                 NoneBefore(outward', k, l) /\ (outward[1].kind = k => ~Has(outward', l))
           /\ PingsOut' <= PingsOut
           /\ outward[1].kind = "PING" => PingsOut' + 1 = PingsOut
           /\ \A i \in 1..Len(outward') :
                 /\ i + 1 \in 1..Len(outward) /\ outward'[i] = outward[i + 1]
                 /\ Count(outward', "PING", i) \in Nat /\ Count(outward, "PING", i + 1) \in Nat
                 /\ Count(outward', "PING", i) <= Count(outward, "PING", i + 1)
                 /\ outward[1].kind = "PING" =>
                       Count(outward', "PING", i) + 1 = Count(outward, "PING", i + 1)
  <1>1. /\ Has(outward, outward[1].kind)
        /\ \A k : Has(outward', k) => Has(outward, k)
        /\ \A k, l : NoneBefore(outward, k, l) =>
              NoneBefore(outward', k, l) /\ (outward[1].kind = k => ~Has(outward', l))
        /\ \A k : \A n \in 0..Len(outward') :
              /\ outward[1].kind = k => Count(outward, k, n + 1) = Count(outward', k, n) + 1
              /\ outward[1].kind # k => Count(outward, k, n + 1) = Count(outward', k, n)
    BY TailKinds
  <1>2. ASSUME NEW n \in 0..Len(outward')
        PROVE  /\ Count(outward', "PING", n) \in Nat /\ Count(outward, "PING", n + 1) \in Nat
               /\ Count(outward', "PING", n) <= Count(outward, "PING", n + 1)
               /\ outward[1].kind = "PING" =>
                     Count(outward', "PING", n) + 1 = Count(outward, "PING", n + 1)
    <2>1. n \in Nat /\ n + 1 \in Nat
      OBVIOUS
    <2>2. Count(outward', "PING", n) \in Nat /\ Count(outward, "PING", n + 1) \in Nat
      BY <2>1, CountType
    <2> QED
      BY <1>1, <2>2
  <1>3. PingsOut' <= PingsOut /\ (outward[1].kind = "PING" => PingsOut' + 1 = PingsOut)
    <2>1. Len(outward') \in 0..Len(outward') /\ Len(outward') + 1 = Len(outward)
      OBVIOUS
    <2> QED
      BY <1>2, <2>1 DEF PingsOut
  <1> QED
    BY <1>1, <1>2, <1>3

\* A frame of the inward wire is fed back or lost.
LEMMA InwardTaken ==
    ASSUME Len(inward') \in Nat, Len(inward) = Len(inward') + 1,
           \A i \in 1..Len(inward') : inward'[i] = inward[i + 1]
    PROVE  /\ Has(inward, inward[1].kind)
           /\ \A k : Has(inward', k) => Has(inward, k)
           /\ \A k, l : NoneBefore(inward, k, l) =>
                 NoneBefore(inward', k, l) /\ (inward[1].kind = k => ~Has(inward', l))
           /\ PongsIn' <= PongsIn
           /\ inward[1].kind = "PONG" => PongsIn' <= PongsIn - 1
           /\ \A i \in 1..Len(inward') :
                 /\ i + 1 \in 1..Len(inward) /\ inward'[i] = inward[i + 1]
                 /\ Count(inward', "PONG", i) \in Nat /\ Count(inward, "PONG", i + 1) \in Nat
                 /\ Count(inward', "PONG", i) <= Count(inward, "PONG", i + 1)
                 /\ inward[1].kind = "PONG" =>
                       Count(inward', "PONG", i) + 1 = Count(inward, "PONG", i + 1)
  <1>1. /\ Has(inward, inward[1].kind)
        /\ \A k : Has(inward', k) => Has(inward, k)
        /\ \A k, l : NoneBefore(inward, k, l) =>
              NoneBefore(inward', k, l) /\ (inward[1].kind = k => ~Has(inward', l))
        /\ \A k : \A n \in 0..Len(inward') :
              /\ inward[1].kind = k => Count(inward, k, n + 1) = Count(inward', k, n) + 1
              /\ inward[1].kind # k => Count(inward, k, n + 1) = Count(inward', k, n)
    BY TailKinds
  <1>2. ASSUME NEW n \in 0..Len(inward')
        PROVE  /\ Count(inward', "PONG", n) \in Nat /\ Count(inward, "PONG", n + 1) \in Nat
               /\ Count(inward', "PONG", n) <= Count(inward, "PONG", n + 1)
               /\ inward[1].kind = "PONG" =>
                     Count(inward', "PONG", n) + 1 = Count(inward, "PONG", n + 1)
    <2>1. n \in Nat /\ n + 1 \in Nat
      OBVIOUS
    <2>2. Count(inward', "PONG", n) \in Nat /\ Count(inward, "PONG", n + 1) \in Nat
      BY <2>1, CountType
    <2> QED
      BY <1>1, <2>2
  <1>3. PongsIn' <= PongsIn /\ (inward[1].kind = "PONG" => PongsIn' <= PongsIn - 1)
    <2>1. Len(inward') \in 0..Len(inward') /\ Len(inward') + 1 = Len(inward)
      OBVIOUS
    <2> QED
      BY <1>2, <2>1 DEF PongsIn
  <1> QED
    BY <1>1, <1>2, <1>3

\* Frames u are put behind those of a wire, of kind k at most the first.
LEMMA FramesBehind ==
    ASSUME NEW w, NEW u, NEW v, Len(w) \in Nat, Len(u) \in Nat, Len(v) = Len(w) + Len(u),
           \A i \in 1..Len(v) : v[i] = IF i <= Len(w) THEN w[i] ELSE u[i - Len(w)],
           NEW k, \A i \in 1..Len(u) : u[i].kind = k => i = 1
    PROVE  /\ Count(v, k, Len(v)) <= Count(w, k, Len(w)) + 1
           /\ ~Has(u, k) => Count(v, k, Len(v)) <= Count(w, k, Len(w))
           /\ \A i \in 1..Len(v) :
                 \/ i \in 1..Len(w) /\ v[i] = w[i] /\ Count(v, k, i) = Count(w, k, i)
                 \/ /\ Has(u, v[i].kind) /\ Count(v, k, i) <= Count(w, k, Len(w)) + 1
                    /\ ~Has(u, k) => Count(v, k, i) <= Count(w, k, Len(w))
  <1>1. ASSUME NEW i \in (Len(w) + 1)..Len(v)
        PROVE  i - Len(w) \in 1..Len(u) /\ v[i] = u[i - Len(w)]
    OBVIOUS
  <1>2. \A i \in 1..Len(w) : v[i] = w[i]
    OBVIOUS
  <1>3. ASSUME NEW n \in Nat, n <= Len(v)
        PROVE  /\ Count(v, k, n) <= Count(w, k, Len(w)) + 1
               /\ ~Has(u, k) => Count(v, k, n) <= Count(w, k, Len(w))
    <2>1. ASSUME NEW i \in (Len(w) + 1)..n
          PROVE  /\ v[i].kind = k => i = Len(w) + 1
                 /\ ~Has(u, k) => v[i].kind # k
      <3>1. i \in (Len(w) + 1)..Len(v)
        BY <1>3
      <3>2. i - Len(w) \in 1..Len(u) /\ v[i] = u[i - Len(w)]
        BY <1>1, <3>1
      <3>3. v[i].kind = k => i - Len(w) = 1
        BY <3>2
      <3>4. i \in Int
        BY <3>1
      <3> QED
        BY <3>2, <3>3, <3>4 DEF Has
    <2>2. /\ (\A i \in (Len(w) + 1)..n : v[i].kind # k) => Count(v, k, n) <= Count(w, k, Len(w))
          /\ (\A i \in (Len(w) + 1)..n : v[i].kind = k => i = Len(w) + 1) =>
                Count(v, k, n) <= Count(w, k, Len(w)) + 1
      BY <1>2, CountBehind
    <2> QED
      BY <2>1, <2>2
  <1>4. ASSUME NEW i \in 1..Len(v), i <= Len(w)
        PROVE  i \in 1..Len(w) /\ v[i] = w[i] /\ Count(v, k, i) = Count(w, k, i)
    <2>1. i \in Nat /\ i \in 1..Len(w) /\ v[i] = w[i]
      BY <1>4
    <2>2. \A j \in 1..i : v[j] = w[j]
      BY <1>2, <2>1
    <2> QED
      BY <2>1, <2>2, CountSame
  <1>5. ASSUME NEW i \in 1..Len(v), i > Len(w)
        PROVE  /\ Has(u, v[i].kind) /\ Count(v, k, i) <= Count(w, k, Len(w)) + 1
               /\ ~Has(u, k) => Count(v, k, i) <= Count(w, k, Len(w))
    <2>1. i \in Nat /\ i <= Len(v) /\ i \in (Len(w) + 1)..Len(v)
      BY <1>5
    <2>2. Has(u, v[i].kind)
      BY <1>1, <2>1 DEF Has
    <2> QED
      BY <1>3, <2>1, <2>2
  <1>6. Len(v) \in Nat /\ Len(v) <= Len(v)
    OBVIOUS
  <1>7. \A i \in 1..Len(v) : i <= Len(w) \/ i > Len(w)
    OBVIOUS
  <1> QED
    BY <1>3, <1>4, <1>5, <1>6, <1>7

\* Frames are put onto the outward wire.
LEMMA OutwardSent ==
    ASSUME NEW frames, Len(outward) \in Nat, Len(frames) \in Nat,
           Len(outward') = Len(outward) + Len(frames),
           \A i \in 1..Len(outward') : outward'[i] =
              IF i <= Len(outward) THEN outward[i] ELSE frames[i - Len(outward)],
           \A i \in 1..Len(frames) : frames[i].kind = "PING" => i = 1
    PROVE  /\ \A k : Has(outward', k) <=> Has(outward, k) \/ Has(frames, k)
           /\ \A k, l : /\ NoneBefore(outward, k, l) /\ NoneBefore(frames, k, l)
                        /\ ~Has(outward, k) \/ ~Has(frames, l)
                        => NoneBefore(outward', k, l)
           /\ PingsOut' <= PingsOut + 1
           /\ ~Has(frames, "PING") => PingsOut' <= PingsOut
           /\ \A i \in 1..Len(outward') :
                 \/ /\ i \in 1..Len(outward) /\ outward'[i] = outward[i]
                    /\ Count(outward', "PING", i) = Count(outward, "PING", i)
                 \/ Has(frames, outward'[i].kind)
  <1>1. /\ \A k : Has(outward', k) <=> Has(outward, k) \/ Has(frames, k)
        /\ \A k, l : /\ NoneBefore(outward, k, l) /\ NoneBefore(frames, k, l)
                     /\ ~Has(outward, k) \/ ~Has(frames, l)
                     => NoneBefore(outward', k, l)
    BY ConcatKinds
  <1>2. /\ Count(outward', "PING", Len(outward')) <= Count(outward, "PING", Len(outward)) + 1
        /\ ~Has(frames, "PING") =>
              Count(outward', "PING", Len(outward')) <= Count(outward, "PING", Len(outward))
        /\ \A i \in 1..Len(outward') :
              \/ /\ i \in 1..Len(outward) /\ outward'[i] = outward[i]
                 /\ Count(outward', "PING", i) = Count(outward, "PING", i)
              \/ Has(frames, outward'[i].kind)
    BY FramesBehind
  <1> QED
    BY <1>1, <1>2 DEF PingsOut

\* Answers are put onto the inward wire.
LEMMA InwardSent ==
    ASSUME NEW frames, Len(inward) \in Nat, Len(frames) \in Nat,
           Len(inward') = Len(inward) + Len(frames),
           \A i \in 1..Len(inward') : inward'[i] =
              IF i <= Len(inward) THEN inward[i] ELSE frames[i - Len(inward)],
           \A i \in 1..Len(frames) : frames[i].kind = "PONG" => i = 1
    PROVE  /\ \A k : Has(inward', k) <=> Has(inward, k) \/ Has(frames, k)
           /\ \A k, l : /\ NoneBefore(inward, k, l) /\ NoneBefore(frames, k, l)
                        /\ ~Has(inward, k) \/ ~Has(frames, l)
                        => NoneBefore(inward', k, l)
           /\ PongsIn' <= PongsIn + 1
           /\ ~Has(frames, "PONG") => PongsIn' <= PongsIn
           /\ \A i \in 1..Len(inward') :
                 \/ /\ i \in 1..Len(inward) /\ inward'[i] = inward[i]
                    /\ Count(inward', "PONG", i) = Count(inward, "PONG", i)
                 \/ /\ Has(frames, inward'[i].kind) /\ Count(inward', "PONG", i) <= PongsIn + 1
                    /\ ~Has(frames, "PONG") => Count(inward', "PONG", i) <= PongsIn
  <1>1. /\ \A k : Has(inward', k) <=> Has(inward, k) \/ Has(frames, k)
        /\ \A k, l : /\ NoneBefore(inward, k, l) /\ NoneBefore(frames, k, l)
                     /\ ~Has(inward, k) \/ ~Has(frames, l)
                     => NoneBefore(inward', k, l)
    BY ConcatKinds
  <1>2. /\ Count(inward', "PONG", Len(inward')) <= Count(inward, "PONG", Len(inward)) + 1
        /\ ~Has(frames, "PONG") =>
              Count(inward', "PONG", Len(inward')) <= Count(inward, "PONG", Len(inward))
        /\ \A i \in 1..Len(inward') :
              \/ /\ i \in 1..Len(inward) /\ inward'[i] = inward[i]
                 /\ Count(inward', "PONG", i) = Count(inward, "PONG", i)
              \/ /\ Has(frames, inward'[i].kind)
                 /\ Count(inward', "PONG", i) <= Count(inward, "PONG", Len(inward)) + 1
                 /\ ~Has(frames, "PONG") =>
                       Count(inward', "PONG", i) <= Count(inward, "PONG", Len(inward))
    BY FramesBehind
  <1> QED
    BY <1>1, <1>2 DEF PongsIn

\* What a cycle answers: a pong comes first, and each answer only where it is due.
LEMMA AnswersJoined ==
    ASSUME NEW w \in Seq(InwardFrames), NEW u \in Seq(InwardFrames), ~Has(u, "PONG"),
           \A i \in 1..Len(w) : w[i].kind = "PONG" => i = 1
    PROVE  /\ w \o u \in Seq(InwardFrames)
           /\ \A k : Has(w \o u, k) <=> Has(w, k) \/ Has(u, k)
           /\ \A i \in 1..Len(w \o u) : (w \o u)[i].kind = "PONG" => i = 1
  <1> DEFINE v == w \o u
  <1>1. /\ Len(w) \in Nat /\ Len(u) \in Nat /\ Len(v) = Len(w) + Len(u) /\ v \in Seq(InwardFrames)
        /\ \A i \in 1..Len(v) : v[i] = IF i <= Len(w) THEN w[i] ELSE u[i - Len(w)]
    BY LenProperties, ConcatProperties
  <1> HIDE DEF v
  <1>2. \A k : Has(v, k) <=> Has(w, k) \/ Has(u, k)
    BY <1>1, ConcatKinds
  <1>3. ASSUME NEW i \in 1..Len(v), v[i].kind = "PONG"
        PROVE  i = 1
    <2>1. CASE i <= Len(w)
      BY <1>1, <1>3, <2>1
    <2>2. CASE i > Len(w)
      <3>1. i - Len(w) \in 1..Len(u) /\ v[i] = u[i - Len(w)]
        BY <1>1, <2>2
      <3> QED
        BY <1>3, <3>1 DEF Has
    <2> QED
      BY <1>1, <2>1, <2>2
  <1> QED
    BY <1>1, <1>2, <1>3 DEF v

LEMMA Answers ==
    ASSUME TypeOK
    PROVE  /\ responses \in Seq(InwardFrames) /\ Len(responses) \in Nat
           /\ \A i \in 1..Len(responses) : responses[i].kind = "PONG" => i = 1
           /\ Has(responses, "PONG") => respondPong
           /\ Has(responses, "UNINITIALISED") => respondUninitialised
           /\ Has(responses, "INITIALISED") => respondInitialised
           /\ Has(responses, "ACKNOWLEDGE") => respondAcknowledge >= 0
  <1> DEFINE a == IF respondPong THEN <<Pong>> ELSE <<>>
             b == IF respondUninitialised THEN <<Uninitialised>> ELSE <<>>
             c == IF respondInitialised THEN <<Initialised>> ELSE <<>>
             e == IF respondAcknowledge >= 0 THEN <<Acknowledge(respondAcknowledge)>> ELSE <<>>
  <1>0. ASSUME NEW m \in InwardFrames
        PROVE  <<m>> \in Seq(InwardFrames) /\ \A k : Has(<<m>>, k) <=> m.kind = k
    BY DEF Has
  <1>n. <<>> \in Seq(InwardFrames) /\ \A k : ~Has(<<>>, k)
    BY DEF Has
  <1>1. /\ a \in Seq(InwardFrames) /\ \A k : Has(a, k) => k = "PONG" /\ respondPong
        /\ \A i \in 1..Len(a) : a[i].kind = "PONG" => i = 1
    <2>1. Pong \in InwardFrames /\ Pong.kind = "PONG"
      BY DEF InwardFrames, Pong
    <2>2. \A i \in 1..Len(a) : i = 1
      OBVIOUS
    <2> QED
      BY <1>0, <1>n, <2>1, <2>2
  <1>2. b \in Seq(InwardFrames) /\ \A k : Has(b, k) => k = "UNINITIALISED" /\ respondUninitialised
    <2>1. Uninitialised \in InwardFrames /\ Uninitialised.kind = "UNINITIALISED"
      BY DEF InwardFrames, Uninitialised
    <2> QED
      BY <1>0, <1>n, <2>1
  <1>3. c \in Seq(InwardFrames) /\ \A k : Has(c, k) => k = "INITIALISED" /\ respondInitialised
    <2>1. Initialised \in InwardFrames /\ Initialised.kind = "INITIALISED"
      BY DEF InwardFrames, Initialised
    <2> QED
      BY <1>0, <1>n, <2>1
  <1>4. e \in Seq(InwardFrames) /\ \A k : Has(e, k) => k = "ACKNOWLEDGE" /\ respondAcknowledge >= 0
    <2>1. CASE respondAcknowledge >= 0
      <3>1. respondAcknowledge \in SeqNums
        BY <2>1 DEF TypeOK
      <3>2. /\ Acknowledge(respondAcknowledge) \in InwardFrames
            /\ Acknowledge(respondAcknowledge).kind = "ACKNOWLEDGE"
        BY <3>1 DEF InwardFrames, Acknowledge
      <3> QED
        BY <1>0, <2>1, <3>2
    <2>2. CASE ~(respondAcknowledge >= 0)
      BY <1>n, <2>2
    <2> QED
      BY <2>1, <2>2
  <1>5. responses = ((a \o b) \o c) \o e
    BY DEF responses
  <1> HIDE DEF a, b, c, e
  <1>6. ~Has(b, "PONG") /\ ~Has(c, "PONG") /\ ~Has(e, "PONG")
    BY <1>2, <1>3, <1>4
  <1>7. /\ a \o b \in Seq(InwardFrames) /\ \A k : Has(a \o b, k) <=> Has(a, k) \/ Has(b, k)
        /\ \A i \in 1..Len(a \o b) : (a \o b)[i].kind = "PONG" => i = 1
    BY <1>1, <1>2, <1>6, AnswersJoined
  <1> DEFINE ab == a \o b
  <1> HIDE DEF ab
  <1>8. /\ ab \o c \in Seq(InwardFrames) /\ \A k : Has(ab \o c, k) <=> Has(ab, k) \/ Has(c, k)
        /\ \A i \in 1..Len(ab \o c) : (ab \o c)[i].kind = "PONG" => i = 1
    <2>1. ab \in Seq(InwardFrames) /\ \A i \in 1..Len(ab) : ab[i].kind = "PONG" => i = 1
      BY <1>7 DEF ab
    <2> QED
      BY <1>3, <1>6, <2>1, AnswersJoined
  <1> DEFINE abc == ab \o c
  <1> HIDE DEF abc
  <1>9. /\ abc \o e \in Seq(InwardFrames) /\ \A k : Has(abc \o e, k) <=> Has(abc, k) \/ Has(e, k)
        /\ \A i \in 1..Len(abc \o e) : (abc \o e)[i].kind = "PONG" => i = 1
    <2>1. abc \in Seq(InwardFrames) /\ \A i \in 1..Len(abc) : abc[i].kind = "PONG" => i = 1
      BY <1>8 DEF abc
    <2> QED
      BY <1>4, <1>6, <2>1, AnswersJoined
  <1>10. responses = abc \o e
    BY <1>5 DEF abc, ab
  <1>11. \A k : Has(responses, k) => Has(a, k) \/ Has(b, k) \/ Has(c, k) \/ Has(e, k)
    <2>1. \A k : Has(ab, k) <=> Has(a, k) \/ Has(b, k)
      BY <1>7 DEF ab
    <2>2. \A k : Has(abc, k) <=> Has(ab, k) \/ Has(c, k)
      BY <1>8 DEF abc
    <2> QED
      BY <1>9, <1>10, <2>1, <2>2
  <1>12. /\ responses \in Seq(InwardFrames)
         /\ \A i \in 1..Len(responses) : responses[i].kind = "PONG" => i = 1
    BY <1>9, <1>10
  <1>13. Len(responses) \in Nat
    BY <1>12, LenProperties
  <1>14. /\ \A k : Has(a, k) => k = "PONG" /\ respondPong
         /\ \A k : Has(b, k) => k = "UNINITIALISED" /\ respondUninitialised
         /\ \A k : Has(c, k) => k = "INITIALISED" /\ respondInitialised
         /\ \A k : Has(e, k) => k = "ACKNOWLEDGE" /\ respondAcknowledge >= 0
    BY <1>1, <1>2, <1>3, <1>4
  <1>15. /\ Has(responses, "PONG") => respondPong
         /\ Has(responses, "UNINITIALISED") => respondUninitialised
         /\ Has(responses, "INITIALISED") => respondInitialised
         /\ Has(responses, "ACKNOWLEDGE") => respondAcknowledge >= 0
    BY <1>11, <1>14
  <1> QED
    BY <1>12, <1>13, <1>15

-----------------------------------------------------------------------------
(* The handshake, step by step. *)

\* As long as no more is under way, and neither a grant nor a refusal is new.
LEMMA FewEchoesKept ==
    ASSUME IInv, IInv', FewEchoes, StaleGreeting, UNCHANGED <<phase, initialised, countdown>>,
           InFlight' <= InFlight, Outstanding' <= Outstanding, Elapsed' <= Elapsed,
           Greeting' => Greeting,
           Refused' \/ Has(outward', "MESSAGE") => Refused \/ Has(outward, "MESSAGE"),
           Flushing /\ initialisations' > 0 => initialisations > 0
    PROVE  FewEchoes' /\ StaleGreeting'
  <1>1. /\ InFlight \in Nat /\ InFlight' \in Nat
        /\ Outstanding \in Int /\ Outstanding' \in Int /\ Elapsed \in Int /\ Elapsed' \in Int
    <2>1. TypeOK /\ TypeOK'
      BY DEF IInv
    <2> QED
      BY <2>1, Quantities, QuantitiesNext
  <1>2. (MidCycle' <=> MidCycle) /\ (Flushing' <=> Flushing)
    BY DEF MidCycle, Flushing
  <1>3. FewEchoes'
    BY <1>1, <1>2 DEF FewEchoes
  <1>4. StaleGreeting'
    BY <1>1, <1>2 DEF StaleGreeting
  <1> QED
    BY <1>3, <1>4

\* The pongs before an answer are some number.
LEMMA BeforeType ==
    ASSUME IInv, IInv', NEW i \in Nat
    PROVE  /\ BeforeMessage(i) \in Int /\ BeforeMessage(i)' \in Int
           /\ BeforeAnswer(i) \in Int /\ BeforeAnswer(i)' \in Int
           /\ BeforeRefusal \in Int /\ BeforeRefusal' \in Int
  <1>1. TypeOK /\ TypeOK'
    BY DEF IInv
  <1>2. /\ Flushed \in Int /\ PongsIn \in Int /\ PongDue \in Int
        /\ Count(outward, "PING", i) \in Int /\ Count(inward, "PONG", i) \in Int
    <2>1. PongsIn \in Nat /\ PongDue \in Nat /\ Flushed \in Int
      BY <1>1, Quantities
    <2>2. Count(outward, "PING", i) \in Nat /\ Count(inward, "PONG", i) \in Nat
      BY CountType
    <2> QED
      BY <2>1, <2>2
  <1>3. /\ Flushed' \in Int /\ PongsIn' \in Int /\ PongDue' \in Int
        /\ Count(outward', "PING", i) \in Int /\ Count(inward', "PONG", i) \in Int
    <2>1. PongsIn' \in Nat /\ PongDue' \in Nat /\ Flushed' \in Int
      BY <1>1, QuantitiesNext
    <2>2. Count(outward', "PING", i) \in Nat /\ Count(inward', "PONG", i) \in Nat
      BY CountType
    <2> QED
      BY <2>1, <2>2
  <1>4. /\ Flushed + PongsIn \in Int /\ Flushed + PongsIn + PongDue \in Int
        /\ Flushed' + PongsIn' \in Int
    BY <1>2, <1>3, Sums
  <1>5. Flushed' + PongsIn' + PongDue' \in Int
    BY <1>3, <1>4, Sums
  <1> QED
    BY <1>2, <1>3, <1>4, <1>5, Sums DEF BeforeMessage, BeforeAnswer, BeforeRefusal

\* As long as every message and answer under way stays as near to its turn.
LEMMA FlushKept ==
    ASSUME IInv, IInv', FlushOutlasts, UNCHANGED <<initialised, countdown>>,
           Flushing => \A i \in 1..Len(outward') : outward'[i].kind = "MESSAGE" =>
              \E j \in 1..Len(outward) :
                 outward[j].kind = "MESSAGE" /\ BeforeMessage(i)' <= BeforeMessage(j),
           Flushing /\ respondUninitialised' => BeforeRefusal' <= 1,
           Flushing => \A p \in 1..Len(inward') :
              inward'[p].kind \in {"UNINITIALISED", "ACKNOWLEDGE"} =>
                 \/ BeforeAnswer(p)' <= 2
                 \/ \E q \in 1..Len(inward) :
                       /\ inward[q].kind \in {"UNINITIALISED", "ACKNOWLEDGE"}
                       /\ BeforeAnswer(p)' <= BeforeAnswer(q)
    PROVE  FlushOutlasts'
  <1>1. Flushing' <=> Flushing
    BY DEF Flushing
  <1>2. ASSUME Flushing, NEW i \in 1..Len(outward'), outward'[i].kind = "MESSAGE"
        PROVE  BeforeMessage(i)' <= 1
    <2>1. PICK j \in 1..Len(outward) :
             outward[j].kind = "MESSAGE" /\ BeforeMessage(i)' <= BeforeMessage(j)
      BY <1>2
    <2>2. BeforeMessage(j) <= 1
      BY <1>2, <2>1 DEF FlushOutlasts
    <2>3. BeforeMessage(i)' \in Int /\ BeforeMessage(j) \in Int
      BY BeforeType
    <2> QED
      BY <2>1, <2>2, <2>3
  <1>3. ASSUME Flushing, NEW p \in 1..Len(inward'),
               inward'[p].kind \in {"UNINITIALISED", "ACKNOWLEDGE"}
        PROVE  BeforeAnswer(p)' <= 2
    <2>1. CASE \E q \in 1..Len(inward) :
                  /\ inward[q].kind \in {"UNINITIALISED", "ACKNOWLEDGE"}
                  /\ BeforeAnswer(p)' <= BeforeAnswer(q)
      <3>1. PICK q \in 1..Len(inward) :
               /\ inward[q].kind \in {"UNINITIALISED", "ACKNOWLEDGE"}
               /\ BeforeAnswer(p)' <= BeforeAnswer(q)
        BY <2>1
      <3>2. BeforeAnswer(q) <= 2
        BY <1>3, <3>1 DEF FlushOutlasts
      <3>3. BeforeAnswer(p)' \in Int /\ BeforeAnswer(q) \in Int
        BY BeforeType
      <3> QED
        BY <3>1, <3>2, <3>3
    <2> QED
      BY <1>3, <2>1
  <1> QED
    BY <1>1, <1>2, <1>3 DEF FlushOutlasts

LEMMA OutwardStep ==
    ASSUME IInv, outward # <<>>, outward' = Tail(outward)
    PROVE  /\ Len(outward') \in Nat /\ Len(outward) = Len(outward') + 1
           /\ \A i \in 1..Len(outward') : outward'[i] = outward[i + 1]
           /\ Head(outward) = outward[1] /\ 1 \in 1..Len(outward)
           /\ outward[1].kind \in {"PING", "INITIALISE", "MESSAGE"}
  <1>1. /\ Len(outward) \in Nat /\ Len(outward) >= 1 /\ Len(outward') + 1 = Len(outward)
        /\ \A i \in 1..Len(outward') : outward'[i] = outward[i + 1]
        /\ Head(outward) = outward[1]
    BY Taken
  <1>2. 1 \in 1..Len(outward)
    BY <1>1
  <1>3. outward[1] \in OutwardFrames
    BY <1>2 DEF IInv, TypeOK
  <1>4. outward[1].kind \in {"PING", "INITIALISE", "MESSAGE"}
    BY <1>3 DEF OutwardFrames, Ping, Initialise, Message
  <1>5. Len(outward') \in Nat
    <2>1. outward' = Tail(outward) /\ outward \in Seq(OutwardFrames) /\ outward # <<>>
      BY DEF IInv, TypeOK
    <2>2. outward' \in Seq(OutwardFrames)
      BY <2>1, HeadTailProperties
    <2> QED
      BY <2>2, LenProperties
  <1> QED
    BY <1>1, <1>2, <1>4, <1>5

\* A ping becomes a pong that is due.
LEMMA PingKeeps ==
    ASSUME IInv, IInv', HInv, ProcessPing
    PROVE  HInv'
  <1>1. /\ outward # <<>> /\ outward' = Tail(outward) /\ Head(outward).kind = "PING"
        /\ respondPong' = TRUE
        /\ UNCHANGED <<phase, initialised, countdown, pongs, acknowledged, initialisations,
                       uninitialisations, inward, ready, respondUninitialised,
                       respondInitialised, respondAcknowledge, log>>
    BY DEF ProcessPing, Consume, egressVars, feedbackVars
  <1>2. /\ Len(outward') \in Nat /\ Len(outward) = Len(outward') + 1
        /\ \A i \in 1..Len(outward') : outward'[i] = outward[i + 1]
        /\ outward[1].kind = "PING" /\ 1 \in 1..Len(outward)
    BY <1>1, OutwardStep
  <1>3. /\ Has(outward, "PING")
        /\ \A k : Has(outward', k) => Has(outward, k)
        /\ \A k, l : NoneBefore(outward, k, l) => NoneBefore(outward', k, l)
        /\ PingsOut' + 1 = PingsOut
        /\ \A i \in 1..Len(outward') :
              /\ i + 1 \in 1..Len(outward) /\ outward'[i] = outward[i + 1]
              /\ Count(outward', "PING", i) \in Nat
              /\ Count(outward', "PING", i) + 1 = Count(outward, "PING", i + 1)
    BY <1>2, OutwardTaken
  <1>4. PongsIn' = PongsIn /\ Flushed' = Flushed
    BY <1>1 DEF PongsIn, Flushed
  <1>5. TypeOK /\ TypeOK'
    BY DEF IInv
  <1>6. InFlight' <= InFlight
    <2>1. PingsOut \in Nat /\ PongsIn \in Nat /\ PingsOut' \in Nat
      BY <1>5, Quantities, QuantitiesNext
    <2> QED
      BY <1>1, <1>3, <1>4, <2>1 DEF InFlight, PingsOut, PongsIn, PongDue
  <1>7. Outstanding' <= Outstanding /\ Elapsed' <= Elapsed
    BY <1>1, <1>4, <1>5, <1>6, EchoesKept
  <1>8. /\ NotReady /\ OutwardOrder /\ Quiet /\ StillRefused /\ InwardOrder
        /\ EchoesFirst /\ FewEchoes /\ StaleGreeting /\ FlushOutlasts
    BY DEF HInv
  <1>9. NotReady' /\ OutwardOrder'
    BY <1>1, <1>3, <1>8 DEF NotReady, OutwardOrder, Flushing
  <1>10. Quiet'
    BY <1>1, <1>3, <1>8 DEF Quiet, Handshaking, MidCycle
  <1>11. StillRefused' /\ InwardOrder'
    BY <1>1, <1>3, <1>8 DEF StillRefused, Refused, InwardOrder, Flushing
  <1>12. EchoesFirst'
    <2>1. InFlight \in Nat /\ InFlight' \in Nat
      BY <1>5, Quantities, QuantitiesNext
    <2> QED
      BY <1>1, <1>3, <1>6, <1>8, <2>1 DEF EchoesFirst, Flushing
  <1>13. FewEchoes' /\ StaleGreeting'
    <2>1. /\ Greeting' => Greeting
          /\ Refused' \/ Has(outward', "MESSAGE") => Refused \/ Has(outward, "MESSAGE")
          /\ Flushing /\ initialisations' > 0 => initialisations > 0
      BY <1>1, <1>3 DEF Greeting, Refused
    <2> QED
      BY <1>1, <1>6, <1>7, <1>8, <2>1, FewEchoesKept
  <1>14. FlushOutlasts'
    <2>1. ASSUME NEW i \in 1..Len(outward')
          PROVE  /\ i + 1 \in 1..Len(outward) /\ outward'[i] = outward[i + 1]
                 /\ BeforeMessage(i)' <= BeforeMessage(i + 1)
      <3>1. BeforeMessage(i)' = Flushed + PongsIn + 1 + Count(outward', "PING", i)
        BY <1>1, <1>4 DEF BeforeMessage, PongDue
      <3>2. PongDue \in Nat /\ Flushed \in Int /\ PongsIn \in Nat
        BY <1>5, Quantities
      <3>3. /\ i + 1 \in 1..Len(outward) /\ outward'[i] = outward[i + 1]
            /\ Count(outward', "PING", i) \in Nat
            /\ Count(outward', "PING", i) + 1 = Count(outward, "PING", i + 1)
        BY <1>3
      <3> QED
        BY <3>1, <3>2, <3>3 DEF BeforeMessage
    <2>2. ASSUME NEW p \in 1..Len(inward)
          PROVE  BeforeAnswer(p)' <= BeforeAnswer(p)
      <3>1. p \in Nat /\ BeforeAnswer(p)' = BeforeAnswer(p)
        BY <1>1, <1>4 DEF BeforeAnswer
      <3> QED
        BY <3>1, BeforeType
    <2>3. BeforeRefusal' = BeforeRefusal
      BY <1>4 DEF BeforeRefusal
    <2> QED
      BY <1>1, <1>8, <2>1, <2>2, <2>3, FlushKept DEF FlushOutlasts
  <1> QED
    BY <1>9, <1>10, <1>11, <1>12, <1>13, <1>14 DEF HInv

\* A frame leaves the outward wire, be it taken or lost.
LEMMA OutwardLess ==
    ASSUME IInv, IInv', outward # <<>>, outward' = Tail(outward),
           UNCHANGED <<countdown, pongs, inward, respondPong>>
    PROVE  /\ Has(outward, outward[1].kind)
           /\ outward[1].kind \in {"PING", "INITIALISE", "MESSAGE"}
           /\ 1 \in 1..Len(outward) /\ Head(outward) = outward[1]
           /\ \A k : Has(outward', k) => Has(outward, k)
           /\ \A k, l : NoneBefore(outward, k, l) =>
                 NoneBefore(outward', k, l) /\ (outward[1].kind = k => ~Has(outward', l))
           /\ PongsIn' = PongsIn /\ Flushed' = Flushed
           /\ InFlight \in Nat /\ InFlight' \in Nat /\ InFlight' <= InFlight
           /\ Outstanding' <= Outstanding /\ Elapsed' <= Elapsed
           /\ \A i \in 1..Len(outward') :
                 /\ i + 1 \in 1..Len(outward) /\ outward'[i] = outward[i + 1]
                 /\ BeforeMessage(i)' <= BeforeMessage(i + 1)
           /\ \A p \in 1..Len(inward) : BeforeAnswer(p)' <= BeforeAnswer(p)
           /\ BeforeRefusal' = BeforeRefusal
  <1>1. /\ Len(outward') \in Nat /\ Len(outward) = Len(outward') + 1
        /\ \A i \in 1..Len(outward') : outward'[i] = outward[i + 1]
        /\ Head(outward) = outward[1] /\ 1 \in 1..Len(outward)
        /\ outward[1].kind \in {"PING", "INITIALISE", "MESSAGE"}
    BY OutwardStep
  <1>u. UNCHANGED <<countdown, pongs, inward, respondPong>>
    OBVIOUS
  <1>2. /\ Has(outward, outward[1].kind)
        /\ \A k : Has(outward', k) => Has(outward, k)
        /\ \A k, l : NoneBefore(outward, k, l) =>
              NoneBefore(outward', k, l) /\ (outward[1].kind = k => ~Has(outward', l))
    BY <1>1, OutwardTaken
  <1>3. /\ PingsOut' <= PingsOut
        /\ \A i \in 1..Len(outward') :
              /\ i + 1 \in 1..Len(outward) /\ outward'[i] = outward[i + 1]
              /\ Count(outward', "PING", i) \in Nat /\ Count(outward, "PING", i + 1) \in Nat
              /\ Count(outward', "PING", i) <= Count(outward, "PING", i + 1)
    BY <1>1, OutwardTaken
  <1>4. PongsIn' = PongsIn /\ Flushed' = Flushed /\ PongDue' = PongDue
    BY <1>u DEF PongsIn, Flushed, PongDue
  <1>5. TypeOK /\ TypeOK'
    BY DEF IInv
  <1>6. /\ InFlight \in Nat /\ InFlight' \in Nat /\ PingsOut \in Nat /\ PongsIn \in Nat
        /\ PingsOut' \in Nat /\ PongDue \in Nat /\ Flushed \in Int
    BY <1>5, Quantities, QuantitiesNext
  <1>7. InFlight' <= InFlight
    BY <1>u, <1>3, <1>4, <1>6 DEF InFlight, PingsOut, PongsIn, PongDue
  <1>8. Outstanding' <= Outstanding /\ Elapsed' <= Elapsed
    BY <1>u, <1>4, <1>5, <1>7, EchoesKept
  <1>9. ASSUME NEW i \in 1..Len(outward')
        PROVE  /\ i + 1 \in 1..Len(outward) /\ outward'[i] = outward[i + 1]
               /\ BeforeMessage(i)' <= BeforeMessage(i + 1)
    <2>1. BeforeMessage(i)' = Flushed + PongsIn + PongDue + Count(outward', "PING", i)
      BY <1>4 DEF BeforeMessage
    <2>2. /\ i + 1 \in 1..Len(outward) /\ outward'[i] = outward[i + 1]
          /\ Count(outward', "PING", i) \in Nat /\ Count(outward, "PING", i + 1) \in Nat
          /\ Count(outward', "PING", i) <= Count(outward, "PING", i + 1)
      BY <1>3
    <2> QED
      BY <1>6, <2>1, <2>2 DEF BeforeMessage
  <1>10. ASSUME NEW p \in 1..Len(inward)
         PROVE  BeforeAnswer(p)' <= BeforeAnswer(p)
    <2>1. p \in Nat /\ BeforeAnswer(p)' = BeforeAnswer(p)
      BY <1>u, <1>4 DEF BeforeAnswer
    <2> QED
      BY <2>1, BeforeType
  <1>11. BeforeRefusal' = BeforeRefusal
    BY <1>4 DEF BeforeRefusal
  <1> QED
    BY <1>1, <1>2, <1>4, <1>6, <1>7, <1>8, <1>9, <1>10, <1>11

\* A message that is refused: what is answered to it is as near as the message was.
LEMMA RejectKeeps ==
    ASSUME IInv, IInv', HInv, RejectMessage
    PROVE  HInv'
  <1>1. /\ outward # <<>> /\ outward' = Tail(outward) /\ Head(outward).kind = "MESSAGE"
        /\ respondUninitialised' = TRUE /\ ~ready
        /\ UNCHANGED <<phase, initialised, countdown, pongs, acknowledged, initialisations,
                       uninitialisations, inward, ready, respondPong,
                       respondInitialised, respondAcknowledge, log>>
    BY DEF RejectMessage, Consume, MayHandle, egressVars, feedbackVars
  <1>2. /\ Has(outward, outward[1].kind)
        /\ 1 \in 1..Len(outward) /\ Head(outward) = outward[1]
        /\ \A k : Has(outward', k) => Has(outward, k)
        /\ \A k, l : NoneBefore(outward, k, l) =>
              NoneBefore(outward', k, l) /\ (outward[1].kind = k => ~Has(outward', l))
    BY <1>1, OutwardLess
  <1>3. /\ InFlight \in Nat /\ InFlight' \in Nat /\ InFlight' <= InFlight
        /\ Outstanding' <= Outstanding /\ Elapsed' <= Elapsed
    BY <1>1, OutwardLess
  <1>4. /\ \A i \in 1..Len(outward') :
              /\ i + 1 \in 1..Len(outward) /\ outward'[i] = outward[i + 1]
              /\ BeforeMessage(i)' <= BeforeMessage(i + 1)
        /\ \A p \in 1..Len(inward) : BeforeAnswer(p)' <= BeforeAnswer(p)
        /\ BeforeRefusal' = BeforeRefusal
    BY <1>1, OutwardLess
  <1>5. /\ NotReady /\ OutwardOrder /\ Quiet /\ StillRefused /\ InwardOrder
        /\ EchoesFirst /\ FewEchoes /\ StaleGreeting /\ FlushOutlasts
    BY DEF HInv
  <1>6. Has(outward, "MESSAGE") /\ outward[1].kind = "MESSAGE" /\ ~Has(outward', "INITIALISE")
    BY <1>1, <1>2, <1>5 DEF OutwardOrder
  <1>7. NotReady' /\ OutwardOrder'
    BY <1>1, <1>2, <1>5 DEF NotReady, OutwardOrder, Flushing
  <1>8. Quiet'
    BY <1>1, <1>2, <1>5, <1>6 DEF Quiet, Handshaking, MidCycle
  <1>9. StillRefused' /\ InwardOrder'
    BY <1>1, <1>2, <1>5, <1>6 DEF StillRefused, Refused, InwardOrder, Flushing
  <1>10. EchoesFirst'
    BY <1>1, <1>2, <1>3, <1>5 DEF EchoesFirst, Flushing
  <1>11. FewEchoes' /\ StaleGreeting'
    <2>1. /\ Greeting' => Greeting
          /\ Refused' \/ Has(outward', "MESSAGE") => Refused \/ Has(outward, "MESSAGE")
          /\ Flushing /\ initialisations' > 0 => initialisations > 0
      BY <1>1, <1>2, <1>6 DEF Greeting, Refused
    <2> QED
      BY <1>1, <1>3, <1>5, <2>1, FewEchoesKept
  <1>12. FlushOutlasts'
    <2>1. ASSUME Flushing
          PROVE  BeforeRefusal' <= 1
      <3>1. BeforeMessage(1) <= 1
        BY <1>2, <1>5, <1>6, <2>1 DEF FlushOutlasts
      <3>2. /\ Flushed \in Int /\ PongsIn \in Nat /\ PongDue \in Nat
            /\ Count(outward, "PING", 1) \in Nat
        BY Quantities, CountType DEF IInv
      <3>3. BeforeRefusal <= 1
        BY <3>1, <3>2 DEF BeforeMessage, BeforeRefusal
      <3> QED
        BY <1>4, <3>3
    <2> QED
      BY <1>1, <1>4, <1>5, <2>1, FlushKept
  <1> QED
    BY <1>7, <1>8, <1>9, <1>10, <1>11, <1>12 DEF HInv

\* The offer is taken: no ping is behind it, and nothing has been refused.
LEMMA InitialiseKeeps ==
    ASSUME IInv, IInv', HInv, HandleInitialise
    PROVE  HInv'
  <1>1. /\ outward # <<>> /\ outward' = Tail(outward) /\ Head(outward).kind = "INITIALISE"
        /\ ready' = TRUE /\ respondInitialised' = TRUE
        /\ UNCHANGED <<phase, initialised, countdown, pongs, acknowledged, initialisations,
                       uninitialisations, inward, respondPong, respondUninitialised,
                       respondAcknowledge, log>>
    BY DEF HandleInitialise, Consume, egressVars, feedbackVars
  <1>2. /\ Has(outward, outward[1].kind)
        /\ 1 \in 1..Len(outward) /\ Head(outward) = outward[1]
        /\ \A k : Has(outward', k) => Has(outward, k)
        /\ \A k, l : NoneBefore(outward, k, l) =>
              NoneBefore(outward', k, l) /\ (outward[1].kind = k => ~Has(outward', l))
    BY <1>1, OutwardLess
  <1>3. /\ InFlight \in Nat /\ InFlight' \in Nat /\ InFlight' <= InFlight
        /\ Outstanding' <= Outstanding /\ Elapsed' <= Elapsed
    BY <1>1, OutwardLess
  <1>4. /\ NotReady /\ OutwardOrder /\ Quiet /\ StillRefused /\ InwardOrder
        /\ EchoesFirst /\ FewEchoes /\ StaleGreeting /\ FlushOutlasts
    BY DEF HInv
  <1>5. /\ Has(outward, "INITIALISE") /\ ~Has(outward', "PING")
        /\ ~Flushing /\ log = <<>> /\ ~Refused
    BY <1>1, <1>2, <1>4 DEF OutwardOrder, StillRefused
  <1>6. NotReady' /\ OutwardOrder'
    BY <1>1, <1>2, <1>4, <1>5 DEF NotReady, OutwardOrder, Flushing
  <1>7. Quiet'
    BY <1>1, <1>2, <1>4 DEF Quiet, Handshaking, MidCycle
  <1>8. StillRefused' /\ InwardOrder'
    BY <1>1, <1>4, <1>5 DEF StillRefused, Refused, InwardOrder, Flushing
  <1>9. EchoesFirst'
    BY <1>1, <1>2, <1>3, <1>4, <1>5 DEF EchoesFirst, Flushing
  <1>10. FewEchoes' /\ StaleGreeting'
    <2>1. /\ Greeting' => Greeting
          /\ Refused' \/ Has(outward', "MESSAGE") => Refused \/ Has(outward, "MESSAGE")
          /\ Flushing /\ initialisations' > 0 => initialisations > 0
      BY <1>1, <1>2, <1>5 DEF Greeting, Refused
    <2> QED
      BY <1>1, <1>3, <1>4, <2>1, FewEchoesKept
  <1>11. FlushOutlasts'
    BY <1>1, <1>5 DEF FlushOutlasts, Flushing
  <1> QED
    BY <1>6, <1>7, <1>8, <1>9, <1>10, <1>11 DEF HInv

\* A message is received or repeated: no offer is behind it.
LEMMA ReceiptKeeps ==
    ASSUME IInv, IInv', HInv, HandleMessage
    PROVE  HInv'
  <1>1. /\ outward # <<>> /\ outward' = Tail(outward) /\ Head(outward).kind = "MESSAGE" /\ ready
        /\ UNCHANGED <<phase, initialised, countdown, pongs, acknowledged, initialisations,
                       uninitialisations, inward, ready, respondPong, respondUninitialised,
                       respondInitialised>>
    BY DEF HandleMessage, Consume, MayHandle, egressVars, feedbackVars
  <1>2. /\ Has(outward, outward[1].kind)
        /\ 1 \in 1..Len(outward) /\ Head(outward) = outward[1]
        /\ \A k : Has(outward', k) => Has(outward, k)
        /\ \A k, l : NoneBefore(outward, k, l) =>
              NoneBefore(outward', k, l) /\ (outward[1].kind = k => ~Has(outward', l))
    BY <1>1, OutwardLess
  <1>3. /\ InFlight \in Nat /\ InFlight' \in Nat /\ InFlight' <= InFlight
        /\ Outstanding' <= Outstanding /\ Elapsed' <= Elapsed
    BY <1>1, OutwardLess
  <1>4. /\ NotReady /\ OutwardOrder /\ Quiet /\ StillRefused /\ InwardOrder
        /\ EchoesFirst /\ FewEchoes /\ StaleGreeting /\ FlushOutlasts
    BY DEF HInv
  <1>5. /\ Has(outward, "MESSAGE") /\ ~Has(outward', "INITIALISE")
        /\ ~Flushing /\ ~Handshaking
    BY <1>1, <1>2, <1>4 DEF OutwardOrder, NotReady, Quiet
  <1>6. NotReady' /\ OutwardOrder'
    BY <1>1, <1>2, <1>4, <1>5 DEF NotReady, OutwardOrder, Flushing
  <1>7. Quiet'
    BY <1>1, <1>5 DEF Quiet, Handshaking
  <1>8. StillRefused' /\ InwardOrder'
    BY <1>1, <1>4, <1>5 DEF StillRefused, Refused, InwardOrder, Flushing
  <1>9. EchoesFirst'
    BY <1>1, <1>2, <1>3, <1>4, <1>5 DEF EchoesFirst, Flushing
  <1>10. FewEchoes' /\ StaleGreeting'
    <2>1. /\ Greeting' => Greeting
          /\ Refused' \/ Has(outward', "MESSAGE") => Refused \/ Has(outward, "MESSAGE")
          /\ Flushing /\ initialisations' > 0 => initialisations > 0
      BY <1>1, <1>2, <1>5 DEF Greeting, Refused
    <2> QED
      BY <1>1, <1>3, <1>4, <2>1, FewEchoesKept
  <1>11. FlushOutlasts'
    BY <1>1, <1>5 DEF FlushOutlasts, Flushing
  <1> QED
    BY <1>6, <1>7, <1>8, <1>9, <1>10, <1>11 DEF HInv

\* A frame is lost on its way to the receiver.
LEMMA LossOutwardKeeps ==
    ASSUME IInv, IInv', HInv, LoseOutward
    PROVE  HInv'
  <1>1. /\ outward # <<>> /\ outward' = Tail(outward)
        /\ UNCHANGED <<phase, initialised, countdown, pongs, acknowledged, initialisations,
                       uninitialisations, inward, ready, respondPong, respondUninitialised,
                       respondInitialised, respondAcknowledge, log>>
    BY DEF LoseOutward, egressVars, feedbackVars, receiverVars, responseVars, historyVars
  <1>2. /\ Has(outward, outward[1].kind)
        /\ 1 \in 1..Len(outward) /\ Head(outward) = outward[1]
        /\ \A k : Has(outward', k) => Has(outward, k)
        /\ \A k, l : NoneBefore(outward, k, l) =>
              NoneBefore(outward', k, l) /\ (outward[1].kind = k => ~Has(outward', l))
    BY <1>1, OutwardLess
  <1>3. /\ InFlight \in Nat /\ InFlight' \in Nat /\ InFlight' <= InFlight
        /\ Outstanding' <= Outstanding /\ Elapsed' <= Elapsed
    BY <1>1, OutwardLess
  <1>4. /\ NotReady /\ OutwardOrder /\ Quiet /\ StillRefused /\ InwardOrder
        /\ EchoesFirst /\ FewEchoes /\ StaleGreeting /\ FlushOutlasts
    BY DEF HInv
  <1>5. /\ \A i \in 1..Len(outward') :
              /\ i + 1 \in 1..Len(outward) /\ outward'[i] = outward[i + 1]
              /\ BeforeMessage(i)' <= BeforeMessage(i + 1)
        /\ \A p \in 1..Len(inward) : BeforeAnswer(p)' <= BeforeAnswer(p)
        /\ BeforeRefusal' = BeforeRefusal
    BY <1>1, OutwardLess
  <1>6. NotReady' /\ OutwardOrder'
    BY <1>1, <1>2, <1>4 DEF NotReady, OutwardOrder, Flushing
  <1>7. Quiet'
    BY <1>1, <1>2, <1>4 DEF Quiet, Handshaking, MidCycle
  <1>8. StillRefused' /\ InwardOrder'
    BY <1>1, <1>2, <1>4 DEF StillRefused, Refused, InwardOrder, Flushing
  <1>9. EchoesFirst'
    BY <1>1, <1>2, <1>3, <1>4 DEF EchoesFirst, Flushing
  <1>10. FewEchoes' /\ StaleGreeting'
    <2>1. /\ Greeting' => Greeting
          /\ Refused' \/ Has(outward', "MESSAGE") => Refused \/ Has(outward, "MESSAGE")
          /\ Flushing /\ initialisations' > 0 => initialisations > 0
      BY <1>1, <1>2 DEF Greeting, Refused
    <2> QED
      BY <1>1, <1>3, <1>4, <2>1, FewEchoesKept
  <1>11. FlushOutlasts'
    BY <1>1, <1>4, <1>5, FlushKept DEF FlushOutlasts
  <1> QED
    BY <1>6, <1>7, <1>8, <1>9, <1>10, <1>11 DEF HInv

LEMMA InwardStep ==
    ASSUME IInv, inward # <<>>, inward' = Tail(inward)
    PROVE  /\ Len(inward') \in Nat /\ Len(inward) = Len(inward') + 1
           /\ \A i \in 1..Len(inward') : inward'[i] = inward[i + 1]
           /\ Head(inward) = inward[1] /\ 1 \in 1..Len(inward)
           /\ inward[1].kind \in {"PONG", "INITIALISED", "UNINITIALISED", "ACKNOWLEDGE"}
  <1>1. inward \in Seq(InwardFrames) /\ inward # <<>>
    BY DEF IInv, TypeOK
  <1>2. /\ Len(inward) \in Nat /\ Len(inward) >= 1 /\ Len(inward') = Len(inward) - 1
        /\ \A i \in 1..Len(inward') : inward'[i] = inward[i + 1]
        /\ Head(inward) = inward[1]
    BY <1>1, LenProperties, EmptySeq, HeadTailProperties
  <1>3. 1 \in 1..Len(inward)
    BY <1>2
  <1>4. inward[1] \in InwardFrames
    BY <1>1, <1>3
  <1>5. inward[1].kind \in {"PONG", "INITIALISED", "UNINITIALISED", "ACKNOWLEDGE"}
    BY <1>4 DEF InwardFrames, Pong, Initialised, Uninitialised, Acknowledge
  <1>6. Len(inward') \in Nat /\ Len(inward) = Len(inward') + 1
    <2>1. Len(inward) - 1 \in Nat /\ Len(inward) = (Len(inward) - 1) + 1
      BY <1>2
    <2> QED
      BY <1>2, <2>1
  <1> QED
    BY <1>2, <1>3, <1>5, <1>6

\* An answer leaves the inward wire, be it fed back or lost; a pong may be counted.
TakesInward ==
    /\ inward # <<>> /\ inward' = Tail(inward)
    /\ UNCHANGED <<countdown, outward, respondPong>>
    /\ pongs' = pongs \/ (Head(inward).kind = "PONG" /\ pongs' = pongs + 1)

LEMMA InwardLess ==
    ASSUME IInv, IInv', TakesInward
    PROVE  /\ Has(inward, inward[1].kind)
           /\ 1 \in 1..Len(inward) /\ Head(inward) = inward[1]
           /\ inward[1].kind \in {"PONG", "INITIALISED", "UNINITIALISED", "ACKNOWLEDGE"}
           /\ \A k : Has(inward', k) => Has(inward, k)
           /\ \A k, l : NoneBefore(inward, k, l) =>
                 NoneBefore(inward', k, l) /\ (inward[1].kind = k => ~Has(inward', l))
           /\ InFlight \in Nat /\ InFlight' \in Nat /\ InFlight' <= InFlight
           /\ Outstanding' <= Outstanding /\ Elapsed' <= Elapsed
           /\ \A i \in 1..Len(outward) : BeforeMessage(i)' <= BeforeMessage(i)
           /\ \A p \in 1..Len(inward') :
                 /\ p + 1 \in 1..Len(inward) /\ inward'[p] = inward[p + 1]
                 /\ BeforeAnswer(p)' <= BeforeAnswer(p + 1)
           /\ BeforeRefusal' <= BeforeRefusal
  <1>1. /\ Len(inward') \in Nat /\ Len(inward) = Len(inward') + 1
        /\ \A i \in 1..Len(inward') : inward'[i] = inward[i + 1]
        /\ Head(inward) = inward[1] /\ 1 \in 1..Len(inward)
        /\ inward[1].kind \in {"PONG", "INITIALISED", "UNINITIALISED", "ACKNOWLEDGE"}
    BY InwardStep DEF TakesInward
  <1>u. /\ UNCHANGED <<countdown, outward, respondPong>>
        /\ pongs' = pongs \/ (inward[1].kind = "PONG" /\ pongs' = pongs + 1)
    BY <1>1 DEF TakesInward
  <1>2. /\ Has(inward, inward[1].kind)
        /\ \A k : Has(inward', k) => Has(inward, k)
        /\ \A k, l : NoneBefore(inward, k, l) =>
              NoneBefore(inward', k, l) /\ (inward[1].kind = k => ~Has(inward', l))
    BY <1>1, InwardTaken
  <1>3. /\ PongsIn' <= PongsIn
        /\ \A i \in 1..Len(inward') :
              /\ i + 1 \in 1..Len(inward) /\ inward'[i] = inward[i + 1]
              /\ Count(inward', "PONG", i) \in Nat /\ Count(inward, "PONG", i + 1) \in Nat
              /\ Count(inward', "PONG", i) <= Count(inward, "PONG", i + 1)
              /\ inward[1].kind = "PONG" =>
                    Count(inward', "PONG", i) + 1 = Count(inward, "PONG", i + 1)
        /\ inward[1].kind = "PONG" => PongsIn' <= PongsIn - 1
    BY <1>1, InwardTaken
  <1>4. PingsOut' = PingsOut /\ PongDue' = PongDue
    BY <1>u DEF PingsOut, PongDue
  <1>5. TypeOK /\ TypeOK'
    BY DEF IInv
  <1>6. /\ InFlight \in Nat /\ InFlight' \in Nat /\ PingsOut \in Nat /\ PongsIn \in Nat
        /\ PongsIn' \in Nat /\ PongDue \in Nat /\ Flushed \in Int /\ Flushed' \in Int
        /\ pongs \in Nat /\ pongs' \in Nat /\ countdown \in Int
        /\ Outstanding \in Int /\ Outstanding' \in Int /\ Elapsed \in Int /\ Elapsed' \in Int
    BY <1>5, Quantities, QuantitiesNext
  <1>n. /\ InFlight \in Int /\ InFlight' \in Int /\ PongsIn \in Int /\ PongsIn' \in Int
        /\ PongDue \in Int /\ Flushed \in Int /\ Flushed' \in Int
        /\ pongs \in Int /\ pongs' \in Int
    BY <1>6
  <1>7. InFlight' <= InFlight /\ (inward[1].kind = "PONG" => InFlight' <= InFlight - 1)
    <2>1. InFlight' = PingsOut + PongDue + PongsIn'
      BY <1>4 DEF InFlight
    <2>2. PongsIn' <= PongsIn /\ (inward[1].kind = "PONG" => PongsIn' <= PongsIn - 1)
      BY <1>3
    <2>3. PingsOut + PongDue \in Int /\ PingsOut + PongDue <= PingsOut + PongDue
      BY <1>6
    <2>4. PingsOut + PongDue + PongsIn' <= PingsOut + PongDue + PongsIn
      BY <1>n, <2>2, <2>3, Sums
    <2>5. ASSUME inward[1].kind = "PONG"
          PROVE  PingsOut + PongDue + PongsIn' <= PingsOut + PongDue + (PongsIn - 1)
      <3>1. PongsIn - 1 \in Int /\ PongsIn' <= PongsIn - 1
        BY <1>6, <2>2, <2>5
      <3> QED
        BY <1>n, <2>3, <3>1, Sums
    <2>6. PingsOut + PongDue + (PongsIn - 1) = InFlight - 1
      BY <1>6 DEF InFlight
    <2> QED
      BY <2>1, <2>4, <2>5, <2>6 DEF InFlight
  <1>8. \/ pongs' = pongs /\ Flushed' = Flushed
        \/ inward[1].kind = "PONG" /\ pongs' = pongs + 1 /\ Flushed' = Flushed + 1
    <2>1. CASE pongs' = pongs
      BY <1>u, <2>1 DEF Flushed
    <2>2. CASE inward[1].kind = "PONG" /\ pongs' = pongs + 1
      <3>1. Flushed' = FlushCount - countdown + (pongs + 1)
        BY <1>u, <2>2 DEF Flushed
      <3>2. FlushCount - countdown + (pongs + 1) = Flushed + 1
        BY <1>6, ParameterAssumption DEF Flushed
      <3> QED
        BY <2>2, <3>1, <3>2
    <2> QED
      BY <1>u, <2>1, <2>2
  <1>9. Outstanding' <= Outstanding /\ Elapsed' <= Elapsed
    <2>1. CASE pongs' = pongs /\ Flushed' = Flushed
      BY <1>5, <1>7, <2>1, EchoesKept
    <2>2. CASE inward[1].kind = "PONG" /\ pongs' = pongs + 1 /\ Flushed' = Flushed + 1
      <3>1. InFlight' <= InFlight - 1 /\ pongs' <= pongs + 1 /\ Flushed' <= Flushed + 1
        BY <1>6, <1>7, <2>2
      <3>2. InFlight' + pongs' <= InFlight + pongs /\ InFlight' + Flushed' <= InFlight + Flushed
        BY <1>n, <3>1, Sums
      <3> QED
        BY <3>2 DEF Outstanding, Elapsed
    <2> QED
      BY <1>8, <2>1, <2>2
  <1>10. BeforeRefusal' <= BeforeRefusal /\ BeforeRefusal' \in Int /\ BeforeRefusal \in Int
    <2>1. Flushed' + PongsIn' <= Flushed + PongsIn
      <3>1. CASE pongs' = pongs /\ Flushed' = Flushed
        <4>1. Flushed' <= Flushed
          BY <1>6, <3>1
        <4> QED
          BY <1>3, <1>n, <4>1, Sums
      <3>2. CASE inward[1].kind = "PONG" /\ pongs' = pongs + 1 /\ Flushed' = Flushed + 1
        <4>1. Flushed' <= Flushed + 1 /\ PongsIn' <= PongsIn - 1
          BY <1>3, <1>6, <3>2
        <4> QED
          BY <1>n, <4>1, Sums
      <3> QED
        BY <1>8, <3>1, <3>2
    <2> QED
      BY <1>n, <2>1, Sums DEF BeforeRefusal
  <1>11. ASSUME NEW i \in 1..Len(outward)
         PROVE  BeforeMessage(i)' <= BeforeMessage(i)
    <2>1. BeforeMessage(i)' = BeforeRefusal' + PongDue' + Count(outward', "PING", i)
      BY DEF BeforeMessage, BeforeRefusal
    <2>2. BeforeMessage(i) = BeforeRefusal + PongDue + Count(outward, "PING", i)
      BY DEF BeforeMessage, BeforeRefusal
    <2>3. Count(outward, "PING", i) \in Nat
      <3>1. i \in Nat
        BY <1>6
      <3> QED
        BY <3>1, CountType
    <2>4. PongDue' = PongDue /\ Count(outward', "PING", i) = Count(outward, "PING", i)
      BY <1>u, <1>4
    <2>5. BeforeRefusal' + PongDue' <= BeforeRefusal + PongDue
      <3>1. PongDue' <= PongDue /\ PongDue' \in Int
        BY <1>4, <1>6
      <3> QED
        BY <1>n, <1>10, <3>1, Sums
    <2>6. BeforeRefusal' + PongDue' \in Int /\ BeforeRefusal + PongDue \in Int
      BY <1>4, <1>n, <1>10, Sums
    <2>7. Count(outward', "PING", i) \in Int /\ Count(outward', "PING", i) <= Count(outward, "PING", i)
      BY <2>3, <2>4
    <2> QED
      BY <2>1, <2>2, <2>3, <2>5, <2>6, <2>7, Sums
  <1>12. ASSUME NEW p \in 1..Len(inward')
         PROVE  /\ p + 1 \in 1..Len(inward) /\ inward'[p] = inward[p + 1]
                /\ BeforeAnswer(p)' <= BeforeAnswer(p + 1)
    <2>1. /\ p + 1 \in 1..Len(inward) /\ inward'[p] = inward[p + 1]
          /\ Count(inward', "PONG", p) \in Nat /\ Count(inward, "PONG", p + 1) \in Nat
          /\ Count(inward', "PONG", p) <= Count(inward, "PONG", p + 1)
          /\ inward[1].kind = "PONG" =>
                Count(inward', "PONG", p) + 1 = Count(inward, "PONG", p + 1)
      BY <1>3
    <2>t. Count(inward', "PONG", p) \in Int /\ Count(inward, "PONG", p + 1) \in Int
      BY <2>1
    <2>2. Flushed' + Count(inward', "PONG", p) <= Flushed + Count(inward, "PONG", p + 1)
      <3>1. CASE pongs' = pongs /\ Flushed' = Flushed
        <4>1. Flushed' <= Flushed
          BY <1>6, <3>1
        <4> QED
          BY <1>n, <2>1, <2>t, <4>1, Sums
      <3>2. CASE inward[1].kind = "PONG" /\ pongs' = pongs + 1 /\ Flushed' = Flushed + 1
        <4>1. /\ Flushed' <= Flushed + 1
              /\ Count(inward', "PONG", p) <= Count(inward, "PONG", p + 1) - 1
          BY <1>6, <2>1, <3>2
        <4> QED
          BY <1>n, <2>1, <2>t, <4>1, Sums
      <3> QED
        BY <1>8, <3>1, <3>2
    <2> QED
      BY <2>1, <2>2 DEF BeforeAnswer
  <1>13. /\ Outstanding' <= Outstanding /\ Elapsed' <= Elapsed
         /\ InFlight \in Nat /\ InFlight' \in Nat /\ InFlight' <= InFlight
         /\ BeforeRefusal' <= BeforeRefusal
    BY <1>6, <1>7, <1>9, <1>10
  <1> QED
    BY <1>1, <1>2, <1>11, <1>12, <1>13

\* Nothing is under way that can be counted.
LEMMA NoEchoes ==
    ASSUME TypeOK', ~Has(outward', "PING"), ~respondPong', ~Has(inward', "PONG")
    PROVE  InFlight' <= 0
  <1>1. Len(outward') \in Nat /\ Len(inward') \in Nat
    BY QuantitiesNext
  <1>2. Count(outward', "PING", Len(outward')) = 0 /\ Count(inward', "PONG", Len(inward')) = 0
    <2>1. \A i \in 1..Len(outward') : outward'[i].kind # "PING"
      BY DEF Has
    <2>2. \A i \in 1..Len(inward') : inward'[i].kind # "PONG"
      BY DEF Has
    <2> QED
      BY <1>1, <2>1, <2>2, CountNone
  <1> QED
    BY <1>2 DEF InFlight, PingsOut, PongsIn, PongDue

\* An answer is fed back to the sender.
LEMMA FeedbackKeeps ==
    ASSUME IInv, IInv', HInv, Feedback
    PROVE  HInv'
  <1>0. UNCHANGED <<phase, initialised, countdown, outward, ready, respondPong,
                    respondUninitialised, respondInitialised, respondAcknowledge, log>>
    BY DEF Feedback, egressVars, receiverVars, responseVars, historyVars
  <1>k. /\ inward # <<>> /\ inward' = Tail(inward)
        /\ LET k == Head(inward).kind IN
           /\ pongs' = IF k = "PONG" THEN pongs + 1 ELSE pongs
           /\ k # "ACKNOWLEDGE" => acknowledged' = acknowledged
           /\ k # "INITIALISED" => initialisations' = initialisations
           /\ k # "UNINITIALISED" => uninitialisations' = uninitialisations
    <2>1. pongs \in Nat /\ initialisations \in Nat /\ uninitialisations \in Nat
      BY DEF IInv, TypeOK
    <2> QED
      BY <2>1 DEF Feedback
  <1>1. /\ inward # <<>> /\ inward' = Tail(inward)
        /\ UNCHANGED <<countdown, outward, respondPong>>
        /\ pongs' = pongs \/ (Head(inward).kind = "PONG" /\ pongs' = pongs + 1)
    BY <1>0, <1>k
  <1>2. TakesInward
    BY <1>1 DEF TakesInward
  <1>3. /\ Has(inward, inward[1].kind)
        /\ 1 \in 1..Len(inward) /\ Head(inward) = inward[1]
        /\ inward[1].kind \in {"PONG", "INITIALISED", "UNINITIALISED", "ACKNOWLEDGE"}
        /\ \A k : Has(inward', k) => Has(inward, k)
        /\ \A k, l : NoneBefore(inward, k, l) =>
              NoneBefore(inward', k, l) /\ (inward[1].kind = k => ~Has(inward', l))
    BY <1>2, InwardLess
  <1>4. /\ InFlight \in Nat /\ InFlight' \in Nat /\ InFlight' <= InFlight
        /\ Outstanding' <= Outstanding /\ Elapsed' <= Elapsed
    BY <1>2, InwardLess
  <1>5. /\ \A i \in 1..Len(outward) : BeforeMessage(i)' <= BeforeMessage(i)
        /\ \A p \in 1..Len(inward') :
              /\ p + 1 \in 1..Len(inward) /\ inward'[p] = inward[p + 1]
              /\ BeforeAnswer(p)' <= BeforeAnswer(p + 1)
        /\ BeforeRefusal' <= BeforeRefusal
    BY <1>2, InwardLess
  <1>6. /\ NotReady /\ OutwardOrder /\ Quiet /\ StillRefused /\ InwardOrder
        /\ EchoesFirst /\ FewEchoes /\ StaleGreeting /\ FlushOutlasts
    BY DEF HInv
  <1>7. /\ inward[1].kind # "ACKNOWLEDGE" => acknowledged' = acknowledged
        /\ inward[1].kind # "INITIALISED" => initialisations' = initialisations
        /\ inward[1].kind # "UNINITIALISED" => uninitialisations' = uninitialisations
    BY <1>k, <1>3
  <1>8. NotReady' /\ OutwardOrder'
    BY <1>0, <1>6 DEF NotReady, OutwardOrder, Flushing
  <1>9. Quiet'
    BY <1>0, <1>3, <1>6, <1>7 DEF Quiet, Handshaking, MidCycle, InwardOrder
  <1>10. StillRefused' /\ InwardOrder'
    BY <1>0, <1>3, <1>6, <1>7 DEF StillRefused, Refused, InwardOrder, Flushing
  <1>11. EchoesFirst'
    <2>1. TypeOK'
      BY DEF IInv
    <2>2. ASSUME ~Flushing, initialisations' > 0
          PROVE  InFlight' <= 0
      <3>1. CASE inward[1].kind = "INITIALISED"
        <4>1. ~Has(outward', "PING") /\ ~respondPong' /\ ~Has(inward', "PONG")
          BY <1>0, <1>3, <1>6, <2>2, <3>1 DEF EchoesFirst
        <4> QED
          BY <2>1, <4>1, NoEchoes
      <3>2. CASE inward[1].kind # "INITIALISED"
        <4>1. InFlight <= 0
          BY <1>6, <1>7, <2>2, <3>2 DEF EchoesFirst
        <4> QED
          BY <1>4, <4>1
      <3> QED
        BY <3>1, <3>2
    <2> QED
      BY <1>0, <1>3, <1>6, <2>2 DEF EchoesFirst, Flushing
  <1>12. FewEchoes' /\ StaleGreeting'
    <2>1. Greeting' => Greeting
      BY <1>0, <1>3, <1>7 DEF Greeting
    <2>2. Refused' \/ Has(outward', "MESSAGE") => Refused \/ Has(outward, "MESSAGE")
      BY <1>0, <1>3, <1>7 DEF Refused
    <2>3. Flushing /\ initialisations' > 0 => initialisations > 0
      BY <1>0, <1>3, <1>6, <1>7 DEF InwardOrder
    <2> QED
      BY <1>0, <1>4, <1>6, <2>1, <2>2, <2>3, FewEchoesKept
  <1>13. FlushOutlasts'
    <2>1. BeforeRefusal' \in Int /\ BeforeRefusal \in Int
      BY BeforeType, <1>4
    <2>2. Flushing /\ respondUninitialised' => BeforeRefusal' <= 1
      BY <1>0, <1>5, <1>6, <2>1 DEF FlushOutlasts
    <2> QED
      BY <1>0, <1>5, <1>6, <2>2, FlushKept
  <1> QED
    BY <1>8, <1>9, <1>10, <1>11, <1>12, <1>13 DEF HInv

\* An answer is lost on its way to the sender.
LEMMA LossInwardKeeps ==
    ASSUME IInv, IInv', HInv, LoseInward
    PROVE  HInv'
  <1>0. UNCHANGED <<phase, initialised, countdown, outward, ready, respondPong,
                    respondUninitialised, respondInitialised, respondAcknowledge, log,
                    acknowledged, initialisations, uninitialisations>>
    BY DEF LoseInward, egressVars, feedbackVars, receiverVars, responseVars, historyVars
  <1>1. /\ inward # <<>> /\ inward' = Tail(inward)
        /\ UNCHANGED <<countdown, outward, respondPong>> /\ pongs' = pongs
    BY DEF LoseInward, egressVars, feedbackVars, receiverVars, responseVars
  <1>2. TakesInward
    BY <1>1 DEF TakesInward
  <1>3. /\ Has(inward, inward[1].kind)
        /\ 1 \in 1..Len(inward) /\ Head(inward) = inward[1]
        /\ inward[1].kind \in {"PONG", "INITIALISED", "UNINITIALISED", "ACKNOWLEDGE"}
        /\ \A k : Has(inward', k) => Has(inward, k)
        /\ \A k, l : NoneBefore(inward, k, l) =>
              NoneBefore(inward', k, l) /\ (inward[1].kind = k => ~Has(inward', l))
    BY <1>2, InwardLess
  <1>4. /\ InFlight \in Nat /\ InFlight' \in Nat /\ InFlight' <= InFlight
        /\ Outstanding' <= Outstanding /\ Elapsed' <= Elapsed
    BY <1>2, InwardLess
  <1>5. /\ \A i \in 1..Len(outward) : BeforeMessage(i)' <= BeforeMessage(i)
        /\ \A p \in 1..Len(inward') :
              /\ p + 1 \in 1..Len(inward) /\ inward'[p] = inward[p + 1]
              /\ BeforeAnswer(p)' <= BeforeAnswer(p + 1)
        /\ BeforeRefusal' <= BeforeRefusal
    BY <1>2, InwardLess
  <1>6. /\ NotReady /\ OutwardOrder /\ Quiet /\ StillRefused /\ InwardOrder
        /\ EchoesFirst /\ FewEchoes /\ StaleGreeting /\ FlushOutlasts
    BY DEF HInv
  <1>8. NotReady' /\ OutwardOrder'
    BY <1>0, <1>6 DEF NotReady, OutwardOrder, Flushing
  <1>9. Quiet'
    BY <1>0, <1>3, <1>6 DEF Quiet, Handshaking, MidCycle
  <1>10. StillRefused' /\ InwardOrder'
    BY <1>0, <1>3, <1>6 DEF StillRefused, Refused, InwardOrder, Flushing
  <1>11. EchoesFirst'
    BY <1>0, <1>3, <1>4, <1>6 DEF EchoesFirst, Flushing
  <1>12. FewEchoes' /\ StaleGreeting'
    <2>1. Greeting' => Greeting
      BY <1>0, <1>3 DEF Greeting
    <2>2. Refused' \/ Has(outward', "MESSAGE") => Refused \/ Has(outward, "MESSAGE")
      BY <1>0, <1>3 DEF Refused
    <2> QED
      BY <1>0, <1>4, <1>6, <2>1, <2>2, FewEchoesKept
  <1>13. FlushOutlasts'
    <2>1. BeforeRefusal' \in Int /\ BeforeRefusal \in Int
      BY BeforeType, <1>4
    <2>2. Flushing /\ respondUninitialised' => BeforeRefusal' <= 1
      BY <1>0, <1>5, <1>6, <2>1 DEF FlushOutlasts
    <2> QED
      BY <1>0, <1>5, <1>6, <2>2, FlushKept
  <1> QED
    BY <1>8, <1>9, <1>10, <1>11, <1>12, <1>13 DEF HInv

\* The receiver answers: a pong that was due is under way, and before whatever else it
\* answers.
LEMMA RespondKeeps ==
    ASSUME IInv, IInv', HInv, Respond
    PROVE  HInv'
  <1>0. /\ UNCHANGED <<phase, initialised, countdown, pongs, acknowledged, initialisations,
                       uninitialisations, outward, ready, log>>
        /\ respondPong' = FALSE /\ respondUninitialised' = FALSE
        /\ respondInitialised' = FALSE /\ respondAcknowledge' = -1
    BY DEF Respond, egressVars, feedbackVars, historyVars
  <1>1. TypeOK /\ TypeOK'
    BY DEF IInv
  <1>2. /\ Len(inward) \in Nat /\ Len(responses) \in Nat
        /\ Len(inward') = Len(inward) + Len(responses)
        /\ \A i \in 1..Len(inward') : inward'[i] =
              IF i <= Len(inward) THEN inward[i] ELSE responses[i - Len(inward)]
    <2>1. inward \in Seq(InwardFrames) /\ responses \in Seq(InwardFrames)
      BY <1>1, Answers DEF TypeOK
    <2>2. inward' = inward \o responses
      BY DEF Respond
    <2> QED
      BY <2>1, <2>2, LenProperties, ConcatProperties
  <1>3. /\ \A i \in 1..Len(responses) : responses[i].kind = "PONG" => i = 1
        /\ Has(responses, "PONG") => respondPong
        /\ Has(responses, "UNINITIALISED") => respondUninitialised
        /\ Has(responses, "INITIALISED") => respondInitialised
        /\ Has(responses, "ACKNOWLEDGE") => respondAcknowledge >= 0
    BY <1>1, Answers
  <1>4. /\ \A k : Has(inward', k) <=> Has(inward, k) \/ Has(responses, k)
        /\ \A k, l : /\ NoneBefore(inward, k, l) /\ NoneBefore(responses, k, l)
                     /\ ~Has(inward, k) \/ ~Has(responses, l)
                     => NoneBefore(inward', k, l)
    BY <1>2, <1>3, InwardSent
  <1>5. /\ PongsIn' <= PongsIn + 1
        /\ ~Has(responses, "PONG") => PongsIn' <= PongsIn
        /\ \A i \in 1..Len(inward') :
              \/ /\ i \in 1..Len(inward) /\ inward'[i] = inward[i]
                 /\ Count(inward', "PONG", i) = Count(inward, "PONG", i)
              \/ Has(responses, inward'[i].kind) /\ Count(inward', "PONG", i) <= PongsIn + 1
    BY <1>2, <1>3, InwardSent
  <1>6. /\ InFlight \in Nat /\ InFlight' \in Nat /\ PingsOut \in Nat /\ PongsIn \in Nat
        /\ PongsIn' \in Nat /\ PongDue \in Nat /\ Flushed \in Int
    BY <1>1, Quantities, QuantitiesNext
  <1>7. PongsIn' <= PongsIn + PongDue /\ PongDue' = 0 /\ PingsOut' = PingsOut
        /\ Flushed' = Flushed
    BY <1>0, <1>3, <1>5, <1>6 DEF PongDue, PingsOut, Flushed
  <1>8. InFlight' <= InFlight
    <2>1. InFlight' = PingsOut + 0 + PongsIn'
      BY <1>7 DEF InFlight
    <2>2. PingsOut + 0 \in Int /\ PongsIn' \in Int /\ PongsIn + PongDue \in Int
          /\ PingsOut + 0 <= PingsOut /\ PingsOut \in Int
      BY <1>6
    <2>3. PingsOut + 0 + PongsIn' <= PingsOut + (PongsIn + PongDue)
      BY <1>7, <2>2, Sums
    <2>4. PingsOut + (PongsIn + PongDue) = InFlight
      BY <1>6 DEF InFlight
    <2> QED
      BY <2>1, <2>3, <2>4
  <1>9. Outstanding' <= Outstanding /\ Elapsed' <= Elapsed
    BY <1>0, <1>1, <1>7, <1>8, EchoesKept
  <1>10. /\ NotReady /\ OutwardOrder /\ Quiet /\ StillRefused /\ InwardOrder
         /\ EchoesFirst /\ FewEchoes /\ StaleGreeting /\ FlushOutlasts
    BY DEF HInv
  <1>11. /\ ~ready => ~Has(responses, "INITIALISED") /\ ~Has(responses, "ACKNOWLEDGE")
         /\ Refused \/ Flushing => ~ready
    BY <1>3, <1>10 DEF NotReady, StillRefused
  <1>12. NotReady' /\ OutwardOrder'
    BY <1>0, <1>10 DEF NotReady, OutwardOrder, Flushing
  <1>13. Quiet'
    BY <1>0, <1>3, <1>4, <1>10 DEF Quiet, Handshaking, MidCycle
  <1>14. StillRefused'
    BY <1>0, <1>3, <1>4, <1>10 DEF StillRefused, Refused
  <1>15. InwardOrder'
    <2>1. NoneBefore(responses, "UNINITIALISED", "INITIALISED")
      <3>1. ~Has(responses, "UNINITIALISED") \/ ~Has(responses, "INITIALISED")
        BY <1>3, <1>11 DEF Refused
      <3> QED
        BY <3>1 DEF NoneBefore, Has
    <2>2. ~Has(inward, "UNINITIALISED") \/ ~Has(responses, "INITIALISED")
      BY <1>11 DEF Refused
    <2>3. NoneBefore(inward', "UNINITIALISED", "INITIALISED")
      BY <1>4, <1>10, <2>1, <2>2 DEF InwardOrder
    <2>4. Flushing \/ uninitialisations > 0 => ~Has(inward', "INITIALISED")
      BY <1>4, <1>10, <1>11 DEF InwardOrder, Refused
    <2> QED
      BY <1>0, <2>3, <2>4 DEF InwardOrder, Flushing
  <1>16. EchoesFirst'
    <2>1. NoneBefore(responses, "INITIALISED", "PONG")
      BY <1>3 DEF NoneBefore
    <2>2. ASSUME ~Flushing
          PROVE  /\ NoneBefore(inward', "INITIALISED", "PONG")
                 /\ Has(inward', "INITIALISED") => ~Has(outward, "PING")
      BY <1>3, <1>4, <1>10, <2>1, <2>2 DEF EchoesFirst
    <2> QED
      BY <1>0, <1>6, <1>8, <1>10, <2>2 DEF EchoesFirst, Flushing
  <1>17. FewEchoes' /\ StaleGreeting'
    <2>1. Greeting' => Greeting
      BY <1>0, <1>3, <1>4 DEF Greeting
    <2>2. Refused' \/ Has(outward', "MESSAGE") => Refused \/ Has(outward, "MESSAGE")
      BY <1>0, <1>3, <1>4 DEF Refused
    <2> QED
      BY <1>0, <1>8, <1>9, <1>10, <2>1, <2>2, FewEchoesKept
  <1>18. FlushOutlasts'
    <2>1. ASSUME NEW i \in 1..Len(outward)
          PROVE  BeforeMessage(i)' <= BeforeMessage(i)
      <3>1. BeforeMessage(i)' = Flushed + PongsIn' + 0 + Count(outward, "PING", i)
        BY <1>0, <1>7 DEF BeforeMessage
      <3>2. i \in Nat
        BY <1>1, Quantities
      <3>3. Count(outward, "PING", i) \in Nat
        BY <3>2, CountType
      <3>4. /\ Flushed + PongsIn' <= Flushed + (PongsIn + PongDue)
            /\ Flushed + PongsIn' \in Int
        <4>1. Flushed <= Flushed /\ PongsIn' \in Int /\ PongsIn + PongDue \in Int
          BY <1>6
        <4> QED
          BY <1>6, <1>7, <4>1, Sums
      <3>5. BeforeMessage(i) = Flushed + (PongsIn + PongDue) + Count(outward, "PING", i)
        BY <1>6, <3>3 DEF BeforeMessage
      <3>6. ASSUME NEW x \in Int, x <= Flushed + (PongsIn + PongDue)
            PROVE  x + 0 + Count(outward, "PING", i) <= BeforeMessage(i)
        BY <1>6, <3>3, <3>5, <3>6
      <3> QED
        BY <3>1, <3>4, <3>6
    <2>2. ASSUME Flushing, NEW p \in 1..Len(inward'),
                 inward'[p].kind \in {"UNINITIALISED", "ACKNOWLEDGE"}
          PROVE  \/ BeforeAnswer(p)' <= 2
                 \/ \E q \in 1..Len(inward) :
                       /\ inward[q].kind \in {"UNINITIALISED", "ACKNOWLEDGE"}
                       /\ BeforeAnswer(p)' <= BeforeAnswer(q)
      <3>1. CASE /\ p \in 1..Len(inward) /\ inward'[p] = inward[p]
                 /\ Count(inward', "PONG", p) = Count(inward, "PONG", p)
        <4>1. BeforeAnswer(p)' = BeforeAnswer(p)
          BY <1>7, <3>1 DEF BeforeAnswer
        <4>2. BeforeAnswer(p) \in Int
          <5>1. p \in Nat
            BY <1>2, <3>1
          <5> QED
            BY <5>1, BeforeType
        <4>3. BeforeAnswer(p)' <= BeforeAnswer(p)
          BY <4>1, <4>2
        <4> QED
          BY <2>2, <3>1, <4>3
      <3>2. CASE Has(responses, inward'[p].kind) /\ Count(inward', "PONG", p) <= PongsIn + 1
        <4>1. Has(responses, "UNINITIALISED")
          BY <1>11, <2>2, <3>2
        <4>2. BeforeRefusal <= 1
          BY <1>3, <1>10, <2>2, <4>1 DEF FlushOutlasts
        <4>3. Count(inward', "PONG", p) \in Int
          <5>1. p \in Nat
            BY <1>1, QuantitiesNext
          <5>2. Count(inward', "PONG", p) \in Nat
            BY <5>1, CountType
          <5> QED
            BY <5>2
        <4>4. Flushed + Count(inward', "PONG", p) <= Flushed + (PongsIn + 1)
          <5>1. Flushed <= Flushed /\ PongsIn + 1 \in Int
            BY <1>6
          <5> QED
            BY <1>6, <3>2, <4>3, <5>1, Sums
        <4>5. BeforeAnswer(p)' = Flushed + Count(inward', "PONG", p)
          BY <1>7 DEF BeforeAnswer
        <4>6. Flushed + (PongsIn + 1) <= 2
          BY <1>6, <4>2 DEF BeforeRefusal
        <4>7. BeforeAnswer(p)' \in Int /\ Flushed + (PongsIn + 1) \in Int
          <5>1. Flushed + Count(inward', "PONG", p) \in Int
            BY <1>6, <4>3, Sums
          <5> QED
            BY <1>6, <4>5, <5>1
        <4>8. BeforeAnswer(p)' <= Flushed + (PongsIn + 1)
          BY <4>4, <4>5
        <4> QED
          BY <4>6, <4>7, <4>8
      <3> QED
        BY <1>5, <3>1, <3>2
    <2> QED
      BY <1>0, <1>10, <2>1, <2>2, FlushKept
  <1> QED
    BY <1>12, <1>13, <1>14, <1>15, <1>16, <1>17, <1>18 DEF HInv

\* The wires stay as they are, and so do the counts.
WiresStay ==
    /\ UNCHANGED <<outward, inward, countdown, pongs>>
    /\ respondPong' => respondPong

LEMMA WiresSame ==
    ASSUME IInv, IInv', WiresStay
    PROVE  /\ InFlight \in Nat /\ InFlight' \in Nat /\ InFlight' <= InFlight
           /\ Outstanding' <= Outstanding /\ Elapsed' <= Elapsed
           /\ Outstanding \in Int /\ Outstanding' \in Int /\ Elapsed \in Int /\ Elapsed' \in Int
           /\ \A i \in 1..Len(outward) : BeforeMessage(i)' <= BeforeMessage(i)
           /\ \A p \in 1..Len(inward) : BeforeAnswer(p)' <= BeforeAnswer(p)
           /\ BeforeRefusal' = BeforeRefusal /\ BeforeRefusal \in Int
  <1>1. TypeOK /\ TypeOK'
    BY DEF IInv
  <1>2. /\ InFlight \in Nat /\ InFlight' \in Nat /\ PingsOut \in Nat /\ PongsIn \in Nat
        /\ PongDue \in Nat /\ PongDue' \in Nat /\ Flushed \in Int
        /\ Outstanding \in Int /\ Outstanding' \in Int /\ Elapsed \in Int /\ Elapsed' \in Int
    BY <1>1, Quantities, QuantitiesNext
  <1>3. /\ PingsOut' = PingsOut /\ PongsIn' = PongsIn /\ Flushed' = Flushed /\ pongs' = pongs
        /\ PongDue' <= PongDue
    BY <1>2 DEF WiresStay, PingsOut, PongsIn, Flushed, PongDue
  <1>4. InFlight' <= InFlight
    <2>1. InFlight' = PingsOut + PongDue' + PongsIn
      BY <1>3 DEF InFlight
    <2>2. ASSUME NEW x \in Nat, x <= PongDue
          PROVE  PingsOut + x + PongsIn <= InFlight
      BY <1>2, <2>2 DEF InFlight
    <2> QED
      BY <1>2, <1>3, <2>1, <2>2
  <1>5. Outstanding' <= Outstanding /\ Elapsed' <= Elapsed
    BY <1>1, <1>3, <1>4, EchoesKept
  <1>6. BeforeRefusal' = BeforeRefusal /\ BeforeRefusal \in Int
    BY <1>2, <1>3 DEF BeforeRefusal
  <1>7. ASSUME NEW i \in 1..Len(outward)
        PROVE  BeforeMessage(i)' <= BeforeMessage(i)
    <2>1. BeforeMessage(i)' = Flushed + PongsIn + PongDue' + Count(outward, "PING", i)
      BY <1>3 DEF BeforeMessage, WiresStay
    <2>2. i \in Nat
      BY <1>1, Quantities
    <2>3. Count(outward, "PING", i) \in Nat
      BY <2>2, CountType
    <2>4. ASSUME NEW x \in Nat, x <= PongDue
          PROVE  Flushed + PongsIn + x + Count(outward, "PING", i) <= BeforeMessage(i)
      BY <1>2, <2>3, <2>4 DEF BeforeMessage
    <2> QED
      BY <1>2, <1>3, <2>1, <2>4
  <1>8. ASSUME NEW p \in 1..Len(inward)
        PROVE  BeforeAnswer(p)' <= BeforeAnswer(p)
    <2>1. BeforeAnswer(p)' = BeforeAnswer(p)
      BY <1>3 DEF BeforeAnswer, WiresStay
    <2>2. p \in Nat
      BY <1>1, Quantities
    <2> QED
      BY <2>1, <2>2, BeforeType
  <1> QED
    BY <1>2, <1>4, <1>5, <1>6, <1>7, <1>8

\* The receiver restarts: what it would have answered is gone.
LEMMA ResetKeeps ==
    ASSUME IInv, IInv', HInv, ResetReceiver
    PROVE  HInv'
  <1>1. /\ UNCHANGED <<phase, initialised, countdown, pongs, acknowledged, initialisations,
                       uninitialisations, outward, inward>>
        /\ ready' = FALSE /\ log' = <<>>
        /\ respondPong' = FALSE /\ respondUninitialised' = FALSE
        /\ respondInitialised' = FALSE /\ respondAcknowledge' = -1
    BY DEF ResetReceiver, egressVars, feedbackVars
  <1>2. WiresStay
    BY <1>1 DEF WiresStay
  <1>3. /\ NotReady /\ OutwardOrder /\ Quiet /\ StillRefused /\ InwardOrder
        /\ EchoesFirst /\ FewEchoes /\ StaleGreeting /\ FlushOutlasts
    BY DEF HInv
  <1>4. NotReady' /\ OutwardOrder'
    BY <1>1, <1>3 DEF NotReady, OutwardOrder, Flushing
  <1>5. Quiet'
    BY <1>1, <1>3 DEF Quiet, Handshaking, MidCycle
  <1>6. StillRefused' /\ InwardOrder'
    BY <1>1, <1>3 DEF StillRefused, Refused, InwardOrder, Flushing
  <1>7. EchoesFirst'
    <2>1. InFlight \in Nat /\ InFlight' \in Nat /\ InFlight' <= InFlight
      BY <1>2, WiresSame
    <2> QED
      BY <1>1, <1>3, <2>1 DEF EchoesFirst, Flushing
  <1>8. FewEchoes' /\ StaleGreeting'
    <2>1. InFlight' <= InFlight /\ Outstanding' <= Outstanding /\ Elapsed' <= Elapsed
      BY <1>2, WiresSame
    <2>2. /\ Greeting' => Greeting
          /\ Refused' \/ Has(outward', "MESSAGE") => Refused \/ Has(outward, "MESSAGE")
      BY <1>1 DEF Greeting, Refused
    <2> QED
      BY <1>1, <1>3, <2>1, <2>2, FewEchoesKept
  <1>9. FlushOutlasts'
    <2>1. /\ \A i \in 1..Len(outward) : BeforeMessage(i)' <= BeforeMessage(i)
          /\ \A p \in 1..Len(inward) : BeforeAnswer(p)' <= BeforeAnswer(p)
      BY <1>2, WiresSame
    <2> QED
      BY <1>1, <1>3, <2>1, FlushKept
  <1> QED
    BY <1>4, <1>5, <1>6, <1>7, <1>8, <1>9 DEF HInv

\* A batch enters the window, a step that leaves the handshake alone.
LEMMA Aside ==
    ASSUME HInv, UNCHANGED <<phase, initialised, countdown, pongs, acknowledged,
                             initialisations, uninitialisations, outward, inward, ready,
                             respondPong, respondUninitialised, respondInitialised,
                             respondAcknowledge, log>>
    PROVE  HInv'
  <1>1. /\ NotReady /\ OutwardOrder /\ Quiet /\ StillRefused /\ InwardOrder
        /\ EchoesFirst /\ FewEchoes /\ StaleGreeting /\ FlushOutlasts
    BY DEF HInv
  <1>2. /\ InFlight' = InFlight /\ Flushed' = Flushed /\ PongsIn' = PongsIn
        /\ PongDue' = PongDue
    BY DEF InFlight, PingsOut, PongsIn, PongDue, Flushed
  <1>3. Outstanding' = Outstanding /\ Elapsed' = Elapsed
    BY <1>2 DEF Outstanding, Elapsed
  <1>4. /\ Flushing' = Flushing /\ Handshaking' = Handshaking /\ MidCycle' = MidCycle
        /\ Refused' = Refused /\ Greeting' = Greeting
    BY DEF Flushing, Handshaking, MidCycle, Refused, Greeting
  <1>5. NotReady' /\ OutwardOrder' /\ Quiet' /\ StillRefused' /\ InwardOrder'
    BY <1>1, <1>4 DEF NotReady, OutwardOrder, Quiet, StillRefused, InwardOrder
  <1>6. EchoesFirst' /\ FewEchoes' /\ StaleGreeting'
    BY <1>1, <1>2, <1>3, <1>4 DEF EchoesFirst, FewEchoes, StaleGreeting
  <1>7. FlushOutlasts'
    BY <1>1, <1>2, <1>4 DEF FlushOutlasts, BeforeMessage, BeforeRefusal, BeforeAnswer
  <1> QED
    BY <1>5, <1>6, <1>7 DEF HInv

\* The sender takes the acknowledgement of a cycle.
LEMMA AcknowledgedKeeps ==
    ASSUME IInv, IInv', HInv, HandleAcknowledgement
    PROVE  HInv'
  <1>1. /\ UNCHANGED <<initialised, countdown, pongs, initialisations, uninitialisations,
                       outward, inward, ready, respondPong, respondUninitialised,
                       respondInitialised, respondAcknowledge, log>>
        /\ phase = "acknowledgement" /\ phase' = "initialisation" /\ acknowledged' = -1
    BY DEF HandleAcknowledgement, receiverVars, responseVars, historyVars
  <1>2. WiresStay
    BY <1>1 DEF WiresStay
  <1>3. /\ NotReady /\ OutwardOrder /\ Quiet /\ StillRefused /\ InwardOrder
        /\ EchoesFirst /\ FewEchoes /\ StaleGreeting /\ FlushOutlasts
    BY DEF HInv
  <1>4. NotReady' /\ OutwardOrder'
    BY <1>1, <1>3 DEF NotReady, OutwardOrder, Flushing
  <1>5. Quiet'
    BY <1>1, <1>3 DEF Quiet, Handshaking, MidCycle
  <1>6. StillRefused' /\ InwardOrder'
    BY <1>1, <1>3 DEF StillRefused, Refused, InwardOrder, Flushing
  <1>7. /\ InFlight \in Nat /\ InFlight' \in Nat /\ InFlight' <= InFlight
        /\ Outstanding' <= Outstanding /\ Elapsed' <= Elapsed
        /\ Outstanding \in Int /\ Outstanding' \in Int /\ Elapsed \in Int /\ Elapsed' \in Int
    BY <1>2, WiresSame
  <1>8. EchoesFirst'
    BY <1>1, <1>3, <1>7 DEF EchoesFirst, Flushing
  <1>9. FewEchoes'
    BY <1>1, <1>3, <1>7 DEF FewEchoes, MidCycle, Refused, Greeting
  <1>10. StaleGreeting'
    BY <1>1, <1>3, <1>7 DEF StaleGreeting, Flushing
  <1>11. FlushOutlasts'
    <2>1. /\ \A i \in 1..Len(outward) : BeforeMessage(i)' <= BeforeMessage(i)
          /\ \A p \in 1..Len(inward) : BeforeAnswer(p)' <= BeforeAnswer(p)
          /\ BeforeRefusal' = BeforeRefusal
      BY <1>2, WiresSame
    <2> QED
      BY <1>1, <1>3, <2>1, FlushKept DEF FlushOutlasts
  <1> QED
    BY <1>4, <1>5, <1>6, <1>8, <1>9, <1>10, <1>11 DEF HInv

\* The sender counts the pongs of a cycle.  Either as many are wanted as before, or three
\* arrived since the flush began, and nothing of the time before it is left.
LEMMA PongsKeep ==
    ASSUME EnoughPings, IInv, IInv', HInv, HandlePongs
    PROVE  HInv'
  <1>1. /\ UNCHANGED <<initialised, acknowledged, initialisations, uninitialisations,
                       outward, inward, ready, respondPong, respondUninitialised,
                       respondInitialised, respondAcknowledge, log>>
        /\ phase = "accept" /\ phase' = "acknowledgement" /\ pongs' = 0
        /\ countdown' = IF countdown > 0 THEN countdown - pongs ELSE countdown
    BY DEF HandlePongs, receiverVars, responseVars, historyVars
  <1>2. TypeOK /\ TypeOK'
    BY DEF IInv
  <1>3. /\ InFlight \in Nat /\ Flushed \in Int /\ Outstanding \in Int /\ Elapsed \in Int
        /\ PongsIn \in Nat /\ PongDue \in Nat /\ pongs \in Nat /\ countdown \in Int
    BY <1>2, Quantities
  <1>4. InFlight' = InFlight /\ PongsIn' = PongsIn /\ PongDue' = PongDue
    BY <1>1 DEF InFlight, PingsOut, PongsIn, PongDue
  <1>5. /\ NotReady /\ OutwardOrder /\ Quiet /\ StillRefused /\ InwardOrder
        /\ EchoesFirst /\ FewEchoes /\ StaleGreeting /\ FlushOutlasts
    BY DEF HInv
  <1>6. StillRefused'
    BY <1>1, <1>5 DEF StillRefused, Refused
  <1>7. CASE ~Flushing
    <2>1. ~Flushing' /\ (Handshaking' <=> Handshaking)
      <3>1. CASE initialised
        BY <1>1, <3>1 DEF Flushing, Handshaking
      <3>2. CASE ~initialised /\ ~(countdown > 0)
        BY <1>1, <3>2 DEF Flushing, Handshaking
      <3> QED
        BY <1>7, <3>1, <3>2 DEF Flushing
    <2>2. NotReady' /\ OutwardOrder' /\ InwardOrder'
      BY <1>1, <1>5, <2>1 DEF NotReady, OutwardOrder, InwardOrder
    <2>3. Quiet'
      BY <1>1, <1>5, <2>1 DEF Quiet, MidCycle
    <2>4. EchoesFirst'
      BY <1>1, <1>4, <1>5, <1>7, <2>1 DEF EchoesFirst
    <2>5. FewEchoes'
      <3>1. Outstanding' = InFlight + 0
        BY <1>1, <1>4 DEF Outstanding
      <3>2. Outstanding' = InFlight
        BY <1>3, <3>1
      <3>3. Greeting' = Greeting
        BY <1>1 DEF Greeting
      <3> QED
        BY <1>1, <1>3, <1>4, <1>5, <3>2, <3>3 DEF FewEchoes
    <2>6. StaleGreeting' /\ FlushOutlasts'
      BY <2>1 DEF StaleGreeting, FlushOutlasts
    <2> QED
      BY <1>6, <2>2, <2>3, <2>4, <2>5, <2>6 DEF HInv
  <1>8. CASE Flushing
    <2>1. ~initialised /\ countdown > 0 /\ countdown' = countdown - pongs
      BY <1>1, <1>8 DEF Flushing
    <2>2. Flushed' = Flushed
      <3>1. Flushed' = FlushCount - (countdown - pongs) + 0
        BY <1>1, <2>1 DEF Flushed
      <3> QED
        BY <1>3, <3>1, ParameterAssumption DEF Flushed
    <2>3. Elapsed' = Elapsed
      BY <1>4, <2>2 DEF Elapsed
    <2>4. /\ ~ready /\ log = <<>> /\ ~respondInitialised /\ respondAcknowledge = -1
          /\ ~Has(outward, "INITIALISE") /\ ~Has(inward, "INITIALISED")
      BY <1>5, <1>8 DEF NotReady, OutwardOrder, InwardOrder
    <2>5. NotReady' /\ OutwardOrder' /\ InwardOrder'
      BY <1>1, <1>5, <2>4 DEF NotReady, OutwardOrder, InwardOrder
    <2>6. FewEchoes'
      BY <1>1, <2>1 DEF FewEchoes
    <2>7. CASE Flushing'
      <3>1. Quiet'
        <4>1. countdown' \in Int
          BY <1>2, QuantitiesNext
        <4> QED
          BY <2>7, <4>1 DEF Quiet, Flushing, Handshaking
      <3>2. EchoesFirst'
        BY <2>7 DEF EchoesFirst
      <3>3. StaleGreeting'
        BY <1>1, <1>5, <1>8, <2>3 DEF StaleGreeting
      <3>4. FlushOutlasts'
        BY <1>1, <1>4, <1>5, <1>8, <2>2
           DEF FlushOutlasts, BeforeMessage, BeforeRefusal, BeforeAnswer
      <3> QED
        BY <1>6, <2>5, <2>6, <3>1, <3>2, <3>3, <3>4 DEF HInv
    <2>8. CASE ~Flushing'
      <3>1. Flushed >= 3
        <4>1. ~(countdown' > 0)
          BY <1>1, <2>1, <2>8 DEF Flushing
        <4>2. ~(countdown - pongs > 0)
          BY <2>1, <4>1
        <4> QED
          BY <1>3, <4>2, ParameterAssumption DEF Flushed, EnoughPings
      <3>2. ~Has(outward, "MESSAGE")
        <4> SUFFICES ASSUME NEW i \in 1..Len(outward), outward[i].kind = "MESSAGE"
                     PROVE  FALSE
          BY DEF Has
        <4>1. BeforeMessage(i) <= 1
          BY <1>5, <1>8 DEF FlushOutlasts
        <4>2. i \in Nat
          BY <1>2, Quantities
        <4>3. Count(outward, "PING", i) \in Nat
          BY <4>2, CountType
        <4> QED
          BY <1>3, <3>1, <4>1, <4>3 DEF BeforeMessage
      <3>3. ~respondUninitialised
        BY <1>3, <1>5, <1>8, <3>1 DEF FlushOutlasts, BeforeRefusal
      <3>4. ASSUME NEW p \in 1..Len(inward)
            PROVE  inward[p].kind \notin {"UNINITIALISED", "ACKNOWLEDGE"}
        <4> SUFFICES ASSUME inward[p].kind \in {"UNINITIALISED", "ACKNOWLEDGE"}
                     PROVE  FALSE
          OBVIOUS
        <4>1. BeforeAnswer(p) <= 2
          BY <1>5, <1>8 DEF FlushOutlasts
        <4>2. p \in Nat
          BY <1>2, Quantities
        <4>3. Count(inward, "PONG", p) \in Nat
          BY <4>2, CountType
        <4> QED
          BY <1>3, <3>1, <4>1, <4>3 DEF BeforeAnswer
      <3>5. ~Has(inward, "UNINITIALISED") /\ ~Has(inward, "ACKNOWLEDGE")
        BY <3>4 DEF Has
      <3>6. ~(initialisations > 0)
        <4> SUFFICES ASSUME initialisations > 0 PROVE FALSE
          OBVIOUS
        <4>1. Elapsed <= 1
          BY <1>1, <1>5, <1>8 DEF StaleGreeting
        <4> QED
          BY <1>3, <3>1, <4>1 DEF Elapsed
      <3>7. initialisations = 0
        <4>1. initialisations \in Nat
          BY <1>2, Quantities
        <4> QED
          BY <3>6, <4>1
      <3>8. Quiet'
        BY <1>1, <2>4, <3>2, <3>3, <3>5, <3>7 DEF Quiet, MidCycle
      <3>9. EchoesFirst'
        <4>1. NoneBefore(inward, "INITIALISED", "PONG")
          BY <2>4 DEF NoneBefore, Has
        <4> QED
          BY <1>1, <2>4, <3>6, <4>1 DEF EchoesFirst
      <3>10. StaleGreeting' /\ FlushOutlasts'
        BY <2>8 DEF StaleGreeting, FlushOutlasts
      <3> QED
        BY <1>6, <2>5, <2>6, <3>8, <3>9, <3>10 DEF HInv
    <2> QED
      BY <2>7, <2>8
  <1> QED
    BY <1>7, <1>8

\* The countdown starts at FLUSH_COUNT and only goes down.
Counting == countdown <= FlushCount

\* The sender takes the grants of a cycle.  In a flush it may take one that is left over
\* from the handshake before, when at most one pong has arrived: the sender then goes on
\* with a receiver that refuses everything, and one ping or pong is left.
LEMMA InitialisationsKeep ==
    ASSUME Counting, IInv, IInv', HInv, HandleInitialisations
    PROVE  HInv'
  <1>1. /\ UNCHANGED <<countdown, pongs, acknowledged, uninitialisations,
                       outward, inward, ready, respondPong, respondUninitialised,
                       respondInitialised, respondAcknowledge, log>>
        /\ phase = "initialisation" /\ phase' = "uninitialisation" /\ initialisations' = 0
        /\ initialised' = (initialised \/ initialisations > 0)
    BY DEF HandleInitialisations, receiverVars, responseVars, historyVars
  <1>2. TypeOK /\ TypeOK'
    BY DEF IInv
  <1>3. /\ InFlight \in Nat /\ Flushed \in Int /\ Outstanding \in Int /\ Elapsed \in Int
        /\ pongs \in Nat /\ countdown \in Int /\ initialisations \in Nat
    BY <1>2, Quantities
  <1>4. /\ InFlight' = InFlight /\ PongsIn' = PongsIn /\ PongDue' = PongDue
        /\ Flushed' = Flushed /\ pongs' = pongs
    BY <1>1 DEF InFlight, PingsOut, PongsIn, PongDue, Flushed
  <1>5. Outstanding' = Outstanding /\ Elapsed' = Elapsed
    BY <1>4 DEF Outstanding, Elapsed
  <1>6. /\ NotReady /\ OutwardOrder /\ Quiet /\ StillRefused /\ InwardOrder
        /\ EchoesFirst /\ FewEchoes /\ StaleGreeting /\ FlushOutlasts
    BY DEF HInv
  <1>7. StillRefused' /\ (Refused' <=> Refused) /\ (Greeting' => Greeting)
    BY <1>1, <1>3, <1>6 DEF StillRefused, Refused, Greeting
  <1>8. /\ Flushing' => Flushing
        /\ Handshaking' => Handshaking
        /\ ~(initialisations' > 0)
    <2>1. initialised => initialised'
      BY <1>1
    <2> QED
      BY <1>1, <2>1 DEF Flushing, Handshaking
  <1>9. NotReady' /\ OutwardOrder' /\ InwardOrder'
    BY <1>1, <1>6, <1>8 DEF NotReady, OutwardOrder, InwardOrder
  <1>10. Quiet'
    BY <1>1, <1>6, <1>8 DEF Quiet, MidCycle
  <1>11. StaleGreeting'
    BY <1>8 DEF StaleGreeting
  <1>12. FlushOutlasts'
    BY <1>1, <1>4, <1>6, <1>8 DEF FlushOutlasts, BeforeMessage, BeforeRefusal, BeforeAnswer
  <1>13. EchoesFirst'
    <2>1. CASE ~Flushing
      BY <1>1, <1>6, <1>8, <2>1 DEF EchoesFirst
    <2>2. CASE Flushing
      <3>1. ~respondInitialised /\ ~Has(inward, "INITIALISED")
        BY <1>6, <2>2 DEF NotReady, InwardOrder
      <3>2. NoneBefore(inward, "INITIALISED", "PONG")
        BY <3>1 DEF NoneBefore, Has
      <3> QED
        BY <1>1, <1>8, <3>1, <3>2 DEF EchoesFirst
    <2> QED
      BY <2>1, <2>2
  <1>14. FewEchoes'
    <2>1. CASE initialised
      BY <1>1, <1>4, <1>5, <1>6, <1>7, <2>1 DEF FewEchoes, MidCycle
    <2>2. CASE ~initialised /\ ~(initialisations > 0)
      BY <1>1, <2>2 DEF FewEchoes
    <2>3. CASE Handshaking /\ initialisations > 0
      <3>1. InFlight <= 0
        <4>1. ~Flushing
          BY <1>3, <2>3 DEF Handshaking, Flushing
        <4> QED
          BY <1>6, <2>3, <4>1 DEF EchoesFirst
      <3>2. ~(uninitialisations > 0)
        BY <1>6, <2>3 DEF Quiet
      <3>3. ~Refused /\ ~Has(outward, "MESSAGE")
        BY <1>6, <2>3, <3>2 DEF Quiet, Refused
      <3> QED
        BY <1>1, <1>3, <1>4, <1>7, <3>1, <3>3 DEF FewEchoes
    <2>4. CASE Flushing /\ initialisations > 0
      <3>1. Elapsed <= 1
        BY <1>1, <1>6, <2>4 DEF StaleGreeting
      <3>2. InFlight <= 1 /\ Outstanding <= 1
        BY <1>3, <3>1, ParameterAssumption DEF Elapsed, Flushed, Outstanding, Counting
      <3>3. ~Greeting'
        <4>1. ~respondInitialised /\ ~Has(inward, "INITIALISED") /\ ~Has(outward, "INITIALISE")
          BY <1>6, <2>4 DEF NotReady, InwardOrder, OutwardOrder
        <4> QED
          BY <1>1, <1>8, <4>1 DEF Greeting
      <3> QED
        BY <1>4, <1>5, <3>2, <3>3 DEF FewEchoes
    <2>5. initialised \/ Handshaking \/ Flushing
      BY <1>3 DEF Handshaking, Flushing
    <2> QED
      BY <2>1, <2>2, <2>3, <2>4, <2>5
  <1> QED
    BY <1>7, <1>9, <1>10, <1>11, <1>12, <1>13, <1>14 DEF HInv

\* The sender takes the refusals of a cycle: it flushes.
LEMMA UninitialisationsKeep ==
    ASSUME IInv, IInv', HInv, HandleUninitialisations
    PROVE  HInv'
  <1>1. /\ UNCHANGED <<pongs, acknowledged, initialisations,
                       outward, inward, ready, respondPong, respondUninitialised,
                       respondInitialised, respondAcknowledge, log>>
        /\ phase = "uninitialisation" /\ phase' = "publish" /\ uninitialisations' = 0
    BY DEF HandleUninitialisations, receiverVars, responseVars, historyVars
  <1>2. TypeOK /\ TypeOK'
    BY DEF IInv
  <1>3. /\ InFlight \in Nat /\ PingsOut \in Nat /\ PongsIn \in Nat /\ PongDue \in Nat
        /\ Outstanding \in Int /\ pongs \in Nat
        /\ Len(outward) \in Nat /\ Len(inward) \in Nat /\ uninitialisations \in Nat
    BY <1>2, Quantities
  <1>4. InFlight' = InFlight /\ PongsIn' = PongsIn /\ PongDue' = PongDue /\ pongs' = pongs
    BY <1>1 DEF InFlight, PingsOut, PongsIn, PongDue
  <1>5. /\ NotReady /\ OutwardOrder /\ Quiet /\ StillRefused /\ InwardOrder
        /\ EchoesFirst /\ FewEchoes /\ StaleGreeting /\ FlushOutlasts
    BY DEF HInv
  <1>6. StillRefused' /\ (Greeting' => Greeting)
    BY <1>1, <1>5 DEF StillRefused, Refused, Greeting
  <1>7. CASE initialised /\ uninitialisations > 0
    <2>1. initialised' = FALSE /\ countdown' = FlushCount
      BY <1>7 DEF HandleUninitialisations
    <2>2. Flushing' /\ ~Handshaking'
      BY <2>1, ParameterAssumption DEF Flushing, Handshaking
    <2>3. /\ ~ready /\ ~Has(outward, "INITIALISE") /\ ~Has(inward, "INITIALISED")
          /\ Outstanding <= 1 /\ (Greeting => Outstanding <= 0)
      BY <1>1, <1>5, <1>7 DEF StillRefused, Refused, InwardOrder, FewEchoes, MidCycle
    <2>4. NotReady' /\ OutwardOrder' /\ InwardOrder'
      BY <1>1, <1>5, <2>3 DEF NotReady, OutwardOrder, InwardOrder
    <2>5. Quiet' /\ EchoesFirst' /\ FewEchoes'
      BY <2>1, <2>2 DEF Quiet, EchoesFirst, FewEchoes
    <2>6. Flushed' = pongs
      <3>1. Flushed' = FlushCount - FlushCount + pongs
        BY <1>1, <2>1 DEF Flushed
      <3> QED
        BY <1>3, <3>1, ParameterAssumption
    <2>7. StaleGreeting'
      <3>1. Elapsed' = InFlight + pongs
        BY <1>4, <2>6 DEF Elapsed
      <3>2. Elapsed' = Outstanding
        BY <3>1 DEF Outstanding
      <3>3. initialisations > 0 => Outstanding <= 0
        BY <2>3 DEF Greeting
      <3> QED
        BY <1>1, <3>2, <3>3 DEF StaleGreeting
    <2>8. FlushOutlasts'
      <3>1. ASSUME NEW i \in 1..Len(outward)
            PROVE  BeforeMessage(i)' <= 1
        <4>1. BeforeMessage(i)' = pongs + PongsIn + PongDue + Count(outward, "PING", i)
          BY <1>1, <1>4, <2>6 DEF BeforeMessage
        <4>2. i \in Nat /\ i <= Len(outward)
          BY <1>3
        <4>3. Count(outward, "PING", i) \in Nat /\ Count(outward, "PING", i) <= PingsOut
          BY <1>3, <4>2, CountType, CountGrows DEF PingsOut
        <4>4. pongs + PongsIn + PongDue + Count(outward, "PING", i) <= 1
          BY <1>3, <2>3, <4>3 DEF Outstanding, InFlight
        <4> QED
          BY <4>1, <4>4
      <3>2. BeforeRefusal' <= 1
        <4>1. BeforeRefusal' = pongs + PongsIn
          BY <1>4, <2>6 DEF BeforeRefusal
        <4>2. pongs + PongsIn <= 1
          BY <1>3, <2>3 DEF Outstanding, InFlight
        <4> QED
          BY <4>1, <4>2
      <3>3. ASSUME NEW p \in 1..Len(inward)
            PROVE  BeforeAnswer(p)' <= 2
        <4>1. BeforeAnswer(p)' = pongs + Count(inward, "PONG", p)
          BY <1>1, <2>6 DEF BeforeAnswer
        <4>2. p \in Nat /\ p <= Len(inward)
          BY <1>3
        <4>3. Count(inward, "PONG", p) \in Nat /\ Count(inward, "PONG", p) <= PongsIn
          BY <1>3, <4>2, CountType, CountGrows DEF PongsIn
        <4>4. pongs + Count(inward, "PONG", p) <= 2
          BY <1>3, <2>3, <4>3 DEF Outstanding, InFlight
        <4> QED
          BY <4>1, <4>4
      <3> QED
        BY <1>1, <3>1, <3>2, <3>3 DEF FlushOutlasts
    <2> QED
      BY <1>6, <2>4, <2>5, <2>7, <2>8 DEF HInv
  <1>8. CASE ~(initialised /\ uninitialisations > 0)
    <2>1. initialised' = initialised /\ countdown' = countdown
      BY <1>2, <1>8 DEF HandleUninitialisations, TypeOK
    <2>2. (Flushing' <=> Flushing) /\ (Handshaking' <=> Handshaking)
      BY <2>1 DEF Flushing, Handshaking
    <2>3. NotReady' /\ OutwardOrder' /\ InwardOrder'
      BY <1>1, <1>5, <2>2 DEF NotReady, OutwardOrder, InwardOrder
    <2>4. Quiet'
      BY <1>1, <1>5, <2>2 DEF Quiet
    <2>5. EchoesFirst'
      BY <1>1, <1>4, <1>5, <2>2 DEF EchoesFirst
    <2>6. FewEchoes'
      BY <1>1, <1>4, <1>5, <1>6, <2>1 DEF FewEchoes, MidCycle
    <2>7. StaleGreeting'
      BY <1>1, <1>5, <2>2 DEF StaleGreeting
    <2>8. FlushOutlasts'
      <3>1. Flushed' = Flushed
        BY <1>1, <2>1 DEF Flushed
      <3> QED
        BY <1>1, <1>4, <1>5, <2>2, <3>1
           DEF FlushOutlasts, BeforeMessage, BeforeRefusal, BeforeAnswer
    <2> QED
      BY <1>6, <2>3, <2>4, <2>5, <2>6, <2>7, <2>8 DEF HInv
  <1> QED
    BY <1>7, <1>8

\* Frames are put onto the outward wire, of which only the first may be a ping.
Sends(frames) ==
    /\ frames \in Seq(OutwardFrames)
    /\ \A i \in 1..Len(frames) : frames[i].kind = "PING" => i = 1
    /\ outward' = outward \o frames
    /\ UNCHANGED <<countdown, pongs, inward, respondPong>>

LEMMA OutwardMore ==
    ASSUME IInv, IInv', NEW frames, Sends(frames)
    PROVE  /\ \A k : Has(outward', k) <=> Has(outward, k) \/ Has(frames, k)
           /\ \A k, l : /\ NoneBefore(outward, k, l) /\ NoneBefore(frames, k, l)
                        /\ ~Has(outward, k) \/ ~Has(frames, l)
                        => NoneBefore(outward', k, l)
           /\ InFlight \in Nat /\ InFlight' \in Nat
           /\ Outstanding \in Int /\ Outstanding' \in Int /\ Elapsed \in Int /\ Elapsed' \in Int
           /\ ~Has(frames, "PING") =>
                 InFlight' <= InFlight /\ Outstanding' <= Outstanding /\ Elapsed' <= Elapsed
           /\ Elapsed' <= Elapsed + 1
           /\ \A i \in 1..Len(outward') :
                 \/ /\ i \in 1..Len(outward) /\ outward'[i] = outward[i]
                    /\ BeforeMessage(i)' <= BeforeMessage(i)
                 \/ Has(frames, outward'[i].kind)
           /\ \A p \in 1..Len(inward) : BeforeAnswer(p)' <= BeforeAnswer(p)
           /\ BeforeRefusal' = BeforeRefusal
  <1>u. UNCHANGED <<countdown, pongs, inward, respondPong>>
    BY DEF Sends
  <1>1. TypeOK /\ TypeOK'
    BY DEF IInv
  <1>2. /\ Len(outward) \in Nat /\ Len(frames) \in Nat
        /\ Len(outward') = Len(outward) + Len(frames)
        /\ \A i \in 1..Len(outward') : outward'[i] =
              IF i <= Len(outward) THEN outward[i] ELSE frames[i - Len(outward)]
        /\ \A i \in 1..Len(frames) : frames[i].kind = "PING" => i = 1
    <2>1. outward \in Seq(OutwardFrames) /\ frames \in Seq(OutwardFrames)
      BY <1>1 DEF TypeOK, Sends
    <2>2. outward' = outward \o frames
      BY DEF Sends
    <2>3. \A i \in 1..Len(frames) : frames[i].kind = "PING" => i = 1
      BY DEF Sends
    <2> QED
      BY <2>1, <2>2, <2>3, LenProperties, ConcatProperties
  <1>3. /\ \A k : Has(outward', k) <=> Has(outward, k) \/ Has(frames, k)
        /\ \A k, l : /\ NoneBefore(outward, k, l) /\ NoneBefore(frames, k, l)
                     /\ ~Has(outward, k) \/ ~Has(frames, l)
                     => NoneBefore(outward', k, l)
    BY <1>2, OutwardSent
  <1>4. /\ PingsOut' <= PingsOut + 1
        /\ ~Has(frames, "PING") => PingsOut' <= PingsOut
        /\ \A i \in 1..Len(outward') :
              \/ /\ i \in 1..Len(outward) /\ outward'[i] = outward[i]
                 /\ Count(outward', "PING", i) = Count(outward, "PING", i)
              \/ Has(frames, outward'[i].kind)
    BY <1>2, OutwardSent
  <1>5. /\ InFlight \in Nat /\ InFlight' \in Nat /\ PingsOut \in Nat /\ PingsOut' \in Nat
        /\ PongsIn \in Nat /\ PongDue \in Nat /\ Flushed \in Int
        /\ Outstanding \in Int /\ Outstanding' \in Int /\ Elapsed \in Int /\ Elapsed' \in Int
    BY <1>1, Quantities, QuantitiesNext
  <1>6. PongsIn' = PongsIn /\ PongDue' = PongDue /\ Flushed' = Flushed /\ pongs' = pongs
    BY <1>u DEF PongsIn, PongDue, Flushed
  <1>7. InFlight' <= InFlight + 1 /\ (~Has(frames, "PING") => InFlight' <= InFlight)
    <2>1. InFlight' = PingsOut' + PongDue + PongsIn
      BY <1>6 DEF InFlight
    <2>2. ASSUME NEW x \in Nat
          PROVE  /\ x <= PingsOut + 1 => x + PongDue + PongsIn <= InFlight + 1
                 /\ x <= PingsOut => x + PongDue + PongsIn <= InFlight
      BY <1>5 DEF InFlight
    <2> QED
      BY <1>4, <1>5, <2>1, <2>2
  <1>8. ~Has(frames, "PING") =>
           InFlight' <= InFlight /\ Outstanding' <= Outstanding /\ Elapsed' <= Elapsed
    BY <1>1, <1>6, <1>7, EchoesKept
  <1>9. Elapsed' <= Elapsed + 1
    <2>1. Elapsed' = InFlight' + Flushed
      BY <1>6 DEF Elapsed
    <2>2. ASSUME NEW x \in Nat, x <= InFlight + 1
          PROVE  x + Flushed <= Elapsed + 1
      BY <1>5, <2>2 DEF Elapsed
    <2> QED
      BY <1>5, <1>7, <2>1, <2>2
  <1>10. BeforeRefusal' = BeforeRefusal
    BY <1>6 DEF BeforeRefusal
  <1>11. ASSUME NEW i \in 1..Len(outward'), i \in 1..Len(outward),
                Count(outward', "PING", i) = Count(outward, "PING", i)
         PROVE  BeforeMessage(i)' <= BeforeMessage(i)
    <2>1. BeforeMessage(i)' = BeforeMessage(i)
      BY <1>6, <1>11 DEF BeforeMessage
    <2>2. i \in Nat
      BY <1>2, <1>11
    <2> QED
      BY <2>1, <2>2, BeforeType
  <1>12. ASSUME NEW p \in 1..Len(inward)
         PROVE  BeforeAnswer(p)' <= BeforeAnswer(p)
    <2>1. BeforeAnswer(p)' = BeforeAnswer(p)
      BY <1>u, <1>6 DEF BeforeAnswer
    <2>2. p \in Nat
      BY <1>1, Quantities
    <2> QED
      BY <2>1, <2>2, BeforeType
  <1>13. \A i \in 1..Len(outward') :
            \/ /\ i \in 1..Len(outward) /\ outward'[i] = outward[i]
               /\ BeforeMessage(i)' <= BeforeMessage(i)
            \/ Has(frames, outward'[i].kind)
    BY <1>4, <1>11
  <1> QED
    BY <1>3, <1>5, <1>8, <1>9, <1>10, <1>12, <1>13

\* The sender publishes messages, or nothing.
LEMMA MessagesKeep ==
    ASSUME IInv, IInv', HInv, initialised, NEW frames \in Seq(OutwardFrames), Publish(frames),
           \A i \in 1..Len(frames) : frames[i].kind = "MESSAGE"
    PROVE  HInv'
  <1>1. /\ UNCHANGED <<initialised, countdown, pongs, acknowledged, initialisations,
                       uninitialisations, inward, ready, respondPong, respondUninitialised,
                       respondInitialised, respondAcknowledge, log>>
        /\ phase = "publish" /\ phase' = "accept"
    BY DEF Publish, feedbackVars, receiverVars, responseVars, historyVars
  <1>2. Sends(frames)
    <2>1. \A i \in 1..Len(frames) : frames[i].kind = "PING" => i = 1
      OBVIOUS
    <2> QED
      BY <1>1, <2>1 DEF Sends, Publish
  <1>3. /\ \A k : Has(outward', k) <=> Has(outward, k) \/ Has(frames, k)
        /\ \A k, l : /\ NoneBefore(outward, k, l) /\ NoneBefore(frames, k, l)
                     /\ ~Has(outward, k) \/ ~Has(frames, l)
                     => NoneBefore(outward', k, l)
    BY <1>2, OutwardMore
  <1>4. /\ InFlight \in Nat /\ InFlight' \in Nat
        /\ Outstanding \in Int /\ Outstanding' \in Int /\ Elapsed \in Int /\ Elapsed' \in Int
        /\ ~Has(frames, "PING") =>
              InFlight' <= InFlight /\ Outstanding' <= Outstanding /\ Elapsed' <= Elapsed
        /\ Elapsed' <= Elapsed + 1
    BY <1>2, OutwardMore
  <1>5. /\ NotReady /\ OutwardOrder /\ Quiet /\ StillRefused /\ InwardOrder
        /\ EchoesFirst /\ FewEchoes /\ StaleGreeting /\ FlushOutlasts
    BY DEF HInv
  <1>6. /\ ~Has(frames, "PING") /\ ~Has(frames, "INITIALISE")
        /\ NoneBefore(frames, "MESSAGE", "INITIALISE") /\ NoneBefore(frames, "INITIALISE", "PING")
    BY DEF Has, NoneBefore
  <1>7. ~Flushing /\ ~Flushing' /\ ~Handshaking'
    BY <1>1 DEF Flushing, Handshaking
  <1>8. NotReady' /\ OutwardOrder'
    BY <1>1, <1>3, <1>5, <1>6, <1>7 DEF NotReady, OutwardOrder
  <1>9. Quiet' /\ StaleGreeting' /\ FlushOutlasts'
    BY <1>7 DEF Quiet, StaleGreeting, FlushOutlasts
  <1>10. StillRefused' /\ InwardOrder'
    BY <1>1, <1>3, <1>5, <1>6, <1>7 DEF StillRefused, Refused, InwardOrder
  <1>11. EchoesFirst'
    BY <1>1, <1>3, <1>4, <1>5, <1>6, <1>7 DEF EchoesFirst
  <1>12. FewEchoes'
    BY <1>1, <1>3, <1>4, <1>5, <1>6 DEF FewEchoes, MidCycle, Greeting
  <1> QED
    BY <1>8, <1>9, <1>10, <1>11, <1>12 DEF HInv

\* The sender flushes with a ping.
LEMMA FlushKeeps ==
    ASSUME IInv, IInv', HInv, PublishPing
    PROVE  HInv'
  <1>1. /\ UNCHANGED <<initialised, countdown, pongs, acknowledged, initialisations,
                       uninitialisations, inward, ready, respondPong, respondUninitialised,
                       respondInitialised, respondAcknowledge, log>>
        /\ phase = "publish" /\ phase' = "accept"
    BY DEF PublishPing, Publish, feedbackVars, receiverVars, responseVars, historyVars
  <1>2. Sends(<<Ping>>)
    <2>1. Ping \in OutwardFrames
      BY DEF OutwardFrames
    <2>2. <<Ping>> \in Seq(OutwardFrames) /\ \A i \in 1..Len(<<Ping>>) : i = 1
      BY <2>1
    <2> QED
      BY <1>1, <2>2 DEF Sends, PublishPing, Publish
  <1>3. /\ \A k : Has(outward', k) <=> Has(outward, k) \/ Has(<<Ping>>, k)
        /\ \A k, l : /\ NoneBefore(outward, k, l) /\ NoneBefore(<<Ping>>, k, l)
                     /\ ~Has(outward, k) \/ ~Has(<<Ping>>, l)
                     => NoneBefore(outward', k, l)
    BY <1>2, OutwardMore
  <1>4. /\ InFlight \in Nat /\ InFlight' \in Nat
        /\ Outstanding \in Int /\ Outstanding' \in Int /\ Elapsed \in Int /\ Elapsed' \in Int
        /\ ~Has(<<Ping>>, "PING") =>
              InFlight' <= InFlight /\ Outstanding' <= Outstanding /\ Elapsed' <= Elapsed
        /\ Elapsed' <= Elapsed + 1
    BY <1>2, OutwardMore
  <1>5. /\ NotReady /\ OutwardOrder /\ Quiet /\ StillRefused /\ InwardOrder
        /\ EchoesFirst /\ FewEchoes /\ StaleGreeting /\ FlushOutlasts
    BY DEF HInv
  <1>6. /\ ~Has(<<Ping>>, "INITIALISE") /\ ~Has(<<Ping>>, "MESSAGE")
        /\ NoneBefore(<<Ping>>, "MESSAGE", "INITIALISE")
        /\ NoneBefore(<<Ping>>, "INITIALISE", "PING")
    BY DEF Has, NoneBefore, Ping
  <1>7. Flushing /\ Flushing' /\ ~Handshaking' /\ ~initialised'
    <2>1. countdown \in Int
      BY DEF IInv, TypeOK
    <2> QED
      BY <1>1, <2>1 DEF Flushing, Handshaking, PublishPing
  <1>8. NotReady' /\ OutwardOrder'
    BY <1>1, <1>3, <1>5, <1>6, <1>7 DEF NotReady, OutwardOrder
  <1>9. Quiet' /\ EchoesFirst' /\ FewEchoes'
    BY <1>7 DEF Quiet, EchoesFirst, FewEchoes
  <1>10. StillRefused' /\ InwardOrder'
    BY <1>1, <1>3, <1>5, <1>6, <1>7 DEF StillRefused, Refused, InwardOrder
  <1>11. StaleGreeting'
    BY <1>1, <1>4, <1>5, <1>7 DEF StaleGreeting
  <1>12. FlushOutlasts'
    <2>1. /\ \A i \in 1..Len(outward') :
                \/ /\ i \in 1..Len(outward) /\ outward'[i] = outward[i]
                   /\ BeforeMessage(i)' <= BeforeMessage(i)
                \/ Has(<<Ping>>, outward'[i].kind)
          /\ \A p \in 1..Len(inward) : BeforeAnswer(p)' <= BeforeAnswer(p)
          /\ BeforeRefusal' = BeforeRefusal
      BY <1>2, OutwardMore
    <2>2. ASSUME NEW i \in 1..Len(outward'), outward'[i].kind = "MESSAGE"
          PROVE  \E j \in 1..Len(outward) :
                    outward[j].kind = "MESSAGE" /\ BeforeMessage(i)' <= BeforeMessage(j)
      <3>1. ~Has(<<Ping>>, outward'[i].kind)
        BY <1>6, <2>2
      <3> QED
        BY <2>1, <2>2, <3>1
    <2> QED
      BY <1>1, <1>5, <2>1, <2>2, FlushKept DEF FlushOutlasts
  <1> QED
    BY <1>8, <1>9, <1>10, <1>11, <1>12 DEF HInv

\* The sender offers its sequence number: nothing of the time before the flush is left.
LEMMA OfferKeeps ==
    ASSUME IInv, IInv', HInv, PublishInitialise
    PROVE  HInv'
  <1>1. /\ UNCHANGED <<initialised, countdown, pongs, acknowledged, initialisations,
                       uninitialisations, inward, ready, respondPong, respondUninitialised,
                       respondInitialised, respondAcknowledge, log>>
        /\ phase = "publish" /\ phase' = "accept"
    BY DEF PublishInitialise, Publish, feedbackVars, receiverVars, responseVars, historyVars
  <1> DEFINE offer == Initialise(FirstSequence)
  <1>o. offer \in OutwardFrames /\ offer.kind = "INITIALISE"
    <2>1. head \in SeqNums
      BY DEF IInv, TypeOK
    <2> QED
      BY <2>1 DEF OutwardFrames, Initialise, FirstSequence
  <1>2. Sends(<<offer>>)
    <2>1. /\ outward' = outward \o <<offer>>
          /\ UNCHANGED <<countdown, pongs, inward, respondPong>>
      BY <1>1 DEF PublishInitialise, Publish
    <2> HIDE DEF offer
    <2>2. <<offer>> \in Seq(OutwardFrames) /\ \A i \in 1..Len(<<offer>>) : i = 1
      BY <1>o
    <2> QED
      BY <2>1, <2>2 DEF Sends
  <1>7. Handshaking /\ ~Flushing /\ ~Flushing' /\ ~initialised'
    <2>1. countdown \in Int
      BY DEF IInv, TypeOK
    <2> QED
      BY <1>1, <2>1 DEF Flushing, Handshaking, PublishInitialise
  <1> HIDE DEF offer
  <1>3. /\ \A k : Has(outward', k) <=> Has(outward, k) \/ Has(<<offer>>, k)
        /\ \A k, l : /\ NoneBefore(outward, k, l) /\ NoneBefore(<<offer>>, k, l)
                     /\ ~Has(outward, k) \/ ~Has(<<offer>>, l)
                     => NoneBefore(outward', k, l)
    BY <1>2, OutwardMore
  <1>4. /\ InFlight \in Nat /\ InFlight' \in Nat
        /\ Outstanding \in Int /\ Outstanding' \in Int /\ Elapsed \in Int /\ Elapsed' \in Int
        /\ ~Has(<<offer>>, "PING") =>
              InFlight' <= InFlight /\ Outstanding' <= Outstanding /\ Elapsed' <= Elapsed
        /\ Elapsed' <= Elapsed + 1
    BY <1>2, OutwardMore
  <1>5. /\ NotReady /\ OutwardOrder /\ Quiet /\ StillRefused /\ InwardOrder
        /\ EchoesFirst /\ FewEchoes /\ StaleGreeting /\ FlushOutlasts
    BY DEF HInv
  <1>6. /\ \A k : Has(<<offer>>, k) <=> k = "INITIALISE"
        /\ NoneBefore(<<offer>>, "MESSAGE", "INITIALISE")
        /\ NoneBefore(<<offer>>, "INITIALISE", "PING")
    BY <1>o DEF Has, NoneBefore
  <1>8. /\ log = <<>> /\ ~Has(outward, "MESSAGE") /\ ~Refused
    BY <1>1, <1>5, <1>7 DEF Quiet, MidCycle, Refused
  <1>9. NotReady' /\ OutwardOrder'
    BY <1>1, <1>3, <1>5, <1>6, <1>7, <1>8 DEF NotReady, OutwardOrder
  <1>10. Quiet'
    BY <1>1, <1>3, <1>5, <1>6, <1>7 DEF Quiet, MidCycle
  <1>11. StillRefused' /\ InwardOrder'
    BY <1>1, <1>5, <1>7, <1>8 DEF StillRefused, Refused, InwardOrder
  <1>12. EchoesFirst'
    BY <1>1, <1>3, <1>4, <1>5, <1>6, <1>7 DEF EchoesFirst
  <1>13. FewEchoes' /\ StaleGreeting' /\ FlushOutlasts'
    BY <1>7 DEF FewEchoes, StaleGreeting, FlushOutlasts
  <1> QED
    BY <1>9, <1>10, <1>11, <1>12, <1>13 DEF HInv

\* Every way the sender ends its cycle keeps the handshake in order.
LEMMA PublishKeepsOrder ==
    ASSUME IInv, IInv', HInv, PublishBatch
    PROVE  HInv'
  <1>1. CASE PublishNothing \/ PublishHoldoff
    <2>1. Publish(<<>>) /\ initialised
      BY <1>1 DEF PublishNothing, PublishHoldoff
    <2>2. <<>> \in Seq(OutwardFrames) /\ \A i \in 1..Len(<<>>) : <<>>[i].kind = "MESSAGE"
      OBVIOUS
    <2> QED
      BY <2>1, <2>2, MessagesKeep
  <1>2. CASE PublishMessages
    <2>1. PICK frames \in Seq(OutwardFrames) :
             /\ Publish(frames)
             /\ \A i \in 1..Len(frames) : \E place \in 0..(window - 1) :
                   frames[i] = Message(mod(head + place), slots[mod(head + place)])
      BY <1>2, BurstInWindow
    <2>2. \A i \in 1..Len(frames) : frames[i].kind = "MESSAGE"
      <3>1. \A s, f : Message(s, f).kind = "MESSAGE"
        BY DEF Message
      <3> QED
        BY <2>1, <3>1
    <2>3. initialised
      BY <1>2 DEF PublishMessages
    <2> QED
      BY <2>1, <2>2, <2>3, MessagesKeep
  <1> QED
    BY <1>1, <1>2, FlushKeeps, OfferKeeps DEF PublishBatch

-----------------------------------------------------------------------------
(* The handshake stays in order. *)

LEMMA InitCounting == Init => Counting
  BY ParameterAssumption DEF Init, Counting

LEMMA NextCounting == IInv /\ Counting /\ [Next]_vars => Counting'
  <1> SUFFICES ASSUME IInv, Counting, [Next]_vars PROVE Counting'
    OBVIOUS
  <1> USE DEF egressVars, feedbackVars, responseVars, receiverVars, historyVars
  <1>1. countdown \in Int /\ pongs \in Nat /\ FlushCount \in Nat /\ countdown <= FlushCount
    BY ParameterAssumption DEF IInv, TypeOK, Counting
  <1>2. CASE HandlePongs
    <2>1. countdown' \in {countdown, countdown - pongs}
      BY <1>2 DEF HandlePongs
    <2> QED
      BY <1>1, <2>1 DEF Counting
  <1>3. CASE HandleUninitialisations
    <2>1. countdown' \in {countdown, FlushCount}
      BY <1>3 DEF HandleUninitialisations
    <2> QED
      BY <1>1, <2>1 DEF Counting
  <1>4. ASSUME countdown' = countdown
        PROVE  Counting'
    BY <1>1, <1>4 DEF Counting
  <1>5. CASE \E count \in 1..BatchCapacity : AcceptBatch(count)
    BY <1>4, <1>5 DEF AcceptBatch
  <1>6. CASE HandleAcknowledgement \/ HandleInitialisations \/ Feedback \/ Respond
    BY <1>4, <1>6 DEF HandleAcknowledgement, HandleInitialisations, Feedback, Respond
  <1>7. CASE PublishBatch
    BY <1>4, <1>7 DEF PublishBatch, PublishNothing, PublishHoldoff, PublishMessages,
                      PublishPing, PublishInitialise, Publish
  <1>8. CASE ProcessPing \/ HandleInitialise \/ RejectMessage \/ HandleMessage
    BY <1>4, <1>8 DEF ProcessPing, HandleInitialise, RejectMessage, HandleMessage, Consume
  <1>9. CASE ResetReceiver \/ LoseOutward \/ LoseInward
    BY <1>4, <1>9 DEF ResetReceiver, LoseOutward, LoseInward
  <1>10. CASE UNCHANGED vars
    BY <1>4, <1>10 DEF vars
  <1> QED
    BY <1>2, <1>3, <1>5, <1>6, <1>7, <1>8, <1>9, <1>10 DEF Next, Egress, Ingress

LEMMA InitHInv == Init => HInv
  <1> SUFFICES ASSUME Init PROVE HInv
    OBVIOUS
  <1>1. /\ outward = <<>> /\ inward = <<>> /\ ~ready /\ ~initialised /\ log = <<>>
        /\ countdown = FlushCount /\ FlushCount \in Nat /\ FlushCount >= 1
        /\ ~respondPong /\ ~respondUninitialised /\ ~respondInitialised
        /\ respondAcknowledge = -1 /\ initialisations = 0 /\ uninitialisations = 0
    BY ParameterAssumption DEF Init
  <1>2. Flushing /\ ~Handshaking
    BY <1>1 DEF Flushing, Handshaking
  <1>3. /\ \A k : ~Has(outward, k) /\ ~Has(inward, k)
        /\ \A k, l : NoneBefore(outward, k, l) /\ NoneBefore(inward, k, l)
    BY <1>1 DEF Has, NoneBefore
  <1>4. NotReady /\ OutwardOrder /\ Quiet /\ StillRefused /\ InwardOrder
    BY <1>1, <1>2, <1>3 DEF NotReady, OutwardOrder, Quiet, StillRefused, Refused, InwardOrder
  <1>5. EchoesFirst /\ FewEchoes /\ StaleGreeting /\ FlushOutlasts
    BY <1>1, <1>2 DEF EchoesFirst, FewEchoes, StaleGreeting, FlushOutlasts
  <1> QED
    BY <1>4, <1>5 DEF HInv

LEMMA NextHInv ==
    EnoughPings /\ Counting /\ IInv /\ IInv' /\ HInv /\ [Next]_vars => HInv'
  <1> SUFFICES ASSUME EnoughPings, Counting, IInv, IInv', HInv, [Next]_vars PROVE HInv'
    OBVIOUS
  <1>1. CASE \E count \in 1..BatchCapacity : AcceptBatch(count)
    BY <1>1, Aside DEF AcceptBatch, feedbackVars, receiverVars, responseVars
  <1>2. CASE UNCHANGED vars
    BY <1>2, Aside
       DEF vars, egressVars, feedbackVars, receiverVars, responseVars, historyVars
  <1> QED
    BY <1>1, <1>2, PongsKeep, AcknowledgedKeeps, InitialisationsKeep, UninitialisationsKeep,
       PublishKeepsOrder, FeedbackKeeps, PingKeeps, InitialiseKeeps, RejectKeeps, ReceiptKeeps,
       RespondKeeps, ResetKeeps, LossOutwardKeeps, LossInwardKeeps DEF Next, Egress, Ingress

-----------------------------------------------------------------------------
(* What the receiver expects. *)

\* A receiver that is ready expects a frame of the window or the one after it: the first
\* of the window when it has received nothing, the next one otherwise; and nothing under
\* way acknowledges that frame.
Expecting ==
    ready =>
       /\ settled < Frame(accept) /\ Frame(accept) <= submitted + 1
       /\ Frame(accept) = IF log = <<>> THEN settled + 1 ELSE log[Len(log)] + 1
       /\ \A p \in 0..(Len(inward) + 1) : AckAt(p) >= 0 => Frame(AckAt(p)) < Frame(accept)

\* The offer on the wire is the first number of the window, and the window does not move
\* before it is taken.
Offered ==
    \A i \in 1..Len(outward) : outward[i].kind = "INITIALISE" =>
       /\ outward[i].seq = head
       /\ \A p \in 0..(Len(inward) + 1) : AckAt(p) >= 0 => Frame(AckAt(p)) <= settled

RInv == Expecting /\ Offered /\ InboxInOrder

\* While the window stays where it is, what is acknowledged after a step was before it.
LEMMA AcksFrom ==
    ASSUME head' = head, settled' = settled, NEW f, Shifts(f),
           NEW p \in 0..(Len(inward') + 1), AckNext(p) >= 0
    PROVE  \E q \in 0..(Len(inward) + 1) :
              AckAt(q) >= 0 /\ FrameNext(AckNext(p)) = Frame(AckAt(q))
  <1>1. f[p] \in 0..(Len(inward) + 1) /\ AckNext(p) \in {-1, AckAt(f[p])}
    BY DEF Shifts
  <1>2. AckNext(p) = AckAt(f[p])
    BY <1>1
  <1>3. FrameNext(AckNext(p)) = Frame(AckAt(f[p]))
    BY <1>2 DEF FrameNext, Frame
  <1> QED
    BY <1>1, <1>2, <1>3

LEMMA StillExpecting ==
    ASSUME IInv, IInv', Expecting, head' = head, settled' = settled, submitted <= submitted',
           ready' => ready /\ accept' = accept /\ log' = log, NEW f, Shifts(f)
    PROVE  Expecting'
  <1> SUFFICES ASSUME ready'
               PROVE  /\ settled' < FrameNext(accept') /\ FrameNext(accept') <= submitted' + 1
                      /\ FrameNext(accept') = IF log' = <<>> THEN settled' + 1
                                              ELSE log'[Len(log')] + 1
                      /\ \A p \in 0..(Len(inward') + 1) :
                            AckNext(p) >= 0 => FrameNext(AckNext(p)) < FrameNext(accept')
    BY DEF Expecting, Frame, FrameNext, AckAt, AckNext
  <1>1. FrameNext(accept') = Frame(accept)
    BY DEF Frame, FrameNext
  <1>3. accept \in SeqNums /\ head \in SeqNums /\ settled \in Nat /\ submitted \in Nat
    BY Settled DEF IInv, TypeOK
  <1>4. Frame(accept) \in Int
    BY <1>3, FrameRange DEF Frame
  <1>2. ASSUME NEW x \in Nat, submitted <= x
        PROVE  submitted + 1 <= x + 1 /\ (Frame(accept) <= submitted + 1 => Frame(accept) <= x + 1)
    BY <1>2, <1>3, <1>4
  <1>5. settled' < FrameNext(accept') /\ FrameNext(accept') <= submitted' + 1
    <2>1. Frame(accept) <= submitted + 1 /\ settled < Frame(accept)
      BY DEF Expecting
    <2>2. submitted' \in Nat
      BY SettledNext
    <2>3. Frame(accept) <= submitted' + 1
      BY <1>2, <2>1, <2>2
    <2> QED
      BY <1>1, <2>1, <2>3
  <1>6. FrameNext(accept') = IF log' = <<>> THEN settled' + 1 ELSE log'[Len(log')] + 1
    BY <1>1 DEF Expecting
  <1>7. ASSUME NEW p \in 0..(Len(inward') + 1), AckNext(p) >= 0
        PROVE  FrameNext(AckNext(p)) < FrameNext(accept')
    <2>1. PICK q \in 0..(Len(inward) + 1) :
             AckAt(q) >= 0 /\ FrameNext(AckNext(p)) = Frame(AckAt(q))
      BY <1>7, AcksFrom
    <2>2. Frame(AckAt(q)) < Frame(accept)
      BY <2>1 DEF Expecting
    <2> QED
      BY <1>1, <2>1, <2>2
  <1> QED
    BY <1>5, <1>6, <1>7

LEMMA StillOffered ==
    ASSUME Offered, head' = head, settled' = settled, NEW f, Shifts(f),
           \A i \in 1..Len(outward') : outward'[i].kind = "INITIALISE" =>
              \E j \in 1..Len(outward) : outward[j] = outward'[i]
    PROVE  Offered'
  <1>1. ASSUME NEW i \in 1..Len(outward'), outward'[i].kind = "INITIALISE"
        PROVE  outward'[i].seq = head'
    BY <1>1 DEF Offered
  <1>2. ASSUME NEW i \in 1..Len(outward'), outward'[i].kind = "INITIALISE",
               NEW p \in 0..(Len(inward') + 1), AckNext(p) >= 0
        PROVE  FrameNext(AckNext(p)) <= settled'
    <2>1. PICK q \in 0..(Len(inward) + 1) :
             AckAt(q) >= 0 /\ FrameNext(AckNext(p)) = Frame(AckAt(q))
      BY <1>2, AcksFrom
    <2>2. PICK j \in 1..Len(outward) : outward[j] = outward'[i]
      BY <1>2
    <2>3. Frame(AckAt(q)) <= settled
      BY <1>2, <2>1, <2>2 DEF Offered
    <2> QED
      BY <2>1, <2>3
  <1> QED
    BY <1>1, <1>2 DEF Offered, AckAt, AckNext, Frame, FrameNext

\* Steps that leave the window and the receiver alone, or reset it.
LEMMA StillInOrder ==
    ASSUME IInv, IInv', RInv, head' = head, settled' = settled, submitted <= submitted',
           ready' => ready /\ accept' = accept /\ log' = log, log' \in {log, <<>>},
           \E f : Shifts(f),
           \A i \in 1..Len(outward') : outward'[i].kind = "INITIALISE" =>
              \E j \in 1..Len(outward) : outward[j] = outward'[i]
    PROVE  RInv'
  <1>1. PICK f : Shifts(f)
    OBVIOUS
  <1>2. Expecting'
    BY <1>1, StillExpecting DEF RInv
  <1>3. Offered'
    BY <1>1, StillOffered DEF RInv
  <1>4. InboxInOrder'
    <2>1. CASE log' = log
      BY <2>1 DEF RInv, InboxInOrder
    <2>2. CASE log' = <<>>
      BY <2>2 DEF InboxInOrder
    <2> QED
      BY <2>1, <2>2
  <1> QED
    BY <1>2, <1>3, <1>4 DEF RInv

\* The first number of the window stands for the first frame of it.
LEMMA FirstFrame ==
    ASSUME IInv
    PROVE  Frame(head) = settled + 1
  <1>1. /\ settled \in Nat /\ head \in SeqNums /\ WindowSize \in Nat /\ Modulus \in Nat
        /\ head \in Int
    BY Settled DEF SeqNums
  <1>2. settled + 1 \in Int /\ settled + 1 + WindowSize + 1 - Modulus <= settled + 1
        /\ settled + 1 <= settled + 1 + WindowSize
        /\ head - head = (settled + 1) - (settled + 1)
    BY <1>1, WindowAssumption
  <1> QED
    BY <1>1, <1>2, FrameUnique DEF Frame

\* The offer is the first number of the window, and no acknowledgement is under way.
LEMMA OfferExpected ==
    ASSUME IInv, IInv', HInv, RInv, PublishInitialise
    PROVE  RInv'
  <1> DEFINE offer == Initialise(head)
  <1>1. /\ UNCHANGED <<head, tail, submitted, acknowledged, inward, ready, accept,
                       respondAcknowledge, log>>
        /\ phase = "publish" /\ ~initialised /\ countdown <= 0
        /\ outward' = outward \o <<offer>>
    BY DEF PublishInitialise, Publish, FirstSequence, feedbackVars, receiverVars, responseVars,
           historyVars
  <1>2. settled' = settled /\ submitted <= submitted'
    BY <1>1, SameWindow, Settled
  <1>3. PICK f : Shifts(f)
    BY <1>1, ShiftsInPlace DEF IInv
  <1>4. Expecting'
    BY <1>1, <1>2, <1>3, StillExpecting DEF RInv
  <1>5. InboxInOrder'
    BY <1>1 DEF RInv, InboxInOrder
  <1>6. offer.kind = "INITIALISE" /\ offer.seq = head
    BY DEF Initialise
  <1>7. ASSUME NEW p \in 0..(Len(inward') + 1), AckNext(p) >= 0
        PROVE  FALSE
    <2>1. Quiet /\ Handshaking
      BY <1>1 DEF HInv, Handshaking
    <2>2. ~Has(inward, "ACKNOWLEDGE") /\ respondAcknowledge = -1 /\ ~(acknowledged >= 0)
      BY <1>1, <2>1 DEF Quiet
    <2> QED
      BY <1>1, <1>7, <2>2 DEF AckNext, AckIn, Has
  <1>8. ASSUME NEW i \in 1..Len(outward'), outward'[i].kind = "INITIALISE"
        PROVE  outward'[i].seq = head'
    <2>1. outward \in Seq(OutwardFrames)
      BY DEF IInv, TypeOK
    <2> HIDE DEF offer
    <2>2. (i \in 1..Len(outward) /\ outward'[i] = outward[i]) \/ outward'[i] = offer
      BY <1>1, <2>1
    <2> QED
      BY <1>1, <1>6, <1>8, <2>2 DEF RInv, Offered
  <1>9. Offered'
    BY <1>7, <1>8 DEF Offered, AckAt, AckNext
  <1> QED
    BY <1>4, <1>5, <1>9 DEF RInv

\* The receiver that takes the offer expects the first frame of the window.
LEMMA OfferTaken ==
    ASSUME IInv, IInv', HInv, RInv, HandleInitialise
    PROVE  RInv'
  <1>1. /\ UNCHANGED <<head, tail, submitted, acknowledged, inward, respondAcknowledge, log>>
        /\ outward # <<>> /\ outward' = Tail(outward) /\ Head(outward).kind = "INITIALISE"
        /\ accept' = Head(outward).seq
    BY DEF HandleInitialise, Consume, egressVars, feedbackVars
  <1>2. settled' = settled /\ submitted' = submitted
    BY <1>1, SameWindow
  <1>3. PICK f : Shifts(f)
    BY <1>1, ShiftsInPlace DEF IInv
  <1>4. /\ Len(outward') \in Nat /\ Len(outward) = Len(outward') + 1
        /\ \A i \in 1..Len(outward') : outward'[i] = outward[i + 1]
        /\ Head(outward) = outward[1] /\ 1 \in 1..Len(outward)
    BY <1>1, OutwardStep
  <1>5. Offered'
    <2>1. ASSUME NEW i \in 1..Len(outward')
          PROVE  \E j \in 1..Len(outward) : outward[j] = outward'[i]
      <3>1. i + 1 \in 1..Len(outward) /\ outward'[i] = outward[i + 1]
        BY <1>4
      <3> QED
        BY <3>1
    <2> QED
      BY <1>1, <1>2, <1>3, <2>1, StillOffered DEF RInv
  <1>6. /\ accept' = head /\ log' = <<>>
        /\ \A p \in 0..(Len(inward) + 1) : AckAt(p) >= 0 => Frame(AckAt(p)) <= settled
    <2>1. Has(outward, "INITIALISE")
      BY <1>1, <1>4 DEF Has
    <2> QED
      BY <1>1, <1>4, <2>1 DEF RInv, Offered, HInv, OutwardOrder
  <1>7. FrameNext(accept') = settled + 1
    BY <1>1, <1>2, <1>6, FirstFrame DEF Frame, FrameNext
  <1>8. settled \in Nat /\ submitted \in Nat /\ settled <= submitted
    BY Settled DEF SeqNums
  <1>9. ASSUME NEW p \in 0..(Len(inward') + 1), AckNext(p) >= 0
        PROVE  FrameNext(AckNext(p)) < settled + 1
    <2>1. AckNext(p) = AckAt(p) /\ p \in 0..(Len(inward) + 1)
      BY <1>1 DEF AckNext, AckAt
    <2>2. Frame(AckAt(p)) <= settled /\ Frame(AckAt(p)) \in Int
      BY <1>6, <1>9, <2>1, AckType
    <2>3. FrameNext(AckNext(p)) = Frame(AckAt(p))
      BY <1>1, <1>2, <2>1 DEF FrameNext, Frame
    <2> QED
      BY <1>8, <2>2, <2>3
  <1>10. /\ settled' < FrameNext(accept')
         /\ FrameNext(accept') = IF log' = <<>> THEN settled' + 1 ELSE log'[Len(log')] + 1
    BY <1>2, <1>6, <1>7, <1>8
  <1>11. FrameNext(accept') <= submitted' + 1
    BY <1>2, <1>7, <1>8
  <1>12. Expecting'
    BY <1>7, <1>9, <1>10, <1>11 DEF Expecting, Frame, FrameNext, AckAt, AckNext
  <1>13. InboxInOrder'
    BY <1>1 DEF RInv, InboxInOrder
  <1> QED
    BY <1>5, <1>12, <1>13 DEF RInv

\* An acknowledgement that moves the window stays behind what the receiver expects, which
\* has therefore received a frame, and there is no offer on the wire.
LEMMA AcknowledgementExpected ==
    ASSUME AmpleNumbers, IInv, IInv', SInv, RInv, HandleAcknowledgement
    PROVE  RInv'
  <1>1. /\ UNCHANGED <<tail, submitted, outward, inward, ready, accept, respondAcknowledge, log>>
        /\ acknowledged' = -1
    BY DEF HandleAcknowledgement, receiverVars, responseVars, historyVars
  <1>2. settled \in Nat /\ submitted \in Nat /\ head \in SeqNums /\ WindowSize \in Nat
    BY Settled
  <1>3. CASE ~InWindow(acknowledged)
    <2>1. head' = head
      BY <1>3 DEF HandleAcknowledgement
    <2>2. settled' = settled /\ submitted <= submitted'
      BY <1>1, <1>2, <2>1, SameWindow
    <2>3. \E f : Shifts(f)
      BY <1>1, ShiftsInPlace DEF IInv
    <2> QED
      BY <1>1, <2>1, <2>2, <2>3, StillInOrder
  <1>4. CASE InWindow(acknowledged)
    <2>1. /\ acknowledged \in SeqNums /\ Frame(acknowledged) = settled'
          /\ settled' \in Nat /\ settled' <= submitted
      BY <1>4, Acknowledged
    <2>2. PICK k \in 1..WindowSize : head' = mod(head + k) /\ settled' = settled + k
      BY <1>4, Acknowledged
    <2>3. settled < settled' /\ settled + 1 <= settled' /\ k \in 0..WindowSize
      BY <1>2, <2>2
    <2>4. Len(inward) \in Nat /\ 0 \in 0..(Len(inward) + 1)
      <3>1. Len(inward) \in Nat
        BY InwardLength DEF IInv
      <3> QED
        BY <3>1
    <2>5. AckAt(0) = acknowledged /\ AckAt(0) >= 0
      <3>1. acknowledged >= 0
        BY <2>1 DEF SeqNums
      <3> QED
        BY <3>1 DEF AckAt, AckIn
    <2>6. ASSUME NEW s \in SeqNums, settled' <= Frame(s) + WindowSize
          PROVE  FrameNext(s) = Frame(s)
      BY <2>2, <2>3, <2>6, FrameKept
    <2>7. Offered'
      <3>1. ASSUME NEW i \in 1..Len(outward), outward[i].kind = "INITIALISE"
            PROVE  FALSE
        <4>1. Frame(AckAt(0)) <= settled
          BY <2>4, <2>5, <3>1 DEF RInv, Offered
        <4> QED
          BY <1>2, <2>1, <2>3, <2>5, <4>1
      <3> QED
        BY <1>1, <3>1 DEF Offered
    <2>8. Expecting'
      <3> SUFFICES ASSUME ready'
                   PROVE  /\ settled' < FrameNext(accept') /\ FrameNext(accept') <= submitted' + 1
                          /\ FrameNext(accept') = IF log' = <<>> THEN settled' + 1
                                                  ELSE log'[Len(log')] + 1
                          /\ \A p \in 0..(Len(inward') + 1) :
                                AckNext(p) >= 0 => FrameNext(AckNext(p)) < FrameNext(accept')
        BY DEF Expecting, Frame, FrameNext, AckAt, AckNext
      <3>1. /\ Frame(accept) <= submitted + 1
            /\ Frame(accept) = IF log = <<>> THEN settled + 1 ELSE log[Len(log)] + 1
            /\ \A p \in 0..(Len(inward) + 1) : AckAt(p) >= 0 => Frame(AckAt(p)) < Frame(accept)
        BY <1>1 DEF RInv, Expecting
      <3>2. accept \in SeqNums /\ Frame(accept) \in Int
        <4>1. accept \in SeqNums
          BY DEF IInv, TypeOK
        <4> QED
          BY <1>2, <4>1, FrameRange DEF Frame
      <3>3. settled' < Frame(accept)
        BY <2>1, <2>4, <2>5, <3>1
      <3>4. log # <<>>
        BY <1>2, <2>1, <2>3, <3>1, <3>2, <3>3
      <3>5. FrameNext(accept') = Frame(accept)
        <4>1. settled' <= Frame(accept) + WindowSize
          BY <1>2, <2>1, <3>2, <3>3
        <4> QED
          BY <1>1, <2>6, <3>2, <4>1
      <3>6. ASSUME NEW p \in 0..(Len(inward') + 1), AckNext(p) >= 0
            PROVE  FrameNext(AckNext(p)) < FrameNext(accept')
        <4>1. p \in 0..(Len(inward) + 1) /\ p # 0 /\ AckNext(p) = AckAt(p)
          BY <1>1, <2>4, <3>6 DEF AckNext, AckAt, AckIn
        <4>2. 0 < p
          BY <2>4, <4>1
        <4>3. Frame(AckAt(0)) <= Frame(AckAt(p)) + WindowSize
          BY <2>4, <2>5, <3>6, <4>1, <4>2 DEF SInv, AcksOK
        <4>4. AckAt(p) \in SeqNums
          BY <3>6, <4>1, AckType
        <4>5. FrameNext(AckAt(p)) = Frame(AckAt(p))
          BY <2>1, <2>5, <2>6, <4>3, <4>4
        <4>6. Frame(AckAt(p)) < Frame(accept)
          BY <3>1, <3>6, <4>1
        <4> QED
          BY <3>5, <4>1, <4>5, <4>6
      <3> QED
        BY <1>1, <3>1, <3>3, <3>4, <3>5, <3>6
    <2>9. InboxInOrder'
      BY <1>1 DEF RInv, InboxInOrder
    <2> QED
      BY <2>7, <2>8, <2>9 DEF RInv
  <1> QED
    BY <1>3, <1>4

\* A receiver takes the frame that it expects and no other, and then expects the next one;
\* it acknowledges the frame before the one it expects.
LEMMA MessageExpected ==
    ASSUME AmpleNumbers, IInv, IInv', SInv, HInv, RInv, HandleMessage
    PROVE  RInv'
  <1> DEFINE m == Head(outward)
             A == Frame(accept)
  <1>1. /\ outward # <<>> /\ outward' = Tail(outward) /\ m.kind = "MESSAGE" /\ ready
        /\ UNCHANGED <<head, tail, submitted, acknowledged, inward, ready>>
    BY DEF HandleMessage, Consume, MayHandle, egressVars, feedbackVars
  <1>2. settled' = settled /\ submitted' = submitted
    BY <1>1, SameWindow
  <1>3. /\ Len(outward') \in Nat /\ Len(outward) = Len(outward') + 1
        /\ \A i \in 1..Len(outward') : outward'[i] = outward[i + 1]
        /\ m = outward[1] /\ 1 \in 1..Len(outward)
    BY <1>1, OutwardStep
  <1>4. /\ settled \in Nat /\ submitted \in Nat /\ submitted <= settled + WindowSize
        /\ head \in SeqNums /\ WindowSize \in Nat /\ Modulus \in Nat /\ accept \in SeqNums
        /\ WindowSize < Modulus /\ Len(inward) \in Nat
    <2>1. accept \in SeqNums /\ Len(inward) \in Nat
      BY InwardLength DEF IInv, TypeOK
    <2> QED
      BY <2>1, Settled, WindowAssumption DEF SeqNums
  <1>5. m.seq \in SeqNums /\ m.frame \in 1..Frames /\ m.frame = Frame(m.seq) /\ m.frame <= submitted
    <2>1. Numbered(m)
      BY <1>1 DEF Numbered
    <2>2. SentOK(outward[1])
      BY <1>3, <2>1 DEF SInv, OutwardOK
    <2>3. outward[1].seq \in SeqNums /\ outward[1].frame \in 1..Frames
      BY <1>1, <1>3, <2>1, SentType
    <2> QED
      BY <1>1, <1>3, <2>2, <2>3 DEF SentOK
  <1>6. /\ A \in Int /\ settled < A /\ A <= submitted + 1
        /\ A = IF log = <<>> THEN settled + 1 ELSE log[Len(log)] + 1
        /\ \A p \in 0..(Len(inward) + 1) : AckAt(p) >= 0 => Frame(AckAt(p)) < A
    <2>1. A \in Int
      BY <1>4, FrameRange DEF Frame
    <2> QED
      BY <1>1, <2>1 DEF RInv, Expecting
  <1>7. \A s : FrameNext(s) = Frame(s)
    BY <1>1, <1>2 DEF FrameNext, Frame
  <1>8. Offered'
    <2>1. ~Has(outward', "INITIALISE")
      <3>1. NoneBefore(outward, "MESSAGE", "INITIALISE")
        BY DEF HInv, OutwardOrder
      <3> HIDE DEF m
      <3> QED
        BY <1>1, <1>3, <3>1, OutwardTaken
    <2> QED
      BY <2>1 DEF Offered, Has
  <1> HIDE DEF m, A
  \* The answer to be sent is the only acknowledgement that is new.
  <1>9. ASSUME NEW a \in Int, A <= a, respondAcknowledge' \in SeqNums,
               Frame(respondAcknowledge') < a,
               NEW p \in 0..(Len(inward') + 1), AckNext(p) >= 0
        PROVE  FrameNext(AckNext(p)) < a
    <2>1. p \in 0..(Len(inward) + 1)
      BY <1>1, <1>9
    <2>2. p = 0 \/ p \in 1..Len(inward) \/ p = Len(inward) + 1
      BY <1>4, <2>1, Positions
    <2>3. CASE p = Len(inward) + 1
      <3>1. p # 0 /\ p \notin 1..Len(inward)
        BY <1>4, <2>3
      <3>2. AckNext(p) = respondAcknowledge'
        BY <1>1, <3>1 DEF AckNext, AckIn
      <3> QED
        BY <1>7, <1>9, <3>2
    <2>4. CASE p = 0 \/ p \in 1..Len(inward)
      <3>1. AckNext(p) = AckAt(p)
        BY <1>1, <2>4 DEF AckNext, AckAt, AckIn
      <3>2. Frame(AckAt(p)) < A /\ Frame(AckAt(p)) \in Int
        BY <1>6, <1>9, <2>1, <3>1, AckType
      <3>3. Frame(AckAt(p)) < a
        BY <1>6, <1>9, <3>2
      <3> QED
        BY <1>7, <3>1, <3>3
    <2> QED
      BY <2>2, <2>3, <2>4
  <1>10. CASE m.seq = accept
    <2>1. /\ accept' = mod(accept + 1) /\ respondAcknowledge' = accept
          /\ log' = Append(log, m.frame)
      BY <1>10 DEF HandleMessage, Expected, m
    <2>2. m.frame = A /\ A <= submitted
      BY <1>5, <1>10 DEF A
    <2>3. /\ log' \in Seq(1..Frames) /\ Len(log') = Len(log) + 1 /\ log'[Len(log')] = A
          /\ Len(log) \in Nat /\ log' # <<>>
          /\ \A i \in 1..Len(log) : log'[i] = log[i]
      <3>1. log \in Seq(1..Frames) /\ m.frame \in 1..Frames
        BY <1>5 DEF IInv, TypeOK
      <3> QED
        BY <2>1, <2>2, <3>1, AppendProperties, LenProperties
    <2>4. FrameNext(accept') = A + 1
      <3>1. Frame(mod(accept + 1)) = A + 1
        <4>1. FrameFrom(head, settled + 1, accept) + 1 <= settled + 1 + WindowSize
          BY <1>4, <1>6, <2>2 DEF A, Frame
        <4>2. 1 \in 0..Modulus
          BY <1>4
        <4> QED
          BY <1>4, <4>1, <4>2, FrameAfter DEF A, Frame
      <3> QED
        BY <1>7, <2>1, <3>1
    <2>5. ASSUME NEW p \in 0..(Len(inward') + 1), AckNext(p) >= 0
          PROVE  FrameNext(AckNext(p)) < A + 1
      <3>1. A + 1 \in Int /\ A <= A + 1 /\ A < A + 1
        BY <1>6
      <3>2. respondAcknowledge' \in SeqNums /\ Frame(respondAcknowledge') < A + 1
        BY <1>4, <2>1, <3>1 DEF A
      <3> QED
        BY <1>9, <2>5, <3>1, <3>2
    <2>6. settled < A + 1 /\ A + 1 <= submitted + 1
      BY <1>4, <1>6, <2>2
    <2>7. Expecting'
      BY <1>2, <2>3, <2>4, <2>5, <2>6 DEF Expecting, Frame, FrameNext, AckAt, AckNext
    <2>8. InboxInOrder'
      <3>1. ASSUME NEW i \in 1..Len(log)
            PROVE  log'[i + 1] = log'[i] + 1
        <4>1. CASE i = Len(log)
          <5>1. log # <<>> /\ log'[i + 1] = A /\ log'[i] = log[Len(log)]
            BY <2>3, <4>1
          <5>2. log[Len(log)] \in Int
            <6>1. log \in Seq(1..Frames)
              BY DEF IInv, TypeOK
            <6>2. Len(log) \in 1..Len(log)
              BY <3>1, <4>1
            <6>3. log[Len(log)] \in 1..Frames
              BY <6>1, <6>2, ElementOfSeq
            <6> QED
              BY <6>3
          <5> QED
            BY <1>6, <5>1, <5>2
        <4>2. CASE i # Len(log)
          <5>1. i \in 1..(Len(log) - 1) /\ i + 1 \in 1..Len(log)
            BY <2>3, <4>2
          <5>2. log[i + 1] = log[i] + 1
            BY <5>1 DEF RInv, InboxInOrder
          <5> QED
            BY <2>3, <5>1, <5>2
        <4> QED
          BY <4>1, <4>2
      <3>2. Len(log') - 1 = Len(log)
        BY <2>3
      <3> QED
        BY <3>1, <3>2 DEF InboxInOrder
    <2> QED
      BY <1>8, <2>7, <2>8 DEF RInv
  <1>11. CASE m.seq # accept
    <2>1. /\ accept' = accept /\ respondAcknowledge' = LastAccepted /\ log' = log
      BY <1>11 DEF HandleMessage, Expected, m
    <2>2. LastAccepted \in SeqNums
      <3>1. 1 \in SeqNums
        BY <1>4, WindowAssumption DEF SeqNums
      <3> QED
        BY <1>4, <3>1, Distance DEF LastAccepted
    <2>3. Frame(LastAccepted) = A - 1
      <3>1. settled + 1 + WindowSize + 1 - Modulus <= A - 1
        BY <1>4, <1>6 DEF AmpleNumbers
      <3> QED
        BY <1>4, <3>1, FrameBefore DEF LastAccepted, A, Frame
    <2>4. FrameNext(accept') = A
      BY <1>7, <2>1 DEF A
    <2>5. ASSUME NEW p \in 0..(Len(inward') + 1), AckNext(p) >= 0
          PROVE  FrameNext(AckNext(p)) < A
      <3>1. A <= A /\ A - 1 < A
        BY <1>6
      <3>2. respondAcknowledge' \in SeqNums /\ Frame(respondAcknowledge') < A
        BY <2>1, <2>2, <2>3, <3>1
      <3> QED
        BY <1>6, <1>9, <2>5, <3>1, <3>2
    <2>6. Expecting'
      BY <1>2, <1>6, <2>1, <2>4, <2>5 DEF Expecting, Frame, FrameNext, AckAt, AckNext
    <2>7. InboxInOrder'
      BY <2>1 DEF RInv, InboxInOrder
    <2> QED
      BY <1>8, <2>6, <2>7 DEF RInv
  <1> QED
    BY <1>10, <1>11

\* A frame leaves the outward wire without being received.
LEMMA DroppedExpected ==
    ASSUME IInv, IInv', RInv, outward # <<>>, outward' = Tail(outward),
           UNCHANGED <<head, tail, submitted, inward, acknowledged, respondAcknowledge,
                       ready, accept, log>>
    PROVE  RInv'
  <1>1. settled' = settled /\ submitted <= submitted'
    BY SameWindow, Settled
  <1>2. \E f : Shifts(f)
    BY ShiftsInPlace DEF IInv
  <1>3. ASSUME NEW i \in 1..Len(outward')
        PROVE  \E j \in 1..Len(outward) : outward[j] = outward'[i]
    <2>1. /\ Len(outward') \in Nat /\ Len(outward) = Len(outward') + 1
          /\ \A j \in 1..Len(outward') : outward'[j] = outward[j + 1]
      BY OutwardStep
    <2>2. i + 1 \in 1..Len(outward) /\ outward'[i] = outward[i + 1]
      BY <2>1
    <2> QED
      BY <2>2
  <1> QED
    BY <1>1, <1>2, <1>3, StillInOrder

\* Frames other than an offer are put onto the outward wire.
LEMMA SentExpected ==
    ASSUME IInv, IInv', RInv, NEW frames \in Seq(OutwardFrames), Publish(frames),
           \A i \in 1..Len(frames) : frames[i].kind # "INITIALISE"
    PROVE  RInv'
  <1>1. /\ outward' = outward \o frames
        /\ UNCHANGED <<head, tail, submitted, inward, acknowledged, respondAcknowledge,
                       ready, accept, log>>
    BY DEF Publish, feedbackVars, receiverVars, responseVars, historyVars
  <1>2. settled' = settled /\ submitted <= submitted'
    BY <1>1, SameWindow, Settled
  <1>3. \E f : Shifts(f)
    BY <1>1, ShiftsInPlace DEF IInv
  <1>4. ASSUME NEW i \in 1..Len(outward'), outward'[i].kind = "INITIALISE"
        PROVE  \E j \in 1..Len(outward) : outward[j] = outward'[i]
    <2>1. outward \in Seq(OutwardFrames)
      BY DEF IInv, TypeOK
    <2>2. \/ i \in 1..Len(outward) /\ outward'[i] = outward[i]
          \/ i - Len(outward) \in 1..Len(frames) /\ outward'[i] = frames[i - Len(outward)]
      BY <1>1, <2>1
    <2> QED
      BY <1>4, <2>2
  <1> QED
    BY <1>1, <1>2, <1>3, <1>4, StillInOrder

LEMMA PublishExpected ==
    ASSUME IInv, IInv', HInv, RInv, PublishBatch
    PROVE  RInv'
  <1>1. CASE PublishNothing \/ PublishHoldoff
    <2>1. Publish(<<>>)
      BY <1>1 DEF PublishNothing, PublishHoldoff
    <2>2. <<>> \in Seq(OutwardFrames) /\ \A i \in 1..Len(<<>>) : <<>>[i].kind # "INITIALISE"
      OBVIOUS
    <2> QED
      BY <2>1, <2>2, SentExpected
  <1>2. CASE PublishMessages
    <2>1. PICK frames \in Seq(OutwardFrames) :
             /\ Publish(frames)
             /\ \A i \in 1..Len(frames) : \E place \in 0..(window - 1) :
                   frames[i] = Message(mod(head + place), slots[mod(head + place)])
      BY <1>2, BurstInWindow
    <2>2. \A i \in 1..Len(frames) : frames[i].kind # "INITIALISE"
      <3>1. \A s, f : Message(s, f).kind = "MESSAGE"
        BY DEF Message
      <3> QED
        BY <2>1, <3>1
    <2> QED
      BY <2>1, <2>2, SentExpected
  <1>3. CASE PublishPing
    <2>1. Publish(<<Ping>>)
      BY <1>3 DEF PublishPing
    <2>2. <<Ping>> \in Seq(OutwardFrames)
      BY DEF OutwardFrames
    <2>3. \A i \in 1..Len(<<Ping>>) : <<Ping>>[i].kind # "INITIALISE"
      BY DEF Ping
    <2> QED
      BY <2>1, <2>2, <2>3, SentExpected
  <1> QED
    BY <1>1, <1>2, <1>3, OfferExpected DEF PublishBatch

-----------------------------------------------------------------------------
(* The receiver stays in order. *)

LEMMA InitRInv == Init => RInv
  <1> SUFFICES ASSUME Init PROVE RInv
    OBVIOUS
  <1>1. ~ready /\ outward = <<>> /\ log = <<>>
    BY DEF Init
  <1> QED
    BY <1>1 DEF RInv, Expecting, Offered, InboxInOrder

LEMMA NextRInv ==
    AmpleNumbers /\ IInv /\ IInv' /\ SInv /\ HInv /\ RInv /\ [Next]_vars => RInv'
  <1> SUFFICES ASSUME AmpleNumbers, IInv, IInv', SInv, HInv, RInv, [Next]_vars
               PROVE  RInv'
    OBVIOUS
  <1> USE DEF egressVars, feedbackVars, responseVars, receiverVars, historyVars
  <1>0. TypeOK /\ submitted \in Nat
    BY Settled DEF IInv
  \* Steps that leave the outward wire as it is.
  <1>a. ASSUME head' = head, settled' = settled, submitted <= submitted', outward' = outward,
               ready' => ready /\ accept' = accept /\ log' = log, log' \in {log, <<>>},
               \E f : Shifts(f)
        PROVE  RInv'
    BY <1>a, StillInOrder
  \* Steps that leave all of it alone.
  <1>b. ASSUME UNCHANGED <<head, tail, submitted, outward, ready, accept, log, inward>>,
               UNCHANGED <<acknowledged, respondAcknowledge>>
        PROVE  RInv'
    <2>1. settled' = settled /\ submitted <= submitted'
      BY <1>0, <1>b, SameWindow
    <2>2. \E f : Shifts(f)
      BY <1>0, <1>b, ShiftsInPlace
    <2> QED
      BY <1>a, <1>b, <2>1, <2>2
  <1>1. CASE \E count \in 1..BatchCapacity : AcceptBatch(count)
    <2>1. PICK count \in 1..BatchCapacity : AcceptBatch(count)
      BY <1>1
    <2>2. /\ UNCHANGED <<head, outward, ready, accept, log, inward, acknowledged,
                         respondAcknowledge>>
          /\ submitted' = submitted + count
      BY <2>1 DEF AcceptBatch
    <2>3. settled' = settled
      <3>1. window' = window + count
        BY <2>1, AcceptExtendsWindow
      <3>2. count \in Nat /\ window \in Nat
        BY Settled DEF SeqNums
      <3> QED
        BY <1>0, <2>2, <3>1, <3>2 DEF settled
    <2>4. submitted <= submitted'
      BY <1>0, <2>2
    <2>5. \E f : Shifts(f)
      BY <1>0, <2>2, ShiftsInPlace
    <2> QED
      BY <1>a, <2>2, <2>3, <2>4, <2>5
  <1>2. CASE HandlePongs \/ HandleInitialisations \/ HandleUninitialisations
    BY <1>2, <1>b DEF HandlePongs, HandleInitialisations, HandleUninitialisations
  <1>3. CASE Feedback
    <2>1. /\ UNCHANGED <<head, tail, submitted, outward, ready, accept, log, respondAcknowledge>>
          /\ inward # <<>> /\ inward' = Tail(inward)
      BY <1>3 DEF Feedback
    <2>2. acknowledged' \in {acknowledged, AckAt(1)}
      <3>1. 1 \in 1..Len(inward) /\ Head(inward) = inward[1]
        <4>1. inward \in Seq(InwardFrames)
          BY <1>0, InwardLength
        <4>2. Len(inward) \in Nat \ {0}
          BY <2>1, <4>1, EmptySeq
        <4> QED
          BY <4>1, <4>2
      <3>2. acknowledged' = IF inward[1].kind = "ACKNOWLEDGE" THEN inward[1].seq ELSE acknowledged
        BY <1>3, <3>1 DEF Feedback
      <3>3. AckAt(1) = IF inward[1].kind = "ACKNOWLEDGE" THEN inward[1].seq ELSE -1
        BY <3>1 DEF AckAt, AckIn
      <3> QED
        BY <3>2, <3>3
    <2>3. \E f : Shifts(f)
      BY <1>0, <2>1, <2>2, ShiftsForward
    <2>4. settled' = settled /\ submitted <= submitted'
      BY <1>0, <2>1, SameWindow
    <2> QED
      BY <1>a, <2>1, <2>3, <2>4
  <1>4. CASE ProcessPing \/ RejectMessage \/ LoseOutward
    <2>1. /\ UNCHANGED <<head, tail, submitted, inward, acknowledged, respondAcknowledge>>
          /\ UNCHANGED <<ready, accept, log>>
          /\ outward # <<>> /\ outward' = Tail(outward)
      BY <1>4 DEF ProcessPing, RejectMessage, LoseOutward, Consume
    <2> QED
      BY <2>1, DroppedExpected
  <1>5. CASE Respond
    <2>1. UNCHANGED <<head, tail, submitted, outward, ready, accept, log>>
      BY <1>5 DEF Respond
    <2>2. settled' = settled /\ submitted <= submitted'
      BY <1>0, <2>1, SameWindow
    <2>3. \E f : Shifts(f)
      BY <1>0, <1>5, ShiftsOntoWire
    <2> QED
      BY <1>a, <2>1, <2>2, <2>3
  <1>6. CASE ResetReceiver
    <2>1. /\ UNCHANGED <<head, tail, submitted, outward, inward, acknowledged>>
          /\ ready' = FALSE /\ respondAcknowledge' = -1 /\ log' = <<>>
      BY <1>6 DEF ResetReceiver
    <2>2. settled' = settled /\ submitted <= submitted'
      BY <1>0, <2>1, SameWindow
    <2>3. \E f : Shifts(f)
      BY <1>0, <2>1, ShiftsInPlace
    <2> QED
      BY <1>a, <2>1, <2>2, <2>3
  <1>7. CASE LoseInward
    <2>1. /\ UNCHANGED <<head, tail, submitted, outward, ready, accept, log, acknowledged>>
          /\ UNCHANGED respondAcknowledge
          /\ inward # <<>> /\ inward' = Tail(inward)
      BY <1>7 DEF LoseInward
    <2>2. \E f : Shifts(f)
      BY <1>0, <2>1, ShiftsForward
    <2>3. settled' = settled /\ submitted <= submitted'
      BY <1>0, <2>1, SameWindow
    <2> QED
      BY <1>a, <2>1, <2>2, <2>3
  <1>8. CASE UNCHANGED vars
    BY <1>8, <1>b DEF vars
  <1> QED
    BY <1>1, <1>2, <1>3, <1>4, <1>5, <1>6, <1>7, <1>8, AcknowledgementExpected, PublishExpected,
       OfferTaken, MessageExpected DEF Next, Egress, Ingress

\* The invariant of the handshake and of the window together.
TInv == IInv /\ SInv /\ Counting /\ HInv /\ RInv

LEMMA InitTInv == Init => TInv
  BY InitIInv, InitSInv, InitCounting, InitHInv, InitRInv DEF TInv

LEMMA NextTInv == AmpleNumbers /\ EnoughPings /\ TInv /\ [Next]_vars => TInv'
  <1> SUFFICES ASSUME AmpleNumbers, EnoughPings, TInv, [Next]_vars PROVE TInv'
    OBVIOUS
  <1>1. IInv'
    BY NextIInv DEF TInv
  <1>2. SInv'
    BY <1>1, NextSInv DEF TInv
  <1>3. Counting'
    BY NextCounting DEF TInv
  <1>4. HInv'
    BY <1>1, NextHInv DEF TInv
  <1>5. RInv'
    BY <1>1, NextRInv DEF TInv
  <1> QED
    BY <1>1, <1>2, <1>3, <1>4, <1>5 DEF TInv

\* A frame of the window, or the one after it, has its number there.
LEMMA ExpectedInWindow == IInv /\ Expecting => ReceiverInWindow
  <1> SUFFICES ASSUME IInv, Expecting, ready PROVE mod(accept - head) <= window
    BY DEF ReceiverInWindow
  <1> DEFINE d == mod(accept - head)
  <1>1. /\ settled \in Nat /\ submitted = settled + window /\ window \in Nat
        /\ head \in SeqNums /\ accept \in SeqNums /\ Modulus \in Nat
    BY Settled DEF IInv, TypeOK, SeqNums
  <1>2. d \in Nat /\ d < Modulus
    <2>1. d \in SeqNums
      BY <1>1, Distance
    <2> HIDE DEF d
    <2> QED
      BY <1>1, <2>1 DEF SeqNums
  <1>3. settled < Frame(accept) /\ Frame(accept) <= submitted + 1
    BY DEF Expecting
  <1>4. Frame(accept) = IF d <= WindowSize THEN settled + 1 + d ELSE settled + 1 + d - Modulus
    BY DEF Frame, FrameFrom
  <1> HIDE DEF d
  <1>5. d <= window
    BY <1>1, <1>2, <1>3, <1>4
  <1> QED
    BY <1>5 DEF d

\* A receiver that is ready expects a number of the sender's window or the one after it,
\* however many resets and losses there were: a message that it has already taken is never
\* taken again, and one that it lacks is never acknowledged.
THEOREM ReceiverStaysInWindow ==
    ASSUME AmpleNumbers, EnoughPings
    PROVE  Spec => []ReceiverInWindow
  <1>1. TInv /\ [Next]_vars => TInv'
    BY NextTInv
  <1>2. TInv => ReceiverInWindow
    BY ExpectedInWindow DEF TInv, RInv
  <1> QED
    BY InitTInv, <1>1, <1>2, PTL DEF Spec

\* Within an incarnation the receiver's inbox gets consecutive frames, none twice, although
\* sequence numbers wrap and messages are retransmitted.
THEOREM InboxStaysInOrder ==
    ASSUME AmpleNumbers, EnoughPings
    PROVE  Spec => []InboxInOrder
  <1>1. TInv /\ [Next]_vars => TInv'
    BY NextTInv
  <1>2. TInv => InboxInOrder
    BY DEF TInv, RInv
  <1> QED
    BY InitTInv, <1>1, <1>2, PTL DEF Spec

-----------------------------------------------------------------------------
(* The refinement. *)

\* Nothing is settled, received or submitted in a step that leaves these alone.
LEMMA Stutters ==
    ASSUME UNCHANGED <<head, tail, submitted, log, got>>
    PROVE  UNCHANGED Transport!vars
  BY SameWindow DEF Transport!vars, settled

\* A batch is submitted: it fits into the window.
LEMMA BatchSubmits ==
    ASSUME IInv, IInv', NEW count \in 1..BatchCapacity, AcceptBatch(count)
    PROVE  Transport!Submit
  <1>1. submitted' = submitted + count /\ submitted + count <= Frames /\ UNCHANGED <<log, got>>
    BY DEF AcceptBatch
  <1>2. /\ settled \in Nat /\ submitted \in Nat /\ window \in Nat /\ submitted = settled + window
        /\ count \in Nat /\ count >= 1 /\ WindowSize \in Nat /\ Frames \in Nat
    BY Settled, BoundAssumption DEF SeqNums
  <1>3. window' = window + count /\ count <= WindowSize - window
    BY AcceptExtendsWindow
  <1>4. settled' = settled
    BY <1>1, <1>2, <1>3 DEF settled
  <1> DEFINE n == submitted + count
  <1>5. n \in submitted + 1 .. Frames /\ n - settled <= WindowSize
    BY <1>1, <1>2, <1>3
  <1>6. submitted' = n /\ log' = log /\ got' = got
    BY <1>1
  <1> HIDE DEF n
  <1>7. /\ n - (submitted - window) <= WindowSize
        /\ submitted' - window' = submitted - window
    BY <1>4, <1>5 DEF settled
  <1> QED
    BY <1>5, <1>6, <1>7 DEF Transport!Submit

\* The message that is taken carries the next frame.
LEMMA MessageDelivers ==
    ASSUME AmpleNumbers, IInv, IInv', SInv, RInv, HandleMessage
    PROVE  Transport!Deliver \/ UNCHANGED Transport!vars
  <1> DEFINE m == Head(outward)
  <1>1. /\ outward # <<>> /\ outward' = Tail(outward) /\ m.kind = "MESSAGE" /\ ready
        /\ UNCHANGED <<head, tail, submitted>>
    BY DEF HandleMessage, Consume, MayHandle, egressVars
  <1>2. m = outward[1] /\ 1 \in 1..Len(outward)
    BY <1>1, OutwardStep
  <1>3. m.frame = Frame(m.seq) /\ m.frame <= submitted
    <2>1. Numbered(m)
      BY <1>1 DEF Numbered
    <2>2. SentOK(outward[1])
      BY <1>2, <2>1 DEF SInv, OutwardOK
    <2> QED
      BY <1>1, <1>2, <2>2 DEF SentOK
  <1> HIDE DEF m
  <1>4. CASE m.seq = accept
    <2>1. log' = Append(log, m.frame) /\ got' = got \cup {m.frame}
      BY <1>4 DEF HandleMessage, Expected, m
    <2>2. m.frame = IF log = <<>> THEN settled + 1 ELSE log[Len(log)] + 1
      BY <1>1, <1>3, <1>4 DEF RInv, Expecting
    <2>3. Transport!NextFrame = m.frame
      BY <2>2 DEF Transport!NextFrame, settled
    <2>4. settled' = settled
      BY <1>1, SameWindow
    <2> QED
      BY <1>1, <1>3, <2>1, <2>3, <2>4 DEF Transport!Deliver, settled
  <1>5. CASE m.seq # accept
    <2>1. UNCHANGED <<log, got>>
      BY <1>5 DEF HandleMessage, Expected, m
    <2> QED
      BY <1>1, <2>1, Stutters
  <1> QED
    BY <1>4, <1>5

\* What an acknowledgement settles was received.
LEMMA AcknowledgementSettles ==
    ASSUME IInv, IInv', SInv, HandleAcknowledgement
    PROVE  Transport!Settle \/ UNCHANGED Transport!vars
  <1>1. UNCHANGED <<tail, submitted, log, got>>
    BY DEF HandleAcknowledgement, historyVars
  <1>2. CASE ~InWindow(acknowledged)
    <2>1. head' = head
      BY <1>2 DEF HandleAcknowledgement
    <2> QED
      BY <1>1, <2>1, Stutters
  <1>3. CASE InWindow(acknowledged)
    <2>1. /\ acknowledged \in SeqNums /\ Frame(acknowledged) = settled'
          /\ settled' \in Nat /\ settled' <= submitted
      BY <1>3, Acknowledged
    <2>2. PICK k \in 1..WindowSize : settled' = settled + k
      BY <1>3, Acknowledged
    <2>3. settled \in Nat /\ submitted \in Nat
      BY Settled
    <2>4. 1..settled' \subseteq got
      <3>1. acknowledged >= 0
        BY <2>1 DEF SeqNums
      <3>2. AckAt(0) = acknowledged
        BY DEF AckAt, AckIn
      <3>3. Len(inward) \in Nat
        BY InwardLength DEF IInv
      <3>4. 0 \in 0..(Len(inward) + 1)
        BY <3>3
      <3> QED
        BY <2>1, <3>1, <3>2, <3>4 DEF SInv, AcksOK, AckOK
    <2>5. settled' \in settled + 1 .. submitted
      BY <2>1, <2>2, <2>3
    <2>6. settled + 1 .. settled' \subseteq got
      BY <2>1, <2>3, <2>4
    <2> QED
      BY <1>1, <2>5, <2>6 DEF Transport!Settle, settled
  <1> QED
    BY <1>2, <1>3

LEMMA StepImplements ==
    AmpleNumbers /\ TInv /\ TInv' /\ [Next]_vars => [Transport!Next]_(Transport!vars)
  <1> SUFFICES ASSUME AmpleNumbers, TInv, TInv', [Next]_vars
               PROVE  Transport!Next \/ UNCHANGED Transport!vars
    OBVIOUS
  <1> USE DEF egressVars, feedbackVars, responseVars, receiverVars, historyVars
  <1>0. IInv /\ IInv' /\ SInv /\ RInv
    BY DEF TInv
  <1>1. CASE \E count \in 1..BatchCapacity : AcceptBatch(count)
    BY <1>0, <1>1, BatchSubmits DEF Transport!Next
  <1>2. CASE HandleMessage
    BY <1>0, <1>2, MessageDelivers DEF Transport!Next
  <1>3. CASE HandleAcknowledgement
    BY <1>0, <1>3, AcknowledgementSettles DEF Transport!Next
  <1>4. CASE ResetReceiver
    <2>1. UNCHANGED <<head, tail, submitted, got>> /\ log' = <<>>
      BY <1>4 DEF ResetReceiver
    <2>2. settled' = settled
      BY <2>1, SameWindow
    <2> QED
      BY <2>1, <2>2 DEF Transport!Next, Transport!Reset, settled
  <1>5. CASE HandlePongs \/ HandleInitialisations \/ HandleUninitialisations
    BY <1>5, Stutters DEF HandlePongs, HandleInitialisations, HandleUninitialisations
  <1>6. CASE PublishBatch
    <2>1. \E frames : Publish(frames)
      BY <1>6 DEF PublishBatch, PublishNothing, PublishHoldoff, PublishMessages, PublishPing,
                  PublishInitialise
    <2> QED
      BY <2>1, Stutters DEF Publish
  <1>7. CASE Feedback \/ Respond \/ LoseOutward \/ LoseInward
    BY <1>7, Stutters DEF Feedback, Respond, LoseOutward, LoseInward
  <1>8. CASE ProcessPing \/ HandleInitialise \/ RejectMessage
    BY <1>8, Stutters DEF ProcessPing, HandleInitialise, RejectMessage, Consume
  <1>9. CASE UNCHANGED vars
    BY <1>9, Stutters DEF vars
  <1> QED
    BY <1>1, <1>2, <1>3, <1>4, <1>5, <1>6, <1>7, <1>8, <1>9 DEF Next, Egress, Ingress

\* The sliding window with its handshake implements reliable transport: frames reach each
\* incarnation of the receiver in the order of submission from the first unsettled one on,
\* without gaps or duplicates, and are settled only after they were received.
THEOREM LinkImplementsTransport ==
    ASSUME AmpleNumbers, EnoughPings
    PROVE  Spec => ImplementsTransport
  <1>1. Init => Transport!Init
    <2> SUFFICES ASSUME Init PROVE Transport!Init
      OBVIOUS
    <2>1. submitted = 0 /\ log = <<>> /\ got = {} /\ head = 0 /\ tail = 0 /\ 0 \in SeqNums
      BY WindowAssumption DEF Init, SeqNums
    <2>2. mod(tail - head) = IF tail >= head THEN tail - head ELSE tail - head + Modulus
      BY <2>1, Distance
    <2>3. submitted - window = 0
      BY <2>1, <2>2 DEF window
    <2> QED
      BY <2>1, <2>3 DEF Transport!Init
  <1>2. TInv /\ [Next]_vars => TInv'
    BY NextTInv
  <1>3. TInv /\ TInv' /\ [Next]_vars => [Transport!Next]_(Transport!vars)
    BY StepImplements
  <1> QED
    BY InitTInv, <1>1, <1>2, <1>3, PTL DEF Spec, ImplementsTransport, Transport!Spec
=============================================================================
