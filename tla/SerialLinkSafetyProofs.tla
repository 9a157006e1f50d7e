----------------------- MODULE SerialLinkSafetyProofs -----------------------
(***************************************************************************)
(* The sender retires a frame only after a receiver put it in its inbox,   *)
(* for any number of resets and losses.                                    *)
(*                                                                         *)
(* A sequence number under way stands for one frame, although it is used   *)
(* again and again: the frame nearest to the window that has this number.  *)
(* The invariant says how old what is under way can be, and with sequence  *)
(* numbers for two windows the nearest frame is the right one.             *)
(***************************************************************************)
EXTENDS SerialLinkProofs

\* Sequence numbers for a little more than two windows: 256 for two of 16.
AmpleNumbers == 2 * WindowSize + 2 <= Modulus

settled == submitted - window

\* The frame that a number stands for, when h is the number of frame f and frames are
\* looked for up to a window ahead of it.
FrameFrom(h, f, s) ==
    LET ahead == mod(s - h) IN IF ahead <= WindowSize THEN f + ahead ELSE f + ahead - Modulus

Frame(s) == FrameFrom(head, settled + 1, s)

\* Nothing was retired or received that is a window or more ahead of f.
Recent(f) == settled < f + WindowSize /\ \A g \in got : g < f + WindowSize

GotOK == got \subseteq 1..submitted /\ 1..settled \subseteq got

-----------------------------------------------------------------------------
(* What is under way. *)

Numbered(m) == m.kind \in {"MESSAGE", "INITIALISE"}

SentOK(m) ==
    /\ Recent(Frame(m.seq))
    /\ m.kind = "MESSAGE" => m.frame = Frame(m.seq) /\ m.frame <= submitted
    /\ m.kind = "INITIALISE" => /\ Frame(m.seq) <= settled + 1
                                /\ 1..(Frame(m.seq) - 1) \subseteq got

\* A frame on the wire is less than a window ahead of any that was sent later.
OutwardOK ==
    /\ \A i \in 1..Len(outward) : Numbered(outward[i]) => SentOK(outward[i])
    /\ \A i, j \in 1..Len(outward) :
          i < j /\ Numbered(outward[i]) /\ Numbered(outward[j])
             => Frame(outward[i].seq) < Frame(outward[j].seq) + WindowSize

ReceiverOK ==
    ready => /\ Recent(Frame(accept))
             /\ 1..(Frame(accept) - 1) \subseteq got

\* The acknowledgements under way in the order in which they will be handled: at 0 the
\* one in the atomic, then the inward wire, then the one to be sent; -1 if there is none.
AckIn(a, w, r, p) ==
    IF p = 0 THEN a
    ELSE IF p \in 1..Len(w) THEN (IF w[p].kind = "ACKNOWLEDGE" THEN w[p].seq ELSE -1)
    ELSE r

AckAt(p) == AckIn(acknowledged, inward, respondAcknowledge, p)

AckOK(s) == settled <= Frame(s) + WindowSize /\ 1..Frame(s) \subseteq got

AcksOK ==
    /\ \A p \in 0..(Len(inward) + 1) : AckAt(p) >= 0 => AckOK(AckAt(p))
    /\ \A p, q \in 0..(Len(inward) + 1) :
          p < q /\ AckAt(p) >= 0 /\ AckAt(q) >= 0
             => Frame(AckAt(p)) <= Frame(AckAt(q)) + WindowSize

SInv == GotOK /\ OutwardOK /\ ReceiverOK /\ AcksOK

-----------------------------------------------------------------------------
(* Numbers and frames. *)

\* What the invariant of the window says of the frames in it.
LEMMA Settled ==
    ASSUME IInv
    PROVE  /\ settled \in Nat /\ submitted \in Nat /\ window \in SeqNums
           /\ submitted = settled + window /\ window <= WindowSize
           /\ head \in SeqNums /\ WindowSize \in Nat /\ Modulus \in Nat
  <1>1. window \in SeqNums
    BY WindowType DEF IInv
  <1>2. submitted \in 0..Frames /\ head \in SeqNums /\ window <= submitted /\ window <= WindowSize
    BY DEF IInv, TypeOK, WindowIntact
  <1> QED
    BY <1>1, <1>2, WindowAssumption, BoundAssumption DEF settled, SeqNums

LEMMA Difference ==
    ASSUME NEW a \in Nat, NEW b \in Nat, b <= a
    PROVE  a - b \in Nat /\ a = (a - b) + b
  OBVIOUS

\* The same of the state after a step.
LEMMA SettledNext ==
    ASSUME IInv'
    PROVE  /\ settled' \in Nat /\ submitted' \in Nat /\ window' \in SeqNums
           /\ submitted' = settled' + window' /\ window' <= WindowSize
           /\ head' \in SeqNums
  <1>1. /\ submitted' \in 0..Frames /\ head' \in SeqNums /\ tail' \in SeqNums
        /\ window' <= submitted' /\ window' <= WindowSize
    BY DEF IInv, TypeOK, WindowIntact
  <1>2. window' \in SeqNums
    BY <1>1, Distance DEF window
  <1>3. settled' = submitted' - window'
    BY DEF settled
  <1>4. submitted' \in Nat /\ window' \in Nat
    BY <1>1, <1>2, WindowAssumption, BoundAssumption DEF SeqNums
  <1>5. settled' \in Nat /\ submitted' = settled' + window'
    BY <1>1, <1>3, <1>4, Difference
  <1> QED
    BY <1>1, <1>2, <1>4, <1>5

\* A number stands for a frame not far from h's.
LEMMA FrameRange ==
    ASSUME NEW h \in SeqNums, NEW f \in Int, NEW s \in SeqNums
    PROVE  /\ FrameFrom(h, f, s) \in Int
           /\ f + WindowSize + 1 - Modulus <= FrameFrom(h, f, s)
           /\ FrameFrom(h, f, s) <= f + WindowSize
           /\ \/ s - h = FrameFrom(h, f, s) - f
              \/ s - h = FrameFrom(h, f, s) - f + Modulus
              \/ s - h = FrameFrom(h, f, s) - f - Modulus
  <1> DEFINE d == mod(s - h)
  <1>1. d \in SeqNums /\ d = IF s >= h THEN s - h ELSE s - h + Modulus
    BY Distance
  <1>2. FrameFrom(h, f, s) = IF d <= WindowSize THEN f + d ELSE f + d - Modulus
    BY DEF FrameFrom
  <1> HIDE DEF d
  <1> QED
    BY <1>1, <1>2, WindowAssumption DEF SeqNums

\* And for the only one that is not far.
LEMMA FrameUnique ==
    ASSUME NEW h \in SeqNums, NEW f \in Int, NEW s \in SeqNums, NEW g \in Int,
           f + WindowSize + 1 - Modulus <= g, g <= f + WindowSize,
           \/ s - h = g - f
           \/ s - h = g - f + Modulus
           \/ s - h = g - f - Modulus
    PROVE  FrameFrom(h, f, s) = g
  <1> DEFINE d == mod(s - h)
  <1>1. d \in SeqNums /\ d = IF s >= h THEN s - h ELSE s - h + Modulus
    BY Distance
  <1>2. FrameFrom(h, f, s) = IF d <= WindowSize THEN f + d ELSE f + d - Modulus
    BY DEF FrameFrom
  <1> HIDE DEF d
  <1> QED
    BY <1>1, <1>2, WindowAssumption DEF SeqNums

\* The number of the frame n places after that of s.
LEMMA FrameAfter ==
    ASSUME NEW h \in SeqNums, NEW f \in Int, NEW s \in SeqNums, NEW n \in 0..Modulus,
           FrameFrom(h, f, s) + n <= f + WindowSize
    PROVE  FrameFrom(h, f, mod(s + n)) = FrameFrom(h, f, s) + n
  <1> DEFINE t == mod(s + n)
  <1>1. t \in SeqNums /\ t = IF s + n < Modulus THEN s + n ELSE s + n - Modulus
    BY Advance
  <1> HIDE DEF t
  <1> DEFINE g == FrameFrom(h, f, s)
  <1>2. /\ g \in Int /\ f + WindowSize + 1 - Modulus <= g
        /\ s - h = g - f \/ s - h = g - f + Modulus \/ s - h = g - f - Modulus
    BY FrameRange
  <1>3. g + n <= f + WindowSize
    OBVIOUS
  <1> HIDE DEF g
  <1>4. \/ t - h = (g + n) - f
        \/ t - h = (g + n) - f + Modulus
        \/ t - h = (g + n) - f - Modulus
    BY <1>1, <1>2, <1>3, WindowAssumption DEF SeqNums
  <1>5. g + n \in Int /\ f + WindowSize + 1 - Modulus <= g + n
    BY <1>2, WindowAssumption
  <1> DEFINE later == g + n
  <1>6. FrameFrom(h, f, t) = later
    <2>1. /\ later \in Int /\ later <= f + WindowSize /\ f + WindowSize + 1 - Modulus <= later
          /\ \/ t - h = later - f
             \/ t - h = later - f + Modulus
             \/ t - h = later - f - Modulus
      BY <1>3, <1>4, <1>5
    <2> HIDE DEF later
    <2> QED
      BY <1>1, <2>1, FrameUnique
  <1> QED
    BY <1>6 DEF t, g, later

\* And that of the frame before it.
LEMMA FrameBefore ==
    ASSUME NEW h \in SeqNums, NEW f \in Int, NEW s \in SeqNums,
           f + WindowSize + 1 - Modulus <= FrameFrom(h, f, s) - 1
    PROVE  FrameFrom(h, f, mod(s - 1)) = FrameFrom(h, f, s) - 1
  <1> DEFINE t == mod(s - 1)
  <1>1. t \in SeqNums /\ t = IF s >= 1 THEN s - 1 ELSE s - 1 + Modulus
    <2>1. 1 \in SeqNums
      BY WindowAssumption DEF SeqNums
    <2> QED
      BY <2>1, Distance
  <1> HIDE DEF t
  <1> DEFINE g == FrameFrom(h, f, s)
  <1>2. /\ g \in Int /\ g <= f + WindowSize
        /\ s - h = g - f \/ s - h = g - f + Modulus \/ s - h = g - f - Modulus
    BY FrameRange
  <1>3. f + WindowSize + 1 - Modulus <= g - 1
    OBVIOUS
  <1> HIDE DEF g
  <1>4. s \in Int /\ t \in Int /\ h \in Int /\ s - h < Modulus /\ h - s < Modulus
        /\ t - h < Modulus /\ h - t < Modulus
        /\ Modulus \in Nat /\ WindowSize \in Nat /\ WindowSize < Modulus
    BY <1>1, WindowAssumption DEF SeqNums
  <1>5. \/ t - h = (g - 1) - f
        \/ t - h = (g - 1) - f + Modulus
        \/ t - h = (g - 1) - f - Modulus
    <2>1. t = s - 1 \/ t = s - 1 + Modulus
      BY <1>1
    <2>2. CASE s - h = g - f
      BY <1>2, <1>3, <1>4, <2>1, <2>2
    <2>3. CASE s - h = g - f + Modulus
      BY <1>2, <1>3, <1>4, <2>1, <2>3
    <2>4. CASE s - h = g - f - Modulus
      BY <1>2, <1>3, <1>4, <2>1, <2>4
    <2> QED
      BY <1>2, <2>2, <2>3, <2>4
  <1>6. g - 1 \in Int /\ g - 1 <= f + WindowSize
    BY <1>2, <1>4
  <1>7. FrameFrom(h, f, t) = g - 1
    BY <1>1, <1>3, <1>5, <1>6, FrameUnique
  <1> QED
    BY <1>7 DEF t, g

\* The frame that a number stands for after the step.
FrameNext(s) == FrameFrom(head', settled' + 1, s)

\* As the window moves on, a number stands for the same frame as long as that frame is
\* no more than a window behind.
LEMMA FrameKept ==
    ASSUME AmpleNumbers, IInv, IInv', NEW k \in 0..WindowSize, NEW s \in SeqNums,
           head' = mod(head + k), settled' = settled + k,
           settled' <= Frame(s) + WindowSize
    PROVE  FrameNext(s) = Frame(s)
  <1>1. /\ settled \in Nat /\ head \in SeqNums /\ head' \in SeqNums
        /\ WindowSize \in Nat /\ Modulus \in Nat /\ WindowSize < Modulus
    BY Settled, WindowAssumption DEF IInv, TypeOK
  <1>2. head' = IF head + k < Modulus THEN head + k ELSE head + k - Modulus
    BY <1>1, Advance
  <1> DEFINE F == Frame(s)
  <1>3. /\ F \in Int
        /\ settled + 1 + WindowSize + 1 - Modulus <= F /\ F <= settled + 1 + WindowSize
        /\ \/ s - head = F - (settled + 1)
           \/ s - head = F - (settled + 1) + Modulus
           \/ s - head = F - (settled + 1) - Modulus
    BY <1>1, FrameRange DEF Frame
  <1>4. settled' <= F + WindowSize
    OBVIOUS
  <1> HIDE DEF F
  <1> DEFINE f == settled' + 1
  <1>5. f \in Int /\ f + WindowSize + 1 - Modulus <= F /\ F <= f + WindowSize
    BY <1>1, <1>3, <1>4 DEF AmpleNumbers
  <1>6. \/ s - head' = F - f
        \/ s - head' = F - f + Modulus
        \/ s - head' = F - f - Modulus
    BY <1>1, <1>2, <1>3, <1>5 DEF SeqNums
  <1>7. FrameFrom(head', f, s) = F
    <2> HIDE DEF f
    <2> QED
      BY <1>1, <1>3, <1>5, <1>6, FrameUnique
  <1> QED
    BY <1>7 DEF FrameNext, F

-----------------------------------------------------------------------------
(* What the wires and the answers carry is well typed. *)

LEMMA SentType ==
    ASSUME IInv, NEW i \in 1..Len(outward), Numbered(outward[i])
    PROVE  /\ outward[i].seq \in SeqNums /\ Frame(outward[i].seq) \in Int
           /\ Frame(outward[i].seq) <= settled + 1 + WindowSize
           /\ outward[i].kind = "MESSAGE" => outward[i].frame \in 1..Frames
  <1>1. outward[i] \in OutwardFrames
    BY DEF IInv, TypeOK
  <1>2. /\ outward[i].seq \in SeqNums
        /\ outward[i].kind = "MESSAGE" => outward[i].frame \in 1..Frames
    BY <1>1 DEF OutwardFrames, Ping, Initialise, Message, Numbered
  <1>3. settled + 1 \in Int /\ head \in SeqNums
    BY Settled
  <1> QED
    BY <1>2, <1>3, FrameRange DEF Frame

LEMMA AckType ==
    ASSUME IInv, NEW p \in 0..(Len(inward) + 1)
    PROVE  /\ AckAt(p) \in SeqNums \cup {-1}
           /\ AckAt(p) >= 0 => AckAt(p) \in SeqNums /\ Frame(AckAt(p)) \in Int
  <1>1. AckAt(p) \in SeqNums \cup {-1}
    <2>1. /\ acknowledged \in SeqNums \cup {-1} /\ respondAcknowledge \in SeqNums \cup {-1}
          /\ inward \in Seq(InwardFrames)
      BY DEF IInv, TypeOK
    <2>2. ASSUME p \in 1..Len(inward), inward[p].kind = "ACKNOWLEDGE"
          PROVE  inward[p].seq \in SeqNums
      <3>1. inward[p] \in InwardFrames
        BY <2>1, <2>2
      <3> QED
        BY <2>2, <3>1 DEF InwardFrames, Pong, Initialised, Uninitialised, Acknowledge
    <2> QED
      BY <2>1, <2>2 DEF AckAt, AckIn
  <1>2. settled + 1 \in Int /\ head \in SeqNums
    BY Settled
  <1> QED
    BY <1>1, <1>2, FrameRange DEF Frame

-----------------------------------------------------------------------------
(* Steps that move what is under way. *)

\* Frames that stay on the wire, and are still less than a window old, stay good.
LEMMA OutwardMoved ==
    ASSUME IInv, IInv', OutwardOK, NEW k \in 0..1,
           Len(outward') + k = Len(outward),
           \A i \in 1..Len(outward') : outward'[i] = outward[i + k],
           got \subseteq got', submitted <= submitted', settled <= settled',
           \A i \in 1..Len(outward') : Numbered(outward'[i]) =>
              /\ FrameNext(outward'[i].seq) = Frame(outward'[i].seq)
              /\ settled' < Frame(outward'[i].seq) + WindowSize
              /\ \A g \in got' : g < Frame(outward'[i].seq) + WindowSize
    PROVE  OutwardOK'
  <1>1. /\ settled \in Nat /\ settled' \in Nat /\ submitted \in Nat /\ submitted' \in Nat
    BY Settled, SettledNext
  <1>2. Len(outward) \in Nat /\ Len(outward') \in Nat
    <2>1. outward \in Seq(OutwardFrames) /\ outward' \in Seq(OutwardFrames)
      BY DEF IInv, TypeOK
    <2> QED
      BY <2>1, LenProperties
  <1>3. ASSUME NEW i \in 1..Len(outward')
        PROVE  i + k \in 1..Len(outward) /\ outward'[i] = outward[i + k]
    BY <1>2
  <1>4. ASSUME NEW i \in 1..Len(outward'), Numbered(outward'[i])
        PROVE  /\ settled' < FrameNext(outward'[i].seq) + WindowSize
               /\ \A g \in got' : g < FrameNext(outward'[i].seq) + WindowSize
               /\ outward'[i].kind = "MESSAGE" =>
                     outward'[i].frame = FrameNext(outward'[i].seq) /\ outward'[i].frame <= submitted'
               /\ outward'[i].kind = "INITIALISE" =>
                     /\ FrameNext(outward'[i].seq) <= settled' + 1
                     /\ 1..(FrameNext(outward'[i].seq) - 1) \subseteq got'
    <2> DEFINE m == outward'[i]
    <2>1. /\ m = outward[i + k] /\ i + k \in 1..Len(outward)
          /\ FrameNext(m.seq) = Frame(m.seq)
          /\ settled' < Frame(m.seq) + WindowSize
          /\ \A g \in got' : g < Frame(m.seq) + WindowSize
      BY <1>3, <1>4
    <2>2. Numbered(m)
      BY <1>4
    <2> HIDE DEF m
    <2>3. SentOK(m) /\ Frame(m.seq) \in Int /\ (m.kind = "MESSAGE" => m.frame \in 1..Frames)
      BY <2>1, <2>2, SentType DEF OutwardOK
    <2>4. /\ m.kind = "MESSAGE" => m.frame = Frame(m.seq) /\ m.frame <= submitted'
          /\ m.kind = "INITIALISE" => /\ Frame(m.seq) <= settled' + 1
                                      /\ 1..(Frame(m.seq) - 1) \subseteq got'
      BY <1>1, <2>3 DEF SentOK
    <2> QED
      BY <2>1, <2>4 DEF m
  <1>5. ASSUME NEW i \in 1..Len(outward'), NEW j \in 1..Len(outward'), i < j,
               Numbered(outward'[i]), Numbered(outward'[j])
        PROVE  FrameNext(outward'[i].seq) < FrameNext(outward'[j].seq) + WindowSize
    <2>1. /\ i + k < j + k /\ i + k \in 1..Len(outward) /\ j + k \in 1..Len(outward)
          /\ outward'[i] = outward[i + k] /\ outward'[j] = outward[j + k]
      BY <1>3, <1>5
    <2>2. Frame(outward'[i].seq) < Frame(outward'[j].seq) + WindowSize
      BY <1>5, <2>1 DEF OutwardOK
    <2> QED
      BY <1>5, <2>2
  <1> QED
    BY <1>4, <1>5 DEF OutwardOK, SentOK, Recent, Frame, FrameNext

\* The acknowledgements under way after the step.
AckNext(p) == AckIn(acknowledged', inward', respondAcknowledge', p)

\* Acknowledgements under way may vanish or move closer, but stay in their order.
Shifts(f) ==
    /\ f \in [0..(Len(inward') + 1) -> 0..(Len(inward) + 1)]
    /\ \A p \in 0..(Len(inward') + 1) : AckNext(p) \in {-1, AckAt(f[p])}
    /\ \A p, q \in 0..(Len(inward') + 1) :
          p < q /\ AckNext(p) >= 0 /\ AckNext(q) >= 0 => f[p] < f[q]

LEMMA AcksMoved ==
    ASSUME IInv, IInv', AcksOK, NEW f, Shifts(f), got \subseteq got',
           \A p \in 0..(Len(inward') + 1) : AckNext(p) >= 0 =>
              /\ FrameNext(AckNext(p)) = Frame(AckNext(p))
              /\ settled' <= Frame(AckNext(p)) + WindowSize
    PROVE  AcksOK'
  <1> DEFINE P == 0..(Len(inward') + 1)
  <1>1. ASSUME NEW p \in P, AckNext(p) >= 0
        PROVE  /\ f[p] \in 0..(Len(inward) + 1) /\ AckNext(p) = AckAt(f[p])
               /\ 1..Frame(AckNext(p)) \subseteq got'
    <2>1. f[p] \in 0..(Len(inward) + 1) /\ AckNext(p) \in {-1, AckAt(f[p])}
      BY DEF Shifts
    <2>2. AckNext(p) = AckAt(f[p])
      BY <1>1, <2>1
    <2>3. 1..Frame(AckAt(f[p])) \subseteq got
      BY <1>1, <2>1, <2>2 DEF AcksOK, AckOK
    <2> QED
      BY <2>1, <2>2, <2>3
  <1>2. ASSUME NEW p \in P, NEW q \in P, p < q, AckNext(p) >= 0, AckNext(q) >= 0
        PROVE  FrameNext(AckNext(p)) <= FrameNext(AckNext(q)) + WindowSize
    <2>1. f[p] < f[q]
      BY <1>2 DEF Shifts
    <2>2. Frame(AckNext(p)) <= Frame(AckNext(q)) + WindowSize
      BY <1>1, <1>2, <2>1 DEF AcksOK
    <2> QED
      BY <1>2, <2>2
  <1>3. \A p \in P : AckNext(p) >= 0 =>
           settled' <= FrameNext(AckNext(p)) + WindowSize /\ 1..FrameNext(AckNext(p)) \subseteq got'
    BY <1>1
  <1> QED
    BY <1>2, <1>3 DEF AcksOK, AckOK, AckAt, AckNext, Frame, FrameNext

\* Steps that add nothing to what is under way and receive nothing: what they leave must
\* not be older than a window, which only the step that moves the window has to show.
LEMMA Kept ==
    ASSUME AmpleNumbers, IInv, IInv', SInv,
           NEW k \in 0..WindowSize, head' = mod(head + k), settled' = settled + k,
           submitted <= submitted', got' = got, 1..settled' \subseteq got,
           NEW d \in 0..1, Len(outward') + d = Len(outward),
           \A i \in 1..Len(outward') : outward'[i] = outward[i + d],
           \A i \in 1..Len(outward') : Numbered(outward'[i]) =>
              settled' < Frame(outward'[i].seq) + WindowSize,
           ready' => /\ settled' < Frame(accept') + WindowSize
                     /\ \A g \in got : g < Frame(accept') + WindowSize
                     /\ 1..(Frame(accept') - 1) \subseteq got,
           NEW f, Shifts(f),
           \A p \in 0..(Len(inward') + 1) : AckNext(p) >= 0 =>
              settled' <= Frame(AckNext(p)) + WindowSize
    PROVE  SInv'
  <1>1. /\ settled \in Nat /\ settled' \in Nat /\ submitted \in Nat /\ submitted' \in Nat
        /\ head \in SeqNums /\ WindowSize \in Nat
    BY Settled, SettledNext
  <1>2. ASSUME NEW s \in SeqNums, settled' <= Frame(s) + WindowSize
        PROVE  FrameNext(s) = Frame(s)
    BY <1>2, FrameKept
  <1>3. GotOK'
    BY <1>1 DEF SInv, GotOK
  <1>4. OutwardOK'
    <2>1. ASSUME NEW i \in 1..Len(outward'), Numbered(outward'[i])
          PROVE  /\ FrameNext(outward'[i].seq) = Frame(outward'[i].seq)
                 /\ \A g \in got' : g < Frame(outward'[i].seq) + WindowSize
      <3>1. outward'[i] = outward[i + d] /\ i + d \in 1..Len(outward)
        <4>1. outward \in Seq(OutwardFrames) /\ outward' \in Seq(OutwardFrames)
          BY DEF IInv, TypeOK
        <4>2. Len(outward) \in Nat /\ Len(outward') \in Nat
          BY <4>1, LenProperties
        <4> QED
          BY <4>2
      <3> DEFINE m == outward[i + d]
      <3>2. /\ m.seq \in SeqNums /\ Frame(m.seq) \in Int /\ SentOK(m)
        BY <2>1, <3>1, SentType DEF SInv, OutwardOK
      <3>3. settled' < Frame(m.seq) + WindowSize
        BY <2>1, <3>1
      <3> HIDE DEF m
      <3>4. settled' <= Frame(m.seq) + WindowSize
        BY <1>1, <3>2, <3>3
      <3>5. FrameNext(m.seq) = Frame(m.seq)
        BY <1>2, <3>2, <3>4
      <3>6. \A g \in got' : g < Frame(m.seq) + WindowSize
        BY <3>2 DEF SentOK, Recent
      <3> QED
        BY <3>1, <3>5, <3>6 DEF m
    <2> QED
      BY <1>1, <2>1, OutwardMoved DEF SInv
  <1>5. ReceiverOK'
    <2>1. ASSUME ready'
          PROVE  FrameNext(accept') = Frame(accept')
      <3>1. accept' \in SeqNums
        BY DEF IInv, TypeOK
      <3>2. Frame(accept') \in Int
        BY <1>1, <3>1, FrameRange DEF Frame
      <3>3. settled' <= Frame(accept') + WindowSize
        BY <1>1, <2>1, <3>2
      <3> QED
        BY <1>2, <3>1, <3>3
    <2>2. ready' => /\ settled' < FrameNext(accept') + WindowSize
                    /\ \A g \in got' : g < FrameNext(accept') + WindowSize
                    /\ 1..(FrameNext(accept') - 1) \subseteq got'
      BY <2>1
    <2> QED
      BY <2>2 DEF ReceiverOK, Recent, Frame, FrameNext
  <1>6. AcksOK'
    <2>1. ASSUME NEW p \in 0..(Len(inward') + 1), AckNext(p) >= 0
          PROVE  FrameNext(AckNext(p)) = Frame(AckNext(p))
      <3>1. f[p] \in 0..(Len(inward) + 1) /\ AckNext(p) = AckAt(f[p])
        <4>1. f[p] \in 0..(Len(inward) + 1) /\ AckNext(p) \in {-1, AckAt(f[p])}
          BY DEF Shifts
        <4> QED
          BY <2>1, <4>1
      <3>2. AckNext(p) \in SeqNums
        BY <2>1, <3>1, AckType
      <3> QED
        BY <1>2, <2>1, <3>2
    <2> QED
      BY <2>1, AcksMoved DEF SInv
  <1> QED
    BY <1>3, <1>4, <1>5, <1>6 DEF SInv

\* In particular while the window stays where it is.
LEMMA Calm ==
    ASSUME AmpleNumbers, IInv, IInv', SInv,
           head' = head, settled' = settled, submitted <= submitted', got' = got,
           NEW d \in 0..1, Len(outward') + d = Len(outward),
           \A i \in 1..Len(outward') : outward'[i] = outward[i + d],
           ready' => /\ Recent(Frame(accept'))
                     /\ 1..(Frame(accept') - 1) \subseteq got,
           NEW f, Shifts(f)
    PROVE  SInv'
  <1>1. /\ settled \in Nat /\ head \in SeqNums /\ WindowSize \in Nat /\ 0 \in 0..WindowSize
    BY Settled
  <1>2. head' = mod(head + 0) /\ settled' = settled + 0
    <2>1. mod(head + 0) = IF head + 0 < Modulus THEN head + 0 ELSE head + 0 - Modulus
      BY <1>1, WindowAssumption, Advance
    <2> QED
      BY <1>1, <2>1, WindowAssumption DEF SeqNums
  <1>3. 1..settled' \subseteq got
    BY DEF SInv, GotOK
  <1>4. ASSUME NEW i \in 1..Len(outward'), Numbered(outward'[i])
        PROVE  settled' < Frame(outward'[i].seq) + WindowSize
    <2>1. outward'[i] = outward[i + d] /\ i + d \in 1..Len(outward)
      <3>1. outward \in Seq(OutwardFrames) /\ outward' \in Seq(OutwardFrames)
        BY DEF IInv, TypeOK
      <3>2. Len(outward) \in Nat /\ Len(outward') \in Nat
        BY <3>1, LenProperties
      <3> QED
        BY <3>2
    <2>2. SentOK(outward[i + d])
      BY <1>4, <2>1 DEF SInv, OutwardOK
    <2> QED
      BY <2>1, <2>2 DEF SentOK, Recent
  <1>5. ASSUME NEW p \in 0..(Len(inward') + 1), AckNext(p) >= 0
        PROVE  settled' <= Frame(AckNext(p)) + WindowSize
    <2>1. f[p] \in 0..(Len(inward) + 1) /\ AckNext(p) \in {-1, AckAt(f[p])}
      BY DEF Shifts
    <2>2. AckNext(p) = AckAt(f[p])
      BY <1>5, <2>1
    <2>3. AckOK(AckAt(f[p]))
      BY <1>5, <2>1, <2>2 DEF SInv, AcksOK
    <2> QED
      BY <2>2, <2>3 DEF AckOK
  <1>6. ready' => /\ settled' < Frame(accept') + WindowSize
                  /\ \A g \in got : g < Frame(accept') + WindowSize
                  /\ 1..(Frame(accept') - 1) \subseteq got
    BY DEF Recent
  <1> QED
    BY <1>1, <1>2, <1>3, <1>4, <1>5, <1>6, Kept

-----------------------------------------------------------------------------
(* How the steps shift the acknowledgements. *)

LEMMA InwardLength ==
    ASSUME TypeOK
    PROVE  inward \in Seq(InwardFrames) /\ Len(inward) \in Nat
  <1>1. inward \in Seq(InwardFrames)
    BY DEF TypeOK
  <1> QED
    BY <1>1, LenProperties

LEMMA Positions ==
    ASSUME NEW n \in Nat, NEW p \in 0..(n + 1)
    PROVE  p = 0 \/ p \in 1..n \/ p = n + 1
  OBVIOUS

\* They stay where they are, or are forgotten.
LEMMA ShiftsInPlace ==
    ASSUME TypeOK, inward' = inward, acknowledged' \in {-1, acknowledged},
           respondAcknowledge' \in {-1, respondAcknowledge}
    PROVE  \E f : Shifts(f)
  <1> DEFINE f == [p \in 0..(Len(inward') + 1) |-> p]
  <1>1. Len(inward) \in Nat /\ Len(inward') = Len(inward)
    BY InwardLength
  <1>2. f \in [0..(Len(inward') + 1) -> 0..(Len(inward) + 1)]
    BY <1>1
  <1>3. ASSUME NEW p \in 0..(Len(inward') + 1)
        PROVE  AckNext(p) \in {-1, AckAt(f[p])}
    BY <1>1 DEF AckNext, AckAt, AckIn
  <1>4. \A p, q \in 0..(Len(inward') + 1) : p < q => f[p] < f[q]
    OBVIOUS
  <1> HIDE DEF f
  <1>5. Shifts(f)
    BY <1>2, <1>3, <1>4 DEF Shifts
  <1> QED
    BY <1>5

\* The frame at the head of the inward wire leaves it, into the atomic or for good.
LEMMA ShiftsForward ==
    ASSUME TypeOK, inward # <<>>, inward' = Tail(inward),
           acknowledged' \in {acknowledged, AckAt(1)},
           respondAcknowledge' = respondAcknowledge
    PROVE  \E f : Shifts(f)
  <1> DEFINE f == [p \in 0..(Len(inward') + 1) |->
                     IF p > 0 THEN p + 1 ELSE IF acknowledged' = acknowledged THEN 0 ELSE 1]
  <1>1. Len(inward) \in Nat /\ Len(inward) >= 1 /\ Len(inward') = Len(inward) - 1
    BY InwardLength, HeadTailProperties, EmptySeq
  <1>0. Len(inward') \in Nat
    BY <1>1
  <1>2. f \in [0..(Len(inward') + 1) -> 0..(Len(inward) + 1)]
    BY <1>1
  <1>3. ASSUME NEW p \in 0..(Len(inward') + 1)
        PROVE  AckNext(p) \in {-1, AckAt(f[p])}
    <2>1. CASE p = 0
      BY <2>1, <1>1 DEF AckNext, AckAt, AckIn
    <2>2. CASE p \in 1..Len(inward')
      <3>1. inward'[p] = inward[p + 1] /\ p + 1 \in 1..Len(inward) /\ f[p] = p + 1
        BY <2>2, <1>1, InwardLength, HeadTailProperties
      <3> QED
        BY <2>2, <3>1, <1>1 DEF AckNext, AckAt, AckIn
    <2>3. CASE p = Len(inward') + 1
      <3>1. f[p] = Len(inward) + 1
        BY <2>3, <1>1
      <3>2. AckNext(p) = respondAcknowledge
        BY <2>3, <1>1 DEF AckNext, AckIn
      <3>3. AckAt(Len(inward) + 1) = respondAcknowledge
        BY <1>1 DEF AckAt, AckIn
      <3> QED
        BY <3>1, <3>2, <3>3
    <2> QED
      BY <2>1, <2>2, <2>3, <1>0, Positions
  <1>4. \A p, q \in 0..(Len(inward') + 1) : p < q => f[p] < f[q]
    BY <1>1
  <1> HIDE DEF f
  <1>5. Shifts(f)
    BY <1>2, <1>3, <1>4 DEF Shifts
  <1> QED
    BY <1>5

\* Of the answers of a cycle only the last can be an acknowledgement.
LEMMA ResponsesAcknowledge ==
    ASSUME TypeOK
    PROVE  /\ responses \in Seq(InwardFrames) /\ Len(responses) \in Nat
           /\ \A i \in 1..Len(responses) : responses[i].kind = "ACKNOWLEDGE" =>
                 i = Len(responses) /\ responses[i].seq = respondAcknowledge
  <1> DEFINE Others == {Pong, Uninitialised, Initialised}
             a == IF respondPong THEN <<Pong>> ELSE <<>>
             b == IF respondUninitialised THEN <<Uninitialised>> ELSE <<>>
             c == IF respondInitialised THEN <<Initialised>> ELSE <<>>
             e == IF respondAcknowledge >= 0 THEN <<Acknowledge(respondAcknowledge)>> ELSE <<>>
             abc == a \o b \o c
  <1>1. a \in Seq(Others) /\ b \in Seq(Others) /\ c \in Seq(Others)
    <2>1. /\ <<>> \in Seq(Others) /\ <<Pong>> \in Seq(Others)
          /\ <<Uninitialised>> \in Seq(Others) /\ <<Initialised>> \in Seq(Others)
      OBVIOUS
    <2> HIDE DEF Others
    <2> QED
      BY <2>1
  <1>2. abc \in Seq(Others)
    <2> HIDE DEF a, b, c
    <2> QED
      BY <1>1, ConcatProperties
  <1>3. /\ Len(e) \in {0, 1} /\ e \in Seq(InwardFrames)
        /\ \A i \in 1..Len(e) : e[i] = Acknowledge(respondAcknowledge)
    <2>1. CASE respondAcknowledge >= 0
      <3>1. respondAcknowledge \in SeqNums
        BY <2>1 DEF TypeOK
      <3>2. e = <<Acknowledge(respondAcknowledge)>>
        BY <2>1
      <3>3. Acknowledge(respondAcknowledge) \in InwardFrames
        BY <3>1 DEF InwardFrames
      <3> QED
        BY <3>2, <3>3
    <2>2. CASE ~(respondAcknowledge >= 0)
      BY <2>2
    <2> QED
      BY <2>1, <2>2
  <1>4. responses = abc \o e
    BY DEF responses
  <1>5. \A m \in Others : m.kind # "ACKNOWLEDGE"
    BY DEF Pong, Initialised, Uninitialised
  <1>6. abc \in Seq(InwardFrames)
    <2>1. Others \subseteq InwardFrames
      BY DEF InwardFrames
    <2> HIDE DEF Others, abc
    <2> QED
      BY <1>2, <2>1, SeqMonotonic
  <1>7. Acknowledge(respondAcknowledge).seq = respondAcknowledge
    BY DEF Acknowledge
  <1> HIDE DEF Others, abc, e
  <1>8. /\ Len(abc) \in Nat /\ Len(responses) = Len(abc) + Len(e)
        /\ responses \in Seq(InwardFrames)
        /\ \A i \in 1..Len(responses) :
              responses[i] = IF i <= Len(abc) THEN abc[i] ELSE e[i - Len(abc)]
    BY <1>3, <1>4, <1>6, ConcatProperties, LenProperties
  <1>9. ASSUME NEW i \in 1..Len(responses), responses[i].kind = "ACKNOWLEDGE"
        PROVE  i = Len(responses) /\ responses[i].seq = respondAcknowledge
    <2>1. CASE i <= Len(abc)
      <3>1. abc[i] \in Others
        BY <1>2, <1>8, <2>1
      <3> QED
        BY <1>5, <1>8, <1>9, <2>1, <3>1
    <2>2. CASE i > Len(abc)
      <3>1. i - Len(abc) \in 1..Len(e) /\ Len(e) = 1
        BY <1>3, <1>8, <2>2
      <3>2. responses[i] = e[i - Len(abc)]
        BY <1>8, <2>2
      <3>3. responses[i].seq = respondAcknowledge
        BY <1>3, <1>7, <3>1, <3>2
      <3>4. i = Len(responses)
        BY <1>8, <3>1
      <3> QED
        BY <3>3, <3>4
    <2> QED
      BY <1>8, <2>1, <2>2
  <1> QED
    BY <1>3, <1>8, <1>9

\* The answers go onto the inward wire, behind the others.
LEMMA ShiftsOntoWire ==
    ASSUME TypeOK, Respond
    PROVE  \E f : Shifts(f)
  <1>1. /\ inward' = inward \o responses /\ respondAcknowledge' = -1
        /\ acknowledged' = acknowledged
    BY DEF Respond, feedbackVars
  <1>2. /\ Len(inward) \in Nat /\ Len(responses) \in Nat
        /\ Len(inward') = Len(inward) + Len(responses)
        /\ \A p \in 1..Len(inward') :
              inward'[p] = IF p <= Len(inward) THEN inward[p] ELSE responses[p - Len(inward)]
    BY <1>1, InwardLength, ResponsesAcknowledge, ConcatProperties
  <1> DEFINE f == [p \in 0..(Len(inward') + 1) |->
                     IF p <= Len(inward) THEN p ELSE Len(inward) + 1]
  <1>3. f \in [0..(Len(inward') + 1) -> 0..(Len(inward) + 1)]
    BY <1>2
  <1>4. ASSUME NEW p \in 0..(Len(inward') + 1), AckNext(p) # -1
        PROVE  AckNext(p) = AckAt(f[p]) /\ (p <= Len(inward) \/ p = Len(inward'))
    <2>1. CASE p = 0
      BY <1>1, <1>2, <2>1 DEF AckNext, AckAt, AckIn
    <2>2. CASE p \in 1..Len(inward)
      <3>1. p \in 1..Len(inward') /\ inward'[p] = inward[p] /\ f[p] = p
        BY <1>2, <2>2
      <3> QED
        BY <2>2, <3>1, <1>2 DEF AckNext, AckAt, AckIn
    <2>3. CASE p \in (Len(inward) + 1)..Len(inward')
      <3>1. /\ p \in 1..Len(inward') /\ inward'[p] = responses[p - Len(inward)]
            /\ p - Len(inward) \in 1..Len(responses) /\ f[p] = Len(inward) + 1
        BY <1>2, <2>3
      <3>2. responses[p - Len(inward)].kind = "ACKNOWLEDGE"
        BY <1>2, <1>4, <3>1 DEF AckNext, AckIn
      <3>3. AckNext(p) = responses[p - Len(inward)].seq
        BY <1>2, <3>1, <3>2 DEF AckNext, AckIn
      <3>4. p - Len(inward) = Len(responses) /\ AckNext(p) = respondAcknowledge
        BY <3>1, <3>2, <3>3, ResponsesAcknowledge
      <3>5. AckAt(Len(inward) + 1) = respondAcknowledge
        BY <1>2 DEF AckAt, AckIn
      <3> QED
        BY <1>2, <3>1, <3>4, <3>5
    <2>4. CASE p = Len(inward') + 1
      <3>1. AckNext(p) = -1
        BY <1>1, <1>2, <2>4 DEF AckNext, AckIn
      <3> QED
        BY <1>4, <3>1
    <2> QED
      BY <1>2, <2>1, <2>2, <2>3, <2>4
  <1>5. ASSUME NEW p \in 0..(Len(inward') + 1), NEW q \in 0..(Len(inward') + 1),
               p < q, AckNext(p) >= 0, AckNext(q) >= 0
        PROVE  f[p] < f[q]
    <2>1. /\ p <= Len(inward) \/ p = Len(inward')
          /\ q <= Len(inward) \/ q = Len(inward')
      BY <1>4, <1>5
    <2> QED
      BY <1>2, <1>5, <2>1
  <1> HIDE DEF f
  <1>6. \A p \in 0..(Len(inward') + 1) : AckNext(p) \in {-1, AckAt(f[p])}
    BY <1>4
  <1>7. Shifts(f)
    BY <1>3, <1>5, <1>6 DEF Shifts
  <1> QED
    BY <1>7

-----------------------------------------------------------------------------
(* Publishing: what is sent is in the window, hence not old. *)

\* The number of a place in the window stands for the frame in its slot.
LEMMA PlaceFrame ==
    ASSUME IInv, NEW place \in 0..(window - 1)
    PROVE  /\ mod(head + place) \in SeqNums
           /\ Frame(mod(head + place)) = settled + 1 + place
           /\ slots[mod(head + place)] = settled + 1 + place
           /\ settled + 1 + place <= submitted
  <1>1. /\ settled \in Nat /\ submitted \in Nat /\ window \in Nat /\ window < Modulus
        /\ submitted = settled + window /\ window <= WindowSize
        /\ head \in SeqNums /\ WindowSize \in Nat /\ Modulus \in Nat
    BY Settled DEF SeqNums
  <1>2. place \in Nat /\ place < window /\ place \in 0..Modulus
    BY <1>1
  <1>3. mod(head + place) \in SeqNums
    BY <1>1, <1>2, Advance
  <1>4. slots[mod(head + place)] = settled + 1 + place
    <2>1. slots[mod(head + place)] = submitted - window + 1 + place
      BY DEF IInv, WindowIntact
    <2> QED
      BY <1>1, <1>2, <2>1
  <1>5. FrameFrom(head, settled + 1, head) = settled + 1
    <2>1. settled + 1 \in Int /\ settled + 1 + WindowSize + 1 - Modulus <= settled + 1
          /\ settled + 1 <= settled + 1 + WindowSize /\ head - head = (settled + 1) - (settled + 1)
      BY <1>1, WindowAssumption DEF SeqNums
    <2> QED
      BY <1>1, <2>1, FrameUnique
  <1>6. FrameFrom(head, settled + 1, mod(head + place)) = settled + 1 + place
    <2>1. FrameFrom(head, settled + 1, head) + place <= settled + 1 + WindowSize
      BY <1>1, <1>2, <1>5
    <2> QED
      BY <1>1, <1>2, <1>5, <2>1, FrameAfter
  <1> QED
    BY <1>1, <1>2, <1>3, <1>4, <1>6 DEF Frame

\* A frame that may be sent now: it is in the window.
Current(m) ==
    Numbered(m) =>
       /\ settled + 1 <= Frame(m.seq)
       /\ m.kind = "MESSAGE" => m.frame = Frame(m.seq) /\ m.frame <= submitted
       /\ m.kind = "INITIALISE" => Frame(m.seq) = settled + 1

LEMMA OutwardExtended ==
    ASSUME IInv, IInv', SInv, NEW frames \in Seq(OutwardFrames),
           outward' = outward \o frames,
           head' = head, settled' = settled, submitted' = submitted, got' = got,
           \A i \in 1..Len(frames) : Current(frames[i])
    PROVE  OutwardOK'
  <1>1. /\ settled \in Nat /\ submitted \in Nat /\ submitted <= settled + WindowSize
        /\ WindowSize \in Nat /\ 2 <= WindowSize
    BY Settled, WindowAssumption DEF SeqNums
  <1>2. outward \in Seq(OutwardFrames) /\ outward' \in Seq(OutwardFrames)
    BY DEF IInv, TypeOK
  <1>3. /\ Len(outward) \in Nat /\ Len(frames) \in Nat
        /\ Len(outward') = Len(outward) + Len(frames)
        /\ \A i \in 1..Len(outward') : outward'[i] =
              IF i <= Len(outward) THEN outward[i] ELSE frames[i - Len(outward)]
    BY <1>2, LenProperties, ConcatProperties
  <1>4. ASSUME NEW i \in 1..Len(outward'), Numbered(outward'[i])
        PROVE  /\ SentOK(outward'[i])
               /\ Frame(outward'[i].seq) \in Int /\ Frame(outward'[i].seq) <= settled + WindowSize
               /\ i > Len(outward) => settled + 1 <= Frame(outward'[i].seq)
    <2> DEFINE m == outward'[i]
               F == Frame(m.seq)
    <2>1. /\ m.seq \in SeqNums
          /\ m.kind = "MESSAGE" \/ m.kind = "INITIALISE"
          /\ m.kind = "MESSAGE" => m.frame \in 1..Frames
      <3>1. m \in OutwardFrames
        BY <1>2
      <3> HIDE DEF m
      <3>2. Numbered(m)
        BY <1>4 DEF m
      <3> QED
        BY <3>1, <3>2 DEF OutwardFrames, Ping, Initialise, Message, Numbered
    <2>2. F \in Int
      <3>1. settled + 1 \in Int /\ head \in SeqNums /\ m.seq \in SeqNums
        BY <2>1, Settled
      <3> HIDE DEF m
      <3> QED
        BY <3>1, FrameRange DEF Frame
    <2>3. CASE i <= Len(outward)
      <3>1. m = outward[i] /\ i \in 1..Len(outward)
        BY <1>3, <2>3
      <3>2. SentOK(m)
        BY <1>4, <3>1 DEF SInv, OutwardOK
      <3>3. F <= settled + WindowSize
        BY <1>1, <2>1, <2>2, <3>2 DEF SentOK
      <3> QED
        BY <2>2, <2>3, <3>2, <3>3
    <2>4. CASE i > Len(outward)
      <3>1. m = frames[i - Len(outward)] /\ i - Len(outward) \in 1..Len(frames)
        BY <1>3, <2>4
      <3>2. Current(m) /\ Numbered(m)
        BY <1>4, <3>1
      <3> HIDE DEF m
      <3>3. /\ settled + 1 <= F
            /\ m.kind = "MESSAGE" => m.frame = F /\ m.frame <= submitted
            /\ m.kind = "INITIALISE" => F = settled + 1
        BY <3>2 DEF Current
      <3>4. F <= settled + WindowSize
        <4> HIDE DEF F
        <4> QED
          BY <1>1, <2>1, <2>2, <3>3
      <3>5. Recent(F)
        <4>1. settled < F + WindowSize
          BY <1>1, <2>2, <3>3
        <4>2. ASSUME NEW g \in got
              PROVE  g < F + WindowSize
          <5>1. g \in Int /\ g <= submitted
            BY <1>1 DEF SInv, GotOK
          <5> QED
            BY <1>1, <2>2, <3>3, <5>1
        <4> QED
          BY <4>1, <4>2 DEF Recent
      <3>6. 1..settled \subseteq got
        BY DEF SInv, GotOK
      <3>7. m.kind = "INITIALISE" => F <= settled + 1 /\ 1..(F - 1) \subseteq got
        BY <1>1, <3>3, <3>6
      <3>8. SentOK(m)
        BY <3>3, <3>5, <3>7 DEF SentOK
      <3> QED
        BY <2>2, <3>3, <3>4, <3>8 DEF m
    <2> QED
      BY <1>3, <2>3, <2>4
  <1>5. ASSUME NEW i \in 1..Len(outward'), NEW j \in 1..Len(outward'), i < j,
               Numbered(outward'[i]), Numbered(outward'[j])
        PROVE  Frame(outward'[i].seq) < Frame(outward'[j].seq) + WindowSize
    <2>1. CASE j <= Len(outward)
      <3>1. /\ i \in 1..Len(outward) /\ j \in 1..Len(outward)
            /\ outward'[i] = outward[i] /\ outward'[j] = outward[j]
        BY <1>3, <1>5, <2>1
      <3> QED
        BY <1>5, <3>1 DEF SInv, OutwardOK
    <2>2. CASE j > Len(outward)
      <3>1. /\ Frame(outward'[i].seq) \in Int /\ Frame(outward'[i].seq) <= settled + WindowSize
            /\ Frame(outward'[j].seq) \in Int /\ settled + 1 <= Frame(outward'[j].seq)
        BY <1>4, <1>5, <2>2
      <3> QED
        BY <1>1, <3>1
    <2> QED
      BY <1>3, <2>1, <2>2
  <1>6. \A i \in 1..Len(outward') : Numbered(outward'[i]) => SentOK(outward'[i])
    BY <1>4
  <1> QED
    BY <1>5, <1>6 DEF OutwardOK, SentOK, Recent, Frame

\* Steps that leave the window alone.
LEMMA SameWindow ==
    ASSUME UNCHANGED <<head, tail, submitted>>
    PROVE  settled' = settled /\ window' = window
  BY DEF settled, window

LEMMA PublishKeeps ==
    ASSUME AmpleNumbers, IInv, IInv', SInv, PublishBatch
    PROVE  SInv'
  <1> USE DEF egressVars, feedbackVars, responseVars, receiverVars, historyVars
  <1>1. ASSUME NEW frames \in Seq(OutwardFrames), Publish(frames),
               \A i \in 1..Len(frames) : Current(frames[i])
        PROVE  SInv'
    <2>1. /\ UNCHANGED <<head, tail, submitted, got, ready, accept, acknowledged, inward,
                         respondAcknowledge>>
          /\ outward' = outward \o frames
      BY <1>1 DEF Publish
    <2>2. settled' = settled
      BY <2>1, SameWindow
    <2>3. OutwardOK'
      BY <1>1, <2>1, <2>2, OutwardExtended
    <2>4. GotOK'
      BY <2>1, <2>2 DEF SInv, GotOK
    <2>5. ReceiverOK'
      BY <2>1, <2>2 DEF SInv, ReceiverOK, Recent, Frame
    <2>6. AcksOK'
      BY <2>1, <2>2 DEF SInv, AcksOK, AckOK, AckAt, Frame
    <2> QED
      BY <2>3, <2>4, <2>5, <2>6 DEF SInv
  <1>2. CASE PublishNothing \/ PublishHoldoff
    <2>1. Publish(<<>>)
      BY <1>2 DEF PublishNothing, PublishHoldoff
    <2>2. <<>> \in Seq(OutwardFrames) /\ \A i \in 1..Len(<<>>) : Current(<<>>[i])
      OBVIOUS
    <2> QED
      BY <1>1, <2>1, <2>2
  <1>3. CASE PublishMessages
    <2>1. PICK frames \in Seq(OutwardFrames) :
             /\ Publish(frames)
             /\ \A i \in 1..Len(frames) : \E place \in 0..(window - 1) :
                   frames[i] = Message(mod(head + place), slots[mod(head + place)])
      BY <1>3, BurstInWindow
    <2>2. ASSUME NEW i \in 1..Len(frames)
          PROVE  Current(frames[i])
      <3>1. PICK place \in 0..(window - 1) :
               frames[i] = Message(mod(head + place), slots[mod(head + place)])
        BY <2>1
      <3>2. /\ frames[i].kind = "MESSAGE" /\ frames[i].seq = mod(head + place)
            /\ frames[i].frame = slots[mod(head + place)]
        BY <3>1 DEF Message
      <3>3. settled + 1 <= settled + 1 + place
        BY Settled DEF SeqNums
      <3> QED
        BY <3>2, <3>3, PlaceFrame DEF Current
    <2> QED
      BY <1>1, <2>1, <2>2
  <1>4. CASE PublishPing
    <2>1. Publish(<<Ping>>)
      BY <1>4 DEF PublishPing
    <2>2. <<Ping>> \in Seq(OutwardFrames)
      BY DEF OutwardFrames
    <2>3. \A i \in 1..Len(<<Ping>>) : Current(<<Ping>>[i])
      BY DEF Current, Numbered, Ping
    <2> QED
      BY <1>1, <2>1, <2>2, <2>3
  <1>5. CASE PublishInitialise
    <2> DEFINE m == Initialise(head)
    <2>1. Publish(<<m>>)
      BY <1>5 DEF PublishInitialise, FirstSequence
    <2>2. m \in OutwardFrames
      BY Settled DEF OutwardFrames
    <2>3. m.kind = "INITIALISE" /\ m.seq = head
      BY DEF Initialise
    <2>4. Frame(head) = settled + 1
      <3>1. /\ settled \in Nat /\ head \in SeqNums /\ WindowSize \in Nat /\ Modulus \in Nat
            /\ head \in Int
        BY Settled DEF SeqNums
      <3>2. settled + 1 \in Int /\ settled + 1 + WindowSize + 1 - Modulus <= settled + 1
            /\ settled + 1 <= settled + 1 + WindowSize
            /\ head - head = (settled + 1) - (settled + 1)
        BY <3>1, WindowAssumption
      <3> QED
        BY <3>1, <3>2, FrameUnique DEF Frame
    <2>5. Current(m)
      <3>1. settled + 1 <= Frame(m.seq)
        BY <2>3, <2>4, Settled
      <3> HIDE DEF m
      <3> QED
        BY <2>3, <2>4, <3>1 DEF Current
    <2> HIDE DEF m
    <2>6. <<m>> \in Seq(OutwardFrames) /\ \A i \in 1..Len(<<m>>) : Current(<<m>>[i])
      BY <2>2, <2>5
    <2> QED
      BY <1>1, <2>1, <2>6
  <1> QED
    BY <1>2, <1>3, <1>4, <1>5 DEF PublishBatch

-----------------------------------------------------------------------------
\* An acknowledgement of the window moves it behind the acknowledged frame.
LEMMA Acknowledged ==
    ASSUME IInv, IInv', HandleAcknowledgement, InWindow(acknowledged)
    PROVE  /\ acknowledged \in SeqNums /\ Frame(acknowledged) = settled'
           /\ settled' \in Nat /\ settled' <= submitted
           /\ \E k \in 1..WindowSize : head' = mod(head + k) /\ settled' = settled + k
  <1> USE DEF egressVars, feedbackVars, responseVars, receiverVars, historyVars
  <1>b. UNCHANGED <<tail, submitted>>
    BY DEF HandleAcknowledgement
  <1>a. /\ settled \in Nat /\ submitted \in Nat /\ window \in Nat /\ window <= WindowSize
        /\ submitted = settled + window /\ head \in SeqNums /\ WindowSize \in Nat
        /\ window < Modulus /\ Modulus \in Nat
    BY Settled DEF SeqNums
  <1> DEFINE place == mod(acknowledged - head)
             F == Frame(acknowledged)
  <1>1. acknowledged \in SeqNums /\ acknowledged >= 0 /\ place \in 0..(window - 1)
        /\ head' = mod(acknowledged + 1)
    <2>1. acknowledged \in SeqNums \cup {-1} /\ acknowledged >= 0 /\ place < window
      BY DEF InWindow, IInv, TypeOK
    <2>2. acknowledged \in SeqNums
      BY <2>1
    <2>3. place \in Nat
      <3>1. place \in SeqNums
        BY <1>a, <2>2, Distance
      <3> HIDE DEF place
      <3> QED
        BY <3>1 DEF SeqNums
    <2> HIDE DEF place
    <2> QED
      BY <1>a, <2>1, <2>2, <2>3 DEF HandleAcknowledgement
  <1>2. F = settled + 1 + place
    <2>1. place <= WindowSize
      <3> HIDE DEF place
      <3> QED
        BY <1>a, <1>1
    <2> QED
      BY <2>1 DEF Frame, FrameFrom
  <1>3. /\ place + 1 \in 0..WindowSize /\ head' = mod(head + (place + 1))
    <2>1. place = IF acknowledged >= head THEN acknowledged - head
                  ELSE acknowledged - head + Modulus
      BY <1>a, <1>1, Distance
    <2> HIDE DEF place
    <2>2. place + 1 \in 0..WindowSize /\ place + 1 \in 0..Modulus /\ 1 \in 0..Modulus
      BY <1>a, <1>1
    <2>3. mod(acknowledged + 1) = IF acknowledged + 1 < Modulus THEN acknowledged + 1
                                  ELSE acknowledged + 1 - Modulus
      BY <1>1, <2>2, Advance
    <2>4. mod(head + (place + 1)) = IF head + (place + 1) < Modulus THEN head + (place + 1)
                                    ELSE head + (place + 1) - Modulus
      BY <1>a, <2>2, Advance
    <2> QED
      BY <1>a, <1>1, <2>1, <2>2, <2>3, <2>4 DEF SeqNums
  <1>4. settled' = settled + (place + 1)
    <2>1. tail \in SeqNums /\ head' \in SeqNums /\ tail' \in SeqNums
      BY DEF IInv, TypeOK
    <2>2. window = IF tail >= head THEN tail - head ELSE tail - head + Modulus
      BY <1>a, <2>1, Distance DEF window
    <2>3. window' = IF tail >= head' THEN tail - head' ELSE tail - head' + Modulus
      BY <1>b, <2>1, Distance DEF window
    <2> HIDE DEF place
    <2>4. head' = IF head + (place + 1) < Modulus THEN head + (place + 1)
                  ELSE head + (place + 1) - Modulus
      <3>1. place + 1 \in 0..Modulus
        BY <1>a, <1>1
      <3> QED
        BY <1>a, <1>3, <3>1, Advance
    <2>5. window' = window - (place + 1)
      BY <1>a, <1>1, <2>1, <2>2, <2>3, <2>4 DEF SeqNums
    <2>6. settled' = submitted - window'
      BY <1>b DEF settled
    <2> QED
      BY <1>a, <1>1, <2>5, <2>6
  <1> HIDE DEF place
  <1>5. F = settled' /\ settled' \in Nat /\ settled' <= submitted /\ place + 1 \in 1..WindowSize
    BY <1>a, <1>1, <1>2, <1>4
  <1> QED
    BY <1>1, <1>3, <1>4, <1>5

\* What is acknowledged was received, and recently enough for the numbers under way.
LEMMA AcknowledgementKeeps ==
    ASSUME AmpleNumbers, IInv, IInv', SInv, HandleAcknowledgement
    PROVE  SInv'
  <1> USE DEF egressVars, feedbackVars, responseVars, receiverVars, historyVars
  <1>1. /\ UNCHANGED <<tail, submitted, got, outward, inward, ready, accept,
                       respondAcknowledge>>
        /\ acknowledged' = -1
    BY DEF HandleAcknowledgement
  <1>2. PICK f : Shifts(f)
    BY <1>1, ShiftsInPlace DEF IInv
  <1>3. /\ settled \in Nat /\ submitted \in Nat /\ window \in Nat /\ window <= WindowSize
        /\ submitted = settled + window /\ head \in SeqNums /\ WindowSize \in Nat
        /\ window < Modulus /\ Modulus \in Nat
    BY Settled DEF SeqNums
  <1>4. /\ Len(outward) \in Nat /\ Len(outward') = Len(outward)
        /\ submitted <= submitted' /\ 0 \in 0..1
    <2>1. outward \in Seq(OutwardFrames)
      BY DEF IInv, TypeOK
    <2> QED
      BY <1>1, <1>3, <2>1, LenProperties
  <1>5. CASE ~InWindow(acknowledged)
    <2>1. head' = head
      BY <1>5 DEF HandleAcknowledgement
    <2>2. settled' = settled
      BY <1>1, <2>1, SameWindow
    <2>3. ready' => Recent(Frame(accept')) /\ 1..(Frame(accept') - 1) \subseteq got
      BY <1>1 DEF SInv, ReceiverOK
    <2>4. Len(outward') + 0 = Len(outward) /\ \A i \in 1..Len(outward') : outward'[i] = outward[i + 0]
      BY <1>1, <1>4
    <2> QED
      BY <1>1, <1>2, <1>4, <2>1, <2>2, <2>3, <2>4, Calm
  <1>6. CASE InWindow(acknowledged)
    <2> DEFINE F == Frame(acknowledged)
    <2>1. acknowledged \in SeqNums /\ acknowledged >= 0
      BY <1>6, Acknowledged DEF SeqNums
    <2>2. PICK k \in 1..WindowSize : head' = mod(head + k) /\ settled' = settled + k
      BY <1>6, Acknowledged
    <2>3. k \in 0..WindowSize
      BY <1>3
    <2>5. /\ F = settled' /\ F \in Nat /\ F >= 1
      BY <1>3, <1>6, <2>2, Acknowledged
    <2>6. AckAt(0) = acknowledged
      BY DEF AckAt, AckIn
    <2>7. 1..F \subseteq got
      <3>1. AckOK(AckAt(0))
        <4>1. Len(inward) \in Nat
          BY InwardLength DEF IInv
        <4>2. 0 \in 0..(Len(inward) + 1)
          BY <4>1
        <4> QED
          BY <2>1, <2>6, <4>2 DEF SInv, AcksOK
      <3> QED
        BY <2>6, <3>1 DEF AckOK
    <2>8. F \in got
      BY <2>5, <2>7
    <2>9. ASSUME NEW i \in 1..Len(outward'), Numbered(outward'[i])
          PROVE  settled' < Frame(outward'[i].seq) + WindowSize
      <3>1. SentOK(outward[i]) /\ outward'[i] = outward[i]
        BY <1>1, <2>9 DEF SInv, OutwardOK
      <3> QED
        BY <2>5, <2>8, <3>1 DEF SentOK, Recent
    <2>10. ready' => /\ settled' < Frame(accept') + WindowSize
                     /\ \A g \in got : g < Frame(accept') + WindowSize
                     /\ 1..(Frame(accept') - 1) \subseteq got
      BY <1>1, <2>5, <2>8 DEF SInv, ReceiverOK, Recent
    <2>11. ASSUME NEW p \in 0..(Len(inward') + 1), AckNext(p) >= 0
           PROVE  settled' <= Frame(AckNext(p)) + WindowSize
      <3>1. Len(inward) \in Nat /\ Len(inward') = Len(inward)
        BY <1>1, InwardLength DEF IInv
      <3>2. p # 0 /\ AckNext(p) = AckAt(p)
        BY <1>1, <2>11, <3>1 DEF AckNext, AckAt, AckIn
      <3>3. 0 < p /\ p \in 0..(Len(inward) + 1) /\ 0 \in 0..(Len(inward) + 1)
        BY <3>1, <3>2
      <3>4. Frame(AckAt(0)) <= Frame(AckAt(p)) + WindowSize
        BY <2>1, <2>6, <2>11, <3>2, <3>3 DEF SInv, AcksOK
      <3> QED
        BY <2>5, <2>6, <3>2, <3>4
    <2>12. 1..settled' \subseteq got /\ got' = got
      BY <1>1, <2>5, <2>7
    <2>13. Len(outward') + 0 = Len(outward) /\ \A i \in 1..Len(outward') : outward'[i] = outward[i + 0]
      BY <1>1, <1>4
    <2> HIDE DEF F
    <2> QED
      BY <1>2, <1>4, <2>2, <2>3, <2>9, <2>10, <2>11, <2>12, <2>13, Kept
  <1> QED
    BY <1>5, <1>6

-----------------------------------------------------------------------------
(* The receiver takes a frame off the wire. *)

LEMMA Taken ==
    ASSUME IInv, outward # <<>>, outward' = Tail(outward)
    PROVE  /\ Len(outward) \in Nat /\ Len(outward) >= 1 /\ Len(outward') + 1 = Len(outward)
           /\ \A i \in 1..Len(outward') : outward'[i] = outward[i + 1]
           /\ Head(outward) = outward[1]
  <1>1. outward \in Seq(OutwardFrames)
    BY DEF IInv, TypeOK
  <1>2. Len(outward) \in Nat \ {0}
    BY <1>1, EmptySeq
  <1>3. /\ Len(Tail(outward)) = Len(outward) - 1
        /\ \A i \in 1..Len(Tail(outward)) : Tail(outward)[i] = outward[i + 1]
    BY <1>1, HeadTailProperties
  <1> QED
    BY <1>1, <1>2, <1>3

\* A new answer takes the place of the last acknowledgement under way.
LEMMA AcksAnswered ==
    ASSUME IInv, AcksOK, head' = head, settled' = settled,
           inward' = inward, acknowledged' = acknowledged, got \subseteq got',
           respondAcknowledge' \in SeqNums,
           settled <= Frame(respondAcknowledge') + WindowSize,
           1..Frame(respondAcknowledge') \subseteq got',
           \A s \in SeqNums : AckOK(s) => Frame(s) <= Frame(respondAcknowledge') + WindowSize
    PROVE  AcksOK'
  <1> DEFINE n == respondAcknowledge'
             P == 0..(Len(inward') + 1)
  <1>1. Len(inward) \in Nat /\ Len(inward') = Len(inward)
    BY InwardLength DEF IInv
  <1>2. AckNext(Len(inward) + 1) = n
    BY <1>1 DEF AckNext, AckIn
  <1>3. ASSUME NEW p \in P, p # Len(inward) + 1
        PROVE  AckNext(p) = AckAt(p) /\ p \in 0..(Len(inward) + 1) /\ p <= Len(inward)
    <2>1. p \in 0..(Len(inward) + 1) /\ p <= Len(inward)
      BY <1>1, <1>3
    <2>2. p = 0 \/ p \in 1..Len(inward)
      BY <1>1, <2>1
    <2> QED
      BY <1>1, <2>1, <2>2 DEF AckNext, AckAt, AckIn
  <1>4. ASSUME NEW p \in P, AckNext(p) >= 0
        PROVE  settled <= Frame(AckNext(p)) + WindowSize /\ 1..Frame(AckNext(p)) \subseteq got'
    <2>1. CASE p = Len(inward) + 1
      BY <1>2, <2>1
    <2>2. CASE p # Len(inward) + 1
      BY <1>3, <1>4, <2>2 DEF AcksOK, AckOK
    <2> QED
      BY <2>1, <2>2
  <1>5. ASSUME NEW p \in P, NEW q \in P, p < q, AckNext(p) >= 0, AckNext(q) >= 0
        PROVE  Frame(AckNext(p)) <= Frame(AckNext(q)) + WindowSize
    <2>1. p # Len(inward) + 1
      BY <1>1, <1>5
    <2>2. p \in 0..(Len(inward) + 1) /\ AckNext(p) = AckAt(p) /\ AckOK(AckAt(p))
      BY <1>3, <1>5, <2>1 DEF AcksOK
    <2>3. CASE q = Len(inward) + 1
      <3>1. AckAt(p) \in SeqNums
        BY <1>5, <2>2, AckType
      <3> QED
        BY <1>2, <2>2, <2>3, <3>1
    <2>4. CASE q # Len(inward) + 1
      <3>1. q \in 0..(Len(inward) + 1) /\ AckNext(q) = AckAt(q)
        BY <1>3, <2>4
      <3> QED
        BY <1>5, <2>2, <3>1 DEF AcksOK
    <2> QED
      BY <2>3, <2>4
  <1>6. \A p \in P : AckNext(p) >= 0 =>
           settled' <= Frame(AckNext(p)) + WindowSize /\ 1..Frame(AckNext(p)) \subseteq got'
    BY <1>4
  <1> QED
    BY <1>5, <1>6 DEF AcksOK, AckOK, AckAt, AckNext, Frame

\* A message with the expected number is the expected frame, and any other message is
\* answered with the frame before it.
LEMMA MessageKeeps ==
    ASSUME AmpleNumbers, IInv, IInv', SInv, HandleMessage
    PROVE  SInv'
  <1> USE DEF egressVars, feedbackVars, responseVars, receiverVars, historyVars
  <1> DEFINE m == Head(outward)
             A == Frame(accept)
  <1>1. /\ outward # <<>> /\ outward' = Tail(outward) /\ m.kind = "MESSAGE" /\ ready
        /\ UNCHANGED <<head, tail, submitted, acknowledged, inward, ready>>
    BY DEF HandleMessage, Consume, MayHandle
  <1>2. /\ settled' = settled /\ head' = head /\ submitted' = submitted
        /\ inward' = inward /\ acknowledged' = acknowledged
    BY <1>1, SameWindow
  <1>3. /\ Len(outward) \in Nat /\ Len(outward) >= 1 /\ Len(outward') + 1 = Len(outward)
        /\ \A i \in 1..Len(outward') : outward'[i] = outward[i + 1]
        /\ m = outward[1]
    BY <1>1, Taken
  <1>4. /\ settled \in Nat /\ submitted \in Nat /\ submitted <= settled + WindowSize
        /\ head \in SeqNums /\ WindowSize \in Nat /\ Modulus \in Nat /\ accept \in SeqNums
        /\ WindowSize < Modulus
    <2>1. accept \in SeqNums
      BY DEF IInv, TypeOK
    <2> QED
      BY <2>1, Settled, WindowAssumption DEF SeqNums
  <1>5. /\ m.seq \in SeqNums /\ m.frame \in 1..Frames /\ m.frame = Frame(m.seq)
        /\ m.frame <= submitted /\ 1 \in 1..Len(outward) /\ Numbered(m)
    <2>1. 1 \in 1..Len(outward)
      BY <1>3
    <2>2. Numbered(m)
      BY <1>1 DEF Numbered
    <2>3. SentOK(outward[1])
      BY <1>3, <2>1, <2>2 DEF SInv, OutwardOK
    <2>4. outward[1].seq \in SeqNums /\ outward[1].frame \in 1..Frames
      BY <1>1, <1>3, <2>1, <2>2, SentType
    <2> QED
      BY <1>1, <1>3, <2>1, <2>2, <2>3, <2>4 DEF SentOK
  <1>6. /\ A \in Int /\ settled < A + WindowSize
        /\ \A g \in got : g < A + WindowSize
        /\ 1..(A - 1) \subseteq got
    <2>1. A \in Int
      BY <1>4, FrameRange DEF Frame
    <2> QED
      BY <1>1, <2>1 DEF SInv, ReceiverOK, Recent
  <1>7. got \subseteq 1..submitted /\ 1..settled \subseteq got
    BY DEF SInv, GotOK
  <1>8. \A s \in SeqNums : FrameNext(s) = Frame(s)
    BY <1>2 DEF FrameNext, Frame
  <1>9. ASSUME NEW i \in 1..Len(outward'), Numbered(outward'[i])
        PROVE  /\ i + 1 \in 1..Len(outward) /\ 1 < i + 1 /\ outward'[i] = outward[i + 1]
               /\ outward'[i].seq \in SeqNums
               /\ FrameNext(outward'[i].seq) = Frame(outward'[i].seq)
               /\ settled' < Frame(outward'[i].seq) + WindowSize
               /\ \A g \in got : g < Frame(outward'[i].seq) + WindowSize
               /\ Frame(m.seq) < Frame(outward'[i].seq) + WindowSize
    <2>1. i + 1 \in 1..Len(outward) /\ 1 < i + 1 /\ outward'[i] = outward[i + 1]
      BY <1>3
    <2>2. SentOK(outward[i + 1]) /\ Frame(outward[1].seq) < Frame(outward[i + 1].seq) + WindowSize
      BY <1>3, <1>5, <1>9, <2>1 DEF SInv, OutwardOK
    <2>3. outward[i + 1].seq \in SeqNums
      BY <1>9, <2>1, SentType
    <2> QED
      BY <1>2, <1>3, <1>8, <2>1, <2>2, <2>3 DEF SentOK, Recent
  <1> HIDE DEF m, A
  <1>10. ASSUME NEW s \in SeqNums, AckOK(s)
         PROVE  Frame(s) \in Int /\ Frame(s) < A + WindowSize
    <2>1. Frame(s) \in Int
      BY <1>4, FrameRange DEF Frame
    <2>2. CASE Frame(s) >= 1
      <3>1. Frame(s) \in got
        BY <1>10, <2>1, <2>2 DEF AckOK
      <3> QED
        BY <1>6, <2>1, <3>1
    <2>3. CASE ~(Frame(s) >= 1)
      BY <1>4, <1>6, <2>1, <2>3
    <2> QED
      BY <2>2, <2>3
  <1>11. CASE m.seq = accept
    <2>1. /\ accept' = mod(accept + 1) /\ respondAcknowledge' = m.seq
          /\ got' = got \cup {m.frame}
      BY <1>11 DEF HandleMessage, Expected, m
    <2>2. m.frame = A /\ A \in 1..submitted
      BY <1>4, <1>5, <1>6, <1>11, BoundAssumption DEF A
    <2>3. got' = got \cup {A}
      BY <2>1, <2>2
    <2>4. GotOK'
      BY <1>2, <1>7, <2>2, <2>3 DEF GotOK
    <2>5. OutwardOK'
      <3>1. ASSUME NEW i \in 1..Len(outward'), Numbered(outward'[i])
            PROVE  /\ FrameNext(outward'[i].seq) = Frame(outward'[i].seq)
                   /\ settled' < Frame(outward'[i].seq) + WindowSize
                   /\ \A g \in got' : g < Frame(outward'[i].seq) + WindowSize
        BY <1>5, <1>9, <2>2, <2>3, <3>1
      <3>2. got \subseteq got' /\ submitted <= submitted' /\ settled <= settled' /\ 1 \in 0..1
        BY <1>2, <1>4, <2>3
      <3> QED
        BY <1>3, <3>1, <3>2, OutwardMoved DEF SInv
    <2>6. FrameNext(accept') = A + 1 /\ accept' \in SeqNums
      <3>1. 1 \in 0..Modulus
        BY <1>4
      <3>2. Frame(mod(accept + 1)) = A + 1
        <4>1. FrameFrom(head, settled + 1, accept) + 1 <= settled + 1 + WindowSize
          BY <1>4, <2>2 DEF A, Frame
        <4> QED
          BY <1>4, <3>1, <4>1, FrameAfter DEF A, Frame
      <3>3. mod(accept + 1) \in SeqNums
        BY <1>4, <3>1, Advance
      <3> QED
        BY <1>8, <2>1, <3>2, <3>3
    <2>7. ReceiverOK'
      <3>1. /\ settled' < A + 1 + WindowSize
            /\ \A g \in got' : g < A + 1 + WindowSize
            /\ 1..A \subseteq got'
        <4>1. settled' < A + 1 + WindowSize
          BY <1>2, <1>4, <1>6
        <4>2. ASSUME NEW g \in got'
              PROVE  g < A + 1 + WindowSize
          <5>1. g \in Int /\ (g < A + WindowSize \/ g = A)
            BY <1>6, <1>7, <2>2, <2>3
          <5> QED
            BY <1>4, <1>6, <5>1
        <4>3. 1..A \subseteq got'
          BY <1>6, <2>3
        <4> QED
          BY <4>1, <4>2, <4>3
      <3>2. /\ settled' < FrameNext(accept') + WindowSize
            /\ \A g \in got' : g < FrameNext(accept') + WindowSize
            /\ 1..(FrameNext(accept') - 1) \subseteq got'
        BY <1>6, <2>6, <3>1
      <3> QED
        BY <3>2 DEF ReceiverOK, Recent, Frame, FrameNext
    <2>8. AcksOK'
      <3>1. /\ respondAcknowledge' \in SeqNums /\ Frame(respondAcknowledge') = A
            /\ got \subseteq got'
        BY <1>5, <1>11, <2>1 DEF A
      <3>2. settled <= A + WindowSize /\ 1..A \subseteq got'
        BY <1>4, <1>6, <2>3
      <3>3. \A s \in SeqNums : AckOK(s) => Frame(s) <= A + WindowSize
        BY <1>4, <1>6, <1>10
      <3> QED
        BY <1>2, <3>1, <3>2, <3>3, AcksAnswered DEF SInv
    <2> QED
      BY <2>4, <2>5, <2>7, <2>8 DEF SInv
  <1>12. CASE m.seq # accept
    <2>1. /\ accept' = accept /\ respondAcknowledge' = LastAccepted /\ got' = got
      BY <1>12 DEF HandleMessage, Expected, m
    <2>2. GotOK'
      BY <1>2, <1>7, <2>1 DEF GotOK
    <2>3. OutwardOK'
      <3>1. got \subseteq got' /\ submitted <= submitted' /\ settled <= settled' /\ 1 \in 0..1
        BY <1>2, <1>4, <2>1
      <3> QED
        BY <1>3, <1>9, <2>1, <3>1, OutwardMoved DEF SInv
    <2>4. ReceiverOK'
      BY <1>1, <1>2, <2>1 DEF SInv, ReceiverOK, Recent, Frame
    <2>5. LastAccepted \in SeqNums
      <3>1. 1 \in SeqNums
        BY <1>4, WindowAssumption DEF SeqNums
      <3> QED
        BY <1>4, <3>1, Distance DEF LastAccepted
    <2>6. Frame(LastAccepted) = A - 1
      <3>1. settled + 1 + WindowSize + 1 - Modulus <= A - 1
        BY <1>4, <1>6 DEF AmpleNumbers
      <3> QED
        BY <1>4, <3>1, FrameBefore DEF LastAccepted, A, Frame
    <2>7. AcksOK'
      <3>1. /\ respondAcknowledge' \in SeqNums /\ Frame(respondAcknowledge') = A - 1
            /\ got \subseteq got'
        BY <2>1, <2>5, <2>6
      <3>2. settled <= A - 1 + WindowSize /\ 1..(A - 1) \subseteq got'
        BY <1>4, <1>6, <2>1
      <3>3. \A s \in SeqNums : AckOK(s) => Frame(s) <= A - 1 + WindowSize
        BY <1>4, <1>6, <1>10
      <3> QED
        BY <1>2, <3>1, <3>2, <3>3, AcksAnswered DEF SInv
    <2> QED
      BY <2>2, <2>3, <2>4, <2>7 DEF SInv
  <1> QED
    BY <1>11, <1>12

-----------------------------------------------------------------------------
(* The invariant. *)

LEMMA InitSInv == Init => SInv
  <1> SUFFICES ASSUME Init PROVE SInv
    OBVIOUS
  <1>1. IInv
    BY InitIInv
  <1>2. settled = 0 /\ submitted = 0
    <2>1. head = 0 /\ tail = 0 /\ submitted = 0 /\ 0 \in SeqNums
      BY WindowAssumption DEF Init, SeqNums
    <2>2. mod(tail - head) = IF tail >= head THEN tail - head ELSE tail - head + Modulus
      BY <2>1, Distance
    <2> QED
      BY <2>1, <2>2 DEF settled, window
  <1>3. GotOK
    BY <1>2 DEF Init, GotOK
  <1>4. OutwardOK
    BY DEF Init, OutwardOK
  <1>5. ReceiverOK
    BY DEF Init, ReceiverOK
  <1>6. AcksOK
    <2>1. \A p \in 0..(Len(inward) + 1) : AckAt(p) = -1
      BY DEF Init, AckAt, AckIn
    <2> QED
      BY <2>1 DEF AcksOK
  <1> QED
    BY <1>3, <1>4, <1>5, <1>6 DEF SInv

LEMMA NextSInv == AmpleNumbers /\ IInv /\ IInv' /\ SInv /\ [Next]_vars => SInv'
  <1> SUFFICES ASSUME AmpleNumbers, IInv, IInv', SInv, [Next]_vars PROVE SInv'
    OBVIOUS
  <1> USE DEF egressVars, feedbackVars, responseVars, receiverVars, historyVars
  <1>0. TypeOK /\ submitted \in Nat /\ Len(outward) \in Nat
    <2>1. outward \in Seq(OutwardFrames)
      BY DEF IInv, TypeOK
    <2> QED
      BY <2>1, Settled, LenProperties DEF IInv
  <1>a. 1..settled \subseteq got /\ (ready => Recent(Frame(accept)) /\ 1..(Frame(accept) - 1) \subseteq got)
    BY DEF SInv, GotOK, ReceiverOK
  \* Steps that take nothing off the outward wire.
  <1>b. ASSUME head' = head, settled' = settled, submitted <= submitted', got' = got,
               outward' = outward, ready' => ready /\ accept' = accept, \E f : Shifts(f)
        PROVE  SInv'
    <2>1. /\ 0 \in 0..1 /\ Len(outward') + 0 = Len(outward)
          /\ \A i \in 1..Len(outward') : outward'[i] = outward[i + 0]
      BY <1>0, <1>b
    <2>2. ready' => Recent(Frame(accept')) /\ 1..(Frame(accept') - 1) \subseteq got
      BY <1>a, <1>b
    <2>3. PICK f : Shifts(f)
      BY <1>b
    <2> QED
      BY <1>b, <2>1, <2>2, <2>3, Calm
  \* Steps that take a frame off it without receiving it.
  <1>c. ASSUME UNCHANGED <<head, tail, submitted, got, inward, acknowledged, respondAcknowledge>>,
               outward # <<>>, outward' = Tail(outward),
               ready' => Recent(Frame(accept')) /\ 1..(Frame(accept') - 1) \subseteq got
        PROVE  SInv'
    <2>1. /\ 1 \in 0..1 /\ Len(outward') + 1 = Len(outward)
          /\ \A i \in 1..Len(outward') : outward'[i] = outward[i + 1]
      BY <1>c, Taken
    <2>2. settled' = settled /\ submitted <= submitted'
      BY <1>0, <1>c, SameWindow
    <2>3. PICK f : Shifts(f)
      BY <1>0, <1>c, ShiftsInPlace
    <2> QED
      BY <1>c, <2>1, <2>2, <2>3, Calm
  \* Steps that leave all of it alone.
  <1>d. ASSUME UNCHANGED <<head, tail, submitted, got, outward, ready, accept, inward,
                           acknowledged, respondAcknowledge>>
        PROVE  SInv'
    <2>1. settled' = settled /\ submitted <= submitted'
      BY <1>0, <1>d, SameWindow
    <2>2. \E f : Shifts(f)
      BY <1>0, <1>d, ShiftsInPlace
    <2> QED
      BY <1>b, <1>d, <2>1, <2>2
  <1>1. CASE \E count \in 1..BatchCapacity : AcceptBatch(count)
    <2>1. PICK count \in 1..BatchCapacity : AcceptBatch(count)
      BY <1>1
    <2>2. /\ UNCHANGED <<head, got, outward, ready, accept, inward, acknowledged,
                         respondAcknowledge>>
          /\ submitted' = submitted + count
      BY <2>1 DEF AcceptBatch
    <2>3. settled' = settled
      <3>1. window' = window + count
        BY <2>1, AcceptExtendsWindow
      <3>2. count \in Nat /\ window \in Nat
        BY Settled DEF SeqNums
      <3> QED
        BY <1>0, <2>2, <3>1, <3>2 DEF settled
    <2>4. submitted <= submitted'
      BY <1>0, <2>2
    <2>5. \E f : Shifts(f)
      BY <1>0, <2>2, ShiftsInPlace
    <2> QED
      BY <1>b, <2>2, <2>3, <2>4, <2>5
  <1>2. CASE HandlePongs \/ HandleInitialisations \/ HandleUninitialisations
    BY <1>2, <1>d DEF HandlePongs, HandleInitialisations, HandleUninitialisations
  <1>3. CASE HandleAcknowledgement
    BY <1>3, AcknowledgementKeeps
  <1>4. CASE PublishBatch
    BY <1>4, PublishKeeps
  <1>5. CASE Feedback
    <2>1. /\ UNCHANGED <<head, tail, submitted, got, outward, ready, accept, respondAcknowledge>>
          /\ inward # <<>> /\ inward' = Tail(inward)
      BY <1>5 DEF Feedback
    <2>2. acknowledged' \in {acknowledged, AckAt(1)}
      <3>1. 1 \in 1..Len(inward) /\ Head(inward) = inward[1]
        <4>1. inward \in Seq(InwardFrames)
          BY <1>0, InwardLength
        <4>2. Len(inward) \in Nat \ {0}
          BY <2>1, <4>1, EmptySeq
        <4> QED
          BY <4>1, <4>2
      <3>2. acknowledged' = IF inward[1].kind = "ACKNOWLEDGE" THEN inward[1].seq ELSE acknowledged
        BY <1>5, <3>1 DEF Feedback
      <3>3. AckAt(1) = IF inward[1].kind = "ACKNOWLEDGE" THEN inward[1].seq ELSE -1
        BY <3>1 DEF AckAt, AckIn
      <3> QED
        BY <3>2, <3>3
    <2>3. \E f : Shifts(f)
      BY <1>0, <2>1, <2>2, ShiftsForward
    <2>4. settled' = settled /\ submitted <= submitted'
      BY <1>0, <2>1, SameWindow
    <2> QED
      BY <1>b, <2>1, <2>3, <2>4
  <1>6. CASE ProcessPing \/ RejectMessage
    <2>1. /\ UNCHANGED <<head, tail, submitted, got, inward, acknowledged,
                         respondAcknowledge, ready, accept>>
          /\ outward # <<>> /\ outward' = Tail(outward)
      BY <1>6 DEF ProcessPing, RejectMessage, Consume
    <2> QED
      BY <1>a, <1>c, <2>1
  <1>7. CASE HandleInitialise
    <2> DEFINE m == Head(outward)
    <2>1. /\ UNCHANGED <<head, tail, submitted, got, inward, acknowledged, respondAcknowledge>>
          /\ outward # <<>> /\ outward' = Tail(outward)
          /\ m.kind = "INITIALISE" /\ accept' = m.seq
      BY <1>7 DEF HandleInitialise, Consume
    <2>2. m = outward[1] /\ 1 \in 1..Len(outward)
      BY <2>1, Taken
    <2>3. Numbered(m)
      BY <2>1 DEF Numbered
    <2>4. SentOK(m)
      BY <2>2, <2>3 DEF SInv, OutwardOK
    <2> HIDE DEF m
    <2>5. Recent(Frame(accept')) /\ 1..(Frame(accept') - 1) \subseteq got
      BY <2>1, <2>4 DEF SentOK
    <2> QED
      BY <1>c, <2>1, <2>5
  <1>8. CASE HandleMessage
    BY <1>8, MessageKeeps
  <1>9. CASE Respond
    <2>1. UNCHANGED <<head, tail, submitted, got, outward, ready, accept>>
      BY <1>9 DEF Respond
    <2>2. settled' = settled /\ submitted <= submitted'
      BY <1>0, <2>1, SameWindow
    <2>3. \E f : Shifts(f)
      BY <1>0, <1>9, ShiftsOntoWire
    <2> QED
      BY <1>b, <2>1, <2>2, <2>3
  <1>10. CASE ResetReceiver
    <2>1. /\ UNCHANGED <<head, tail, submitted, got, outward, inward, acknowledged>>
          /\ ready' = FALSE /\ respondAcknowledge' = -1
      BY <1>10 DEF ResetReceiver
    <2>2. settled' = settled /\ submitted <= submitted'
      BY <1>0, <2>1, SameWindow
    <2>3. \E f : Shifts(f)
      BY <1>0, <2>1, ShiftsInPlace
    <2> QED
      BY <1>b, <2>1, <2>2, <2>3
  <1>11. CASE LoseOutward
    <2>1. /\ UNCHANGED <<head, tail, submitted, got, inward, acknowledged,
                         respondAcknowledge, ready, accept>>
          /\ outward # <<>> /\ outward' = Tail(outward)
      BY <1>11 DEF LoseOutward
    <2> QED
      BY <1>a, <1>c, <2>1
  <1>12. CASE LoseInward
    <2>1. /\ UNCHANGED <<head, tail, submitted, got, outward, ready, accept, acknowledged,
                         respondAcknowledge>>
          /\ inward # <<>> /\ inward' = Tail(inward)
      BY <1>12 DEF LoseInward
    <2>2. \E f : Shifts(f)
      BY <1>0, <2>1, ShiftsForward
    <2>3. settled' = settled /\ submitted <= submitted'
      BY <1>0, <2>1, SameWindow
    <2> QED
      BY <1>b, <2>1, <2>2, <2>3
  <1>13. CASE UNCHANGED vars
    BY <1>13, <1>d DEF vars
  <1> QED
    BY <1>1, <1>2, <1>3, <1>4, <1>5, <1>6, <1>7, <1>8, <1>9, <1>10, <1>11, <1>12, <1>13
    DEF Next, Egress, Ingress

-----------------------------------------------------------------------------
\* With sequence numbers for two windows and two more, however frames and
\* acknowledgements are lost and whichever incarnation of the receiver sent them, the
\* egress thread retires a frame only after a receiver put it in its inbox.
THEOREM RetiredStayReceived ==
    ASSUME AmpleNumbers
    PROVE  Spec => []RetiredWereReceived
  <1>1. Init => IInv /\ SInv
    BY InitIInv, InitSInv
  <1>2. (IInv /\ SInv) /\ [Next]_vars => (IInv /\ SInv)'
    BY NextIInv, NextSInv
  <1>3. SInv => RetiredWereReceived
    BY DEF SInv, GotOK, RetiredWereReceived, settled
  <1> QED
    BY <1>1, <1>2, <1>3, PTL DEF Spec
=============================================================================
