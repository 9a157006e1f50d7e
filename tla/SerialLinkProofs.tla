-------------------------- MODULE SerialLinkProofs --------------------------
(***************************************************************************)
(* Proofs about SerialLink for every value of its constants.               *)
(*                                                                         *)
(* TypeOK is not inductive: that a message on the wire carries a frame     *)
(* needs the slots of the window to hold frames, which is WindowIntact.    *)
(* Both together with "no more in the window than was submitted" are.      *)
(***************************************************************************)
EXTENDS SerialLink, SequenceTheorems, TLAPS

-----------------------------------------------------------------------------
(* Sequence numbers.  The provers know nothing of % by an unknown modulus; *)
(* these lemmas turn every use of it into a linear case distinction.       *)

\* The sum of a sequence number and a step of at most Modulus wraps once.
LEMMA Advance ==
    ASSUME NEW a \in SeqNums, NEW k \in 0..Modulus
    PROVE  /\ mod(a + k) \in SeqNums
           /\ mod(a + k) = IF a + k < Modulus THEN a + k ELSE a + k - Modulus
  <1>1. CASE a + k < Modulus
    BY <1>1, WindowAssumption DEF mod, SeqNums
  <1>2. CASE a + k >= Modulus
    BY <1>2, WindowAssumption, Z3 DEF mod, SeqNums
  <1> QED
    BY <1>1, <1>2, WindowAssumption DEF SeqNums

\* The distance from one sequence number forward to another.
LEMMA Distance ==
    ASSUME NEW a \in SeqNums, NEW b \in SeqNums
    PROVE  /\ mod(a - b) \in SeqNums
           /\ mod(a - b) = IF a >= b THEN a - b ELSE a - b + Modulus
  <1>1. CASE a >= b
    BY <1>1, WindowAssumption DEF mod, SeqNums
  <1>2. CASE a < b
    BY <1>2, WindowAssumption DEF mod, SeqNums
  <1> QED
    BY <1>1, <1>2, WindowAssumption DEF SeqNums

-----------------------------------------------------------------------------
\* The inductive invariant.
IInv == TypeOK /\ WindowIntact /\ window <= submitted

\* The window is a number of frames.
LEMMA WindowType ==
    ASSUME TypeOK
    PROVE  window \in SeqNums
  BY Distance DEF TypeOK, window

\* Steps that touch neither the window nor its slots keep it intact.
LEMMA WindowUnchanged ==
    ASSUME WindowIntact, window <= submitted, UNCHANGED <<head, tail, slots, submitted>>
    PROVE  WindowIntact' /\ (window <= submitted)'
  BY DEF WindowIntact, window

\* Initially nothing is in the window.
LEMMA InitIInv == Init => IInv
  <1> SUFFICES ASSUME Init PROVE IInv
    OBVIOUS
  <1> USE WindowAssumption, ParameterAssumption, BoundAssumption
  <1>1. 0 \in SeqNums
    BY DEF SeqNums
  <1>2. TypeOK
    <2>1. /\ outward \in Seq(OutwardFrames) /\ inward \in Seq(InwardFrames)
          /\ log \in Seq(1..Frames)
      BY DEF Init
    <2>2. slots \in [SeqNums -> 0..Frames]
      BY DEF Init
    <2>3. /\ phase \in {"accept", "acknowledgement", "initialisation",
                       "uninitialisation", "publish"}
          /\ initialised \in BOOLEAN /\ ready \in BOOLEAN
          /\ respondPong \in BOOLEAN /\ respondUninitialised \in BOOLEAN
          /\ respondInitialised \in BOOLEAN
      BY DEF Init
    <2>4. /\ head \in SeqNums /\ tail \in SeqNums /\ cursor \in SeqNums
          /\ holdoff \in 0..CursorResetHoldoff /\ countdown \in Int
          /\ pongs \in Nat /\ acknowledged \in SeqNums \cup {-1}
          /\ initialisations \in Nat /\ uninitialisations \in Nat
          /\ accept \in SeqNums /\ respondAcknowledge \in SeqNums \cup {-1}
          /\ submitted \in 0..Frames /\ got \subseteq 1..Frames
          /\ resets \in 0..MaxResets /\ losses \in 0..MaxLosses
      BY <1>1 DEF Init
    <2> QED
      BY <2>1, <2>2, <2>3, <2>4 DEF TypeOK
  <1>3. window = 0
    BY <1>1, Distance DEF Init, window
  <1> QED
    BY <1>2, <1>3 DEF IInv, WindowIntact, Init

-----------------------------------------------------------------------------
(* The three steps that do arithmetic on the window.                       *)

\* A batch accepted with space for a full one extends the window by its frames.
LEMMA AcceptExtendsWindow ==
    ASSUME IInv, NEW count \in 1..BatchCapacity, AcceptBatch(count)
    PROVE  window' = window + count /\ count <= WindowSize - window
  <1> USE WindowAssumption
  <1>1. /\ TypeOK /\ head \in SeqNums /\ tail \in SeqNums
        /\ count \in Nat /\ BatchCapacity \in Nat
    BY DEF IInv, TypeOK
  <1>2. window \in SeqNums /\ count <= WindowSize - window
    BY <1>1, WindowType DEF AcceptBatch, HasSpace, SeqNums
  <1>3. head' = head /\ tail' = mod(tail + count)
    BY DEF AcceptBatch
  <1>4. count \in 0..Modulus /\ tail' \in SeqNums
    BY <1>1, <1>3, Advance
  <1>5. window' = window + count
    <2>1. tail' = IF tail + count < Modulus THEN tail + count ELSE tail + count - Modulus
      BY <1>1, <1>3, <1>4, Advance
    <2>2. window' = IF tail' >= head THEN tail' - head ELSE tail' - head + Modulus
      BY <1>1, <1>3, <1>4, Distance DEF window
    <2>3. window = IF tail >= head THEN tail - head ELSE tail - head + Modulus
      BY <1>1, Distance DEF window
    <2> QED
      BY <1>1, <1>2, <2>1, <2>2, <2>3 DEF SeqNums
  <1> QED
    BY <1>2, <1>5

\* It overwrites no slot of the window.
LEMMA AcceptKeepsWindow ==
    ASSUME IInv, NEW count \in 1..BatchCapacity, AcceptBatch(count)
    PROVE  IInv'
  <1> USE WindowAssumption, BoundAssumption
  <1>1. /\ TypeOK /\ head \in SeqNums /\ tail \in SeqNums /\ submitted \in 0..Frames
        /\ slots \in [SeqNums -> 0..Frames] /\ count \in Nat /\ BatchCapacity \in Nat
    BY DEF IInv, TypeOK
  <1>2. window \in SeqNums /\ count <= WindowSize - window /\ window <= submitted
    BY <1>1, WindowType DEF AcceptBatch, HasSpace, IInv, SeqNums
  <1>3. /\ submitted' = submitted + count /\ submitted' \in 0..Frames /\ head' = head
        /\ tail' = mod(tail + count)
    BY <1>1 DEF AcceptBatch
  <1>4. count \in 0..Modulus /\ tail' \in SeqNums
    BY <1>1, <1>3, Advance
  <1>5. window' = window + count
    BY AcceptExtendsWindow
  <1>6. ASSUME NEW s \in SeqNums
        PROVE  slots'[s] = IF mod(s - tail) < count
                           THEN submitted + 1 + mod(s - tail) ELSE slots[s]
    BY DEF AcceptBatch
  <1>7. slots' \in [SeqNums -> 0..Frames]
    <2>1. ASSUME NEW s \in SeqNums
          PROVE  slots'[s] \in 0..Frames
      <3>1. mod(s - tail) \in Nat
        BY <1>1, Distance DEF SeqNums
      <3> QED
        BY <1>1, <1>3, <1>6, <3>1
    <2> QED
      BY <2>1 DEF AcceptBatch
  <1>8. TypeOK'
    BY <1>1, <1>3, <1>4, <1>7 DEF AcceptBatch, TypeOK, feedbackVars, receiverVars, responseVars
  <1>9. WindowIntact'
    <2>1. window' <= WindowSize
      BY <1>2, <1>5 DEF SeqNums
    <2>2. ASSUME NEW i \in 0..(window' - 1)
          PROVE  slots'[mod(head' + i)] = submitted' - window' + 1 + i
      <3> DEFINE s == mod(head + i)
      <3>1. i \in 0..Modulus /\ i \in Nat
        BY <1>2, <1>5 DEF SeqNums
      <3>2. /\ s \in SeqNums
            /\ s = IF head + i < Modulus THEN head + i ELSE head + i - Modulus
        BY <1>1, <3>1, Advance
      <3>3. mod(s - tail) = IF s >= tail THEN s - tail ELSE s - tail + Modulus
        BY <1>1, <3>2, Distance
      <3>4. window = IF tail >= head THEN tail - head ELSE tail - head + Modulus
        BY <1>1, Distance DEF window
      <3> HIDE DEF s
      <3>5. CASE i < window
        <4>1. mod(s - tail) >= count
          BY <1>1, <1>2, <3>1, <3>2, <3>3, <3>4, <3>5 DEF SeqNums
        <4>2. slots'[s] = slots[s]
          BY <1>1, <1>6, <3>2, <3>3, <4>1 DEF SeqNums
        <4>3. slots[s] = submitted - window + 1 + i
          BY <1>2, <3>1, <3>5 DEF IInv, WindowIntact, s, SeqNums
        <4> QED
          BY <1>1, <1>2, <1>3, <1>5, <3>1, <4>2, <4>3 DEF s, SeqNums
      <3>6. CASE i >= window
        <4>1. mod(s - tail) = i - window /\ i - window < count
          BY <1>1, <1>2, <1>5, <3>1, <3>2, <3>3, <3>4, <3>6 DEF SeqNums
        <4>2. slots'[s] = submitted + 1 + (i - window)
          BY <1>6, <3>2, <4>1
        <4> QED
          BY <1>1, <1>2, <1>3, <1>5, <3>1, <4>2 DEF s, SeqNums
      <3> QED
        BY <1>2, <3>1, <3>5, <3>6 DEF SeqNums
    <2> QED
      BY <2>1, <2>2 DEF WindowIntact
  <1> QED
    BY <1>1, <1>2, <1>3, <1>5, <1>8, <1>9 DEF IInv, SeqNums

\* An acknowledgement within the window moves the head past the frame it names.
LEMMA AcknowledgementKeepsWindow ==
    ASSUME IInv, HandleAcknowledgement
    PROVE  IInv'
  <1> USE WindowAssumption
  <1>1. /\ TypeOK /\ head \in SeqNums /\ tail \in SeqNums /\ submitted \in Nat
        /\ acknowledged \in SeqNums \cup {-1}
    BY BoundAssumption DEF IInv, TypeOK
  <1>2. window \in SeqNums /\ window <= submitted /\ window <= WindowSize
    BY <1>1, WindowType DEF IInv, WindowIntact
  <1>3. tail' = tail /\ slots' = slots /\ submitted' = submitted
    BY DEF HandleAcknowledgement, historyVars
  <1>4. CASE InWindow(acknowledged)
    <2> DEFINE d == mod(acknowledged - head)
    <2>1. acknowledged \in SeqNums /\ d < window /\ head' = mod(acknowledged + 1)
      BY <1>1, <1>4 DEF InWindow, HandleAcknowledgement, SeqNums
    <2>2. d \in Nat /\ d = IF acknowledged >= head THEN acknowledged - head
                           ELSE acknowledged - head + Modulus
      BY <1>1, <2>1, Distance DEF SeqNums
    <2>3. /\ head' \in SeqNums
          /\ head' = IF acknowledged + 1 < Modulus THEN acknowledged + 1
                     ELSE acknowledged + 1 - Modulus
      <3>1. 1 \in 0..Modulus
        OBVIOUS
      <3> QED
        BY <2>1, <3>1, Advance
    <2>4. window = IF tail >= head THEN tail - head ELSE tail - head + Modulus
      BY <1>1, Distance DEF window
    <2>5. window' = IF tail' >= head' THEN tail' - head' ELSE tail' - head' + Modulus
      BY <1>1, <1>3, <2>3, Distance DEF window
    <2> HIDE DEF d
    <2>6. window' = window - (d + 1)
      BY <1>1, <1>2, <1>3, <2>1, <2>2, <2>3, <2>4, <2>5 DEF SeqNums
    <2>7. ASSUME NEW i \in 0..(window' - 1)
          PROVE  slots'[mod(head' + i)] = submitted' - window' + 1 + i
      <3>1. /\ d + 1 + i \in 0..(window - 1) /\ d + 1 + i \in 0..Modulus
            /\ i \in 0..Modulus /\ i \in Nat
        BY <1>2, <2>2, <2>6 DEF SeqNums
      <3>2. mod(head' + i) = mod(head + (d + 1 + i))
        <4>1. mod(head' + i) = IF head' + i < Modulus THEN head' + i
                               ELSE head' + i - Modulus
          BY <2>3, <3>1, Advance
        <4>2. mod(head + (d + 1 + i)) = IF head + (d + 1 + i) < Modulus
                THEN head + (d + 1 + i) ELSE head + (d + 1 + i) - Modulus
          BY <1>1, <3>1, Advance
        <4> QED
          BY <1>1, <1>2, <2>1, <2>2, <2>3, <3>1, <4>1, <4>2 DEF SeqNums
      <3>3. slots[mod(head + (d + 1 + i))] = submitted - window + 1 + (d + 1 + i)
        BY <3>1 DEF IInv, WindowIntact
      <3> QED
        BY <1>1, <1>2, <1>3, <2>2, <2>6, <3>1, <3>2, <3>3 DEF SeqNums
    <2>8. WindowIntact' /\ (window <= submitted)'
      BY <1>1, <1>2, <1>3, <2>2, <2>6, <2>7 DEF WindowIntact, SeqNums
    <2>9. TypeOK'
      BY <1>1, <2>3 DEF HandleAcknowledgement, TypeOK, receiverVars, responseVars, historyVars
    <2> QED
      BY <2>8, <2>9 DEF IInv
  <1>5. CASE ~InWindow(acknowledged)
    <2>1. head' = head
      BY <1>5 DEF HandleAcknowledgement
    <2>2. TypeOK'
      BY <1>1, <2>1 DEF HandleAcknowledgement, TypeOK, receiverVars, responseVars, historyVars
    <2> QED
      BY <1>3, <2>1, <2>2, WindowUnchanged DEF IInv
  <1> QED
    BY <1>4, <1>5

\* A transmission cycle sends only slots of the window, which hold frames.
LEMMA BurstInWindow ==
    ASSUME IInv, PublishMessages
    PROVE  \E frames \in Seq(OutwardFrames) :
              /\ Publish(frames)
              /\ cursor' \in SeqNums /\ holdoff' \in 0..CursorResetHoldoff
              /\ \A i \in 1..Len(frames) : \E place \in 0..(window - 1) :
                    frames[i] = Message(mod(head + place), slots[mod(head + place)])
  <1> USE WindowAssumption, BoundAssumption, ParameterAssumption
  <1>1. /\ TypeOK /\ head \in SeqNums /\ tail \in SeqNums /\ cursor \in SeqNums
        /\ submitted \in 0..Frames /\ outward \in Seq(OutwardFrames)
    BY DEF IInv, TypeOK
  <1>2. window \in SeqNums /\ window <= submitted
    BY <1>1, WindowType DEF IInv
  <1> DEFINE first == IF mod(cursor - head) >= window THEN head ELSE cursor
             available == mod(tail - first)
             message(i) == Message(mod(first + i - 1), slots[mod(first + i - 1)])
  <1>3. PICK count \in 1..available :
           /\ Publish([i \in 1..count |-> message(i)])
           /\ cursor' = mod(first + count)
           /\ holdoff' = IF count = available THEN 1 ELSE 0
    BY DEF PublishMessages
  <1>4. window = IF tail >= head THEN tail - head ELSE tail - head + Modulus
    BY <1>1, Distance DEF window
  <1> DEFINE d == mod(first - head)
  <1>5. /\ first \in SeqNums /\ d \in Nat /\ available \in SeqNums
        /\ d = IF first >= head THEN first - head ELSE first - head + Modulus
        /\ available = IF tail >= first THEN tail - first ELSE tail - first + Modulus
    <2>1. first \in SeqNums
      BY <1>1
    <2> HIDE DEF first
    <2>2. d \in SeqNums /\ available \in SeqNums
      BY <1>1, <2>1, Distance
    <2>3. /\ d = IF first >= head THEN first - head ELSE first - head + Modulus
          /\ available = IF tail >= first THEN tail - first ELSE tail - first + Modulus
      BY <1>1, <2>1, Distance
    <2> QED
      BY <2>1, <2>2, <2>3 DEF SeqNums
  <1>6. d < window
    <2>1. head # tail
      BY DEF PublishMessages
    <2>2. window > 0
      BY <1>1, <1>4, <2>1 DEF SeqNums
    <2>3. mod(cursor - head) \in SeqNums
      BY <1>1, Distance
    <2>4. mod(head - head) = 0
      <3>1. mod(head - head) = IF head >= head THEN head - head ELSE head - head + Modulus
        BY <1>1, Distance
      <3> QED
        BY <1>1, <3>1 DEF SeqNums
    <2> QED
      BY <1>2, <2>2, <2>3, <2>4 DEF SeqNums
  <1> HIDE DEF first, available, d, message
  <1>c. count \in 1..available
    BY <1>3
  <1>7. d + available = window
    BY <1>1, <1>4, <1>5, <1>6 DEF SeqNums
  <1>8. ASSUME NEW i \in 1..count
        PROVE  /\ message(i) \in OutwardFrames
               /\ \E place \in 0..(window - 1) :
                     message(i) = Message(mod(head + place), slots[mod(head + place)])
    <2>1. /\ i - 1 \in 0..Modulus /\ d + (i - 1) \in 0..Modulus
          /\ d + (i - 1) \in 0..(window - 1)
      BY <1>2, <1>c, <1>5, <1>7 DEF SeqNums
    <2>2. /\ mod(first + (i - 1)) \in SeqNums
          /\ mod(first + (i - 1)) = mod(head + (d + (i - 1)))
      <3>1. /\ mod(first + (i - 1)) \in SeqNums
            /\ mod(first + (i - 1)) = IF first + (i - 1) < Modulus THEN first + (i - 1)
                                     ELSE first + (i - 1) - Modulus
        BY <1>5, <2>1, Advance
      <3>2. mod(head + (d + (i - 1))) = IF head + (d + (i - 1)) < Modulus
              THEN head + (d + (i - 1)) ELSE head + (d + (i - 1)) - Modulus
        BY <1>1, <2>1, Advance
      <3> QED
        BY <1>1, <1>2, <1>5, <2>1, <3>1, <3>2 DEF SeqNums
    <2>3. slots[mod(first + (i - 1))] = submitted - window + 1 + (d + (i - 1))
      BY <2>1, <2>2 DEF IInv, WindowIntact
    <2>4. slots[mod(first + (i - 1))] \in 1..Frames
      BY <1>1, <1>2, <2>1, <2>3 DEF SeqNums
    <2>5. first + i - 1 = first + (i - 1)
      BY <1>5 DEF SeqNums
    <2>6. message(i) = Message(mod(first + (i - 1)), slots[mod(first + (i - 1))])
      BY <2>5 DEF message
    <2>7. message(i) \in OutwardFrames
      BY <2>2, <2>4, <2>6 DEF OutwardFrames
    <2>8. message(i) = Message(mod(head + (d + (i - 1))), slots[mod(head + (d + (i - 1)))])
      BY <2>2, <2>6
    <2> QED
      BY <2>1, <2>7, <2>8
  <1>9. count \in Nat
    BY <1>c, <1>5 DEF SeqNums
  <1> DEFINE frames == [i \in 1..count |-> message(i)]
  <1>10. frames \in Seq(OutwardFrames) /\ Len(frames) = count
    BY <1>8, <1>9
  <1>11. cursor' \in SeqNums /\ holdoff' \in 0..CursorResetHoldoff
    <2>1. count \in 0..Modulus
      BY <1>c, <1>5 DEF SeqNums
    <2> QED
      BY <1>3, <1>5, <2>1, Advance
  <1>12. \A i \in 1..Len(frames) : \E place \in 0..(window - 1) :
            frames[i] = Message(mod(head + place), slots[mod(head + place)])
    BY <1>8, <1>10
  <1>13. Publish(frames)
    BY <1>3
  <1> HIDE DEF frames
  <1> QED
    BY <1>10, <1>11, <1>12, <1>13

LEMMA MessagesAreFrames ==
    ASSUME IInv, PublishMessages
    PROVE  IInv'
  <1>1. PICK frames \in Seq(OutwardFrames) :
           Publish(frames) /\ cursor' \in SeqNums /\ holdoff' \in 0..CursorResetHoldoff
    BY BurstInWindow
  <1>2. TypeOK /\ outward' \in Seq(OutwardFrames)
    BY <1>1, ConcatProperties DEF IInv, TypeOK, Publish
  <1>3. TypeOK' /\ UNCHANGED <<head, tail, slots, submitted>>
    BY <1>1, <1>2
    DEF Publish, TypeOK, feedbackVars, receiverVars, responseVars, historyVars
  <1> QED
    BY <1>3, WindowUnchanged DEF IInv

-----------------------------------------------------------------------------
(* Every step keeps the inductive invariant.                               *)

\* The answers of a cycle are inward frames.
LEMMA ResponsesAreFrames ==
    ASSUME TypeOK
    PROVE  responses \in Seq(InwardFrames)
  <1>1. /\ Pong \in InwardFrames /\ Initialised \in InwardFrames
        /\ Uninitialised \in InwardFrames
        /\ respondAcknowledge >= 0 => Acknowledge(respondAcknowledge) \in InwardFrames
    BY DEF TypeOK, InwardFrames
  <1>2. <<>> \in Seq(InwardFrames)
    OBVIOUS
  <1> QED
    BY <1>1, <1>2, ConcatProperties DEF responses

LEMMA NextIInv == IInv /\ [Next]_vars => IInv'
  <1> SUFFICES ASSUME IInv, [Next]_vars PROVE IInv'
    OBVIOUS
  <1> USE DEF egressVars, feedbackVars, responseVars, receiverVars, historyVars
  <1>0. TypeOK /\ WindowIntact /\ window <= submitted
    BY DEF IInv
  <1>a. /\ outward # <<>> => Head(outward) \in OutwardFrames
                            /\ Tail(outward) \in Seq(OutwardFrames)
        /\ inward # <<>> => Head(inward) \in InwardFrames
                           /\ Tail(inward) \in Seq(InwardFrames)
    BY <1>0, HeadTailProperties DEF TypeOK
  \* Steps that leave the window alone need only keep the types.
  <1>b. ASSUME TypeOK', UNCHANGED <<head, tail, slots, submitted>>
        PROVE  IInv'
    BY <1>0, <1>b, WindowUnchanged DEF IInv
  <1>1. CASE \E count \in 1..BatchCapacity : AcceptBatch(count)
    BY <1>1, AcceptKeepsWindow
  <1>2. CASE HandlePongs
    BY <1>0, <1>2, <1>b DEF HandlePongs, TypeOK
  <1>3. CASE HandleAcknowledgement
    BY <1>3, AcknowledgementKeepsWindow
  <1>4. CASE HandleInitialisations
    BY <1>0, <1>4, <1>b DEF HandleInitialisations, TypeOK
  <1>5. CASE HandleUninitialisations
    BY <1>0, <1>5, <1>b, ParameterAssumption DEF HandleUninitialisations, TypeOK
  <1>6. CASE PublishBatch
    <2>1. ASSUME NEW frames \in Seq(OutwardFrames), Publish(frames), cursor' = cursor,
                 holdoff' \in 0..CursorResetHoldoff
          PROVE  IInv'
      <3>1. outward' \in Seq(OutwardFrames)
        BY <1>0, <2>1, ConcatProperties DEF Publish, TypeOK
      <3> QED
        BY <1>0, <2>1, <3>1, <1>b DEF Publish, TypeOK
    <2>2. holdoff \in 0..CursorResetHoldoff /\ head \in SeqNums /\ <<>> \in Seq(OutwardFrames)
      BY <1>0 DEF TypeOK
    <2>3. CASE PublishNothing
      BY <2>1, <2>2, <2>3 DEF PublishNothing
    <2>4. CASE PublishHoldoff
      <3>1. holdoff' \in 0..CursorResetHoldoff /\ cursor' = cursor
        BY <2>2, <2>4, ParameterAssumption DEF PublishHoldoff, Waiting
      <3> QED
        BY <2>1, <2>2, <2>4, <3>1 DEF PublishHoldoff
    <2>5. CASE PublishMessages
      BY <2>5, MessagesAreFrames
    <2>6. CASE PublishPing
      <3>1. <<Ping>> \in Seq(OutwardFrames)
        BY DEF OutwardFrames
      <3> QED
        BY <2>1, <2>2, <2>6, <3>1 DEF PublishPing
    <2>7. CASE PublishInitialise
      <3>1. <<Initialise(FirstSequence)>> \in Seq(OutwardFrames)
        BY <2>2 DEF OutwardFrames, FirstSequence
      <3> QED
        BY <2>1, <2>2, <2>7, <3>1 DEF PublishInitialise
    <2> QED
      BY <1>6, <2>3, <2>4, <2>5, <2>6, <2>7 DEF PublishBatch
  <1>7. CASE Feedback
    <2>1. Head(inward).kind = "ACKNOWLEDGE" => Head(inward).seq \in SeqNums
      BY <1>7, <1>a DEF Feedback, InwardFrames, Pong, Initialised, Uninitialised, Acknowledge
    <2>2. /\ pongs' \in Nat /\ initialisations' \in Nat /\ uninitialisations' \in Nat
          /\ acknowledged' \in SeqNums \cup {-1}
      <3>1. /\ pongs \in Nat /\ initialisations \in Nat /\ uninitialisations \in Nat
            /\ acknowledged \in SeqNums \cup {-1}
        BY <1>0 DEF TypeOK
      <3> QED
        BY <1>7, <2>1, <3>1 DEF Feedback
    <2>3. inward' \in Seq(InwardFrames)
      BY <1>7, <1>a DEF Feedback
    <2>4. UNCHANGED <<phase, egressVars, outward, receiverVars, historyVars, resets, losses>>
      BY <1>7 DEF Feedback
    <2>5. TypeOK' /\ UNCHANGED <<head, tail, slots, submitted>>
      BY <1>0, <2>2, <2>3, <2>4 DEF TypeOK
    <2> QED
      BY <2>5, <1>b
  <1>8. CASE Ingress
    <2>1. ASSUME outward # <<>>
          PROVE  /\ Head(outward).kind = "INITIALISE" => Head(outward).seq \in SeqNums
                 /\ Head(outward).kind = "MESSAGE" => /\ Head(outward).seq \in SeqNums
                                                     /\ Head(outward).frame \in 1..Frames
      <3>1. Head(outward) \in OutwardFrames
        BY <1>a, <2>1
      <3> QED
        BY <3>1 DEF OutwardFrames, Ping, Initialise, Message
    <2>2. CASE ProcessPing
      BY <1>0, <1>a, <2>2, <1>b DEF ProcessPing, Consume, TypeOK
    <2>3. CASE HandleInitialise
      <3>1. outward # <<>> /\ Head(outward).kind = "INITIALISE"
        BY <2>3 DEF HandleInitialise, Consume
      <3>2. accept' = Head(outward).seq /\ outward' = Tail(outward)
        BY <2>3 DEF HandleInitialise, Consume
      <3>3. accept' \in SeqNums /\ outward' \in Seq(OutwardFrames)
        BY <1>a, <2>1, <3>1, <3>2
      <3> QED
        BY <1>0, <2>3, <3>3, <1>b DEF HandleInitialise, Consume, TypeOK
    <2>4. CASE RejectMessage
      BY <1>0, <1>a, <2>4, <1>b DEF RejectMessage, Consume, TypeOK
    <2>5. CASE HandleMessage
      <3>1. mod(accept + 1) \in SeqNums /\ LastAccepted \in SeqNums
        <4>1. accept \in SeqNums /\ 1 \in 0..Modulus /\ 1 \in SeqNums
          BY <1>0, WindowAssumption DEF TypeOK, SeqNums
        <4> QED
          BY <4>1, Advance, Distance DEF LastAccepted
      <3>2. /\ accept' \in SeqNums /\ respondAcknowledge' \in SeqNums
            /\ log' \in Seq(1..Frames) /\ got' \subseteq 1..Frames
        <4>1. /\ outward # <<>> /\ Head(outward).kind = "MESSAGE"
              /\ Head(outward).seq \in SeqNums /\ Head(outward).frame \in 1..Frames
          <5>1. outward # <<>> /\ Head(outward).kind = "MESSAGE"
            BY <2>5 DEF HandleMessage, Consume
          <5> QED
            BY <2>1, <5>1
        <4>2. /\ accept \in SeqNums /\ log \in Seq(1..Frames) /\ got \subseteq 1..Frames
              /\ Append(log, Head(outward).frame) \in Seq(1..Frames)
          BY <1>0, <4>1, AppendProperties DEF TypeOK
        <4> QED
          BY <2>5, <3>1, <4>1, <4>2 DEF HandleMessage
      <3>3. outward' \in Seq(OutwardFrames)
        BY <1>a, <2>5 DEF HandleMessage, Consume
      <3>4. TypeOK' /\ UNCHANGED <<head, tail, slots, submitted>>
        BY <1>0, <2>5, <3>2, <3>3 DEF HandleMessage, Consume, TypeOK
      <3> QED
        BY <3>4, <1>b
    <2>6. CASE Respond
      <3>1. inward' \in Seq(InwardFrames)
        BY <1>0, <2>6, ResponsesAreFrames, ConcatProperties DEF Respond, TypeOK
      <3> QED
        BY <1>0, <2>6, <3>1, <1>b DEF Respond, TypeOK
    <2> QED
      BY <1>8, <2>2, <2>3, <2>4, <2>5, <2>6 DEF Ingress
  <1>9. CASE ResetReceiver
    <2>1. 0 \in SeqNums
      BY WindowAssumption DEF SeqNums
    <2>2. log' \in Seq(1..Frames)
      BY <1>9 DEF ResetReceiver
    <2>3. resets' \in 0..MaxResets
      <3>1. resets \in 0..MaxResets
        BY <1>0 DEF TypeOK
      <3>2. resets < MaxResets /\ resets' = resets + 1
        BY <1>9 DEF ResetReceiver
      <3> QED
        BY <3>1, <3>2, BoundAssumption
    <2> QED
      BY <1>0, <1>9, <2>1, <2>2, <2>3, <1>b DEF ResetReceiver, TypeOK
  <1>10. CASE LoseOutward \/ LoseInward
    <2>1. losses' \in 0..MaxLosses
      <3>1. losses \in 0..MaxLosses
        BY <1>0 DEF TypeOK
      <3>2. losses < MaxLosses /\ losses' = losses + 1
        BY <1>10 DEF LoseOutward, LoseInward
      <3> QED
        BY <3>1, <3>2, BoundAssumption
    <2>2. outward' \in Seq(OutwardFrames) /\ inward' \in Seq(InwardFrames)
      <3>1. outward \in Seq(OutwardFrames) /\ inward \in Seq(InwardFrames)
        BY <1>0 DEF TypeOK
      <3>2. CASE LoseOutward
        BY <1>a, <3>1, <3>2 DEF LoseOutward
      <3>3. CASE LoseInward
        BY <1>a, <3>1, <3>3 DEF LoseInward
      <3> QED
        BY <1>10, <3>2, <3>3
    <2>3. CASE LoseOutward
      <3>1. TypeOK' /\ UNCHANGED <<head, tail, slots, submitted>>
        BY <1>0, <2>1, <2>2, <2>3 DEF LoseOutward, TypeOK
      <3> QED
        BY <3>1, <1>b
    <2>4. CASE LoseInward
      <3>1. TypeOK' /\ UNCHANGED <<head, tail, slots, submitted>>
        BY <1>0, <2>1, <2>2, <2>4 DEF LoseInward, TypeOK
      <3> QED
        BY <3>1, <1>b
    <2> QED
      BY <1>10, <2>3, <2>4
  <1>11. CASE UNCHANGED vars
    BY <1>0, <1>11, <1>b DEF vars, TypeOK
  <1> QED
    BY <1>1, <1>2, <1>3, <1>4, <1>5, <1>6, <1>7, <1>8, <1>9, <1>10, <1>11
    DEF Next, Egress

-----------------------------------------------------------------------------
\* Whatever is lost, delayed or reset, both threads stay within their types.
THEOREM TypeCorrect == Spec => []TypeOK
  <1>1. IInv => TypeOK
    BY DEF IInv
  <1> QED
    BY <1>1, InitIInv, NextIInv, PTL DEF Spec

\* The window never overflows, and no slot is reused before its frame was
\* acknowledged, for every modulus, window and batch the constructor allows.
THEOREM WindowStaysIntact == Spec => []WindowIntact
  <1>1. IInv => WindowIntact
    BY DEF IInv
  <1> QED
    BY <1>1, InitIInv, NextIInv, PTL DEF Spec
=============================================================================
