-------------------------- MODULE ReliableTransport --------------------------
(***************************************************************************)
(* What SerialDriver.submit promises its callers ("reliable transmission") *)
(* when the receiver may reset: frames 1..submitted enter in this order,   *)
(* each incarnation of the receiver gets a run of consecutive frames that  *)
(* starts at the first one not yet acknowledged, and a frame is            *)
(* acknowledged, and forgotten, only after some incarnation got it.        *)
(***************************************************************************)
EXTENDS Integers, Sequences

CONSTANTS
    Frames,         \* bound: frames submitted in a behaviour
    MaxPending      \* submitted and not yet acknowledged, at most

VARIABLES
    submitted,      \* frames 1..submitted were accepted for transmission
    settled,        \* frames 1..settled are acknowledged
    log,            \* what the present incarnation of the receiver got
    got             \* what any incarnation got

vars == <<submitted, settled, log, got>>

Init == submitted = 0 /\ settled = 0 /\ log = <<>> /\ got = {}

Submit ==
    \E n \in submitted + 1 .. Frames :
        /\ n - settled <= MaxPending
        /\ submitted' = n
        /\ UNCHANGED <<settled, log, got>>

NextFrame == IF log = <<>> THEN settled + 1 ELSE log[Len(log)] + 1

Deliver ==
    /\ NextFrame <= submitted
    /\ log' = Append(log, NextFrame)
    /\ got' = got \cup {NextFrame}
    /\ UNCHANGED <<submitted, settled>>

Settle ==
    \E n \in settled + 1 .. submitted :
        /\ settled + 1 .. n \subseteq got
        /\ settled' = n
        /\ UNCHANGED <<submitted, log, got>>

Reset == log' = <<>> /\ UNCHANGED <<submitted, settled, got>>

Next == Submit \/ Deliver \/ Settle \/ Reset

Spec == Init /\ [][Next]_vars
=============================================================================
