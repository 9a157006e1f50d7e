---------------------------- MODULE MCPageState ----------------------------
(* A small instance of PageState. *)
EXTENDS PageState

CONSTANTS x, y, on, off, poll

\* A page of three levels with a sibling; both keys are used at each level.
SmallPage == [k \in {x, y} |->
    IF k = x THEN [j \in {x, y} |-> IF j = x THEN [i \in {x} |-> on] ELSE off]
    ELSE [j \in {x} |-> on]]
=============================================================================
