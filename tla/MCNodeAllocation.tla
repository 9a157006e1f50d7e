-------------------------- MODULE MCNodeAllocation --------------------------
(* A small instance of NodeAllocation. *)
EXTENDS NodeAllocation

CONSTANTS lamp, screen, knob, x, y

\* Two modules whose UUIDs begin alike and end alike, and one that asks for an ID.
ModuleUuids ==
    [n \in Nodes |-> CASE n = lamp -> <<x, x, y>>
                       [] n = screen -> <<x, y, y>>
                       [] n = knob -> <<y, x, x>>]
=============================================================================
