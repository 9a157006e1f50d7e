-------------------------- MODULE MCServiceRequests --------------------------
(* Small instances of ServiceRequests.                                     *)
EXTENDS ServiceRequests

\* The rectangle and the text of the screen, one frame; display.set, a frame per 64
\* fields, and a half row of the screen, one per 80 pixels; set_fields, which
\* sets a countdown of one however many frames it sends.
ScreenMethods == {[batches |-> 1, countdown |-> 1]}
DisplayMethods == {[batches |-> 1, countdown |-> 1], [batches |-> 2, countdown |-> 2]}
SetFieldsMethods == {[batches |-> 2, countdown |-> 1]}
=============================================================================
