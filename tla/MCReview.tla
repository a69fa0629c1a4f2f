------------------------------ MODULE MCReview ------------------------------
(***************************************************************************)
(* Instances of the review queue: one event of each priority, two callers. *)
(***************************************************************************)
EXTENDS ReviewQueue

CONSTANTS t1, t2, n

Urgent == [type |-> "CascadeTruncated", priority |-> "High", nodes |-> {n}]
Routine == [type |-> "AmbiguousArbitration", priority |-> "Normal", nodes |-> {n}]

BothCases == {Urgent, Routine}
=============================================================================
