--------------------------- MODULE MCPendingReview ---------------------------
(***************************************************************************)
(* Instances of PendingReview for TLC.                                     *)
(***************************************************************************)
EXTENDS PendingReview, TLC

\* Items and slots are only compared for equality.  (Safety runs only.)
MCSymmetry == Permutations(Items) \cup Permutations(Requests) \cup Permutations(Polls)
=============================================================================
