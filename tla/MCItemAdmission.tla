-------------------------- MODULE MCItemAdmission ---------------------------
(***************************************************************************)
(* Instances of ItemAdmission for TLC.                                     *)
(***************************************************************************)
EXTENDS ItemAdmission, TLC

\* Items, keys and request slots are only compared for equality.  (Safety runs
\* only.)
MCSymmetry == Permutations(Items) \cup Permutations(Keys) \cup Permutations(Requests)
=============================================================================
