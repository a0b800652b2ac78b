------------------------------ MODULE MCTagUsage ------------------------------
(***************************************************************************)
(* Instances of TagUsage for TLC.                                          *)
(***************************************************************************)
EXTENDS TagUsage

CONSTANTS a, b
MCWanted == {<<>>, <<a, b>>, <<b, a>>, <<a, a>>}
=============================================================================
