---------------------------- MODULE MCClientPages -----------------------------
(* Small instances of the pages.                                             *)
EXTENDS ClientPages
CONSTANTS a, b
MCTyped == [nickname |-> {b}, avatarUrl |-> {Empty}]
===============================================================================
