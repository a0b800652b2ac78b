---------------------------- MODULE MCNoteCapture ----------------------------
(***************************************************************************)
(* Instances of NoteCapture for TLC.                                       *)
(***************************************************************************)
EXTENDS NoteCapture
=============================================================================
