---------------------------- MODULE MCNoteEditor ----------------------------
(***************************************************************************)
(* Instances of NoteEditor for TLC: no uploads are started in the editor.  *)
(***************************************************************************)
EXTENDS NoteEditor
=============================================================================
