--------------------------- MODULE MCEditorClient ---------------------------
(* Model checking of EditorClient. *)
EXTENDS EditorClient
=============================================================================
