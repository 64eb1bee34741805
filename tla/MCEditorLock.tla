---------------------------- MODULE MCEditorLock ----------------------------
(* Model checking of EditorLock and of its refinement of LeaseLock.  No    *)
(* symmetry: the run checks liveness.                                      *)
EXTENDS EditorLock
=============================================================================
