--------------------------- MODULE MCAttachments ---------------------------
(* Model checking of Attachments. *)
EXTENDS Attachments
=============================================================================
