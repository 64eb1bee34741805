-------------------------- MODULE MCServiceWorker --------------------------
(* Model checking of ServiceWorker. *)
EXTENDS ServiceWorker
=============================================================================
