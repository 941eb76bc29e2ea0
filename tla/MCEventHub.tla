----------------------------- MODULE MCEventHub -----------------------------
(* The event hub on a small instance. *)
EXTENDS EventHub, TLC
=============================================================================
