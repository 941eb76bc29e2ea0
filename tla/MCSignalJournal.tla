-------------------------- MODULE MCSignalJournal --------------------------
(* The signal journal on a small instance. *)
EXTENDS SignalJournal
=============================================================================
