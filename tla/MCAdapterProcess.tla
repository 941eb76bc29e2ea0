-------------------------- MODULE MCAdapterProcess --------------------------
(* An adapter process that misbehaves a little. *)
EXTENDS AdapterProcess
=============================================================================
