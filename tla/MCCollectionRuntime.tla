------------------------ MODULE MCCollectionRuntime ------------------------
(* The collection runtime on small instances. *)
EXTENDS CollectionRuntime
=============================================================================
