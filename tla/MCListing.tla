----------------------------- MODULE MCListing -----------------------------
(* The lists with up to four rows, on pages of two. *)
EXTENDS Listing

SomeIds == 1 .. 4
=============================================================================
