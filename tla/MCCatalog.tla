----------------------------- MODULE MCCatalog -----------------------------
(* Catalog on a small instance. *)
EXTENDS Catalog

TwoVenues == 1 .. 2
=============================================================================
