----------------------------- MODULE MCCatalog -----------------------------
(* Small instances of Catalog for TLC. *)
EXTENDS Catalog

CONSTANTS w1, w2

MCThreads == {w1, w2}
=============================================================================
