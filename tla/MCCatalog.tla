----------------------------- MODULE MCCatalog -----------------------------
(* A small instance of Catalog for TLC.  Descriptors and MEAs get their ids *)
(* in any order, so ids are interchangeable, and so are names and threads.  *)
EXTENDS Catalog, TLC

Interchangeable ==
  Permutations(Mead) \union Permutations(Mea) \union Permutations(Thread) \union Permutations(Name)
=============================================================================
