--------------------------- MODULE MCVimRegistry ---------------------------
(* Small instances of VimRegistry for TLC.                                  *)
EXTENDS VimRegistry, TLC

\* VIMs and MEAs are not told apart.
Symmetry == Permutations(Vim) \union Permutations(Mea)

AllFaults == FaultKind
=============================================================================
