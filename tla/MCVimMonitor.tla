---------------------------- MODULE MCVimMonitor ----------------------------
(* A small instance of VimMonitor for TLC. *)
EXTENDS VimMonitor, TLC

CONSTANTS d1, d2

\* Threads have no identity.
Threads == Permutations(Deleter)
=============================================================================
