--------------------------- MODULE MCNsLifecycle ---------------------------
(* Small instances of NsLifecycle for TLC.                                  *)
EXTENDS NsLifecycle, TLC

\* Nodes, threads and executions are not told apart.
Symmetry == Permutations(Node) \union Permutations(Worker) \union Permutations(Exec)

NoFaults  == {}
AllFaults == FaultKind
=============================================================================
