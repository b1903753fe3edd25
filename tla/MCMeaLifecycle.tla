--------------------------- MODULE MCMeaLifecycle ---------------------------
(* Small instances of MeaLifecycle for TLC.                                 *)
EXTENDS MeaLifecycle, TLC

\* Neither the API's threads nor Heat's stack ids are told apart.
Symmetry == Permutations(Worker) \union Permutations(Stack)

NoFaults  == {}
AllFaults == FaultKind

\* Failures the plugin handles wherever they happen.
DriverFaults == {"create", "delete"}

AllRequests    == RequestKind
=============================================================================
