SPECIFICATION Spec
CONSTANTS
  Node = {n1, n2}
  Worker = {w1, w2}
  Exec = {e1, e2, e3}
  NoExec = none
  NoIds = null
  Inline = TRUE
  NsdDeletable = TRUE
  Faults <- AllFaults
  MISTRAL_RETRIES = 2
  MaxDeletes = 2
  MaxRestarts = 1
CHECK_DEADLOCK FALSE
SYMMETRY Symmetry
INVARIANTS TypeOK CreationNotOvertaken OneDeletion
PROPERTIES DeletedAreAsked ImplementsNsContract
