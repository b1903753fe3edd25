SPECIFICATION FairSpec
CONSTANTS
  Node = {n1, n2}
  Worker = {w1, w2}
  Exec = {e1, e2, e3}
  NoExec = none
  NoIds = null
  Inline = FALSE
  NsdDeletable = FALSE
  Faults <- NoFaults
  MISTRAL_RETRIES = 2
  MaxDeletes = 2
  MaxRestarts = 0
CHECK_DEADLOCK FALSE
PROPERTIES NsPendingEnds
