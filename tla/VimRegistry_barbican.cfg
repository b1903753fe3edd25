SPECIFICATION Spec
CONSTANTS
  Vim = {v1, v2}
  Mea = {m1}
  Worker = {w1, w2}
  Updater = {w1}
  None = none
  UseBarbican = TRUE
  Faults <- AllFaults
  MaxKeys = 3
SYMMETRY Symmetry
CHECK_DEADLOCK FALSE
INVARIANTS TypeOK CredentialKept

