SPECIFICATION FairSpec
CONSTANTS
  Vim = {v1, v2}
  Mea = {m1}
  Worker = {w1}
  Updater = {w1}
  None = none
  UseBarbican = FALSE
  Faults <- AllFaults
  MaxKeys = 4

CHECK_DEADLOCK FALSE

PROPERTIES OldAuthStillUsed
