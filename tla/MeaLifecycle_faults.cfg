SPECIFICATION Spec
CONSTANTS
  Worker = {w1, w2}
  Monitor = mon
  Stack = {s1, s2}
  None = none
  Requests <- AllRequests
  Monitored = TRUE
  Alarmed = TRUE
  FailFast = TRUE
  Faults <- AllFaults
  MaxRequests = 3
  MaxRestarts = 1
SYMMETRY Symmetry
CHECK_DEADLOCK FALSE
INVARIANTS TypeOK UpdateExclusive DeleteExclusive ServingHasInstance DeletedStackGone
PROPERTIES ImplementsContract
