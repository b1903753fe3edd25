SPECIFICATION FairSpec
CONSTANTS
  Worker = {w1, w2}
  Monitor = mon
  Stack = {s1, s2, s3}
  None = none
  Requests <- AllRequests
  Monitored = TRUE
  Alarmed = FALSE
  FailFast = FALSE
  Faults <- DriverFaults
  MaxRequests = 2
  MaxRestarts = 0
CHECK_DEADLOCK FALSE
INVARIANTS ActiveStackIsTheStack
PROPERTIES PendingEnds CountGrows
