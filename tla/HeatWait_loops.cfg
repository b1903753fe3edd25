\* Three tries, and room for an event of an earlier signal beside the own one.
SPECIFICATION FairSpec
CONSTANTS
  Retries = 3
  MaxEvents = 3
INVARIANTS TypeOK WaitsTellTheTruth BlipsIgnored
PROPERTIES WaitsEnd
CHECK_DEADLOCK FALSE
