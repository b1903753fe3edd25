\* One VIM, two deletions, everything that can fail.
SPECIFICATION FairSpec
CONSTANTS
  d1 = d1
  d2 = d2
  Deleter = {d1, d2}
  Ceilings = {3}
  Faults = {"mistral", "action", "lost", "conductor"}
INVARIANTS TypeOK ReportedIsRecorded LateReportIsLast
PROPERTIES MonitorEnds StatusFollows
