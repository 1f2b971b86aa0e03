CONSTANTS
  Requests = {r1, r2, r3, r4}
  Core = {1, 2}
  JobLatency = 1
  ServiceLatency = {1, 2, 4}
  LastIssue = 2
SPECIFICATION Spec
CHECK_DEADLOCK FALSE
INVARIANTS WakeupScheduled InOnePlace
PROPERTIES OnTime AllComplete
