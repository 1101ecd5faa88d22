\* A delegation and a poll, with one slot that another task may hold: refusals, hang-ups, deadlines, a
\* failed write of the audit file and a stop at any time.
SPECIFICATION Spec
CONSTANTS
  a1 = a1
  a2 = a2
  a3 = a3
  Fault = {f1}
  Poll = {p1}
  Other = {o1}
  MaxConcurrent = 1
  Backends <- MCBackends
  Agent = {a1, a2, a3}
  AnyAgent = AnyAgent
  MaxFaults = 1
INVARIANTS
  AnswersTrue
  LostOnlyToFaults
  GracefulStopLeavesNoTask
PROPERTIES
  LateMeansTimedOut
  CallsReturn
  StopEnds
\* The workload is finite: the system may stop.
CHECK_DEADLOCK FALSE
