\* The same calls: does a subagent that misses its deadline always end as timed out?
SPECIFICATION Safety
CONSTANTS
  a1 = a1
  a2 = a2
  a3 = a3
  Fault = {f1}
  Poll = {p1}
  Other = {o1}
  MaxConcurrent = 1
  Backends <- MCBackends
  Agent = {a1, a2, a3}
  AnyAgent = AnyAgent
  MaxFaults = 0
PROPERTY
  UnfinishedMeansTimedOut
CHECK_DEADLOCK FALSE
