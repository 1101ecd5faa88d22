\* One task and one Close: does Close wait for the goroutine of a Submit that has
\* left its critical section?
SPECIFICATION Safety
CONSTANTS
  t1 = t1
  t2 = t2
  t3 = t3
  c1 = c1
  c2 = c2
  k1 = k1
  k2 = k2
  Task <- MCOneTask
  Client <- MCNone
  Closer <- MCOneCloser
  MaxConcurrent = 1
  TTL = 1
  Timeout = 1
  MaxTime = 2
INVARIANTS
  ClosedMeansQuiet
\* The workload is finite: the system may stop.
CHECK_DEADLOCK FALSE
