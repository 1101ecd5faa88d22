\* Two tasks over one slot, a client that polls and waits, two calls of Close, and
\* time for a task to end, age and be swept while the other one runs.
SPECIFICATION Safety
CONSTANTS
  t1 = t1
  t2 = t2
  t3 = t3
  c1 = c1
  c2 = c2
  k1 = k1
  k2 = k2
  Task <- MCTaskPair
  Client <- MCClient
  Closer <- MCCloser
  MaxConcurrent = 1
  TTL = 1
  Timeout = 1
  MaxTime = 3
SYMMETRY MCSymmetry
INVARIANTS
  TypeOK
  SlotsExact
  KeptForTTL
  CloseCancelsAll
  AnswersTrue
PROPERTIES
  WaitKeepsItsTask
  DrainWaits
\* The workload is finite: the system may stop.
CHECK_DEADLOCK FALSE
