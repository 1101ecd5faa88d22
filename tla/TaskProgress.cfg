\* One task, two clients that wait and poll, two calls of Close, and time to spare:
\* what must come to an end does.
SPECIFICATION Spec
CONSTANTS
  t1 = t1
  t2 = t2
  t3 = t3
  c1 = c1
  c2 = c2
  k1 = k1
  k2 = k2
  Task <- MCOneTask
  Client <- MCClients
  Closer <- MCCloser
  MaxConcurrent = 1
  TTL = 1
  Timeout = 1
  MaxTime = 3
PROPERTIES
  ImplementsLifecycle
  WaitsEnd
  CloseEnds
\* The workload is finite: the system may stop.
CHECK_DEADLOCK FALSE
