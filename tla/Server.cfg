\* A server and its commands, started with thirty configurations; one request of every kind, and of a limited server five.
SPECIFICATION Spec
CONSTANTS
  fs = fs
  web = web
  main = main
  c1 = c1
  c2 = c2
  anon = anon
  nobody = nobody
  none = none
  t1 = t1
  t0 = t0
  a1 = a1
  home = home
  away = away
  direct = direct
  site = site
  noSite = noSite
  Name <- MCName
  Scheme = {"memory", ""}
  Tool <- MCTool
  Origin = {site}
  Address = {home, away}
  Caller = {c1, c2, anon}
  NoCaller = nobody
  Anonymous = anon
  Request = {r1, r2, r3, r4, r5}
  Cost = 3
  Burst = 2
  Second = 2
  MaxTime = 5
  Script <- MCScript
  None = none
  Token = {t1, t0}
  Issued = {a1}
  Owner <- MCOwner
  NoOrigin = noSite
  NoAddress = direct
  Queries <- MCQueries
  Arrivals <- MCArrivals
INVARIANTS
  AdmittedBounded
  NothingLeftOpen
  ServesSoundly
  ToolsGuarded
SYMMETRY MCRequest
\* Commands are given, requests are answered, and time is up: the system may stop.
CHECK_DEADLOCK FALSE
