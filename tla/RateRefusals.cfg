\* A limited server and four requests of one caller: do those that are refused take tokens?
SPECIFICATION Spec
CONSTANTS
  fs = fs
  web = web
  main = main
  c1 = c1
  c2 = c2
  anon = anon
  nobody = nobody
  none = none
  t1 = t1
  t0 = t0
  a1 = a1
  home = home
  away = away
  direct = direct
  site = site
  noSite = noSite
  Name <- MCName
  Scheme = {"memory", ""}
  Tool <- MCTool
  Origin = {site}
  Address = {home, away}
  Caller = {c1, c2, anon}
  NoCaller = nobody
  Anonymous = anon
  Request = {r1, r2, r3, r4}
  Cost = 3
  Burst = 2
  Second = 2
  MaxTime = 5
  Script <- MCLimited
  None = none
  Token = {t1, t0}
  Issued = {a1}
  Owner <- MCOwner
  NoOrigin = noSite
  NoAddress = direct
  Queries <- MCQueries
  Arrivals <- MCArrivals
INVARIANT RefusalsTakeNothing
CHECK_DEADLOCK FALSE
