\* Two registrations against one operator, who runs two commands one after the other;
\* crashes, restarts, reloads, and writes that fail at any point.
SPECIFICATION Spec
CONSTANTS
  a = a
  b = b
  r1 = r1
  r2 = r2
  p1 = p1
  Initial = {a}
  NewId = {b}
  Registration = {r1, r2}
  Cli = {p1}
  MaxCommands = 2
  NoLine = NoLine
  Junk = Junk
  None = None
SYMMETRY MCSymmetry
INVARIANTS
  RewriteIsAtomic
  CommandsLast
  LostOnlyToRewrite
  ClientsWereWritten
\* The workload is finite: the system may stop.
CHECK_DEADLOCK FALSE
