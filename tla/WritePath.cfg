SPECIFICATION MCSpec
CONSTANTS
  w1 = w1  w2 = w2  p1 = p1  p2 = p2  u1 = u1  u2 = u2  u3 = u3
  Write = {w1, w2}
  Proc = {p1, p2}
  Server = p1
  Uri = {u1, u2, u3}
  Shared = {u1}
  Included <- MCIncluded
  WritePaths = {u1, u2, u3}
  Allow = {}
  Deny = {}
  WriteAllow = {u1, u2, u3}
  WriteDeny = {}
  WriteMode = "append"
INVARIANTS WrittenStaysWhole NoTextIsSplit FilesAreReadable
PROPERTIES WritesReturn
CHECK_DEADLOCK FALSE
