\* A filesystem backend, a web search, of which either may fail at any point; four files of five kinds, one change; three filters and four budgets.
SPECIFICATION MCSpec
CONSTANTS
  fs = fs
  web = web
  u1 = u1
  u2 = u2
  u3 = u3
  u4 = u4
  w1 = w1
  pub = pub
  priv = priv
  NoURI = NoURI
  NoName = NoName
  Name <- MCName
  URI <- MCURI
  Tag = {pub, priv}
  Owner <- MCOwner
  Include = {}
  Exclude <- MCExclude
  Dotted <- MCDotted
  AutoTag <- MCAutoTag
  Sandbox = TRUE
  Backends <- MCBackends
  Kind <- MCKind
  Walk <- MCWalk
  OnDisk <- MCOnDisk
  Filters <- MCFilters
  Contexts <- MCContexts
  Format = {"", "markdown", "json"}
  Reply <- MCReply
  Asked <- MCAsked
  Sought = {"hit"}
  Limit <- MCLimit
  Slice <- MCSlice
  MarkerSize = 3
  Changing = {u1, u2}
  MaxChanges = 1
INVARIANTS
  AnswersMerged
  FoundIsReadable
  SecretsMasked
  SourcesAccounted
  WithinBudget
PROPERTIES
  CallsAnswered
\* A call is made and answered: the system may stop.
CHECK_DEADLOCK FALSE
