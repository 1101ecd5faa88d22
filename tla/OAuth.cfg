\* One code that is asked for with consent, two racing exchanges, two confidential clients and a
\* public one; or one exchange and a grant while clients are revoked, reloaded and brought back.
SPECIFICATION Spec
CONSTANTS
  alice = alice
  bob = bob
  claude = claude
  u1 = u1
  mcp = mcp
  sa = sa
  sb = sb
  v1 = v1
  Client = {alice, bob, claude}
  Redirect = {u1, u2}
  Scope = {mcp}
  Secret = {sa, sb}
  NoSecret = NoSecret
  Verifier = {v1, v2}
  DefaultScopes = {mcp}
  File <- MCFile
  Code = {k1}
  Exchange = {e1, e2}
  Grant = {g1}
  Reader = {r1}
  None = None
  Authorizations <- MCAuthorizations
  Requests <- MCRequests
  AutoApprove = FALSE
  CodeTTL = 0
  TokenTTL = 0
  MaxTime = 1
  MaxRemovals = 2
SYMMETRY MCSymmetry
CONSTRAINT MCWorkload
INVARIANTS
  CodeSpentOnce
  TokensMatchCodes
  RedirectsAreRegistered
  SecretGuardsCode
  CutOff
PROPERTIES
  TokensKept
\* The workload is finite: the system may stop.
CHECK_DEADLOCK FALSE
