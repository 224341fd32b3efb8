\* Three regions, one registration in each of two, any two failures.
CONSTANTS
  a = a  b = b  c = c  u1 = u1  u2 = u2  v1 = v1  v2 = v2
  NoEntry = NoEntry  NoRequest = NoRequest
  Regions = {a, b, c}
  Peers <- Chain
  Users = {u1, u2}
  Values = {v1, v2}
  Submissions <- OneEach
  MaxUpserts = 4
  FaultKinds = {"crash", "error", "lost", "reject", "unhealthy"}
  MaxFaults = 2
SPECIFICATION FairSpec
INVARIANTS
  TypeOK
  RetriesSurvive
PROPERTY EventuallyKnown
