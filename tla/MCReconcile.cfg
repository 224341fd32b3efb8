\* A user moves while the reconciler of b is between reading and writing.
CONSTANTS
  a = a  b = b  c = c  u1 = u1  u2 = u2  v1 = v1  v2 = v2
  NoEntry = NoEntry  NoRequest = NoRequest
  Regions = {a, b}
  Peers <- Pair
  Users = {u1}
  Values = {v1, v2}
  Submissions <- Moves
  MaxUpserts = 2
  FaultKinds = {}
  MaxFaults = 0
SPECIFICATION Spec
PROPERTY SyncsMissingOnly
