\* Region c crashes, times out and answers with errors; a and b are stable.
CONSTANTS
  p1 = p1  p2 = p2  t1 = t1  a = a  b = b  c = c
  create = create  update = update  delete = delete  createB = createB
  NoRow = NoRow
  Posts = {p1, p2}
  Tags = {t1}
  Regions = {a, b, c}
  Peers <- FullMesh
  EventIds = {create, delete, createB}
  Event <- MCEvent
  Home <- HomeRegion
  Prior <- InOrder
  Paced = TRUE
  HealthChecks = TRUE
  FaultKinds = {"crash", "timeout", "error", "reject", "duplicate"}
  MaxFaults = 2
  Flaky = {c}
SPECIFICATION FairSpec
INVARIANTS
  TypeOK
  SentOnce
  MissIsExplained
  Converged
  PriorDelivered
PROPERTIES
  StableDelivered
  ImplementsReplication
CHECK_DEADLOCK FALSE
