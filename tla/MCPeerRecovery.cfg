\* As deployed: nobody calls CheckHealth; one call to region c fails.
CONSTANTS
  p1 = p1  p2 = p2  t1 = t1  a = a  b = b  c = c
  create = create  update = update  delete = delete  createB = createB
  NoRow = NoRow
  Posts = {p1, p2}
  Tags = {t1}
  Regions = {a, b, c}
  Peers <- FullMesh
  EventIds = {create, delete}
  Event <- MCEvent
  Home <- HomeRegion
  Prior <- InOrder
  Paced = TRUE
  HealthChecks = FALSE
  FaultKinds = {"crash", "timeout", "error", "reject", "duplicate"}
  MaxFaults = 1
  Flaky = {c}
SPECIFICATION FairSpec
PROPERTY PeerRecovers
CHECK_DEADLOCK FALSE
