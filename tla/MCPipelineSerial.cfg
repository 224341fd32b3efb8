\* Two replicas, the deliveries of an event one at a time; Redis fails or forgets.
CONSTANTS
  p1 = p1  t1 = t1  w1 = w1  w2 = w2
  create = create  private = private  update = update  delete = delete
  stats = stats  stats2 = stats2  tag = tag  tagGone = tagGone  tagStats = tagStats  other = other
  NoRow = NoRow  NoEvent = NoEvent
  Posts = {p1}
  Tags = {t1}
  EventIds = {create, update, delete, stats, stats2, tag, tagGone, tagStats, other}
  Event <- MCEvent
  Before <- InParts
  Workers = {w1, w2}
  Replicas = {w1, w2}
  ReplicaOf <- OwnReplica
  Sources = {"cross_sync"}
  RegionalPosts = {p1}
  MaxStats = 1
  FaultKinds = {"redis", "expire"}
  MaxFaults = 1
SPECIFICATION Spec
CONSTRAINT SerialDeliveries
SYMMETRY WorkerSymmetry
INVARIANTS
  AppliedAtMostOnce
  DeleteWins
  CountsFollow
PROPERTY ImplementsContract
