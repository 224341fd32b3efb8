\* One request at a time, no failures, an update that arrives after the deletion.
CONSTANTS
  p1 = p1  t1 = t1  w1 = w1  w2 = w2
  create = create  private = private  update = update  delete = delete
  stats = stats  stats2 = stats2  tag = tag  tagGone = tagGone  tagStats = tagStats  other = other
  NoRow = NoRow  NoEvent = NoEvent
  Posts = {p1}
  Tags = {t1}
  EventIds = {create, update, delete}
  Event <- MCEvent
  Before <- CreatedFirst
  Workers = {w1}
  Replicas = {w1}
  ReplicaOf <- OneReplica
  Sources = {"cross_sync"}
  RegionalPosts = {p1}
  MaxStats = 1
  FaultKinds = {}
  MaxFaults = 0
SPECIFICATION Spec
INVARIANT DeleteWins
