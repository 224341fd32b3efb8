\* Two replicas with one request each, every kind of failure.
CONSTANTS
  p1 = p1  t1 = t1  w1 = w1  w2 = w2
  create = create  private = private  update = update  delete = delete
  stats = stats  stats2 = stats2  tag = tag  tagGone = tagGone  tagStats = tagStats  other = other
  NoRow = NoRow  NoEvent = NoEvent
  Posts = {p1}
  Tags = {t1}
  EventIds = {create, private}
  Event <- MCEvent
  Before <- Unordered
  Workers = {w1, w2}
  Replicas = {w1, w2}
  ReplicaOf <- OwnReplica
  Sources = {"local_api", "mq"}
  RegionalPosts = {p1}
  MaxStats = 0
  FaultKinds = {"db", "redis", "crash", "expire"}
  MaxFaults = 2
SPECIFICATION Spec
SYMMETRY WorkerSymmetry
INVARIANTS
  TypeOK
  DedupSound
  AnswerSound
  IndexCompliant
  PublishSound
  ProcessedIsFed
  PublicationPending
PROPERTY ImplementsContract
