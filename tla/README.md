# A TLA+ model of the global sync service

The service (Go, one deployment per region) keeps a *global index* of posts,
tags and users. The API of its own region sends it events about posts and tags;
it checks each against the GDPR rules, stores what may be stored, and broadcasts
it to the services of the other regions. This directory holds TLA+ modules that
model it, TLC instances that check them, and proofs for TLAPS. `PROJECT.json`
is the machine-readable index: which definition models which lines (`map`),
what each run checks, which hazard is covered by which property, and for each
property a plausible bug of the code that it catches (`mutants`).

All paths below are relative to the repository.

## 1. The system

| component | state it keeps | operations | talks to |
|---|---|---|---|
| Event model, `internal/model` | none | the event record and its enumerations | everyone |
| GDPR checker, `internal/service/gdpr_checker.go` | audit log table | `Check`, `AuditLogService.Log` | Postgres |
| Event log, `internal/service/event_log.go`, `pkg/redis` | table `sync_event_log`, Redis set `sync:event:processed` | `IsProcessed`, `MarkProcessed`, `ParseEvent` | Postgres, Redis |
| Sync handler, `internal/handler/sync_handler.go` | none of its own; broadcast goroutines | `HandleSync`, `HandleCrossSync`, `processEvent`, `routeEvent`, `handleStatsUpdated` | checker, log, index, feeds, cross-region sync |
| Queue consumer, `internal/consumer`, `pkg/rocketmq` | none | `HandleMessage` | as the handler |
| Global post and tag index, `internal/service/global_index.go`, `global_tag_index.go` | tables `global_post_index`, `global_tag_index` | insert, update, delete, counts | Postgres |
| Cross-region sync, `internal/sync/cross_sync.go` | map `sent` in memory | `Broadcast`, `sendToPeer` | peers, peer manager |
| Peer manager, `internal/peer` | `Healthy` flag per peer, in memory | `HealthyPeers`, `MarkHealthy`, `MarkUnhealthy`, `CheckHealth` | peers |
| User index, `internal/handler/user_index_handler.go` | table `users_global_index` | `HandleUpsertUser`, broadcast with retries | Postgres, peers |
| User index reconciler, `internal/sync/user_index_reconciler.go` | loop | `reconcile` | first peer, Postgres |
| Feed generator, `internal/service/feed_generator.go` | sorted sets `user:feed:*` in Redis | `GetFeed`, `HandleNewPost`, push, invalidation | Redis, index |
| Migrations, `pkg/migrate` | table `schema_migrations`, the schema | `Run` | Postgres |
| Server, `cmd/server`, `internal/server` | wiring | `New`, `Listen`, `Shutdown` | all |
| Configuration, health endpoints, Postgres pool, logger | none that changes | reads, probes, I/O | - |

The paths of an event: `POST /sync/content` (the region's own API),
`POST /sync/cross-sync` (a peer's broadcast) and the message queue (a consumer
that exists but is not started by `cmd/server`) lead to the same sequence:
`IsProcessed`, `Check` and audit, `routeEvent` (one to three SQL statements),
`MarkProcessed`, answer. Only `POST /sync/content` starts a broadcast, in a
goroutine nobody waits for.

What is hard: no lock, transaction or unique constraint spans that sequence, so
requests with one event or one post interleave at every call, in one replica and
across replicas; any call may fail or take effect and lose its reply, some
errors are ignored on purpose; the sets and flags that steer the sending live in
memory and go with the process; goroutines to one peer are unordered; caches are
filled from queries that are stale by the time they are written; replicas
migrate one database at the same time; a process that shuts down closes its
databases before it stops taking requests. Two sequential pieces are easy to get
wrong as well: the byte loops over a post's content and the digits of an id.

What makes each part correct:

* pipeline: no event is lost to deduplication, no success is answered too early,
  nothing forbidden reaches the index or a peer, nothing received is sent on;
* cross-region sync: one send per event, peer and process; one peer's failure
  does not touch another; what was sent and not refused arrives; both sides agree;
* user index: entries survive fewer failures than there are retries, and the
  reconciler repairs what was lost, adding only what is missing;
* feeds: nothing is cached for ever, and stale feeds do not last;
* migrations: the schema grows in order, data is not dropped, replicas start;
* text helpers: a post has the hashtags its text shows, its preview can be stored,
  a number from a request is the number that was written.

## 2. The modules

| module | what it models | used by |
|---|---|---|
| `SyncEvent` | the event and `GDPRChecker.Check` | all that handle events |
| `SyncPipeline` | one region's pipeline, call by call, with failures and crashes; the properties and the inductive invariant | `MCSyncPipeline`, proofs |
| `SyncContract` | the abstract specification: the index changes by whole effects of permitted events, answers and publications follow them | instantiated by `SyncPipeline` |
| `SyncPipelineProofs`, `CrossSyncProofs`, `UserIndexProofs`, `FeedCacheProofs`, `MigrationsProofs`, `TextHelpersProofs` | the theorems about the module they are named after; the first two hold the refinements as well | - |
| `DeliveryProofs` | what the pipeline delivers: to the peers, once, finally, and counts that follow the region; extends `SyncPipelineProofs` | - |
| `ConvergenceProofs` | that the regions of `CrossSync` converge and receive in order; extends `CrossSyncProofs` | - |
| `CrossSync` | several regions, their broadcasts, health flags and the network | `MCCrossSync` |
| `Replication` | the abstract specification of the exchange: an event spreads from its home, whole, and is never forgotten | instantiated by `CrossSync` |
| `UserIndex` | the user index of several regions: upserts, broadcasts with retries, reconcilers | `MCUserIndex` |
| `FeedCache` | the three cached feeds of one user, with calls that fail | `MCFeedCache`, `FeedPaging` |
| `FeedPaging` | a client that walks one feed by cursor, on top of `FeedCache` | `MCFeedPaging` |
| `Migrations` | replicas that migrate one database when they start | `MCMigrations` |
| `TextHelpers` | hashtags, preview and the numbers of the GET endpoints, byte by byte | `MCTextHelpers` |

Both abstract specifications say "whole effects only"; `SyncContract` does so for
the columns of one region's tables, `Replication` for where events come from.
`SyncPipeline` and `CrossSync` meet at `Broadcast`: the former records that the
event went to the peers and in `sent`, the latter takes the sending apart and
has the pipeline of a region as one step (`Process`), in the way `SyncContract`
describes it.

### SyncPipeline

A worker is a request goroutine. `pc` names the next call: one action per call to
Postgres or Redis, in the order of `processEvent`. `val` is the local variable
that `handleStatsUpdated` carries from one database to the other. `eventLog`,
`processedSet`, `auditLog`, `postIndex`, `tagIndex` are the tables and the Redis
set; `goroutines` and `sent` are the memory of a replica. `applied`, `fed`,
`answered` and `published` are history for the properties, and so are three variables
about counts: `notice` (was a count event first sent after the last change of the
regional counts?), `overtaken` (requests since whose reading another one wrote the
counts) and `behind` (posts whose row came later than the last counts, or got its
counts from an overtaken request).

Choices that a reader should know:

* `Call(w, store, outcome)`: a call succeeds, fails, or takes effect and loses its
  reply; the latter two consume one of `MaxFaults`. What the code does then is
  the code's: the audit error is ignored, a route error goes to `markFailed`, an
  error of `MarkProcessed` skips the Redis mark and is answered with success.
* A row is reduced to *which event wrote which columns*: `content`, `origin`
  (what only the insert sets: consent, category), `stats`. It is what tells a
  correct upsert from one that overwrites too much.
* "Answered" is the moment `processEvent` returns nil; starting the goroutine
  and returning are one action (`Reply`), as nothing observable is between them.
* Requests the handlers refuse with 400 (bad JSON, missing fields) change nothing
  and are not modelled. `ParseEvent`, which turns away a tag event from the
  queue, is the guard `Parseable`.
* `RegionalChange` is the regional service: likes and comments come and go, so the
  counts of a post, one number here, take any value up to `MaxStats` and change
  without a bound on how often.
* The set of processed ids has one TTL: `ExpireProcessedSet` drops it whole.
* `Shutdown` is `Server.Shutdown`, one resource per step: the two pools of
  Postgres, Redis, the listener (`ClosedAt`). From then on every new call of a
  request to a closed pool fails, without using up `MaxFaults`, while requests
  are still taken in until the last step. `Exit` is the end of `main`: the HTTP
  server has no request left, or its 30 s are over. A shutdown and a crash end
  alike (`Stop`); `cutOff` notes the events that were logged, or about to be
  answered, and not yet handed to the peers.

### CrossSync

`Submit` is `HandleSync` up to the goroutine, `Resubmit` a second delivery that
got past `IsProcessed` (the race the pipeline has). `Broadcast` looks at `sent`
and at the flags and posts to the healthy peers; a call is in `calls` as long as
its goroutine waits, the request and the answer travel in `requests` and
`responses`. `Timeout` ends the call while the peer may still handle the request;
`Return` reacts to 2xx, 4xx, 5xx and refused connections as `sendToPeer` does.
`HealthChecks` says whether somebody calls `CheckHealth`; in the server nobody
does. A region of `Flaky` that is up may fail the check, too: `/health` answers 503
while its databases do not answer. Only regions in `Flaky` fail. `Process`, the
pipeline of a region as one step, is atomic where a handler succeeds: an effect
that is not logged is an error answer here (`ReceiveFails`) and, at home,
`Resubmit`. The other case, an ignored error of `MarkProcessed`
(`internal/handler/sync_handler.go:261`), is in `SyncPipeline`. Here it would show
only in an event that the same peer is sent twice, from two lives of its home, which
takes three failures: one more than the run allows.

### UserIndex

`Submit` and `Handle` are `HandleUpsertUser` for the API and for a peer's
request; both start a broadcast, so entries echo between regions, and
`MaxUpserts` bounds how many there are. A goroutine walks `todo`, the peers that
are left, with `attempt`; after `maxRetries` failures or a 4xx it goes on with
the next. Being unhealthy is a choice at the start of the API's broadcast only,
where it can excuse a miss. The reconciler is fetch, local read, one upsert per
missing entry, and again; it knows the first configured peer only.

### FeedCache

Posts are numbered by age, a sorted set is a set, its expiry a member of `ttl`.
`cacheFeedItems` is three commands, each a step; `invalidateGlobalFeedCache`
(SCAN, then DEL) amounts to one `Del` for the single user that is modelled.
Scores depend on the clock and are left open, trending queries may answer
anything. Any command may fail, and the code ignores its error (`Lost`); an
`AddToFeed` that fails, with or without effect, ends the push without an expiry
(`PushFails`); a request may end between any two commands (`Abort`: a failing
query, a cancelled context, a dead process). A creation may be delivered again,
because its first answer was lost, and runs `HandleNewPost` a second time, also
after the deletion of its post, which it undoes (`Recreate`). `blamed` is history: the feeds that
were left without an expiry by such a failure and have got none since.

### FeedPaging

The client of `HandleGetFeed`: as long as a page says `hasMore` it asks for the
next. The cursor is not in the state, because no line of the code reads it.
The module adds the client's four variables to `FeedCache` and joins its requests
to those of `FeedCache` (`AskIndex` is a `Read`, `Answer` a `Query`).

### TextHelpers

A request is one of three loops: `extractHashtags` with the preview and the insert
behind it, `parseInt64` for an id in a path, `parseIntParam`. One action is one
turn of a loop. A text is a sequence of bytes, a byte one of the characters the
code compares with, a UTF-8 lead byte (`Width` gives its length) or a
continuation byte; `Half` is the width of an int64. Postgres takes what is UTF-8
and has no NUL (`Accepts`).

### Migrations

A file's effect and its row in `schema_migrations` are two steps of `Run`; the
copy of the table that `Run` works from is read once. Two facts about the SQL
are kept: which files drop and create a table (`Rebuilds`), and which fail once
another, or they themselves, have taken effect (`Conflicts`).

## 3. The runs

Every run names its constants in its `.cfg`; the first line there says what the
instance is. Almost all bounds are in guards: `MaxFaults` in `Fault`, `MaxStats` in
`RegionalChange` (the largest count), `MaxUpserts`, `MaxPost`, `MaxRows` in the actions that count;
`MaxContent` and `MaxNumber` bound the texts of `TextHelpers`. `pipeline_serial` alone has
a CONSTRAINT, `SerialDeliveries`: its first half is the hypothesis of its properties,
`OneRequestPerEvent`, its second, `FewForgotten`, a bound.

| run | instance | what it shows |
|---|---|---|
| `pipeline_faults` | 2 replicas with a worker each, a creation and a denied update, API and queue, 2 failures of any kind | `DedupSound`, `AnswerSound`, `IndexCompliant`, `PublishSound`, `ProcessedIsFed`, `PublicationPending`, and that the pipeline implements `SyncContract` |
| `pipeline_serial` | 2 replicas with a worker each, 9 events of every type, two of them about counts, each event in one request at a time, deletions last, Redis fails or forgets once | `AppliedAtMostOnce`, `DeleteWins`: what the design documents promise holds when the deliveries of an event are serial, and the log table alone carries it; `CountsFollow`: the counts of the index rise and fall with the region's, with two count requests at a time; the refinement for every kind of event |
| `pipeline_retry` | 2 workers of one replica, retrying senders at the local API, any 2 of: failing calls, a crash, an expiry of the set, a shutdown, its deadline | `EventuallyApplied`, `AnsweredIsPublished`, `ImplementsContract` |
| `cross_sync` | 3 regions in a full mesh, 3 events on 2 posts with homes in 2 regions, 2 failures of one region | `SentOnce`, `MissIsExplained`, `Converged`, `PriorDelivered`, `StableDelivered`, and that the regions implement `Replication` |
| `user_index` | 3 regions, 2 registrations, 4 upserts, 2 failures | `RetriesSurvive`, `EventuallyKnown` |
| `feed_cache` | 2 requests, 2 posts, one by a celebrity, limits 1 and 2, 1 failure or redelivery | `ExpiryPending`, `CachesCatchUp` |
| `migrations` | 2 replicas, 5 files, 2 failures | `InOrder`, `RowsLostToStaleCopy`, `StartsUpUnlessWedged` |
| `text_helpers` | every UTF-8 content of up to 5 bytes over 7 kinds of byte, cut at 3; every string of up to 4 characters over 4 digits and a letter, 6-bit integers | `HashtagsExact`, `RefusedIfCutInsideRune`, `PathReadModulo`, `LimitPositive` |
| `delete_wins`, `peer_recovery`, `reconcile_overwrites`, `feed_paging` | small | the four disagreements of section 6 |

Why the bounds suffice for what the runs ask: the races of the pipeline are
between two requests that share an event or a row, and the state that links them
(log, set, row) is per event and per key, so a third worker repeats what two do;
two failures are enough for one to damage and another to hit the repair (in
`pipeline_retry` the second can be the deadline of a shutdown, or a call that
fails before it). `pipeline_serial` keeps the deliveries of one
event apart because two of them at a time both pass `IsProcessed` and both write;
requests with different events overlap, so one count request can overtake another.
`FewForgotten` stops a behaviour in which Redis has lost several events and several
others are back: the log is per event, so one that is forgotten shows what the next
would. The
proofs of section 5 remove the bounds for the invariants and the refinement.
`user_index` has `MaxFaults = 2`, just below the three attempts of a send, which
is what `RetriesSurvive` is about; with four upserts both registrations are
stored by their home and by one peer each, or one is echoed. In `cross_sync`
two failures allow a crash and a failing call of the crashed region, or a
duplicate and a timeout; two posts make the events of two regions independent.
In `feed_cache` two posts are one that the cache has and one that it lacks, two
requests are a fill and whatever comes between its commands, and the failure can
hit either. In `text_helpers` five bytes hold two tags, an empty one and a '#' at
the end, or a rune on either side of the cut; four digits wrap around 6 bits. In
`migrations` the five files are 001, 010, 011, 013 and 016, one of each kind, and
the second failure can hit the restart after the first.

Symmetry is used over `Workers` only, in the two pipeline runs without liveness:
there the constants (`ReplicaOf`, `Replicas`) are either the identity on workers or
the same for all, so that a permutation maps behaviours to behaviours.

Deadlock is checked everywhere except where the system may stop:
`cross_sync` and `peer_recovery` (all events submitted and delivered) and
`migrations` (every replica serves and `MaxRows` is reached).

### Fairness

* Pipeline (`Fairness`): a started goroutine runs and its calls return, as their
  contexts have deadlines (weak fairness of `Step`, `Broadcast`). A shutdown that
  has begun goes on to its end, and `main` returns once the requests have (weak
  fairness of the later steps of `Shutdown`, and of `Exit`); whether one begins is
  open. A sender that has no success yet sends again: the queue redelivers, the
  regional API retries (strong fairness of `Redeliver`, since a worker is free only
  now and then). Nothing is assumed of the failures: they are bounded.
* CrossSync: goroutines run, requests are delivered or refused, answered calls
  return, the orchestrator restarts a dead process. Sources need not submit;
  `CheckHealth` is not fair, as nobody calls it.
* UserIndex: the reconciler's loop only. The broadcasts are not assumed to get
  anywhere, so `EventuallyKnown` is the reconciler's achievement.
* FeedCache: requests go on to their end, keys with an expiry expire. The latter presumes that
  no key is renewed for ever; fills happen on a miss only, and pushes are finite.
* Migrations: a replica that is down is started again and runs on.

## 4. Reading the properties

* `DedupSound`: whatever `IsProcessed` can say "processed" from is true. The
  danger is an event that is turned away on its retry without ever having been
  applied.
* `AnswerSound`: a success ends the sender's retries, so it must not come before
  the effect.
* `IndexCompliant`: `content` and `origin` of a row may come from two events, as
  the upsert keeps `user_consent` and `data_category`; both must be permitted,
  by the rules in the checker's own comment (`MayLeaveRegion`), not by `Check`.
* `ProcessedIsFed`: a crash between the insert and the feed step must leave the
  event open.
* `PublishSound`: together with `Reply`'s condition on the source this is why a
  broadcast cannot circulate.
* `ImplementsContract`: the refinement. It also says what never happens: partial
  rows, rows of other keys touched, counts reset by an upsert.
* `AppliedAtMostOnce`, `DeleteWins` are false of the pipeline as
  it stands: two deliveries of one event both pass `IsProcessed`, and an update that
  comes after a deletion inserts the post again. They hold under hypotheses that
  are named in the module: `PostgresSteady` (Postgres answers, no process ends;
  Redis may do anything), `OneRequestPerEvent`, `DeletionsLast`. The run
  `pipeline_serial` satisfies all three; the theorems need only
  the hypotheses they state, for any number of workers and replicas.
* `CountsFollow`: A1.1 to A1.5 of the sync test plan, likes and unlikes, with no
  hypothesis on what overlaps or fails. A count event that was sent after the last
  change and answered leaves the row with the region's counts. Its last alternative,
  `behind`, names the two gaps of the code: a count event that came before the
  insert of its post, and a request that wrote a reading another one had overtaken
  (so that an unlike can stay uncounted). Both last until a count event has the
  row to itself. The property says that there is no third: no retry, duplicate,
  upsert, expiry or crash brings old counts back.
* `PublicationPending` is the safety half of `AnsweredIsPublished`: at every moment
  an answered event is with the peers, or something that will bring it there
  exists, or a process that ended took it along (`cutOff`). Its last alternative
  is a gap of the code: an event that the queue or a peer delivers first is not
  broadcast, and the local API, which finds it processed, does not either.
* `AnsweredIsPublished`: the goroutine that broadcasts is started on every path
  that ends in success, and runs to its end; only the end of the process between
  the log entry and the broadcast can lose an event to the peers.
* `EventuallyApplied` speaks of events whose content the database can store: one
  whose preview is cut inside a rune fails on every retry, which is what
  `RefusedIfCutInsideRune` is about.
* `MissIsExplained`: an event missing at a peer has a failed call *to that peer*
  or a crash of the sender as its reason.
* `Converged` needs a source that waits until the broadcasts of its earlier
  events are over (`Paced`); the goroutines of two events are not ordered.
* `PriorDelivered`: `Paced` waits for the *end* of the earlier calls, not for their
  success. That a peer nevertheless has no gap is what the sending achieves: a call
  that ends without the event arriving leaves blame, and no other peer's flag
  keeps the event back.
* `ImplementsReplication`: no region has an event its home does not have, none
  passes on what it received, and a peer that answers 500 has not logged the event.
* `RowsLostToStaleCopy`: a rebuild that costs rows is run by a replica whose copy
  of `schema_migrations` was overtaken, never by one that restarts.
* `StartsUpUnlessWedged`: what remains is a crash between 016 and its row; the
  file cannot run again, and no restart gets past it.
* `RetriesSurvive`: a lost answer and an error of a peer cost one attempt each, and
  each attempt is counted against one peer; two failures are survived whoever they
  hit.
* `ExpiryPending`, `CachesCatchUp`: three commands that are not atomic leave a key
  without an expiry between two of them. Another request may push, fill or delete
  there; only a failure of the command itself, or the end of its request, may
  leave the key as it is (`blamed`).
* `RefusedIfCutInsideRune`: both directions. A content that is cut inside a rune is
  refused, and no other is, NULs apart.
* `PathReadModulo`, `LimitPositive`: `parseInt64` has no bound, so an id of 20 digits
  is read as another id; `parseIntParam` looks at the sign after the overflow, so
  its limit is never negative.

## 5. What is proved

For all values of the constants that satisfy the modules' named assumptions (the
shapes of the parameters: events are well-formed records, workers belong to
replicas, no region is its own peer, bounds are naturals, the absent row is not a
row, contents are UTF-8); nothing is assumed of failures, schedules or sizes beyond
what the statement says:

| module | theorem | statement |
|---|---|---|
| `SyncPipelineProofs` | `TypeCorrect`, `Invariance` | `[]TypeOK`, `[]Inv` |
| | `DedupSafe`, `AnswerSafe`, `PublishSafe`, `FedSafe`, `ComplianceSafe` | `[]DedupSound`, `[]AnswerSound`, `[]PublishSound`, `[]ProcessedIsFed`, `[]IndexCompliant` |
| | `Implementation` | `Spec => ImplementsContract` |
| `DeliveryProofs` | `HandOverSafe` | `[]PublicationPending` |
| | `AppliedOnce` | `PostgresSteady` and `[]OneRequestPerEvent` give `[]AppliedAtMostOnce` |
| | `DeletionsFinal` | these and `DeletionsLast` give `[]DeleteWins` |
| | `CountsCurrent` | `[]CountsFollow` |
| `CrossSyncProofs` | `TypeCorrect`, `Invariance`, `SendsOnce`, `MissesExplained` | `[]TypeOK`, `[]Inv`, `[]SentOnce`, `[]MissIsExplained` |
| | `Replicates` | `Spec => ImplementsReplication` |
| `ConvergenceProofs` | `DeliversInOrder` | `[]PriorDelivered` |
| | `OrderInvariance`, `Convergence` | `OrderedSource` gives `[](Inv /\ OrderInv)`, `[]Converged` |
| `MigrationsProofs` | `TypeCorrect`, `Invariance`, `Ordered`, `LossIsStale` | `[]TypeOK`, `[]Inv`, `[]InOrder`, `RowsLostToStaleCopy` |
| `UserIndexProofs` | `TypeCorrect`, `RetriesSuffice` | `[]TypeOK`, `[]RetriesSurvive` |
| `FeedCacheProofs` | `TypeCorrect`, `NeverCachedForEver` | `[]TypeOK`, `[]ExpiryPending` |
| `TextHelpersProofs` | `TypeCorrect`, `HashtagsCorrect`, `PreviewRefused` | `[]TypeOK`, `[]HashtagsExact`, `[]RefusedIfCutInsideRune` |
| | `PathsRead`, `LimitsPositive` | `[]PathReadModulo`, `[]LimitPositive` |

### The pipeline

`DedupSound` alone is not inductive: `MarkProcessed` writes
"processed" for whatever event the worker has, so the proof must know that a
worker at that label has an event that took effect. `Inv` adds what each
label says about the event (`RequestInv`), which statement belongs to which type
(`RouteInv`), what the log and the set, the answers and the broadcasts say
(`LogInv`, `AnswerInv`, `PublishInv`), and what wrote a row (`RowInv`). They all
speak of one predicate, `Done(e)`: permitted, took effect, fed if it is a new
post. No step undoes `Done`, since `applied` and `fed` only grow; so a step has to
be examined only for the worker that moves and for the events it newly marks.
A crash, or the exit after a shutdown, only resets workers and removes goroutines;
a closed pool is one more way for a call to fail. `TypeOK` is proved first, by
itself, and used as a lemma.

The refinement maps `applied` to the set of events with a positive count. A step
of the pipeline is one of: a statement that took effect, which is `Apply` (by
`Inv` the event is permitted and the statement fits its type); a success, which
is `Answer`; `Broadcast`, which is `Publish`; anything else is a stutter, and so is
`Broadcast` of an event in `sent`. `UpdatePost` without a row goes on to
`InsertPost` and does not count.

Delivery (`DeliveryProofs`). `PublicationPending` is about answered events, but an event is
answered also because the log or the Redis set has it; so `HandOverInv` claims the
same of whatever they hold as processed, and of the request that copies a log
entry back into the set (`repopulate`). Only local API requests reach `Reply` with
a broadcast; the others put their event among the answered. `sent` makes
`Broadcast` skip an event, which is harmless since an event in `sent` is published.

`AppliedAtMostOnce` needs to know what a request that is about to apply an event can rely
on: `OnceInv` says that an applied event is in the log, or with the one request
between its effect and its entry, so that a request past `IsProcessed` has an
event that was not applied. This is where `PostgresSteady` is needed (an entry is
never refused) and `OneRequestPerEvent`; Redis is not in the invariant, because
what the set says is true in any case (`DedupSound`) and what it forgets the log
still has. `DeleteWins` follows with `OrderInv`: all that could bring the row back
had been answered before the deletion was sent, so it is done, and by
`AppliedAtMostOnce` it is not applied again.

`CountsFollow` needs to know what the requests carry that have read the counts and
not yet written them (`ReadingInv`). A request of the current event itself, sent
after the last change, has the region's counts. Any other may have older ones, until
the current event has taken effect: whoever has an old reading then is overtaken, as
the write of the current event overtook it, and whoever reads later reads the
present counts. So a write after that leaves either these counts or the post in
`behind` (`CountInv`); upserts and updates do not touch the counts of a row, and a row
that appears is in `behind` at once. No hypothesis is used: a failed or repeated request
reads again, and what the deduplication turns away writes nothing.

### The other components

CrossSync. `SentOnce` counts calls, which says nothing about the next one; the
invariant adds that a counted message, and one that is waited for, has its event
in `sent` (`SentInv`). `MissIsExplained` needs the same for what has left the
goroutine: every event in `sent` is `Accounted` for at every peer. `Accounted` is
the counterpart of `Done`: no step undoes it (`AccountedStays`), because an answer
"2xx" stands for a handled event (`AnswerInv`), a request nobody waits for
has left blame behind and a request is not yet answered (`CallInv`), and a peer
that a broadcast skips has failed before (`FlagInv`).

Replication. Logs and rows change in five actions only. That each is a step of
`Replication` needs `SourceInv`: a goroutine, a call and a request carry an event of
the region they start from, which has logged it. It holds because the handler of a
peer starts no broadcast; no assumption on sources or failures is used.

In order. `OriginInv` adds to `SourceInv` that no event is being broadcast once a later one
is submitted, for which `Paced` suffices. Then `MissIsExplained` leaves nothing but
the peer's log or blame for an earlier event.

Convergence. The theorem assumes `OrderedSource`: the sources wait for the
broadcasts of an event before they submit the next one (`Paced`), events are about
posts, and those about one post have one home and one order. Without it the claim
is false, because goroutines of two events are not ordered. By `OriginInv`
only its home broadcasts an event, after it has logged it, and never while a later
event has been submitted. So whatever a region handles is the latest event of its
post there (a second handling included), and its effect is what the handled events
make of the row in their order (`ShowsNext`). `RowInv` states just that of each
row, for the home and for every peer no call to has failed (`Clean`): a region
skips nothing unless a call to it failed, and such a failure is never forgotten
(`CleanStays`). Once nothing is on its way, `MissIsExplained` leaves no event of the
home unhandled at a clean peer, and the same events make the same row (`ShowsOne`).

Migrations. What a replica has behind it is recorded, also while it works from a
copy that is out of date: `applied` is a subset of `recorded`, and recorded
versions stay (`ReplicaInv`). Rows exist only after everything was recorded
(`RowsInv`), so a rebuild that costs rows is in `recorded`, and not in the copy of
the replica that runs it.

UserIndex. `RetriesSurvive` needs to know how many failures a broadcast can have
spent: `AttemptInv` bounds the `attempt` of every running one by `faults`, so with
fewer than `maxRetries` failures none gives a peer up. What the property then says
of one submission and one peer is the predicate `Safe`: stored there, carried by a
running broadcast (`Carries`), or excused. No step undoes it: `seen` and `excused`
grow, a goroutine drops the first of its peers only after that peer has stored the
entry or refused it (`TailKeeps`, `NextKeeps`, `FailureKeeps`), and a crash excuses
every peer of the crashed region.

FeedCache. `ExpiryPending` is nearly inductive; `RequestInv` adds that a request
that is about to write knows its feed.

TextHelpers. The loop invariant of `extractHashtags` says that the list holds
exactly the hashtags that begin before position `i + 1`, in the order of their first
occurrence (`TagsInv`), and that between `i` and `j` there are tag characters only
(`LoopInv`). The step that counts is `TagEnd`: a `#` and the longest run behind it
are the only hashtag that begins between the old and the new `i`. For the preview,
the reference definition is about the uncut text, so the proof shows for each of
its sequences on which side of the cut it lies.

For the numbers, `NumberInv` says that `n` stands for the value of what has been read
(`StandsFor`: it differs from it by a multiple of the width, and not at all where the
value fits). `ValueOf`, the value of a text, is a recursive function. What it does
with one more digit (`ValueAppend`) takes an induction over its positions, which the
module builds from the well-foundedness of `<` on the naturals: a set of numbers
that holds 0 and each next one holds all (`UpTo`), applied to the set of positions
where two functions agree (`ValueUnfolds`) or a value exists (`ValueExists`).

### What is only model-checked

Liveness, as fairness and ENABLED are beyond the prover: `EventuallyApplied` and
`AnsweredIsPublished` of the pipeline, `StableDelivered` of CrossSync, `EventuallyKnown`
of UserIndex, `CachesCatchUp` of FeedCache, `StartsUpUnlessWedged` of Migrations. Of
`AnsweredIsPublished` the safety part is proved (`PublicationPending`), of
`StableDelivered` as well (`MissIsExplained`). Every invariant, action property and
refinement that a passing run checks has a theorem. No module here needs a
RECURSIVE operator. The inductive invariants were also checked by TLC on the
instance of their module's run, those under hypotheses on instances that satisfy
them (one worker, and two with the hypothesis as a constraint; `CountInv` needs
none), `NumberInv` of
TextHelpersProofs with the quotient in its `StandsFor` bounded to -200..200, more
than four digits in 6 bits can need.

## 6. Where code and documents disagree

1. `delete_wins`: `docs/wigowago-v2-distributed-architecture.md:821` lets a
   deletion win over an update. `UpdatePost` inserts when it finds no row
   (`internal/service/global_index.go:187`): a post is created, deleted, and restored
   by an update that arrives late.
2. `peer_recovery`: `docs/wigowago-v2-sync-test-plan.md:193` has a peer recover
   after a health check. Nobody calls `CheckHealth`, and a flag is cleared by a
   successful send only, which an unhealthy peer never gets.
3. `reconcile_overwrites`: the reconciler "syncs missing entries"
   (`internal/sync/user_index_reconciler.go:15`), but stores them with an upsert
   over what came in since it looked.
4. `feed_paging`: `internal/handler/feed_handler.go:37` and
   `docs/flutter-integration-guide.md:433` offer a cursor to load a feed in batches.
   `getFeedFromRedis` drops it (`internal/service/feed_generator.go:331`) and the
   queries take none: every page is the first, and `hasMore` stays true.

Observed, without a run of its own:

* a denied update leaves the public content of a post in the index;
* two concurrent count events may write the older count last, so that the index keeps a
  like that was taken back, against A1.4 and A1.5 of
  `docs/wigowago-v2-sync-test-plan.md:32-33`, and a count event that comes before the
  insert of its post is lost; `CountsFollow` shows these to be the only ways;
* two concurrent deliveries of one event both pass `IsProcessed` and both apply it,
  so "one write per event id" (`docs/wigowago-v2-sync-test-plan.md:196`) holds only
  where the deliveries of one event do not overlap (`AppliedOnce`);
* an event that reaches the queue consumer or a peer's broadcast first is not
  broadcast from here, and the local API does not make up for it
  (`internal/handler/sync_handler.go:235`): the deduplication ends its request
  before the goroutine is started;
* the end of the process after the answer loses the broadcast, and a shutdown fails
  the very requests it then waits for;
* deletions do not touch the cached feeds: the comment on `HandleDeletedPost` says
  that it removes the post, its body says that the expiry will;
* an id of 20 digits reads another row;
* the consumer refuses tag events and treats a post without a regional row as an
  error, the handler does neither.

## 7. What is not modelled

* Configuration, logger, connection pools, health endpoints: read once, or I/O. What a
  peer's `/health` answers is a choice in `CheckHealth`.
* The RocketMQ client: I/O, and not started by the server; the consumer behind it
  is modelled as the entry point `mq`.
* Read-only endpoints (lookups of users, posts, tags) and the tag search.
* `CrossSyncService.Reset` and `CheckUserConsent`: no caller outside tests.
* `parseTextArray`: no caller outside tests. How the read-only queries decode a row
  (`pgtypeArray.Scan`, the split of the media URLs) depends on what the driver hands
  over, which is not in this repository.
* `CalculateScore` and the ranking: floating-point functions of the clock; the feeds
  are modelled for any order.
* `CreatedAt` and other columns that are stored and never looked at.

## 8. Plan

Done, in this order: `SyncEvent`, `SyncPipeline`, `SyncContract` with the
refinement and the proofs; `CrossSync`, `UserIndex`, `FeedCache`, `Migrations`, and
their safety proofs; the shutdown in `SyncPipeline`, the failures in `FeedCache`,
`FeedPaging`, `TextHelpers` and its proofs; `ConvergenceProofs`; `DeliveryProofs`,
`Replication` with its refinement, the numbers in `TextHelpersProofs`.

Next:

1. A module that joins SyncPipeline and CrossSync, with a restart between the
   answer and the broadcast, and the proof that both specifications hold of it.
2. The safety part of `CachesCatchUp`: what a stale cached feed has as its reason.
3. The reconciler's safety part: it stores only what a peer once had.
