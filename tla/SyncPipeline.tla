---------------------------- MODULE SyncPipeline ----------------------------
(***************************************************************************)
(* The event pipeline of one region: SyncHandler.processEvent behind       *)
(* POST /sync/content ("local_api") and POST /sync/cross-sync              *)
(* ("cross_sync"), and SyncConsumer.HandleMessage behind the message queue *)
(* ("mq").  Every request runs in a goroutine of some replica; the         *)
(* replicas share one Postgres (event log, audit log, global index) and    *)
(* one Redis (the set of processed event ids), and nothing serialises two  *)
(* requests that carry the same event or the same post.                    *)
(*                                                                         *)
(* One action is one call to Postgres or Redis, or the step between two of *)
(* them.  A call may succeed, fail, or take effect and lose its reply (the *)
(* request context expires while the statement runs).  A replica may crash *)
(* between any two steps, or be told to stop: it then closes its databases *)
(* first and its listener last.  Postgres and Redis survive either.        *)
(***************************************************************************)
EXTENDS Naturals, FiniteSets, SyncEvent

CONSTANTS EventIds,       \* the events that exist
          Event,          \* EventIds -> SyncEvents: their contents
          Before,         \* pairs <<f, e>>: f is answered before e is sent
          Workers,        \* request goroutines
          Replicas,       \* processes of the service
          ReplicaOf,      \* Workers -> Replicas
          Sources,        \* entry points in use
          RegionalPosts,  \* posts that have a row in the regional database
          MaxStats,       \* the counts of a post take the values 0..MaxStats
          FaultKinds,     \* which failures may occur
          MaxFaults,      \* bound on the number of failures
          NoRow,          \* an index key without a row
          NoEvent         \* no event

ASSUME PipelineAssumption ==
  /\ Event \in [EventIds -> SyncEvents]
  /\ \A e \in EventIds : WellFormed(Event[e])
  /\ Before \subseteq EventIds \X EventIds
  /\ ReplicaOf \in [Workers -> Replicas]
  /\ Sources \subseteq {"local_api", "cross_sync", "mq"}
  /\ RegionalPosts \subseteq Posts
  /\ MaxStats \in Nat /\ MaxFaults \in Nat
  /\ NoEvent \notin EventIds

VARIABLES
  pc,             \* the next call of each worker, "idle" without a request
  ev, src,        \* the request: its event and its entry point
  val,            \* handleStatsUpdated: the counts read from the regional database
  eventLog,       \* sync_event_log.status of each event
  processedSet,   \* Redis set sync:event:processed
  auditLog,       \* cross_border_audit_log: events whose decision is recorded
  postIndex,      \* global_post_index
  tagIndex,       \* global_tag_index
  regionalStats,  \* the engagement counts in the regional database
  stage,          \* how much of Server.Shutdown a replica has been through
  goroutines,     \* <<r, e>>: a broadcast of e is pending in replica r
  sent,           \* <<r, e>>: CrossSyncService.sent of replica r holds e
  faults          \* number of failures so far

\* History: what the properties compare the state with.
VARIABLES
  applied,        \* how often routeEvent took effect: 0, 1, or 2 for more
  fed,            \* events HandleNewPost was called for
  answered,       \* <<e, s>>: a request for e at s was answered without error
  published,      \* events handed to the peers
  cutOff,         \* events a stopping process had not yet handed over
  notice,         \* of a count event: "unsent", "current" if first sent after
                  \* the last change of the counts of its post, else "old"
  overtaken,      \* requests since whose reading another wrote the counts
  behind          \* posts whose row was inserted after the last counts were
                  \* written, or whose counts an overtaken request wrote

requestVars == <<pc, ev, src, val>>
indexVars   == <<postIndex, tagIndex, applied>>
logVars     == <<eventLog, processedSet, auditLog>>
memoryVars  == <<stage, goroutines, sent, published, cutOff>>
countVars   == <<overtaken, behind>>
statsVars   == <<regionalStats, notice, countVars>>

vars == <<requestVars, indexVars, logVars, memoryVars,
          statsVars, fed, answered, faults>>

PostRow == [content : EventIds,    \* the event that wrote the content columns
            origin  : EventIds,    \* the event whose insert created the row
            stats   : 0..MaxStats]

TagRow == [content : EventIds,                  \* name, category, home region
           count   : EventIds \cup {NoEvent}]   \* the event that set post_count

ASSUME NoRowAssumption == NoRow \notin PostRow \cup TagRow

Allowed(e) == Check(Event[e]).allowed
Type(e)    == Event[e].type
Uid(e)     == Event[e].uid
IsCount(e) == Type(e) = "POST_STATS_UPDATED"

-----------------------------------------------------------------------------
\* Failures.

Fault(kind) ==
  /\ kind \in FaultKinds
  /\ faults < MaxFaults
  /\ faults' = faults + 1

\* Server.Shutdown closes the pools of Postgres, then Redis, then the listener.
ClosedAt == [regional |-> 1, index |-> 2, redis |-> 3, listener |-> 4]

Closed(r, resource) == stage[r] >= ClosedAt[resource]

\* A call either succeeds, or fails with or without having taken effect.
Outcomes == {"ok", "failed", "lost"}

\* A closed pool, which waits for its calls in flight, refuses every new one.
Call(w, store, outcome) ==
  IF Closed(ReplicaOf[w], store)
  THEN outcome = "failed" /\ UNCHANGED faults
  ELSE \/ outcome = "ok" /\ UNCHANGED faults
       \/ /\ outcome \in {"failed", "lost"}
          /\ Fault(IF store = "redis" THEN "redis" ELSE "db")

Effective(outcome) == outcome # "failed"

-----------------------------------------------------------------------------
\* The control flow of a request.

Goto(w, label) ==
  /\ pc' = [pc EXCEPT ![w] = label]
  /\ UNCHANGED <<ev, src, val>>

\* Mutant of Finish: the return is missing and the handler falls through.
FinishFallsThrough(w) ==
  /\ ev'  = [ev  EXCEPT ![w] = NoEvent]
  /\ src' = [src EXCEPT ![w] = "none"]
  /\ val' = [val EXCEPT ![w] = 0]
  /\ UNCHANGED pc

\* The handler returns and its locals are gone.
Finish(w) ==
  /\ pc'  = [pc  EXCEPT ![w] = "idle"]
  /\ ev'  = [ev  EXCEPT ![w] = NoEvent]
  /\ src' = [src EXCEPT ![w] = "none"]
  /\ val' = [val EXCEPT ![w] = 0]

Accept(w) == answered' = answered \cup {<<ev[w], src[w]>>}

\* 202 Accepted, or ConsumeSuccess.
ReturnOk(w) == Finish(w) /\ Accept(w)

\* 500, or ConsumeRetryLater.
ReturnError(w) == Finish(w) /\ UNCHANGED answered

\* ParseEvent refuses a message without a postUid, hence every tag event.
Parseable(e, s) == s = "mq" => Type(e) \notin TagEventTypes

(***************************************************************************)
(* A request arrives.  Any event may come any number of times and at any   *)
(* entry point: clients retry, peers broadcast, the queue redelivers.      *)
(* Only Shutdown of the HTTP server closes the listener, its last step.    *)
(***************************************************************************)
Deliver(w, e, s) ==
  /\ pc[w] = "idle"
  /\ Parseable(e, s)
  /\ s = "mq" \/ ~Closed(ReplicaOf[w], "listener")
  /\ \A f \in EventIds :
       <<f, e>> \in Before => \E t \in Sources : <<f, t>> \in answered
  /\ pc'  = [pc  EXCEPT ![w] = "redisCheck"]
  /\ ev'  = [ev  EXCEPT ![w] = e]
  /\ src' = [src EXCEPT ![w] = s]
  /\ notice' = IF IsCount(e) /\ notice[e] = "unsent"
               THEN [notice EXCEPT ![e] = "current"] ELSE notice
  /\ UNCHANGED <<val, indexVars, logVars, memoryVars, regionalStats, countVars,
                 fed, answered, faults>>

-----------------------------------------------------------------------------
(***************************************************************************)
(* SyncEventLogService.IsProcessed: the Redis set, then, on a miss or an   *)
(* error, the log table; a hit there is copied back to Redis.              *)
(***************************************************************************)

RedisCheck(w) ==
  /\ pc[w] = "redisCheck"
  /\ \E outcome \in {"ok", "failed"} :
       /\ Call(w, "redis", outcome)
       /\ IF outcome = "ok" /\ ev[w] \in processedSet
          THEN ReturnOk(w)
          ELSE Goto(w, "dbCheck") /\ UNCHANGED answered
  /\ UNCHANGED <<indexVars, logVars, memoryVars, statsVars, fed>>

\* Mutant of DbCheck: the query has lost its condition on the status.
DbCheckAnyStatus(w) ==
  /\ pc[w] = "dbCheck"
  /\ Goto(w, IF eventLog[ev[w]] # "none" THEN "repopulate" ELSE "audit")
  /\ UNCHANGED <<indexVars, logVars, memoryVars, statsVars, fed, answered,
                 faults>>

\* Mutant of DbCheck: a miss in Redis is taken for a new event.
DbCheckSkipped(w) ==
  /\ pc[w] = "dbCheck"
  /\ Goto(w, "audit")
  /\ UNCHANGED <<indexVars, logVars, memoryVars, statsVars, fed, answered,
                 faults>>

DbCheck(w) ==
  /\ pc[w] = "dbCheck"
  /\ \E outcome \in {"ok", "failed"} :
       /\ Call(w, "index", outcome)
       /\ IF outcome = "ok"
          THEN Goto(w, IF eventLog[ev[w]] = "processed" THEN "repopulate"
                       ELSE "audit") /\ UNCHANGED answered
          ELSE ReturnError(w)
  /\ UNCHANGED <<indexVars, logVars, memoryVars, statsVars, fed>>

Repopulate(w) ==
  /\ pc[w] = "repopulate"
  /\ \E outcome \in Outcomes :
       /\ Call(w, "redis", outcome)
       /\ processedSet' = IF Effective(outcome) THEN processedSet \cup {ev[w]}
                          ELSE processedSet
  /\ ReturnOk(w)
  /\ UNCHANGED <<indexVars, eventLog, auditLog, memoryVars, statsVars, fed>>

-----------------------------------------------------------------------------
(***************************************************************************)
(* GDPRChecker.Check and AuditLogService.Log, whose error is ignored; then *)
(* routeEvent picks the first statement of the event's type.               *)
(***************************************************************************)

RouteOf(e) ==
  CASE Type(e) = "POST_CREATED"                   -> "insertPost"
    [] Type(e) = "POST_UPDATED"                   -> "updatePost"
    [] Type(e) = "POST_DELETED"                   -> "deletePost"
    [] Type(e) = "POST_STATS_UPDATED"             -> "readStats"
    [] Type(e) \in {"TAG_CREATED", "TAG_UPDATED"} -> "upsertTag"
    [] Type(e) = "TAG_DELETED"                    -> "deleteTag"
    [] Type(e) = "TAG_STATS_UPDATED" /\ Event[e].count -> "updateTagStats"
    [] OTHER                                      -> "routeNothing"

Audit(w) ==
  /\ pc[w] = "audit"
  /\ \E outcome \in Outcomes :
       /\ Call(w, "index", outcome)
       /\ auditLog' = IF Effective(outcome)
                      THEN auditLog \cup {ev[w]} ELSE auditLog
  /\ Goto(w, IF Allowed(ev[w]) THEN RouteOf(ev[w]) ELSE "markDenied")
  /\ UNCHANGED <<indexVars, eventLog, processedSet, memoryVars, statsVars,
                 fed, answered>>

-----------------------------------------------------------------------------
(***************************************************************************)
(* routeEvent: the statements of GlobalIndexService and                    *)
(* GlobalTagIndexService, one action each.  An error, also one that only   *)
(* lost the reply, leads to markFailed.                                    *)
(***************************************************************************)

RouteCall(w, outcome, next) ==
  /\ Call(w, "index", outcome)
  /\ Goto(w, IF outcome = "ok" THEN next ELSE "markFailed")

CountApplied(w) ==
  applied' = [applied EXCEPT ![ev[w]] = IF @ = 0 THEN 1 ELSE 2]

SetPost(w, row) ==
  /\ postIndex' = [postIndex EXCEPT ![Uid(ev[w])] = row]
  /\ CountApplied(w)
  /\ UNCHANGED tagIndex

SetTag(w, row) ==
  /\ tagIndex' = [tagIndex EXCEPT ![Uid(ev[w])] = row]
  /\ CountApplied(w)
  /\ UNCHANGED postIndex

RouteRest == UNCHANGED <<logVars, memoryVars, regionalStats, notice, answered>>

\* A row starts with counts of 0, whatever has been reported before.
NoteInsert(w) ==
  behind' = IF postIndex[Uid(ev[w])] = NoRow THEN behind \cup {Uid(ev[w])}
            ELSE behind

\* Mutant of Upserted: the conflict clause takes the counts of the insert.
UpsertedResetsCounts(row, e) ==
  IF row = NoRow THEN [content |-> e, origin |-> e, stats |-> 0]
  ELSE [row EXCEPT !.content = e, !.stats = 0]

\* INSERT ... ON CONFLICT (uid) DO UPDATE: an existing row keeps its origin
\* (created_at, user_consent, data_category) and its counts.
Upserted(row, e) ==
  IF row = NoRow THEN [content |-> e, origin |-> e, stats |-> 0]
  ELSE [row EXCEPT !.content = e]

\* Mutant of InsertPost: only a fresh row is offered to the feeds.
InsertPostFeedsFresh(w) ==
  /\ pc[w] = "insertPost"
  /\ RouteCall(w, "ok", IF Type(ev[w]) = "POST_CREATED"
                           /\ postIndex[Uid(ev[w])] = NoRow
                        THEN "feed" ELSE "markProcessed")
  /\ SetPost(w, Upserted(postIndex[Uid(ev[w])], ev[w]))
  /\ NoteInsert(w)
  /\ UNCHANGED <<fed, overtaken>>
  /\ RouteRest

InsertPost(w) ==
  /\ pc[w] = "insertPost"
  /\ \E outcome \in Outcomes :
       /\ RouteCall(w, outcome, IF Type(ev[w]) = "POST_CREATED" THEN "feed"
                                ELSE "markProcessed")
       /\ IF Effective(outcome)
          THEN /\ SetPost(w, Upserted(postIndex[Uid(ev[w])], ev[w]))
               /\ NoteInsert(w)
          ELSE UNCHANGED <<indexVars, behind>>
  /\ UNCHANGED <<fed, overtaken>>
  /\ RouteRest

\* FeedGenerator.HandleNewPost; its error is only logged.
HandleNewPost(w) ==
  /\ pc[w] = "feed"
  /\ fed' = fed \cup {ev[w]}
  /\ Goto(w, "markProcessed")
  /\ UNCHANGED <<indexVars, countVars, faults>>
  /\ RouteRest

\* Mutant of UpdatePost: the update overwrites the compliance columns too.
UpdatePostTakesOrigin(w) ==
  /\ pc[w] = "updatePost"
  /\ LET row == postIndex[Uid(ev[w])]
     IN  IF row = NoRow
         THEN RouteCall(w, "ok", "insertPost") /\ UNCHANGED indexVars
         ELSE /\ RouteCall(w, "ok", "markProcessed")
              /\ SetPost(w, [row EXCEPT !.content = ev[w], !.origin = ev[w]])
  /\ UNCHANGED <<fed, countVars>>
  /\ RouteRest

\* UPDATE ... WHERE uid; without a row the event is inserted instead.
UpdatePost(w) ==
  /\ pc[w] = "updatePost"
  /\ LET row == postIndex[Uid(ev[w])]
     IN  \E outcome \in Outcomes :
           /\ RouteCall(w, outcome, IF row = NoRow THEN "insertPost"
                                    ELSE "markProcessed")
           /\ IF Effective(outcome) /\ row # NoRow
              THEN SetPost(w, [row EXCEPT !.content = ev[w]])
              ELSE UNCHANGED indexVars
  /\ UNCHANGED <<fed, countVars>>
  /\ RouteRest

DeletePost(w) ==
  /\ pc[w] = "deletePost"
  /\ \E outcome \in Outcomes :
       /\ RouteCall(w, outcome, "markProcessed")
       /\ IF Effective(outcome) THEN SetPost(w, NoRow) ELSE UNCHANGED indexVars
  /\ UNCHANGED <<fed, countVars>>
  /\ RouteRest

\* handleStatsUpdated, first half.  A post that is not in the regional
\* database is skipped by the handler and an error for the consumer.
ReadStats(w) ==
  /\ pc[w] = "readStats"
  /\ \E outcome \in {"ok", "failed"} :
       /\ Call(w, "regional", outcome)
       /\ IF outcome = "ok" /\ Uid(ev[w]) \in RegionalPosts
          THEN /\ pc'  = [pc  EXCEPT ![w] = "writeStats"]
               /\ val' = [val EXCEPT ![w] = regionalStats[Uid(ev[w])]]
               /\ UNCHANGED <<ev, src>>
          ELSE Goto(w, IF outcome = "ok" /\ src[w] # "mq" THEN "routeNothing"
                       ELSE "markFailed")
  /\ overtaken' = overtaken \ {w}
  /\ UNCHANGED <<indexVars, fed, behind>>
  /\ RouteRest

\* The requests that have read the counts of the post and not yet written them
\* are overtaken; w may have been overtaken itself.
NoteCounts(w) ==
  LET post  == Uid(ev[w])
      ahead == {v \in Workers : pc[v] = "writeStats" /\ Uid(ev[v]) = post}
  IN  /\ overtaken' = (overtaken \cup ahead) \ {w}
      /\ behind' = IF w \in overtaken THEN behind \cup {post}
                   ELSE behind \ {post}

\* Second half: GlobalIndexService.UpdateStats, no effect without a row.
WriteStats(w) ==
  /\ pc[w] = "writeStats"
  /\ LET row == postIndex[Uid(ev[w])]
     IN  \E outcome \in Outcomes :
           /\ RouteCall(w, outcome, "markProcessed")
           /\ IF Effective(outcome)
              THEN /\ SetPost(w, IF row = NoRow THEN NoRow
                                 ELSE [row EXCEPT !.stats = val[w]])
                   /\ NoteCounts(w)
              ELSE UNCHANGED <<indexVars, countVars>>
  /\ UNCHANGED fed
  /\ RouteRest

UpsertTag(w) ==
  /\ pc[w] = "upsertTag"
  /\ LET row == tagIndex[Uid(ev[w])]
     IN  \E outcome \in Outcomes :
           /\ RouteCall(w, outcome, "markProcessed")
           /\ IF Effective(outcome)
              THEN SetTag(w, IF row = NoRow
                             THEN [content |-> ev[w], count |-> NoEvent]
                             ELSE [row EXCEPT !.content = ev[w]])
              ELSE UNCHANGED indexVars
  /\ UNCHANGED <<fed, countVars>>
  /\ RouteRest

DeleteTag(w) ==
  /\ pc[w] = "deleteTag"
  /\ \E outcome \in Outcomes :
       /\ RouteCall(w, outcome, "markProcessed")
       /\ IF Effective(outcome) THEN SetTag(w, NoRow) ELSE UNCHANGED indexVars
  /\ UNCHANGED <<fed, countVars>>
  /\ RouteRest

UpdateTagStats(w) ==
  /\ pc[w] = "updateTagStats"
  /\ LET row == tagIndex[Uid(ev[w])]
     IN  \E outcome \in Outcomes :
           /\ RouteCall(w, outcome, "markProcessed")
           /\ IF Effective(outcome)
              THEN SetTag(w, IF row = NoRow THEN NoRow
                             ELSE [row EXCEPT !.count = ev[w]])
              ELSE UNCHANGED indexVars
  /\ UNCHANGED <<fed, countVars>>
  /\ RouteRest

\* An unknown type, a tag count that is missing, a post without regional row.
RouteNothing(w) ==
  /\ pc[w] = "routeNothing"
  /\ CountApplied(w)
  /\ Goto(w, "markProcessed")
  /\ UNCHANGED <<postIndex, tagIndex, fed, countVars, faults>>
  /\ RouteRest

-----------------------------------------------------------------------------
(***************************************************************************)
(* SyncEventLogService.MarkProcessed: an upsert of the status that a       *)
(* failure overwrites a success with, then, for a success, the Redis set.  *)
(***************************************************************************)

LogStatus(w, outcome, status) ==
  /\ Call(w, "index", outcome)
  /\ eventLog' = IF Effective(outcome)
                 THEN [eventLog EXCEPT ![ev[w]] = status] ELSE eventLog
  /\ UNCHANGED <<indexVars, processedSet, auditLog, memoryVars, statsVars,
                 fed>>

\* A denial is logged as "failed" and answered as a success.
MarkDenied(w) ==
  /\ pc[w] = "markDenied"
  /\ \E outcome \in Outcomes : LogStatus(w, outcome, "failed")
  /\ ReturnOk(w)

\* Mutant of MarkFailed: the error message no longer selects the status.
MarkFailedAsProcessed(w) ==
  /\ pc[w] = "markFailed"
  /\ \E outcome \in Outcomes : LogStatus(w, outcome, "processed")
  /\ ReturnError(w)

\* Mutant of MarkFailed: the route error is swallowed.
MarkFailedSwallowed(w) ==
  /\ pc[w] = "markFailed"
  /\ \E outcome \in Outcomes : LogStatus(w, outcome, "failed")
  /\ ReturnOk(w)

MarkFailed(w) ==
  /\ pc[w] = "markFailed"
  /\ \E outcome \in Outcomes : LogStatus(w, outcome, "failed")
  /\ ReturnError(w)

\* Mutant of MarkProcessed: an error returns before the broadcast.
MarkProcessedReturnsEarly(w) ==
  /\ pc[w] = "markProcessed"
  /\ \E outcome \in Outcomes :
       /\ LogStatus(w, outcome, "processed")
       /\ IF outcome = "ok" THEN Goto(w, "cacheMark") /\ UNCHANGED answered
          ELSE ReturnOk(w)

\* The caller ignores an error here: the event was applied.
MarkProcessed(w) ==
  /\ pc[w] = "markProcessed"
  /\ \E outcome \in Outcomes :
       /\ LogStatus(w, outcome, "processed")
       /\ Goto(w, IF outcome = "ok" THEN "cacheMark" ELSE "reply")
  /\ UNCHANGED answered

CacheMark(w) ==
  /\ pc[w] = "cacheMark"
  /\ \E outcome \in Outcomes :
       /\ Call(w, "redis", outcome)
       /\ processedSet' = IF Effective(outcome) THEN processedSet \cup {ev[w]}
                          ELSE processedSet
  /\ Goto(w, "reply")
  /\ UNCHANGED <<indexVars, eventLog, auditLog, memoryVars, statsVars, fed,
                 answered>>

-----------------------------------------------------------------------------
(***************************************************************************)
(* The end of processEvent: only an event of the local API is broadcast,   *)
(* by a goroutine nobody waits for.  CrossSyncService.Broadcast remembers  *)
(* the event before it sends it; CrossSync.tla models the sending.         *)
(***************************************************************************)

\* Mutant of Reply: events of the peers are broadcast as well.
ReplyEchoes(w) ==
  /\ pc[w] = "reply"
  /\ goroutines' = goroutines \cup {<<ReplicaOf[w], ev[w]>>}
  /\ ReturnOk(w)
  /\ UNCHANGED <<indexVars, logVars, stage, sent, published, cutOff,
                 statsVars, fed, faults>>

Reply(w) ==
  /\ pc[w] = "reply"
  /\ goroutines' = IF src[w] = "local_api"
                   THEN goroutines \cup {<<ReplicaOf[w], ev[w]>>} ELSE goroutines
  /\ ReturnOk(w)
  /\ UNCHANGED <<indexVars, logVars, stage, sent, published, cutOff,
                 statsVars, fed, faults>>

Broadcast(r, e) ==
  /\ <<r, e>> \in goroutines
  /\ goroutines' = goroutines \ {<<r, e>>}
  /\ sent'       = sent \cup {<<r, e>>}
  /\ published'  = IF <<r, e>> \in sent THEN published ELSE published \cup {e}
  /\ UNCHANGED <<requestVars, indexVars, logVars, stage, cutOff, statsVars,
                 fed, answered, faults>>

-----------------------------------------------------------------------------
\* The environment.

(***************************************************************************)
(* A process ends with its requests, its pending broadcasts and its sent   *)
(* map, and another one takes its place.  cutOff notes the events that are *)
(* logged as processed, or about to be answered as such, while the process *)
(* has not handed them to Broadcast.                                       *)
(***************************************************************************)
Stop(r) ==
  /\ LET lost(w) == ReplicaOf[w] = r
     IN  /\ pc'  = [w \in Workers |-> IF lost(w) THEN "idle"  ELSE pc[w]]
         /\ ev'  = [w \in Workers |-> IF lost(w) THEN NoEvent ELSE ev[w]]
         /\ src' = [w \in Workers |-> IF lost(w) THEN "none"  ELSE src[w]]
         /\ val' = [w \in Workers |-> IF lost(w) THEN 0       ELSE val[w]]
         /\ cutOff' = cutOff \cup
              {e \in EventIds :
                 \/ <<r, e>> \in goroutines
                 \/ \E w \in Workers : /\ lost(w) /\ ev[w] = e
                                       /\ pc[w] \in {"cacheMark", "reply"}}
  /\ goroutines' = {g \in goroutines : g[1] # r}
  /\ sent'       = {g \in sent : g[1] # r}
  /\ stage'      = [stage EXCEPT ![r] = 0]
  /\ UNCHANGED <<indexVars, logVars, published, statsVars, fed, answered>>

\* Replica r dies.
Crash(r) == Fault("crash") /\ Stop(r)

\* Replica r is told to stop, and closes one resource after the other.
Shutdown(r) ==
  /\ \/ stage[r] = 0 /\ Fault("shutdown")
     \/ stage[r] \in 1..3 /\ UNCHANGED faults
  /\ stage' = [stage EXCEPT ![r] = @ + 1]
  /\ UNCHANGED <<requestVars, indexVars, logVars, goroutines, sent, published,
                 cutOff, statsVars, fed, answered>>

\* The HTTP server has no request left, or its 30 s are over; main returns.
\* Neither waits for the goroutines that broadcast.
Exit(r) ==
  /\ Closed(r, "listener")
  /\ \/ /\ \A w \in Workers : ReplicaOf[w] = r => src[w] \in {"none", "mq"}
        /\ UNCHANGED faults
     \/ Fault("deadline")
  /\ Stop(r)

\* The whole Redis set has one TTL (24 h since the last mark) and goes at once.
ExpireProcessedSet ==
  /\ Fault("expire")
  /\ processedSet # {}
  /\ processedSet' = {}
  /\ UNCHANGED <<requestVars, indexVars, eventLog, auditLog, memoryVars,
                 statsVars, fed, answered>>

(***************************************************************************)
(* Somebody likes the post or takes the like back, comments or removes the *)
(* comment.  A number stands for the likes, comments, favorites and views  *)
(* together, 0 for those a row starts with; they go up and down.           *)
(***************************************************************************)
RegionalChange(p) ==
  /\ \E counts \in (0..MaxStats) \ {regionalStats[p]} :
       regionalStats' = [regionalStats EXCEPT ![p] = counts]
  /\ notice' = [e \in EventIds |->
                  IF IsCount(e) /\ Uid(e) = p /\ notice[e] = "current"
                  THEN "old" ELSE notice[e]]
  /\ UNCHANGED <<requestVars, indexVars, logVars, memoryVars, countVars, fed,
                 answered, faults>>

-----------------------------------------------------------------------------
Init ==
  /\ pc  = [w \in Workers |-> "idle"]
  /\ ev  = [w \in Workers |-> NoEvent]
  /\ src = [w \in Workers |-> "none"]
  /\ val = [w \in Workers |-> 0]
  /\ eventLog = [e \in EventIds |-> "none"]
  /\ processedSet = {} /\ auditLog = {}
  /\ postIndex = [p \in Posts |-> NoRow]
  /\ tagIndex  = [t \in Tags |-> NoRow]
  /\ regionalStats = [p \in RegionalPosts |-> 0]
  /\ stage = [r \in Replicas |-> 0]
  /\ goroutines = {} /\ sent = {}
  /\ applied = [e \in EventIds |-> 0]
  /\ fed = {} /\ answered = {} /\ published = {} /\ cutOff = {}
  /\ notice = [e \in EventIds |-> "unsent"]
  /\ overtaken = {} /\ behind = {}
  /\ faults = 0

Route(w) ==
  \/ InsertPost(w) \/ HandleNewPost(w) \/ UpdatePost(w) \/ DeletePost(w)
  \/ ReadStats(w) \/ WriteStats(w)
  \/ UpsertTag(w) \/ DeleteTag(w) \/ UpdateTagStats(w)
  \/ RouteNothing(w)

\* The next step of a request that has been taken up.
Step(w) ==
  \/ RedisCheck(w) \/ DbCheck(w) \/ Repopulate(w)
  \/ Audit(w) \/ Route(w)
  \/ MarkDenied(w) \/ MarkFailed(w) \/ MarkProcessed(w) \/ CacheMark(w)
  \/ Reply(w)

Next ==
  \/ \E w \in Workers, e \in EventIds, s \in Sources : Deliver(w, e, s)
  \/ \E w \in Workers : Step(w)
  \/ \E r \in Replicas, e \in EventIds : Broadcast(r, e)
  \/ \E r \in Replicas : Crash(r) \/ Shutdown(r) \/ Exit(r)
  \/ ExpireProcessedSet
  \/ \E p \in RegionalPosts : RegionalChange(p)

Spec == Init /\ [][Next]_vars

(***************************************************************************)
(* Fairness.  The Go scheduler runs every started goroutine, and every     *)
(* call returns (the contexts have deadlines).  A shutdown, once begun, is *)
(* carried through: each step of it waits for nothing but calls and        *)
(* requests that end.  A sender that has no success yet sends again.       *)
(***************************************************************************)
Redeliver(e) ==
  \E w \in Workers, s \in Sources :
    <<e, s>> \notin answered /\ Deliver(w, e, s)

Fairness ==
  /\ \A w \in Workers : WF_vars(Step(w))
  /\ \A r \in Replicas, e \in EventIds : WF_vars(Broadcast(r, e))
  /\ \A r \in Replicas : WF_vars(stage[r] > 0 /\ Shutdown(r))
  /\ \A r \in Replicas : WF_vars(Exit(r))
  /\ \A e \in EventIds : SF_vars(Redeliver(e))

FairSpec == Spec /\ Fairness

-----------------------------------------------------------------------------
(***************************************************************************)
(* Properties.                                                             *)
(***************************************************************************)

Labels ==
  {"idle", "redisCheck", "dbCheck", "repopulate", "audit", "insertPost",
   "feed", "updatePost", "deletePost", "readStats", "writeStats", "upsertTag",
   "deleteTag", "updateTagStats", "routeNothing", "markDenied", "markFailed",
   "markProcessed", "cacheMark", "reply"}

\* Every variable has its type, and a worker has a request iff it is busy.
TypeOK ==
  /\ pc \in [Workers -> Labels]
  /\ ev \in [Workers -> EventIds \cup {NoEvent}]
  /\ src \in [Workers -> Sources \cup {"none"}]
  /\ val \in [Workers -> 0..MaxStats]
  /\ \A w \in Workers : pc[w] # "idle" => ev[w] \in EventIds /\ src[w] \in Sources
  /\ eventLog \in [EventIds -> {"none", "processed", "failed"}]
  /\ processedSet \subseteq EventIds
  /\ auditLog \subseteq EventIds
  /\ postIndex \in [Posts -> PostRow \cup {NoRow}]
  /\ tagIndex \in [Tags -> TagRow \cup {NoRow}]
  /\ regionalStats \in [RegionalPosts -> 0..MaxStats]
  /\ goroutines \subseteq Replicas \X EventIds
  /\ sent \subseteq Replicas \X EventIds
  /\ applied \in [EventIds -> 0..2]
  /\ fed \subseteq EventIds
  /\ answered \subseteq EventIds \X Sources
  /\ published \subseteq EventIds
  /\ stage \in [Replicas -> 0..4]
  /\ cutOff \subseteq EventIds
  /\ notice \in [EventIds -> {"unsent", "current", "old"}]
  /\ overtaken \subseteq Workers /\ behind \subseteq {Uid(e) : e \in EventIds}
  /\ faults \in 0..MaxFaults

(***************************************************************************)
(* The deduplication never swallows an event that has not taken effect:    *)
(* whatever IsProcessed can answer "processed" from, the log table or the  *)
(* Redis set, names only events whose routeEvent took effect, through      *)
(* crashes, lost replies, expiry and concurrent deliveries.                *)
(***************************************************************************)
DedupSound ==
  \A e \in EventIds :
    eventLog[e] = "processed" \/ e \in processedSet => applied[e] > 0

(***************************************************************************)
(* An answer without error (202, ConsumeSuccess) is never given for an     *)
(* event that is allowed and has not taken effect: the sender stops        *)
(* retrying on it.                                                         *)
(***************************************************************************)
AnswerSound ==
  \A e \in EventIds : \A s \in Sources :
    <<e, s>> \in answered /\ Allowed(e) => applied[e] > 0

(***************************************************************************)
(* The rules of the GDPRChecker comment: what they keep out of every other *)
(* region.  PRIVATE data of category TIER_3 passes, as in the code.        *)
(***************************************************************************)
MayLeaveRegion(event) ==
  /\ event.category # "TIER_1"
  /\ \/ event.category = "TIER_3"
     \/ event.visibility = "GLOBAL" /\ event.consent

(***************************************************************************)
(* Whatever the interleaving, a row of the global index holds content that *)
(* may leave its region, about its own post, and its compliance columns    *)
(* (set by the insert only) come from such an event too.                   *)
(***************************************************************************)
IndexCompliant ==
  \A p \in Posts : postIndex[p] # NoRow =>
    \A e \in {postIndex[p].content, postIndex[p].origin} :
      Uid(e) = p /\ MayLeaveRegion(Event[e])

(***************************************************************************)
(* An event goes out to the peers only if it is allowed, took effect here, *)
(* and was answered at the local API: an event that came from a peer is    *)
(* never sent on, so a broadcast cannot circulate.                         *)
(***************************************************************************)
PublishSound ==
  \A e \in EventIds :
    e \in published \/ (\E r \in Replicas : <<r, e>> \in goroutines) =>
      /\ Allowed(e)
      /\ applied[e] > 0
      /\ <<e, "local_api">> \in answered

(***************************************************************************)
(* A new post that the dedup treats as done has been offered to the feeds: *)
(* a crash between the insert and HandleNewPost leaves the event open, so  *)
(* that its redelivery runs the feed step.                                 *)
(***************************************************************************)
ProcessedIsFed ==
  \A e \in EventIds :
    /\ eventLog[e] = "processed" \/ e \in processedSet
    /\ Type(e) = "POST_CREATED"
    => e \in fed

(***************************************************************************)
(* The inductive invariant behind the properties above.  Done(e): e is     *)
(* allowed, took effect, and was offered to the feeds if it is a new post; *)
(* no step undoes it.                                                      *)
(***************************************************************************)
Done(e) ==
  /\ Allowed(e)
  /\ applied[e] > 0
  /\ Type(e) = "POST_CREATED" => e \in fed

RouteLabels ==
  {"insertPost", "feed", "updatePost", "deletePost", "readStats", "writeStats",
   "upsertTag", "deleteTag", "updateTagStats", "routeNothing"}

DoneLabels == {"repopulate", "markProcessed", "cacheMark", "reply"}

\* What the point a request has reached says about its event.
RequestInv ==
  \A w \in Workers :
    /\ pc[w] \in DoneLabels => Done(ev[w])
    /\ pc[w] \in RouteLabels => Allowed(ev[w])
    /\ pc[w] = "markDenied" => ~Allowed(ev[w])
    /\ pc[w] = "feed" => applied[ev[w]] > 0

\* The statement a request is about to run is one of its event's type.
RouteInv ==
  \A w \in Workers :
    /\ pc[w] = "insertPost" => Type(ev[w]) \in {"POST_CREATED", "POST_UPDATED"}
    /\ pc[w] = "updatePost" => Type(ev[w]) = "POST_UPDATED"
    /\ pc[w] = "deletePost" => Type(ev[w]) = "POST_DELETED"
    /\ pc[w] = "readStats"  => Type(ev[w]) = "POST_STATS_UPDATED"
    /\ pc[w] = "writeStats" => /\ Type(ev[w]) = "POST_STATS_UPDATED"
                               /\ Uid(ev[w]) \in RegionalPosts
    /\ pc[w] = "upsertTag"  => Type(ev[w]) \in {"TAG_CREATED", "TAG_UPDATED"}
    /\ pc[w] = "deleteTag"  => Type(ev[w]) = "TAG_DELETED"
    /\ pc[w] = "updateTagStats" => /\ Type(ev[w]) = "TAG_STATS_UPDATED"
                                   /\ Event[ev[w]].count
    /\ pc[w] = "routeNothing" =>
         \/ Type(ev[w]) = "OTHER"
         \/ Type(ev[w]) = "TAG_STATS_UPDATED" /\ ~Event[ev[w]].count
         \/ Type(ev[w]) = "POST_STATS_UPDATED" /\ Uid(ev[w]) \notin RegionalPosts

LogInv ==
  \A e \in EventIds : eventLog[e] = "processed" \/ e \in processedSet => Done(e)

AnswerInv ==
  \A e \in EventIds : \A s \in Sources :
    <<e, s>> \in answered /\ Allowed(e) => Done(e)

PublishInv ==
  \A e \in EventIds :
    e \in published \/ (\E r \in Replicas : <<r, e>> \in goroutines) =>
      Done(e) /\ <<e, "local_api">> \in answered

\* Only the content events of a post write its row.
RowInv ==
  \A p \in Posts : postIndex[p] # NoRow =>
    \A e \in {postIndex[p].content, postIndex[p].origin} :
      /\ Uid(e) = p
      /\ Type(e) \in {"POST_CREATED", "POST_UPDATED"}
      /\ Allowed(e)

Inv == /\ TypeOK /\ RequestInv /\ RouteInv /\ LogInv
       /\ AnswerInv /\ PublishInv /\ RowInv

\* The service implements the contract; applied counts, the contract collects.
Contract ==
  INSTANCE SyncContract WITH applied <- {e \in EventIds : applied[e] > 0}

\* Every behaviour of the pipeline is one the contract of SyncContract allows.
ImplementsContract == Contract!ContractSpec

(***************************************************************************)
(* An allowed event that was answered at the local API is never dropped on *)
(* its way to the peers: it is handed over, or its goroutine is pending,   *)
(* or a request is about to start one, or a process that ended took it     *)
(* along.  The one other way out is an entry point that does not broadcast *)
(* having answered it: the deduplication then turns the local API away.    *)
(***************************************************************************)
HandOver(e) ==
  \/ e \in published \cup cutOff
  \/ \E r \in Replicas : <<r, e>> \in goroutines
  \/ \E w \in Workers : ev[w] = e /\ pc[w] \in {"cacheMark", "reply"}
  \/ \E s \in Sources \ {"local_api"} : <<e, s>> \in answered

PublicationPending ==
  \A e \in EventIds :
    <<e, "local_api">> \in answered /\ Allowed(e) => HandOver(e)

\* Inductive with Inv: what the deduplication turns away is on its way, too.
HandOverInv ==
  /\ PublicationPending
  /\ \A e \in EventIds :
       eventLog[e] = "processed" \/ e \in processedSet => HandOver(e)
  /\ \A w \in Workers : pc[w] = "repopulate" => HandOver(ev[w])
  /\ \A r \in Replicas, e \in EventIds : <<r, e>> \in sent => e \in published

-----------------------------------------------------------------------------
(***************************************************************************)
(* Properties of behaviours that restrict the failures or the concurrency. *)
(***************************************************************************)

\* Postgres answers every call and no process ends; Redis may do anything.
PostgresSteady == {"db", "crash", "shutdown"} \cap FaultKinds = {}

\* No two requests carry the same event at the same time.
OneRequestPerEvent ==
  \A v, w \in Workers :
    pc[v] # "idle" /\ pc[w] # "idle" /\ ev[v] = ev[w] => v = w

\* The source sends a deletion after everything that writes what it deletes.
DeletionsLast ==
  \A e, f \in EventIds :
    /\ Uid(e) = Uid(f)
    /\ \/ /\ Type(e) = "POST_DELETED"
          /\ Type(f) \in {"POST_CREATED", "POST_UPDATED"}
       \/ /\ Type(e) = "TAG_DELETED"
          /\ Type(f) \in {"TAG_CREATED", "TAG_UPDATED"}
    => <<f, e>> \in Before

(***************************************************************************)
(* D4.5 of the sync test plan: an event id is written once.  It holds for  *)
(* deliveries of an event that come one at a time and a log table that     *)
(* does not fail, whatever Redis does.                                     *)
(***************************************************************************)
AppliedAtMostOnce == \A e \in EventIds : applied[e] < 2

\* Inductive under PostgresSteady and OneRequestPerEvent: only the request
\* that applied an event stands between that and its entry in the log.
OnceInv ==
  /\ AppliedAtMostOnce
  /\ \A r \in Replicas : stage[r] = 0
  /\ \A w \in Workers :
       pc[w] \in {"audit", "markDenied", "markFailed"} \cup (RouteLabels \ {"feed"})
         => applied[ev[w]] = 0
  /\ \A e \in EventIds : applied[e] > 0 =>
       \/ eventLog[e] = "processed"
       \/ \E w \in Workers : ev[w] = e /\ pc[w] \in {"feed", "markProcessed"}

(***************************************************************************)
(* The conflict table's "delete vs update: delete first": once a deletion  *)
(* took effect its row is gone for good.                                   *)
(***************************************************************************)
DeleteWins ==
  \A e \in EventIds : applied[e] > 0 =>
    /\ Type(e) = "POST_DELETED" => postIndex[Uid(e)] = NoRow
    /\ Type(e) = "TAG_DELETED"  => tagIndex[Uid(e)] = NoRow

\* What is to be answered before an event is sent stays answered.
OrderInv ==
  \A e \in EventIds :
    applied[e] > 0 \/ (\E w \in Workers : pc[w] # "idle" /\ ev[w] = e) =>
      \A f \in EventIds :
        <<f, e>> \in Before => \E t \in Sources : <<f, t>> \in answered

(***************************************************************************)
(* A1.1 to A1.5 of the sync test plan: after a like or an unlike and its   *)
(* POST_STATS_UPDATED, the index shows the regional counts.  Whatever      *)
(* fails or overlaps, an answered count event that was sent after the last *)
(* change leaves the row with the counts of the regional database.  There  *)
(* are two ways out, which end with the next count event that runs alone:  *)
(* the row was inserted later, or handleStatsUpdated wrote a reading that  *)
(* another request had overtaken between its read and its write.           *)
(***************************************************************************)
CountsFollow ==
  \A e \in EventIds :
    /\ IsCount(e) /\ Allowed(e) /\ Uid(e) \in RegionalPosts
    /\ notice[e] = "current"
    /\ \E s \in Sources : <<e, s>> \in answered
    /\ postIndex[Uid(e)] # NoRow
    => \/ postIndex[Uid(e)].stats = regionalStats[Uid(e)]
       \/ Uid(e) \in behind

\* A request of the current event e has read the present counts; once e has
\* been applied, any other that has not is overtaken.
ReadingInv(w, e) ==
  pc[w] = "writeStats" /\ Uid(ev[w]) = Uid(e) =>
    /\ ev[w] = e => val[w] = regionalStats[Uid(e)]
    /\ applied[e] > 0 => val[w] = regionalStats[Uid(e)] \/ w \in overtaken

\* Inductive with Inv: what a current event has written can only be written
\* over by a request that it has overtaken.
CountInv ==
  \A e \in EventIds : IsCount(e) /\ Uid(e) \in RegionalPosts =>
    /\ notice[e] = "unsent" => applied[e] = 0 /\ \A w \in Workers : ev[w] # e
    /\ notice[e] = "current" =>
         /\ \A w \in Workers : ReadingInv(w, e)
         /\ applied[e] > 0 /\ postIndex[Uid(e)] # NoRow =>
              \/ postIndex[Uid(e)].stats = regionalStats[Uid(e)]
              \/ Uid(e) \in behind

(***************************************************************************)
(* A sender that retries gets every event applied, unless it is denied:    *)
(* no failure leaves the event log or the Redis set in a state that turns  *)
(* the retry away.                                                         *)
(***************************************************************************)
EventuallyApplied ==
  \A e \in EventIds :
    <>(IF Allowed(e) THEN applied[e] > 0
       ELSE \E s \in Sources : <<e, s>> \in answered)

(***************************************************************************)
(* An allowed event that was answered at the local API is handed to the    *)
(* peers: the fire-and-forget goroutine is started on every path that      *)
(* answers with success, also when MarkProcessed failed.  The one way to   *)
(* lose it is a process that ends, by a crash or after its shutdown,       *)
(* between the log entry and the broadcast.                                *)
(***************************************************************************)
AnsweredIsPublished ==
  \A e \in EventIds :
    <<e, "local_api">> \in answered /\ Allowed(e)
      ~> e \in published \cup cutOff
=============================================================================
