------------------------- MODULE SyncPipelineProofs -------------------------
(***************************************************************************)
(* Theorems about SyncPipeline, for every value of its constants.          *)
(***************************************************************************)
EXTENDS SyncPipeline, TLAPS

\* routeEvent sends every event, whatever its type, to one of its statements.
LEMMA RouteOfLabel == \A e \in EventIds : RouteOf(e) \in RouteLabels
BY DEF RouteOf, RouteLabels

\* Empty stores and idle workers have their types.
LEMMA InitType == Init => TypeOK
BY PipelineAssumption DEF Init, TypeOK, Labels

\* A process that ends leaves its workers idle and its memory empty.
LEMMA StopType ==
  ASSUME TypeOK, faults' \in 0..MaxFaults, NEW r \in Replicas, Stop(r)
  PROVE  TypeOK'
BY PipelineAssumption
DEF TypeOK, Stop, indexVars, logVars, statsVars, countVars, Labels

\* Every step of a request, a replica or a store keeps the types.
LEMMA NextType == TypeOK /\ [Next]_vars => TypeOK'
<1> SUFFICES ASSUME TypeOK, [Next]_vars PROVE TypeOK'
  OBVIOUS
<1> USE PipelineAssumption
    DEF vars, requestVars, indexVars, logVars, memoryVars, statsVars,
        countVars, Labels
<1>1. ASSUME NEW w \in Workers, NEW e \in EventIds, NEW s \in Sources,
             Deliver(w, e, s)
      PROVE  TypeOK'
  BY <1>1 DEF TypeOK, Deliver
<1>2. ASSUME NEW w \in Workers, RedisCheck(w)
      PROVE  TypeOK'
  BY <1>2 DEF TypeOK, RedisCheck, Call, Fault, Goto, ReturnOk, Finish, Accept
<1>3. ASSUME NEW w \in Workers, DbCheck(w)
      PROVE  TypeOK'
  BY <1>3 DEF TypeOK, DbCheck, Call, Fault, Goto, ReturnError, Finish
<1>4. ASSUME NEW w \in Workers, Repopulate(w)
      PROVE  TypeOK'
  BY <1>4
  DEF TypeOK, Repopulate, Outcomes, Call, Fault, ReturnOk, Finish, Accept
<1>5. ASSUME NEW w \in Workers, Audit(w)
      PROVE  TypeOK'
  BY <1>5, RouteOfLabel
  DEF TypeOK, Audit, Outcomes, Call, Fault, Goto, RouteLabels
<1>6. ASSUME NEW w \in Workers, InsertPost(w)
      PROVE  TypeOK'
  <2>1. ev[w] \in EventIds
    BY <1>6 DEF TypeOK, InsertPost
  <2>2. behind' \subseteq {Uid(e) : e \in EventIds}
    BY <1>6, <2>1 DEF TypeOK, InsertPost, NoteInsert
  <2>3. /\ postIndex' \in [Posts -> PostRow \cup {NoRow}]
        /\ applied' \in [EventIds -> 0..2]
        /\ UNCHANGED tagIndex
    BY <1>6, <2>1
    DEF TypeOK, InsertPost, SetPost, CountApplied, Upserted, PostRow
  <2> QED
    BY <1>6, <2>2, <2>3
    DEF TypeOK, InsertPost, Outcomes, Call, Fault, Goto, RouteCall, RouteRest
<1>7. ASSUME NEW w \in Workers, HandleNewPost(w)
      PROVE  TypeOK'
  BY <1>7 DEF TypeOK, HandleNewPost, Goto, RouteRest
<1>8. ASSUME NEW w \in Workers, UpdatePost(w)
      PROVE  TypeOK'
  BY <1>8
  DEF TypeOK, UpdatePost, Outcomes, Effective, Call, Fault, Goto, RouteCall,
      RouteRest, SetPost, CountApplied, PostRow
<1>9. ASSUME NEW w \in Workers, DeletePost(w)
      PROVE  TypeOK'
  BY <1>9
  DEF TypeOK, DeletePost, Outcomes, Effective, Call, Fault, Goto, RouteCall,
      RouteRest, SetPost, CountApplied
<1>10. ASSUME NEW w \in Workers, ReadStats(w)
      PROVE  TypeOK'
  BY <1>10 DEF TypeOK, ReadStats, Call, Fault, Goto, RouteRest
<1>11. ASSUME NEW w \in Workers, WriteStats(w)
      PROVE  TypeOK'
  BY <1>11
  DEF TypeOK, WriteStats, Outcomes, Effective, Call, Fault, Goto, RouteCall,
      RouteRest, SetPost, NoteCounts, CountApplied, PostRow
<1>12. ASSUME NEW w \in Workers, UpsertTag(w)
      PROVE  TypeOK'
  BY <1>12
  DEF TypeOK, UpsertTag, Outcomes, Effective, Call, Fault, Goto, RouteCall,
      RouteRest, SetTag, CountApplied, TagRow
<1>13. ASSUME NEW w \in Workers, DeleteTag(w)
      PROVE  TypeOK'
  BY <1>13
  DEF TypeOK, DeleteTag, Outcomes, Effective, Call, Fault, Goto, RouteCall,
      RouteRest, SetTag, CountApplied
<1>14. ASSUME NEW w \in Workers, UpdateTagStats(w)
      PROVE  TypeOK'
  BY <1>14
  DEF TypeOK, UpdateTagStats, Outcomes, Effective, Call, Fault, Goto, RouteCall,
      RouteRest, SetTag, CountApplied, TagRow
<1>15. ASSUME NEW w \in Workers, RouteNothing(w)
      PROVE  TypeOK'
  BY <1>15 DEF TypeOK, RouteNothing, CountApplied, Goto, RouteRest
<1>16. ASSUME NEW w \in Workers, MarkDenied(w)
      PROVE  TypeOK'
  BY <1>16
  DEF TypeOK, MarkDenied, Outcomes, Call, Fault, LogStatus, ReturnOk, Finish,
      Accept
<1>17. ASSUME NEW w \in Workers, MarkFailed(w)
      PROVE  TypeOK'
  BY <1>17
  DEF TypeOK, MarkFailed, Outcomes, Call, Fault, LogStatus, ReturnError, Finish
<1>18. ASSUME NEW w \in Workers, MarkProcessed(w)
      PROVE  TypeOK'
  BY <1>18 DEF TypeOK, MarkProcessed, Outcomes, Call, Fault, LogStatus, Goto
<1>19. ASSUME NEW w \in Workers, CacheMark(w)
      PROVE  TypeOK'
  BY <1>19 DEF TypeOK, CacheMark, Outcomes, Call, Fault, Goto
<1>20. ASSUME NEW w \in Workers, Reply(w)
      PROVE  TypeOK'
  BY <1>20 DEF TypeOK, Reply, ReturnOk, Finish, Accept
<1>21. ASSUME NEW r \in Replicas, NEW e \in EventIds, Broadcast(r, e)
      PROVE  TypeOK'
  BY <1>21 DEF TypeOK, Broadcast
<1>22. ASSUME NEW r \in Replicas, Crash(r)
      PROVE  TypeOK'
  BY <1>22, StopType DEF TypeOK, Crash, Fault
<1>23. CASE ExpireProcessedSet
  BY <1>23 DEF TypeOK, ExpireProcessedSet, Fault
<1>24. ASSUME NEW p \in RegionalPosts, RegionalChange(p)
      PROVE  TypeOK'
  BY <1>24 DEF TypeOK, RegionalChange
<1>25. ASSUME NEW r \in Replicas, Shutdown(r)
      PROVE  TypeOK'
  BY <1>25 DEF TypeOK, Shutdown, Fault
<1>26. ASSUME NEW r \in Replicas, Exit(r)
      PROVE  TypeOK'
  BY <1>26, StopType DEF TypeOK, Exit, Fault
<1>27. CASE UNCHANGED vars
  BY <1>27 DEF TypeOK
<1> QED
  BY <1>1, <1>2, <1>3, <1>4, <1>5, <1>6, <1>7, <1>8, <1>9, <1>10, <1>11, <1>12,
     <1>13, <1>14, <1>15, <1>16, <1>17, <1>18, <1>19, <1>20, <1>21, <1>22,
     <1>23, <1>24, <1>25, <1>26, <1>27
  DEF Next, Step, Route

(***************************************************************************)
(* Every variable keeps its type: a busy worker of processEvent or         *)
(* HandleMessage holds the event and the source it was called with, and    *)
(* the stores hold only rows and statuses the statements write.            *)
(***************************************************************************)
THEOREM TypeCorrect == Spec => []TypeOK
BY InitType, NextType, PTL DEF Spec

-----------------------------------------------------------------------------
\* A tag event names a tag and every other event a post.
LEMMA EventTyped ==
  ASSUME NEW e \in EventIds
  PROVE  /\ Type(e) \in EventTypes
         /\ Type(e) \in TagEventTypes => Uid(e) \in Tags
         /\ Type(e) \notin TagEventTypes => Uid(e) \in Posts
         /\ Event[e].count \in BOOLEAN
BY PipelineAssumption DEF Type, Uid, SyncEvents, WellFormed

\* Each case of the switch in routeEvent is taken by its event type only.
LEMMA RouteOfType ==
  ASSUME NEW e \in EventIds
  PROVE  /\ RouteOf(e) = "insertPost" => Type(e) = "POST_CREATED"
         /\ RouteOf(e) = "updatePost" => Type(e) = "POST_UPDATED"
         /\ RouteOf(e) = "deletePost" => Type(e) = "POST_DELETED"
         /\ RouteOf(e) = "readStats"  => Type(e) = "POST_STATS_UPDATED"
         /\ RouteOf(e) = "upsertTag"  => Type(e) \in {"TAG_CREATED", "TAG_UPDATED"}
         /\ RouteOf(e) = "deleteTag"  => Type(e) = "TAG_DELETED"
         /\ RouteOf(e) = "updateTagStats" =>
              Type(e) = "TAG_STATS_UPDATED" /\ Event[e].count
         /\ RouteOf(e) = "routeNothing" =>
              \/ Type(e) = "OTHER"
              \/ Type(e) = "TAG_STATS_UPDATED" /\ ~Event[e].count
         /\ RouteOf(e) \notin {"feed", "writeStats"}
BY EventTyped DEF RouteOf, EventTypes, PostEventTypes, TagEventTypes

\* The step undoes no event that is done.
DoneKept == \A e \in EventIds : Done(e) => Done(e)'

\* Applications are only counted up and feed offers only added.
LEMMA DoneStays ==
  ASSUME TypeOK,
         \/ UNCHANGED applied
         \/ \E w \in Workers : pc[w] # "idle" /\ CountApplied(w),
         fed \subseteq fed'
  PROVE  DoneKept
<1>1. \A e \in EventIds : applied[e] > 0 => applied'[e] > 0
  BY DEF TypeOK, CountApplied
<1> QED
  BY <1>1 DEF DoneKept, Done

\* A step that leaves the log, the Redis set, the answers and the broadcasts
\* alone keeps what they say of done events.
LEMMA StoresKept ==
  ASSUME TypeOK, LogInv, AnswerInv, PublishInv, DoneKept,
         UNCHANGED <<eventLog, processedSet, answered, goroutines, published>>
  PROVE  LogInv' /\ AnswerInv' /\ PublishInv'
BY DEF DoneKept, LogInv, AnswerInv, PublishInv

\* The UPDATE of UpdatePost replaces the content columns only.
LEMMA ContentReplaced ==
  ASSUME NEW row \in PostRow, NEW e \in EventIds
  PROVE  /\ [row EXCEPT !.content = e] \in PostRow
         /\ [row EXCEPT !.content = e].content = e
         /\ [row EXCEPT !.content = e].origin = row.origin
         /\ [row EXCEPT !.content = e].stats = row.stats
BY DEF PostRow

(***************************************************************************)
(* A statement of routeEvent touches neither the logs nor the memory of    *)
(* the replica, so only the invariants on the request and on the rows are  *)
(* looked at action by action.                                             *)
(***************************************************************************)
LEMMA RouteStep ==
  ASSUME Inv, TypeOK', NEW w \in Workers, Route(w)
  PROVE  Inv'
<1> USE PipelineAssumption
    DEF vars, requestVars, indexVars, logVars, memoryVars, statsVars,
        countVars, Labels, RouteLabels, DoneLabels
<1>1. DoneKept
  <2>1. pc[w] # "idle"
    BY DEF Route, InsertPost, HandleNewPost, UpdatePost, DeletePost, ReadStats,
           WriteStats, UpsertTag, DeleteTag, UpdateTagStats, RouteNothing
  <2>2. CountApplied(w) \/ UNCHANGED applied
    BY DEF Route, InsertPost, HandleNewPost, UpdatePost, DeletePost, ReadStats,
           WriteStats, UpsertTag, DeleteTag, UpdateTagStats, RouteNothing,
           SetPost, SetTag
  <2>3. fed \subseteq fed'
    BY DEF Route, InsertPost, HandleNewPost, UpdatePost, DeletePost, ReadStats,
           WriteStats, UpsertTag, DeleteTag, UpdateTagStats, RouteNothing
  <2> QED
    BY <2>1, <2>2, <2>3, DoneStays DEF Inv
<1>2. LogInv' /\ AnswerInv' /\ PublishInv'
  <2>1. UNCHANGED <<logVars, memoryVars, answered>>
    BY DEF Route, InsertPost, HandleNewPost, UpdatePost, DeletePost, ReadStats,
           WriteStats, UpsertTag, DeleteTag, UpdateTagStats, RouteNothing,
           RouteRest
  <2> QED
    BY <1>1, <2>1, StoresKept DEF Inv
<1>3. CASE InsertPost(w)
  <2>1. RequestInv'
    BY <1>3, <1>1
    DEF Inv, TypeOK, RequestInv, RouteInv, DoneKept, Done, InsertPost, Outcomes,
        Effective, Call, RouteCall, Goto, SetPost, CountApplied, Upserted,
        PostRow
  <2>2. RouteInv'
    BY <1>3
    DEF Inv, TypeOK, RouteInv, InsertPost, Outcomes, Effective, Call, RouteCall,
        Goto, SetPost, CountApplied, Upserted, PostRow
  <2>3. RowInv'
    BY <1>3
    DEF Inv, TypeOK, RequestInv, RouteInv, RowInv, InsertPost, Outcomes,
        Effective, Call, RouteCall, Goto, SetPost, CountApplied, Upserted,
        PostRow
  <2> QED
    BY <1>2, <2>1, <2>2, <2>3 DEF Inv
<1>4. CASE HandleNewPost(w)
  <2>1. RequestInv'
    BY <1>4, <1>1
    DEF Inv, TypeOK, RequestInv, RouteInv, DoneKept, Done, HandleNewPost, Goto
  <2>2. RouteInv'
    BY <1>4 DEF Inv, TypeOK, RouteInv, HandleNewPost, Goto
  <2>3. RowInv'
    BY <1>4 DEF Inv, RowInv, HandleNewPost
  <2> QED
    BY <1>2, <2>1, <2>2, <2>3 DEF Inv
<1>5. CASE UpdatePost(w)
  <2>1. RequestInv'
    BY <1>5, <1>1
    DEF Inv, TypeOK, RequestInv, RouteInv, DoneKept, Done, UpdatePost, Outcomes,
        Effective, Call, RouteCall, Goto, SetPost, CountApplied
  <2>2. RouteInv'
    BY <1>5
    DEF Inv, TypeOK, RouteInv, UpdatePost, Outcomes, Effective, Call, RouteCall,
        Goto, SetPost, CountApplied
  <2>3. RowInv'
    <3> DEFINE p == Uid(ev[w])
               row == postIndex[p]
               new == [row EXCEPT !.content = ev[w]]
    <3>1. ev[w] \in EventIds /\ p \in Posts
      BY <1>5, EventTyped DEF Inv, TypeOK, RouteInv, UpdatePost, TagEventTypes
    <3>2. CASE UNCHANGED postIndex
      BY <3>2 DEF Inv, RowInv
    <3>3. CASE row # NoRow /\ postIndex' = [postIndex EXCEPT ![p] = new]
      <4>1. row \in PostRow
        BY <3>1, <3>3 DEF Inv, TypeOK
      <4>2. new.content = ev[w] /\ new.origin = row.origin
        BY <3>1, <4>1, ContentReplaced
      <4>3. \A q \in Posts : postIndex'[q] = (IF q = p THEN new ELSE postIndex[q])
        BY <3>1, <3>3 DEF Inv, TypeOK
      <4>4. Type(ev[w]) = "POST_UPDATED" /\ Allowed(ev[w])
        BY <1>5 DEF Inv, RequestInv, RouteInv, UpdatePost
      <4> QED
        BY <3>1, <3>3, <4>2, <4>3, <4>4 DEF Inv, RowInv
    <3> QED
      BY <1>5, <3>2, <3>3 DEF UpdatePost, SetPost
  <2> QED
    BY <1>2, <2>1, <2>2, <2>3 DEF Inv
<1>6. CASE DeletePost(w)
  <2>1. RequestInv'
    BY <1>6, <1>1
    DEF Inv, TypeOK, RequestInv, RouteInv, DoneKept, Done, DeletePost, Outcomes,
        Effective, Call, RouteCall, Goto, SetPost, CountApplied
  <2>2. RouteInv'
    BY <1>6
    DEF Inv, TypeOK, RouteInv, DeletePost, Outcomes, Effective, Call, RouteCall,
        Goto, SetPost, CountApplied
  <2>3. RowInv'
    BY <1>6
    DEF Inv, TypeOK, RequestInv, RouteInv, RowInv, DeletePost, Outcomes,
        Effective, Call, RouteCall, Goto, SetPost, CountApplied
  <2> QED
    BY <1>2, <2>1, <2>2, <2>3 DEF Inv
<1>7. CASE ReadStats(w)
  <2>1. RequestInv'
    BY <1>7, <1>1
    DEF Inv, TypeOK, RequestInv, RouteInv, DoneKept, Done, ReadStats, Call, Goto
  <2>2. RouteInv'
    BY <1>7 DEF Inv, TypeOK, RouteInv, ReadStats, Call, Goto
  <2>3. RowInv'
    BY <1>7 DEF Inv, RowInv, ReadStats
  <2> QED
    BY <1>2, <2>1, <2>2, <2>3 DEF Inv
<1>8. CASE WriteStats(w)
  <2>1. RequestInv'
    BY <1>8, <1>1
    DEF Inv, TypeOK, RequestInv, RouteInv, DoneKept, Done, WriteStats, Outcomes,
        Effective, Call, RouteCall, Goto, SetPost, CountApplied, PostRow
  <2>2. RouteInv'
    BY <1>8
    DEF Inv, TypeOK, RouteInv, WriteStats, Outcomes, Effective, Call, RouteCall,
        Goto, SetPost, CountApplied, PostRow
  <2>3. RowInv'
    <3> DEFINE p == Uid(ev[w])
               row == postIndex[p]
               new == [row EXCEPT !.stats = val[w]]
    <3>1. p \in Posts
      BY <1>8, EventTyped DEF Inv, TypeOK, RouteInv, WriteStats, TagEventTypes
    <3>2. CASE UNCHANGED postIndex
      BY <3>2 DEF Inv, RowInv
    <3>3. CASE row = NoRow /\ postIndex' = [postIndex EXCEPT ![p] = NoRow]
      BY <3>1, <3>3 DEF Inv, TypeOK, RowInv
    <3>4. CASE row # NoRow /\ postIndex' = [postIndex EXCEPT ![p] = new]
      <4>1. row \in PostRow
        BY <3>1, <3>4 DEF Inv, TypeOK
      <4>2. new.content = row.content /\ new.origin = row.origin
        BY <4>1 DEF PostRow
      <4>3. \A q \in Posts : postIndex'[q] = (IF q = p THEN new ELSE postIndex[q])
        BY <3>1, <3>4 DEF Inv, TypeOK
      <4> QED
        BY <3>1, <3>4, <4>2, <4>3 DEF Inv, RowInv
    <3>5. \/ UNCHANGED postIndex
          \/ postIndex' = [postIndex EXCEPT ![p] = IF row = NoRow THEN NoRow
                                                  ELSE new]
      BY <1>8 DEF WriteStats, SetPost
    <3> QED
      BY <3>2, <3>3, <3>4, <3>5
  <2> QED
    BY <1>2, <2>1, <2>2, <2>3 DEF Inv
<1>9. CASE UpsertTag(w)
  <2>1. RequestInv'
    BY <1>9, <1>1
    DEF Inv, TypeOK, RequestInv, RouteInv, DoneKept, Done, UpsertTag, Outcomes,
        Effective, Call, RouteCall, Goto, SetTag, CountApplied
  <2>2. RouteInv'
    BY <1>9
    DEF Inv, TypeOK, RouteInv, UpsertTag, Outcomes, Effective, Call, RouteCall,
        Goto, SetTag, CountApplied
  <2>3. RowInv'
    BY <1>9 DEF Inv, RowInv, UpsertTag, SetTag
  <2> QED
    BY <1>2, <2>1, <2>2, <2>3 DEF Inv
<1>10. CASE DeleteTag(w)
  <2>1. RequestInv'
    BY <1>10, <1>1
    DEF Inv, TypeOK, RequestInv, RouteInv, DoneKept, Done, DeleteTag, Outcomes,
        Effective, Call, RouteCall, Goto, SetTag, CountApplied
  <2>2. RouteInv'
    BY <1>10
    DEF Inv, TypeOK, RouteInv, DeleteTag, Outcomes, Effective, Call, RouteCall,
        Goto, SetTag, CountApplied
  <2>3. RowInv'
    BY <1>10 DEF Inv, RowInv, DeleteTag, SetTag
  <2> QED
    BY <1>2, <2>1, <2>2, <2>3 DEF Inv
<1>11. CASE UpdateTagStats(w)
  <2>1. RequestInv'
    BY <1>11, <1>1
    DEF Inv, TypeOK, RequestInv, RouteInv, DoneKept, Done, UpdateTagStats,
        Outcomes, Effective, Call, RouteCall, Goto, SetTag, CountApplied
  <2>2. RouteInv'
    BY <1>11
    DEF Inv, TypeOK, RouteInv, UpdateTagStats, Outcomes, Effective, Call,
        RouteCall, Goto, SetTag, CountApplied
  <2>3. RowInv'
    BY <1>11 DEF Inv, RowInv, UpdateTagStats, SetTag
  <2> QED
    BY <1>2, <2>1, <2>2, <2>3 DEF Inv
<1>12. CASE RouteNothing(w)
  <2>1. RequestInv'
    BY <1>12, <1>1
    DEF Inv, TypeOK, RequestInv, RouteInv, DoneKept, Done, RouteNothing,
        CountApplied, Goto
  <2>2. RouteInv'
    BY <1>12 DEF Inv, TypeOK, RouteInv, RouteNothing, CountApplied, Goto
  <2>3. RowInv'
    BY <1>12 DEF Inv, RowInv, RouteNothing
  <2> QED
    BY <1>2, <2>1, <2>2, <2>3 DEF Inv
<1> QED
  BY <1>3, <1>4, <1>5, <1>6, <1>7, <1>8, <1>9, <1>10, <1>11, <1>12 DEF Route

\* A step that starts no broadcast keeps the invariant on broadcasts.
LEMMA PublishKept ==
  ASSUME TypeOK, PublishInv, DoneKept, answered \subseteq answered',
         UNCHANGED <<goroutines, published>>
  PROVE  PublishInv'
BY DEF DoneKept, PublishInv

\* Without requests, rows, log entries and broadcasts the invariant holds.
LEMMA InitInv == Init => Inv
BY InitType DEF Init, Inv, RequestInv, RouteInv, LogInv, AnswerInv, PublishInv,
   RowInv, DoneLabels, RouteLabels

(***************************************************************************)
(* Every step keeps the invariant.  The steps outside routeEvent are the   *)
(* ones that write the log, the Redis set, the answers and the broadcasts; *)
(* each does so for an event that is done, or answers one that is denied.  *)
(***************************************************************************)
LEMMA NextInv == Inv /\ [Next]_vars => Inv'
<1> SUFFICES ASSUME Inv, [Next]_vars PROVE Inv'
  OBVIOUS
<1>0. TypeOK /\ TypeOK'
  BY NextType DEF Inv
<1> USE PipelineAssumption
    DEF vars, requestVars, indexVars, logVars, memoryVars, statsVars,
        countVars, Labels, RouteLabels, DoneLabels
<1>1. ASSUME NEW w \in Workers, NEW e \in EventIds, NEW s \in Sources, Deliver(w, e, s)
      PROVE  Inv'
  <2>1. DoneKept
    BY <1>0, <1>1, DoneStays DEF Deliver
  <2>2. RequestInv'
    BY <1>0, <1>1, <2>1
    DEF Inv, TypeOK, RequestInv, LogInv, DoneKept, Done, Deliver
  <2>3. RouteInv'
    BY <1>0, <1>1 DEF Inv, TypeOK, RouteInv, Deliver
  <2>4. LogInv'
    BY <1>0, <1>1, <2>1 DEF Inv, TypeOK, RequestInv, LogInv, DoneKept, Deliver
  <2>5. AnswerInv'
    BY <1>0, <1>1, <2>1
    DEF Inv, TypeOK, RequestInv, LogInv, AnswerInv, DoneKept, Deliver
  <2>6. PublishInv'
    BY <1>0, <1>1, <2>1, PublishKept DEF Inv, Deliver
  <2>7. RowInv'
    BY <1>1 DEF Inv, RowInv, Deliver
  <2> QED
    BY <1>0, <2>2, <2>3, <2>4, <2>5, <2>6, <2>7 DEF Inv
<1>2. ASSUME NEW w \in Workers, RedisCheck(w)
      PROVE  Inv'
  <2>1. DoneKept
    BY <1>0, <1>2, DoneStays DEF RedisCheck
  <2>2. RequestInv'
    BY <1>0, <1>2, <2>1
    DEF Inv, TypeOK, RequestInv, LogInv, DoneKept, Done, RedisCheck, Call, Goto,
        ReturnOk, Finish, Accept
  <2>3. RouteInv'
    BY <1>0, <1>2
    DEF Inv, TypeOK, RouteInv, RedisCheck, Call, Goto, ReturnOk, Finish, Accept
  <2>4. LogInv'
    BY <1>0, <1>2, <2>1
    DEF Inv, TypeOK, RequestInv, LogInv, DoneKept, RedisCheck, Call, Goto,
        ReturnOk, Finish, Accept
  <2>5. AnswerInv'
    BY <1>0, <1>2, <2>1
    DEF Inv, TypeOK, RequestInv, LogInv, AnswerInv, DoneKept, RedisCheck, Call,
        Goto, ReturnOk, Finish, Accept
  <2>6. PublishInv'
    BY <1>0, <1>2, <2>1, PublishKept DEF Inv, RedisCheck, Goto, ReturnOk, Accept
  <2>7. RowInv'
    BY <1>2 DEF Inv, RowInv, RedisCheck
  <2> QED
    BY <1>0, <2>2, <2>3, <2>4, <2>5, <2>6, <2>7 DEF Inv
<1>3. ASSUME NEW w \in Workers, DbCheck(w)
      PROVE  Inv'
  <2>1. DoneKept
    BY <1>0, <1>3, DoneStays DEF DbCheck
  <2>2. RequestInv'
    BY <1>0, <1>3, <2>1
    DEF Inv, TypeOK, RequestInv, LogInv, DoneKept, Done, DbCheck, Call, Goto,
        ReturnError, Finish
  <2>3. RouteInv'
    BY <1>0, <1>3
    DEF Inv, TypeOK, RouteInv, DbCheck, Call, Goto, ReturnError, Finish
  <2>4. LogInv'
    BY <1>0, <1>3, <2>1
    DEF Inv, TypeOK, RequestInv, LogInv, DoneKept, DbCheck, Call, Goto,
        ReturnError, Finish
  <2>5. AnswerInv'
    BY <1>0, <1>3, <2>1
    DEF Inv, TypeOK, RequestInv, LogInv, AnswerInv, DoneKept, DbCheck, Call,
        Goto, ReturnError, Finish
  <2>6. PublishInv'
    BY <1>0, <1>3, <2>1, PublishKept DEF Inv, DbCheck, Goto, ReturnError
  <2>7. RowInv'
    BY <1>3 DEF Inv, RowInv, DbCheck
  <2> QED
    BY <1>0, <2>2, <2>3, <2>4, <2>5, <2>6, <2>7 DEF Inv
<1>4. ASSUME NEW w \in Workers, Repopulate(w)
      PROVE  Inv'
  <2>1. DoneKept
    BY <1>0, <1>4, DoneStays DEF Repopulate
  <2>2. RequestInv'
    BY <1>0, <1>4, <2>1
    DEF Inv, TypeOK, RequestInv, LogInv, DoneKept, Done, Repopulate, Outcomes,
        Effective, Call, ReturnOk, Finish, Accept
  <2>3. RouteInv'
    BY <1>0, <1>4
    DEF Inv, TypeOK, RouteInv, Repopulate, Outcomes, Effective, Call, ReturnOk,
        Finish, Accept
  <2>4. LogInv'
    BY <1>0, <1>4, <2>1
    DEF Inv, TypeOK, RequestInv, LogInv, DoneKept, Repopulate, Outcomes,
        Effective, Call, ReturnOk, Finish, Accept
  <2>5. AnswerInv'
    BY <1>0, <1>4, <2>1
    DEF Inv, TypeOK, RequestInv, LogInv, AnswerInv, DoneKept, Repopulate,
        Outcomes, Effective, Call, ReturnOk, Finish, Accept
  <2>6. PublishInv'
    BY <1>0, <1>4, <2>1, PublishKept DEF Inv, Repopulate, ReturnOk, Accept
  <2>7. RowInv'
    BY <1>4 DEF Inv, RowInv, Repopulate
  <2> QED
    BY <1>0, <2>2, <2>3, <2>4, <2>5, <2>6, <2>7 DEF Inv
<1>5. ASSUME NEW w \in Workers, Audit(w)
      PROVE  Inv'
  <2>1. DoneKept
    BY <1>0, <1>5, DoneStays DEF Audit
  <2>2. RequestInv'
    BY <1>0, <1>5, <2>1, RouteOfLabel, RouteOfType
    DEF Inv, TypeOK, RequestInv, LogInv, DoneKept, Done, Audit, Outcomes,
        Effective, Call, Goto
  <2>3. RouteInv'
    BY <1>0, <1>5, RouteOfLabel, RouteOfType
    DEF Inv, TypeOK, RouteInv, Audit, Outcomes, Effective, Call, Goto
  <2>4. LogInv'
    BY <1>0, <1>5, <2>1
    DEF Inv, TypeOK, RequestInv, LogInv, DoneKept, Audit, Outcomes, Effective,
        Call, Goto
  <2>5. AnswerInv'
    BY <1>0, <1>5, <2>1
    DEF Inv, TypeOK, RequestInv, LogInv, AnswerInv, DoneKept, Audit, Outcomes,
        Effective, Call, Goto
  <2>6. PublishInv'
    BY <1>0, <1>5, <2>1, PublishKept DEF Inv, Audit, Goto
  <2>7. RowInv'
    BY <1>5 DEF Inv, RowInv, Audit
  <2> QED
    BY <1>0, <2>2, <2>3, <2>4, <2>5, <2>6, <2>7 DEF Inv
<1>6. ASSUME NEW w \in Workers, MarkDenied(w)
      PROVE  Inv'
  <2>1. DoneKept
    BY <1>0, <1>6, DoneStays DEF MarkDenied, LogStatus
  <2>2. RequestInv'
    BY <1>0, <1>6, <2>1
    DEF Inv, TypeOK, RequestInv, LogInv, DoneKept, Done, MarkDenied, Outcomes,
        Effective, Call, LogStatus, ReturnOk, Finish, Accept
  <2>3. RouteInv'
    BY <1>0, <1>6
    DEF Inv, TypeOK, RouteInv, MarkDenied, Outcomes, Effective, Call, LogStatus,
        ReturnOk, Finish, Accept
  <2>4. LogInv'
    BY <1>0, <1>6, <2>1
    DEF Inv, TypeOK, RequestInv, LogInv, DoneKept, MarkDenied, Outcomes,
        Effective, Call, LogStatus, ReturnOk, Finish, Accept
  <2>5. AnswerInv'
    BY <1>0, <1>6, <2>1
    DEF Inv, TypeOK, RequestInv, LogInv, AnswerInv, DoneKept, MarkDenied,
        Outcomes, Effective, Call, LogStatus, ReturnOk, Finish, Accept
  <2>6. PublishInv'
    BY <1>0, <1>6, <2>1, PublishKept
    DEF Inv, MarkDenied, LogStatus, ReturnOk, Accept
  <2>7. RowInv'
    BY <1>6 DEF Inv, RowInv, MarkDenied, LogStatus
  <2> QED
    BY <1>0, <2>2, <2>3, <2>4, <2>5, <2>6, <2>7 DEF Inv
<1>7. ASSUME NEW w \in Workers, MarkFailed(w)
      PROVE  Inv'
  <2>1. DoneKept
    BY <1>0, <1>7, DoneStays DEF MarkFailed, LogStatus
  <2>2. RequestInv'
    BY <1>0, <1>7, <2>1
    DEF Inv, TypeOK, RequestInv, LogInv, DoneKept, Done, MarkFailed, Outcomes,
        Effective, Call, LogStatus, ReturnError, Finish
  <2>3. RouteInv'
    BY <1>0, <1>7
    DEF Inv, TypeOK, RouteInv, MarkFailed, Outcomes, Effective, Call, LogStatus,
        ReturnError, Finish
  <2>4. LogInv'
    BY <1>0, <1>7, <2>1
    DEF Inv, TypeOK, RequestInv, LogInv, DoneKept, MarkFailed, Outcomes,
        Effective, Call, LogStatus, ReturnError, Finish
  <2>5. AnswerInv'
    BY <1>0, <1>7, <2>1
    DEF Inv, TypeOK, RequestInv, LogInv, AnswerInv, DoneKept, MarkFailed,
        Outcomes, Effective, Call, LogStatus, ReturnError, Finish
  <2>6. PublishInv'
    BY <1>0, <1>7, <2>1, PublishKept DEF Inv, MarkFailed, LogStatus, ReturnError
  <2>7. RowInv'
    BY <1>7 DEF Inv, RowInv, MarkFailed, LogStatus
  <2> QED
    BY <1>0, <2>2, <2>3, <2>4, <2>5, <2>6, <2>7 DEF Inv
<1>8. ASSUME NEW w \in Workers, MarkProcessed(w)
      PROVE  Inv'
  <2>1. DoneKept
    BY <1>0, <1>8, DoneStays DEF MarkProcessed, LogStatus
  <2>2. RequestInv'
    BY <1>0, <1>8, <2>1
    DEF Inv, TypeOK, RequestInv, LogInv, DoneKept, Done, MarkProcessed,
        Outcomes, Effective, Call, LogStatus, Goto
  <2>3. RouteInv'
    BY <1>0, <1>8
    DEF Inv, TypeOK, RouteInv, MarkProcessed, Outcomes, Effective, Call,
        LogStatus, Goto
  <2>4. LogInv'
    BY <1>0, <1>8, <2>1
    DEF Inv, TypeOK, RequestInv, LogInv, DoneKept, MarkProcessed, Outcomes,
        Effective, Call, LogStatus, Goto
  <2>5. AnswerInv'
    BY <1>0, <1>8, <2>1
    DEF Inv, TypeOK, RequestInv, LogInv, AnswerInv, DoneKept, MarkProcessed,
        Outcomes, Effective, Call, LogStatus, Goto
  <2>6. PublishInv'
    BY <1>0, <1>8, <2>1, PublishKept DEF Inv, MarkProcessed, LogStatus, Goto
  <2>7. RowInv'
    BY <1>8 DEF Inv, RowInv, MarkProcessed, LogStatus
  <2> QED
    BY <1>0, <2>2, <2>3, <2>4, <2>5, <2>6, <2>7 DEF Inv
<1>9. ASSUME NEW w \in Workers, CacheMark(w)
      PROVE  Inv'
  <2>1. DoneKept
    BY <1>0, <1>9, DoneStays DEF CacheMark
  <2>2. RequestInv'
    BY <1>0, <1>9, <2>1
    DEF Inv, TypeOK, RequestInv, LogInv, DoneKept, Done, CacheMark, Outcomes,
        Effective, Call, Goto
  <2>3. RouteInv'
    BY <1>0, <1>9
    DEF Inv, TypeOK, RouteInv, CacheMark, Outcomes, Effective, Call, Goto
  <2>4. LogInv'
    BY <1>0, <1>9, <2>1
    DEF Inv, TypeOK, RequestInv, LogInv, DoneKept, CacheMark, Outcomes,
        Effective, Call, Goto
  <2>5. AnswerInv'
    BY <1>0, <1>9, <2>1
    DEF Inv, TypeOK, RequestInv, LogInv, AnswerInv, DoneKept, CacheMark,
        Outcomes, Effective, Call, Goto
  <2>6. PublishInv'
    BY <1>0, <1>9, <2>1, PublishKept DEF Inv, CacheMark, Goto
  <2>7. RowInv'
    BY <1>9 DEF Inv, RowInv, CacheMark
  <2> QED
    BY <1>0, <2>2, <2>3, <2>4, <2>5, <2>6, <2>7 DEF Inv
<1>10. ASSUME NEW w \in Workers, Reply(w)
      PROVE  Inv'
  <2>1. DoneKept
    BY <1>0, <1>10, DoneStays DEF Reply
  <2>2. RequestInv'
    BY <1>0, <1>10, <2>1
    DEF Inv, TypeOK, RequestInv, LogInv, DoneKept, Done, Reply, ReturnOk,
        Finish, Accept
  <2>3. RouteInv'
    BY <1>0, <1>10 DEF Inv, TypeOK, RouteInv, Reply, ReturnOk, Finish, Accept
  <2>4. LogInv'
    BY <1>0, <1>10, <2>1
    DEF Inv, TypeOK, RequestInv, LogInv, DoneKept, Reply, ReturnOk, Finish,
        Accept
  <2>5. AnswerInv'
    BY <1>0, <1>10, <2>1
    DEF Inv, TypeOK, RequestInv, LogInv, AnswerInv, DoneKept, Reply, ReturnOk,
        Finish, Accept
  <2>6. PublishInv'
    <3>1. /\ answered' = answered \cup {<<ev[w], src[w]>>}
          /\ published' = published
      BY <1>10 DEF Reply, ReturnOk, Accept
    <3>2. \A e \in EventIds : e = ev[w] => Done(e)'
      BY <1>0, <1>10, <2>1 DEF Inv, RequestInv, DoneKept, Reply
    <3>3. \/ goroutines' = goroutines
          \/ /\ src[w] = "local_api"
             /\ goroutines' = goroutines \cup {<<ReplicaOf[w], ev[w]>>}
      BY <1>10 DEF Reply
    <3>4. ASSUME NEW e \in EventIds,
                 e \in published' \/ \E r \in Replicas : <<r, e>> \in goroutines'
          PROVE  Done(e)' /\ <<e, "local_api">> \in answered'
      <4>1. CASE e \in published \/ \E r \in Replicas : <<r, e>> \in goroutines
        <5>1. Done(e) /\ <<e, "local_api">> \in answered
          BY <4>1 DEF Inv, PublishInv
        <5> QED
          BY <2>1, <3>1, <5>1 DEF DoneKept
      <4>2. CASE e = ev[w] /\ src[w] = "local_api"
        BY <3>1, <3>2, <4>2
      <4> QED
        BY <3>1, <3>3, <3>4, <4>1, <4>2
    <3> QED
      BY <3>4 DEF PublishInv
  <2>7. RowInv'
    BY <1>10 DEF Inv, RowInv, Reply
  <2> QED
    BY <1>0, <2>2, <2>3, <2>4, <2>5, <2>6, <2>7 DEF Inv
<1>11. ASSUME NEW w \in Workers, Route(w)
      PROVE  Inv'
  BY <1>0, <1>11, RouteStep
<1>12. ASSUME NEW r \in Replicas, NEW e \in EventIds, Broadcast(r, e)
      PROVE  Inv'
  <2>1. DoneKept
    BY <1>0, <1>12, DoneStays DEF Broadcast
  <2>2. PublishInv'
    BY <1>0, <1>12, <2>1 DEF Inv, TypeOK, PublishInv, DoneKept, Broadcast
  <2> QED
    BY <1>0, <1>12, <2>1, <2>2
    DEF Inv, TypeOK, RequestInv, RouteInv, LogInv, AnswerInv, RowInv, DoneKept,
        Broadcast
<1>13. ASSUME NEW r \in Replicas, Crash(r) \/ Exit(r)
      PROVE  Inv'
  <2>0. Stop(r)
    BY <1>13 DEF Crash, Exit
  <2>1. DoneKept
    BY <1>0, <2>0, DoneStays DEF Stop
  <2>2. RequestInv' /\ RouteInv'
    BY <1>0, <2>0, <2>1 DEF Inv, TypeOK, RequestInv, RouteInv, DoneKept, Stop
  <2>3. PublishInv'
    BY <1>0, <2>0, <2>1 DEF Inv, PublishInv, DoneKept, Stop
  <2> QED
    BY <1>0, <2>0, <2>1, <2>2, <2>3
    DEF Inv, LogInv, AnswerInv, RowInv, DoneKept, Stop
<1>14. ASSUME /\ UNCHANGED <<requestVars, applied, fed, postIndex, eventLog,
                             answered, goroutines, published>>
              /\ processedSet' \subseteq processedSet
       PROVE  Inv'
  <2>1. DoneKept
    BY <1>0, <1>14, DoneStays
  <2>2. RequestInv' /\ RouteInv'
    BY <1>0, <1>14, <2>1 DEF Inv, TypeOK, RequestInv, RouteInv, DoneKept
  <2>3. LogInv' /\ AnswerInv'
    BY <1>14, <2>1 DEF Inv, LogInv, AnswerInv, DoneKept
  <2>4. PublishInv'
    BY <1>0, <1>14, <2>1, PublishKept DEF Inv
  <2>5. RowInv'
    BY <1>14 DEF Inv, RowInv
  <2> QED
    BY <1>0, <2>2, <2>3, <2>4, <2>5 DEF Inv
<1>15. CASE ExpireProcessedSet
  BY <1>14, <1>15 DEF ExpireProcessedSet
<1>16. ASSUME NEW p \in RegionalPosts, RegionalChange(p)
       PROVE  Inv'
  BY <1>14, <1>16 DEF RegionalChange
<1>17. CASE UNCHANGED vars
  BY <1>14, <1>17
<1>19. ASSUME NEW r \in Replicas, Shutdown(r)
       PROVE  Inv'
  BY <1>14, <1>19 DEF Shutdown
<1>18. ASSUME NEW w \in Workers, Step(w)
       PROVE  Inv'
  BY <1>2, <1>3, <1>4, <1>5, <1>6, <1>7, <1>8, <1>9, <1>10, <1>11, <1>18
  DEF Step
<1> QED
  BY <1>1, <1>12, <1>13, <1>15, <1>16, <1>17, <1>18, <1>19 DEF Next

(***************************************************************************)
(* Inv holds in every reachable state: what the stores say of an event,    *)
(* what its senders were told and what goes to the peers all follow from   *)
(* the point each request has reached, whatever the failures and the       *)
(* interleaving of the handlers.                                           *)
(***************************************************************************)
THEOREM Invariance == Spec => []Inv
BY InitInv, NextInv, PTL DEF Spec

-----------------------------------------------------------------------------
\* What the rules allow of a post's content may leave the region.
LEMMA CheckSound ==
  ASSUME NEW e \in EventIds, Allowed(e), Type(e) \in {"POST_CREATED", "POST_UPDATED"}
  PROVE  MayLeaveRegion(Event[e])
<1>1. /\ Event[e].category \in DataCategories
      /\ Event[e].visibility \in Visibilities
      /\ Event[e].consent \in BOOLEAN
  BY PipelineAssumption DEF SyncEvents
<1> QED
  BY <1>1 DEF Allowed, Type, Check, Allow, Deny, IdentifierOnly, TagEventTypes,
     MayLeaveRegion

(***************************************************************************)
(* IsProcessed answers "processed" only for events whose routeEvent took   *)
(* effect, for any number of replicas, requests, failures and expiries.    *)
(***************************************************************************)
THEOREM DedupSafe == Spec => []DedupSound
<1>1. Inv => DedupSound
  BY DEF Inv, LogInv, Done, DedupSound
<1> QED
  BY <1>1, Invariance, PTL

(***************************************************************************)
(* HandleSync, HandleCrossSync and HandleMessage report success for an     *)
(* allowed event only after it took effect.                                *)
(***************************************************************************)
THEOREM AnswerSafe == Spec => []AnswerSound
<1>1. Inv => AnswerSound
  BY DEF Inv, AnswerInv, Done, AnswerSound
<1> QED
  BY <1>1, Invariance, PTL

(***************************************************************************)
(* processEvent starts a broadcast only of an event that is allowed, took  *)
(* effect here and came in at the local API.                               *)
(***************************************************************************)
THEOREM PublishSafe == Spec => []PublishSound
<1>1. Inv => PublishSound
  BY DEF Inv, PublishInv, Done, PublishSound
<1> QED
  BY <1>1, Invariance, PTL

(***************************************************************************)
(* A POST_CREATED event the log or the Redis set holds as processed was    *)
(* offered to the feeds by HandleNewPost.                                  *)
(***************************************************************************)
THEOREM FedSafe == Spec => []ProcessedIsFed
<1>1. Inv => ProcessedIsFed
  BY DEF Inv, LogInv, Done, ProcessedIsFed
<1> QED
  BY <1>1, Invariance, PTL

(***************************************************************************)
(* Every row of global_post_index holds content, and compliance columns,   *)
(* of events about its own post that GDPRChecker.Check lets leave their    *)
(* region.                                                                 *)
(***************************************************************************)
THEOREM ComplianceSafe == Spec => []IndexCompliant
<1>1. Inv => IndexCompliant
  <2> SUFFICES ASSUME Inv, NEW p \in Posts, postIndex[p] # NoRow,
                      NEW e \in {postIndex[p].content, postIndex[p].origin}
               PROVE  Uid(e) = p /\ MayLeaveRegion(Event[e])
    BY DEF IndexCompliant
  <2>1. postIndex[p] \in PostRow
    BY DEF Inv, TypeOK
  <2>2. e \in EventIds
    BY <2>1 DEF PostRow
  <2> QED
    BY <2>2, CheckSound DEF Inv, RowInv
<1> QED
  BY <1>1, Invariance, PTL

-----------------------------------------------------------------------------
(***************************************************************************)
(* SyncPipeline implements SyncContract, for every value of the constants. *)
(***************************************************************************)

\* The contract's rules are the pipeline's: both evaluate SyncEvent's Check.
LEMMA PermittedIsAllowed ==
  ASSUME NEW e \in EventIds
  PROVE  Contract!Permitted(e) <=> Allowed(e)
BY DEF Contract!Permitted, Allowed, Contract!Check, Check, Contract!Allow,
   Allow,
   Contract!Deny, Deny, Contract!IdentifierOnly, IdentifierOnly,
   Contract!TagEventTypes, TagEventTypes, Contract!HomeReason, HomeReason

\* One more application of e is one application in the contract.
LEMMA AppliedCollects ==
  ASSUME TypeOK, NEW w \in Workers, ev[w] \in EventIds, CountApplied(w)
  PROVE  {e \in EventIds : applied[e] > 0}'
           = {e \in EventIds : applied[e] > 0} \cup {ev[w]}
<1>1. \A e \in EventIds : applied'[e] > 0 <=> applied[e] > 0 \/ e = ev[w]
  BY DEF TypeOK, CountApplied
<1> QED
  BY <1>1

\* A statement that writes the row of ev[w]'s post as the contract says.
LEMMA PostApplied ==
  ASSUME Inv, NEW w \in Workers, NEW row, SetPost(w, row),
         ev[w] \in EventIds, Allowed(ev[w]), Type(ev[w]) \notin TagEventTypes,
         Contract!PostEffect(ev[w], postIndex[Uid(ev[w])], row),
         UNCHANGED <<answered, published>>
  PROVE  Contract!Apply(ev[w])
<1>1. Uid(ev[w]) \in Posts
  BY EventTyped
<1>2. \A p \in Posts : postIndex'[p] = IF p = Uid(ev[w]) THEN row ELSE postIndex[p]
  BY <1>1 DEF Inv, TypeOK, SetPost
<1>3. DOMAIN postIndex = Posts
  BY DEF Inv, TypeOK
<1>4. Contract!OnlyRow(Uid(ev[w]), postIndex, postIndex')
  BY <1>2, <1>3 DEF Contract!OnlyRow
<1>5. Contract!PostEffect(ev[w], postIndex[Uid(ev[w])], postIndex'[Uid(ev[w])])
  BY <1>1, <1>2
<1> QED
  BY <1>4, <1>5, PermittedIsAllowed, AppliedCollects
  DEF Inv, SetPost, Contract!Apply, Uid, Type, TagEventTypes,
      Contract!TagEventTypes

\* The same for a tag.
LEMMA TagApplied ==
  ASSUME Inv, NEW w \in Workers, NEW row, SetTag(w, row),
         ev[w] \in EventIds, Allowed(ev[w]), Type(ev[w]) \in TagEventTypes,
         Contract!TagEffect(ev[w], tagIndex[Uid(ev[w])], row),
         UNCHANGED <<answered, published>>
  PROVE  Contract!Apply(ev[w])
<1>1. Uid(ev[w]) \in Tags
  BY EventTyped
<1>2. \A t \in Tags : tagIndex'[t] = IF t = Uid(ev[w]) THEN row ELSE tagIndex[t]
  BY <1>1 DEF Inv, TypeOK, SetTag
<1>3. DOMAIN tagIndex = Tags
  BY DEF Inv, TypeOK
<1>4. Contract!OnlyRow(Uid(ev[w]), tagIndex, tagIndex')
  BY <1>2, <1>3 DEF Contract!OnlyRow
<1>5. Contract!TagEffect(ev[w], tagIndex[Uid(ev[w])], tagIndex'[Uid(ev[w])])
  BY <1>1, <1>2
<1> QED
  BY <1>4, <1>5, PermittedIsAllowed, AppliedCollects
  DEF Inv, SetTag, Contract!Apply, Uid, Type, TagEventTypes,
      Contract!TagEventTypes

\* The two ways in which the content columns of a row are written.
LEMMA UpsertEffect ==
  ASSUME NEW e \in EventIds, NEW old \in PostRow \cup {NoRow},
         Type(e) \in {"POST_CREATED", "POST_UPDATED"}
  PROVE  Contract!PostEffect(e, old, Upserted(old, e))
<1>1. CASE old = NoRow
  <2> DEFINE new == [content |-> e, origin |-> e, stats |-> 0]
  <2>1. new \in PostRow
    BY PipelineAssumption DEF PostRow
  <2>2. new # NoRow
    BY <2>1, NoRowAssumption
  <2>3. Upserted(old, e) = new
    BY <1>1 DEF Upserted
  <2> QED
    BY <1>1, <2>2, <2>3 DEF Contract!PostEffect, Type
<1>2. CASE old # NoRow
  <2> DEFINE new == [old EXCEPT !.content = e]
  <2>1. /\ new \in PostRow
        /\ new.content = e /\ new.origin = old.origin /\ new.stats = old.stats
    BY <1>2, ContentReplaced
  <2>2. new # NoRow
    BY <2>1, NoRowAssumption
  <2>3. Upserted(old, e) = new
    BY <1>2 DEF Upserted
  <2> HIDE DEF new
  <2> QED
    BY <1>2, <2>1, <2>2, <2>3 DEF Contract!PostEffect, Type
<1> QED
  BY <1>1, <1>2

\* Each statement of routeEvent applies its event, or changes nothing.
LEMMA RouteRefines ==
  ASSUME Inv, NEW w \in Workers, Route(w)
  PROVE  Contract!Apply(ev[w]) \/ UNCHANGED <<indexVars, answered, published>>
<1> USE DEF RouteLabels, DoneLabels, memoryVars
<1>1. ev[w] \in EventIds /\ Allowed(ev[w]) /\ UNCHANGED <<answered, published>>
  BY DEF Inv, TypeOK, RequestInv, Route, InsertPost, HandleNewPost, UpdatePost,
         DeletePost, ReadStats, WriteStats, UpsertTag, DeleteTag, UpdateTagStats,
         RouteNothing, RouteRest
<1>2. /\ Type(ev[w]) \notin TagEventTypes =>
           postIndex[Uid(ev[w])] \in PostRow \cup {NoRow}
      /\ Type(ev[w]) \in TagEventTypes =>
           tagIndex[Uid(ev[w])] \in TagRow \cup {NoRow}
  BY <1>1, EventTyped DEF Inv, TypeOK
<1> DEFINE post == postIndex[Uid(ev[w])]
           tag  == tagIndex[Uid(ev[w])]
<1>3. CASE InsertPost(w)
  <2>1. Type(ev[w]) \in {"POST_CREATED", "POST_UPDATED"}
    BY <1>3 DEF Inv, RouteInv, InsertPost
  <2>2. Contract!PostEffect(ev[w], post, Upserted(post, ev[w]))
    BY <1>1, <1>2, <2>1, UpsertEffect DEF TagEventTypes
  <2>3. SetPost(w, Upserted(post, ev[w])) \/ UNCHANGED indexVars
    BY <1>3 DEF InsertPost
  <2> QED
    BY <1>1, <2>1, <2>2, <2>3, PostApplied DEF TagEventTypes
<1>4. CASE UpdatePost(w)
  <2>1. Type(ev[w]) = "POST_UPDATED"
    BY <1>4 DEF Inv, RouteInv, UpdatePost
  <2>2. CASE post # NoRow /\ SetPost(w, [post EXCEPT !.content = ev[w]])
    <3>1. Upserted(post, ev[w]) = [post EXCEPT !.content = ev[w]]
      BY <2>2 DEF Upserted
    <3>2. Contract!PostEffect(ev[w], post, [post EXCEPT !.content = ev[w]])
      BY <1>1, <1>2, <2>1, <3>1, UpsertEffect DEF TagEventTypes
    <3> QED
      BY <1>1, <2>1, <2>2, <3>2, PostApplied DEF TagEventTypes
  <2>3. \/ post # NoRow /\ SetPost(w, [post EXCEPT !.content = ev[w]])
        \/ UNCHANGED indexVars
    BY <1>4, Zenon DEF UpdatePost
  <2> QED
    BY <1>1, <2>2, <2>3
<1>5. CASE DeletePost(w)
  <2>1. Type(ev[w]) = "POST_DELETED"
    BY <1>5 DEF Inv, RouteInv, DeletePost
  <2>2. Contract!PostEffect(ev[w], post, NoRow)
    BY <2>1 DEF Contract!PostEffect, Type
  <2>3. SetPost(w, NoRow) \/ UNCHANGED indexVars
    BY <1>5 DEF DeletePost
  <2> QED
    BY <1>1, <2>1, <2>2, <2>3, PostApplied DEF TagEventTypes
<1>6. CASE WriteStats(w)
  <2> DEFINE row == IF post = NoRow THEN NoRow ELSE [post EXCEPT !.stats = val[w]]
  <2>1. /\ Type(ev[w]) = "POST_STATS_UPDATED"
        /\ Uid(ev[w]) \in RegionalPosts
        /\ val[w] \in 0..MaxStats
    BY <1>6 DEF Inv, TypeOK, RouteInv, WriteStats
  <2>2. Contract!PostEffect(ev[w], post, row)
    BY <2>1 DEF Contract!PostEffect, Type, Uid
  <2>3. SetPost(w, row) \/ UNCHANGED indexVars
    BY <1>6 DEF WriteStats
  <2> QED
    BY <1>1, <2>1, <2>2, <2>3, PostApplied DEF TagEventTypes
<1>7. CASE UpsertTag(w)
  <2> DEFINE row == IF tag = NoRow THEN [content |-> ev[w], count |-> NoEvent]
                    ELSE [tag EXCEPT !.content = ev[w]]
  <2>1. Type(ev[w]) \in {"TAG_CREATED", "TAG_UPDATED"}
    BY <1>7 DEF Inv, RouteInv, UpsertTag
  <2>2. row = [content |-> ev[w],
               count   |-> IF tag = NoRow THEN NoEvent ELSE tag.count]
    BY <1>2, <2>1 DEF TagRow, TagEventTypes
  <2>3. Contract!TagEffect(ev[w], tag, row)
    BY <2>1, <2>2 DEF Contract!TagEffect, Type
  <2>4. SetTag(w, row) \/ UNCHANGED indexVars
    BY <1>7 DEF UpsertTag
  <2> QED
    BY <1>1, <2>1, <2>3, <2>4, TagApplied DEF TagEventTypes
<1>8. CASE DeleteTag(w)
  <2>1. Type(ev[w]) = "TAG_DELETED"
    BY <1>8 DEF Inv, RouteInv, DeleteTag
  <2>2. Contract!TagEffect(ev[w], tag, NoRow)
    BY <2>1 DEF Contract!TagEffect, Type
  <2>3. SetTag(w, NoRow) \/ UNCHANGED indexVars
    BY <1>8 DEF DeleteTag
  <2> QED
    BY <1>1, <2>1, <2>2, <2>3, TagApplied DEF TagEventTypes
<1>9. CASE UpdateTagStats(w)
  <2> DEFINE row == IF tag = NoRow THEN NoRow ELSE [tag EXCEPT !.count = ev[w]]
  <2>1. Type(ev[w]) = "TAG_STATS_UPDATED" /\ Event[ev[w]].count
    BY <1>9 DEF Inv, RouteInv, UpdateTagStats
  <2>2. Contract!TagEffect(ev[w], tag, row)
    BY <2>1 DEF Contract!TagEffect, Type
  <2>3. SetTag(w, row) \/ UNCHANGED indexVars
    BY <1>9 DEF UpdateTagStats
  <2> QED
    BY <1>1, <2>1, <2>2, <2>3, TagApplied DEF TagEventTypes
<1>10. CASE RouteNothing(w)
  <2>1. \/ Type(ev[w]) = "OTHER"
        \/ Type(ev[w]) = "TAG_STATS_UPDATED" /\ ~Event[ev[w]].count
        \/ Type(ev[w]) = "POST_STATS_UPDATED" /\ Uid(ev[w]) \notin RegionalPosts
    BY <1>10 DEF Inv, RouteInv, RouteNothing
  <2>2. CASE Type(ev[w]) \in TagEventTypes
    <3>1. SetTag(w, tag)
      BY <1>1, <1>10, <2>2, EventTyped DEF Inv, TypeOK, RouteNothing, SetTag
    <3>2. Contract!TagEffect(ev[w], tag, tag)
      BY <2>1, <2>2 DEF Contract!TagEffect, Type, TagEventTypes
    <3> QED
      BY <1>1, <2>2, <3>1, <3>2, TagApplied
  <2>3. CASE Type(ev[w]) \notin TagEventTypes
    <3>1. SetPost(w, post)
      BY <1>1, <1>10, <2>3, EventTyped DEF Inv, TypeOK, RouteNothing, SetPost
    <3>2. Contract!PostEffect(ev[w], post, post)
      BY <2>1, <2>3 DEF Contract!PostEffect, Type, Uid, TagEventTypes
    <3> QED
      BY <1>1, <2>3, <3>1, <3>2, PostApplied
  <2> QED
    BY <2>2, <2>3
<1>11. CASE HandleNewPost(w) \/ ReadStats(w)
  BY <1>1, <1>11 DEF HandleNewPost, ReadStats
<1> QED
  BY <1>3, <1>4, <1>5, <1>6, <1>7, <1>8, <1>9, <1>10, <1>11 DEF Route

\* A success answer is an answer of the contract.
LEMMA AnswerRefines ==
  ASSUME Inv, NEW w \in Workers, ev[w] \in EventIds, src[w] \in Sources,
         Allowed(ev[w]) => Done(ev[w]), Accept(w),
         UNCHANGED <<indexVars, published>>
  PROVE  Contract!Answer(ev[w], src[w])
BY PermittedIsAllowed DEF Contract!Answer, Accept, Done, indexVars

\* The empty service is the initial state of the contract.
LEMMA InitRefines == Init => Contract!ContractInit
BY DEF Init, Contract!ContractInit

(***************************************************************************)
(* Every step of the pipeline is a step of the contract or changes nothing *)
(* the contract sees: the statements of routeEvent apply an event, the     *)
(* returns with success answer it, the goroutine publishes it.             *)
(***************************************************************************)
LEMMA NextRefines ==
  Inv /\ [Next]_vars => [Contract!ContractNext]_(Contract!contractVars)
<1> SUFFICES ASSUME Inv, [Next]_vars
             PROVE  Contract!ContractNext \/ UNCHANGED Contract!contractVars
  OBVIOUS
<1> DEFINE Quiet == UNCHANGED <<indexVars, answered, published>>
<1>1. ASSUME Quiet PROVE UNCHANGED Contract!contractVars
  BY <1>1 DEF Contract!contractVars, indexVars
<1>2. ASSUME NEW w \in Workers, Route(w)
      PROVE  Contract!ContractNext \/ Quiet
  <2>1. ev[w] \in EventIds
    BY <1>2 DEF Inv, TypeOK, Route, InsertPost, HandleNewPost, UpdatePost,
       DeletePost, ReadStats, WriteStats, UpsertTag, DeleteTag, UpdateTagStats,
       RouteNothing
  <2>2. Contract!Apply(ev[w]) \/ Quiet
    BY <1>2, RouteRefines
  <2> QED
    BY <2>1, <2>2 DEF Contract!ContractNext, Contract!Apply
<1>3. ASSUME NEW w \in Workers,
             RedisCheck(w) \/ Repopulate(w) \/ MarkDenied(w) \/ Reply(w)
      PROVE  Contract!ContractNext \/ Quiet
  <2>1. ev[w] \in EventIds /\ src[w] \in Sources
    BY <1>3 DEF Inv, TypeOK, RedisCheck, Repopulate, MarkDenied, Reply
  <2>2. UNCHANGED <<indexVars, published>>
    BY <1>3 DEF RedisCheck, Repopulate, MarkDenied, Reply, LogStatus, memoryVars
  <2>3. \/ (Allowed(ev[w]) => Done(ev[w])) /\ Accept(w)
        \/ UNCHANGED answered
    BY <1>3, <2>1
    DEF Inv, RequestInv, LogInv, DoneLabels, RedisCheck, Repopulate, MarkDenied,
        Reply, ReturnOk
  <2>4. src[w] \in {"local_api", "cross_sync", "mq"}
    BY <2>1, PipelineAssumption
  <2> QED
    BY <2>1, <2>2, <2>3, <2>4, AnswerRefines DEF Contract!ContractNext
<1>4. ASSUME NEW r \in Replicas, NEW e \in EventIds, Broadcast(r, e)
      PROVE  Contract!ContractNext \/ Quiet
  <2>1. applied[e] > 0 /\ <<e, "local_api">> \in answered
    BY <1>4 DEF Inv, PublishInv, Done, Broadcast
  <2>2. CASE published' = published \cup {e}
    BY <1>4, <2>1, <2>2
    DEF Broadcast, Contract!ContractNext, Contract!Publish, indexVars
  <2>3. CASE UNCHANGED published
    BY <1>4, <2>3 DEF Broadcast
  <2> QED
    BY <1>4, <2>2, <2>3 DEF Broadcast
<1>5. ASSUME NEW w \in Workers,
             \/ \E e \in EventIds, s \in Sources : Deliver(w, e, s)
             \/ DbCheck(w) \/ Audit(w) \/ MarkFailed(w) \/ MarkProcessed(w)
             \/ CacheMark(w)
      PROVE  Quiet
  BY <1>5 DEF Deliver, DbCheck, Audit, MarkFailed, MarkProcessed, CacheMark,
     LogStatus, ReturnError, memoryVars
<1>6. ASSUME \/ \E r \in Replicas : Crash(r) \/ Shutdown(r) \/ Exit(r)
             \/ ExpireProcessedSet
             \/ \E p \in RegionalPosts : RegionalChange(p)
             \/ UNCHANGED vars
      PROVE  Quiet
  BY <1>6 DEF Crash, Exit, Stop, Shutdown, ExpireProcessedSet, RegionalChange, memoryVars, vars
<1> HIDE DEF Quiet
<1> QED
  BY <1>1, <1>2, <1>3, <1>4, <1>5, <1>6 DEF Next, Step

(***************************************************************************)
(* Every behaviour of the pipeline, with its crashes, lost replies and     *)
(* concurrent deliveries, is a behaviour of the contract.                  *)
(***************************************************************************)
THEOREM Implementation == Spec => ImplementsContract
<1>1. Spec => Contract!ContractSpec
  BY InitRefines, NextRefines, Invariance, PTL DEF Spec, Contract!ContractSpec
<1> QED
  BY <1>1 DEF ImplementsContract
=============================================================================
