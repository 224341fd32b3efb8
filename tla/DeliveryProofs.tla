--------------------------- MODULE DeliveryProofs ---------------------------
(***************************************************************************)
(* What becomes of the deliveries of an event, for every value of the      *)
(* constants of SyncPipeline: on its way to the peers it is never dropped; *)
(* in behaviours that deliver one at a time it is applied once and a       *)
(* deletion is final; and the counts of a row follow those of the region.  *)
(***************************************************************************)
EXTENDS SyncPipelineProofs

(***************************************************************************)
(* The hand-over to the peers.                                             *)
(***************************************************************************)

\* The step loses no event that is on its way to the peers.
HandOverKept == \A e \in EventIds : HandOver(e) => HandOver(e)'

\* No such event is lost while the requests past MarkProcessed stay there
\* and broadcasts, publications and answers are only added.
LEMMA OnItsWay ==
  ASSUME published \subseteq published', cutOff \subseteq cutOff',
         goroutines \subseteq goroutines', answered \subseteq answered',
         \A w \in Workers : pc[w] \in {"cacheMark", "reply"} =>
           pc'[w] \in {"cacheMark", "reply"} /\ ev'[w] = ev[w]
  PROVE  HandOverKept
BY DEF HandOverKept, HandOver

\* Reply turns the request into a broadcast, or answers where none is due.
LEMMA ReplyHandsOver ==
  ASSUME TypeOK, NEW w \in Workers, Reply(w)
  PROVE  HandOverKept
<1> SUFFICES ASSUME NEW e \in EventIds, HandOver(e) PROVE HandOver(e)'
  BY DEF HandOverKept
<1>1. CASE ev[w] = e
  <2>1. src[w] \in Sources /\ ReplicaOf[w] \in Replicas
    BY PipelineAssumption DEF TypeOK, Reply
  <2>2. CASE src[w] = "local_api"
    BY <1>1, <2>1, <2>2 DEF Reply, HandOver
  <2>3. CASE src[w] # "local_api"
    BY <1>1, <2>1, <2>3 DEF Reply, ReturnOk, Accept, HandOver
  <2> QED
    BY <2>2, <2>3
<1>2. CASE ev[w] # e
  <2>1. \A v \in Workers \ {w} : pc'[v] = pc[v] /\ ev'[v] = ev[v]
    BY DEF TypeOK, Reply, ReturnOk, Finish
  <2>2. /\ UNCHANGED <<published, cutOff>>
        /\ goroutines \subseteq goroutines' /\ answered \subseteq answered'
    BY DEF Reply, ReturnOk, Accept
  <2> QED
    BY <1>2, <2>1, <2>2 DEF HandOver
<1> QED
  BY <1>1, <1>2

\* Broadcast publishes the event, or finds that it was published before.
LEMMA BroadcastHandsOver ==
  ASSUME HandOverInv, NEW r \in Replicas, NEW e \in EventIds, Broadcast(r, e)
  PROVE  HandOverKept
<1>1. e \in published'
  BY DEF HandOverInv, Broadcast
<1>2. \A q \in Replicas, f \in EventIds :
        <<q, f>> \in goroutines => <<q, f>> \in goroutines' \/ f = e
  BY DEF Broadcast
<1>3. /\ published \subseteq published'
      /\ UNCHANGED <<pc, ev, cutOff, answered>>
  BY DEF Broadcast, requestVars
<1> QED
  BY <1>1, <1>2, <1>3 DEF HandOverKept, HandOver

\* A process that ends takes along what its goroutines and requests held.
LEMMA StopCutsOff ==
  ASSUME TypeOK, NEW r \in Replicas, Stop(r)
  PROVE  HandOverKept
<1> SUFFICES ASSUME NEW e \in EventIds, HandOver(e) PROVE HandOver(e)'
  BY DEF HandOverKept
<1>1. UNCHANGED <<published, answered>> /\ cutOff \subseteq cutOff'
  BY DEF Stop
<1>2. ASSUME NEW q \in Replicas, <<q, e>> \in goroutines
      PROVE  HandOver(e)'
  <2>1. CASE q = r
    BY <1>2, <2>1 DEF Stop, HandOver
  <2>2. CASE q # r
    BY <1>2, <2>2 DEF Stop, HandOver
  <2> QED
    BY <2>1, <2>2
<1>3. ASSUME NEW w \in Workers, ev[w] = e, pc[w] \in {"cacheMark", "reply"}
      PROVE  HandOver(e)'
  <2>1. CASE ReplicaOf[w] = r
    BY <1>3, <2>1 DEF Stop, HandOver
  <2>2. CASE ReplicaOf[w] # r
    <3>1. pc'[w] = pc[w] /\ ev'[w] = ev[w]
      BY <2>2 DEF Stop
    <3> QED
      BY <1>3, <3>1 DEF HandOver
  <2> QED
    BY <2>1, <2>2
<1> QED
  BY <1>1, <1>2, <1>3 DEF HandOver

\* The handlers that neither answer, nor log, nor broadcast: what the log,
\* the Redis set and the answers say of the hand-over stays true.
LEMMA HandOverStores ==
  ASSUME HandOverInv, HandOverKept, UNCHANGED answered, eventLog' = eventLog,
         processedSet' \subseteq processedSet, sent' \subseteq sent,
         published \subseteq published',
         \A w \in Workers : pc'[w] = "repopulate" =>
           \E e \in EventIds : e = ev'[w] /\ HandOver(e)
  PROVE  HandOverInv'
BY DEF HandOverInv, HandOverKept, PublicationPending

\* Before the first request there is nothing to hand over.
LEMMA HandOverInit == Init => HandOverInv
BY DEF Init, HandOverInv, PublicationPending

(***************************************************************************)
(* Every step keeps the invariant: IsProcessed answers for an event whose  *)
(* hand-over is under way, and MarkProcessed logs it only in a request     *)
(* that will start it.                                                     *)
(***************************************************************************)
LEMMA HandOverNext == Inv /\ HandOverInv /\ [Next]_vars => HandOverInv'
<1> SUFFICES ASSUME Inv, HandOverInv, [Next]_vars PROVE HandOverInv'
  OBVIOUS
<1>0. TypeOK /\ TypeOK' /\ RequestInv
  BY NextType DEF Inv
<1> USE DEF vars, requestVars, indexVars, logVars, memoryVars, statsVars,
            countVars
<1>1. ASSUME NEW w \in Workers, NEW e \in EventIds, NEW s \in Sources,
             Deliver(w, e, s)
      PROVE  HandOverInv'
  <2>1. HandOverKept
    BY <1>0, <1>1, OnItsWay DEF TypeOK, Deliver
  <2> QED
    BY <1>0, <1>1, <2>1, HandOverStores DEF TypeOK, Deliver, HandOverInv
<1>2. ASSUME NEW w \in Workers, RedisCheck(w)
      PROVE  HandOverInv'
  <2>1. HandOverKept
    BY <1>0, <1>2, OnItsWay
    DEF TypeOK, RedisCheck, Goto, ReturnOk, Finish, Accept
  <2>2. ev[w] \in EventIds /\ \A v \in Workers : pc'[v] = "repopulate" =>
          pc[v] = "repopulate" /\ ev'[v] = ev[v] /\ ev[v] \in EventIds
    BY <1>0, <1>2 DEF TypeOK, RedisCheck, Goto, ReturnOk, Finish
  <2>3. \/ UNCHANGED answered
        \/ /\ ev[w] \in processedSet
           /\ answered' = answered \cup {<<ev[w], src[w]>>}
    BY <1>2 DEF RedisCheck, ReturnOk, Accept
  <2>4. UNCHANGED <<eventLog, processedSet, sent, published>>
    BY <1>2 DEF RedisCheck
  <2> QED
    BY <2>1, <2>2, <2>3, <2>4 DEF HandOverInv, HandOverKept, PublicationPending
<1>3. ASSUME NEW w \in Workers, DbCheck(w)
      PROVE  HandOverInv'
  <2>1. HandOverKept
    BY <1>0, <1>3, OnItsWay DEF TypeOK, DbCheck, Goto, ReturnError, Finish
  <2>2. \A v \in Workers : pc'[v] = "repopulate" =>
          /\ ev'[v] = ev[v] /\ ev[v] \in EventIds
          /\ pc[v] = "repopulate" \/ eventLog[ev[v]] = "processed"
    BY <1>0, <1>3 DEF TypeOK, DbCheck, Goto, ReturnError, Finish
  <2> QED
    BY <1>3, <2>1, <2>2, HandOverStores DEF DbCheck, ReturnError, HandOverInv
<1>4. ASSUME NEW w \in Workers, Repopulate(w)
      PROVE  HandOverInv'
  <2>1. HandOverKept
    BY <1>0, <1>4, OnItsWay DEF TypeOK, Repopulate, ReturnOk, Finish, Accept
  <2>2. ev[w] \in EventIds /\ \A v \in Workers : pc'[v] = "repopulate" =>
          pc[v] = "repopulate" /\ ev'[v] = ev[v] /\ ev[v] \in EventIds
    BY <1>0, <1>4 DEF TypeOK, Repopulate, ReturnOk, Finish
  <2>3. /\ answered' = answered \cup {<<ev[w], src[w]>>}
        /\ processedSet' \subseteq processedSet \cup {ev[w]}
        /\ UNCHANGED <<eventLog, sent, published>>
    BY <1>4 DEF Repopulate, ReturnOk, Accept
  <2>4. HandOver(ev[w])
    BY <1>4 DEF Repopulate, HandOverInv
  <2> QED
    BY <2>1, <2>2, <2>3, <2>4 DEF HandOverInv, HandOverKept, PublicationPending
<1>5. ASSUME NEW w \in Workers, Audit(w)
      PROVE  HandOverInv'
  <2>1. HandOverKept
    BY <1>0, <1>5, OnItsWay DEF TypeOK, Audit, Goto
  <2>2. \A v \in Workers : pc'[v] = "repopulate" =>
          pc[v] = "repopulate" /\ ev'[v] = ev[v] /\ ev[v] \in EventIds
    BY <1>0, <1>5, RouteOfLabel DEF TypeOK, Audit, Goto, RouteLabels
  <2> QED
    BY <1>5, <2>1, <2>2, HandOverStores DEF Audit, HandOverInv
<1>6. ASSUME NEW w \in Workers, Route(w)
      PROVE  HandOverInv'
  <2>1. /\ \A v \in Workers : pc'[v] \in {"cacheMark", "reply", "repopulate"} =>
             pc'[v] = pc[v]
        /\ pc[w] \notin {"cacheMark", "reply"}
        /\ UNCHANGED <<ev, logVars, memoryVars, answered>>
        /\ \A v \in Workers \ {w} : pc'[v] = pc[v]
    BY <1>0, <1>6
    DEF TypeOK, Route, InsertPost, HandleNewPost, UpdatePost, DeletePost,
        ReadStats, WriteStats, UpsertTag, DeleteTag, UpdateTagStats,
        RouteNothing, RouteCall, RouteRest, Goto
  <2>2. HandOverKept
    BY <2>1, OnItsWay
  <2> QED
    BY <1>0, <2>1, <2>2, HandOverStores DEF TypeOK, HandOverInv
<1>7. ASSUME NEW w \in Workers, MarkDenied(w)
      PROVE  HandOverInv'
  <2>1. HandOverKept
    BY <1>0, <1>7, OnItsWay
    DEF TypeOK, MarkDenied, LogStatus, ReturnOk, Finish, Accept
  <2>2. /\ ev[w] \in EventIds /\ ~Allowed(ev[w])
        /\ \A v \in Workers : pc'[v] = "repopulate" =>
             pc[v] = "repopulate" /\ ev'[v] = ev[v] /\ ev[v] \in EventIds
    BY <1>0, <1>7 DEF TypeOK, RequestInv, MarkDenied, ReturnOk, Finish
  <2>3. /\ answered' = answered \cup {<<ev[w], src[w]>>}
        /\ \A e \in EventIds :
             eventLog'[e] = "processed" => eventLog[e] = "processed"
        /\ UNCHANGED <<processedSet, sent, published>>
    BY <1>0, <1>7 DEF TypeOK, MarkDenied, LogStatus, ReturnOk, Accept
  <2> QED
    BY <2>1, <2>2, <2>3 DEF HandOverInv, HandOverKept, PublicationPending
<1>8. ASSUME NEW w \in Workers, MarkFailed(w)
      PROVE  HandOverInv'
  <2>1. HandOverKept
    BY <1>0, <1>8, OnItsWay
    DEF TypeOK, MarkFailed, LogStatus, ReturnError, Finish
  <2>2. \A v \in Workers : pc'[v] = "repopulate" =>
          pc[v] = "repopulate" /\ ev'[v] = ev[v] /\ ev[v] \in EventIds
    BY <1>0, <1>8 DEF TypeOK, MarkFailed, ReturnError, Finish
  <2>3. /\ \A e \in EventIds :
             eventLog'[e] = "processed" => eventLog[e] = "processed"
        /\ UNCHANGED <<processedSet, sent, published, answered>>
    BY <1>0, <1>8 DEF TypeOK, MarkFailed, LogStatus, ReturnError
  <2> QED
    BY <2>1, <2>2, <2>3 DEF HandOverInv, HandOverKept, PublicationPending
<1>9. ASSUME NEW w \in Workers, MarkProcessed(w)
      PROVE  HandOverInv'
  <2>1. HandOverKept
    BY <1>0, <1>9, OnItsWay DEF TypeOK, MarkProcessed, LogStatus, Goto
  <2>2. /\ ev'[w] = ev[w] /\ pc'[w] \in {"cacheMark", "reply"}
        /\ \A v \in Workers : pc'[v] = "repopulate" =>
             pc[v] = "repopulate" /\ ev'[v] = ev[v] /\ ev[v] \in EventIds
    BY <1>0, <1>9 DEF TypeOK, MarkProcessed, Goto
  <2>3. HandOver(ev[w])'
    BY <2>2 DEF HandOver
  <2>4. /\ \A e \in EventIds : eventLog'[e] = "processed" =>
             eventLog[e] = "processed" \/ e = ev[w]
        /\ UNCHANGED <<processedSet, sent, published, answered>>
    BY <1>0, <1>9 DEF TypeOK, MarkProcessed, LogStatus
  <2> QED
    BY <2>1, <2>2, <2>3, <2>4 DEF HandOverInv, HandOverKept, PublicationPending
<1>10. ASSUME NEW w \in Workers, CacheMark(w)
      PROVE  HandOverInv'
  <2>1. HandOverKept
    BY <1>0, <1>10, OnItsWay DEF TypeOK, CacheMark, Goto
  <2>2. /\ ev[w] \in EventIds
        /\ \A v \in Workers : pc'[v] = "repopulate" =>
             pc[v] = "repopulate" /\ ev'[v] = ev[v] /\ ev[v] \in EventIds
    BY <1>0, <1>10 DEF TypeOK, CacheMark, Goto
  <2>3. HandOver(ev[w])
    BY <1>10 DEF CacheMark, HandOver
  <2>4. /\ processedSet' \subseteq processedSet \cup {ev[w]}
        /\ UNCHANGED <<eventLog, sent, published, answered>>
    BY <1>10 DEF CacheMark
  <2> QED
    BY <2>1, <2>2, <2>3, <2>4 DEF HandOverInv, HandOverKept, PublicationPending
<1>11. ASSUME NEW w \in Workers, Reply(w)
      PROVE  HandOverInv'
  <2>1. HandOverKept
    BY <1>0, <1>11, ReplyHandsOver
  <2>2. /\ ev[w] \in EventIds
        /\ \A v \in Workers : pc'[v] = "repopulate" =>
             pc[v] = "repopulate" /\ ev'[v] = ev[v] /\ ev[v] \in EventIds
    BY <1>0, <1>11 DEF TypeOK, Reply, ReturnOk, Finish
  <2>3. HandOver(ev[w])
    BY <1>11 DEF Reply, HandOver
  <2>4. /\ answered' = answered \cup {<<ev[w], src[w]>>}
        /\ UNCHANGED <<eventLog, processedSet, sent, published>>
    BY <1>11 DEF Reply, ReturnOk, Accept
  <2> QED
    BY <2>1, <2>2, <2>3, <2>4 DEF HandOverInv, HandOverKept, PublicationPending
<1>12. ASSUME NEW r \in Replicas, NEW e \in EventIds, Broadcast(r, e)
      PROVE  HandOverInv'
  <2>1. HandOverKept
    BY <1>12, BroadcastHandsOver
  <2>2. \A q \in Replicas, f \in EventIds : <<q, f>> \in sent' => f \in published'
    BY <1>12 DEF Broadcast, HandOverInv
  <2>3. UNCHANGED <<pc, ev, eventLog, processedSet, answered>>
    BY <1>12 DEF Broadcast
  <2> QED
    BY <1>0, <2>1, <2>2, <2>3
    DEF TypeOK, HandOverInv, HandOverKept, PublicationPending
<1>13. ASSUME NEW r \in Replicas, Crash(r) \/ Exit(r)
      PROVE  HandOverInv'
  <2>0. Stop(r)
    BY <1>13 DEF Crash, Exit
  <2>1. HandOverKept
    BY <1>0, <2>0, StopCutsOff
  <2> QED
    BY <1>0, <2>0, <2>1, HandOverStores DEF TypeOK, Stop, HandOverInv
<1>14. ASSUME /\ UNCHANGED <<requestVars, eventLog, answered, goroutines, sent,
                             published, cutOff>>
              /\ processedSet' \subseteq processedSet
       PROVE  HandOverInv'
  <2>1. HandOverKept
    BY <1>14, OnItsWay
  <2> QED
    BY <1>0, <1>14, <2>1, HandOverStores DEF TypeOK, HandOverInv
<1>15. CASE ExpireProcessedSet
  BY <1>14, <1>15 DEF ExpireProcessedSet
<1>16. ASSUME NEW p \in RegionalPosts, RegionalChange(p)
       PROVE  HandOverInv'
  BY <1>14, <1>16 DEF RegionalChange
<1>17. ASSUME NEW r \in Replicas, Shutdown(r)
       PROVE  HandOverInv'
  BY <1>14, <1>17 DEF Shutdown
<1>18. CASE UNCHANGED vars
  BY <1>14, <1>18
<1> QED
  BY <1>1, <1>2, <1>3, <1>4, <1>5, <1>6, <1>7, <1>8, <1>9, <1>10, <1>11, <1>12,
     <1>13, <1>15, <1>16, <1>17, <1>18
  DEF Next, Step

(***************************************************************************)
(* processEvent starts the broadcast on every path that answers an allowed *)
(* event with success, also after a MarkProcessed that failed, and no      *)
(* interleaving of replicas, retries, expiries and lost replies loses it:  *)
(* only a process that ends does, or an entry point without a broadcast.   *)
(***************************************************************************)
THEOREM HandOverSafe == Spec => []PublicationPending
<1>1. HandOverInv => PublicationPending
  BY DEF HandOverInv
<1> QED
  BY <1>1, HandOverInit, HandOverNext, Invariance, PTL DEF Spec

-----------------------------------------------------------------------------
(***************************************************************************)
(* At most once.                                                           *)
(***************************************************************************)

\* The labels of a request that has passed IsProcessed and not yet applied
\* its event, and of one that has applied it and not yet logged it.
Unapplied == {"audit", "markDenied", "markFailed"} \cup (RouteLabels \ {"feed"})
Unlogged  == {"feed", "markProcessed"}

\* While Postgres is steady its pools are open and its calls succeed.
LEMMA SteadyCall ==
  ASSUME PostgresSteady, OnceInv, NEW w \in Workers,
         NEW store \in {"index", "regional"}, NEW outcome, Call(w, store, outcome)
  PROVE  outcome = "ok"
<1>1. stage[ReplicaOf[w]] = 0
  BY PipelineAssumption DEF OnceInv
<1> QED
  BY <1>1 DEF PostgresSteady, Call, Closed, ClosedAt, Fault

\* A step that applies nothing keeps the invariant if it sends no request
\* with an applied event towards a statement and takes none from the log.
LEMMA NothingApplied ==
  ASSUME TypeOK, OnceInv, UNCHANGED <<applied, stage>>,
         \A e \in EventIds : applied[e] > 0 /\ eventLog[e] = "processed"
           => eventLog'[e] = "processed",
         \A w \in Workers : pc[w] \in Unlogged =>
           \/ pc'[w] \in Unlogged /\ ev'[w] = ev[w]
           \/ eventLog'[ev[w]] = "processed",
         \A w \in Workers : pc'[w] \in Unapplied => applied[ev'[w]] = 0
  PROVE  OnceInv'
<1>1. AppliedAtMostOnce' /\ (\A r \in Replicas : stage'[r] = 0)
  BY DEF OnceInv, AppliedAtMostOnce
<1>2. ASSUME NEW e \in EventIds, applied'[e] > 0
      PROVE  \/ eventLog'[e] = "processed"
             \/ \E w \in Workers : ev'[w] = e /\ pc'[w] \in {"feed", "markProcessed"}
  BY <1>2 DEF OnceInv, Unlogged
<1> QED
  BY <1>1, <1>2 DEF OnceInv, Unapplied

\* A step that applies the event of a request for the first time keeps it.
LEMMA FirstApplied ==
  ASSUME TypeOK, OnceInv, OneRequestPerEvent, NEW w \in Workers,
         pc[w] \in Unapplied, CountApplied(w),
         NEW label \in Unlogged, pc' = [pc EXCEPT ![w] = label],
         UNCHANGED <<ev, eventLog, stage>>
  PROVE  OnceInv'
<1>1. pc[w] # "idle" /\ ev[w] \in EventIds /\ applied[ev[w]] = 0
  BY DEF TypeOK, OnceInv, Unapplied, RouteLabels
<1>2. \A e \in EventIds : applied'[e] = IF e = ev[w] THEN 1 ELSE applied[e]
  BY <1>1 DEF TypeOK, CountApplied
<1>3. \A v \in Workers : pc'[v] = IF v = w THEN label ELSE pc[v]
  BY DEF TypeOK
<1>4. AppliedAtMostOnce' /\ (\A r \in Replicas : stage'[r] = 0)
  BY <1>2 DEF OnceInv, AppliedAtMostOnce
<1>5. ASSUME NEW v \in Workers, pc'[v] \in Unapplied
      PROVE  applied'[ev'[v]] = 0
  <2>1. v # w /\ pc[v] \in Unapplied /\ pc[v] # "idle"
    BY <1>3, <1>5 DEF Unapplied, Unlogged, RouteLabels
  <2>2. ev[v] # ev[w]
    BY <1>1, <2>1 DEF OneRequestPerEvent
  <2> QED
    BY <1>2, <2>1, <2>2 DEF TypeOK, OnceInv, Unapplied
<1>6. ASSUME NEW e \in EventIds, applied'[e] > 0
      PROVE  \/ eventLog'[e] = "processed"
             \/ \E v \in Workers : ev'[v] = e /\ pc'[v] \in {"feed", "markProcessed"}
  <2>1. CASE e = ev[w]
    BY <1>3, <2>1 DEF Unlogged
  <2>2. CASE e # ev[w]
    BY <1>2, <1>3, <1>6, <2>2 DEF OnceInv
  <2> QED
    BY <2>1, <2>2
<1> QED
  BY <1>4, <1>5, <1>6 DEF OnceInv, Unapplied

\* A statement of routeEvent applies the event, once, or only moves on.
LEMMA OnceRoute ==
  ASSUME PostgresSteady, Inv, OnceInv, OneRequestPerEvent,
         NEW w \in Workers, Route(w)
  PROVE  OnceInv'
<1>0. TypeOK
  BY DEF Inv
<1>1. UNCHANGED <<ev, eventLog, stage>> /\ pc[w] \in RouteLabels
  BY DEF Route, InsertPost, HandleNewPost, UpdatePost, DeletePost, ReadStats,
     WriteStats, UpsertTag, DeleteTag, UpdateTagStats, RouteNothing, RouteCall,
     RouteRest, Goto, RouteLabels, logVars, memoryVars
<1>2. \/ /\ CountApplied(w) /\ pc[w] # "feed"
         /\ \E label \in Unlogged : pc' = [pc EXCEPT ![w] = label]
      \/ /\ UNCHANGED applied /\ pc[w] # "feed"
         /\ \E label \in Unapplied : pc' = [pc EXCEPT ![w] = label]
      \/ /\ UNCHANGED applied /\ pc[w] = "feed"
         /\ pc' = [pc EXCEPT ![w] = "markProcessed"]
  <2>1. CASE InsertPost(w)
    BY <2>1, SteadyCall
    DEF InsertPost, Outcomes, Effective, RouteCall, Goto, SetPost, Unlogged
  <2>2. CASE HandleNewPost(w)
    BY <2>2 DEF HandleNewPost, Goto, indexVars
  <2>3. CASE UpdatePost(w)
    BY <2>3, SteadyCall
    DEF UpdatePost, Outcomes, Effective, RouteCall, Goto, SetPost, Unlogged,
        Unapplied, RouteLabels, indexVars
  <2>4. CASE DeletePost(w)
    BY <2>4, SteadyCall
    DEF DeletePost, Outcomes, Effective, RouteCall, Goto, SetPost, Unlogged
  <2>5. CASE ReadStats(w)
    BY <2>5 DEF ReadStats, Goto, Unapplied, RouteLabels, indexVars
  <2>6. CASE WriteStats(w)
    BY <2>6, SteadyCall
    DEF WriteStats, Outcomes, Effective, RouteCall, Goto, SetPost, Unlogged
  <2>7. CASE UpsertTag(w)
    BY <2>7, SteadyCall
    DEF UpsertTag, Outcomes, Effective, RouteCall, Goto, SetTag, Unlogged
  <2>8. CASE DeleteTag(w)
    BY <2>8, SteadyCall
    DEF DeleteTag, Outcomes, Effective, RouteCall, Goto, SetTag, Unlogged
  <2>9. CASE UpdateTagStats(w)
    BY <2>9, SteadyCall
    DEF UpdateTagStats, Outcomes, Effective, RouteCall, Goto, SetTag, Unlogged
  <2>10. CASE RouteNothing(w)
    BY <2>10 DEF RouteNothing, Goto, Unlogged
  <2> QED
    BY <2>1, <2>2, <2>3, <2>4, <2>5, <2>6, <2>7, <2>8, <2>9, <2>10 DEF Route
<1>3. CASE CountApplied(w) /\ pc[w] # "feed"
           /\ \E label \in Unlogged : pc' = [pc EXCEPT ![w] = label]
  BY <1>0, <1>1, <1>3, FirstApplied DEF Unapplied
<1>4. CASE UNCHANGED applied /\ pc[w] # "feed"
           /\ \E label \in Unapplied : pc' = [pc EXCEPT ![w] = label]
  <2>1. \A v \in Workers : pc[v] \in Unlogged => v # w
    BY <1>1, <1>4 DEF Unlogged, RouteLabels
  <2>2. \A v \in Workers : pc'[v] \in Unapplied => pc[v] \in Unapplied
    BY <1>0, <1>1, <1>4 DEF TypeOK, Unapplied
  <2>3. \A v \in Workers : pc'[v] \in Unapplied => applied[ev'[v]] = 0
    BY <1>1, <2>2 DEF OnceInv, Unapplied
  <2>4. \A v \in Workers : pc[v] \in Unlogged => pc'[v] \in Unlogged
    BY <1>0, <1>4, <2>1 DEF TypeOK
  <2> QED
    BY <1>0, <1>1, <1>4, <2>3, <2>4, NothingApplied
<1>5. CASE UNCHANGED applied /\ pc[w] = "feed"
           /\ pc' = [pc EXCEPT ![w] = "markProcessed"]
  <2>1. \A v \in Workers : pc'[v] \in Unapplied => pc[v] \in Unapplied
    BY <1>0, <1>5 DEF TypeOK, Unapplied, RouteLabels
  <2>2. \A v \in Workers : pc'[v] \in Unapplied => applied[ev'[v]] = 0
    BY <1>1, <2>1 DEF OnceInv, Unapplied
  <2>3. \A v \in Workers : pc[v] \in Unlogged => pc'[v] \in Unlogged
    BY <1>0, <1>5 DEF TypeOK, Unlogged
  <2> QED
    BY <1>0, <1>1, <1>5, <2>2, <2>3, NothingApplied
<1> QED
  BY <1>2, <1>3, <1>4, <1>5

\* At first nothing is applied and no replica is shutting down.
LEMMA OnceInit == Init => OnceInv
BY DEF Init, OnceInv, AppliedAtMostOnce, RouteLabels

(***************************************************************************)
(* Every step keeps the invariant: DbCheck lets a request pass only while  *)
(* its event is not applied, for no other request holds it between its     *)
(* statement and the log, and a failure is logged only for such an event.  *)
(***************************************************************************)
LEMMA OnceNext ==
  ASSUME PostgresSteady
  PROVE  Inv /\ OnceInv /\ OneRequestPerEvent /\ [Next]_vars => OnceInv'
<1> SUFFICES ASSUME Inv, OnceInv, OneRequestPerEvent, [Next]_vars PROVE OnceInv'
  OBVIOUS
<1>0. TypeOK
  BY DEF Inv
<1>a. \A w \in Workers : pc[w] \in Unapplied => applied[ev[w]] = 0
  BY DEF OnceInv, Unapplied
<1> USE DEF vars, requestVars, indexVars, logVars, memoryVars, statsVars,
            countVars
<1>1. ASSUME NEW w \in Workers, NEW e \in EventIds, NEW s \in Sources,
             Deliver(w, e, s)
      PROVE  OnceInv'
  <2>1. \A v \in Workers : v # w => pc'[v] = pc[v] /\ ev'[v] = ev[v]
    BY <1>0, <1>1 DEF TypeOK, Deliver
  <2>2. pc[w] = "idle" /\ pc'[w] = "redisCheck" /\ UNCHANGED <<applied, stage, eventLog>>
    BY <1>0, <1>1 DEF TypeOK, Deliver
  <2> QED
    BY <1>0, <1>a, <2>1, <2>2, NothingApplied DEF Unapplied, Unlogged, RouteLabels
<1>2. ASSUME NEW w \in Workers, RedisCheck(w) \/ Repopulate(w) \/ CacheMark(w) \/ Reply(w)
      PROVE  OnceInv'
  <2>1. /\ UNCHANGED <<applied, stage, eventLog>>
        /\ pc[w] \in {"redisCheck", "repopulate", "cacheMark", "reply"}
        /\ pc'[w] \in {"idle", "dbCheck", "reply"}
        /\ \A v \in Workers : v # w => pc'[v] = pc[v] /\ ev'[v] = ev[v]
    BY <1>0, <1>2
    DEF TypeOK, RedisCheck, Repopulate, CacheMark, Reply, Goto, ReturnOk, Finish
  <2> QED
    BY <1>0, <1>a, <2>1, NothingApplied DEF Unapplied, Unlogged, RouteLabels
<1>3. ASSUME NEW w \in Workers, DbCheck(w)
      PROVE  OnceInv'
  <2>1. /\ pc' = [pc EXCEPT ![w] = IF eventLog[ev[w]] = "processed"
                                   THEN "repopulate" ELSE "audit"]
        /\ UNCHANGED <<ev, applied, stage, eventLog>>
    BY <1>3, SteadyCall DEF DbCheck, Goto
  <2>2. pc[w] = "dbCheck" /\ ev[w] \in EventIds
    BY <1>0, <1>3 DEF TypeOK, DbCheck
  <2>3. eventLog[ev[w]] # "processed" => applied[ev[w]] = 0
    <3> SUFFICES ASSUME eventLog[ev[w]] # "processed", applied[ev[w]] > 0
                 PROVE  FALSE
      BY <1>0, <2>2 DEF TypeOK
    <3>1. PICK v \in Workers : ev[v] = ev[w] /\ pc[v] \in {"feed", "markProcessed"}
      BY <2>2 DEF OnceInv
    <3> QED
      BY <2>2, <3>1 DEF OneRequestPerEvent
  <2>4. \A v \in Workers : pc'[v] = IF v # w THEN pc[v] ELSE
          IF eventLog[ev[w]] = "processed" THEN "repopulate" ELSE "audit"
    BY <1>0, <2>1 DEF TypeOK
  <2> QED
    BY <1>0, <1>a, <2>1, <2>2, <2>3, <2>4, NothingApplied
    DEF Unapplied, Unlogged, RouteLabels
<1>4. ASSUME NEW w \in Workers, Audit(w)
      PROVE  OnceInv'
  <2>1. /\ pc[w] = "audit" /\ ev[w] \in EventIds
        /\ pc' = [pc EXCEPT ![w] = IF Allowed(ev[w]) THEN RouteOf(ev[w])
                                   ELSE "markDenied"]
        /\ UNCHANGED <<ev, applied, stage, eventLog>>
    BY <1>0, <1>4 DEF TypeOK, Audit, Goto
  <2>2. \A v \in Workers : v # w => pc'[v] = pc[v]
    BY <1>0, <2>1 DEF TypeOK
  <2>3. applied[ev[w]] = 0
    BY <1>a, <2>1 DEF Unapplied
  <2> QED
    BY <1>0, <1>a, <2>1, <2>2, <2>3, NothingApplied DEF Unlogged
<1>5. ASSUME NEW w \in Workers, MarkDenied(w) \/ MarkFailed(w)
      PROVE  OnceInv'
  <2>1. /\ UNCHANGED <<applied, stage>>
        /\ pc[w] \in Unapplied /\ pc[w] \notin Unlogged /\ pc'[w] = "idle"
        /\ \A v \in Workers : v # w => pc'[v] = pc[v] /\ ev'[v] = ev[v]
    BY <1>0, <1>5
    DEF TypeOK, MarkDenied, MarkFailed, LogStatus, ReturnOk, ReturnError, Finish,
        Unapplied, Unlogged
  <2>2. applied[ev[w]] = 0
    BY <1>a, <2>1
  <2>3. \A e \in EventIds : e # ev[w] => eventLog'[e] = eventLog[e]
    BY <1>0, <1>5 DEF TypeOK, MarkDenied, MarkFailed, LogStatus
  <2> QED
    BY <1>0, <1>a, <2>1, <2>2, <2>3, NothingApplied DEF Unapplied, RouteLabels
<1>6. ASSUME NEW w \in Workers, MarkProcessed(w)
      PROVE  OnceInv'
  <2>1. /\ pc[w] = "markProcessed" /\ ev[w] \in EventIds
        /\ pc' = [pc EXCEPT ![w] = "cacheMark"]
        /\ eventLog' = [eventLog EXCEPT ![ev[w]] = "processed"]
        /\ UNCHANGED <<ev, applied, stage>>
    BY <1>0, <1>6, SteadyCall
    DEF TypeOK, MarkProcessed, LogStatus, Goto, Effective
  <2>2. \A v \in Workers : pc'[v] = IF v # w THEN pc[v] ELSE "cacheMark"
    BY <1>0, <2>1 DEF TypeOK
  <2>3. \A e \in EventIds :
          eventLog'[e] = IF e = ev[w] THEN "processed" ELSE eventLog[e]
    BY <1>0, <2>1 DEF TypeOK
  <2> QED
    BY <1>0, <1>a, <2>1, <2>2, <2>3, NothingApplied
    DEF Unapplied, Unlogged, RouteLabels
<1>7. ASSUME NEW w \in Workers, Route(w)
      PROVE  OnceInv'
  BY <1>7, OnceRoute
<1>8. CASE UNCHANGED <<requestVars, applied, stage, eventLog>>
  BY <1>0, <1>8, <1>a, NothingApplied
<1>9. ASSUME NEW r \in Replicas, NEW e \in EventIds, Broadcast(r, e)
      PROVE  OnceInv'
  BY <1>8, <1>9 DEF Broadcast
<1>10. ~ \E r \in Replicas : Crash(r) \/ Shutdown(r) \/ Exit(r)
  BY DEF PostgresSteady, OnceInv, Crash, Shutdown, Exit, Closed, ClosedAt, Fault
<1>11. CASE ExpireProcessedSet
  BY <1>8, <1>11 DEF ExpireProcessedSet
<1>12. ASSUME NEW p \in RegionalPosts, RegionalChange(p)
       PROVE  OnceInv'
  BY <1>8, <1>12 DEF RegionalChange
<1>13. CASE UNCHANGED vars
  BY <1>8, <1>13
<1> QED
  BY <1>1, <1>2, <1>3, <1>4, <1>5, <1>6, <1>7, <1>9, <1>10, <1>11, <1>12, <1>13
  DEF Next, Step

(***************************************************************************)
(* routeEvent takes effect at most once for an event whose deliveries do   *)
(* not overlap, while Postgres answers: the log table alone carries the    *)
(* deduplication, for any number of replicas and whatever Redis does.      *)
(***************************************************************************)
THEOREM AppliedOnce ==
  ASSUME PostgresSteady
  PROVE  Spec /\ []OneRequestPerEvent => []AppliedAtMostOnce
<1>1. Inv /\ OnceInv /\ OneRequestPerEvent /\ [Next]_vars => OnceInv'
  BY OnceNext
<1>2. Spec /\ []OneRequestPerEvent => []OnceInv
  BY <1>1, OnceInit, Invariance, PTL DEF Spec
<1>3. OnceInv => AppliedAtMostOnce
  BY DEF OnceInv
<1> QED
  BY <1>2, <1>3, PTL

-----------------------------------------------------------------------------
(***************************************************************************)
(* What one statement does to the rows.                                    *)
(***************************************************************************)

\* How row p of the post index may change under the request of w.
PostKept(p)       == postIndex'[p] = postIndex[p]
PostDeleted(p)    == postIndex'[p] = NoRow
PostInserted(w, p) ==
  /\ pc[w] = "insertPost" /\ p = Uid(ev[w]) /\ postIndex[p] = NoRow
  /\ postIndex'[p] # NoRow /\ postIndex'[p].stats = 0
PostUpdated(w, p) ==
  /\ pc[w] \in {"insertPost", "updatePost"} /\ p = Uid(ev[w])
  /\ postIndex[p] # NoRow /\ postIndex'[p].stats = postIndex[p].stats
PostCounted(w, p) ==
  /\ pc[w] = "writeStats" /\ p = Uid(ev[w])
  /\ postIndex[p] # NoRow /\ postIndex'[p].stats = val[w]

PostStep(w) ==
  \A p \in Posts :
    \/ PostKept(p) \/ PostDeleted(p) \/ PostInserted(w, p)
    \/ PostUpdated(w, p) \/ PostCounted(w, p)

\* A request that writes a row of the post index works on a post of it.
LEMMA RoutePost ==
  ASSUME Inv, NEW w \in Workers,
         pc[w] \in {"insertPost", "updatePost", "deletePost", "readStats", "writeStats"}
  PROVE  ev[w] \in EventIds /\ Uid(ev[w]) \in Posts
<1>1. ev[w] \in EventIds /\ Type(ev[w]) \notin TagEventTypes
  BY DEF Inv, TypeOK, RouteInv, TagEventTypes
<1> QED
  BY <1>1, EventTyped

\* Each statement of routeEvent changes the post index in one of these ways.
LEMMA RoutePostStep ==
  ASSUME Inv, NEW w \in Workers, Route(w)
  PROVE  PostStep(w)
<1>0. TypeOK
  BY DEF Inv
<1>1. CASE UNCHANGED postIndex
  BY <1>1 DEF PostStep, PostKept
<1>2. ASSUME NEW row, SetPost(w, row), NEW p \in Posts
      PROVE  postIndex'[p] = IF p = Uid(ev[w]) THEN row ELSE postIndex[p]
  BY <1>0, <1>2 DEF TypeOK, SetPost
<1>8. ASSUME pc[w] \in {"insertPost", "updatePost"}, ev[w] \in EventIds,
             Uid(ev[w]) \in Posts, postIndex[Uid(ev[w])] # NoRow,
             postIndex[Uid(ev[w])] \in PostRow,
             SetPost(w, [postIndex[Uid(ev[w])] EXCEPT !.content = ev[w]])
      PROVE  PostStep(w)
  <2> DEFINE row == postIndex[Uid(ev[w])]
             new == [row EXCEPT !.content = ev[w]]
  <2>1. new.stats = row.stats
    BY <1>8, ContentReplaced
  <2>2. \A p \in Posts : postIndex'[p] = IF p = Uid(ev[w]) THEN new ELSE postIndex[p]
    BY <1>2, <1>8
  <2> HIDE DEF new
  <2> QED
    BY <1>8, <2>1, <2>2 DEF PostStep, PostKept, PostUpdated
<1>3. CASE InsertPost(w)
  <2>1. CASE SetPost(w, Upserted(postIndex[Uid(ev[w])], ev[w]))
    <3>1. pc[w] = "insertPost" /\ ev[w] \in EventIds /\ Uid(ev[w]) \in Posts
      BY <1>3, RoutePost DEF InsertPost
    <3>2. CASE postIndex[Uid(ev[w])] = NoRow
      <4> DEFINE new == [content |-> ev[w], origin |-> ev[w], stats |-> 0]
      <4>1. new \in PostRow
        BY <3>1, PipelineAssumption DEF PostRow
      <4>2. new # NoRow /\ new.stats = 0
        BY <4>1, NoRowAssumption
      <4>3. SetPost(w, new)
        BY <2>1, <3>2 DEF Upserted
      <4> QED
        BY <1>2, <3>1, <3>2, <4>2, <4>3 DEF PostStep, PostKept, PostInserted
    <3>3. CASE postIndex[Uid(ev[w])] # NoRow
      <4>1. postIndex[Uid(ev[w])] \in PostRow
        BY <1>0, <3>1, <3>3 DEF TypeOK
      <4>2. SetPost(w, [postIndex[Uid(ev[w])] EXCEPT !.content = ev[w]])
        BY <2>1, <3>3 DEF Upserted
      <4> QED
        BY <1>3, <2>1, <3>1, <3>3, <4>1, <4>2, <1>8 DEF InsertPost
    <3> QED
      BY <3>2, <3>3
  <2> QED
    BY <1>1, <1>3, <2>1 DEF InsertPost, indexVars
<1>4. CASE UpdatePost(w)
  <2>1. CASE postIndex[Uid(ev[w])] # NoRow
             /\ SetPost(w, [postIndex[Uid(ev[w])] EXCEPT !.content = ev[w]])
    <3>1. pc[w] = "updatePost" /\ ev[w] \in EventIds /\ Uid(ev[w]) \in Posts
      BY <1>4, RoutePost DEF UpdatePost
    <3>2. postIndex[Uid(ev[w])] \in PostRow
      BY <1>0, <2>1, <3>1 DEF TypeOK
    <3> QED
      BY <2>1, <3>1, <3>2, <1>8
  <2> QED
    BY <1>1, <1>4, <2>1 DEF UpdatePost, indexVars
<1>5. CASE DeletePost(w)
  <2>1. CASE SetPost(w, NoRow)
    BY <1>2, <2>1 DEF PostStep, PostKept, PostDeleted
  <2> QED
    BY <1>1, <1>5, <2>1 DEF DeletePost, indexVars
<1>6. CASE WriteStats(w)
  <2>0. pc[w] = "writeStats" /\ Uid(ev[w]) \in Posts
    BY <1>6, RoutePost DEF WriteStats
  <2>1. CASE postIndex[Uid(ev[w])] = NoRow /\ SetPost(w, NoRow)
    BY <1>2, <2>1 DEF PostStep, PostKept, PostDeleted
  <2>2. CASE postIndex[Uid(ev[w])] # NoRow
             /\ SetPost(w, [postIndex[Uid(ev[w])] EXCEPT !.stats = val[w]])
    <3>1. postIndex[Uid(ev[w])] \in PostRow
      BY <1>0, <2>0, <2>2 DEF TypeOK
    <3>2. [postIndex[Uid(ev[w])] EXCEPT !.stats = val[w]].stats = val[w]
      BY <3>1 DEF PostRow
    <3> QED
      BY <1>2, <2>0, <2>2, <3>2 DEF PostStep, PostKept, PostCounted
  <2> QED
    BY <1>1, <1>6, <2>1, <2>2 DEF WriteStats, indexVars
<1>7. CASE \/ HandleNewPost(w) \/ ReadStats(w) \/ UpsertTag(w) \/ DeleteTag(w)
           \/ UpdateTagStats(w) \/ RouteNothing(w)
  BY <1>1, <1>7
  DEF HandleNewPost, ReadStats, UpsertTag, DeleteTag, UpdateTagStats,
      RouteNothing, SetTag, indexVars
<1> QED
  BY <1>3, <1>4, <1>5, <1>6, <1>7 DEF Route

\* A step outside routeEvent leaves the index and the application counts alone.
LEMMA OutsideRoute ==
  ASSUME [Next]_vars
  PROVE  (\E w \in Workers : Route(w)) \/ UNCHANGED indexVars
BY DEF Next, Step, vars, Deliver, RedisCheck, DbCheck, Repopulate, Audit,
   MarkDenied, MarkFailed, MarkProcessed, LogStatus, CacheMark, Reply, Broadcast,
   Crash, Shutdown, Exit, Stop, ExpireProcessedSet, RegionalChange

\* A step counts the event of a request it works on, or none.
LEMMA AppliedStep ==
  ASSUME TypeOK, [Next]_vars
  PROVE  \/ UNCHANGED applied
         \/ \E w \in Workers :
              /\ Route(w) /\ pc[w] # "idle" /\ ev[w] \in EventIds
              /\ \A e \in EventIds :
                   applied'[e] > 0 <=> applied[e] > 0 \/ e = ev[w]
<1>1. CASE UNCHANGED indexVars
  BY <1>1 DEF indexVars
<1>2. ASSUME NEW w \in Workers, Route(w)
      PROVE  /\ pc[w] # "idle"
             /\ UNCHANGED applied \/ CountApplied(w)
  BY <1>2
  DEF Route, InsertPost, HandleNewPost, UpdatePost, DeletePost, ReadStats,
      WriteStats, UpsertTag, DeleteTag, UpdateTagStats, RouteNothing, SetPost,
      SetTag, indexVars
<1>3. ASSUME NEW w \in Workers, pc[w] # "idle", CountApplied(w)
      PROVE  /\ ev[w] \in EventIds
             /\ \A e \in EventIds :
                  applied'[e] > 0 <=> applied[e] > 0 \/ e = ev[w]
  BY <1>3 DEF TypeOK, CountApplied
<1> QED
  BY <1>1, <1>2, <1>3, OutsideRoute

-----------------------------------------------------------------------------
(***************************************************************************)
(* Deletions are final.                                                    *)
(***************************************************************************)

\* Only an upsert gives a tag without a row one.
LEMMA RouteTagStep ==
  ASSUME TypeOK, NEW w \in Workers, Route(w)
  PROVE  \A t \in Tags : tagIndex[t] = NoRow =>
           tagIndex'[t] = NoRow \/ (pc[w] = "upsertTag" /\ t = Uid(ev[w]))
<1>1. CASE UNCHANGED tagIndex
  BY <1>1
<1>2. ASSUME NEW row, SetTag(w, row), NEW t \in Tags
      PROVE  tagIndex'[t] = IF t = Uid(ev[w]) THEN row ELSE tagIndex[t]
  BY <1>2 DEF TypeOK, SetTag
<1>3. CASE UpsertTag(w)
  BY <1>1, <1>2, <1>3 DEF UpsertTag, indexVars
<1>4. CASE DeleteTag(w)
  BY <1>1, <1>2, <1>4 DEF DeleteTag, indexVars
<1>5. CASE UpdateTagStats(w)
  <2>1. CASE UNCHANGED indexVars
    BY <1>1, <2>1 DEF indexVars
  <2>2. CASE SetTag(w, IF tagIndex[Uid(ev[w])] = NoRow THEN NoRow
                       ELSE [tagIndex[Uid(ev[w])] EXCEPT !.count = ev[w]])
    BY <1>2, <2>2
  <2> QED
    BY <1>5, <2>1, <2>2 DEF UpdateTagStats
<1>6. CASE \/ InsertPost(w) \/ HandleNewPost(w) \/ UpdatePost(w) \/ DeletePost(w)
           \/ ReadStats(w) \/ WriteStats(w) \/ RouteNothing(w)
  BY <1>1, <1>6
  DEF InsertPost, HandleNewPost, UpdatePost, DeletePost, ReadStats, WriteStats,
      RouteNothing, SetPost, indexVars
<1> QED
  BY <1>3, <1>4, <1>5, <1>6 DEF Route

\* At first nothing is applied or in work.
LEMMA OrderInit == Init => OrderInv
BY DEF Init, OrderInv

\* Answers are only added, and an event is taken up and applied after those
\* that come before it were answered.
LEMMA OrderNext == TypeOK /\ OrderInv /\ [Next]_vars => OrderInv'
<1> SUFFICES ASSUME TypeOK, OrderInv, [Next]_vars PROVE OrderInv'
  OBVIOUS
<1>1. answered \subseteq answered'
  BY DEF Next, Step, Route, vars, Deliver, RedisCheck, DbCheck, Repopulate, Audit,
     MarkDenied, MarkFailed, MarkProcessed, CacheMark, Reply, Broadcast, Crash,
     Shutdown, Exit, Stop, ExpireProcessedSet, RegionalChange, InsertPost,
     HandleNewPost, UpdatePost, DeletePost, ReadStats, WriteStats, UpsertTag,
     DeleteTag, UpdateTagStats, RouteNothing, RouteRest, ReturnOk, ReturnError,
     Accept
<1>2. \A w \in Workers : pc'[w] # "idle" =>
        \/ pc[w] # "idle" /\ ev'[w] = ev[w]
        \/ \A f \in EventIds : <<f, ev'[w]>> \in Before =>
             \E t \in Sources : <<f, t>> \in answered
  <2>1. ASSUME NEW v \in Workers, NEW e \in EventIds, NEW s \in Sources,
               Deliver(v, e, s), NEW w \in Workers, pc'[w] # "idle"
        PROVE  \/ pc[w] # "idle" /\ ev'[w] = ev[w]
               \/ \A f \in EventIds : <<f, ev'[w]>> \in Before =>
                    \E t \in Sources : <<f, t>> \in answered
    BY <2>1 DEF TypeOK, Deliver
  <2>2. ASSUME NEW v \in Workers, Step(v)
        PROVE  /\ pc[v] # "idle"
               /\ \A w \in Workers : pc'[w] # "idle" =>
                    ev'[w] = ev[w] /\ (w = v \/ pc'[w] = pc[w])
    BY <2>2
    DEF TypeOK, Step, Route, RedisCheck, DbCheck, Repopulate, Audit, MarkDenied,
        MarkFailed, MarkProcessed, CacheMark, Reply, InsertPost, HandleNewPost,
        UpdatePost, DeletePost, ReadStats, WriteStats, UpsertTag, DeleteTag,
        UpdateTagStats, RouteNothing, RouteCall, Goto, ReturnOk, ReturnError,
        Finish
  <2>3. CASE UNCHANGED requestVars
    BY <2>3 DEF requestVars
  <2>4. ASSUME NEW r \in Replicas, Crash(r) \/ Exit(r)
        PROVE  \A w \in Workers : pc'[w] # "idle" => pc'[w] = pc[w] /\ ev'[w] = ev[w]
    BY <2>4 DEF Crash, Exit, Stop
  <2>5. ASSUME NEW r \in Replicas, (\E e \in EventIds : Broadcast(r, e)) \/ Shutdown(r)
        PROVE  UNCHANGED requestVars
    BY <2>5 DEF Broadcast, Shutdown
  <2>6. ASSUME ExpireProcessedSet \/ UNCHANGED vars
               \/ \E p \in RegionalPosts : RegionalChange(p)
        PROVE  UNCHANGED requestVars
    BY <2>6 DEF ExpireProcessedSet, RegionalChange, vars
  <2> QED
    BY <2>1, <2>2, <2>3, <2>4, <2>5, <2>6 DEF Next
<1>3. ASSUME NEW e \in EventIds, NEW f \in EventIds, <<f, e>> \in Before,
             applied'[e] > 0 \/ \E w \in Workers : pc'[w] # "idle" /\ ev'[w] = e
      PROVE  \E t \in Sources : <<f, t>> \in answered'
  <2>1. CASE applied[e] > 0 \/ \E w \in Workers : pc[w] # "idle" /\ ev[w] = e
    BY <1>1, <1>3, <2>1 DEF OrderInv
  <2>2. CASE applied'[e] > 0 /\ ~ applied[e] > 0
    <3>1. \E w \in Workers : pc[w] # "idle" /\ ev[w] = e
      BY <2>2, AppliedStep
    <3> QED
      BY <2>1, <3>1
  <2>3. ASSUME NEW w \in Workers, pc'[w] # "idle", ev'[w] = e
        PROVE  \E t \in Sources : <<f, t>> \in answered'
    BY <1>1, <1>2, <1>3, <2>1, <2>3
  <2> QED
    BY <1>3, <2>1, <2>2, <2>3
<1> QED
  BY <1>3 DEF OrderInv

\* A request about to write a row has no deletion behind it.
LEMMA NotRevived ==
  ASSUME Inv, OnceInv, OrderInv, DeletionsLast, NEW w \in Workers,
         pc[w] \in {"insertPost", "updatePost", "upsertTag"},
         NEW e \in EventIds, applied[e] > 0,
         Type(e) = IF pc[w] = "upsertTag" THEN "TAG_DELETED" ELSE "POST_DELETED"
  PROVE  Uid(e) # Uid(ev[w])
<1> SUFFICES ASSUME Uid(e) = Uid(ev[w]) PROVE FALSE
  OBVIOUS
<1>1. /\ ev[w] \in EventIds /\ Allowed(ev[w])
      /\ pc[w] # "upsertTag" => Type(ev[w]) \in {"POST_CREATED", "POST_UPDATED"}
      /\ pc[w] = "upsertTag" => Type(ev[w]) \in {"TAG_CREATED", "TAG_UPDATED"}
  BY DEF Inv, TypeOK, RequestInv, RouteInv, RouteLabels
<1>2. <<ev[w], e>> \in Before
  BY <1>1 DEF DeletionsLast
<1>3. PICK t \in Sources : <<ev[w], t>> \in answered
  BY <1>1, <1>2 DEF OrderInv
<1>4. applied[ev[w]] > 0
  BY <1>1, <1>3 DEF Inv, AnswerInv, Done
<1>5. applied[ev[w]] = 0
  BY DEF OnceInv, RouteLabels
<1> QED
  BY <1>4, <1>5

(***************************************************************************)
(* Every step keeps deletions final: the statement of a deletion removes   *)
(* its row, and one that would bring a row back belongs to an event that   *)
(* was applied, hence logged, before the deletion was sent.                *)
(***************************************************************************)
LEMMA DeleteNext ==
  ASSUME DeletionsLast
  PROVE  Inv /\ OnceInv /\ OrderInv /\ DeleteWins /\ [Next]_vars => DeleteWins'
<1> SUFFICES ASSUME Inv, OnceInv, OrderInv, DeleteWins, [Next]_vars,
                    NEW e \in EventIds, applied'[e] > 0
             PROVE  /\ Type(e) = "POST_DELETED" => postIndex'[Uid(e)] = NoRow
                    /\ Type(e) = "TAG_DELETED"  => tagIndex'[Uid(e)] = NoRow
  BY DEF DeleteWins
<1>0. TypeOK
  BY DEF Inv
<1>1. CASE UNCHANGED indexVars
  BY <1>1 DEF DeleteWins, indexVars
<1>2. ASSUME NEW w \in Workers, Route(w), applied[e] > 0
      PROVE  /\ Type(e) = "POST_DELETED" => postIndex'[Uid(e)] = NoRow
             /\ Type(e) = "TAG_DELETED"  => tagIndex'[Uid(e)] = NoRow
  <2>1. CASE Type(e) = "POST_DELETED"
    <3>1. Uid(e) \in Posts /\ postIndex[Uid(e)] = NoRow
      BY <1>2, <2>1, EventTyped DEF DeleteWins, TagEventTypes
    <3>2. pc[w] = "insertPost" => Uid(e) # Uid(ev[w])
      BY <1>2, <2>1, NotRevived
    <3>3. PostStep(w)
      BY <1>2, RoutePostStep
    <3> QED
      BY <2>1, <3>1, <3>2, <3>3
      DEF PostStep, PostKept, PostDeleted, PostInserted, PostUpdated, PostCounted
  <2>2. CASE Type(e) = "TAG_DELETED"
    <3>1. Uid(e) \in Tags /\ tagIndex[Uid(e)] = NoRow
      BY <1>2, <2>2, EventTyped DEF DeleteWins, TagEventTypes
    <3>2. pc[w] = "upsertTag" => Uid(e) # Uid(ev[w])
      BY <1>2, <2>2, NotRevived
    <3> QED
      BY <1>0, <1>2, <2>2, <3>1, <3>2, RouteTagStep
  <2> QED
    BY <2>1, <2>2
<1>3. ASSUME NEW w \in Workers, Route(w), ev[w] = e, ~ applied[e] > 0
      PROVE  /\ Type(e) = "POST_DELETED" => postIndex'[Uid(e)] = NoRow
             /\ Type(e) = "TAG_DELETED"  => tagIndex'[Uid(e)] = NoRow
  <2>1. ~ UNCHANGED applied
    BY <1>3
  <2>2. CASE DeletePost(w)
    <3>1. SetPost(w, NoRow)
      BY <2>1, <2>2 DEF DeletePost, indexVars
    <3>2. Type(e) = "POST_DELETED" /\ Uid(e) \in Posts
      BY <1>3, <2>2, RoutePost DEF Inv, RouteInv, DeletePost
    <3> QED
      BY <1>0, <1>3, <3>1, <3>2 DEF TypeOK, SetPost
  <2>3. CASE DeleteTag(w)
    <3>1. SetTag(w, NoRow)
      BY <2>1, <2>3 DEF DeleteTag, indexVars
    <3>2. Type(e) = "TAG_DELETED"
      BY <1>3, <2>3 DEF Inv, RouteInv, DeleteTag
    <3>3. Uid(e) \in Tags
      BY <3>2, EventTyped DEF TagEventTypes
    <3> QED
      BY <1>0, <1>3, <3>1, <3>2, <3>3 DEF TypeOK, SetTag
  <2>4. CASE \/ InsertPost(w) \/ UpdatePost(w) \/ WriteStats(w) \/ UpsertTag(w)
             \/ UpdateTagStats(w) \/ RouteNothing(w)
    <3>1. Type(e) \notin {"POST_DELETED", "TAG_DELETED"}
      BY <1>3, <2>4
      DEF Inv, RouteInv, InsertPost, UpdatePost, WriteStats, UpsertTag,
          UpdateTagStats, RouteNothing
    <3> QED
      BY <3>1
  <2>5. CASE HandleNewPost(w) \/ ReadStats(w)
    BY <2>1, <2>5 DEF HandleNewPost, ReadStats, indexVars
  <2> QED
    BY <1>3, <2>2, <2>3, <2>4, <2>5 DEF Route
<1> QED
  BY <1>0, <1>1, <1>2, <1>3, OutsideRoute, AppliedStep

(***************************************************************************)
(* DeletePost and GlobalTagIndexService.DeleteTag are final, although      *)
(* UpdatePost inserts what it does not find: for a source that sends a     *)
(* deletion last, deliveries of one event that do not overlap, and a       *)
(* steady Postgres.  The run delete_wins shows what the first hypothesis   *)
(* is needed for.                                                          *)
(***************************************************************************)
THEOREM DeletionsFinal ==
  ASSUME PostgresSteady, DeletionsLast
  PROVE  Spec /\ []OneRequestPerEvent => []DeleteWins
<1>1. Inv /\ OnceInv /\ OneRequestPerEvent /\ [Next]_vars => OnceInv'
  BY OnceNext
<1>2. Inv /\ OnceInv /\ OrderInv /\ DeleteWins /\ [Next]_vars => DeleteWins'
  BY DeleteNext
<1>3. Init => DeleteWins
  BY DEF Init, DeleteWins
<1>4. Inv => TypeOK
  BY DEF Inv
<1> QED
  BY <1>1, <1>2, <1>3, <1>4, OnceInit, OrderInit, OrderNext, Invariance, PTL
  DEF Spec

-----------------------------------------------------------------------------
(***************************************************************************)
(* Counts.                                                                 *)
(***************************************************************************)

\* The steps that touch neither the counts nor a row and send no request
\* into the second half of handleStatsUpdated.
LEMMA CountQuiet ==
  ASSUME CountInv, UNCHANGED <<applied, postIndex, statsVars>>,
         \A w \in Workers :
           /\ ev'[w] = ev[w] \/ ev'[w] \notin EventIds
           /\ pc'[w] = "writeStats" =>
                pc[w] = "writeStats" /\ ev'[w] = ev[w] /\ val'[w] = val[w]
  PROVE  CountInv'
BY DEF CountInv, ReadingInv, statsVars, countVars

\* Before the first request no count event was sent.
LEMMA CountInit == Init => CountInv
BY PipelineAssumption DEF Init, CountInv, ReadingInv

\* A count event that is sent for the first time has no request and no effect.
LEMMA CountDeliver ==
  ASSUME TypeOK, CountInv,
         NEW w \in Workers, NEW f \in EventIds, NEW s \in Sources,
         Deliver(w, f, s)
  PROVE  CountInv'
<1>1. /\ UNCHANGED <<val, applied, postIndex, regionalStats, countVars>>
      /\ pc'[w] = "redisCheck" /\ ev'[w] = f
      /\ \A v \in Workers \ {w} : pc'[v] = pc[v] /\ ev'[v] = ev[v]
  BY DEF TypeOK, Deliver, indexVars
<1>2. \A e \in EventIds : IsCount(e) =>
        /\ notice'[e] = "unsent" => notice[e] = "unsent" /\ e # f
        /\ notice'[e] = "current" => notice[e] \in {"unsent", "current"}
  BY DEF TypeOK, Deliver
<1> QED
  BY <1>1, <1>2 DEF CountInv, ReadingInv, countVars

\* A change in the region makes the count events of the post old.
LEMMA CountChange ==
  ASSUME TypeOK, CountInv, NEW p \in RegionalPosts, RegionalChange(p)
  PROVE  CountInv'
<1>1. UNCHANGED <<pc, ev, val, applied, postIndex, countVars>>
  BY DEF RegionalChange, requestVars, indexVars
<1>2. \A q \in RegionalPosts : q # p => regionalStats'[q] = regionalStats[q]
  BY DEF TypeOK, RegionalChange
<1>3. \A e \in EventIds : IsCount(e) =>
        /\ notice'[e] = "unsent" => notice[e] = "unsent"
        /\ notice'[e] = "current" => notice[e] = "current" /\ Uid(e) # p
  BY DEF TypeOK, RegionalChange
<1> QED
  BY <1>1, <1>2, <1>3 DEF CountInv, ReadingInv, countVars

(***************************************************************************)
(* The other statements of routeEvent: updates and upserts leave the count *)
(* of a row alone, and a row that appears is noted as behind.              *)
(***************************************************************************)
LEMMA CountRow ==
  ASSUME Inv, CountInv, NEW w \in Workers, Route(w),
         pc[w] \notin {"readStats", "writeStats"}
  PROVE  CountInv'
<1>0. TypeOK
  BY DEF Inv
<1>1. PostStep(w)
  BY RoutePostStep
<1>2. /\ UNCHANGED <<regionalStats, notice, ev, val, overtaken>>
      /\ \A v \in Workers : pc'[v] = "writeStats" => pc[v] = "writeStats"
      /\ pc[w] \in RouteLabels
  BY <1>0
  DEF TypeOK, Route, InsertPost, HandleNewPost, UpdatePost, DeletePost,
      ReadStats, WriteStats, UpsertTag, DeleteTag, UpdateTagStats,
      RouteNothing, RouteCall, RouteRest, Goto, countVars, RouteLabels
<1>3. ASSUME NEW e \in EventIds, IsCount(e), Uid(e) \in RegionalPosts
      PROVE  applied'[e] = applied[e]
  <2>1. pc[w] = "feed" \/ ev[w] # e
    BY <1>2, <1>3 DEF Inv, RouteInv, IsCount, RouteLabels
  <2>2. UNCHANGED applied \/ (CountApplied(w) /\ pc[w] # "feed")
    BY DEF Route, InsertPost, HandleNewPost, UpdatePost, DeletePost, ReadStats,
           WriteStats, UpsertTag, DeleteTag, UpdateTagStats, RouteNothing,
           SetPost, SetTag, indexVars
  <2> QED
    BY <1>0, <2>1, <2>2 DEF TypeOK, CountApplied
<1>4. /\ behind \subseteq behind'
      /\ \A p \in Posts : PostInserted(w, p) => p \in behind'
  <2>1. CASE pc[w] = "insertPost"
    <3>1. NoteInsert(w) \/ UNCHANGED <<postIndex, behind>>
      BY <2>1 DEF Route, InsertPost, HandleNewPost, UpdatePost, DeletePost,
         ReadStats, WriteStats, UpsertTag, DeleteTag, UpdateTagStats,
         RouteNothing, indexVars
    <3> QED
      BY <3>1 DEF NoteInsert, PostInserted
  <2>2. CASE pc[w] # "insertPost"
    BY <2>2 DEF Route, InsertPost, HandleNewPost, UpdatePost, DeletePost,
       ReadStats, WriteStats, UpsertTag, DeleteTag, UpdateTagStats,
       RouteNothing, countVars, PostInserted
  <2> QED
    BY <2>1, <2>2
<1>5. \A p \in Posts : postIndex'[p] # NoRow =>
        \/ p \in behind'
        \/ postIndex[p] # NoRow /\ postIndex'[p].stats = postIndex[p].stats
  BY <1>1, <1>4
  DEF PostStep, PostKept, PostDeleted, PostUpdated, PostCounted
<1>6. RegionalPosts \subseteq Posts
  BY PipelineAssumption
<1> QED
  BY <1>2, <1>3, <1>4, <1>5, <1>6 DEF CountInv, ReadingInv

\* The first half of handleStatsUpdated reads the present counts.
LEMMA CountRead ==
  ASSUME Inv, CountInv, NEW w \in Workers, ReadStats(w)
  PROVE  CountInv'
<1>0. TypeOK
  BY DEF Inv
<1>1. /\ UNCHANGED <<ev, applied, postIndex, regionalStats, notice, behind>>
      /\ overtaken' = overtaken \ {w}
  BY DEF ReadStats, Goto, RouteRest, indexVars
<1>2. /\ \A v \in Workers \ {w} : pc'[v] = pc[v] /\ val'[v] = val[v]
      /\ pc'[w] = "writeStats" => val'[w] = regionalStats[Uid(ev[w])]
  BY <1>0 DEF TypeOK, ReadStats, Goto
<1> QED
  BY <1>1, <1>2 DEF CountInv, ReadingInv

(***************************************************************************)
(* The second half writes the present counts over those of the row, or is  *)
(* overtaken, and overtakes every other request that has its reading.      *)
(***************************************************************************)
LEMMA CountWrite ==
  ASSUME Inv, CountInv, NEW w \in Workers, WriteStats(w)
  PROVE  CountInv'
<1>0. TypeOK /\ pc[w] = "writeStats"
  BY DEF Inv, WriteStats
<1>1. ev[w] \in EventIds /\ Uid(ev[w]) \in Posts
  BY <1>0, RoutePost
<1>2. /\ UNCHANGED <<ev, val, regionalStats, notice>> /\ pc'[w] # "writeStats"
      /\ \A v \in Workers \ {w} : pc'[v] = pc[v]
  BY <1>0 DEF TypeOK, WriteStats, RouteCall, Goto, RouteRest
<1> DEFINE post == Uid(ev[w])
           old  == postIndex[post]
           new  == IF old = NoRow THEN NoRow ELSE [old EXCEPT !.stats = val[w]]
<1>3. CASE UNCHANGED <<indexVars, countVars>>
  BY <1>2, <1>3, CountQuiet DEF indexVars, statsVars, countVars
<1>4. CASE SetPost(w, new) /\ NoteCounts(w)
  <2>1. \A e \in EventIds : e # ev[w] => applied'[e] = applied[e]
    BY <1>0, <1>4 DEF TypeOK, SetPost, CountApplied
  <2>2. /\ \A v \in Workers \ {w} :
             pc[v] = "writeStats" /\ Uid(ev[v]) = post => v \in overtaken'
        /\ overtaken \ {w} \subseteq overtaken'
        /\ w \in overtaken => post \in behind'
        /\ \A p \in Posts : p # post => (p \in behind <=> p \in behind')
    BY <1>4 DEF NoteCounts
  <2>3. old # NoRow => new.stats = val[w]
    <3>1. old # NoRow => old \in PostRow
      BY <1>0, <1>1 DEF TypeOK
    <3> QED
      BY <3>1 DEF PostRow
  <2>4. \A p \in Posts : postIndex'[p] = IF p = post THEN new ELSE postIndex[p]
    BY <1>0, <1>4 DEF TypeOK, SetPost
  <2>5. old = NoRow => new = NoRow
    OBVIOUS
  <2> HIDE DEF new
  <2>6. ASSUME NEW e \in EventIds, IsCount(e), Uid(e) \in RegionalPosts,
               notice'[e] = "unsent"
        PROVE  applied'[e] = 0 /\ \A v \in Workers : ev'[v] # e
    BY <1>2, <2>1, <2>6 DEF CountInv
  <2>7. ASSUME NEW e \in EventIds, IsCount(e), Uid(e) \in RegionalPosts,
               notice'[e] = "current", NEW v \in Workers
        PROVE  ReadingInv(v, e)'
    <3>1. notice[e] = "current" /\ ReadingInv(v, e)
      BY <1>2, <2>7 DEF CountInv
    <3>2. CASE Uid(e) = post
      BY <1>2, <2>2, <3>1, <3>2 DEF ReadingInv
    <3>3. CASE Uid(e) # post
      BY <1>2, <2>1, <2>2, <3>1, <3>3 DEF ReadingInv
    <3> QED
      BY <3>2, <3>3
  <2>8. ASSUME NEW e \in EventIds, IsCount(e), Uid(e) \in RegionalPosts,
               notice'[e] = "current", applied'[e] > 0,
               postIndex'[Uid(e)] # NoRow
        PROVE  \/ postIndex'[Uid(e)].stats = regionalStats'[Uid(e)]
               \/ Uid(e) \in behind'
    <3>1. /\ notice[e] = "current" /\ ReadingInv(w, e)
          /\ applied[e] > 0 /\ postIndex[Uid(e)] # NoRow =>
               \/ postIndex[Uid(e)].stats = regionalStats[Uid(e)]
               \/ Uid(e) \in behind
      BY <1>2, <2>8 DEF CountInv
    <3>2. Uid(e) \in Posts
      BY <2>8, PipelineAssumption
    <3>3. CASE Uid(e) = post
      <4>1. postIndex'[post].stats = val[w]
        BY <1>1, <2>3, <2>4, <2>5, <2>8, <3>3
      <4>2. val[w] = regionalStats[post] \/ w \in overtaken
        BY <1>0, <2>1, <2>8, <3>1, <3>3 DEF ReadingInv
      <4> QED
        BY <1>2, <2>2, <3>3, <4>1, <4>2
    <3>4. CASE Uid(e) # post
      BY <1>2, <2>1, <2>2, <2>4, <2>8, <3>1, <3>2, <3>4
    <3> QED
      BY <3>3, <3>4
  <2> QED
    BY <2>6, <2>7, <2>8 DEF CountInv
<1> QED
  BY <1>3, <1>4 DEF WriteStats

(***************************************************************************)
(* Every step keeps the invariant.  A failed or repeated request of a      *)
(* count event reads the region again, and the deduplication, crashes and  *)
(* the loss of the Redis set leave rows and readings alone.                *)
(***************************************************************************)
LEMMA CountNext == Inv /\ CountInv /\ [Next]_vars => CountInv'
<1> SUFFICES ASSUME Inv, CountInv, [Next]_vars PROVE CountInv'
  OBVIOUS
<1>0. TypeOK /\ NoEvent \notin EventIds
  BY PipelineAssumption DEF Inv
<1> USE DEF vars, requestVars, indexVars
<1>1. ASSUME NEW w \in Workers, Route(w)
      PROVE  CountInv'
  <2>1. CASE pc[w] \notin {"readStats", "writeStats"}
    BY <1>1, <2>1, CountRow
  <2>2. CASE pc[w] \in {"readStats", "writeStats"}
    <3>1. ReadStats(w) \/ WriteStats(w)
      BY <1>1, <2>2
      DEF Route, InsertPost, HandleNewPost, UpdatePost, DeletePost, UpsertTag,
          DeleteTag, UpdateTagStats, RouteNothing
    <3> QED
      BY <3>1, CountRead, CountWrite
  <2> QED
    BY <2>1, <2>2
<1>2. ASSUME NEW w \in Workers, NEW e \in EventIds, NEW s \in Sources,
             Deliver(w, e, s)
      PROVE  CountInv'
  BY <1>0, <1>2, CountDeliver
<1>3. ASSUME NEW w \in Workers,
             \/ RedisCheck(w) \/ DbCheck(w) \/ Repopulate(w)
             \/ MarkDenied(w) \/ MarkFailed(w) \/ MarkProcessed(w)
             \/ CacheMark(w) \/ Reply(w)
      PROVE  CountInv'
  BY <1>0, <1>3, CountQuiet
  DEF TypeOK, RedisCheck, DbCheck, Repopulate, MarkDenied, MarkFailed,
      MarkProcessed, CacheMark, Reply, LogStatus, Goto, ReturnOk, ReturnError,
      Finish
<1>4. ASSUME NEW w \in Workers, Audit(w)
      PROVE  CountInv'
  <2>1. pc'[w] # "writeStats"
    BY <1>0, <1>4, RouteOfType DEF TypeOK, Audit, Goto
  <2> QED
    BY <1>0, <1>4, <2>1, CountQuiet DEF TypeOK, Audit, Goto
<1>5. ASSUME NEW r \in Replicas, Crash(r) \/ Exit(r)
      PROVE  CountInv'
  BY <1>0, <1>5, CountQuiet DEF Crash, Exit, Stop
<1>6. ASSUME NEW p \in RegionalPosts, RegionalChange(p)
      PROVE  CountInv'
  BY <1>0, <1>6, CountChange
<1>7. ASSUME \/ \E r \in Replicas, e \in EventIds : Broadcast(r, e)
             \/ \E r \in Replicas : Shutdown(r)
             \/ ExpireProcessedSet \/ UNCHANGED vars
      PROVE  CountInv'
  BY <1>7, CountQuiet DEF Broadcast, Shutdown, ExpireProcessedSet
<1> QED
  BY <1>1, <1>2, <1>3, <1>4, <1>5, <1>6, <1>7 DEF Next, Step

(***************************************************************************)
(* handleStatsUpdated: an answered count event leaves the row with the     *)
(* present counts of the region, however often it was sent, failed or      *)
(* crashed and whatever else ran at the same time, unless the row came     *)
(* later or the last writer of its counts had been overtaken.              *)
(***************************************************************************)
THEOREM CountsCurrent == Spec => []CountsFollow
<1>1. Inv /\ CountInv => CountsFollow
  <2> SUFFICES ASSUME Inv, CountInv, NEW e \in EventIds, NEW s \in Sources,
                      IsCount(e), Allowed(e), Uid(e) \in RegionalPosts,
                      notice[e] = "current", <<e, s>> \in answered,
                      postIndex[Uid(e)] # NoRow
               PROVE  \/ postIndex[Uid(e)].stats = regionalStats[Uid(e)]
                      \/ Uid(e) \in behind
    BY DEF CountsFollow
  <2>1. applied[e] > 0
    BY DEF Inv, AnswerInv, Done
  <2> QED
    BY <2>1 DEF CountInv
<1> QED
  BY <1>1, CountInit, CountNext, Invariance, PTL DEF Spec
=============================================================================
