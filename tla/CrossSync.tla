----------------------------- MODULE CrossSync -----------------------------
(***************************************************************************)
(* The exchange of events between the regions: CrossSyncService.Broadcast  *)
(* and sendToPeer (internal/sync/cross_sync.go) over the health flags of   *)
(* PeerManager (internal/peer/peer_manager.go).                            *)
(*                                                                         *)
(* A region is one process.  What its pipeline does with an event is one   *)
(* step here, as in SyncContract; SyncPipeline has its interior.  Sending  *)
(* is taken apart: the goroutine, the request, the peer's answer, and the  *)
(* sender's reaction to it, any of which may fail or come late.            *)
(***************************************************************************)
EXTENDS Naturals, SyncEvent

CONSTANTS Regions,
          Peers,         \* Regions -> the peers configured there
          EventIds, Event,
          Home,          \* EventIds -> the region whose API submits the event
          Prior,         \* EventIds -> the events submitted before it
          Paced,         \* the source waits until earlier events are sent
          HealthChecks,  \* somebody calls PeerManager.CheckHealth
          FaultKinds, MaxFaults,
          Flaky,         \* the regions whose process or network fails
          NoRow

ASSUME CrossAssumption ==
  /\ Peers \in [Regions -> SUBSET Regions]
  /\ \A r \in Regions : r \notin Peers[r]
  /\ Event \in [EventIds -> SyncEvents]
  /\ \A e \in EventIds : Check(Event[e]).allowed
  /\ Home \in [EventIds -> Regions]
  /\ Prior \in [EventIds -> SUBSET EventIds]
  /\ Paced \in BOOLEAN /\ HealthChecks \in BOOLEAN
  /\ MaxFaults \in Nat
  /\ Flaky \subseteq Regions
  /\ NoRow \notin EventIds

VARIABLES
  up,          \* the regions whose process runs
  done,        \* per region: the events its log holds as processed
  row,         \* per region: the event each post's row has its content from
  goroutines,  \* per region: events whose Broadcast goroutine has not run yet
  sent,        \* per region: CrossSyncService.sent
  unhealthy,   \* per region: the peers whose Healthy flag is false
  calls,       \* <<r, q, e>>: r waits for q's answer to its request about e
  requests,    \* <<r, q, e>>: the request is on its way or being handled
  responses,   \* <<r, q, e, status>>: the answer is on its way
  faults

\* History.
VARIABLES
  submitted,   \* events answered with 202 at home
  posts,       \* how often r sent e to q in the present life of its process
  blamed       \* <<r, q>>: a call from r to q failed, or r crashed

processVars == <<goroutines, sent, unhealthy, calls, posts>>
netVars     == <<requests, responses>>
dataVars    == <<done, row>>
vars == <<up, dataVars, processVars, netVars, faults, submitted, blamed>>

Messages == {m \in Regions \X Regions \X EventIds : m[2] \in Peers[m[1]]}

Statuses == {"2xx", "4xx", "5xx", "refused"}

Fault(kind) ==
  /\ kind \in FaultKinds
  /\ faults < MaxFaults
  /\ faults' = faults + 1

Effect(r, e) ==
  row' = [row EXCEPT ![r][Event[e].uid] =
            CASE Event[e].type \in {"POST_CREATED", "POST_UPDATED"} -> e
              [] Event[e].type = "POST_DELETED" -> NoRow
              [] OTHER -> @]

\* The pipeline of region r handles e: nothing happens the second time.
Process(r, e) ==
  /\ done' = [done EXCEPT ![r] = @ \cup {e}]
  /\ IF e \in done[r] THEN UNCHANGED row ELSE Effect(r, e)

\* No broadcast of an event that comes before e is under way.
Settled(e) ==
  \A f \in Prior[e] :
    /\ f \notin goroutines[Home[f]]
    /\ \A m \in calls \cup requests : m[3] # f

-----------------------------------------------------------------------------
\* POST /sync/content of an event that has not been processed yet.
Submit(e) ==
  LET r == Home[e]
  IN  /\ r \in up
      /\ e \notin done[r]
      /\ Prior[e] \subseteq submitted
      /\ Paced => Settled(e)
      /\ Process(r, e)
      /\ goroutines' = [goroutines EXCEPT ![r] = @ \cup {e}]
      /\ submitted'  = submitted \cup {e}
      /\ UNCHANGED <<up, sent, unhealthy, calls, posts, netVars, faults, blamed>>

\* The same event once more, past IsProcessed before the first was logged:
\* it is applied again and starts a second goroutine.
Resubmit(e) ==
  LET r == Home[e]
  IN  /\ r \in up
      /\ e \in submitted
      /\ Paced => \A f \in submitted : e \notin Prior[f]
      /\ Fault("duplicate")
      /\ Effect(r, e)
      /\ goroutines' = [goroutines EXCEPT ![r] = @ \cup {e}]
      /\ UNCHANGED <<up, done, sent, unhealthy, calls, posts, netVars,
                     submitted, blamed>>

-----------------------------------------------------------------------------
\* Broadcast: at most once per event, to the peers that are healthy now.

Post(r, e, targets) ==
  LET new == {<<r, q, e>> : q \in targets}
  IN  /\ calls'    = calls \cup new
      /\ requests' = requests \cup new
      /\ posts'    = [m \in Messages |-> IF m \in new /\ posts[m] < 2
                                         THEN posts[m] + 1 ELSE posts[m]]

\* Mutant of Broadcast: the sent map is written but not looked at.
BroadcastAgain(r, e) ==
  /\ e \in goroutines[r]
  /\ goroutines' = [goroutines EXCEPT ![r] = @ \ {e}]
  /\ sent' = [sent EXCEPT ![r] = @ \cup {e}]
  /\ Post(r, e, Peers[r] \ unhealthy[r])
  /\ UNCHANGED <<up, dataVars, unhealthy, responses, faults, submitted, blamed>>

\* Mutant of Broadcast: one unhealthy peer holds up the broadcast to all.
BroadcastAllOrNone(r, e) ==
  /\ e \in goroutines[r]
  /\ goroutines' = [goroutines EXCEPT ![r] = @ \ {e}]
  /\ sent' = [sent EXCEPT ![r] = @ \cup {e}]
  /\ IF e \in sent[r] \/ unhealthy[r] # {}
     THEN UNCHANGED <<calls, requests, posts>>
     ELSE Post(r, e, Peers[r])
  /\ UNCHANGED <<up, dataVars, unhealthy, responses, faults, submitted, blamed>>

Broadcast(r, e) ==
  /\ e \in goroutines[r]
  /\ goroutines' = [goroutines EXCEPT ![r] = @ \ {e}]
  /\ sent' = [sent EXCEPT ![r] = @ \cup {e}]
  /\ IF e \in sent[r] THEN UNCHANGED <<calls, requests, posts>>
     ELSE Post(r, e, Peers[r] \ unhealthy[r])
  /\ UNCHANGED <<up, dataVars, unhealthy, responses, faults, submitted, blamed>>

\* Mutant of Respond: the answer is kept for a sender that has given up.
RespondLate(m, status) ==
  /\ requests'  = requests \ {m}
  /\ responses' = responses \cup {<<m[1], m[2], m[3], status>>}

\* The answer reaches the sender if it still waits.
Respond(m, status) ==
  /\ requests'  = requests \ {m}
  /\ responses' = IF m \in calls
                  THEN responses \cup {<<m[1], m[2], m[3], status>>}
                  ELSE responses

\* Mutant of Receive: every event is taken for a processed one.
ReceiveDrops(m) ==
  /\ m \in requests /\ m[2] \in up
  /\ Respond(m, "2xx")
  /\ UNCHANGED <<up, dataVars, processVars, faults, submitted, blamed>>

\* HandleCrossSync at the peer, which sends nothing on.
Receive(m) ==
  /\ m \in requests /\ m[2] \in up
  /\ Process(m[2], m[3])
  /\ Respond(m, "2xx")
  /\ UNCHANGED <<up, processVars, faults, submitted, blamed>>

\* Mutant of ReceiveFails: the event is logged although its effect failed.
ReceiveFailsLogged(m) ==
  /\ m \in requests /\ m[2] \in up \cap Flaky
  /\ \/ Fault("error")  /\ Effect(m[2], m[3]) /\ Respond(m, "5xx")
     \/ Fault("error")  /\ UNCHANGED row      /\ Respond(m, "5xx")
     \/ Fault("reject") /\ UNCHANGED row      /\ Respond(m, "4xx")
  /\ done' = [done EXCEPT ![m[2]] = @ \cup {m[3]}]
  /\ UNCHANGED <<up, processVars, submitted, blamed>>

\* The peer answers 500, with or without having written the index, or a
\* gateway in front of it answers 4xx.
ReceiveFails(m) ==
  /\ m \in requests /\ m[2] \in up \cap Flaky
  /\ \/ Fault("error")  /\ Effect(m[2], m[3]) /\ Respond(m, "5xx")
     \/ Fault("error")  /\ UNCHANGED row      /\ Respond(m, "5xx")
     \/ Fault("reject") /\ UNCHANGED row      /\ Respond(m, "4xx")
  /\ UNCHANGED <<up, done, processVars, submitted, blamed>>

Refuse(m) ==
  /\ m \in requests /\ m[2] \notin up
  /\ Respond(m, "refused")
  /\ UNCHANGED <<up, dataVars, processVars, faults, submitted, blamed>>

-----------------------------------------------------------------------------
\* The rest of sendToPeer.

MarkHealthy(r, q) == unhealthy' = [unhealthy EXCEPT ![r] = @ \ {q}]

\* Mutant of MarkUnhealthy: the comparison of the URLs is gone.
MarkAllUnhealthy(r, q) == unhealthy' = [unhealthy EXCEPT ![r] = Peers[r]]

MarkUnhealthy(r, q) == unhealthy' = [unhealthy EXCEPT ![r] = @ \cup {q}]

\* 2xx clears the flag, 5xx and a connection error set it, 4xx leaves it.
Return(m, status) ==
  LET response == <<m[1], m[2], m[3], status>>
  IN  /\ m \in calls /\ response \in responses
      /\ calls'     = calls \ {m}
      /\ responses' = responses \ {response}
      /\ CASE status = "2xx" -> MarkHealthy(m[1], m[2])
           [] status = "4xx" -> UNCHANGED unhealthy
           [] OTHER          -> MarkUnhealthy(m[1], m[2])
      /\ blamed' = IF status = "2xx" THEN blamed ELSE blamed \cup {<<m[1], m[2]>>}
      /\ UNCHANGED <<up, dataVars, goroutines, sent, posts, requests, faults,
                     submitted>>

\* The client gives up; the peer may still handle the request.
Timeout(m) ==
  /\ m \in calls /\ m[2] \in Flaky
  /\ Fault("timeout")
  /\ calls'     = calls \ {m}
  /\ responses' = {x \in responses : <<x[1], x[2], x[3]>> # m}
  /\ MarkUnhealthy(m[1], m[2])
  /\ blamed' = blamed \cup {<<m[1], m[2]>>}
  /\ UNCHANGED <<up, dataVars, goroutines, sent, posts, requests, submitted>>

\* CheckHealth: GET /health of every peer.  A peer that is up may fail it too:
\* it answers 503 while its databases do, or answers too late.
CheckHealth(r) ==
  /\ HealthChecks
  /\ r \in up
  /\ \E failing \in SUBSET (Peers[r] \cap up \cap Flaky) :
       /\ IF failing = {} THEN UNCHANGED faults ELSE Fault("error")
       /\ LET down == (Peers[r] \ up) \cup failing
          IN  /\ unhealthy' = [unhealthy EXCEPT ![r] = down]
              /\ blamed'    = blamed \cup {<<r, q>> : q \in down}
  /\ UNCHANGED <<up, dataVars, goroutines, sent, calls, posts, netVars,
                 submitted>>

-----------------------------------------------------------------------------
\* A process dies with its goroutines, its sent map and its flags; NewPeerManager
\* starts with every peer healthy.  Requests it has sent may still arrive.
Crash(r) ==
  /\ r \in up \cap Flaky
  /\ Fault("crash")
  /\ up' = up \ {r}
  /\ goroutines' = [goroutines EXCEPT ![r] = {}]
  /\ sent'       = [sent EXCEPT ![r] = {}]
  /\ unhealthy'  = [unhealthy EXCEPT ![r] = {}]
  /\ calls'      = {m \in calls : m[1] # r}
  /\ responses'  = {x \in responses : x[1] # r}
  /\ posts'      = [m \in Messages |-> IF m[1] = r THEN 0 ELSE posts[m]]
  /\ blamed'     = blamed \cup {<<r, q>> : q \in Peers[r]}
  /\ UNCHANGED <<dataVars, requests, submitted>>

Restart(r) ==
  /\ r \notin up
  /\ up' = up \cup {r}
  /\ UNCHANGED <<dataVars, processVars, netVars, faults, submitted, blamed>>

Init ==
  /\ up = Regions
  /\ done = [r \in Regions |-> {}]
  /\ row  = [r \in Regions |-> [p \in Posts |-> NoRow]]
  /\ goroutines = [r \in Regions |-> {}]
  /\ sent       = [r \in Regions |-> {}]
  /\ unhealthy  = [r \in Regions |-> {}]
  /\ calls = {} /\ requests = {} /\ responses = {}
  /\ faults = 0
  /\ submitted = {} /\ blamed = {}
  /\ posts = [m \in Messages |-> 0]

Next ==
  \/ \E e \in EventIds : Submit(e) \/ Resubmit(e)
  \/ \E r \in Regions, e \in EventIds : Broadcast(r, e)
  \/ \E m \in Messages :
       \/ Receive(m) \/ ReceiveFails(m) \/ Refuse(m) \/ Timeout(m)
       \/ \E status \in Statuses : Return(m, status)
  \/ \E r \in Regions : CheckHealth(r) \/ Crash(r) \/ Restart(r)

Spec == Init /\ [][Next]_vars

(***************************************************************************)
(* Fairness: goroutines run, the network delivers or refuses, handlers and *)
(* callers return (every context has a deadline), and the orchestrator     *)
(* restarts a dead process.  Nothing makes a source submit, and nothing in *)
(* the service calls CheckHealth.                                          *)
(***************************************************************************)
Fairness ==
  /\ \A r \in Regions : WF_vars(Restart(r))
  /\ \A r \in Regions, e \in EventIds : WF_vars(Broadcast(r, e))
  /\ \A m \in Messages : /\ WF_vars(Receive(m) \/ Refuse(m))
                         /\ WF_vars(\E status \in Statuses : Return(m, status))

FairSpec == Spec /\ Fairness

-----------------------------------------------------------------------------
\* Every variable has its type; an answer on its way has a caller that waits,
\* and only configured peers carry a health flag.
TypeOK ==
  /\ up \subseteq Regions
  /\ done \in [Regions -> SUBSET EventIds]
  /\ row \in [Regions -> [Posts -> EventIds \cup {NoRow}]]
  /\ goroutines \in [Regions -> SUBSET EventIds]
  /\ sent \in [Regions -> SUBSET EventIds]
  /\ unhealthy \in [Regions -> SUBSET Regions]
  /\ \A r \in Regions : unhealthy[r] \subseteq Peers[r]
  /\ calls \subseteq Messages /\ requests \subseteq Messages
  /\ responses \subseteq Regions \X Regions \X EventIds \X Statuses
  /\ \A x \in responses : <<x[1], x[2], x[3]>> \in calls
  /\ faults \in 0..MaxFaults
  /\ submitted \subseteq EventIds
  /\ posts \in [Messages -> 0..2]
  /\ blamed \subseteq Regions \X Regions

(***************************************************************************)
(* A process sends an event to a peer at most once in its life, also when  *)
(* two deliveries of the event raced past IsProcessed and both started a   *)
(* goroutine.                                                              *)
(***************************************************************************)
SentOnce == \A m \in Messages : posts[m] < 2

\* r's request about e is on its way to q or its answer on the way back, q has
\* handled it, or a call from r to q has failed or r has crashed.
Accounted(r, q, e) ==
  \/ <<r, q, e>> \in requests
  \/ \E status \in Statuses : <<r, q, e, status>> \in responses
  \/ e \in done[q]
  \/ <<r, q>> \in blamed

(***************************************************************************)
(* An event that was answered at home is on its way to each peer or has    *)
(* arrived there, unless a call from home to that very peer has failed or  *)
(* the home process has crashed: no other peer's failure is an excuse.     *)
(***************************************************************************)
MissIsExplained ==
  \A e \in submitted : \A q \in Peers[Home[e]] :
    e \in goroutines[Home[e]] \/ Accounted(Home[e], q, e)

(***************************************************************************)
(* Asynchronous eventual consistency: when nothing is on its way from r to *)
(* q and no call between them has failed, both hold the same content for   *)
(* the posts of r.  It takes a source that waits for one broadcast before  *)
(* it submits the next event (Paced): nothing keeps two broadcasts of one  *)
(* post in order.                                                          *)
(***************************************************************************)
Quiet(r, q) ==
  /\ goroutines[r] = {}
  /\ \A m \in requests \cup responses : m[1] # r \/ m[2] # q

Converged ==
  \A r \in Regions : \A q \in Peers[r] :
    Quiet(r, q) /\ <<r, q>> \notin blamed =>
      \A e \in submitted : Home[e] = r =>
        row[q][Event[e].uid] = row[r][Event[e].uid]

(***************************************************************************)
(* A source that waits for its broadcasts gets them delivered in order and *)
(* without a gap: when an event is submitted, whatever comes before it has *)
(* been handled by every peer that no call has failed to, although the     *)
(* source waits for the end of the calls and not for their success.        *)
(***************************************************************************)
PriorDelivered ==
  \A e \in submitted : \A f \in Prior[e] : \A q \in Peers[Home[f]] :
    Paced /\ <<Home[f], q>> \notin blamed => f \in done[q]

(***************************************************************************)
(* Every behaviour of the regions is one that Replication allows: events   *)
(* spread from their home only, whole, and no log entry precedes its       *)
(* effect, whatever calls fail and whichever processes die.                *)
(***************************************************************************)
Replica == INSTANCE Replication WITH known <- done

ImplementsReplication == Replica!ReplicationSpec

(***************************************************************************)
(* D4.3 and D4.7 of the sync test plan: a peer that times out or fails     *)
(* does not keep an event from the other peers.                            *)
(***************************************************************************)
StableDelivered ==
  \A e \in EventIds : \A q \in Peers[Home[e]] \ Flaky :
    Home[e] \notin Flaky => (e \in submitted ~> e \in done[q])

(***************************************************************************)
(* D4.2 of the sync test plan: a peer that is reachable again comes back   *)
(* into the rotation by itself.                                            *)
(***************************************************************************)
PeerRecovers ==
  \A r \in Regions : \A q \in Peers[r] :
    <>[](r \in up /\ q \in up) => []<>(q \notin unhealthy[r])

-----------------------------------------------------------------------------
(***************************************************************************)
(* The inductive invariant behind SentOnce and MissIsExplained: what the   *)
(* sent map of a process says about its calls, and what stands behind a    *)
(* flag that is not Healthy, a request nobody waits for and an answer.     *)
(***************************************************************************)
SentInv ==
  /\ \A m \in Messages : posts[m] > 0 => m[3] \in sent[m[1]]
  /\ \A m \in calls : m[3] \in sent[m[1]]
  /\ \A r \in Regions : \A e \in sent[r] : \A q \in Peers[r] :
       Accounted(r, q, e)

FlagInv == \A r \in Regions : \A q \in unhealthy[r] : <<r, q>> \in blamed

CallInv ==
  \A m \in requests :
    /\ m \in calls \/ <<m[1], m[2]>> \in blamed
    /\ \A status \in Statuses : <<m[1], m[2], m[3], status>> \notin responses

AnswerInv ==
  \A r, q \in Regions : \A e \in EventIds :
    /\ <<r, q, e, "2xx">> \in responses => e \in done[q]
    /\ \A x, y \in Statuses :
         <<r, q, e, x>> \in responses /\ <<r, q, e, y>> \in responses => x = y

Inv == /\ TypeOK /\ SentOnce /\ MissIsExplained
       /\ SentInv /\ FlagInv /\ CallInv /\ AnswerInv

\* The inductive invariant behind the refinement: only its home broadcasts an
\* event, after it has logged it, and nobody sends a received event on.
SourceInv ==
  /\ \A r \in Regions : \A e \in goroutines[r] : e \in submitted /\ Home[e] = r
  /\ \A m \in calls \cup requests : m[3] \in submitted /\ Home[m[3]] = m[1]
  /\ \A r \in Regions : done[r] \subseteq submitted
  /\ \A e \in submitted : e \in done[Home[e]] /\ Prior[e] \subseteq submitted

-----------------------------------------------------------------------------
(***************************************************************************)
(* The inductive invariant behind Converged, for a source that sends one   *)
(* event after the other: all events are about posts, those about one post *)
(* have one home and one order.                                            *)
(***************************************************************************)
OrderedSource ==
  /\ Paced
  /\ \A e \in EventIds : Event[e].uid \in Posts /\ e \notin Prior[e]
  /\ \A e, f \in EventIds :
       /\ ~(e \in Prior[f] /\ f \in Prior[e])
       /\ Event[e].uid = Event[f].uid =>
            /\ Home[e] = Home[f]
            /\ e = f \/ e \in Prior[f] \/ f \in Prior[e]

\* The events of S that write the content of post p.
Writers(p, S) ==
  {e \in S : /\ Event[e].uid = p
             /\ Event[e].type \in {"POST_CREATED", "POST_UPDATED", "POST_DELETED"}}

\* x is what the events of S, in their order, make of the row of post p.
Shows(x, p, S) ==
  \/ Writers(p, S) = {} /\ x = NoRow
  \/ \E e \in Writers(p, S) :
       /\ \A f \in Writers(p, S) : f = e \/ f \in Prior[e]
       /\ x = IF Event[e].type = "POST_DELETED" THEN NoRow ELSE e

\* No call from r to q has failed, and none is about to be reported as such.
Clean(r, q) ==
  /\ <<r, q>> \notin blamed
  /\ \A x \in responses : x[1] = r /\ x[2] = q => x[4] = "2xx"

\* No event of which a later one has been submitted is being broadcast.
OriginInv == SourceInv /\ \A e \in submitted : Settled(e)

\* Each row is what the events its region has handled make of it, at home and
\* at every peer that no call to has failed.
RowInv ==
  \A e \in EventIds :
    LET p == Event[e].uid  r == Home[e]
    IN  /\ Shows(row[r][p], p, submitted)
        /\ \A q \in Peers[r] : Clean(r, q) => Shows(row[q][p], p, done[q])

OrderInv == OriginInv /\ RowInv
=============================================================================
