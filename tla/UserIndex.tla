----------------------------- MODULE UserIndex -----------------------------
(***************************************************************************)
(* The index of users (which region a uid lives in), replicated between    *)
(* the regions: HandleUpsertUser with its broadcast goroutine              *)
(* (internal/handler/user_index_handler.go) and the UserIndexReconciler    *)
(* (internal/sync/user_index_reconciler.go), which share one table.        *)
(*                                                                         *)
(* A peer cannot tell a broadcast from a request of the API: it stores it  *)
(* and broadcasts it again.  The upserts therefore never end; MaxUpserts   *)
(* bounds how many are looked at.                                          *)
(***************************************************************************)
EXTENDS Naturals, Sequences, SequencesExt

CONSTANTS Regions,
          Peers,        \* Regions -> the configured peers, in their order
          Users,
          Values,       \* what an entry holds: the region and the e-mail hash
          Submissions,  \* <<r, u, v>>: the API of r sets the entry of u to v
          MaxUpserts,   \* bound on the requests handled
          FaultKinds, MaxFaults,
          NoEntry, NoRequest

maxRetries == 3

\* A broadcast: the peers it still has to send to, and the attempts that
\* failed for the first of them.
Requests == [from: Regions, user: Users, val: Values,
             todo: Seq(Regions) \ {<<>>}, attempt: 0..(maxRetries - 1)]

ASSUME UserIndexAssumption ==
  /\ Peers \in [Regions -> Seq(Regions)]
  /\ \A r \in Regions : \A k \in 1..Len(Peers[r]) : Peers[r][k] # r
  /\ Submissions \subseteq Regions \X Users \X Values
  /\ MaxUpserts \in Nat /\ MaxFaults \in Nat
  /\ NoEntry \notin Values /\ NoRequest \notin Requests

VARIABLES
  index,       \* users_global_index of each region
  handled,     \* number of upserts handled so far
  goroutines,  \* the broadcast each of them started, NoRequest when it is over
  rec,         \* the reconciler of each region
  faults

\* History.
VARIABLES
  submitted,   \* the submissions that were answered
  seen,        \* <<r, u, v>>: r has held v for u
  excused      \* <<r, q>>: r crashed, skipped q as unhealthy, or q answered 4xx

vars == <<index, handled, goroutines, rec, faults, submitted, seen, excused>>

Fault(kind) ==
  /\ kind \in FaultKinds
  /\ faults < MaxFaults
  /\ faults' = faults + 1

NoEntries == [u \in Users |-> NoEntry]

Idle == [pc |-> "idle", entries |-> NoEntries, missing |-> {}]

-----------------------------------------------------------------------------
\* Upserts and their broadcasts.

Upsert(r, u, v) ==
  /\ index' = [index EXCEPT ![r][u] = v]
  /\ seen'  = seen \cup {<<r, u, v>>}

Request(r, u, v, todo) ==
  [from |-> r, user |-> u, val |-> v, todo |-> todo, attempt |-> 0]

\* HandleUpsertUser up to the answer: store the entry, start the goroutine.
Handle(r, u, v, todo, others) ==
  /\ handled < MaxUpserts
  /\ handled' = handled + 1
  /\ Upsert(r, u, v)
  /\ goroutines' = [others EXCEPT ![handled + 1] =
                      IF todo = <<>> THEN NoRequest ELSE Request(r, u, v, todo)]

\* The API's request.  HealthyPeers lists the peers in their order; here the
\* flag of one of them may have been cleared by an event broadcast.
Submit(r, u, v) ==
  /\ <<r, u, v>> \in Submissions \ submitted
  /\ submitted' = submitted \cup {<<r, u, v>>}
  /\ \/ /\ Handle(r, u, v, Peers[r], goroutines)
        /\ UNCHANGED <<faults, excused>>
     \/ \E k \in 1..Len(Peers[r]) :
          /\ Fault("unhealthy")
          /\ Handle(r, u, v, RemoveAt(Peers[r], k), goroutines)
          /\ excused' = excused \cup {<<r, Peers[r][k]>>}
  /\ UNCHANGED rec

\* The goroutine turns to the next peer, or ends.
NextPeer(g) ==
  IF Len(g.todo) = 1 THEN NoRequest
  ELSE Request(g.from, g.user, g.val, Tail(g.todo))

\* Mutant of AfterFailure: one attempt too few.
AfterFailureTooSoon(g) ==
  IF g.attempt < maxRetries - 2 THEN [g EXCEPT !.attempt = @ + 1] ELSE NextPeer(g)

\* A connection error or a 5xx answer: the last attempt gives the peer up.
AfterFailure(g) ==
  IF g.attempt < maxRetries - 1 THEN [g EXCEPT !.attempt = @ + 1] ELSE NextPeer(g)

Running == {i \in 1..MaxUpserts : goroutines[i] # NoRequest}

\* sendWithRetry, one attempt that the peer handles; the answer may be lost.
Send(i) ==
  /\ i \in Running
  /\ LET g == goroutines[i]
         q == Head(g.todo)
         delivered(after) ==
           Handle(q, g.user, g.val, Peers[q], [goroutines EXCEPT ![i] = after])
     IN  \/ delivered(NextPeer(g)) /\ UNCHANGED faults
         \/ Fault("lost") /\ delivered(AfterFailure(g))
  /\ UNCHANGED <<rec, submitted, excused>>

\* An attempt the peer does not handle: no connection, 5xx, or 4xx.
SendFails(i) ==
  /\ i \in Running
  /\ LET g == goroutines[i]
     IN  \/ /\ Fault("error")
            /\ goroutines' = [goroutines EXCEPT ![i] = AfterFailure(g)]
            /\ UNCHANGED excused
         \/ /\ Fault("reject")
            /\ goroutines' = [goroutines EXCEPT ![i] = NextPeer(g)]
            /\ excused' = excused \cup {<<g.from, Head(g.todo)>>}
  /\ UNCHANGED <<index, handled, rec, submitted, seen>>

-----------------------------------------------------------------------------
\* UserIndexReconciler.reconcile; it knows the first configured peer only.

Source(r) == Head(Peers[r])

FetchPeerEntries(r) ==
  /\ rec[r].pc = "idle" /\ Peers[r] # <<>>
  /\ rec' = [rec EXCEPT ![r].pc = "fetched", ![r].entries = index[Source(r)]]
  /\ UNCHANGED <<index, handled, goroutines, faults, submitted, seen, excused>>

\* Mutant of ReadLocal: the local entries that the peer lacks.
ReadLocalReversed(r) ==
  /\ rec[r].pc = "fetched"
  /\ rec' = [rec EXCEPT ![r].pc = "syncing", ![r].missing =
               {u \in Users : /\ rec[r].entries[u] = NoEntry
                              /\ index[r][u] # NoEntry}]
  /\ UNCHANGED <<index, handled, goroutines, faults, submitted, seen, excused>>

\* The users that the peer has and the local table lacks; an error of the
\* query ends the round.
ReadLocal(r) ==
  /\ rec[r].pc = "fetched"
  /\ \/ /\ rec' = [rec EXCEPT ![r].pc = "syncing", ![r].missing =
                     {u \in Users : /\ rec[r].entries[u] # NoEntry
                                    /\ index[r][u] = NoEntry}]
        /\ UNCHANGED faults
     \/ Fault("error") /\ rec' = [rec EXCEPT ![r] = Idle]
  /\ UNCHANGED <<index, handled, goroutines, submitted, seen, excused>>

\* One UpsertUserIndex; an error skips the entry.
SyncMissing(r, u) ==
  /\ u \in rec[r].missing
  /\ rec' = [rec EXCEPT ![r].missing = @ \ {u}]
  /\ \/ Upsert(r, u, rec[r].entries[u]) /\ UNCHANGED faults
     \/ Fault("error") /\ UNCHANGED <<index, seen>>
  /\ UNCHANGED <<handled, goroutines, submitted, excused>>

EndRound(r) ==
  /\ rec[r].pc = "syncing" /\ rec[r].missing = {}
  /\ rec' = [rec EXCEPT ![r] = Idle]
  /\ UNCHANGED <<index, handled, goroutines, faults, submitted, seen, excused>>

Reconcile(r) ==
  \/ FetchPeerEntries(r) \/ ReadLocal(r) \/ EndRound(r)
  \/ \E u \in Users : SyncMissing(r, u)

-----------------------------------------------------------------------------
\* The process of r dies and is started again; the table survives.
Crash(r) ==
  /\ Fault("crash")
  /\ goroutines' = [i \in 1..MaxUpserts |->
       IF i \in Running /\ goroutines[i].from = r
       THEN NoRequest ELSE goroutines[i]]
  /\ rec' = [rec EXCEPT ![r] = Idle]
  /\ excused' = excused \cup {<<r, q>> : q \in ToSet(Peers[r])}
  /\ UNCHANGED <<index, handled, submitted, seen>>

Init ==
  /\ index = [r \in Regions |-> NoEntries]
  /\ handled = 0
  /\ goroutines = [i \in 1..MaxUpserts |-> NoRequest]
  /\ rec = [r \in Regions |-> Idle]
  /\ faults = 0
  /\ submitted = {} /\ seen = {} /\ excused = {}

Next ==
  \/ \E s \in Submissions : Submit(s[1], s[2], s[3])
  \/ \E i \in 1..MaxUpserts : Send(i) \/ SendFails(i)
  \/ \E r \in Regions : Reconcile(r) \/ Crash(r)

Spec == Init /\ [][Next]_vars

(***************************************************************************)
(* Fairness: the reconciler's loop runs every five minutes for ever, and   *)
(* its calls return.  The broadcasts need none: what is claimed of them is *)
(* an invariant.                                                           *)
(***************************************************************************)
FairSpec == Spec /\ \A r \in Regions : WF_vars(Reconcile(r))

-----------------------------------------------------------------------------
\* Every variable has its type; a broadcast that runs has a peer left to try,
\* and the reconciler writes only entries it has fetched.
TypeOK ==
  /\ index \in [Regions -> [Users -> Values \cup {NoEntry}]]
  /\ handled \in 0..MaxUpserts
  /\ goroutines \in [1..MaxUpserts -> Requests \cup {NoRequest}]
  /\ \A i \in Running : i <= handled
  /\ rec \in [Regions -> [pc: {"idle", "fetched", "syncing"},
                          entries: [Users -> Values \cup {NoEntry}],
                          missing: SUBSET Users]]
  /\ \A r \in Regions : \A u \in rec[r].missing :
       rec[r].pc = "syncing" /\ rec[r].entries[u] \in Values
  /\ faults \in 0..MaxFaults
  /\ submitted \subseteq Submissions
  /\ seen \subseteq Regions \X Users \X Values
  /\ excused \subseteq Regions \X Regions

(***************************************************************************)
(* "Broadcast to all healthy peers with retry": an entry that the API set  *)
(* has been stored by every peer, or the goroutine is still at it, unless  *)
(* the sender crashed, held the peer for unhealthy, or the peer refused    *)
(* it.  Fewer than maxRetries failures are no excuse.                      *)
(***************************************************************************)
RetriesSurvive ==
  faults < maxRetries =>
    \A s \in submitted : \A q \in ToSet(Peers[s[1]]) :
      \/ <<q, s[2], s[3]>> \in seen
      \/ \E i \in Running :
           /\ goroutines[i].from = s[1] /\ goroutines[i].user = s[2]
           /\ goroutines[i].val = s[3]  /\ q \in ToSet(goroutines[i].todo)
      \/ <<s[1], q>> \in excused

(***************************************************************************)
(* The inductive invariant behind RetriesSurvive: every attempt a          *)
(* broadcast counts against its peer is one of the failures.               *)
(***************************************************************************)
AttemptInv == \A i \in Running : goroutines[i].attempt <= faults

Inv == TypeOK /\ AttemptInv /\ RetriesSurvive

(***************************************************************************)
(* A user known to the peer a region reconciles with becomes known in the  *)
(* region, whatever happened to the broadcasts: crashes, refusals, more    *)
(* failures than retries.                                                  *)
(***************************************************************************)
EventuallyKnown ==
  \A r \in Regions : \A u \in Users :
    Peers[r] # <<>> =>
      (index[Source(r)][u] # NoEntry ~> index[r][u] # NoEntry)

(***************************************************************************)
(* The reconciler "syncs missing entries": it never replaces an entry that *)
(* the region has.                                                         *)
(***************************************************************************)
SyncsMissingOnly ==
  [][\A r \in Regions : \A u \in rec[r].missing \ rec'[r].missing :
       index[r][u] # NoEntry => index'[r][u] = index[r][u]]_vars
=============================================================================
