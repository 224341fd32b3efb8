--------------------------- MODULE UserIndexProofs ---------------------------
(***************************************************************************)
(* Theorems about UserIndex, for any regions, peers, users, failures and   *)
(* any number of upserts.                                                  *)
(***************************************************************************)
EXTENDS UserIndex, SequenceTheorems, TLAPS

\* What the proofs need of the constants.
LEMMA Constants ==
  /\ \A r \in Regions : Peers[r] \in Seq(Regions)
  /\ Submissions \subseteq Regions \X Users \X Values
  /\ MaxUpserts \in Nat /\ MaxFaults \in Nat /\ maxRetries = 3
  /\ NoEntry \notin Values /\ NoRequest \notin Requests
BY UserIndexAssumption DEF maxRetries

\* A failure is counted up to the bound.
LEMMA FaultCounted ==
  ASSUME NEW kind, Fault(kind), faults \in 0..MaxFaults
  PROVE  faults' = faults + 1 /\ faults' \in 0..MaxFaults
BY Constants DEF Fault

\* A broadcast that turns to the next peer keeps every peer but the first.
LEMMA TailKeeps ==
  ASSUME NEW s \in Seq(Regions), s # <<>>
  PROVE  /\ Head(s) \in Regions
         /\ Len(s) # 1 => Tail(s) \in Seq(Regions) \ {<<>>}
         /\ \A q \in ToSet(s) : q = Head(s) \/ (Len(s) # 1 /\ q \in ToSet(Tail(s)))
<1>1. /\ s \in [1..Len(s) -> Regions] /\ DOMAIN s = 1..Len(s)
      /\ Len(s) \in Nat \ {0}
  BY LenProperties, EmptySeq
<1>2. /\ Head(s) \in Regions /\ Head(s) = s[1]
      /\ Tail(s) \in Seq(Regions) /\ Len(Tail(s)) = Len(s) - 1
      /\ \A k \in 1..Len(Tail(s)) : Tail(s)[k] = s[k + 1]
  BY HeadTailProperties
<1>3. DOMAIN Tail(s) = 1..(Len(s) - 1)
  BY <1>2, LenProperties
<1>4. Len(s) # 1 => Tail(s) # <<>>
  BY <1>1, <1>2
<1>5. ASSUME NEW k \in 1..Len(s), k # 1
      PROVE  Len(s) # 1 /\ s[k] \in ToSet(Tail(s))
  <2>1. k - 1 \in DOMAIN Tail(s) /\ Tail(s)[k - 1] = s[k]
    BY <1>1, <1>2, <1>3, <1>5
  <2>2. Tail(s)[k - 1] \in ToSet(Tail(s))
    BY <2>1 DEF ToSet
  <2>3. Len(s) # 1
    BY <1>1, <1>5
  <2> QED
    BY <2>1, <2>2, <2>3
<1>6. \A q \in ToSet(s) : q = Head(s) \/ (Len(s) # 1 /\ q \in ToSet(Tail(s)))
  <2> SUFFICES ASSUME NEW k \in 1..Len(s)
               PROVE  s[k] = Head(s) \/ (Len(s) # 1 /\ s[k] \in ToSet(Tail(s)))
    BY <1>1 DEF ToSet
  <2> QED
    BY <1>2, <1>5
<1> QED
  BY <1>2, <1>4, <1>6

\* A peer that is left out is the only one a list loses.
LEMMA RemoveAtKeeps ==
  ASSUME NEW s \in Seq(Regions), NEW k \in 1..Len(s)
  PROVE  /\ RemoveAt(s, k) \in Seq(Regions)
         /\ \A q \in ToSet(s) : q = s[k] \/ q \in ToSet(RemoveAt(s, k))
<1> DEFINE front == SubSeq(s, 1, k - 1)
           back  == SubSeq(s, k + 1, Len(s))
<1>1. /\ Len(s) \in Nat /\ k \in Nat /\ k >= 1 /\ k <= Len(s)
      /\ DOMAIN s = 1..Len(s) /\ s \in [1..Len(s) -> Regions]
  BY LenProperties
<1>2. /\ front \in Seq(Regions) /\ Len(front) = k - 1
      /\ \A l \in 1..(k - 1) : front[l] = s[l]
  <2>1. \A l \in 1..(k - 1) : s[l] \in Regions
    BY <1>1
  <2> QED
    BY <1>1, <2>1, SubSeqProperties
<1>3. /\ back \in Seq(Regions) /\ Len(back) = Len(s) - k
      /\ \A l \in 1..(Len(s) - k) : back[l] = s[k + l]
  <2>1. \A l \in (k + 1)..Len(s) : s[l] \in Regions
    BY <1>1
  <2>2. /\ back \in Seq(Regions)
        /\ Len(back) = IF k + 1 <= Len(s) THEN Len(s) - (k + 1) + 1 ELSE 0
        /\ \A l \in 1..(Len(s) - (k + 1) + 1) : back[l] = s[(k + 1) + l - 1]
    BY <1>1, <2>1, SubSeqProperties
  <2> HIDE DEF back
  <2>3. Len(s) - (k + 1) + 1 = Len(s) - k
    BY <1>1
  <2>4. ASSUME NEW l \in 1..(Len(s) - k) PROVE back[l] = s[k + l]
    <3>1. l \in 1..(Len(s) - (k + 1) + 1) /\ (k + 1) + l - 1 = k + l
      BY <1>1
    <3> QED
      BY <2>2, <3>1
  <2>5. Len(back) = Len(s) - k
    <3>1. \A m \in Nat : \A l \in 1..m :
            (IF l + 1 <= m THEN m - (l + 1) + 1 ELSE 0) = m - l
      OBVIOUS
    <3>2. Len(s) \in Nat /\ k \in 1..Len(s)
      BY <1>1
    <3>3. (IF k + 1 <= Len(s) THEN Len(s) - (k + 1) + 1 ELSE 0) = Len(s) - k
      BY <3>1, <3>2, Zenon
    <3> QED
      BY <2>2, <3>3
  <2> QED
    BY <2>2, <2>4, <2>5
<1> HIDE DEF front, back
<1>4. /\ front \o back \in Seq(Regions)
      /\ DOMAIN (front \o back) = 1..(Len(s) - 1)
      /\ \A l \in 1..(k - 1) : (front \o back)[l] = s[l]
      /\ \A l \in k..(Len(s) - 1) : (front \o back)[l] = s[l + 1]
  <2> DEFINE both == front \o back
  <2>1. /\ both \in Seq(Regions) /\ Len(both) = Len(front) + Len(back)
        /\ \A l \in 1..(Len(front) + Len(back)) :
             both[l] = IF l <= Len(front) THEN front[l] ELSE back[l - Len(front)]
    BY <1>2, <1>3, ConcatProperties
  <2>2. DOMAIN both = 1..Len(both)
    BY <2>1, LenProperties
  <2> HIDE DEF both
  <2>3. Len(front) + Len(back) = Len(s) - 1 /\ Len(both) = Len(s) - 1
    BY <1>1, <1>2, <1>3, <2>1
  <2>4. \A l \in 1..(Len(s) - 1) :
          both[l] = IF l <= k - 1 THEN front[l] ELSE back[l - (k - 1)]
    BY <1>2, <2>1, <2>3
  <2>5. ASSUME NEW l \in 1..(k - 1) PROVE both[l] = s[l]
    <3>1. l \in 1..(Len(s) - 1) /\ l <= k - 1
      BY <1>1
    <3> QED
      BY <1>2, <2>4, <3>1
  <2>6. ASSUME NEW l \in k..(Len(s) - 1) PROVE both[l] = s[l + 1]
    <3>1. /\ l \in 1..(Len(s) - 1) /\ ~(l <= k - 1)
          /\ l - (k - 1) \in 1..(Len(s) - k) /\ k + (l - (k - 1)) = l + 1
      BY <1>1
    <3>2. both[l] = back[l - (k - 1)]
      BY <2>4, <3>1
    <3> QED
      BY <1>3, <3>1, <3>2
  <2> QED
    BY <2>1, <2>2, <2>3, <2>5, <2>6 DEF both
<1>5. ASSUME NEW l \in 1..Len(s), l # k
      PROVE  s[l] \in ToSet(front \o back)
  <2>1. CASE l < k
    <3>1. l \in 1..(k - 1) /\ l \in 1..(Len(s) - 1)
      BY <1>1, <2>1
    <3>2. l \in DOMAIN (front \o back) /\ (front \o back)[l] = s[l]
      BY <1>4, <3>1
    <3>3. (front \o back)[l] \in ToSet(front \o back)
      BY <3>2 DEF ToSet
    <3> QED
      BY <3>2, <3>3
  <2>2. CASE l > k
    <3>1. /\ l - 1 \in k..(Len(s) - 1) /\ l - 1 \in 1..(Len(s) - 1)
          /\ (l - 1) + 1 = l
      BY <1>1, <2>2
    <3>2. l - 1 \in DOMAIN (front \o back) /\ (front \o back)[l - 1] = s[l]
      BY <1>4, <3>1
    <3>3. (front \o back)[l - 1] \in ToSet(front \o back)
      BY <3>2 DEF ToSet
    <3> QED
      BY <3>1, <3>2, <3>3
  <2> QED
    BY <1>1, <1>5, <2>1, <2>2
<1>6. RemoveAt(s, k) = front \o back
  BY DEF RemoveAt, front, back
<1>7. \A q \in ToSet(s) : q = s[k] \/ q \in ToSet(front \o back)
  <2> SUFFICES ASSUME NEW l \in 1..Len(s)
               PROVE  s[l] = s[k] \/ s[l] \in ToSet(front \o back)
    BY <1>1 DEF ToSet
  <2> QED
    BY <1>5
<1> QED
  BY <1>4, <1>6, <1>7

\* What is kept in the variables, of the types and the count of attempts.
TypeInv == TypeOK /\ AttemptInv

\* A running broadcast is a request.
LEMMA RunningType ==
  ASSUME TypeOK, NEW i \in Running
  PROVE  /\ i \in 1..MaxUpserts /\ i <= handled
         /\ goroutines[i] \in Requests /\ goroutines[i] # NoRequest
BY DEF TypeOK, Running

\* What becomes of a broadcast after an attempt: a request, or none.
LEMMA AfterType ==
  ASSUME NEW g \in Requests, NEW c \in Nat, g.attempt <= c
  PROVE  /\ NextPeer(g) \in Requests \cup {NoRequest}
         /\ AfterFailure(g) \in Requests \cup {NoRequest}
         /\ NextPeer(g) # NoRequest => NextPeer(g).attempt = 0
         /\ AfterFailure(g) # NoRequest => AfterFailure(g).attempt <= c + 1
<1>1. g.todo \in Seq(Regions) /\ g.todo # <<>> /\ g.attempt \in 0..2 /\ maxRetries = 3
  BY Constants DEF Requests
<1>2. \/ NextPeer(g) \in Requests /\ NextPeer(g).attempt = 0
      \/ NextPeer(g) = NoRequest
  <2>1. CASE Len(g.todo) = 1
    BY <2>1 DEF NextPeer
  <2>2. CASE Len(g.todo) # 1
    <3>1. Tail(g.todo) \in Seq(Regions) \ {<<>>}
      BY <1>1, <2>2, TailKeeps
    <3>2. NextPeer(g) = Request(g.from, g.user, g.val, Tail(g.todo))
      BY <2>2 DEF NextPeer
    <3> QED
      BY <1>1, <3>1, <3>2 DEF Requests, Request
  <2> QED
    BY <2>1, <2>2
<1>3. CASE g.attempt < maxRetries - 1
  <2>1. AfterFailure(g) = [g EXCEPT !.attempt = g.attempt + 1]
    BY <1>3 DEF AfterFailure
  <2> QED
    BY <1>1, <1>2, <1>3, <2>1 DEF Requests
<1>4. CASE ~(g.attempt < maxRetries - 1)
  <2>1. AfterFailure(g) = NextPeer(g)
    BY <1>4 DEF AfterFailure
  <2> QED
    BY <1>2, <2>1
<1> QED
  BY <1>3, <1>4

\* A broadcast keeps its entry and every peer but the first; the first goes
\* only with the last attempt, or with an answer.
LEMMA NextKeeps ==
  ASSUME NEW g \in Requests, NEW q \in ToSet(g.todo), q # Head(g.todo)
  PROVE  /\ NextPeer(g) # NoRequest /\ NextPeer(g).from = g.from
         /\ NextPeer(g).user = g.user /\ NextPeer(g).val = g.val
         /\ q \in ToSet(NextPeer(g).todo)
<1>1. /\ g.todo \in Seq(Regions) /\ g.todo # <<>>
      /\ g.from \in Regions /\ g.user \in Users /\ g.val \in Values
  BY DEF Requests
<1>2. Len(g.todo) # 1 /\ q \in ToSet(Tail(g.todo)) /\ Tail(g.todo) \in Seq(Regions) \ {<<>>}
  BY <1>1, TailKeeps
<1>3. NextPeer(g) = Request(g.from, g.user, g.val, Tail(g.todo))
  BY <1>2 DEF NextPeer
<1>4. NextPeer(g) \in Requests
  <2>1. 0 \in 0..(maxRetries - 1)
    BY Constants
  <2> QED
    BY <1>1, <1>2, <1>3, <2>1 DEF Requests, Request
<1>5. /\ Request(g.from, g.user, g.val, Tail(g.todo)).from = g.from
      /\ Request(g.from, g.user, g.val, Tail(g.todo)).user = g.user
      /\ Request(g.from, g.user, g.val, Tail(g.todo)).val = g.val
      /\ Request(g.from, g.user, g.val, Tail(g.todo)).todo = Tail(g.todo)
  BY DEF Request
<1>6. NextPeer(g) # NoRequest
  BY <1>4, Constants
<1> QED
  BY <1>2, <1>3, <1>5, <1>6

\* A failed attempt is repeated, or it was the last.
LEMMA FailureKeeps ==
  ASSUME NEW g \in Requests, NEW q \in ToSet(g.todo)
  PROVE  \/ g.attempt >= maxRetries - 1
         \/ /\ AfterFailure(g) # NoRequest /\ AfterFailure(g).from = g.from
            /\ AfterFailure(g).user = g.user /\ AfterFailure(g).val = g.val
            /\ q \in ToSet(AfterFailure(g).todo)
<1>1. g.attempt \in 0..2 /\ maxRetries = 3
  BY Constants DEF Requests
<1>2. CASE g.attempt < maxRetries - 1
  <2>1. AfterFailure(g) = [g EXCEPT !.attempt = g.attempt + 1]
    BY <1>2 DEF AfterFailure
  <2>2. AfterFailure(g) \in Requests
    BY <1>1, <1>2, <2>1 DEF Requests
  <2> QED
    BY <2>1, <2>2, Constants DEF Requests
<1> QED
  BY <1>1, <1>2

Goroutines == [1..MaxUpserts -> Requests \cup {NoRequest}]

\* HandleUpsertUser starts one goroutine and leaves the others as they are.
LEMMA HandleStarts ==
  ASSUME TypeOK, NEW r \in Regions, NEW u \in Users, NEW v \in Values,
         NEW todo \in Seq(Regions), NEW others \in Goroutines,
         Handle(r, u, v, todo, others)
  PROVE  /\ handled + 1 \in 1..MaxUpserts /\ handled' = handled + 1
         /\ goroutines' \in Goroutines
         /\ \A i \in 1..MaxUpserts \ {handled + 1} : goroutines'[i] = others[i]
         /\ goroutines'[handled + 1] =
              IF todo = <<>> THEN NoRequest ELSE Request(r, u, v, todo)
<1>1. /\ handled + 1 \in 1..MaxUpserts /\ handled' = handled + 1
      /\ goroutines' = [others EXCEPT ![handled + 1] =
                          IF todo = <<>> THEN NoRequest ELSE Request(r, u, v, todo)]
  BY Constants DEF Handle, TypeOK
<1>2. ASSUME todo # <<>> PROVE Request(r, u, v, todo) \in Requests
  <2>1. 0 \in 0..(maxRetries - 1)
    BY Constants
  <2> QED
    BY <1>2, <2>1 DEF Request, Requests
<1> QED
  BY <1>1, <1>2 DEF Goroutines

\* HandleUpsertUser stores an entry.
LEMMA UpsertType ==
  ASSUME TypeOK, NEW r \in Regions, NEW u \in Users, NEW v \in Values \cup {NoEntry},
         Upsert(r, u, v), v # NoEntry
  PROVE  /\ index' \in [Regions -> [Users -> Values \cup {NoEntry}]]
         /\ seen' \subseteq Regions \X Users \X Values
         /\ <<r, u, v>> \in seen' /\ seen \subseteq seen'
BY DEF Upsert, TypeOK

\* A broadcast's next peer is a configured one, and its entry is one.
LEMMA SendType ==
  ASSUME TypeOK, NEW i \in Running
  PROVE  /\ Head(goroutines[i].todo) \in Regions
         /\ goroutines[i].todo \in Seq(Regions) /\ goroutines[i].todo # <<>>
         /\ goroutines[i].from \in Regions /\ goroutines[i].user \in Users
         /\ goroutines[i].val \in Values
         /\ goroutines[i].attempt \in 0..2
<1>1. goroutines[i] \in Requests
  BY RunningType
<1>2. goroutines[i].todo \in Seq(Regions) /\ goroutines[i].todo # <<>>
  BY <1>1 DEF Requests
<1>3. goroutines[i].attempt \in 0..2
  BY <1>1, Constants DEF Requests
<1> QED
  BY <1>1, <1>2, <1>3, TailKeeps DEF Requests

\* The types of the broadcasts, and of what they are counted with.
BroadcastInv ==
  /\ handled \in 0..MaxUpserts
  /\ goroutines \in Goroutines
  /\ \A i \in Running : i <= handled
  /\ faults \in 0..MaxFaults
  /\ AttemptInv

\* A call that is handled keeps the types of the broadcasts, for any h the
\* sending goroutine i turns into.
LEMMA HandleBroadcast ==
  ASSUME TypeOK, AttemptInv, NEW r \in Regions, NEW u \in Users, NEW v \in Values,
         NEW todo \in Seq(Regions), NEW others \in Goroutines,
         Handle(r, u, v, todo, others),
         faults' \in 0..MaxFaults, faults' >= faults,
         \A i \in 1..MaxUpserts : others[i] # NoRequest =>
           i <= handled /\ others[i].attempt <= faults'
  PROVE  BroadcastInv'
<1>1. /\ handled + 1 \in 1..MaxUpserts /\ handled' = handled + 1
      /\ goroutines' \in Goroutines
      /\ \A i \in 1..MaxUpserts \ {handled + 1} : goroutines'[i] = others[i]
      /\ goroutines'[handled + 1] =
           IF todo = <<>> THEN NoRequest ELSE Request(r, u, v, todo)
  BY HandleStarts
<1>2. Request(r, u, v, todo).attempt = 0
  BY DEF Request
<1>3. ASSUME NEW i \in Running' PROVE i <= handled' /\ goroutines'[i].attempt <= faults'
  <2>1. i \in 1..MaxUpserts /\ goroutines'[i] # NoRequest
    BY DEF Running
  <2>2. CASE i = handled + 1
    BY <1>1, <1>2, <2>1, <2>2
  <2>3. CASE i # handled + 1
    <3>1. goroutines'[i] = others[i] /\ i <= handled
      BY <1>1, <2>1, <2>3
    <3>2. handled \in Nat /\ i \in Nat
      BY <2>1, Constants DEF TypeOK
    <3>3. i <= handled'
      BY <1>1, <3>1, <3>2
    <3>4. others[i] # NoRequest
      BY <2>1, <3>1
    <3> QED
      BY <2>1, <3>1, <3>3, <3>4
  <2> QED
    BY <2>2, <2>3
<1>4. handled' \in 0..MaxUpserts
  BY <1>1
<1> QED
  BY <1>1, <1>3, <1>4 DEF BroadcastInv, AttemptInv

\* An attempt keeps the types of the broadcasts: h is what becomes of the one
\* that sends.
LEMMA AttemptBroadcast ==
  ASSUME TypeOK, AttemptInv, NEW i \in Running,
         NEW h \in {NextPeer(goroutines[i]), AfterFailure(goroutines[i])},
         faults' \in 0..MaxFaults, faults' >= faults,
         h = NextPeer(goroutines[i]) \/ faults' = faults + 1
  PROVE  /\ [goroutines EXCEPT ![i] = h] \in Goroutines
         /\ \A k \in 1..MaxUpserts :
              LET others == [goroutines EXCEPT ![i] = h]
              IN  others[k] # NoRequest =>
                    k <= handled /\ others[k].attempt <= faults'
<1>1. /\ i \in 1..MaxUpserts /\ i <= handled /\ goroutines[i] \in Requests
      /\ goroutines \in Goroutines /\ faults \in Nat /\ goroutines[i].attempt <= faults
  BY RunningType, Constants DEF TypeOK, Goroutines, AttemptInv
<1>2. /\ NextPeer(goroutines[i]) \in Requests \cup {NoRequest}
      /\ AfterFailure(goroutines[i]) \in Requests \cup {NoRequest}
      /\ NextPeer(goroutines[i]) # NoRequest => NextPeer(goroutines[i]).attempt = 0
      /\ AfterFailure(goroutines[i]) # NoRequest =>
           AfterFailure(goroutines[i]).attempt <= faults + 1
  BY <1>1, AfterType
<1>3. h \in Requests \cup {NoRequest} /\ (h # NoRequest => h.attempt <= faults')
  BY <1>1, <1>2
<1>4. ASSUME NEW k \in 1..MaxUpserts, k # i, goroutines[k] # NoRequest
      PROVE  k <= handled /\ goroutines[k].attempt <= faults'
  <2>1. k \in Running
    BY <1>4 DEF Running
  <2>2. goroutines[k].attempt \in 0..2
    BY <2>1, SendType
  <2> QED
    BY <1>1, <2>1, <2>2 DEF TypeOK, AttemptInv
<1> QED
  BY <1>1, <1>3, <1>4 DEF Goroutines

\* The types of what the broadcasts do not touch.
RestInv ==
  /\ index \in [Regions -> [Users -> Values \cup {NoEntry}]]
  /\ rec \in [Regions -> [pc: {"idle", "fetched", "syncing"},
                          entries: [Users -> Values \cup {NoEntry}],
                          missing: SUBSET Users]]
  /\ \A r \in Regions : \A u \in rec[r].missing :
       rec[r].pc = "syncing" /\ rec[r].entries[u] \in Values
  /\ submitted \subseteq Submissions
  /\ seen \subseteq Regions \X Users \X Values
  /\ excused \subseteq Regions \X Regions

\* Together they are the types.
LEMMA Parts == BroadcastInv /\ RestInv <=> TypeOK /\ AttemptInv
BY DEF BroadcastInv, RestInv, TypeOK, Goroutines

\* Nothing is registered, and no broadcast runs.
LEMMA InitInv == Init => Inv
<1> SUFFICES ASSUME Init PROVE Inv
  OBVIOUS
<1>1. Running = {}
  BY DEF Init, Running
<1>2. goroutines \in Goroutines
  BY DEF Init, Goroutines
<1>3. NoEntries \in [Users -> Values \cup {NoEntry}]
  BY DEF NoEntries
<1>4. TypeOK
  BY <1>1, <1>2, <1>3, Constants DEF Init, TypeOK, Idle, Goroutines
<1> QED
  BY <1>1, <1>4 DEF Inv, Init, AttemptInv, RetriesSurvive

\* Requests, broadcasts and the reconciler keep the types.
LEMMA NextType == Inv /\ [Next]_vars => TypeOK' /\ AttemptInv'
<1> SUFFICES ASSUME TypeOK, AttemptInv, [Next]_vars
             PROVE  BroadcastInv' /\ RestInv'
  BY Parts DEF Inv, BroadcastInv, RestInv, TypeOK, AttemptInv, Goroutines, Running
<1>0. /\ BroadcastInv /\ RestInv
      /\ goroutines \in Goroutines
      /\ faults \in 0..MaxFaults /\ faults \in Nat
  BY Parts, Constants DEF BroadcastInv
<1>a. \A i \in 1..MaxUpserts : goroutines[i] # NoRequest =>
        i <= handled /\ goroutines[i].attempt <= faults
  BY DEF TypeOK, AttemptInv, Running
<1>1. ASSUME NEW s \in Submissions, Submit(s[1], s[2], s[3])
      PROVE  BroadcastInv' /\ RestInv'
  <2>1. s[1] \in Regions /\ s[2] \in Users /\ s[3] \in Values
    BY Constants
  <2>2. Peers[s[1]] \in Seq(Regions)
    BY <2>1, Constants
  <2>3. PICK todo \in Seq(Regions) :
          /\ Handle(s[1], s[2], s[3], todo, goroutines)
          /\ \/ UNCHANGED <<faults, excused>>
             \/ Fault("unhealthy") /\ excused' \subseteq excused \cup (Regions \X Regions)
    <3>1. CASE /\ Handle(s[1], s[2], s[3], Peers[s[1]], goroutines)
               /\ UNCHANGED <<faults, excused>>
      BY <2>2, <3>1
    <3>2. ASSUME NEW k \in 1..Len(Peers[s[1]]), Fault("unhealthy"),
                 Handle(s[1], s[2], s[3], RemoveAt(Peers[s[1]], k), goroutines),
                 excused' = excused \cup {<<s[1], Peers[s[1]][k]>>}
          PROVE  \E todo \in Seq(Regions) :
                   /\ Handle(s[1], s[2], s[3], todo, goroutines)
                   /\ Fault("unhealthy")
                   /\ excused' \subseteq excused \cup (Regions \X Regions)
      <4>1. RemoveAt(Peers[s[1]], k) \in Seq(Regions)
        BY <2>2, RemoveAtKeeps
      <4>2. Peers[s[1]][k] \in Regions
        BY <2>2
      <4> QED
        BY <2>1, <3>2, <4>1, <4>2
    <3> QED
      BY <1>1, <3>1, <3>2 DEF Submit
  <2>4. faults' \in 0..MaxFaults /\ faults' >= faults
    BY <1>0, <2>3, FaultCounted
  <2>5. \A i \in 1..MaxUpserts : goroutines[i] # NoRequest =>
          i <= handled /\ goroutines[i].attempt <= faults'
    <3> SUFFICES ASSUME NEW i \in 1..MaxUpserts, goroutines[i] # NoRequest
                 PROVE  i <= handled /\ goroutines[i].attempt <= faults'
      OBVIOUS
    <3>1. i \in Running
      BY DEF Running
    <3>2. goroutines[i].attempt \in 0..2
      BY <3>1, SendType
    <3> QED
      BY <1>0, <1>a, <2>4, <3>2
  <2>6. BroadcastInv'
    BY <1>0, <2>1, <2>3, <2>4, <2>5, HandleBroadcast
  <2>7. Upsert(s[1], s[2], s[3]) /\ s[3] # NoEntry
    BY <2>1, <2>3, Constants DEF Handle
  <2>8. /\ index' \in [Regions -> [Users -> Values \cup {NoEntry}]]
        /\ seen' \subseteq Regions \X Users \X Values
    BY <2>1, <2>7, UpsertType
  <2>9. submitted' \subseteq Submissions /\ rec' = rec
    BY <1>0, <1>1 DEF Submit, RestInv
  <2>10. excused' \subseteq Regions \X Regions
    BY <1>0, <2>3 DEF RestInv
  <2> QED
    BY <1>0, <2>6, <2>8, <2>9, <2>10 DEF RestInv
<1>2. ASSUME NEW i \in 1..MaxUpserts, Send(i)
      PROVE  BroadcastInv' /\ RestInv'
  <2> DEFINE g == goroutines[i]
             q == Head(g.todo)
  <2>1. i \in Running
    BY <1>2 DEF Send
  <2>2. /\ q \in Regions /\ g.user \in Users /\ g.val \in Values
        /\ Peers[q] \in Seq(Regions)
    BY <2>1, SendType, Constants
  <2>3. PICK h \in {NextPeer(g), AfterFailure(g)} :
          /\ Handle(q, g.user, g.val, Peers[q], [goroutines EXCEPT ![i] = h])
          /\ (h = NextPeer(g) /\ UNCHANGED faults) \/ Fault("lost")
    BY <1>2 DEF Send
  <2>4. /\ faults' \in 0..MaxFaults /\ faults' >= faults
        /\ h = NextPeer(g) \/ faults' = faults + 1
    BY <1>0, <2>3, FaultCounted
  <2>5. /\ [goroutines EXCEPT ![i] = h] \in Goroutines
        /\ \A k \in 1..MaxUpserts :
             LET others == [goroutines EXCEPT ![i] = h]
             IN  others[k] # NoRequest =>
                   k <= handled /\ others[k].attempt <= faults'
    BY <2>1, <2>4, AttemptBroadcast
  <2>6. BroadcastInv'
    BY <2>2, <2>3, <2>4, <2>5, HandleBroadcast
  <2>7. Upsert(q, g.user, g.val) /\ g.val # NoEntry
    BY <2>2, <2>3, Constants DEF Handle
  <2>8. /\ index' \in [Regions -> [Users -> Values \cup {NoEntry}]]
        /\ seen' \subseteq Regions \X Users \X Values
    BY <2>2, <2>7, UpsertType
  <2> QED
    BY <1>0, <1>2, <2>6, <2>8 DEF Send, RestInv
<1>3. ASSUME NEW i \in 1..MaxUpserts, SendFails(i)
      PROVE  BroadcastInv' /\ RestInv'
  <2> DEFINE g == goroutines[i]
  <2>1. i \in Running /\ goroutines[i].from \in Regions
        /\ Head(goroutines[i].todo) \in Regions
    BY <1>3, SendType DEF SendFails
  <2>2. PICK h \in {NextPeer(g), AfterFailure(g)} :
          /\ goroutines' = [goroutines EXCEPT ![i] = h]
          /\ (h = NextPeer(g) /\ UNCHANGED faults) \/ \E kind : Fault(kind)
    BY <1>3 DEF SendFails
  <2>3. /\ faults' \in 0..MaxFaults /\ faults' >= faults
        /\ h = NextPeer(g) \/ faults' = faults + 1
    BY <1>0, <2>2, FaultCounted
  <2>4. /\ goroutines' \in Goroutines
        /\ \A k \in 1..MaxUpserts : goroutines'[k] # NoRequest =>
             k <= handled /\ goroutines'[k].attempt <= faults'
    BY <2>1, <2>2, <2>3, AttemptBroadcast
  <2>5. UNCHANGED <<index, handled, rec, submitted, seen>>
    BY <1>3 DEF SendFails
  <2>6. BroadcastInv'
    BY <1>0, <2>3, <2>4, <2>5 DEF BroadcastInv, AttemptInv, Running
  <2>7. excused' \subseteq Regions \X Regions
    BY <1>0, <1>3, <2>1 DEF SendFails, RestInv
  <2> QED
    BY <1>0, <2>5, <2>6, <2>7 DEF RestInv
<1>4. ASSUME NEW r \in Regions, Reconcile(r)
      PROVE  BroadcastInv' /\ RestInv'
  <2>1. UNCHANGED <<handled, goroutines, submitted, excused>>
    BY <1>4 DEF Reconcile, FetchPeerEntries, ReadLocal, EndRound, SyncMissing
  <2>2. faults' \in 0..MaxFaults /\ faults' >= faults
    <3>1. UNCHANGED faults \/ Fault("error")
      BY <1>4 DEF Reconcile, FetchPeerEntries, ReadLocal, EndRound, SyncMissing
    <3> QED
      BY <1>0, <3>1, FaultCounted
  <2>3. BroadcastInv'
    <3>1. \A i \in Running : goroutines[i].attempt <= faults'
      <4> SUFFICES ASSUME NEW i \in Running PROVE goroutines[i].attempt <= faults'
        OBVIOUS
      <4>1. goroutines[i].attempt \in 0..2 /\ goroutines[i].attempt <= faults
        BY SendType DEF AttemptInv
      <4> QED
        BY <1>0, <2>2, <4>1
    <3> QED
      BY <1>0, <2>1, <2>2, <3>1 DEF BroadcastInv, AttemptInv, Running
  <2>4. NoEntries \in [Users -> Values \cup {NoEntry}] /\ Idle.missing = {}
        /\ Idle \in [pc: {"idle", "fetched", "syncing"},
                     entries: [Users -> Values \cup {NoEntry}],
                     missing: SUBSET Users]
    BY DEF NoEntries, Idle
  <2>5. CASE FetchPeerEntries(r)
    <3>1. Source(r) \in Regions
      BY <2>5, Constants, TailKeeps DEF FetchPeerEntries, Source
    <3>2. rec[r].missing = {}
      BY <1>0, <2>5 DEF FetchPeerEntries, RestInv
    <3> QED
      BY <1>0, <2>1, <2>3, <2>5, <3>1, <3>2 DEF FetchPeerEntries, RestInv
  <2>6. CASE ReadLocal(r)
    <3> DEFINE found == {u \in Users : /\ rec[r].entries[u] # NoEntry
                                      /\ index[r][u] = NoEntry}
    <3>1. UNCHANGED <<index, seen>>
      BY <2>6 DEF ReadLocal
    <3>2. CASE rec' = [rec EXCEPT ![r] = Idle]
      BY <1>0, <2>1, <2>3, <2>4, <3>1, <3>2 DEF RestInv
    <3>3. CASE rec' = [rec EXCEPT ![r].pc = "syncing", ![r].missing = found]
      <4>1. /\ \A o \in Regions \ {r} : rec'[o] = rec[o]
            /\ rec'[r].pc = "syncing" /\ rec'[r].missing = found
            /\ rec'[r].entries = rec[r].entries
        BY <1>0, <3>3 DEF RestInv
      <4>2. found \subseteq Users /\ \A u \in found : rec[r].entries[u] \in Values
        BY <1>0 DEF RestInv
      <4>3. rec' \in [Regions -> [pc: {"idle", "fetched", "syncing"},
                                 entries: [Users -> Values \cup {NoEntry}],
                                 missing: SUBSET Users]]
        BY <1>0, <3>3, <4>2 DEF RestInv
      <4> HIDE DEF found
      <4>4. \A o \in Regions : \A u \in rec'[o].missing :
              rec'[o].pc = "syncing" /\ rec'[o].entries[u] \in Values
        BY <1>0, <4>1, <4>2 DEF RestInv
      <4> QED
        BY <1>0, <2>1, <2>3, <3>1, <4>3, <4>4 DEF RestInv
    <3> QED
      BY <2>6, <3>2, <3>3 DEF ReadLocal
  <2>7. CASE EndRound(r)
    BY <1>0, <2>1, <2>3, <2>4, <2>7 DEF EndRound, RestInv
  <2>8. ASSUME NEW u \in Users, SyncMissing(r, u)
        PROVE  BroadcastInv' /\ RestInv'
    <3>1. /\ rec[r].entries[u] \in Values
          /\ rec' = [rec EXCEPT ![r].missing = @ \ {u}]
          /\ Upsert(r, u, rec[r].entries[u]) \/ UNCHANGED <<index, seen>>
      BY <1>0, <2>8 DEF SyncMissing, RestInv
    <3>2. /\ index' \in [Regions -> [Users -> Values \cup {NoEntry}]]
          /\ seen' \subseteq Regions \X Users \X Values
      BY <1>0, <3>1, UpsertType, Constants DEF RestInv
    <3> QED
      BY <1>0, <2>1, <2>3, <3>1, <3>2 DEF RestInv
  <2> QED
    BY <1>4, <2>5, <2>6, <2>7, <2>8 DEF Reconcile
<1>5. ASSUME NEW r \in Regions, Crash(r)
      PROVE  BroadcastInv' /\ RestInv'
  <2>1. /\ goroutines' = [i \in 1..MaxUpserts |->
             IF i \in Running /\ goroutines[i].from = r
             THEN NoRequest ELSE goroutines[i]]
        /\ UNCHANGED <<index, handled, submitted, seen>>
        /\ rec' = [rec EXCEPT ![r] = Idle]
    BY <1>5 DEF Crash
  <2>2. faults' = faults + 1 /\ faults' \in 0..MaxFaults
    BY <1>0, <1>5, FaultCounted DEF Crash
  <2>3. ASSUME NEW i \in Running'
        PROVE  i \in Running /\ goroutines'[i].attempt <= faults'
    <3>1. i \in 1..MaxUpserts /\ goroutines'[i] # NoRequest
      BY DEF Running
    <3>2. goroutines'[i] = goroutines[i] /\ i \in Running
      BY <2>1, <3>1 DEF Running
    <3>3. goroutines[i].attempt \in 0..2 /\ goroutines[i].attempt <= faults
      BY <3>2, SendType DEF AttemptInv
    <3> QED
      BY <1>0, <2>2, <3>2, <3>3
  <2>4. BroadcastInv'
    BY <1>0, <2>1, <2>2, <2>3 DEF BroadcastInv, AttemptInv, Goroutines
  <2>5. {<<r, q>> : q \in ToSet(Peers[r])} \subseteq Regions \X Regions
    <3>1. Peers[r] \in [1..Len(Peers[r]) -> Regions] /\ DOMAIN Peers[r] = 1..Len(Peers[r])
      BY Constants, LenProperties
    <3> QED
      BY <3>1 DEF ToSet
  <2>6. NoEntries \in [Users -> Values \cup {NoEntry}]
    BY DEF NoEntries
  <2> QED
    BY <1>0, <1>5, <2>1, <2>4, <2>5, <2>6 DEF Crash, RestInv, Idle
<1>6. CASE UNCHANGED vars
  BY <1>0, <1>6 DEF vars, BroadcastInv, RestInv, AttemptInv, Running
<1> QED
  BY <1>1, <1>2, <1>3, <1>4, <1>5, <1>6 DEF Next

\* A broadcast that still has q on its list of the entry of s.
Carries(g, s, q) ==
  /\ g.from = s[1] /\ g.user = s[2] /\ g.val = s[3] /\ q \in ToSet(g.todo)

\* What RetriesSurvive says of one submission and one peer.
Safe(s, q) ==
  \/ <<q, s[2], s[3]>> \in seen
  \/ \E i \in Running : Carries(goroutines[i], s, q)
  \/ <<s[1], q>> \in excused

\* RetriesSurvive is about every submission and every peer of its region.
LEMMA SafeIsRetriesSurvive ==
  RetriesSurvive <=>
    (faults < maxRetries =>
       \A s \in submitted : \A q \in ToSet(Peers[s[1]]) : Safe(s, q))
BY DEF RetriesSurvive, Safe, Carries

(***************************************************************************)
(* An entry leaves the list of a broadcast only when its peer has it or is *)
(* excused, or with the third of the failures.                             *)
(***************************************************************************)
LEMMA NextSafe == Inv /\ [Next]_vars => RetriesSurvive'
<1> SUFFICES ASSUME TypeOK, AttemptInv, RetriesSurvive, [Next]_vars,
                    (faults < maxRetries)',
                    NEW s \in submitted', NEW q \in ToSet(Peers[s[1]])
             PROVE  Safe(s, q)'
  BY SafeIsRetriesSurvive DEF Inv, RetriesSurvive, Safe, Carries
<1>0. /\ faults \in Nat /\ goroutines \in Goroutines /\ maxRetries = 3
      /\ handled \in Nat
  BY Constants DEF TypeOK, Goroutines
<1>1. faults <= faults' /\ faults' < 3 /\ faults < 3
  <2>1. faults' = faults \/ \E kind : Fault(kind)
    BY DEF Next, Submit, Send, SendFails, Reconcile, FetchPeerEntries, ReadLocal,
           SyncMissing, EndRound, Crash, vars
  <2>2. faults' = faults \/ faults' = faults + 1
    BY <2>1 DEF Fault
  <2> QED
    BY <1>0, <2>2
<1>2. s \in submitted => Safe(s, q)
  BY <1>0, <1>1, SafeIsRetriesSurvive
<1>3. seen \subseteq seen' /\ excused \subseteq excused'
  BY DEF Next, Submit, Handle, Send, SendFails, Reconcile, FetchPeerEntries,
         ReadLocal, SyncMissing, EndRound, Upsert, Crash, vars
<1>4. ASSUME s \in submitted, UNCHANGED goroutines PROVE Safe(s, q)'
  BY <1>2, <1>3, <1>4 DEF Safe, Running
<1>5. ASSUME NEW t \in Submissions, Submit(t[1], t[2], t[3])
      PROVE  Safe(s, q)'
  <2>1. t[1] \in Regions /\ t[2] \in Users /\ t[3] \in Values /\ t = <<t[1], t[2], t[3]>>
    BY Constants
  <2>2. Peers[t[1]] \in Seq(Regions) /\ submitted' = submitted \cup {t}
    BY <1>5, <2>1, Constants DEF Submit
  <2>3. PICK todo \in Seq(Regions) :
          /\ Handle(t[1], t[2], t[3], todo, goroutines)
          /\ \A p \in ToSet(Peers[t[1]]) : p \in ToSet(todo) \/ <<t[1], p>> \in excused'
    <3>1. CASE Handle(t[1], t[2], t[3], Peers[t[1]], goroutines)
      BY <2>2, <3>1
    <3>2. ASSUME NEW k \in 1..Len(Peers[t[1]]),
                 Handle(t[1], t[2], t[3], RemoveAt(Peers[t[1]], k), goroutines),
                 excused' = excused \cup {<<t[1], Peers[t[1]][k]>>}
          PROVE  \E todo \in Seq(Regions) :
                   /\ Handle(t[1], t[2], t[3], todo, goroutines)
                   /\ \A p \in ToSet(Peers[t[1]]) :
                        p \in ToSet(todo) \/ <<t[1], p>> \in excused'
      <4>1. /\ RemoveAt(Peers[t[1]], k) \in Seq(Regions)
            /\ \A p \in ToSet(Peers[t[1]]) :
                 p = Peers[t[1]][k] \/ p \in ToSet(RemoveAt(Peers[t[1]], k))
        BY <2>2, RemoveAtKeeps
      <4> QED
        BY <3>2, <4>1
    <3> QED
      BY <1>5, <3>1, <3>2 DEF Submit
  <2>4. /\ handled + 1 \in 1..MaxUpserts
        /\ \A i \in 1..MaxUpserts \ {handled + 1} : goroutines'[i] = goroutines[i]
        /\ goroutines'[handled + 1] =
             IF todo = <<>> THEN NoRequest ELSE Request(t[1], t[2], t[3], todo)
        /\ goroutines' \in Goroutines
    BY <1>0, <2>1, <2>3, HandleStarts
  <2>5. CASE s \in submitted
    <3>1. ASSUME NEW i \in Running, Carries(goroutines[i], s, q)
          PROVE  i \in Running' /\ Carries(goroutines'[i], s, q)
      <4>1. i \in 1..MaxUpserts /\ i <= handled /\ goroutines[i] # NoRequest
        BY RunningType
      <4>2. goroutines'[i] = goroutines[i]
        BY <1>0, <2>4, <4>1
      <4> QED
        BY <3>1, <4>1, <4>2 DEF Running, Carries
    <3> QED
      BY <1>2, <1>3, <2>5, <3>1 DEF Safe
  <2>6. CASE s \notin submitted
    <3>1. s = t
      BY <2>2, <2>6
    <3>2. CASE q \in ToSet(todo)
      <4>1. todo # <<>>
        <5>1. DOMAIN todo = 1..Len(todo)
          BY LenProperties
        <5> QED
          BY <3>2, <5>1 DEF ToSet
      <4>2. /\ Request(t[1], t[2], t[3], todo) \in Requests
            /\ Carries(Request(t[1], t[2], t[3], todo), s, q)
        <5>1. 0 \in 0..(maxRetries - 1)
          BY Constants
        <5> QED
          BY <2>1, <3>1, <3>2, <4>1, <5>1 DEF Request, Requests, Carries
      <4>3. handled + 1 \in Running'
        BY <2>4, <4>1, <4>2, Constants DEF Running
      <4> QED
        BY <2>4, <4>1, <4>2, <4>3 DEF Safe
    <3>3. CASE <<t[1], q>> \in excused'
      BY <3>1, <3>3 DEF Safe
    <3> QED
      BY <2>3, <3>1, <3>2, <3>3
  <2> QED
    BY <2>5, <2>6
<1>6. ASSUME NEW i \in 1..MaxUpserts, Send(i)
      PROVE  Safe(s, q)'
  <2> DEFINE g == goroutines[i]
             p == Head(g.todo)
  <2>1. i \in Running /\ submitted' = submitted
    BY <1>6 DEF Send
  <2>2. /\ p \in Regions /\ g.user \in Users /\ g.val \in Values
        /\ Peers[p] \in Seq(Regions) /\ i <= handled /\ g \in Requests
    BY <2>1, SendType, RunningType, Constants
  <2>3. PICK h \in {NextPeer(g), AfterFailure(g)} :
          /\ Handle(p, g.user, g.val, Peers[p], [goroutines EXCEPT ![i] = h])
          /\ (h = NextPeer(g) /\ UNCHANGED faults) \/ Fault("lost")
    BY <1>6 DEF Send
  <2>4. h = NextPeer(g) \/ faults' = faults + 1
    BY <2>3 DEF Fault
  <2>5. faults' \in 0..MaxFaults
    BY <1>0, <2>3, FaultCounted DEF TypeOK
  <2>6. [goroutines EXCEPT ![i] = h] \in Goroutines
    BY <1>1, <2>1, <2>4, <2>5, AttemptBroadcast
  <2>7. /\ handled + 1 \in 1..MaxUpserts
        /\ \A k \in 1..MaxUpserts \ {handled + 1} :
             goroutines'[k] = [goroutines EXCEPT ![i] = h][k]
    <3> DEFINE others == [goroutines EXCEPT ![i] = h]
    <3>1. others \in Goroutines /\ Handle(p, g.user, g.val, Peers[p], others)
      BY <2>3, <2>6
    <3> HIDE DEF others, p, g
    <3>2. /\ handled + 1 \in 1..MaxUpserts
          /\ \A k \in 1..MaxUpserts \ {handled + 1} : goroutines'[k] = others[k]
      BY <2>2, <3>1, HandleStarts
    <3> QED
      BY <3>2 DEF others
  <2>8. <<p, g.user, g.val>> \in seen'
    BY <2>3 DEF Handle, Upsert
  <2>9. ASSUME NEW k \in Running, Carries(goroutines[k], s, q)
        PROVE  Safe(s, q)'
    <3>1. k \in 1..MaxUpserts /\ k <= handled /\ goroutines[k] # NoRequest
      BY RunningType
    <3>2. k # handled + 1 /\ i # handled + 1 /\ i \in 1..MaxUpserts
      BY <1>0, <2>2, <3>1
    <3>3. CASE k # i
      <4>1. goroutines'[k] = goroutines[k]
        BY <1>0, <2>7, <3>1, <3>2, <3>3 DEF Goroutines
      <4> QED
        BY <2>9, <3>1, <4>1 DEF Safe, Running
    <3>4. CASE k = i /\ q = p
      BY <2>8, <2>9, <3>4 DEF Safe, Carries
    <3>5. CASE k = i /\ q # p
      <4>1. q \in ToSet(g.todo) /\ g.from = s[1] /\ g.user = s[2] /\ g.val = s[3]
        BY <2>9, <3>5 DEF Carries
      <4>2. h # NoRequest /\ Carries(h, s, q)
        <5>1. /\ NextPeer(g) # NoRequest /\ Carries(NextPeer(g), s, q)
          BY <2>2, <3>5, <4>1, NextKeeps DEF Carries
        <5>2. CASE g.attempt >= maxRetries - 1
          BY <1>0, <2>2, <5>1, <5>2, SendType, <2>1 DEF AfterFailure
        <5>3. CASE ~(g.attempt >= maxRetries - 1)
          BY <2>2, <4>1, <5>1, <5>3, FailureKeeps DEF Carries
        <5> QED
          BY <5>2, <5>3
      <4>3. goroutines'[i] = h
        BY <1>0, <2>7, <3>2 DEF Goroutines
      <4> QED
        BY <3>2, <4>2, <4>3 DEF Safe, Running
    <3> QED
      BY <3>3, <3>4, <3>5
  <2> QED
    BY <1>2, <1>3, <2>1, <2>9 DEF Safe
<1>7. ASSUME NEW i \in 1..MaxUpserts, SendFails(i)
      PROVE  Safe(s, q)'
  <2> DEFINE g == goroutines[i]
             p == Head(g.todo)
  <2>1. i \in Running /\ submitted' = submitted /\ g \in Requests
    BY <1>7, RunningType DEF SendFails
  <2>2. ASSUME NEW k \in Running, Carries(goroutines[k], s, q)
        PROVE  Safe(s, q)'
    <3>1. k \in 1..MaxUpserts /\ goroutines[k] # NoRequest
      BY RunningType
    <3>2. CASE k # i
      <4>1. goroutines'[k] = goroutines[k]
        BY <1>0, <1>7, <3>1, <3>2 DEF SendFails, Goroutines
      <4> QED
        BY <2>2, <3>1, <4>1 DEF Safe, Running
    <3>3. CASE k = i
      <4>1. q \in ToSet(g.todo) /\ g.from = s[1] /\ g.user = s[2] /\ g.val = s[3]
        BY <2>2, <3>3 DEF Carries
      <4>2. CASE /\ Fault("error")
                 /\ goroutines' = [goroutines EXCEPT ![i] = AfterFailure(g)]
        <5>1. faults' = faults + 1 /\ g.attempt <= faults /\ g.attempt \in 0..2
          BY <2>1, <4>2, SendType DEF Fault, AttemptInv
        <5>2. ~(g.attempt >= maxRetries - 1)
          BY <1>0, <1>1, <5>1
        <5>3. AfterFailure(g) # NoRequest /\ Carries(AfterFailure(g), s, q)
          BY <2>1, <4>1, <5>2, FailureKeeps DEF Carries
        <5>4. goroutines'[i] = AfterFailure(g)
          BY <1>0, <4>2 DEF Goroutines
        <5> QED
          BY <5>3, <5>4 DEF Safe, Running
      <4>3. CASE /\ goroutines' = [goroutines EXCEPT ![i] = NextPeer(g)]
                 /\ excused' = excused \cup {<<g.from, p>>}
        <5>1. CASE q = p
          BY <4>1, <4>3, <5>1 DEF Safe
        <5>2. CASE q # p
          <6>1. NextPeer(g) # NoRequest /\ Carries(NextPeer(g), s, q)
            BY <2>1, <4>1, <5>2, NextKeeps DEF Carries
          <6>2. goroutines'[i] = NextPeer(g)
            BY <1>0, <4>3 DEF Goroutines
          <6> QED
            BY <6>1, <6>2 DEF Safe, Running
        <5> QED
          BY <5>1, <5>2
      <4> QED
        BY <1>7, <4>2, <4>3 DEF SendFails
    <3> QED
      BY <3>2, <3>3
  <2> QED
    BY <1>2, <1>3, <2>1, <2>2 DEF Safe
<1>8. ASSUME NEW r \in Regions, Reconcile(r)
      PROVE  Safe(s, q)'
  BY <1>4, <1>8 DEF Reconcile, FetchPeerEntries, ReadLocal, SyncMissing, EndRound
<1>9. ASSUME NEW r \in Regions, Crash(r)
      PROVE  Safe(s, q)'
  <2>1. /\ goroutines' = [i \in 1..MaxUpserts |->
             IF i \in Running /\ goroutines[i].from = r
             THEN NoRequest ELSE goroutines[i]]
        /\ submitted' = submitted
        /\ excused' = excused \cup {<<r, p>> : p \in ToSet(Peers[r])}
    BY <1>9 DEF Crash
  <2>2. CASE s[1] = r
    BY <2>1, <2>2 DEF Safe
  <2>3. ASSUME s[1] # r, NEW i \in Running, Carries(goroutines[i], s, q)
        PROVE  i \in Running' /\ Carries(goroutines'[i], s, q)
    <3>1. i \in 1..MaxUpserts /\ goroutines[i] # NoRequest /\ goroutines[i].from # r
      BY <2>3, RunningType DEF Carries
    <3>2. goroutines'[i] = goroutines[i]
      BY <2>1, <3>1
    <3> QED
      BY <2>3, <3>1, <3>2 DEF Running
  <2> QED
    BY <1>2, <1>3, <2>1, <2>2, <2>3 DEF Safe
<1>10. CASE UNCHANGED vars
  BY <1>4, <1>10 DEF vars
<1> QED
  BY <1>5, <1>6, <1>7, <1>8, <1>9, <1>10 DEF Next

\* The invariant holds for ever.
LEMMA Invariance == Spec => []Inv
<1>1. Inv /\ [Next]_vars => Inv'
  BY NextType, NextSafe DEF Inv
<1> QED
  BY InitInv, <1>1, PTL DEF Spec

(***************************************************************************)
(* sendWithRetry gives no peer up before the third failure: until then an  *)
(* entry that the API set is with every peer or still on its way, whatever *)
(* answers were lost, for any regions, peers and number of upserts.        *)
(***************************************************************************)
THEOREM RetriesSuffice == Spec => []RetriesSurvive
<1>1. Inv => RetriesSurvive
  BY DEF Inv
<1> QED
  BY Invariance, <1>1, PTL

(***************************************************************************)
(* HandleUpsertUser, sendWithRetry and reconcile keep the types; the       *)
(* reconciler writes only entries that it has fetched.                     *)
(***************************************************************************)
THEOREM TypeCorrect == Spec => []TypeOK
<1>1. Inv => TypeOK
  BY DEF Inv
<1> QED
  BY Invariance, <1>1, PTL
=============================================================================
