-------------------------- MODULE ConvergenceProofs --------------------------
(***************************************************************************)
(* The regions converge: Converged of CrossSync, for any regions, peers,   *)
(* events and failures, if the sources are ordered.                        *)
(***************************************************************************)
EXTENDS CrossSyncProofs

-----------------------------------------------------------------------------
\* What the handling of an event makes of a row.

\* Only the row of the event's post, in the region that handles it, changes.
LEMMA EffectElsewhere ==
  ASSUME TypeOK, NEW r \in Regions, NEW e \in EventIds, Effect(r, e),
         NEW q \in Regions, NEW p \in Posts, q # r \/ p # Event[e].uid
  PROVE  row'[q][p] = row[q][p]
BY DEF Effect, TypeOK

\* An event about another post does not count.
LEMMA ShowsOther ==
  ASSUME NEW S, NEW e, NEW p, NEW x, Event[e].uid # p
  PROVE  Shows(x, p, S \cup {e}) <=> Shows(x, p, S)
<1>1. Writers(p, S \cup {e}) = Writers(p, S)
  BY DEF Writers
<1> QED
  BY <1>1 DEF Shows

\* The effect of an event that comes after those of S about its post.
LEMMA ShowsNext ==
  ASSUME TypeOK, NEW r \in Regions, NEW e \in EventIds, Effect(r, e),
         NEW S \in SUBSET EventIds, Event[e].uid \in Posts,
         Shows(row[r][Event[e].uid], Event[e].uid, S),
         \A f \in S : Event[f].uid = Event[e].uid => f = e \/ f \in Prior[e]
  PROVE  Shows(row'[r][Event[e].uid], Event[e].uid, S \cup {e})
<1> DEFINE p == Event[e].uid
           Writes == Event[e].type \in {"POST_CREATED", "POST_UPDATED", "POST_DELETED"}
<1>1. CASE Writes
  <2>1. row'[r][p] = IF Event[e].type = "POST_DELETED" THEN NoRow ELSE e
    BY <1>1 DEF Effect, TypeOK
  <2>2. e \in Writers(p, S \cup {e})
    BY <1>1 DEF Writers
  <2>3. \A f \in Writers(p, S \cup {e}) : f = e \/ f \in Prior[e]
    BY DEF Writers
  <2> QED
    BY <2>1, <2>2, <2>3 DEF Shows
<1>2. CASE ~Writes
  <2>1. row'[r][p] = row[r][p]
    BY <1>2 DEF Effect, TypeOK
  <2>2. Writers(p, S \cup {e}) = Writers(p, S)
    BY <1>2 DEF Writers
  <2> QED
    BY <2>1, <2>2 DEF Shows
<1> QED
  BY <1>1, <1>2

\* The same events make the same of a row.
LEMMA ShowsOne ==
  ASSUME OrderedSource, NEW S \in SUBSET EventIds, NEW p, NEW x, NEW y,
         Shows(x, p, S), Shows(y, p, S)
  PROVE  x = y
<1>1. Writers(p, S) \subseteq EventIds
  BY DEF Writers
<1>2. CASE Writers(p, S) = {}
  BY <1>2 DEF Shows
<1>3. CASE Writers(p, S) # {}
  <2>1. PICK e \in Writers(p, S) :
          /\ \A f \in Writers(p, S) : f = e \/ f \in Prior[e]
          /\ x = IF Event[e].type = "POST_DELETED" THEN NoRow ELSE e
    BY <1>3 DEF Shows
  <2>2. PICK d \in Writers(p, S) :
          /\ \A f \in Writers(p, S) : f = d \/ f \in Prior[d]
          /\ y = IF Event[d].type = "POST_DELETED" THEN NoRow ELSE d
    BY <1>3 DEF Shows
  <2>3. d = e
    BY <1>1, <2>1, <2>2 DEF OrderedSource
  <2> QED
    BY <2>1, <2>2, <2>3
<1> QED
  BY <1>2, <1>3

-----------------------------------------------------------------------------
\* A failure between two regions is never forgotten.
LEMMA CleanStays ==
  ASSUME Inv, [Next]_vars, NEW r \in Regions, NEW q \in Peers[r], Clean(r, q)'
  PROVE  Clean(r, q)
<1> USE CrossAssumption DEF Clean
<1>0. q \in Regions /\ TypeOK
  BY DEF Inv
<1>1. ASSUME UNCHANGED <<responses, blamed>> PROVE Clean(r, q)
  BY <1>1
<1>2. ASSUME NEW m \in Messages, NEW status \in Statuses, Respond(m, status),
             UNCHANGED blamed
      PROVE  Clean(r, q)
  BY <1>2 DEF Respond
<1>3. ASSUME NEW e \in EventIds, Submit(e) \/ Resubmit(e) PROVE Clean(r, q)
  BY <1>1, <1>3 DEF Submit, Resubmit, netVars
<1>4. ASSUME NEW s \in Regions, NEW e \in EventIds, Broadcast(s, e)
      PROVE  Clean(r, q)
  BY <1>1, <1>4 DEF Broadcast
<1>5. ASSUME NEW m \in Messages, Receive(m) \/ ReceiveFails(m) \/ Refuse(m)
      PROVE  Clean(r, q)
  <2>1. PICK status \in Statuses : Respond(m, status)
    BY <1>5 DEF Receive, ReceiveFails, Refuse, Statuses
  <2> QED
    BY <1>2, <1>5, <2>1 DEF Receive, ReceiveFails, Refuse
<1>6. ASSUME NEW m \in Messages, Timeout(m) PROVE Clean(r, q)
  <2>1. <<m[1], m[2]>> \in blamed' /\ blamed \subseteq blamed'
    BY <1>6 DEF Timeout
  <2>2. ASSUME NEW x \in responses, x[1] = r, x[2] = q PROVE x[4] = "2xx"
    <3>1. <<m[1], m[2]>> # <<r, q>>
      BY <2>1
    <3>2. <<x[1], x[2], x[3]>> # m
      BY <2>2, <3>1, Shape
    <3> QED
      BY <1>6, <2>2, <3>2 DEF Timeout
  <2> QED
    BY <2>1, <2>2
<1>7. ASSUME NEW m \in Messages, NEW status \in Statuses, Return(m, status)
      PROVE  Clean(r, q)
  <2>1. /\ blamed \subseteq blamed'
        /\ status # "2xx" => <<m[1], m[2]>> \in blamed'
        /\ responses' = responses \ {<<m[1], m[2], m[3], status>>}
    BY <1>7 DEF Return
  <2>2. ASSUME NEW x \in responses, x[1] = r, x[2] = q PROVE x[4] = "2xx"
    <3>1. CASE x = <<m[1], m[2], m[3], status>>
      BY <2>1, <2>2, <3>1
    <3>2. CASE x # <<m[1], m[2], m[3], status>>
      BY <2>1, <2>2, <3>2
    <3> QED
      BY <3>1, <3>2
  <2> QED
    BY <2>1, <2>2
<1>8. ASSUME NEW s \in Regions, CheckHealth(s) PROVE Clean(r, q)
  BY <1>8 DEF CheckHealth, netVars
<1>9. ASSUME NEW s \in Regions, Crash(s) PROVE Clean(r, q)
  <2>1. /\ blamed \subseteq blamed'
        /\ <<s, q>> \in blamed' \/ s # r
        /\ responses' = {x \in responses : x[1] # s}
    BY <1>9 DEF Crash
  <2> QED
    BY <2>1
<1>10. ASSUME NEW s \in Regions, Restart(s) PROVE Clean(r, q)
  BY <1>1, <1>10 DEF Restart, netVars
<1>11. CASE UNCHANGED vars
  BY <1>1, <1>11 DEF vars, netVars
<1> QED
  BY <1>3, <1>4, <1>5, <1>6, <1>7, <1>8, <1>9, <1>10, <1>11 DEF Next

-----------------------------------------------------------------------------
\* OriginInv.

\* Steps that start nothing, submit nothing and record nothing.
LEMMA OriginQuiet ==
  ASSUME Inv, OriginInv, UNCHANGED submitted,
         \A r \in Regions : goroutines'[r] \subseteq goroutines[r],
         calls' \cup requests' \subseteq calls \cup requests
  PROVE  \A e \in submitted' : Settled(e)'
<1>1. \A e \in EventIds : Home[e] \in Regions
  BY CrossAssumption
<1>2. submitted \subseteq EventIds
  BY DEF Inv, TypeOK
<1>3. \A e \in submitted : \A f \in Prior[e] : f \in EventIds
  BY <1>2, CrossAssumption
<1> QED
  BY <1>1, <1>3 DEF OriginInv, Settled

\* A source that waits has the broadcasts of the earlier events behind it.
LEMMA NextOrigin == Paced /\ Inv /\ OriginInv /\ [Next]_vars => OriginInv'
<1> SUFFICES ASSUME Paced, Inv, OriginInv, [Next]_vars
             PROVE  \A e \in submitted' : Settled(e)'
  BY NextSource DEF OriginInv
<1> USE CrossAssumption DEF vars, dataVars, processVars, netVars
<1>0. TypeOK /\ submitted \subseteq EventIds /\ SourceInv
  BY DEF Inv, TypeOK, OriginInv
<1>1. ASSUME NEW e \in EventIds, Submit(e), NEW f \in submitted'
      PROVE  Settled(f)'
  <2> DEFINE r == Home[e]
  <2>1. /\ r \in Regions /\ Prior[e] \subseteq submitted /\ Settled(e)
        /\ e \notin submitted
        /\ goroutines' = [goroutines EXCEPT ![r] = @ \cup {e}]
        /\ submitted' = submitted \cup {e}
        /\ UNCHANGED <<calls, requests>>
    BY <1>0, <1>1 DEF Submit, Process, SourceInv
  <2>2. Settled(f) /\ e \notin Prior[f]
    BY <1>0, <1>1, <2>1 DEF OriginInv, SourceInv
  <2>3. \A g \in Prior[f] : g # e /\ g \in EventIds
    BY <1>0, <1>1, <2>1, <2>2
  <2> QED
    BY <1>0, <2>1, <2>2, <2>3 DEF Settled, TypeOK
<1>2. ASSUME NEW e \in EventIds, Resubmit(e), NEW f \in submitted'
      PROVE  Settled(f)'
  <2>1. /\ Home[e] \in Regions
        /\ \A g \in submitted : e \notin Prior[g]
        /\ goroutines' = [goroutines EXCEPT ![Home[e]] = @ \cup {e}]
        /\ UNCHANGED <<calls, requests, submitted>>
    BY <1>2 DEF Resubmit
  <2>2. Settled(f) /\ \A g \in Prior[f] : g # e /\ g \in EventIds
    BY <1>0, <1>2, <2>1 DEF OriginInv
  <2> QED
    BY <1>0, <2>1, <2>2 DEF Settled, TypeOK
<1>3. ASSUME NEW r \in Regions, NEW e \in EventIds, Broadcast(r, e),
             NEW f \in submitted'
      PROVE  Settled(f)'
  <2>1. /\ e \in goroutines[r] /\ e \in submitted /\ Home[e] = r
        /\ goroutines' = [goroutines EXCEPT ![r] = @ \ {e}]
        /\ f \in submitted
    BY <1>0, <1>3 DEF Broadcast, SourceInv
  <2>2. ASSUME NEW m \in calls' \cup requests'
        PROVE  m \in calls \cup requests \/ (m[1] = r /\ m[3] = e)
    BY <1>3, <2>2 DEF Broadcast, Post
  <2>3. Settled(f) /\ \A g \in Prior[f] : g \in EventIds
    BY <1>0, <2>1 DEF OriginInv
  <2>4. e \notin Prior[f]
    BY <2>1, <2>3 DEF Settled
  <2> QED
    BY <1>0, <2>1, <2>2, <2>3, <2>4 DEF Settled, TypeOK
<1>4. ASSUME NEW m \in Messages,
             Receive(m) \/ ReceiveFails(m) \/ Refuse(m) \/ Timeout(m)
      PROVE  \A e \in submitted' : Settled(e)'
  <2>1. /\ UNCHANGED <<submitted, goroutines>>
        /\ calls' \cup requests' \subseteq calls \cup requests
    BY <1>4 DEF Receive, ReceiveFails, Refuse, Timeout, Respond
  <2> QED
    BY <2>1, OriginQuiet
<1>5. ASSUME NEW m \in Messages, NEW status \in Statuses, Return(m, status)
      PROVE  \A e \in submitted' : Settled(e)'
  BY <1>5, OriginQuiet DEF Return
<1>6. ASSUME NEW r \in Regions, CheckHealth(r) \/ Restart(r)
      PROVE  \A e \in submitted' : Settled(e)'
  BY <1>6, OriginQuiet DEF CheckHealth, Restart
<1>7. ASSUME NEW r \in Regions, Crash(r)
      PROVE  \A e \in submitted' : Settled(e)'
  <2>1. /\ \A s \in Regions : goroutines'[s] \subseteq goroutines[s]
        /\ UNCHANGED submitted
        /\ calls' \cup requests' \subseteq calls \cup requests
    BY <1>0, <1>7 DEF Crash, TypeOK
  <2> QED
    BY <2>1, OriginQuiet
<1>8. CASE UNCHANGED vars
  BY <1>8, OriginQuiet
<1> QED
  BY <1>1, <1>2, <1>3, <1>4, <1>5, <1>6, <1>7, <1>8 DEF Next

\* Nothing is submitted at the start, so nothing has to be settled.
LEMMA OriginInvariance == Paced => (Spec => [](Inv /\ OriginInv))
<1> SUFFICES ASSUME Paced PROVE Spec => [](Inv /\ OriginInv)
  OBVIOUS
<1>1. Init => OriginInv
  BY CrossAssumption DEF Init, OriginInv, SourceInv
<1>2. Inv /\ OriginInv /\ [Next]_vars => OriginInv'
  BY NextOrigin
<1> QED
  BY <1>1, <1>2, Invariance, PTL DEF Spec

-----------------------------------------------------------------------------
\* RowInv.

\* Steps that leave rows, logs and submissions alone.
LEMMA RowQuiet ==
  ASSUME Inv, RowInv, [Next]_vars, UNCHANGED <<row, done, submitted>>
  PROVE  RowInv'
<1>1. ASSUME NEW e \in EventIds, NEW q \in Peers[Home[e]], Clean(Home[e], q)'
      PROVE  Clean(Home[e], q)
  BY <1>1, CleanStays, CrossAssumption
<1> QED
  BY <1>1 DEF RowInv

\* What an event's home and its peers hold of a post stays if no row of the
\* post's changes and what is added to the logs is about other posts.
LEMMA RowStays ==
  ASSUME OrderedSource, Inv, RowInv, [Next]_vars, NEW e \in EventIds,
         NEW d \in EventIds, Event[d].uid # Event[e].uid,
         NEW r \in Regions, Effect(r, d) \/ UNCHANGED row,
         submitted' \in {submitted, submitted \cup {d}},
         \A q \in Regions : done'[q] \in {done[q], done[q] \cup {d}}
  PROVE  LET p == Event[e].uid
         IN  /\ Shows(row'[Home[e]][p], p, submitted')
             /\ \A q \in Peers[Home[e]] :
                  Clean(Home[e], q)' => Shows(row'[q][p], p, done'[q])
<1> DEFINE p == Event[e].uid
<1>1. /\ TypeOK /\ p \in Posts /\ Home[e] \in Regions /\ Peers[Home[e]] \subseteq Regions
  BY CrossAssumption DEF Inv, OrderedSource
<1>2. \A q \in Regions : row'[q][p] = row[q][p]
  BY <1>1, EffectElsewhere
<1>3. Shows(row'[Home[e]][p], p, submitted')
  <2>1. Shows(row[Home[e]][p], p, submitted)
    BY DEF RowInv
  <2> QED
    BY <1>1, <1>2, <2>1, ShowsOther
<1>4. ASSUME NEW q \in Peers[Home[e]], Clean(Home[e], q)'
      PROVE  Shows(row'[q][p], p, done'[q])
  <2>1. Shows(row[q][p], p, done[q])
    BY <1>1, <1>4, CleanStays DEF RowInv
  <2>2. row'[q][p] = row[q][p] /\ done'[q] \in {done[q], done[q] \cup {d}}
    BY <1>1, <1>2
  <2>3. Shows(row[q][p], p, done[q] \cup {d})
    BY <2>1, ShowsOther
  <2>4. CASE done'[q] = done[q]
    BY <2>1, <2>2, <2>4
  <2>5. CASE done'[q] = done[q] \cup {d}
    BY <2>2, <2>3, <2>5
  <2> QED
    BY <2>2, <2>4, <2>5
<1> QED
  BY <1>3, <1>4

LEMMA NextRow ==
  OrderedSource /\ Inv /\ OrderInv /\ [Next]_vars => RowInv'
<1> SUFFICES ASSUME OrderedSource, Inv, OriginInv, RowInv, [Next]_vars PROVE RowInv'
  BY DEF OrderInv
<1> USE CrossAssumption DEF vars, dataVars, processVars, netVars
<1>0. TypeOK /\ submitted \subseteq EventIds
  BY DEF Inv, TypeOK
<1>1. ASSUME NEW e \in EventIds, Submit(e) PROVE RowInv'
  <2> DEFINE r == Home[e]
             p == Event[e].uid
  <2>1. /\ r \in Regions /\ p \in Posts /\ Prior[e] \subseteq submitted
        /\ e \notin submitted /\ Effect(r, e)
        /\ done' = [done EXCEPT ![r] = @ \cup {e}]
        /\ submitted' = submitted \cup {e}
        /\ UNCHANGED <<responses, blamed>>
    BY <1>1 DEF Submit, Process, OriginInv, SourceInv, OrderedSource
  <2>2. \A f \in submitted : Event[f].uid = p => f \in Prior[e]
    BY <1>0, <2>1 DEF OriginInv, SourceInv, OrderedSource
  <2>3. \A q \in Regions : done'[q] \in {done[q], done[q] \cup {e}}
    BY <1>0, <2>1 DEF TypeOK
  <2> SUFFICES ASSUME NEW d \in EventIds
               PROVE  /\ Shows(row'[Home[d]][Event[d].uid], Event[d].uid, submitted')
                      /\ \A q \in Peers[Home[d]] : Clean(Home[d], q)' =>
                           Shows(row'[q][Event[d].uid], Event[d].uid, done'[q])
    BY DEF RowInv
  <2>4. CASE Event[d].uid # p
    BY <2>1, <2>3, <2>4, RowStays
  <2>5. CASE Event[d].uid = p
    <3>1. Home[d] = r
      BY <2>5 DEF OrderedSource
    <3>2. Shows(row'[r][p], p, submitted')
      <4>1. Shows(row[r][p], p, submitted)
        BY DEF RowInv
      <4> QED
        BY <1>0, <2>1, <2>2, <4>1, ShowsNext
    <3>3. ASSUME NEW q \in Peers[r], Clean(r, q)'
          PROVE  Shows(row'[q][p], p, done'[q])
      <4>1. q \in Regions /\ q # r
        BY <2>1
      <4>2. row'[q][p] = row[q][p]
        BY <1>0, <2>1, <4>1, EffectElsewhere
      <4>3. done'[q] = done[q]
        BY <1>0, <2>1, <4>1 DEF TypeOK
      <4>4. Shows(row[q][p], p, done[q])
        BY <2>1, <3>3, CleanStays DEF RowInv
      <4> QED
        BY <4>2, <4>3, <4>4
    <3> QED
      BY <2>5, <3>1, <3>2, <3>3
  <2> QED
    BY <2>4, <2>5
<1>2. ASSUME NEW e \in EventIds, Resubmit(e) PROVE RowInv'
  <2> DEFINE r == Home[e]
             p == Event[e].uid
  <2>1. /\ r \in Regions /\ p \in Posts /\ e \in submitted /\ Effect(r, e)
        /\ \A f \in submitted : e \notin Prior[f]
        /\ UNCHANGED <<done, submitted, responses, blamed>>
    BY <1>2 DEF Resubmit, OrderedSource
  <2>2. \A f \in submitted : Event[f].uid = p => f = e \/ f \in Prior[e]
    BY <1>0, <2>1 DEF OrderedSource
  <2> SUFFICES ASSUME NEW d \in EventIds
               PROVE  /\ Shows(row'[Home[d]][Event[d].uid], Event[d].uid, submitted')
                      /\ \A q \in Peers[Home[d]] : Clean(Home[d], q)' =>
                           Shows(row'[q][Event[d].uid], Event[d].uid, done'[q])
    BY DEF RowInv
  <2>3. CASE Event[d].uid # p
    BY <2>1, <2>3, RowStays
  <2>4. CASE Event[d].uid = p
    <3>1. Home[d] = r
      BY <2>4 DEF OrderedSource
    <3>2. Shows(row'[r][p], p, submitted')
      <4>1. Shows(row[r][p], p, submitted)
        BY DEF RowInv
      <4>2. submitted \cup {e} = submitted'
        BY <2>1
      <4>3. Shows(row'[r][p], p, submitted \cup {e})
        BY <1>0, <2>1, <2>2, <4>1, ShowsNext
      <4> QED
        BY <4>2, <4>3
    <3>3. ASSUME NEW q \in Peers[r], Clean(r, q)'
          PROVE  Shows(row'[q][p], p, done'[q])
      <4>1. q \in Regions /\ q # r
        BY <2>1
      <4>2. row'[q][p] = row[q][p]
        BY <1>0, <2>1, <4>1, EffectElsewhere
      <4>3. Shows(row[q][p], p, done[q])
        BY <2>1, <3>3, CleanStays DEF RowInv
      <4> QED
        BY <2>1, <4>2, <4>3
    <3> QED
      BY <2>4, <3>1, <3>2, <3>3
  <2> QED
    BY <2>3, <2>4
<1>3. ASSUME NEW m \in Messages, Receive(m) PROVE RowInv'
  <2> DEFINE r == m[1]
             q == m[2]
             e == m[3]
             p == Event[e].uid
  <2>1. /\ r \in Regions /\ q \in Peers[r] /\ q \in Regions /\ q # r
        /\ e \in EventIds /\ e \in submitted /\ Home[e] = r /\ p \in Posts
        /\ m \in requests /\ Process(q, e) /\ UNCHANGED submitted
    BY <1>3, Shape DEF Receive, OriginInv, SourceInv, OrderedSource
  <2>2. CASE e \in done[q]
    <3>1. UNCHANGED <<row, done, submitted>>
      BY <1>0, <2>1, <2>2 DEF Process, TypeOK
    <3> QED
      BY <3>1, RowQuiet
  <2>3. CASE e \notin done[q]
    <3>1. Effect(q, e) /\ done' = [done EXCEPT ![q] = @ \cup {e}]
      BY <2>1, <2>3 DEF Process
    <3>2. \A s \in Regions : done'[s] \in {done[s], done[s] \cup {e}}
      BY <1>0, <3>1 DEF TypeOK
    <3>3. \A f \in submitted : e \notin Prior[f]
      BY <2>1 DEF OriginInv, SourceInv, Settled
    <3>4. \A f \in done[q] : Event[f].uid = p => f = e \/ f \in Prior[e]
      BY <1>0, <2>1, <3>3 DEF OriginInv, SourceInv, OrderedSource
    <3> SUFFICES ASSUME NEW d \in EventIds
                 PROVE  /\ Shows(row'[Home[d]][Event[d].uid], Event[d].uid, submitted')
                        /\ \A s \in Peers[Home[d]] : Clean(Home[d], s)' =>
                             Shows(row'[s][Event[d].uid], Event[d].uid, done'[s])
      BY DEF RowInv
    <3>5. CASE Event[d].uid # p
      BY <2>1, <3>1, <3>2, <3>5, RowStays
    <3>6. CASE Event[d].uid = p
      <4>1. Home[d] = r
        BY <2>1, <3>6 DEF OrderedSource
      <4>2. row'[r][p] = row[r][p]
        BY <1>0, <2>1, <3>1, EffectElsewhere
      <4>3. Shows(row'[r][p], p, submitted')
        BY <2>1, <4>2 DEF RowInv
      <4>4. ASSUME NEW s \in Peers[r], Clean(r, s)'
            PROVE  Shows(row'[s][p], p, done'[s])
        <5>1. Shows(row[s][p], p, done[s]) /\ s \in Regions
          BY <2>1, <4>4, CleanStays DEF RowInv
        <5>2. CASE s = q
          <6>1. done'[q] = done[q] \cup {e} /\ done[q] \in SUBSET EventIds
            BY <1>0, <2>1, <3>1 DEF TypeOK
          <6>2. Shows(row[q][p], p, done[q])
            BY <5>1, <5>2
          <6>3. Shows(row'[q][p], p, done[q] \cup {e})
            BY <1>0, <2>1, <3>1, <3>4, <6>1, <6>2, ShowsNext
          <6> QED
            BY <5>2, <6>1, <6>3
        <5>3. CASE s # q
          <6>1. done'[s] = done[s]
            BY <1>0, <3>1, <5>1, <5>3 DEF TypeOK
          <6>2. row'[s][p] = row[s][p]
            BY <1>0, <2>1, <3>1, <5>1, <5>3, EffectElsewhere
          <6> QED
            BY <5>1, <6>1, <6>2
        <5> QED
          BY <5>2, <5>3
      <4> QED
        BY <3>6, <4>1, <4>3, <4>4
    <3> QED
      BY <3>5, <3>6
  <2> QED
    BY <2>2, <2>3
<1>4. ASSUME NEW m \in Messages, ReceiveFails(m) PROVE RowInv'
  <2> DEFINE r == m[1]
             q == m[2]
             e == m[3]
             p == Event[e].uid
  <2>1. /\ r \in Regions /\ q \in Peers[r] /\ q \in Regions /\ q # r
        /\ e \in EventIds /\ Home[e] = r /\ p \in Posts
        /\ m \in requests /\ UNCHANGED <<submitted, done, calls, blamed>>
        /\ Effect(q, e) \/ UNCHANGED row
    BY <1>4, Shape DEF ReceiveFails, OriginInv, SourceInv, OrderedSource
  <2>2. PICK status \in Statuses \ {"2xx"} : Respond(m, status)
    BY <1>4 DEF ReceiveFails, Statuses
  <2>3. ~Clean(r, q)'
    <3>1. CASE m \in calls
      <4>1. <<r, q, e, status>> \in responses'
        BY <2>2, <3>1 DEF Respond
      <4> QED
        BY <2>2, <4>1 DEF Clean
    <3>2. CASE m \notin calls
      <4>1. <<r, q>> \in blamed
        BY <2>1, <3>2 DEF Inv, CallInv
      <4> QED
        BY <2>1, <4>1 DEF Clean
    <3> QED
      BY <3>1, <3>2
  <2> SUFFICES ASSUME NEW d \in EventIds
               PROVE  /\ Shows(row'[Home[d]][Event[d].uid], Event[d].uid, submitted')
                      /\ \A s \in Peers[Home[d]] : Clean(Home[d], s)' =>
                           Shows(row'[s][Event[d].uid], Event[d].uid, done'[s])
    BY DEF RowInv
  <2>4. CASE Event[d].uid # p
    BY <2>1, <2>4, RowStays
  <2>5. CASE Event[d].uid = p
    <3>1. Home[d] = r
      BY <2>1, <2>5 DEF OrderedSource
    <3>2. \A s \in Regions : s # q => row'[s][p] = row[s][p]
      BY <1>0, <2>1, EffectElsewhere
    <3>3. Shows(row'[r][p], p, submitted')
      BY <2>1, <3>2 DEF RowInv
    <3>4. ASSUME NEW s \in Peers[r], Clean(r, s)'
          PROVE  Shows(row'[s][p], p, done'[s])
      <4>1. s # q /\ s \in Regions
        BY <2>1, <2>3, <3>4
      <4>2. Shows(row[s][p], p, done[s])
        BY <2>1, <3>4, CleanStays DEF RowInv
      <4> QED
        BY <2>1, <3>2, <4>1, <4>2
    <3> QED
      BY <2>5, <3>1, <3>3, <3>4
  <2> QED
    BY <2>4, <2>5
<1>5. ASSUME NEW r \in Regions, NEW e \in EventIds, Broadcast(r, e) PROVE RowInv'
  BY <1>5, RowQuiet DEF Broadcast
<1>6. ASSUME NEW m \in Messages, Refuse(m) \/ Timeout(m) PROVE RowInv'
  BY <1>6, RowQuiet DEF Refuse, Timeout
<1>7. ASSUME NEW m \in Messages, NEW status \in Statuses, Return(m, status)
      PROVE  RowInv'
  BY <1>7, RowQuiet DEF Return
<1>8. ASSUME NEW r \in Regions, CheckHealth(r) \/ Crash(r) \/ Restart(r)
      PROVE  RowInv'
  BY <1>8, RowQuiet DEF CheckHealth, Crash, Restart
<1>9. CASE UNCHANGED vars
  BY <1>9, RowQuiet
<1> QED
  BY <1>1, <1>2, <1>3, <1>4, <1>5, <1>6, <1>7, <1>8, <1>9 DEF Next

-----------------------------------------------------------------------------
\* Nothing is submitted, and every row is empty.
LEMMA InitOrder == OrderedSource /\ Init => OrderInv
BY CrossAssumption
DEF OrderedSource, Init, OrderInv, OriginInv, SourceInv, RowInv, Shows, Writers

\* The two invariants hold for ever.
LEMMA OrderInvariance == OrderedSource => (Spec => [](Inv /\ OrderInv))
<1> SUFFICES ASSUME OrderedSource PROVE Spec => [](Inv /\ OrderInv)
  OBVIOUS
<1>1. Init => OrderInv
  BY InitOrder
<1>2. Inv /\ OrderInv /\ [Next]_vars => OrderInv'
  BY NextOrigin, NextRow DEF OrderInv, OrderedSource
<1> QED
  BY <1>1, <1>2, Invariance, PTL DEF Spec

(***************************************************************************)
(* Asynchronous eventual consistency of the broadcasts: for sources that   *)
(* wait for one event's calls before the next, every peer that no call has *)
(* failed to has the home's content of each post once nothing is on its    *)
(* way, for any number of regions and events, whatever fails elsewhere.    *)
(***************************************************************************)
THEOREM Convergence == OrderedSource => (Spec => []Converged)
<1> SUFFICES ASSUME OrderedSource PROVE Spec => []Converged
  OBVIOUS
<1>1. ASSUME Inv, OrderInv PROVE Converged
  <2> SUFFICES ASSUME NEW r \in Regions, NEW q \in Peers[r], Quiet(r, q),
                      <<r, q>> \notin blamed, NEW e \in submitted, Home[e] = r
               PROVE  row[q][Event[e].uid] = row[r][Event[e].uid]
    BY DEF Converged
  <2> DEFINE p == Event[e].uid
  <2>1. e \in EventIds /\ q \in Regions /\ submitted \subseteq EventIds
        /\ done[q] \subseteq submitted
    BY <1>1, CrossAssumption DEF Inv, TypeOK, OrderInv, OriginInv, SourceInv
  <2>2. Clean(r, q)
    BY <1>1 DEF Quiet, Clean
  <2>3. Shows(row[r][p], p, submitted) /\ Shows(row[q][p], p, done[q])
    BY <1>1, <2>1, <2>2 DEF OrderInv, RowInv
  <2>4. ASSUME NEW f \in submitted, Event[f].uid = p PROVE f \in done[q]
    <3>1. Home[f] = r
      BY <2>1, <2>4 DEF OrderedSource
    <3>2. f \in goroutines[r] \/ Accounted(r, q, f)
      BY <1>1, <3>1 DEF Inv, MissIsExplained
    <3>3. /\ goroutines[r] = {} /\ <<r, q, f>> \notin requests
          /\ \A status \in Statuses : <<r, q, f, status>> \notin responses
      BY DEF Quiet
    <3> QED
      BY <3>2, <3>3 DEF Accounted
  <2>5. Writers(p, done[q]) = Writers(p, submitted)
    BY <2>1, <2>4 DEF Writers
  <2>6. Shows(row[q][p], p, submitted)
    BY <2>3, <2>5 DEF Shows
  <2> QED
    BY <2>1, <2>3, <2>6, ShowsOne
<1> QED
  BY <1>1, OrderInvariance, PTL

(***************************************************************************)
(* In order and without a gap: when a source that waits for its broadcasts *)
(* submits an event, every peer that no call has failed to has handled all *)
(* the events before it, whatever fails elsewhere.                         *)
(***************************************************************************)
THEOREM DeliversInOrder == Spec => []PriorDelivered
<1>1. ASSUME Paced PROVE Spec => []PriorDelivered
  <2>1. Inv /\ OriginInv => PriorDelivered
    <3> SUFFICES ASSUME Inv, OriginInv, NEW e \in submitted, NEW f \in Prior[e],
                        NEW q \in Peers[Home[f]], <<Home[f], q>> \notin blamed
                 PROVE  f \in done[q]
      BY DEF PriorDelivered
    <3> DEFINE r == Home[f]
    <3>1. f \in submitted /\ Settled(e)
      BY DEF OriginInv, SourceInv
    <3>2. f \in goroutines[r] \/ Accounted(r, q, f)
      BY <3>1 DEF Inv, MissIsExplained
    <3>3. f \notin goroutines[r] /\ \A m \in calls \cup requests : m[3] # f
      BY <3>1 DEF Settled
    <3>4. <<r, q, f>> \notin calls /\ <<r, q, f>> \notin requests
      <4>1. <<r, q, f>>[3] = f
        OBVIOUS
      <4> QED
        BY <3>3, <4>1
    <3>5. ASSUME NEW status \in Statuses, <<r, q, f, status>> \in responses
          PROVE  FALSE
      <4>1. \A x \in responses : <<x[1], x[2], x[3]>> \in calls
        BY DEF Inv, TypeOK
      <4>2. <<r, q, f>> \in calls
        BY <3>5, <4>1
      <4> QED
        BY <3>4, <4>2
    <3> QED
      BY <3>2, <3>3, <3>4, <3>5 DEF Accounted
  <2>2. Spec => [](Inv /\ OriginInv)
    BY <1>1, OriginInvariance
  <2> QED
    BY <2>1, <2>2, PTL
<1>2. ASSUME ~Paced PROVE Spec => []PriorDelivered
  <2>1. PriorDelivered
    BY <1>2 DEF PriorDelivered
  <2> QED
    BY <2>1, PTL
<1> QED
  BY <1>1, <1>2
=============================================================================
