-------------------------- MODULE CrossSyncProofs --------------------------
(***************************************************************************)
(* Theorems about CrossSync, for any regions, peers, events and failures.  *)
(***************************************************************************)
EXTENDS CrossSync, TLAPS

\* The parts of a message.
LEMMA Shape ==
  ASSUME NEW m \in Messages
  PROVE  /\ m[1] \in Regions /\ m[2] \in Regions /\ m[3] \in EventIds
         /\ m[2] \in Peers[m[1]]
         /\ m = <<m[1], m[2], m[3]>>
BY DEF Messages

\* A sender, one of its peers and an event make a message.
LEMMA MakeMessage ==
  ASSUME NEW r \in Regions, NEW q \in Peers[r], NEW e \in EventIds
  PROVE  <<r, q, e>> \in Messages
BY CrossAssumption DEF Messages

\* The handler changes only types that fit.
LEMMA ProcessType ==
  ASSUME TypeOK, NEW r \in Regions, NEW e \in EventIds
  PROVE  /\ Effect(r, e) => row' \in [Regions -> [Posts -> EventIds \cup {NoRow}]]
         /\ Process(r, e) =>
              /\ row' \in [Regions -> [Posts -> EventIds \cup {NoRow}]]
              /\ done' \in [Regions -> SUBSET EventIds]
<1>1. Effect(r, e) => row' \in [Regions -> [Posts -> EventIds \cup {NoRow}]]
  <2> SUFFICES ASSUME Effect(r, e)
               PROVE  row' \in [Regions -> [Posts -> EventIds \cup {NoRow}]]
    OBVIOUS
  <2>1. row[r] \in [Posts -> EventIds \cup {NoRow}]
    BY DEF TypeOK
  <2>2. PICK x \in EventIds \cup {NoRow, row[r][Event[e].uid]} :
          row' = [row EXCEPT ![r][Event[e].uid] = x]
    BY DEF Effect
  <2>3. row' = [row EXCEPT ![r] = [row[r] EXCEPT ![Event[e].uid] = x]]
    BY <2>2 DEF TypeOK
  <2>4. [row[r] EXCEPT ![Event[e].uid] = x] \in [Posts -> EventIds \cup {NoRow}]
    BY <2>1, <2>2
  <2> QED
    BY <2>3, <2>4 DEF TypeOK
<1>2. Process(r, e) => done' \in [Regions -> SUBSET EventIds]
  BY DEF Process, TypeOK
<1> QED
  BY <1>1, <1>2 DEF Process, TypeOK

\* Nothing has been sent, and nothing has failed.
LEMMA InitInv == Init => Inv
BY CrossAssumption
DEF Init, Inv, TypeOK, SentOnce, MissIsExplained, SentInv, FlagInv, CallInv,
    AnswerInv

\* The answer of a peer goes to a sender that waits.
LEMMA RespondType ==
  ASSUME TypeOK, NEW m \in Messages, NEW status \in Statuses,
         Respond(m, status), UNCHANGED calls
  PROVE  /\ requests' \subseteq Messages
         /\ responses' \subseteq Regions \X Regions \X EventIds \X Statuses
         /\ \A x \in responses' : <<x[1], x[2], x[3]>> \in calls'
<1>1. requests' \subseteq Messages
  BY DEF TypeOK, Respond
<1>2. CASE m \in calls
  <2>1. responses' = responses \cup {<<m[1], m[2], m[3], status>>}
    BY <1>2 DEF Respond
  <2>2. <<m[1], m[2], m[3], status>> \in
          Regions \X Regions \X EventIds \X Statuses
    BY Shape
  <2>3. <<m[1], m[2], m[3]>> \in calls
    BY <1>2, Shape
  <2> QED
    <3>1. ASSUME NEW x \in responses' PROVE <<x[1], x[2], x[3]>> \in calls'
      <4>1. CASE x \in responses
        BY <4>1 DEF TypeOK
      <4>2. CASE x = <<m[1], m[2], m[3], status>>
        BY <2>3, <4>2
      <4> QED
        BY <2>1, <3>1, <4>1, <4>2
    <3> QED
      BY <1>1, <2>1, <2>2, <3>1 DEF TypeOK
<1>3. CASE m \notin calls
  BY <1>1, <1>3 DEF TypeOK, Respond
<1> QED
  BY <1>2, <1>3

\* No call has two answers on their way.
LEMMA OneAnswer ==
  ASSUME AnswerInv,
         NEW r \in Regions, NEW q \in Regions, NEW e \in EventIds,
         NEW a \in Statuses, NEW b \in Statuses,
         <<r, q, e, a>> \in responses, <<r, q, e, b>> \in responses
  PROVE  a = b
BY DEF AnswerInv

\* Every step of a process, of the network or of a peer keeps the types.
LEMMA NextType == Inv /\ [Next]_vars => TypeOK'
<1> SUFFICES ASSUME Inv, TypeOK, [Next]_vars PROVE TypeOK'
  BY DEF Inv
<1> USE CrossAssumption DEF vars, dataVars, processVars, netVars
<1>1. ASSUME NEW e \in EventIds, Submit(e) PROVE TypeOK'
  <2>1. Home[e] \in Regions
    OBVIOUS
  <2> QED
    BY <1>1, <2>1, ProcessType DEF Submit, TypeOK
<1>2. ASSUME NEW e \in EventIds, Resubmit(e) PROVE TypeOK'
  <2>1. Home[e] \in Regions
    OBVIOUS
  <2> QED
    BY <1>2, <2>1, ProcessType DEF Resubmit, Fault, TypeOK
<1>3. ASSUME NEW r \in Regions, NEW e \in EventIds, Broadcast(r, e)
      PROVE  TypeOK'
  <2>1. \A q \in Peers[r] \ unhealthy[r] : <<r, q, e>> \in Messages
    BY MakeMessage
  <2>2. posts' \in [Messages -> 0..2]
    <3>1. posts \in [Messages -> 0..2]
      BY DEF TypeOK
    <3>2. \A m \in Messages : posts[m] < 2 => posts[m] + 1 \in 0..2
      BY <3>1
    <3> QED
      BY <1>3, <3>1, <3>2 DEF Broadcast, Post
  <2> QED
    BY <1>3, <2>1, <2>2 DEF Broadcast, Post, TypeOK
<1>4. ASSUME NEW m \in Messages, Receive(m) PROVE TypeOK'
  <2>1. m[2] \in Regions /\ m[3] \in EventIds
    BY Shape
  <2> QED
    BY <1>4, <2>1, ProcessType, RespondType DEF Receive, Statuses, TypeOK
<1>5. ASSUME NEW m \in Messages, ReceiveFails(m) PROVE TypeOK'
  <2>1. m[2] \in Regions /\ m[3] \in EventIds
    BY Shape
  <2>2. row' \in [Regions -> [Posts -> EventIds \cup {NoRow}]]
    BY <1>5, <2>1, ProcessType DEF ReceiveFails, TypeOK
  <2>3. PICK status \in Statuses : Respond(m, status)
    BY <1>5 DEF ReceiveFails, Statuses
  <2> QED
    BY <1>5, <2>2, <2>3, RespondType DEF ReceiveFails, Fault, TypeOK
<1>6. ASSUME NEW m \in Messages, Refuse(m) PROVE TypeOK'
  BY <1>6, RespondType DEF Refuse, Statuses, TypeOK
<1>7. ASSUME NEW m \in Messages, Timeout(m) PROVE TypeOK'
  BY <1>7, Shape DEF Timeout, Fault, MarkUnhealthy, TypeOK
<1>8. ASSUME NEW m \in Messages, NEW status \in Statuses, Return(m, status)
      PROVE  TypeOK'
  <2>1. ASSUME NEW x \in responses' PROVE <<x[1], x[2], x[3]>> \in calls'
    <3>1. x \in responses /\ x # <<m[1], m[2], m[3], status>>
      BY <1>8, <2>1 DEF Return
    <3>2. /\ x = <<x[1], x[2], x[3], x[4]>>
          /\ x[1] \in Regions /\ x[2] \in Regions /\ x[3] \in EventIds
          /\ x[4] \in Statuses
      BY <3>1 DEF TypeOK
    <3>3. ASSUME <<x[1], x[2], x[3]>> = m PROVE FALSE
      <4>1. x[1] = m[1] /\ x[2] = m[2] /\ x[3] = m[3]
        BY <3>3
      <4>2. <<m[1], m[2], m[3], status>> \in responses
        BY <1>8 DEF Return
      <4>3. x[4] = status
        <5>1. <<x[1], x[2], x[3], x[4]>> \in responses
          BY <3>1, <3>2
        <5>2. <<x[1], x[2], x[3], status>> \in responses
          BY <4>1, <4>2
        <5>3. AnswerInv
          BY DEF Inv
        <5> QED
          BY <3>2, <5>1, <5>2, <5>3, OneAnswer
      <4> QED
        BY <3>1, <3>2, <4>1, <4>3
    <3> QED
      BY <1>8, <3>1, <3>3 DEF Return, TypeOK
  <2> QED
    <3>1. m[1] \in Regions /\ m[2] \in Peers[m[1]] /\ m[2] \in Regions
      BY Shape
    <3>2. \/ UNCHANGED unhealthy
          \/ unhealthy' = [unhealthy EXCEPT ![m[1]] = @ \ {m[2]}]
          \/ unhealthy' = [unhealthy EXCEPT ![m[1]] = @ \cup {m[2]}]
      BY <1>8 DEF Return, MarkHealthy, MarkUnhealthy
    <3>3. /\ unhealthy' \in [Regions -> SUBSET Regions]
          /\ \A r \in Regions : unhealthy'[r] \subseteq Peers[r]
      <4>1. CASE UNCHANGED unhealthy
        BY <4>1 DEF TypeOK
      <4>2. CASE unhealthy' = [unhealthy EXCEPT ![m[1]] = @ \ {m[2]}]
        BY <3>1, <4>2 DEF TypeOK
      <4>3. CASE unhealthy' = [unhealthy EXCEPT ![m[1]] = @ \cup {m[2]}]
        BY <3>1, <4>3 DEF TypeOK
      <4> QED
        BY <3>2, <4>1, <4>2, <4>3
    <3>4. blamed' \subseteq Regions \X Regions
      BY <1>8, <3>1 DEF Return, TypeOK
    <3> QED
      BY <1>8, <2>1, <3>3, <3>4 DEF Return, TypeOK
<1>9. ASSUME NEW r \in Regions, CheckHealth(r) PROVE TypeOK'
  <2>1. PICK down \in SUBSET Regions :
          /\ unhealthy' = [unhealthy EXCEPT ![r] = down]
          /\ blamed' = blamed \cup {<<r, q>> : q \in down}
    BY <1>9 DEF CheckHealth
  <2>2. faults' \in 0..MaxFaults
    BY <1>9 DEF CheckHealth, Fault, TypeOK
  <2> QED
    BY <1>9, <2>1, <2>2 DEF CheckHealth, TypeOK
<1>10. ASSUME NEW r \in Regions, Crash(r) PROVE TypeOK'
  BY <1>10 DEF Crash, Fault, TypeOK
<1>11. ASSUME NEW r \in Regions, Restart(r) PROVE TypeOK'
  BY <1>11 DEF Restart, TypeOK
<1>12. CASE UNCHANGED vars
  BY <1>12 DEF TypeOK
<1> QED
  BY <1>1, <1>2, <1>3, <1>4, <1>5, <1>6, <1>7, <1>8, <1>9, <1>10, <1>11, <1>12
  DEF Next

\* Triples and quadruples are equal when their parts are.
LEMMA SamePair ==
  ASSUME NEW m \in Messages, NEW r, NEW q, NEW e
  PROVE  <<r, q, e>> = m <=> r = m[1] /\ q = m[2] /\ e = m[3]
BY Shape

(***************************************************************************)
(* Whatever has become of a call stays accounted for: a request is         *)
(* answered, an answer is taken, and what is dropped leaves blame behind.  *)
(***************************************************************************)
LEMMA AccountedStays ==
  ASSUME Inv, [Next]_vars,
         NEW r \in Regions, NEW q \in Peers[r], NEW e \in EventIds,
         Accounted(r, q, e)
  PROVE  Accounted(r, q, e)'
<1> USE DEF vars, dataVars, processVars, netVars
<1>0. q \in Regions
  BY CrossAssumption
<1>1. ASSUME requests \subseteq requests', responses \subseteq responses',
             done[q] \subseteq done'[q], blamed \subseteq blamed'
      PROVE  Accounted(r, q, e)'
  BY <1>1 DEF Accounted
<1>2. ASSUME NEW f \in EventIds, Submit(f) \/ Resubmit(f)
      PROVE  Accounted(r, q, e)'
  <2>1. done[q] \subseteq done'[q]
    <3>1. Home[f] \in Regions /\ done \in [Regions -> SUBSET EventIds]
      BY CrossAssumption DEF Inv, TypeOK
    <3>2. UNCHANGED done \/ done' = [done EXCEPT ![Home[f]] = @ \cup {f}]
      BY <1>2 DEF Submit, Resubmit, Process
    <3> QED
      BY <1>0, <3>1, <3>2
  <2> QED
    BY <1>1, <1>2, <2>1 DEF Submit, Resubmit
<1>3. ASSUME NEW s \in Regions, NEW f \in EventIds, Broadcast(s, f)
      PROVE  Accounted(r, q, e)'
  BY <1>1, <1>3 DEF Broadcast, Post
<1>4. ASSUME NEW m \in Messages, Receive(m)
      PROVE  Accounted(r, q, e)'
  <2>1. done[q] \subseteq done'[q] /\ m[3] \in done'[m[2]]
    BY <1>0, <1>4, Shape DEF Receive, Process, Inv, TypeOK
  <2>2. CASE <<r, q, e>> = m
    BY <2>1, <2>2, SamePair DEF Accounted
  <2>3. CASE <<r, q, e>> # m
    BY <1>4, <2>1, <2>3 DEF Receive, Respond, Accounted
  <2> QED
    BY <2>2, <2>3
<1>5. ASSUME NEW m \in Messages, NEW status \in Statuses, Respond(m, status),
             m \in requests, UNCHANGED <<done, blamed>>
      PROVE  Accounted(r, q, e)'
  <2>1. CASE <<r, q, e>> = m
    <3>1. m \in calls => <<r, q, e, status>> \in responses'
      BY <1>5, <2>1, SamePair DEF Respond
    <3>2. m \notin calls => <<r, q>> \in blamed'
      BY <1>5, <2>1, SamePair DEF Inv, CallInv
    <3> QED
      BY <3>1, <3>2 DEF Accounted
  <2>2. CASE <<r, q, e>> # m
    BY <1>5, <2>2 DEF Respond, Accounted
  <2> QED
    BY <2>1, <2>2
<1>6. ASSUME NEW m \in Messages, ReceiveFails(m) \/ Refuse(m)
      PROVE  Accounted(r, q, e)'
  BY <1>5, <1>6 DEF ReceiveFails, Refuse, Statuses
<1>7. ASSUME NEW m \in Messages, Timeout(m)
      PROVE  Accounted(r, q, e)'
  <2>1. CASE <<r, q, e>> = m
    BY <1>7, <2>1, SamePair DEF Timeout, Accounted
  <2>2. CASE <<r, q, e>> # m
    BY <1>7, <2>2 DEF Timeout, Accounted
  <2> QED
    BY <2>1, <2>2
<1>8. ASSUME NEW m \in Messages, NEW status \in Statuses, Return(m, status)
      PROVE  Accounted(r, q, e)'
  <2>1. CASE <<r, q, e>> = m
    <3>1. r = m[1] /\ q = m[2] /\ e = m[3]
      BY <2>1, SamePair
    <3>2. status = "2xx" => e \in done[q]
      BY <1>0, <1>8, <3>1 DEF Return, Inv, AnswerInv
    <3>3. status # "2xx" => <<r, q>> \in blamed'
      BY <1>8, <3>1 DEF Return
    <3> QED
      BY <1>8, <3>2, <3>3 DEF Return, Accounted
  <2>2. CASE <<r, q, e>> # m
    <3>1. \A x \in Statuses : <<r, q, e, x>> # <<m[1], m[2], m[3], status>>
      BY <2>2, SamePair
    <3> QED
      BY <1>8, <3>1 DEF Return, Accounted
  <2> QED
    BY <2>1, <2>2
<1>9. ASSUME NEW s \in Regions, CheckHealth(s) \/ Restart(s)
      PROVE  Accounted(r, q, e)'
  BY <1>1, <1>9 DEF CheckHealth, Restart
<1>10. ASSUME NEW s \in Regions, Crash(s)
       PROVE  Accounted(r, q, e)'
  <2>1. CASE r = s
    BY <1>10, <2>1 DEF Crash, Accounted
  <2>2. CASE r # s
    BY <1>10, <2>2 DEF Crash, Accounted
  <2> QED
    BY <2>1, <2>2
<1>11. CASE UNCHANGED vars
  BY <1>1, <1>11
<1> QED
  BY <1>2, <1>3, <1>4, <1>6, <1>7, <1>8, <1>9, <1>10, <1>11 DEF Next

\* Only Post counts, and Broadcast calls it for an event that is not in sent.
LEMMA NextSent == Inv /\ [Next]_vars => SentOnce' /\ SentInv'
<1> SUFFICES ASSUME Inv, [Next]_vars PROVE SentOnce' /\ SentInv'
  OBVIOUS
<1> USE DEF vars, dataVars, processVars, netVars
<1>0. /\ sent \in [Regions -> SUBSET EventIds]
      /\ posts \in [Messages -> 0..2]
      /\ calls \subseteq Messages
  BY DEF Inv, TypeOK
<1>1. ASSUME UNCHANGED <<sent, posts>>, calls' \subseteq calls
      PROVE  SentOnce' /\ SentInv'
  BY <1>0, <1>1, AccountedStays DEF Inv, SentOnce, SentInv
<1>2. ASSUME NEW r \in Regions, NEW e \in EventIds, Broadcast(r, e)
      PROVE  SentOnce' /\ SentInv'
  <2>1. sent' = [sent EXCEPT ![r] = @ \cup {e}]
    BY <1>2 DEF Broadcast
  <2>2. CASE e \in sent[r]
    <3>1. UNCHANGED <<sent, calls, posts>>
      BY <1>0, <1>2, <2>1, <2>2 DEF Broadcast
    <3> QED
      BY <1>1, <3>1
  <2>3. CASE e \notin sent[r]
    <3> DEFINE new == {<<r, q, e>> : q \in Peers[r] \ unhealthy[r]}
    <3>1. Post(r, e, Peers[r] \ unhealthy[r])
      BY <1>2, <2>3 DEF Broadcast
    <3>2. \A m \in new : m \in Messages /\ m[3] = e /\ m[1] = r
      BY MakeMessage
    <3>3. ASSUME NEW m \in Messages
          PROVE  posts'[m] < 2 /\ (posts'[m] > 0 => m[3] \in sent'[m[1]])
      <4>0. m[1] \in Regions
        BY Shape
      <4>1. CASE m \in new
        <5>1. posts[m] = 0
          BY <1>0, <2>3, <3>2, <4>1 DEF Inv, SentInv
        <5>2. posts'[m] = 1
          BY <3>1, <4>1, <5>1 DEF Post
        <5> QED
          BY <1>0, <2>1, <3>2, <4>1, <5>2
      <4>2. CASE m \notin new
        <5>1. posts'[m] = posts[m]
          BY <3>1, <4>2 DEF Post
        <5> QED
          BY <1>0, <2>1, <4>0, <5>1 DEF Inv, SentInv, SentOnce
      <4> QED
        BY <4>1, <4>2
    <3>4. ASSUME NEW m \in calls' PROVE m[3] \in sent'[m[1]]
      <4>1. m \in calls \/ m \in new
        BY <3>1 DEF Post
      <4>2. m[1] \in Regions
        BY <1>0, <3>2, <4>1, Shape
      <4> QED
        BY <1>0, <2>1, <3>2, <4>1, <4>2 DEF Inv, SentInv
    <3>5. ASSUME NEW s \in Regions, NEW f \in sent'[s], NEW q \in Peers[s]
          PROVE  Accounted(s, q, f)'
      <4>1. f \in EventIds
        BY <1>0, <2>1
      <4>2. CASE f \in sent[s]
        BY <4>1, <4>2, AccountedStays DEF Inv, SentInv
      <4>3. CASE s = r /\ f = e /\ q \notin unhealthy[r]
        <5>1. <<s, q, f>> \in requests'
          BY <3>1, <4>3 DEF Post
        <5> QED
          BY <5>1 DEF Accounted
      <4>4. CASE s = r /\ f = e /\ q \in unhealthy[r]
        <5>1. <<s, q>> \in blamed
          BY <4>4 DEF Inv, FlagInv
        <5> QED
          BY <4>1, <5>1, AccountedStays DEF Accounted
      <4> QED
        BY <1>0, <2>1, <4>2, <4>3, <4>4
    <3> QED
      BY <3>3, <3>4, <3>5 DEF SentOnce, SentInv
  <2> QED
    BY <2>2, <2>3
<1>3. ASSUME NEW r \in Regions, Crash(r)
      PROVE  SentOnce' /\ SentInv'
  <2>1. ASSUME NEW m \in Messages
        PROVE  posts'[m] < 2 /\ (posts'[m] > 0 => m[3] \in sent'[m[1]])
    BY <1>0, <1>3, Shape DEF Crash, Inv, SentOnce, SentInv
  <2>2. ASSUME NEW m \in calls' PROVE m[3] \in sent'[m[1]]
    <3>1. m \in calls /\ m[1] # r
      BY <1>3 DEF Crash
    <3>2. m[1] \in Regions
      BY <1>0, <3>1, Shape
    <3> QED
      BY <1>0, <1>3, <3>1, <3>2 DEF Crash, Inv, SentInv
  <2>3. ASSUME NEW s \in Regions, NEW f \in sent'[s], NEW q \in Peers[s]
        PROVE  Accounted(s, q, f)'
    <3>1. f \in sent[s] /\ f \in EventIds
      BY <1>0, <1>3 DEF Crash
    <3> QED
      BY <3>1, AccountedStays DEF Inv, SentInv
  <2> QED
    BY <2>1, <2>2, <2>3 DEF SentOnce, SentInv
<1>4. ASSUME NEW e \in EventIds, Submit(e) \/ Resubmit(e)
      PROVE  SentOnce' /\ SentInv'
  BY <1>1, <1>4 DEF Submit, Resubmit
<1>5. ASSUME NEW m \in Messages, NEW status \in Statuses,
             \/ Receive(m) \/ ReceiveFails(m) \/ Refuse(m) \/ Timeout(m)
             \/ Return(m, status)
      PROVE  SentOnce' /\ SentInv'
  BY <1>1, <1>5 DEF Receive, ReceiveFails, Refuse, Timeout, Return
<1>6. ASSUME NEW r \in Regions, CheckHealth(r) \/ Restart(r)
      PROVE  SentOnce' /\ SentInv'
  BY <1>1, <1>6 DEF CheckHealth, Restart
<1>7. CASE UNCHANGED vars
  BY <1>1, <1>7
<1> QED
  BY <1>2, <1>3, <1>4, <1>5, <1>6, <1>7 DEF Next, Statuses

\* A flag goes down only when a call or a health check has failed.
LEMMA NextFlag == Inv /\ [Next]_vars => FlagInv'
<1> SUFFICES ASSUME Inv, [Next]_vars PROVE FlagInv'
  OBVIOUS
<1> USE DEF vars, dataVars, processVars, netVars
<1>0. unhealthy \in [Regions -> SUBSET Regions]
  BY DEF Inv, TypeOK
<1>1. ASSUME UNCHANGED unhealthy, blamed \subseteq blamed' PROVE FlagInv'
  BY <1>1 DEF Inv, FlagInv
<1>2. ASSUME NEW m \in Messages, Timeout(m) PROVE FlagInv'
  BY <1>0, <1>2, Shape DEF Timeout, MarkUnhealthy, Inv, FlagInv
<1>3. ASSUME NEW m \in Messages, NEW status \in Statuses, Return(m, status)
      PROVE  FlagInv'
  <2>1. CASE status \in {"2xx", "4xx"}
    <3>1. \A r \in Regions : unhealthy'[r] \subseteq unhealthy[r]
      BY <1>0, <1>3, <2>1, Shape DEF Return, MarkHealthy
    <3> QED
      BY <1>3, <3>1 DEF Return, Inv, FlagInv
  <2>2. CASE status \notin {"2xx", "4xx"}
    <3>1. MarkUnhealthy(m[1], m[2]) /\ blamed' = blamed \cup {<<m[1], m[2]>>}
      BY <1>3, <2>2 DEF Return
    <3> QED
      BY <1>0, <3>1, Shape DEF MarkUnhealthy, Inv, FlagInv
  <2> QED
    BY <2>1, <2>2
<1>4. ASSUME NEW r \in Regions, CheckHealth(r) \/ Restart(r) PROVE FlagInv'
  BY <1>0, <1>1, <1>4 DEF CheckHealth, Restart, Inv, FlagInv
<1>5. ASSUME NEW r \in Regions, Crash(r) PROVE FlagInv'
  BY <1>0, <1>5 DEF Crash, Inv, FlagInv
<1>6. ASSUME NEW e \in EventIds, Submit(e) \/ Resubmit(e) PROVE FlagInv'
  BY <1>1, <1>6 DEF Submit, Resubmit
<1>7. ASSUME NEW r \in Regions, NEW e \in EventIds, Broadcast(r, e)
      PROVE  FlagInv'
  BY <1>1, <1>7 DEF Broadcast
<1>8. ASSUME NEW m \in Messages, Receive(m) \/ ReceiveFails(m) \/ Refuse(m)
      PROVE  FlagInv'
  BY <1>1, <1>8 DEF Receive, ReceiveFails, Refuse
<1>9. CASE UNCHANGED vars
  BY <1>1, <1>9
<1> QED
  BY <1>2, <1>3, <1>4, <1>5, <1>6, <1>7, <1>8, <1>9 DEF Next

\* An event that home has answered is waiting to be broadcast or has been.
LEMMA NextMiss == Inv /\ [Next]_vars => MissIsExplained'
<1> SUFFICES ASSUME Inv, [Next]_vars,
                    NEW e \in submitted', NEW q \in Peers[Home[e]]
             PROVE  \/ e \in goroutines'[Home[e]]
                    \/ Accounted(Home[e], q, e)'
  BY DEF MissIsExplained
<1> USE DEF vars, dataVars, processVars, netVars
<1>0. /\ goroutines \in [Regions -> SUBSET EventIds]
      /\ submitted \subseteq EventIds
      /\ TypeOK'
  BY NextType DEF Inv, TypeOK
<1>1. e \in EventIds /\ Home[e] \in Regions
  BY <1>0, CrossAssumption DEF TypeOK
<1>2. ASSUME Accounted(Home[e], q, e)
      PROVE  Accounted(Home[e], q, e)'
  BY <1>1, <1>2, AccountedStays
<1>3. CASE e \notin submitted
  <2>1. Submit(e)
    BY <1>0, <1>3 DEF Next, Submit, Resubmit, Broadcast, Receive, ReceiveFails,
                      Refuse, Timeout, Return, CheckHealth, Crash, Restart
  <2> QED
    BY <1>0, <1>1, <2>1 DEF Submit
<1>4. CASE e \in submitted /\ e \in goroutines[Home[e]]
  <2>1. ASSUME NEW r \in Regions, NEW f \in EventIds, Broadcast(r, f)
        PROVE  \/ e \in goroutines'[Home[e]]
               \/ Accounted(Home[e], q, e)'
    <3>1. CASE r = Home[e] /\ f = e
      <4>1. e \in sent'[Home[e]]
        BY <1>1, <2>1, <3>1 DEF Broadcast, Inv, TypeOK
      <4>2. SentInv'
        BY NextSent
      <4> QED
        BY <1>1, <4>1, <4>2 DEF SentInv
    <3>2. CASE ~(r = Home[e] /\ f = e)
      BY <1>0, <1>1, <1>4, <2>1, <3>2 DEF Broadcast
    <3> QED
      BY <3>1, <3>2
  <2>2. ASSUME NEW r \in Regions, Crash(r)
        PROVE  \/ e \in goroutines'[Home[e]]
               \/ Accounted(Home[e], q, e)'
    BY <1>0, <1>1, <1>4, <2>2 DEF Crash, Accounted
  <2>3. ASSUME NEW f \in EventIds, Submit(f) \/ Resubmit(f)
        PROVE  e \in goroutines'[Home[e]]
    BY <1>0, <1>1, <1>4, <2>3, CrossAssumption DEF Submit, Resubmit
  <2>4. ASSUME UNCHANGED goroutines PROVE e \in goroutines'[Home[e]]
    BY <1>4, <2>4
  <2> QED
    BY <2>1, <2>2, <2>3, <2>4
    DEF Next, Receive, ReceiveFails, Refuse, Timeout, Return, CheckHealth, Restart
<1>5. CASE e \in submitted /\ e \notin goroutines[Home[e]]
  BY <1>2, <1>5 DEF Inv, MissIsExplained
<1> QED
  BY <1>3, <1>4, <1>5

\* A request is answered once, and "2xx" stands for an event that was handled.
LEMMA NextCall == Inv /\ [Next]_vars => CallInv' /\ AnswerInv'
<1> SUFFICES ASSUME Inv, [Next]_vars PROVE CallInv' /\ AnswerInv'
  OBVIOUS
<1> USE DEF vars, dataVars, processVars, netVars
<1>0. /\ calls \subseteq Messages /\ requests \subseteq Messages
      /\ done \in [Regions -> SUBSET EventIds]
      /\ sent \in [Regions -> SUBSET EventIds]
      /\ \A x \in responses : <<x[1], x[2], x[3]>> \in calls
  BY DEF Inv, TypeOK
<1>1. ASSUME responses' \subseteq responses,
             \A q \in Regions : done[q] \subseteq done'[q]
      PROVE  AnswerInv'
  BY <1>1 DEF Inv, AnswerInv
<1>2. ASSUME requests' \subseteq requests, responses' \subseteq responses,
             blamed \subseteq blamed',
             \A m \in calls \ calls' :
               <<m[1], m[2]>> \in blamed' \/ m \notin requests'
      PROVE  CallInv'
  BY <1>2 DEF Inv, CallInv
<1>3. ASSUME NEW e \in EventIds, Submit(e) \/ Resubmit(e)
      PROVE  CallInv' /\ AnswerInv'
  <2>1. UNCHANGED done \/ done' = [done EXCEPT ![Home[e]] = @ \cup {e}]
    BY <1>3 DEF Submit, Resubmit, Process
  <2>2. \A q \in Regions : done[q] \subseteq done'[q]
    BY <1>0, <2>1, CrossAssumption
  <2> QED
    BY <1>1, <1>2, <1>3, <2>2 DEF Submit, Resubmit
<1>4. ASSUME NEW r \in Regions, NEW e \in EventIds, Broadcast(r, e)
      PROVE  CallInv' /\ AnswerInv'
  <2>1. AnswerInv'
    BY <1>1, <1>4 DEF Broadcast
  <2>2. ASSUME NEW m \in requests' \ requests
        PROVE  /\ m \in calls'
               /\ \A status \in Statuses :
                    <<m[1], m[2], m[3], status>> \notin responses'
    <3>1. PICK q \in Peers[r] : m = <<r, q, e>>
      BY <1>4, <2>2 DEF Broadcast, Post
    <3>2. m \in calls' /\ e \notin sent[r] /\ UNCHANGED responses
      BY <1>4, <2>2 DEF Broadcast, Post
    <3>3. m \notin calls
      BY <3>1, <3>2 DEF Inv, SentInv
    <3>4. ASSUME NEW status \in Statuses,
                 <<m[1], m[2], m[3], status>> \in responses
          PROVE  FALSE
      BY <1>0, <3>1, <3>3, <3>4
    <3> QED
      BY <3>2, <3>4
  <2>3. ASSUME NEW m \in requests
        PROVE  /\ m \in calls' \/ <<m[1], m[2]>> \in blamed'
               /\ \A status \in Statuses :
                    <<m[1], m[2], m[3], status>> \notin responses'
    BY <1>4 DEF Broadcast, Post, Inv, CallInv
  <2> QED
    BY <2>1, <2>2, <2>3 DEF CallInv
<1>5. ASSUME NEW m \in Messages, NEW status \in Statuses, m \in requests,
             Respond(m, status), UNCHANGED <<calls, blamed>>,
             \A q \in Regions : done[q] \subseteq done'[q],
             status = "2xx" => m[3] \in done'[m[2]]
      PROVE  CallInv' /\ AnswerInv'
  <2>1. responses' \subseteq responses \cup {<<m[1], m[2], m[3], status>>}
    BY <1>5 DEF Respond
  <2>2. \A x \in Statuses : <<m[1], m[2], m[3], x>> \notin responses
    BY <1>5 DEF Inv, CallInv
  <2>3. CallInv'
    <3> SUFFICES ASSUME NEW n \in requests'
                 PROVE  /\ n \in calls' \/ <<n[1], n[2]>> \in blamed'
                        /\ \A x \in Statuses :
                             <<n[1], n[2], n[3], x>> \notin responses'
      BY DEF CallInv
    <3>1. n \in requests /\ n # m /\ n \in Messages
      BY <1>0, <1>5 DEF Respond
    <3>2. \A x \in Statuses :
            <<n[1], n[2], n[3], x>> # <<m[1], m[2], m[3], status>>
      BY <3>1, Shape
    <3> QED
      BY <1>5, <2>1, <3>1, <3>2 DEF Inv, CallInv
  <2>4. AnswerInv'
    <3> SUFFICES ASSUME NEW r \in Regions, NEW q \in Regions, NEW e \in EventIds
                 PROVE  /\ <<r, q, e, "2xx">> \in responses' => e \in done'[q]
                        /\ \A x, y \in Statuses :
                             /\ <<r, q, e, x>> \in responses'
                             /\ <<r, q, e, y>> \in responses'
                             => x = y
      BY DEF AnswerInv
    <3>1. CASE r = m[1] /\ q = m[2] /\ e = m[3]
      BY <1>5, <2>1, <2>2, <3>1 DEF Statuses
    <3>2. CASE ~(r = m[1] /\ q = m[2] /\ e = m[3])
      BY <1>5, <2>1, <3>2 DEF Inv, AnswerInv
    <3> QED
      BY <3>1, <3>2
  <2> QED
    BY <2>3, <2>4
<1>6. ASSUME NEW m \in Messages, Receive(m)
      PROVE  CallInv' /\ AnswerInv'
  <2>1. /\ done' = [done EXCEPT ![m[2]] = @ \cup {m[3]}]
        /\ m[2] \in Regions /\ m[3] \in EventIds
    BY <1>6, Shape DEF Receive, Process
  <2>2. /\ \A q \in Regions : done[q] \subseteq done'[q]
        /\ m[3] \in done'[m[2]]
    BY <1>0, <2>1
  <2> QED
    BY <1>5, <1>6, <2>2 DEF Receive, Statuses
<1>7. ASSUME NEW m \in Messages, ReceiveFails(m) \/ Refuse(m)
      PROVE  CallInv' /\ AnswerInv'
  BY <1>5, <1>7 DEF ReceiveFails, Refuse, Statuses
<1>8. ASSUME NEW m \in Messages, Timeout(m)
      PROVE  CallInv' /\ AnswerInv'
  BY <1>1, <1>2, <1>8 DEF Timeout
<1>9. ASSUME NEW m \in Messages, NEW status \in Statuses, Return(m, status)
      PROVE  CallInv' /\ AnswerInv'
  <2>1. m \notin requests
    BY <1>9 DEF Return, Inv, CallInv
  <2> QED
    BY <1>1, <1>2, <1>9, <2>1 DEF Return
<1>10. ASSUME NEW r \in Regions, CheckHealth(r) \/ Restart(r)
       PROVE  CallInv' /\ AnswerInv'
  BY <1>1, <1>2, <1>10 DEF CheckHealth, Restart
<1>11. ASSUME NEW r \in Regions, Crash(r)
       PROVE  CallInv' /\ AnswerInv'
  <2>1. ASSUME NEW m \in calls \ calls' PROVE <<m[1], m[2]>> \in blamed'
    BY <1>0, <1>11, <2>1, Shape DEF Crash
  <2> QED
    BY <1>1, <1>2, <1>11, <2>1 DEF Crash
<1>12. CASE UNCHANGED vars
  BY <1>1, <1>2, <1>12
<1> QED
  BY <1>3, <1>4, <1>6, <1>7, <1>8, <1>9, <1>10, <1>11, <1>12 DEF Next

(***************************************************************************)
(* Broadcast, sendToPeer and HandleCrossSync keep the inductive invariant. *)
(***************************************************************************)
THEOREM Invariance == Spec => []Inv
<1>1. Inv /\ [Next]_vars => Inv'
  BY NextType, NextSent, NextMiss, NextFlag, NextCall DEF Inv
<1> QED
  BY InitInv, <1>1, PTL DEF Spec

(***************************************************************************)
(* The sent map makes Broadcast send an event to a peer at most once in    *)
(* the life of a process, however many goroutines carry the event.         *)
(***************************************************************************)
THEOREM SendsOnce == Spec => []SentOnce
<1>1. Inv => SentOnce
  BY DEF Inv
<1> QED
  BY <1>1, Invariance, PTL

(***************************************************************************)
(* An event a peer misses has a failed call to that very peer, or a crash  *)
(* of its home, as the reason: Broadcast loses nothing by itself.          *)
(***************************************************************************)
THEOREM MissesExplained == Spec => []MissIsExplained
<1>1. Inv => MissIsExplained
  BY DEF Inv
<1> QED
  BY <1>1, Invariance, PTL

(***************************************************************************)
(* Broadcast, sendToPeer and HandleCrossSync keep the types: an answer on  *)
(* its way has a caller that waits, and only peers are held unhealthy.     *)
(***************************************************************************)
THEOREM TypeCorrect == Spec => []TypeOK
<1>1. Inv => TypeOK
  BY DEF Inv
<1> QED
  BY <1>1, Invariance, PTL

-----------------------------------------------------------------------------
(***************************************************************************)
(* SourceInv: where events come from.                                      *)
(***************************************************************************)

\* Steps that start nothing, submit nothing and record nothing.
LEMMA SourceQuiet ==
  ASSUME SourceInv, UNCHANGED <<done, submitted>>,
         \A r \in Regions : goroutines'[r] \subseteq goroutines[r],
         calls' \cup requests' \subseteq calls \cup requests
  PROVE  SourceInv'
BY DEF SourceInv

LEMMA NextSource == Inv /\ SourceInv /\ [Next]_vars => SourceInv'
<1> SUFFICES ASSUME Inv, SourceInv, [Next]_vars PROVE SourceInv'
  OBVIOUS
<1> USE CrossAssumption DEF vars, dataVars, processVars, netVars
<1>0. TypeOK /\ submitted \subseteq EventIds
  BY DEF Inv, TypeOK
<1>1. ASSUME NEW e \in EventIds, Submit(e) PROVE SourceInv'
  <2> DEFINE r == Home[e]
  <2>1. /\ r \in Regions /\ Prior[e] \subseteq submitted
        /\ goroutines' = [goroutines EXCEPT ![r] = @ \cup {e}]
        /\ done' = [done EXCEPT ![r] = @ \cup {e}]
        /\ submitted' = submitted \cup {e}
        /\ UNCHANGED <<calls, requests>>
    BY <1>1 DEF Submit, Process
  <2>2. \A s \in Regions : \A f \in goroutines'[s] : f \in submitted' /\ Home[f] = s
    BY <1>0, <2>1 DEF SourceInv, TypeOK
  <2>3. \A s \in Regions : done'[s] \subseteq submitted'
    BY <1>0, <2>1 DEF SourceInv, TypeOK
  <2>4. \A f \in submitted' : f \in done'[Home[f]] /\ Prior[f] \subseteq submitted'
    BY <1>0, <2>1 DEF SourceInv, TypeOK
  <2> QED
    BY <2>1, <2>2, <2>3, <2>4 DEF SourceInv
<1>2. ASSUME NEW e \in EventIds, Resubmit(e) PROVE SourceInv'
  <2> DEFINE r == Home[e]
  <2>1. /\ r \in Regions /\ e \in submitted
        /\ goroutines' = [goroutines EXCEPT ![r] = @ \cup {e}]
        /\ UNCHANGED <<calls, requests, done, submitted>>
    BY <1>2 DEF Resubmit
  <2>2. \A s \in Regions : \A f \in goroutines'[s] : f \in submitted' /\ Home[f] = s
    BY <1>0, <2>1 DEF SourceInv, TypeOK
  <2> QED
    BY <2>1, <2>2 DEF SourceInv
<1>3. ASSUME NEW r \in Regions, NEW e \in EventIds, Broadcast(r, e)
      PROVE  SourceInv'
  <2>1. /\ e \in goroutines[r] /\ e \in submitted /\ Home[e] = r
        /\ goroutines' = [goroutines EXCEPT ![r] = @ \ {e}]
        /\ UNCHANGED <<done, submitted>>
    BY <1>3 DEF Broadcast, SourceInv
  <2>2. ASSUME NEW m \in calls' \cup requests'
        PROVE  m \in calls \cup requests \/ (m[1] = r /\ m[3] = e)
    BY <1>3, <2>2 DEF Broadcast, Post
  <2>3. \A s \in Regions : \A f \in goroutines'[s] : f \in submitted /\ Home[f] = s
    BY <1>0, <2>1 DEF SourceInv, TypeOK
  <2>4. \A m \in calls' \cup requests' : m[3] \in submitted /\ Home[m[3]] = m[1]
    BY <2>1, <2>2 DEF SourceInv
  <2> QED
    BY <2>1, <2>3, <2>4 DEF SourceInv
<1>4. ASSUME NEW m \in Messages, Receive(m) PROVE SourceInv'
  <2>1. /\ m[2] \in Regions /\ m[3] \in submitted
        /\ done' = [done EXCEPT ![m[2]] = @ \cup {m[3]}]
        /\ requests' \subseteq requests
        /\ UNCHANGED <<goroutines, calls, submitted>>
    BY <1>4, Shape DEF Receive, Process, Respond, SourceInv
  <2>2. \A s \in Regions : done[s] \subseteq done'[s] /\ done'[s] \subseteq submitted
    BY <1>0, <2>1 DEF SourceInv, TypeOK
  <2>3. \A f \in submitted : Home[f] \in Regions
    BY <1>0
  <2> QED
    BY <2>1, <2>2, <2>3 DEF SourceInv
<1>5. ASSUME NEW m \in Messages, ReceiveFails(m) \/ Refuse(m) \/ Timeout(m)
      PROVE  SourceInv'
  <2>1. /\ UNCHANGED <<done, submitted, goroutines>>
        /\ calls' \cup requests' \subseteq calls \cup requests
    BY <1>5 DEF ReceiveFails, Refuse, Timeout, Respond
  <2> QED
    BY <2>1, SourceQuiet
<1>6. ASSUME NEW m \in Messages, NEW status \in Statuses, Return(m, status)
      PROVE  SourceInv'
  BY <1>6, SourceQuiet DEF Return
<1>7. ASSUME NEW r \in Regions, CheckHealth(r) \/ Restart(r) PROVE SourceInv'
  BY <1>7, SourceQuiet DEF CheckHealth, Restart
<1>8. ASSUME NEW r \in Regions, Crash(r) PROVE SourceInv'
  <2>1. /\ \A s \in Regions : goroutines'[s] \subseteq goroutines[s]
        /\ UNCHANGED <<done, submitted>>
        /\ calls' \cup requests' \subseteq calls \cup requests
    BY <1>0, <1>8 DEF Crash, TypeOK
  <2> QED
    BY <2>1, SourceQuiet
<1>9. CASE UNCHANGED vars
  BY <1>9, SourceQuiet
<1> QED
  BY <1>1, <1>2, <1>3, <1>4, <1>5, <1>6, <1>7, <1>8, <1>9 DEF Next

\* Broadcasts start at the home of an event, for ever.
LEMMA SourceInvariance == Spec => [](Inv /\ SourceInv)
<1>1. Init => SourceInv
  BY CrossAssumption DEF Init, SourceInv
<1> QED
  BY <1>1, NextSource, Invariance, PTL DEF Spec

-----------------------------------------------------------------------------
(***************************************************************************)
(* The refinement: what a step does to the logs and the rows is a step of  *)
(* Replication, or nothing.                                                *)
(***************************************************************************)

\* The effect of an event on the rows is the one Replication speaks of.
LEMMA EffectIsApply ==
  ASSUME NEW r \in Regions, NEW e \in EventIds, Effect(r, e)
  PROVE  Replica!Apply(r, e)
BY DEF Effect, Replica!Apply, Replica!Content

\* Handling an event takes it over, or does nothing if it is in the log.
LEMMA ProcessTakesOver ==
  ASSUME TypeOK, NEW r \in Regions, NEW e \in EventIds, Process(r, e)
  PROVE  Replica!TakeOver(r, e) \/ UNCHANGED <<done, row>>
<1>1. CASE e \in done[r]
  BY <1>1 DEF Process, TypeOK
<1>2. CASE e \notin done[r]
  BY <1>2, EffectIsApply DEF Process, Replica!TakeOver
<1> QED
  BY <1>1, <1>2

\* A request comes from the home of its event, which has logged it.
LEMMA RequestFromHome ==
  ASSUME SourceInv, NEW m \in Messages, m \in requests
  PROVE  /\ m[2] \in Regions /\ m[3] \in EventIds
         /\ m[2] \in Peers[Home[m[3]]]
         /\ m[3] \in done[Home[m[3]]]
BY Shape DEF SourceInv

LEMMA StepReplicates ==
  Inv /\ SourceInv /\ [Next]_vars =>
    [Replica!ReplicationNext]_(Replica!replicationVars)
<1> SUFFICES ASSUME Inv, SourceInv, [Next]_vars
             PROVE  Replica!ReplicationNext \/ UNCHANGED <<done, row>>
  BY DEF Replica!replicationVars
<1> USE DEF vars, dataVars, processVars, netVars
<1>0. TypeOK
  BY DEF Inv
<1>1. ASSUME NEW e \in EventIds, Submit(e)
      PROVE  Replica!ReplicationNext \/ UNCHANGED <<done, row>>
  <2>1. Home[e] \in Regions /\ Process(Home[e], e)
    BY <1>1, CrossAssumption DEF Submit
  <2>2. Replica!Accept(e) \/ UNCHANGED <<done, row>>
    BY <1>0, <2>1, ProcessTakesOver DEF Replica!Accept
  <2> QED
    BY <2>2 DEF Replica!ReplicationNext
<1>2. ASSUME NEW e \in EventIds, Resubmit(e)
      PROVE  Replica!ReplicationNext
  <2>1. /\ Home[e] \in Regions /\ Effect(Home[e], e)
        /\ e \in done[Home[e]] /\ UNCHANGED done
    BY <1>2, CrossAssumption DEF Resubmit, SourceInv
  <2>2. Replica!Rewrite(Home[e], e)
    BY <2>1, EffectIsApply DEF Replica!Rewrite
  <2> QED
    BY <2>1, <2>2 DEF Replica!ReplicationNext
<1>3. ASSUME NEW m \in Messages, Receive(m)
      PROVE  Replica!ReplicationNext \/ UNCHANGED <<done, row>>
  <2>1. m \in requests /\ Process(m[2], m[3])
    BY <1>3 DEF Receive
  <2>2. Replica!Copy(m[2], m[3]) \/ UNCHANGED <<done, row>>
    BY <1>0, <2>1, RequestFromHome, ProcessTakesOver DEF Replica!Copy
  <2> QED
    BY <2>1, <2>2, RequestFromHome DEF Replica!ReplicationNext
<1>4. ASSUME NEW m \in Messages, ReceiveFails(m)
      PROVE  Replica!ReplicationNext \/ UNCHANGED <<done, row>>
  <2>1. m \in requests /\ UNCHANGED done /\ (Effect(m[2], m[3]) \/ UNCHANGED row)
    BY <1>4 DEF ReceiveFails
  <2>2. CASE Effect(m[2], m[3])
    <3>1. Replica!Rewrite(m[2], m[3])
      BY <2>1, <2>2, RequestFromHome, EffectIsApply DEF Replica!Rewrite
    <3> QED
      BY <2>1, <3>1, RequestFromHome DEF Replica!ReplicationNext
  <2> QED
    BY <2>1, <2>2
<1>5. ASSUME NEW m \in Messages, NEW status \in Statuses,
             Refuse(m) \/ Timeout(m) \/ Return(m, status)
      PROVE  UNCHANGED <<done, row>>
  BY <1>5 DEF Refuse, Timeout, Return
<1>6. ASSUME NEW r \in Regions, NEW e \in EventIds, Broadcast(r, e)
      PROVE  UNCHANGED <<done, row>>
  BY <1>6 DEF Broadcast
<1>7. ASSUME NEW r \in Regions, CheckHealth(r) \/ Crash(r) \/ Restart(r)
      PROVE  UNCHANGED <<done, row>>
  BY <1>7 DEF CheckHealth, Crash, Restart
<1>8. CASE UNCHANGED vars
  BY <1>8
<1> QED
  BY <1>1, <1>2, <1>3, <1>4, <1>5, <1>6, <1>7, <1>8, Zenon
  DEF Next, Statuses

(***************************************************************************)
(* The regions implement Replication: an event spreads from its home only, *)
(* is applied as a whole, and is in no log before it is in the rows, for   *)
(* any regions and peers, whatever calls fail and whichever processes die. *)
(***************************************************************************)
THEOREM Replicates == Spec => ImplementsReplication
<1>1. Init => Replica!ReplicationInit
  BY DEF Init, Replica!ReplicationInit
<1> QED
  BY <1>1, StepReplicates, SourceInvariance, PTL
  DEF Spec, ImplementsReplication, Replica!ReplicationSpec
=============================================================================
