-------------------------- MODULE FeedCacheProofs --------------------------
(***************************************************************************)
(* Theorems about FeedCache, for any number of posts, requests, limits and *)
(* failures.                                                               *)
(***************************************************************************)
EXTENDS FeedCache, TLAPS

\* What the commands leave of the types of Redis's keys and of the faults.
RedisType ==
  /\ cache \in [Feeds -> SUBSET (1..created)]
  /\ ttl \subseteq {k \in Feeds : cache[k] # {}}
  /\ blamed \subseteq {k \in Feeds : cache[k] # {}} \ ttl
  /\ faults \in 0..MaxFaults

\* A failure is counted up to the bound.
LEMMA FaultType == faults \in 0..MaxFaults /\ Fault => faults' \in 0..MaxFaults
BY FeedAssumption DEF Fault

\* No feed is cached and no request runs.
LEMMA InitInv == Init => Inv
BY FeedAssumption DEF Init, Inv, TypeOK, RequestInv, ExpiryPending, Feeds

\* A command, also one that is lost, keeps the types of Redis's keys.
LEMMA CommandType ==
  ASSUME RedisType, UNCHANGED created, NEW k \in Feeds, NEW set \in SUBSET (1..created),
         \/ Del(k) \/ ZAdd(k, set) \/ Expire(k) \/ Lost
         \/ Fault /\ UNCHANGED <<cache, ttl>> /\ (Blame(k) \/ UNCHANGED blamed)
  PROVE  RedisType'
<1>1. CASE Del(k)
  BY <1>1 DEF Del, RedisType
<1>2. CASE ZAdd(k, set)
  BY <1>2 DEF ZAdd, RedisType
<1>3. CASE Expire(k)
  BY <1>3 DEF Expire, RedisType
<1>4. CASE Lost
  BY <1>4, FaultType DEF Lost, redisVars, RedisType
<1>5. CASE Fault /\ UNCHANGED <<cache, ttl>> /\ (Blame(k) \/ UNCHANGED blamed)
  BY <1>5, FaultType DEF Blame, RedisType
<1> QED
  BY <1>1, <1>2, <1>3, <1>4, <1>5

\* Every command and every step of a request keeps the types.
LEMMA NextType == Inv /\ [Next]_vars => TypeOK'
<1> SUFFICES ASSUME TypeOK, RequestInv, [Next]_vars PROVE TypeOK'
  BY DEF Inv
<1> USE FeedAssumption DEF vars, indexVars, redisVars, requestVars
<1>0. RedisType
  BY DEF TypeOK, RedisType
<1>1. ASSUME NEW w \in Workers, NEW k \in Feeds, NEW n \in Limits, Read(w, k, n)
      PROVE  TypeOK'
  BY <1>1, FaultType DEF Read, TypeOK
<1>2. ASSUME NEW w \in Workers, Query(w) PROVE TypeOK'
  BY <1>2 DEF Query, TypeOK, Indexed
<1>3. ASSUME NEW w \in Workers, FillDel(w) PROVE TypeOK'
  <2>1. RedisType'
    BY <1>0, <1>3, CommandType DEF FillDel, RequestInv
  <2> QED
    BY <1>3, <2>1 DEF FillDel, Goto, TypeOK, RedisType
<1>4. ASSUME NEW w \in Workers, FillAdd(w) PROVE TypeOK'
  <2>1. RedisType'
    BY <1>0, <1>4, CommandType DEF FillAdd, RequestInv, TypeOK
  <2> QED
    BY <1>4, <2>1 DEF FillAdd, TypeOK, RedisType
<1>5. ASSUME NEW w \in Workers, SetExpiry(w) PROVE TypeOK'
  <2>1. RedisType'
    BY <1>0, <1>5, CommandType DEF SetExpiry, RequestInv
  <2> QED
    BY <1>5, <2>1 DEF SetExpiry, Finish, TypeOK, RedisType
<1>6. ASSUME NEW w \in Workers, Create(w) PROVE TypeOK'
  <2>1. created \in Nat /\ created + 1 \in 0..MaxPost
    BY <1>6 DEF Create, TypeOK
  <2>2. created + 1 \in 1..(created + 1) /\ 1..created \subseteq 1..(created + 1)
    BY <2>1
  <2> QED
    BY <1>6, <2>1, <2>2 DEF Create, TypeOK
<1>7. ASSUME NEW w \in Workers, Invalidate(w) PROVE TypeOK'
  <2>1. RedisType'
    BY <1>0, <1>7, CommandType DEF Invalidate, Feeds
  <2> QED
    BY <1>7, <2>1 DEF Invalidate, Finish, Goto, TypeOK, RedisType
<1>8. ASSUME NEW w \in Workers, Push(w) PROVE TypeOK'
  <2>1. post[w] \in 1..created /\ "following" \in Feeds
    BY <1>8 DEF Push, TypeOK, RequestInv, Feeds
  <2>2. RedisType'
    BY <1>0, <1>8, <2>1, CommandType DEF Push
  <2> QED
    BY <1>8, <2>1, <2>2 DEF Push, TypeOK, RedisType
<1>9. ASSUME NEW w \in Workers, PushFails(w) PROVE TypeOK'
  <2>1. post[w] \in 1..created /\ "following" \in Feeds
    BY <1>9 DEF PushFails, TypeOK, RequestInv, Feeds
  <2>2. cache' \in [Feeds -> SUBSET (1..created)]
        /\ \A k \in Feeds : cache[k] \subseteq cache'[k]
    BY <1>9, <2>1 DEF PushFails, TypeOK
  <2>3. RedisType'
    BY <1>0, <1>9, <2>1, <2>2, FaultType DEF PushFails, Finish, Blame, RedisType
  <2> QED
    BY <1>9, <2>3 DEF PushFails, Finish, TypeOK, RedisType
<1>10. ASSUME NEW w \in Workers, Abort(w) PROVE TypeOK'
  <2>1. RedisType'
    <3>1. PICK k \in Feeds : Blame(k) \/ UNCHANGED blamed
      BY <1>10 DEF Abort, RequestInv, Feeds
    <3> QED
      BY <1>0, <1>10, <3>1, CommandType DEF Abort
  <2> QED
    BY <1>10, <2>1 DEF Abort, Finish, TypeOK, RedisType
<1>11. ASSUME NEW p \in Posts, Delete(p) PROVE TypeOK'
  BY <1>11 DEF Delete, Indexed, TypeOK
<1>12. ASSUME NEW k \in Feeds, KeyExpires(k) PROVE TypeOK'
  <2>1. RedisType'
    BY <1>0, <1>12, CommandType DEF KeyExpires
  <2> QED
    BY <1>12, <2>1 DEF KeyExpires, TypeOK, RedisType
<1>13. CASE UNCHANGED vars
  BY <1>13 DEF TypeOK
<1>14. ASSUME NEW w \in Workers, NEW p \in Posts, Recreate(w, p) PROVE TypeOK'
  BY <1>14, FaultType DEF Recreate, TypeOK
<1> QED
  BY <1>1, <1>2, <1>3, <1>4, <1>5, <1>6, <1>7, <1>8, <1>9, <1>10, <1>11, <1>12, <1>13,
     <1>14 DEF Next, Step

(***************************************************************************)
(* A step that adds to a feed leaves its request about to set the expiry,  *)
(* and one that ends a request without setting it takes the blame.         *)
(***************************************************************************)
LEMMA NextExpiry == Inv /\ [Next]_vars => RequestInv' /\ ExpiryPending'
<1> SUFFICES ASSUME TypeOK, RequestInv, ExpiryPending, [Next]_vars
             PROVE  RequestInv' /\ ExpiryPending'
  BY DEF Inv
<1> USE FeedAssumption DEF vars, indexVars, redisVars, requestVars, TypeOK,
        RequestInv, ExpiryPending
<1>1. ASSUME NEW w \in Workers, NEW k \in Feeds, NEW n \in Limits, Read(w, k, n)
      PROVE  RequestInv' /\ ExpiryPending'
  BY <1>1 DEF Read
<1>2. ASSUME NEW w \in Workers, Query(w) PROVE RequestInv' /\ ExpiryPending'
  BY <1>2 DEF Query
<1>3. ASSUME NEW w \in Workers, FillDel(w) PROVE RequestInv' /\ ExpiryPending'
  BY <1>3 DEF FillDel, Del, Lost, Goto
<1>4. ASSUME NEW w \in Workers, FillAdd(w) PROVE RequestInv' /\ ExpiryPending'
  BY <1>4 DEF FillAdd, ZAdd, Lost
<1>5. ASSUME NEW w \in Workers, SetExpiry(w) PROVE RequestInv' /\ ExpiryPending'
  BY <1>5 DEF SetExpiry, Expire, Blame, Finish
<1>6. ASSUME NEW w \in Workers, Create(w) PROVE RequestInv' /\ ExpiryPending'
  BY <1>6 DEF Create
<1>7. ASSUME NEW w \in Workers, Invalidate(w) PROVE RequestInv' /\ ExpiryPending'
  BY <1>7 DEF Invalidate, Del, Lost, Finish, Goto
<1>8. ASSUME NEW w \in Workers, Push(w) PROVE RequestInv' /\ ExpiryPending'
  BY <1>8 DEF Push, ZAdd, Feeds
<1>9. ASSUME NEW w \in Workers, PushFails(w) PROVE RequestInv' /\ ExpiryPending'
  BY <1>9 DEF PushFails, Blame, Finish
<1>10. ASSUME NEW w \in Workers, Abort(w) PROVE RequestInv' /\ ExpiryPending'
  BY <1>10 DEF Abort, Blame, Finish
<1>11. ASSUME NEW p \in Posts, Delete(p) PROVE RequestInv' /\ ExpiryPending'
  BY <1>11 DEF Delete
<1>12. ASSUME NEW k \in Feeds, KeyExpires(k) PROVE RequestInv' /\ ExpiryPending'
  BY <1>12 DEF KeyExpires, Del
<1>13. CASE UNCHANGED vars
  BY <1>13
<1>14. ASSUME NEW w \in Workers, NEW p \in Posts, Recreate(w, p)
       PROVE  RequestInv' /\ ExpiryPending'
  BY <1>14 DEF Recreate
<1> QED
  BY <1>1, <1>2, <1>3, <1>4, <1>5, <1>6, <1>7, <1>8, <1>9, <1>10, <1>11, <1>12, <1>13,
     <1>14 DEF Next, Step

\* The invariant holds for ever.
LEMMA Invariance == Spec => []Inv
<1>1. Inv /\ [Next]_vars => Inv'
  BY NextType, NextExpiry DEF Inv
<1> QED
  BY InitInv, <1>1, PTL DEF Spec

(***************************************************************************)
(* cacheFeedItems and pushMode, however they interleave with each other,   *)
(* with invalidations, with expiries and with failures, never leave a key  *)
(* without an expiry that no request is about to set, unless the call that *)
(* was to set it failed or its request ended early.                        *)
(***************************************************************************)
THEOREM NeverCachedForEver == Spec => []ExpiryPending
<1>1. Inv => ExpiryPending
  BY DEF Inv
<1> QED
  BY Invariance, <1>1, PTL

(***************************************************************************)
(* Only a feed that has a key has an expiry, and caches and requests hold  *)
(* posts that have existed.                                                *)
(***************************************************************************)
THEOREM TypeCorrect == Spec => []TypeOK
<1>1. Inv => TypeOK
  BY DEF Inv
<1> QED
  BY Invariance, <1>1, PTL
=============================================================================
