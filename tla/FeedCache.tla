----------------------------- MODULE FeedCache -----------------------------
(***************************************************************************)
(* The feeds of one user: FeedGenerator (internal/service/                 *)
(* feed_generator.go) between the global index and the sorted sets         *)
(* user:feed:<id>:<type> in Redis.  A read that finds fewer posts than it  *)
(* asks for queries the index and writes the answer back; a new post       *)
(* invalidates the global feed and is pushed to the following feed of the  *)
(* author's followers, unless the author has too many of them.  Requests   *)
(* run concurrently and every call to Redis or Postgres is a step, which   *)
(* may fail; the process may die, or the client go away, between two.      *)
(*                                                                         *)
(* Posts are numbered by age.  A set of posts stands for a sorted set: the *)
(* scores depend on the time they were computed at and are left open.      *)
(* A request forgets what it will not read again.                          *)
(***************************************************************************)
EXTENDS Naturals, FiniteSets

CONSTANTS MaxPost,      \* the posts are 1..MaxPost, created in this order
          Celebrities,  \* posts whose author has pushThreshold followers
          Limits,       \* how many posts a read may ask for
          Workers,      \* request goroutines
          MaxFaults,    \* how many calls fail, requests end early or come again
          NoPost

ASSUME FeedAssumption ==
  /\ MaxPost \in Nat /\ Limits \subseteq Nat \ {0}
  /\ Celebrities \subseteq 1..MaxPost
  /\ MaxFaults \in Nat
  /\ NoPost \notin Nat

Posts == 1..MaxPost
Feeds == {"following", "global", "trending"}

VARIABLES
  created,   \* how many posts have been created
  deleted,   \* the posts that are no longer in the index
  cache,     \* the sorted set of each feed; the empty set is no key
  ttl,       \* the feeds whose key has an expiry
  pc, feed, limit, items, post,  \* the requests: next call, local variables
  faults,    \* how many of these there were
  blamed     \* history: feeds cached without expiry since such a failure

requestVars == <<pc, feed, limit, items, post>>
indexVars   == <<created, deleted>>
redisVars   == <<cache, ttl, blamed>>
vars == <<indexVars, redisVars, requestVars, faults>>

Indexed == (1..created) \ deleted

\* ORDER BY created_at DESC LIMIT n
Newest(n) == {p \in Indexed : Cardinality({q \in Indexed : q > p}) < n}

Goto(w, label) ==
  /\ pc' = [pc EXCEPT ![w] = label]
  /\ UNCHANGED <<feed, limit, items, post>>

Finish(w) ==
  /\ pc'    = [pc    EXCEPT ![w] = "idle"]
  /\ feed'  = [feed  EXCEPT ![w] = "none"]
  /\ limit' = [limit EXCEPT ![w] = 0]
  /\ items' = [items EXCEPT ![w] = {}]
  /\ post'  = [post  EXCEPT ![w] = NoPost]

-----------------------------------------------------------------------------
\* The commands of Redis.

Fault == faults < MaxFaults /\ faults' = faults + 1

\* A command that does not reach Redis; the code ignores the error.
Lost == Fault /\ UNCHANGED redisVars

\* The expiry of k is not set: who is to blame if nothing else sets it.
Blame(k) ==
  blamed' = IF cache'[k] = {} \/ k \in ttl THEN blamed ELSE blamed \cup {k}

Del(k) ==
  /\ cache'  = [cache EXCEPT ![k] = {}]
  /\ ttl'    = ttl \ {k}
  /\ blamed' = blamed \ {k}
  /\ UNCHANGED faults

ZAdd(k, set) ==
  /\ cache' = [cache EXCEPT ![k] = @ \cup set]
  /\ UNCHANGED <<ttl, blamed, faults>>

\* No effect without a key.
Expire(k) ==
  /\ ttl'    = IF cache[k] = {} THEN ttl ELSE ttl \cup {k}
  /\ blamed' = blamed \ {k}
  /\ UNCHANGED <<cache, faults>>

\* A key with an expiry goes.
KeyExpires(k) ==
  /\ k \in ttl
  /\ Del(k)
  /\ UNCHANGED <<indexVars, requestVars>>

-----------------------------------------------------------------------------
\* GetFeed.

\* getFeedFromRedis: n cached posts are the answer; fewer, or an error, are a
\* miss.
Read(w, k, n) ==
  /\ pc[w] = "idle"
  /\ IF Cardinality(cache[k]) < n THEN UNCHANGED faults ELSE Fault
  /\ pc'    = [pc    EXCEPT ![w] = "query"]
  /\ feed'  = [feed  EXCEPT ![w] = k]
  /\ limit' = [limit EXCEPT ![w] = n]
  /\ UNCHANGED <<indexVars, redisVars, items, post>>

\* GetPostsFromAuthors and GetGlobalPosts take the newest posts,
\* GetTrendingPosts the day's posts with the most engagement: any of them.
Query(w) ==
  /\ pc[w] = "query"
  /\ \E answer \in SUBSET Indexed :
       /\ IF feed[w] = "trending"
          THEN Cardinality(answer) <= limit[w]
          ELSE answer = Newest(limit[w])
       /\ items' = [items EXCEPT ![w] = answer]
  /\ pc'    = [pc    EXCEPT ![w] = "fillDel"]
  /\ limit' = [limit EXCEPT ![w] = 0]
  /\ UNCHANGED <<indexVars, redisVars, feed, post, faults>>

\* cacheFeedItems: three commands, none of which is checked.
FillDel(w) ==
  /\ pc[w] = "fillDel"
  /\ Del(feed[w]) \/ Lost
  /\ Goto(w, "fillAdd")
  /\ UNCHANGED indexVars

\* Mutant of FillAdd: setting the expiry is left to pushMode.
FillAddNoExpire(w) ==
  /\ pc[w] = "fillAdd"
  /\ ZAdd(feed[w], items[w]) \/ Lost
  /\ Finish(w)
  /\ UNCHANGED indexVars

FillAdd(w) ==
  /\ pc[w] = "fillAdd"
  /\ ZAdd(feed[w], items[w]) \/ Lost
  /\ pc'    = [pc    EXCEPT ![w] = "expire"]
  /\ items' = [items EXCEPT ![w] = {}]
  /\ UNCHANGED <<indexVars, feed, limit, post>>

\* The last command of cacheFeedItems and of pushMode.
SetExpiry(w) ==
  /\ pc[w] = "expire"
  /\ \/ Expire(feed[w])
     \/ Fault /\ UNCHANGED <<cache, ttl>> /\ Blame(feed[w])
  /\ Finish(w)
  /\ UNCHANGED indexVars

-----------------------------------------------------------------------------
\* Mutant of Create: the insert fails and HandleNewPost runs all the same.
CreateUnchecked(w) ==
  /\ pc[w] = "idle"
  /\ created < MaxPost
  /\ Fault
  /\ post' = [post EXCEPT ![w] = created + 1]
  /\ pc'   = [pc   EXCEPT ![w] = "invalidate"]
  /\ UNCHANGED <<indexVars, redisVars, feed, limit, items>>

\* A new post is inserted into the index and handed to HandleNewPost.
Create(w) ==
  /\ pc[w] = "idle"
  /\ created < MaxPost
  /\ created' = created + 1
  /\ post' = [post EXCEPT ![w] = created + 1]
  /\ pc'   = [pc   EXCEPT ![w] = "invalidate"]
  /\ UNCHANGED <<deleted, redisVars, feed, limit, items, faults>>

\* The creation is delivered again, as its answer was lost, and applied again:
\* the upsert keeps created_at, or brings a deleted row back.
Recreate(w, p) ==
  /\ pc[w] = "idle"
  /\ p \in 1..created
  /\ Fault
  /\ deleted' = deleted \ {p}
  /\ post' = [post EXCEPT ![w] = p]
  /\ pc'   = [pc   EXCEPT ![w] = "invalidate"]
  /\ UNCHANGED <<created, redisVars, feed, limit, items>>

\* invalidateGlobalFeedCache; then the follower count decides about the push.
Invalidate(w) ==
  /\ pc[w] = "invalidate"
  /\ Del("global") \/ Lost
  /\ IF post[w] \in Celebrities THEN Finish(w) ELSE Goto(w, "push")
  /\ UNCHANGED indexVars

\* Mutant of Push: setting the expiry is left to the next fill.
PushNoExpire(w) ==
  /\ pc[w] = "push"
  /\ ZAdd("following", {post[w]})
  /\ Finish(w)
  /\ UNCHANGED indexVars

\* pushMode, for the one follower looked at.
Push(w) ==
  /\ pc[w] = "push"
  /\ ZAdd("following", {post[w]})
  /\ pc'   = [pc   EXCEPT ![w] = "expire"]
  /\ feed' = [feed EXCEPT ![w] = "following"]
  /\ post' = [post EXCEPT ![w] = NoPost]
  /\ UNCHANGED <<indexVars, limit, items>>

\* An error of AddToFeed, which may have taken effect: no expiry is set.
PushFails(w) ==
  /\ pc[w] = "push"
  /\ Fault
  /\ \/ UNCHANGED cache
     \/ cache' = [cache EXCEPT !["following"] = @ \cup {post[w]}]
  /\ Blame("following")
  /\ Finish(w)
  /\ UNCHANGED <<indexVars, ttl>>

\* The request ends early: the query or the follower count fails, the client
\* goes away and cancels the context, or the process dies.
Abort(w) ==
  /\ pc[w] # "idle"
  /\ Fault
  /\ Finish(w)
  /\ UNCHANGED <<indexVars, cache, ttl>>
  /\ IF pc[w] = "expire" THEN Blame(feed[w]) ELSE UNCHANGED blamed

\* DeletePost takes the row; HandleDeletedPost leaves the feeds alone.
Delete(p) ==
  /\ p \in Indexed
  /\ deleted' = deleted \cup {p}
  /\ UNCHANGED <<created, redisVars, requestVars, faults>>

-----------------------------------------------------------------------------
Init ==
  /\ created = 0 /\ deleted = {}
  /\ cache = [k \in Feeds |-> {}]
  /\ ttl = {} /\ blamed = {} /\ faults = 0
  /\ pc    = [w \in Workers |-> "idle"]
  /\ feed  = [w \in Workers |-> "none"]
  /\ limit = [w \in Workers |-> 0]
  /\ items = [w \in Workers |-> {}]
  /\ post  = [w \in Workers |-> NoPost]

Step(w) ==
  \/ Query(w) \/ FillDel(w) \/ FillAdd(w) \/ SetExpiry(w)
  \/ Invalidate(w) \/ Push(w)

Next ==
  \/ \E w \in Workers :
       \/ Step(w) \/ Create(w) \/ PushFails(w) \/ Abort(w)
       \/ \E k \in Feeds, n \in Limits : Read(w, k, n)
  \/ \E p \in Posts : Delete(p) \/ \E w \in Workers : Recreate(w, p)
  \/ \E k \in Feeds : KeyExpires(k)

Spec == Init /\ [][Next]_vars

(***************************************************************************)
(* Fairness: a request runs to its end, and a key's time runs out.  The    *)
(* latter asks that nobody renews the key for ever: fills happen on a miss *)
(* only, and a post is pushed once per delivery of its creation.           *)
(***************************************************************************)
FairSpec ==
  /\ Spec
  /\ \A w \in Workers : WF_vars(Step(w))
  /\ \A k \in Feeds : WF_vars(KeyExpires(k))

-----------------------------------------------------------------------------
\* Every variable has its type; only a feed that has a key has an expiry, and
\* caches and requests hold posts that have existed.
TypeOK ==
  /\ created \in 0..MaxPost /\ deleted \subseteq 1..created
  /\ cache \in [Feeds -> SUBSET (1..created)]
  /\ ttl \subseteq {k \in Feeds : cache[k] # {}}
  /\ blamed \subseteq {k \in Feeds : cache[k] # {}} \ ttl
  /\ faults \in 0..MaxFaults
  /\ pc \in [Workers -> {"idle", "query", "fillDel", "fillAdd", "expire",
                         "invalidate", "push"}]
  /\ feed \in [Workers -> Feeds \cup {"none"}]
  /\ limit \in [Workers -> Limits \cup {0}]
  /\ items \in [Workers -> SUBSET (1..created)]
  /\ post \in [Workers -> 1..created \cup {NoPost}]

(***************************************************************************)
(* No feed is cached for ever: a key without an expiry has a request about *)
(* to set one, however fills, pushes and invalidations interleave, unless  *)
(* the very call that was to set it failed, or its request ended early.    *)
(***************************************************************************)
ExpiryPending ==
  \A k \in Feeds :
    \/ cache[k] = {}
    \/ k \in ttl \cup blamed
    \/ \E w \in Workers : pc[w] = "expire" /\ feed[w] = k

(***************************************************************************)
(* The inductive invariant behind ExpiryPending: a request that is about   *)
(* to write a feed or to push a post knows which.                          *)
(***************************************************************************)
RequestInv ==
  \A w \in Workers :
    /\ pc[w] \in {"query", "fillDel", "fillAdd", "expire"} => feed[w] \in Feeds
    /\ pc[w] \in {"invalidate", "push"} => post[w] # NoPost

Inv == TypeOK /\ RequestInv /\ ExpiryPending

\* Some read would be answered from the cache, which holds a deleted post or
\* (the trending feed apart) lacks one the index would give.
Stale(k) ==
  \E n \in Limits :
    /\ Cardinality(cache[k]) >= n
    /\ \/ cache[k] \cap deleted # {}
       \/ k # "trending" /\ ~(Newest(n) \subseteq cache[k])

(***************************************************************************)
(* The feeds catch up: once no posts come and go, no read is answered with *)
(* a deleted post or without a new one for ever.  A fill that has queried  *)
(* the index before a post came may overwrite the invalidated cache with   *)
(* the old list, a deletion does not touch the caches, and a celebrity's   *)
(* post is not pushed: only the expiry repairs all three, and a failure    *)
(* matters only if it left a feed without one.                             *)
(***************************************************************************)
CachesCatchUp == \A k \in Feeds : <>[](Stale(k) => k \in blamed)
=============================================================================
