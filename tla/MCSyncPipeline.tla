--------------------------- MODULE MCSyncPipeline ---------------------------
(***************************************************************************)
(* Instances of SyncPipeline for TLC.                                      *)
(***************************************************************************)
EXTENDS SyncPipeline, TLC

CONSTANTS p1, t1, w1, w2,
          create, private, update, delete, stats, stats2,
          tag, tagGone, tagStats, other

Base == [uid |-> p1, category |-> "TIER_2", visibility |-> "GLOBAL",
         consent |-> TRUE, media |-> FALSE, count |-> TRUE]

Typed(type) == [type |-> type] @@ Base

MCEvent ==
  [e \in EventIds |->
     CASE e = create  -> Typed("POST_CREATED")
       [] e = private -> [Typed("POST_UPDATED") EXCEPT !.visibility = "OTHER"]
       [] e = update  -> Typed("POST_UPDATED")
       [] e = delete  -> Typed("POST_DELETED")
       [] e \in {stats, stats2} -> Typed("POST_STATS_UPDATED")
       [] e = tag     -> [Typed("TAG_CREATED") EXCEPT !.uid = t1]
       [] e = tagGone -> [Typed("TAG_DELETED") EXCEPT !.uid = t1]
       [] e = tagStats -> [Typed("TAG_STATS_UPDATED") EXCEPT !.uid = t1]
       [] OTHER       -> Typed("OTHER")]

\* Every worker is a replica of its own; or all of them share one.
OwnReplica  == [w \in Workers |-> w]
OneReplica  == [w \in Workers |-> CHOOSE r \in Replicas : TRUE]
Unordered   == {}

\* A post is created, then deleted or updated.
CreatedFirst == {<<create, update>>, <<create, delete>>}

\* What becomes of a post, its deletion, then the tags and their end: within
\* each of the four any order, and an old event may come again at any time.
Part(e) == CASE e \in {create, update, stats, stats2} -> 1
             [] e = delete -> 2
             [] e \in {tag, tagStats} -> 3
             [] OTHER -> 4

InParts == {<<f, e>> \in EventIds \X EventIds : Part(f) < Part(e)}

\* How many answered events the Redis set has lost, and how many of those that
\* it holds came back after that, is looked at up to 1.
FewForgotten ==
  LET known == {e \in EventIds : \E s \in Sources : <<e, s>> \in answered}
  IN  Cardinality(processedSet) <= 1 \/ Cardinality(known \ processedSet) <= 1

SerialDeliveries == OneRequestPerEvent /\ FewForgotten

WorkerSymmetry == Permutations(Workers)
=============================================================================
