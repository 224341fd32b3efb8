---------------------------- MODULE SyncContract ----------------------------
(***************************************************************************)
(* What the sync service of one region promises, whatever fails: the       *)
(* global index changes only by the whole effect of one event that the     *)
(* GDPR rules allow; a request is answered with success only when its      *)
(* event is denied or has taken effect; and only an event that took effect *)
(* and was answered at the local API is handed to the other regions.       *)
(* SyncPipeline.tla implements it.                                         *)
(***************************************************************************)
EXTENDS Naturals, SyncEvent

CONSTANTS EventIds, Event, RegionalPosts, MaxStats, NoRow, NoEvent

VARIABLES postIndex, tagIndex,
          applied,      \* the events that have taken effect
          answered,     \* <<e, s>>: e was answered with success at entry s
          published     \* the events handed to the other regions

contractVars == <<postIndex, tagIndex, applied, answered, published>>

Permitted(e) == Check(Event[e]).allowed

\* The new row of e's post, given the old one.
PostEffect(e, old, new) ==
  CASE Event[e].type \in {"POST_CREATED", "POST_UPDATED"} ->
         /\ new # NoRow
         /\ new.content = e
         /\ new.origin  = (IF old = NoRow THEN e ELSE old.origin)
         /\ new.stats   = (IF old = NoRow THEN 0 ELSE old.stats)
    [] Event[e].type = "POST_DELETED" -> new = NoRow
    [] Event[e].type = "POST_STATS_UPDATED" /\ old # NoRow
                                      /\ Event[e].uid \in RegionalPosts ->
         \E count \in 0..MaxStats : new = [old EXCEPT !.stats = count]
    [] OTHER -> new = old

\* The new row of e's tag, given the old one.
TagEffect(e, old, new) ==
  CASE Event[e].type \in {"TAG_CREATED", "TAG_UPDATED"} ->
         new = [content |-> e,
                count   |-> IF old = NoRow THEN NoEvent ELSE old.count]
    [] Event[e].type = "TAG_DELETED" -> new = NoRow
    [] Event[e].type = "TAG_STATS_UPDATED" /\ Event[e].count /\ old # NoRow ->
         new = [old EXCEPT !.count = e]
    [] OTHER -> new = old

\* At most the row of uid differs between the tables old and new.
OnlyRow(uid, old, new) ==
  \A other \in DOMAIN old \ {uid} : new[other] = old[other]

ContractInit ==
  /\ postIndex = [p \in Posts |-> NoRow]
  /\ tagIndex  = [t \in Tags |-> NoRow]
  /\ applied = {} /\ answered = {} /\ published = {}

Apply(e) ==
  /\ Permitted(e)
  /\ applied' = applied \cup {e}
  /\ LET uid == Event[e].uid
     IN  IF Event[e].type \in TagEventTypes
         THEN /\ OnlyRow(uid, tagIndex, tagIndex')
              /\ TagEffect(e, tagIndex[uid], tagIndex'[uid])
              /\ UNCHANGED postIndex
         ELSE /\ OnlyRow(uid, postIndex, postIndex')
              /\ PostEffect(e, postIndex[uid], postIndex'[uid])
              /\ UNCHANGED tagIndex
  /\ UNCHANGED <<answered, published>>

Answer(e, s) ==
  /\ Permitted(e) => e \in applied
  /\ answered' = answered \cup {<<e, s>>}
  /\ UNCHANGED <<postIndex, tagIndex, applied, published>>

Publish(e) ==
  /\ e \in applied
  /\ <<e, "local_api">> \in answered
  /\ published' = published \cup {e}
  /\ UNCHANGED <<postIndex, tagIndex, applied, answered>>

ContractNext ==
  \E e \in EventIds :
    \/ Apply(e)
    \/ \E s \in {"local_api", "cross_sync", "mq"} : Answer(e, s)
    \/ Publish(e)

ContractSpec == ContractInit /\ [][ContractNext]_contractVars
=============================================================================
