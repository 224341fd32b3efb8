---------------------------- MODULE Replication ----------------------------
(***************************************************************************)
(* What the exchange between the regions promises, whatever fails: an      *)
(* event enters at its home, and the other regions take it over from there *)
(* and from nowhere else; a region that has it in its log has applied it   *)
(* once as a whole, and never forgets it.  An event may be applied again,  *)
(* also where it is not logged yet: nothing makes the effect and the log   *)
(* entry one step.  CrossSync.tla implements it.                           *)
(***************************************************************************)
EXTENDS SyncEvent

CONSTANTS Regions, Peers, EventIds, Event, Home, NoRow

VARIABLES known,  \* per region: the events it has taken over
          row     \* per region: the event each post's content is from

replicationVars == <<known, row>>

\* The content of e's post after e, given the one before.
Content(e, old) ==
  CASE Event[e].type \in {"POST_CREATED", "POST_UPDATED"} -> e
    [] Event[e].type = "POST_DELETED" -> NoRow
    [] OTHER -> old

\* The rest of region r, and the other regions, keep their rows.
Apply(r, e) ==
  row' = [row EXCEPT ![r][Event[e].uid] = Content(e, @)]

TakeOver(r, e) ==
  /\ e \notin known[r]
  /\ known' = [known EXCEPT ![r] = @ \cup {e}]
  /\ Apply(r, e)

\* The API of the home region brings a new event.
Accept(e) == TakeOver(Home[e], e)

\* A peer of the home has the event from there.
Copy(q, e) ==
  /\ q \in Peers[Home[e]]
  /\ e \in known[Home[e]]
  /\ TakeOver(q, e)

\* An event of the home is applied once more, or without its log entry.
Rewrite(r, e) ==
  /\ r \in Peers[Home[e]] \cup {Home[e]}
  /\ e \in known[Home[e]]
  /\ Apply(r, e)
  /\ UNCHANGED known

ReplicationInit ==
  /\ known = [r \in Regions |-> {}]
  /\ row   = [r \in Regions |-> [p \in Posts |-> NoRow]]

ReplicationNext ==
  \E e \in EventIds :
    \/ Accept(e)
    \/ \E r \in Regions : Copy(r, e) \/ Rewrite(r, e)

ReplicationSpec == ReplicationInit /\ [][ReplicationNext]_replicationVars
=============================================================================
