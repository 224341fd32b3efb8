------------------------------ MODULE SyncEvent ------------------------------
(***************************************************************************)
(* The cross-region sync event (internal/model/sync_event.go) and the GDPR *)
(* rules that decide whether it may be applied and replicated              *)
(* (internal/service/gdpr_checker.go).                                     *)
(*                                                                         *)
(* An event is the record of the fields some branch of the service looks   *)
(* at.  Strings that the code only stores are left out; those it switches  *)
(* on keep a member "OTHER" for every value the switch does not name.      *)
(***************************************************************************)

CONSTANTS Posts,   \* uids of posts
          Tags     \* uids of tags

TagEventTypes ==
  {"TAG_CREATED", "TAG_UPDATED", "TAG_DELETED", "TAG_STATS_UPDATED"}

PostEventTypes ==
  {"POST_CREATED", "POST_UPDATED", "POST_DELETED", "POST_STATS_UPDATED"}

EventTypes == PostEventTypes \cup TagEventTypes \cup {"OTHER"}

DataCategories == {"TIER_1", "TIER_2", "TIER_3", "TIER_4", "OTHER"}

Visibilities == {"GLOBAL", "REGIONAL", "FOLLOWERS", "PRIVATE", "OTHER"}

(***************************************************************************)
(* uid is payload.postUid, or payload.tagUid for the TAG_* types; media    *)
(* and count say whether payload.mediaUrls is non-empty and                *)
(* payload.postCount is given.                                             *)
(***************************************************************************)
SyncEvents ==
  [type       : EventTypes,
   uid        : Posts \cup Tags,
   category   : DataCategories,
   visibility : Visibilities,
   consent    : BOOLEAN,
   media      : BOOLEAN,
   count      : BOOLEAN]

\* A tag event names a tag, any other event a post.
WellFormed(event) ==
  event.uid \in (IF event.type \in TagEventTypes THEN Tags ELSE Posts)

-----------------------------------------------------------------------------
(***************************************************************************)
(* GDPRChecker.Check: the first rule that matches decides.                 *)
(***************************************************************************)

Allow(reason) == [allowed |-> TRUE, reason |-> reason]

Deny(reason) == [allowed |-> FALSE, reason |-> reason]

\* Rule 0: these types carry identifiers, not content.
IdentifierOnly == TagEventTypes \cup {"POST_DELETED"}

\* Rule 3: why a post that is not GLOBAL stays at home.
HomeReason(visibility) ==
  CASE visibility = "FOLLOWERS" -> "followers"
    [] visibility = "REGIONAL"  -> "regional"
    [] OTHER                    -> "private"

\* Mutant of Check: the visibility switch has lost its default branch.
CheckNoDefault(event) ==
  IF event.type \in IdentifierOnly THEN Allow("system")
  ELSE IF event.category = "TIER_1" THEN Deny("pii")
  ELSE IF event.category = "TIER_3" THEN Allow("system")
  ELSE IF event.visibility \notin {"GLOBAL", "OTHER"}
       THEN Deny(HomeReason(event.visibility))
  ELSE IF ~event.consent THEN Deny("no consent")
  ELSE IF event.category = "TIER_4" /\ ~event.media THEN Deny("media")
  ELSE Allow("global")

Check(event) ==
  IF event.type \in IdentifierOnly THEN Allow("system")
  ELSE IF event.category = "TIER_1" THEN Deny("pii")
  ELSE IF event.category = "TIER_3" THEN Allow("system")
  ELSE IF event.visibility # "GLOBAL" THEN Deny(HomeReason(event.visibility))
  ELSE IF ~event.consent THEN Deny("no consent")
  ELSE IF event.category = "TIER_4" /\ ~event.media THEN Deny("media")
  ELSE Allow("global")
=============================================================================
