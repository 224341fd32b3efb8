---------------------------- MODULE MCFeedCache ----------------------------
(***************************************************************************)
(* The instance of FeedCache for TLC; MCFeedCache.cfg gives the constants. *)
(***************************************************************************)
EXTENDS FeedCache
=============================================================================
