---------------------------- MODULE MCFeedPaging ----------------------------
(***************************************************************************)
(* The instance of FeedPaging for TLC; MCFeedPaging.cfg gives the          *)
(* constants.                                                              *)
(***************************************************************************)
EXTENDS FeedPaging
=============================================================================
