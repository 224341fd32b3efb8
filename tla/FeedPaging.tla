----------------------------- MODULE FeedPaging -----------------------------
(***************************************************************************)
(* A client that walks a feed page by page (FeedHandler.HandleGetFeed on   *)
(* top of FeedCache): while a page says hasMore, it asks for the next one  *)
(* with the nextCursor of the page before.  The other requests of          *)
(* FeedCache go on meanwhile.                                              *)
(***************************************************************************)
EXTENDS FeedCache

CONSTANTS PageFeed, PageSize  \* the feedType and limit of the client's requests

VARIABLES
  page,     \* the last page
  seen,     \* the posts of the pages before it
  hasMore,  \* whether the last page said that another one follows
  asked     \* the client's request; "none" if it has none

clientVars == <<page, seen, hasMore, asked>>
pagingVars == <<vars, clientVars>>

\* The client takes a page.
Receive(posts) ==
  /\ page'    = posts
  /\ seen'    = seen \cup page
  /\ hasMore' = (Cardinality(posts) >= PageSize)

\* getFeedFromRedis reads PageSize posts from offset 0 whatever the cursor.
AskCache ==
  /\ hasMore /\ asked = "none"
  /\ Cardinality(cache[PageFeed]) >= PageSize
  /\ \E posts \in SUBSET cache[PageFeed] :
       Cardinality(posts) = PageSize /\ Receive(posts)
  /\ UNCHANGED <<vars, asked>>

AskIndex(w) ==
  /\ hasMore /\ asked = "none"
  /\ Read(w, PageFeed, PageSize)
  /\ asked' = w
  /\ UNCHANGED <<page, seen, hasMore>>

\* The query has no cursor either; its posts are the page.
Answer(w) ==
  /\ w = asked
  /\ Query(w)
  /\ Receive(items'[w])
  /\ UNCHANGED asked

\* 500: the client keeps its cursor and may ask again.
AnswerFails(w) ==
  /\ w = asked /\ pc[w] = "query"
  /\ Abort(w)
  /\ asked' = "none"
  /\ UNCHANGED <<page, seen, hasMore>>

\* The requests of others, and the rest of the client's: with its end the
\* client has the answer.
Other ==
  /\ Next
  /\ asked # "none" => (pc[asked] = "query" => pc'[asked] = "query")
  /\ asked' = IF asked # "none" /\ pc'[asked] = "idle" THEN "none" ELSE asked
  /\ UNCHANGED <<page, seen, hasMore>>

PagingInit ==
  /\ Init
  /\ page = {} /\ seen = {} /\ hasMore = TRUE /\ asked = "none"

PagingNext ==
  \/ AskCache \/ Other
  \/ \E w \in Workers : AskIndex(w) \/ Answer(w) \/ AnswerFails(w)

PagingSpec == PagingInit /\ [][PagingNext]_pagingVars

(***************************************************************************)
(* The cursor pages: a page that is not empty brings a post that no page   *)
(* before it had.  HandleGetFeed takes a "pagination cursor", and          *)
(* docs/flutter-integration-guide.md:433 tells the app to load what        *)
(* exceeds one page by cursor.                                             *)
(***************************************************************************)
PagesAdvance == page = {} \/ ~(page \subseteq seen)
=============================================================================
