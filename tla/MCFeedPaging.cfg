\* One page of one post, two posts, no failures.
CONSTANTS
  MaxPost = 2
  Celebrities = {}
  Limits = {1}
  Workers = {w1}
  MaxFaults = 0
  NoPost = NoPost
  PageFeed = "following"
  PageSize = 1
SPECIFICATION PagingSpec
INVARIANT PagesAdvance
