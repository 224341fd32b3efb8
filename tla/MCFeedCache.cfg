\* Two concurrent requests, two posts, the second by a celebrity, and one failure.
CONSTANTS
  MaxPost = 2
  Celebrities = {2}
  Limits = {1, 2}
  Workers = {w1, w2}
  MaxFaults = 1
  NoPost = NoPost
SPECIFICATION FairSpec
INVARIANTS
  TypeOK
  ExpiryPending
PROPERTY CachesCatchUp
