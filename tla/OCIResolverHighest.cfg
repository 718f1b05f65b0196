SPECIFICATION Spec
CONSTANTS
  Workers = {w1, w2}
  Rank <- MCRank
  PageSize = 1
  MaxPages = 2
  MaxAttempts = 8
  TTL = 1
  Initially = {{}, {1, 3}, {1, 2, 3}}
  MaxTime = 2
  MaxChanges = 1
INVARIANTS
  HighestOfAll
