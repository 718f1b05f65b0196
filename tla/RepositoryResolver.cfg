SPECIFICATION Spec
CONSTANTS
  alloy = alloy
  Workers = {w1, w2}
  Repos = {helm, oci, bad}
  UnsupportedRepos = {oci}
  InvalidRepos = {bad}
  Charts = {alloy}
  Listed <- MCListed
  TTL = 1
  MaxGen = 2
  MaxTime = 2
INVARIANTS
  TypeOK
  EntriesWereFetched
  StaleOnError
  FreshUnlessUpstreamFailed
PROPERTIES
  CallsReturn
  ImplementsIndexCache
