SPECIFICATION Spec
CONSTANTS
  NumApps = 2
  Watched = {"outdated", "unknown"}
INVARIANTS
  TypeOK
  GaugesShowLastBatch
  NeverBoth
  ScrapeIsOfItsTime
