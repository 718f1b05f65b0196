SPECIFICATION Spec
CONSTANTS
  Configured = 2
  Names <- MCNames
  Workloads <- MCWorkloads
  Contents <- MCContents
  URL <- MCURL
  Overrides <- MCOverrides
  Parsed <- MCParsed
  Latest = {"2"}
  MaySilent = {1, 2}
  WordSize = 65536
INVARIANTS
  TypeOK
  RecordsAreTheirOwn
  OverridesRepair
  ErrorsAreFailures
  ReturnsAll
PROPERTIES
  WrittenOnce
  BuildReturns
