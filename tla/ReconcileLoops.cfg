SPECIFICATION Spec
CONSTANTS
  NumSources = 2
  a1 = a1
  Apps <- MCApps
  Unresolvable <- MCUnresolvable
  MaxChanges = 1
  MaxFaults = 2
INVARIANTS
  TypeOK
  AppsPublishedOnce
PROPERTIES
  NothingSteadyIsMissed
  NothingInvented
  PublishAfterFirstPass
  Converges
  LoopsStop
