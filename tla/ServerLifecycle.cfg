SPECIFICATION Spec
CONSTANTS
  EveryValues <- MCValues
  WindowValues <- MCValues
  Default = 3
  MaxRequests = 2
INVARIANTS
  TypeOK
  CleanExit
  ErrorsHaveACause
  PanicMeansPeriod
PROPERTIES
  SignalEnds
  ListenerFailureEnds
