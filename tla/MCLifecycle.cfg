SPECIFICATION Spec
CONSTANTS
  UpdateBuffer = 1
  SocketBuffer = 1
  MaxSends = 2
  MaxRequests = 1
  MaxStartFailures = 1
INVARIANTS  NeverPanics RequestsKept ReadyFirst NothingLeftRunning
PROPERTIES  RequestsAnswered
