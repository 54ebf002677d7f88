SPECIFICATION Spec
CONSTANTS
  Conn = {k1, k2}
  MaxConns = 2
  MaxAuth = 1
  Cap = 1
  Faults = 1
INVARIANTS
  CleanBetweenCycles
  SocketReachable
PROPERTIES
  AttemptAnswered
  GreeterReturns
