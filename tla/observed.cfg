\* Any caller, who may drop a pending future, and the caller of the README.
SPECIFICATION Spec
CONSTANTS
  None = None
  Responses <- ThreeResponses
  AnyCallerTurns = 2
  MaxEvents = 20
INVARIANTS
  TypeOK
  ClosedMeansEnded
  OneTurnPerSend
  TurnOwnsItsResponse
PROPERTIES
  SendErrorReported
  TurnEventuallyCompletes
\* The decorator may be consumed: nothing follows.
CHECK_DEADLOCK FALSE
