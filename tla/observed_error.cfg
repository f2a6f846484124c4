\* Refutes: every error a method returns is observed.
SPECIFICATION Spec
CONSTANTS
  None = None
  Responses <- ThreeResponses
  AnyCallerTurns = 2
  MaxEvents = 20
INVARIANTS
  EveryErrorObserved
\* The decorator may be consumed: nothing follows.
CHECK_DEADLOCK FALSE
