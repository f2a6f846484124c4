\* Dispatches that share the hook, on one thread or several, and may be dropped.
SPECIFICATION Spec
CONSTANTS
  d1 = d1
  d2 = d2
  None = None
  Dispatch <- MCDispatch
  MaxCalls = 2
SYMMETRY Symmetry
INVARIANTS
  TypeOK
  CallsArePairable
  TerminalsAreOwn
  OverMeansResolved
\* The dispatches come to an end.
CHECK_DEADLOCK FALSE
