\* Refutes pairing when a dispatch is dropped and the hook used again.
SPECIFICATION Spec
CONSTANTS
  d1 = d1
  d2 = d2
  None = None
  Dispatch <- MCDispatch
  MaxCalls = 2
SYMMETRY Symmetry
INVARIANTS
  PairsSurviveDrops
\* The dispatches come to an end.
CHECK_DEADLOCK FALSE
