\* The same, for the first iteration after the start.
SPECIFICATION Spec
CONSTANTS
  t1 = t1
  t2 = t2
  k1 = k1
  k2 = k2
  None = None
  Thread <- MCThread
  Kernel <- MCKernel
  MaxSteps = 2
  MaxCleared = 2
INVARIANTS
  FirstIterationIsZero
\* The threads come to an end.
CHECK_DEADLOCK FALSE
