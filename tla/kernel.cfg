\* Two threads step agents that share the hook, then give it up.
SPECIFICATION Spec
CONSTANTS
  t1 = t1
  t2 = t2
  k1 = k1
  k2 = k2
  None = None
  Thread <- MCThread
  Kernel <- MCKernel
  MaxSteps = 2
  MaxCleared = 2
INVARIANTS
  TypeOK
  TicksAreSound
  LifecycleIsBracketed
  StartsInOrder
PROPERTIES
  ImplementsStream
\* The threads come to an end.
CHECK_DEADLOCK FALSE
