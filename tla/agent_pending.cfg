\* The same, for the count of pending calls in any snapshot.
SPECIFICATION Spec
CONSTANTS
  a1 = a1
  a2 = a2
  v1 = v1
  v2 = v2
  None = None
  Call <- MCCall
  Conversation <- MCOne
  Buckets = 2
  Policies <- MCPolicies
INVARIANTS
  PendingIsCountedAlways
\* The prompt comes to an end.
CHECK_DEADLOCK FALSE
