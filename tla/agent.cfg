\* Sampled telemetry and two gates around a round of tool calls.
SPECIFICATION Spec
CONSTANTS
  a1 = a1
  a2 = a2
  v1 = v1
  v2 = v2
  None = None
  Call <- MCCall
  Conversation <- MCConversation
  Buckets = 2
  Policies <- MCPolicies
SYMMETRY Symmetry
INVARIANTS
  TypeOK
  PairsStayCoherent
  StoppedCallsAreReported
  SpansAreClosed
  AnomaliesAreKept
  RollupsMatchReference
\* The prompt comes to an end.
CHECK_DEADLOCK FALSE
