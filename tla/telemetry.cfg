\* Producers of hosted, tool and prompt events, their metrics, and readers of snapshots.
SPECIFICATION Spec
CONSTANTS
  p1 = p1
  p2 = p2
  v1 = v1
  v2 = v2
  r1 = r1
  r2 = r2
  k1 = k1
  k2 = k2
  None = None
  Producer <- MCProducer
  JobSets <- MCJobSets
  Walls <- MCWalls
  PayloadTruncateBytes = 3
  Redact <- MCRedact
SYMMETRY Symmetry
INVARIANTS
  TypeOK
  HostedCallsAreSound
  PayloadsAreLongestPrefixes
  ConversationsAreIndependent
  QueriesAreExact
  
  DurationsAreOwn
  MetricsMatchInsights
\* The producers have done their jobs.
CHECK_DEADLOCK FALSE
