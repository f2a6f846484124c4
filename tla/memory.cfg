\* Three tasks that load, append to and clear two conversations.
SPECIFICATION Spec
CONSTANTS
  t1 = t1
  t2 = t2
  t3 = t3
  v1 = v1
  v2 = v2
  Task <- MCTask
  Conversation <- MCConversation
  MaxBatch = 2
  MaxCalls = 4
SYMMETRY Symmetry
INVARIANTS
  TypeOK
  MessagesAccountedFor
  SamplesCoverReports
  SamplesNeverShrink
\* The tasks have made all their calls.
CHECK_DEADLOCK FALSE
