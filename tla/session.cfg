\* Every order of calls, with full payloads.
SPECIFICATION Spec
CONSTANTS
  r1 = r1
  r2 = r2
  u1 = u1
  None = None
  Reason = {"client_close"}
  ResponseId <- MCResponseId
  Usage <- MCUsage
  ChunkKind <- MCChunkKind
  WireStatus <- MCWireStatus
  DoneStatus <- MCDoneStatus
  MaxHosted = 2
  MaxEvents = 5
SYMMETRY Symmetry
INVARIANTS
  TypeOK
  FlagsAgree
  SessionBrackets
  TurnsAlternate
  CompletionMatchesStart
PROPERTIES
  TurnReportsOwnFacts
  ImplementsEnvelope
\* The bound on the log stops the model, not the system.
CHECK_DEADLOCK FALSE
