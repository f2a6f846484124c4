\* Refutes: a completed turn always carries a terminal status.
SPECIFICATION Spec
CONSTANTS
  r1 = r1
  r2 = r2
  u1 = u1
  None = None
  Reason = {"client_close", "transport_error"}
  ResponseId <- MCResponseId
  Usage <- MCUsage
  ChunkKind <- MCChunkKind
  WireStatus <- MCWireStatus
  DoneStatus <- MCDoneStatus
  MaxHosted = 2
  MaxEvents = 5
SYMMETRY Symmetry
INVARIANTS
  CompletedStatusIsTerminal
\* The bound on the log stops the model, not the system.
CHECK_DEADLOCK FALSE
