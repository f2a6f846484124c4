----------------------------- MODULE EventSchema ------------------------------
(***************************************************************************)
(* The event schema (event.rs): the kinds of events, the families they are  *)
(* sorted into, the scalar fields surfaced next to the JSON envelope, and   *)
(* the truncation of payloads.                                              *)
(*                                                                          *)
(* An event is a record with a kind, a conversation, a call id (None where  *)
(* the kind has none), a tick, at (occurred_at_millis), and data: a         *)
(* function from the names of the other fields that are present to their    *)
(* values.                                                                  *)
(***************************************************************************)
EXTENDS Integers, Sequences

CONSTANT None  \* Option::None, and the "" of an absent scalar field

\* A record with more fields; those it has stay.
Extend(data, more) ==
  [f \in DOMAIN data \cup DOMAIN more |-> IF f \in DOMAIN data THEN data[f] ELSE more[f]]

PromptKind  == {"prompt.started", "prompt.completed", "prompt.failed"}
HostedKind  == {"tool.hosted_invoked", "tool.hosted_completed"}
ToolKind    == {"tool.invoked", "tool.completed", "tool.failed", "tool.skipped",
                "tool.terminated"} \cup HostedKind
MemoryKind  == {"context.sampled", "context.persisted", "context.compacted",
                "memory.demoted", "memory.frame_written"}
ComposeKind == {"compose.kernel_start", "compose.kernel_shutdown",
                "compose.loop_iteration", "compose.skill_resolved",
                "compose.retry_attempt", "compose.recovery"}
SessionKind == {"response.session_started", "response.turn_started",
                "response.turn_completed", "response.session_ended"}
SearchKind  == {"embedding.completed", "retrieval.queried", "rerank.completed"}

\* discriminant
EventKind == PromptKind \cup ToolKind \cup MemoryKind \cup ComposeKind
               \cup SessionKind \cup SearchKind \cup {"eval.report"}

FailureKind == {"prompt.failed", "tool.failed"}

\* tool_call_id
ToolCallId(e) == IF e.kind \in ToolKind THEN e.call ELSE None

\* Mutant of Surfaced: the kinds of stopped calls are left out.
SurfacedForgetsStopped(kind) ==
  CASE kind \in {"tool.skipped", "tool.terminated"} -> {"tool_name"}
    [] kind \in ToolKind \ {"tool.skipped", "tool.terminated"} -> {"tool_name", "call_id"}
    [] OTHER -> {}

\* scalar_fields: which fields of a kind become scalars.
Surfaced(kind) ==
  CASE kind = "prompt.failed" -> {"model", "error_class"}
    [] kind = "prompt.completed" -> {"model", "response_id", "previous_response_id"}
    [] kind \in {"prompt.started", "response.session_started", "embedding.completed",
                 "rerank.completed"} -> {"model"}
    [] kind \in HostedKind -> {"tool_name", "call_id", "response_id"}
    [] kind = "tool.failed" -> {"tool_name", "call_id", "error_class"}
    [] kind \in {"tool.invoked", "tool.completed", "tool.skipped", "tool.terminated"} ->
         {"tool_name", "call_id"}
    [] kind \in {"compose.loop_iteration", "compose.skill_resolved"} ->
         {"kernel_id", "skill_id"}
    [] kind = "compose.retry_attempt" -> {"kernel_id", "tool_name"}
    [] kind \in {"compose.kernel_start", "compose.kernel_shutdown", "compose.recovery"} ->
         {"kernel_id"}
    [] kind = "response.turn_started" -> {"previous_response_id"}
    [] kind = "response.turn_completed" -> {"response_id", "previous_response_id"}
    [] kind = "eval.report" -> {"dataset", "metric", "verdict"}
    [] OTHER -> {}

\* ... and the value of one, absent if the kind or the event does not have it.
\* A retry's target stands in for a tool's name.
ScalarField(e, field) ==
  LET source == IF e.kind = "compose.retry_attempt" /\ field = "tool_name"
                  THEN "target" ELSE field
  IN  IF field \notin Surfaced(e.kind) THEN None
      ELSE IF field = "call_id" THEN e.call
      ELSE IF source \in DOMAIN e.data THEN e.data[source]
      ELSE None

-----------------------------------------------------------------------------
(* truncate_utf8.  A text is a sequence of characters, records with a width  *)
(* in bytes.                                                                 *)

\* How many bytes the first n characters of a text have.
Bytes(text, n) ==
  LET bytes[k \in 0..Len(text)] == IF k = 0 THEN 0 ELSE bytes[k - 1] + text[k].width
  IN  bytes[n]

IsCharBoundary(text, end) == \E n \in 0..Len(text) : Bytes(text, n) = end

\* From the limit, back to a boundary.
TruncateEnd(text, max) ==
  LET back[end \in 0..max] ==
        IF end = 0 \/ IsCharBoundary(text, end) THEN end ELSE back[end - 1]
  IN  back[max]

Truncate(text, max) ==
  LET end == TruncateEnd(text, max)
  IN  IF Bytes(text, Len(text)) <= max
        THEN [text |-> text, truncated |-> FALSE]
      ELSE IF IsCharBoundary(text, end)
        THEN [text |-> SubSeq(text, 1, CHOOSE n \in 0..Len(text) : Bytes(text, n) = end),
              truncated |-> TRUE]
      ELSE [text |-> <<>>, truncated |-> TRUE]
=============================================================================
