-------------------------- MODULE MCResponsesSession --------------------------
(***************************************************************************)
(* Small instance of ResponsesSession: two response ids, one usage, a      *)
(* chunk that opens a response and one that ends it.                       *)
(***************************************************************************)
EXTENDS ResponsesSession, TLC

CONSTANTS r1, r2, u1

MCResponseId == {r1, r2}
MCUsage      == {u1}
MCChunkKind  == {"created", "failed"}
MCWireStatus == {"in_progress", "completed"}
MCDoneStatus == {"completed"}

Symmetry == Permutations(MCResponseId)
=============================================================================
