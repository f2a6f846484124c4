--------------------------- MODULE MCObservedMemory ---------------------------
(***************************************************************************)
(* Three tasks, one conversation or two.                                   *)
(***************************************************************************)
EXTENDS ObservedMemory, TLC

CONSTANTS t1, t2, t3, v1, v2

MCTask         == {t1, t2, t3}
MCConversation == {v1, v2}
Symmetry       == Permutations(MCTask) \cup Permutations(MCConversation)
=============================================================================
