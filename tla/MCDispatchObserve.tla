-------------------------- MODULE MCDispatchObserve ---------------------------
(***************************************************************************)
(* Instances of DispatchObserve with two dispatches of two invocations.    *)
(***************************************************************************)
EXTENDS DispatchObserve, TLC

CONSTANTS d1, d2

MCDispatch == {d1, d2}
Symmetry   == Permutations(MCDispatch)
=============================================================================
