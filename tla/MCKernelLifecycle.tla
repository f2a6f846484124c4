-------------------------- MODULE MCKernelLifecycle ---------------------------
(***************************************************************************)
(* Two threads that share the hook, with one agent or two.                  *)
(***************************************************************************)
EXTENDS KernelLifecycle, TLC

CONSTANTS t1, t2, k1, k2

MCThread == {t1, t2}
MCKernel == {k1, k2}
Symmetry == Permutations(MCThread) \cup Permutations(MCKernel)
=============================================================================
