--------------------------- MODULE MCObservedSession ---------------------------
(***************************************************************************)
(* Instance of ObservedSession: three turns for the caller of the README,  *)
(* two for the caller that does anything.                                  *)
(***************************************************************************)
EXTENDS ObservedSession

ThreeResponses == <<"resp_1", "resp_2", "resp_3">>
=============================================================================
