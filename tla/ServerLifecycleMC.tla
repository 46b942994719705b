------------------------- MODULE ServerLifecycleMC -------------------------
(***************************************************************************)
(* Instances of ServerLifecycle for TLC.                                   *)
(***************************************************************************)
EXTENDS ServerLifecycle, TLC

Interchangeable == Permutations(Conns)
==============================================================================
