----------------------------- MODULE StateStoreMC -----------------------------
(***************************************************************************)
(* Instances of StateStore for TLC.                                        *)
(***************************************************************************)
EXTENDS StateStore, TLC

Interchangeable == Permutations(Probers) \cup Permutations(Clients)
================================================================================
