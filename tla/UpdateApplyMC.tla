--------------------------- MODULE UpdateApplyMC ---------------------------
(***************************************************************************)
(* Instances of UpdateApply for TLC.                                       *)
(***************************************************************************)
EXTENDS UpdateApply

\* A kill can come at any step ...
AnyStep == Steps \ {"off"}
\* ... or at any step but those of a directory that is being removed, and of
\* the rolled-back swap whose marker already says "committed".
NotWhileSweeping == AnyStep \ {"sweep", "sweepfail", "rsweep", "rstatus"}

\* Every interrupted update is recovered, and every status reaches an end.
UpdatesSettle == RecoveryCompletes /\ StatusSettles
MidSwap == {"install"}
AfterRestore == {"rstatus", "rsweep", "install"}
MidRollbackSweep == {"sweepfail"}
NoStep == {}

LoopOnly == {"svc"}
LoopAndCli == {"svc", "cli"}
Importable == {"torn"}
NotImportable == {"dead"}
Either == {"torn", "dead"}

=============================================================================
