------------------------- MODULE UpdateApply_proofs -------------------------
(***************************************************************************)
(* For any number of helpers, kills and faults: while the packages are     *)
(* being swapped there is a complete copy of what was installed and a      *)
(* marker that says to restore it (IInv); and, as long as no helper dies   *)
(* while it removes that marker or after it put the copy back, what the    *)
(* status and the marker say of the package is true, a half-copied package *)
(* can be put back, and no helper starts the service on one (RInv).        *)
(*                                                                         *)
(* The swap is protected from the other helpers by the lock alone, so the  *)
(* induction carries who holds it: a helper past the acquisition is the    *)
(* holder, hence no second helper is anywhere near the recovery directory. *)
(***************************************************************************)
EXTENDS UpdateApply, TLAPS

Holds == \A p \in Helpers : pc[p] \in Locked => lock = p

\* The copy is complete before its marker is written.
Copied == \A p \in Helpers : pc[p] = "mark" => backup \in Copies

IInv == TypeOK /\ Holds /\ Copied /\ SwapIsBacked

LEMMA InitIInv == Init => IInv
<1>. SUFFICES ASSUME Init PROVE IInv
  OBVIOUS
<1>1. status \in Statuses
  BY DEF Init, Statuses, Say, Results
<1>2. /\ pc \in [Helpers -> Steps] /\ merged \in [Helpers -> BOOLEAN]
      /\ chk \in [Checkers -> Whole \cup {"off"}]
  BY DEF Init, Steps
<1>3. kills \in 0..MaxKills /\ faults \in 0..MaxFaults
  BY BoundsAreNat DEF Init
<1>4. TypeOK
  BY <1>1, <1>2, <1>3 DEF Init, TypeOK, Copies, Whole
<1>5. Holds /\ Copied /\ SwapIsBacked
  BY DEF Init, Holds, Copied, SwapIsBacked, Locked, Swapping, Restoring
<1>. QED BY <1>4, <1>5 DEF IInv

\* A status write leaves a status.
LEMMA StatusTyped ==
    ASSUME TypeOK
    PROVE  /\ status.avail \in BOOLEAN
           /\ \A st \in Active \cup Results, avail \in BOOLEAN : Say(st, avail) \in Statuses
BY DEF TypeOK, Statuses, Say

LEMMA UnwrittenTyped ==
    ASSUME TypeOK, Unwritten
    PROVE  status' \in Statuses /\ faults' \in 0..MaxFaults
BY BoundsAreNat DEF TypeOK, Unwritten, Fault

LEMMA TriedTyped ==
    ASSUME TypeOK, NEW st \in Active \cup Results, NEW avail \in BOOLEAN,
           TriesToWrite(st, avail)
    PROVE  status' \in Statuses /\ faults' \in 0..MaxFaults
BY StatusTyped, UnwrittenTyped DEF TypeOK, TriesToWrite, Writes

\* A helper that starts, ends, or asks for the locks.
LEMMA OutsideKeeps ==
    ASSUME IInv, NEW p \in Helpers,
           QueueUpdate(p) \/ SpawnUpdate(p) \/ ReadForFailure(p) \/ PublishFailure(p) \/ AcquireApply(p) \/ AcquireRecover(p)
    PROVE  IInv'
<1>. USE Distinct, BoundsAreNat, TornIsTorn DEF IInv, Helpers
<1>1. CASE QueueUpdate(p)
  <2>1. TypeOK'
    <3>1. status' \in Statuses /\ faults' \in 0..MaxFaults
      BY <1>1, StatusTyped, UnwrittenTyped, TriedTyped DEF QueueUpdate, TypeOK, Active, Results, Writes, Fault
    <3>. QED BY <1>1, <3>1 DEF QueueUpdate, TypeOK, SwapIsBacked, Go, Leave, files, world, Steps, Locked, Swapping, Restoring
  <2>2. Holds' /\ Copied' /\ SwapIsBacked'
    BY <1>1 DEF QueueUpdate, TypeOK, Holds, Copied, SwapIsBacked, Go, Leave, files, world, Locked, Swapping, Restoring
  <2>. QED BY <2>1, <2>2
<1>2. CASE SpawnUpdate(p)
  <2>1. TypeOK'
    <3>1. status' \in Statuses /\ faults' \in 0..MaxFaults
      BY <1>2, StatusTyped, UnwrittenTyped, TriedTyped DEF SpawnUpdate, TypeOK, Active, Results, Writes, Fault
    <3>. QED BY <1>2, <3>1 DEF SpawnUpdate, TypeOK, SwapIsBacked, Go, Leave, files, world, Steps, Locked, Swapping, Restoring
  <2>2. Holds' /\ Copied' /\ SwapIsBacked'
    BY <1>2 DEF SpawnUpdate, TypeOK, Holds, Copied, SwapIsBacked, Go, Leave, files, world, Locked, Swapping, Restoring
  <2>. QED BY <2>1, <2>2
<1>3. CASE ReadForFailure(p)
  <2>1. TypeOK'
    BY <1>3, StatusTyped DEF ReadForFailure, TypeOK, SwapIsBacked, Go, Leave, files, world, Steps, Locked, Swapping, Restoring
  <2>2. Holds' /\ Copied' /\ SwapIsBacked'
    BY <1>3 DEF ReadForFailure, TypeOK, Holds, Copied, SwapIsBacked, Go, Leave, files, world, Locked, Swapping, Restoring
  <2>. QED BY <2>1, <2>2
<1>4. CASE PublishFailure(p)
  <2>1. TypeOK'
    <3>1. TriesToWrite("failed", merged[p]) /\ "failed" \in Active \cup Results /\ merged[p] \in BOOLEAN
      BY <1>4 DEF PublishFailure, TypeOK, Results
    <3>2. status' \in Statuses /\ faults' \in 0..MaxFaults
      BY <3>1, TriedTyped
    <3>. QED BY <1>4, <3>2 DEF PublishFailure, TypeOK, SwapIsBacked, Go, Leave, files, world, Steps, Locked, Swapping, Restoring
  <2>2. Holds' /\ Copied' /\ SwapIsBacked'
    BY <1>4 DEF PublishFailure, TypeOK, Holds, Copied, SwapIsBacked, Go, Leave, files, world, Locked, Swapping, Restoring
  <2>. QED BY <2>1, <2>2
<1>5. CASE AcquireApply(p)
  <2>1. TypeOK'
    BY <1>5 DEF AcquireApply, TypeOK, Go, Leave, Fault, files, world, Steps, Locked, Swapping, Restoring, Copies
  <2>2. Holds' /\ Copied' /\ SwapIsBacked'
    BY <1>5 DEF AcquireApply, TypeOK, Holds, Copied, SwapIsBacked, Go, Leave, files, world, Locked, Swapping, Restoring
  <2>. QED BY <2>1, <2>2
<1>6. CASE AcquireRecover(p)
  <2>1. TypeOK'
    BY <1>6 DEF AcquireRecover, TypeOK, Go, Leave, Fault, files, world, Steps, Locked, Swapping, Restoring, Copies
  <2>2. Holds' /\ Copied' /\ SwapIsBacked'
    BY <1>6 DEF AcquireRecover, TypeOK, Holds, Copied, SwapIsBacked, Go, Leave, files, world, Locked, Swapping, Restoring
  <2>. QED BY <2>1, <2>2
<1>. QED BY <1>1, <1>2, <1>3, <1>4, <1>5, <1>6

\* An apply up to its marker.
LEMMA PrepareKeeps ==
    ASSUME IInv, NEW p \in Helpers,
           Begin(p) \/ Prepare(p) \/ Backup(p) \/ BackupDone(p) \/ WriteRecoveryMarker(p)
    PROVE  IInv'
<1>. USE Distinct, BoundsAreNat, TornIsTorn DEF IInv, Helpers
<1>1. CASE Begin(p)
  <2>1. status' \in Statuses /\ faults' \in 0..MaxFaults
    <3>1. ~status.avail => TriesToWrite("failed", FALSE)
      BY <1>1 DEF Begin
    <3>2. status.avail => (Writes("installing", TRUE) /\ UNCHANGED faults) \/ Unwritten
      BY <1>1 DEF Begin
    <3>3. "failed" \in Results /\ "installing" \in Active
      BY DEF Results, Active
    <3>4. CASE ~status.avail
      BY <3>1, <3>3, <3>4, TriedTyped
    <3>5. CASE status.avail
      <4>1. Say("installing", TRUE) \in Statuses
        BY <3>3, StatusTyped, Zenon
      <4>2. CASE Writes("installing", TRUE) /\ UNCHANGED faults
        BY <4>1, <4>2 DEF Writes, TypeOK
      <4>. QED BY <3>2, <3>5, <4>2, UnwrittenTyped
    <3>. QED BY <3>4, <3>5
  <2>2. \E next \in {"off", "download", "fail"} :
           Go(p, next) /\ lock' = (IF next = "download" THEN lock ELSE Nobody)
    BY <1>1 DEF Begin, Leave
  <2>3. pc[p] = "begin" /\ UNCHANGED <<pkg, backup, marker, world, merged>>
    BY <1>1 DEF Begin
  <2>4. TypeOK'
    BY <2>1, <2>2, <2>3 DEF TypeOK, Go, world, Steps, Locked, Swapping, Restoring
  <2>5. Holds' /\ Copied' /\ SwapIsBacked'
    BY <2>2, <2>3 DEF TypeOK, Holds, Copied, SwapIsBacked, Go, Locked, Swapping, Restoring
  <2>. QED BY <2>4, <2>5
<1>2. CASE Prepare(p)
  <2>1. TypeOK'
    BY <1>2 DEF Prepare, TypeOK, Go, Leave, Fault, files, world, Steps, Locked, Swapping, Restoring, Copies
  <2>2. Holds' /\ Copied' /\ SwapIsBacked'
    BY <1>2 DEF Prepare, TypeOK, Holds, Copied, SwapIsBacked, Go, Leave, files, world, Locked, Swapping, Restoring
  <2>. QED BY <2>1, <2>2
<1>3. CASE Backup(p)
  <2>1. TypeOK'
    BY <1>3 DEF Backup, TypeOK, Go, Leave, Fault, files, world, Steps, Locked, Swapping, Restoring, Copies
  <2>2. Holds' /\ Copied' /\ SwapIsBacked'
    BY <1>3 DEF Backup, TypeOK, Holds, Copied, SwapIsBacked, Go, Leave, files, world, Locked, Swapping, Restoring
  <2>. QED BY <2>1, <2>2
<1>4. CASE BackupDone(p)
  <2>1. TypeOK'
    BY <1>4 DEF BackupDone, TypeOK, Go, Leave, Fault, files, world, Steps, Locked, Swapping, Restoring, Copies
  <2>2. Holds' /\ Copied' /\ SwapIsBacked'
    BY <1>4 DEF BackupDone, TypeOK, Holds, Copied, SwapIsBacked, Go, Leave, files, world, Locked, Swapping, Restoring
  <2>. QED BY <2>1, <2>2
<1>5. CASE WriteRecoveryMarker(p)
  <2>1. TypeOK'
    BY <1>5 DEF WriteRecoveryMarker, TypeOK, Go, Leave, Fault, files, world, Steps, Locked, Swapping, Restoring, Copies
  <2>2. Holds' /\ Copied' /\ SwapIsBacked'
    BY <1>5 DEF WriteRecoveryMarker, TypeOK, Holds, Copied, SwapIsBacked, Go, Leave, files, world, Locked, Swapping, Restoring
  <2>. QED BY <2>1, <2>2
<1>. QED BY <1>1, <1>2, <1>3, <1>4, <1>5

\* The swap itself.
LEMMA SwapKeeps ==
    ASSUME IInv, NEW p \in Helpers,
           StopService(p) \/ Unpack(p) \/ InstallWheel(p) \/ VerifyRuntime(p) \/ RestartService(p) \/ Commit(p) \/ PublishInstalled(p)
    PROVE  IInv'
<1>. USE Distinct, BoundsAreNat, TornIsTorn DEF IInv, Helpers
<1>1. CASE StopService(p)
  <2>1. TypeOK'
    BY <1>1 DEF StopService, Stops, TypeOK, Go, Leave, Fault, files, world, Steps, Locked, Swapping, Restoring, Copies
  <2>2. Holds' /\ Copied' /\ SwapIsBacked'
    BY <1>1 DEF StopService, Stops, TypeOK, Holds, Copied, SwapIsBacked, Go, Leave, files, world, Locked, Swapping, Restoring
  <2>. QED BY <2>1, <2>2
<1>2. CASE Unpack(p)
  <2>1. TypeOK'
    BY <1>2 DEF Unpack, TypeOK, Go, Leave, Fault, files, world, Steps, Locked, Swapping, Restoring, Copies
  <2>2. Holds' /\ Copied' /\ SwapIsBacked'
    BY <1>2 DEF Unpack, TypeOK, Holds, Copied, SwapIsBacked, Go, Leave, files, world, Locked, Swapping, Restoring
  <2>. QED BY <2>1, <2>2
<1>3. CASE InstallWheel(p)
  <2>1. TypeOK'
    <3>1. backup \in Copies
      BY <1>3 DEF InstallWheel, SwapIsBacked, Swapping
    <3>2. pkg' \in Copies
      BY <1>3, <3>1 DEF InstallWheel, TypeOK, Copies, Whole
    <3>. QED BY <1>3, <3>2 DEF InstallWheel, TypeOK, Go, Fault, files, world, Steps, Locked, Swapping, Restoring
  <2>2. Holds' /\ Copied' /\ SwapIsBacked'
    BY <1>3 DEF InstallWheel, TypeOK, Holds, Copied, SwapIsBacked, Go, Leave, files, world, Locked, Swapping, Restoring
  <2>. QED BY <2>1, <2>2
<1>4. CASE VerifyRuntime(p)
  <2>1. TypeOK'
    <3>1. status' \in Statuses /\ faults' \in 0..MaxFaults
      BY <1>4, StatusTyped, UnwrittenTyped, TriedTyped DEF VerifyRuntime, TypeOK, Active, Results, Writes, Fault
    <3>. QED BY <1>4, <3>1 DEF VerifyRuntime, TypeOK, SwapIsBacked, Go, Leave, files, world, Steps, Locked, Swapping, Restoring
  <2>2. Holds' /\ Copied' /\ SwapIsBacked'
    BY <1>4 DEF VerifyRuntime, TypeOK, Holds, Copied, SwapIsBacked, Go, Leave, files, world, Locked, Swapping, Restoring
  <2>. QED BY <2>1, <2>2
<1>5. CASE RestartService(p)
  <2>1. TypeOK'
    BY <1>5 DEF RestartService, Starts, Stops, Loaded, Whole, TypeOK, Go, Leave, Fault, files, world, Steps, Locked, Swapping, Restoring, Copies
  <2>2. Holds' /\ Copied' /\ SwapIsBacked'
    BY <1>5 DEF RestartService, Starts, Stops, Loaded, Whole, TypeOK, Holds, Copied, SwapIsBacked, Go, Leave, files, world, Locked, Swapping, Restoring
  <2>. QED BY <2>1, <2>2
<1>6. CASE Commit(p)
  <2>1. TypeOK'
    BY <1>6 DEF Commit, TypeOK, Go, Leave, Fault, files, world, Steps, Locked, Swapping, Restoring, Copies
  <2>2. Holds' /\ Copied' /\ SwapIsBacked'
    BY <1>6 DEF Commit, TypeOK, Holds, Copied, SwapIsBacked, Go, Leave, files, world, Locked, Swapping, Restoring
  <2>. QED BY <2>1, <2>2
<1>7. CASE PublishInstalled(p)
  <2>1. TypeOK'
    <3>1. TriesToWrite("installed", FALSE) /\ "installed" \in Active \cup Results /\ FALSE \in BOOLEAN
      BY <1>7 DEF PublishInstalled, TypeOK, Results
    <3>2. status' \in Statuses /\ faults' \in 0..MaxFaults
      BY <3>1, TriedTyped
    <3>. QED BY <1>7, <3>2 DEF PublishInstalled, TypeOK, SwapIsBacked, Go, Leave, files, world, Steps, Locked, Swapping, Restoring
  <2>2. Holds' /\ Copied' /\ SwapIsBacked'
    BY <1>7 DEF PublishInstalled, TypeOK, Holds, Copied, SwapIsBacked, Go, Leave, files, world, Locked, Swapping, Restoring
  <2>. QED BY <2>1, <2>2
<1>. QED BY <1>1, <1>2, <1>3, <1>4, <1>5, <1>6, <1>7

\* The rollback.
LEMMA RollbackKeeps ==
    ASSUME IInv, NEW p \in Helpers,
           Rollback(p) \/ RemovePackages(p, "remove", "copyback") \/ CopyBack(p, "copyback", "rollrestart", "fail") \/ RollbackRestart(p)
    PROVE  IInv'
<1>. USE Distinct, BoundsAreNat, TornIsTorn DEF IInv, Helpers
<1>1. CASE Rollback(p)
  <2>1. TypeOK'
    BY <1>1 DEF Rollback, Stops, TypeOK, Go, Leave, Fault, files, world, Steps, Locked, Swapping, Restoring, Copies
  <2>2. Holds' /\ Copied' /\ SwapIsBacked'
    BY <1>1 DEF Rollback, Stops, TypeOK, Holds, Copied, SwapIsBacked, Go, Leave, files, world, Locked, Swapping, Restoring
  <2>. QED BY <2>1, <2>2
<1>2. CASE RemovePackages(p, "remove", "copyback")
  <2>1. TypeOK'
    BY <1>2 DEF RemovePackages, TypeOK, Go, Leave, Fault, files, world, Steps, Locked, Swapping, Restoring, Copies
  <2>2. Holds' /\ Copied' /\ SwapIsBacked'
    BY <1>2 DEF RemovePackages, TypeOK, Holds, Copied, SwapIsBacked, Go, Leave, files, world, Locked, Swapping, Restoring
  <2>. QED BY <2>1, <2>2
<1>3. CASE CopyBack(p, "copyback", "rollrestart", "fail")
  <2>1. TypeOK'
    BY <1>3 DEF CopyBack, TypeOK, Go, Leave, Fault, files, world, Steps, Locked, Swapping, Restoring, Copies
  <2>2. Holds' /\ Copied' /\ SwapIsBacked'
    BY <1>3 DEF CopyBack, TypeOK, Holds, Copied, SwapIsBacked, Go, Leave, files, world, Locked, Swapping, Restoring
  <2>. QED BY <2>1, <2>2
<1>4. CASE RollbackRestart(p)
  <2>1. TypeOK'
    BY <1>4 DEF RollbackRestart, Starts, Stops, Loaded, Whole, TypeOK, Go, Leave, Fault, files, world, Steps, Locked, Swapping, Restoring, Copies
  <2>2. Holds' /\ Copied' /\ SwapIsBacked'
    BY <1>4 DEF RollbackRestart, Starts, Stops, Loaded, Whole, TypeOK, Holds, Copied, SwapIsBacked, Go, Leave, files, world, Locked, Swapping, Restoring
  <2>. QED BY <2>1, <2>2
<1>. QED BY <1>1, <1>2, <1>3, <1>4

\* The recovery directory goes.
LEMMA SweepKeeps ==
    ASSUME IInv, NEW p \in Helpers,
           Sweep(p, "sweep") \/ Sweep(p, "sweepfail") \/ Sweep(p, "rsweep") \/ Swept(p, "sweep", "off") \/ Swept(p, "sweepfail", "fail") \/ Recovered(p)
    PROVE  IInv'
<1>. USE Distinct, BoundsAreNat, TornIsTorn DEF IInv, Helpers
<1>1. CASE Sweep(p, "sweep")
  <2>1. TypeOK'
    BY <1>1 DEF Sweep, TypeOK, Go, Leave, Fault, files, world, Steps, Locked, Swapping, Restoring, Copies
  <2>2. Holds' /\ Copied' /\ SwapIsBacked'
    BY <1>1 DEF Sweep, TypeOK, Holds, Copied, SwapIsBacked, Go, Leave, files, world, Locked, Swapping, Restoring
  <2>. QED BY <2>1, <2>2
<1>2. CASE Sweep(p, "sweepfail")
  <2>1. TypeOK'
    BY <1>2 DEF Sweep, TypeOK, Go, Leave, Fault, files, world, Steps, Locked, Swapping, Restoring, Copies
  <2>2. Holds' /\ Copied' /\ SwapIsBacked'
    BY <1>2 DEF Sweep, TypeOK, Holds, Copied, SwapIsBacked, Go, Leave, files, world, Locked, Swapping, Restoring
  <2>. QED BY <2>1, <2>2
<1>3. CASE Sweep(p, "rsweep")
  <2>1. TypeOK'
    BY <1>3 DEF Sweep, TypeOK, Go, Leave, Fault, files, world, Steps, Locked, Swapping, Restoring, Copies
  <2>2. Holds' /\ Copied' /\ SwapIsBacked'
    BY <1>3 DEF Sweep, TypeOK, Holds, Copied, SwapIsBacked, Go, Leave, files, world, Locked, Swapping, Restoring
  <2>. QED BY <2>1, <2>2
<1>4. CASE Swept(p, "sweep", "off")
  <2>1. TypeOK'
    BY <1>4 DEF Swept, TypeOK, Go, Leave, Fault, files, world, Steps, Locked, Swapping, Restoring, Copies
  <2>2. Holds' /\ Copied' /\ SwapIsBacked'
    BY <1>4 DEF Swept, TypeOK, Holds, Copied, SwapIsBacked, Go, Leave, files, world, Locked, Swapping, Restoring
  <2>. QED BY <2>1, <2>2
<1>5. CASE Swept(p, "sweepfail", "fail")
  <2>1. TypeOK'
    BY <1>5 DEF Swept, TypeOK, Go, Leave, Fault, files, world, Steps, Locked, Swapping, Restoring, Copies
  <2>2. Holds' /\ Copied' /\ SwapIsBacked'
    BY <1>5 DEF Swept, TypeOK, Holds, Copied, SwapIsBacked, Go, Leave, files, world, Locked, Swapping, Restoring
  <2>. QED BY <2>1, <2>2
<1>6. CASE Recovered(p)
  <2>1. TypeOK'
    BY <1>6 DEF Recovered, TypeOK, Go, Leave, Fault, files, world, Steps, Locked, Swapping, Restoring, Copies
  <2>2. Holds' /\ Copied' /\ SwapIsBacked'
    BY <1>6 DEF Recovered, TypeOK, Holds, Copied, SwapIsBacked, Go, Leave, files, world, Locked, Swapping, Restoring
  <2>. QED BY <2>1, <2>2
<1>. QED BY <1>1, <1>2, <1>3, <1>4, <1>5, <1>6

\* The recovery of an interrupted swap.
LEMMA RecoveryKeeps ==
    ASSUME IInv, NEW p \in Helpers,
           ReadMarker(p) \/ RecoverCommitted(p) \/ RemovePackages(p, "rremove", "rcopyback") \/ CopyBack(p, "rcopyback", "rrestart", IF p = Recoverer THEN "off" ELSE "fail") \/ RecoverRestart(p) \/ WriteRecoveryPhase(p) \/ PublishRestored(p)
    PROVE  IInv'
<1>. USE Distinct, BoundsAreNat, TornIsTorn DEF IInv, Helpers
<1>1. CASE ReadMarker(p)
  <2>1. TypeOK'
    BY <1>1 DEF ReadMarker, RecoveryFailed, TypeOK, Go, Leave, Fault, files, world, Steps, Locked, Swapping, Restoring, Copies
  <2>2. Holds' /\ Copied' /\ SwapIsBacked'
    BY <1>1 DEF ReadMarker, RecoveryFailed, TypeOK, Holds, Copied, SwapIsBacked, Go, Leave, files, world, Locked, Swapping, Restoring
  <2>. QED BY <2>1, <2>2
<1>2. CASE RecoverCommitted(p)
  <2>1. TypeOK'
    <3>1. TriesToWrite("installed", FALSE) /\ "installed" \in Active \cup Results /\ FALSE \in BOOLEAN
      BY <1>2 DEF RecoverCommitted, TypeOK, Results
    <3>2. status' \in Statuses /\ faults' \in 0..MaxFaults
      BY <3>1, TriedTyped
    <3>. QED BY <1>2, <3>2 DEF RecoverCommitted, TypeOK, SwapIsBacked, Go, Leave, files, world, Steps, Locked, Swapping, Restoring
  <2>2. Holds' /\ Copied' /\ SwapIsBacked'
    BY <1>2 DEF RecoverCommitted, TypeOK, Holds, Copied, SwapIsBacked, Go, Leave, files, world, Locked, Swapping, Restoring
  <2>. QED BY <2>1, <2>2
<1>3. CASE RemovePackages(p, "rremove", "rcopyback")
  <2>1. TypeOK'
    BY <1>3 DEF RemovePackages, TypeOK, Go, Leave, Fault, files, world, Steps, Locked, Swapping, Restoring, Copies
  <2>2. Holds' /\ Copied' /\ SwapIsBacked'
    BY <1>3 DEF RemovePackages, TypeOK, Holds, Copied, SwapIsBacked, Go, Leave, files, world, Locked, Swapping, Restoring
  <2>. QED BY <2>1, <2>2
<1>4. CASE CopyBack(p, "rcopyback", "rrestart", IF p = Recoverer THEN "off" ELSE "fail")
  <2>1. TypeOK'
    BY <1>4 DEF CopyBack, TypeOK, Go, Leave, Fault, files, world, Steps, Locked, Swapping, Restoring, Copies
  <2>2. Holds' /\ Copied' /\ SwapIsBacked'
    BY <1>4 DEF CopyBack, TypeOK, Holds, Copied, SwapIsBacked, Go, Leave, files, world, Locked, Swapping, Restoring
  <2>. QED BY <2>1, <2>2
<1>5. CASE RecoverRestart(p)
  <2>1. TypeOK'
    BY <1>5 DEF RecoverRestart, RecoveryFailed, Starts, Stops, Loaded, Whole, TypeOK, Go, Leave, Fault, files, world, Steps, Locked, Swapping, Restoring, Copies
  <2>2. Holds' /\ Copied' /\ SwapIsBacked'
    BY <1>5 DEF RecoverRestart, RecoveryFailed, Starts, Stops, Loaded, Whole, TypeOK, Holds, Copied, SwapIsBacked, Go, Leave, files, world, Locked, Swapping, Restoring
  <2>. QED BY <2>1, <2>2
<1>6. CASE WriteRecoveryPhase(p)
  <2>1. TypeOK'
    BY <1>6 DEF WriteRecoveryPhase, RecoveryFailed, TypeOK, Go, Leave, Fault, files, world, Steps, Locked, Swapping, Restoring, Copies
  <2>2. Holds' /\ Copied' /\ SwapIsBacked'
    BY <1>6 DEF WriteRecoveryPhase, RecoveryFailed, TypeOK, Holds, Copied, SwapIsBacked, Go, Leave, files, world, Locked, Swapping, Restoring
  <2>. QED BY <2>1, <2>2
<1>7. CASE PublishRestored(p)
  <2>1. TypeOK'
    <3>1. TriesToWrite("failed", FALSE) /\ "failed" \in Active \cup Results /\ FALSE \in BOOLEAN
      BY <1>7 DEF PublishRestored, TypeOK, Results
    <3>2. status' \in Statuses /\ faults' \in 0..MaxFaults
      BY <3>1, TriedTyped
    <3>. QED BY <1>7, <3>2 DEF PublishRestored, TypeOK, SwapIsBacked, Go, Leave, files, world, Steps, Locked, Swapping, Restoring
  <2>2. Holds' /\ Copied' /\ SwapIsBacked'
    BY <1>7 DEF PublishRestored, TypeOK, Holds, Copied, SwapIsBacked, Go, Leave, files, world, Locked, Swapping, Restoring
  <2>. QED BY <2>1, <2>2
<1>. QED BY <1>1, <1>2, <1>3, <1>4, <1>5, <1>6, <1>7

\* A kill frees the lock of the helper it hits.
LEMMA KillKeeps ==
    ASSUME IInv, NEW p \in Helpers,
           Kill(p)
    PROVE  IInv'
<1>. USE Distinct, BoundsAreNat, TornIsTorn DEF IInv, Helpers
<1>1. CASE Kill(p)
  <2>1. TypeOK'
    BY <1>1 DEF Kill, TypeOK, Go, Leave, Fault, files, world, Steps, Locked, Swapping, Restoring, Copies
  <2>2. Holds' /\ Copied' /\ SwapIsBacked'
    BY <1>1 DEF Kill, TypeOK, Holds, Copied, SwapIsBacked, Go, Leave, files, world, Locked, Swapping, Restoring
  <2>. QED BY <2>1, <2>2
<1>. QED BY <1>1

\* The service, the checks, the Pro installer, and a machine that goes down.
LEMMA WorldKeeps ==
    ASSUME IInv,
           \/ SpawnRecovery \/ StartService \/ StopByUser \/ AgeStatus
           \/ ProInstallStarts \/ ProInstallEnds \/ PowerLoss
           \/ \E c \in Checkers : StartCheck(c) \/ PersistCheck(c)
    PROVE  IInv'
<1>. USE Distinct, BoundsAreNat, TornIsTorn DEF IInv, Helpers
<1>1. CASE SpawnRecovery
  <2>1. TypeOK'
    BY <1>1 DEF SpawnRecovery, TypeOK, Go, Fault, files, world, Steps, Copies
  <2>2. Holds' /\ Copied' /\ SwapIsBacked'
    BY <1>1 DEF SpawnRecovery, TypeOK, Holds, Copied, SwapIsBacked, Go, files, world, Locked, Swapping, Restoring
  <2>. QED BY <2>1, <2>2
<1>2. CASE StartService
  <2>1. TypeOK'
    BY <1>2 DEF StartService, Starts, Loaded, Whole, TypeOK, Go, Fault, files, world, Steps, Copies
  <2>2. Holds' /\ Copied' /\ SwapIsBacked'
    BY <1>2 DEF StartService, Starts, Loaded, Whole, TypeOK, Holds, Copied, SwapIsBacked, Go, files, world, Locked, Swapping, Restoring
  <2>. QED BY <2>1, <2>2
<1>3. CASE StopByUser
  <2>1. TypeOK'
    BY <1>3 DEF StopByUser, Stops, TypeOK, Go, Fault, files, world, Steps, Copies
  <2>2. Holds' /\ Copied' /\ SwapIsBacked'
    BY <1>3 DEF StopByUser, Stops, TypeOK, Holds, Copied, SwapIsBacked, Go, files, world, Locked, Swapping, Restoring
  <2>. QED BY <2>1, <2>2
<1>4. CASE AgeStatus
  <2>1. TypeOK'
    BY <1>4 DEF AgeStatus, TypeOK, Statuses, world
  <2>2. Holds' /\ Copied' /\ SwapIsBacked'
    BY <1>4 DEF AgeStatus, TypeOK, Holds, Copied, SwapIsBacked, Go, files, world, Locked, Swapping, Restoring
  <2>. QED BY <2>1, <2>2
<1>5. CASE ProInstallStarts
  <2>1. TypeOK'
    BY <1>5 DEF ProInstallStarts, TypeOK, Go, Fault, files, world, Steps, Copies
  <2>2. Holds' /\ Copied' /\ SwapIsBacked'
    BY <1>5 DEF ProInstallStarts, TypeOK, Holds, Copied, SwapIsBacked, Go, files, world, Locked, Swapping, Restoring
  <2>. QED BY <2>1, <2>2
<1>6. CASE ProInstallEnds
  <2>1. TypeOK'
    BY <1>6 DEF ProInstallEnds, TypeOK, Go, Fault, files, world, Steps, Copies
  <2>2. Holds' /\ Copied' /\ SwapIsBacked'
    BY <1>6 DEF ProInstallEnds, TypeOK, Holds, Copied, SwapIsBacked, Go, files, world, Locked, Swapping, Restoring
  <2>. QED BY <2>1, <2>2
<1>7. CASE PowerLoss
  <2>1. TypeOK'
    <3>1. pc' \in [Helpers -> Steps]
      BY <1>7 DEF PowerLoss, Steps
    <3>3. lock' \in Helpers \cup {Nobody} /\ pro' \in BOOLEAN
      BY <1>7 DEF PowerLoss
    <3>4. kills' \in 0..MaxKills
      BY <1>7 DEF PowerLoss, TypeOK
    <3>2. svc' \in Whole \cup {"down"} /\ chk' \in [Checkers -> Whole \cup {"off"}]
      BY <1>7 DEF PowerLoss, Stops, TypeOK
    <3>. QED BY <1>7, <3>1, <3>2, <3>3, <3>4 DEF PowerLoss, TypeOK, files
  <2>2. Holds' /\ Copied' /\ SwapIsBacked'
    BY <1>7 DEF PowerLoss, Stops, TypeOK, Holds, Copied, SwapIsBacked, Go, files, world, Locked, Swapping, Restoring
  <2>. QED BY <2>1, <2>2
<1>8. CASE \E c \in Checkers : StartCheck(c)
  <2>1. TypeOK'
    BY <1>8 DEF StartCheck, Loaded, Whole, TypeOK, Go, Fault, files, world, Steps, Copies
  <2>2. Holds' /\ Copied' /\ SwapIsBacked'
    BY <1>8 DEF StartCheck, Loaded, Whole, TypeOK, Holds, Copied, SwapIsBacked, Go, files, world, Locked, Swapping, Restoring
  <2>. QED BY <2>1, <2>2
<1>9. CASE \E c \in Checkers : PersistCheck(c)
  <2>1. TypeOK'
    <3>1. PICK c \in Checkers : PersistCheck(c)
      BY <1>9
    <3>2. (chk[c] # "new") \in BOOLEAN /\ "idle" \in Results /\ "error" \in Results
      BY DEF Results
    <3>3. \/ UNCHANGED <<status, faults>>
          \/ status' = Say("idle", chk[c] # "new") /\ UNCHANGED faults
          \/ status' = Say("error", FALSE) /\ Fault
      BY <3>1 DEF PersistCheck, Writes
    <3>4. status' \in Statuses
      <4>1. Say("idle", chk[c] # "new") \in Statuses /\ Say("error", FALSE) \in Statuses
        BY <3>2, StatusTyped, Zenon
      <4>. QED BY <3>3, <4>1, Zenon DEF TypeOK
    <3>6. faults' \in 0..MaxFaults
      <4>1. UNCHANGED faults \/ Fault
        BY <3>3, Zenon
      <4>. QED BY <4>1, BoundsAreNat DEF TypeOK, Fault
    <3>5. chk' \in [Checkers -> Whole \cup {"off"}]
      BY <3>1 DEF PersistCheck, TypeOK
    <3>. QED BY <3>1, <3>4, <3>5, <3>6 DEF PersistCheck, TypeOK
  <2>2. Holds' /\ Copied' /\ SwapIsBacked'
    BY <1>9 DEF PersistCheck, TypeOK, Holds, Copied, SwapIsBacked, Go, files, world, Locked, Swapping, Restoring
  <2>. QED BY <2>1, <2>2
<1>. QED BY <1>1, <1>2, <1>3, <1>4, <1>5, <1>6, <1>7, <1>8, <1>9

LEMMA StepKeeps == IInv /\ [Next]_vars => IInv'
<1>. SUFFICES ASSUME IInv, [Next]_vars PROVE IInv'
  OBVIOUS
<1>1. ASSUME NEW p \in Helpers, HelperStep(p) PROVE IInv'
  <2>1. CASE ApplyStep(p)
    BY <1>1, <2>1, OutsideKeeps, PrepareKeeps, SwapKeeps, RollbackKeeps, SweepKeeps DEF ApplyStep
  <2>2. CASE RecoverStep(p)
    BY <1>1, <2>2, OutsideKeeps, RecoveryKeeps, SweepKeeps DEF RecoverStep
  <2>. QED BY <1>1, <2>1, <2>2 DEF HelperStep
<1>2. ASSUME NEW p \in Helpers, Kill(p) PROVE IInv'
  BY <1>2, KillKeeps
<1>3. ASSUME NEW p \in Appliers, QueueUpdate(p) PROVE IInv'
  BY <1>3, OutsideKeeps DEF Helpers
<1>4. CASE UNCHANGED vars
  BY <1>4 DEF vars, IInv, TypeOK, Holds, Copied, SwapIsBacked
<1>. QED BY <1>1, <1>2, <1>3, <1>4, WorldKeeps DEF Next

LEMMA Invariance == Spec => []IInv
BY InitIInv, StepKeeps, PTL DEF Spec

\* Every file and helper stays in the states the code knows, whoever is killed
\* where: the model's type invariant.
THEOREM TypeCorrect == Spec => []TypeOK
<1>1. IInv => TypeOK
  BY DEF IInv
<1>. QED BY <1>1, Invariance, PTL

\* While apply_update swaps or rolls back, the marker says "prepared" and the copy
\* is complete; _recover_interrupted_update_locked relies on it after a kill.
THEOREM SwapStaysBacked == Spec => []SwapIsBacked
<1>1. IInv => SwapIsBacked
  BY DEF IInv
<1>. QED BY <1>1, Invariance, PTL

\* Steps at which the package is the release, and at which it is a whole one.
OnNew == {"verify", "restart", "commit", "installed", "sweep", "rinstalled"}
OnWhole == OnNew \cup
           {"begin", "download", "clean", "copy", "mark", "rollrestart", "sweepfail",
            "rrestart", "phase", "rstatus", "rsweep"}

\* What a helper knows of the package, of the copy and of the marker by the step
\* it has come to.
Known ==
    \A p \in Helpers :
        /\ pc[p] \in OnWhole => pkg \in Whole
        /\ pc[p] \in OnNew => pkg = "new"
        /\ pc[p] = "mark" => backup \in Whole
        /\ pc[p] = "read" => marker # "none"
        /\ pc[p] \in Restoring => marker = "prepared"
        /\ pc[p] \in {"installed", "rinstalled"} => marker = "committed"
        /\ pc[p] \in {"sweep", "rstatus", "rsweep"} => marker # "prepared"

\* A marker means what it says, but for the helper that is removing it and the
\* one that has just restored the copy.
MarkerMeans ==
    /\ marker = "prepared" => backup \in Whole \/ \E p \in Helpers : pc[p] = "sweepfail"
    /\ marker = "committed" => pkg = "new" \/ \E p \in Helpers : pc[p] \in {"rstatus", "rsweep"}

\* Nobody who is about to change the package sees the status "installed".
StatusMeans ==
    status.st = "installed" =>
        /\ pkg = "new" /\ marker # "prepared"
        /\ \A p \in Helpers : pc[p] \notin {"download", "clean", "copy", "mark", "rstatus"}

RInv == Known /\ MarkerMeans /\ StatusMeans /\ TornIsRecoverable

\* The steps at which a kill leaves a marker that is not true: its copy is half
\* removed, or the swap it calls committed is undone.
Unfinished == {"sweepfail", "rstatus", "rsweep"}

LEMMA InitMeans == Init => RInv
BY DEF Init, RInv, Known, MarkerMeans, StatusMeans, TornIsRecoverable, Whole, Say,
       OnNew, OnWhole, Restoring

\* The helper behind the locks is alone there.
LEMMA Alone ==
    ASSUME IInv, NEW p \in Helpers, pc[p] \in Locked, NEW q \in Helpers, q # p
    PROVE  pc[q] \notin Locked
BY DEF IInv, Holds

\* A helper that starts, ends, or asks for the locks.
LEMMA OutsideMeans ==
    ASSUME IInv, RInv, NEW p \in Helpers,
           QueueUpdate(p) \/ SpawnUpdate(p) \/ ReadForFailure(p) \/ PublishFailure(p) \/ AcquireApply(p) \/ AcquireRecover(p)
    PROVE  RInv'
<1>1. /\ \A q \in Helpers : pc[p] \in Locked /\ q # p => pc[q] \notin Locked
      /\ pc[p] \in Swapping => marker = "prepared"
  BY Alone DEF IInv, SwapIsBacked
<1>2. pc \in [Helpers -> Steps] /\ pkg \in Copies /\ marker \in {"none", "prepared", "committed"}
  BY DEF IInv, TypeOK
<1>. USE <1>1, <1>2, Distinct, TornIsTorn
     DEF RInv, Go, Leave, files, world, Locked, Swapping, Restoring, OnNew, OnWhole, Whole, Copies
<1>3. CASE QueueUpdate(p)
  <2>1. Known' /\ MarkerMeans' /\ TornIsRecoverable'
    BY <1>3 DEF QueueUpdate, Known, MarkerMeans, TornIsRecoverable
  <2>2. StatusMeans'
    BY <1>3 DEF QueueUpdate, Writes, Unwritten, TriesToWrite, Say, Known, StatusMeans
  <2>. QED BY <2>1, <2>2
<1>4. CASE SpawnUpdate(p)
  <2>1. Known' /\ MarkerMeans' /\ TornIsRecoverable'
    BY <1>4 DEF SpawnUpdate, Known, MarkerMeans, TornIsRecoverable
  <2>2. StatusMeans'
    BY <1>4 DEF SpawnUpdate, Writes, Unwritten, TriesToWrite, Say, Known, StatusMeans
  <2>. QED BY <2>1, <2>2
<1>5. CASE ReadForFailure(p)
  <2>1. Known' /\ MarkerMeans' /\ TornIsRecoverable'
    BY <1>5 DEF ReadForFailure, Known, MarkerMeans, TornIsRecoverable
  <2>2. StatusMeans'
    BY <1>5 DEF ReadForFailure, Known, StatusMeans
  <2>. QED BY <2>1, <2>2
<1>6. CASE PublishFailure(p)
  <2>1. Known' /\ MarkerMeans' /\ TornIsRecoverable'
    BY <1>6 DEF PublishFailure, Known, MarkerMeans, TornIsRecoverable
  <2>2. StatusMeans'
    BY <1>6 DEF PublishFailure, Writes, Unwritten, TriesToWrite, Say, Known, StatusMeans
  <2>. QED BY <2>1, <2>2
<1>7. CASE AcquireApply(p)
  <2>1. Known' /\ MarkerMeans' /\ TornIsRecoverable'
    BY <1>7 DEF AcquireApply, Known, MarkerMeans, TornIsRecoverable
  <2>2. StatusMeans'
    BY <1>7 DEF AcquireApply, Known, StatusMeans
  <2>. QED BY <2>1, <2>2
<1>8. CASE AcquireRecover(p)
  <2>1. Known' /\ MarkerMeans' /\ TornIsRecoverable'
    BY <1>8 DEF AcquireRecover, Known, MarkerMeans, TornIsRecoverable
  <2>2. StatusMeans'
    BY <1>8 DEF AcquireRecover, Known, StatusMeans
  <2>. QED BY <2>1, <2>2
<1>. QED BY <1>3, <1>4, <1>5, <1>6, <1>7, <1>8

\* An apply up to its marker.
LEMMA PrepareMeans ==
    ASSUME IInv, RInv, NEW p \in Helpers,
           Begin(p) \/ Prepare(p) \/ Backup(p) \/ BackupDone(p) \/ WriteRecoveryMarker(p)
    PROVE  RInv'
<1>1. /\ \A q \in Helpers : pc[p] \in Locked /\ q # p => pc[q] \notin Locked
      /\ pc[p] \in Swapping => marker = "prepared"
  BY Alone DEF IInv, SwapIsBacked
<1>2. pc \in [Helpers -> Steps] /\ pkg \in Copies /\ marker \in {"none", "prepared", "committed"}
  BY DEF IInv, TypeOK
<1>. USE <1>1, <1>2, Distinct, TornIsTorn
     DEF RInv, Go, Leave, files, world, Locked, Swapping, Restoring, OnNew, OnWhole, Whole, Copies
<1>3. CASE Begin(p)
  <2>1. Known' /\ MarkerMeans' /\ TornIsRecoverable'
    BY <1>3 DEF Begin, Known, MarkerMeans, TornIsRecoverable
  <2>2. StatusMeans'
    BY <1>3 DEF Begin, Writes, Unwritten, TriesToWrite, Say, Known, StatusMeans
  <2>. QED BY <2>1, <2>2
<1>4. CASE Prepare(p)
  <2>1. Known' /\ MarkerMeans' /\ TornIsRecoverable'
    BY <1>4 DEF Prepare, Known, MarkerMeans, TornIsRecoverable
  <2>2. StatusMeans'
    BY <1>4 DEF Prepare, Known, StatusMeans
  <2>. QED BY <2>1, <2>2
<1>5. CASE Backup(p)
  <2>1. Known' /\ MarkerMeans' /\ TornIsRecoverable'
    BY <1>5 DEF Backup, Known, MarkerMeans, TornIsRecoverable
  <2>2. StatusMeans'
    BY <1>5 DEF Backup, Known, StatusMeans
  <2>. QED BY <2>1, <2>2
<1>6. CASE BackupDone(p)
  <2>1. Known' /\ MarkerMeans' /\ TornIsRecoverable'
    BY <1>6 DEF BackupDone, Known, MarkerMeans, TornIsRecoverable
  <2>2. StatusMeans'
    BY <1>6 DEF BackupDone, Known, StatusMeans
  <2>. QED BY <2>1, <2>2
<1>7. CASE WriteRecoveryMarker(p)
  <2>1. Known' /\ MarkerMeans' /\ TornIsRecoverable'
    BY <1>7 DEF WriteRecoveryMarker, Known, MarkerMeans, TornIsRecoverable
  <2>2. StatusMeans'
    BY <1>7 DEF WriteRecoveryMarker, Known, StatusMeans
  <2>. QED BY <2>1, <2>2
<1>. QED BY <1>3, <1>4, <1>5, <1>6, <1>7

\* The swap itself.
LEMMA SwapMeans ==
    ASSUME IInv, RInv, NEW p \in Helpers,
           StopService(p) \/ Unpack(p) \/ InstallWheel(p) \/ VerifyRuntime(p) \/ RestartService(p) \/ Commit(p) \/ PublishInstalled(p)
    PROVE  RInv'
<1>1. /\ \A q \in Helpers : pc[p] \in Locked /\ q # p => pc[q] \notin Locked
      /\ pc[p] \in Swapping => marker = "prepared"
  BY Alone DEF IInv, SwapIsBacked
<1>2. pc \in [Helpers -> Steps] /\ pkg \in Copies /\ marker \in {"none", "prepared", "committed"}
  BY DEF IInv, TypeOK
<1>. USE <1>1, <1>2, Distinct, TornIsTorn
     DEF RInv, Go, Leave, files, world, Locked, Swapping, Restoring, OnNew, OnWhole, Whole, Copies
<1>3. CASE StopService(p)
  <2>1. Known' /\ MarkerMeans' /\ TornIsRecoverable'
    BY <1>3 DEF StopService, Stops, Known, MarkerMeans, TornIsRecoverable
  <2>2. StatusMeans'
    BY <1>3 DEF StopService, Stops, Known, StatusMeans
  <2>. QED BY <2>1, <2>2
<1>4. CASE Unpack(p)
  <2>1. Known' /\ MarkerMeans' /\ TornIsRecoverable'
    BY <1>4 DEF Unpack, Known, MarkerMeans, TornIsRecoverable
  <2>2. StatusMeans'
    BY <1>4 DEF Unpack, Known, StatusMeans
  <2>. QED BY <2>1, <2>2
<1>5. CASE InstallWheel(p)
  <2>1. Known' /\ MarkerMeans' /\ TornIsRecoverable'
    BY <1>5 DEF InstallWheel, Known, MarkerMeans, TornIsRecoverable
  <2>2. StatusMeans'
    BY <1>5 DEF InstallWheel, Known, StatusMeans
  <2>. QED BY <2>1, <2>2
<1>6. CASE VerifyRuntime(p)
  <2>1. Known' /\ MarkerMeans' /\ TornIsRecoverable'
    BY <1>6 DEF VerifyRuntime, Known, MarkerMeans, TornIsRecoverable
  <2>2. StatusMeans'
    BY <1>6 DEF VerifyRuntime, Writes, Unwritten, TriesToWrite, Say, Known, StatusMeans
  <2>. QED BY <2>1, <2>2
<1>7. CASE RestartService(p)
  <2>1. Known' /\ MarkerMeans' /\ TornIsRecoverable'
    BY <1>7 DEF RestartService, Starts, Stops, Known, MarkerMeans, TornIsRecoverable
  <2>2. StatusMeans'
    BY <1>7 DEF RestartService, Starts, Stops, Known, StatusMeans
  <2>. QED BY <2>1, <2>2
<1>8. CASE Commit(p)
  <2>1. Known' /\ MarkerMeans' /\ TornIsRecoverable'
    BY <1>8 DEF Commit, Known, MarkerMeans, TornIsRecoverable
  <2>2. StatusMeans'
    BY <1>8 DEF Commit, Known, StatusMeans
  <2>. QED BY <2>1, <2>2
<1>9. CASE PublishInstalled(p)
  <2>1. Known' /\ MarkerMeans' /\ TornIsRecoverable'
    BY <1>9 DEF PublishInstalled, Known, MarkerMeans, TornIsRecoverable
  <2>2. StatusMeans'
    BY <1>9 DEF PublishInstalled, Writes, Unwritten, TriesToWrite, Say, Known, StatusMeans
  <2>. QED BY <2>1, <2>2
<1>. QED BY <1>3, <1>4, <1>5, <1>6, <1>7, <1>8, <1>9

\* The rollback.
LEMMA RollbackMeans ==
    ASSUME IInv, RInv, NEW p \in Helpers,
           Rollback(p) \/ RemovePackages(p, "remove", "copyback") \/ CopyBack(p, "copyback", "rollrestart", "fail") \/ RollbackRestart(p)
    PROVE  RInv'
<1>1. /\ \A q \in Helpers : pc[p] \in Locked /\ q # p => pc[q] \notin Locked
      /\ pc[p] \in Swapping => marker = "prepared"
  BY Alone DEF IInv, SwapIsBacked
<1>2. pc \in [Helpers -> Steps] /\ pkg \in Copies /\ marker \in {"none", "prepared", "committed"}
  BY DEF IInv, TypeOK
<1>. USE <1>1, <1>2, Distinct, TornIsTorn
     DEF RInv, Go, Leave, files, world, Locked, Swapping, Restoring, OnNew, OnWhole, Whole, Copies
<1>3. CASE Rollback(p)
  <2>1. Known' /\ MarkerMeans' /\ TornIsRecoverable'
    BY <1>3 DEF Rollback, Stops, Known, MarkerMeans, TornIsRecoverable
  <2>2. StatusMeans'
    BY <1>3 DEF Rollback, Stops, Known, StatusMeans
  <2>. QED BY <2>1, <2>2
<1>4. CASE RemovePackages(p, "remove", "copyback")
  <2>1. Known' /\ MarkerMeans' /\ TornIsRecoverable'
    BY <1>4 DEF RemovePackages, Known, MarkerMeans, TornIsRecoverable
  <2>2. StatusMeans'
    BY <1>4 DEF RemovePackages, Known, StatusMeans
  <2>. QED BY <2>1, <2>2
<1>5. CASE CopyBack(p, "copyback", "rollrestart", "fail")
  <2>1. Known' /\ MarkerMeans' /\ TornIsRecoverable'
    BY <1>5 DEF CopyBack, Known, MarkerMeans, TornIsRecoverable
  <2>2. StatusMeans'
    BY <1>5 DEF CopyBack, Known, StatusMeans
  <2>. QED BY <2>1, <2>2
<1>6. CASE RollbackRestart(p)
  <2>1. Known' /\ MarkerMeans' /\ TornIsRecoverable'
    BY <1>6 DEF RollbackRestart, Starts, Stops, Known, MarkerMeans, TornIsRecoverable
  <2>2. StatusMeans'
    BY <1>6 DEF RollbackRestart, Starts, Stops, Known, StatusMeans
  <2>. QED BY <2>1, <2>2
<1>. QED BY <1>3, <1>4, <1>5, <1>6

\* The recovery directory goes.
LEMMA SweepMeans ==
    ASSUME IInv, RInv, NEW p \in Helpers,
           Sweep(p, "sweep") \/ Sweep(p, "sweepfail") \/ Sweep(p, "rsweep") \/ Swept(p, "sweep", "off") \/ Swept(p, "sweepfail", "fail") \/ Recovered(p)
    PROVE  RInv'
<1>1. /\ \A q \in Helpers : pc[p] \in Locked /\ q # p => pc[q] \notin Locked
      /\ pc[p] \in Swapping => marker = "prepared"
  BY Alone DEF IInv, SwapIsBacked
<1>2. pc \in [Helpers -> Steps] /\ pkg \in Copies /\ marker \in {"none", "prepared", "committed"}
  BY DEF IInv, TypeOK
<1>. USE <1>1, <1>2, Distinct, TornIsTorn
     DEF RInv, Go, Leave, files, world, Locked, Swapping, Restoring, OnNew, OnWhole, Whole, Copies
<1>3. CASE Sweep(p, "sweep")
  <2>1. Known' /\ MarkerMeans' /\ TornIsRecoverable'
    BY <1>3 DEF Sweep, Known, MarkerMeans, TornIsRecoverable
  <2>2. StatusMeans'
    BY <1>3 DEF Sweep, Known, StatusMeans
  <2>. QED BY <2>1, <2>2
<1>4. CASE Sweep(p, "sweepfail")
  <2>1. Known' /\ MarkerMeans' /\ TornIsRecoverable'
    BY <1>4 DEF Sweep, Known, MarkerMeans, TornIsRecoverable
  <2>2. StatusMeans'
    BY <1>4 DEF Sweep, Known, StatusMeans
  <2>. QED BY <2>1, <2>2
<1>5. CASE Sweep(p, "rsweep")
  <2>1. Known' /\ MarkerMeans' /\ TornIsRecoverable'
    BY <1>5 DEF Sweep, Known, MarkerMeans, TornIsRecoverable
  <2>2. StatusMeans'
    BY <1>5 DEF Sweep, Known, StatusMeans
  <2>. QED BY <2>1, <2>2
<1>6. CASE Swept(p, "sweep", "off")
  <2>1. Known' /\ MarkerMeans' /\ TornIsRecoverable'
    BY <1>6 DEF Swept, Known, MarkerMeans, TornIsRecoverable
  <2>2. StatusMeans'
    BY <1>6 DEF Swept, Known, StatusMeans
  <2>. QED BY <2>1, <2>2
<1>7. CASE Swept(p, "sweepfail", "fail")
  <2>1. Known' /\ MarkerMeans' /\ TornIsRecoverable'
    BY <1>7 DEF Swept, Known, MarkerMeans, TornIsRecoverable
  <2>2. StatusMeans'
    BY <1>7 DEF Swept, Known, StatusMeans
  <2>. QED BY <2>1, <2>2
<1>8. CASE Recovered(p)
  <2>1. Known' /\ MarkerMeans' /\ TornIsRecoverable'
    BY <1>8 DEF Recovered, Known, MarkerMeans, TornIsRecoverable
  <2>2. StatusMeans'
    BY <1>8 DEF Recovered, Known, StatusMeans
  <2>. QED BY <2>1, <2>2
<1>. QED BY <1>3, <1>4, <1>5, <1>6, <1>7, <1>8

\* The recovery of an interrupted swap.
LEMMA RecoveryMeans ==
    ASSUME IInv, RInv, NEW p \in Helpers,
           ReadMarker(p) \/ RecoverCommitted(p) \/ RemovePackages(p, "rremove", "rcopyback") \/ CopyBack(p, "rcopyback", "rrestart", IF p = Recoverer THEN "off" ELSE "fail") \/ RecoverRestart(p) \/ WriteRecoveryPhase(p) \/ PublishRestored(p)
    PROVE  RInv'
<1>1. /\ \A q \in Helpers : pc[p] \in Locked /\ q # p => pc[q] \notin Locked
      /\ pc[p] \in Swapping => marker = "prepared"
  BY Alone DEF IInv, SwapIsBacked
<1>2. pc \in [Helpers -> Steps] /\ pkg \in Copies /\ marker \in {"none", "prepared", "committed"}
  BY DEF IInv, TypeOK
<1>. USE <1>1, <1>2, Distinct, TornIsTorn
     DEF RInv, Go, Leave, files, world, Locked, Swapping, Restoring, OnNew, OnWhole, Whole, Copies
<1>3. CASE ReadMarker(p)
  <2>1. Known' /\ MarkerMeans' /\ TornIsRecoverable'
    BY <1>3 DEF ReadMarker, RecoveryFailed, Known, MarkerMeans, TornIsRecoverable
  <2>2. StatusMeans'
    BY <1>3 DEF ReadMarker, RecoveryFailed, Known, StatusMeans
  <2>. QED BY <2>1, <2>2
<1>4. CASE RecoverCommitted(p)
  <2>1. Known' /\ MarkerMeans' /\ TornIsRecoverable'
    BY <1>4 DEF RecoverCommitted, Known, MarkerMeans, TornIsRecoverable
  <2>2. StatusMeans'
    BY <1>4 DEF RecoverCommitted, Writes, Unwritten, TriesToWrite, Say, Known, StatusMeans
  <2>. QED BY <2>1, <2>2
<1>5. CASE RemovePackages(p, "rremove", "rcopyback")
  <2>1. Known' /\ MarkerMeans' /\ TornIsRecoverable'
    BY <1>5 DEF RemovePackages, Known, MarkerMeans, TornIsRecoverable
  <2>2. StatusMeans'
    BY <1>5 DEF RemovePackages, Known, StatusMeans
  <2>. QED BY <2>1, <2>2
<1>6. CASE CopyBack(p, "rcopyback", "rrestart", IF p = Recoverer THEN "off" ELSE "fail")
  <2>1. Known' /\ MarkerMeans' /\ TornIsRecoverable'
    BY <1>6 DEF CopyBack, Known, MarkerMeans, TornIsRecoverable
  <2>2. StatusMeans'
    BY <1>6 DEF CopyBack, Known, StatusMeans
  <2>. QED BY <2>1, <2>2
<1>7. CASE RecoverRestart(p)
  <2>1. Known' /\ MarkerMeans' /\ TornIsRecoverable'
    BY <1>7 DEF RecoverRestart, RecoveryFailed, Starts, Stops, Known, MarkerMeans, TornIsRecoverable
  <2>2. StatusMeans'
    BY <1>7 DEF RecoverRestart, RecoveryFailed, Starts, Stops, Known, StatusMeans
  <2>. QED BY <2>1, <2>2
<1>8. CASE WriteRecoveryPhase(p)
  <2>1. Known' /\ MarkerMeans' /\ TornIsRecoverable'
    BY <1>8 DEF WriteRecoveryPhase, RecoveryFailed, Known, MarkerMeans, TornIsRecoverable
  <2>2. StatusMeans'
    BY <1>8 DEF WriteRecoveryPhase, RecoveryFailed, Known, StatusMeans
  <2>. QED BY <2>1, <2>2
<1>9. CASE PublishRestored(p)
  <2>1. Known' /\ MarkerMeans' /\ TornIsRecoverable'
    BY <1>9 DEF PublishRestored, Known, MarkerMeans, TornIsRecoverable
  <2>2. StatusMeans'
    BY <1>9 DEF PublishRestored, Writes, Unwritten, TriesToWrite, Say, Known, StatusMeans
  <2>. QED BY <2>1, <2>2
<1>. QED BY <1>3, <1>4, <1>5, <1>6, <1>7, <1>8, <1>9

\* A kill at any other step leaves a marker that is true.
LEMMA KillMeans ==
    ASSUME IInv, RInv, KillPoints \cap Unfinished = {}, NEW p \in Helpers, Kill(p)
    PROVE  RInv'
<1>. USE DEF RInv, Kill, Go, files, Unfinished
<1>1. pc \in [Helpers -> Steps] /\ pc[p] \notin Unfinished
  BY DEF IInv, TypeOK
<1>2. \A q \in Helpers : pc'[q] = IF q = p THEN "off" ELSE pc[q]
  BY <1>1
<1>3. Known' /\ StatusMeans'
  BY <1>2 DEF Known, StatusMeans, OnNew, OnWhole, Restoring
<1>4. MarkerMeans'
  BY <1>1, <1>2 DEF MarkerMeans
<1>5. TornIsRecoverable'
  BY DEF TornIsRecoverable
<1>. QED BY <1>3, <1>4, <1>5

\* The service, the checks, the Pro installer, and a machine that goes down.
LEMMA WorldMeans ==
    ASSUME IInv, RInv, KillPoints \cap Unfinished = {},
           \/ SpawnRecovery \/ StartService \/ StopByUser \/ AgeStatus
           \/ ProInstallStarts \/ ProInstallEnds \/ PowerLoss
           \/ \E c \in Checkers : StartCheck(c) \/ PersistCheck(c)
    PROVE  RInv'
<1>. USE DEF RInv
<1>1. pc \in [Helpers -> Steps]
  BY DEF IInv, TypeOK
<1>2. CASE SpawnRecovery
  BY <1>1, <1>2 DEF SpawnRecovery, Go, files, Known, MarkerMeans, StatusMeans, TornIsRecoverable,
       OnNew, OnWhole, Restoring
<1>3. CASE PowerLoss
  <2>1. \A p \in Helpers : pc[p] \notin Unfinished /\ pc'[p] = "off"
    BY <1>3 DEF PowerLoss, Unfinished
  <2>2. UNCHANGED files
    BY <1>3 DEF PowerLoss
  <2>3. Known' /\ StatusMeans'
    BY <2>1, <2>2 DEF Known, StatusMeans, OnNew, OnWhole, Restoring, files
  <2>4. MarkerMeans' /\ TornIsRecoverable'
    BY <2>1, <2>2 DEF MarkerMeans, TornIsRecoverable, Unfinished, files
  <2>. QED BY <2>3, <2>4
<1>4. CASE \/ StartService \/ StopByUser \/ AgeStatus \/ ProInstallStarts \/ ProInstallEnds
           \/ \E c \in Checkers : StartCheck(c) \/ PersistCheck(c)
  <2>1. UNCHANGED <<pkg, backup, marker, pc>>
    BY <1>4 DEF StartService, StopByUser, AgeStatus, ProInstallStarts, ProInstallEnds, StartCheck,
         PersistCheck, files
  <2>2. status'.st = "installed" => status.st = "installed"
    BY <1>4 DEF StartService, StopByUser, AgeStatus, ProInstallStarts, ProInstallEnds, StartCheck,
         PersistCheck, files, Writes, Say, IInv, TypeOK, Statuses
  <2>3. Known' /\ MarkerMeans' /\ TornIsRecoverable'
    BY <2>1 DEF Known, MarkerMeans, TornIsRecoverable
  <2>4. StatusMeans'
    BY <2>1, <2>2 DEF StatusMeans
  <2>. QED BY <2>3, <2>4
<1>. QED BY <1>2, <1>3, <1>4

LEMMA StepMeans ==
    ASSUME KillPoints \cap Unfinished = {}, IInv, RInv, [Next]_vars
    PROVE  RInv'
<1>1. ASSUME NEW p \in Helpers, HelperStep(p) PROVE RInv'
  <2>1. CASE ApplyStep(p)
    BY <2>1, OutsideMeans, PrepareMeans, SwapMeans, RollbackMeans, SweepMeans DEF ApplyStep
  <2>2. CASE RecoverStep(p)
    BY <2>2, OutsideMeans, RecoveryMeans, SweepMeans DEF RecoverStep
  <2>. QED BY <1>1, <2>1, <2>2 DEF HelperStep
<1>2. ASSUME NEW p \in Helpers, Kill(p) PROVE RInv'
  BY <1>2, KillMeans
<1>3. ASSUME NEW p \in Appliers, QueueUpdate(p) PROVE RInv'
  BY <1>3, OutsideMeans DEF Helpers
<1>4. CASE UNCHANGED vars
  BY <1>4 DEF vars, RInv, Known, MarkerMeans, StatusMeans, TornIsRecoverable
<1>. QED BY <1>1, <1>2, <1>3, <1>4, WorldMeans DEF Next

LEMMA MeaningHolds ==
    ASSUME KillPoints \cap Unfinished = {}
    PROVE  Spec => [](IInv /\ RInv)
<1>1. Init => IInv /\ RInv
  BY InitIInv, InitMeans
<1>2. (IInv /\ RInv) /\ [Next]_vars => (IInv /\ RInv)'
  BY StepKeeps, StepMeans
<1>. QED BY <1>1, <1>2, PTL DEF Spec

\* Wherever else helpers are killed, the status "installed" (PublishInstalled and
\* RecoverCommitted) is said only of the release, and a half-copied package has a
\* marker and a whole copy.
THEOREM InstallStaysTrue ==
    ASSUME KillPoints \cap Unfinished = {}
    PROVE  Spec => []InstallIsTrue
<1>1. RInv => InstallIsTrue
  BY DEF RInv, StatusMeans, InstallIsTrue, InstalledIsTrue
<1>. QED BY <1>1, MeaningHolds, PTL

\* A helper's step that leaves another service running is one of the three starts.
LEMMA StartersStart ==
    ASSUME IInv, RInv, Next, lock # Nobody, svc' # svc, svc' # "down",
           NEW q \in Helpers, pc'[q] # pc[q]
    PROVE  pkg \in Whole
<1>1. PICK p \in Helpers : RestartService(p) \/ RollbackRestart(p) \/ RecoverRestart(p)
  BY DEF Next, HelperStep, ApplyStep, RecoverStep, QueueUpdate, SpawnRecovery, Kill, StartCheck,
       PersistCheck, StartService, StopByUser, AgeStatus, ProInstallStarts, ProInstallEnds,
       PowerLoss, Stops, SpawnUpdate, AcquireApply, Begin, Prepare, Backup, BackupDone,
       WriteRecoveryMarker, StopService, Unpack, InstallWheel, VerifyRuntime, Commit,
       PublishInstalled, Sweep, Swept, Rollback, RemovePackages, CopyBack, ReadForFailure,
       PublishFailure, AcquireRecover, ReadMarker, RecoverCommitted, WriteRecoveryPhase,
       PublishRestored, Recovered, world
<1>2. pc[p] \in OnWhole
  BY <1>1 DEF RestartService, RollbackRestart, RecoverRestart, OnWhole, OnNew
<1>. QED BY <1>2 DEF RInv, Known

\* _restart_service runs only where the package is whole again: after the swap was
\* verified, and after a copy came back.
THEOREM HelpersStartWhole ==
    ASSUME KillPoints \cap Unfinished = {}
    PROVE  Spec => HelpersServeWhole
<1>1. IInv /\ RInv /\ [Next]_vars =>
        [lock # Nobody /\ svc' # svc /\ svc' # "down" /\ (\E p \in Helpers : pc'[p] # pc[p])
           => pkg \in Whole]_vars
  BY StartersStart
<1>. QED BY <1>1, MeaningHolds, PTL DEF Spec, HelpersServeWhole

=============================================================================
