---------------------------- MODULE UpdateApply ----------------------------
(***************************************************************************)
(* The updater of update.py.  A detached helper (`ficelle update --apply`) *)
(* copies the installed packages aside, writes a durable marker, stops the *)
(* service, swaps the packages and restarts it; when the helper dies in    *)
(* between, the next service to start spawns a second helper (`--recover`) *)
(* that reads the marker and puts the copy back.  Beside them run the      *)
(* release checks of the service and of the command line, the admin page   *)
(* that queues an update, and the Pro installer, which shares one lock.    *)
(*                                                                         *)
(* Files are the durable state (pkg, marker, backup, status); a lock is an *)
(* flock, which dies with its process.  One release, "new", is published   *)
(* all along.  A step is what a helper does between two points at which    *)
(* another process can see the difference or a kill leaves another file    *)
(* behind.                                                                 *)
(***************************************************************************)
EXTENDS Naturals, FiniteSets

CONSTANTS
    Appliers,    \* `ficelle update --apply` processes
    Recoverer,   \* the `ficelle update --recover` process
    Nobody,      \* no process holds the update lock
    Checkers,    \* who checks for releases: "svc" is the loop of the service,
                 \* any other one a `ficelle update` of the command line
    TornKinds,   \* what a half-copied package can be: "torn" still imports
                 \* ficelle, "dead" does not
    KillPoints,  \* the steps at which a helper may be killed (bound)
    MaxKills,    \* kills of a helper or of the machine (bound)
    MaxFaults    \* failing commands, failing writes, Pro installs (bound)

ASSUME Distinct == /\ Recoverer \notin Appliers
                   /\ Nobody \notin Appliers \cup {Recoverer}
ASSUME BoundsAreNat == MaxKills \in Nat /\ MaxFaults \in Nat
ASSUME TornIsTorn == TornKinds \subseteq {"torn", "dead"} /\ TornKinds # {}

VARIABLES
    pkg,      \* what is installed: a whole version, or a half-copied one
    backup,   \* update-recovery/backup: "none", "partial", or the version copied
    marker,   \* update-recovery/marker.json: "none" or its phase
    status,   \* update-status.json: status, update_available, and whether
              \* updated_at is younger than ACTIVE_UPDATE_STALE_SECONDS
    svc,      \* "down", or the version the running service has loaded
    chk,      \* [Checkers -> "off" or the version of the process that is checking]
    pc,       \* [Helpers -> the next step of the helper]
    merged,   \* [Helpers -> the update_available it read for a status write]
    lock,     \* holder of the update lock and of the package-install lock
    pro,      \* the Pro installer holds the package-install lock
    kills, faults

vars == <<pkg, backup, marker, status, svc, chk, pc, merged, lock, pro, kills, faults>>
files == <<pkg, backup, marker, status>>
world == <<svc, chk, pro, kills>>

Helpers == Appliers \cup {Recoverer}
Whole == {"old", "new"}
Copies == Whole \cup TornKinds
Active == {"queued", "installing", "restarting"}
Results == {"idle", "error", "failed", "installed"}

\* The version a process that imports the installed package believes it is.
Loaded == IF pkg \in Whole THEN {pkg} ELSE IF pkg = "torn" THEN Whole ELSE {}

Say(st, avail) == [st |-> st, avail |-> avail, fresh |-> TRUE]
ActiveNow == status.st \in Active /\ status.fresh

Go(p, step) == pc' = [pc EXCEPT ![p] = step]
Leave(p, step) == Go(p, step) /\ lock' = Nobody
Fault == faults < MaxFaults /\ faults' = faults + 1

\* A status write merges into the file it reads; it either lands or fails.
Writes(st, avail) == status' = Say(st, avail)
Unwritten == Fault /\ UNCHANGED status
\* A status write whose failure the code ignores.
TriesToWrite(st, avail) == \/ Writes(st, avail) /\ UNCHANGED faults
                           \/ Unwritten

------------------------------------------------------------------------------
(* Queueing and starting a helper.                                         *)

\* queue_update, reached from the admin page or `ficelle update --install`.
QueueUpdate(p) ==
    /\ pc[p] = "off" /\ lock = Nobody
    /\ svc # "down" \/ pkg # "dead"
    /\ ~ActiveNow /\ status.avail
    /\ Writes("queued", status.avail)
    /\ Go(p, "spawn")
    /\ UNCHANGED <<pkg, backup, marker, world, merged, lock, faults>>

\* spawn_update: a helper whose package cannot be imported dies at once.
SpawnUpdate(p) ==
    /\ pc[p] = "spawn"
    /\ \/ /\ Go(p, IF pkg = "dead" THEN "off" ELSE "wait")
          /\ UNCHANGED <<status, faults>>
       \/ Fault /\ Writes("failed", status.avail) /\ Go(p, "off")
    /\ UNCHANGED <<pkg, backup, marker, world, merged, lock>>

\* spawn_recovery, from the service's check loop.
SpawnRecovery ==
    /\ svc # "down" /\ marker # "none" /\ pkg # "dead"
    /\ pc[Recoverer] = "off"
    /\ Go(Recoverer, "wait")
    /\ UNCHANGED <<files, world, merged, lock, faults>>

------------------------------------------------------------------------------
(* Removing and restoring the packages, and the recovery directory.        *)

\* _remove_installed_package_paths, then the copies of the backup: until the
\* last of them is in place the package is half there, and a damaged backup
\* restores a damaged package.
RemovePackages(p, from, next) ==
    /\ pc[p] = from
    /\ pkg' \in TornKinds
    /\ Go(p, next)
    /\ UNCHANGED <<backup, marker, status, world, merged, lock, faults>>

\* Mutant: a restore that failed is taken for one that worked.
CopyBackCareless(p, from, next, failed) ==
    /\ pc[p] = from
    /\ \/ pkg' \in (IF backup \in Copies THEN {backup} ELSE TornKinds) /\ UNCHANGED faults
       \/ Fault /\ UNCHANGED pkg
    /\ Go(p, next)
    /\ UNCHANGED <<backup, marker, status, world, merged, lock>>

CopyBack(p, from, next, failed) ==
    /\ pc[p] = from
    /\ \/ /\ pkg' \in (IF backup \in Copies THEN {backup} ELSE TornKinds)
          /\ Go(p, next) /\ UNCHANGED <<lock, faults>>
       \/ Fault /\ Leave(p, failed) /\ UNCHANGED pkg
    /\ UNCHANGED <<backup, marker, status, world, merged>>

\* _clear_update_recovery: rmtree removes marker and copies in the order the
\* directory lists them, one file at a time.
Sweep(p, from) ==
    /\ pc[p] = from
    /\ \/ marker # "none" /\ marker' = "none" /\ UNCHANGED backup
       \/ backup \in Copies /\ backup' = "partial" /\ UNCHANGED marker
       \/ backup = "partial" /\ backup' = "none" /\ UNCHANGED marker
    /\ UNCHANGED <<pkg, status, world, pc, merged, lock, faults>>

Swept(p, from, next) ==
    /\ pc[p] = from
    /\ marker = "none" /\ backup = "none"
    /\ Leave(p, next)
    /\ UNCHANGED <<files, world, merged, faults>>

\* A helper stops or starts the service.  A service that does not become
\* ready is left running or booted out, depending on the platform.
Stops == svc' = "down" /\ chk' = [c \in Checkers |-> IF c = "svc" THEN "off" ELSE chk[c]]
Starts == svc' \in Loaded /\ chk' = [c \in Checkers |-> IF c = "svc" THEN "off" ELSE chk[c]]

------------------------------------------------------------------------------
(* apply_update.                                                           *)

\* The update lock is waited for, the package-install lock is not.
AcquireApply(p) ==
    /\ pc[p] = "wait" /\ p \in Appliers /\ lock = Nobody
    /\ IF pro THEN Go(p, "fail") /\ UNCHANGED lock
       ELSE Go(p, IF marker = "none" THEN "begin" ELSE "read") /\ lock' = p
    /\ UNCHANGED <<files, world, merged, faults>>

\* The checks before the first side effect, and the status "installing".
Begin(p) ==
    /\ pc[p] = "begin"
    /\ \/ ~status.avail /\ TriesToWrite("failed", FALSE) /\ Leave(p, "off")
       \/ status.avail /\ Writes("installing", TRUE) /\ Go(p, "download") /\ UNCHANGED <<lock, faults>>
       \/ status.avail /\ Unwritten /\ Leave(p, "fail")
    /\ UNCHANGED <<pkg, backup, marker, world, merged>>

\* Downloads, dependency installation, pip check: the service still runs.
Prepare(p) ==
    /\ pc[p] = "download"
    /\ \/ Go(p, "clean") /\ UNCHANGED <<lock, faults>>
       \/ Fault /\ Leave(p, "fail")
    /\ UNCHANGED <<files, world, merged>>

\* The leftovers of an older update go first, then the copy starts.
Backup(p) ==
    /\ pc[p] = "clean"
    /\ backup' = "partial" /\ marker' = "none"
    /\ Go(p, "copy")
    /\ UNCHANGED <<pkg, status, world, merged, lock, faults>>

BackupDone(p) ==
    /\ pc[p] = "copy"
    /\ \/ backup' = pkg /\ Go(p, "mark") /\ UNCHANGED faults
       \/ Fault /\ Go(p, "sweepfail") /\ UNCHANGED backup
    /\ UNCHANGED <<pkg, marker, status, world, merged, lock>>

WriteRecoveryMarker(p) ==
    /\ pc[p] = "mark"
    /\ \/ marker' = "prepared" /\ Go(p, "stop") /\ UNCHANGED faults
       \/ Fault /\ Go(p, "sweepfail") /\ UNCHANGED marker
    /\ UNCHANGED <<pkg, backup, status, world, merged, lock>>

StopService(p) ==
    /\ pc[p] = "stop"
    /\ \/ Stops /\ Go(p, "unpack") /\ UNCHANGED faults
       \/ Fault /\ Go(p, "rollback") /\ UNCHANGED <<svc, chk>>
    /\ UNCHANGED <<files, pro, kills, merged, lock>>

\* pip install --force-reinstall, in two steps, then the checks of the result.
Unpack(p) ==
    /\ pc[p] = "unpack"
    /\ pkg' \in TornKinds
    /\ Go(p, "install")
    /\ UNCHANGED <<backup, marker, status, world, merged, lock, faults>>

InstallWheel(p) ==
    /\ pc[p] = "install"
    /\ \/ pkg' = "new" /\ Go(p, "verify") /\ UNCHANGED faults
       \/ Fault /\ pkg' \in {pkg, backup} /\ Go(p, "rollback")
    /\ UNCHANGED <<backup, marker, status, world, merged, lock>>

VerifyRuntime(p) ==
    /\ pc[p] = "verify"
    /\ \/ Writes("restarting", status.avail) /\ Go(p, "restart") /\ UNCHANGED faults
       \/ Unwritten /\ Go(p, "rollback")
    /\ UNCHANGED <<pkg, backup, marker, world, merged, lock>>

RestartService(p) ==
    /\ pc[p] = "restart"
    /\ \/ Starts /\ Go(p, "commit") /\ UNCHANGED faults
       \/ Fault /\ Starts /\ Go(p, "rollback")
       \/ Fault /\ Stops /\ Go(p, "rollback")
    /\ UNCHANGED <<files, pro, kills, merged, lock>>

Commit(p) ==
    /\ pc[p] = "commit"
    /\ \/ marker' = "committed" /\ Go(p, "installed") /\ UNCHANGED faults
       \/ Fault /\ Go(p, "rollback") /\ UNCHANGED marker
    /\ UNCHANGED <<pkg, backup, status, world, merged, lock>>

PublishInstalled(p) ==
    /\ pc[p] = "installed"
    /\ TriesToWrite("installed", FALSE)
    /\ Go(p, "sweep")
    /\ UNCHANGED <<pkg, backup, marker, world, merged, lock>>

\* The rollback of a failed swap; its own failures are swallowed, and then
\* the marker stays for the recovery.
Rollback(p) ==
    /\ pc[p] = "rollback"
    /\ \/ Stops /\ UNCHANGED faults
       \/ Fault /\ UNCHANGED <<svc, chk>>
    /\ Go(p, "remove")
    /\ UNCHANGED <<files, pro, kills, merged, lock>>

RollbackRestart(p) ==
    /\ pc[p] = "rollrestart"
    /\ \/ Starts /\ Go(p, "sweepfail") /\ UNCHANGED <<lock, faults>>
       \/ Fault /\ Starts /\ Leave(p, "fail")
       \/ Fault /\ Stops /\ Leave(p, "fail")
    /\ UNCHANGED <<files, pro, kills, merged>>

\* The outer except clause: the locks are gone, the status is read, then
\* written back with the failure.
ReadForFailure(p) ==
    /\ pc[p] = "fail"
    /\ merged' = [merged EXCEPT ![p] = status.avail]
    /\ Go(p, "failwrite")
    /\ UNCHANGED <<files, world, lock, faults>>

PublishFailure(p) ==
    /\ pc[p] = "failwrite"
    /\ TriesToWrite("failed", merged[p])
    /\ Go(p, "off")
    /\ UNCHANGED <<pkg, backup, marker, world, merged, lock>>

ApplyStep(p) ==
    \/ SpawnUpdate(p) \/ AcquireApply(p) \/ Begin(p) \/ Prepare(p)
    \/ Backup(p) \/ BackupDone(p) \/ WriteRecoveryMarker(p) \/ StopService(p)
    \/ Unpack(p) \/ InstallWheel(p) \/ VerifyRuntime(p) \/ RestartService(p)
    \/ Commit(p) \/ PublishInstalled(p)
    \/ Sweep(p, "sweep") \/ Swept(p, "sweep", "off")
    \/ Rollback(p) \/ RemovePackages(p, "remove", "copyback")
    \/ CopyBack(p, "copyback", "rollrestart", "fail") \/ RollbackRestart(p)
    \/ Sweep(p, "sweepfail") \/ Swept(p, "sweepfail", "fail")
    \/ ReadForFailure(p) \/ PublishFailure(p)

------------------------------------------------------------------------------
(* recover_interrupted_update, and its part that an apply runs first.      *)

RecoveryFailed(p) == Leave(p, IF p = Recoverer THEN "off" ELSE "fail")

\* Mutant: the recovery does not take the locks.
AcquireRecoverUnlocked(p) ==
    /\ pc[p] = "wait" /\ p = Recoverer
    /\ Go(p, IF marker = "none" THEN "off" ELSE "read")
    /\ UNCHANGED <<files, world, merged, lock, faults>>

AcquireRecover(p) ==
    /\ pc[p] = "wait" /\ p = Recoverer
    /\ IF marker = "none" \/ lock # Nobody \/ pro
       THEN Go(p, "off") /\ UNCHANGED lock
       ELSE Go(p, "read") /\ lock' = p
    /\ UNCHANGED <<files, world, merged, faults>>

\* Mutant: every marker is taken for a committed swap.
ReadMarkerCommitted(p) ==
    /\ pc[p] = "read"
    /\ Go(p, "rinstalled")
    /\ UNCHANGED <<files, world, merged, lock, faults>>

\* _read_recovery_marker refuses a marker whose backup is not there.
ReadMarker(p) ==
    /\ pc[p] = "read"
    /\ IF backup = "none" THEN RecoveryFailed(p)
       ELSE /\ Go(p, IF marker = "committed" THEN "rinstalled" ELSE "rremove")
            /\ UNCHANGED lock
    /\ UNCHANGED <<files, world, merged, faults>>

RecoverCommitted(p) ==
    /\ pc[p] = "rinstalled"
    /\ TriesToWrite("installed", FALSE)
    /\ Go(p, "rsweep")
    /\ UNCHANGED <<pkg, backup, marker, world, merged, lock>>

RecoverRestart(p) ==
    /\ pc[p] = "rrestart"
    /\ \/ Starts /\ Go(p, "phase") /\ UNCHANGED <<lock, faults>>
       \/ Fault /\ Starts /\ RecoveryFailed(p)
       \/ Fault /\ Stops /\ RecoveryFailed(p)
    /\ UNCHANGED <<files, pro, kills, merged>>

WriteRecoveryPhase(p) ==
    /\ pc[p] = "phase"
    /\ \/ marker' = "committed" /\ Go(p, "rstatus") /\ UNCHANGED <<lock, faults>>
       \/ Fault /\ RecoveryFailed(p) /\ UNCHANGED marker
    /\ UNCHANGED <<pkg, backup, status, world, merged>>

PublishRestored(p) ==
    /\ pc[p] = "rstatus"
    /\ TriesToWrite("failed", FALSE)
    /\ Go(p, "rsweep")
    /\ UNCHANGED <<pkg, backup, marker, world, merged, lock>>

\* The recovery helper exits; an apply goes on with the update it was for.
Recovered(p) ==
    /\ pc[p] = "rsweep"
    /\ marker = "none" /\ backup = "none"
    /\ IF p = Recoverer THEN Leave(p, "off") ELSE Go(p, "begin") /\ UNCHANGED lock
    /\ UNCHANGED <<files, world, merged, faults>>

RecoverStep(p) ==
    \/ AcquireRecover(p) \/ ReadMarker(p) \/ RecoverCommitted(p)
    \/ RemovePackages(p, "rremove", "rcopyback")
    \/ CopyBack(p, "rcopyback", "rrestart", IF p = Recoverer THEN "off" ELSE "fail")
    \/ RecoverRestart(p) \/ WriteRecoveryPhase(p) \/ PublishRestored(p)
    \/ Sweep(p, "rsweep") \/ Recovered(p)

------------------------------------------------------------------------------
(* Release checks, and the world around the helpers.                       *)

\* The service's loop checks only when there is nothing to recover; the
\* command line always does.  Neither disturbs an active update.
StartCheck(c) ==
    /\ chk[c] = "off" /\ ~ActiveNow
    /\ c = "svc" => marker = "none"
    /\ \E v \in (IF c = "svc" THEN {svc} \ {"down"} ELSE Loaded) : chk' = [chk EXCEPT ![c] = v]
    /\ UNCHANGED <<files, svc, pro, kills, pc, merged, lock, faults>>

\* _persist_checked_status: the result of the fetch, unless an update got in
\* first.
PersistCheck(c) ==
    /\ chk[c] # "off"
    /\ chk' = [chk EXCEPT ![c] = "off"]
    /\ \/ /\ lock # Nobody \/ ActiveNow
          /\ UNCHANGED <<status, faults>>
       \/ /\ lock = Nobody /\ ~ActiveNow
          /\ Writes("idle", chk[c] # "new") /\ UNCHANGED faults
       \/ /\ lock = Nobody /\ ~ActiveNow
          /\ Writes("error", FALSE) /\ Fault
    /\ UNCHANGED <<pkg, backup, marker, svc, pro, kills, pc, merged, lock>>

\* The supervisor or the user starts the service.
StartService ==
    /\ svc = "down" /\ Starts
    /\ UNCHANGED <<files, pro, kills, pc, merged, lock, faults>>

StopByUser ==
    /\ svc # "down" /\ Fault /\ Stops
    /\ UNCHANGED <<files, pro, kills, pc, merged, lock>>

AgeStatus ==
    /\ ActiveNow
    /\ status' = [status EXCEPT !.fresh = FALSE]
    /\ UNCHANGED <<pkg, backup, marker, world, pc, merged, lock, faults>>

ProInstallStarts ==
    /\ ~pro /\ lock = Nobody /\ Fault /\ pro' = TRUE
    /\ UNCHANGED <<files, svc, chk, kills, pc, merged, lock>>

ProInstallEnds ==
    /\ pro /\ pro' = FALSE
    /\ UNCHANGED <<files, svc, chk, kills, pc, merged, lock, faults>>

\* Mutant: a lock file outlives its process.
KillKeepsLock(p) ==
    /\ pc[p] \in KillPoints /\ kills < MaxKills
    /\ kills' = kills + 1
    /\ Go(p, "off")
    /\ UNCHANGED <<files, svc, chk, merged, pro, faults, lock>>

\* A helper is killed; its locks die with it.
Kill(p) ==
    /\ pc[p] \in KillPoints /\ kills < MaxKills
    /\ kills' = kills + 1
    /\ Go(p, "off")
    /\ lock' = IF lock = p THEN Nobody ELSE lock
    /\ UNCHANGED <<files, svc, chk, merged, pro, faults>>

\* The machine goes down with everything that runs on it.
PowerLoss ==
    /\ \A p \in Helpers : pc[p] \in KillPoints \cup {"off"}
    /\ kills < MaxKills
    /\ kills' = kills + 1
    /\ Stops
    /\ pc' = [p \in Helpers |-> "off"]
    /\ lock' = Nobody /\ pro' = FALSE
    /\ UNCHANGED <<files, merged, faults>>

Init ==
    /\ pkg = "old" /\ backup = "none" /\ marker = "none"
    /\ status = Say("idle", FALSE)
    /\ svc = "old"
    /\ chk = [c \in Checkers |-> "off"]
    /\ pc = [p \in Helpers |-> "off"]
    /\ merged = [p \in Helpers |-> FALSE]
    /\ lock = Nobody /\ pro = FALSE
    /\ kills = 0 /\ faults = 0

HelperStep(p) == ApplyStep(p) \/ RecoverStep(p)

Next ==
    \/ \E p \in Appliers : QueueUpdate(p)
    \/ SpawnRecovery
    \/ \E p \in Helpers : HelperStep(p) \/ Kill(p)
    \/ \E c \in Checkers : StartCheck(c) \/ PersistCheck(c)
    \/ StartService \/ StopByUser \/ AgeStatus
    \/ ProInstallStarts \/ ProInstallEnds \/ PowerLoss

Spec == Init /\ [][Next]_vars

\* A helper that runs goes on; the service comes up again (login, supervisor
\* or user); its loop keeps recovering and checking; time passes.
FairSpec ==
    /\ Spec
    /\ \A p \in Helpers : WF_vars(HelperStep(p))
    /\ WF_vars(SpawnRecovery) /\ WF_vars(StartService)
    /\ WF_vars(AgeStatus) /\ WF_vars(ProInstallEnds)
    /\ \A c \in Checkers \cap {"svc"} : WF_vars(StartCheck(c)) /\ WF_vars(PersistCheck(c))

------------------------------------------------------------------------------
(* Properties.                                                             *)

Swapping == {"stop", "unpack", "install", "verify", "restart", "commit",
             "rollback", "remove", "copyback", "rollrestart"}
Restoring == {"rremove", "rcopyback", "rrestart", "phase"}
Locked == Swapping \cup Restoring \cup
          {"begin", "download", "clean", "copy", "mark", "installed", "sweep",
           "sweepfail", "read", "rinstalled", "rstatus", "rsweep"}
Steps == Locked \cup {"off", "spawn", "wait", "fail", "failwrite"}

Statuses == [st : Active \cup Results, avail : BOOLEAN, fresh : BOOLEAN]

TypeOK ==
    /\ pkg \in Copies
    /\ backup \in Copies \cup {"none", "partial"}
    /\ marker \in {"none", "prepared", "committed"}
    /\ status \in Statuses
    /\ svc \in Whole \cup {"down"}
    /\ chk \in [Checkers -> Whole \cup {"off"}]
    /\ pc \in [Helpers -> Steps]
    /\ merged \in [Helpers -> BOOLEAN]
    /\ lock \in Helpers \cup {Nobody}
    /\ pro \in BOOLEAN
    /\ kills \in 0..MaxKills /\ faults \in 0..MaxFaults

\* From the moment the service is stopped until the swap is committed or rolled
\* back there is a complete copy and a marker that says to use it, whatever the
\* other helpers, the sweeps and the checks do: a kill at any of these steps
\* leaves the recovery something to restore (the comment of
\* _recover_interrupted_update_locked).
SwapIsBacked ==
    \A p \in Helpers : pc[p] \in Swapping => marker = "prepared" /\ backup \in Copies

\* A half-copied package is never left without a marker and a whole copy.
TornIsRecoverable ==
    pkg \notin Whole => marker = "prepared" /\ backup \in Whole

\* The status page says "installed" only of the version that is installed.
InstalledIsTrue ==
    status.st = "installed" => pkg = "new"

\* An update is offered only while it is not installed; an apply that has not
\* come to its last status write, or has left that to the recovery, is excused.
OfferIsNewer ==
    status.avail => pkg # "new" \/ lock # Nobody \/ marker # "none"

\* What a status, a marker and the version say of the installed tree is true of
\* it, and a tree that a kill left in halves can be put back.
InstallIsTrue == InstalledIsTrue /\ TornIsRecoverable

\* A helper never starts the service on a half-copied package.
HelpersServeWhole ==
    [][lock # Nobody /\ svc' # svc /\ svc' # "down" /\ (\E p \in Helpers : pc'[p] # pc[p])
         => pkg \in Whole]_vars

\* An interrupted swap is recovered in the end, by a helper of the next service
\* or by the next apply (update_check_loop).
RecoveryCompletes == marker # "none" ~> marker = "none"

\* The status does not stay queued or installing for ever: the helper writes its
\* end, or the status grows stale and the next check replaces it.
StatusSettles == status.st \in Active ~> status.st \notin Active

==============================================================================
