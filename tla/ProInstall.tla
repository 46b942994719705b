----------------------------- MODULE ProInstall -----------------------------
(* The in-app Pro installation (pro_install.py, POST /admin/license/install, *)
(* `ficelle install-pro`).  The daemon cannot install into itself and        *)
(* restart: it reserves the one slot by publishing "queued", and spawns a    *)
(* detached helper that takes the installer lock, downloads, verifies and    *)
(* installs the wheel, restarts the service and reports.  A direct command   *)
(* of the user's and the updater contend for the same lock.                  *)
(*                                                                           *)
(* The status file is written without a lock by everyone but a reservation,  *)
(* and each write may fail.  The daemon's process holds what it loaded when  *)
(* it started; a restart kills the request that is being served.  A wheel is *)
(* what the checks of it can see; how it is packed and signed is left out.   *)
EXTENDS Naturals, FiniteSets

CONSTANTS
    Installs,           \* install-pro processes, spawned or started by the user
    StatusTTL,      \* ACTIVE_INSTALL_STATUS_TTL_SECONDS, in ticks
    MaxTicks,        \* bound: the clock
    MaxFaults,      \* bound: kills and failed status writes
    Trust           \* how a wheel is trusted: "digest", "loopback" or "signature"

VARIABLES
    time,
    status,     \* pro-install-status.json: what it says and since when
    post,       \* the request being served: "none", "locked", "queued"
    install,        \* what each process is doing
    lock,       \* pro-install.lock: a process, "probe", "update" or Free
    pack,       \* the version of the wheel in the environment
    loaded,     \* the version the serving daemon loaded
    faults

proVars == <<time, status, post, install, lock, pack, loaded, faults>>

Free == "free"
Active == {"queued", "installing", "restarting"}

ASSUME InstallNames == Installs \cap {Free, "probe", "update"} = {}

\* What the service delivers: the release its bytes are, what its attestation
\* says of them, whether its digest is the pinned one, and the core its
\* metadata asks for.
Wheels ==
    [version : 1..2, attested : {"itself", "another", "forged", "none"},
     pinned : BOOLEAN, core : {"same", "other", "unreadable"}]

ProInit ==
    /\ time = 0 /\ status = [says |-> "idle", at |-> 0] /\ post = "none"
    /\ install = [r \in Installs |-> [at |-> "unborn", queued |-> FALSE, wheel |-> 0]]
    /\ lock = Free /\ pack = 0 /\ loaded = 0 /\ faults = 0

Says(s) == status' = [says |-> s, at |-> time]
Fault == faults < MaxFaults /\ faults' = faults + 1
\* best_effort_write_install_status: it may fail without a word.
Reports(s) ==
    \/ Says(s) /\ UNCHANGED faults
    \/ Fault /\ UNCHANGED status
Still == UNCHANGED time
Proceeds(r, step, queued, wheel) ==
    install' = [install EXCEPT ![r] = [at |-> step, queued |-> queued, wheel |-> wheel]]
Reaches(r, step) ==
    Proceeds(r, step, install[r].queued, IF step = "done" THEN 0 ELSE install[r].wheel)

TimePasses ==
    /\ time < MaxTicks /\ time' = time + 1
    /\ UNCHANGED <<status, post, install, lock, pack, loaded, faults>>

---------------------------------------------------------------------------
(* POST /admin/license/install: queue_install, then the helper.              *)

Fresh == status.says \in Active /\ time - status.at <= StatusTTL

\* A status that is active and fresh refuses; the status lock is held on.
PostChecks ==
    /\ post = "none" /\ ~Fresh /\ post' = "locked"
    /\ UNCHANGED <<status, install, lock, pack, loaded, faults>> /\ Still

\* The probe takes the installer lock and lets it go; a held one refuses.
PostProbes ==
    /\ post = "locked"
    /\ \/ lock = Free /\ lock' = "probe" /\ post' = "probing"
       \/ lock # Free /\ post' = "none" /\ UNCHANGED lock
    /\ UNCHANGED <<status, install, pack, loaded, faults>> /\ Still

PostQueues ==
    /\ post = "probing" /\ lock' = Free
    /\ \/ Says("queued") /\ post' = "queued" /\ UNCHANGED faults
       \/ Fault /\ post' = "none" /\ UNCHANGED status
    /\ UNCHANGED <<install, pack, loaded>> /\ Still

\* The helper is spawned, or could not be, which is reported.
PostSpawns ==
    /\ post = "queued" /\ post' = "none"
    /\ \/ /\ \E r \in Installs : /\ install[r].at = "unborn"
                             /\ Proceeds(r, "wants", TRUE, 0)
          /\ UNCHANGED <<status, faults>>
       \/ Reports("failed") /\ UNCHANGED install
    /\ UNCHANGED <<lock, pack, loaded>> /\ Still

\* `ficelle install-pro` by hand; without a key it only reports that.
Direct ==
    /\ \E r \in Installs :
           /\ install[r].at = "unborn"
           /\ \/ Reaches(r, "wants") /\ UNCHANGED <<status, faults>>
              \/ Reaches(r, "done") /\ Reports("failed")
    /\ UNCHANGED <<post, lock, pack, loaded>> /\ Still

---------------------------------------------------------------------------
(* cmd_install_pro and _run_pro_install_locked.                              *)

\* A queued helper waits for the lock, a direct command gives up.
TakeLock(r) ==
    /\ install[r].at = "wants"
    /\ \/ lock = Free /\ lock' = r /\ Reaches(r, "begin")
       \/ lock # Free /\ ~install[r].queued /\ Reaches(r, "done") /\ UNCHANGED lock
    /\ UNCHANGED <<status, post, pack, loaded, faults>> /\ Still

\* The one report that must succeed: without it nothing is installed.
\* Bug for a mutant: a lost report stops nothing.
BeginAnyway(r) ==
    /\ install[r].at = "begin" /\ Reports("installing") /\ Reaches(r, "download")
    /\ UNCHANGED <<lock, post, pack, loaded>> /\ Still

BeginInstall(r) ==
    /\ install[r].at = "begin"
    /\ \/ Says("installing") /\ Reaches(r, "download") /\ UNCHANGED <<faults, lock>>
       \/ Fault /\ Reaches(r, "done") /\ lock' = Free /\ UNCHANGED status
    /\ UNCHANGED <<post, pack, loaded>> /\ Still

\* verify_artifact_attestation: the release key's signature over these very
\* bytes, for this core.
Attested(w) == w.attested = "itself" /\ w.core = "same"

\* _verify_remote_wheel_integrity: the pinned digest decides where one is set.
Intact(w) ==
    CASE Trust = "digest" -> w.pinned
      [] Trust = "loopback" -> TRUE
      [] Trust = "signature" -> Attested(w)

\* verify_pro_core_compatibility, of the wheel's own metadata.
Compatible(w) == w.core = "same"

Download(r) ==
    /\ install[r].at = "download"
    /\ \/ \E w \in Wheels :
              /\ Intact(w) /\ Compatible(w)
              /\ Proceeds(r, "install", install[r].queued, w.version)
       \/ Reaches(r, "failed")
    /\ UNCHANGED <<status, post, lock, pack, loaded, faults>> /\ Still

\* Dependencies, then the wheel over the one that is there, by pip or by uv;
\* either may fail and leave the old pack.
PipInstall(r) ==
    /\ install[r].at = "install"
    /\ \/ pack' = install[r].wheel /\ Reaches(r, "restart")
       \/ Reaches(r, "failed") /\ UNCHANGED pack
    /\ UNCHANGED <<status, post, lock, loaded, faults>> /\ Still

ReportRestarting(r) ==
    /\ install[r].at = "restart" /\ Reports("restarting") /\ Reaches(r, "restarting")
    /\ UNCHANGED <<post, lock, pack, loaded>> /\ Still

\* The service backend's restart: the new daemon loads the pack, or the restart
\* fails and the old one, or none, goes on.  A request being served dies.
Restart(r) ==
    /\ install[r].at = "restarting"
    /\ \/ loaded' = pack /\ post' = "none" /\ Reaches(r, "restarted")
          /\ lock' = IF post = "probing" THEN Free ELSE lock
       \/ Reaches(r, "unstarted") /\ UNCHANGED <<loaded, post, lock>>
    /\ UNCHANGED <<status, pack, faults>> /\ Still

Conclusion(r) == IF install[r].at = "restarted" THEN "installed" ELSE "failed"

Conclude(r) ==
    /\ install[r].at \in {"restarted", "unstarted", "failed"}
    /\ Reports(Conclusion(r))
    /\ Reaches(r, "done") /\ lock' = Free
    /\ UNCHANGED <<post, pack, loaded>> /\ Still

---------------------------------------------------------------------------
(* Everyone else.                                                            *)

\* A helper is killed: the lock goes with it, the status stays.
Kill(r) ==
    /\ install[r].at \notin {"unborn", "done"} /\ Fault
    /\ Reaches(r, "done") /\ lock' = IF lock = r THEN Free ELSE lock
    /\ UNCHANGED <<status, post, pack, loaded>> /\ Still

\* The updater takes the lock without waiting; what it does there is its own
\* module's.
UpdateTakesLock ==
    /\ lock = Free /\ lock' = "update"
    /\ UNCHANGED <<status, post, install, pack, loaded, faults>> /\ Still

UpdateEnds ==
    /\ lock = "update" /\ lock' = Free
    /\ UNCHANGED <<status, post, install, pack, loaded, faults>> /\ Still

\* The service manager relaunches a daemon that died.
Relaunch ==
    /\ loaded # pack /\ loaded' = pack /\ post' = "none"
    /\ lock' = IF post = "probing" THEN Free ELSE lock
    /\ UNCHANGED <<status, install, pack, faults>> /\ Still

ProNext ==
    \/ TimePasses \/ PostChecks \/ PostProbes \/ PostQueues \/ PostSpawns \/ Direct
    \/ UpdateTakesLock \/ UpdateEnds \/ Relaunch
    \/ \E r \in Installs : \/ TakeLock(r) \/ BeginInstall(r) \/ Download(r) \/ PipInstall(r)
                       \/ ReportRestarting(r) \/ Restart(r) \/ Conclude(r) \/ Kill(r)

ProSpec == ProInit /\ [][ProNext]_proVars

---------------------------------------------------------------------------
\* "installed" is the truth: while the status says so, the daemon serves with
\* the pack that is in the environment, whichever helpers were killed, whatever
\* reports were lost and whoever else wrote the status in between.
InstalledIsServed == status.says = "installed" => loaded = pack
=============================================================================
