-------------------------- MODULE Operations_proofs --------------------------
(***************************************************************************)
(* What runs beside the requests, in processes that may die at any step.   *)
(*                                                                         *)
(* ProInstall.  A status that says "installed" is true for any number of   *)
(* helpers.  That is not inductive: it has to be known that only the       *)
(* holder of the installer lock changes the pack, that from its own report *)
(* on nobody else's report says "installed", and that a request's probe of *)
(* the lock never lets go of a lock it does not have.                      *)
(*                                                                         *)
(* HealthRuns.  A run that is over says of its whole plan what its journal *)
(* holds.  It rests on what every run and every process keeps: the rows    *)
(* are of cases of the plan, each case but the preflight after a preflight *)
(* that passed in its own sitting, and a process that goes through the plan *)
(* has behind it only cases the journal decided; only the holder of the    *)
(* lease works on a run, and who read a run's metadata read the same plan. *)
(*                                                                         *)
(* HealthEvidence.  A case is not charged with another's request.  In the  *)
(* first session of a service every request is either the one in hand or   *)
(* done, of a case that has been asked before, so what was written since   *)
(* the case began is its own; the rows of the log name their own case.     *)
(*                                                                         *)
(* HermesConnector.  What the user put into a plugin is kept, Hermes's own *)
(* copy is left alone, and a removal leaves nothing of Ficelle's.  Of the  *)
(* plugins it has to be known that what is recorded of one is a release's, *)
(* that a copy under way was backed up first, and that no command owns or  *)
(* takes what Hermes marked.  Of the leftovers, that until a command is    *)
(* killed each thing Ficelle alone wrote is recorded as its creation, or   *)
(* is about to be by the install that wrote it.                            *)
(***************************************************************************)
EXTENDS HealthRuns, HealthEvidence, HermesConnector, ProInstall, SetLemmas, SequenceTheorems

------------------------------------------------------------------------------
(* The installation of the pack.                                           *)

Ats == {"unborn", "wants", "begin", "download", "install", "restart", "restarting", "restarted",
        "unstarted", "failed", "done"}

InstallTyped ==
    /\ status \in [says : {"idle", "installed", "failed"} \cup Active, at : Nat] /\ time \in Nat
    /\ install \in [Installs -> [at : Ats, queued : BOOLEAN, wheel : 0..2]]
    /\ lock \in Installs \cup {Free, "probe", "update"}
    /\ post \in {"none", "locked", "probing", "queued"}

\* A helper that is at work has the lock.
Locked == \A r \in Installs : install[r].at \notin {"unborn", "wants", "done"} => lock = r

\* The probe of a request is let go of with the request, and nobody else's lock is.
ProbeIsOwn == post = "probing" => lock = "probe"

\* From its first report to its last, a helper's installation is what the status is about.
UnderWay ==
    \A r \in Installs :
        /\ install[r].at \in {"download", "install", "restart", "restarting"} => status.says # "installed"
        /\ install[r].at = "restarted" => loaded = pack

InstallInv == InstallTyped /\ Locked /\ ProbeIsOwn /\ UnderWay /\ InstalledIsServed

LEMMA InstallInitInv == ProInit => InstallInv
BY InstallNames DEF ProInit, InstallInv, InstallTyped, Locked, ProbeIsOwn, UnderWay, InstalledIsServed, Ats, Active, Free

\* A step of a helper moves it alone.
LEMMA ProceedsOnly ==
  ASSUME InstallTyped, NEW r \in Installs, NEW step \in Ats, NEW queued \in BOOLEAN, NEW wheel \in 0..2,
         Proceeds(r, step, queued, wheel)
  PROVE  /\ install' \in [Installs -> [at : Ats, queued : BOOLEAN, wheel : 0..2]]
         /\ install'[r].at = step
         /\ \A o \in Installs \ {r} : install'[o] = install[o]
BY DEF InstallTyped, Proceeds

LEMMA ReachesOnly ==
  ASSUME InstallTyped, NEW r \in Installs, NEW step \in Ats, Reaches(r, step)
  PROVE  /\ install' \in [Installs -> [at : Ats, queued : BOOLEAN, wheel : 0..2]]
         /\ install'[r].at = step
         /\ \A o \in Installs \ {r} : install'[o] = install[o]
<1>1. install[r].queued \in BOOLEAN /\ (IF step = "done" THEN 0 ELSE install[r].wheel) \in 0..2
  BY DEF InstallTyped
<1> QED BY <1>1, ProceedsOnly DEF Reaches

\* A report says what it is meant to say, or is lost.
LEMMA ReportsOnly ==
  ASSUME InstallTyped, NEW s \in {"installed", "failed"} \cup Active, Reports(s) \/ Says(s)
  PROVE  /\ status' \in [says : {"idle", "installed", "failed"} \cup Active, at : Nat]
         /\ status'.says = s \/ status' = status
BY DEF InstallTyped, Reports, Says

LEMMA InstallNextInv == InstallInv /\ [ProNext]_proVars => InstallInv'
<1> SUFFICES ASSUME InstallInv, [ProNext]_proVars PROVE InstallInv'
  OBVIOUS
<1> USE DEF InstallInv
<1>1. CASE UNCHANGED proVars
  BY <1>1 DEF proVars, InstallTyped, Locked, ProbeIsOwn, UnderWay, InstalledIsServed
<1>2. CASE TimePasses \/ PostChecks \/ PostProbes \/ UpdateTakesLock \/ UpdateEnds
  BY <1>2, InstallNames DEF TimePasses, PostChecks, PostProbes, UpdateTakesLock, UpdateEnds, Still,
     InstallTyped, Locked, ProbeIsOwn, UnderWay, InstalledIsServed, Free
<1>3. CASE PostQueues
  <2>1. InstallTyped'
    BY <1>3, ReportsOnly DEF PostQueues, Still, InstallTyped, Active
  <2>2. lock = "probe" /\ lock' = Free
    BY <1>3 DEF PostQueues, ProbeIsOwn
  <2>3. status'.says = "queued" \/ status' = status
    BY <1>3, ReportsOnly DEF PostQueues, Active
  <2> QED BY <2>1, <2>2, <2>3, <1>3, InstallNames DEF PostQueues, Locked, ProbeIsOwn, UnderWay, InstalledIsServed
<1>4. CASE PostSpawns
  <2>1. CASE UNCHANGED install
    <3>1. InstallTyped'
      BY <1>4, <2>1, ReportsOnly DEF PostSpawns, Still, InstallTyped, Active
    <3>2. status'.says # "installed" \/ status' = status
      <4>1. CASE Reports("failed")
        BY <4>1 DEF Reports, Says
      <4> QED BY <4>1, <1>4 DEF PostSpawns
    <3> QED BY <3>1, <3>2, <2>1, <1>4 DEF PostSpawns, Locked, ProbeIsOwn, UnderWay, InstalledIsServed
  <2>2. ASSUME NEW r \in Installs, Proceeds(r, "wants", TRUE, 0), UNCHANGED <<status, faults>> PROVE InstallInv'
    <3>1. /\ install' \in [Installs -> [at : Ats, queued : BOOLEAN, wheel : 0..2]]
          /\ install'[r].at = "wants" /\ \A o \in Installs \ {r} : install'[o] = install[o]
      <4>1. "wants" \in Ats /\ TRUE \in BOOLEAN /\ 0 \in 0..2
        BY DEF Ats
      <4>2. InstallTyped /\ Proceeds(r, "wants", TRUE, 0)
        BY <2>2
      <4> HIDE DEF InstallInv
      <4> QED BY <4>1, <4>2, ProceedsOnly
    <3> QED BY <3>1, <2>2, <1>4 DEF PostSpawns, Still, InstallTyped, Locked, ProbeIsOwn, UnderWay, InstalledIsServed
  <2> QED BY <2>1, <2>2, <1>4 DEF PostSpawns
<1>5. CASE Direct \/ \E r \in Installs : TakeLock(r) \/ BeginInstall(r) \/ Download(r) \/ PipInstall(r)
                                         \/ ReportRestarting(r)
  <2> USE DEF Still
  <2>1. ASSUME NEW r \in Installs, NEW step \in Ats, install[r].at = "unborn" \/ install[r].at = "wants",
               Reaches(r, step), step \in {"wants", "begin", "done"},
               step = "begin" => lock = Free /\ lock' = r, step # "begin" => UNCHANGED lock,
               UNCHANGED <<time, post, pack, loaded>>,
               UNCHANGED status \/ Reports("failed")
        PROVE  InstallInv'
    <3>1. /\ install' \in [Installs -> [at : Ats, queued : BOOLEAN, wheel : 0..2]]
          /\ install'[r].at = step /\ \A o \in Installs \ {r} : install'[o] = install[o]
      BY <2>1, ReachesOnly
    <3>2. /\ status' \in [says : {"idle", "installed", "failed"} \cup Active, at : Nat]
          /\ status'.says # "installed" \/ status' = status
      BY <2>1, ReportsOnly DEF InstallTyped
    <3> QED BY <3>1, <3>2, <2>1, InstallNames
            DEF InstallTyped, Locked, ProbeIsOwn, UnderWay, InstalledIsServed, Free
  <2>2. ASSUME NEW r \in Installs, NEW step \in Ats, NEW queued \in BOOLEAN, NEW wheel \in 0..2,
               Proceeds(r, step, queued, wheel), install[r].at \notin {"unborn", "wants", "done"},
               step \in {"download", "install", "restart", "restarting", "failed"},
               UNCHANGED <<time, post, loaded, lock>>,
               step = "restart" \/ UNCHANGED pack,
               UNCHANGED status \/ Says("installing") \/ Reports("restarting"),
               step = "download" => status'.says = "installing",
               step \in {"install", "restart", "restarting"} =>
                   install[r].at \in {"download", "install", "restart"}
        PROVE  InstallInv'
    <3>1. /\ install' \in [Installs -> [at : Ats, queued : BOOLEAN, wheel : 0..2]]
          /\ install'[r].at = step /\ \A o \in Installs \ {r} : install'[o] = install[o]
      BY <2>2, ProceedsOnly
    <3>2. /\ status' \in [says : {"idle", "installed", "failed"} \cup Active, at : Nat]
          /\ status'.says # "installed" \/ status' = status
      BY <2>2, ReportsOnly DEF InstallTyped, Active
    <3>3. lock = r /\ \A o \in Installs \ {r} : install[o].at \in {"unborn", "wants", "done"}
      BY <2>2 DEF InstallTyped, Locked
    <3>4. (InstallTyped /\ Locked /\ ProbeIsOwn)'
      BY <3>1, <3>2, <3>3, <2>2 DEF InstallTyped, Locked, ProbeIsOwn
    <3>5. UnderWay'
      BY <3>1, <3>2, <3>3, <2>2 DEF UnderWay
    <3>6. InstalledIsServed'
      BY <3>2, <2>2 DEF UnderWay, InstalledIsServed
    <3> QED BY <3>4, <3>5, <3>6
  <2>3. CASE Direct
    <3>1. {"unborn", "wants", "done"} \subseteq Ats
      BY DEF Ats
    <3> QED BY <3>1, <2>3, <2>1 DEF Direct
  <2>4. ASSUME NEW r \in Installs, TakeLock(r) PROVE InstallInv'
    <3>1. {"begin", "done"} \subseteq Ats
      BY DEF Ats
    <3> QED BY <3>1, <2>4, <2>1 DEF TakeLock
  <2>5. ASSUME NEW r \in Installs, BeginInstall(r) PROVE InstallInv'
    <3>1. CASE Reaches(r, "download") /\ Says("installing") /\ UNCHANGED lock
      <4>1. install[r].queued \in BOOLEAN /\ install[r].wheel \in 0..2 /\ "download" \in Ats
        BY DEF InstallTyped, Ats
      <4>2. Proceeds(r, "download", install[r].queued, install[r].wheel)
        BY <3>1 DEF Reaches
      <4>3. status'.says = "installing"
        BY <3>1 DEF Says
      <4> QED BY <4>1, <4>2, <4>3, <3>1, <2>5, <2>2 DEF BeginInstall
    <3>2. CASE Reaches(r, "done") /\ lock' = Free /\ UNCHANGED status
      <4>1. /\ install' \in [Installs -> [at : Ats, queued : BOOLEAN, wheel : 0..2]]
            /\ install'[r].at = "done" /\ \A o \in Installs \ {r} : install'[o] = install[o]
        BY <3>2, ReachesOnly DEF Ats
      <4>2. lock = r
        BY <2>5 DEF BeginInstall, Locked
      <4> QED BY <4>1, <4>2, <3>2, <2>5, InstallNames
              DEF BeginInstall, InstallTyped, Locked, ProbeIsOwn, UnderWay, InstalledIsServed, Free
    <3> QED BY <3>1, <3>2, <2>5 DEF BeginInstall
  <2>6. ASSUME NEW r \in Installs, Download(r) \/ PipInstall(r) \/ ReportRestarting(r) PROVE InstallInv'
    <3>1. /\ install[r].queued \in BOOLEAN /\ install[r].wheel \in 0..2
          /\ {"failed", "install", "restart", "restarting"} \subseteq Ats
          /\ \A w \in Wheels : w.version \in 0..2
      BY DEF InstallTyped, Ats, Wheels
    <3>2. ASSUME NEW step \in {"failed", "install", "restart", "restarting"}, Reaches(r, step)
          PROVE  Proceeds(r, step, install[r].queued, install[r].wheel)
      BY <3>2 DEF Reaches
    <3>3. CASE Download(r)
      BY <3>1, <3>2, <3>3, <2>2 DEF Download
    <3>4. CASE PipInstall(r)
      BY <3>1, <3>2, <3>4, <2>2 DEF PipInstall
    <3>5. CASE ReportRestarting(r)
      BY <3>1, <3>2, <3>5, <2>2 DEF ReportRestarting
    <3> QED BY <3>3, <3>4, <3>5, <2>6
  <2> QED BY <2>3, <2>4, <2>5, <2>6, <1>5
<1>6. ASSUME NEW r \in Installs, Restart(r) PROVE InstallInv'
  <2>1. PICK step \in {"restarted", "unstarted"} :
            /\ Reaches(r, step)
            /\ step = "restarted" => /\ loaded' = pack /\ post' = "none"
                                     /\ lock' = IF post = "probing" THEN Free ELSE lock
            /\ step = "unstarted" => UNCHANGED <<loaded, post, lock>>
    BY <1>6 DEF Restart
  <2>2. /\ install' \in [Installs -> [at : Ats, queued : BOOLEAN, wheel : 0..2]]
        /\ install'[r].at = step /\ \A o \in Installs \ {r} : install'[o] = install[o]
    BY <2>1, ReachesOnly DEF Ats
  <2>3. lock = r /\ post # "probing"
    BY <1>6, InstallNames DEF Restart, Locked, ProbeIsOwn
  <2> QED BY <2>1, <2>2, <2>3, <1>6
          DEF Restart, Still, InstallTyped, Locked, ProbeIsOwn, UnderWay, InstalledIsServed
<1>7. ASSUME NEW r \in Installs, Conclude(r) PROVE InstallInv'
  <2>1. /\ install' \in [Installs -> [at : Ats, queued : BOOLEAN, wheel : 0..2]]
        /\ install'[r].at = "done" /\ \A o \in Installs \ {r} : install'[o] = install[o]
    BY <1>7, ReachesOnly DEF Conclude, Ats
  <2>2. lock = r
    BY <1>7 DEF Conclude, Locked
  <2>3. /\ status' \in [says : {"idle", "installed", "failed"} \cup Active, at : Nat]
        /\ status'.says = Conclusion(r) \/ status' = status
    BY <1>7, ReportsOnly DEF Conclude, Conclusion
  <2>4. Conclusion(r) = "installed" => loaded = pack
    BY DEF Conclusion, UnderWay
  <2> QED BY <2>1, <2>2, <2>3, <2>4, <1>7, InstallNames
          DEF Conclude, Still, InstallTyped, Locked, ProbeIsOwn, UnderWay, InstalledIsServed, Free
<1>8. ASSUME NEW r \in Installs, Kill(r) PROVE InstallInv'
  <2>1. /\ install' \in [Installs -> [at : Ats, queued : BOOLEAN, wheel : 0..2]]
        /\ install'[r].at = "done" /\ \A o \in Installs \ {r} : install'[o] = install[o]
    BY <1>8, ReachesOnly DEF Kill, Ats
  <2> QED BY <2>1, <1>8, InstallNames
          DEF Kill, Still, InstallTyped, Locked, ProbeIsOwn, UnderWay, InstalledIsServed, Free
<1>9. CASE Relaunch
  BY <1>9, InstallNames DEF Relaunch, Still, InstallTyped, Locked, ProbeIsOwn, UnderWay, InstalledIsServed, Free
<1> QED BY <1>1, <1>2, <1>3, <1>4, <1>5, <1>6, <1>7, <1>8, <1>9 DEF ProNext

\* "installed" is the truth: while the status says so the daemon serves with the pack that is in the
\* environment, for any number of helpers, kills and lost reports (pro_install.py,
\* _run_pro_install_locked, best_effort_write_install_status).
THEOREM InstalledIsTrue == ProSpec => []InstalledIsServed
<1>1. InstallInv => InstalledIsServed
  BY DEF InstallInv
<1> QED BY InstallInitInv, InstallNextInv, <1>1, PTL DEF ProSpec

------------------------------------------------------------------------------
(* The runs of the health harness.                                         *)

Cases == {Preflight} \cup UNION {Range(Corpus[i]) : i \in DOMAIN Corpus}
CaseStatuses == Statuses \cup {"pass", "harness_error"}
Entries == {Torn} \cup [event : {"outcome"}, case : Cases, status : CaseStatuses, sitting : Nat]
Plans == {s \in Seq(Cases) : s # <<>> /\ s[1] = Preflight}
\* A directory, and a summary of S in it.
Dirs(S) ==
    [status : {"none", "running", "completed", "incomplete"}, plan : Plans \cup {<<>>}, identity : Nat,
     parent : Nat, journal : Seq(Entries), snapshot : BOOLEAN, summary : S]
Summaries == {disk[r].summary : r \in Runs}

Open == {"recorded", "next", "planned", "summing", "closing"}
Working == Open \cup {"made", "pruning"}
Sitters ==
    [pc : Working \cup {"idle", "resume", "rerun"}, run : 0..MaxRuns,
     meta : [plan : Plans \cup {<<>>}, identity : Nat, parent : Nat], fresh : BOOLEAN,
     chosen : SUBSET Cases, at : Nat, done : SUBSET Cases, sitting : Nat, incomplete : BOOLEAN]

HealthTyped ==
    /\ holder \in Procs \cup {Nobody} /\ identity \in DOMAIN Corpus
    /\ disk \in [Runs -> Dirs(Summaries)]
    /\ started \in [runs : 0..MaxRuns, sittings : Nat]
    /\ proc \in [Procs -> Sitters]

Decided(journal) == {journal[k].case : k \in OutcomeRows(journal)}
\* Only the last line of a journal is torn, and a preflight passes or is an error of the harness.
Readable(journal) ==
    /\ \A k \in DOMAIN journal : journal[k] = Torn => k = Len(journal)
    /\ \A k \in OutcomeRows(journal) :
           journal[k].case = Preflight => journal[k].status \in {"pass", "harness_error"}
Sound(journal) == journal = <<>> \/ journal[Len(journal)] # Torn

\* A preflight of the sitting passed before row k of the journal.
Covered(journal, sitting, k) ==
    \E j \in OutcomeRows(journal) : /\ j < k /\ journal[j].case = Preflight
                                    /\ journal[j].status = "pass" /\ journal[j].sitting = sitting

\* What a summary has to say of the outcomes it is about.
Tells(s, latest, plan) ==
    /\ s # <<>>
    /\ s.done = DOMAIN latest /\ s.findings = Findings(latest)
    /\ s.overall \in {"pass", "fail"} => s.done = Range(plan) /\ latest[Preflight] = "pass"
    /\ "safety_breach" \in Range(latest) => s.overall = "safety_breach"
    /\ \A c \in s.recovered \cap Range(plan) : c \in DOMAIN latest /\ latest[c] = "pass"
Concluded(r) == Tells(disk[r].summary, LatestOf(r), disk[r].plan)

\* A run that is not there has no journal, and one that is over is summarised.
RunKept(r) ==
    LET d == disk[r]
    IN /\ Readable(d.journal) /\ Decided(d.journal) \subseteq Range(d.plan)
       /\ \A k \in OutcomeRows(d.journal) :
              d.journal[k].case # Preflight => Covered(d.journal, d.journal[k].sitting, k)
       /\ d.status = "none" => d.journal = <<>>
       /\ d.status # "none" => d.plan \in Plans /\ r <= started.runs
       /\ r \in Over => Concluded(r)

\* What a process knows of the run it works on.
ProcKept(p) ==
    LET w == proc[p]
        d == disk[w.run]
    IN /\ w.pc \in Working => holder = p
       /\ w.pc \in Working \cup {"resume"} => /\ w.run \in Runs /\ w.run <= started.runs
                                              /\ w.meta.plan \in Plans
       /\ w.pc = "resume" => d.status = "none" \/ d.plan = w.meta.plan
       /\ w.pc = "made" => d.status = "none"
       /\ w.pc \in Open => d.status = "running" /\ d.plan = w.meta.plan
       /\ w.pc \in {"made", "recorded"} => w.at = 0 /\ w.done = {}
       /\ w.pc \in {"next", "planned"} =>
              /\ w.at \in 0..Len(w.meta.plan) /\ w.done \subseteq Decided(d.journal)
              /\ \A k \in 1..w.at : (k = w.at /\ w.pc = "planned") \/ w.meta.plan[k] \in Decided(d.journal)
       /\ w.pc = "next" => w.at = 0 \/ Covered(d.journal, w.sitting, Len(d.journal) + 1)
       /\ w.pc = "planned" =>
              /\ w.at > 0 /\ Sound(d.journal)
              /\ w.at = 1 \/ Covered(d.journal, w.sitting, Len(d.journal) + 1)
       /\ w.pc = "summing" /\ ~w.incomplete => Range(w.meta.plan) \subseteq Decided(d.journal)
       /\ w.pc = "closing" => Concluded(w.run)

\* Whoever read the metadata of a run read the same plan, and of one that is being made nobody has.
PlansAgree ==
    \A p, q \in Procs :
        p # q /\ proc[p].run = proc[q].run /\ proc[q].pc = "resume" =>
            /\ proc[p].pc # "made"
            /\ proc[p].pc = "resume" => proc[p].meta.plan = proc[q].meta.plan

HealthInv ==
    /\ HealthTyped
    /\ \A r \in Runs : RunKept(r)
    /\ \A p \in Procs : ProcKept(p)
    /\ PlansAgree

------------------------------------------------------------------------------
(* What the operators of the harness return.                               *)

\* Of a finite set of numbers every rank is taken by one.
LEMMA NthIsThere ==
  ASSUME NEW S, S \subseteq Int, IsFiniteSet(S), NEW n \in 1..Cardinality(S)
  PROVE  Nth(S, n) \in S /\ Cardinality({y \in S : y <= Nth(S, n)}) = n
<1> DEFINE Upto(x) == {y \in S : y <= x}
           rank == [x \in S |-> Cardinality(Upto(x))]
<1>1. \A x \in S : IsFiniteSet(Upto(x)) /\ Cardinality(Upto(x)) \in 1..Cardinality(S)
  <2> TAKE x \in S
  <2>1. Upto(x) \in SUBSET S /\ x \in Upto(x)
    OBVIOUS
  <2>2. IsFiniteSet(Upto(x)) /\ Cardinality(Upto(x)) <= Cardinality(S)
    BY <2>1, FS_Subset
  <2>3. Cardinality(Upto(x)) \in Nat /\ Cardinality(S) \in Nat /\ Cardinality(Upto(x)) # 0
    BY <2>1, <2>2, FS_CardinalityType, FS_EmptySet
  <2> QED BY <2>2, <2>3
<1>2. ASSUME NEW x \in S, NEW y \in S, x < y PROVE rank[x] < rank[y]
  <2>1. Upto(x) \in SUBSET Upto(y) /\ y \in Upto(y) /\ y \notin Upto(x)
    <3>1. x \in Int /\ y \in Int
      OBVIOUS
    <3>2. \A z \in S : z <= x => z <= y
      BY <3>1, <1>2
    <3>3. ~(y <= x) /\ y <= y
      BY <3>1, <1>2
    <3> QED BY <3>2, <3>3
  <2>2. IsFiniteSet(Upto(y))
    BY <1>1
  <2>3. Cardinality(Upto(x)) < Cardinality(Upto(y))
    <3> HIDE DEF Upto
    <3> QED BY <2>1, <2>2, SmallerPart
  <2> QED BY <2>3
<1>3. rank \in Injection(S, 1..Cardinality(S))
  <2>1. rank \in [S -> 1..Cardinality(S)]
    BY <1>1
  <2>2. \A x, y \in S : rank[x] = rank[y] => x = y
    <3> TAKE x, y \in S
    <3>1. rank[x] \in Nat /\ rank[y] \in Nat
      BY <1>1
    <3>2. x < y \/ y < x \/ x = y
      OBVIOUS
    <3> HIDE DEF rank
    <3> QED BY <3>1, <3>2, <1>2
  <2> HIDE DEF rank
  <2> QED BY <2>1, <2>2 DEF Injection, IsInjective
<1>4. Cardinality(S) \in Nat
  BY FS_CardinalityType
<1>5. IsFiniteSet(1..Cardinality(S)) /\ Cardinality(1..Cardinality(S)) = Cardinality(S)
  BY <1>4, FS_Interval
<1>6. rank \in Surjection(S, 1..Cardinality(S))
  <2> HIDE DEF rank
  <2> QED BY <1>3, <1>5, FS_Injection
<1>7. PICK x \in S : rank[x] = n
  <2> HIDE DEF rank
  <2> QED BY <1>6 DEF Surjection
<1>8. \E y \in S : Cardinality(Upto(y)) = n
  BY <1>7
<1> QED BY <1>8 DEF Nth

\* What is selected is a plan: the preflight, then cases of the corpus.
LEMMA SelectedIsAPlan ==
  ASSUME NEW chosen, identity \in DOMAIN Corpus
  PROVE  Selected(chosen) \in Plans
<1> DEFINE all == PlanOf(identity)
           kept == {k \in DOMAIN all : chosen = {} \/ all[k] = Preflight \/ all[k] \in chosen}
           plan == [n \in 1..Cardinality(kept) |-> all[Nth(kept, n)]]
<1>1. all \in Seq(Cases) /\ Len(all) > 0 /\ all[1] = Preflight
  <2>1. Corpus[identity] \in Seq(UNION {Range(Corpus[i]) : i \in DOMAIN Corpus})
    BY HealthConstants
  <2>2. Corpus[identity] \in Seq(Cases) /\ <<Preflight>> \in Seq(Cases)
    BY <2>1 DEF Cases
  <2> QED BY <2>2 DEF PlanOf
<1>2. DOMAIN all = 1..Len(all) /\ Len(all) \in Nat
  BY <1>1
<1> HIDE DEF all
<1>3. kept \subseteq Int /\ kept \subseteq 1..Len(all) /\ 1 \in kept
  BY <1>1, <1>2
<1>4. IsFiniteSet(kept) /\ Cardinality(kept) \in Nat /\ Cardinality(kept) >= 1
  <2>1. IsFiniteSet(kept)
    <3>1. IsFiniteSet(1..Len(all)) /\ kept \in SUBSET (1..Len(all))
      BY <1>2, <1>3, FS_Interval
    <3> HIDE DEF kept
    <3> QED BY <3>1, FS_Subset
  <2>2. Cardinality(kept) \in Nat /\ Cardinality(kept) # 0
    <3> HIDE DEF kept
    <3> QED BY <1>3, <2>1, FS_CardinalityType, FS_EmptySet
  <2> QED BY <2>1, <2>2
<1> HIDE DEF kept
<1>5. \A n \in 1..Cardinality(kept) : Nth(kept, n) \in kept
  BY <1>3, <1>4, NthIsThere
<1>6. Nth(kept, 1) = 1
  <2>1. 1 \in 1..Cardinality(kept)
    BY <1>4
  <2> DEFINE low == {y \in kept : y <= Nth(kept, 1)}
  <2>2. Nth(kept, 1) \in kept /\ Cardinality(low) = 1
    BY <2>1, <1>3, <1>4, NthIsThere
  <2>3. Nth(kept, 1) >= 1 /\ Nth(kept, 1) \in Int
    <3>1. \A k \in 1..Len(all) : k >= 1 /\ k \in Int
      BY <1>2
    <3> QED BY <3>1, <2>2, <1>3
  <2>4. 1 \in low /\ Nth(kept, 1) \in low
    BY <2>2, <2>3, <1>3
  <2>5. IsFiniteSet(low)
    BY <1>4, FS_Subset
  <2>6. \E m : low = {m}
    <3> HIDE DEF low
    <3> QED BY <2>2, <2>5, FS_Singleton
  <2> HIDE DEF low
  <2> QED BY <2>4, <2>6
<1>7. plan \in Seq(Cases) /\ Len(plan) = Cardinality(kept)
  <2>1. \A n \in 1..Cardinality(kept) : all[Nth(kept, n)] \in Cases
    <3>1. \A k \in 1..Len(all) : all[k] \in Cases
      BY <1>1
    <3> QED BY <3>1, <1>3, <1>5
  <2> QED BY <2>1, <1>4
<1>8. plan # <<>> /\ plan[1] = Preflight
  BY <1>1, <1>4, <1>6, <1>7
<1>9. plan = Selected(chosen)
  BY DEF Selected, all, kept
<1> HIDE DEF plan
<1> QED BY <1>7, <1>8, <1>9 DEF Plans

\* The rows of a case, the last of which is looked up.
RowsOf(journal, c) == {k \in OutcomeRows(journal) : journal[k].case = c}

LEMMA LastRow ==
  ASSUME NEW journal \in Seq(Entries), NEW c \in Decided(journal)
  PROVE  /\ Max(RowsOf(journal, c)) \in RowsOf(journal, c)
         /\ Latest(journal)[c] = journal[Max(RowsOf(journal, c))].status
<1>1. OutcomeRows(journal) \subseteq 1..Len(journal) /\ Len(journal) \in Nat
  BY DEF OutcomeRows
<1>2. RowsOf(journal, c) \subseteq Int /\ RowsOf(journal, c) # {}
  BY <1>1 DEF Decided, RowsOf
<1>3. IsFiniteSet(RowsOf(journal, c))
  <2>1. IsFiniteSet(1..Len(journal)) /\ RowsOf(journal, c) \in SUBSET (1..Len(journal))
    BY <1>1, FS_Interval DEF RowsOf
  <2> QED BY <2>1, FS_Subset
<1>4. Max(RowsOf(journal, c)) \in RowsOf(journal, c)
  BY <1>2, <1>3, GreatestElement
<1>5. Latest(journal)[c] = journal[Max(RowsOf(journal, c))].status
  BY DEF Latest, Decided, RowsOf
<1> QED BY <1>4, <1>5

\* What is looked up in a journal is what is decided in it.
LEMMA LatestIs ==
  ASSUME NEW journal \in Seq(Entries)
  PROVE  /\ DOMAIN Latest(journal) = Decided(journal) /\ Decided(journal) \subseteq Cases
         /\ IsFiniteSet(Decided(journal))
         /\ \A c \in Decided(journal) :
                \E k \in OutcomeRows(journal) :
                    journal[k].case = c /\ Latest(journal)[c] = journal[k].status
<1>1. OutcomeRows(journal) \subseteq 1..Len(journal) /\ Len(journal) \in Nat
  BY DEF OutcomeRows
<1>2. \A k \in OutcomeRows(journal) : journal[k].case \in Cases
  <2> TAKE k \in OutcomeRows(journal)
  <2>1. journal[k] \in Entries /\ journal[k].event = "outcome"
    BY DEF OutcomeRows
  <2>2. Torn.event # "outcome"
    BY DEF Torn
  <2> QED BY <2>1, <2>2 DEF Entries
<1>3. IsFiniteSet(OutcomeRows(journal))
  <2>1. IsFiniteSet(1..Len(journal))
    BY <1>1, FS_Interval
  <2> QED BY <1>1, <2>1, FS_Subset
<1>4. IsFiniteSet(Decided(journal))
  <2> DEFINE f == [k \in OutcomeRows(journal) |-> journal[k].case]
  <2>1. f \in [OutcomeRows(journal) -> Decided(journal)]
        /\ \A t \in Decided(journal) : \E k \in OutcomeRows(journal) : f[k] = t
    BY DEF Decided
  <2> HIDE DEF f
  <2> QED BY <2>1, <1>3, FiniteImage
<1>5. DOMAIN Latest(journal) = Decided(journal)
  BY DEF Latest, Decided
<1>6. \A c \in Decided(journal) :
          \E k \in OutcomeRows(journal) : journal[k].case = c /\ Latest(journal)[c] = journal[k].status
  BY LastRow DEF RowsOf
<1> QED BY <1>2, <1>4, <1>5, <1>6 DEF Decided

\* Two journals of which a reader makes the same.
SameOutcomes(j, k) == OutcomeRows(j) = OutcomeRows(k) /\ \A i \in OutcomeRows(j) : j[i] = k[i]

LEMMA SameIsRead ==
  ASSUME NEW j \in Seq(Entries), NEW k \in Seq(Entries), SameOutcomes(j, k)
  PROVE  /\ Decided(j) = Decided(k)
         /\ \A sitting, n : Covered(j, sitting, n) <=> Covered(k, sitting, n)
<1>1. OutcomeRows(j) = OutcomeRows(k) /\ \A i \in OutcomeRows(j) : j[i] = k[i]
  BY DEF SameOutcomes
<1>2. Decided(j) = Decided(k)
  BY <1>1 DEF Decided
<1>3. \A sitting, n : Covered(j, sitting, n) <=> Covered(k, sitting, n)
  BY <1>1 DEF Covered
<1> QED BY <1>2, <1>3

\* A planned row changes nothing, and what is appended next is read; half a row changes nothing either.
LEMMA AppendedReads ==
  ASSUME NEW journal \in Seq(Entries), Readable(journal), NEW row \in {Planned, Torn}
  PROVE  LET next == Appended(journal, row)
         IN  /\ next \in Seq(Entries) /\ Readable(next) /\ SameOutcomes(journal, next)
             /\ row = Planned => Sound(next)
<1> DEFINE torn == journal # <<>> /\ Last(journal) = Torn
           whole == IF torn THEN Front(journal) ELSE journal
<1>1. Len(journal) \in Nat /\ DOMAIN journal = 1..Len(journal) /\ \A k \in 1..Len(journal) : journal[k] \in Entries
  OBVIOUS
<1>2. Torn \in Entries /\ Planned # Torn /\ Torn.event # "outcome"
  BY DEF Entries, Torn, Planned
<1>3. /\ whole \in Seq(Entries) /\ Len(whole) <= Len(journal) /\ Len(whole) >= Len(journal) - 1
      /\ \A k \in 1..Len(whole) : whole[k] = journal[k] /\ whole[k] # Torn
      /\ \A k \in 1..Len(journal) : k > Len(whole) => journal[k] = Torn
  <2>1. CASE torn
    <3>1. Len(journal) > 0 /\ whole = SubSeq(journal, 1, Len(journal) - 1) /\ journal[Len(journal)] = Torn
      BY <1>1, <2>1 DEF Front, Last
    <3>2. /\ whole \in Seq(Entries) /\ Len(whole) = Len(journal) - 1
          /\ \A k \in 1..Len(whole) : whole[k] = journal[k]
      <4> HIDE DEF whole
      <4>1. 1 \in Int /\ Len(journal) - 1 \in 0..Len(journal)
        BY <1>1, <3>1
      <4> QED BY <1>1, <3>1, <4>1, SubSeqProperties
    <3> HIDE DEF whole, torn
    <3> QED BY <1>1, <3>1, <3>2 DEF Readable
  <2>2. CASE ~torn
    <3>1. whole = journal
      BY <2>2
    <3>2. journal = <<>> \/ journal[Len(journal)] # Torn
      BY <2>2 DEF Last
    <3>3. \A k \in 1..Len(journal) : journal[k] # Torn
      BY <1>1, <3>2 DEF Readable
    <3> HIDE DEF whole
    <3> QED BY <1>1, <3>1, <3>3
  <2> QED BY <2>1, <2>2
<1>4. Appended(journal, row) = IF row = Torn THEN Append(whole, Torn) ELSE whole
  BY <1>2 DEF Appended
<1> HIDE DEF whole
<1>5. \A k \in DOMAIN whole : whole[k] = journal[k]
  BY <1>3
<1>6. SameOutcomes(journal, whole)
  BY <1>1, <1>2, <1>3 DEF SameOutcomes, OutcomeRows
<1>7. Readable(whole) /\ Sound(whole)
  <2>1. \A k \in OutcomeRows(whole) : k \in OutcomeRows(journal) /\ whole[k] = journal[k]
    BY <1>6 DEF SameOutcomes
  <2>2. DOMAIN whole = 1..Len(whole) /\ Len(whole) \in Nat
    BY <1>3
  <2>3. Sound(whole)
    BY <1>3, <2>2 DEF Sound
  <2> QED BY <1>3, <2>1, <2>2, <2>3 DEF Readable
<1>8. CASE row = Planned
  BY <1>2, <1>3, <1>4, <1>6, <1>7, <1>8
<1>9. CASE row = Torn
  <2> DEFINE next == Append(whole, Torn)
  <2>1. next \in Seq(Entries) /\ Len(next) = Len(whole) + 1
        /\ (\A k \in 1..Len(whole) : next[k] = whole[k]) /\ next[Len(next)] = Torn
    BY <1>2, <1>3
  <2>2. OutcomeRows(next) = OutcomeRows(whole) /\ \A k \in OutcomeRows(whole) : next[k] = whole[k]
    BY <1>2, <1>3, <2>1 DEF OutcomeRows
  <2>3. SameOutcomes(journal, next)
    BY <1>6, <2>2 DEF SameOutcomes
  <2>4. \A k \in DOMAIN next : next[k] = Torn => k = Len(next)
    BY <1>3, <2>1
  <2>5. Readable(next)
    BY <1>7, <2>2, <2>4 DEF Readable
  <2> QED BY <1>2, <1>4, <1>9, <2>1, <2>3, <2>5
<1> QED BY <1>8, <1>9

LEMMA RowReads ==
  ASSUME NEW journal \in Seq(Entries), Readable(journal), Sound(journal),
         NEW c \in Cases, NEW status_ \in Outcomes(c), NEW sitting \in Nat
  PROVE  LET next == Appended(journal, Row(c, status_, sitting))
         IN  /\ next \in Seq(Entries) /\ Readable(next) /\ Sound(next)
             /\ Len(next) = Len(journal) + 1 /\ next[Len(next)] = Row(c, status_, sitting)
             /\ OutcomeRows(next) = OutcomeRows(journal) \cup {Len(next)}
             /\ \A k \in OutcomeRows(journal) : next[k] = journal[k]
             /\ Decided(next) = Decided(journal) \cup {c}
             /\ \A n, k : Covered(journal, n, k) => Covered(next, n, k)
<1> DEFINE row == Row(c, status_, sitting)
           next == Append(journal, row)
<1>1. /\ row \in Entries /\ row # Torn /\ row # Planned /\ row.event = "outcome" /\ row.case = c
      /\ row.status = status_ /\ (c = Preflight => status_ \in {"pass", "harness_error"})
  BY DEF Row, Entries, Torn, Planned, CaseStatuses, Outcomes
<1>2. Appended(journal, row) = next
  BY <1>1 DEF Appended, Sound, Last
<1> HIDE DEF row
<1>3. /\ next \in Seq(Entries) /\ Len(next) = Len(journal) + 1 /\ next[Len(next)] = row
      /\ \A k \in 1..Len(journal) : next[k] = journal[k]
  BY <1>1
<1>4. DOMAIN next = 1..Len(next) /\ DOMAIN journal = 1..Len(journal) /\ Len(journal) \in Nat
  BY <1>3
<1> HIDE DEF next
<1>5. /\ OutcomeRows(next) = OutcomeRows(journal) \cup {Len(next)}
      /\ \A k \in OutcomeRows(journal) : next[k] = journal[k]
  BY <1>1, <1>3, <1>4 DEF OutcomeRows
<1>6. Decided(next) = Decided(journal) \cup {c}
  BY <1>1, <1>3, <1>5 DEF Decided
<1>7. \A k \in DOMAIN next : next[k] # Torn
  BY <1>1, <1>3, <1>4 DEF Readable, Sound
<1>8. Readable(next) /\ Sound(next)
  BY <1>1, <1>3, <1>4, <1>5, <1>7 DEF Readable, Sound
<1>9. \A n, k : Covered(journal, n, k) => Covered(next, n, k)
  BY <1>5 DEF Covered
<1> QED BY <1>2, <1>3, <1>5, <1>6, <1>8, <1>9 DEF row

\* A summary of a whole plan, or of one that was interrupted, says what the journal holds.
LEMMA SummaryTells ==
  ASSUME NEW r, NEW plan \in Plans, NEW incomplete \in BOOLEAN,
         disk[r].journal \in Seq(Entries), Readable(disk[r].journal),
         Decided(disk[r].journal) \subseteq Range(plan),
         incomplete \/ Range(plan) \subseteq Decided(disk[r].journal)
  PROVE  Tells(Summary(r, plan, incomplete), LatestOf(r), plan)
<1> DEFINE j == disk[r].journal
           latest == Latest(j)
           before == IF Baseline(r) = NoRun THEN {} ELSE disk[Baseline(r)].summary.findings
           s == Summary(r, plan, incomplete)
<1>1. /\ DOMAIN latest = Decided(j)
      /\ \A c \in Decided(j) : \E k \in OutcomeRows(j) : j[k].case = c /\ latest[c] = j[k].status
  BY LatestIs
<1>2. /\ s = [overall |-> Overall(latest, plan, incomplete), incomplete |-> incomplete,
              done |-> DOMAIN latest, findings |-> Findings(latest), baseline |-> Baseline(r),
              recovered |-> IF incomplete THEN {} ELSE before \ Findings(latest)]
  BY DEF Summary
<1>3. /\ s.overall = Overall(latest, plan, incomplete) /\ s.done = DOMAIN latest
      /\ s.findings = Findings(latest)
      /\ s.recovered = (IF incomplete THEN {} ELSE before \ Findings(latest))
      /\ s # <<>>
  <2> HIDE DEF s, latest, before
  <2> QED BY <1>2
<1> HIDE DEF s, before
<1>4. Preflight \in Range(plan)
  BY DEF Plans, Range
<1>5. ASSUME s.overall \in {"pass", "fail"} PROVE s.done = Range(plan) /\ latest[Preflight] = "pass"
  <2>1. ~incomplete /\ "harness_error" \notin Range(latest)
    BY <1>3, <1>5 DEF Overall
  <2>2. Decided(j) = Range(plan)
    BY <2>1
  <2>3. Preflight \in DOMAIN latest
    BY <1>1, <1>4, <2>2
  <2>4. latest[Preflight] \in {"pass", "harness_error"}
    BY <1>1, <2>3 DEF Readable
  <2>5. latest[Preflight] \in Range(latest)
    BY <2>3 DEF Range
  <2> QED BY <1>1, <1>3, <2>1, <2>2, <2>4, <2>5
<1>6. "safety_breach" \in Range(latest) => s.overall = "safety_breach"
  BY <1>3 DEF Overall
<1>7. \A c \in s.recovered \cap Range(plan) : c \in DOMAIN latest /\ latest[c] = "pass"
  <2> TAKE c \in s.recovered \cap Range(plan)
  <2>1. ~incomplete /\ c \notin Findings(latest)
    BY <1>3
  <2>2. c \in DOMAIN latest
    BY <1>1, <2>1
  <2> QED BY <2>1, <2>2 DEF Findings
<1>8. Tells(s, latest, plan)
  BY <1>3, <1>5, <1>6, <1>7 DEF Tells
<1> QED BY <1>8 DEF s, LatestOf

\* What a step of a process writes of itself.
LEMMA BecomesOnly ==
  ASSUME HealthTyped, NEW p \in Procs, NEW rec \in Sitters, Become(p, rec)
  PROVE  /\ proc' \in [Procs -> Sitters] /\ proc'[p] = rec
         /\ \A q \in Procs \ {p} : proc'[q] = proc[q]
BY DEF HealthTyped, Become

\* What it writes into its directory.
LEMMA WritesOnly ==
  ASSUME HealthTyped, NEW r \in Runs, NEW S, Summaries \subseteq S, NEW dir \in Dirs(S),
         disk' = [disk EXCEPT ![r] = dir]
  PROVE  /\ disk' \in [Runs -> Dirs(Summaries')] /\ disk'[r] = dir
         /\ \A q \in Runs \ {r} : disk'[q] = disk[q]
<1>1. disk \in [Runs -> Dirs(S)]
  BY DEF HealthTyped, Dirs
<1>2. disk' \in [Runs -> Dirs(S)] /\ disk'[r] = dir /\ \A q \in Runs \ {r} : disk'[q] = disk[q]
  BY <1>1
<1>3. \A q \in Runs : disk'[q] \in Dirs(S) /\ disk'[q].summary \in Summaries'
  BY <1>2 DEF Summaries
<1>4. \A q \in Runs : disk'[q] \in Dirs(Summaries')
  BY <1>3 DEF Dirs
<1> QED BY <1>2, <1>4

------------------------------------------------------------------------------
(* A step changes one process and the directory it works on.               *)

\* A directory nobody wrote into is kept.
LEMMA RunStays ==
  ASSUME NEW r \in Runs, RunKept(r), disk'[r] = disk[r],
         started.runs \in Nat, started'.runs \in Nat, started'.runs >= started.runs
  PROVE  RunKept(r)'
BY DEF RunKept, Over, Concluded, LatestOf, Runs

\* While nobody holds the locks, or p does, the others do not work.
LEMMA OthersWait ==
  ASSUME HealthInv, NEW p \in Procs, holder \in {p, Nobody}, NEW q \in Procs \ {p}
  PROVE  proc[q].pc \notin Working
BY HealthConstants DEF HealthInv, ProcKept

\* A step of a process that waits for the locks, or gives up, leaves the rest as it was.
LEMMA StepAside ==
  ASSUME HealthInv, NEW p \in Procs, NEW rec \in Sitters, Become(p, rec),
         UNCHANGED <<holder, identity, disk, started>>,
         rec.pc \notin Working,
         rec.pc = "resume" =>
             /\ rec.run \in Runs /\ disk[rec.run].status # "none"
             /\ rec.meta.plan = disk[rec.run].plan
  PROVE  HealthInv'
<1>1. HealthTyped /\ PlansAgree /\ (\A r \in Runs : RunKept(r)) /\ \A q \in Procs : ProcKept(q)
  BY DEF HealthInv
<1>2. /\ proc' \in [Procs -> Sitters] /\ proc'[p] = rec
      /\ \A q \in Procs \ {p} : proc'[q] = proc[q]
  BY <1>1, BecomesOnly
<1>3. HealthTyped'
  BY <1>1, <1>2 DEF HealthTyped, Summaries
<1>4. \A r \in Runs : RunKept(r)'
  BY <1>1 DEF RunKept, Over, Concluded, LatestOf
<1>5. rec.pc = "resume" => /\ rec.meta.plan \in Plans /\ rec.run <= started.runs
                           /\ disk[rec.run].plan = rec.meta.plan
  BY <1>1 DEF RunKept
<1>6. ProcKept(p)'
  BY <1>2, <1>5 DEF ProcKept, Working, Open
<1>7. \A q \in Procs \ {p} : ProcKept(q)'
  BY <1>1, <1>2 DEF ProcKept, Concluded, LatestOf
<1>8. PlansAgree'
  <2> SUFFICES ASSUME NEW a \in Procs, NEW b \in Procs, a # b, proc'[a].run = proc'[b].run,
                      proc'[b].pc = "resume"
               PROVE  proc'[a].pc # "made"
                      /\ (proc'[a].pc = "resume" => proc'[a].meta.plan = proc'[b].meta.plan)
    BY DEF PlansAgree
  <2>1. CASE a # p /\ b # p
    BY <1>1, <1>2, <2>1 DEF PlansAgree
  <2>2. CASE a = p
    <3>1. proc'[a].pc # "made" /\ proc[b].pc = "resume" /\ proc'[b] = proc[b]
      BY <1>2, <2>2 DEF Working
    <3>2. rec.pc = "resume" => disk[rec.run].plan = proc[b].meta.plan
      BY <1>1, <1>2, <2>2, <3>1 DEF ProcKept
    <3> QED BY <3>1, <3>2, <1>2, <2>2
  <2>3. CASE b = p
    <3>1. proc'[a] = proc[a] /\ disk[rec.run].status # "none" /\ rec.run = proc[a].run
      BY <1>2, <2>3
    <3>2. ProcKept(a)
      BY <1>1
    <3> QED BY <3>1, <3>2, <1>2, <2>3 DEF ProcKept
  <2> QED BY <2>1, <2>2, <2>3
<1> QED BY <1>3, <1>4, <1>6, <1>7, <1>8 DEF HealthInv

\* A step of the process that holds the locks, or takes them.
LEMMA StepAtWork ==
  ASSUME HealthInv, NEW p \in Procs, holder \in {p, Nobody}, HealthTyped',
         proc'[p].pc # "resume", \A q \in Procs \ {p} : proc'[q] = proc[q],
         started'.runs >= started.runs,
         \A r \in Runs : RunKept(r)', ProcKept(p)',
         \A q \in Procs \ {p} : proc[q].pc = "resume" =>
             /\ disk'[proc[q].run].status = "none" \/ disk'[proc[q].run].plan = proc[q].meta.plan
             /\ proc'[p].pc = "made" => proc'[p].run # proc[q].run
  PROVE  HealthInv'
<1>1. HealthTyped /\ PlansAgree /\ \A q \in Procs : ProcKept(q)
  BY DEF HealthInv
<1>2. started.runs \in Nat /\ started'.runs \in Nat /\ \A q \in Procs : proc[q].run \in Nat
  BY <1>1, HealthConstants DEF HealthTyped, Sitters
<1>3. \A q \in Procs \ {p} : proc[q].pc \notin Working
  BY OthersWait
<1>4. \A q \in Procs \ {p} : ProcKept(q)'
  <2> TAKE q \in Procs \ {p}
  <2>1. proc'[q] = proc[q] /\ ProcKept(q) /\ proc[q].pc \notin Working
    BY <1>1, <1>3
  <2> QED BY <2>1, <1>2 DEF ProcKept, Working, Open
<1>5. PlansAgree'
  BY <1>1, <1>3 DEF PlansAgree, Working
<1> QED BY <1>4, <1>5 DEF HealthInv

\* What a process writes into the directory of its run disturbs no other run and nobody who waits.
LEMMA InPlace ==
  ASSUME HealthInv, NEW p \in Procs, proc[p].pc \in Open, UNCHANGED started,
         NEW S, Summaries \subseteq S, NEW dir \in Dirs(S),
         disk' = [disk EXCEPT ![proc[p].run] = dir], dir.plan = disk[proc[p].run].plan
  PROVE  /\ disk' \in [Runs -> Dirs(Summaries')] /\ disk'[proc[p].run] = dir /\ proc[p].run \in Runs
         /\ \A r \in Runs \ {proc[p].run} : RunKept(r)'
         /\ holder = p
         /\ \A q \in Procs \ {p} : proc[q].pc = "resume" =>
             disk'[proc[q].run].status = "none" \/ disk'[proc[q].run].plan = proc[q].meta.plan
<1>1. HealthTyped /\ (\A q \in Procs : ProcKept(q)) /\ (\A r \in Runs : RunKept(r))
  BY DEF HealthInv
<1>2. /\ proc[p].run \in Runs /\ disk[proc[p].run].status = "running" /\ holder = p
      /\ disk[proc[p].run].plan = proc[p].meta.plan
  BY <1>1 DEF ProcKept, Working, Open
<1>3. /\ disk' \in [Runs -> Dirs(Summaries')] /\ disk'[proc[p].run] = dir
      /\ \A q \in Runs \ {proc[p].run} : disk'[q] = disk[q]
  BY <1>1, <1>2, WritesOnly
<1>4. \A r \in Runs \ {proc[p].run} : RunKept(r)'
  <2>1. started.runs \in Nat /\ started'.runs = started.runs
    BY <1>1, HealthConstants DEF HealthTyped
  <2> QED BY <1>1, <1>3, <2>1, RunStays
<1>5. \A q \in Procs : proc[q].pc = "resume" => proc[q].run \in Runs
  BY <1>1 DEF ProcKept
<1> QED BY <1>1, <1>2, <1>3, <1>4, <1>5 DEF ProcKept

\* Rows that are appended to the journal of a run.
LEMMA JournalStep ==
  ASSUME HealthInv, NEW p \in Procs, proc[p].pc \in Open, UNCHANGED started,
         NEW v \in Seq(Entries), Write(proc[p].run, "journal", v),
         Readable(v), Decided(v) \subseteq Range(proc[p].meta.plan),
         \A k \in OutcomeRows(v) : v[k].case # Preflight => Covered(v, v[k].sitting, k)
  PROVE  /\ disk' \in [Runs -> Dirs(Summaries')] /\ proc[p].run \in Runs
         /\ disk'[proc[p].run].journal = v /\ disk'[proc[p].run].status = "running"
         /\ disk'[proc[p].run].plan = proc[p].meta.plan
         /\ \A r \in Runs : RunKept(r)'
         /\ holder = p
         /\ \A q \in Procs \ {p} : proc[q].pc = "resume" =>
             disk'[proc[q].run].status = "none" \/ disk'[proc[q].run].plan = proc[q].meta.plan
<1> DEFINE run == proc[p].run
           dir == [disk[run] EXCEPT !.journal = v]
<1>1. HealthTyped /\ ProcKept(p) /\ \A r \in Runs : RunKept(r)
  BY DEF HealthInv
<1>2. run \in Runs /\ disk[run].status = "running" /\ disk[run].plan = proc[p].meta.plan
  BY <1>1 DEF ProcKept, Working, Open
<1>3. disk[run] \in Dirs(Summaries)
  BY <1>1, <1>2 DEF HealthTyped
<1>4. dir \in Dirs(Summaries) /\ dir.journal = v /\ dir.plan = disk[run].plan /\ dir.status = "running"
  BY <1>2, <1>3 DEF Dirs
<1>5. disk' = [disk EXCEPT ![run] = dir]
  BY DEF Write
<1> HIDE DEF dir
<1>6. /\ disk' \in [Runs -> Dirs(Summaries')] /\ disk'[run] = dir
      /\ \A r \in Runs \ {run} : RunKept(r)'
      /\ holder = p
      /\ \A q \in Procs \ {p} : proc[q].pc = "resume" =>
             disk'[proc[q].run].status = "none" \/ disk'[proc[q].run].plan = proc[q].meta.plan
  BY <1>4, <1>5, InPlace
<1>7. run \notin Over'
  BY <1>4, <1>6 DEF Over
<1>8. \A r \in Runs : r = run => RunKept(r)'
  <2> TAKE r \in Runs
  <2>1. RunKept(r)
    BY <1>1
  <2> QED BY <2>1, <1>2, <1>4, <1>6, <1>7 DEF RunKept
<1> QED BY <1>2, <1>4, <1>6, <1>8

LEMMA HealthInitInv == HealthInit => HealthInv
<1> SUFFICES ASSUME HealthInit PROVE HealthInv
  OBVIOUS
<1>1. /\ holder = Nobody /\ identity = 1 /\ disk = [r \in Runs |-> Unwritten]
      /\ started = [runs |-> 0, sittings |-> 0] /\ proc = [p \in Procs |-> Idle]
  BY DEF HealthInit
<1>2. identity \in DOMAIN Corpus
  BY <1>1, HealthConstants
<1>3. Unwritten \in Dirs({<<>>}) /\ Unwritten.summary = <<>> /\ Unwritten.status = "none"
      /\ Unwritten.journal = <<>>
  BY DEF Unwritten, Dirs, NoRun
<1>4. disk \in [Runs -> Dirs(Summaries)]
  <2>1. \A r \in Runs : disk[r] = Unwritten /\ disk[r].summary \in Summaries
    BY <1>1 DEF Summaries
  <2>2. \A r \in Runs : Unwritten \in Dirs(Summaries)
    BY <1>3, <2>1 DEF Dirs
  <2> QED BY <1>1, <2>1, <2>2
<1>5. Idle \in Sitters /\ Idle.pc = "idle"
  BY HealthConstants DEF Idle, Sitters, Metadata, NoRun
<1>6. HealthTyped
  BY <1>1, <1>2, <1>4, <1>5, HealthConstants DEF HealthTyped
<1>7. \A r \in Runs : RunKept(r)
  <2> TAKE r \in Runs
  <2>1. disk[r] = Unwritten
    BY <1>1
  <2>2. OutcomeRows(<<>>) = {}
    BY DEF OutcomeRows
  <2> QED BY <1>3, <2>1, <2>2 DEF RunKept, Readable, Decided, Over
<1>8. (\A p \in Procs : ProcKept(p)) /\ PlansAgree
  BY <1>1, <1>5 DEF ProcKept, PlansAgree, Working, Open
<1> QED BY <1>6, <1>7, <1>8 DEF HealthInv

LEMMA LoadInv == ASSUME HealthInv, NEW p \in Procs, NEW r \in Runs, NEW want \in {"resume", "rerun"},
                        Load(p, r, want)
                 PROVE  HealthInv'
<1> DEFINE failed == Findings(Latest(disk[r].journal)) \ {Preflight}
           meta == IF want = "rerun" THEN Idle.meta
                   ELSE Metadata(disk[r].plan, disk[r].identity, disk[r].parent)
           rec == [Idle EXCEPT !.pc = want, !.run = r, !.meta = meta,
                               !.chosen = IF want = "resume" THEN {} ELSE failed]
<1>1. HealthTyped /\ disk[r].status # "none" /\ Become(p, rec) /\ UNCHANGED <<holder, identity, disk, started>>
  BY DEF HealthInv, Load
<1>2. disk[r] \in Dirs(Summaries)
  BY <1>1 DEF HealthTyped
<1>3. failed \subseteq Cases
  BY <1>2, LatestIs DEF Findings, Dirs
<1>4. meta \in [plan : Plans \cup {<<>>}, identity : Nat, parent : Nat]
      /\ (want = "resume" => meta.plan = disk[r].plan)
  BY <1>2 DEF Dirs, Metadata, Idle, NoRun
<1> HIDE DEF meta, failed
<1>5. r \in 0..MaxRuns
  BY HealthConstants DEF Runs
<1>6. rec \in Sitters /\ rec.pc = want /\ rec.run = r /\ rec.meta = meta
  BY <1>3, <1>4, <1>5 DEF Idle, Sitters, Metadata, NoRun
<1> HIDE DEF rec
<1>7. rec.pc \notin Working
  BY <1>6 DEF Working, Open
<1> QED BY <1>1, <1>4, <1>6, <1>7, StepAside

LEMMA RefusedInv == ASSUME HealthInv, NEW p \in Procs, Refused(p) PROVE HealthInv'
<1>1. Idle \in Sitters /\ Idle.pc = "idle"
  BY HealthConstants DEF Idle, Sitters, Metadata, NoRun
<1>2. Idle.pc \notin Working /\ Idle.pc # "resume"
  BY <1>1 DEF Working, Open
<1> QED BY <1>1, <1>2, StepAside DEF Refused

LEMMA BeginInv == ASSUME HealthInv, NEW p \in Procs, Begin(p) PROVE HealthInv'
<1> DEFINE new == started.runs + 1
           meta == Metadata(Selected(proc[p].chosen), identity, proc[p].run)
           made == [Idle EXCEPT !.pc = "made", !.run = new, !.fresh = TRUE, !.meta = meta]
           rec == [made EXCEPT !.sitting = started.sittings + 1]
<1>1. /\ HealthTyped /\ (\A r \in Runs : RunKept(r)) /\ (\A q \in Procs : ProcKept(q))
      /\ holder = Nobody /\ new \in Runs /\ holder' = p /\ Become(p, rec)
      /\ started' = [runs |-> new, sittings |-> started.sittings + 1] /\ UNCHANGED <<identity, disk>>
  BY DEF HealthInv, Begin, Sit
<1>2. started.runs \in Nat /\ started.sittings \in Nat /\ identity \in DOMAIN Corpus /\ DOMAIN Corpus \subseteq Nat
  BY <1>1, HealthConstants DEF HealthTyped
<1>3. Selected(proc[p].chosen) \in Plans /\ proc[p].run \in Nat
  BY <1>1, <1>2, SelectedIsAPlan, HealthConstants DEF HealthTyped, Sitters
<1>4. meta \in [plan : Plans \cup {<<>>}, identity : Nat, parent : Nat] /\ meta.plan \in Plans
  BY <1>2, <1>3 DEF Metadata
<1>5. /\ rec \in Sitters /\ rec.pc = "made" /\ rec.run = new /\ rec.at = 0 /\ rec.done = {}
      /\ rec.meta.plan \in Plans
  <2> HIDE DEF meta
  <2>1. new \in 0..MaxRuns
    BY <1>1, HealthConstants DEF Runs
  <2>2. /\ made \in Sitters /\ made.pc = "made" /\ made.run = new /\ made.at = 0 /\ made.done = {}
        /\ made.meta = meta
    BY <2>1, <1>4 DEF Idle, Sitters, Metadata, NoRun, Working, Open
  <2> HIDE DEF made
  <2>3. /\ rec \in Sitters /\ rec.pc = made.pc /\ rec.run = made.run /\ rec.at = made.at
        /\ rec.done = made.done /\ rec.meta = made.meta
    BY <2>2, <1>2 DEF Sitters
  <2> HIDE DEF rec
  <2> QED BY <2>2, <2>3, <1>4
<1> HIDE DEF rec
<1>6. /\ proc' \in [Procs -> Sitters] /\ proc'[p] = rec /\ \A q \in Procs \ {p} : proc'[q] = proc[q]
  BY <1>1, <1>5, BecomesOnly
<1>7. started' \in [runs : 0..MaxRuns, sittings : Nat] /\ started'.runs = new /\ new > started.runs
  BY <1>1, <1>2, HealthConstants DEF Runs
<1>8. HealthTyped'
  BY <1>1, <1>6, <1>7 DEF HealthTyped, Summaries
<1>9. \A r \in Runs : RunKept(r)'
  BY <1>1, <1>2, <1>7, RunStays
<1>10. disk[new].status = "none"
  BY <1>1, <1>2 DEF RunKept
<1>11. ProcKept(p)'
  BY <1>1, <1>2, <1>5, <1>6, <1>7, <1>10 DEF ProcKept, Working, Open
<1>12. \A q \in Procs \ {p} : proc[q].pc = "resume" =>
           /\ disk'[proc[q].run].status = "none" \/ disk'[proc[q].run].plan = proc[q].meta.plan
           /\ proc'[p].pc = "made" => proc'[p].run # proc[q].run
  BY <1>1, <1>2, <1>5, <1>6 DEF ProcKept, Runs
<1> HIDE DEF new
<1> QED BY <1>1, <1>2, <1>5, <1>6, <1>7, <1>8, <1>9, <1>11, <1>12, StepAtWork

\* The metadata a process has in run.json: the journal that is there is of the same plan.
LEMMA RunningIs ==
  ASSUME HealthInv, NEW p \in Procs, NEW run \in Runs, proc[p].run = run, run <= started.runs,
         proc[p].meta.plan \in Plans, disk[run].status = "none" \/ disk[run].plan = proc[p].meta.plan,
         Running(p), started'.runs = started.runs
  PROVE  /\ disk' \in [Runs -> Dirs(Summaries')] /\ disk'[run].journal = disk[run].journal
         /\ disk'[run].status = "running" /\ disk'[run].plan = proc[p].meta.plan
         /\ \A r \in Runs : RunKept(r)'
         /\ \A r \in Runs \ {run} : disk'[r] = disk[r]
<1> DEFINE meta == proc[p].meta
           dir == [disk[run] EXCEPT !.status = "running", !.plan = meta.plan,
                                    !.identity = meta.identity, !.parent = meta.parent]
<1>1. HealthTyped /\ \A r \in Runs : RunKept(r)
  BY DEF HealthInv
<1>2. disk[run] \in Dirs(Summaries) /\ meta \in [plan : Plans \cup {<<>>}, identity : Nat, parent : Nat]
  BY <1>1 DEF HealthTyped, Sitters
<1>3. /\ dir \in Dirs(Summaries) /\ dir.journal = disk[run].journal /\ dir.plan = meta.plan
      /\ dir.status = "running"
  BY <1>2 DEF Dirs
<1>4. disk' = [disk EXCEPT ![run] = dir]
  BY DEF Running
<1> HIDE DEF dir
<1>5. /\ disk' \in [Runs -> Dirs(Summaries')] /\ disk'[run] = dir
      /\ \A q \in Runs \ {run} : disk'[q] = disk[q]
  BY <1>1, <1>3, <1>4, WritesOnly
<1>6. started.runs \in Nat
  BY <1>1, HealthConstants DEF HealthTyped
<1>7. \A r \in Runs \ {run} : RunKept(r)'
  BY <1>1, <1>5, <1>6, RunStays
<1>8. OutcomeRows(<<>>) = {} /\ run \notin Over'
  BY <1>3, <1>5 DEF OutcomeRows, Over
<1>9. Decided(disk[run].journal) \subseteq Range(meta.plan)
  <2>1. disk[run].status = "none" => Decided(disk[run].journal) = {}
    BY <1>1, <1>8 DEF RunKept, Decided
  <2> QED BY <1>1, <2>1 DEF RunKept
<1>10. RunKept(run)'
  BY <1>1, <1>3, <1>5, <1>8, <1>9 DEF RunKept
<1> QED BY <1>3, <1>5, <1>7, <1>10

LEMMA RecordInv == ASSUME HealthInv, NEW p \in Procs, Record(p) PROVE HealthInv'
<1> DEFINE rec == [proc[p] EXCEPT !.pc = "recorded"]
<1>1. /\ HealthTyped /\ (\A q \in Procs : ProcKept(q)) /\ PlansAgree
      /\ Running(p) /\ Become(p, rec) /\ UNCHANGED <<holder, identity, started>> /\ proc[p].pc = "made"
  BY DEF HealthInv, Record
<1>2. proc[p] \in Sitters /\ started.runs \in Nat
  BY <1>1, HealthConstants DEF HealthTyped
<1>3. /\ rec \in Sitters /\ rec.pc = "recorded" /\ rec.run = proc[p].run /\ rec.meta = proc[p].meta
      /\ rec.at = proc[p].at /\ rec.done = proc[p].done
  BY <1>2 DEF Sitters, Working, Open
<1> HIDE DEF rec
<1>4. /\ proc' \in [Procs -> Sitters] /\ proc'[p] = rec /\ \A q \in Procs \ {p} : proc'[q] = proc[q]
  BY <1>1, <1>3, BecomesOnly
<1>5. /\ holder = p /\ proc[p].run \in Runs /\ proc[p].run <= started.runs
      /\ proc[p].meta.plan \in Plans /\ disk[proc[p].run].status = "none" /\ proc[p].at = 0 /\ proc[p].done = {}
  BY <1>1 DEF ProcKept, Working
<1>6. /\ disk' \in [Runs -> Dirs(Summaries')]
      /\ disk'[proc[p].run].status = "running" /\ disk'[proc[p].run].plan = proc[p].meta.plan
      /\ (\A r \in Runs : RunKept(r)') /\ \A r \in Runs \ {proc[p].run} : disk'[r] = disk[r]
  BY <1>1, <1>5, RunningIs
<1>7. HealthTyped'
  BY <1>1, <1>4, <1>6 DEF HealthTyped
<1>8. ProcKept(p)'
  BY <1>1, <1>3, <1>4, <1>5, <1>6 DEF ProcKept, Working, Open
<1>9. \A q \in Procs \ {p} : proc[q].pc = "resume" =>
           /\ disk'[proc[q].run].status = "none" \/ disk'[proc[q].run].plan = proc[q].meta.plan
           /\ proc'[p].pc = "made" => proc'[p].run # proc[q].run
  <2> TAKE q \in Procs \ {p}
  <2> HAVE proc[q].pc = "resume"
  <2>1. proc[q].run # proc[p].run
    BY <1>1 DEF PlansAgree
  <2>2. proc[q].run \in Runs
    BY <1>1 DEF ProcKept
  <2> QED BY <1>1, <1>3, <1>4, <1>6, <2>1, <2>2 DEF ProcKept
<1> QED BY <1>1, <1>2, <1>3, <1>4, <1>5, <1>6, <1>7, <1>8, <1>9, StepAtWork

LEMMA ResumeInv == ASSUME HealthInv, NEW p \in Procs, Resume(p) PROVE HealthInv'
<1> DEFINE ready == [proc[p] EXCEPT !.pc = "next", !.at = 0,
                                    !.done = DOMAIN Latest(disk[proc[p].run].journal)]
           rec == [ready EXCEPT !.sitting = started.sittings + 1]
<1>1. /\ HealthTyped /\ (\A q \in Procs : ProcKept(q)) /\ PlansAgree
      /\ Running(p) /\ Become(p, rec) /\ UNCHANGED identity /\ proc[p].pc = "resume"
      /\ holder = Nobody /\ holder' = p /\ started' = [started EXCEPT !.sittings = @ + 1]
  BY DEF HealthInv, Resume, Sit
<1>2. /\ proc[p] \in Sitters /\ started.runs \in Nat /\ started.sittings \in Nat
      /\ started' \in [runs : 0..MaxRuns, sittings : Nat] /\ started'.runs = started.runs
  <2>1. started \in [runs : 0..MaxRuns, sittings : Nat] /\ proc[p] \in Sitters
    BY <1>1 DEF HealthTyped
  <2>2. started' = [runs |-> started.runs, sittings |-> started.sittings + 1]
    BY <1>1, <2>1
  <2> QED BY <2>1, <2>2, HealthConstants
<1>3. /\ proc[p].run \in Runs /\ proc[p].run <= started.runs /\ proc[p].meta.plan \in Plans
      /\ disk[proc[p].run].status = "none" \/ disk[proc[p].run].plan = proc[p].meta.plan
  BY <1>1 DEF ProcKept
<1>4. /\ DOMAIN Latest(disk[proc[p].run].journal) = Decided(disk[proc[p].run].journal)
      /\ Decided(disk[proc[p].run].journal) \subseteq Cases
  <2>1. disk[proc[p].run].journal \in Seq(Entries)
    BY <1>1, <1>3 DEF HealthTyped, Dirs
  <2> QED BY <2>1, LatestIs
<1>5. /\ rec \in Sitters /\ rec.pc = "next" /\ rec.run = proc[p].run /\ rec.meta = proc[p].meta
      /\ rec.at = 0 /\ rec.done = Decided(disk[proc[p].run].journal)
  <2>1. /\ ready \in Sitters /\ ready.pc = "next" /\ ready.run = proc[p].run /\ ready.meta = proc[p].meta
        /\ ready.at = 0 /\ ready.done = Decided(disk[proc[p].run].journal)
    BY <1>2, <1>4 DEF Sitters, Working, Open
  <2> HIDE DEF ready
  <2>3. started.sittings + 1 \in Nat /\ ready \in Sitters
    BY <2>1, <1>2
  <2>2. /\ rec \in Sitters /\ rec.pc = ready.pc /\ rec.run = ready.run /\ rec.meta = ready.meta
        /\ rec.at = ready.at /\ rec.done = ready.done
    BY <2>3 DEF Sitters
  <2> HIDE DEF rec
  <2> QED BY <2>1, <2>2
<1> HIDE DEF rec
<1>6. /\ proc' \in [Procs -> Sitters] /\ proc'[p] = rec /\ \A q \in Procs \ {p} : proc'[q] = proc[q]
  BY <1>1, <1>5, BecomesOnly
<1>7. /\ disk' \in [Runs -> Dirs(Summaries')]
      /\ disk'[proc[p].run].journal = disk[proc[p].run].journal
      /\ disk'[proc[p].run].status = "running" /\ disk'[proc[p].run].plan = proc[p].meta.plan
      /\ (\A r \in Runs : RunKept(r)') /\ \A r \in Runs \ {proc[p].run} : disk'[r] = disk[r]
  BY <1>1, <1>2, <1>3, RunningIs
<1>8. HealthTyped'
  BY <1>1, <1>2, <1>6, <1>7 DEF HealthTyped
<1>9. ProcKept(p)'
  <2>1. Len(proc[p].meta.plan) \in Nat
    BY <1>3 DEF Plans
  <2> QED BY <1>1, <1>2, <1>3, <1>5, <1>6, <1>7, <2>1 DEF ProcKept, Working, Open
<1>10. \A q \in Procs \ {p} : proc[q].pc = "resume" =>
           /\ disk'[proc[q].run].status = "none" \/ disk'[proc[q].run].plan = proc[q].meta.plan
           /\ proc'[p].pc = "made" => proc'[p].run # proc[q].run
  <2> TAKE q \in Procs \ {p}
  <2> HAVE proc[q].pc = "resume"
  <2>1. proc[q].run = proc[p].run => proc[q].meta.plan = proc[p].meta.plan
    BY <1>1 DEF PlansAgree
  <2>2. proc[q].run \in Runs
    BY <1>1 DEF ProcKept
  <2> QED BY <1>1, <1>5, <1>6, <1>7, <2>1, <2>2 DEF ProcKept
<1> QED BY <1>1, <1>2, <1>5, <1>6, <1>7, <1>8, <1>9, <1>10, StepAtWork

\* What is known of a process at work on its run.
LEMMA AtItsRun ==
  ASSUME HealthInv, NEW p \in Procs, proc[p].pc \in Open
  PROVE  /\ HealthTyped /\ holder = p /\ proc[p].run \in Runs /\ proc[p].run <= started.runs
         /\ proc[p] \in Sitters /\ started.runs \in Nat
         /\ proc[p].meta.plan \in Plans /\ Len(proc[p].meta.plan) \in Nat
         /\ DOMAIN proc[p].meta.plan = 1..Len(proc[p].meta.plan)
         /\ disk[proc[p].run] \in Dirs(Summaries) /\ disk[proc[p].run].journal \in Seq(Entries)
         /\ disk[proc[p].run].status = "running" /\ disk[proc[p].run].plan = proc[p].meta.plan
         /\ ProcKept(p) /\ RunKept(proc[p].run)
         /\ Readable(disk[proc[p].run].journal)
         /\ Decided(disk[proc[p].run].journal) \subseteq Range(proc[p].meta.plan)
<1>1. HealthTyped /\ ProcKept(p) /\ \A r \in Runs : RunKept(r)
  BY DEF HealthInv
<1>2. /\ proc[p].run \in Runs /\ proc[p].run <= started.runs /\ holder = p
      /\ proc[p].meta.plan \in Plans
      /\ disk[proc[p].run].status = "running" /\ disk[proc[p].run].plan = proc[p].meta.plan
  BY <1>1 DEF ProcKept, Working
<1>3. disk[proc[p].run] \in Dirs(Summaries) /\ disk[proc[p].run].journal \in Seq(Entries)
      /\ proc[p] \in Sitters /\ started.runs \in Nat
  BY <1>1, <1>2, HealthConstants DEF HealthTyped, Dirs
<1>4. RunKept(proc[p].run)
  BY <1>1, <1>2
<1>5. Readable(disk[proc[p].run].journal)
      /\ Decided(disk[proc[p].run].journal) \subseteq Range(proc[p].meta.plan)
  BY <1>2, <1>4 DEF RunKept
<1>6. Len(proc[p].meta.plan) \in Nat /\ DOMAIN proc[p].meta.plan = 1..Len(proc[p].meta.plan)
  BY <1>2 DEF Plans
<1> QED BY <1>1, <1>2, <1>3, <1>4, <1>5, <1>6

LEMMA SnapshotInv == ASSUME HealthInv, NEW p \in Procs, Snapshot(p) PROVE HealthInv'
<1> DEFINE rec == [proc[p] EXCEPT !.pc = "next"]
           dir == [disk[proc[p].run] EXCEPT !.snapshot = TRUE]
<1>1. /\ Write(proc[p].run, "snapshot", TRUE) /\ Become(p, rec) /\ UNCHANGED <<holder, identity, started>>
      /\ proc[p].pc = "recorded" /\ proc[p].pc \in Open
  BY DEF Snapshot, Open
<1>2. /\ HealthTyped /\ holder = p /\ proc[p] \in Sitters /\ disk[proc[p].run] \in Dirs(Summaries)
      /\ proc[p].run \in Runs /\ proc[p].run <= started.runs /\ started.runs \in Nat
      /\ proc[p].meta.plan \in Plans /\ Len(proc[p].meta.plan) \in Nat
      /\ disk[proc[p].run].status = "running" /\ disk[proc[p].run].plan = proc[p].meta.plan
      /\ ProcKept(p) /\ RunKept(proc[p].run)
  BY <1>1, AtItsRun
<1>3. /\ rec \in Sitters /\ rec.pc = "next" /\ rec.run = proc[p].run /\ rec.meta = proc[p].meta
      /\ rec.at = 0 /\ rec.done = {}
  BY <1>1, <1>2 DEF Sitters, Working, Open, ProcKept
<1> HIDE DEF rec
<1>4. /\ proc' \in [Procs -> Sitters] /\ proc'[p] = rec /\ \A q \in Procs \ {p} : proc'[q] = proc[q]
  BY <1>1, <1>2, <1>3, BecomesOnly
<1>5. /\ dir \in Dirs(Summaries) /\ dir.plan = disk[proc[p].run].plan /\ dir.status = "running"
      /\ dir.journal = disk[proc[p].run].journal /\ disk' = [disk EXCEPT ![proc[p].run] = dir]
  BY <1>1, <1>2 DEF Dirs, Write
<1> HIDE DEF dir
<1>6. /\ disk' \in [Runs -> Dirs(Summaries')] /\ disk'[proc[p].run] = dir
      /\ \A r \in Runs \ {proc[p].run} : RunKept(r)'
      /\ \A q \in Procs \ {p} : proc[q].pc = "resume" =>
             disk'[proc[q].run].status = "none" \/ disk'[proc[q].run].plan = proc[q].meta.plan
  BY <1>1, <1>5, InPlace
<1>7. \A r \in Runs : RunKept(r)'
  <2> SUFFICES ASSUME NEW r \in Runs, r = proc[p].run PROVE RunKept(r)'
    BY <1>6
  <2> QED BY <1>1, <1>2, <1>5, <1>6 DEF RunKept, Over
<1>8. HealthTyped'
  BY <1>1, <1>2, <1>4, <1>6 DEF HealthTyped
<1>9. ProcKept(p)'
  BY <1>1, <1>2, <1>3, <1>4, <1>5, <1>6 DEF ProcKept, Working, Open
<1> QED BY <1>1, <1>2, <1>3, <1>4, <1>6, <1>7, <1>8, <1>9, StepAtWork

LEMMA StopsInv ==
  ASSUME HealthInv, NEW p \in Procs, NEW incomplete \in BOOLEAN, Stop(p, incomplete),
         proc[p].pc = "next", UNCHANGED <<holder, identity, disk, started>>,
         incomplete \/ Ahead(p) = {}
  PROVE  HealthInv'
<1> DEFINE rec == [proc[p] EXCEPT !.pc = "summing", !.incomplete = incomplete]
           plan == proc[p].meta.plan
<1>1. proc[p].pc \in Open /\ Become(p, rec)
  BY DEF Open, Stop
<1>2. /\ HealthTyped /\ holder = p /\ proc[p] \in Sitters
      /\ proc[p].run \in Runs /\ proc[p].run <= started.runs /\ started.runs \in Nat
      /\ plan \in Plans /\ DOMAIN plan = 1..Len(plan) /\ Len(plan) \in Nat
      /\ disk[proc[p].run].status = "running" /\ disk[proc[p].run].plan = plan /\ ProcKept(p)
  BY <1>1, AtItsRun
<1>3. /\ rec \in Sitters /\ rec.pc = "summing" /\ rec.run = proc[p].run /\ rec.meta = proc[p].meta
      /\ rec.incomplete = incomplete
  BY <1>2 DEF Sitters, Working, Open
<1> HIDE DEF rec
<1>4. /\ proc' \in [Procs -> Sitters] /\ proc'[p] = rec /\ \A q \in Procs \ {p} : proc'[q] = proc[q]
  BY <1>1, <1>2, <1>3, BecomesOnly
<1>5. ~incomplete => Range(plan) \subseteq Decided(disk[proc[p].run].journal)
  <2> SUFFICES ASSUME ~incomplete, NEW k \in DOMAIN plan PROVE plan[k] \in Decided(disk[proc[p].run].journal)
    BY DEF Range
  <2>1. k \notin Ahead(p)
    OBVIOUS
  <2>2. /\ proc[p].done \subseteq Decided(disk[proc[p].run].journal) /\ proc[p].at \in Nat
        /\ \A i \in 1..proc[p].at : plan[i] \in Decided(disk[proc[p].run].journal)
    BY <1>2 DEF ProcKept
  <2> QED BY <1>2, <2>1, <2>2 DEF Ahead
<1>6. HealthTyped'
  BY <1>2, <1>4 DEF HealthTyped, Summaries
<1>7. \A r \in Runs : RunKept(r)'
  BY <1>2, RunStays DEF HealthInv
<1>8. ProcKept(p)'
  BY <1>2, <1>3, <1>4, <1>5 DEF ProcKept, Working, Open
<1>9. \A q \in Procs \ {p} : proc[q].pc = "resume" =>
           disk'[proc[q].run].status = "none" \/ disk'[proc[q].run].plan = proc[q].meta.plan
  BY DEF HealthInv, ProcKept
<1> QED BY <1>2, <1>3, <1>4, <1>6, <1>7, <1>8, <1>9, StepAtWork

LEMMA PlanCaseInv == ASSUME HealthInv, NEW p \in Procs, PlanCase(p) PROVE HealthInv'
<1> DEFINE k == Min(Ahead(p))
           rec == [proc[p] EXCEPT !.pc = "planned", !.at = k]
           plan == proc[p].meta.plan
           j == disk[proc[p].run].journal
           v == Appended(j, Planned)
<1>1. /\ proc[p].pc = "next" /\ Ahead(p) # {} /\ Write(proc[p].run, "journal", v) /\ Become(p, rec)
      /\ UNCHANGED <<holder, identity, started>> /\ proc[p].pc \in Open
  BY DEF PlanCase, Open
<1>2. /\ HealthTyped /\ holder = p /\ proc[p] \in Sitters
      /\ proc[p].run \in Runs /\ proc[p].run <= started.runs /\ started.runs \in Nat
      /\ plan \in Plans /\ DOMAIN plan = 1..Len(plan) /\ Len(plan) \in Nat
      /\ ProcKept(p) /\ RunKept(proc[p].run)
      /\ j \in Seq(Entries) /\ Readable(j) /\ Decided(j) \subseteq Range(plan)
      /\ disk[proc[p].run].plan = plan
  BY <1>1, AtItsRun
<1>3. /\ proc[p].done \subseteq Decided(j) /\ proc[p].at \in 0..Len(plan)
      /\ \A i \in 1..proc[p].at : plan[i] \in Decided(j)
      /\ proc[p].at = 0 \/ Covered(j, proc[p].sitting, Len(j) + 1)
  BY <1>1, <1>2 DEF ProcKept
<1>4. k \in Ahead(p) /\ \A i \in Ahead(p) : k <= i
  <2>1. Ahead(p) \subseteq 1..Len(plan) /\ Ahead(p) \subseteq Int
    BY <1>2 DEF Ahead
  <2>2. IsFiniteSet(Ahead(p))
    <3>1. IsFiniteSet(1..Len(plan))
      BY <1>2, FS_Interval
    <3> QED BY <2>1, <3>1, FS_Subset
  <2> QED BY <1>1, <2>1, <2>2, LeastElement
<1>5. /\ k \in 1..Len(plan) /\ k > proc[p].at
      /\ \A i \in 1..Len(plan) : i < k => plan[i] \in Decided(j)
      /\ proc[p].at = 0 => k = 1
  <2>1. k \in 1..Len(plan) /\ k > proc[p].at
    BY <1>2, <1>4 DEF Ahead
  <2>2. \A i \in 1..Len(plan) : i < k => plan[i] \in Decided(j)
    <3> TAKE i \in 1..Len(plan)
    <3> HAVE i < k
    <3>1. i \notin Ahead(p)
      BY <1>4, <2>1, <1>2
    <3> QED BY <3>1, <1>2, <1>3 DEF Ahead
  <2>3. proc[p].at = 0 => 1 \in Ahead(p)
    BY <1>2 DEF Ahead, Plans
  <2> HIDE DEF k
  <2> QED BY <2>1, <2>2, <2>3, <1>2, <1>4
<1> HIDE DEF k
<1>6. /\ rec \in Sitters /\ rec.pc = "planned" /\ rec.run = proc[p].run /\ rec.meta = proc[p].meta
      /\ rec.at = k /\ rec.done = proc[p].done /\ rec.sitting = proc[p].sitting
  <2>1. k \in Nat
    BY <1>2, <1>5
  <2> QED BY <2>1, <1>2 DEF Sitters, Working, Open
<1> HIDE DEF rec
<1>7. /\ proc' \in [Procs -> Sitters] /\ proc'[p] = rec /\ \A q \in Procs \ {p} : proc'[q] = proc[q]
  BY <1>1, <1>2, <1>6, BecomesOnly
<1>8. v \in Seq(Entries) /\ Readable(v) /\ SameOutcomes(j, v) /\ Sound(v)
  BY <1>2, AppendedReads
<1> HIDE DEF v
<1>9. /\ Decided(v) = Decided(j)
      /\ \A n, i : Covered(j, n, i) <=> Covered(v, n, i)
  BY <1>2, <1>8, SameIsRead
<1>10. \A i \in OutcomeRows(v) : v[i].case # Preflight => Covered(v, v[i].sitting, i)
  <2>1. \A i \in OutcomeRows(j) : j[i].case # Preflight => Covered(j, j[i].sitting, i)
    BY <1>2 DEF RunKept
  <2> QED BY <2>1, <1>8, <1>9 DEF SameOutcomes
<1>11. Covered(j, proc[p].sitting, Len(j) + 1) => Covered(v, proc[p].sitting, Len(v) + 1)
  <2>1. OutcomeRows(v) \subseteq 1..Len(v) /\ Len(v) \in Nat
    BY <1>8 DEF OutcomeRows
  <2>2. \A i \in OutcomeRows(v) : i < Len(v) + 1
    BY <2>1
  <2> QED BY <1>8, <2>2 DEF Covered, SameOutcomes
<1>12. /\ disk' \in [Runs -> Dirs(Summaries')]
       /\ disk'[proc[p].run].journal = v /\ disk'[proc[p].run].status = "running"
       /\ disk'[proc[p].run].plan = plan
       /\ \A r \in Runs : RunKept(r)'
       /\ \A q \in Procs \ {p} : proc[q].pc = "resume" =>
             disk'[proc[q].run].status = "none" \/ disk'[proc[q].run].plan = proc[q].meta.plan
  BY <1>1, <1>2, <1>8, <1>9, <1>10, JournalStep
<1>13. HealthTyped'
  BY <1>1, <1>2, <1>7, <1>12 DEF HealthTyped
<1>14. ProcKept(p)'
  <2>1. \A i \in 1..k : i = k \/ plan[i] \in Decided(v)
    BY <1>2, <1>5, <1>9
  <2>2. k = 1 \/ Covered(v, proc[p].sitting, Len(v) + 1)
    BY <1>3, <1>5, <1>11
  <2>3. k > 0 /\ k \in 0..Len(plan)
    BY <1>2, <1>5
  <2> QED BY <1>1, <1>2, <1>3, <1>6, <1>7, <1>8, <1>9, <1>12, <2>1, <2>2, <2>3 DEF ProcKept, Working, Open
<1> QED BY <1>1, <1>2, <1>6, <1>7, <1>12, <1>13, <1>14, StepAtWork

LEMMA RunCaseInv == ASSUME HealthInv, NEW p \in Procs, RunCase(p) PROVE HealthInv'
<1> DEFINE plan == proc[p].meta.plan
           c == plan[proc[p].at]
           j == disk[proc[p].run].journal
           n == proc[p].sitting
<1>1. /\ proc[p].pc = "planned" /\ UNCHANGED <<holder, identity, started>> /\ proc[p].pc \in Open
  BY DEF RunCase, Open
<1>2. PICK s \in Outcomes(c) :
          /\ Write(proc[p].run, "journal", Appended(j, Row(c, s, n)))
          /\ IF s = "safety_breach" \/ (c = Preflight /\ s # "pass") THEN Stop(p, TRUE)
             ELSE Become(p, [proc[p] EXCEPT !.pc = "next"])
  BY DEF RunCase
<1> DEFINE v == Appended(j, Row(c, s, n))
           stops == s = "safety_breach" \/ (c = Preflight /\ s # "pass")
<1>3. /\ HealthTyped /\ holder = p /\ proc[p] \in Sitters
      /\ proc[p].run \in Runs /\ proc[p].run <= started.runs /\ started.runs \in Nat
      /\ plan \in Plans /\ DOMAIN plan = 1..Len(plan) /\ Len(plan) \in Nat
      /\ ProcKept(p) /\ RunKept(proc[p].run)
      /\ j \in Seq(Entries) /\ Readable(j) /\ Decided(j) \subseteq Range(plan)
      /\ disk[proc[p].run].plan = plan
  BY <1>1, AtItsRun
<1>4. /\ proc[p].done \subseteq Decided(j) /\ proc[p].at \in 1..Len(plan) /\ Sound(j)
      /\ \A i \in 1..proc[p].at : i = proc[p].at \/ plan[i] \in Decided(j)
      /\ proc[p].at = 1 \/ Covered(j, n, Len(j) + 1)
      /\ n \in Nat
  BY <1>1, <1>3 DEF ProcKept, Sitters
<1>5. c \in Cases /\ c \in Range(plan) /\ (c # Preflight => proc[p].at # 1)
  BY <1>3, <1>4 DEF Plans, Range
<1>6. /\ v \in Seq(Entries) /\ Readable(v)
      /\ Len(v) = Len(j) + 1 /\ v[Len(v)] = Row(c, s, n)
      /\ OutcomeRows(v) = OutcomeRows(j) \cup {Len(v)}
      /\ \A k \in OutcomeRows(j) : v[k] = j[k]
      /\ Decided(v) = Decided(j) \cup {c}
      /\ \A m, k : Covered(j, m, k) => Covered(v, m, k)
  <2> HIDE DEF c, j, n
  <2> QED BY <1>2, <1>3, <1>4, <1>5, RowReads
<1> HIDE DEF v
<1>7. \A k \in OutcomeRows(v) : v[k].case # Preflight => Covered(v, v[k].sitting, k)
  <2> SUFFICES ASSUME NEW k \in OutcomeRows(v), v[k].case # Preflight PROVE Covered(v, v[k].sitting, k)
    OBVIOUS
  <2>1. CASE k \in OutcomeRows(j)
    BY <2>1, <1>3, <1>6 DEF RunKept
  <2>2. CASE k = Len(v)
    <3>1. v[k].case = c /\ v[k].sitting = n
      BY <2>2, <1>6 DEF Row
    <3>2. Covered(j, n, Len(j) + 1)
      BY <3>1, <1>4, <1>5
    <3> QED BY <3>1, <3>2, <2>2, <1>6
  <2> QED BY <2>1, <2>2, <1>6
<1>8. ~stops => Covered(v, n, Len(v) + 1)
  <2> SUFFICES ASSUME ~stops PROVE Covered(v, n, Len(v) + 1)
    OBVIOUS
  <2>1. Len(v) \in Nat /\ OutcomeRows(v) \subseteq 1..Len(v) /\ Len(v) < Len(v) + 1
    <3>1. v \in Seq(Entries)
      BY <1>6
    <3> QED BY <3>1 DEF OutcomeRows
  <2>2. CASE c = Preflight
    <3>1. v[Len(v)].case = Preflight /\ v[Len(v)].status = "pass" /\ v[Len(v)].sitting = n
      BY <2>2, <1>6 DEF Row
    <3> QED BY <3>1, <2>1, <1>6 DEF Covered
  <2>3. CASE c # Preflight
    <3>1. Covered(j, n, Len(j) + 1)
      BY <2>3, <1>4, <1>5
    <3>2. Covered(v, n, Len(v))
      BY <3>1, <1>6
    <3>3. \A k \in OutcomeRows(v) : k < Len(v) => k < Len(v) + 1
      BY <2>1
    <3> QED BY <3>2, <3>3 DEF Covered
  <2> QED BY <2>2, <2>3
<1>9. /\ disk' \in [Runs -> Dirs(Summaries')]
      /\ disk'[proc[p].run].journal = v /\ disk'[proc[p].run].status = "running"
      /\ disk'[proc[p].run].plan = plan
      /\ \A r \in Runs : RunKept(r)'
      /\ \A q \in Procs \ {p} : proc[q].pc = "resume" =>
             disk'[proc[q].run].status = "none" \/ disk'[proc[q].run].plan = proc[q].meta.plan
  <2>1. Write(proc[p].run, "journal", v)
    BY <1>2 DEF v
  <2>2. Decided(v) \subseteq Range(plan)
    BY <1>3, <1>5, <1>6
  <2> QED BY <2>1, <2>2, <1>1, <1>6, <1>7, JournalStep
<1>10. PICK rec \in Sitters :
          /\ Become(p, rec) /\ rec.run = proc[p].run /\ rec.meta = proc[p].meta
          /\ \/ rec.pc = "summing" /\ rec.incomplete = TRUE
             \/ /\ rec.pc = "next" /\ rec.at = proc[p].at /\ rec.done = proc[p].done
                /\ rec.sitting = proc[p].sitting /\ ~stops
  <2>1. CASE stops
    <3> DEFINE rec == [proc[p] EXCEPT !.pc = "summing", !.incomplete = TRUE]
    <3>1. Become(p, rec)
      BY <1>2, <2>1 DEF Stop
    <3>2. /\ rec \in Sitters /\ rec.pc = "summing" /\ rec.run = proc[p].run /\ rec.meta = proc[p].meta
          /\ rec.incomplete = TRUE
      BY <1>3 DEF Sitters, Working, Open
    <3> HIDE DEF rec
    <3> QED BY <3>1, <3>2
  <2>2. CASE ~stops
    <3> DEFINE rec == [proc[p] EXCEPT !.pc = "next"]
    <3>1. Become(p, rec)
      BY <1>2, <2>2
    <3>2. /\ rec \in Sitters /\ rec.pc = "next" /\ rec.run = proc[p].run /\ rec.meta = proc[p].meta
          /\ rec.at = proc[p].at /\ rec.done = proc[p].done /\ rec.sitting = proc[p].sitting
      BY <1>3 DEF Sitters, Working, Open
    <3> HIDE DEF rec
    <3> QED BY <3>1, <3>2, <2>2
  <2> QED BY <2>1, <2>2
<1>11. /\ proc' \in [Procs -> Sitters] /\ proc'[p] = rec /\ \A q \in Procs \ {p} : proc'[q] = proc[q]
  BY <1>3, <1>10, BecomesOnly
<1>12. HealthTyped'
  BY <1>1, <1>3, <1>9, <1>11 DEF HealthTyped
<1>13. ProcKept(p)'
  <2>1. rec.pc = "summing" \/ rec.pc = "next"
    BY <1>10
  <2>2. CASE rec.pc = "summing"
    BY <2>2, <1>1, <1>3, <1>9, <1>10, <1>11 DEF ProcKept, Working, Open
  <2>3. CASE rec.pc = "next"
    <3>1. \A i \in 1..proc[p].at : plan[i] \in Decided(v)
      BY <1>4, <1>6
    <3>2. proc[p].at \in 0..Len(plan) /\ proc[p].done \subseteq Decided(v)
      BY <1>3, <1>4, <1>6
    <3> QED BY <3>1, <3>2, <2>3, <1>1, <1>3, <1>8, <1>9, <1>10, <1>11 DEF ProcKept, Working, Open
  <2> QED BY <2>1, <2>2, <2>3
<1>14. proc'[p].pc # "made" /\ proc'[p].pc # "resume"
  BY <1>10, <1>11
<1> QED BY <1>1, <1>3, <1>9, <1>11, <1>12, <1>13, <1>14, StepAtWork

LEMMA SummarizeInv == ASSUME HealthInv, NEW p \in Procs, Summarize(p) PROVE HealthInv'
<1> DEFINE rec == [proc[p] EXCEPT !.pc = "closing"]
           plan == proc[p].meta.plan
           said == Summary(proc[p].run, plan, proc[p].incomplete)
           dir == [disk[proc[p].run] EXCEPT !.summary = said]
           S == Summaries \cup {said}
<1>1. /\ Write(proc[p].run, "summary", said) /\ Become(p, rec) /\ UNCHANGED <<holder, identity, started>>
      /\ proc[p].pc = "summing" /\ proc[p].pc \in Open
  BY DEF Summarize, Open
<1>2. /\ HealthTyped /\ holder = p /\ proc[p] \in Sitters /\ disk[proc[p].run] \in Dirs(Summaries)
      /\ proc[p].run \in Runs /\ proc[p].run <= started.runs /\ started.runs \in Nat
      /\ plan \in Plans
      /\ disk[proc[p].run].status = "running" /\ disk[proc[p].run].plan = plan
      /\ ProcKept(p) /\ RunKept(proc[p].run) /\ disk[proc[p].run].journal \in Seq(Entries)
      /\ Readable(disk[proc[p].run].journal) /\ Decided(disk[proc[p].run].journal) \subseteq Range(plan)
  BY <1>1, AtItsRun
<1>3. Tells(said, LatestOf(proc[p].run), plan)
  <2>1. proc[p].incomplete \in BOOLEAN
    BY <1>2 DEF Sitters
  <2>2. proc[p].incomplete \/ Range(plan) \subseteq Decided(disk[proc[p].run].journal)
    BY <1>1, <1>2 DEF ProcKept
  <2> QED BY <2>1, <2>2, <1>2, SummaryTells
<1> HIDE DEF said
<1>4. /\ rec \in Sitters /\ rec.pc = "closing" /\ rec.run = proc[p].run /\ rec.meta = proc[p].meta
  BY <1>2 DEF Sitters, Working, Open
<1> HIDE DEF rec
<1>5. /\ proc' \in [Procs -> Sitters] /\ proc'[p] = rec /\ \A q \in Procs \ {p} : proc'[q] = proc[q]
  BY <1>1, <1>2, <1>4, BecomesOnly
<1>6. /\ dir \in Dirs(S) /\ dir.plan = disk[proc[p].run].plan /\ dir.status = "running"
      /\ dir.journal = disk[proc[p].run].journal /\ dir.summary = said
      /\ disk' = [disk EXCEPT ![proc[p].run] = dir]
  BY <1>1, <1>2 DEF Dirs, Write
<1> HIDE DEF dir
<1>7. /\ disk' \in [Runs -> Dirs(Summaries')] /\ disk'[proc[p].run] = dir
      /\ \A r \in Runs \ {proc[p].run} : RunKept(r)'
      /\ \A q \in Procs \ {p} : proc[q].pc = "resume" =>
             disk'[proc[q].run].status = "none" \/ disk'[proc[q].run].plan = proc[q].meta.plan
  <2>1. Summaries \subseteq S
    OBVIOUS
  <2> HIDE DEF S
  <2> QED BY <2>1, <1>1, <1>6, InPlace
<1>8. \A r \in Runs : RunKept(r)'
  <2> SUFFICES ASSUME NEW r \in Runs, r = proc[p].run PROVE RunKept(r)'
    BY <1>7
  <2> QED BY <1>1, <1>2, <1>6, <1>7 DEF RunKept, Over
<1>9. HealthTyped'
  BY <1>1, <1>2, <1>5, <1>7 DEF HealthTyped
<1>10. \A r \in Runs : r = proc[p].run => Concluded(r)'
  BY <1>2, <1>3, <1>6, <1>7 DEF Concluded, LatestOf
<1>11. ProcKept(p)'
  BY <1>1, <1>2, <1>4, <1>5, <1>6, <1>7, <1>10 DEF ProcKept, Working, Open
<1> QED BY <1>1, <1>2, <1>4, <1>5, <1>7, <1>8, <1>9, <1>11, StepAtWork

LEMMA CloseInv == ASSUME HealthInv, NEW p \in Procs, Close(p) PROVE HealthInv'
<1> DEFINE status_ == IF proc[p].incomplete THEN "incomplete" ELSE "completed"
           dir == [disk[proc[p].run] EXCEPT !.status = status_]
<1>1. /\ Write(proc[p].run, "status", status_) /\ UNCHANGED <<identity, started>>
      /\ proc[p].pc = "closing" /\ proc[p].pc \in Open
  BY DEF Close, Open
<1>2. /\ HealthTyped /\ holder = p /\ proc[p] \in Sitters /\ disk[proc[p].run] \in Dirs(Summaries)
      /\ proc[p].run \in Runs /\ proc[p].run <= started.runs /\ started.runs \in Nat
      /\ proc[p].meta.plan \in Plans
      /\ disk[proc[p].run].plan = proc[p].meta.plan /\ disk[proc[p].run].status = "running"
      /\ ProcKept(p) /\ RunKept(proc[p].run)
  BY <1>1, AtItsRun
<1>3. PICK rec \in Sitters :
          /\ Become(p, rec) /\ rec.pc \in {"idle", "pruning"} /\ holder' \in {p, Nobody}
          /\ rec.pc = "pruning" => /\ holder' = p /\ rec.run = proc[p].run /\ rec.meta = proc[p].meta
  <2>1. Idle \in Sitters /\ Idle.pc = "idle"
    BY HealthConstants DEF Idle, Sitters, Metadata, NoRun
  <2> DEFINE rec == [proc[p] EXCEPT !.pc = "pruning"]
  <2>2. rec \in Sitters /\ rec.pc = "pruning" /\ rec.run = proc[p].run /\ rec.meta = proc[p].meta
    BY <1>2 DEF Sitters, Working, Open
  <2>3. \/ Become(p, Idle) /\ holder' = Nobody
        \/ Become(p, rec) /\ holder' = p
    BY <1>2 DEF Close
  <2> HIDE DEF rec
  <2> QED BY <2>1, <2>2, <2>3
<1>4. /\ proc' \in [Procs -> Sitters] /\ proc'[p] = rec /\ \A q \in Procs \ {p} : proc'[q] = proc[q]
  BY <1>2, <1>3, BecomesOnly
<1>5. /\ dir \in Dirs(Summaries) /\ dir.plan = disk[proc[p].run].plan /\ dir.status = status_
      /\ dir.journal = disk[proc[p].run].journal /\ dir.summary = disk[proc[p].run].summary
      /\ disk' = [disk EXCEPT ![proc[p].run] = dir] /\ status_ # "none"
  BY <1>1, <1>2 DEF Dirs, Write
<1> HIDE DEF dir, status_
<1>6. /\ disk' \in [Runs -> Dirs(Summaries')] /\ disk'[proc[p].run] = dir
      /\ \A r \in Runs \ {proc[p].run} : RunKept(r)'
      /\ \A q \in Procs \ {p} : proc[q].pc = "resume" =>
             disk'[proc[q].run].status = "none" \/ disk'[proc[q].run].plan = proc[q].meta.plan
  BY <1>1, <1>5, InPlace
<1>7. \A r \in Runs : r = proc[p].run => Concluded(r)'
  <2>1. Concluded(proc[p].run)
    BY <1>1, <1>2 DEF ProcKept
  <2> QED BY <2>1, <1>2, <1>5, <1>6 DEF Concluded, LatestOf
<1>8. \A r \in Runs : RunKept(r)'
  <2> SUFFICES ASSUME NEW r \in Runs, r = proc[p].run PROVE RunKept(r)'
    BY <1>6
  <2> QED BY <1>1, <1>2, <1>5, <1>6, <1>7 DEF RunKept
<1>9. HealthTyped'
  BY <1>1, <1>2, <1>3, <1>4, <1>6 DEF HealthTyped
<1>10. ProcKept(p)'
  BY <1>1, <1>2, <1>3, <1>4 DEF ProcKept, Working, Open
<1> QED BY <1>1, <1>2, <1>3, <1>4, <1>6, <1>8, <1>9, <1>10, StepAtWork

LEMMA PruneInv == ASSUME HealthInv, NEW p \in Procs, Prune(p) PROVE HealthInv'
<1>1. /\ HealthTyped /\ (\A q \in Procs : ProcKept(q)) /\ (\A r \in Runs : RunKept(r))
      /\ proc[p].pc = "pruning" /\ Become(p, Idle) /\ holder' = Nobody /\ UNCHANGED <<identity, started>>
      /\ \A r \in Runs : disk'[r] = IF r \in Expired THEN Unwritten ELSE disk[r]
      /\ disk' = [r \in Runs |-> IF r \in Expired THEN Unwritten ELSE disk[r]]
  BY DEF HealthInv, Prune
<1>2. holder = p /\ started.runs \in Nat
  BY <1>1, HealthConstants DEF ProcKept, Working, HealthTyped
<1>3. Idle \in Sitters /\ Idle.pc = "idle"
  BY HealthConstants DEF Idle, Sitters, Metadata, NoRun
<1>4. /\ proc' \in [Procs -> Sitters] /\ proc'[p] = Idle /\ \A q \in Procs \ {p} : proc'[q] = proc[q]
  BY <1>1, <1>3, BecomesOnly
<1>5. Unwritten \in Dirs({<<>>}) /\ Unwritten.status = "none" /\ Unwritten.journal = <<>>
  BY DEF Unwritten, Dirs, NoRun
<1>6. disk' \in [Runs -> Dirs(Summaries')]
  <2>1. \A r \in Runs : disk'[r] \in Dirs(Summaries \cup {<<>>})
    BY <1>1, <1>5 DEF HealthTyped, Dirs
  <2>2. \A r \in Runs : disk'[r].summary \in Summaries'
    BY DEF Summaries
  <2>3. \A r \in Runs : disk'[r] \in Dirs(Summaries')
    BY <2>1, <2>2 DEF Dirs
  <2> HIDE DEF Expired
  <2> QED BY <2>3, <1>1
<1>7. \A r \in Runs : RunKept(r)'
  <2> TAKE r \in Runs
  <2>1. CASE disk'[r] = disk[r]
    BY <2>1, <1>1, <1>2, RunStays
  <2>2. CASE disk'[r] = Unwritten
    <3>1. OutcomeRows(<<>>) = {}
      BY DEF OutcomeRows
    <3> QED BY <2>2, <3>1, <1>5 DEF RunKept, Readable, Decided, Over
  <2> QED BY <2>1, <2>2, <1>1
<1>8. HealthTyped'
  BY <1>1, <1>4, <1>6 DEF HealthTyped
<1>9. ProcKept(p)'
  BY <1>3, <1>4 DEF ProcKept, Working, Open
<1>10. \A q \in Procs \ {p} : proc[q].pc = "resume" =>
             disk'[proc[q].run].status = "none" \/ disk'[proc[q].run].plan = proc[q].meta.plan
  BY <1>1, <1>5 DEF ProcKept
<1> QED BY <1>1, <1>2, <1>3, <1>4, <1>7, <1>8, <1>9, <1>10, StepAtWork

LEMMA CrashInv == ASSUME HealthInv, NEW p \in Procs, Crash(p) PROVE HealthInv'
<1> DEFINE j == disk[proc[p].run].journal
           v == Appended(j, Torn)
<1>1. /\ HealthTyped /\ (\A q \in Procs : ProcKept(q)) /\ (\A r \in Runs : RunKept(r))
      /\ holder = p /\ Become(p, Idle) /\ holder' = Nobody /\ UNCHANGED <<identity, started>>
  BY DEF HealthInv, Crash
<1>2. started.runs \in Nat
  BY <1>1, HealthConstants DEF HealthTyped
<1>3. Idle \in Sitters /\ Idle.pc = "idle"
  BY HealthConstants DEF Idle, Sitters, Metadata, NoRun
<1>4. /\ proc' \in [Procs -> Sitters] /\ proc'[p] = Idle /\ \A q \in Procs \ {p} : proc'[q] = proc[q]
  BY <1>1, <1>3, BecomesOnly
<1>5. /\ disk' \in [Runs -> Dirs(Summaries')]
      /\ \A r \in Runs : RunKept(r)'
      /\ \A q \in Procs \ {p} : proc[q].pc = "resume" =>
             disk'[proc[q].run].status = "none" \/ disk'[proc[q].run].plan = proc[q].meta.plan
  <2>1. CASE UNCHANGED disk
    <3>1. disk' \in [Runs -> Dirs(Summaries')]
      BY <2>1, <1>1 DEF HealthTyped, Summaries
    <3>2. \A r \in Runs : RunKept(r)'
      BY <2>1, <1>1, <1>2, RunStays
    <3> QED BY <3>1, <3>2, <2>1, <1>1 DEF ProcKept
  <2>2. CASE proc[p].pc \in {"planned", "next"} /\ Write(proc[p].run, "journal", v)
    <3>1. proc[p].pc \in Open
      BY <2>2 DEF Open
    <3>2. /\ RunKept(proc[p].run) /\ j \in Seq(Entries) /\ Readable(j)
          /\ Decided(j) \subseteq Range(proc[p].meta.plan)
      BY <3>1, AtItsRun
    <3>3. v \in Seq(Entries) /\ Readable(v) /\ SameOutcomes(j, v)
      BY <3>2, AppendedReads
    <3> HIDE DEF v
    <3>4. /\ Decided(v) = Decided(j)
          /\ \A n, i : Covered(j, n, i) <=> Covered(v, n, i)
      BY <3>2, <3>3, SameIsRead
    <3>5. \A i \in OutcomeRows(v) : v[i].case # Preflight => Covered(v, v[i].sitting, i)
      <4>1. \A i \in OutcomeRows(j) : j[i].case # Preflight => Covered(j, j[i].sitting, i)
        BY <3>2 DEF RunKept
      <4> QED BY <4>1, <3>3, <3>4 DEF SameOutcomes
    <3> QED BY <2>2, <3>1, <3>2, <3>3, <3>4, <3>5, <1>1, JournalStep
  <2> QED BY <2>1, <2>2 DEF Crash
<1>6. HealthTyped'
  BY <1>1, <1>4, <1>5 DEF HealthTyped
<1>7. ProcKept(p)'
  BY <1>3, <1>4 DEF ProcKept, Working, Open
<1> QED BY <1>1, <1>2, <1>3, <1>4, <1>5, <1>6, <1>7, StepAtWork

LEMMA HealthNextInv == HealthInv /\ [HealthNext]_healthVars => HealthInv'
<1> SUFFICES ASSUME HealthInv, [HealthNext]_healthVars PROVE HealthInv'
  OBVIOUS
<1>1. CASE UNCHANGED <<holder, disk, started, proc>> /\ identity' \in DOMAIN Corpus
  <2>1. HealthTyped' /\ PlansAgree'
    BY <1>1 DEF HealthInv, HealthTyped, PlansAgree, Summaries
  <2>2. \A r \in Runs : RunKept(r)'
    BY <1>1 DEF HealthInv, RunKept, Over, Concluded, LatestOf
  <2>3. \A p \in Procs : ProcKept(p)'
    BY <1>1 DEF HealthInv, ProcKept, Concluded, LatestOf
  <2> QED BY <2>1, <2>2, <2>3 DEF HealthInv
<1>2. CASE UNCHANGED healthVars
  BY <1>1, <1>2 DEF healthVars, HealthInv, HealthTyped
<1>3. CASE IdentityChanges
  <2>1. identity' \in DOMAIN Corpus
    BY <1>3, HealthConstants DEF IdentityChanges, HealthInv, HealthTyped
  <2> QED BY <2>1, <1>1, <1>3 DEF IdentityChanges
<1>4. ASSUME NEW p \in Procs, Deadline(p) \/ LoopEnds(p) PROVE HealthInv'
  BY <1>4, StopsInv DEF Deadline, LoopEnds
<1>5. ASSUME NEW p \in Procs,
             \/ \E r \in Runs, want \in {"resume", "rerun"} : Load(p, r, want)
             \/ Begin(p) \/ Record(p) \/ Snapshot(p) \/ Resume(p) \/ Refused(p)
             \/ PlanCase(p) \/ RunCase(p) \/ Summarize(p) \/ Close(p) \/ Prune(p) \/ Crash(p)
      PROVE  HealthInv'
  BY <1>5, LoadInv, BeginInv, RecordInv, SnapshotInv, ResumeInv, RefusedInv, PlanCaseInv, RunCaseInv,
     SummarizeInv, CloseInv, PruneInv, CrashInv
<1> QED BY <1>2, <1>3, <1>4, <1>5 DEF HealthNext

\* A run that is over says of its whole plan what its journal holds, no live case was decided by a
\* process whose own preflight had not passed, and nothing is called recovered that did not pass: for
\* any number of processes, runs, interruptions and changes of the corpus (synthetic_health.py,
\* _run_cases, _finalize_run, build_summary).
THEOREM RunsAreConcluded == HealthSpec => []RunsConclude
<1>1. HealthInv => RunsConclude
  <2> SUFFICES ASSUME HealthInv PROVE RunsConclude
    OBVIOUS
  <2>1. \A r \in Runs : RunKept(r)
    BY DEF HealthInv
  <2>2. ConclusionsAreWhole /\ RecoveryIsObserved
    BY <2>1 DEF ConclusionsAreWhole, RecoveryIsObserved, RunKept, Over, Concluded, Tells
  <2>3. PreflightCoversEachSitting
    <3> SUFFICES ASSUME NEW r \in Runs, NEW k \in OutcomeRows(disk[r].journal),
                        disk[r].journal[k].case # Preflight
                 PROVE  \E j \in 1..(k - 1) : /\ disk[r].journal[j].event = "outcome"
                                              /\ disk[r].journal[j].case = Preflight
                                              /\ disk[r].journal[j].status = "pass"
                                              /\ disk[r].journal[j].sitting = disk[r].journal[k].sitting
      BY DEF PreflightCoversEachSitting
    <3>1. Covered(disk[r].journal, disk[r].journal[k].sitting, k)
      BY <2>1 DEF RunKept
    <3>2. disk[r].journal \in Seq(Entries)
      BY DEF HealthInv, HealthTyped, Dirs
    <3>3. OutcomeRows(disk[r].journal) \subseteq Nat /\ \A j \in OutcomeRows(disk[r].journal) : j >= 1
      BY <3>2 DEF OutcomeRows
    <3>4. \A j \in OutcomeRows(disk[r].journal) : j < k => j \in 1..(k - 1)
      BY <3>3
    <3> QED BY <3>1, <3>4 DEF Covered, OutcomeRows
  <2> QED BY <2>2, <2>3 DEF RunsConclude
<1> QED BY HealthInitInv, HealthNextInv, <1>1, PTL DEF HealthSpec

------------------------------------------------------------------------------
(* The evidence of a health run.                                           *)

LiveCases == DOMAIN Target
Asking == {"sent", "waiting"}
Exchanges == [stage : {"none", "ready"} \cup Asking, id : Nat, before : SUBSET Nat]
Handled == [case : LiveCases, stage : {"sent", "active", "inactive", "routing", "done"}, name : LiveCases \cup {NoName}]
Views == [initial : Nat, active : Nat, chain : Seq(Nat \X Nat)]

EvidenceTyped ==
    /\ session \in [n : Nat, held : BOOLEAN] /\ published \in Nat /\ view \in Views
    /\ at \in 0..Len(Plan) /\ client \in Exchanges /\ requests \in Seq(Handled) /\ writes \subseteq Nat

\* An exchange is of the case in hand, and belongs to a session.
ExchangeIsHere ==
    /\ ~session.held => client.stage = "none"
    /\ client.stage # "none" => at < Len(Plan)
    /\ client.stage \in Asking => client.id \in DOMAIN requests /\ requests[client.id].case = Here

\* A request bears the name of its case or none, and leaves its row when it is done.
RowsAreTrue ==
    /\ \A i \in DOMAIN requests : requests[i].name \in {NoName, requests[i].case}
    /\ \A r \in log : /\ r.id \in DOMAIN requests /\ requests[r.id].stage = "done"
                      /\ r.name \in {NoName, requests[r.id].case}

\* In its first session the service is at work on the request in hand and on no other.
Current(i) == client.stage \in Asking /\ i = client.id
FirstSession ==
    session.n <= 1 =>
        /\ ~verdict.charged
        /\ session.n = 0 => requests = <<>> /\ ~session.held
        /\ session.held =>
              \A i \in DOMAIN requests :
                 Current(i) \/ (requests[i].stage = "done" /\ \E k \in 1..at : requests[i].case = Plan[k])
        /\ client.stage \in Asking => writes \ client.before \subseteq {client.id}

EvidenceInv ==
    EvidenceTyped /\ ExchangeIsHere /\ RowsAreTrue /\ FirstSession /\ TransitionsLink

LEMMA EvidenceBegins == EvidenceInit => EvidenceInv
<1> SUFFICES ASSUME EvidenceInit PROVE EvidenceInv
  OBVIOUS
<1> USE DEF EvidenceInit
<1>1. EvidenceTyped
  BY HealthPlan DEF EvidenceTyped, Views, Exchanges, NoExchange, Handled
<1>2. ExchangeIsHere /\ RowsAreTrue /\ FirstSession
  BY DEF ExchangeIsHere, RowsAreTrue, FirstSession, NoExchange, Asking, NoVerdict
<1>3. TransitionsLink
  BY DEF TransitionsLink
<1> QED BY <1>1, <1>2, <1>3 DEF EvidenceInv

\* A transition is linked to the catalog held.
LEMMA LinkGrows ==
  ASSUME EvidenceTyped, TransitionsLink, view' = Refreshed(view)
  PROVE  view' \in Views /\ TransitionsLink'
<1>1. view \in Views /\ published \in Nat
  BY DEF EvidenceTyped
<1>2. CASE Catalogs[published] = Catalogs[view.active]
  <2>1. view' = view
    BY <1>2 DEF Refreshed
  <2> QED BY <1>1, <2>1 DEF TransitionsLink
<1>3. CASE Catalogs[published] # Catalogs[view.active]
  <2> DEFINE c == view.chain
             e == <<view.active, published>>
             d == Append(c, e)
  <2>1. view' = [view EXCEPT !.chain = d, !.active = published]
    BY <1>3 DEF Refreshed
  <2>2. c \in Seq(Nat \X Nat) /\ e \in Nat \X Nat /\ view.initial \in Nat
    BY <1>1 DEF Views
  <2>3. view'.chain = d /\ view'.active = published /\ view'.initial = view.initial /\ view' \in Views
    <3>1. d \in Seq(Nat \X Nat)
      BY <2>2
    <3> HIDE DEF d
    <3> QED BY <1>1, <2>1, <3>1 DEF Views
  <2>4. /\ DOMAIN d = 1..Len(c) + 1 /\ d[Len(c) + 1] = e /\ \A k \in 1..Len(c) : d[k] = c[k]
        /\ DOMAIN c = 1..Len(c) /\ Len(c) \in Nat /\ Len(d) = Len(c) + 1
    BY <2>2
  <2>5. /\ \A k \in 1..Len(c) : c[k][1] = IF k = 1 THEN view.initial ELSE c[k - 1][2]
        /\ view.active = IF Len(c) = 0 THEN view.initial ELSE c[Len(c)][2]
    <3>1. TransitionsLink
      OBVIOUS
    <3>2. c = <<>> <=> Len(c) = 0
      BY <2>2
    <3>3. /\ \A k \in DOMAIN c : c[k][1] = IF k = 1 THEN view.initial ELSE c[k - 1][2]
          /\ view.active = IF c = <<>> THEN view.initial ELSE Last(c)[2]
      BY <3>1 DEF TransitionsLink
    <3> HIDE DEF c
    <3> QED BY <3>2, <3>3, <2>4 DEF Last
  <2>6. e[1] = view.active /\ e[2] = published
    OBVIOUS
  <2> HIDE DEF c, d, e
  <2>7. ASSUME NEW k \in 1..Len(c) + 1 PROVE d[k][1] = IF k = 1 THEN view.initial ELSE d[k - 1][2]
    <3>1. CASE k = Len(c) + 1
      BY <3>1, <2>4, <2>5, <2>6
    <3>2. CASE k # Len(c) + 1
      <4>1. k \in 1..Len(c) /\ (k # 1 => k - 1 \in 1..Len(c))
        BY <3>2, <2>4
      <4> QED BY <4>1, <2>4, <2>5
    <3> QED BY <3>1, <3>2
  <2>8. Last(d) = e /\ d # <<>>
    BY <2>4 DEF Last
  <2> QED BY <2>3, <2>4, <2>6, <2>7, <2>8 DEF TransitionsLink
<1> QED BY <1>2, <1>3

LEMMA LinkStays ==
  ASSUME TransitionsLink, view' = view
  PROVE  TransitionsLink'
BY DEF TransitionsLink
------------------------------------------------------------------------------

LEMMA SessionsKeep ==
  ASSUME EvidenceInv, \/ StartSession
                     \/ EndSession
                     \/ Publish
                     \/ UNCHANGED evidenceVars
  PROVE  EvidenceInv'
<1> USE DEF EvidenceInv
<1>0. /\ session \in [n : Nat, held : BOOLEAN] /\ client \in Exchanges /\ published \in Nat /\ at \in 0..Len(Plan)
      /\ NoExchange \in Exchanges /\ NoExchange.stage = "none" /\ "none" \notin Asking
  BY DEF EvidenceTyped, NoExchange, Exchanges, Asking
<1>1. CASE StartSession
  <2>1. /\ ~session.held /\ session' = [n |-> session.n + 1, held |-> TRUE]
        /\ at' = 0 \/ at' = at
        /\ view' = [initial |-> published, active |-> published, chain |-> <<>>]
        /\ UNCHANGED <<published, client, requests, log, writes, gate, verdict>>
    BY <1>1 DEF StartSession
  <2>2. view' \in Views
    BY <2>1, <1>0 DEF Views
  <2>3. at' \in 0..Len(Plan)
    BY <2>1, <1>0, HealthPlan
  <2>4. EvidenceTyped'
    BY <2>1, <2>2, <2>3, <1>0 DEF EvidenceTyped
  <2>5. TransitionsLink'
    BY <2>1 DEF TransitionsLink
  <2>6. ExchangeIsHere'
    BY <2>1, <1>0 DEF ExchangeIsHere, Here
  <2>7. RowsAreTrue'
    BY <2>1 DEF RowsAreTrue
  <2>8. FirstSession'
    <3> SUFFICES ASSUME session'.n <= 1 PROVE FirstSession'
      BY DEF FirstSession
    <3>1. session'.n = 1 /\ session.n = 0
      BY <2>1, <1>0
    <3>2. requests' = <<>> /\ ~verdict'.charged
      BY <2>1, <3>1 DEF FirstSession
    <3>3. client'.stage \notin Asking
      BY <2>1, <1>0 DEF ExchangeIsHere
    <3> QED BY <3>1, <3>2, <3>3 DEF FirstSession
  <2> QED BY <2>4, <2>5, <2>6, <2>7, <2>8
<1>2. CASE EndSession
  <2>1. /\ session.held /\ session' = [session EXCEPT !.held = FALSE] /\ client' = NoExchange
        /\ UNCHANGED <<published, view, at, outcomes, requests, log, writes, gate, verdict>>
    BY <1>2 DEF EndSession
  <2>2. session'.n = session.n /\ session'.held = FALSE /\ session' \in [n : Nat, held : BOOLEAN]
    BY <2>1, <1>0
  <2>3. EvidenceTyped' /\ ExchangeIsHere' /\ RowsAreTrue' /\ TransitionsLink'
    BY <2>1, <2>2, <1>0, LinkStays DEF EvidenceTyped, ExchangeIsHere, RowsAreTrue
  <2>4. FirstSession'
    BY <2>1, <2>2, <1>0 DEF FirstSession
  <2> QED BY <2>3, <2>4
<1>3. CASE Publish
  <2>1. published' = published + 1 /\ UNCHANGED <<session, view, at, outcomes, client, requests, log, writes, gate, verdict>>
    BY <1>3 DEF Publish
  <2> QED BY <2>1, <1>0, LinkStays DEF EvidenceTyped, ExchangeIsHere, RowsAreTrue, FirstSession, Here, Current
<1>4. CASE UNCHANGED evidenceVars
  BY <1>4, LinkStays DEF evidenceVars, EvidenceTyped, ExchangeIsHere, RowsAreTrue, FirstSession, Here, Current
<1> QED BY <1>1, <1>2, <1>3, <1>4

\* The case in hand is decided: nothing of it is still under way.
LEMMA DecisionKeeps ==
  ASSUME EvidenceInv, NEW word, Decide(Here, word), session.held, at < Len(Plan),
         view' \in Views, TransitionsLink', UNCHANGED <<session, published, requests, log, writes>>,
         session.n <= 1 => /\ ~verdict'.charged
                           /\ \A i \in DOMAIN requests : Current(i) => requests[i].stage = "done"
  PROVE  EvidenceInv'
<1> USE DEF EvidenceInv
<1>1. /\ at' = at + 1 /\ client' = NoExchange /\ NoExchange \in Exchanges /\ NoExchange.stage = "none"
      /\ "none" \notin Asking /\ session' = session /\ requests' = requests
  BY DEF Decide, NoExchange, Exchanges, Asking
<1>2. at \in Nat /\ at' \in 0..Len(Plan)
  BY <1>1, HealthPlan DEF EvidenceTyped
<1>3. EvidenceTyped' /\ ExchangeIsHere' /\ RowsAreTrue'
  BY <1>1, <1>2 DEF EvidenceTyped, ExchangeIsHere, RowsAreTrue
<1>4. FirstSession'
  <2> SUFFICES ASSUME session.n <= 1 PROVE FirstSession'
    BY <1>1 DEF FirstSession
  <2>1. ASSUME NEW i \in DOMAIN requests
        PROVE  requests[i].stage = "done" /\ \E k \in 1..(at + 1) : requests[i].case = Plan[k]
    <3>1. CASE Current(i)
      <4>1. requests[i].case = Plan[at + 1]
        BY <3>1 DEF Current, ExchangeIsHere, Here
      <4> QED BY <3>1, <4>1, <1>2
    <3>2. CASE ~Current(i)
      BY <3>2, <1>2 DEF FirstSession
    <3> QED BY <3>1, <3>2
  <2> QED BY <2>1, <1>1 DEF FirstSession
<1> QED BY <1>3, <1>4

LEMMA LookKeeps ==
  ASSUME EvidenceInv, Look
  PROVE  EvidenceInv'
<1> USE DEF EvidenceInv
<1>1. /\ session.held /\ at < Len(Plan) /\ client.stage = "none" /\ view' = Refreshed(view)
      /\ UNCHANGED <<session, published, requests, log, writes, gate>>
  BY DEF Look
<1>2. view' \in Views /\ TransitionsLink'
  BY <1>1, LinkGrows
<1>3. CASE Decide(Here, "skipped") /\ verdict' = NoVerdict
  <2>1. ~verdict'.charged /\ \A i : ~Current(i)
    BY <1>1, <1>3 DEF NoVerdict, Current, Asking
  <2> QED BY <1>1, <1>2, <1>3, <2>1, DecisionKeeps
<1>4. CASE client' = [client EXCEPT !.stage = "ready"] /\ UNCHANGED <<at, outcomes, verdict>>
  <2>1. client' \in Exchanges /\ client'.stage = "ready" /\ "ready" \notin Asking /\ "none" \notin Asking
    BY <1>4 DEF EvidenceTyped, Exchanges, Asking
  <2>2. EvidenceTyped' /\ ExchangeIsHere' /\ RowsAreTrue'
    BY <1>1, <1>2, <1>4, <2>1 DEF EvidenceTyped, ExchangeIsHere, RowsAreTrue
  <2>3. FirstSession'
    BY <1>1, <1>4, <2>1 DEF FirstSession, Current
  <2> QED BY <1>2, <2>2, <2>3
<1> QED BY <1>3, <1>4 DEF Look

LEMMA SendingKeeps ==
  ASSUME EvidenceInv, Send
  PROVE  EvidenceInv'
<1> USE DEF EvidenceInv
<1> DEFINE n == Len(requests) + 1
           new == [case |-> Here, stage |-> "sent", name |-> NoName]
<1>1. /\ client.stage = "ready" /\ client' = [stage |-> "sent", id |-> n, before |-> writes]
      /\ requests' = Append(requests, new)
      /\ UNCHANGED <<session, published, view, at, outcomes, log, writes, gate, verdict>>
  BY DEF Send
<1>2. at < Len(Plan) /\ session.held /\ at \in 0..Len(Plan) /\ Plan \in Seq(LiveCases)
  BY <1>1, HealthPlan DEF ExchangeIsHere, EvidenceTyped, LiveCases
<1>3. Here \in LiveCases
  BY <1>2 DEF Here
<1>4. new \in Handled /\ new.case = Here /\ new.name = NoName
  BY <1>3 DEF Handled
<1>5. /\ requests \in Seq(Handled) /\ requests' \in Seq(Handled) /\ n \in Nat
      /\ n \in DOMAIN requests' /\ requests'[n] = new /\ n \notin DOMAIN requests
      /\ DOMAIN requests' = DOMAIN requests \cup {n}
      /\ \A i \in DOMAIN requests : requests'[i] = requests[i]
  <2>1. requests \in Seq(Handled)
    BY DEF EvidenceTyped
  <2> HIDE DEF new
  <2> QED BY <1>1, <1>4, <2>1
<1> HIDE DEF n, new
<1>6. /\ client' \in Exchanges /\ client'.stage = "sent" /\ client'.id = n /\ client'.before = writes
      /\ "ready" \notin Asking /\ "sent" \in Asking
  BY <1>1, <1>5 DEF EvidenceTyped, Exchanges, Asking
<1>7. EvidenceTyped' /\ ExchangeIsHere'
  BY <1>1, <1>2, <1>4, <1>5, <1>6 DEF EvidenceTyped, ExchangeIsHere, Here
<1>8. RowsAreTrue'
  BY <1>1, <1>4, <1>5 DEF RowsAreTrue
<1>9. FirstSession'
  <2> SUFFICES ASSUME session.n <= 1 PROVE FirstSession'
    BY <1>1 DEF FirstSession
  <2>1. \A i \in DOMAIN requests : requests[i].stage = "done" /\ \E k \in 1..at : requests[i].case = Plan[k]
    BY <1>1, <1>2, <1>6 DEF FirstSession, Current
  <2>2. session'.n # 0 /\ ~verdict'.charged
    BY <1>1, <1>2 DEF FirstSession
  <2> QED BY <2>1, <2>2, <1>1, <1>5, <1>6 DEF FirstSession, Current
<1> QED BY <1>1, <1>7, <1>8, <1>9, LinkStays

\* The service handles a request: it stays the request it was.
LEMMA HandlingKeeps ==
  ASSUME EvidenceInv, NEW i \in DOMAIN requests, requests[i].stage # "done", NEW h \in Handled, h.case = requests[i].case,
         h.name \in {NoName, h.case}, requests' = [requests EXCEPT ![i] = h],
         UNCHANGED <<session, published, view, at, outcomes, client, verdict>>,
         writes' \subseteq writes \cup {i},
         log' = log \/ (h.stage = "done" /\ \E r : log' = log \cup {r} /\ r.id = i /\ r.name = h.name)
  PROVE  EvidenceInv'
<1> USE DEF EvidenceInv
<1>1. /\ requests \in Seq(Handled) /\ requests' \in Seq(Handled) /\ DOMAIN requests' = DOMAIN requests
      /\ requests'[i] = h /\ \A j \in DOMAIN requests : j # i => requests'[j] = requests[j]
      /\ i \in Nat
  BY DEF EvidenceTyped
<1>2. \A j \in DOMAIN requests : requests'[j].case = requests[j].case
  BY <1>1
<1>3. EvidenceTyped'
  BY <1>1 DEF EvidenceTyped
<1>4. ExchangeIsHere'
  BY <1>1, <1>2 DEF ExchangeIsHere, Here
<1>5. RowsAreTrue'
  BY <1>1, <1>2 DEF RowsAreTrue
<1>6. FirstSession'
  <2> SUFFICES ASSUME session.n <= 1 PROVE FirstSession'
    BY DEF FirstSession
  <2>0. session.n # 0
    BY <1>1 DEF FirstSession
  <2>1. session.held => Current(i)
    BY DEF FirstSession
  <2>2. session.held => \A j \in DOMAIN requests :
           Current(j) \/ (requests'[j].stage = "done" /\ \E k \in 1..at : requests'[j].case = Plan[k])
    BY <1>1, <2>1 DEF FirstSession
  <2>3. client.stage \in Asking => session.held /\ i = client.id
    BY <2>1 DEF ExchangeIsHere, Current, Asking
  <2>4. client.stage \in Asking => writes' \ client.before \subseteq {client.id}
    BY <2>3 DEF FirstSession
  <2> QED BY <2>0, <2>2, <2>4, <1>1 DEF FirstSession, Current
<1> QED BY <1>3, <1>4, <1>5, <1>6, LinkStays

LEMMA ServiceKeeps ==
  ASSUME EvidenceInv, NEW i \in DOMAIN requests, \/ Probe(i)
                                                \/ Admit(i)
                                                \/ Finish(i)
  PROVE  EvidenceInv'
<1> DEFINE q == requests[i]
<1>0. q \in Handled /\ q.name \in {NoName, q.case} /\ NoName \notin LiveCases
  BY HealthPlan DEF EvidenceInv, EvidenceTyped, RowsAreTrue, LiveCases, NoName
<1>1. CASE Probe(i)
  <2>1. PICK s \in {"active", "inactive"} : requests' = [requests EXCEPT ![i].stage = s]
    BY <1>1 DEF Probe
  <2> DEFINE h == [q EXCEPT !.stage = s]
  <2>2. h \in Handled /\ h.case = q.case /\ h.name = q.name
    BY <1>0 DEF Handled
  <2>3. requests' = [requests EXCEPT ![i] = h]
    BY <2>1
  <2>4. /\ q.stage = "sent" /\ log' = log /\ writes' = writes
        /\ UNCHANGED <<session, published, view, at, outcomes, client, verdict>>
    BY <1>1 DEF Probe
  <2> HIDE DEF h
  <2> QED BY <1>0, <2>2, <2>3, <2>4, HandlingKeeps
<1>2. CASE Admit(i)
  <2>1. PICK nm \in {NoName, q.case} : requests' = [requests EXCEPT ![i].stage = "routing", ![i].name = nm]
    BY <1>2 DEF Admit
  <2> DEFINE h == [q EXCEPT !.stage = "routing", !.name = nm]
  <2>2. h \in Handled /\ h.case = q.case /\ h.name = nm
    BY <1>0 DEF Handled
  <2>3. requests' = [requests EXCEPT ![i] = h]
    BY <2>1
  <2>4. /\ q.stage \in {"active", "inactive"} /\ log' = log /\ writes' = writes
        /\ UNCHANGED <<session, published, view, at, outcomes, client, verdict>>
    BY <1>2 DEF Admit
  <2> HIDE DEF h
  <2> QED BY <1>0, <2>2, <2>3, <2>4, HandlingKeeps
<1>3. CASE Finish(i)
  <2> DEFINE h == [q EXCEPT !.stage = "done"]
  <2>1. PICK models, ok : /\ log' = log \cup {[id |-> i, name |-> q.name, models |-> models, ok |-> ok]}
                          /\ writes' \subseteq writes \cup {i}
                          /\ requests' = [requests EXCEPT ![i].stage = "done"]
    BY <1>3 DEF Finish
  <2>2. h \in Handled /\ h.case = q.case /\ h.name = q.name /\ h.stage = "done"
    BY <1>0 DEF Handled
  <2>3. requests' = [requests EXCEPT ![i] = h]
    BY <2>1
  <2>4. q.stage = "routing" /\ UNCHANGED <<session, published, view, at, outcomes, client, verdict>>
    BY <1>3 DEF Finish
  <2>5. \E r : log' = log \cup {r} /\ r.id = i /\ r.name = h.name
    <3> DEFINE r == [id |-> i, name |-> q.name, models |-> models, ok |-> ok]
    <3>1. log' = log \cup {r} /\ r.id = i /\ r.name = h.name
      BY <2>1, <2>2
    <3> HIDE DEF r
    <3> QED BY <3>1
  <2> HIDE DEF h
  <2> QED BY <1>0, <2>1, <2>2, <2>3, <2>4, <2>5, HandlingKeeps
<1> QED BY <1>1, <1>2, <1>3

LEMMA JudgingKeeps ==
  ASSUME EvidenceInv, \/ Answered
                     \/ Late
  PROVE  EvidenceInv'
<1> USE DEF EvidenceInv
<1>1. PICK rows, late, answered : Judge(rows, late, answered)
  BY DEF Answered, Late
<1> DEFINE route == Route(rows)
<1>2. /\ client.stage \in Asking /\ session.held /\ at < Len(Plan) /\ client.id \in DOMAIN requests
      /\ requests[client.id].case = Here
  BY DEF Answered, Late, ExchangeIsHere, Asking
<1>3. PICK word : Decide(Here, word)
  BY <1>1 DEF Judge
<1>4. verdict'.charged = Charged(route, late) /\ UNCHANGED <<session, published, view, requests, log, writes, gate>>
  BY <1>1 DEF Judge
<1>5. session.n <= 1 => ~Charged(route, late)
  <2>1. session.n <= 1 => (writes \ client.before) \ {client.id} = {}
    BY <1>2 DEF FirstSession
  <2> HIDE DEF route
  <2> QED BY <2>1 DEF Charged
<1>6. session.n <= 1 => requests[client.id].stage = "done"
  <2> SUFFICES ASSUME session.n <= 1, requests[client.id].stage # "done" PROVE FALSE
    OBVIOUS
  <2>1. Late /\ RowsNamed(Here) # {}
    BY DEF Answered, Late
  <2>2. PICK r \in log : r.name = Here
    BY <2>1 DEF RowsNamed
  <2>3. Here \in LiveCases /\ NoName \notin LiveCases /\ at + 1 \in DOMAIN Plan /\ at \in Nat
    BY <1>2, HealthPlan DEF Here, LiveCases, NoName, EvidenceTyped
  <2>4. r.id \in DOMAIN requests /\ requests[r.id].stage = "done" /\ requests[r.id].case = Here
    BY <2>2, <2>3 DEF RowsAreTrue
  <2>5. r.id # client.id
    BY <2>4
  <2>6. PICK k \in 1..at : requests[r.id].case = Plan[k]
    BY <2>4, <2>5, <1>2 DEF FirstSession, Current
  <2>7. Plan[k] = Plan[at + 1] /\ k \in DOMAIN Plan /\ k # at + 1
    BY <2>4, <2>6, <2>3, <1>2, HealthPlan DEF Here
  <2> QED BY <2>7, <2>3, HealthPlan DEF IsInjective
<1>7. view' \in Views /\ TransitionsLink'
  BY <1>4, LinkStays DEF EvidenceTyped
<1>8. session.n <= 1 => \A i \in DOMAIN requests : Current(i) => requests[i].stage = "done"
  BY <1>6 DEF Current
<1> HIDE DEF route
<1> QED BY <1>2, <1>3, <1>4, <1>5, <1>7, <1>8, DecisionKeeps

LEMMA GivingUpKeeps ==
  ASSUME EvidenceInv, GiveUp
  PROVE  EvidenceInv'
<1> USE DEF EvidenceInv
<1>1. /\ client.stage = "sent" /\ client' = [client EXCEPT !.stage = "waiting"]
      /\ UNCHANGED <<session, published, view, at, outcomes, requests, log, writes, gate, verdict>>
  BY DEF GiveUp
<1>2. /\ client' \in Exchanges /\ client'.stage = "waiting" /\ client'.id = client.id /\ client'.before = client.before
      /\ {"sent", "waiting"} \subseteq Asking
  BY <1>1 DEF EvidenceTyped, Exchanges, Asking
<1>3. EvidenceTyped' /\ ExchangeIsHere' /\ RowsAreTrue' /\ TransitionsLink'
  BY <1>1, <1>2, LinkStays DEF EvidenceTyped, ExchangeIsHere, RowsAreTrue, Here
<1>4. FirstSession'
  BY <1>1, <1>2 DEF FirstSession, Current
<1> QED BY <1>3, <1>4

LEMMA EvidenceSteps == EvidenceInv /\ [EvidenceNext]_evidenceVars => EvidenceInv'
<1> SUFFICES ASSUME EvidenceInv, [EvidenceNext]_evidenceVars PROVE EvidenceInv'
  OBVIOUS
<1> QED BY SessionsKeep, LookKeeps, SendingKeeps, ServiceKeeps, JudgingKeeps, GivingUpKeeps DEF EvidenceNext

\* For any plan, any catalogs and any number of sessions: the transitions a session records link, and in the
\* first session of a service no case is charged with what another's request wrote (synthetic_health.py,
\* _run_cases, state_policy_verdict).
THEOREM ChargesAreOwn == EvidenceSpec => []EvidenceIsOwn
<1>1. EvidenceInv => EvidenceIsOwn
  BY DEF EvidenceInv, FirstSession, EvidenceIsOwn, ChargesItsOwn
<1> QED BY <1>1, EvidenceBegins, EvidenceSteps, PTL DEF EvidenceSpec

------------------------------------------------------------------------------
(* The Hermes connector.                                                   *)

Configs == [there : BOOLEAN, block : Int, users : BOOLEAN]
Keys == {"none", "token", "users"}
Owners == [Plugins -> {"nobody", "ficelle", "hermes"}]
Marks == {"config", "envFile", "envKey"}
Records == [known : BOOLEAN, created : SUBSET Marks, managed : BOOLEAN, config : Configs,
            snippet : Int, envKey : Keys, plugins : [Plugins -> Int], owner : Owners]
Copying == {"nested", "nested_copy", "compression", "compression_copy"}
Writing == Copying \cup {"env", "snippet", "config", "register"}
Removal == {"plugins", "files", "config", "unregister"}
Jobs == [op : {"none", "install", "refresh", "remove"}, step : Writing \cup Removal \cup {"none"},
         had : SUBSET Marks, owner : Owners, take : SUBSET Plugins]

Installing == job.op \in {"install", "refresh"}
RemovingNow == job.op = "remove"

ConnectorTyped ==
    /\ release \in Releases /\ plugin \in [Plugins -> Int] /\ snippet \in Int /\ marked \in BOOLEAN /\ config \in Configs
    /\ env \in [there : BOOLEAN, key : Keys, rest : BOOLEAN]
    /\ record \in Records /\ job \in Jobs /\ removed \in BOOLEAN /\ crashed \in BOOLEAN
    /\ touched \subseteq Plugins \cup {"config"} /\ wrote \subseteq Plugins \cup {"env", "config"}
    /\ job.op = "none" => job = AtRest
    /\ Installing => job.step \in Writing /\ job.take = {}
    /\ Installing => \A p \in Plugins : job.owner[p] # "nobody"
    /\ RemovingNow => job.step \in Removal
    /\ job.op # "none" => ~removed

\* The steps at which the copy of a plugin is settled.
Past(p) == job.step \in {"env", "snippet", "config", "register"}
                          \cup (IF p = "nested" THEN {"compression", "compression_copy"} ELSE {})

\* A copy that is done is the release's; one that is about to be made, or taken, was saved.
CopiesAreSaved ==
    \A p \in Plugins :
        /\ Installing /\ job.owner[p] = "ficelle" /\ Past(p) => plugin[p] = release
        /\ At(Partway(p)) => job.owner[p] = "ficelle" /\ (p \in touched => <<p, Theirs>> \in saved)
        /\ p \in job.take /\ p \in touched => <<p, Theirs>> \in saved

\* What is recorded of a plugin is a release's.
RecordedIsOurs == \A p \in Plugins : record.plugins[p] \in Releases \cup {Absent}

\* What Hermes marked is there, and no command takes it.
MarkedIsHermes ==
    marked => /\ plugin["compression"] # Absent
              /\ "compression" \notin job.take
              /\ Installing => job.owner["compression"] = "hermes"

PluginInv == ConnectorTyped /\ CopiesAreSaved /\ RecordedIsOurs /\ MarkedIsHermes /\ PluginWorkIsKept

\* Unless a command was killed, what Ficelle alone put there is recorded, and a removal takes it.
PluginsRecorded ==
    \A p \in Plugins \cap wrote :
        /\ p = "compression" => ~marked
        /\ plugin[p] # Absent /\ ~Installing =>
              record.known /\ record.owner[p] = "ficelle" /\ record.plugins[p] = plugin[p]
        /\ Installing => job.owner[p] = "ficelle"
        /\ RemovingNow /\ job.step = "plugins" /\ plugin[p] # Absent => p \in job.take
        /\ RemovingNow /\ job.step # "plugins" => plugin[p] = Absent

KeyRecorded ==
    /\ "env" \in wrote => env.key # "users"
    /\ Installing /\ job.step \in Copying \cup {"env"} => ("envKey" \in job.had <=> env.key # "none")
    /\ Installing /\ job.step \in {"snippet", "config", "register"} => env.key = "token"
    /\ "env" \in wrote /\ env.key = "token" =>
          \/ "envKey" \in record.created
          \/ /\ Installing /\ "envKey" \notin job.had
             /\ job.step \in {"snippet", "config", "register"}
    /\ RemovingNow /\ job.step \in {"config", "unregister"} /\ "env" \in wrote => env.key # "token"

BlockRecorded ==
    /\ config.block # Absent =>
          config.there /\ (record.managed \/ (Installing /\ job.step = "register"))
    /\ RemovingNow /\ job.step = "unregister" => config.block = Absent

LeftoversInv == ~crashed => PluginsRecorded /\ KeyRecorded /\ BlockRecorded

ConnectorInv == PluginInv /\ LeftoversInv /\ RemovalLeavesNothing

LEMMA ConnectorInitInv == ConnectorInit => ConnectorInv
<1> SUFFICES ASSUME ConnectorInit PROVE ConnectorInv
  OBVIOUS
<1>1. record \in Records /\ job \in Jobs /\ release \in Releases /\ job.op = "none" /\ job.take = {}
      /\ job.step = "none" /\ job = AtRest
  BY ReleaseNumbers DEF ConnectorInit, Records, Jobs, AtRest, Unknown, Owners, NoConfig, Absent, Releases,
     Configs, Keys
<1>2. /\ config \in Configs /\ config.block = Absent /\ env.key = "none"
      /\ env \in [there : BOOLEAN, key : Keys, rest : BOOLEAN]
  BY DEF ConnectorInit, Configs, Keys, Absent
<1>3. plugin \in [Plugins -> Int] /\ snippet \in Int
  BY DEF ConnectorInit, Absent
<1>4. ConnectorTyped
  BY <1>1, <1>2, <1>3 DEF ConnectorInit, ConnectorTyped, Plugins, Installing, RemovingNow
<1>5. CopiesAreSaved /\ MarkedIsHermes /\ RecordedIsOurs
  BY <1>1 DEF ConnectorInit, CopiesAreSaved, MarkedIsHermes, RecordedIsOurs, At, Installing, Unknown
<1>6. PluginWorkIsKept /\ LeftoversInv /\ RemovalLeavesNothing
  BY <1>1, <1>2 DEF ConnectorInit, PluginWorkIsKept, LeftoversInv, RemovalLeavesNothing, PluginsRecorded,
     KeyRecorded, BlockRecorded, Installing, RemovingNow, Plugins
<1> QED BY <1>4, <1>5, <1>6 DEF ConnectorInv, PluginInv

\* While no command runs the others may take over what is there, and nothing else matters to Ficelle.
LEMMA OutsideKeeps ==
  ASSUME ConnectorInv, job = AtRest, UNCHANGED <<saved, record, job, crashed>>,
         release' \in Releases, plugin' \in [Plugins -> Int], snippet' \in Int, marked' \in BOOLEAN, config' \in Configs,
         env' \in [there : BOOLEAN, key : Keys, rest : BOOLEAN],
         touched' \subseteq Plugins \cup {"config"}, wrote' \subseteq wrote, removed' \in {FALSE, removed},
         \A p \in Plugins \cap touched' : plugin'[p] = Theirs \/ (p \in touched /\ plugin'[p] = plugin[p]),
         \A p \in Plugins \cap wrote' : plugin'[p] \in {plugin[p], Absent},
         marked' => plugin'["compression"] # Absent /\ (marked \/ "compression" \notin wrote'),
         config'.block = config.block, config.there => config'.there,
         env'.key = env.key \/ "env" \notin wrote'
  PROVE  ConnectorInv'
<1>1. /\ job.op = "none" /\ job.step = "none" /\ job.take = {} /\ ~Installing /\ ~Installing'
      /\ ~RemovingNow /\ ~RemovingNow' /\ \A step \in Writing : ~At(step) /\ ~At(step)'
  BY DEF AtRest, Installing, RemovingNow, At
<1>2. ConnectorTyped'
  <2>1. ConnectorTyped
    BY DEF ConnectorInv, PluginInv
  <2> QED BY <2>1, <1>1 DEF ConnectorTyped
<1>3. CopiesAreSaved'
  BY <1>1 DEF CopiesAreSaved, Partway, Writing, Copying, Plugins
<1>4. RecordedIsOurs'
  BY DEF ConnectorInv, PluginInv, RecordedIsOurs
<1>5. MarkedIsHermes'
  BY <1>1 DEF MarkedIsHermes
<1>6. PluginWorkIsKept'
  <2>1. PluginWorkIsKept
    BY DEF ConnectorInv, PluginInv
  <2> QED BY <2>1 DEF PluginWorkIsKept
<1>7. ASSUME ~crashed PROVE PluginsRecorded' /\ KeyRecorded' /\ BlockRecorded'
  <2>1. PluginsRecorded /\ KeyRecorded /\ BlockRecorded
    BY <1>7 DEF ConnectorInv, LeftoversInv
  <2>2. PluginsRecorded'
    BY <2>1, <1>1 DEF PluginsRecorded
  <2>3. KeyRecorded'
    BY <2>1, <1>1 DEF KeyRecorded
  <2>4. BlockRecorded'
    BY <2>1, <1>1 DEF BlockRecorded
  <2> QED BY <2>2, <2>3, <2>4
<1>8. RemovalLeavesNothing'
  <2>1. RemovalLeavesNothing
    BY DEF ConnectorInv
  <2> QED BY <2>1 DEF RemovalLeavesNothing
<1> QED BY <1>2, <1>3, <1>4, <1>5, <1>6, <1>7, <1>8 DEF ConnectorInv, PluginInv, LeftoversInv

\* What is known of a state at rest.
LEMMA HomeKnown ==
  ASSUME ConnectorInv
  PROVE  /\ plugin \in [Plugins -> Int] /\ snippet \in Int /\ release \in Releases /\ touched \subseteq Plugins \cup {"config"}
         /\ config \in Configs /\ env \in [there : BOOLEAN, key : Keys, rest : BOOLEAN]
         /\ marked \in BOOLEAN /\ (marked => plugin["compression"] # Absent)
         /\ wrote \subseteq Plugins \cup {"env", "config"}
BY DEF ConnectorInv, PluginInv, ConnectorTyped, MarkedIsHermes

LEMMA EditPluginKeeps ==
  ASSUME ConnectorInv, NEW p \in Plugins, EditPlugin(p)
  PROVE  ConnectorInv'
<1>1. Theirs \in Int /\ Theirs # Absent
  BY DEF Theirs, Absent
<1>2. /\ job = AtRest /\ UNCHANGED <<saved, record, job, crashed, release, marked, snippet, config, env>>
      /\ plugin' = [plugin EXCEPT ![p] = Theirs] /\ touched' = touched \cup {p}
      /\ wrote' = wrote \ {p} /\ removed' = FALSE
  BY DEF EditPlugin, Outside, Elsewhere
<1>3. plugin' \in [Plugins -> Int] /\ \A q \in Plugins : plugin'[q] = IF q = p THEN Theirs ELSE plugin[q]
  BY <1>1, <1>2, HomeKnown
<1>4. \A q \in Plugins \cap touched' : plugin'[q] = Theirs \/ (q \in touched /\ plugin'[q] = plugin[q])
  BY <1>2, <1>3
<1>5. \A q \in Plugins \cap wrote' : plugin'[q] \in {plugin[q], Absent}
  BY <1>2, <1>3
<1>6. marked' => plugin'["compression"] # Absent /\ (marked \/ "compression" \notin wrote')
  BY <1>1, <1>2, <1>3, HomeKnown DEF Plugins
<1>7. touched' \subseteq Plugins \cup {"config"} /\ wrote' \subseteq wrote
  BY <1>2, HomeKnown
<1> QED BY <1>2, <1>3, <1>4, <1>5, <1>6, <1>7, HomeKnown, OutsideKeeps

LEMMA EditConfigKeeps ==
  ASSUME ConnectorInv, EditConfig
  PROVE  ConnectorInv'
<1>1. config' \in Configs /\ config'.there /\ config'.block = config.block
  BY HomeKnown DEF EditConfig, Configs
<1>2. \A p \in Plugins : p # "config"
  BY DEF Plugins
<1> QED BY <1>1, <1>2, HomeKnown, OutsideKeeps DEF EditConfig, Outside, Elsewhere

LEMMA EditEnvKeeps ==
  ASSUME ConnectorInv, EditEnv
  PROVE  ConnectorInv'
<1>1. /\ env' \in [there : BOOLEAN, key : Keys, rest : BOOLEAN]
      /\ env'.key \in {env.key, "users"} 
  BY HomeKnown DEF EditEnv, Keys
<1>2. env'.key = env.key \/ "env" \notin wrote'
  BY <1>1 DEF EditEnv
<1> QED BY <1>1, <1>2, HomeKnown, OutsideKeeps DEF EditEnv, Outside, Elsewhere

\* Hermes changes its own copy, and what it takes over is no longer the user's or Ficelle's.
LEMMA HermesKeeps ==
  ASSUME ConnectorInv, HermesInstalls \/ HermesRemoves
  PROVE  ConnectorInv'
<1>1. \A r \in Releases : r \in Int /\ r # Absent
  BY DEF Releases, Absent
<1>2. "compression" \in Plugins /\ Absent \in Int
  BY DEF Plugins, Absent
<1>3. CASE HermesInstalls
  <2>1. PICK r \in Releases :
           \/ flat' = r /\ UNCHANGED <<plugin, marked, touched, wrote>>
           \/ /\ plugin' = [plugin EXCEPT !["compression"] = r] /\ marked' = TRUE
              /\ touched' = touched \ {"compression"} /\ wrote' = wrote \ {"compression"}
              /\ UNCHANGED flat
    BY <1>3 DEF HermesInstalls
  <2>2. /\ job = AtRest /\ UNCHANGED <<saved, record, job, crashed, release, snippet, config, env>> /\ removed' = FALSE
    BY <1>3 DEF HermesInstalls, Outside, Elsewhere
  <2>3. CASE UNCHANGED <<plugin, marked, touched, wrote>>
    BY <2>2, <2>3, HomeKnown, OutsideKeeps
  <2>4. CASE /\ plugin' = [plugin EXCEPT !["compression"] = r] /\ marked' = TRUE
             /\ touched' = touched \ {"compression"} /\ wrote' = wrote \ {"compression"}
    <3>1. /\ plugin' \in [Plugins -> Int] /\ plugin'["compression"] # Absent
          /\ \A q \in Plugins \ {"compression"} : plugin'[q] = plugin[q]
      BY <1>1, <1>2, <2>4, HomeKnown
    <3> QED BY <1>2, <2>2, <2>4, <3>1, HomeKnown, OutsideKeeps
  <2> QED BY <2>1, <2>3, <2>4
<1>4. CASE HermesRemoves
  <2>1. /\ job = AtRest /\ UNCHANGED <<saved, record, job, crashed, release, snippet, config, env, wrote, removed>>
    BY <1>4 DEF HermesRemoves, Outside, Elsewhere
  <2>2. CASE UNCHANGED <<plugin, marked, touched>>
    BY <2>1, <2>2, HomeKnown, OutsideKeeps
  <2>3. CASE /\ plugin' = [plugin EXCEPT !["compression"] = Absent] /\ marked' = FALSE
             /\ touched' = touched \ {"compression"}
    <3>1. /\ plugin' \in [Plugins -> Int] /\ plugin'["compression"] = Absent
          /\ \A q \in Plugins \ {"compression"} : plugin'[q] = plugin[q]
      BY <1>2, <2>3, HomeKnown
    <3> QED BY <1>2, <2>1, <2>3, <3>1, HomeKnown, OutsideKeeps
  <2> QED BY <1>4, <2>2, <2>3 DEF HermesRemoves
<1> QED BY <1>3, <1>4

LEMMA UpdateKeeps ==
  ASSUME ConnectorInv, Update
  PROVE  ConnectorInv'
<1>1. release \in Releases
  BY HomeKnown
<1>2. release' \in Releases
  BY <1>1, ReleaseNumbers DEF Update, Releases
<1> QED BY <1>2, HomeKnown, OutsideKeeps DEF Update, home

\* A step of an install or a refresh.
LEMMA JobMoves ==
  ASSUME ConnectorInv, Installing, NEW x \in Writing, To(x),
         UNCHANGED <<release, record, removed, crashed, touched, marked>>,
         plugin' \in [Plugins -> Int], snippet' \in Int, config' \in Configs,
         env' \in [there : BOOLEAN, key : Keys, rest : BOOLEAN],
         wrote' \subseteq Plugins \cup {"env", "config"}
  PROVE  /\ ConnectorTyped' /\ RecordedIsOurs' /\ RemovalLeavesNothing'
         /\ job'.step = x /\ job'.op = job.op /\ job'.had = job.had /\ job'.owner = job.owner /\ job'.take = {}
         /\ Installing' /\ ~RemovingNow /\ ~RemovingNow' /\ ~removed /\ job.take = {}
<1>1. job \in Jobs /\ job.op # "none" /\ ConnectorTyped
  BY DEF ConnectorInv, PluginInv, ConnectorTyped, Installing
<1>2. /\ job' \in Jobs /\ job'.step = x /\ job'.op = job.op /\ job'.had = job.had /\ job'.owner = job.owner
      /\ job'.take = job.take
  BY <1>1 DEF To, Jobs
<1>3. Installing' /\ ~RemovingNow /\ ~RemovingNow' /\ job.take = {} /\ ~removed
  BY <1>1, <1>2 DEF Installing, RemovingNow, ConnectorTyped
<1>4. ConnectorTyped'
  BY <1>1, <1>2, <1>3 DEF ConnectorTyped, Installing
<1>5. RecordedIsOurs' /\ RemovalLeavesNothing'
  BY <1>3 DEF ConnectorInv, PluginInv, RecordedIsOurs, RemovalLeavesNothing
<1> QED BY <1>2, <1>3, <1>4, <1>5

LEMMA ClearPluginKeeps ==
  ASSUME ConnectorInv, NEW p \in Plugins, ClearPlugin(p)
  PROVE  ConnectorInv'
<1> DEFINE x == job'.step
<1>1. /\ Installing /\ job.step = p /\ p \in {"nested", "compression"}
      /\ UNCHANGED <<release, record, removed, crashed, touched, marked, snippet, config, env, wrote>>
      /\ plugin' \in [Plugins -> Int] /\ Absent \in Int
      /\ \/ /\ job.owner[p] = "hermes" \/ plugin[p] = release
            /\ To(Follows(p)) /\ UNCHANGED <<plugin, saved>>
         \/ /\ job.owner[p] = "ficelle" /\ plugin[p] # release
            /\ saved' = SaveOld(p) /\ plugin' = [plugin EXCEPT ![p] = Absent] /\ To(Partway(p))
  BY HomeKnown DEF ClearPlugin, At, Installing, Quiet, Absent, Plugins
<1>2. /\ Follows(p) \in {"compression", "env"} /\ Partway(p) \in {"nested_copy", "compression_copy"}
      /\ Follows(p) \in Writing /\ Partway(p) \in Writing
  BY DEF Follows, Partway, Writing, Copying
<1>3. /\ ConnectorTyped' /\ RecordedIsOurs' /\ RemovalLeavesNothing'
      /\ job'.op = job.op /\ job'.had = job.had /\ job'.owner = job.owner /\ job'.take = {}
      /\ Installing' /\ ~RemovingNow /\ ~RemovingNow' /\ ~removed /\ job.take = {}
  BY <1>1, <1>2, HomeKnown, JobMoves
<1>4. \/ x = Follows(p) /\ UNCHANGED <<plugin, saved>> /\ (job.owner[p] = "hermes" \/ plugin[p] = release)
      \/ /\ x = Partway(p) /\ job.owner[p] = "ficelle" /\ plugin[p] # release
         /\ saved' = SaveOld(p) /\ plugin'[p] = Absent
         /\ \A q \in Plugins \ {p} : plugin'[q] = plugin[q]
  BY <1>1, <1>2, <1>3, HomeKnown, JobMoves
<1> HIDE DEF x
<1>5. \A q \in Plugins : q \in touched => plugin[q] = Theirs \/ <<q, Theirs>> \in saved
  BY DEF ConnectorInv, PluginInv, PluginWorkIsKept
<1>6. saved \subseteq saved' /\ (x = Partway(p) /\ p \in touched => <<p, Theirs>> \in saved')
  BY <1>4, <1>5, <1>2 DEF SaveOld, Theirs, Absent, Follows, Partway
<1>7. PluginWorkIsKept'
  BY <1>1, <1>4, <1>5, <1>6, <1>2 DEF PluginWorkIsKept, Follows, Partway
<1>8. CopiesAreSaved'
  BY <1>1, <1>3, <1>4, <1>6 DEF ConnectorInv, PluginInv, CopiesAreSaved, Past, At, Follows, Partway, Plugins, x,
     Installing
<1>9. MarkedIsHermes'
  BY <1>1, <1>3, <1>4 DEF ConnectorInv, PluginInv, MarkedIsHermes, Plugins
<1>10. ASSUME ~crashed PROVE PluginsRecorded' /\ KeyRecorded' /\ BlockRecorded'
  <2>1. PluginsRecorded /\ KeyRecorded /\ BlockRecorded
    BY <1>10 DEF ConnectorInv, LeftoversInv
  <2>2. PluginsRecorded'
    BY <2>1, <1>1, <1>3, <1>4 DEF PluginsRecorded
  <2>3. x \in Copying \cup {"env"} /\ job.step \in Copying
    BY <1>1, <1>2, <1>4 DEF Copying
  <2>4. KeyRecorded'
    BY <2>1, <2>3, <1>1, <1>3 DEF KeyRecorded, x, Copying
  <2>5. BlockRecorded'
    BY <2>1, <2>3, <1>1, <1>3 DEF BlockRecorded, x, Copying
  <2> QED BY <2>2, <2>4, <2>5
<1> QED BY <1>1, <1>3, <1>7, <1>8, <1>9, <1>10 DEF ConnectorInv, PluginInv, LeftoversInv

LEMMA CopyPluginKeeps ==
  ASSUME ConnectorInv, NEW p \in Plugins, CopyPlugin(p)
  PROVE  ConnectorInv'
<1> DEFINE x == job'.step
<1>1. /\ Installing /\ job.step = Partway(p) /\ p \in {"nested", "compression"} /\ At(Partway(p))
      /\ UNCHANGED <<release, record, removed, crashed, touched, marked, snippet, config, env, saved>>
      /\ plugin' = [plugin EXCEPT ![p] = release] /\ wrote' = wrote \cup {p} /\ To(Follows(p))
  BY DEF CopyPlugin, At, Installing, Quiet, Plugins
<1>2. /\ Follows(p) \in {"compression", "env"} /\ Follows(p) \in Writing
      /\ release \in Int /\ release # Absent
  BY HomeKnown DEF Follows, Writing, Copying, Releases, Absent
<1>3. /\ plugin' \in [Plugins -> Int] /\ plugin'[p] = release
      /\ \A q \in Plugins \ {p} : plugin'[q] = plugin[q]
  BY <1>1, <1>2, HomeKnown
<1>4. /\ ConnectorTyped' /\ RecordedIsOurs' /\ RemovalLeavesNothing' /\ x = Follows(p)
      /\ job'.op = job.op /\ job'.had = job.had /\ job'.owner = job.owner /\ job'.take = {}
      /\ Installing' /\ ~RemovingNow /\ ~RemovingNow' /\ ~removed /\ job.take = {}
  BY <1>1, <1>2, <1>3, HomeKnown, JobMoves
<1> HIDE DEF x
<1>5. job.owner[p] = "ficelle" /\ (p \in touched => <<p, Theirs>> \in saved)
  BY <1>1 DEF ConnectorInv, PluginInv, CopiesAreSaved
<1>6. PluginWorkIsKept'
  BY <1>1, <1>3, <1>5 DEF ConnectorInv, PluginInv, PluginWorkIsKept
<1>7. CopiesAreSaved'
  BY <1>1, <1>3, <1>4 DEF ConnectorInv, PluginInv, CopiesAreSaved, Past, At, Follows, Partway, Plugins, x,
     Installing
<1>8. MarkedIsHermes' /\ (p = "compression" => ~marked)
  BY <1>1, <1>2, <1>3, <1>4, <1>5 DEF ConnectorInv, PluginInv, MarkedIsHermes, Plugins
<1>9. ASSUME ~crashed PROVE PluginsRecorded' /\ KeyRecorded' /\ BlockRecorded'
  <2>1. PluginsRecorded /\ KeyRecorded /\ BlockRecorded
    BY <1>9 DEF ConnectorInv, LeftoversInv
  <2>2. PluginsRecorded'
    BY <2>1, <1>1, <1>3, <1>4, <1>5, <1>8 DEF PluginsRecorded
  <2>3. x \in Copying \cup {"env"} /\ job.step \in Copying
    BY <1>1, <1>2, <1>4 DEF Copying, Partway
  <2>4. "env" \in wrote' <=> "env" \in wrote
    BY <1>1
  <2>5. KeyRecorded'
    BY <2>1, <2>3, <2>4, <1>1, <1>4 DEF KeyRecorded, x, Copying
  <2>6. BlockRecorded'
    BY <2>1, <2>3, <1>1, <1>4 DEF BlockRecorded, x, Copying
  <2> QED BY <2>2, <2>5, <2>6
<1> QED BY <1>1, <1>4, <1>6, <1>7, <1>8, <1>9 DEF ConnectorInv, PluginInv, LeftoversInv

\* A step of an install that leaves the plugins alone.
LEMMA WritesElsewhere ==
  ASSUME ConnectorInv, Installing, NEW x \in {"snippet", "config", "register"}, To(x),
         job.step \in {"env", "snippet", "config"},
         UNCHANGED <<release, record, removed, crashed, touched, marked, plugin>>,
         saved \subseteq saved', snippet' \in Int, config' \in Configs,
         env' \in [there : BOOLEAN, key : Keys, rest : BOOLEAN],
         wrote \subseteq wrote', wrote' \subseteq wrote \cup {"env", "config"},
         ~crashed => KeyRecorded' /\ BlockRecorded'
  PROVE  ConnectorInv'
<1>1. x \in Writing
  BY DEF Writing
<1>2. /\ ConnectorTyped' /\ RecordedIsOurs' /\ RemovalLeavesNothing' /\ job'.step = x
      /\ job'.op = job.op /\ job'.had = job.had /\ job'.owner = job.owner /\ job'.take = {}
      /\ Installing' /\ ~RemovingNow /\ ~RemovingNow' /\ ~removed /\ job.take = {}
  BY <1>1, HomeKnown, JobMoves
<1>3. PluginWorkIsKept'
  BY DEF ConnectorInv, PluginInv, PluginWorkIsKept
<1>4. CopiesAreSaved'
  BY <1>2 DEF ConnectorInv, PluginInv, CopiesAreSaved, Past, At, Partway, Installing, Plugins
<1>5. MarkedIsHermes'
  BY <1>2 DEF ConnectorInv, PluginInv, MarkedIsHermes
<1>6. ~crashed => PluginsRecorded'
  BY <1>2 DEF ConnectorInv, LeftoversInv, PluginsRecorded, Plugins
<1> QED BY <1>2, <1>3, <1>4, <1>5, <1>6 DEF ConnectorInv, PluginInv, LeftoversInv

LEMMA SeedEnvKeeps ==
  ASSUME ConnectorInv, SeedEnv
  PROVE  ConnectorInv'
<1>1. /\ Installing /\ job.step = "env" /\ To("snippet")
      /\ UNCHANGED <<release, record, removed, crashed, touched, marked, plugin, snippet, config, saved>>
      /\ env' \in [there : BOOLEAN, key : Keys, rest : BOOLEAN] /\ env'.key = "token"
      /\ wrote' = wrote \cup (IF env.key = "none" THEN {"env"} ELSE {})
  BY HomeKnown DEF SeedEnv, At, Installing, Quiet, Keys
<1>2. job \in Jobs
  BY DEF ConnectorInv, PluginInv, ConnectorTyped
<1>3. job'.step = "snippet" /\ job'.op = job.op /\ job'.had = job.had /\ Installing' /\ ~RemovingNow'
  BY <1>1, <1>2 DEF To, Jobs, Installing, RemovingNow
<1>4. ASSUME ~crashed PROVE KeyRecorded' /\ BlockRecorded'
  <2>1. KeyRecorded /\ BlockRecorded
    BY <1>4 DEF ConnectorInv, LeftoversInv
  <2>2. "envKey" \in job.had <=> env.key # "none"
    BY <2>1, <1>1 DEF KeyRecorded
  <2>3. "env" \in wrote /\ env.key # "none" => "envKey" \in record.created
    BY <2>1, <1>1, HomeKnown DEF KeyRecorded, Keys
  <2>4. KeyRecorded'
    BY <2>1, <2>2, <2>3, <1>1, <1>3 DEF KeyRecorded, Copying
  <2>5. BlockRecorded'
    BY <2>1, <1>1, <1>3 DEF BlockRecorded
  <2> QED BY <2>4, <2>5
<1> QED BY <1>1, <1>4, HomeKnown, WritesElsewhere

LEMMA WriteSnippetKeeps ==
  ASSUME ConnectorInv, WriteSnippet
  PROVE  ConnectorInv'
<1>1. /\ Installing /\ job.step = "snippet"
      /\ UNCHANGED <<release, record, removed, crashed, touched, marked, plugin, config, env, saved, wrote>>
      /\ snippet' \in {snippet, release}
  BY DEF WriteSnippet, At, Installing, Quiet
<1>2. PICK x \in {"config", "register"} : To(x)
  BY DEF WriteSnippet
<1>3. job \in Jobs
  BY DEF ConnectorInv, PluginInv, ConnectorTyped
<1>4. job'.step = x /\ job'.op = job.op /\ job'.had = job.had /\ Installing' /\ ~RemovingNow'
  BY <1>1, <1>2, <1>3 DEF To, Jobs, Installing, RemovingNow
<1>5. ASSUME ~crashed PROVE KeyRecorded' /\ BlockRecorded'
  <2>1. KeyRecorded /\ BlockRecorded
    BY <1>5 DEF ConnectorInv, LeftoversInv
  <2>2. KeyRecorded'
    BY <2>1, <1>1, <1>2, <1>4 DEF KeyRecorded, Copying
  <2>3. BlockRecorded'
    BY <2>1, <1>1, <1>4 DEF BlockRecorded
  <2> QED BY <2>2, <2>3
<1>6. snippet' \in Int
  BY <1>1, HomeKnown DEF Releases
<1> QED BY <1>1, <1>2, <1>5, <1>6, HomeKnown, WritesElsewhere

LEMMA WriteConfigKeeps ==
  ASSUME ConnectorInv, WriteConfig
  PROVE  ConnectorInv'
<1>1. /\ Installing /\ job.step = "config" /\ To("register")
      /\ UNCHANGED <<release, record, removed, crashed, touched, marked, plugin, snippet, env>>
      /\ saved \subseteq saved' /\ wrote \subseteq wrote' /\ wrote' \subseteq wrote \cup {"config"}
  BY DEF WriteConfig, At, Installing, Quiet
<1>2. release \in Int
  BY HomeKnown DEF Releases
<1>3. config' \in Configs /\ (config'.block # Absent => config'.there)
  <2>1. ~config.there => config' = [config EXCEPT !.there = TRUE, !.block = release]
    BY DEF WriteConfig
  <2>2. config.there => config' = [config EXCEPT !.block = release] \/ config' = config
    BY DEF WriteConfig
  <2> QED BY <2>1, <2>2, <1>2, HomeKnown DEF Configs
<1>4. job \in Jobs
  BY DEF ConnectorInv, PluginInv, ConnectorTyped
<1>5. job'.step = "register" /\ job'.op = job.op /\ job'.had = job.had /\ Installing' /\ ~RemovingNow'
  BY <1>1, <1>4 DEF To, Jobs, Installing, RemovingNow
<1>6. ASSUME ~crashed PROVE KeyRecorded' /\ BlockRecorded'
  <2>1. KeyRecorded /\ BlockRecorded
    BY <1>6 DEF ConnectorInv, LeftoversInv
  <2>2. "env" \in wrote' <=> "env" \in wrote
    BY <1>1
  <2>3. KeyRecorded'
    BY <2>1, <2>2, <1>1, <1>5 DEF KeyRecorded, Copying
  <2>4. BlockRecorded'
    BY <1>3, <1>5 DEF BlockRecorded
  <2> QED BY <2>3, <2>4
<1> QED BY <1>1, <1>3, <1>6, HomeKnown, WritesElsewhere

\* The record says what is there, and forgets no creation.
LEMMA RegisterKeeps ==
  ASSUME ConnectorInv, Register
  PROVE  ConnectorInv'
<1>1. /\ Installing /\ job.step = "register" /\ job' = AtRest /\ job \in Jobs /\ record \in Records
      /\ UNCHANGED <<release, saved, removed, crashed, touched, wrote, plugin, marked, config, env, snippet>>
      /\ \A p \in Plugins : job.owner[p] \in {"nobody", "ficelle", "hermes"}
      /\ ConnectorTyped
  BY DEF Register, At, Installing, home, ConnectorInv, PluginInv, ConnectorTyped, Jobs, Owners
<1>2. /\ job'.op = "none" /\ job'.step = "none" /\ job'.take = {} /\ ~Installing' /\ ~RemovingNow'
      /\ ~RemovingNow
  BY <1>1 DEF AtRest, Installing, RemovingNow
<1> DEFINE noted == [p \in Plugins |-> IF job.owner[p] = "ficelle" THEN plugin[p] ELSE Absent]
<1>3. noted \in [Plugins -> Int] /\ StillCreated \subseteq Marks
  BY <1>1, HomeKnown DEF Absent, StillCreated, Created, Records, Marks
<1>4. \A p \in Plugins : job.owner[p] = "ficelle" => plugin[p] = release
  BY <1>1 DEF ConnectorInv, PluginInv, CopiesAreSaved, Past
<1>5. \A p \in Plugins : noted[p] \in Releases \cup {Absent}
  BY <1>4, HomeKnown
<1>6. /\ record'.known /\ record'.created = StillCreated /\ (record'.managed <=> config.block # Absent)
      /\ record'.plugins = noted /\ record'.owner = job.owner
  BY DEF Register
<1>7. record' \in Records
  <2>1. record' = [known |-> TRUE, created |-> StillCreated, managed |-> config.block # Absent,
                   config |-> config, snippet |-> snippet, envKey |-> env.key, plugins |-> noted,
                   owner |-> job.owner]
    BY DEF Register
  <2>2. config \in Configs /\ snippet \in Int /\ env.key \in Keys /\ job.owner \in Owners
    BY <1>1, HomeKnown DEF Jobs
  <2> HIDE DEF noted
  <2> QED BY <1>3, <2>1, <2>2 DEF Records
<1> HIDE DEF noted
<1>8. ConnectorTyped'
  <2>1. job' \in Jobs
    BY <1>1 DEF AtRest, Jobs, Unknown, Owners, Marks
  <2> QED BY <1>1, <1>2, <1>7, <2>1 DEF ConnectorTyped
<1>9. CopiesAreSaved' /\ RecordedIsOurs' /\ PluginWorkIsKept'
  BY <1>1, <1>2, <1>5, <1>6 DEF ConnectorInv, PluginInv, CopiesAreSaved, RecordedIsOurs, PluginWorkIsKept, At,
     Partway, Plugins
<1>10. MarkedIsHermes'
  BY <1>1, <1>2 DEF ConnectorInv, PluginInv, MarkedIsHermes
<1>11. ~removed /\ RemovalLeavesNothing'
  BY <1>1 DEF ConnectorTyped, Installing, RemovalLeavesNothing
<1>12. ASSUME ~crashed PROVE PluginsRecorded' /\ KeyRecorded' /\ BlockRecorded'
  <2>1. PluginsRecorded /\ KeyRecorded /\ BlockRecorded
    BY <1>12 DEF ConnectorInv, LeftoversInv
  <2>2. PluginsRecorded'
    <3>1. ASSUME NEW p \in Plugins \cap wrote PROVE noted[p] = plugin[p] /\ job.owner[p] = "ficelle"
      BY <2>1, <1>1 DEF PluginsRecorded, noted
    <3> QED BY <3>1, <2>1, <1>1, <1>2, <1>6 DEF PluginsRecorded
  <2>3. KeyRecorded'
    <3>1. env.key = "token" /\ ("env" \in wrote => "envKey" \in record.created \/ "envKey" \notin job.had)
      BY <2>1, <1>1 DEF KeyRecorded
    <3>2. "env" \in wrote => "envKey" \in StillCreated
      BY <3>1 DEF StillCreated, Created
    <3> QED BY <2>1, <3>1, <3>2, <1>1, <1>2, <1>6 DEF KeyRecorded
  <2>4. BlockRecorded'
    BY <2>1, <1>1, <1>2, <1>6 DEF BlockRecorded
  <2> QED BY <2>2, <2>3, <2>4
<1> QED BY <1>1, <1>8, <1>9, <1>10, <1>11, <1>12 DEF ConnectorInv, PluginInv, LeftoversInv

\* A command that starts finds what is there and takes over nothing.
LEMMA InstallKeeps ==
  ASSUME ConnectorInv, NEW op \in {"install", "refresh"}, Install(op)
  PROVE  ConnectorInv'
<1>1. /\ job = AtRest /\ removed' = FALSE
      /\ UNCHANGED <<release, plugin, marked, snippet, config, env, saved, record, touched, wrote, crashed>>
  BY DEF Install, Started, home
<1>2. CASE job' = AtRest
  BY <1>1, <1>2, HomeKnown, OutsideKeeps
<1>3. CASE job' = [op |-> op, step |-> "nested", had |-> HadBefore, owner |-> OwnersNow, take |-> {}]
  <2>1. /\ job'.op = op /\ job'.step = "nested" /\ job'.had = HadBefore /\ job'.owner = OwnersNow
        /\ job'.take = {} /\ Installing' /\ ~RemovingNow' /\ ~Installing /\ ~RemovingNow
    BY <1>1, <1>3 DEF Installing, RemovingNow, AtRest
  <2>2. /\ OwnersNow \in Owners /\ HadBefore \subseteq Marks
        /\ \A p \in Plugins : OwnersNow[p] \in {"ficelle", "hermes"}
        /\ OwnersNow["nested"] = "ficelle"
        /\ OwnersNow["compression"] = IF External THEN "hermes" ELSE "ficelle"
    BY DEF OwnersNow, HadBefore, Owners, Plugins, Marks
  <2>3. job' \in Jobs
    BY <1>3, <2>2 DEF Jobs, Writing, Copying
  <2>4. ConnectorTyped'
    BY <1>1, <2>1, <2>2, <2>3 DEF ConnectorInv, PluginInv, ConnectorTyped, Writing, Copying
  <2>5. CopiesAreSaved' /\ RecordedIsOurs' /\ PluginWorkIsKept'
    BY <1>1, <2>1 DEF ConnectorInv, PluginInv, CopiesAreSaved, RecordedIsOurs, PluginWorkIsKept, Past, At,
       Partway, Plugins
  <2>6. MarkedIsHermes'
    BY <1>1, <2>1, <2>2, HomeKnown DEF MarkedIsHermes, External
  <2>7. RemovalLeavesNothing'
    BY <1>1 DEF RemovalLeavesNothing
  <2>8. ASSUME ~crashed PROVE PluginsRecorded' /\ KeyRecorded' /\ BlockRecorded'
    <3>1. PluginsRecorded /\ KeyRecorded /\ BlockRecorded
      BY <2>8 DEF ConnectorInv, LeftoversInv
    <3>2. \A p \in Plugins \cap wrote : OwnersNow[p] = "ficelle"
      BY <3>1, <2>1, <2>2 DEF PluginsRecorded, External, Plugins
    <3>3. PluginsRecorded'
      BY <3>1, <3>2, <1>1, <2>1 DEF PluginsRecorded
    <3>4. "envKey" \in HadBefore <=> env.key # "none"
      BY DEF HadBefore
    <3>5. KeyRecorded'
      BY <3>1, <3>4, <1>1, <2>1 DEF KeyRecorded, Copying
    <3>6. BlockRecorded'
      BY <3>1, <1>1, <2>1 DEF BlockRecorded
    <3> QED BY <3>3, <3>5, <3>6
  <2> QED BY <1>1, <2>4, <2>5, <2>6, <2>7, <2>8 DEF ConnectorInv, PluginInv, LeftoversInv
<1> QED BY <1>2, <1>3 DEF Install

LEMMA RefuseKeeps ==
  ASSUME ConnectorInv, Refuse
  PROVE  ConnectorInv'
BY HomeKnown, OutsideKeeps DEF Refuse, Started, home

\* What a removal may take is what was recorded, hence no work of the user's.
LEMMA RemoveConnectorKeeps ==
  ASSUME ConnectorInv, RemoveConnector
  PROVE  ConnectorInv'
<1>1. /\ job = AtRest /\ removed' = FALSE /\ ~Modified
      /\ UNCHANGED <<release, plugin, marked, snippet, config, env, saved, record, touched, wrote, crashed>>
      /\ job' = [AtRest EXCEPT !.op = "remove", !.step = "plugins", !.take = Removable]
  BY DEF RemoveConnector, Started, home
<1>2. /\ job' = [op |-> "remove", step |-> "plugins", had |-> {}, owner |-> Unknown.owner, take |-> Removable]
      /\ Removable \subseteq Plugins
  BY <1>1 DEF AtRest, Removable
<1>3. /\ job'.op = "remove" /\ job'.step = "plugins" /\ job'.take = Removable /\ ~Installing' /\ RemovingNow'
      /\ ~Installing /\ ~RemovingNow
  BY <1>1, <1>2 DEF Installing, RemovingNow, AtRest
<1>4. job' \in Jobs
  BY <1>2 DEF Jobs, Removal, Unknown, Owners
<1>5. ConnectorTyped'
  BY <1>1, <1>3, <1>4 DEF ConnectorInv, PluginInv, ConnectorTyped, Removal
<1>6. ASSUME NEW p \in Removable, p \in touched PROVE <<p, Theirs>> \in saved
  <2>1. p \in Plugins /\ plugin[p] = record.plugins[p]
    BY <1>1, <1>6 DEF Modified, Removable
  <2>2. plugin[p] \in Releases \cup {Absent}
    BY <2>1 DEF ConnectorInv, PluginInv, RecordedIsOurs
  <2>3. plugin[p] # Theirs
    BY <2>2 DEF Releases, Absent, Theirs
  <2> QED BY <1>6, <2>1, <2>3 DEF ConnectorInv, PluginInv, PluginWorkIsKept
<1>7. CopiesAreSaved'
  BY <1>1, <1>3, <1>6 DEF CopiesAreSaved, At, Installing
<1>8. RecordedIsOurs' /\ PluginWorkIsKept' /\ RemovalLeavesNothing'
  BY <1>1 DEF ConnectorInv, PluginInv, RecordedIsOurs, PluginWorkIsKept, RemovalLeavesNothing
<1>9. MarkedIsHermes'
  BY <1>1, <1>3, HomeKnown DEF MarkedIsHermes, Removable
<1>10. ASSUME ~crashed PROVE PluginsRecorded' /\ KeyRecorded' /\ BlockRecorded'
  <2>1. PluginsRecorded /\ KeyRecorded /\ BlockRecorded
    BY <1>10 DEF ConnectorInv, LeftoversInv
  <2>2. \A p \in Plugins \cap wrote : plugin[p] # Absent => p \in Removable
    BY <2>1, <1>3 DEF PluginsRecorded, Removable
  <2>3. PluginsRecorded'
    BY <2>1, <2>2, <1>1, <1>3 DEF PluginsRecorded
  <2>4. KeyRecorded' /\ BlockRecorded'
    BY <2>1, <1>1, <1>3 DEF KeyRecorded, BlockRecorded
  <2> QED BY <2>3, <2>4
<1> QED BY <1>1, <1>5, <1>7, <1>8, <1>9, <1>10 DEF ConnectorInv, PluginInv, LeftoversInv

\* A step of a removal.
LEMMA RemovalMoves ==
  ASSUME ConnectorInv, RemovingNow, NEW x \in Removal, To(x),
         UNCHANGED <<release, record, removed, crashed, touched, marked, saved, wrote>>,
         plugin' \in [Plugins -> Int], snippet' \in Int, config' \in Configs,
         env' \in [there : BOOLEAN, key : Keys, rest : BOOLEAN],
         \A p \in Plugins : plugin'[p] = IF x = "files" /\ p \in job.take THEN Absent ELSE plugin[p]
  PROVE  /\ PluginInv' /\ RemovalLeavesNothing'
         /\ job'.step = x /\ job'.take = job.take /\ ~Installing /\ ~Installing' /\ RemovingNow'
<1>1. job \in Jobs /\ job.op # "none" /\ ConnectorTyped
  BY DEF ConnectorInv, PluginInv, ConnectorTyped, RemovingNow
<1>2. /\ job' \in Jobs /\ job'.step = x /\ job'.op = job.op /\ job'.owner = job.owner
      /\ job'.take = job.take
  BY <1>1 DEF To, Jobs
<1>3. RemovingNow' /\ ~Installing /\ ~Installing' /\ ~removed
  BY <1>1, <1>2 DEF Installing, RemovingNow, ConnectorTyped
<1>4. ConnectorTyped'
  BY <1>1, <1>2, <1>3 DEF ConnectorTyped, Installing, RemovingNow
<1>5. RecordedIsOurs' /\ RemovalLeavesNothing'
  BY <1>3 DEF ConnectorInv, PluginInv, RecordedIsOurs, RemovalLeavesNothing
<1>6. CopiesAreSaved'
  BY <1>2, <1>3 DEF ConnectorInv, PluginInv, CopiesAreSaved, At, Installing
<1>7. PluginWorkIsKept'
  BY DEF ConnectorInv, PluginInv, PluginWorkIsKept, CopiesAreSaved
<1>8. MarkedIsHermes'
  BY <1>2, <1>3 DEF ConnectorInv, PluginInv, MarkedIsHermes, Plugins
<1> QED BY <1>2, <1>3, <1>4, <1>5, <1>6, <1>7, <1>8 DEF PluginInv

LEMMA RemovePluginsKeeps ==
  ASSUME ConnectorInv, RemovePlugins
  PROVE  ConnectorInv'
<1>1. /\ RemovingNow /\ job.step = "plugins" /\ To("files")
      /\ UNCHANGED <<release, record, removed, crashed, touched, marked, saved, wrote, snippet, config, env>>
      /\ plugin' = [p \in Plugins |-> IF p \in job.take THEN Absent ELSE plugin[p]]
  BY DEF RemovePlugins, Removing, RemovingNow, Kept
<1>2. /\ plugin' \in [Plugins -> Int]
      /\ \A p \in Plugins : plugin'[p] = IF p \in job.take THEN Absent ELSE plugin[p]
  BY <1>1, HomeKnown DEF Absent
<1>3. "files" \in Removal
  BY DEF Removal
<1>4. /\ PluginInv' /\ RemovalLeavesNothing'
      /\ job'.step = "files" /\ job'.take = job.take /\ ~Installing /\ ~Installing' /\ RemovingNow'
  BY <1>1, <1>2, <1>3, HomeKnown, RemovalMoves
<1>5. ASSUME ~crashed PROVE PluginsRecorded' /\ KeyRecorded' /\ BlockRecorded'
  <2>1. PluginsRecorded /\ KeyRecorded /\ BlockRecorded
    BY <1>5 DEF ConnectorInv, LeftoversInv
  <2>2. \A p \in Plugins \cap wrote : plugin'[p] = Absent
    BY <2>1, <1>1, <1>2 DEF PluginsRecorded
  <2>3. PluginsRecorded'
    BY <2>1, <2>2, <1>1, <1>4 DEF PluginsRecorded
  <2>4. KeyRecorded' /\ BlockRecorded'
    BY <2>1, <1>1, <1>4 DEF KeyRecorded, BlockRecorded
  <2> QED BY <2>3, <2>4
<1> QED BY <1>1, <1>4, <1>5 DEF ConnectorInv, LeftoversInv

LEMMA RemoveFilesKeeps ==
  ASSUME ConnectorInv, RemoveFiles
  PROVE  ConnectorInv'
<1>1. /\ RemovingNow /\ job.step = "files" /\ To("config")
      /\ UNCHANGED <<release, record, removed, crashed, touched, marked, saved, wrote, plugin, config>>
      /\ snippet' = Absent /\ env' = EnvWithout
  BY DEF RemoveFiles, Removing, RemovingNow, Kept
<1>2. /\ env' \in [there : BOOLEAN, key : Keys, rest : BOOLEAN]
      /\ env'.key = IF "envKey" \in record.created THEN "none" ELSE env.key
  BY <1>1, HomeKnown DEF EnvWithout, NoEnv, Keys
<1>3. "config" \in Removal /\ snippet' \in Int /\ "config" # "files"
  BY <1>1 DEF Removal, Absent
<1>4. /\ PluginInv' /\ RemovalLeavesNothing'
      /\ job'.step = "config" /\ job'.take = job.take /\ ~Installing /\ ~Installing' /\ RemovingNow'
  BY <1>1, <1>2, <1>3, HomeKnown, RemovalMoves
<1>5. ASSUME ~crashed PROVE PluginsRecorded' /\ KeyRecorded' /\ BlockRecorded'
  <2>1. PluginsRecorded /\ KeyRecorded /\ BlockRecorded
    BY <1>5 DEF ConnectorInv, LeftoversInv
  <2>2. PluginsRecorded'
    BY <2>1, <1>1, <1>4 DEF PluginsRecorded
  <2>3. KeyRecorded'
    BY <2>1, <1>1, <1>2, <1>4 DEF KeyRecorded
  <2>4. BlockRecorded'
    BY <2>1, <1>1, <1>4 DEF BlockRecorded
  <2> QED BY <2>2, <2>3, <2>4
<1> QED BY <1>1, <1>4, <1>5 DEF ConnectorInv, LeftoversInv

LEMMA RemoveConfigKeeps ==
  ASSUME ConnectorInv, RemoveConfig
  PROVE  ConnectorInv'
<1>1. /\ RemovingNow /\ job.step = "config" /\ To("unregister")
      /\ UNCHANGED <<release, record, removed, crashed, touched, marked, saved, wrote, plugin, snippet, env>>
      /\ config' = ConfigWithout
  BY DEF RemoveConfig, Removing, RemovingNow, Kept
<1>2. /\ config' \in Configs
      /\ config'.block = IF record.managed /\ config.there THEN Absent ELSE config.block
  BY <1>1, HomeKnown DEF ConfigWithout, NoConfig, Configs, Absent
<1>3. "unregister" \in Removal /\ "unregister" # "files"
  BY DEF Removal
<1>4. /\ PluginInv' /\ RemovalLeavesNothing'
      /\ job'.step = "unregister" /\ job'.take = job.take /\ ~Installing /\ ~Installing' /\ RemovingNow'
  BY <1>1, <1>2, <1>3, HomeKnown, RemovalMoves
<1>5. ASSUME ~crashed PROVE PluginsRecorded' /\ KeyRecorded' /\ BlockRecorded'
  <2>1. PluginsRecorded /\ KeyRecorded /\ BlockRecorded
    BY <1>5 DEF ConnectorInv, LeftoversInv
  <2>2. PluginsRecorded' /\ KeyRecorded'
    BY <2>1, <1>1, <1>4 DEF PluginsRecorded, KeyRecorded
  <2>3. config'.block = Absent
    BY <2>1, <1>2, <1>4 DEF BlockRecorded
  <2>4. BlockRecorded'
    BY <2>3 DEF BlockRecorded
  <2> QED BY <2>2, <2>4
<1> QED BY <1>1, <1>4, <1>5 DEF ConnectorInv, LeftoversInv

\* A command that ends, by its last step or because it is killed, owns nothing any more.
LEMMA EndsAtRest ==
  ASSUME ConnectorInv, job' = AtRest, record' \in {record, Unknown},
         UNCHANGED <<release, marked, snippet, config, env, saved, touched, wrote>>,
         plugin' \in [Plugins -> Int], removed' \in BOOLEAN, crashed' \in BOOLEAN,
         \A p \in Plugins : \/ plugin'[p] = plugin[p]
                            \/ plugin'[p] # Absent /\ (p \in touched => <<p, Theirs>> \in saved)
  PROVE  PluginInv' /\ ~Installing' /\ ~RemovingNow'
<1>1. /\ job'.op = "none" /\ job'.step = "none" /\ job'.take = {} /\ ~Installing' /\ ~RemovingNow'
  BY DEF AtRest, Installing, RemovingNow
<1>2. Unknown \in Records /\ job' \in Jobs
  BY DEF AtRest, Jobs, Unknown, Owners, Marks, Records, Configs, Keys, NoConfig, Absent
<1>3. ConnectorTyped'
  BY <1>1, <1>2 DEF ConnectorInv, PluginInv, ConnectorTyped
<1>4. CopiesAreSaved'
  BY <1>1 DEF CopiesAreSaved, At, Installing
<1>5. RecordedIsOurs'
  BY DEF ConnectorInv, PluginInv, RecordedIsOurs, Unknown
<1>6. PluginWorkIsKept'
  BY DEF ConnectorInv, PluginInv, PluginWorkIsKept
<1>7. MarkedIsHermes'
  BY <1>1 DEF ConnectorInv, PluginInv, MarkedIsHermes, Plugins
<1> QED BY <1>1, <1>3, <1>4, <1>5, <1>6, <1>7 DEF PluginInv

LEMMA UnregisterKeeps ==
  ASSUME ConnectorInv, Unregister
  PROVE  ConnectorInv'
<1>1. /\ RemovingNow /\ job.step = "unregister" /\ job' = AtRest /\ record' = Unknown /\ removed' = TRUE
      /\ UNCHANGED <<release, crashed, touched, marked, saved, wrote, plugin, config, snippet, env>>
      /\ crashed \in BOOLEAN
  BY DEF Unregister, Removing, RemovingNow, Kept, home, ConnectorInv, PluginInv, ConnectorTyped
<1>2. PluginInv' /\ ~Installing' /\ ~RemovingNow'
  BY <1>1, HomeKnown, EndsAtRest
<1>3. ASSUME ~crashed PROVE PluginsRecorded' /\ KeyRecorded' /\ BlockRecorded' /\ RemovalLeavesNothing'
  <2>1. PluginsRecorded /\ KeyRecorded /\ BlockRecorded
    BY <1>3 DEF ConnectorInv, LeftoversInv
  <2>2. /\ \A p \in Plugins \cap wrote : plugin[p] = Absent /\ (p = "compression" => ~marked)
        /\ "env" \in wrote => env.key # "token" /\ env.key # "users"
        /\ config.block = Absent
    BY <2>1, <1>1 DEF PluginsRecorded, KeyRecorded, BlockRecorded
  <2> QED BY <2>2, <1>1, <1>2 DEF PluginsRecorded, KeyRecorded, BlockRecorded, RemovalLeavesNothing
<1> QED BY <1>1, <1>2, <1>3 DEF ConnectorInv, LeftoversInv, RemovalLeavesNothing

LEMMA KilledKeeps ==
  ASSUME ConnectorInv, Killed
  PROVE  ConnectorInv'
<1>1. /\ job' = AtRest /\ crashed' = TRUE /\ record' \in {record, Unknown} /\ removed' = removed
      /\ UNCHANGED <<release, touched, marked, saved, wrote, config, snippet, env>>
      /\ \/ plugin' = plugin
         \/ \E p \in Plugins : At(Partway(p)) /\ plugin' = [plugin EXCEPT ![p] = CutShort]
  BY DEF Killed, home
<1>2. CutShort \in Int /\ CutShort # Absent
  BY DEF CutShort, Absent
<1>3. /\ plugin' \in [Plugins -> Int]
      /\ \A p \in Plugins : \/ plugin'[p] = plugin[p]
                            \/ plugin'[p] # Absent /\ (p \in touched => <<p, Theirs>> \in saved)
  <2>1. CASE plugin' = plugin
    BY <2>1, HomeKnown
  <2>2. CASE \E p \in Plugins : At(Partway(p)) /\ plugin' = [plugin EXCEPT ![p] = CutShort]
    <3>1. PICK p \in Plugins : At(Partway(p)) /\ plugin' = [plugin EXCEPT ![p] = CutShort]
      BY <2>2
    <3>2. p \in touched => <<p, Theirs>> \in saved
      BY <3>1 DEF ConnectorInv, PluginInv, CopiesAreSaved
    <3> QED BY <3>1, <3>2, <1>2, HomeKnown
  <2> QED BY <1>1, <2>1, <2>2
<1>4. removed' \in BOOLEAN
  BY <1>1 DEF ConnectorInv, PluginInv, ConnectorTyped
<1>5. PluginInv'
  BY <1>1, <1>3, <1>4, HomeKnown, EndsAtRest
<1> QED BY <1>1, <1>5 DEF ConnectorInv, LeftoversInv, RemovalLeavesNothing

LEMMA ConnectorInvStutters ==
  ASSUME ConnectorInv, UNCHANGED connectorVars
  PROVE  ConnectorInv'
BY DEF connectorVars, home, ConnectorInv, PluginInv, ConnectorTyped, CopiesAreSaved, RecordedIsOurs, MarkedIsHermes,
   PluginWorkIsKept, LeftoversInv, PluginsRecorded, KeyRecorded, BlockRecorded, RemovalLeavesNothing,
   Installing, RemovingNow, Past, At

LEMMA ConnectorInvHolds == ConnectorInv /\ [ConnectorNext]_connectorVars => ConnectorInv'
<1> SUFFICES ASSUME ConnectorInv, [ConnectorNext]_connectorVars PROVE ConnectorInv'
  OBVIOUS
<1>1. CASE \E p \in Plugins : EditPlugin(p) \/ ClearPlugin(p) \/ CopyPlugin(p)
  BY <1>1, EditPluginKeeps, ClearPluginKeeps, CopyPluginKeeps
<1>2. CASE EditConfig \/ EditEnv \/ HermesInstalls \/ HermesRemoves \/ Update
  BY <1>2, EditConfigKeeps, EditEnvKeeps, HermesKeeps, UpdateKeeps
<1>3. CASE \E op \in {"install", "refresh"} : Install(op)
  BY <1>3, InstallKeeps
<1>4. CASE SeedEnv \/ WriteSnippet \/ WriteConfig \/ Register
  BY <1>4, SeedEnvKeeps, WriteSnippetKeeps, WriteConfigKeeps, RegisterKeeps
<1>5. CASE RemoveConnector \/ Refuse \/ RemovePlugins \/ RemoveFiles \/ RemoveConfig \/ Unregister
  BY <1>5, RemoveConnectorKeeps, RefuseKeeps, RemovePluginsKeeps, RemoveFilesKeeps, RemoveConfigKeeps,
     UnregisterKeeps
<1>6. CASE Killed
  BY <1>6, KilledKeeps
<1>7. CASE UNCHANGED connectorVars
  BY <1>7, ConnectorInvStutters
<1> QED BY <1>1, <1>2, <1>3, <1>4, <1>5, <1>6, <1>7 DEF ConnectorNext

\* While Hermes's marker is there no command of Ficelle's changes the copy it marks: a copy is
\* only cleared or made where Ficelle is the owner, and no removal lists it.
LEMMA CommandsLeaveHermes ==
  ASSUME ConnectorInv, ConnectorNext, job' # job
  PROVE  (marked => plugin'["compression"] = plugin["compression"]) /\ flat' = flat
<1>1. flat' = flat
  BY DEF ConnectorNext, EditPlugin, ClearPlugin, CopyPlugin, EditConfig, EditEnv, HermesInstalls, HermesRemoves, Update,
     Install, SeedEnv, WriteSnippet, WriteConfig, Register, RemoveConnector, Refuse, RemovePlugins, RemoveFiles,
     RemoveConfig, Unregister, Killed, Elsewhere, home
<1>2. ASSUME marked PROVE plugin'["compression"] = plugin["compression"]
  <2>1. /\ "compression" \in Plugins /\ "compression" \notin job.take
        /\ Installing => job.owner["compression"] = "hermes"
        /\ plugin \in [Plugins -> Int]
    BY <1>2, HomeKnown DEF ConnectorInv, PluginInv, MarkedIsHermes, Plugins
  <2>2. ~At(Partway("compression"))
    BY <2>1 DEF ConnectorInv, PluginInv, CopiesAreSaved, At, Installing
  <2>3. CASE \E p \in Plugins : ClearPlugin(p)
    <3>1. PICK p \in Plugins : ClearPlugin(p)
      BY <2>3
    <3>2. p = "compression" => plugin' = plugin
      BY <3>1, <2>1 DEF ClearPlugin, At, Installing
    <3> QED BY <3>1, <3>2, <2>1 DEF ClearPlugin
  <2>4. CASE \E p \in Plugins : CopyPlugin(p)
    <3>1. PICK p \in Plugins : CopyPlugin(p)
      BY <2>4
    <3>2. p # "compression"
      BY <3>1, <2>2 DEF CopyPlugin
    <3> QED BY <3>1, <3>2, <2>1 DEF CopyPlugin
  <2>5. CASE RemovePlugins
    BY <2>5, <2>1 DEF RemovePlugins
  <2>6. CASE Killed
    <3>1. CASE plugin' = plugin
      BY <3>1
    <3>2. CASE \E p \in Plugins : At(Partway(p)) /\ plugin' = [plugin EXCEPT ![p] = CutShort]
      <4>1. PICK p \in Plugins : At(Partway(p)) /\ plugin' = [plugin EXCEPT ![p] = CutShort]
        BY <3>2
      <4>2. p # "compression"
        BY <4>1, <2>2
      <4> QED BY <4>1, <4>2, <2>1
    <3> QED BY <2>6, <3>1, <3>2 DEF Killed, home
  <2>7. CASE plugin' = plugin
    BY <2>7
  <2> QED BY <2>3, <2>4, <2>5, <2>6, <2>7 DEF ConnectorNext, EditPlugin, EditConfig, EditEnv, HermesInstalls,
            HermesRemoves, Update, Install, SeedEnv, WriteSnippet, WriteConfig, Register, RemoveConnector, Refuse,
            RemoveFiles, RemoveConfig, Unregister, Elsewhere, home
<1> QED BY <1>1, <1>2

\* Through installs, refreshes, removals and kills the user's plugins are kept in place or in a
\* backup, what Hermes manages is left alone by every command, and a removal after which nothing
\* was killed leaves no plugin, key or block of Ficelle's (install.py, connector_registry.py).
THEOREM ConnectorStaysSafe == ConnectorSpec => ConnectorIsSafe
<1>1. ConnectorInit => ConnectorInv
  BY ConnectorInitInv
<1>2. ConnectorInv /\ [ConnectorNext]_connectorVars => ConnectorInv'
  BY ConnectorInvHolds
<1>3. ConnectorInv => PluginWorkIsKept /\ RemovalLeavesNothing
  BY DEF ConnectorInv, PluginInv
<1>4. ConnectorInv /\ [ConnectorNext]_connectorVars =>
          [job' # job => /\ marked => plugin'["compression"] = plugin["compression"]
                         /\ flat' = flat]_connectorVars
  BY CommandsLeaveHermes
<1> QED BY <1>1, <1>2, <1>3, <1>4, PTL DEF ConnectorSpec, ConnectorIsSafe, HermesCopyIsUntouched
==============================================================================
