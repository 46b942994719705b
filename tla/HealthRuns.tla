----------------------------- MODULE HealthRuns -----------------------------
(***************************************************************************)
(* The synthetic health harness and its run directories                    *)
(* (synthetic_health.py): command-line processes that start a run, resume  *)
(* an interrupted one or re-run what failed, one at a time under two file  *)
(* locks taken without waiting.  A run is a journal of planned and outcome *)
(* rows flushed one by one, a run.json rewritten as it advances, and a     *)
(* summary written before run.json says that the run is over.  A process   *)
(* may die between any two writes and in the middle of an append.          *)
(*                                                                         *)
(* A run is a number; the corpus is what the current identity (versions,   *)
(* configuration, catalog, build) makes of it: the preflight, then live    *)
(* cases.  What a case is told is the module HealthEvidence.               *)
(***************************************************************************)
EXTENDS Naturals, Sequences, FiniteSets, FiniteSetsExt, SequencesExt

CONSTANTS
    Procs,          \* processes of the command line
    Nobody,
    Preflight,
    Corpus,         \* identities in the order they come, each with its live cases
    Statuses,       \* of the outcome of a live case
    Keep,           \* synthetic_health.retention_runs
    Pinned,         \* synthetic_health.pinned_run_ids
    MaxRuns,        \* bound of the runs started
    MaxSittings     \* bound of the times a run is started or resumed

VARIABLES
    holder,         \* who holds the run lock and the probe lock
    identity,       \* what corpus_hash, catalog_identity and the other checks see
    disk,           \* the run directories
    newest,         \* the directories with a run.json, newest first
    started,        \* runs and sittings there were: [runs, sittings]
    proc            \* the processes

healthVars == <<holder, identity, disk, newest, started, proc>>

ASSUME HealthConstants ==
    /\ Nobody \notin Procs /\ MaxRuns \in Nat
    /\ Corpus # <<>> /\ Corpus \in Seq(Seq(UNION {Range(Corpus[i]) : i \in DOMAIN Corpus}))
    /\ Keep \in Nat /\ MaxSittings \in Nat

Runs == 1..MaxRuns
NoRun == 0
Outcomes(c) == IF c = Preflight THEN {"pass", "harness_error"} ELSE Statuses

PlanOf(i) == <<Preflight>> \o Corpus[i]

\* A directory without its run.json, as it is made and as it is after an rmtree.
Unwritten ==
    [status |-> "none", plan |-> <<>>, identity |-> 0, parent |-> NoRun,
     journal |-> <<>>, snapshot |-> FALSE, summary |-> <<>>]
\* What a process remembers of run.json.
Metadata(plan, i, parent) == [plan |-> plan, identity |-> i, parent |-> parent]
Idle ==
    [pc |-> "idle", run |-> NoRun, meta |-> Metadata(<<>>, 0, NoRun), fresh |-> FALSE, chosen |-> {},
     at |-> 0, done |-> {}, sitting |-> 0, incomplete |-> FALSE]

HealthInit ==
    /\ holder = Nobody
    /\ identity = 1
    /\ disk = [r \in Runs |-> Unwritten]
    /\ newest = <<>>
    /\ started = [runs |-> 0, sittings |-> 0]
    /\ proc = [p \in Procs |-> Idle]

-----------------------------------------------------------------------------
\* The journal

Torn == [event |-> "torn"]
Planned == [event |-> "planned"]
Row(c, status, sitting) ==
    [event |-> "outcome", case |-> c, status |-> status, sitting |-> sitting]

\* A row appended after a torn tail shares its line, which no reader can parse.
\* Neither that line nor a planned row is looked for again, so none is kept.
Appended(journal, row) ==
    LET torn == journal # <<>> /\ Last(journal) = Torn
        whole == IF torn THEN Front(journal) ELSE journal
    IN IF row = Torn THEN Append(whole, Torn)
       ELSE IF torn \/ row = Planned THEN whole
       ELSE Append(whole, row)

OutcomeRows(journal) == {k \in DOMAIN journal : journal[k].event = "outcome"}
\* latest_case_outcomes: the last outcome of each case that has one.
Latest(journal) ==
    [c \in {journal[k].case : k \in OutcomeRows(journal)} |->
        journal[Max({k \in OutcomeRows(journal) : journal[k].case = c})].status]

Findings(latest) == {c \in DOMAIN latest : latest[c] # "pass"}

\* What the summary calls the whole; the variant lets an interruption hide a breach.
IncompleteFirst(latest, plan, incomplete) ==
    IF incomplete \/ Cardinality(DOMAIN latest) < Len(plan) THEN "incomplete"
    ELSE IF "safety_breach" \in Range(latest) THEN "safety_breach"
    ELSE IF "fail" \in Range(latest) THEN "fail" ELSE "pass"
Overall(latest, plan, incomplete) ==
    IF "safety_breach" \in Range(latest) THEN "safety_breach"
    ELSE IF \/ incomplete
            \/ "harness_error" \in Range(latest)
            \/ Cardinality(DOMAIN latest) < Len(plan) THEN "incomplete"
    ELSE IF "fail" \in Range(latest) THEN "fail" ELSE "pass"

\* The runs a new one may be compared with, the last summarised first.
Comparable(r) ==
    SelectSeq(newest, LAMBDA q :
        /\ q # r
        /\ disk[q].summary # <<>>
        /\ disk[q].parent = NoRun
        /\ ~disk[q].summary.incomplete)
Baseline(r) == IF Comparable(r) = <<>> THEN NoRun ELSE Head(Comparable(r))

Summary(r, plan, incomplete) ==
    LET latest == Latest(disk[r].journal)
        before == IF Baseline(r) = NoRun THEN {} ELSE disk[Baseline(r)].summary.findings
    IN [overall |-> Overall(latest, plan, incomplete),
        incomplete |-> incomplete,
        done |-> DOMAIN latest,
        findings |-> Findings(latest),
        baseline |-> Baseline(r),
        recovered |-> IF incomplete THEN {} ELSE before \ Findings(latest)]

-----------------------------------------------------------------------------
\* Taking the locks

Touch(r) == newest' = <<r>> \o SelectSeq(newest, LAMBDA q : q # r)
Become(p, rec) == proc' = [proc EXCEPT ![p] = rec]
Write(r, field, value) == disk' = [disk EXCEPT ![r][field] = value]

\* A catalog refresh, a saved configuration or an upgrade.
IdentityChanges ==
    /\ identity < Len(Corpus)
    /\ identity' = identity + 1
    /\ UNCHANGED <<holder, disk, newest, started, proc>>

\* resume_synthetic_health reads run.json and the snapshot before it has the
\* locks, and rerun_failed_synthetic_health the outcomes it will run again.
Load(p, r, want) ==
    LET failed == Findings(Latest(disk[r].journal)) \ {Preflight}
    IN /\ proc[p].pc = "idle"
       /\ disk[r].status # "none"
       /\ IF want = "resume" THEN disk[r].snapshot ELSE failed # {}
       /\ Become(p, [Idle EXCEPT !.pc = want, !.run = r,
                                 !.meta = IF want = "rerun" THEN Idle.meta ELSE
                                     Metadata(disk[r].plan, disk[r].identity, disk[r].parent),
                                 !.chosen = IF want = "resume" THEN {} ELSE failed])
       /\ UNCHANGED <<holder, identity, disk, newest, started>>

Sit(p, rec) ==
    /\ started.sittings < MaxSittings
    /\ holder' = p
    /\ Become(p, [rec EXCEPT !.sitting = started.sittings + 1])

\* The n-th of a set of numbers.
Nth(S, n) == CHOOSE x \in S : Cardinality({y \in S : y <= x}) = n

\* The corpus of now, or what the selection keeps of it.
Selected(chosen) ==
    LET all == PlanOf(identity)
        kept == {k \in DOMAIN all : chosen = {} \/ all[k] = Preflight \/ all[k] \in chosen}
    IN [n \in 1..Cardinality(kept) |-> all[Nth(kept, n)]]

\* run_synthetic_health: a directory of its own, with nothing in it yet.
Begin(p) ==
    LET r == started.runs + 1
    IN /\ proc[p].pc \in {"idle", "rerun"}
       /\ holder = Nobody
       /\ r \in Runs
       /\ Sit(p, [Idle EXCEPT !.pc = "made", !.run = r, !.fresh = TRUE,
                              !.meta = Metadata(Selected(proc[p].chosen), identity,
                                                proc[p].run)])
       /\ started' = [runs |-> r, sittings |-> started.sittings + 1]
       /\ UNCHANGED <<identity, disk, newest>>

\* The metadata of p in run.json, its run running.
Running(p) ==
    LET meta == proc[p].meta
    IN disk' = [disk EXCEPT ![proc[p].run] =
                   [@ EXCEPT !.status = "running", !.plan = meta.plan,
                             !.identity = meta.identity, !.parent = meta.parent]]

Record(p) ==
    LET r == proc[p].run
    IN /\ proc[p].pc = "made"
       /\ Running(p)
       /\ Touch(r)
       /\ Become(p, [proc[p] EXCEPT !.pc = "recorded"])
       /\ UNCHANGED <<holder, identity, started>>

Snapshot(p) ==
    /\ proc[p].pc = "recorded"
    /\ Write(proc[p].run, "snapshot", TRUE)
    /\ Become(p, [proc[p] EXCEPT !.pc = "next"])
    /\ UNCHANGED <<holder, identity, newest, started>>

\* The identity checks of a resume, then the metadata read earlier written back
\* as running; the outcomes it starts from are read now.
Resume(p) ==
    LET r == proc[p].run
    IN /\ proc[p].pc = "resume"
       /\ holder = Nobody
       /\ proc[p].meta.identity = identity
       /\ Sit(p, [proc[p] EXCEPT !.pc = "next", !.at = 0,
                                 !.done = DOMAIN Latest(disk[r].journal)])
       /\ started' = [started EXCEPT !.sittings = @ + 1]
       /\ Running(p)
       /\ Touch(r)
       /\ UNCHANGED identity

\* An identity that changed, or SyntheticHealthBusy, whoever has a lock: this
\* may be another probe, or a status check that holds the run lock for an instant.
Refused(p) ==
    /\ proc[p].pc \in {"resume", "rerun"}
    /\ Become(p, Idle)
    /\ UNCHANGED <<holder, identity, disk, newest, started>>

-----------------------------------------------------------------------------
\* The loop of _run_cases

\* The cases still to run: a completed one is not run again, the preflight is.
Ahead(p) ==
    {k \in DOMAIN proc[p].meta.plan :
        /\ k > proc[p].at
        /\ \/ proc[p].meta.plan[k] \notin proc[p].done
           \/ proc[p].meta.plan[k] = Preflight}

Stop(p, incomplete) ==
    Become(p, [proc[p] EXCEPT !.pc = "summing", !.incomplete = incomplete])

Deadline(p) ==
    /\ proc[p].pc = "next" /\ Ahead(p) # {}
    /\ Stop(p, TRUE)
    /\ UNCHANGED <<holder, identity, disk, newest, started>>

PlanCase(p) ==
    LET k == Min(Ahead(p))
    IN /\ proc[p].pc = "next" /\ Ahead(p) # {}
       /\ Write(proc[p].run, "journal", Appended(disk[proc[p].run].journal, Planned))
       /\ Become(p, [proc[p] EXCEPT !.pc = "planned", !.at = k])
       /\ UNCHANGED <<holder, identity, newest, started>>

\* The outcome of the case; a breach ends the run, and a preflight that fails.
RunCase(p) ==
    LET c == proc[p].meta.plan[proc[p].at]
    IN /\ proc[p].pc = "planned"
       /\ \E s \in Outcomes(c) :
            /\ Write(proc[p].run, "journal",
                     Appended(disk[proc[p].run].journal, Row(c, s, proc[p].sitting)))
            /\ IF s = "safety_breach" \/ (c = Preflight /\ s # "pass") THEN Stop(p, TRUE)
               ELSE Become(p, [proc[p] EXCEPT !.pc = "next"])
       /\ UNCHANGED <<holder, identity, newest, started>>

LoopEnds(p) ==
    /\ proc[p].pc = "next" /\ Ahead(p) = {}
    /\ Stop(p, FALSE)
    /\ UNCHANGED <<holder, identity, disk, newest, started>>

-----------------------------------------------------------------------------
\* _finalize_run, and what comes after it

Summarize(p) ==
    /\ proc[p].pc = "summing"
    /\ Write(proc[p].run, "summary", Summary(proc[p].run, proc[p].meta.plan, proc[p].incomplete))
    /\ Become(p, [proc[p] EXCEPT !.pc = "closing"])
    /\ UNCHANGED <<holder, identity, newest, started>>

\* Only a run that was started here applies the retention; a resume does not.
Close(p) ==
    /\ proc[p].pc = "closing"
    /\ Write(proc[p].run, "status", IF proc[p].incomplete THEN "incomplete" ELSE "completed")
    /\ IF ~proc[p].fresh
       THEN Become(p, Idle) /\ holder' = Nobody
       ELSE Become(p, [proc[p] EXCEPT !.pc = "pruning"]) /\ UNCHANGED holder
    /\ UNCHANGED <<identity, newest, started>>

Unpinned == SelectSeq(newest, LAMBDA q : q \notin Pinned)
Expired == {Unpinned[k] : k \in (Keep + 1)..Len(Unpinned)}
Prune(p) ==
    /\ proc[p].pc = "pruning"
    /\ disk' = [r \in Runs |-> IF r \in Expired THEN Unwritten ELSE disk[r]]
    /\ newest' = SelectSeq(newest, LAMBDA q : q \notin Expired)
    /\ Become(p, Idle)
    /\ holder' = Nobody
    /\ UNCHANGED <<identity, started>>

\* The process dies; in the middle of an append it leaves half a row behind.
Crash(p) ==
    LET r == proc[p].run
    IN /\ holder = p
       /\ holder' = Nobody
       /\ Become(p, Idle)
       /\ \/ UNCHANGED disk
          \/ /\ proc[p].pc \in {"planned", "next"} /\ (proc[p].pc = "next" => Ahead(p) # {})
             /\ Write(r, "journal", Appended(disk[r].journal, Torn))
       /\ UNCHANGED <<identity, newest, started>>

HealthNext ==
    \/ IdentityChanges
    \/ \E p \in Procs :
        \/ \E r \in Runs, want \in {"resume", "rerun"} : Load(p, r, want)
        \/ Begin(p) \/ Record(p) \/ Snapshot(p) \/ Resume(p) \/ Refused(p)
        \/ Deadline(p) \/ PlanCase(p) \/ RunCase(p) \/ LoopEnds(p)
        \/ Summarize(p) \/ Close(p) \/ Prune(p) \/ Crash(p)

HealthSpec == HealthInit /\ [][HealthNext]_healthVars

-----------------------------------------------------------------------------
\* What the harness promises of its runs

Over == {r \in Runs : disk[r].status \in {"completed", "incomplete"}}
LatestOf(r) == Latest(disk[r].journal)

\* The verdict of a run that is over is a verdict on the whole plan: the
\* summary counts what the journal holds, a verdict that is not "incomplete"
\* has an outcome for every case and a preflight that passed last, and a breach
\* is what the run is called however often it is resumed (_finalize_run,
\* build_summary).
ConclusionsAreWhole ==
    \A r \in Over :
        LET s == disk[r].summary
        IN /\ s # <<>>
           /\ s.done = DOMAIN LatestOf(r) /\ s.findings = Findings(LatestOf(r))
           /\ (s.overall \in {"pass", "fail"} =>
                  /\ s.done = Range(disk[r].plan)
                  /\ LatestOf(r)[Preflight] = "pass")
           /\ ("safety_breach" \in Range(LatestOf(r)) => s.overall = "safety_breach")

\* No live case is decided by a process whose own preflight has not passed: the
\* service that answers after an interruption is not the one that was checked
\* (the comment at the head of the loop).
PreflightCoversEachSitting ==
    \A r \in Runs : \A k \in OutcomeRows(disk[r].journal) :
        LET row == disk[r].journal[k]
        IN row.case # Preflight =>
               \/ \E j \in 1..(k - 1) :
                     /\ disk[r].journal[j].event = "outcome"
                     /\ disk[r].journal[j].case = Preflight
                     /\ disk[r].journal[j].status = "pass"
                     /\ disk[r].journal[j].sitting = row.sitting

\* A finding the summary calls recovered belongs to a case that has left the
\* plan or that passed in this run (the comparison of build_summary).
RecoveryIsObserved ==
    \A r \in Over : \A c \in disk[r].summary.recovered \cap Range(disk[r].plan) :
        c \in DOMAIN LatestOf(r) /\ LatestOf(r)[c] = "pass"

\* A harness run that is over says of its whole plan what its journal holds, nothing in it was
\* decided before its own preflight passed, and nothing is called recovered that did not pass
\* (synthetic_health.py, _run_cases, _finalize_run, build_summary).
RunsConclude == ConclusionsAreWhole /\ PreflightCoversEachSitting /\ RecoveryIsObserved
=============================================================================
