----------------------------- MODULE StateStore -----------------------------
(***************************************************************************)
(* The runtime state file of state_store.py: one JSON file that threads of *)
(* the service, the benchmark and the command line rewrite whole, each     *)
(* under a lock that spans threads and processes.  A write first copies    *)
(* the file to the backups (at most one in backup_min_interval_seconds,    *)
(* backup_keep of them), loads it, mutates a copy, merges the copy with    *)
(* what it loaded and replaces the file.  An unreadable file is read as    *)
(* the newest readable backup.                                             *)
(*                                                                         *)
(* Of the state three kinds of data are told apart, because the merge      *)
(* treats them differently: evidence rows (benchmark_results and           *)
(* verified_capabilities, newest stamp wins), one slot of quality feedback *)
(* (highest revision wins, expired slots go) and the rest, which is what   *)
(* the last writer had.                                                    *)
(***************************************************************************)
EXTENDS Naturals, Sequences, FiniteSets

CONSTANTS
    Rows,          \* model/profile pairs with evidence
    Probers,       \* probes and requests that produce evidence
    Clients,       \* operators that post quality feedback
    Repairer,      \* a holder of a whole-state snapshot (StateStore.write)
    Nobody,
    BackupKeep,    \* backup_keep
    SlotExpiry,    \* when the attributed request leaves the request log
    MaxNow,        \* clock (bound)
    MaxRevision,   \* revisions of the slot (bound)
    MaxIncidents   \* unreadable files and torn backups (bound)

ASSUME KeepsSome == BackupKeep \in Nat \ {0}
ASSUME Times == MaxNow \in Nat \ {0} /\ SlotExpiry \in Nat /\ MaxRevision \in Nat /\ MaxIncidents \in Nat

Writers == Probers \cup Clients \cup {Repairer}
ASSUME WritersDistinct == /\ Nobody \notin Writers /\ Repairer \notin Probers \cup Clients
                          /\ Probers \cap Clients = {}

VARIABLES
    file,       \* state.json: a state, or Unreadable
    backups,    \* the backups, oldest first
    recent,     \* the newest backup is younger than the minimal interval
    lock,       \* holder of the state lock
    job,        \* [Writers -> what the holder will write, NoJob before]
    probe,      \* [Probers -> the evidence a probe brings home, NoProbe before]
    client,     \* [Clients -> where a feedback post stands]
    snapshot,   \* the whole state the repairer read, or NoSnapshot
    now, incidents,
    newest,     \* [Rows -> the youngest evidence a finished update brought]
    applied,    \* [Clients -> revisions its present post has created]
    accepted    \* revisions created

vars == <<file, backups, recent, lock, job, probe, client, snapshot, now, incidents, newest, applied, accepted>>
store == <<file, backups, recent, lock, job>>
actors == <<probe, client, snapshot>>
ghosts == <<newest, applied, accepted>>

NoRow == [at |-> 0, by |-> Nobody]
NoSlot == [rev |-> 0, by |-> Nobody]
EmptyState == [rows |-> [r \in Rows |-> NoRow], slot |-> NoSlot]
Unreadable == [rows |-> [r \in Rows |-> NoRow], slot |-> [rev |-> MaxRevision + 1, by |-> Nobody]]
NoJob == [base |-> Unreadable, next |-> Unreadable]
NoProbe == [row |-> Nobody, at |-> 0]
NoSnapshot == Unreadable

Readable(s) == s # Unreadable

------------------------------------------------------------------------------
(* Reading.                                                                *)

\* Mutant: an unreadable file is read as an empty one.
RestoredNever == EmptyState

\* _restore_from_backup: the newest readable one.
Restored ==
    LET good == {i \in DOMAIN backups : Readable(backups[i])} IN
    IF good = {} THEN EmptyState
    ELSE backups[CHOOSE i \in good : \A j \in good : j <= i]

Load == IF Readable(file) THEN file ELSE Restored

------------------------------------------------------------------------------
(* Merging.                                                                *)

\* Mutant: the writer's row always wins.
MergedRowLast(current, incoming) == IF incoming.at > 0 THEN incoming ELSE current

\* merge_runtime_history_rows: younger evidence wins, equal stamps go to the
\* incoming row, a row the writer does not have stays.
MergedRow(current, incoming) == IF incoming.at >= current.at THEN incoming ELSE current

\* merge_quality_feedback_history: expired slots go, the higher revision wins.
Live(slot) == IF now < SlotExpiry THEN slot ELSE NoSlot

\* Mutant: the writer's slot always wins.
MergedSlotLast(current, incoming) ==
    IF Live(incoming).rev > 0 THEN Live(incoming) ELSE Live(current)

MergedSlot(current, incoming) ==
    IF Live(incoming).rev > Live(current).rev THEN Live(incoming) ELSE Live(current)

Merge(current, incoming) ==
    [rows |-> [r \in Rows |-> MergedRow(current.rows[r], incoming.rows[r])],
     slot |-> MergedSlot(current.slot, incoming.slot)]

------------------------------------------------------------------------------
(* Writing.  Lock, backup, load and mutate are one step: nothing of it is  *)
(* written yet.  The file is replaced in a second one.                     *)

\* rotate_backups.
Kept(files) == SubSeq(files, IF Len(files) > BackupKeep THEN Len(files) - BackupKeep + 1 ELSE 1, Len(files))

\* backup, at most once in an interval.
Backup == IF recent THEN UNCHANGED <<backups, recent>>
          ELSE backups' = Kept(Append(backups, file)) /\ recent' = TRUE

\* The mutator raised: the lock goes, the file stays.
Abandon(w) ==
    /\ lock = Nobody
    /\ Backup
    /\ UNCHANGED <<file, lock, job>>

Enter(w, next) ==
    /\ lock = Nobody
    /\ lock' = w
    /\ Backup
    /\ job' = [job EXCEPT ![w] = [base |-> Load, next |-> next]]
    /\ UNCHANGED file

Replace(w) ==
    /\ lock = w
    /\ file' = Merge(job[w].base, job[w].next)
    /\ job' = [job EXCEPT ![w] = NoJob]
    /\ lock' = Nobody
    /\ UNCHANGED <<backups, recent>>

------------------------------------------------------------------------------
(* Evidence: a probe runs, and its result is recorded when it is over.     *)

StartProbe(p, r) ==
    /\ probe[p] = NoProbe
    /\ probe' = [probe EXCEPT ![p] = [row |-> r, at |-> now]]
    /\ UNCHANGED <<store, client, snapshot, now, incidents, ghosts>>

RecordEvidence(p) ==
    /\ probe[p] # NoProbe /\ job[p] = NoJob
    /\ Enter(p, [Load EXCEPT !.rows[probe[p].row] = [at |-> probe[p].at, by |-> p]])
    /\ UNCHANGED <<actors, now, incidents, ghosts>>

EvidenceRecorded(p) ==
    /\ job[p] # NoJob
    /\ Replace(p)
    /\ LET r == probe[p].row IN
       newest' = [newest EXCEPT ![r] = IF probe[p].at > @ THEN probe[p].at ELSE @]
    /\ probe' = [probe EXCEPT ![p] = NoProbe]
    /\ UNCHANGED <<client, snapshot, now, incidents, applied, accepted>>

------------------------------------------------------------------------------
(* Quality feedback: compare the revision, then write the next one.        *)

\* The operator looks at the page and decides on a correction.
ReadRevision(c) ==
    /\ client[c].step = "idle"
    /\ client' = [client EXCEPT ![c] = [step |-> "post", expected |-> Live(Load.slot).rev]]
    /\ applied' = [applied EXCEPT ![c] = 0]
    /\ UNCHANGED <<store, probe, snapshot, now, incidents, newest, accepted>>

\* record_quality_feedback.  A retry of an applied post finds its own event
\* under the revision it made, and is answered without another one.
Current == Live(Load.slot)
IsReplay(c) == Current.by = c /\ client[c].expected \in {Current.rev - 1, Current.rev}

Accepts(c) == /\ now < SlotExpiry
              /\ \/ Current = NoSlot /\ client[c].expected = 0
                 \/ Current # NoSlot /\ Current.by # c /\ client[c].expected = Current.rev

PostFeedback(c) ==
    /\ client[c].step = "post" /\ Current.rev < MaxRevision
    /\ Accepts(c) \/ IsReplay(c)
    /\ Enter(c, [Load EXCEPT !.slot = IF IsReplay(c) THEN Current
                                      ELSE [rev |-> Current.rev + 1, by |-> c]])
    /\ client' = [client EXCEPT ![c].step = IF IsReplay(c) THEN "replayed" ELSE "writing"]
    /\ UNCHANGED <<probe, snapshot, now, incidents, ghosts>>

FeedbackConflict(c) ==
    /\ client[c].step = "post"
    /\ ~Accepts(c) /\ ~IsReplay(c)
    /\ Abandon(c)
    /\ client' = [client EXCEPT ![c].step = "idle"]
    /\ UNCHANGED <<probe, snapshot, now, incidents, ghosts>>

\* The file is written and the answer goes out; it may be lost, and the post
\* comes again as it was.
FeedbackWritten(c) ==
    /\ client[c].step \in {"writing", "replayed"}
    /\ Replace(c)
    /\ LET made == IF client[c].step = "writing" THEN 1 ELSE 0 IN
       applied' = [applied EXCEPT ![c] = @ + made] /\ accepted' = accepted + made
    /\ \E step \in {"done", "post"} : client' = [client EXCEPT ![c].step = step]
    /\ UNCHANGED <<probe, snapshot, now, incidents, newest>>

------------------------------------------------------------------------------
(* A whole-state write from a snapshot read some time before.              *)

TakeSnapshot ==
    /\ snapshot = NoSnapshot
    /\ snapshot' = Load
    /\ UNCHANGED <<store, probe, client, now, incidents, ghosts>>

RepairStarts ==
    /\ snapshot # NoSnapshot /\ job[Repairer] = NoJob
    /\ Enter(Repairer, snapshot)
    /\ UNCHANGED <<actors, now, incidents, ghosts>>

RepairWritten ==
    /\ job[Repairer] # NoJob
    /\ Replace(Repairer)
    /\ snapshot' = NoSnapshot
    /\ UNCHANGED <<probe, client, now, incidents, ghosts>>

------------------------------------------------------------------------------
(* The world.                                                              *)

Tick ==
    /\ now < MaxNow
    /\ now' = now + 1
    /\ UNCHANGED <<store, actors, incidents, ghosts>>

BackupAges ==
    /\ recent /\ recent' = FALSE
    /\ UNCHANGED <<file, backups, lock, job, actors, now, incidents, ghosts>>

Incident == incidents < MaxIncidents /\ incidents' = incidents + 1

\* A disk fault or a hand edit.
Corrupt ==
    /\ Incident
    /\ file' = Unreadable
    /\ UNCHANGED <<backups, recent, lock, job, actors, now, ghosts>>

\* A writer is killed while it copies the backup, or before it replaces the file.
KillWriter ==
    /\ lock # Nobody
    /\ Incident
    /\ backups' \in {backups, [backups EXCEPT ![Len(backups)] = Unreadable]}
    /\ lock' = Nobody
    /\ job' = [job EXCEPT ![lock] = NoJob]
    /\ client' = IF lock \in Clients THEN [client EXCEPT ![lock].step = "post"] ELSE client
    /\ UNCHANGED <<file, recent, probe, snapshot, now, ghosts>>

Init ==
    /\ file = EmptyState
    /\ backups = <<>> /\ recent = FALSE
    /\ lock = Nobody /\ job = [w \in Writers |-> NoJob]
    /\ probe = [p \in Probers |-> NoProbe]
    /\ client = [c \in Clients |-> [step |-> "idle", expected |-> 0]]
    /\ snapshot = NoSnapshot
    /\ now = 1 /\ incidents = 0
    /\ newest = [r \in Rows |-> 0]
    /\ applied = [c \in Clients |-> 0] /\ accepted = 0

Next ==
    \/ \E p \in Probers : \/ \E r \in Rows : StartProbe(p, r)
                          \/ RecordEvidence(p) \/ EvidenceRecorded(p)
    \/ \E c \in Clients : ReadRevision(c) \/ PostFeedback(c) \/ FeedbackConflict(c) \/ FeedbackWritten(c)
    \/ TakeSnapshot \/ RepairStarts \/ RepairWritten
    \/ Tick \/ BackupAges \/ Corrupt \/ KillWriter

Spec == Init /\ [][Next]_vars

------------------------------------------------------------------------------
(* Properties.                                                             *)

States == [rows : [Rows -> [at : 0..MaxNow, by : Probers \cup {Nobody}]],
           slot : [rev : 0..MaxRevision, by : Clients \cup {Nobody}]]

TypeOK ==
    /\ file \in States \cup {Unreadable}
    /\ backups \in Seq(States \cup {Unreadable}) /\ Len(backups) <= BackupKeep
    /\ recent \in BOOLEAN
    /\ lock \in Writers \cup {Nobody}
    /\ job \in [Writers -> [base : States, next : States] \cup {NoJob}]
    /\ probe \in [Probers -> [row : Rows, at : 1..MaxNow] \cup {NoProbe}]
    /\ client \in [Clients -> [step : {"idle", "post", "writing", "replayed", "done"}, expected : 0..MaxRevision]]
    /\ snapshot \in States \cup {NoSnapshot}
    /\ now \in 1..MaxNow /\ incidents \in 0..MaxIncidents
    /\ newest \in [Rows -> 0..MaxNow]
    /\ applied \in [Clients -> Nat] /\ accepted \in Nat

\* As long as the file stays readable, what it holds of a model is the youngest
\* evidence any finished update brought, in whatever order probes, requests and
\* holders of old snapshots write (merge_runtime_history_rows).
NewestEvidenceStands ==
    incidents = 0 => \A r \in Rows : file.rows[r].at = newest[r]

\* Every accepted correction is on file exactly once: a post whose answer was lost and
\* that is repeated creates one revision, not two (record_quality_feedback), and no
\* revision is lost to an operator who had not seen it or to the holder of an old
\* snapshot (merge_quality_feedback_history).
FeedbackExactlyOnce ==
    incidents = 0 =>
        /\ \A c \in Clients : applied[c] <= 1
        /\ now < SlotExpiry => file.slot.rev = accepted

\* A write after the expiry does not bring an expired slot back.
StaysGone == file' # file /\ Readable(file') /\ file'.slot # NoSlot => now < SlotExpiry

\* A feedback post counts once, in the order of its revisions, however often its answer is
\* lost, and a slot that expired does not come back from an older copy.
FeedbackStands == [][FeedbackExactlyOnce' /\ StaysGone]_vars

\* What is on file is at least what any backup has: a restore after a disk fault
\* costs the time since the newest backup and nothing more (StateStore.load).
RestoreCostsOneInterval ==
    Readable(file) => \A i \in DOMAIN backups : Readable(backups[i]) =>
        \A r \in Rows : backups[i].rows[r].at <= file.rows[r].at

\* Backups of an unreadable file do not push out the readable ones.
ReadableBackupRemains ==
    Len(backups) = BackupKeep => \E i \in DOMAIN backups : Readable(backups[i])
==============================================================================
