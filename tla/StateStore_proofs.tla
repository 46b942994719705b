------------------------- MODULE StateStore_proofs -------------------------
(***************************************************************************)
(* For any number of rows, probers, operators and backups: the state file  *)
(* keeps its form; while it is readable it holds of every row the youngest *)
(* evidence that any finished update brought; a restore costs at most what *)
(* came after the newest backup; a feedback post counts once.              *)
(*                                                                         *)
(* The merge compares what a writer brings with what it loaded, so the     *)
(* induction has to know that what the holder of the lock loaded is still  *)
(* the file, and that nothing a writer carries but its own evidence is     *)
(* younger than the youngest evidence recorded.                            *)
(***************************************************************************)
EXTENDS StateStore, SetLemmas

\* Who has something to write holds the lock, and the other way round.
Holds == \A w \in Writers : (job[w] # NoJob) <=> (lock = w)

\* Without incidents the file is readable and the holder's base is the file.
BaseIsFile == incidents = 0 => Readable(file) /\ \A w \in Writers : job[w] # NoJob => job[w].base = file

\* A prober that writes has a probe to record.
Probing == \A p \in Probers : job[p] # NoJob => probe[p] # NoProbe

\* What a writer carries is old news, but for a prober's own row.
Carried ==
    incidents = 0 => \A w \in Writers : job[w] # NoJob => \A r \in Rows :
        IF w \in Probers /\ r = probe[w].row THEN job[w].next.rows[r].at = probe[w].at
        ELSE job[w].next.rows[r].at <= newest[r]

SnapshotIsOld ==
    incidents = 0 /\ snapshot # NoSnapshot => \A r \in Rows : snapshot.rows[r].at <= newest[r]

IInv == /\ TypeOK /\ Holds /\ BaseIsFile /\ Probing /\ Carried /\ SnapshotIsOld
        /\ NewestEvidenceStands

------------------------------------------------------------------------------
(* Facts about the operators.                                              *)

LEMMA Forms ==
    /\ EmptyState \in States
    /\ Unreadable \notin States
    /\ NoJob \notin [base : States, next : States]
    /\ NoProbe \notin [row : Rows, at : 1..MaxNow]
<1>1. EmptyState \in States
  BY Times DEF EmptyState, States, NoRow, NoSlot
<1>2. Unreadable \notin States
  BY Times DEF Unreadable, States
<1>3. NoJob \notin [base : States, next : States]
  BY <1>2 DEF NoJob
<1>4. NoProbe \notin [row : Rows, at : 1..MaxNow]
  BY DEF NoProbe
<1>. QED BY <1>1, <1>2, <1>3, <1>4

\* The newest readable backup is a state.
LEMMA RestoredTyped == ASSUME TypeOK PROVE Restored \in States
<1>. DEFINE good == {i \in DOMAIN backups : Readable(backups[i])}
<1>1. DOMAIN backups = 1..Len(backups) /\ Len(backups) \in Nat
  BY DEF TypeOK
<1>2. \A i \in good : backups[i] \in States
  BY <1>1 DEF TypeOK, Readable
<1>3. CASE good = {}
  BY <1>3, Forms DEF Restored
<1>4. CASE good # {}
  <2>1. IsFiniteSet(good) /\ good \subseteq Int
    <3>1. IsFiniteSet(1..Len(backups))
      BY <1>1, FS_Interval
    <3>. QED BY <1>1, <3>1, FS_Subset
  <2>2. \E i \in good : \A j \in good : j <= i
    <3>. HIDE DEF good
    <3>. PICK i \in good : \A j \in good : i >= j
      BY <1>4, <2>1, GreatestElement
    <3>. QED BY <2>1
  <2>3. Restored = backups[CHOOSE i \in good : \A j \in good : j <= i]
    BY <1>4 DEF Restored
  <2>. QED
    <3>. HIDE DEF good
    <3>. QED BY <1>2, <2>2, <2>3
<1>. QED BY <1>3, <1>4

LEMMA LoadTyped == ASSUME TypeOK PROVE Load \in States
BY RestoredTyped DEF Load, TypeOK, Readable

\* Of two states the merge has the younger row, and it is a state.
LEMMA MergeTyped ==
    ASSUME now \in Nat, NEW s \in States, NEW t \in States
    PROVE  /\ Merge(s, t) \in States
           /\ \A r \in Rows : Merge(s, t).rows[r].at =
                IF t.rows[r].at >= s.rows[r].at THEN t.rows[r].at ELSE s.rows[r].at
<1>1. NoSlot \in [rev : 0..MaxRevision, by : Clients \cup {Nobody}]
  BY Times DEF NoSlot
<1>2. MergedSlot(s.slot, t.slot) \in [rev : 0..MaxRevision, by : Clients \cup {Nobody}]
  BY <1>1 DEF MergedSlot, Live, States
<1>3. \A r \in Rows : MergedRow(s.rows[r], t.rows[r]) \in [at : 0..MaxNow, by : Probers \cup {Nobody}]
  BY DEF MergedRow, States
<1>4. Merge(s, t) \in States
  BY <1>2, <1>3 DEF Merge, States
<1>. QED BY <1>4 DEF Merge, MergedRow

LEMMA BackupTyped ==
    ASSUME TypeOK, Backup
    PROVE  /\ backups' \in Seq(States \cup {Unreadable}) /\ Len(backups') <= BackupKeep
           /\ recent' \in BOOLEAN
<1>1. CASE recent
  BY <1>1 DEF Backup, TypeOK
<1>2. CASE ~recent
  <2>. DEFINE S == States \cup {Unreadable}
  <2>1. backups \in Seq(S) /\ file \in S /\ Len(backups) <= BackupKeep
    BY DEF TypeOK
  <2>2. backups' = Kept(Append(backups, file)) /\ recent' = TRUE
    BY <1>2 DEF Backup
  <2>. HIDE DEF S
  <2>3. Append(backups, file) \in Seq(S) /\ Len(Append(backups, file)) = Len(backups) + 1
    BY <2>1
  <2>4. ASSUME NEW q \in Seq(S), Len(q) <= BackupKeep + 1
        PROVE  Kept(q) \in Seq(S) /\ Len(Kept(q)) <= BackupKeep
    <3>1. CASE Len(q) > BackupKeep
      <4>1. Kept(q) = SubSeq(q, 2, Len(q))
        BY <2>4, <3>1, KeepsSome DEF Kept
      <4>. QED BY <2>4, <3>1, <4>1, KeepsSome
    <3>2. CASE ~(Len(q) > BackupKeep)
      <4>1. Kept(q) = SubSeq(q, 1, Len(q))
        BY <3>2 DEF Kept
      <4>. QED BY <2>4, <3>2, <4>1, KeepsSome
    <3>. QED BY <3>1, <3>2
  <2>5. Len(Append(backups, file)) <= BackupKeep + 1
    BY <2>1, <2>3, KeepsSome
  <2>6. Kept(Append(backups, file)) \in Seq(S) /\ Len(Kept(Append(backups, file))) <= BackupKeep
    BY <2>3, <2>4, <2>5
  <2>. QED BY <2>2, <2>6 DEF S
<1>. QED BY <1>1, <1>2 DEF TypeOK

\* What a writer finds when it takes the lock.
LEMMA EnterTyped ==
    ASSUME IInv, NEW w \in Writers, NEW next \in States, Enter(w, next)
    PROVE  /\ file' = file /\ lock' = w /\ lock = Nobody
           /\ backups' \in Seq(States \cup {Unreadable}) /\ Len(backups') <= BackupKeep /\ recent' \in BOOLEAN
           /\ job' = [v \in Writers |-> IF v = w THEN [base |-> Load, next |-> next] ELSE NoJob]
           /\ job' \in [Writers -> [base : States, next : States] \cup {NoJob}]
           /\ job'[w] # NoJob
<1>1. backups' \in Seq(States \cup {Unreadable}) /\ Len(backups') <= BackupKeep /\ recent' \in BOOLEAN
  BY BackupTyped DEF Enter, IInv
<1>2. Load \in States
  BY LoadTyped DEF IInv
<1>3. \A v \in Writers : job[v] = NoJob
  BY WritersDistinct DEF Enter, IInv, Holds
<1>4. job' = [v \in Writers |-> IF v = w THEN [base |-> Load, next |-> next] ELSE NoJob]
  BY <1>3 DEF Enter, IInv, TypeOK
<1>5. [base |-> Load, next |-> next] \in [base : States, next : States]
  BY <1>2
<1>6. [base |-> Load, next |-> next] # NoJob
  BY <1>5, Forms
<1>7. job' \in [Writers -> [base : States, next : States] \cup {NoJob}] /\ job'[w] # NoJob
  BY <1>4, <1>5, <1>6
<1>. QED BY <1>1, <1>4, <1>7 DEF Enter

\* What the holder of the lock leaves.
LEMMA ReplaceTyped ==
    ASSUME IInv, NEW w \in Writers, Replace(w)
    PROVE  /\ job[w] \in [base : States, next : States] /\ lock' = Nobody /\ UNCHANGED <<backups, recent>>
           /\ file' = Merge(job[w].base, job[w].next) /\ file' \in States
           /\ job' = [v \in Writers |-> NoJob]
<1>1. job[w] \in [base : States, next : States]
  BY DEF IInv, Holds, Replace, TypeOK
<1>2. file' = Merge(job[w].base, job[w].next) /\ file' \in States
  BY <1>1, MergeTyped DEF Replace, IInv, TypeOK
<1>3. \A v \in Writers \ {w} : job[v] = NoJob
  BY DEF IInv, Holds, Replace
<1>4. job' = [v \in Writers |-> NoJob]
  BY <1>3 DEF Replace, IInv, TypeOK
<1>. QED BY <1>1, <1>2, <1>4 DEF Replace

\* What the world and the operators do to the store besides.
LEMMA AbandonTyped ==
    ASSUME IInv, NEW w \in Writers, Abandon(w)
    PROVE  /\ UNCHANGED <<file, lock, job>>
           /\ backups' \in Seq(States \cup {Unreadable}) /\ Len(backups') <= BackupKeep /\ recent' \in BOOLEAN
BY BackupTyped DEF Abandon, IInv

------------------------------------------------------------------------------
(* The induction.                                                          *)

LEMMA InitIInv == Init => IInv
<1>. SUFFICES ASSUME Init PROVE IInv
  OBVIOUS
<1>1. TypeOK
  <2>1. backups \in Seq(States \cup {Unreadable}) /\ Len(backups) <= BackupKeep
    BY KeepsSome DEF Init
  <2>2. /\ file \in States /\ job \in [Writers -> [base : States, next : States] \cup {NoJob}]
        /\ probe \in [Probers -> [row : Rows, at : 1..MaxNow] \cup {NoProbe}]
    BY Forms DEF Init
  <2>3. now \in 1..MaxNow /\ incidents \in 0..MaxIncidents /\ newest \in [Rows -> 0..MaxNow]
    BY Times DEF Init
  <2>4. client \in [Clients -> [step : {"idle", "post", "writing", "replayed", "done"}, expected : 0..MaxRevision]]
    BY Times DEF Init
  <2>5. snapshot \in States \cup {NoSnapshot} /\ lock \in Writers \cup {Nobody} /\ recent \in BOOLEAN
    BY DEF Init
  <2>6. applied \in [Clients -> Nat] /\ accepted \in Nat
    BY DEF Init
  <2>. QED BY <2>1, <2>2, <2>3, <2>4, <2>5, <2>6 DEF TypeOK
<1>2. Holds /\ Probing
  BY WritersDistinct DEF Init, Holds, Probing, Writers
<1>3. BaseIsFile /\ Carried /\ SnapshotIsOld /\ NewestEvidenceStands
  BY Forms DEF Init, BaseIsFile, Carried, SnapshotIsOld, NewestEvidenceStands, Readable, EmptyState, NoRow
<1>. QED BY <1>1, <1>2, <1>3 DEF IInv

LEMMA StartProbeKeeps == ASSUME IInv, NEW p \in Probers, NEW r \in Rows, StartProbe(p, r) PROVE IInv'
<1>. USE DEF IInv
<1>1. TypeOK'
  BY DEF StartProbe, TypeOK, store, ghosts
<1>2. Holds' /\ BaseIsFile' /\ NewestEvidenceStands' /\ SnapshotIsOld'
  BY DEF StartProbe, Holds, BaseIsFile, NewestEvidenceStands, SnapshotIsOld, store, ghosts
<1>3. job[p] = NoJob
  BY DEF StartProbe, Probing
<1>4. Probing' /\ Carried'
  BY <1>3 DEF StartProbe, Probing, Carried, TypeOK, store, ghosts
<1>. QED BY <1>1, <1>2, <1>4

LEMMA RecordEvidenceKeeps == ASSUME IInv, NEW p \in Probers, RecordEvidence(p) PROVE IInv'
<1>. DEFINE next == [Load EXCEPT !.rows[probe[p].row] = [at |-> probe[p].at, by |-> p]]
<1>1. p \in Writers
  BY DEF Writers
<1>2. probe[p] \in [row : Rows, at : 1..MaxNow] /\ probe[p] # NoProbe /\ Load \in States
  BY LoadTyped DEF RecordEvidence, IInv, TypeOK
<1>3. next \in States
  BY <1>2 DEF States
<1>4. /\ next.rows[probe[p].row].at = probe[p].at
      /\ \A r \in Rows \ {probe[p].row} : next.rows[r].at = Load.rows[r].at
  BY <1>2 DEF States
<1>5. Enter(p, next) /\ UNCHANGED <<actors, now, incidents, ghosts>>
  BY DEF RecordEvidence
<1>. HIDE DEF next
<1>6. /\ file' = file /\ lock' = p /\ lock = Nobody
      /\ backups' \in Seq(States \cup {Unreadable}) /\ Len(backups') <= BackupKeep /\ recent' \in BOOLEAN
      /\ job' = [v \in Writers |-> IF v = p THEN [base |-> Load, next |-> next] ELSE NoJob]
      /\ job' \in [Writers -> [base : States, next : States] \cup {NoJob}]
      /\ job'[p] # NoJob
  BY <1>1, <1>3, <1>5, EnterTyped
<1>7. TypeOK'
  BY <1>1, <1>5, <1>6 DEF TypeOK, actors, ghosts, IInv
<1>8. Holds'
  BY <1>1, <1>6 DEF Holds
<1>9. Probing'
  BY <1>2, <1>5, <1>6 DEF Probing, actors, Writers
<1>10. BaseIsFile' /\ NewestEvidenceStands' /\ SnapshotIsOld'
  BY <1>5, <1>6 DEF IInv, BaseIsFile, NewestEvidenceStands, SnapshotIsOld, Load, actors, ghosts
<1>11. Carried'
  <2>. SUFFICES ASSUME incidents = 0, NEW r \in Rows
                PROVE  IF r = probe[p].row THEN next.rows[r].at = probe[p].at ELSE next.rows[r].at <= newest[r]
    BY <1>1, <1>5, <1>6 DEF Carried, actors, ghosts
  <2>1. Load = file /\ file.rows[r].at = newest[r] /\ newest[r] \in Nat
    BY DEF IInv, BaseIsFile, Load, NewestEvidenceStands, TypeOK
  <2>. QED BY <1>4, <2>1
<1>. QED BY <1>7, <1>8, <1>9, <1>10, <1>11 DEF IInv

LEMMA EvidenceRecordedKeeps == ASSUME IInv, NEW p \in Probers, EvidenceRecorded(p) PROVE IInv'
<1>1. p \in Writers /\ job[p] # NoJob /\ probe[p] \in [row : Rows, at : 1..MaxNow]
  BY DEF Writers, EvidenceRecorded, IInv, Probing, TypeOK
<1>. DEFINE row == probe[p].row
            at == probe[p].at
<1>2. /\ Replace(p)
      /\ newest' = [newest EXCEPT ![row] = IF at > @ THEN at ELSE @]
      /\ probe' = [probe EXCEPT ![p] = NoProbe]
      /\ UNCHANGED <<client, snapshot, now, incidents, applied, accepted>>
  BY DEF EvidenceRecorded
<1>3. row \in Rows /\ at \in 1..MaxNow
  BY <1>1
<1>. HIDE DEF row, at
<1>4. /\ job[p] \in [base : States, next : States] /\ lock' = Nobody /\ UNCHANGED <<backups, recent>>
      /\ file' = Merge(job[p].base, job[p].next) /\ file' \in States
      /\ job' = [v \in Writers |-> NoJob]
  BY <1>1, <1>2, ReplaceTyped
<1>5. newest' \in [Rows -> 0..MaxNow] /\ \A r \in Rows : newest'[r] >= newest[r] /\ newest[r] \in Nat
  BY <1>2, <1>3, Times DEF IInv, TypeOK
<1>6. TypeOK'
  BY <1>2, <1>4, <1>5 DEF IInv, TypeOK
<1>7. Holds' /\ Probing' /\ Carried'
  BY <1>4, WritersDistinct DEF Holds, Probing, Carried, Writers
<1>8. BaseIsFile'
  BY <1>4, Forms DEF BaseIsFile, Readable
<1>9. SnapshotIsOld'
  <2>. SUFFICES ASSUME incidents = 0, snapshot # NoSnapshot, NEW r \in Rows
                PROVE  snapshot.rows[r].at <= newest'[r]
    BY <1>2 DEF SnapshotIsOld
  <2>1. snapshot.rows[r].at <= newest[r] /\ snapshot.rows[r].at \in Nat
    BY DEF IInv, SnapshotIsOld, TypeOK, States
  <2>2. newest'[r] \in Nat
    BY <1>5
  <2>. QED BY <1>5, <2>1, <2>2
<1>10. NewestEvidenceStands'
  <2>. SUFFICES ASSUME incidents = 0, NEW r \in Rows PROVE file'.rows[r].at = newest'[r]
    BY <1>2 DEF NewestEvidenceStands
  <2>1. job[p].base = file /\ file.rows[r].at = newest[r] /\ file \in States
    BY <1>1, <1>4 DEF IInv, BaseIsFile, NewestEvidenceStands
  <2>2. file'.rows[r].at = IF job[p].next.rows[r].at >= newest[r] THEN job[p].next.rows[r].at ELSE newest[r]
    BY <1>4, <2>1, MergeTyped DEF IInv, TypeOK
  <2>3. IF r = row THEN job[p].next.rows[r].at = at ELSE job[p].next.rows[r].at <= newest[r]
    BY <1>1 DEF IInv, Carried, row, at
  <2>4. job[p].next.rows[r].at \in Nat
    BY <1>4 DEF States
  <2>5. newest'[r] = IF r = row /\ at > newest[r] THEN at ELSE newest[r]
    BY <1>2, <1>3 DEF IInv, TypeOK
  <2>. QED BY <1>3, <1>5, <2>2, <2>3, <2>4, <2>5
<1>. QED BY <1>6, <1>7, <1>8, <1>9, <1>10 DEF IInv

\* An update that carries no evidence of its own.
LEMMA EnterWithoutNewsKeeps ==
    ASSUME IInv, NEW w \in Writers \ Probers, NEW next \in States, Enter(w, next),
           UNCHANGED <<probe, snapshot, now, incidents, ghosts>>,
           client' \in [Clients -> [step : {"idle", "post", "writing", "replayed", "done"}, expected : 0..MaxRevision]],
           incidents = 0 => \A r \in Rows : next.rows[r].at <= newest[r]
    PROVE  IInv'
<1>1. /\ file' = file /\ lock' = w /\ lock = Nobody
      /\ backups' \in Seq(States \cup {Unreadable}) /\ Len(backups') <= BackupKeep /\ recent' \in BOOLEAN
      /\ job' = [v \in Writers |-> IF v = w THEN [base |-> Load, next |-> next] ELSE NoJob]
      /\ job' \in [Writers -> [base : States, next : States] \cup {NoJob}]
      /\ job'[w] # NoJob
  BY EnterTyped
<1>2. TypeOK'
  BY <1>1 DEF TypeOK, ghosts, IInv
<1>3. Holds' /\ Probing'
  BY <1>1 DEF Holds, Probing, Writers
<1>4. BaseIsFile' /\ NewestEvidenceStands' /\ SnapshotIsOld' /\ Carried'
  BY <1>1 DEF IInv, BaseIsFile, NewestEvidenceStands, SnapshotIsOld, Carried, Load, ghosts
<1>. QED BY <1>2, <1>3, <1>4 DEF IInv

\* Its second half.
LEMMA ReplaceWithoutNewsKeeps ==
    ASSUME IInv, NEW w \in Writers \ Probers, Replace(w),
           UNCHANGED <<probe, now, incidents, newest>>,
           snapshot' \in {snapshot, NoSnapshot},
           client' \in [Clients -> [step : {"idle", "post", "writing", "replayed", "done"}, expected : 0..MaxRevision]],
           applied' \in [Clients -> Nat], accepted' \in Nat
    PROVE  IInv'
<1>1. /\ job[w] \in [base : States, next : States] /\ lock' = Nobody /\ UNCHANGED <<backups, recent>>
      /\ file' = Merge(job[w].base, job[w].next) /\ file' \in States
      /\ job' = [v \in Writers |-> NoJob]
  BY ReplaceTyped
<1>2. TypeOK'
  BY <1>1 DEF IInv, TypeOK
<1>3. Holds' /\ Probing' /\ Carried'
  BY <1>1, WritersDistinct DEF Holds, Probing, Carried, Writers
<1>4. BaseIsFile'
  BY <1>1, Forms DEF BaseIsFile, Readable
<1>5. SnapshotIsOld'
  BY DEF IInv, SnapshotIsOld
<1>6. NewestEvidenceStands'
  <2>. SUFFICES ASSUME incidents = 0, NEW r \in Rows PROVE file'.rows[r].at = newest[r]
    BY DEF NewestEvidenceStands
  <2>0. job[w] # NoJob
    BY <1>1, Forms
  <2>1. job[w].base = file /\ file.rows[r].at = newest[r]
    BY <2>0 DEF IInv, BaseIsFile, NewestEvidenceStands
  <2>2. file'.rows[r].at = IF job[w].next.rows[r].at >= newest[r] THEN job[w].next.rows[r].at ELSE newest[r]
    BY <1>1, <2>1, MergeTyped DEF IInv, TypeOK
  <2>3. job[w].next.rows[r].at <= newest[r]
    BY <2>0 DEF IInv, Carried
  <2>4. job[w].next.rows[r].at \in Nat /\ newest[r] \in Nat
    BY <1>1 DEF IInv, TypeOK, States
  <2>. QED BY <2>2, <2>3, <2>4
<1>. QED BY <1>2, <1>3, <1>4, <1>5, <1>6 DEF IInv

LEMMA PostFeedbackKeeps == ASSUME IInv, NEW c \in Clients, PostFeedback(c) PROVE IInv'
<1>. DEFINE next == [Load EXCEPT !.slot = IF IsReplay(c) THEN Current ELSE [rev |-> Current.rev + 1, by |-> c]]
<1>1. c \in Writers \ Probers
  BY WritersDistinct DEF Writers
<1>2. Load \in States
  BY LoadTyped DEF IInv
<1>3. Current \in [rev : 0..MaxRevision, by : Clients \cup {Nobody}]
  BY <1>2, Times DEF Current, Live, States, NoSlot
<1>4. next \in States /\ next.rows = Load.rows
  BY <1>2, <1>3, Times DEF PostFeedback, States
<1>5. Enter(c, next) /\ UNCHANGED <<probe, snapshot, now, incidents, ghosts>>
  BY DEF PostFeedback
<1>6. client' \in [Clients -> [step : {"idle", "post", "writing", "replayed", "done"}, expected : 0..MaxRevision]]
  BY DEF PostFeedback, IInv, TypeOK
<1>. HIDE DEF next
<1>7. incidents = 0 => \A r \in Rows : next.rows[r].at <= newest[r]
  BY <1>4 DEF IInv, BaseIsFile, NewestEvidenceStands, Load, TypeOK
<1>. QED BY <1>1, <1>4, <1>5, <1>6, <1>7, EnterWithoutNewsKeeps

LEMMA FeedbackWrittenKeeps == ASSUME IInv, NEW c \in Clients, FeedbackWritten(c) PROVE IInv'
<1>1. c \in Writers \ Probers
  BY WritersDistinct DEF Writers
<1>2. client' \in [Clients -> [step : {"idle", "post", "writing", "replayed", "done"}, expected : 0..MaxRevision]]
  BY DEF FeedbackWritten, IInv, TypeOK
<1>3. applied' \in [Clients -> Nat] /\ accepted' \in Nat
  BY DEF FeedbackWritten, IInv, TypeOK
<1>4. Replace(c) /\ UNCHANGED <<probe, snapshot, now, incidents, newest>>
  BY DEF FeedbackWritten
<1>. QED BY <1>1, <1>2, <1>3, <1>4, ReplaceWithoutNewsKeeps

LEMMA ClientsKeep ==
    ASSUME IInv, NEW c \in Clients, ReadRevision(c) \/ FeedbackConflict(c)
    PROVE  IInv'
<1>1. CASE ReadRevision(c)
  <2>1. Load \in States
    BY LoadTyped DEF IInv
  <2>2. Live(Load.slot).rev \in 0..MaxRevision
    BY <2>1, Times DEF Live, States, NoSlot
  <2>3. TypeOK'
    BY <1>1, <2>2 DEF ReadRevision, IInv, TypeOK, store
  <2>4. (Holds /\ BaseIsFile /\ Probing /\ Carried /\ SnapshotIsOld /\ NewestEvidenceStands)'
    BY <1>1 DEF ReadRevision, IInv, Holds, BaseIsFile, Probing, Carried, SnapshotIsOld, NewestEvidenceStands, store
  <2>. QED BY <2>3, <2>4 DEF IInv
<1>2. CASE FeedbackConflict(c)
  <2>1. c \in Writers
    BY DEF Writers
  <2>2. /\ UNCHANGED <<file, lock, job>>
        /\ backups' \in Seq(States \cup {Unreadable}) /\ Len(backups') <= BackupKeep /\ recent' \in BOOLEAN
    BY <1>2, <2>1, AbandonTyped DEF FeedbackConflict
  <2>3. TypeOK'
    BY <1>2, <2>2 DEF FeedbackConflict, IInv, TypeOK, ghosts
  <2>4. (Holds /\ BaseIsFile /\ Probing /\ Carried /\ SnapshotIsOld /\ NewestEvidenceStands)'
    BY <1>2, <2>2 DEF FeedbackConflict, IInv, Holds, BaseIsFile, Probing, Carried, SnapshotIsOld, NewestEvidenceStands, ghosts
  <2>. QED BY <2>3, <2>4 DEF IInv
<1>. QED BY <1>1, <1>2

LEMMA RepairKeeps == ASSUME IInv, TakeSnapshot \/ RepairStarts \/ RepairWritten PROVE IInv'
<1>1. Repairer \in Writers \ Probers
  BY WritersDistinct DEF Writers
<1>2. CASE TakeSnapshot
  <2>1. Load \in States
    BY LoadTyped DEF IInv
  <2>2. TypeOK'
    BY <1>2, <2>1 DEF TakeSnapshot, IInv, TypeOK, store, ghosts
  <2>3. SnapshotIsOld'
    BY <1>2 DEF TakeSnapshot, IInv, TypeOK, SnapshotIsOld, BaseIsFile, NewestEvidenceStands, Load, ghosts
  <2>4. (Holds /\ BaseIsFile /\ Probing /\ Carried /\ NewestEvidenceStands)'
    BY <1>2 DEF TakeSnapshot, IInv, Holds, BaseIsFile, Probing, Carried, NewestEvidenceStands, store, ghosts
  <2>. QED BY <2>2, <2>3, <2>4 DEF IInv
<1>3. CASE RepairStarts
  <2>1. snapshot \in States
    BY <1>3 DEF RepairStarts, IInv, TypeOK
  <2>2. incidents = 0 => \A r \in Rows : snapshot.rows[r].at <= newest[r]
    BY <1>3 DEF RepairStarts, IInv, SnapshotIsOld
  <2>3. client' \in [Clients -> [step : {"idle", "post", "writing", "replayed", "done"}, expected : 0..MaxRevision]]
    BY <1>3 DEF RepairStarts, IInv, TypeOK, actors
  <2>. QED BY <1>1, <1>3, <2>1, <2>2, <2>3, EnterWithoutNewsKeeps DEF RepairStarts, actors
<1>4. CASE RepairWritten
  <2>1. /\ client' \in [Clients -> [step : {"idle", "post", "writing", "replayed", "done"}, expected : 0..MaxRevision]]
        /\ applied' \in [Clients -> Nat] /\ accepted' \in Nat
    BY <1>4 DEF RepairWritten, IInv, TypeOK, ghosts
  <2>. QED BY <1>1, <1>4, <2>1, ReplaceWithoutNewsKeeps DEF RepairWritten, ghosts
<1>. QED BY <1>2, <1>3, <1>4

LEMMA WorldKeeps == ASSUME IInv, Tick \/ BackupAges \/ Corrupt \/ KillWriter PROVE IInv'
<1>1. CASE Tick \/ BackupAges
  <2>1. TypeOK'
    <3>1. CASE Tick
      BY <3>1, Times DEF Tick, IInv, TypeOK, store, actors, ghosts
    <3>2. CASE BackupAges
      BY <3>2 DEF BackupAges, IInv, TypeOK, actors, ghosts
    <3>. QED BY <1>1, <3>1, <3>2
  <2>2. (Holds /\ BaseIsFile /\ Probing /\ Carried /\ SnapshotIsOld /\ NewestEvidenceStands)'
    BY <1>1 DEF Tick, BackupAges, IInv, Holds, BaseIsFile, Probing, Carried, SnapshotIsOld, NewestEvidenceStands, store, actors, ghosts
  <2>. QED BY <2>1, <2>2 DEF IInv
<1>2. CASE Corrupt
  <2>1. incidents' # 0 /\ incidents' \in 0..MaxIncidents
    BY <1>2, Times DEF Corrupt, Incident, IInv, TypeOK
  <2>2. TypeOK'
    BY <1>2, <2>1 DEF Corrupt, IInv, TypeOK, actors, ghosts
  <2>3. (Holds /\ Probing)'
    BY <1>2 DEF Corrupt, IInv, Holds, Probing, actors
  <2>4. (BaseIsFile /\ Carried /\ SnapshotIsOld /\ NewestEvidenceStands)'
    BY <2>1 DEF BaseIsFile, Carried, SnapshotIsOld, NewestEvidenceStands
  <2>. QED BY <2>2, <2>3, <2>4 DEF IInv
<1>3. CASE KillWriter
  <2>1. incidents' # 0 /\ incidents' \in 0..MaxIncidents
    BY <1>3, Times DEF KillWriter, Incident, IInv, TypeOK
  <2>2. backups' \in Seq(States \cup {Unreadable}) /\ Len(backups') <= BackupKeep
    <3>1. backups' = backups \/ backups' = [backups EXCEPT ![Len(backups)] = Unreadable]
      BY <1>3 DEF KillWriter
    <3>2. backups \in [1..Len(backups) -> States \cup {Unreadable}] /\ Len(backups) \in Nat
      BY DEF IInv, TypeOK
    <3>3. [backups EXCEPT ![Len(backups)] = Unreadable] \in [1..Len(backups) -> States \cup {Unreadable}]
      BY <3>2
    <3>4. \A S, q : \A n \in Nat : q \in [1..n -> S] => q \in Seq(S) /\ Len(q) = n
      OBVIOUS
    <3>5. backups' \in Seq(States \cup {Unreadable}) /\ Len(backups') = Len(backups)
      BY <3>1, <3>2, <3>3, <3>4
    <3>. QED BY <3>5 DEF IInv, TypeOK
  <2>3. lock \in Writers /\ lock' = Nobody /\ job' = [job EXCEPT ![lock] = NoJob]
    BY <1>3 DEF KillWriter, IInv, TypeOK
  <2>4. client' \in [Clients -> [step : {"idle", "post", "writing", "replayed", "done"}, expected : 0..MaxRevision]]
    BY <1>3 DEF KillWriter, IInv, TypeOK
  <2>5. TypeOK'
    BY <1>3, <2>1, <2>2, <2>3, <2>4 DEF KillWriter, IInv, TypeOK, ghosts
  <2>6. (Holds /\ Probing)'
    BY <1>3, <2>3, WritersDistinct DEF KillWriter, IInv, TypeOK, Holds, Probing, Writers
  <2>7. (BaseIsFile /\ Carried /\ SnapshotIsOld /\ NewestEvidenceStands)'
    BY <2>1 DEF BaseIsFile, Carried, SnapshotIsOld, NewestEvidenceStands
  <2>. QED BY <2>5, <2>6, <2>7 DEF IInv
<1>. QED BY <1>1, <1>2, <1>3

LEMMA StepIInv == ASSUME IInv, [Next]_vars PROVE IInv'
<1>1. CASE UNCHANGED vars
  BY <1>1 DEF vars, IInv, TypeOK, Holds, BaseIsFile, Probing, Carried, SnapshotIsOld, NewestEvidenceStands
<1>2. CASE Next
  BY <1>2, StartProbeKeeps, RecordEvidenceKeeps, EvidenceRecordedKeeps, ClientsKeep, PostFeedbackKeeps,
     FeedbackWrittenKeeps, RepairKeeps, WorldKeeps DEF Next
<1>. QED BY <1>1, <1>2

\* File, backups, jobs and actors stay in the forms the code knows, for any
\* number of rows, probers and operators (StateStore.update, StateStore.write).
THEOREM TypeCorrect == Spec => []TypeOK
<1>1. IInv => TypeOK
  BY DEF IInv
<1>. QED BY <1>1, InitIInv, StepIInv, PTL DEF Spec

\* While the file is readable it holds of every row the youngest evidence any
\* finished update brought, in whatever order any number of probes, operators
\* and old snapshots are written (merge_runtime_history_rows).
THEOREM NewestStands == Spec => []NewestEvidenceStands
<1>1. IInv => NewestEvidenceStands
  BY DEF IInv
<1>. QED BY <1>1, InitIInv, StepIInv, PTL DEF Spec

------------------------------------------------------------------------------
(***************************************************************************)
(* Backups.  A restore takes the newest readable copy, so that copy has to *)
(* be at least what every older one is; and a writer that loaded before a  *)
(* disk fault replaces the file after it, so what it loaded has to be at   *)
(* least what every backup is.                                             *)
(***************************************************************************)

\* A state has of every row at least what another one has.
AtLeast(s, t) == \A r \in Rows : t.rows[r].at <= s.rows[r].at

Covers(s, files) == \A i \in DOMAIN files : Readable(files[i]) => AtLeast(s, files[i])

BackupsInOrder ==
    \A i, j \in DOMAIN backups :
        i <= j /\ Readable(backups[i]) /\ Readable(backups[j]) => AtLeast(backups[j], backups[i])

BasesCover == \A w \in Writers : job[w] # NoJob => Covers(job[w].base, backups)

RestoreInv == RestoreCostsOneInterval /\ BackupsInOrder /\ BasesCover

LEMMA AtLeastOrder ==
    ASSUME NEW s \in States, NEW t \in States, NEW u \in States
    PROVE  AtLeast(s, s) /\ (AtLeast(s, t) /\ AtLeast(t, u) => AtLeast(s, u))
<1>1. \A r \in Rows : s.rows[r].at \in Nat /\ t.rows[r].at \in Nat /\ u.rows[r].at \in Nat
  BY DEF States
<1>. QED BY <1>1 DEF AtLeast

\* Trimming drops at most the oldest copy.
LEMMA KeptElements ==
    ASSUME NEW S, NEW q \in Seq(S), Len(q) <= BackupKeep + 1
    PROVE  \E k \in {0, 1} : /\ DOMAIN Kept(q) = 1..(Len(q) - k)
                             /\ \A i \in DOMAIN Kept(q) : i + k \in DOMAIN q /\ Kept(q)[i] = q[i + k]
<1>1. CASE Len(q) > BackupKeep
  <2>1. Kept(q) = SubSeq(q, 2, Len(q))
    BY <1>1, KeepsSome DEF Kept
  <2>2. DOMAIN Kept(q) = 1..(Len(q) - 1) /\ \A i \in 1..(Len(q) - 1) : Kept(q)[i] = q[i + 1]
    BY <1>1, <2>1, KeepsSome
  <2>. QED BY <2>2
<1>2. CASE ~(Len(q) > BackupKeep)
  <2>1. Kept(q) = SubSeq(q, 1, Len(q))
    BY <1>2 DEF Kept
  <2>2. DOMAIN Kept(q) = 1..Len(q) /\ \A i \in 1..Len(q) : Kept(q)[i] = q[i]
    BY <1>2, <2>1
  <2>. QED BY <2>2
<1>. QED BY <1>1, <1>2

\* What a load gives is at least what every backup is.
LEMMA LoadCovers == ASSUME TypeOK, RestoreInv PROVE Covers(Load, backups)
<1>. DEFINE good == {i \in DOMAIN backups : Readable(backups[i])}
<1>1. CASE Readable(file)
  BY <1>1 DEF Load, RestoreInv, RestoreCostsOneInterval, Covers, AtLeast
<1>2. CASE ~Readable(file)
  <2>1. CASE good = {}
    BY <2>1 DEF Covers
  <2>2. CASE good # {}
    <3>1. DOMAIN backups = 1..Len(backups) /\ Len(backups) \in Nat
      BY DEF TypeOK
    <3>2. IsFiniteSet(good) /\ good \subseteq Int
      <4>1. IsFiniteSet(1..Len(backups))
        BY <3>1, FS_Interval
      <4>. QED BY <3>1, <4>1, FS_Subset
    <3>3. \E i \in good : \A j \in good : j <= i
      <4>. HIDE DEF good
      <4>. PICK i \in good : \A j \in good : i >= j
        BY <2>2, <3>2, GreatestElement
      <4>. QED BY <3>2
    <3>4. Load = backups[CHOOSE i \in good : \A j \in good : j <= i]
      BY <1>2, <2>2 DEF Load, Restored
    <3>5. \E i \in good : Load = backups[i] /\ \A j \in good : j <= i
      <4>. HIDE DEF good
      <4>. QED BY <3>3, <3>4
    <3>. QED BY <3>5 DEF Covers, RestoreInv, BackupsInOrder
  <2>. QED BY <2>1, <2>2
<1>. QED BY <1>1, <1>2

\* A backup that is due keeps the copies in order, below whatever was at least them and the file.
LEMMA BackupCovers ==
    ASSUME TypeOK, RestoreInv, Backup, UNCHANGED file
    PROVE  /\ BackupsInOrder' /\ RestoreCostsOneInterval'
           /\ Covers(Load, backups')
<1>1. Covers(Load, backups)
  BY LoadCovers
<1>2. CASE recent
  BY <1>1, <1>2 DEF Backup, RestoreInv, BackupsInOrder, RestoreCostsOneInterval
<1>3. CASE ~recent
  <2>. DEFINE S == States \cup {Unreadable}
              q == Append(backups, file)
              last == Len(backups) + 1
  <2>1. backups \in Seq(S) /\ file \in S /\ Len(backups) <= BackupKeep /\ Len(backups) \in Nat
    BY DEF TypeOK
  <2>2. q \in Seq(S) /\ Len(q) = last /\ q[last] = file /\ \A i \in 1..Len(backups) : q[i] = backups[i]
    <3>. HIDE DEF S
    <3>. QED BY <2>1
  <2>3. backups' = Kept(q)
    BY <1>3 DEF Backup
  <2>. HIDE DEF q
  <2>4. PICK k \in {0, 1} : /\ DOMAIN backups' = 1..(last - k)
                            /\ \A i \in DOMAIN backups' : i + k \in DOMAIN q /\ backups'[i] = q[i + k]
    <3>. HIDE DEF S
    <3>1. Len(q) <= BackupKeep + 1
      BY <2>1, <2>2, KeepsSome
    <3>. QED BY <2>2, <2>3, <3>1, KeptElements
  <2>5. \A i \in DOMAIN backups' : i + k \in 1..last
    BY <2>2, <2>4
  <2>6. Readable(file) => Covers(file, backups) /\ Load = file /\ file \in States
    BY DEF RestoreInv, RestoreCostsOneInterval, Covers, AtLeast, Load, Readable, TypeOK
  <2>7. ASSUME NEW i \in 1..last, Readable(q[i])
        PROVE  /\ q[i] \in States /\ AtLeast(Load, q[i]) /\ (Readable(file) => AtLeast(file, q[i]))
               /\ i # last => i \in DOMAIN backups /\ q[i] = backups[i]
    <3>1. CASE i = last
      <4>1. q[i] = file /\ Readable(file)
        BY <2>2, <2>7, <3>1
      <4>. QED BY <2>6, <3>1, <4>1, AtLeastOrder
    <3>2. CASE i # last
      <4>1. i \in 1..Len(backups) /\ i \in DOMAIN backups /\ q[i] = backups[i]
        BY <2>1, <2>2, <3>2
      <4>2. q[i] \in States
        BY <2>1, <2>7, <4>1 DEF Readable
      <4>. QED BY <1>1, <2>6, <2>7, <4>1, <4>2 DEF Covers
    <3>. QED BY <3>1, <3>2
  <2>8. Covers(Load, backups')
    BY <2>4, <2>5, <2>7 DEF Covers
  <2>9. RestoreCostsOneInterval'
    BY <2>4, <2>5, <2>7 DEF RestoreCostsOneInterval, AtLeast
  <2>10. ASSUME NEW i \in DOMAIN backups', NEW j \in DOMAIN backups', i <= j,
                Readable(backups'[i]), Readable(backups'[j])
         PROVE  AtLeast(backups'[j], backups'[i])
    <3>1. /\ i + k \in 1..last /\ j + k \in 1..last /\ i + k <= j + k
          /\ backups'[i] = q[i + k] /\ backups'[j] = q[j + k]
      BY <2>4, <2>5, <2>10
    <3>2. CASE j + k = last
      BY <2>2, <2>7, <2>10, <3>1, <3>2
    <3>3. CASE j + k # last
      <4>1. i + k # last
        BY <2>1, <3>1, <3>3
      <4>. QED BY <2>7, <2>10, <3>1, <3>3, <4>1 DEF RestoreInv, BackupsInOrder
    <3>. QED BY <3>2, <3>3
  <2>. QED BY <2>8, <2>9, <2>10 DEF BackupsInOrder
<1>. QED BY <1>2, <1>3

LEMMA InitRestore == Init => RestoreInv
BY DEF Init, RestoreInv, RestoreCostsOneInterval, BackupsInOrder, BasesCover

\* Taking the lock.
LEMMA EnterRestore ==
    ASSUME IInv, RestoreInv, NEW w \in Writers, NEW next \in States, Enter(w, next)
    PROVE  RestoreInv'
<1>1. UNCHANGED file /\ Backup
      /\ job' = [v \in Writers |-> IF v = w THEN [base |-> Load, next |-> next] ELSE NoJob]
  BY EnterTyped DEF Enter
<1>2. BackupsInOrder' /\ RestoreCostsOneInterval' /\ Covers(Load, backups')
  BY <1>1, BackupCovers DEF IInv
<1>3. BasesCover'
  BY <1>1, <1>2 DEF BasesCover
<1>. QED BY <1>2, <1>3 DEF RestoreInv

\* Replacing the file: the merge is at least what was loaded.
LEMMA ReplaceRestore ==
    ASSUME IInv, RestoreInv, NEW w \in Writers, Replace(w)
    PROVE  RestoreInv'
<1>1. /\ job[w] \in [base : States, next : States] /\ UNCHANGED <<backups, recent>>
      /\ file' = Merge(job[w].base, job[w].next) /\ job' = [v \in Writers |-> NoJob]
  BY ReplaceTyped
<1>2. Covers(job[w].base, backups)
  BY <1>1, Forms DEF RestoreInv, BasesCover
<1>3. file' \in States /\ AtLeast(file', job[w].base)
  <2>1. /\ file' \in States
        /\ \A r \in Rows : file'.rows[r].at =
             IF job[w].next.rows[r].at >= job[w].base.rows[r].at
             THEN job[w].next.rows[r].at ELSE job[w].base.rows[r].at
    BY <1>1, MergeTyped DEF IInv, TypeOK
  <2>2. \A r \in Rows : job[w].next.rows[r].at \in Nat /\ job[w].base.rows[r].at \in Nat
    BY <1>1 DEF States
  <2>. QED BY <2>1, <2>2 DEF AtLeast
<1>4. RestoreCostsOneInterval'
  <2>. SUFFICES ASSUME NEW i \in DOMAIN backups, Readable(backups[i]) PROVE AtLeast(file', backups[i])
    BY <1>1 DEF RestoreCostsOneInterval, AtLeast
  <2>1. backups[i] \in States
    BY DEF IInv, TypeOK, Readable
  <2>2. AtLeast(job[w].base, backups[i])
    BY <1>2 DEF Covers
  <2>. QED BY <1>1, <1>3, <2>1, <2>2, AtLeastOrder
<1>5. BackupsInOrder' /\ BasesCover'
  BY <1>1 DEF RestoreInv, BackupsInOrder, BasesCover
<1>. QED BY <1>4, <1>5 DEF RestoreInv

LEMMA StepRestore == ASSUME IInv, RestoreInv, [Next]_vars PROVE RestoreInv'
<1>1. ASSUME UNCHANGED <<file, backups, job>> PROVE RestoreInv'
  BY <1>1 DEF RestoreInv, RestoreCostsOneInterval, BackupsInOrder, BasesCover
<1>2. ASSUME NEW p \in Probers, NEW r \in Rows, StartProbe(p, r) PROVE RestoreInv'
  BY <1>1, <1>2 DEF StartProbe, store
<1>3. ASSUME NEW p \in Probers, RecordEvidence(p) PROVE RestoreInv'
  <2>1. probe[p] \in [row : Rows, at : 1..MaxNow] /\ Load \in States /\ p \in Writers
    BY <1>3, LoadTyped DEF RecordEvidence, IInv, TypeOK, Writers
  <2>2. [Load EXCEPT !.rows[probe[p].row] = [at |-> probe[p].at, by |-> p]] \in States
    BY <2>1 DEF States
  <2>. QED BY <1>3, <2>1, <2>2, EnterRestore DEF RecordEvidence
<1>4. ASSUME NEW p \in Probers, EvidenceRecorded(p) PROVE RestoreInv'
  BY <1>4, ReplaceRestore DEF EvidenceRecorded, Writers
<1>5. ASSUME NEW c \in Clients, ReadRevision(c) PROVE RestoreInv'
  BY <1>1, <1>5 DEF ReadRevision, store
<1>6. ASSUME NEW c \in Clients, PostFeedback(c) PROVE RestoreInv'
  <2>1. Load \in States /\ c \in Writers
    BY LoadTyped DEF IInv, Writers
  <2>2. Current \in [rev : 0..MaxRevision, by : Clients \cup {Nobody}]
    BY <2>1, Times DEF Current, Live, States, NoSlot
  <2>3. [Load EXCEPT !.slot = IF IsReplay(c) THEN Current ELSE [rev |-> Current.rev + 1, by |-> c]] \in States
    BY <1>6, <2>1, <2>2, Times DEF PostFeedback, States
  <2>. QED BY <1>6, <2>1, <2>3, EnterRestore DEF PostFeedback
<1>7. ASSUME NEW c \in Clients, FeedbackConflict(c) PROVE RestoreInv'
  <2>1. Backup /\ UNCHANGED <<file, job>>
    BY <1>7 DEF FeedbackConflict, Abandon
  <2>2. lock = Nobody
    BY <1>7 DEF FeedbackConflict, Abandon
  <2>3. BasesCover'
    BY <2>1, <2>2, WritersDistinct DEF IInv, Holds, BasesCover
  <2>. QED BY <2>1, <2>3, BackupCovers DEF IInv, RestoreInv
<1>8. ASSUME NEW c \in Clients, FeedbackWritten(c) PROVE RestoreInv'
  BY <1>8, ReplaceRestore DEF FeedbackWritten, Writers
<1>9. CASE TakeSnapshot \/ Tick \/ BackupAges \/ UNCHANGED vars
  BY <1>1, <1>9 DEF TakeSnapshot, Tick, BackupAges, vars, store
<1>10. CASE RepairStarts
  <2>1. snapshot \in States /\ Repairer \in Writers
    BY <1>10 DEF RepairStarts, IInv, TypeOK, Writers
  <2>. QED BY <1>10, <2>1, EnterRestore DEF RepairStarts
<1>11. CASE RepairWritten
  BY <1>11, ReplaceRestore DEF RepairWritten, Writers
<1>12. CASE Corrupt
  BY <1>12 DEF Corrupt, Readable, RestoreInv, RestoreCostsOneInterval, BackupsInOrder, BasesCover
<1>13. CASE KillWriter
  <2>1. /\ UNCHANGED file /\ lock \in Writers /\ job' = [job EXCEPT ![lock] = NoJob]
        /\ backups' \in {backups, [backups EXCEPT ![Len(backups)] = Unreadable]}
        /\ job \in [Writers -> [base : States, next : States] \cup {NoJob}]
    BY <1>13 DEF KillWriter, IInv, TypeOK
  <2>2. /\ DOMAIN backups' = DOMAIN backups
        /\ \A i \in DOMAIN backups : Readable(backups'[i]) => backups'[i] = backups[i]
    BY <2>1 DEF Readable
  <2>3. RestoreCostsOneInterval' /\ BackupsInOrder'
    BY <2>1, <2>2 DEF RestoreInv, RestoreCostsOneInterval, BackupsInOrder
  <2>4. BasesCover'
    BY <2>1, <2>2 DEF RestoreInv, BasesCover, Covers
  <2>. QED BY <2>3, <2>4 DEF RestoreInv
<1>. QED BY <1>2, <1>3, <1>4, <1>5, <1>6, <1>7, <1>8, <1>9, <1>10, <1>11, <1>12, <1>13 DEF Next

\* Whatever disk faults, killed writers and torn copies came before, the file is at least what any
\* readable backup is, for any number of rows, writers and kept copies: a restore never takes back
\* more than what came after the newest backup (StateStore.load, _restore_from_backup, rotate_backups).
THEOREM RestoreIsCheap == Spec => []RestoreCostsOneInterval
<1>1. RestoreInv => RestoreCostsOneInterval
  BY DEF RestoreInv
<1>. QED BY <1>1, InitIInv, InitRestore, StepIInv, StepRestore, PTL DEF Spec

------------------------------------------------------------------------------
(***************************************************************************)
(* Feedback.  Until the slot expires the file holds the revision that was  *)
(* accepted last; what a writer carries is not newer than it, but for the  *)
(* one operator whose correction is being written, and that one carries    *)
(* the next revision.  An operator whose post was applied is behind the    *)
(* file from then on, so the same post is never accepted again.            *)
(***************************************************************************)

Posting == \A c \in Clients : job[c] # NoJob => client[c].step \in {"writing", "replayed"}

\* Of the writers only an operator with a new correction has a revision that is not on file.
SlotCarried ==
    now < SlotExpiry =>
        /\ file.slot.rev = accepted
        /\ snapshot # NoSnapshot => snapshot.slot.rev <= file.slot.rev
        /\ \A w \in Writers : job[w] # NoJob =>
             IF w \in Clients /\ client[w].step = "writing"
             THEN job[w].next.slot.rev = file.slot.rev + 1
             ELSE job[w].next.slot.rev <= file.slot.rev

\* An operator that writes has not written yet; one that has is behind the file.
Applied ==
    \A c \in Clients :
        /\ applied[c] <= 1
        /\ (job[c] # NoJob /\ client[c].step = "writing") =>
             /\ applied[c] = 0
             /\ now < SlotExpiry => job[c].next.slot.rev = client[c].expected + 1
        /\ (applied[c] = 1 /\ now < SlotExpiry) => file.slot.rev > client[c].expected

FeedbackInv == incidents = 0 => Posting /\ SlotCarried /\ Applied

FeedbackTuple == <<file, job, client, snapshot, now, applied, accepted>>

LEMMA InitFeedback == Init => FeedbackInv
BY Forms, Times DEF Init, FeedbackInv, Posting, SlotCarried, Applied, EmptyState, NoSlot, Writers

LEMMA SameFeedback == ASSUME FeedbackInv, UNCHANGED incidents, UNCHANGED FeedbackTuple PROVE FeedbackInv'
BY DEF FeedbackInv, Posting, SlotCarried, Applied, FeedbackTuple

\* The slot of the merge.
LEMMA MergedRev ==
    ASSUME NEW s \in States, NEW t \in States
    PROVE  /\ now < SlotExpiry =>
                Merge(s, t).slot.rev = IF t.slot.rev > s.slot.rev THEN t.slot.rev ELSE s.slot.rev
           /\ ~(now < SlotExpiry) => Merge(s, t).slot = NoSlot
BY DEF Merge, MergedSlot, Live, NoSlot

\* While nothing went wrong the file is what is loaded, and its revision is a number.
LEMMA FileSlot ==
    ASSUME IInv, incidents = 0
    PROVE  /\ Load = file /\ file \in States /\ file.slot.rev \in 0..MaxRevision
           /\ now < SlotExpiry => Current = file.slot
           /\ ~(now < SlotExpiry) => Current = NoSlot
<1>1. Load = file /\ file \in States
  BY DEF IInv, BaseIsFile, Load, TypeOK, Readable
<1>2. file.slot.rev \in 0..MaxRevision
  BY <1>1 DEF States
<1>. QED BY <1>1, <1>2 DEF Current, Live

\* A writer that is no operator brings no revision that is not on file.
LEMMA EnterFeedback ==
    ASSUME IInv, FeedbackInv, NEW w \in Writers \ Clients, NEW next \in States, Enter(w, next),
           UNCHANGED <<client, snapshot, now, incidents, applied, accepted>>,
           incidents = 0 /\ now < SlotExpiry => next.slot.rev <= file.slot.rev
    PROVE  FeedbackInv'
<1>1. file' = file
      /\ job' = [v \in Writers |-> IF v = w THEN [base |-> Load, next |-> next] ELSE NoJob]
  BY EnterTyped
<1>. SUFFICES ASSUME incidents = 0 PROVE (Posting /\ SlotCarried /\ Applied)'
  BY DEF FeedbackInv
<1>2. Posting /\ SlotCarried /\ Applied
  BY DEF FeedbackInv
<1>3. \A c \in Clients : c \in Writers /\ c # w /\ job'[c] = NoJob
  BY <1>1 DEF Writers
<1>4. Posting' /\ Applied'
  BY <1>1, <1>2, <1>3 DEF Posting, Applied
<1>5. SlotCarried'
  BY <1>1, <1>2 DEF SlotCarried
<1>. QED BY <1>4, <1>5

\* A replaced file: no revision is lost, and a new one comes only from an operator that writes one.
LEMMA ReplacedSlot ==
    ASSUME IInv, FeedbackInv, incidents = 0, NEW w \in Writers, Replace(w), UNCHANGED now
    PROVE  /\ job' = [v \in Writers |-> NoJob]
           /\ now < SlotExpiry =>
                file'.slot.rev = file.slot.rev + IF w \in Clients /\ client[w].step = "writing" THEN 1 ELSE 0
<1>1. /\ job[w] \in [base : States, next : States] /\ job[w] # NoJob
      /\ file' = Merge(job[w].base, job[w].next) /\ job' = [v \in Writers |-> NoJob]
  BY ReplaceTyped, Forms
<1>2. job[w].base = file /\ file.slot.rev \in Nat
  BY <1>1, FileSlot DEF IInv, BaseIsFile
<1>3. job[w].next \in States /\ job[w].next.slot.rev \in Nat
  BY <1>1 DEF States
<1>4. now < SlotExpiry =>
        file'.slot.rev = IF job[w].next.slot.rev > file.slot.rev THEN job[w].next.slot.rev ELSE file.slot.rev
  BY <1>1, <1>2, <1>3, MergedRev
<1>5. now < SlotExpiry => IF w \in Clients /\ client[w].step = "writing"
                          THEN job[w].next.slot.rev = file.slot.rev + 1
                          ELSE job[w].next.slot.rev <= file.slot.rev
  BY <1>1 DEF FeedbackInv, SlotCarried
<1>. QED BY <1>1, <1>2, <1>3, <1>4, <1>5

LEMMA ReplaceFeedback ==
    ASSUME IInv, FeedbackInv, NEW w \in Writers \ Clients, Replace(w),
           UNCHANGED <<client, now, incidents, applied, accepted>>,
           snapshot' \in {snapshot, NoSnapshot}
    PROVE  FeedbackInv'
<1>. SUFFICES ASSUME incidents = 0 PROVE (Posting /\ SlotCarried /\ Applied)'
  BY DEF FeedbackInv
<1>1. Posting /\ SlotCarried /\ Applied /\ file.slot.rev \in Nat
  BY FileSlot DEF FeedbackInv
<1>2. job' = [v \in Writers |-> NoJob] /\ (now < SlotExpiry => file'.slot.rev = file.slot.rev)
  BY <1>1, ReplacedSlot
<1>3. Posting' /\ SlotCarried' /\ Applied'
  BY <1>1, <1>2 DEF Posting, SlotCarried, Applied, Writers
<1>. QED BY <1>3

LEMMA PostFeedbackOnce == ASSUME IInv, FeedbackInv, NEW c \in Clients, PostFeedback(c) PROVE FeedbackInv'
<1>. SUFFICES ASSUME incidents = 0 PROVE (Posting /\ SlotCarried /\ Applied)'
  BY DEF PostFeedback, FeedbackInv
<1>. DEFINE slot == IF IsReplay(c) THEN Current ELSE [rev |-> Current.rev + 1, by |-> c]
            next == [Load EXCEPT !.slot = slot]
<1>1. /\ Load = file /\ file \in States /\ file.slot.rev \in 0..MaxRevision
      /\ now < SlotExpiry => Current = file.slot
      /\ ~(now < SlotExpiry) => Current = NoSlot
  BY FileSlot
<1>2. Current \in [rev : 0..MaxRevision, by : Clients \cup {Nobody}]
  BY <1>1, Times DEF States, NoSlot
<1>3. next \in States /\ next.slot = slot
  BY <1>1, <1>2, Times DEF PostFeedback, States
<1>4. c \in Writers /\ Enter(c, next) /\ UNCHANGED <<snapshot, now, incidents, applied, accepted>>
      /\ client' = [client EXCEPT ![c].step = IF IsReplay(c) THEN "replayed" ELSE "writing"]
      /\ client[c].expected \in Nat
  BY DEF PostFeedback, ghosts, Writers, IInv, TypeOK
<1>. HIDE DEF next
<1>5. /\ file' = file
      /\ job' = [v \in Writers |-> IF v = c THEN [base |-> Load, next |-> next] ELSE NoJob]
  BY <1>3, <1>4, EnterTyped
<1>6. /\ client'[c].step = (IF IsReplay(c) THEN "replayed" ELSE "writing")
      /\ client'[c].expected = client[c].expected
      /\ \A d \in Clients \ {c} : client'[d] = client[d]
  BY <1>4 DEF IInv, TypeOK
<1>7. job'[c].next.slot = slot /\ \A w \in Writers \ {c} : job'[w] = NoJob
  BY <1>3, <1>4, <1>5
<1>8. ~IsReplay(c) => now < SlotExpiry /\ file.slot.rev = client[c].expected
  BY <1>1 DEF PostFeedback, Accepts, NoSlot
<1>9. Posting /\ SlotCarried /\ Applied
  BY DEF FeedbackInv
<1>10. Posting'
  BY <1>6, <1>7 DEF Posting, Writers
<1>11. SlotCarried'
  <2>. SUFFICES ASSUME now < SlotExpiry PROVE SlotCarried'
    BY <1>4 DEF SlotCarried
  <2>1. IF client'[c].step = "writing" THEN job'[c].next.slot.rev = file.slot.rev + 1
        ELSE job'[c].next.slot.rev <= file.slot.rev
    BY <1>1, <1>6, <1>7
  <2>. QED BY <1>4, <1>5, <1>7, <1>9, <2>1 DEF SlotCarried
<1>12. Applied'
  <2>. SUFFICES ASSUME NEW d \in Clients
                PROVE  /\ applied[d] <= 1
                       /\ (job'[d] # NoJob /\ client'[d].step = "writing") =>
                            /\ applied[d] = 0
                            /\ now < SlotExpiry => job'[d].next.slot.rev = client'[d].expected + 1
                       /\ (applied[d] = 1 /\ now < SlotExpiry) => file.slot.rev > client'[d].expected
    BY <1>4, <1>5 DEF Applied
  <2>1. /\ applied[d] <= 1 /\ applied[d] \in Nat
        /\ (applied[d] = 1 /\ now < SlotExpiry) => file.slot.rev > client[d].expected
    BY <1>9 DEF Applied, IInv, TypeOK
  <2>2. CASE d # c
    BY <1>6, <1>7, <2>1, <2>2 DEF Writers
  <2>3. CASE d = c
    <3>1. client'[c].step = "writing" => ~IsReplay(c) /\ slot.rev = file.slot.rev + 1
      BY <1>1, <1>6, <1>8
    <3>. QED BY <1>1, <1>4, <1>6, <1>7, <1>8, <2>1, <2>3, <3>1
  <2>. QED BY <2>2, <2>3
<1>. QED BY <1>10, <1>11, <1>12

LEMMA FeedbackWrittenOnce == ASSUME IInv, FeedbackInv, NEW c \in Clients, FeedbackWritten(c) PROVE FeedbackInv'
<1>. SUFFICES ASSUME incidents = 0 PROVE (Posting /\ SlotCarried /\ Applied)'
  BY DEF FeedbackWritten, FeedbackInv
<1>. DEFINE made == IF client[c].step = "writing" THEN 1 ELSE 0
<1>1. /\ Replace(c) /\ c \in Writers /\ UNCHANGED <<snapshot, now, incidents>>
      /\ applied' = [applied EXCEPT ![c] = @ + made] /\ accepted' = accepted + made
      /\ \A d \in Clients : client'[d].expected = client[d].expected
  BY DEF FeedbackWritten, Writers, IInv, TypeOK
<1>2. Posting /\ SlotCarried /\ Applied
  BY DEF FeedbackInv
<1>3. job' = [v \in Writers |-> NoJob] /\ (now < SlotExpiry => file'.slot.rev = file.slot.rev + made)
  BY <1>1, ReplacedSlot
<1>4. file.slot.rev \in Nat /\ made \in Nat
  BY FileSlot
<1>5. job[c] # NoJob
  BY <1>1 DEF Replace, IInv, Holds
<1>6. Posting' /\ SlotCarried'
  <2>1. Posting'
    BY <1>3 DEF Posting, Writers
  <2>2. SlotCarried'
    <3>. SUFFICES ASSUME now < SlotExpiry PROVE SlotCarried'
      BY <1>1 DEF SlotCarried
    <3>1. file.slot.rev = accepted /\ (snapshot # NoSnapshot => snapshot.slot.rev <= file.slot.rev)
      BY <1>2 DEF SlotCarried
    <3>2. snapshot # NoSnapshot => snapshot.slot.rev \in Nat
      BY DEF IInv, TypeOK, States
    <3>3. file'.slot.rev = accepted'
      BY <1>1, <1>3, <3>1
    <3>4. snapshot # NoSnapshot => snapshot.slot.rev <= file'.slot.rev
      BY <1>3, <1>4, <3>1, <3>2
    <3>. QED BY <1>1, <1>3, <3>3, <3>4 DEF SlotCarried
  <2>. QED BY <2>1, <2>2
<1>7. Applied'
  <2>. SUFFICES ASSUME NEW d \in Clients
                PROVE  /\ applied'[d] <= 1
                       /\ (applied'[d] = 1 /\ now < SlotExpiry) => file'.slot.rev > client[d].expected
    BY <1>1, <1>3 DEF Applied, Writers
  <2>1. /\ applied[d] \in Nat /\ client[d].expected \in Nat /\ applied[d] <= 1
        /\ (applied[d] = 1 /\ now < SlotExpiry) => file.slot.rev > client[d].expected
    BY <1>2 DEF Applied, IInv, TypeOK
  <2>2. CASE d # c \/ client[c].step # "writing"
    <3>1. applied'[d] = applied[d]
      BY <1>1, <2>2 DEF IInv, TypeOK
    <3>. QED BY <1>3, <1>4, <2>1, <3>1
  <2>3. CASE d = c /\ client[c].step = "writing"
    <3>1. applied[c] = 0 /\ (now < SlotExpiry => job[c].next.slot.rev = client[c].expected + 1
                                              /\ job[c].next.slot.rev = file.slot.rev + 1)
      BY <1>1, <1>2, <1>5, <2>3 DEF Applied, SlotCarried
    <3>2. applied'[c] = 1
      BY <1>1, <2>3, <3>1 DEF IInv, TypeOK
    <3>. QED BY <1>3, <1>4, <2>1, <2>3, <3>1, <3>2
  <2>. QED BY <2>2, <2>3
<1>. QED BY <1>6, <1>7

LEMMA OperatorsFeedback ==
    ASSUME IInv, FeedbackInv, NEW c \in Clients, ReadRevision(c) \/ FeedbackConflict(c)
    PROVE  FeedbackInv'
<1>. SUFFICES ASSUME incidents = 0 PROVE (Posting /\ SlotCarried /\ Applied)'
  BY DEF ReadRevision, FeedbackConflict, FeedbackInv
<1>1. Posting /\ SlotCarried /\ Applied
  BY DEF FeedbackInv
<1>2. UNCHANGED <<file, job, snapshot, now, accepted>> /\ client[c].step \in {"idle", "post"}
  BY DEF ReadRevision, FeedbackConflict, Abandon, store, ghosts
<1>3. job[c] = NoJob
  BY <1>1, <1>2 DEF Posting
<1>4. \A d \in Clients \ {c} : client'[d] = client[d] /\ applied'[d] = applied[d]
  BY DEF ReadRevision, FeedbackConflict, ghosts, IInv, TypeOK
<1>5. applied'[c] = 0 \/ (applied'[c] = applied[c] /\ client'[c].expected = client[c].expected)
  BY DEF ReadRevision, FeedbackConflict, ghosts, IInv, TypeOK
<1>6. Posting' /\ SlotCarried' /\ Applied'
  <2>1. Posting'
    BY <1>1, <1>2, <1>3, <1>4 DEF Posting
  <2>2. SlotCarried'
    BY <1>1, <1>2, <1>3, <1>4 DEF SlotCarried
  <2>3. Applied'
    BY <1>1, <1>2, <1>3, <1>4, <1>5 DEF Applied
  <2>. QED BY <2>1, <2>2, <2>3
<1>. QED BY <1>6

LEMMA StepFeedback == ASSUME IInv, FeedbackInv, [Next]_vars PROVE FeedbackInv'
<1>1. ASSUME NEW p \in Probers, NEW r \in Rows, StartProbe(p, r) PROVE FeedbackInv'
  BY <1>1, SameFeedback DEF StartProbe, store, ghosts, FeedbackTuple
<1>2. ASSUME NEW p \in Probers, RecordEvidence(p) PROVE FeedbackInv'
  <2>. DEFINE next == [Load EXCEPT !.rows[probe[p].row] = [at |-> probe[p].at, by |-> p]]
  <2>1. probe[p] \in [row : Rows, at : 1..MaxNow] /\ Load \in States /\ p \in Writers \ Clients
    BY <1>2, LoadTyped, WritersDistinct DEF RecordEvidence, IInv, TypeOK, Writers
  <2>2. next \in States /\ next.slot = Load.slot
    BY <2>1 DEF States
  <2>. HIDE DEF next
  <2>3. Enter(p, next) /\ UNCHANGED <<client, snapshot, now, incidents, applied, accepted>>
    BY <1>2 DEF RecordEvidence, actors, ghosts, next
  <2>4. incidents = 0 /\ now < SlotExpiry => next.slot.rev <= file.slot.rev
    BY <2>2, FileSlot
  <2>. QED BY <2>1, <2>2, <2>3, <2>4, EnterFeedback
<1>3. ASSUME NEW p \in Probers, EvidenceRecorded(p) PROVE FeedbackInv'
  BY <1>3, ReplaceFeedback, WritersDistinct DEF EvidenceRecorded, Writers
<1>4. ASSUME NEW c \in Clients, ReadRevision(c) \/ FeedbackConflict(c) PROVE FeedbackInv'
  BY <1>4, OperatorsFeedback
<1>5. ASSUME NEW c \in Clients, PostFeedback(c) PROVE FeedbackInv'
  BY <1>5, PostFeedbackOnce
<1>6. ASSUME NEW c \in Clients, FeedbackWritten(c) PROVE FeedbackInv'
  BY <1>6, FeedbackWrittenOnce
<1>7. CASE TakeSnapshot
  <2>1. incidents = 0 => Load = file /\ file.slot.rev \in Nat
    BY FileSlot
  <2>. QED BY <1>7, <2>1 DEF TakeSnapshot, store, ghosts, FeedbackInv, Posting, SlotCarried, Applied
<1>8. CASE RepairStarts
  <2>1. snapshot \in States /\ snapshot # NoSnapshot /\ Repairer \in Writers \ Clients
    BY <1>8, WritersDistinct DEF RepairStarts, IInv, TypeOK, Writers
  <2>2. incidents = 0 /\ now < SlotExpiry => snapshot.slot.rev <= file.slot.rev
    BY <2>1 DEF FeedbackInv, SlotCarried
  <2>. QED BY <1>8, <2>1, <2>2, EnterFeedback DEF RepairStarts, actors, ghosts
<1>9. CASE RepairWritten
  BY <1>9, ReplaceFeedback, WritersDistinct DEF RepairWritten, Writers, ghosts
<1>10. CASE Tick
  <2>1. now \in Nat /\ SlotExpiry \in Nat /\ (now + 1 < SlotExpiry => now < SlotExpiry)
    BY Times DEF IInv, TypeOK
  <2>. QED BY <1>10, <2>1 DEF Tick, store, actors, ghosts, FeedbackInv, Posting, SlotCarried, Applied
<1>11. CASE BackupAges \/ UNCHANGED vars
  BY <1>11, SameFeedback DEF BackupAges, vars, actors, ghosts, FeedbackTuple
<1>12. CASE Corrupt \/ KillWriter
  BY <1>12 DEF Corrupt, KillWriter, Incident, IInv, TypeOK, FeedbackInv
<1>. QED BY <1>1, <1>2, <1>3, <1>4, <1>5, <1>6, <1>7, <1>8, <1>9, <1>10, <1>11, <1>12 DEF Next

\* What is written after the expiry has no slot.
LEMMA StaysGoneStep == ASSUME IInv, Next PROVE StaysGone
<1>1. ASSUME NEW w \in Writers, Replace(w) PROVE StaysGone
  <2>1. job[w] \in [base : States, next : States] /\ file' = Merge(job[w].base, job[w].next)
    BY <1>1, ReplaceTyped
  <2>2. job[w].base \in States /\ job[w].next \in States
    BY <2>1
  <2>. QED BY <2>1, <2>2, MergedRev DEF StaysGone
<1>2. ASSUME file' = file \/ file' = Unreadable PROVE StaysGone
  BY <1>2 DEF StaysGone, Readable
<1>. QED
  BY <1>1, <1>2
  DEF Next, StartProbe, RecordEvidence, EvidenceRecorded, ReadRevision, PostFeedback, FeedbackConflict,
      FeedbackWritten, TakeSnapshot, RepairStarts, RepairWritten, Tick, BackupAges, Corrupt, KillWriter,
      Enter, Abandon, store, Writers

\* A feedback post counts once, however often its answer is lost and it comes again, no revision is
\* lost to a writer that had not seen it, and an expired slot does not come back: for any number of
\* operators, probers and revisions (record_quality_feedback, merge_quality_feedback_history).
THEOREM FeedbackCountsOnce == Spec => FeedbackStands
<1>1. IInv' /\ FeedbackInv' => FeedbackExactlyOnce'
  BY DEF FeedbackInv, SlotCarried, Applied, FeedbackExactlyOnce
<1>2. IInv /\ FeedbackInv /\ [Next]_vars => IInv' /\ FeedbackInv'
  BY StepIInv, StepFeedback
<1>3. IInv /\ FeedbackInv /\ [Next]_vars => [FeedbackExactlyOnce' /\ StaysGone]_vars
  BY <1>1, <1>2, StaysGoneStep
<1>4. Init => IInv /\ FeedbackInv
  BY InitIInv, InitFeedback
<1>. QED BY <1>2, <1>3, <1>4, PTL DEF Spec, FeedbackStands
=============================================================================
