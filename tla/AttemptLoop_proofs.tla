-------------------------- MODULE AttemptLoop_proofs -----------------------
(***************************************************************************)
(* What becomes of a request: the attempts, the answer relayed, the        *)
(* verdicts on the failures, the reasoning kept for the next turn and the  *)
(* line it leaves in the log.                                              *)
(*                                                                         *)
(* AttemptLoop, for every pool, configuration and sequence of failures.    *)
(*                                                                         *)
(* StreamRelay, for bodies of any length.  While a body comes in, the      *)
(* client has the headers only after the commit (HeadersFollow), and what  *)
(* was passed on without being credited as an answer had none in it        *)
(* (PassedIsRead).  What a translation told of the end is what became of   *)
(* it, but for errors left to the relay, and a terminator passed on has    *)
(* ended the message (ToldFollows); events are read one after the other,   *)
(* so that the last one counts (PieceFed, TerminatorTold).                 *)
(*                                                                         *)
(* Failures.  An echo is harmless because the classifier reads the         *)
(* structure of a rejection before its text (StructureIsRead) and leaves   *)
(* the bare word alone where it may be the caller's (WordIsNotRead).  The  *)
(* four verdicts agree because the one row of an attempt that was not made *)
(* is the last and never the only one (MadeBut).                           *)
(*                                                                         *)
(* ReasoningReplay, for any number of turns in flight at once.  A choice   *)
(* of a stream has parts of its own turn only (ChoicesAreOwn), and what is *)
(* stored under a call is what that call's turn thought (StoreIsOwn).      *)
(*                                                                         *)
(* RequestLog, for every size of batch, table and page.  What a catch-up   *)
(* has passed over answers for itself or was pushed out by as many rows as *)
(* young (AnswersFor), which inserting in the order of the log preserves   *)
(* because a correction is behind its row (LogInOrder), and trimming       *)
(* because the first row it drops has a full table before it.  The offset  *)
(* is of the file it is compared with (ReaderFollows), and nothing comes   *)
(* up behind a page's cursor (PageFollows).                                *)
(***************************************************************************)
EXTENDS AttemptLoop, StreamRelay, Failures, ReasoningReplay, RequestLog, SetLemmas, SequenceTheorems

LEMMA SubsetsFinite ==
  ASSUME NEW S \in SUBSET Models
  PROVE  IsFiniteSet(S) /\ Cardinality(S) \in Nat
BY ModelsAssumption, FS_Subset, FS_CardinalityType

\* A candidate's place in a window is a natural number.
LEMMA PlaceType ==
  ASSUME NEW S \in SUBSET Models, NEW n, NEW m
  PROVE  Place(m, S, n) \in Nat
<1>1. {k \in Kept(S, n) : k < m} \in SUBSET Models
  BY DEF Kept
<1>2. Kept(S, n) \cup {k \in Deferred(S, n) : k < m} \in SUBSET Models
  BY DEF Kept, Deferred
<1> QED BY <1>1, <1>2, SubsetsFinite DEF Place

LEMMA PlannedType ==
  ASSUME pool \in SUBSET Models
  PROVE  Planned \in Nat
BY SubsetsFinite, ConfigAssumption DEF Planned

\* A context rejection rules out windows up to the one that failed.
LEMMA GrownType ==
  ASSUME NEW size \in Nat, required \in Nat, model \in Models
  PROVE  /\ Grown(size) \in Nat
         /\ Grown(size) >= required /\ Grown(size) > Context[model]
<1> DEFINE c == Context[model] + 1
           sizes == {required, size, c}
<1>1. c \in Nat /\ Context[model] \in Nat /\ c > Context[model]
  BY ModelsAssumption
<1> HIDE DEF c
<1>2. \E x \in sizes : \A y \in sizes : x >= y
  <2>1. CASE required >= size /\ required >= c
    BY <2>1, <1>1
  <2>2. CASE size >= required /\ size >= c
    BY <2>2, <1>1
  <2>3. CASE c >= required /\ c >= size
    BY <2>3, <1>1
  <2> QED BY <2>1, <2>2, <2>3, <1>1
<1>3. Max(sizes) \in sizes /\ \A y \in sizes : Max(sizes) >= y
  BY <1>2 DEF Max
<1>4. Grown(size) \in Nat /\ Grown(size) >= required /\ Grown(size) >= c
  BY <1>1, <1>3 DEF Grown, c
<1> QED BY <1>1, <1>4

\* The rows' hints are a finite set of numbers.
LEMMA HintsFinite ==
  ASSUME attempts \in Seq(Row)
  PROVE  /\ IsFiniteSet({attempts[i].hint : i \in Rows} \ {0})
         /\ {attempts[i].hint : i \in Rows} \ {0} \subseteq Nat
<1> DEFINE all == {attempts[i].hint : i \in Rows}
           f == [i \in Rows |-> attempts[i].hint]
<1>1. Rows = 1..Len(attempts) /\ Len(attempts) \in Nat
  BY DEF Rows
<1>2. IsFiniteSet(Rows)
  BY <1>1, FS_Interval
<1>3. f \in [Rows -> all] /\ \A h \in all : \E i \in Rows : f[i] = h
  <2>1. f \in [Rows -> all]
    OBVIOUS
  <2>2. ASSUME NEW h \in all PROVE \E i \in Rows : f[i] = h
    <3>1. PICK i \in Rows : attempts[i].hint = h
      OBVIOUS
    <3>2. f[i] = h
      BY <3>1
    <3> QED BY <3>2
  <2> QED BY <2>1, <2>2
<1>4. IsFiniteSet(all)
  <2> HIDE DEF f, all
  <2> QED BY <1>2, <1>3, FiniteImage
<1>5. ASSUME NEW i \in Rows PROVE attempts[i].hint \in Nat
  <2>1. attempts[i] \in Row
    BY <1>1
  <2>2. attempts[i].hint \in Hints
    BY <2>1 DEF Row
  <2> QED BY <2>2, RequestAssumption
<1>6. all \subseteq Nat
  BY <1>5
<1>7. all \ {0} \in SUBSET all
  OBVIOUS
<1> HIDE DEF all
<1>8. IsFiniteSet(all \ {0})
  BY <1>4, <1>7, FS_Subset
<1> QED BY <1>6, <1>8 DEF all

LEMMA PassWaitType ==
  ASSUME attempts \in Seq(Row)
  PROVE  PassWait \in Nat
<1> DEFINE hinted == {attempts[i].hint : i \in Rows} \ {0}
           longest == IF hinted = {} THEN PassDefault ELSE Max(hinted)
<1>1. IsFiniteSet(hinted) /\ hinted \subseteq Nat
  BY HintsFinite
<1>2. longest \in Nat
  <2>1. CASE hinted = {}
    BY <2>1, ConfigAssumption
  <2>2. CASE hinted # {}
    <3>1. hinted \subseteq Int
      <4> HIDE DEF hinted
      <4> QED BY <1>1
    <3>2. Max(hinted) \in hinted
      <4> HIDE DEF hinted
      <4> QED BY <1>1, <3>1, <2>2, GreatestElement
    <3> QED BY <1>1, <3>2, <2>2
  <2> QED BY <2>1, <2>2
<1>3. PassWait = Max({PassMin, longest})
  BY DEF PassWait
<1> HIDE DEF longest
<1>4. \E x \in {PassMin, longest} : \A y \in {PassMin, longest} : x >= y
  <2>1. CASE PassMin >= longest
    BY <2>1, <1>2, ConfigAssumption
  <2>2. CASE longest >= PassMin
    BY <2>2, <1>2, ConfigAssumption
  <2> QED BY <2>1, <2>2, <1>2, ConfigAssumption
<1>5. Max({PassMin, longest}) \in {PassMin, longest}
  BY <1>4 DEF Max
<1> QED BY <1>2, <1>3, <1>5, ConfigAssumption
-----------------------------------------------------------------------------
(***************************************************************************)
(* Type correctness.                                                       *)
(***************************************************************************)

\* The types, with what they need to be inductive: a row is of a candidate
\* that was asked.
TypeInv == TypeOK /\ Asked

\* One more row: what was recorded stays, and the new row comes last.
LEMMA RecordedRow ==
  ASSUME TypeInv, considered > 0,
         NEW reason \in AllReasons \cup {"ok", "mid_stream"}, NEW hint \in Hints,
         NEW scoped \in BOOLEAN, NEW knob \in BOOLEAN,
         Record(reason, hint, scoped, knob)
  PROVE  /\ attempts' \in Seq(Row)
         /\ Len(attempts') = Len(attempts) + 1 /\ Len(attempts) \in Nat
         /\ Rows' = 1..(Len(attempts) + 1) /\ Rows = 1..Len(attempts)
         /\ \A i \in Rows : attempts'[i] = attempts[i]
         /\ attempts'[Len(attempts) + 1] =
              [model |-> model, reason |-> reason, hint |-> hint,
               scoped |-> scoped, knob |-> knob]
         /\ attempts' # <<>>
         /\ \A i \in Rows' : attempts'[i].model \in consideredIds
<1> DEFINE row == [model |-> model, reason |-> reason, hint |-> hint,
                   scoped |-> scoped, knob |-> knob]
<1>1. model \in consideredIds /\ model \in Models /\ attempts \in Seq(Row)
  BY DEF TypeInv, TypeOK, Asked
<1>2. row \in Row
  BY <1>1 DEF Row
<1>3. attempts' = Append(attempts, row)
  BY DEF Record
<1>4. row.model = model
  OBVIOUS
<1> HIDE DEF row
<1>5. attempts' \in Seq(Row) /\ Len(attempts') = Len(attempts) + 1
      /\ Len(attempts) \in Nat
  BY <1>1, <1>2, <1>3
<1>6. Rows' = 1..(Len(attempts) + 1) /\ Rows = 1..Len(attempts)
  BY <1>1, <1>5 DEF Rows
<1>7. \A i \in Rows : attempts'[i] = attempts[i]
  BY <1>1, <1>2, <1>3, <1>6
<1>8. attempts'[Len(attempts) + 1] = row
  BY <1>1, <1>2, <1>3, <1>5
<1>9. attempts' # <<>>
  BY <1>5
<1>10. ASSUME NEW i \in Rows' PROVE attempts'[i].model \in consideredIds
  <2>1. CASE i \in Rows
    BY <1>7, <2>1 DEF TypeInv, Asked
  <2>2. CASE i = Len(attempts) + 1
    BY <1>1, <1>4, <1>8, <2>2
  <2> QED BY <1>5, <1>6, <2>1, <2>2
<1> QED BY <1>5, <1>6, <1>7, <1>8, <1>9, <1>10 DEF row

LEMMA InitTypeInv == Init => TypeInv
<1> SUFFICES ASSUME Init PROVE TypeInv
  OBVIOUS
<1>1. pool \in SUBSET Models /\ pool # {}
  BY ModelsAssumption DEF Init
<1>2. slot \in [Models -> Nat]
  BY <1>1, PlaceType DEF Init
<1>3. pending \in SUBSET pool
  BY DEF Init, Diverse
<1>4. attempts = <<>> /\ attempts \in Seq(Row) /\ Rows = {}
  BY DEF Init, Rows
<1>5. TypeOK
  BY <1>1, <1>2, <1>3, <1>4, RequestAssumption, ConfigAssumption DEF Init, TypeOK
<1>6. Asked
  BY <1>4 DEF Init, Asked
<1> QED BY <1>5, <1>6 DEF TypeInv

LEMMA AskNextType ==
  ASSUME TypeInv, NEW size \in SizeFact, NEW m \in Models, NEW known \in SUBSET Knobs,
         AskNext(size, m, known)
  PROVE  TypeInv'
<1> USE DEF TypeInv
<1>1. size \in Nat
  <2>1. CASE LastReason \in ContextDiverting
    <3>1. attempts # <<>>
      BY <2>1 DEF LastReason, ContextDiverting
    <3>2. model \in Models
      BY <3>1 DEF TypeOK, Asked
    <3>3. PICK s \in Sizes \cup {0} : size = Grown(s)
      BY <2>1 DEF SizeFact
    <3> QED BY <3>2, <3>3, GrownType, RequestAssumption DEF TypeOK
  <2>2. CASE LastReason \notin ContextDiverting
    BY <2>2 DEF SizeFact, TypeOK
  <2> QED BY <2>1, <2>2
<1>2. Survivors(size) \in SUBSET (pool \ consideredIds) /\ Survivors(size) \in SUBSET Models
  BY DEF Survivors, TypeOK
<1>3. Replanned(size) \subseteq pool
  BY <1>2 DEF Replanned, Diverse
<1>4. pending' \subseteq pool /\ m \in pool
  BY <1>3 DEF AskNext, TypeOK
<1>5. slot' \in [Models -> Nat]
  <2>1. \A k \in Models : considered + Place(k, Survivors(size), Planned - considered) \in Nat
    BY <1>2, PlaceType DEF TypeOK
  <2> QED BY <2>1 DEF AskNext, TypeOK
<1>6. SourceFact \subseteq {Source[k] : k \in Models}
      /\ UpstreamFact \subseteq {Upstream[k] : k \in Models}
  <2>1. CASE attempts = <<>>
    BY <2>1 DEF SourceFact, UpstreamFact, LastReason, LastScoped, SourceDiverting, UpstreamDiverting
  <2>2. CASE attempts # <<>>
    <3>1. attempts \in Seq(Row)
      BY DEF TypeOK
    <3>2. Len(attempts) \in Rows
      BY <2>2, <3>1 DEF Rows
    <3>3. LastRow.model \in Models
      BY <3>2 DEF Asked, TypeOK, LastRow
    <3> QED BY <3>3 DEF SourceFact, UpstreamFact
  <2> QED BY <2>1, <2>2
<1>7. considered' \in Nat /\ consideredIds' \in SUBSET pool /\ model' \in pool
      /\ pc' = "asking" /\ required' \in Nat /\ divert' = FALSE
      /\ dropped' \in SUBSET Knobs
      /\ ruledSources' \subseteq {Source[k] : k \in Models}
      /\ ruledUpstreams' \subseteq {Upstream[k] : k \in Models}
  BY <1>1, <1>4, <1>6 DEF AskNext, TypeOK
<1>8. UNCHANGED <<ruledKeys, again, request, capacity, attempts, reply, outside,
                  clocks, wait>>
  BY DEF AskNext
<1>9. TypeOK'
  BY <1>4, <1>5, <1>7, <1>8
  DEF TypeOK, request, capacity, reply, outside, clocks
<1>10. Asked'
  BY DEF AskNext, Asked, TypeOK, request, Rows
<1> QED BY <1>9, <1>10

LEMMA PassType ==
  ASSUME TypeInv
  PROVE  Retried \in SUBSET consideredIds /\ \A m : PassPlace(m) \in Nat
<1>1. {attempts[i].model : i \in Rows} \subseteq consideredIds
  BY DEF TypeInv, Asked
<1>2. Askable \in SUBSET Models /\ Askable \subseteq consideredIds
  BY <1>1 DEF Askable, TypeInv, TypeOK
<1>3. ASSUME NEW m PROVE PassPlace(m) \in Nat
  <2>1. {k \in Askable : FirstRow(k) < FirstRow(m)} \in SUBSET Models
    BY <1>2
  <2> QED BY <2>1, SubsetsFinite DEF PassPlace
<1> QED BY <1>2, <1>3 DEF Retried

LEMMA CapacityRetryPassType ==
  ASSUME TypeInv, CapacityRetryPass
  PROVE  TypeInv'
<1> USE DEF TypeInv
<1>1. Retried \subseteq pool /\ \A m : PassPlace(m) \in Nat
  BY PassType DEF TypeOK
<1>2. slot' \in [Models -> Nat]
  BY <1>1 DEF CapacityRetryPass, TypeOK
<1>3. wait' \in Nat /\ pending' \in SUBSET pool /\ passStarted' = TRUE /\ pc' = "waiting"
  BY <1>1, PassWaitType DEF CapacityRetryPass, TypeOK
<1>4. UNCHANGED <<considered, consideredIds, request, facts, turn, capRetried,
                  attempts, reply, outside, clocks>>
  BY DEF CapacityRetryPass
<1>5. TypeOK'
  BY <1>2, <1>3, <1>4 DEF TypeOK, request, facts, turn, reply, outside, clocks
<1>6. considered > 0
  BY DEF CapacityRetryPass, PassOpens, Asked
<1>7. Asked'
  BY <1>3, <1>4, <1>6 DEF Asked, Rows, turn, request
<1> QED BY <1>5, <1>7

\* The steps that leave the window, the facts and the rows alone.
LEMMA QuietType ==
  ASSUME TypeInv,
         \/ AskAgain \/ StopShort \/ PassWaitEnds \/ WindowSpent \/ PauseEnds
         \/ StreamCommits \/ ClientLeaves \/ Sigterm \/ Kill \/ Tick \/ Done
  PROVE  TypeInv'
<1> USE DEF TypeInv
<1>1. CASE AskAgain
  <2>1. pc' = "asking" /\ again' = FALSE
        /\ UNCHANGED <<model, dropped, request, window, facts, capacity, attempts,
                    reply, outside, clocks, wait>>
    BY <1>1 DEF AskAgain
  <2>2. TypeOK'
    BY <2>1 DEF TypeOK, request, window, facts, capacity, reply, outside, clocks
  <2>3. Asked'
    BY <1>1, <2>1 DEF AskAgain, Asked, Rows, request, window, facts, capacity, reply, outside, clocks
  <2> QED BY <2>2, <2>3
<1>2. CASE StopShort
  BY <1>2 DEF StopShort, GiveUp, TypeOK, Asked, Rows, request, window, facts, turn,
              capacity, outside, clocks
<1>3. CASE PassWaitEnds
  BY <1>3 DEF PassWaitEnds, TypeOK, Asked, Rows, request, window, facts, turn,
              capacity, reply, outside, clocks
<1>4. CASE WindowSpent
  BY <1>4 DEF WindowSpent, GiveUp, TypeOK, Asked, Rows, request, window, facts,
              turn, capacity, outside, clocks
<1>5. CASE PauseEnds
  BY <1>5 DEF PauseEnds, TypeOK, Asked, Rows, request, window, facts, turn,
              capacity, reply, outside, clocks
<1>6. CASE StreamCommits
  BY <1>6 DEF StreamCommits, TypeOK, Asked, Rows, request, window, facts, turn,
              capacity, outside, clocks
<1>7. CASE ClientLeaves
  <2>1. connected' \in BOOLEAN
        /\ UNCHANGED <<virtual, stream, pool, pending, slot, considered, consideredIds,
                       ruledSources, ruledKeys, ruledUpstreams, required, divert,
                       model, again, dropped, capRetried, passStarted, attempts,
                       outcome, committed, budget, drain, pc, wait, stopping>>
    BY <1>7 DEF ClientLeaves, request, window, facts, turn, capacity, reply, clocks
  <2>2. TypeOK'
    BY <2>1 DEF TypeOK
  <2>3. Asked'
    BY <2>1 DEF Asked, Rows
  <2> QED BY <2>2, <2>3
<1>8. CASE Sigterm
  BY <1>8 DEF Sigterm, TypeOK, Asked, Rows, request, window, facts, turn,
              capacity, reply, clocks
<1>9. CASE Kill
  BY <1>9 DEF Kill, TypeOK, Asked, Rows, request, window, facts, turn,
              capacity, reply, outside, clocks
<1>10. CASE Tick
  <2>1. budget' \in Nat /\ drain' \in Nat /\ wait' \in Nat
    BY <1>10 DEF Tick, Less, TypeOK
  <2> QED
    BY <1>10, <2>1 DEF Tick, TypeOK, Asked, Rows, request, window, facts, turn,
                       capacity, reply, outside
<1>11. CASE Done
  BY <1>11 DEF Done, vars, TypeOK, Asked, Rows, request, window, facts, turn,
               capacity, reply, outside, clocks
<1> QED
  BY <1>1, <1>2, <1>3, <1>4, <1>5, <1>6, <1>7, <1>8, <1>9, <1>10, <1>11

LEMMA RuleOutType ==
  ASSUME TypeInv, model \in Models, NEW reason, RuleOut(reason)
  PROVE  /\ ruledSources' \subseteq {Source[m] : m \in Models}
         /\ ruledKeys' \subseteq {QuotaKey[m] : m \in Models}
         /\ UNCHANGED <<ruledUpstreams, required>> /\ divert' \in BOOLEAN
BY DEF TypeInv, TypeOK, RuleOut

\* A call that was answered leaves one row behind; what else it changes is of
\* the right type.
LEMMA AnsweredType ==
  ASSUME TypeInv, considered > 0,
         NEW reason \in AllReasons \cup {"ok", "mid_stream"}, NEW hint \in Hints,
         NEW scoped \in BOOLEAN, NEW knob \in BOOLEAN,
         Record(reason, hint, scoped, knob),
         UNCHANGED <<request, window, outside, clocks, model, passStarted>>,
         ruledSources' \subseteq {Source[m] : m \in Models},
         ruledKeys' \subseteq {QuotaKey[m] : m \in Models},
         ruledUpstreams' = ruledUpstreams, required' = required,
         divert' \in BOOLEAN, again' \in BOOLEAN, dropped' \in SUBSET Knobs,
         capRetried' \in SUBSET pool, wait' \in Nat, committed' \in BOOLEAN,
         pc' \in {"choose", "paused", "ended"},
         outcome' \in {"none", "answered", "streamed", "broken", "json_failure",
                       "abandoned"}
  PROVE  TypeInv'
<1>1. attempts' \in Seq(Row) /\ \A i \in Rows' : attempts'[i].model \in consideredIds
  BY RecordedRow
<1>2. TypeOK'
  BY <1>1 DEF TypeInv, TypeOK, request, window, outside, clocks
<1>3. Asked'
  BY <1>1 DEF TypeInv, Asked, request, window
<1> QED BY <1>2, <1>3 DEF TypeInv

LEMMA AnswerType ==
  ASSUME TypeInv, Answer
  PROVE  TypeInv'
<1> USE DEF TypeInv
<1>1. CASE StreamCommits
  BY <1>1, QuietType
<1> SUFFICES ASSUME ~StreamCommits PROVE TypeInv'
  BY <1>1
<1>2. considered > 0 /\ model \in Models /\ model \in pool /\ 0 \in Hints /\ Hints \subseteq Nat
  BY RequestAssumption
  DEF Answer, TypeOK, Asked, AdmissionRefused, InvocationFails, JsonAnswer, NoAnswer,
      StreamEnds, HttpFailure, KnobsRejected
<1>3. Reasons \subseteq AllReasons /\ Classified \subseteq AllReasons
  BY RequestAssumption DEF AllReasons
<1>4. ASSUME NEW seconds \in Hints \ {0}, AdmissionRefused(seconds) PROVE TypeInv'
  <2>1. Record("rate_limited", seconds, FALSE, FALSE)
        /\ UNCHANGED <<request, window, outside, clocks>> /\ "rate_limited" \in AllReasons
    BY <1>3, <1>4 DEF AdmissionRefused
  <2>2. CASE CanRetryInline(seconds) /\ PauseThenRetry(seconds) /\ UNCHANGED facts
    BY <1>2, <2>1, <2>2, AnsweredType DEF PauseThenRetry, facts, reply, TypeOK
  <2>3. CASE /\ ruledSources' = ruledSources \cup {Source[model]}
             /\ divert' = (divert \/ Source[model] \notin ruledSources)
             /\ pc' = "choose"
             /\ UNCHANGED <<ruledKeys, ruledUpstreams, required, turn, capacity,
                            reply, wait>>
    <3>1. ruledSources' \subseteq {Source[m] : m \in Models} /\ divert' \in BOOLEAN
      BY <1>2, <2>3 DEF TypeOK
    <3> QED BY <1>2, <2>1, <2>3, <3>1, AnsweredType DEF turn, capacity, reply, TypeOK
  <2> QED BY <1>4, <2>2, <2>3 DEF AdmissionRefused
<1>5. ASSUME NEW reason \in Reasons \cap Raised, InvocationFails(reason) PROVE TypeInv'
  BY <1>2, <1>3, <1>5, AnsweredType, RuleOutType
  DEF InvocationFails, turn, capacity, reply, TypeOK
<1>6. CASE JsonAnswer
  BY <1>2, <1>6, AnsweredType DEF JsonAnswer, turn, capacity, facts, TypeOK
<1>7. ASSUME NEW reason \in Reasons, NoAnswer(reason) PROVE TypeInv'
  BY <1>2, <1>3, <1>7, AnsweredType, RuleOutType
  DEF NoAnswer, MoveOn, GiveUp, turn, capacity, reply, TypeOK
<1>8. ASSUME NEW how \in {"streamed", "broken"}, StreamEnds(how) PROVE TypeInv'
  BY <1>2, <1>8, AnsweredType DEF StreamEnds, turn, capacity, facts, TypeOK
<1>9. ASSUME NEW reason \in Reasons \cap Classified, NEW seconds \in Hints,
             NEW scoped \in BOOLEAN, HttpFailure(reason, seconds, scoped)
      PROVE  TypeInv'
  <2>1. Record(reason, seconds, scoped, FALSE) /\ RuleOut(reason)
        /\ UNCHANGED <<request, window, outside, clocks>>
    BY <1>9 DEF HttpFailure
  <2>2. CASE PauseThenRetry(seconds)
    BY <1>2, <1>3, <2>1, <2>2, AnsweredType, RuleOutType DEF PauseThenRetry, reply, TypeOK
  <2>3. CASE MoveOn(reason) /\ UNCHANGED <<turn, capacity, wait>>
    BY <1>2, <1>3, <2>1, <2>3, AnsweredType, RuleOutType
    DEF MoveOn, GiveUp, turn, capacity, reply, TypeOK
  <2> QED BY <1>9, <2>2, <2>3 DEF HttpFailure
<1>10. ASSUME NEW named \in SUBSET Knobs, NEW reason \in NonRetryable \cup SourceDiverting,
              KnobsRejected(named, reason)
       PROVE  TypeInv'
  <2>1. reason \in AllReasons
    BY <1>3 DEF NonRetryable, SourceDiverting, Classified
  <2> QED BY <1>2, <1>10, <2>1, AnsweredType DEF KnobsRejected, facts, capacity, reply, TypeOK
<1> QED BY <1>4, <1>5, <1>6, <1>7, <1>8, <1>9, <1>10 DEF Answer

LEMMA StepTypeInv == TypeInv /\ [Next]_vars => TypeInv'
<1> SUFFICES ASSUME TypeInv, [Next]_vars PROVE TypeInv'
  OBVIOUS
<1>1. CASE Choose
  BY <1>1, AskNextType, CapacityRetryPassType, QuietType DEF Choose
<1>2. CASE Answer
  BY <1>2, AnswerType
<1>3. CASE ClientLeaves \/ Sigterm \/ Kill \/ Tick \/ Done
  BY <1>3, QuietType
<1>4. CASE UNCHANGED vars
  BY <1>4 DEF vars, TypeInv, TypeOK, Asked, Rows, request, window, facts, turn,
              capacity, reply, outside, clocks
<1> QED BY <1>1, <1>2, <1>3, <1>4 DEF Next

\* Every variable keeps its type whatever the pool, the configuration and the
\* failures: in particular no re-plan offers a candidate the pool does not hold.
THEOREM TypeCorrect == Spec => []TypeOK
<1>1. Spec => []TypeInv
  BY InitTypeInv, StepTypeInv, PTL DEF Spec
<1>2. TypeInv => TypeOK
  BY DEF TypeInv
<1> QED BY <1>1, <1>2, PTL
-----------------------------------------------------------------------------
(***************************************************************************)
(* A refused body, a committed stream, and candidates asked twice.         *)
(***************************************************************************)

\* A rejected body leaves the loop at once, so the rows of a running request
\* hold none: the property is inductive as it stands.
LEMMA StepRejected == TypeInv /\ RejectedBodyStops /\ [Next]_vars => RejectedBodyStops'
<1> SUFFICES ASSUME TypeInv, RejectedBodyStops, [Next]_vars PROVE RejectedBodyStops'
  OBVIOUS
<1>1. ASSUME pc # "ended", considered > 0,
             NEW reason \in AllReasons \cup {"ok", "mid_stream"}, NEW hint \in Hints,
             NEW scoped \in BOOLEAN, NEW knob \in BOOLEAN,
             Record(reason, hint, scoped, knob),
             (reason \in NonRetryable /\ ~knob) => pc' = "ended"
      PROVE  RejectedBodyStops'
  <2>1. \A i \in Rows : ~(attempts[i].reason \in NonRetryable /\ ~attempts[i].knob)
    BY <1>1 DEF RejectedBodyStops
  <2>2. ASSUME NEW i \in Rows', attempts'[i].reason \in NonRetryable, ~attempts'[i].knob
        PROVE  i = Len(attempts') /\ pc' = "ended"
    <3>1. /\ Rows' = 1..(Len(attempts) + 1) /\ Rows = 1..Len(attempts)
          /\ Len(attempts') = Len(attempts) + 1 /\ Len(attempts) \in Nat
          /\ \A k \in Rows : attempts'[k] = attempts[k]
          /\ attempts'[Len(attempts) + 1] =
               [model |-> model, reason |-> reason, hint |-> hint,
                scoped |-> scoped, knob |-> knob]
      BY <1>1, RecordedRow
    <3>2. i \notin Rows
      BY <2>1, <2>2, <3>1
    <3>3. i = Len(attempts) + 1
      BY <3>1, <3>2
    <3> QED BY <1>1, <2>2, <3>1, <3>3
  <2> QED BY <2>2 DEF RejectedBodyStops
<1>2. ASSUME UNCHANGED attempts, pc = "ended" => pc' = "ended" PROVE RejectedBodyStops'
  BY <1>2 DEF RejectedBodyStops, Rows
<1>3. CASE Answer /\ UNCHANGED attempts
  <2>1. pc # "ended"
    BY <1>3 DEF Answer, AdmissionRefused, InvocationFails, JsonAnswer, NoAnswer,
                StreamCommits, StreamEnds, HttpFailure, KnobsRejected
  <2> QED BY <1>2, <1>3, <2>1
<1>4. CASE Answer
  <2>1. /\ considered > 0 /\ 0 \in Hints /\ Hints \subseteq Nat
        /\ Reasons \subseteq AllReasons /\ Classified \subseteq AllReasons
    BY <1>4, RequestAssumption
    DEF Answer, TypeInv, TypeOK, Asked, AdmissionRefused, InvocationFails, JsonAnswer,
        NoAnswer, StreamCommits, StreamEnds, HttpFailure, KnobsRejected, AllReasons
  <2>2. ASSUME NEW seconds \in Hints \ {0}, AdmissionRefused(seconds)
        PROVE  RejectedBodyStops'
    <3>1. "rate_limited" \in AllReasons /\ "rate_limited" \notin NonRetryable
      BY <2>1, <2>2 DEF AdmissionRefused, NonRetryable
    <3> QED BY <1>1, <2>1, <2>2, <3>1 DEF AdmissionRefused
  <2>3. ASSUME NEW reason \in Reasons \cap Raised, InvocationFails(reason)
        PROVE  RejectedBodyStops'
    <3>1. reason \notin NonRetryable
      BY DEF Raised, NonRetryable
    <3> QED BY <1>1, <2>1, <2>3, <3>1 DEF InvocationFails
  <2>4. CASE JsonAnswer
    BY <1>1, <2>1, <2>4 DEF JsonAnswer
  <2>5. ASSUME NEW reason \in Reasons, NoAnswer(reason) PROVE RejectedBodyStops'
    BY <1>1, <2>1, <2>5 DEF NoAnswer, MoveOn, GiveUp
  <2>6. CASE StreamCommits
    BY <1>2, <2>6 DEF StreamCommits
  <2>7. ASSUME NEW how \in {"streamed", "broken"}, StreamEnds(how)
        PROVE  RejectedBodyStops'
    BY <1>1, <2>1, <2>7 DEF StreamEnds
  <2>8. ASSUME NEW reason \in Reasons \cap Classified, NEW seconds \in Hints,
               NEW scoped \in BOOLEAN, HttpFailure(reason, seconds, scoped)
        PROVE  RejectedBodyStops'
    <3>1. reason \in NonRetryable => reason \notin {"rate_limited", "rate_limited_upstream"}
      BY DEF NonRetryable
    <3>2. reason \in NonRetryable => pc' = "ended"
      BY <2>8, <3>1 DEF HttpFailure, MoveOn, GiveUp
    <3> QED BY <1>1, <2>1, <2>8, <3>2 DEF HttpFailure
  <2>9. ASSUME NEW named \in SUBSET Knobs, NEW reason \in NonRetryable \cup SourceDiverting,
               KnobsRejected(named, reason)
        PROVE  RejectedBodyStops'
    <3>1. reason \in AllReasons
      BY <2>1 DEF NonRetryable, SourceDiverting, Classified
    <3> QED BY <1>1, <2>1, <2>9, <3>1 DEF KnobsRejected
  <2> QED
    BY <1>4, <2>2, <2>3, <2>4, <2>5, <2>6, <2>7, <2>8, <2>9 DEF Answer
<1>5. CASE Choose \/ ClientLeaves \/ Sigterm \/ Kill \/ Tick \/ Done \/ UNCHANGED vars
  <2>1. UNCHANGED attempts /\ (pc = "ended" => pc' = "ended")
    BY <1>5
    DEF Choose, AskNext, AskAgain, StopShort, CapacityRetryPass, PassWaitEnds,
        WindowSpent, PauseEnds, ClientLeaves, Sigterm, Kill, Tick, Done, vars, Running
  <2> QED BY <1>2, <2>1
<1> QED BY <1>4, <1>5 DEF Next

\* A body one upstream refused is never sent to another candidate.
THEOREM RefusedBodyStopsTheLoop == Spec => []RejectedBodyStops
<1>1. Init => RejectedBodyStops
  BY DEF Init, RejectedBodyStops, Rows
<1>2. Spec => [](TypeInv /\ RejectedBodyStops)
  BY <1>1, InitTypeInv, StepTypeInv, StepRejected, PTL DEF Spec
<1> QED BY <1>2, PTL

\* While the handler runs nothing has been delivered but a stream under way.
Delivered == CommittedIsFinal /\ (Running => outcome = "none")

LEMMA StepDelivered == TypeInv /\ Delivered /\ [Next]_vars => Delivered'
<1> SUFFICES ASSUME TypeInv, Delivered, [Next]_vars PROVE Delivered'
  OBVIOUS
<1> USE DEF Delivered, CommittedIsFinal, Running
<1>1. CASE Choose
  BY <1>1
  DEF Choose, AskNext, AskAgain, StopShort, CapacityRetryPass, PassWaitEnds,
      WindowSpent, PauseEnds, GiveUp, reply
<1>2. CASE Answer
  <2>1. ASSUME pc = "asking", UNCHANGED reply, pc' \in {"choose", "paused"}
        PROVE  Delivered'
    BY <2>1 DEF reply
  <2>2. ASSUME NEW reason, pc = "asking", MoveOn(reason) PROVE Delivered'
    BY <2>2 DEF MoveOn, GiveUp, reply
  <2>3. ASSUME NEW seconds \in Hints \ {0}, AdmissionRefused(seconds)
        PROVE  Delivered'
    BY <2>1, <2>3 DEF AdmissionRefused, PauseThenRetry, reply
  <2>4. ASSUME NEW reason \in Reasons \cap Raised, InvocationFails(reason)
        PROVE  Delivered'
    BY <2>1, <2>4 DEF InvocationFails, reply
  <2>5. CASE JsonAnswer
    BY <2>5 DEF JsonAnswer
  <2>6. ASSUME NEW reason \in Reasons, NoAnswer(reason) PROVE Delivered'
    BY <2>2, <2>6 DEF NoAnswer
  <2>7. CASE StreamCommits
    BY <2>7 DEF StreamCommits
  <2>8. ASSUME NEW how \in {"streamed", "broken"}, StreamEnds(how) PROVE Delivered'
    BY <2>8 DEF StreamEnds
  <2>9. ASSUME NEW reason \in Reasons \cap Classified, NEW seconds \in Hints,
               NEW scoped \in BOOLEAN, HttpFailure(reason, seconds, scoped)
        PROVE  Delivered'
    BY <2>1, <2>2, <2>9 DEF HttpFailure, PauseThenRetry, reply
  <2>10. ASSUME NEW named \in SUBSET Knobs,
                NEW reason \in NonRetryable \cup SourceDiverting,
                KnobsRejected(named, reason)
         PROVE  Delivered'
    BY <2>1, <2>10 DEF KnobsRejected, reply
  <2> QED
    BY <1>2, <2>3, <2>4, <2>5, <2>6, <2>7, <2>8, <2>9, <2>10 DEF Answer
<1>3. CASE ClientLeaves \/ Sigterm \/ Kill \/ Tick \/ Done \/ UNCHANGED vars
  BY <1>3 DEF ClientLeaves, Sigterm, Kill, Tick, Done, vars, reply
<1> QED BY <1>1, <1>2, <1>3 DEF Next

\* Once a stream is committed the run ends with it: no other candidate, and no
\* JSON failure behind a 200.
THEOREM CommittedStreamIsFinal == Spec => []CommittedIsFinal
<1>1. Init => Delivered
  BY DEF Init, Delivered, CommittedIsFinal, Running
<1>2. Spec => []Delivered
  BY <1>1, InitTypeInv, StepTypeInv, StepDelivered, PTL DEF Spec
<1> QED BY <1>2, PTL DEF Delivered
-----------------------------------------------------------------------------
\* The candidate being asked is no longer in the window, and neither is one
\* whose row is final: the window gives it out no second time.
NotAgain ==
  /\ pc \in {"asking", "streaming"} => ~again
  /\ (again \/ pc \in {"asking", "streaming"}) =>
       model \notin pending /\ \A i \in Rows : Final(i) => attempts[i].model # model
  /\ \A i \in Rows : Final(i) => attempts[i].model \notin pending

RepeatInv == NotAgain /\ RepeatsAreForCapacity

\* A new row keeps it when only a row that is not final asks for a retry.
LEMMA RepeatRow ==
  ASSUME TypeInv, RepeatInv, considered > 0, pc \in {"asking", "streaming"},
         NEW reason \in AllReasons \cup {"ok", "mid_stream"}, NEW hint \in Hints,
         NEW scoped \in BOOLEAN, NEW knob \in BOOLEAN,
         Record(reason, hint, scoped, knob),
         UNCHANGED <<pending, model>>, pc' \notin {"asking", "streaming"},
         again' => (knob \/ reason \in CapacityReasons)
  PROVE  RepeatInv'
<1>1. /\ Rows' = 1..(Len(attempts) + 1) /\ Rows = 1..Len(attempts)
      /\ Len(attempts') = Len(attempts) + 1 /\ Len(attempts) \in Nat
      /\ \A k \in Rows : attempts'[k] = attempts[k]
      /\ attempts'[Len(attempts) + 1] =
           [model |-> model, reason |-> reason, hint |-> hint,
            scoped |-> scoped, knob |-> knob]
  BY RecordedRow
<1>2. \A i \in Rows' : i \in Rows \/ i = Len(attempts) + 1
  BY <1>1
<1>3. ASSUME NEW i \in Rows', Final(i)'
      PROVE  attempts'[i].model \notin pending /\ (again' => attempts'[i].model # model)
  <2>1. CASE i \in Rows
    <3>1. Final(i) /\ attempts'[i].model = attempts[i].model
      BY <1>1, <1>3, <2>1 DEF Final
    <3> QED BY <2>1, <3>1 DEF RepeatInv, NotAgain
  <2>2. CASE i = Len(attempts) + 1
    <3>1. attempts'[i].model = model /\ ~again'
      BY <1>1, <1>3, <2>2 DEF Final
    <3> QED BY <3>1 DEF RepeatInv, NotAgain
  <2> QED BY <1>2, <2>1, <2>2
<1>4. NotAgain'
  BY <1>3 DEF RepeatInv, NotAgain
<1>5. ASSUME NEW i \in Rows', NEW j \in Rows', i < j,
             attempts'[i].model = attempts'[j].model, ~attempts'[i].knob
      PROVE  attempts'[i].reason \in CapacityReasons
  <2>1. i \in Rows
    BY <1>1, <1>5
  <2>2. attempts'[i] = attempts[i]
    BY <1>1, <2>1
  <2>3. CASE j \in Rows
    <3>1. attempts'[j] = attempts[j]
      BY <1>1, <2>3
    <3> QED BY <1>5, <2>1, <2>2, <2>3, <3>1 DEF RepeatInv, RepeatsAreForCapacity
  <2>4. CASE j = Len(attempts) + 1
    <3>1. attempts'[j].model = model
      BY <1>1, <2>4
    <3> QED BY <1>5, <2>1, <2>2, <3>1 DEF RepeatInv, NotAgain, Final
  <2> QED BY <1>2, <2>3, <2>4
<1>6. RepeatsAreForCapacity'
  BY <1>5 DEF RepeatsAreForCapacity
<1> QED BY <1>4, <1>6 DEF RepeatInv

LEMMA RepeatAnswer ==
  ASSUME TypeInv, RepeatInv, Answer
  PROVE  RepeatInv'
<1>1. /\ considered > 0 /\ 0 \in Hints /\ Hints \subseteq Nat
      /\ Reasons \subseteq AllReasons /\ Classified \subseteq AllReasons
      /\ pc \in {"asking", "streaming"} /\ ~again
  BY RequestAssumption
  DEF Answer, TypeInv, TypeOK, Asked, AdmissionRefused, InvocationFails, JsonAnswer,
      NoAnswer, StreamCommits, StreamEnds, HttpFailure, KnobsRejected, AllReasons,
      RepeatInv, NotAgain
<1>2. ASSUME NEW seconds \in Hints \ {0}, AdmissionRefused(seconds) PROVE RepeatInv'
  <2>1. "rate_limited" \in AllReasons /\ "rate_limited" \in CapacityReasons
    BY <1>1, <1>2 DEF AdmissionRefused, CapacityReasons
  <2>2. UNCHANGED <<pending, model>> /\ pc' \notin {"asking", "streaming"}
    BY <1>2 DEF AdmissionRefused, PauseThenRetry, window, turn
  <2> QED BY <1>1, <1>2, <2>1, <2>2, RepeatRow DEF AdmissionRefused
<1>3. ASSUME NEW reason \in Reasons \cap Raised, InvocationFails(reason) PROVE RepeatInv'
  BY <1>1, <1>3, RepeatRow DEF InvocationFails, window, turn
<1>4. CASE JsonAnswer
  BY <1>1, <1>4, RepeatRow DEF JsonAnswer, window, turn
<1>5. ASSUME NEW reason \in Reasons, NoAnswer(reason) PROVE RepeatInv'
  BY <1>1, <1>5, RepeatRow DEF NoAnswer, MoveOn, GiveUp, window, turn
<1>6. CASE StreamCommits
  BY <1>1, <1>6
  DEF StreamCommits, RepeatInv, NotAgain, RepeatsAreForCapacity, Final, Rows, window, turn
<1>7. ASSUME NEW how \in {"streamed", "broken"}, StreamEnds(how) PROVE RepeatInv'
  BY <1>1, <1>7, RepeatRow DEF StreamEnds, window, turn
<1>8. ASSUME NEW reason \in Reasons \cap Classified, NEW seconds \in Hints,
             NEW scoped \in BOOLEAN, HttpFailure(reason, seconds, scoped)
      PROVE  RepeatInv'
  <2>1. CASE reason \in {"rate_limited", "rate_limited_upstream"} /\ PauseThenRetry(seconds)
    <3>1. reason \in CapacityReasons
      BY <2>1 DEF CapacityReasons
    <3> QED
      BY <1>1, <1>8, <2>1, <3>1, RepeatRow DEF HttpFailure, PauseThenRetry, window
  <2>2. CASE MoveOn(reason) /\ UNCHANGED <<turn, capacity, wait>>
    BY <1>1, <1>8, <2>2, RepeatRow DEF HttpFailure, MoveOn, GiveUp, window, turn
  <2> QED BY <1>8, <2>1, <2>2 DEF HttpFailure
<1>9. ASSUME NEW named \in SUBSET Knobs, NEW reason \in NonRetryable \cup SourceDiverting,
             KnobsRejected(named, reason)
      PROVE  RepeatInv'
  <2>1. reason \in AllReasons
    BY <1>1 DEF NonRetryable, SourceDiverting, Classified
  <2> QED BY <1>1, <1>9, <2>1, RepeatRow DEF KnobsRejected, window
<1> QED
  BY <1>2, <1>3, <1>4, <1>5, <1>6, <1>7, <1>8, <1>9 DEF Answer

LEMMA StepRepeat == TypeInv /\ RepeatInv /\ [Next]_vars => RepeatInv'
<1> SUFFICES ASSUME TypeInv, RepeatInv, [Next]_vars PROVE RepeatInv'
  OBVIOUS
<1>1. ASSUME UNCHANGED <<attempts, model, again>>, pending' \subseteq pending,
             pc' \in {"asking", "streaming"} => (again \/ pc \in {"asking", "streaming"})
                                                /\ ~again'
      PROVE  RepeatInv'
  BY <1>1 DEF RepeatInv, NotAgain, RepeatsAreForCapacity, Final, Rows
<1>2. ASSUME NEW size \in SizeFact, NEW m \in Models, NEW known \in SUBSET Knobs,
             AskNext(size, m, known)
      PROVE  RepeatInv'
  <2>1. ~again' /\ attempts' = attempts /\ Rows' = Rows /\ model' = m
    BY <1>2 DEF AskNext, Rows
  <2>2. PICK offered : /\ offered = pending \/ offered \cap consideredIds = {}
                       /\ m \in offered /\ pending' = offered \ {m}
    BY <1>2 DEF AskNext, Replanned, Diverse, Survivors
  <2>3. \A i \in Rows : Final(i) => attempts[i].model \notin offered
    BY <2>2 DEF RepeatInv, NotAgain, TypeInv, Asked
  <2>4. NotAgain'
    BY <2>1, <2>2, <2>3 DEF NotAgain, Final
  <2>5. RepeatsAreForCapacity'
    BY <2>1 DEF RepeatInv, RepeatsAreForCapacity
  <2> QED BY <2>4, <2>5 DEF RepeatInv
<1>3. CASE AskAgain
  <2>1. attempts' = attempts /\ Rows' = Rows /\ model' = model /\ ~again' /\ again
        /\ pending' = pending
    BY <1>3 DEF AskAgain, Rows, window
  <2> QED BY <2>1 DEF RepeatInv, NotAgain, RepeatsAreForCapacity, Final
<1>4. CASE CapacityRetryPass
  <2>1. \A i \in Rows : ~Final(i)
    BY <1>4 DEF CapacityRetryPass, PassOpens, Final
  <2>2. attempts' = attempts /\ Rows' = Rows /\ ~again' /\ pc' = "waiting"
    BY <1>4 DEF CapacityRetryPass, Rows, turn
  <2> QED BY <2>1, <2>2 DEF RepeatInv, NotAgain, RepeatsAreForCapacity, Final
<1>5. CASE StopShort \/ PassWaitEnds \/ WindowSpent \/ PauseEnds
  BY <1>1, <1>5 DEF StopShort, PassWaitEnds, WindowSpent, PauseEnds, GiveUp, window, turn
<1>6. CASE Answer
  BY <1>6, RepeatAnswer
<1>7. CASE ClientLeaves \/ Sigterm \/ Kill \/ Tick \/ Done \/ UNCHANGED vars
  <2>1. UNCHANGED <<attempts, model, again, pending>> /\ pc' \in {pc, "killed"}
    BY <1>7 DEF ClientLeaves, Sigterm, Kill, Tick, Done, vars, window, turn
  <2> QED BY <1>1, <2>1 DEF RepeatInv, NotAgain
<1> QED BY <1>2, <1>3, <1>4, <1>5, <1>6, <1>7 DEF Next, Choose

\* Neither a re-plan nor the capacity pass asks a candidate again whose answer
\* was anything but a lack of capacity.
THEOREM OnlyCapacityIsRepeated == Spec => []RepeatsAreForCapacity
<1>1. Init => RepeatInv
  BY DEF Init, RepeatInv, NotAgain, RepeatsAreForCapacity, Rows
<1>2. Spec => [](TypeInv /\ RepeatInv)
  BY <1>1, InitTypeInv, StepTypeInv, StepRepeat, PTL DEF Spec
<1> QED BY <1>2, PTL DEF RepeatInv
-----------------------------------------------------------------------------
(***************************************************************************)
(* The loop implements the contract of a request.                          *)
(***************************************************************************)

\* What a new row adds to the candidates that are spent and to the refusals.
LEMMA ContractRow ==
  ASSUME TypeInv, considered > 0, pc \in {"asking", "streaming"},
         NEW reason \in AllReasons \cup {"ok", "mid_stream"}, NEW hint \in Hints,
         NEW scoped \in BOOLEAN, NEW knob \in BOOLEAN,
         Record(reason, hint, scoped, knob)
  PROVE  /\ (knob \/ reason \in CapacityReasons) => Spent' = Spent
         /\ (~knob /\ reason \notin CapacityReasons) => Spent' = Spent \cup {model}
         /\ (knob \/ reason \notin NonRetryable) => Refused' = Refused
         /\ (~knob /\ reason \in NonRetryable) => Refused' = TRUE
<1>1. /\ Rows' = 1..(Len(attempts) + 1) /\ Rows = 1..Len(attempts)
      /\ Len(attempts') = Len(attempts) + 1 /\ Len(attempts) \in Nat
      /\ \A k \in Rows : attempts'[k] = attempts[k]
      /\ attempts'[Len(attempts) + 1] =
           [model |-> model, reason |-> reason, hint |-> hint,
            scoped |-> scoped, knob |-> knob]
  BY RecordedRow
<1>2. PICK n : n = Len(attempts) + 1
  OBVIOUS
<1>3. /\ \A i \in Rows' : i \in Rows \/ i = n
      /\ \A i \in Rows : i \in Rows'
      /\ n \in Rows'
  BY <1>1, <1>2
<1>4. /\ \A i \in Rows : Final(i)' <=> Final(i)
      /\ \A i \in Rows : Refusal(i)' <=> Refusal(i)
      /\ Final(n)' <=> (~knob /\ reason \notin CapacityReasons)
      /\ Refusal(n)' <=> (~knob /\ reason \in NonRetryable)
  BY <1>1, <1>2 DEF Final, Refusal
<1>5. attempts'[n].model = model /\ \A i \in Rows : attempts'[i].model = attempts[i].model
  BY <1>1, <1>2
<1>6. (knob \/ reason \in CapacityReasons) => Spent' = Spent
  BY <1>3, <1>4, <1>5 DEF Spent
<1>7. (~knob /\ reason \notin CapacityReasons) => Spent' = Spent \cup {model}
  BY <1>3, <1>4, <1>5 DEF Spent
<1>8. Refused' <=> (Refused \/ (~knob /\ reason \in NonRetryable))
  BY <1>3, <1>4 DEF Refused
<1>9. Refused \in BOOLEAN /\ Refused' \in BOOLEAN
  BY DEF Refused
<1> QED BY <1>6, <1>7, <1>8, <1>9

ContractInv == TypeInv /\ RepeatInv /\ Delivered

LEMMA ContractAnswer ==
  ASSUME ContractInv, Answer
  PROVE  Contract!ContractNext
<1>1. /\ considered > 0 /\ 0 \in Hints /\ Hints \subseteq Nat
      /\ Reasons \subseteq AllReasons /\ Classified \subseteq AllReasons
      /\ pc \in {"asking", "streaming"} /\ model \in Models
      /\ InFlight = model
      /\ outcome = "none" /\ TypeInv
      /\ NonRetryable \cap CapacityReasons = {}
  BY RequestAssumption, ModelsAssumption
  DEF Answer, TypeInv, TypeOK, Asked, AdmissionRefused, InvocationFails, JsonAnswer,
      NoAnswer, StreamCommits, StreamEnds, HttpFailure, KnobsRejected, AllReasons,
      ContractInv, Delivered, Running, InFlight, NonRetryable, CapacityReasons
<1>2. pc = "asking" => Verdict = "none"
  BY <1>1 DEF Verdict
<1>3. /\ pc' \notin {"asking", "streaming"} => InFlight' = NoModel
      /\ pc' \notin {"killed", "streaming"} => Verdict' = outcome'
  BY DEF InFlight, Verdict
<1>4. ASSUME NEW seconds \in Hints \ {0}, AdmissionRefused(seconds)
      PROVE  Contract!Fail(model)
  <2>1. "rate_limited" \in AllReasons /\ "rate_limited" \in CapacityReasons
        /\ "rate_limited" \notin NonRetryable /\ pc = "asking"
    BY <1>1, <1>4 DEF AdmissionRefused, CapacityReasons, NonRetryable
  <2>2. Spent' = Spent /\ Refused' = Refused
    BY <1>1, <1>4, <2>1, ContractRow DEF AdmissionRefused
  <2>3. pc' \in {"choose", "paused"} /\ outcome' = outcome
    BY <1>4 DEF AdmissionRefused, PauseThenRetry, reply
  <2>4. InFlight' = NoModel /\ Verdict' = "none"
    BY <1>1, <1>3, <2>3
  <2> QED BY <1>1, <1>2, <2>1, <2>2, <2>4 DEF Contract!Fail
<1>5. ASSUME NEW reason \in Reasons, NEW hint \in Hints, NEW scoped \in BOOLEAN,
             pc = "asking", Record(reason, hint, scoped, FALSE), MoveOn(reason)
      PROVE  Contract!Fail(model) \/ Contract!Refuse(model)
  <2>1. pc' \in {"choose", "ended"} /\ outcome' \in {"none", "json_failure"}
        /\ (reason \in NonRetryable => outcome' = "json_failure")
    BY <1>1, <1>5 DEF MoveOn, GiveUp, reply
  <2>2. InFlight' = NoModel /\ Verdict' = outcome'
    BY <1>3, <2>1
  <2>3. reason \in AllReasons \cup {"ok", "mid_stream"} /\ FALSE \in BOOLEAN
    BY <1>1, <1>5
  <2>4. CASE reason \in NonRetryable
    <3>1. Spent' = Spent \cup {model} /\ Refused' = TRUE
      BY <1>1, <1>5, <2>3, <2>4, ContractRow
    <3> QED BY <1>1, <1>2, <1>5, <2>1, <2>2, <2>4, <3>1 DEF Contract!Refuse
  <2>5. CASE reason \notin NonRetryable
    <3>1. Spent' \in {Spent, Spent \cup {model}} /\ Refused' = Refused
      BY <1>1, <1>5, <2>3, <2>5, ContractRow
    <3> QED BY <1>1, <1>2, <1>5, <2>1, <2>2, <3>1 DEF Contract!Fail
  <2> QED BY <2>4, <2>5
<1>6. ASSUME NEW reason \in Reasons \cap Raised, InvocationFails(reason)
      PROVE  Contract!Fail(model)
  <2>1. reason \in AllReasons /\ reason \notin NonRetryable /\ pc = "asking"
        /\ pc' = "choose" /\ outcome' = outcome
    BY <1>1, <1>6 DEF InvocationFails, Raised, NonRetryable, reply
  <2>2. Spent' \in {Spent, Spent \cup {model}} /\ Refused' = Refused
    BY <1>1, <1>6, <2>1, ContractRow DEF InvocationFails
  <2>3. InFlight' = NoModel /\ Verdict' = "none"
    BY <1>1, <1>3, <2>1
  <2> QED BY <1>1, <1>2, <2>1, <2>2, <2>3 DEF Contract!Fail
<1>7. ASSUME JsonAnswer PROVE Contract!Answer(model)
  <2>1. pc = "asking" /\ pc' = "ended" /\ outcome' = "answered"
        /\ "ok" \notin CapacityReasons \cup NonRetryable
    BY <1>7 DEF JsonAnswer, CapacityReasons, NonRetryable
  <2>2. Spent' = Spent \cup {model} /\ Refused' = Refused
    BY <1>1, <1>7, <2>1, ContractRow DEF JsonAnswer
  <2> QED BY <1>1, <1>2, <1>3, <2>1, <2>2 DEF Contract!Answer
<1>8. ASSUME NEW reason \in Reasons, NoAnswer(reason)
      PROVE  Contract!Fail(model) \/ Contract!Refuse(model)
  BY <1>1, <1>5, <1>8 DEF NoAnswer
<1>9. ASSUME StreamCommits PROVE Contract!Commit(model)
  <2>1. pc = "asking" /\ pc' = "streaming"
        /\ UNCHANGED <<model, attempts>>
    BY <1>9 DEF StreamCommits, turn
  <2>2. Spent' = Spent /\ Refused' = Refused /\ InFlight' = model
        /\ Verdict' = "streaming"
    BY <2>1 DEF Spent, Refused, InFlight, Verdict, Rows, Final, Refusal
  <2> QED BY <1>1, <1>2, <2>1, <2>2 DEF Contract!Commit
<1>10. ASSUME NEW how \in {"streamed", "broken"}, StreamEnds(how)
       PROVE  Contract!Close(model)
  <2>1. pc = "streaming" /\ pc' = "ended" /\ outcome' = how /\ Verdict = "streaming"
        /\ {"ok", "mid_stream"} \cap (CapacityReasons \cup NonRetryable) = {}
    BY <1>10 DEF StreamEnds, CapacityReasons, NonRetryable, Verdict
  <2>2. Spent' = Spent \cup {model} /\ Refused' = Refused
    BY <1>1, <1>10, <2>1, ContractRow DEF StreamEnds
  <2> QED BY <1>1, <1>3, <2>1, <2>2 DEF Contract!Close
<1>11. ASSUME NEW reason \in Reasons \cap Classified, NEW seconds \in Hints,
              NEW scoped \in BOOLEAN, HttpFailure(reason, seconds, scoped)
       PROVE  Contract!Fail(model) \/ Contract!Refuse(model)
  <2>1. CASE reason \in {"rate_limited", "rate_limited_upstream"} /\ PauseThenRetry(seconds)
    <3>1. reason \in CapacityReasons /\ reason \notin NonRetryable
          /\ pc = "asking" /\ pc' = "paused" /\ outcome' = outcome
      BY <1>11, <2>1 DEF HttpFailure, PauseThenRetry, CapacityReasons, NonRetryable, reply
    <3>2. Spent' = Spent /\ Refused' = Refused
      BY <1>1, <1>11, <3>1, ContractRow DEF HttpFailure
    <3> QED BY <1>1, <1>2, <1>3, <3>1, <3>2 DEF Contract!Fail
  <2>2. CASE MoveOn(reason)
    BY <1>1, <1>5, <1>11, <2>2 DEF HttpFailure
  <2> QED BY <1>11, <2>1, <2>2 DEF HttpFailure
<1>12. ASSUME NEW named \in SUBSET Knobs, NEW reason \in NonRetryable \cup SourceDiverting,
              KnobsRejected(named, reason)
       PROVE  Contract!Fail(model)
  <2>1. reason \in AllReasons /\ pc = "asking" /\ pc' = "choose" /\ outcome' = outcome
    BY <1>1, <1>12 DEF KnobsRejected, NonRetryable, SourceDiverting, Classified, reply
  <2>2. Spent' = Spent /\ Refused' = Refused
    BY <1>1, <1>12, <2>1, ContractRow DEF KnobsRejected
  <2> QED BY <1>1, <1>2, <1>3, <2>1, <2>2 DEF Contract!Fail
<1> QED
  BY <1>1, <1>4, <1>6, <1>7, <1>8, <1>9, <1>10, <1>11, <1>12
  DEF Answer, Contract!ContractNext

\* Every step of the loop is a step of the contract, or changes nothing of it.
LEMMA StepContract ==
  ContractInv /\ [Next]_vars => [Contract!ContractNext]_(Contract!contractVars)
<1> SUFFICES ASSUME ContractInv, [Next]_vars
             PROVE  [Contract!ContractNext]_(Contract!contractVars)
  OBVIOUS
<1>1. ASSUME attempts' = attempts PROVE Spent' = Spent /\ Refused' = Refused
  BY <1>1 DEF Spent, Refused, Rows, Final, Refusal
<1>2. Running /\ pc # "streaming" => Verdict = "none"
  BY DEF ContractInv, Delivered, Running, Verdict
<1>3. ASSUME pc = "choose", pc' = "asking", model' \in Models \ Spent,
             UNCHANGED <<attempts, outcome>>
      PROVE  Contract!Ask(model')
  <2>1. InFlight = NoModel /\ InFlight' = model' /\ Verdict = "none" /\ Verdict' = "none"
    BY <1>2, <1>3 DEF InFlight, Verdict, Running, ContractInv, Delivered
  <2> QED BY <1>1, <1>3, <2>1 DEF Contract!Ask
<1>4. ASSUME NEW size \in SizeFact, NEW m \in Models, NEW known \in SUBSET Knobs,
             AskNext(size, m, known)
      PROVE  Contract!Ask(m)
  <2>1. pc = "choose" /\ pc' = "asking" /\ model' = m /\ UNCHANGED <<attempts, outcome>>
    BY <1>4 DEF AskNext, reply
  <2>2. PICK offered : /\ offered = pending \/ offered \cap consideredIds = {}
                       /\ m \in offered
    BY <1>4 DEF AskNext, Replanned, Diverse, Survivors
  <2>3. \A i \in Rows : Final(i) => attempts[i].model \notin offered
    BY <2>2 DEF ContractInv, RepeatInv, NotAgain, TypeInv, Asked
  <2>4. m \notin Spent
    BY <2>2, <2>3 DEF Spent
  <2> QED BY <1>3, <2>1, <2>4
<1>5. ASSUME AskAgain PROVE Contract!Ask(model)
  <2>1. /\ pc = "choose" /\ pc' = "asking" /\ again
        /\ UNCHANGED <<model, attempts, outcome>>
    BY <1>5 DEF AskAgain, reply
  <2>2. model \in Models /\ \A i \in Rows : Final(i) => attempts[i].model # model
    BY <2>1 DEF ContractInv, RepeatInv, NotAgain, TypeInv, TypeOK, Asked
  <2>3. model \notin Spent
    BY <2>2 DEF Spent
  <2> QED BY <1>3, <2>1, <2>2, <2>3
<1>6. ASSUME pc \in {"choose"}, pc' = "ended", UNCHANGED attempts,
             outcome' \in {"json_failure", "abandoned"}
      PROVE  Contract!GiveUp
  <2>1. InFlight = NoModel /\ InFlight' = NoModel /\ Verdict = "none"
        /\ Verdict' = outcome'
    BY <1>2, <1>6 DEF InFlight, Verdict, Running
  <2> QED BY <1>1, <1>6, <2>1 DEF Contract!GiveUp
<1>7. ASSUME UNCHANGED <<attempts, outcome, model>>,
             \/ pc' = pc
             \/ {pc, pc'} \subseteq {"choose", "waiting", "paused"}
      PROVE  UNCHANGED Contract!contractVars
  <2>1. InFlight' = InFlight /\ Verdict' = Verdict
    BY <1>7 DEF InFlight, Verdict
  <2> QED BY <1>1, <1>7, <2>1 DEF Contract!contractVars
<1>8. ASSUME StopShort \/ WindowSpent PROVE Contract!GiveUp
  BY <1>6, <1>8 DEF StopShort, WindowSpent, GiveUp
<1>9. ASSUME CapacityRetryPass \/ PassWaitEnds \/ PauseEnds
      PROVE  UNCHANGED Contract!contractVars
  BY <1>7, <1>9 DEF CapacityRetryPass, PassWaitEnds, PauseEnds, turn, reply
<1>10. ASSUME Kill PROVE Contract!Cut
  <2>1. Running /\ pc' = "killed" /\ attempts' = attempts
    BY <1>10 DEF Kill
  <2>2. Verdict \in {"none", "streaming"} /\ InFlight' = NoModel /\ Verdict' = "cut"
    BY <1>2, <2>1 DEF Verdict, InFlight
  <2> QED BY <1>1, <2>1, <2>2 DEF Contract!Cut
<1>11. ASSUME ClientLeaves \/ Sigterm \/ Tick \/ Done \/ UNCHANGED vars
       PROVE  UNCHANGED Contract!contractVars
  BY <1>7, <1>11 DEF ClientLeaves, Sigterm, Tick, Done, vars, turn, reply
<1>12. ASSUME Answer PROVE Contract!ContractNext
  BY <1>12, ContractAnswer
<1>13. ASSUME Choose
       PROVE  Contract!ContractNext \/ UNCHANGED Contract!contractVars
  <2>1. AskAgain => model \in Models
    BY DEF AskAgain, ContractInv, TypeInv, TypeOK, Asked
  <2> QED BY <1>4, <1>5, <1>8, <1>9, <1>13, <2>1 DEF Choose, Contract!ContractNext
<1>14. Contract!Cut => Contract!ContractNext
  BY DEF Contract!ContractNext
<1> QED BY <1>10, <1>11, <1>12, <1>13, <1>14 DEF Next

\* Whatever the pool, the configuration and the failures: candidates are asked
\* one at a time, a final answer is never asked for again, a refused body goes
\* to nobody else, a committed stream has no successor, and the caller gets one
\* verdict (run_attempts).
THEOREM LoopImplementsContract == Spec => ImplementsContract
<1>1. Init => Contract!ContractInit
  <2> SUFFICES ASSUME Init PROVE Contract!ContractInit
    OBVIOUS
  <2>1. Rows = {}
    BY DEF Init, Rows
  <2>2. InFlight = NoModel /\ Verdict = "none" /\ Spent = {} /\ Refused = FALSE
    BY <2>1 DEF Init, InFlight, Verdict, Spent, Refused
  <2> QED BY <2>2 DEF Contract!ContractInit
<1>2. Init => ContractInv
  BY InitTypeInv
  DEF Init, ContractInv, RepeatInv, NotAgain, RepeatsAreForCapacity, Rows,
      Delivered, CommittedIsFinal, Running
<1>3. ContractInv /\ [Next]_vars => ContractInv'
  BY StepTypeInv, StepRepeat, StepDelivered DEF ContractInv
<1> QED BY <1>1, <1>2, <1>3, StepContract, PTL DEF Spec, ImplementsContract, Contract!ContractSpec
-----------------------------------------------------------------------------
(***************************************************************************)
(* The order of attempts_with_source_diversity.                            *)
(***************************************************************************)

\* The kept candidates come before the deferred ones, each part in score order.
LEMMA PlaceOrder ==
  ASSUME NEW S \in SUBSET Models, NEW n, NEW m \in S, NEW k \in S,
         \/ m \in Kept(S, n) /\ k \notin Kept(S, n)
         \/ (m \in Kept(S, n) <=> k \in Kept(S, n)) /\ m < k
  PROVE  /\ Place(m, S, n) < Place(k, S, n)
         /\ Place(m, S, n) \in Nat /\ Place(k, S, n) \in Nat
<1> DEFINE K == Kept(S, n)
           before(x) == {j \in K : j < x}
           delayed(x) == K \cup {j \in Deferred(S, n) : j < x}
<1>1. K \in SUBSET Models /\ Deferred(S, n) \in SUBSET Models
      /\ m \in Nat /\ k \in Nat /\ m \in Models /\ k \in Models /\ Models \subseteq Nat
  BY ModelsAssumption DEF Kept, Deferred
<1>2. m \in Deferred(S, n) <=> m \notin K
  BY DEF Deferred
<1>3. \A x : before(x) \in SUBSET Models /\ delayed(x) \in SUBSET Models
  BY <1>1
<1>4. /\ m \in K => Place(m, S, n) = Cardinality(before(m))
      /\ k \in K => Place(k, S, n) = Cardinality(before(k))
      /\ m \notin K => Place(m, S, n) = Cardinality(delayed(m))
      /\ k \notin K => Place(k, S, n) = Cardinality(delayed(k))
  BY DEF Place
<1>5. CASE m \in K /\ k \notin K
  <2>1. before(m) \in SUBSET delayed(k) /\ m \in delayed(k) /\ m \notin before(m)
    BY <1>1, <1>5
  <2>2. IsFiniteSet(delayed(k))
    BY <1>3, SubsetsFinite
  <2>3. /\ Cardinality(before(m)) < Cardinality(delayed(k))
        /\ Cardinality(before(m)) \in Nat /\ Cardinality(delayed(k)) \in Nat
    <3> HIDE DEF before, delayed
    <3> QED BY <2>1, <2>2, SmallerPart
  <2> QED BY <1>4, <1>5, <2>3
<1>6. CASE m \in K /\ k \in K /\ m < k
  <2>1. before(m) \in SUBSET before(k) /\ m \in before(k) /\ m \notin before(m)
    <3>1. ASSUME NEW j \in K, j < m PROVE j < k
      <4>1. j \in Nat
        BY <1>1
      <4> QED BY <1>1, <1>6, <3>1, <4>1
    <3>2. before(m) \in SUBSET before(k)
      <4> HIDE DEF K
      <4> QED BY <3>1
    <3>3. m \in before(k) /\ m \notin before(m)
      <4> HIDE DEF K
      <4> QED BY <1>1, <1>6
    <3> QED BY <3>2, <3>3
  <2>2. IsFiniteSet(before(k))
    BY <1>3, SubsetsFinite
  <2>3. /\ Cardinality(before(m)) < Cardinality(before(k))
        /\ Cardinality(before(m)) \in Nat /\ Cardinality(before(k)) \in Nat
    <3> HIDE DEF before
    <3> QED BY <2>1, <2>2, SmallerPart
  <2> QED BY <1>4, <1>6, <2>3
<1>7. CASE m \notin K /\ k \notin K /\ m < k
  <2>1. delayed(m) \in SUBSET delayed(k) /\ m \in delayed(k) /\ m \notin delayed(m)
    <3>1. ASSUME NEW j \in Deferred(S, n), j < m PROVE j < k
      <4>1. j \in Nat
        BY <1>1
      <4> QED BY <1>1, <1>7, <3>1, <4>1
    <3> QED BY <1>1, <1>2, <1>7, <3>1
  <2>2. IsFiniteSet(delayed(k))
    BY <1>3, SubsetsFinite
  <2>3. /\ Cardinality(delayed(m)) < Cardinality(delayed(k))
        /\ Cardinality(delayed(m)) \in Nat /\ Cardinality(delayed(k)) \in Nat
    <3> HIDE DEF delayed
    <3> QED BY <2>1, <2>2, SmallerPart
  <2> QED BY <1>4, <1>7, <2>3
<1> QED BY <1>5, <1>6, <1>7

\* No two candidates share a place.
LEMMA PlaceInjective ==
  ASSUME NEW S \in SUBSET Models, NEW n, NEW m \in S, NEW k \in S, m # k
  PROVE  Place(m, S, n) # Place(k, S, n)
<1>1. m \in Nat /\ k \in Nat
  BY ModelsAssumption
<1>2. \/ m \in Kept(S, n) /\ k \notin Kept(S, n)
      \/ (m \in Kept(S, n) <=> k \in Kept(S, n)) /\ m < k
      \/ k \in Kept(S, n) /\ m \notin Kept(S, n)
      \/ (k \in Kept(S, n) <=> m \in Kept(S, n)) /\ k < m
  BY <1>1
<1>3. Place(m, S, n) < Place(k, S, n) \/ Place(k, S, n) < Place(m, S, n)
  BY <1>2, PlaceOrder
<1> QED BY <1>3, PlaceType

\* A window that may hold a candidate, over a pool that has one, holds one.
LEMMA DiverseNonEmpty ==
  ASSUME NEW S \in SUBSET Models, S # {}, NEW n \in Nat, n > 0
  PROVE  Diverse(S, n) # {}
<1>1. S \subseteq Int /\ IsFiniteSet(S)
  BY ModelsAssumption, SubsetsFinite
<1> DEFINE m == Min(S)
<1>2. m \in S /\ \A k \in S : m =< k
  BY <1>1, LeastElement
<1> HIDE DEF m
<1>3. {k \in S : k < m /\ Source[k] = Source[m]} = {}
      /\ {k \in Kept(S, n) : k < m} = {}
  <2>1. ASSUME NEW k \in S PROVE ~(k < m)
    <3>1. k \in Int /\ m \in Int
      BY <1>1, <1>2
    <3> QED BY <1>2, <3>1
  <2> QED BY <2>1 DEF Kept
<1>4. Cardinality({}) = 0
  BY FS_EmptySet
<1>5. SourceCap(n) > 0
  BY ConfigAssumption DEF SourceCap
<1>6. m \in Kept(S, n)
  BY <1>2, <1>3, <1>4, <1>5 DEF Kept
<1>7. Place(m, S, n) = 0
  BY <1>3, <1>4, <1>6 DEF Place
<1> QED BY <1>2, <1>7 DEF Diverse
-----------------------------------------------------------------------------
(***************************************************************************)
(* The window, the facts and the rows agree, and a candidate the rows      *)
(* speak against is the last resort.                                       *)
(***************************************************************************)

\* What the modes of the handler say about the retry flag and the pass.
Modes ==
  /\ pc \in {"asking", "streaming"} => ~again
  /\ pc = "paused" => again
  /\ pc = "waiting" => passStarted

\* A row that is recorded keeps the agreement, when the facts grow by what the
\* row says and the window is marked for a re-plan if they touch it.
LEMMA LoopRow ==
  ASSUME TypeInv, LoopInv, Modes, considered > 0, pc \in {"asking", "streaming"},
         Running' /\ ~passStarted',
         NEW reason \in AllReasons \cup {"ok", "mid_stream"}, NEW hint \in Hints,
         NEW scoped \in BOOLEAN, NEW knob \in BOOLEAN,
         Record(reason, hint, scoped, knob),
         UNCHANGED <<request, window, model, passStarted, ruledUpstreams, required>>,
         NEW sources \in SUBSET {Source[model]}, NEW keys \in SUBSET {QuotaKey[model]},
         sources # {} => reason \in ProviderScoped /\ ~knob,
         keys # {} => reason = "quota_exhausted" /\ ~knob,
         ruledSources' = ruledSources \cup sources,
         ruledKeys' = ruledKeys \cup keys,
         divert' \in BOOLEAN,
         ~divert' => /\ ~divert /\ sources \subseteq ruledSources
                     /\ \A m \in pool \ consideredIds : QuotaKey[m] \notin keys \ ruledKeys,
         Unread' => ~knob,
         pending # {} =>
           \/ knob
           \/ /\ Unread'
              /\ reason \in ProviderScoped => Source[model] \in ruledSources'
              /\ reason = "quota_exhausted" => QuotaKey[model] \in ruledKeys'
  PROVE  LoopInv'
<1> DEFINE last == Len(attempts) + 1
           row == [model |-> model, reason |-> reason, hint |-> hint,
                   scoped |-> scoped, knob |-> knob]
<1>1. /\ Rows' = 1..last /\ Rows = 1..Len(attempts)
      /\ Len(attempts') = last /\ Len(attempts) \in Nat
      /\ \A k \in Rows : attempts'[k] = attempts[k]
      /\ attempts'[last] = row /\ attempts' # <<>>
  <2> HIDE DEF row
  <2>1. row = [model |-> model, reason |-> reason, hint |-> hint,
               scoped |-> scoped, knob |-> knob]
    BY DEF row
  <2> QED BY <2>1, RecordedRow
<1>2. /\ row.model = model /\ row.reason = reason /\ row.scoped = scoped
      /\ row.knob = knob
  OBVIOUS
<1> HIDE DEF row
<1>3. /\ \A i \in Rows' : i \in Rows \/ i = last
      /\ Rows \subseteq Rows' /\ last \in Rows'
      /\ \A i \in Rows : i < Len(attempts') /\ i # last
  BY <1>1
<1> HIDE DEF last
<1>4. Running /\ ~passStarted /\ ~Unread
  BY DEF Running, Unread
<1>5. LastRowRead /\ Backed /\ Slots /\ WindowSound /\ (pending # {} => Learned)
  BY <1>4 DEF LoopInv
<1>6. LastRowRead'
  BY <1>1, <1>2 DEF LastRowRead, LastRow
<1>7. Backed'
  <2>1. ASSUME NEW s \in ruledSources'
        PROVE  \E i \in Rows' :
                 /\ ~attempts'[i].knob /\ Source[attempts'[i].model] = s
                 /\ \/ attempts'[i].reason \in ProviderScoped
                    \/ attempts'[i].reason \in SourceDiverting /\ ~attempts'[i].scoped
    <3>1. CASE s \in ruledSources
      <4>1. PICK i \in Rows :
              /\ ~attempts[i].knob /\ Source[attempts[i].model] = s
              /\ \/ attempts[i].reason \in ProviderScoped
                 \/ attempts[i].reason \in SourceDiverting /\ ~attempts[i].scoped
        BY <1>5, <3>1 DEF Backed
      <4>2. i \in Rows' /\ attempts'[i] = attempts[i]
        BY <1>1, <1>3
      <4> QED BY <4>1, <4>2
    <3>2. CASE s \in sources
      <4>1. s = Source[model] /\ reason \in ProviderScoped /\ ~knob
        BY <3>2
      <4> QED BY <1>1, <1>2, <1>3, <4>1
    <3> QED BY <2>1, <3>1, <3>2
  <2>2. ASSUME NEW key \in ruledKeys'
        PROVE  \E i \in Rows' :
                 /\ ~attempts'[i].knob /\ QuotaKey[attempts'[i].model] = key
                 /\ attempts'[i].reason = "quota_exhausted"
    <3>1. CASE key \in ruledKeys
      <4>1. PICK i \in Rows :
              /\ ~attempts[i].knob /\ QuotaKey[attempts[i].model] = key
              /\ attempts[i].reason = "quota_exhausted"
        BY <1>5, <3>1 DEF Backed
      <4>2. i \in Rows' /\ attempts'[i] = attempts[i]
        BY <1>1, <1>3
      <4> QED BY <4>1, <4>2
    <3>2. CASE key \in keys
      <4>1. key = QuotaKey[model] /\ reason = "quota_exhausted" /\ ~knob
        BY <3>2
      <4> QED BY <1>1, <1>2, <1>3, <4>1
    <3> QED BY <2>2, <3>1, <3>2
  <2>3. ASSUME NEW u \in ruledUpstreams'
        PROVE  \E i \in Rows' :
                 /\ ~attempts'[i].knob /\ Upstream[attempts'[i].model] = u
                 /\ attempts'[i].reason \in UpstreamDiverting \/ attempts'[i].scoped
    <3>1. PICK i \in Rows :
            /\ ~attempts[i].knob /\ Upstream[attempts[i].model] = u
            /\ attempts[i].reason \in UpstreamDiverting \/ attempts[i].scoped
      BY <1>5, <2>3 DEF Backed
    <3>2. i \in Rows' /\ attempts'[i] = attempts[i]
      BY <1>1, <1>3
    <3> QED BY <3>1, <3>2
  <2> QED BY <2>1, <2>2, <2>3 DEF Backed
<1>8. Slots'
  BY <1>5 DEF Slots, window, Planned, request
<1>9. WindowSound'
  <2> SUFFICES ASSUME ~divert' PROVE WindowSound'
    BY DEF WindowSound
  <2>1. \A m \in pool \ consideredIds : RuledOut(m)' <=> RuledOut(m)
    <3>1. ruledSources' = ruledSources
      OBVIOUS
    <3>2. \A m \in pool \ consideredIds :
            QuotaKey[m] \in ruledKeys' <=> QuotaKey[m] \in ruledKeys
      OBVIOUS
    <3> QED BY <3>1, <3>2 DEF RuledOut, Barred, TooSmall
  <2>2. pending \subseteq pool \ consideredIds
    BY <1>5 DEF Slots, TypeInv, TypeOK
  <2> QED BY <1>5, <2>1, <2>2 DEF WindowSound, window, request
<1>10. ASSUME pending # {} PROVE Learned'
  <2> SUFFICES ASSUME NEW i \in Rows', ~attempts'[i].knob
               PROVE  /\ attempts'[i].reason \in ProviderScoped
                           => Source[attempts'[i].model] \in ruledSources'
                      /\ attempts'[i].reason = "quota_exhausted"
                           => QuotaKey[attempts'[i].model] \in ruledKeys'
                      /\ (i < Len(attempts') \/ ~Unread') =>
                           /\ (attempts'[i].reason \in SourceDiverting
                               /\ ~attempts'[i].scoped)
                                => Source[attempts'[i].model] \in ruledSources'
                           /\ (attempts'[i].reason \in UpstreamDiverting
                               \/ attempts'[i].scoped)
                                => Upstream[attempts'[i].model] \in ruledUpstreams'
                           /\ attempts'[i].reason \in ContextDiverting
                                => required' > Context[attempts'[i].model]
    BY DEF Learned
  <2>1. CASE i \in Rows
    <3>1. attempts'[i] = attempts[i] /\ ~attempts[i].knob
      BY <1>1, <2>1
    <3> QED BY <1>4, <1>5, <1>10, <2>1, <3>1 DEF Learned
  <2>2. CASE i = last
    <3>1. attempts'[i] = row /\ Unread' /\ ~knob /\ ~(i < Len(attempts'))
      BY <1>1, <1>2, <1>3, <1>10, <2>2 DEF last
    <3> QED BY <1>2, <1>10, <3>1
  <2> QED BY <1>3, <2>1, <2>2
<1> QED BY <1>6, <1>7, <1>8, <1>9, <1>10 DEF LoopInv, window

\* Reading the last row completes what the loop has learned, and what it then
\* remembers is still backed by rows.
LEMMA AskNextFacts ==
  ASSUME TypeInv, LoopInv, ~passStarted, NEW size \in SizeFact, NEW m \in Models,
         NEW known \in SUBSET Knobs, AskNext(size, m, known)
  PROVE  Learned' /\ Backed' /\ size \in Nat /\ size >= required
<1>1. /\ attempts' = attempts /\ Rows' = Rows /\ pending # {} /\ pc = "choose" /\ ~again
      /\ ~Unread' /\ ruledKeys' = ruledKeys /\ required' = size
      /\ ruledSources' = ruledSources \cup SourceFact
      /\ ruledUpstreams' = ruledUpstreams \cup UpstreamFact
  BY DEF AskNext, Rows, Unread
<1>2. LastRowRead /\ Backed /\ Learned /\ Unread
  BY <1>1 DEF LoopInv, Running, Unread
<1>3. attempts \in Seq(Row) /\ Len(attempts) \in Nat /\ Rows = 1..Len(attempts)
  BY DEF TypeInv, TypeOK, Rows
<1>4. attempts # <<>> =>
        /\ Len(attempts) \in Rows /\ LastRow = attempts[Len(attempts)]
        /\ LastRow.model = model /\ ~LastRow.knob /\ model \in Models
        /\ LastReason = LastRow.reason /\ (LastScoped <=> LastRow.scoped)
  BY <1>2, <1>3 DEF LastRowRead, LastRow, LastReason, LastScoped, TypeInv, TypeOK, Asked
<1>5. /\ size \in Nat /\ size >= required
      /\ (attempts # <<>> /\ LastReason \in ContextDiverting) => size > Context[model]
  <2>1. CASE LastReason \in ContextDiverting
    <3>1. attempts # <<>>
      BY <2>1 DEF LastReason, ContextDiverting
    <3>2. PICK s \in Sizes \cup {0} : size = Grown(s)
      BY <2>1 DEF SizeFact
    <3> QED BY <1>4, <3>1, <3>2, GrownType, RequestAssumption DEF TypeInv, TypeOK
  <2>2. CASE LastReason \notin ContextDiverting
    BY <2>2 DEF SizeFact, TypeInv, TypeOK
  <2> QED BY <2>1, <2>2
<1>6. Learned'
  <2> SUFFICES ASSUME NEW i \in Rows, ~attempts[i].knob
               PROVE  /\ attempts[i].reason \in ProviderScoped
                           => Source[attempts[i].model] \in ruledSources'
                      /\ attempts[i].reason = "quota_exhausted"
                           => QuotaKey[attempts[i].model] \in ruledKeys'
                      /\ (attempts[i].reason \in SourceDiverting /\ ~attempts[i].scoped)
                           => Source[attempts[i].model] \in ruledSources'
                      /\ (attempts[i].reason \in UpstreamDiverting \/ attempts[i].scoped)
                           => Upstream[attempts[i].model] \in ruledUpstreams'
                      /\ attempts[i].reason \in ContextDiverting
                           => required' > Context[attempts[i].model]
    BY <1>1 DEF Learned
  <2>1. CASE i < Len(attempts)
    <3>1. attempts[i].model \in Models
      BY DEF TypeInv, TypeOK, Asked
    <3>2. Context[attempts[i].model] \in Nat /\ required \in Nat
      BY <3>1, ModelsAssumption DEF TypeInv, TypeOK
    <3>3. /\ attempts[i].reason \in ProviderScoped
                => Source[attempts[i].model] \in ruledSources
          /\ attempts[i].reason = "quota_exhausted"
                => QuotaKey[attempts[i].model] \in ruledKeys
          /\ (attempts[i].reason \in SourceDiverting /\ ~attempts[i].scoped)
                => Source[attempts[i].model] \in ruledSources
          /\ (attempts[i].reason \in UpstreamDiverting \/ attempts[i].scoped)
                => Upstream[attempts[i].model] \in ruledUpstreams
          /\ attempts[i].reason \in ContextDiverting
                => required > Context[attempts[i].model]
      BY <1>2, <2>1 DEF Learned
    <3> QED BY <1>1, <1>5, <3>2, <3>3
  <2>2. CASE i = Len(attempts)
    <3>1. attempts # <<>> /\ attempts[i] = LastRow
      BY <1>3, <2>2 DEF LastRow
    <3>2. /\ (LastRow.reason \in SourceDiverting /\ ~LastRow.scoped)
                => Source[LastRow.model] \in ruledSources'
          /\ (LastRow.reason \in UpstreamDiverting \/ LastRow.scoped)
                => Upstream[LastRow.model] \in ruledUpstreams'
          /\ LastRow.reason \in ContextDiverting => required' > Context[LastRow.model]
      BY <1>1, <1>4, <1>5, <3>1 DEF SourceFact, UpstreamFact
    <3>3. /\ LastRow.reason \in ProviderScoped => Source[LastRow.model] \in ruledSources
          /\ LastRow.reason = "quota_exhausted" => QuotaKey[LastRow.model] \in ruledKeys
      BY <1>2, <3>1 DEF Learned
    <3> QED BY <1>1, <3>1, <3>2, <3>3
  <2> QED BY <1>3, <2>1, <2>2
<1>7. Backed'
  <2>1. \A s \in SourceFact : \E i \in Rows :
          /\ ~attempts[i].knob /\ Source[attempts[i].model] = s
          /\ \/ attempts[i].reason \in ProviderScoped
             \/ attempts[i].reason \in SourceDiverting /\ ~attempts[i].scoped
    <3> SUFFICES ASSUME LastReason \in SourceDiverting /\ ~LastScoped
                 PROVE  \E i \in Rows :
                          /\ ~attempts[i].knob /\ Source[attempts[i].model] = Source[LastRow.model]
                          /\ \/ attempts[i].reason \in ProviderScoped
                             \/ attempts[i].reason \in SourceDiverting /\ ~attempts[i].scoped
      BY DEF SourceFact
    <3>1. attempts # <<>>
      BY DEF LastReason, SourceDiverting
    <3> QED BY <1>4, <3>1
  <2>2. \A u \in UpstreamFact : \E i \in Rows :
          /\ ~attempts[i].knob /\ Upstream[attempts[i].model] = u
          /\ attempts[i].reason \in UpstreamDiverting \/ attempts[i].scoped
    <3> SUFFICES ASSUME LastReason \in UpstreamDiverting \/ LastScoped
                 PROVE  \E i \in Rows :
                          /\ ~attempts[i].knob
                          /\ Upstream[attempts[i].model] = Upstream[LastRow.model]
                          /\ attempts[i].reason \in UpstreamDiverting \/ attempts[i].scoped
      BY DEF UpstreamFact
    <3>1. attempts # <<>>
      BY DEF LastReason, LastScoped, UpstreamDiverting
    <3> QED BY <1>4, <3>1
  <2> QED BY <1>1, <1>2, <2>1, <2>2 DEF Backed
<1> QED BY <1>5, <1>6, <1>7

\* What AskNext chooses from: the window as re-planned.
Offered(size) == IF Replanned(size) # {} THEN Replanned(size) ELSE pending

\* Either nothing that is offered is ruled out, or nothing else is left.
LEMMA OfferSound ==
  ASSUME TypeInv, LoopInv, ~passStarted, NEW size \in SizeFact, NEW m \in Models,
         NEW known \in SUBSET Knobs, AskNext(size, m, known)
  PROVE  /\ Offered(size) \subseteq pool \ consideredIds
         /\ m \in Offered(size) /\ pending' = Offered(size) \ {m}
         /\ \/ \A k \in Offered(size) : ~RuledOut(k)'
            \/ \A k \in pool \ consideredIds : RuledOut(k)'
<1>1. /\ pending # {} /\ ruledKeys' = ruledKeys /\ required' = size
      /\ ruledSources' = ruledSources \cup SourceFact
      /\ ruledUpstreams' = ruledUpstreams \cup UpstreamFact
      /\ m \in Offered(size) /\ pending' = Offered(size) \ {m}
  BY DEF AskNext, Offered
<1>2. Slots /\ WindowSound
  BY DEF LoopInv, Running, AskNext
<1>3. \A k : RuledOut(k)' <=> Barred(k, ruledSources \cup SourceFact,
                                    ruledUpstreams \cup UpstreamFact, size)
  BY <1>1 DEF RuledOut, Barred, TooSmall
<1>4. Survivors(size) = {k \in pool \ consideredIds : ~RuledOut(k)'}
  BY <1>3 DEF Survivors
<1>5. Survivors(size) \in SUBSET Models
  BY <1>4 DEF TypeInv, TypeOK
<1>6. Replanned(size) \subseteq Survivors(size)
  BY DEF Replanned, Diverse
<1>7. pending \subseteq pool \ consideredIds
  BY <1>2 DEF Slots, TypeInv, TypeOK
<1>8. Offered(size) \subseteq pool \ consideredIds
  BY <1>4, <1>6, <1>7 DEF Offered
<1>9. Planned - considered \in Nat /\ Planned - considered > 0
  <2>1. PICK k \in pending : TRUE
    BY <1>1
  <2>2. considered <= slot[k] /\ slot[k] < Planned
    BY <1>2, <2>1 DEF Slots
  <2>3. slot[k] \in Nat /\ considered \in Nat /\ Planned \in Nat
    BY <2>1, PlannedType DEF TypeInv, TypeOK
  <2> QED BY <2>2, <2>3
<1>10. CASE Replanned(size) # {}
  BY <1>1, <1>4, <1>6, <1>8, <1>10 DEF Offered
<1>11. CASE Replanned(size) = {} /\ MustReplan
  <2>1. Survivors(size) = {}
    BY <1>5, <1>9, <1>11, DiverseNonEmpty DEF Replanned
  <2> QED BY <1>1, <1>4, <1>8, <2>1
<1>12. CASE Replanned(size) = {} /\ ~MustReplan
  <2>1. size = required
    BY <1>12 DEF MustReplan, SizeFact
  <2>2. SourceFact \subseteq ruledSources /\ ~divert
    BY <1>12 DEF MustReplan
  <2>3. \A k \in pool \ consideredIds :
          Upstream[k] \in ruledUpstreams \cup UpstreamFact <=> Upstream[k] \in ruledUpstreams
    BY <1>12 DEF MustReplan
  <2>4. \A k \in pool \ consideredIds : RuledOut(k)' <=> RuledOut(k)
    BY <1>3, <2>1, <2>2, <2>3 DEF RuledOut, Barred
  <2>5. Offered(size) = pending
    BY <1>12 DEF Offered
  <2> QED BY <1>1, <1>2, <1>7, <2>2, <2>4, <2>5 DEF WindowSound
<1> QED BY <1>10, <1>11, <1>12

\* The window that is left has distinct positions behind the one just used.
LEMMA AskNextSlots ==
  ASSUME TypeInv, LoopInv, ~passStarted, NEW size \in SizeFact, NEW m \in Models,
         NEW known \in SUBSET Knobs, AskNext(size, m, known)
  PROVE  Slots'
<1> DEFINE n == Planned - considered
           at(k) == IF k \in Replanned(size)
                    THEN considered + Place(k, Survivors(size), n) ELSE slot[k]
<1>1. Slots
  BY DEF LoopInv, Running, AskNext
<1>2. /\ slot' = [k \in Models |-> at(k)] /\ considered' = considered + 1
      /\ consideredIds' = consideredIds \cup {m} /\ Planned' = Planned
      /\ m \in Offered(size) /\ pending' = Offered(size) \ {m}
      /\ \A k \in Offered(size) : slot'[m] <= slot'[k]
  BY DEF AskNext, Offered, request, Planned
<1>3. Offered(size) \subseteq pool \ consideredIds
  BY OfferSound
<1>4. considered \in Nat /\ Planned \in Nat /\ slot \in [Models -> Nat] /\ pool \subseteq Models
  BY PlannedType DEF TypeInv, TypeOK
<1>5. Survivors(size) \in SUBSET Models /\ Replanned(size) \subseteq Survivors(size)
  BY <1>4 DEF Survivors, Replanned, Diverse
<1>6. ASSUME NEW k \in Offered(size)
      PROVE  slot'[k] = at(k) /\ at(k) \in Nat /\ considered <= at(k) /\ at(k) < Planned
  <2>1. slot'[k] = at(k)
    BY <1>2, <1>3, <1>4
  <2>2. CASE Replanned(size) # {}
    <3>1. k \in Replanned(size)
      BY <1>6, <2>2 DEF Offered
    <3>2. Place(k, Survivors(size), n) \in Nat
      BY <1>5, PlaceType
    <3>3. Place(k, Survivors(size), n) < n
      BY <3>1 DEF Replanned, Diverse
    <3> QED BY <1>4, <2>1, <3>1, <3>2, <3>3
  <2>3. CASE Replanned(size) = {}
    BY <1>1, <1>3, <1>4, <1>6, <2>1, <2>3 DEF Offered, Slots
  <2> QED BY <2>2, <2>3
<1>7. ASSUME NEW k \in Offered(size), NEW j \in Offered(size), k # j
      PROVE  slot'[k] # slot'[j]
  <2>1. CASE Replanned(size) # {}
    <3>1. k \in Replanned(size) /\ j \in Replanned(size)
      BY <1>7, <2>1 DEF Offered
    <3>2. Place(k, Survivors(size), n) # Place(j, Survivors(size), n)
      BY <1>5, <1>7, <3>1, PlaceInjective
    <3>3. Place(k, Survivors(size), n) \in Nat /\ Place(j, Survivors(size), n) \in Nat
      BY <1>5, PlaceType
    <3> QED BY <1>4, <1>6, <1>7, <3>1, <3>2, <3>3
  <2>2. CASE Replanned(size) = {}
    <3>1. k \in pending /\ j \in pending
      BY <1>7, <2>2 DEF Offered
    <3> QED BY <1>1, <1>6, <1>7, <2>2, <3>1 DEF Slots
  <2> QED BY <2>1, <2>2
<1> HIDE DEF at, n
<1>8. \A k \in pending' : considered + 1 <= slot'[k] /\ slot'[k] < Planned
  <2> SUFFICES ASSUME NEW k \in Offered(size), k # m
               PROVE  considered + 1 <= slot'[k] /\ slot'[k] < Planned
    BY <1>2
  <2>1. slot'[m] # slot'[k] /\ slot'[m] <= slot'[k]
    BY <1>2, <1>7
  <2>2. slot'[m] \in Nat /\ considered <= slot'[m] /\ slot'[k] \in Nat /\ slot'[k] < Planned
    BY <1>2, <1>6
  <2> QED BY <1>4, <2>1, <2>2
<1>9. \A k, j \in pending' : k # j => slot'[k] # slot'[j]
  BY <1>2, <1>7
<1>10. pending' \cap consideredIds' = {}
  BY <1>2, <1>3
<1> QED BY <1>2, <1>8, <1>9, <1>10 DEF Slots

LEMMA AskNextLoop ==
  ASSUME TypeInv, LoopInv, ~passStarted, NEW size \in SizeFact, NEW m \in Models,
         NEW known \in SUBSET Knobs, AskNext(size, m, known)
  PROVE  LoopInv'
<1>1. Learned' /\ Backed' /\ Slots'
  BY AskNextFacts, AskNextSlots
<1>2. ~Unread'
  BY DEF AskNext, Unread
<1>3. consideredIds' = consideredIds \cup {m} /\ pool' = pool
  BY DEF AskNext, request
<1>4. WindowSound'
  BY <1>3, OfferSound DEF WindowSound
<1> QED BY <1>1, <1>2, <1>4 DEF LoopInv, LastRowRead

\* The steps that record no row and read none.
LEMMA QuietLoop ==
  ASSUME LoopInv, Modes,
         UNCHANGED <<request, window, facts, model, passStarted, attempts>>,
         Running' => Running, Unread' <=> Unread
  PROVE  LoopInv'
<1>1. CASE ~Running' \/ passStarted
  BY <1>1 DEF LoopInv
<1>2. CASE Running' /\ ~passStarted
  <2>1. LastRowRead /\ Backed /\ Slots /\ WindowSound /\ (pending # {} => Learned)
    BY <1>2 DEF LoopInv
  <2>2. UNCHANGED <<virtual, pool, pending, slot, considered, consideredIds, ruledSources,
                    ruledKeys, ruledUpstreams, required, divert, model, attempts>>
    BY DEF request, window, facts
  <2>3. LastRowRead' /\ Backed'
    BY <2>1, <2>2 DEF LastRowRead, LastRow, Backed, Rows
  <2>4. Slots' /\ WindowSound'
    BY <2>1, <2>2 DEF Slots, Planned, WindowSound, RuledOut, Barred, TooSmall
  <2>5. pending' # {} => Learned'
    BY <2>1, <2>2 DEF Learned, Rows
  <2> QED BY <2>3, <2>4, <2>5 DEF LoopInv
<1> QED BY <1>1, <1>2

\* An inline retry waits only when the window has nothing else to offer.
LEMMA InlineIsLast ==
  ASSUME TypeInv, Slots, considered > 0, NEW seconds, CanRetryInline(seconds)
  PROVE  pending = {}
<1>1. CASE virtual
  BY <1>1 DEF CanRetryInline
<1>2. CASE ~virtual
  <2>1. PICK only : pool = {only}
    BY <1>2 DEF TypeInv, Asked
  <2>2. model \in consideredIds /\ consideredIds \subseteq pool /\ pending \subseteq pool
    BY DEF TypeInv, TypeOK, Asked
  <2>3. pending \cap consideredIds = {}
    BY DEF Slots
  <2> QED BY <2>1, <2>2, <2>3
<1> QED BY <1>1, <1>2

LEMMA AnswerLoop ==
  ASSUME TypeInv, LoopInv, Modes, Answer
  PROVE  LoopInv'
<1> SUFFICES ASSUME Running', ~passStarted' PROVE LoopInv'
  BY DEF LoopInv
<1>1. /\ considered > 0 /\ 0 \in Hints /\ Hints \subseteq Nat
      /\ Reasons \subseteq AllReasons /\ Classified \subseteq AllReasons
      /\ pc \in {"asking", "streaming"}
  BY RequestAssumption
  DEF Answer, TypeInv, TypeOK, Asked, AdmissionRefused, InvocationFails, JsonAnswer,
      NoAnswer, StreamCommits, StreamEnds, HttpFailure, KnobsRejected, AllReasons
<1>2. ~again /\ divert \in BOOLEAN
  BY <1>1 DEF Modes, TypeInv, TypeOK
<1>3. passStarted = FALSE => Slots
  BY <1>1 DEF LoopInv, Running
<1>4. ASSUME NEW reason \in AllReasons, NEW hint \in Hints, NEW scoped \in BOOLEAN,
             Record(reason, hint, scoped, FALSE), RuleOut(reason),
             UNCHANGED <<request, window, model, passStarted>>, Unread' \/ pending = {}
      PROVE  LoopInv'
  <2> DEFINE sources == IF reason \in ProviderScoped THEN {Source[model]} ELSE {}
             keys == IF reason = "quota_exhausted" THEN {QuotaKey[model]} ELSE {}
  <2>1. /\ sources \in SUBSET {Source[model]} /\ keys \in SUBSET {QuotaKey[model]}
        /\ sources # {} => reason \in ProviderScoped
        /\ keys # {} => reason = "quota_exhausted"
        /\ reason \in ProviderScoped => Source[model] \in sources
        /\ reason = "quota_exhausted" => QuotaKey[model] \in keys
    OBVIOUS
  <2>2. /\ ruledSources' = ruledSources \cup sources /\ ruledKeys' = ruledKeys \cup keys
        /\ UNCHANGED <<ruledUpstreams, required>>
        /\ divert' = \/ divert
                     \/ sources \ ruledSources # {}
                     \/ \E m \in pool \ consideredIds : QuotaKey[m] \in keys \ ruledKeys
    BY <1>4 DEF RuleOut
  <2> HIDE DEF sources, keys
  <2>3. divert' \in BOOLEAN
    BY <1>2, <2>2
  <2>4. ~divert' => /\ ~divert /\ sources \subseteq ruledSources
                    /\ \A m \in pool \ consideredIds : QuotaKey[m] \notin keys \ ruledKeys
    BY <2>2
  <2> QED BY <1>1, <1>4, <2>1, <2>2, <2>3, <2>4, LoopRow
<1>5. ASSUME NEW seconds \in Hints \ {0}, AdmissionRefused(seconds) PROVE LoopInv'
  <2>1. /\ Record("rate_limited", seconds, FALSE, FALSE) /\ "rate_limited" \in AllReasons
        /\ "rate_limited" \in ProviderScoped /\ "rate_limited" # "quota_exhausted"
        /\ UNCHANGED <<request, window, outside, clocks>>
    BY <1>1, <1>5 DEF AdmissionRefused, ProviderScoped
  <2>2. CASE CanRetryInline(seconds) /\ PauseThenRetry(seconds) /\ UNCHANGED facts
    <3>1. UNCHANGED <<model, passStarted, ruledSources, ruledKeys, ruledUpstreams,
                      required, divert>>
      BY <2>2 DEF PauseThenRetry, facts
    <3>2. pending = {} /\ ~Unread'
      BY <1>1, <1>3, <2>2, <3>1, InlineIsLast DEF PauseThenRetry, Unread
    <3>3. ruledSources' = ruledSources \cup {} /\ ruledKeys' = ruledKeys \cup {}
      BY <3>1
    <3> QED BY <1>1, <1>2, <2>1, <3>1, <3>2, <3>3, LoopRow
  <2>3. CASE /\ ruledSources' = ruledSources \cup {Source[model]}
             /\ divert' = (divert \/ Source[model] \notin ruledSources)
             /\ pc' = "choose"
             /\ UNCHANGED <<ruledKeys, ruledUpstreams, required, turn, capacity,
                            reply, wait>>
    <3>1. UNCHANGED <<model, passStarted>> /\ Unread'
      BY <1>2, <2>3 DEF turn, capacity, Unread
    <3>2. ruledKeys' = ruledKeys \cup {}
      BY <2>3
    <3>3. divert' \in BOOLEAN
      BY <1>2, <2>3
    <3>4. ~divert' => ~divert /\ {Source[model]} \subseteq ruledSources
      BY <2>3
    <3>5. Source[model] \in ruledSources'
      BY <2>3
    <3> QED BY <1>1, <2>1, <2>3, <3>1, <3>2, <3>3, <3>4, <3>5, LoopRow
  <2> QED BY <1>5, <2>2, <2>3 DEF AdmissionRefused
<1>6. ASSUME NEW reason \in Reasons \cap Raised, InvocationFails(reason) PROVE LoopInv'
  BY <1>1, <1>2, <1>4, <1>6 DEF InvocationFails, turn, capacity, Unread
<1>7. CASE JsonAnswer
  BY <1>7 DEF JsonAnswer, Running
<1>8. ASSUME NEW reason \in Reasons, NoAnswer(reason) PROVE LoopInv'
  BY <1>1, <1>2, <1>4, <1>8 DEF NoAnswer, MoveOn, GiveUp, turn, capacity, Unread, Running
<1>9. CASE StreamCommits
  <2>1. UNCHANGED <<request, window, facts, model, passStarted, attempts>>
    BY <1>9 DEF StreamCommits, turn, capacity
  <2>2. Running /\ ~Unread /\ ~Unread'
    BY <1>1, <1>9 DEF StreamCommits, Running, Unread
  <2> QED BY <2>1, <2>2, QuietLoop
<1>10. ASSUME NEW how \in {"streamed", "broken"}, StreamEnds(how) PROVE LoopInv'
  BY <1>10 DEF StreamEnds, Running
<1>11. ASSUME NEW reason \in Reasons \cap Classified, NEW seconds \in Hints,
              NEW scoped \in BOOLEAN, HttpFailure(reason, seconds, scoped)
       PROVE  LoopInv'
  <2>1. Record(reason, seconds, scoped, FALSE) /\ RuleOut(reason)
        /\ UNCHANGED <<request, window, outside, clocks>>
    BY <1>11 DEF HttpFailure
  <2>2. CASE CanRetryInline(seconds) /\ PauseThenRetry(seconds)
    <3>1. pending = {} /\ UNCHANGED <<model, passStarted>>
      BY <1>1, <1>3, <2>2, InlineIsLast DEF PauseThenRetry
    <3> QED BY <1>1, <1>4, <2>1, <3>1
  <2>3. CASE MoveOn(reason) /\ UNCHANGED <<turn, capacity, wait>>
    <3>1. Unread' /\ UNCHANGED <<model, passStarted>>
      BY <1>2, <2>3 DEF MoveOn, GiveUp, turn, capacity, Unread, Running
    <3> QED BY <1>1, <1>4, <2>1, <3>1
  <2> QED BY <1>11, <2>2, <2>3 DEF HttpFailure
<1>12. ASSUME NEW named \in SUBSET Knobs, NEW reason \in NonRetryable \cup SourceDiverting,
              KnobsRejected(named, reason)
       PROVE  LoopInv'
  <2>1. reason \in AllReasons
    BY <1>1 DEF NonRetryable, SourceDiverting, Classified
  <2>2. /\ Record(reason, 0, FALSE, TRUE) /\ ~Unread'
        /\ UNCHANGED <<model, request, window, facts, capacity>>
    BY <1>12 DEF KnobsRejected, Unread
  <2>3. /\ UNCHANGED <<passStarted, ruledUpstreams, required, divert>>
        /\ ruledSources' = ruledSources \cup {} /\ ruledKeys' = ruledKeys \cup {}
    BY <2>2 DEF facts, capacity
  <2> QED BY <1>1, <1>2, <2>1, <2>2, <2>3, LoopRow
<1> QED
  BY <1>5, <1>6, <1>7, <1>8, <1>9, <1>10, <1>11, <1>12 DEF Answer

LEMMA StepModes == TypeInv /\ Modes /\ [Next]_vars => Modes'
<1> SUFFICES ASSUME TypeInv, Modes, [Next]_vars PROVE Modes'
  OBVIOUS
<1> USE DEF Modes
<1>1. CASE Choose
  BY <1>1
  DEF Choose, AskNext, AskAgain, StopShort, CapacityRetryPass, PassWaitEnds,
      WindowSpent, PauseEnds, GiveUp, capacity, turn
<1>2. CASE Answer
  <2>1. ASSUME NEW reason, pc = "asking", MoveOn(reason), UNCHANGED <<turn, capacity>>
        PROVE  Modes'
    BY <2>1 DEF MoveOn, GiveUp, turn, capacity
  <2>2. ASSUME NEW seconds, PauseThenRetry(seconds) PROVE Modes'
    BY <2>2 DEF PauseThenRetry
  <2>3. ASSUME NEW seconds \in Hints \ {0}, AdmissionRefused(seconds) PROVE Modes'
    BY <2>2, <2>3 DEF AdmissionRefused
  <2>4. ASSUME NEW reason \in Reasons \cap Raised, InvocationFails(reason) PROVE Modes'
    BY <2>4 DEF InvocationFails
  <2>5. CASE JsonAnswer
    BY <2>5 DEF JsonAnswer
  <2>6. ASSUME NEW reason \in Reasons, NoAnswer(reason) PROVE Modes'
    BY <2>1, <2>6 DEF NoAnswer, turn, capacity
  <2>7. CASE StreamCommits
    BY <2>7 DEF StreamCommits, turn
  <2>8. ASSUME NEW how \in {"streamed", "broken"}, StreamEnds(how) PROVE Modes'
    BY <2>8 DEF StreamEnds
  <2>9. ASSUME NEW reason \in Reasons \cap Classified, NEW seconds \in Hints,
               NEW scoped \in BOOLEAN, HttpFailure(reason, seconds, scoped)
        PROVE  Modes'
    BY <2>1, <2>2, <2>9 DEF HttpFailure, turn, capacity
  <2>10. ASSUME NEW named \in SUBSET Knobs,
                NEW reason \in NonRetryable \cup SourceDiverting,
                KnobsRejected(named, reason)
         PROVE  Modes'
    BY <2>10 DEF KnobsRejected
  <2> QED
    BY <1>2, <2>3, <2>4, <2>5, <2>6, <2>7, <2>8, <2>9, <2>10 DEF Answer
<1>3. CASE ClientLeaves \/ Sigterm \/ Kill \/ Tick \/ Done \/ UNCHANGED vars
  BY <1>3 DEF ClientLeaves, Sigterm, Kill, Tick, Done, vars, turn, capacity
<1> QED BY <1>1, <1>2, <1>3 DEF Next

LEMMA StepLoop == TypeInv /\ Modes /\ LoopInv /\ [Next]_vars => LoopInv'
<1> SUFFICES ASSUME TypeInv, Modes, LoopInv, [Next]_vars PROVE LoopInv'
  OBVIOUS
<1>1. ASSUME NEW size \in SizeFact, NEW m \in Models, NEW known \in SUBSET Knobs,
             AskNext(size, m, known)
      PROVE  LoopInv'
  <2>1. CASE passStarted
    BY <1>1, <2>1 DEF AskNext, capacity, LoopInv
  <2>2. CASE ~passStarted
    BY <1>1, <2>2, AskNextLoop
  <2> QED BY <2>1, <2>2
<1>2. CASE CapacityRetryPass
  BY <1>2 DEF CapacityRetryPass, LoopInv
<1>3. CASE StopShort \/ WindowSpent \/ Kill
  BY <1>3 DEF StopShort, WindowSpent, Kill, GiveUp, LoopInv, Running
<1>4. CASE PassWaitEnds
  BY <1>4 DEF PassWaitEnds, Modes, LoopInv, capacity
<1>5. CASE AskAgain \/ PauseEnds
  BY <1>5, QuietLoop DEF AskAgain, PauseEnds, Running, Unread, Modes, turn, capacity
<1>6. CASE Answer
  BY <1>6, AnswerLoop
<1>7. CASE ClientLeaves \/ Sigterm \/ Tick \/ Done \/ UNCHANGED vars
  BY <1>7, QuietLoop
  DEF ClientLeaves, Sigterm, Tick, Done, vars, Running, Unread, turn, capacity
<1> QED BY <1>1, <1>2, <1>3, <1>4, <1>5, <1>6, <1>7 DEF Next, Choose

LEMMA InitLoop == Init => LoopInv /\ Modes
<1> SUFFICES ASSUME Init PROVE LoopInv /\ Modes
  OBVIOUS
<1>1. TypeInv
  BY InitTypeInv
<1>2. pool \in SUBSET Models
  BY <1>1 DEF TypeInv, TypeOK
<1>3. attempts = <<>> /\ Rows = {}
  BY DEF Init, Rows
<1>4. LastRowRead /\ Backed /\ Learned
  BY <1>3 DEF Init, LastRowRead, Backed, Learned
<1>5. ASSUME NEW m \in pending
      PROVE  slot[m] = Place(m, pool, Planned) /\ slot[m] \in Nat /\ slot[m] < Planned
  BY <1>2, PlaceType DEF Init, Diverse
<1>6. Slots
  <2>1. \A m, k \in pending : m # k => slot[m] # slot[k]
    BY <1>2, <1>5, PlaceInjective DEF Init, Diverse
  <2>2. considered = 0 /\ consideredIds = {}
    BY DEF Init
  <2> QED BY <1>5, <2>1, <2>2 DEF Slots
<1>7. WindowSound
  <2> SUFFICES ASSUME NEW m \in pool PROVE ~RuledOut(m)
    BY DEF WindowSound, Init, Diverse
  <2>1. m \in Models
    BY <1>2
  <2>2. Context[m] = 0 \/ Context[m] >= FirstSize
    BY <2>1, RequestAssumption
  <2>3. Context[m] \in Nat /\ FirstSize \in Nat
    BY <2>1, ModelsAssumption, RequestAssumption
  <2> QED BY <2>2, <2>3 DEF Init, RuledOut, Barred, TooSmall
<1>8. Modes
  BY DEF Init, Modes
<1> QED BY <1>4, <1>6, <1>7, <1>8 DEF LoopInv

\* The window, the facts and the rows agree until the capacity pass opens.
THEOREM WindowAndFactsAgree == Spec => []LoopInv
<1>1. Spec => [](TypeInv /\ Modes /\ LoopInv)
  BY InitTypeInv, InitLoop, StepTypeInv, StepModes, StepLoop, PTL DEF Spec
<1> QED BY <1>1, PTL

\* Under the agreement, a candidate some row speaks against is ruled out, and
\* one that is ruled out is too small or some row speaks against it.
LEMMA RuledOutIsBlocked ==
  TypeInv /\ Backed =>
    \A k \in Models : RuledOut(k) => Blocked(k) \/ TooSmall(k, required)
<1> SUFFICES ASSUME TypeInv, Backed, NEW k \in Models, RuledOut(k)
             PROVE  Blocked(k) \/ TooSmall(k, required)
  OBVIOUS
<1>1. CASE Upstream[k] \in ruledUpstreams
  BY <1>1 DEF Backed, Blocked, Blocks
<1>2. CASE Source[k] \in ruledSources
  BY <1>2 DEF Backed, Blocked, Blocks
<1>3. CASE QuotaKey[k] \in ruledKeys
  BY <1>3 DEF Backed, Blocked, Blocks
<1> QED BY <1>1, <1>2, <1>3 DEF RuledOut, Barred

LEMMA BlockedIsRuledOut ==
  TypeInv /\ Learned /\ ~Unread => \A k \in Models : Blocked(k) => RuledOut(k)
<1> SUFFICES ASSUME TypeInv, Learned, ~Unread, NEW k \in Models, Blocked(k)
             PROVE  RuledOut(k)
  OBVIOUS
<1>1. PICK i \in Rows : ~attempts[i].knob /\ Blocks(i, k)
  BY DEF Blocked
<1>2. attempts[i].model \in Models
  BY DEF TypeInv, TypeOK, Asked
<1>3. CASE /\ \/ attempts[i].reason \in ProviderScoped
              \/ attempts[i].reason \in SourceDiverting /\ ~attempts[i].scoped
           /\ Source[k] = Source[attempts[i].model]
  BY <1>1, <1>3 DEF Learned, RuledOut, Barred
<1>4. CASE attempts[i].reason = "quota_exhausted" /\ QuotaKey[k] = QuotaKey[attempts[i].model]
  BY <1>1, <1>4 DEF Learned, RuledOut, Barred
<1>5. CASE /\ attempts[i].reason \in UpstreamDiverting \/ attempts[i].scoped
           /\ Upstream[k] = Upstream[attempts[i].model]
  BY <1>1, <1>5 DEF Learned, RuledOut, Barred
<1>6. CASE /\ attempts[i].reason \in ContextDiverting
           /\ Context[k] \in 1..Context[attempts[i].model]
  <2>1. required > Context[attempts[i].model]
    BY <1>1, <1>6 DEF Learned
  <2>2. Context[k] \in Nat /\ Context[attempts[i].model] \in Nat /\ required \in Nat
    BY <1>2, ModelsAssumption DEF TypeInv, TypeOK
  <2>3. Context[k] # 0 /\ Context[k] < required
    BY <1>6, <2>1, <2>2
  <2> QED BY <2>3 DEF RuledOut, Barred, TooSmall
<1> QED BY <1>1, <1>3, <1>4, <1>5, <1>6 DEF Blocks

LEMMA AskNextLastResort ==
  ASSUME TypeInv, LoopInv, ~passStarted, NEW size \in SizeFact, NEW m \in Models,
         NEW known \in SUBSET Knobs, AskNext(size, m, known), Blocked(m)
  PROVE  \A k \in pool \ consideredIds' : Blocked(k) \/ TooSmall(k, required')
<1>1. TypeInv' /\ Learned' /\ Backed' /\ ~Unread' /\ attempts' = attempts /\ Rows' = Rows
  BY AskNextType, AskNextFacts DEF AskNext, Unread, Rows
<1>2. \A k : Blocked(k)' <=> Blocked(k)
  BY <1>1 DEF Blocked, Blocks
<1>3. RuledOut(m)'
  <2>1. Blocked(m)'
    BY <1>2
  <2>2. (TypeInv /\ Learned /\ ~Unread => \A k \in Models : Blocked(k) => RuledOut(k))'
    BY BlockedIsRuledOut, PTL
  <2> QED BY <1>1, <2>1, <2>2
<1>4. \A k \in pool \ consideredIds : RuledOut(k)'
  BY <1>3, OfferSound
<1>5. (TypeInv /\ Backed =>
         \A k \in Models : RuledOut(k) => Blocked(k) \/ TooSmall(k, required))'
  BY RuledOutIsBlocked, PTL
<1>6. consideredIds \subseteq consideredIds' /\ pool \subseteq Models
  BY DEF AskNext, TypeInv, TypeOK
<1>7. \A k : TooSmall(k, required)' <=> TooSmall(k, required')
  BY DEF TooSmall
<1> QED BY <1>1, <1>2, <1>4, <1>5, <1>6, <1>7

\* A candidate the request's own failures speak against is asked only when the
\* pool has no other left, for every pool, window and sequence of failures.
THEOREM BlockedAreAskedLast == Spec => BlockedIsLastResort
<1>1. TypeInv /\ LoopInv /\ [Next]_vars =>
        [(pc = "choose" /\ pc' = "asking" /\ ~again /\ ~passStarted) =>
           (Blocked(model') =>
              \A m \in pool \ consideredIds' : Blocked(m) \/ TooSmall(m, required'))]_vars
  <2> SUFFICES ASSUME TypeInv, LoopInv, Next, pc = "choose", pc' = "asking", ~again,
                      ~passStarted, Blocked(model')
               PROVE  \A m \in pool \ consideredIds' : Blocked(m) \/ TooSmall(m, required')
    OBVIOUS
  <2>1. PICK size \in SizeFact, m \in Models, known \in SUBSET Knobs :
          AskNext(size, m, known)
    BY DEF Next, Choose, Answer, AskAgain, StopShort, CapacityRetryPass, PassWaitEnds,
           WindowSpent, PauseEnds, GiveUp, AdmissionRefused, InvocationFails, JsonAnswer,
           NoAnswer, StreamCommits, StreamEnds, HttpFailure, KnobsRejected,
           ClientLeaves, Sigterm, Kill, Tick, Done, vars
  <2>2. model' = m
    BY <2>1 DEF AskNext
  <2> QED BY <2>1, <2>2, AskNextLastResort
<1>2. Spec => [](TypeInv /\ LoopInv)
  BY InitTypeInv, InitLoop, StepTypeInv, StepModes, StepLoop, PTL DEF Spec
<1> QED BY <1>1, <1>2, PTL DEF Spec, BlockedIsLastResort
-----------------------------------------------------------------------------
(***************************************************************************)
(* The work of a request is bounded.                                       *)
(*                                                                         *)
(* A window position pays for one call and for one more per knob; an       *)
(* inline retry pays for one more, and there is at most one of those       *)
(* before the capacity pass and one in it, because it waits until nothing  *)
(* else is pending.  Positions are bounded because a re-plan fills what is *)
(* left of the plan and no more.                                           *)
(***************************************************************************)

\* A call is promised from the choice of its candidate until its row is recorded.
Promised == again \/ pc \in {"asking", "streaming"}

Positions == Planned + IF passStarted THEN PassModels ELSE 0
Cost(positions) == positions * (1 + Cardinality(Knobs))

\* What is used up of the window and what is left of it fit the plan and the pass.
WindowFits == considered + Cardinality(pending) <= Positions

\* One inline retry before the pass and one in it.
InlineOnce ==
  /\ capRetried \subseteq consideredIds
  /\ virtual =>
       \/ Cardinality(capRetried) <= IF passStarted THEN 1 ELSE 0
       \/ /\ Cardinality(capRetried) <= IF passStarted THEN 2 ELSE 1
          /\ pending = {} /\ model \in capRetried

\* The calls so far are paid for, the promised one with the knobs that are dropped.
Paid ==
  IF Promised
  THEN Len(attempts) + 1 + Cardinality(Knobs)
         <= Cost(considered) + Cardinality(dropped) + Cardinality(capRetried)
  ELSE Len(attempts) <= Cost(considered) + Cardinality(capRetried)

RowsOf(m) == {i \in Rows : attempts[i].model = m /\ ~attempts[i].knob}
Calls(m) == Cardinality(RowsOf(m)) + IF Promised /\ model = m THEN 1 ELSE 0
Share(m) == (IF passStarted /\ m \notin pending THEN 2 ELSE 1) + IF m \in capRetried THEN 1 ELSE 0

\* Each candidate's calls: one in the window, one in the pass, one inline retry.
CallsInShare ==
  /\ \A m \in pool : Calls(m) <= Share(m)
  /\ passStarted => pending \cap capRetried = {}

WorkInv == WindowFits /\ InlineOnce /\ Paid /\ CallsInShare

\* A window of n candidates holds at most n.
LEMMA DiverseSize ==
  ASSUME NEW S \in SUBSET Models, NEW n \in Int
  PROVE  Diverse(S, n) = {} \/ Cardinality(Diverse(S, n)) <= n
<1> DEFINE D == Diverse(S, n)
           f == [m \in D |-> Place(m, S, n)]
<1> SUFFICES ASSUME D # {} PROVE Cardinality(D) <= n
  OBVIOUS
<1>1. \A m \in D : m \in S /\ Place(m, S, n) \in Nat /\ Place(m, S, n) < n
  BY PlaceType DEF Diverse
<1>2. n > 0
  BY <1>1
<1>3. \A m \in D : f[m] \in 0..(n - 1)
  BY <1>1
<1>4. \A m, k \in D : f[m] = f[k] => m = k
  BY <1>1, PlaceInjective
<1>5. f \in Injection(D, 0..(n - 1))
  <2>1. f \in [D -> 0..(n - 1)] /\ DOMAIN f = D
    BY <1>3
  <2> HIDE DEF f, D
  <2> QED BY <1>4, <2>1 DEF Injection, IsInjective
<1>6. IsFiniteSet(0..(n - 1)) /\ Cardinality(0..(n - 1)) = n
  BY <1>2, FS_Interval
<1> HIDE DEF f, D
<1>7. Cardinality(D) <= Cardinality(0..(n - 1))
  BY <1>5, <1>6, FS_Injection
<1> QED BY <1>6, <1>7

\* The pass asks at most PassModels candidates.
LEMMA RetriedSize ==
  ASSUME TypeInv
  PROVE  Cardinality(Retried) <= PassModels
<1> DEFINE of(m) == {i \in Rows : attempts[i].model = m}
           before(m) == {k \in Askable : FirstRow(k) < FirstRow(m)}
           f == [m \in Retried |-> PassPlace(m)]
<1>1. Rows = 1..Len(attempts) /\ Len(attempts) \in Nat /\ IsFiniteSet(Rows)
  BY FS_Interval DEF Rows, TypeInv, TypeOK
<1>2. ASSUME NEW m \in Askable PROVE FirstRow(m) \in Nat /\ attempts[FirstRow(m)].model = m
  <2>1. of(m) \subseteq Int /\ IsFiniteSet(of(m)) /\ of(m) # {}
    <3>1. of(m) \in SUBSET Rows
      OBVIOUS
    <3>2. IsFiniteSet(of(m))
      BY <1>1, <3>1, FS_Subset
    <3>3. of(m) # {}
      BY DEF Askable
    <3> QED BY <1>1, <3>2, <3>3
  <2>2. Min(of(m)) \in of(m)
    <3> HIDE DEF of
    <3> QED BY <2>1, LeastElement
  <2>3. FirstRow(m) = Min(of(m))
    BY DEF FirstRow
  <2> QED BY <1>1, <2>2, <2>3
<1>3. Askable \in SUBSET Models /\ Retried \subseteq Askable
  BY PassType DEF Askable, Retried, TypeInv, TypeOK, Asked
<1>4. ASSUME NEW m \in Askable, NEW k \in Askable, FirstRow(m) < FirstRow(k)
      PROVE  PassPlace(m) < PassPlace(k)
  <2>1. before(m) \in SUBSET before(k) /\ m \in before(k) /\ m \notin before(m)
    <3>1. ASSUME NEW j \in Askable, FirstRow(j) < FirstRow(m) PROVE FirstRow(j) < FirstRow(k)
      <4>1. FirstRow(j) \in Nat /\ FirstRow(m) \in Nat /\ FirstRow(k) \in Nat
        BY <1>2
      <4> QED BY <1>4, <3>1, <4>1
    <3>2. ~(FirstRow(m) < FirstRow(m))
      <4>1. FirstRow(m) \in Nat
        BY <1>2
      <4> QED BY <4>1
    <3> QED BY <1>4, <3>1, <3>2
  <2>2. IsFiniteSet(before(k))
    <3>1. before(k) \in SUBSET Models
      BY <1>3
    <3> QED BY <3>1, SubsetsFinite
  <2>3. Cardinality(before(m)) < Cardinality(before(k))
    <3> HIDE DEF before
    <3> QED BY <2>1, <2>2, SmallerPart
  <2> QED BY <2>3 DEF PassPlace
<1>5. ASSUME NEW m \in Retried, NEW k \in Retried, f[m] = f[k] PROVE m = k
  <2>1. m \in Askable /\ k \in Askable /\ PassPlace(m) = PassPlace(k)
    BY <1>3, <1>5
  <2>2. PassPlace(m) \in Nat /\ PassPlace(k) \in Nat
    BY PassType
  <2>3. FirstRow(m) = FirstRow(k)
    <3>1. ~(FirstRow(m) < FirstRow(k)) /\ ~(FirstRow(k) < FirstRow(m))
      BY <1>4, <2>1, <2>2
    <3>2. FirstRow(m) \in Nat /\ FirstRow(k) \in Nat
      BY <1>2, <2>1
    <3> QED BY <3>1, <3>2
  <2> QED BY <1>2, <2>1, <2>3
<1>6. \A m \in Retried : f[m] \in 0..(PassModels - 1)
  <2> SUFFICES ASSUME NEW m \in Retried PROVE PassPlace(m) \in 0..(PassModels - 1)
    OBVIOUS
  <2>1. PassPlace(m) \in Nat /\ PassPlace(m) < PassModels
    BY PassType DEF Retried
  <2> QED BY <2>1, ConfigAssumption
<1>7. f \in Injection(Retried, 0..(PassModels - 1))
  <2>1. f \in [Retried -> 0..(PassModels - 1)] /\ DOMAIN f = Retried
    BY <1>6
  <2> HIDE DEF f
  <2> QED BY <1>5, <2>1 DEF Injection, IsInjective
<1>8. IsFiniteSet(0..(PassModels - 1)) /\ Cardinality(0..(PassModels - 1)) = PassModels
  BY FS_Interval, ConfigAssumption
<1> HIDE DEF f
<1>9. Cardinality(Retried) <= Cardinality(0..(PassModels - 1))
  BY <1>7, <1>8, FS_Injection
<1> QED BY <1>8, <1>9

\* The sizes the bound is made of.
LEMMA WorkSizes ==
  ASSUME TypeInv
  PROVE  /\ Len(attempts) \in Nat /\ Planned \in Nat /\ Positions \in Nat
         /\ IsFiniteSet(pending) /\ Cardinality(pending) \in Nat
         /\ IsFiniteSet(capRetried) /\ Cardinality(capRetried) \in Nat
         /\ IsFiniteSet(Knobs) /\ Cardinality(Knobs) \in Nat
         /\ IsFiniteSet(dropped) /\ Cardinality(dropped) \in 0..Cardinality(Knobs)
         /\ \A m : IsFiniteSet(RowsOf(m)) /\ Cardinality(RowsOf(m)) \in Nat
<1>1. pending \in SUBSET Models /\ capRetried \in SUBSET Models /\ pool \in SUBSET Models
      /\ dropped \in SUBSET Knobs /\ attempts \in Seq(Row)
  BY DEF TypeInv, TypeOK
<1>2. Len(attempts) \in Nat /\ Rows = 1..Len(attempts) /\ IsFiniteSet(Rows)
  BY <1>1, FS_Interval DEF Rows
<1>3. Planned \in Nat /\ Positions \in Nat
  BY <1>1, PlannedType, ConfigAssumption DEF Positions
<1>4. IsFiniteSet(Knobs) /\ Cardinality(Knobs) \in Nat
  BY RequestAssumption, FS_CardinalityType
<1>5. IsFiniteSet(dropped) /\ Cardinality(dropped) \in Nat /\ Cardinality(dropped) <= Cardinality(Knobs)
  BY <1>1, <1>4, FS_Subset, FS_CardinalityType
<1>6. ASSUME NEW m PROVE IsFiniteSet(RowsOf(m)) /\ Cardinality(RowsOf(m)) \in Nat
  <2>1. RowsOf(m) \in SUBSET Rows
    BY DEF RowsOf
  <2> QED BY <1>2, <2>1, FS_Subset, FS_CardinalityType
<1> QED BY <1>1, <1>2, <1>3, <1>4, <1>5, <1>6, SubsetsFinite

\* One more position pays for one more call and for every knob.
LEMMA CostStep ==
  ASSUME NEW c \in Nat
  PROVE  /\ Cost(c) \in Nat /\ Cost(c + 1) = Cost(c) + 1 + Cardinality(Knobs)
         /\ \A d \in Nat : c <= d => Cost(c) <= Cost(d)
<1>1. Cardinality(Knobs) \in Nat
  BY RequestAssumption, FS_CardinalityType
<1> DEFINE k == 1 + Cardinality(Knobs)
<1>2. k \in Nat
  BY <1>1
<1>3. \A d \in Nat : Cost(d) = d * k
  BY DEF Cost
<1> HIDE DEF k
<1>4. c * k \in Nat /\ (c + 1) * k = c * k + k
  BY <1>2
<1>5. ASSUME NEW d \in Nat, c <= d PROVE c * k <= d * k
  <2>1. d - c \in Nat /\ (d - c) * k \in Nat
    BY <1>2, <1>5
  <2>2. d * k = c * k + (d - c) * k
    BY <1>2, <2>1
  <2> QED BY <1>2, <1>4, <2>1, <2>2
<1> QED BY <1>1, <1>3, <1>4, <1>5 DEF k


\* A step that records nothing and promises nothing.
LEMMA QuietWork ==
  ASSUME TypeInv, WorkInv, Promised' => Promised,
         UNCHANGED <<virtual, pool, considered, consideredIds, pending, model, attempts,
                     dropped, capRetried, passStarted>>
  PROVE  WorkInv'
<1>1. WindowFits' /\ InlineOnce'
  BY DEF WorkInv, WindowFits, InlineOnce, Positions, Planned
<1>2. Paid'
  <2>1. Cost(considered) \in Nat /\ Cost(considered)' = Cost(considered)
    BY CostStep DEF Cost, TypeInv, TypeOK
  <2>2. CASE Promised = Promised'
    BY <2>1, <2>2 DEF WorkInv, Paid
  <2>3. CASE Promised /\ ~Promised'
    <3>1. Len(attempts) <= Cost(considered) + Cardinality(capRetried)
      BY <2>1, <2>3, WorkSizes DEF WorkInv, Paid
    <3> QED BY <2>1, <2>3, <3>1 DEF Paid
  <2>4. Promised \in BOOLEAN /\ Promised' \in BOOLEAN
    BY DEF Promised, TypeInv, TypeOK
  <2> QED BY <2>2, <2>3, <2>4
<1>3. ASSUME NEW m \in pool PROVE Calls(m)' <= Share(m)'
  <2>1. RowsOf(m)' = RowsOf(m) /\ Share(m)' = Share(m) /\ Share(m) \in Nat
    BY DEF RowsOf, Rows, Share
  <2>2. Calls(m)' <= Calls(m) /\ Calls(m) \in Nat /\ Calls(m)' \in Nat
    BY <2>1, WorkSizes DEF Calls
  <2>3. Calls(m) <= Share(m)
    BY DEF WorkInv, CallsInShare
  <2> QED BY <2>1, <2>2, <2>3
<1>4. CallsInShare'
  BY <1>3 DEF WorkInv, CallsInShare
<1> QED BY <1>1, <1>2, <1>4 DEF WorkInv

\* A call that is answered: its row takes the place of the promise, unless the same candidate is
\* asked again, inline or without a knob.
LEMMA AnsweredWork ==
  ASSUME TypeInv, NotAgain, WorkInv, considered > 0, pc \in {"asking", "streaming"},
         NEW reason \in AllReasons \cup {"ok", "mid_stream"}, NEW hint \in Hints,
         NEW scoped \in BOOLEAN, NEW knob \in BOOLEAN,
         Record(reason, hint, scoped, knob),
         UNCHANGED <<virtual, pool, considered, consideredIds, pending, model, passStarted>>,
         pc' \notin {"asking", "streaming"}, again' \in BOOLEAN,
         \/ ~knob /\ ~again' /\ UNCHANGED <<capRetried, dropped>>
         \/ /\ ~knob /\ again' /\ UNCHANGED dropped
            /\ model \notin capRetried /\ (virtual => pending = {})
            /\ capRetried' = capRetried \cup {model}
         \/ /\ knob /\ again' /\ UNCHANGED capRetried
            /\ \E named \in SUBSET Knobs : named \ dropped # {} /\ dropped' = dropped \cup named
  PROVE  WorkInv'
<1>1. /\ attempts' \in Seq(Row) /\ Len(attempts') = Len(attempts) + 1
      /\ Rows' = 1..(Len(attempts) + 1) /\ Rows = 1..Len(attempts)
      /\ \A i \in Rows : attempts'[i] = attempts[i]
      /\ attempts'[Len(attempts) + 1] =
           [model |-> model, reason |-> reason, hint |-> hint, scoped |-> scoped, knob |-> knob]
  BY RecordedRow
<1>2. Promised /\ (Promised' <=> again') /\ Len(attempts) \in Nat /\ considered \in Nat
      /\ model \in consideredIds /\ model \in pool /\ model \notin pending
  BY WorkSizes DEF Promised, TypeInv, TypeOK, Asked, NotAgain
<1>3. WindowFits'
  BY DEF WorkInv, WindowFits, Positions, Planned
<1>4. Cardinality(capRetried \cup {model}) = Cardinality(capRetried) + IF model \in capRetried THEN 0 ELSE 1
  <2>1. /\ Cardinality(capRetried \cup {model})
             = IF model \in capRetried THEN Cardinality(capRetried) ELSE Cardinality(capRetried) + 1
        /\ Cardinality(capRetried) \in Nat
    BY WorkSizes, FS_AddElement
  <2> QED BY <2>1
<1>5. InlineOnce'
  <2>1. capRetried \subseteq consideredIds /\ capRetried' \subseteq consideredIds'
    BY <1>2 DEF WorkInv, InlineOnce
  <2>2. CASE UNCHANGED capRetried
    BY <2>1, <2>2 DEF WorkInv, InlineOnce
  <2>3. CASE model \notin capRetried /\ (virtual => pending = {}) /\ capRetried' = capRetried \cup {model}
    <3>1. Cardinality(capRetried') = Cardinality(capRetried) + 1 /\ Cardinality(capRetried) \in Nat
      BY <1>4, <2>3, WorkSizes
    <3>2. virtual => Cardinality(capRetried) <= IF passStarted THEN 1 ELSE 0
      BY <2>3 DEF WorkInv, InlineOnce
    <3> QED BY <2>1, <2>3, <3>1, <3>2 DEF InlineOnce
  <2> QED BY <2>2, <2>3
<1>6. Paid'
  <2>1. /\ Len(attempts) + 1 + Cardinality(Knobs)
             <= Cost(considered) + Cardinality(dropped) + Cardinality(capRetried)
        /\ Cost(considered) \in Nat /\ Cost(considered)' = Cost(considered)
    BY <1>2, CostStep DEF WorkInv, Paid, Cost
  <2>2. CASE ~knob /\ ~again' /\ UNCHANGED <<capRetried, dropped>>
    BY <1>1, <1>2, <2>1, <2>2, WorkSizes DEF Paid
  <2>3. CASE ~knob /\ again' /\ UNCHANGED dropped /\ model \notin capRetried
             /\ capRetried' = capRetried \cup {model}
    <3>1. Cardinality(capRetried') = Cardinality(capRetried) + 1
      BY <1>4, <2>3
    <3> QED BY <1>1, <1>2, <2>1, <2>3, <3>1, WorkSizes DEF Paid
  <2>4. ASSUME knob, again', UNCHANGED capRetried, NEW named \in SUBSET Knobs,
               named \ dropped # {}, dropped' = dropped \cup named
        PROVE  Paid'
    <3>1. dropped \in SUBSET dropped' /\ dropped' \in SUBSET Knobs /\ \E x \in dropped' : x \notin dropped
      BY <2>4 DEF TypeInv, TypeOK
    <3>2. IsFiniteSet(dropped')
      BY <3>1, WorkSizes, FS_Subset
    <3>3. Cardinality(dropped) < Cardinality(dropped') /\ Cardinality(dropped') \in Nat
      BY <3>1, <3>2, SmallerPart
    <3>4. /\ Cardinality(Knobs) \in Nat /\ Cardinality(capRetried) \in Nat
          /\ Cardinality(dropped) \in Nat
      BY WorkSizes
    <3>5. Len(attempts') + 1 + Cardinality(Knobs)
             <= Cost(considered)' + Cardinality(dropped') + Cardinality(capRetried)
      BY <1>1, <1>2, <2>1, <3>3, <3>4
    <3> QED BY <1>2, <2>4, <3>5 DEF Paid
  <2> QED BY <2>2, <2>3, <2>4
<1>7. ASSUME NEW m \in pool PROVE Calls(m)' <= Share(m)'
  <2> DEFINE new == Len(attempts) + 1
  <2>1. Calls(m) <= Share(m) /\ Share(m) \in Nat /\ Cardinality(RowsOf(m)) \in Nat
    BY WorkSizes DEF WorkInv, CallsInShare, Share
  <2>2. RowsOf(m)' = RowsOf(m) \cup (IF model = m /\ ~knob THEN {new} ELSE {})
    <3>1. ASSUME NEW i \in Rows PROVE i \in RowsOf(m)' <=> i \in RowsOf(m)
      <4>1. i \in Rows' /\ attempts'[i] = attempts[i]
        BY <1>1, <1>2
      <4> QED BY <4>1 DEF RowsOf
    <3>2. new \in RowsOf(m)' <=> (model = m /\ ~knob)
      <4>1. new \in Rows' /\ attempts'[new].model = model /\ attempts'[new].knob = knob
        BY <1>1, <1>2
      <4> QED BY <4>1 DEF RowsOf
    <3>3. Rows' = Rows \cup {new} /\ RowsOf(m) \subseteq Rows /\ RowsOf(m)' \subseteq Rows'
      BY <1>1, <1>2 DEF RowsOf
    <3> QED BY <3>1, <3>2, <3>3
  <2>3. Cardinality(RowsOf(m)') = Cardinality(RowsOf(m)) + IF model = m /\ ~knob THEN 1 ELSE 0
    <3>1. new \notin RowsOf(m)
      BY <1>1, <1>2 DEF RowsOf
    <3>2. CASE model = m /\ ~knob
      <4>1. RowsOf(m)' = RowsOf(m) \cup {new}
        BY <2>2, <3>2
      <4>2. Cardinality(RowsOf(m) \cup {new}) = Cardinality(RowsOf(m)) + 1
        BY <3>1, WorkSizes, FS_AddElement
      <4> QED BY <3>2, <4>1, <4>2
    <3>3. CASE ~(model = m /\ ~knob)
      <4>1. RowsOf(m)' = RowsOf(m)
        BY <2>2, <3>3
      <4> QED BY <2>1, <3>3, <4>1
    <3> QED BY <3>2, <3>3
  <2>4. Calls(m) = Cardinality(RowsOf(m)) + IF model = m THEN 1 ELSE 0
    BY <1>2 DEF Calls
  <2>5. Calls(m)' = Cardinality(RowsOf(m)') + IF again' /\ model = m THEN 1 ELSE 0
    BY <1>2 DEF Calls
  <2>6. CASE ~knob /\ ~again' /\ UNCHANGED <<capRetried, dropped>>
    <3>1. Share(m)' = Share(m)
      BY <2>6 DEF Share
    <3>2. Calls(m)' = Calls(m)
      BY <2>1, <2>3, <2>4, <2>5, <2>6
    <3> QED BY <2>1, <3>1, <3>2
  <2>7. CASE ~knob /\ again' /\ model \notin capRetried /\ capRetried' = capRetried \cup {model}
    <3>1. Share(m)' = Share(m) + IF m = model THEN 1 ELSE 0
      BY <2>7 DEF Share
    <3>2. Calls(m)' = Calls(m) + IF m = model THEN 1 ELSE 0
      BY <2>1, <2>3, <2>4, <2>5, <2>7
    <3>3. Calls(m) \in Nat
      BY <2>1, <2>4
    <3> QED BY <2>1, <3>1, <3>2, <3>3
  <2>8. CASE knob /\ again' /\ UNCHANGED capRetried
    <3>1. Share(m)' = Share(m)
      BY <2>8 DEF Share
    <3>2. Calls(m)' = Calls(m)
      BY <2>1, <2>3, <2>4, <2>5, <2>8
    <3> QED BY <2>1, <3>1, <3>2
  <2> QED BY <2>6, <2>7, <2>8
<1>8. CallsInShare'
  BY <1>2, <1>7 DEF WorkInv, CallsInShare
<1> QED BY <1>3, <1>5, <1>6, <1>8 DEF WorkInv

\* The choice of the next candidate.
LEMMA AskNextWork ==
  ASSUME TypeInv, WorkInv, LoopInv, NEW size \in SizeFact, NEW m \in Models,
         NEW known \in SUBSET Knobs, AskNext(size, m, known)
  PROVE  WorkInv'
<1> DEFINE left == Planned - considered
           replanned == Replanned(size)
           offered == IF replanned # {} THEN replanned ELSE pending
<1>1. /\ pc = "choose" /\ ~again /\ pending # {} /\ m \in offered
      /\ pc' = "asking" /\ model' = m /\ pending' = offered \ {m}
      /\ considered' = considered + 1 /\ consideredIds' = consideredIds \cup {m}
      /\ dropped' = known
      /\ UNCHANGED <<again, virtual, pool, capRetried, passStarted, attempts>>
  BY DEF AskNext, request, capacity
<1>2. considered \in Nat /\ Planned \in Nat /\ Positions \in Nat /\ left \in Int
      /\ Positions >= Planned
  BY WorkSizes, ConfigAssumption DEF TypeInv, TypeOK, Positions
<1>3. Survivors(size) \in SUBSET (pool \ consideredIds) /\ Survivors(size) \in SUBSET Models
  BY DEF Survivors, TypeInv, TypeOK
<1>4. /\ replanned = {} \/ replanned = Diverse(Survivors(size), left)
      /\ replanned \subseteq pool \ consideredIds
  BY <1>3 DEF Replanned, Diverse
<1>5. replanned # {} => Cardinality(replanned) <= left
  BY <1>2, <1>3, <1>4, DiverseSize
<1>6. IsFiniteSet(offered) /\ Cardinality(offered) \in Nat /\ offered \subseteq pool
      /\ considered + Cardinality(offered) <= Positions
  <2>1. CASE replanned # {}
    <3>1. replanned \in SUBSET Models
      BY <1>4 DEF TypeInv, TypeOK
    <3>2. IsFiniteSet(replanned) /\ Cardinality(replanned) \in Nat
      BY <3>1, SubsetsFinite
    <3> QED BY <1>2, <1>4, <1>5, <2>1, <3>2
  <2>2. CASE replanned = {}
    BY <2>2, WorkSizes DEF WorkInv, WindowFits, TypeInv, TypeOK
  <2> QED BY <2>1, <2>2
<1> HIDE DEF offered, replanned
<1>7. Cardinality(offered \ {m}) = Cardinality(offered) - 1
  BY <1>1, <1>6, FS_RemoveElement
<1>8. WindowFits'
  <2>1. Positions' = Positions
    BY <1>1 DEF Positions, Planned
  <2> QED BY <1>1, <1>2, <1>6, <1>7, <2>1 DEF WindowFits
<1>9. InlineOnce'
  <2>1. capRetried' \subseteq consideredIds'
    BY <1>1 DEF WorkInv, InlineOnce
  <2>2. virtual => Cardinality(capRetried) <= IF passStarted THEN 1 ELSE 0
    BY <1>1 DEF WorkInv, InlineOnce
  <2> QED BY <1>1, <2>1, <2>2 DEF InlineOnce
<1>10. ~Promised /\ Promised'
  BY <1>1 DEF Promised
<1>11. Paid'
  <2>1. Len(attempts) <= Cost(considered) + Cardinality(capRetried) /\ Cost(considered) \in Nat
        /\ Cost(considered + 1) = Cost(considered) + 1 + Cardinality(Knobs)
    BY <1>2, <1>10, CostStep DEF WorkInv, Paid
  <2>2. Cardinality(dropped') \in Nat
    <3>1. IsFiniteSet(known)
      BY WorkSizes, FS_Subset
    <3> QED BY <1>1, <3>1, FS_CardinalityType
  <2>3. Cost(considered)' = Cost(considered + 1)
    BY <1>1 DEF Cost
  <2> QED BY <1>1, <1>10, <2>1, <2>2, <2>3, WorkSizes DEF Paid
<1>12. ASSUME NEW k \in pool PROVE Calls(k)' <= Share(k)'
  <2>1. Calls(k) <= Share(k) /\ Calls(k) = Cardinality(RowsOf(k)) /\ Calls(k) \in Nat
    BY <1>10, WorkSizes DEF WorkInv, CallsInShare, Calls
  <2>2. Calls(k)' = Calls(k) + IF k = m THEN 1 ELSE 0
    BY <1>1, <1>10, <2>1 DEF Calls, RowsOf, Rows
  <2>3. k \notin consideredIds => Calls(k) = 0 /\ k \notin capRetried
    <3>1. k \notin consideredIds => RowsOf(k) = {}
      BY DEF RowsOf, TypeInv, Asked
    <3> QED BY <2>1, <3>1, FS_EmptySet DEF WorkInv, InlineOnce
  <2>4. Share(k)' \in Nat /\ Share(k)' >= 1
    BY DEF Share
  <2>5. CASE k = m
    <3>1. CASE ~passStarted
      <4>1. pending \cap consideredIds = {}
        BY <1>1, <3>1 DEF LoopInv, Slots, Running
      <4>2. m \notin consideredIds
        BY <1>1, <1>4, <4>1 DEF offered
      <4> QED BY <2>2, <2>3, <2>4, <2>5, <4>2
    <3>2. CASE passStarted
      <4>1. Calls(m) <= 1
        <5>1. CASE m \in pending
          BY <2>1, <2>5, <3>2, <5>1 DEF WorkInv, CallsInShare, Share
        <5>2. CASE m \notin pending
          BY <1>1, <1>4, <2>3, <2>5, <5>2 DEF offered
        <5> QED BY <5>1, <5>2
      <4>2. Share(m)' >= 2
        BY <1>1, <3>2 DEF Share
      <4> QED BY <2>1, <2>2, <2>4, <2>5, <4>1, <4>2
    <3> QED BY <3>1, <3>2
  <2>6. CASE k # m
    <3>1. CASE k \in consideredIds
      <4>1. k \in pending' => k \in pending
        BY <1>1, <1>4, <3>1 DEF offered
      <4>2. Share(k) <= Share(k)' /\ Share(k) \in Nat
        BY <1>1, <4>1 DEF Share
      <4> QED BY <2>1, <2>2, <2>4, <2>6, <4>2
    <3>2. CASE k \notin consideredIds
      BY <2>2, <2>3, <2>4, <2>6, <3>2
    <3> QED BY <3>1, <3>2
  <2> QED BY <2>5, <2>6
<1>13. passStarted => pending' \cap capRetried = {}
  BY <1>1, <1>4 DEF offered, WorkInv, CallsInShare, InlineOnce
<1>14. CallsInShare'
  BY <1>1, <1>12, <1>13 DEF CallsInShare
<1> QED BY <1>8, <1>9, <1>11, <1>14 DEF WorkInv

LEMMA CapacityRetryPassWork ==
  ASSUME TypeInv, WorkInv, CapacityRetryPass
  PROVE  WorkInv'
<1>1. /\ ~again /\ pending = {} /\ ~passStarted /\ passStarted' /\ pending' = Retried
      /\ pc = "choose" /\ pc' = "waiting"
      /\ UNCHANGED <<virtual, pool, considered, consideredIds, model, attempts, again, dropped, capRetried>>
  BY DEF CapacityRetryPass, PassOpens, request, turn
<1>2. ~Promised /\ ~Promised'
  BY <1>1 DEF Promised
<1>3. Cardinality({}) = 0 /\ Planned \in Nat /\ considered \in Nat /\ PassModels \in Nat
  BY FS_EmptySet, WorkSizes, ConfigAssumption DEF TypeInv, TypeOK
<1>4. IsFiniteSet(Retried) /\ Cardinality(Retried) \in Nat
  <2>1. Retried \in SUBSET Models
    BY PassType DEF TypeInv, TypeOK
  <2> QED BY <2>1, SubsetsFinite
<1>5. WindowFits'
  <2>1. considered <= Planned
    BY <1>1, <1>3 DEF WorkInv, WindowFits, Positions
  <2>2. Positions' = Planned + PassModels
    BY <1>1 DEF Positions, Planned
  <2> QED BY <1>1, <1>3, <1>4, <2>1, <2>2, RetriedSize DEF WindowFits
<1>6. InlineOnce'
  BY <1>1, WorkSizes DEF WorkInv, InlineOnce
<1>7. Paid'
  BY <1>1, <1>2 DEF WorkInv, Paid, Cost
<1>8. ASSUME NEW m \in pool PROVE Calls(m)' <= Share(m)'
  <2>1. Calls(m)' = Calls(m) /\ Calls(m) <= Share(m) /\ Calls(m) \in Nat
    <3>1. Calls(m)' = Calls(m)
      <4>1. RowsOf(m)' = RowsOf(m)
        BY <1>1 DEF RowsOf, Rows
      <4> QED BY <1>1, <1>2, <4>1 DEF Calls
    <3>2. Calls(m) \in Nat
      BY WorkSizes DEF Calls
    <3> QED BY <3>1, <3>2 DEF WorkInv, CallsInShare
  <2>2. Share(m) <= Share(m)' /\ Share(m) \in Nat /\ Share(m)' \in Nat
    BY <1>1 DEF Share
  <2> QED BY <2>1, <2>2
<1>9. Retried \cap capRetried = {}
  BY DEF Retried, Askable
<1>10. CallsInShare'
  BY <1>1, <1>8, <1>9 DEF CallsInShare
<1> QED BY <1>5, <1>6, <1>7, <1>10 DEF WorkInv

LEMMA AnswerWork ==
  ASSUME TypeInv, RepeatInv, WorkInv, Answer
  PROVE  WorkInv'
<1>1. /\ considered > 0 /\ 0 \in Hints /\ Hints \subseteq Nat
      /\ Reasons \subseteq AllReasons /\ Classified \subseteq AllReasons
      /\ pc \in {"asking", "streaming"} /\ again = FALSE /\ NotAgain
  BY RequestAssumption
  DEF Answer, TypeInv, TypeOK, Asked, AdmissionRefused, InvocationFails, JsonAnswer,
      NoAnswer, StreamCommits, StreamEnds, HttpFailure, KnobsRejected, AllReasons,
      RepeatInv, NotAgain
<1>2. ASSUME NEW reason \in AllReasons \cup {"ok", "mid_stream"}, NEW hint \in Hints,
             NEW scoped \in BOOLEAN, Record(reason, hint, scoped, FALSE),
             UNCHANGED <<request, window, turn, capacity>>, pc' \notin {"asking", "streaming"}
      PROVE  WorkInv'
  BY <1>1, <1>2, AnsweredWork DEF request, window, turn, capacity
<1>3. ASSUME NEW reason \in AllReasons, NEW seconds \in Hints, NEW scoped \in BOOLEAN,
             Record(reason, seconds, scoped, FALSE), CanRetryInline(seconds),
             PauseThenRetry(seconds), UNCHANGED <<request, window>>
      PROVE  WorkInv'
  BY <1>1, <1>3, AnsweredWork DEF CanRetryInline, PauseThenRetry, request, window
<1>4. ASSUME NEW seconds \in Hints \ {0}, AdmissionRefused(seconds) PROVE WorkInv'
  <2>1. Record("rate_limited", seconds, FALSE, FALSE) /\ "rate_limited" \in AllReasons
        /\ UNCHANGED <<request, window>>
    BY <1>1, <1>4 DEF AdmissionRefused
  <2>2. CASE CanRetryInline(seconds) /\ PauseThenRetry(seconds)
    BY <1>3, <2>1, <2>2
  <2>3. CASE pc' = "choose" /\ UNCHANGED <<turn, capacity>>
    BY <1>2, <2>1, <2>3
  <2> QED BY <1>4, <2>2, <2>3 DEF AdmissionRefused
<1>5. ASSUME NEW reason \in Reasons \cap Raised, InvocationFails(reason) PROVE WorkInv'
  BY <1>1, <1>2, <1>5 DEF InvocationFails
<1>6. CASE JsonAnswer
  BY <1>1, <1>2, <1>6 DEF JsonAnswer
<1>7. ASSUME NEW reason \in Reasons, NoAnswer(reason) PROVE WorkInv'
  BY <1>1, <1>2, <1>7 DEF NoAnswer, MoveOn, GiveUp
<1>8. CASE StreamCommits
  BY <1>1, <1>8, QuietWork DEF StreamCommits, Promised, request, window, turn, capacity
<1>9. ASSUME NEW how \in {"streamed", "broken"}, StreamEnds(how) PROVE WorkInv'
  BY <1>1, <1>2, <1>9 DEF StreamEnds
<1>10. ASSUME NEW reason \in Reasons \cap Classified, NEW seconds \in Hints,
              NEW scoped \in BOOLEAN, HttpFailure(reason, seconds, scoped)
       PROVE  WorkInv'
  <2>1. Record(reason, seconds, scoped, FALSE) /\ UNCHANGED <<request, window>>
    BY <1>10 DEF HttpFailure
  <2>2. CASE CanRetryInline(seconds) /\ PauseThenRetry(seconds)
    BY <1>1, <1>3, <2>1, <2>2
  <2>3. CASE MoveOn(reason) /\ UNCHANGED <<turn, capacity>>
    BY <1>1, <1>2, <2>1, <2>3 DEF MoveOn, GiveUp
  <2> QED BY <1>10, <2>2, <2>3 DEF HttpFailure
<1>11. ASSUME NEW named \in SUBSET Knobs, NEW reason \in NonRetryable \cup SourceDiverting,
              KnobsRejected(named, reason)
       PROVE  WorkInv'
  <2>1. reason \in AllReasons
    BY <1>1 DEF NonRetryable, SourceDiverting, Classified
  <2>2. /\ Record(reason, 0, FALSE, TRUE) /\ again' = TRUE /\ pc' = "choose"
        /\ named \ dropped # {} /\ dropped' = dropped \cup named
        /\ UNCHANGED <<model, request, window, capacity>>
    BY <1>11 DEF KnobsRejected
  <2> QED BY <1>1, <2>1, <2>2, AnsweredWork DEF request, window, capacity
<1> QED BY <1>4, <1>5, <1>6, <1>7, <1>8, <1>9, <1>10, <1>11 DEF Answer

LEMMA StepWork == TypeInv /\ RepeatInv /\ LoopInv /\ WorkInv /\ [Next]_vars => WorkInv'
<1> SUFFICES ASSUME TypeInv, RepeatInv, LoopInv, WorkInv, [Next]_vars PROVE WorkInv'
  OBVIOUS
<1>1. ASSUME NEW size \in SizeFact, NEW m \in Models, NEW known \in SUBSET Knobs,
             AskNext(size, m, known)
      PROVE  WorkInv'
  BY <1>1, AskNextWork
<1>2. CASE CapacityRetryPass
  BY <1>2, CapacityRetryPassWork
<1>3. CASE AskAgain
  BY <1>3, QuietWork DEF AskAgain, Promised, request, window, capacity
<1>4. CASE StopShort \/ PassWaitEnds \/ WindowSpent \/ PauseEnds
  BY <1>4, QuietWork
  DEF StopShort, PassWaitEnds, WindowSpent, PauseEnds, GiveUp, Promised, request, window,
      turn, capacity
<1>5. CASE Answer
  BY <1>5, AnswerWork
<1>6. CASE ClientLeaves \/ Sigterm \/ Kill \/ Tick \/ Done \/ UNCHANGED vars
  BY <1>6, QuietWork
  DEF ClientLeaves, Sigterm, Kill, Tick, Done, vars, Promised, request, window, turn, capacity
<1> QED BY <1>1, <1>2, <1>3, <1>4, <1>5, <1>6 DEF Next, Choose

LEMMA InitWork == Init => WorkInv
<1> SUFFICES ASSUME Init PROVE WorkInv
  OBVIOUS
<1>1. TypeInv
  BY InitTypeInv
<1>2. /\ considered = 0 /\ consideredIds = {} /\ capRetried = {} /\ passStarted = FALSE
      /\ attempts = <<>> /\ Len(attempts) = 0 /\ again = FALSE /\ pc = "choose"
      /\ pending = Diverse(pool, Planned) /\ pool \in SUBSET Models
  BY <1>1 DEF Init, TypeInv, TypeOK
<1>3. ~Promised /\ Cardinality({}) = 0
  BY <1>2, FS_EmptySet DEF Promised
<1>4. WindowFits
  <2>1. Planned \in Nat /\ Positions = Planned
    BY <1>1, <1>2, WorkSizes DEF Positions
  <2>2. Cardinality(pending) <= Planned
    <3>1. Diverse(pool, Planned) = {} \/ Cardinality(Diverse(pool, Planned)) <= Planned
      BY <1>2, <2>1, DiverseSize
    <3>2. CASE Diverse(pool, Planned) = {}
      <4>1. Cardinality(pending) = 0
        BY <1>2, <1>3, <3>2
      <4> QED BY <2>1, <4>1
    <3>3. CASE Cardinality(Diverse(pool, Planned)) <= Planned
      BY <1>2, <3>3
    <3> QED BY <3>1, <3>2, <3>3
  <2>3. Cardinality(pending) \in Nat
    BY <1>1, WorkSizes
  <2> QED BY <1>2, <2>1, <2>2, <2>3 DEF WindowFits
<1>5. InlineOnce
  BY <1>2, <1>3 DEF InlineOnce
<1>6. Paid
  BY <1>2, <1>3, CostStep DEF Paid
<1>7. CallsInShare
  <2>1. ASSUME NEW m \in pool PROVE Calls(m) <= Share(m)
    <3>1. RowsOf(m) = {}
      BY <1>2 DEF RowsOf, Rows
    <3> QED BY <1>3, <3>1 DEF Calls, Share
  <2> QED BY <1>2, <2>1 DEF CallsInShare
<1> QED BY <1>4, <1>5, <1>6, <1>7 DEF WorkInv

LEMMA CallsBounded == TypeInv /\ WorkInv => CallsAreBounded
<1> SUFFICES ASSUME TypeInv, WorkInv PROVE CallsAreBounded
  OBVIOUS
<1>1. considered \in Nat /\ considered <= Positions /\ Positions \in Nat
  BY WorkSizes DEF WorkInv, WindowFits, TypeInv, TypeOK
<1>2. Cost(considered) \in Nat /\ Cost(Positions) \in Nat /\ Cost(considered) <= Cost(Positions)
  BY <1>1, CostStep
<1>3. Cardinality(capRetried) <= IF virtual THEN 2 ELSE 1
  <2>1. CASE virtual
    BY <2>1, WorkSizes DEF WorkInv, InlineOnce
  <2>2. CASE ~virtual
    <3>1. PICK only : pool = {only}
      BY <2>2 DEF TypeInv, Asked
    <3>2. capRetried \in SUBSET {only} /\ IsFiniteSet({only}) /\ Cardinality({only}) = 1
      BY <3>1, FS_Singleton DEF TypeInv, TypeOK
    <3>3. Cardinality(capRetried) <= 1
      BY <3>2, FS_Subset
    <3> QED BY <2>2, <3>3
  <2> QED BY <2>1, <2>2
<1>4. CallsMade <= Cost(considered) + Cardinality(capRetried)
  <2>1. Len(attempts) + (IF Promised THEN 1 ELSE 0) <= Cost(considered) + Cardinality(capRetried)
    BY <1>2, WorkSizes DEF WorkInv, Paid
  <2>2. CallsMade <= Len(attempts) + (IF Promised THEN 1 ELSE 0) /\ CallsMade \in Nat
    BY WorkSizes DEF CallsMade, Promised
  <2> QED BY <1>2, <2>1, <2>2, WorkSizes
<1>5. CallsMade <= Cost(Positions) + IF virtual THEN 2 ELSE 1
  <2>1. CallsMade \in Nat
    BY WorkSizes DEF CallsMade
  <2> QED BY <1>2, <1>3, <1>4, <2>1, WorkSizes
<1>6. ASSUME NEW m \in pool PROVE Cardinality(RowsOf(m)) <= 3
  <2>1. Calls(m) <= Share(m) /\ Share(m) <= 3 /\ Share(m) \in Nat
    BY DEF WorkInv, CallsInShare, Share
  <2>2. Cardinality(RowsOf(m)) <= Calls(m) /\ Cardinality(RowsOf(m)) \in Nat /\ Calls(m) \in Nat
    BY WorkSizes DEF Calls
  <2> QED BY <2>1, <2>2
<1> QED BY <1>5, <1>6 DEF CallsAreBounded, Cost, Positions, RowsOf

LEMMA StepPauses == TypeInv /\ PausesFitTheBudget /\ [Next]_vars => PausesFitTheBudget'
<1> SUFFICES ASSUME TypeInv, PausesFitTheBudget, [Next]_vars PROVE PausesFitTheBudget'
  OBVIOUS
<1> USE DEF PausesFitTheBudget, HasDeadline
<1>1. wait \in Nat /\ budget \in Nat /\ InlineMargin \in Nat /\ PassReserve \in Nat
      /\ Hints \subseteq Nat /\ PassWait \in Nat
  BY ConfigAssumption, RequestAssumption, PassWaitType DEF TypeInv, TypeOK
<1>2. ASSUME NEW seconds \in Nat, CanRetryInline(seconds), PauseThenRetry(seconds),
             UNCHANGED <<request, clocks>>
      PROVE  PausesFitTheBudget'
  BY <1>2 DEF CanRetryInline, PauseThenRetry, Leaves, request, clocks
<1>3. CASE CapacityRetryPass
  BY <1>3 DEF CapacityRetryPass, PassOpens, Leaves, request, clocks
<1>4. CASE Choose /\ ~CapacityRetryPass
  BY <1>4
  DEF Choose, AskNext, AskAgain, StopShort, PassWaitEnds, WindowSpent, PauseEnds, GiveUp
<1>5. CASE Answer
  <2>1. ASSUME NEW reason, MoveOn(reason) PROVE PausesFitTheBudget'
    BY <2>1 DEF MoveOn, GiveUp
  <2>2. ASSUME NEW seconds \in Hints \ {0}, AdmissionRefused(seconds) PROVE PausesFitTheBudget'
    BY <1>1, <1>2, <2>2 DEF AdmissionRefused
  <2>3. ASSUME NEW reason \in Reasons \cap Raised, InvocationFails(reason) PROVE PausesFitTheBudget'
    BY <2>3 DEF InvocationFails
  <2>4. CASE JsonAnswer \/ StreamCommits
    BY <2>4 DEF JsonAnswer, StreamCommits
  <2>5. ASSUME NEW reason \in Reasons, NoAnswer(reason) PROVE PausesFitTheBudget'
    BY <2>1, <2>5 DEF NoAnswer
  <2>6. ASSUME NEW how \in {"streamed", "broken"}, StreamEnds(how) PROVE PausesFitTheBudget'
    BY <2>6 DEF StreamEnds
  <2>7. ASSUME NEW reason \in Reasons \cap Classified, NEW seconds \in Hints,
               NEW scoped \in BOOLEAN, HttpFailure(reason, seconds, scoped)
        PROVE  PausesFitTheBudget'
    <3>1. CASE CanRetryInline(seconds) /\ PauseThenRetry(seconds)
      <4>1. seconds \in Nat
        BY <1>1
      <4> QED BY <1>2, <2>7, <3>1, <4>1 DEF HttpFailure
    <3>2. CASE MoveOn(reason)
      BY <2>1, <3>2
    <3> QED BY <2>7, <3>1, <3>2 DEF HttpFailure
  <2>8. ASSUME NEW named \in SUBSET Knobs, NEW reason \in NonRetryable \cup SourceDiverting,
               KnobsRejected(named, reason)
        PROVE  PausesFitTheBudget'
    BY <2>8 DEF KnobsRejected
  <2> QED BY <1>5, <2>2, <2>3, <2>4, <2>5, <2>6, <2>7, <2>8 DEF Answer
<1>6. CASE Tick
  <2>1. UNCHANGED <<virtual, pc>> /\ wait' = Less(wait)
        /\ budget' = (IF HasDeadline THEN Less(budget) ELSE budget)
        /\ (pc \in {"paused", "waiting"} => wait > 0)
    BY <1>6 DEF Tick, request
  <2> QED BY <1>1, <2>1 DEF Less
<1>7. CASE ClientLeaves \/ Sigterm \/ Kill \/ Done \/ UNCHANGED vars
  BY <1>7 DEF ClientLeaves, Sigterm, Kill, Done, vars, request, clocks
<1> QED BY <1>3, <1>4, <1>5, <1>6, <1>7 DEF Next

\* However its failures combine, a request makes at most so many calls, at most three of one
\* candidate, and no pause of it reaches past its deadline: for every pool, configuration, set of
\* knobs and sequence of answers (run_attempts, inline_capacity_retry_delay, capacity_retry_pass).
THEOREM WorkStaysBounded == Spec => []WorkIsBounded
<1>1. Init => RepeatInv /\ PausesFitTheBudget
  BY DEF Init, RepeatInv, NotAgain, RepeatsAreForCapacity, Rows, PausesFitTheBudget
<1>2. Spec => [](TypeInv /\ RepeatInv /\ Modes /\ LoopInv /\ WorkInv /\ PausesFitTheBudget)
  BY <1>1, InitTypeInv, InitLoop, InitWork, StepTypeInv, StepRepeat, StepModes, StepLoop,
     StepWork, StepPauses, PTL DEF Spec
<1>3. TypeInv /\ WorkInv /\ PausesFitTheBudget => WorkIsBounded
  BY CallsBounded DEF WorkIsBounded
<1> QED BY <1>2, <1>3, PTL

------------------------------------------------------------------------------
(* The relay of a stream.                                                  *)

RelayParts == {"response_committed", "normalization_valid", "error_event_seen", "completion_chars", "deliverable_sent",
               "runaway", "unseen"}

RelayTyped ==
    /\ DOMAIN relay = RelayParts /\ DOMAIN client = {"headers", "told", "gone"}
    /\ frames \in Seq(Kinds) /\ (half # NoHalf => half.kind \in Kinds)

NoAnswerIn(events) == \A i \in DOMAIN events : events[i] \notin Answers

\* While the body comes in, the client has nothing before the commit, and of a JSON body that is to be
\* translated nothing at all; before the commit nothing is held of a stream that is passed on at once.
HeadersFollow ==
    result = Relaying =>
        /\ client.headers => relay.response_committed /\ (Sse \/ ~Anthropic)
        /\ Sse /\ setting.policy = "immediate" /\ ~relay.response_committed => frames = <<>>

\* What was passed on without an answer in it had none.
PassedIsRead ==
    Sse /\ ~relay.deliverable_sent /\ (result.status = "ok" \/ (result = Relaying /\ relay.response_committed)) =>
        NoAnswerIn(frames)

RelayInv == RelayTyped /\ HeadersFollow /\ PassedIsRead /\ RetryIsUnseen

\* A frame or two and then some more, or what came before with them.
LEMMA NoAnswerJoins ==
  ASSUME NEW s \in Seq(Kinds), NEW t \in Seq(Kinds)
  PROVE  s \o t \in Seq(Kinds) /\ (NoAnswerIn(s \o t) <=> NoAnswerIn(s) /\ NoAnswerIn(t))
<1>1. s \o t \in Seq(Kinds) /\ Len(s \o t) = Len(s) + Len(t) /\ Len(s) \in Nat /\ Len(t) \in Nat
  OBVIOUS
<1>2. NoAnswerIn(s) /\ NoAnswerIn(t) => NoAnswerIn(s \o t)
  BY <1>1 DEF NoAnswerIn
<1>3. ASSUME NoAnswerIn(s \o t) PROVE NoAnswerIn(s)
  <2>1. ASSUME NEW i \in 1..Len(s) PROVE s[i] \notin Answers
    <3>1. (s \o t)[i] = s[i] /\ i \in 1..Len(s \o t)
      BY <1>1
    <3> QED BY <3>1, <1>1, <1>3 DEF NoAnswerIn
  <2> QED BY <2>1 DEF NoAnswerIn
<1>4. ASSUME NoAnswerIn(s \o t) PROVE NoAnswerIn(t)
  <2>1. ASSUME NEW i \in 1..Len(t) PROVE t[i] \notin Answers
    <3>1. (s \o t)[Len(s) + i] = t[i] /\ Len(s) + i \in 1..Len(s \o t)
      BY <1>1
    <3> QED BY <3>1, <1>1, <1>4 DEF NoAnswerIn
  <2> QED BY <2>1 DEF NoAnswerIn
<1> QED BY <1>1, <1>2, <1>3, <1>4

\* A chunk brings frames.
LEMMA ChunkTyped ==
  ASSUME RelayTyped, NEW c \in Chunks
  PROVE  c.events \in Seq(Kinds) /\ (c.half # NoHalf => c.half.kind \in Kinds)
<1> DEFINE room == (IF Sse THEN MaxFrames ELSE 1) - Len(frames)
           Halves == {NoHalf} \cup [kind : Kinds, cut : {"short", "wide"}] \cup [kind : {"done", "error"}, cut : {"unclosed"}]
           added == UNION {[1..n -> Kinds] : n \in {k \in 0..PerChunk : k <= room}}
           opens == IF half = NoHalf THEN added ELSE {<<half.kind>> \o a : a \in added}
           more == IF half = NoHalf THEN {}
                   ELSE {[events |-> <<>>, half |-> h] : h \in {g \in Halves : g # NoHalf /\ g.kind = half.kind}}
<1>1. c \in [events : opens, half : Halves] \cup more
  BY DEF Chunks
<1>2. ASSUME NEW h \in Halves, h # NoHalf PROVE h.kind \in Kinds
  BY <1>2 DEF Kinds
<1>3. ASSUME NEW a \in added PROVE a \in Seq(Kinds)
  <2>1. PICK n \in {k \in 0..PerChunk : k <= room} : a \in [1..n -> Kinds]
    BY <1>3
  <2>2. n \in Nat
    BY <2>1
  <2> QED BY <2>1, <2>2
<1>4. CASE c \in [events : opens, half : Halves]
  <2>1. c.events \in opens /\ c.half \in Halves
    BY <1>4
  <2> HIDE DEF added, Halves
  <2>2. CASE half = NoHalf
    BY <2>1, <2>2, <1>2, <1>3
  <2>3. CASE half # NoHalf
    <3>1. PICK a \in added : c.events = <<half.kind>> \o a
      BY <2>1, <2>3
    <3>2. half.kind \in Kinds
      BY <2>3 DEF RelayTyped
    <3>3. <<half.kind>> \in Seq(Kinds)
      BY <3>2
    <3> QED BY <2>1, <3>1, <3>3, <1>2, <1>3
  <2> QED BY <2>2, <2>3
<1>5. CASE c \in more
  <2> HIDE DEF Halves
  <2>1. PICK h \in Halves : h # NoHalf /\ c = [events |-> <<>>, half |-> h]
    BY <1>5
  <2>2. c.events = <<>> /\ c.half = h
    BY <2>1
  <2> QED BY <2>1, <2>2, <1>2
<1> QED BY <1>1, <1>4, <1>5

\* A piece passed on is read for an answer, and the response is committed.
LEMMA PieceRead ==
  ASSUME NEW r, NEW p, DOMAIN r = RelayParts
  PROVE  /\ DOMAIN Observe(r, p) = RelayParts
         /\ Observe(r, p).response_committed = TRUE
         /\ Sse /\ ~Observe(r, p).deliverable_sent => ~r.deliverable_sent /\ NoAnswerIn(p.events)
<1>1. CASE ~Sse
  BY <1>1 DEF Observe, RelayParts
<1>2. CASE Sse
  <2> DEFINE wide == p.half # NoHalf /\ p.half.cut = "wide"
             chars == r.completion_chars + Cardinality({i \in DOMAIN p.events : p.events[i] \in Measured})
             unmeasured == Contains(p.events, "junk")
             answers == \E i \in DOMAIN p.events : p.events[i] \in Answers
             v == r.normalization_valid /\ ~wide /\ \A i \in DOMAIN p.events : Allows(p.events[i])
             e == r.error_event_seen \/ (r.normalization_valid /\ Contains(p.events, "error"))
             u == r.unseen \/ (~r.normalization_valid /\ Contains(p.events, "error"))
             d == r.deliverable_sent \/ wide \/ answers
             n == IF ~Budgeted THEN r.completion_chars ELSE IF unmeasured THEN MaxChars + 1 ELSE chars
             w == Budgeted /\ (r.runaway \/ unmeasured \/ chars > MaxChars)
  <2>1. Observe(r, p) = [r EXCEPT !.response_committed = TRUE, !.normalization_valid = v, !.error_event_seen = e,
                                  !.unseen = u, !.deliverable_sent = d, !.completion_chars = n, !.runaway = w]
    BY <1>2 DEF Observe, split_complete_sse_events
  <2>2. ~d => ~r.deliverable_sent /\ NoAnswerIn(p.events)
    BY DEF NoAnswerIn
  <2> HIDE DEF v, e, u, d, n, w
  <2>3. /\ DOMAIN Observe(r, p) = RelayParts /\ Observe(r, p).response_committed = TRUE
        /\ Observe(r, p).deliverable_sent = d
    BY <2>1 DEF RelayParts
  <2> QED BY <2>2, <2>3
<1> QED BY <1>1, <1>2

\* What stream_response returns: never that nothing was sent to a client that has the headers.
LEMMA ReturnedIsSeen ==
  ASSUME NEW status \in {"ok", "fail"}, NEW reason, NEW started, Returned(status, reason, started),
         UNCHANGED setting,
         started = TRUE \/ ~client'.headers,
         Anthropic /\ ~Sse /\ status # "ok" => ~client'.headers
  PROVE  /\ result' # Relaying /\ result'.status \in {"ok", "fail"} /\ (result'.status = "ok" => status = "ok")
         /\ RetryIsUnseen'
<1>1. CASE Anthropic /\ ~Sse /\ status # "ok"
  <2>1. result' = [status |-> status, reason |-> "pre_stream_failure", stream_started |-> FALSE]
    BY <1>1 DEF Returned
  <2> QED BY <1>1, <2>1 DEF RetryIsUnseen, Relaying
<1>2. CASE ~(Anthropic /\ ~Sse /\ status # "ok") /\ Anthropic /\ Sse /\ translator'.failed
  <2> DEFINE h == client'.headers
  <2>1. result' = [status |-> "fail", reason |-> "mid_stream_failure", stream_started |-> h]
    BY <1>2 DEF Returned
  <2> HIDE DEF h
  <2>2. result'.stream_started = h /\ result'.status = "fail" /\ result' # Relaying
    BY <2>1 DEF Relaying
  <2> QED BY <2>2 DEF RetryIsUnseen, h
<1>3. CASE ~(Anthropic /\ ~Sse /\ status # "ok") /\ ~(Anthropic /\ Sse /\ translator'.failed)
  <2>1. result' = [status |-> status, reason |-> reason, stream_started |-> started]
    BY <1>3 DEF Returned
  <2>2. result'.stream_started = started /\ result'.status = status /\ result' # Relaying
    BY <2>1 DEF Relaying
  <2> QED BY <2>2 DEF RetryIsUnseen
<1> QED BY <1>1, <1>2, <1>3

\* Before the commit, the request may go on elsewhere.
LEMMA RetryableKeeps ==
  ASSUME RelayInv, result = Relaying, NEW reason, Retryable(reason), UNCHANGED setting,
         ~client.headers, frames' \in Seq(Kinds), half' # NoHalf => half'.kind \in Kinds
  PROVE  RelayInv'
<1>1. UNCHANGED <<relay, translator, client>> /\ Returned("fail", reason, FALSE)
  BY DEF Retryable
<1>2. result' # Relaying /\ result'.status # "ok" /\ RetryIsUnseen'
  BY <1>1, ReturnedIsSeen
<1> QED BY <1>1, <1>2 DEF RelayInv, RelayTyped, HeadersFollow, PassedIsRead

\* Pieces are passed on: the one that came, or what was held and then it.
LEMMA RelayKeeps ==
  ASSUME RelayInv, result = Relaying, NEW pieces, Relay(pieces), UNCHANGED setting,
         frames' \in Seq(Kinds), half' # NoHalf => half'.kind \in Kinds,
         DOMAIN InTurn(Observe, relay, pieces) = RelayParts, InTurn(Observe, relay, pieces).response_committed = TRUE,
         Sse /\ ~InTurn(Observe, relay, pieces).deliverable_sent => NoAnswerIn(frames')
  PROVE  RelayInv'
<1> DEFINE seen == InTurn(Observe, relay, pieces)
<1>0. /\ DOMAIN relay = RelayParts /\ DOMAIN client = {"headers", "told", "gone"}
      /\ client.headers => relay.response_committed /\ (Sse \/ ~Anthropic)
  BY DEF RelayInv, RelayTyped, HeadersFollow
<1>1. DOMAIN Handed(pieces) = {"headers", "told", "gone"} /\ (Anthropic /\ ~Sse => Handed(pieces) = client)
  <2>1. CASE Anthropic /\ ~Sse
    BY <1>0, <2>1 DEF Handed
  <2>2. CASE ~(Anthropic /\ ~Sse)
    <3> DEFINE t == IF Anthropic THEN Translated(pieces).told ELSE InTurn(Verbatim, client.told, pieces)
    <3>1. Handed(pieces) = [client EXCEPT !.headers = TRUE, !.told = t]
      BY <2>2 DEF Handed
    <3> HIDE DEF t
    <3> QED BY <1>0, <2>2, <3>1
  <2> QED BY <2>1, <2>2
<1>2. CASE ~(Anthropic /\ ~Sse) /\ relay' = relay /\ client' = Lost /\ Returned("fail", "client_disconnected", CommittedBeforeWrite(relay))
  <2>1. DOMAIN client' = {"headers", "told", "gone"}
    BY <1>0, <1>2 DEF Lost
  <2>2. result' # Relaying /\ result'.status # "ok" /\ RetryIsUnseen'
    BY <1>2, ReturnedIsSeen DEF CommittedBeforeWrite
  <2> QED BY <1>0, <1>2, <2>1, <2>2 DEF RelayInv, RelayTyped, HeadersFollow, PassedIsRead
<1>3. CASE relay' = seen /\ client' = TellError(Handed(pieces)) /\ Returned("fail", "runaway_output", TRUE)
  <2>1. DOMAIN client' = {"headers", "told", "gone"} /\ (Anthropic /\ ~Sse => client' = client)
    BY <1>1, <1>3 DEF TellError
  <2>2. result' # Relaying /\ result'.status # "ok" /\ RetryIsUnseen'
    BY <1>0, <1>3, <2>1, ReturnedIsSeen
  <2> QED BY <1>3, <2>1, <2>2 DEF RelayInv, RelayTyped, HeadersFollow, PassedIsRead
<1>4. CASE relay' = seen /\ client' = Handed(pieces) /\ UNCHANGED result
  <2>1. RelayTyped'
    BY <1>1, <1>4 DEF RelayTyped
  <2>2. HeadersFollow'
    BY <1>0, <1>1, <1>4 DEF HeadersFollow, Sse, Anthropic
  <2>3. PassedIsRead'
    BY <1>4 DEF PassedIsRead, Sse
  <2> QED BY <2>1, <2>2, <2>3, <1>4 DEF RelayInv, RetryIsUnseen
<1> QED BY <1>2, <1>3, <1>4 DEF Relay

LEMMA ChunkKeeps ==
  ASSUME RelayInv, Chunk
  PROVE  RelayInv'
<1>1. PICK c \in Chunks : /\ frames' = frames \o c.events /\ half' = c.half
                          /\ PassOn(c) \/ HoldBack(c) \/ BufferJson(c)
  BY DEF Chunk
<1>2. result = Relaying /\ UNCHANGED setting
  BY DEF Chunk
<1>3. frames \in Seq(Kinds) /\ DOMAIN relay = RelayParts
  BY DEF RelayInv, RelayTyped
<1>4. /\ c.events \in Seq(Kinds) /\ frames' \in Seq(Kinds) /\ (half' # NoHalf => half'.kind \in Kinds)
      /\ NoAnswerIn(frames') <=> NoAnswerIn(frames) /\ NoAnswerIn(c.events)
  BY <1>1, <1>3, ChunkTyped, NoAnswerJoins DEF RelayInv
<1>5. /\ client.headers => relay.response_committed /\ (Sse \/ ~Anthropic)
      /\ Sse /\ setting.policy = "immediate" /\ ~relay.response_committed => frames = <<>>
      /\ Sse /\ relay.response_committed /\ ~relay.deliverable_sent => NoAnswerIn(frames)
  BY <1>2 DEF RelayInv, HeadersFollow, PassedIsRead
<1>6. NoAnswerIn(<<>>)
  BY DEF NoAnswerIn
<1>7. CASE PassOn(c)
  <2> DEFINE p == [events |-> c.events, half |-> c.half, before |-> half]
  <2>1. CASE ~relay.response_committed /\ Retryable("pre_stream_failure")
    BY <1>2, <1>4, <1>5, <2>1, RetryableKeeps
  <2>2. CASE Relay(<<p>>)
    <3>1. p.events = c.events /\ InTurn(Observe, relay, <<p>>) = Observe(relay, p)
      BY DEF InTurn
    <3> HIDE DEF p
    <3>2. Sse => relay.response_committed \/ setting.policy = "immediate"
      BY <1>7 DEF PassOn
    <3>3. /\ DOMAIN InTurn(Observe, relay, <<p>>) = RelayParts /\ InTurn(Observe, relay, <<p>>).response_committed = TRUE
          /\ Sse /\ ~InTurn(Observe, relay, <<p>>).deliverable_sent => NoAnswerIn(frames')
      <4>1. /\ DOMAIN Observe(relay, p) = RelayParts /\ Observe(relay, p).response_committed = TRUE
            /\ Sse /\ ~Observe(relay, p).deliverable_sent => ~relay.deliverable_sent /\ NoAnswerIn(p.events)
        BY <1>3, PieceRead
      <4>2. Sse /\ ~relay.deliverable_sent => NoAnswerIn(frames)
        BY <1>5, <1>6, <3>2
      <4> QED BY <1>4, <3>1, <4>1, <4>2
    <3> QED BY <1>2, <1>4, <2>2, <3>3, RelayKeeps
  <2> QED BY <1>7, <2>1, <2>2 DEF PassOn
<1>8. CASE HoldBack(c)
  <2>0. Sse /\ ~relay.response_committed /\ setting.policy # "immediate"
    BY <1>8 DEF HoldBack
  <2> DEFINE last == [events |-> c.events, half |-> c.half, before |-> half]
             whole == [last EXCEPT !.events = frames \o @, !.before = NoHalf]
  <2>1. \/ Retryable("pre_stream_failure")
        \/ UNCHANGED <<relay, translator, client, result>>
        \/ Relay(<<Held, last>>)
        \/ Relay(<<whole>>)
    BY <1>8 DEF HoldBack
  <2>2. CASE Retryable("pre_stream_failure")
    BY <1>2, <1>4, <1>5, <2>0, <2>2, RetryableKeeps
  <2>3. CASE UNCHANGED <<relay, translator, client, result>>
    BY <1>2, <1>4, <2>0, <2>3 DEF RelayInv, RelayTyped, HeadersFollow, PassedIsRead, RetryIsUnseen, Sse, Anthropic, Relaying
  <2>4. CASE Relay(<<Held, last>>)
    <3>1. /\ last.events = c.events /\ Held.events = frames
          /\ InTurn(Observe, relay, <<Held, last>>) = Observe(Observe(relay, Held), last)
      BY DEF InTurn, Held
    <3> HIDE DEF last
    <3>2. /\ DOMAIN Observe(relay, Held) = RelayParts
          /\ Sse /\ ~Observe(relay, Held).deliverable_sent => NoAnswerIn(frames)
      BY <1>3, <3>1, PieceRead
    <3>3. /\ DOMAIN InTurn(Observe, relay, <<Held, last>>) = RelayParts
          /\ InTurn(Observe, relay, <<Held, last>>).response_committed = TRUE
          /\ Sse /\ ~InTurn(Observe, relay, <<Held, last>>).deliverable_sent => NoAnswerIn(frames')
      <4> DEFINE first == Observe(relay, Held)
      <4> HIDE DEF first
      <4>1. /\ DOMAIN Observe(first, last) = RelayParts /\ Observe(first, last).response_committed = TRUE
            /\ Sse /\ ~Observe(first, last).deliverable_sent => ~first.deliverable_sent /\ NoAnswerIn(last.events)
        BY <3>2, PieceRead DEF first
      <4> QED BY <1>4, <3>1, <3>2, <4>1 DEF first
    <3> QED BY <1>2, <1>4, <2>4, <3>3, RelayKeeps
  <2>5. CASE Relay(<<whole>>)
    <3>1. whole.events = frames' /\ InTurn(Observe, relay, <<whole>>) = Observe(relay, whole)
      BY <1>1 DEF InTurn
    <3> HIDE DEF whole
    <3>2. /\ DOMAIN InTurn(Observe, relay, <<whole>>) = RelayParts
          /\ InTurn(Observe, relay, <<whole>>).response_committed = TRUE
          /\ Sse /\ ~InTurn(Observe, relay, <<whole>>).deliverable_sent => NoAnswerIn(frames')
      <4>1. /\ DOMAIN Observe(relay, whole) = RelayParts /\ Observe(relay, whole).response_committed = TRUE
            /\ Sse /\ ~Observe(relay, whole).deliverable_sent => NoAnswerIn(whole.events)
        BY <1>3, PieceRead
      <4> QED BY <3>1, <4>1
    <3> QED BY <1>2, <1>4, <2>5, <3>2, RelayKeeps
  <2> QED BY <2>1, <2>2, <2>3, <2>4, <2>5
<1>9. CASE BufferJson(c)
  <2>1. CASE UNCHANGED <<relay, translator, client, result>>
    BY <1>2, <1>4, <1>9, <2>1 DEF BufferJson, RelayInv, RelayTyped, HeadersFollow, PassedIsRead, RetryIsUnseen, Sse,
       Anthropic, Relaying
  <2>2. CASE Retryable("runaway_output")
    BY <1>2, <1>4, <1>5, <1>9, <2>2, RetryableKeeps DEF BufferJson
  <2> QED BY <1>9, <2>1, <2>2 DEF BufferJson
<1> QED BY <1>1, <1>7, <1>8, <1>9

\* The body is over, or its source fails, after something of it was committed.
LEMMA EndKeeps ==
  ASSUME RelayInv, result = Relaying, NEW status \in {"ok", "fail"}, NEW reason, Returned(status, reason, TRUE),
         UNCHANGED <<setting, frames, half, relay>>, DOMAIN client' = {"headers", "told", "gone"},
         Anthropic /\ ~Sse /\ status # "ok" => ~client'.headers,
         status = "ok" => relay.response_committed
  PROVE  RelayInv'
<1>1. result' # Relaying /\ result'.status \in {"ok", "fail"} /\ (result'.status = "ok" => status = "ok") /\ RetryIsUnseen'
  BY ReturnedIsSeen
<1> QED BY <1>1 DEF RelayInv, RelayTyped, HeadersFollow, PassedIsRead, Sse

LEMMA EndsKeep ==
  ASSUME RelayInv, \/ UpstreamRaises
                   \/ EndSse
                   \/ EndJson
                   \/ MeasureJson
                   \/ EndEmpty
  PROVE  RelayInv'
<1>0. /\ DOMAIN relay = RelayParts /\ DOMAIN client = {"headers", "told", "gone"} /\ frames \in Seq(Kinds)
      /\ half # NoHalf => half.kind \in Kinds
      /\ result = Relaying /\ client.headers => relay.response_committed /\ (Sse \/ ~Anthropic)
  BY DEF RelayInv, RelayTyped, HeadersFollow
<1>1. DOMAIN TellError(client) = {"headers", "told", "gone"} /\ (Anthropic /\ ~Sse => TellError(client) = client)
  BY <1>0 DEF TellError
<1>2. ASSUME result = Relaying, UNCHANGED <<setting, frames, half>>, NEW reason, Retryable(reason), ~client.headers
      PROVE  RelayInv'
  BY <1>0, <1>2, RetryableKeeps
<1>3. CASE UpstreamRaises
  <2>1. result = Relaying /\ UNCHANGED <<setting, frames, half>>
    BY <1>3 DEF UpstreamRaises
  <2>2. CASE relay.response_committed
    <3>1. client' = TellError(client) /\ UNCHANGED relay /\ Returned("fail", "mid_stream_failure", TRUE)
      BY <1>3, <2>2 DEF UpstreamRaises
    <3> QED BY <1>0, <1>1, <2>1, <3>1, EndKeeps
  <2>3. CASE ~relay.response_committed
    <3>1. Retryable("pre_stream_failure")
      BY <1>3, <2>3 DEF UpstreamRaises
    <3> QED BY <1>0, <1>2, <2>1, <2>3, <3>1
  <2> QED BY <2>2, <2>3
<1>4. CASE EndSse
  <2>1. result = Relaying /\ Sse /\ relay.response_committed /\ UNCHANGED <<setting, frames, half>>
    BY <1>4 DEF EndSse
  <2> DEFINE done == <<[events |-> <<"done">>, half |-> NoHalf, before |-> NoHalf]>>
  <2>2. \/ Failing("upstream_error_after_content") \/ Failing("missing_done")
        \/ UNCHANGED <<relay, client>> /\ Returned("ok", "ok", TRUE)
        \/ UNCHANGED relay /\ client' = Lost /\ Returned("fail", "client_disconnected", TRUE)
        \/ UNCHANGED relay /\ client' = Handed(done) /\ Returned("ok", "ok", TRUE)
    BY <1>4 DEF EndSse
  <2>3. DOMAIN Lost = {"headers", "told", "gone"}
    BY <1>0 DEF Lost
  <2>4. DOMAIN Handed(done) = {"headers", "told", "gone"}
    <3> DEFINE t == IF Anthropic THEN Translated(done).told ELSE InTurn(Verbatim, client.told, done)
    <3>1. Handed(done) = [client EXCEPT !.headers = TRUE, !.told = t]
      BY <2>1 DEF Handed
    <3> HIDE DEF t, done
    <3> QED BY <1>0, <3>1
  <2>5. CASE Failing("upstream_error_after_content") \/ Failing("missing_done")
    <3>1. client' = TellError(client) /\ UNCHANGED relay /\ Returned("fail", "mid_stream_failure", TRUE)
      BY <2>5 DEF Failing
    <3> QED BY <1>1, <2>1, <3>1, EndKeeps
  <2>6. CASE UNCHANGED <<relay, client>> /\ Returned("ok", "ok", TRUE)
    BY <1>0, <2>1, <2>6, EndKeeps
  <2>7. CASE UNCHANGED relay /\ client' = Lost /\ Returned("fail", "client_disconnected", TRUE)
    BY <2>1, <2>3, <2>7, EndKeeps
  <2>8. CASE UNCHANGED relay /\ client' = Handed(done) /\ Returned("ok", "ok", TRUE)
    BY <2>1, <2>4, <2>8, EndKeeps
  <2> QED BY <2>2, <2>5, <2>6, <2>7, <2>8
<1>5. CASE EndJson
  <2>1. result = Relaying /\ ~Sse /\ relay.response_committed /\ UNCHANGED <<setting, frames, half>>
    BY <1>5 DEF EndJson
  <2>2. CASE ~Anthropic
    <3>1. UNCHANGED <<relay, client>> /\ Returned("ok", "ok", TRUE)
      BY <1>5, <2>2 DEF EndJson
    <3> QED BY <1>0, <2>1, <3>1, EndKeeps
  <2>3. CASE Anthropic /\ Retryable("pre_stream_failure")
    BY <1>0, <1>2, <2>1, <2>3
  <2>4. CASE UNCHANGED relay /\ client' = Lost
             /\ result' = [status |-> "fail", reason |-> "client_disconnected", stream_started |-> TRUE]
    <3>1. DOMAIN client' = {"headers", "told", "gone"}
      BY <1>0, <2>4 DEF Lost
    <3> QED BY <1>0, <2>1, <2>4, <3>1 DEF RelayInv, RelayTyped, HeadersFollow, PassedIsRead, RetryIsUnseen, Relaying, Sse
  <2>5. CASE UNCHANGED relay /\ client' = encode_anthropic_message_stream(client) /\ Returned("ok", "ok", TRUE)
    <3>1. DOMAIN client' = {"headers", "told", "gone"}
      BY <1>0, <2>5 DEF encode_anthropic_message_stream
    <3> QED BY <2>1, <2>5, <3>1, EndKeeps
  <2> QED BY <1>5, <2>2, <2>3, <2>4, <2>5 DEF EndJson, TranslateJson
<1>6. CASE MeasureJson
  <2>1. result = Relaying /\ ~Sse /\ ~relay.response_committed /\ UNCHANGED <<setting, frames, half>>
    BY <1>6 DEF MeasureJson
  <2> DEFINE p == [events |-> frames, half |-> NoHalf, before |-> NoHalf]
  <2>2. \/ Retryable("pre_stream_failure") \/ Retryable("runaway_output")
        \/ Relay(<<p>>)
    BY <1>6 DEF MeasureJson
  <2>3. CASE Relay(<<p>>)
    <3>1. InTurn(Observe, relay, <<p>>) = Observe(relay, p)
      BY DEF InTurn
    <3> HIDE DEF p
    <3>2. DOMAIN InTurn(Observe, relay, <<p>>) = RelayParts /\ InTurn(Observe, relay, <<p>>).response_committed = TRUE
      BY <1>0, <3>1, PieceRead
    <3> QED BY <1>0, <2>1, <2>3, <3>2, RelayKeeps
  <2> QED BY <1>0, <1>2, <2>1, <2>2, <2>3
<1>7. CASE EndEmpty
  BY <1>0, <1>2, <1>7 DEF EndEmpty
<1> QED BY <1>3, <1>4, <1>5, <1>6, <1>7

LEMMA RelayBegins == StreamInit => RelayInv
<1> SUFFICES ASSUME StreamInit PROVE RelayInv
  OBVIOUS
<1>1. frames = <<>> /\ half = NoHalf /\ DOMAIN relay = RelayParts /\ relay.response_committed = FALSE
  BY DEF StreamInit, FreshRelay, RelayParts
<1>2. DOMAIN client = {"headers", "told", "gone"} /\ client.headers = FALSE
  BY DEF StreamInit
<1>3. result = Relaying
  BY DEF StreamInit
<1>4. NoAnswerIn(<<>>)
  BY DEF NoAnswerIn
<1> QED BY <1>1, <1>2, <1>3, <1>4 DEF RelayInv, RelayTyped, HeadersFollow, PassedIsRead, RetryIsUnseen

LEMMA RelaySteps == RelayInv /\ [StreamNext]_streamVars => RelayInv'
<1> SUFFICES ASSUME RelayInv, [StreamNext]_streamVars PROVE RelayInv'
  OBVIOUS
<1>1. CASE UNCHANGED streamVars
  BY <1>1 DEF streamVars, RelayInv, RelayTyped, HeadersFollow, PassedIsRead, RetryIsUnseen, Sse, Anthropic
<1> QED BY <1>1, ChunkKeeps, EndsKeep DEF StreamNext

\* Of bodies of any length, cut into chunks anywhere, in either form, under any commit policy and on either
\* surface: another candidate answers only while the client has neither a byte nor the headers of the
\* first, and a call that relayed a delta of an answer is credited with one (router.py,
\* stream_chunks_to_writer and stream_response).
THEOREM RelayStaysFair == StreamSpec => []RelayIsFair
<1>1. RelayInv => RelayIsFair
  BY DEF RelayInv, RelayIsFair, PassedIsRead, AnswerIsCredited, NoAnswerIn
<1> QED BY <1>1, RelayBegins, RelaySteps, PTL DEF StreamSpec
------------------------------------------------------------------------------
(* What the client is told of the end.                                     *)

TranslatorParts == {"closed", "failed", "broken"}

\* A message under translation: what was told of its end is what became of it, except that
\* telling an error that was seen is left to the relay.
Translation(at) ==
    /\ DOMAIN at = TranslatorParts \cup {"told"}
    /\ at.closed \in BOOLEAN /\ at.failed \in BOOLEAN /\ at.broken \in BOOLEAN

Tells(at, seen) ==
    /\ at.closed /\ ~at.failed => at.told = "stop"
    /\ at.failed => at.told = "error" \/ seen

Over(at) == at.closed \/ at.failed

Translating == [closed |-> translator.closed, failed |-> translator.failed, broken |-> translator.broken,
                told |-> client.told]

ErrorWent == relay.error_event_seen \/ relay.unseen

EndTyped ==
    /\ DOMAIN translator = TranslatorParts
    /\ translator.closed \in BOOLEAN /\ translator.failed \in BOOLEAN /\ translator.broken \in BOOLEAN

\* While a stream comes in, a translation has told its end, and a terminator that was passed on has
\* reached the client or, translated, ended the message.
ToldFollows ==
    result = Relaying /\ Sse =>
        /\ Anthropic => Tells(Translating, ErrorWent)
        /\ relay.response_committed /\ sse_stream_ended_with_done(frames, half) =>
              IF Anthropic THEN half = NoHalf => Over(translator) ELSE client.told = "done"

EndInv == EndTyped /\ ToldFollows /\ EndsAreTrue

\* One event of a translation.
LEMMA EventRead ==
  ASSUME NEW at, Translation(at), NEW seen \in BOOLEAN, Tells(at, seen), NEW e
  PROVE  LET next == _event(e, at) IN
         /\ Translation(next) /\ Tells(next, seen \/ e = "error")
         /\ Over(at) \/ e = "done" => Over(next)
<1> DEFINE next == _event(e, at)
<1>1. CASE e = "error"
  <2>1. next = [at EXCEPT !.failed = TRUE]
    BY <1>1 DEF _event
  <2>2. DOMAIN next = DOMAIN at /\ next.failed = TRUE /\ next.closed = at.closed /\ next.broken = at.broken
    <3> HIDE DEF next
    <3> QED BY <2>1 DEF Translation, TranslatorParts
  <2> QED BY <1>1, <2>2 DEF Translation, Tells, Over
<1>2. CASE e = "junk" \/ e = "badfin" \/ (e = "done" /\ ~at.closed /\ ~at.failed /\ at.broken)
  <2>1. next = [at EXCEPT !.failed = TRUE, !.told = "error"]
    BY <1>2 DEF _event, _chunk, _done
  <2>2. /\ DOMAIN next = DOMAIN at /\ next.failed = TRUE /\ next.closed = at.closed /\ next.broken = at.broken
        /\ next.told = "error"
    <3> HIDE DEF next
    <3> QED BY <2>1 DEF Translation, TranslatorParts
  <2> QED BY <1>2, <2>2 DEF Translation, Tells, Over
<1>3. CASE e = "done" /\ (at.closed \/ at.failed)
  <2>1. next = at
    BY <1>3 DEF _event, _done
  <2> QED BY <1>3, <2>1 DEF Tells, Over
<1>4. CASE e = "done" /\ ~at.closed /\ ~at.failed /\ ~at.broken
  <2>1. next = [at EXCEPT !.closed = TRUE, !.told = "stop"]
    BY <1>4 DEF _event, _done
  <2>2. /\ DOMAIN next = DOMAIN at /\ next.closed = TRUE /\ next.failed = at.failed /\ next.broken = at.broken
        /\ next.told = "stop"
    <3> HIDE DEF next
    <3> QED BY <2>1 DEF Translation, TranslatorParts
  <2> QED BY <1>4, <2>2 DEF Translation, Tells, Over
<1>5. CASE e = "call"
  <2>1. next = [at EXCEPT !.broken = TRUE]
    BY <1>5 DEF _event, _chunk
  <2>2. /\ DOMAIN next = DOMAIN at /\ next.broken = TRUE /\ next.closed = at.closed /\ next.failed = at.failed
        /\ next.told = at.told
    <3> HIDE DEF next
    <3> QED BY <2>1 DEF Translation, TranslatorParts
  <2> QED BY <1>5, <2>2 DEF Translation, Tells, Over
<1>6. CASE e \notin {"error", "junk", "badfin", "done", "call"}
  <2>1. next = at
    BY <1>6 DEF _event, _chunk
  <2> QED BY <1>6, <2>1 DEF Tells, Over
<1> QED BY <1>1, <1>2, <1>3, <1>4, <1>5, <1>6

\* The events of a piece are read one after the other.
LEMMA FedInTurn ==
  ASSUME NEW at, ~Over(at), NEW p, p.events \in Seq(Kinds)
  PROVE  \E after : /\ after[0] = at
                    /\ \A k \in 1..Len(p.events) : after[k] = _event(p.events[k], after[k - 1])
                    /\ Feed(at, p) = after[Len(p.events)]
<1> DEFINE n0 == Len(p.events)
           step(f, k) == IF k = 0 THEN at ELSE _event(p.events[k], f[k - 1])
           Some(n) == \E f : f = [k \in 0..n |-> step(f, k)]
           None == {n \in 0..n0 : ~Some(n)}
<1>0. n0 \in Nat
  OBVIOUS
<1>1. None = {}
  <2> SUFFICES ASSUME None # {} PROVE FALSE
    OBVIOUS
  <2>1. None \subseteq Int /\ IsFiniteSet(None)
    <3>1. IsFiniteSet(0..n0)
      BY <1>0, FS_Interval
    <3>2. None \in SUBSET (0..n0)
      OBVIOUS
    <3> HIDE DEF None
    <3>3. IsFiniteSet(None)
      BY <3>1, <3>2, FS_Subset
    <3> QED BY <3>2, <3>3, <1>0
  <2>2. PICK n \in None : \A m \in None : n <= m
    <3> HIDE DEF None
    <3> QED BY <2>1, LeastElement
  <2>3. n # 0
    <3>1. [k \in 0..0 |-> at] = [k \in 0..0 |-> step([j \in 0..0 |-> at], k)]
      OBVIOUS
    <3>2. Some(0)
      BY <3>1
    <3> QED BY <2>2, <3>2
  <2>4. n \in 1..n0 /\ n - 1 \in 0..n0 /\ ~Some(n) /\ ~(n <= n - 1)
    BY <2>2, <2>3, <1>0
  <2>5. PICK f : f = [k \in 0..(n - 1) |-> step(f, k)]
    BY <2>2, <2>4
  <2> DEFINE g == [k \in 0..n |-> IF k = n THEN _event(p.events[n], f[n - 1]) ELSE f[k]]
  <2>6. ASSUME NEW k \in 0..n PROVE g[k] = step(g, k)
    <3>1. CASE k = n
      BY <3>1, <2>4
    <3>2. CASE k # n
      <4>1. k \in 0..(n - 1) /\ (k # 0 => k - 1 \in 0..n /\ k - 1 # n)
        BY <3>2, <2>4
      <4>2. g[k] = f[k] /\ f[k] = step(f, k) /\ (k # 0 => g[k - 1] = f[k - 1])
        BY <4>1, <3>2, <2>5
      <4> QED BY <4>2
    <3> QED BY <3>1, <3>2
  <2>7. g = [k \in 0..n |-> step(g, k)]
    BY <2>6
  <2> HIDE DEF g
  <2> QED BY <2>4, <2>7
<1>2. Some(n0)
  BY <1>0, <1>1
<1> DEFINE after == CHOOSE f : f = [k \in 0..Len(p.events) |-> step(f, k)]
<1>3. after = [k \in 0..n0 |-> step(after, k)]
  BY <1>2
<1>4. Feed(at, p) = after[n0]
  BY DEF Feed, Over
<1> HIDE DEF after
<1>5. after[0] = at
  BY <1>0, <1>3
<1>6. \A k \in 1..n0 : after[k] = _event(p.events[k], after[k - 1])
  <2> SUFFICES ASSUME NEW k \in 1..n0 PROVE after[k] = _event(p.events[k], after[k - 1])
    OBVIOUS
  <2>1. k \in 0..n0 /\ k # 0
    BY <1>0
  <2> QED BY <2>1, <1>3
<1> QED BY <1>4, <1>5, <1>6

\* A piece of a translation.
LEMMA PieceFed ==
  ASSUME NEW at, Translation(at), NEW seen \in BOOLEAN, Tells(at, seen), NEW p, p.events \in Seq(Kinds)
  PROVE  LET next == Feed(at, p) IN
         /\ Translation(next) /\ Tells(next, seen \/ Contains(p.events, "error"))
         /\ (Over(at) \/ (p.events # <<>> /\ p.events[Len(p.events)] = "done")) => Over(next)
<1>1. CASE Over(at)
  <2>1. Feed(at, p) = at
    BY <1>1 DEF Feed, Over
  <2>2. Tells(at, seen \/ Contains(p.events, "error"))
    BY DEF Tells
  <2> QED BY <1>1, <2>1, <2>2
<1>2. CASE ~Over(at)
  <2>1. PICK after : /\ after[0] = at
                     /\ \A k \in 1..Len(p.events) : after[k] = _event(p.events[k], after[k - 1])
                     /\ Feed(at, p) = after[Len(p.events)]
    BY <1>2, FedInTurn
  <2> DEFINE Errs(n) == \E i \in 1..n : p.events[i] = "error"
             Good(n) == /\ Translation(after[n]) /\ Tells(after[n], seen \/ Errs(n))
                        /\ n # 0 /\ p.events[n] = "done" => Over(after[n])
             Bad == {n \in 0..Len(p.events) : ~Good(n)}
  <2>2. Len(p.events) \in Nat /\ Errs(Len(p.events)) = Contains(p.events, "error")
    BY DEF Contains
  <2>3. Good(0)
    <3>1. Tells(at, seen \/ Errs(0))
      BY DEF Tells
    <3> QED BY <2>1, <3>1
  <2>4. ASSUME NEW n \in 1..Len(p.events), Good(n - 1) PROVE Good(n)
    <3> DEFINE e == p.events[n]
               s == seen \/ Errs(n - 1)
               a == after[n - 1]
    <3>1. after[n] = _event(e, a)
      BY <2>1
    <3>2. Translation(a) /\ Tells(a, s) /\ s \in BOOLEAN
      BY <2>4
    <3>3. (s \/ e = "error") => seen \/ Errs(n)
      <4>1. \A i \in 1..(n - 1) : i \in 1..n
        BY <2>2
      <4>2. n \in 1..n
        BY <2>2
      <4> QED BY <4>1, <4>2
    <3> HIDE DEF s, e, a
    <3>4. /\ Translation(after[n]) /\ Tells(after[n], s \/ e = "error")
          /\ e = "done" => Over(after[n])
      BY <3>1, <3>2, EventRead
    <3> HIDE DEF Errs
    <3>5. Tells(after[n], seen \/ Errs(n))
      BY <3>3, <3>4 DEF Tells
    <3> QED BY <3>4, <3>5 DEF e
  <2>5. Bad = {}
    <3> SUFFICES ASSUME Bad # {} PROVE FALSE
      OBVIOUS
    <3>1. IsFiniteSet(Bad) /\ Bad \subseteq Int
      <4>0. Len(p.events) \in Int
        BY <2>2
      <4>1. IsFiniteSet(0..Len(p.events))
        BY <4>0, FS_Interval
      <4>2. Bad \in SUBSET (0..Len(p.events))
        OBVIOUS
      <4> HIDE DEF Bad
      <4>3. IsFiniteSet(Bad)
        BY <4>1, <4>2, FS_Subset
      <4> QED BY <4>2, <4>3, <2>2
    <3>2. PICK n \in Bad : \A m \in Bad : n <= m
      <4> HIDE DEF Bad
      <4> QED BY <3>1, LeastElement
    <3>3. n \in 0..Len(p.events) /\ ~Good(n)
      BY <3>2
    <3> HIDE DEF Good
    <3>4. n \in 1..Len(p.events) /\ n - 1 \in 0..Len(p.events) /\ ~(n <= n - 1)
      BY <3>3, <2>3, <2>2
    <3>5. Good(n - 1)
      BY <3>2, <3>4
    <3> QED BY <2>4, <3>3, <3>4, <3>5
  <2>6. Good(Len(p.events))
    <3> HIDE DEF Good
    <3> QED BY <2>2, <2>5
  <2>7. p.events # <<>> => Len(p.events) # 0
    OBVIOUS
  <2>8. Tells(after[Len(p.events)], seen \/ Contains(p.events, "error"))
    <3> HIDE DEF Errs
    <3> QED BY <2>2, <2>6
  <2> HIDE DEF Errs
  <2> QED BY <1>2, <2>1, <2>6, <2>7, <2>8
<1> QED BY <1>1, <1>2

\* The pieces of one call, the last of them z.
Pieces(pieces, z) ==
    /\ z.events \in Seq(Kinds)
    /\ pieces = <<z>> \/ \E y : pieces = <<y, z>> /\ y.events \in Seq(Kinds)

ErrorIn(pieces) == \E i \in DOMAIN pieces : Contains(pieces[i].events, "error")

\* A piece whose end is the terminator tells the client of the OpenAI surface so.
LEMMA TerminatorTold ==
  ASSUME NEW p, p.events \in Seq(Kinds), sse_stream_ended_with_done(p.events, p.half), NEW told
  PROVE  Verbatim(told, p) = "done"
<1> DEFINE marks == {i \in DOMAIN p.events : p.events[i] \in {"done", "error"}}
           n == Len(p.events)
<1>1. CASE p.half # NoHalf
  BY <1>1 DEF sse_stream_ended_with_done, Verbatim
<1>2. CASE p.half = NoHalf
  <2>1. n \in marks /\ p.events[n] = "done"
    BY <1>2 DEF sse_stream_ended_with_done, Last
  <2>2. marks \subseteq 1..n /\ n \in Nat
    OBVIOUS
  <2>3. Max(marks) = n
    <3> HIDE DEF marks, n
    <3>1. n \in marks /\ \A y \in marks : n >= y
      BY <2>1, <2>2
    <3>2. \A x \in marks : (\A y \in marks : x >= y) => x = n
      BY <2>1, <2>2
    <3> QED BY <3>1, <3>2 DEF Max
  <2>4. marks # {}
    BY <2>1
  <2>5. Verbatim(told, p) = p.events[Max(marks)]
    BY <1>2, <2>4 DEF Verbatim
  <2> QED BY <2>1, <2>3, <2>5
<1> QED BY <1>1, <1>2

LEMMA TerminatorPassed ==
  ASSUME NEW pieces, NEW z, Pieces(pieces, z), sse_stream_ended_with_done(z.events, z.half), NEW told
  PROVE  InTurn(Verbatim, told, pieces) = "done"
<1>1. CASE pieces = <<z>>
  BY <1>1, TerminatorTold DEF InTurn, Pieces
<1>2. ASSUME NEW y, pieces = <<y, z>> PROVE InTurn(Verbatim, told, pieces) = "done"
  <2>1. InTurn(Verbatim, told, pieces) = Verbatim(Verbatim(told, y), z)
    BY <1>2 DEF InTurn
  <2> QED BY <2>1, TerminatorTold DEF Pieces
<1> QED BY <1>1, <1>2 DEF Pieces

\* What a translation makes of them.
LEMMA PiecesTold ==
  ASSUME EndTyped, NEW seen \in BOOLEAN, Tells(Translating, seen), NEW pieces, NEW z, Pieces(pieces, z)
  PROVE  /\ Translation(Translated(pieces)) /\ Tells(Translated(pieces), seen \/ ErrorIn(pieces))
         /\ sse_stream_ended_with_done(z.events, z.half) /\ z.half = NoHalf => Over(Translated(pieces))
<1> DEFINE at == Translating
<1>1. Translation(at) /\ Translated(pieces) = InTurn(Feed, at, pieces)
  BY DEF Translating, Translation, EndTyped, TranslatorParts, Translated
<1>2. sse_stream_ended_with_done(z.events, z.half) /\ z.half = NoHalf => z.events # <<>> /\ z.events[Len(z.events)] = "done"
  BY DEF sse_stream_ended_with_done, Last
<1> HIDE DEF at
<1>3. CASE pieces = <<z>>
  <2>1. Translated(pieces) = Feed(at, z)
    BY <1>1, <1>3 DEF InTurn
  <2>2. ErrorIn(pieces) <=> Contains(z.events, "error")
    BY <1>3 DEF ErrorIn
  <2>3. /\ Translation(Feed(at, z)) /\ Tells(Feed(at, z), seen \/ Contains(z.events, "error"))
        /\ (Over(at) \/ (z.events # <<>> /\ z.events[Len(z.events)] = "done")) => Over(Feed(at, z))
    BY <1>1, PieceFed DEF Pieces, at
  <2>4. Tells(Feed(at, z), seen \/ ErrorIn(pieces))
    BY <2>2, <2>3 DEF Tells
  <2> QED BY <1>2, <2>1, <2>3, <2>4
<1>4. ASSUME NEW y, pieces = <<y, z>>, y.events \in Seq(Kinds)
      PROVE  /\ Translation(Translated(pieces)) /\ Tells(Translated(pieces), seen \/ ErrorIn(pieces))
             /\ sse_stream_ended_with_done(z.events, z.half) /\ z.half = NoHalf => Over(Translated(pieces))
  <2> DEFINE mid == Feed(at, y)
             before == seen \/ Contains(y.events, "error")
  <2>1. Translated(pieces) = Feed(mid, z)
    BY <1>1, <1>4 DEF InTurn
  <2>2. before \/ Contains(z.events, "error") => seen \/ ErrorIn(pieces)
    <3>1. 1 \in DOMAIN pieces /\ 2 \in DOMAIN pieces /\ pieces[1] = y /\ pieces[2] = z
      BY <1>4
    <3> QED BY <3>1 DEF ErrorIn
  <2>3. Translation(mid) /\ Tells(mid, before)
    BY <1>1, <1>4, PieceFed DEF at
  <2>4. before \in BOOLEAN
    BY DEF Contains
  <2> HIDE DEF mid, before
  <2>5. /\ Translation(Feed(mid, z)) /\ Tells(Feed(mid, z), before \/ Contains(z.events, "error"))
        /\ (Over(mid) \/ (z.events # <<>> /\ z.events[Len(z.events)] = "done")) => Over(Feed(mid, z))
    BY <2>3, <2>4, PieceFed DEF Pieces
  <2>6. Tells(Feed(mid, z), seen \/ ErrorIn(pieces))
    BY <2>2, <2>5 DEF Tells
  <2> QED BY <1>2, <2>1, <2>5, <2>6
<1> QED BY <1>3, <1>4 DEF Pieces

\* No error goes by without a trace.
LEMMA PieceNoted ==
  ASSUME Sse, NEW r, NEW p, DOMAIN r = RelayParts,
         r.error_event_seen \/ r.unseen \/ Contains(p.events, "error")
  PROVE  Observe(r, p).error_event_seen \/ Observe(r, p).unseen
<1> DEFINE wide == p.half # NoHalf /\ p.half.cut = "wide"
           chars == r.completion_chars + Cardinality({i \in DOMAIN p.events : p.events[i] \in Measured})
           unmeasured == Contains(p.events, "junk")
           v == r.normalization_valid /\ ~wide /\ \A i \in DOMAIN p.events : Allows(p.events[i])
           e == r.error_event_seen \/ (r.normalization_valid /\ Contains(p.events, "error"))
           u == r.unseen \/ (~r.normalization_valid /\ Contains(p.events, "error"))
           d == r.deliverable_sent \/ wide \/ \E i \in DOMAIN p.events : p.events[i] \in Answers
           n == IF ~Budgeted THEN r.completion_chars ELSE IF unmeasured THEN MaxChars + 1 ELSE chars
           w == Budgeted /\ (r.runaway \/ unmeasured \/ chars > MaxChars)
<1>1. Observe(r, p) = [r EXCEPT !.response_committed = TRUE, !.normalization_valid = v, !.error_event_seen = e,
                                !.unseen = u, !.deliverable_sent = d, !.completion_chars = n, !.runaway = w]
  BY DEF Observe, split_complete_sse_events
<1>2. e \/ u
  OBVIOUS
<1> HIDE DEF v, e, u, d, n, w
<1>3. Observe(r, p).error_event_seen = e /\ Observe(r, p).unseen = u
  BY <1>1 DEF RelayParts
<1> QED BY <1>2, <1>3

LEMMA PiecesNoted ==
  ASSUME Sse, DOMAIN relay = RelayParts, NEW pieces, NEW z, Pieces(pieces, z), ErrorWent \/ ErrorIn(pieces)
  PROVE  InTurn(Observe, relay, pieces).error_event_seen \/ InTurn(Observe, relay, pieces).unseen
<1>1. CASE pieces = <<z>>
  <2>1. InTurn(Observe, relay, pieces) = Observe(relay, z) /\ (ErrorIn(pieces) => Contains(z.events, "error"))
    BY <1>1 DEF InTurn, ErrorIn
  <2> QED BY <2>1, PieceNoted DEF ErrorWent
<1>2. ASSUME NEW y, pieces = <<y, z>>
      PROVE  InTurn(Observe, relay, pieces).error_event_seen \/ InTurn(Observe, relay, pieces).unseen
  <2> DEFINE mid == Observe(relay, y)
  <2>1. InTurn(Observe, relay, pieces) = Observe(mid, z)
    BY <1>2 DEF InTurn
  <2>2. ErrorIn(pieces) => Contains(y.events, "error") \/ Contains(z.events, "error")
    BY <1>2 DEF ErrorIn
  <2>3. DOMAIN mid = RelayParts
    BY PieceRead
  <2>4. ErrorWent \/ Contains(y.events, "error") => mid.error_event_seen \/ mid.unseen
    BY PieceNoted DEF ErrorWent
  <2> HIDE DEF mid
  <2> QED BY <2>1, <2>2, <2>3, <2>4, PieceNoted
<1> QED BY <1>1, <1>2 DEF Pieces

LEMMA ReturnedStatus ==
  ASSUME Sse, UNCHANGED setting, NEW status \in {"ok", "fail"}, NEW reason, NEW started, Returned(status, reason, started)
  PROVE  /\ result' # Relaying
         /\ result'.status = IF Anthropic /\ translator'.failed THEN "fail" ELSE status
<1>1. CASE Anthropic /\ translator'.failed
  <2> DEFINE h == client'.headers
  <2>1. result' = [status |-> "fail", reason |-> "mid_stream_failure", stream_started |-> h]
    BY <1>1 DEF Returned
  <2> HIDE DEF h
  <2> QED BY <1>1, <2>1 DEF Relaying
<1>2. CASE ~(Anthropic /\ translator'.failed)
  <2>1. result' = [status |-> status, reason |-> reason, stream_started |-> started]
    BY <1>2 DEF Returned
  <2> QED BY <1>2, <2>1 DEF Relaying
<1> QED BY <1>1, <1>2

\* A failure the client has been told of, or has not: what it has decides.
LEMMA FailureIsTrue ==
  ASSUME EndInv, Sse, UNCHANGED setting, EndTyped', NEW reason, NEW started, Returned("fail", reason, started),
         client'.headers /\ ~client'.gone => client'.told = "error"
  PROVE  EndInv'
<1>1. result' # Relaying /\ result'.status = "fail"
  BY ReturnedStatus
<1> QED BY <1>1 DEF EndInv, ToldFollows, EndsAreTrue

\* Before the commit the client has nothing.
LEMMA RetryableIsTrue ==
  ASSUME EndInv, Sse, UNCHANGED setting, NEW reason, Retryable(reason), ~client.headers
  PROVE  EndInv'
<1>1. UNCHANGED <<relay, translator, client>> /\ Returned("fail", reason, FALSE)
  BY DEF Retryable
<1>2. EndTyped'
  BY <1>1 DEF EndInv, EndTyped
<1> QED BY <1>1, <1>2, FailureIsTrue

\* A body that is no stream ends otherwise.
LEMMA PlainBodyIsTrue ==
  ASSUME EndInv, ~Sse, UNCHANGED <<setting, translator>>
  PROVE  EndInv'
BY DEF EndInv, EndTyped, ToldFollows, EndsAreTrue, Sse

LEMMA RelayIsTrue ==
  ASSUME RelayInv, EndInv, result = Relaying, Sse, UNCHANGED setting,
         NEW pieces, NEW z, Pieces(pieces, z), Relay(pieces),
         z.half = half', sse_stream_ended_with_done(frames', half') => sse_stream_ended_with_done(z.events, z.half)
  PROVE  EndInv'
<1> DEFINE T == Translated(pieces)
           V == InTurn(Verbatim, client.told, pieces)
           seen == InTurn(Observe, relay, pieces)
<1>0. DOMAIN relay = RelayParts /\ DOMAIN client = {"headers", "told", "gone"} /\ EndTyped /\ ErrorWent \in BOOLEAN
  <2>1. ErrorWent \in BOOLEAN
    BY DEF ErrorWent
  <2> QED BY <2>1 DEF RelayInv, RelayTyped, EndInv
<1>1. Anthropic => /\ Translation(T) /\ Tells(T, ErrorWent \/ ErrorIn(pieces))
                   /\ sse_stream_ended_with_done(z.events, z.half) /\ z.half = NoHalf => Over(T)
  BY <1>0, PiecesTold DEF EndInv, ToldFollows
<1>2. sse_stream_ended_with_done(z.events, z.half) => V = "done"
  BY TerminatorPassed
<1>3. ErrorWent \/ ErrorIn(pieces) => seen.error_event_seen \/ seen.unseen
  BY <1>0, PiecesNoted
<1>4. /\ translator' = IF Anthropic THEN [f \in DOMAIN translator |-> T[f]] ELSE translator
      /\ \/ client' = Lost /\ Returned("fail", "client_disconnected", CommittedBeforeWrite(relay))
         \/ client' = TellError(Handed(pieces)) /\ Returned("fail", "runaway_output", TRUE)
         \/ relay' = seen /\ client' = Handed(pieces) /\ UNCHANGED result
  BY DEF Relay
<1>5. Handed(pieces) = [client EXCEPT !.headers = TRUE, !.told = IF Anthropic THEN T.told ELSE V]
  BY DEF Handed
<1> HIDE DEF T, V, seen
<1>6. /\ Handed(pieces).told = (IF Anthropic THEN T.told ELSE V)
      /\ DOMAIN Handed(pieces) = {"headers", "told", "gone"}
  BY <1>0, <1>5
<1>7. Anthropic => translator'.closed = T.closed /\ translator'.failed = T.failed /\ translator'.broken = T.broken
  BY <1>0, <1>4 DEF EndTyped, TranslatorParts
<1>8. EndTyped'
  <2>1. DOMAIN translator' = TranslatorParts
    BY <1>0, <1>4 DEF EndTyped
  <2> QED BY <1>0, <1>1, <1>4, <1>7, <2>1 DEF EndTyped, Translation
<1>9. CASE client' = Lost /\ Returned("fail", "client_disconnected", CommittedBeforeWrite(relay))
  <2>1. client'.gone = TRUE
    BY <1>0, <1>9 DEF Lost
  <2> QED BY <1>8, <1>9, <2>1, FailureIsTrue
<1>10. CASE client' = TellError(Handed(pieces)) /\ Returned("fail", "runaway_output", TRUE)
  <2>1. client'.told = "error"
    BY <1>6, <1>10 DEF TellError
  <2> QED BY <1>8, <1>10, <2>1, FailureIsTrue
<1>11. CASE relay' = seen /\ client' = Handed(pieces) /\ UNCHANGED result
  <2>1. EndsAreTrue'
    BY <1>11 DEF EndsAreTrue
  <2>2. Anthropic' = Anthropic
    BY DEF Anthropic
  <2>3. ASSUME Anthropic PROVE Tells(Translating', ErrorWent')
    <3>1. /\ Translating'.closed = T.closed /\ Translating'.failed = T.failed
          /\ Translating'.told = T.told
      BY <1>6, <1>7, <1>11, <2>3 DEF Translating
    <3>2. ErrorWent \/ ErrorIn(pieces) => ErrorWent'
      BY <1>3, <1>11 DEF ErrorWent
    <3> HIDE DEF Translating
    <3>3. Tells(T, ErrorWent')
      BY <1>1, <2>3, <3>2 DEF Tells
    <3> QED BY <3>1, <3>3 DEF Tells
  <2>4. sse_stream_ended_with_done(frames', half') =>
           IF Anthropic THEN half' = NoHalf => Over(translator') ELSE client'.told = "done"
    <3>1. CASE Anthropic
      <4>1. Over(T) => Over(translator')
        BY <1>7, <3>1 DEF Over
      <4> QED BY <1>1, <3>1, <4>1
    <3>2. CASE ~Anthropic
      BY <1>2, <1>6, <1>11, <3>2
    <3> QED BY <3>1, <3>2
  <2>5. ToldFollows'
    BY <2>2, <2>3, <2>4 DEF ToldFollows
  <2> QED BY <1>8, <2>1, <2>5 DEF EndInv
<1> QED BY <1>4, <1>9, <1>10, <1>11

\* A chunk that does not end within a frame brings one.
LEMMA ChunkEnds ==
  ASSUME NEW c \in Chunks
  PROVE  c.half = NoHalf => c.events # <<>>
<1> DEFINE room == (IF Sse THEN MaxFrames ELSE 1) - Len(frames)
           Halves == {NoHalf} \cup [kind : Kinds, cut : {"short", "wide"}] \cup [kind : {"done", "error"}, cut : {"unclosed"}]
           added == UNION {[1..n -> Kinds] : n \in {k \in 0..PerChunk : k <= room}}
           opens == IF half = NoHalf THEN added ELSE {<<half.kind>> \o a : a \in added}
           more == IF half = NoHalf THEN {}
                   ELSE {[events |-> <<>>, half |-> h] : h \in {g \in Halves : g # NoHalf /\ g.kind = half.kind}}
           all == [events : opens, half : Halves] \cup more
<1> HIDE DEF all
<1>1. c \in all /\ (c.events # <<>> \/ c.half \notin {NoHalf, half})
  BY DEF Chunks, all
<1> QED BY <1>1

LEMMA ChunkIsTrue ==
  ASSUME RelayInv, EndInv, Chunk
  PROVE  EndInv'
<1>1. PICK c \in Chunks : /\ frames' = frames \o c.events /\ half' = c.half
                          /\ PassOn(c) \/ HoldBack(c) \/ BufferJson(c)
  BY DEF Chunk
<1>2. result = Relaying /\ UNCHANGED setting
  BY DEF Chunk
<1>3. /\ frames \in Seq(Kinds) /\ c.events \in Seq(Kinds) /\ (c.half = NoHalf => c.events # <<>>)
      /\ client.headers => relay.response_committed
  BY <1>2, ChunkTyped, ChunkEnds DEF RelayInv, RelayTyped, HeadersFollow
<1>4. sse_stream_ended_with_done(frames', half') => sse_stream_ended_with_done(c.events, c.half)
  <2>1. CASE c.half # NoHalf
    BY <1>1, <2>1 DEF sse_stream_ended_with_done
  <2>2. CASE c.half = NoHalf
    <3>1. Last(frames \o c.events) = Last(c.events) /\ c.events # <<>>
      BY <1>3, <2>2 DEF Last
    <3> QED BY <1>1, <2>2, <3>1 DEF sse_stream_ended_with_done
  <2> QED BY <2>1, <2>2
<1> DEFINE last == [events |-> c.events, half |-> c.half, before |-> half]
           whole == [last EXCEPT !.events = frames \o @, !.before = NoHalf]
<1>5. CASE ~Sse
  <2>1. UNCHANGED translator
    BY <1>1, <1>5 DEF PassOn, HoldBack, BufferJson, Retryable, Relay
  <2> QED BY <1>2, <1>5, <2>1, PlainBodyIsTrue
<1>6. CASE Sse /\ PassOn(c)
  <2>1. CASE ~relay.response_committed /\ Retryable("pre_stream_failure")
    BY <1>2, <1>3, <1>6, <2>1, RetryableIsTrue
  <2>2. CASE Relay(<<last>>)
    <3>1. last.events = c.events /\ last.half = c.half
      OBVIOUS
    <3> HIDE DEF last
    <3>2. Pieces(<<last>>, last)
      BY <1>3, <3>1 DEF Pieces
    <3> QED BY <1>1, <1>2, <1>4, <1>6, <2>2, <3>1, <3>2, RelayIsTrue
  <2> QED BY <1>6, <2>1, <2>2 DEF PassOn
<1>7. CASE Sse /\ HoldBack(c)
  <2>0. ~relay.response_committed
    BY <1>7 DEF HoldBack
  <2>1. \/ Retryable("pre_stream_failure")
        \/ UNCHANGED <<relay, translator, client, result>>
        \/ Relay(<<Held, last>>)
        \/ Relay(<<whole>>)
    BY <1>7 DEF HoldBack
  <2>2. CASE Retryable("pre_stream_failure")
    BY <1>2, <1>3, <1>7, <2>0, <2>2, RetryableIsTrue
  <2>3. CASE UNCHANGED <<relay, translator, client, result>>
    <3>1. Translating' = Translating /\ ErrorWent' = ErrorWent /\ Anthropic' = Anthropic /\ Sse' = Sse
      BY <1>2, <2>3 DEF Translating, ErrorWent, Anthropic, Sse
    <3>2. ToldFollows'
      BY <1>2, <1>7, <2>0, <2>3, <3>1 DEF EndInv, ToldFollows
    <3> QED BY <1>2, <2>3, <3>2 DEF EndInv, EndTyped, EndsAreTrue
  <2>4. CASE Relay(<<Held, last>>)
    <3>1. last.events = c.events /\ last.half = c.half /\ Held.events = frames
      BY DEF Held
    <3> HIDE DEF last
    <3>2. Pieces(<<Held, last>>, last)
      BY <1>3, <3>1 DEF Pieces
    <3> QED BY <1>1, <1>2, <1>4, <1>7, <2>4, <3>1, <3>2, RelayIsTrue
  <2>5. CASE Relay(<<whole>>)
    <3>1. whole.events = frames' /\ whole.half = half'
      BY <1>1
    <3> HIDE DEF whole
    <3>2. Pieces(<<whole>>, whole)
      BY <1>1, <1>3, <3>1 DEF Pieces
    <3> QED BY <1>2, <1>7, <2>5, <3>1, <3>2, RelayIsTrue
  <2> QED BY <2>1, <2>2, <2>3, <2>4, <2>5
<1>8. CASE Sse /\ BufferJson(c)
  BY <1>8 DEF BufferJson
<1> QED BY <1>1, <1>5, <1>6, <1>7, <1>8

LEMMA EndSseIsTrue ==
  ASSUME RelayInv, EndInv, EndSse
  PROVE  EndInv'
<1>0. /\ result = Relaying /\ Sse /\ relay.response_committed /\ UNCHANGED <<setting, frames, half>>
      /\ DOMAIN client = {"headers", "told", "gone"} /\ EndTyped
      /\ Anthropic => Tells(Translating, ErrorWent)
      /\ sse_stream_ended_with_done(frames, half) =>
            IF Anthropic THEN half = NoHalf => Over(translator) ELSE client.told = "done"
  BY DEF EndSse, RelayInv, RelayTyped, EndInv, ToldFollows
<1> DEFINE piece == [events |-> <<"done">>, half |-> NoHalf, before |-> NoHalf]
           done == <<piece>>
<1>1. \/ Failing("upstream_error_after_content") \/ Failing("missing_done")
      \/ /\ ~relay.error_event_seen /\ sse_stream_ended_with_done(frames, half)
         /\ UNCHANGED <<relay, translator, client>> /\ Returned("ok", "ok", TRUE)
      \/ /\ ~relay.error_event_seen /\ Normalizable /\ UNCHANGED relay
         /\ translator' = IF Anthropic THEN [f \in DOMAIN translator |-> Translated(done)[f]] ELSE translator
         /\ \/ client' = Lost /\ Returned("fail", "client_disconnected", TRUE)
            \/ client' = Handed(done) /\ Returned("ok", "ok", TRUE)
  BY DEF EndSse
<1>2. CASE Failing("upstream_error_after_content") \/ Failing("missing_done")
  <2>1. client' = TellError(client) /\ UNCHANGED translator /\ Returned("fail", "mid_stream_failure", TRUE)
    BY <1>2 DEF Failing
  <2>2. client'.told = "error"
    BY <1>0, <2>1 DEF TellError
  <2> QED BY <1>0, <2>1, <2>2, FailureIsTrue DEF EndTyped
<1>3. CASE /\ ~relay.error_event_seen /\ sse_stream_ended_with_done(frames, half)
           /\ UNCHANGED <<relay, translator, client>> /\ Returned("ok", "ok", TRUE)
  <2>1. EndTyped'
    BY <1>0, <1>3 DEF EndTyped
  <2>2. result' # Relaying /\ result'.status = IF Anthropic /\ translator'.failed THEN "fail" ELSE "ok"
    BY <1>0, <1>3, ReturnedStatus
  <2>3. Translating.closed = translator.closed /\ Translating.failed = translator.failed /\ Translating.told = client.told
    BY DEF Translating
  <2>4. CASE Anthropic
    <3>1. half = NoHalf => Over(translator)
      BY <1>0, <1>3, <2>4
    <3>2. Tells(Translating, ErrorWent)
      BY <1>0, <2>4
    <3>3. ~LeftUnread => half = NoHalf /\ ~ErrorWent
      BY <1>3, <2>4 DEF LeftUnread, ErrorWent
    <3> HIDE DEF Translating
    <3>4. ~LeftUnread => client.told = IF translator.failed THEN "error" ELSE "stop"
      BY <2>3, <3>1, <3>2, <3>3 DEF Tells, Over
    <3>5. LeftUnread' = LeftUnread
      BY <1>0, <1>3 DEF LeftUnread, Anthropic
    <3>6. EndsAreTrue'
      BY <1>0, <1>3, <2>2, <2>4, <3>4, <3>5 DEF EndsAreTrue
    <3> QED BY <2>1, <2>2, <3>6 DEF EndInv, ToldFollows
  <2>5. CASE ~Anthropic
    <3>1. client'.told = "done" /\ result'.status = "ok"
      BY <1>0, <1>3, <2>2, <2>5
    <3>2. EndsAreTrue'
      BY <1>0, <1>3, <3>1 DEF EndsAreTrue
    <3> QED BY <2>1, <2>2, <3>2 DEF EndInv, ToldFollows
  <2> QED BY <2>4, <2>5
<1>4. CASE /\ ~relay.error_event_seen /\ Normalizable /\ UNCHANGED relay
           /\ translator' = IF Anthropic THEN [f \in DOMAIN translator |-> Translated(done)[f]] ELSE translator
           /\ \/ client' = Lost /\ Returned("fail", "client_disconnected", TRUE)
              \/ client' = Handed(done) /\ Returned("ok", "ok", TRUE)
  <2> DEFINE T == Translated(done)
             V == InTurn(Verbatim, client.told, done)
  <2>1. /\ Pieces(done, piece) /\ sse_stream_ended_with_done(piece.events, piece.half) /\ piece.half = NoHalf
        /\ ~ErrorIn(done)
    <3>1. <<"done">> \in Seq(Kinds)
      BY DEF Kinds
    <3> QED BY <3>1 DEF Pieces, sse_stream_ended_with_done, Last, ErrorIn, Contains
  <2>2. Handed(done) = [client EXCEPT !.headers = TRUE, !.told = IF Anthropic THEN T.told ELSE V]
    BY <1>0 DEF Handed
  <2>3. half = NoHalf /\ EndsInFinish(frames)
    BY <1>4 DEF Normalizable, finish_reason_from_clean_sse_eof
  <2> HIDE DEF done, piece
  <2>4. ErrorWent \in BOOLEAN
    BY DEF ErrorWent
  <2>5. Anthropic => Translation(T) /\ Tells(T, ErrorWent \/ ErrorIn(done)) /\ Over(T)
    BY <1>0, <2>1, <2>4, PiecesTold
  <2>6. V = "done"
    BY <2>1, TerminatorPassed
  <2> HIDE DEF T, V
  <2>7. Handed(done).told = IF Anthropic THEN T.told ELSE V
    BY <1>0, <2>2
  <2>8. Anthropic => translator'.closed = T.closed /\ translator'.failed = T.failed /\ translator'.broken = T.broken
    BY <1>0, <1>4 DEF EndTyped, TranslatorParts, T
  <2>9. EndTyped'
    <3>1. DOMAIN translator' = TranslatorParts
      BY <1>0, <1>4 DEF EndTyped
    <3> QED BY <1>0, <1>4, <2>5, <2>8, <3>1 DEF EndTyped, Translation
  <2>10. CASE client' = Lost /\ Returned("fail", "client_disconnected", TRUE)
    <3>1. client'.gone = TRUE
      BY <1>0, <2>10 DEF Lost
    <3> QED BY <1>0, <2>9, <2>10, <3>1, FailureIsTrue
  <2>11. CASE client' = Handed(done) /\ Returned("ok", "ok", TRUE)
    <3>1. result' # Relaying /\ result'.status = IF Anthropic /\ translator'.failed THEN "fail" ELSE "ok"
      BY <1>0, <2>11, ReturnedStatus
    <3>2. ~LeftUnread' => ~ErrorWent
      BY <1>4 DEF LeftUnread, ErrorWent
    <3>3. CASE Anthropic
      <4>1. ~LeftUnread' => client'.told = IF translator'.failed THEN "error" ELSE "stop"
        BY <2>1, <2>5, <2>7, <2>8, <2>11, <3>2, <3>3 DEF Tells, Over
      <4>2. EndsAreTrue'
        BY <1>0, <2>3, <3>1, <3>3, <4>1 DEF EndsAreTrue
      <4> QED BY <2>9, <3>1, <4>2 DEF EndInv, ToldFollows
    <3>4. CASE ~Anthropic
      <4>1. client'.told = "done" /\ result'.status = "ok"
        BY <2>6, <2>7, <2>11, <3>1, <3>4
      <4>2. EndsAreTrue'
        BY <1>0, <2>3, <4>1 DEF EndsAreTrue
      <4> QED BY <2>9, <3>1, <4>2 DEF EndInv, ToldFollows
    <3> QED BY <3>3, <3>4
  <2> QED BY <1>4, <2>10, <2>11
<1> QED BY <1>1, <1>2, <1>3, <1>4

LEMMA EndsStay ==
  ASSUME RelayInv, EndInv, [StreamNext]_streamVars
  PROVE  EndInv'
<1>0. /\ result = Relaying => (client.headers => relay.response_committed)
      /\ DOMAIN client = {"headers", "told", "gone"} /\ EndTyped
  BY DEF RelayInv, RelayTyped, HeadersFollow, EndInv
<1>1. CASE Chunk
  BY <1>1, ChunkIsTrue
<1>2. CASE EndSse
  BY <1>2, EndSseIsTrue
<1>3. CASE UpstreamRaises
  <2>1. result = Relaying /\ UNCHANGED setting
    BY <1>3 DEF UpstreamRaises
  <2>2. CASE ~Sse
    <3>1. UNCHANGED translator
      BY <1>3 DEF UpstreamRaises, Retryable
    <3> QED BY <2>1, <2>2, <3>1, PlainBodyIsTrue
  <2>3. CASE Sse /\ relay.response_committed
    <3>1. client' = TellError(client) /\ UNCHANGED translator /\ Returned("fail", "mid_stream_failure", TRUE)
      BY <1>3, <2>3 DEF UpstreamRaises
    <3>2. client'.told = "error"
      BY <1>0, <2>3, <3>1 DEF TellError
    <3> QED BY <1>0, <2>1, <2>3, <3>1, <3>2, FailureIsTrue DEF EndTyped
  <2>4. CASE Sse /\ ~relay.response_committed
    <3>1. Retryable("pre_stream_failure")
      BY <1>3, <2>4 DEF UpstreamRaises
    <3> QED BY <1>0, <2>1, <2>4, <3>1, RetryableIsTrue
  <2> QED BY <2>2, <2>3, <2>4
<1>4. CASE EndJson
  <2>1. ~Sse /\ UNCHANGED <<setting, translator>>
    BY <1>4 DEF EndJson, TranslateJson, Retryable
  <2> QED BY <2>1, PlainBodyIsTrue
<1>5. CASE MeasureJson
  <2>1. ~Sse /\ UNCHANGED <<setting, translator>>
    BY <1>5 DEF MeasureJson, Retryable, Relay
  <2> QED BY <2>1, PlainBodyIsTrue
<1>6. CASE EndEmpty
  <2>1. result = Relaying /\ UNCHANGED setting /\ ~relay.response_committed /\ Retryable("empty_stream")
    BY <1>6 DEF EndEmpty
  <2>2. UNCHANGED translator
    BY <2>1 DEF Retryable
  <2> QED BY <1>0, <2>1, <2>2, RetryableIsTrue, PlainBodyIsTrue
<1>7. CASE UNCHANGED streamVars
  <2>1. Translating' = Translating /\ ErrorWent' = ErrorWent /\ Anthropic' = Anthropic /\ Sse' = Sse /\ LeftUnread' = LeftUnread
    BY <1>7 DEF streamVars, Translating, ErrorWent, Anthropic, Sse, LeftUnread
  <2> QED BY <1>7, <2>1 DEF streamVars, EndInv, EndTyped, ToldFollows, EndsAreTrue
<1> QED BY <1>1, <1>2, <1>3, <1>4, <1>5, <1>6, <1>7 DEF StreamNext

\* What stream_response records of a stream is what its client has, for bodies of any length cut
\* anywhere: recorded as answered, it ends with the terminator the upstream sent or owed; recorded as
\* failed, the client that is still there was told of the failure last.  Left aside are the bytes the
\* relay decides on without reading them (LeftUnread).
THEOREM EndsStayTrue == StreamSpec => []EndsAreTrue
<1>1. ASSUME StreamInit PROVE EndInv
  <2>1. /\ DOMAIN translator = TranslatorParts
        /\ translator.closed = FALSE /\ translator.failed = FALSE /\ translator.broken = FALSE
    BY <1>1 DEF StreamInit, TranslatorParts
  <2>2. result = Relaying /\ relay.response_committed = FALSE
    BY <1>1 DEF StreamInit, FreshRelay
  <2>3. Translating.closed = FALSE /\ Translating.failed = FALSE
    BY <2>1 DEF Translating
  <2> QED BY <2>1, <2>2, <2>3 DEF EndInv, EndTyped, ToldFollows, Tells, EndsAreTrue
<1>2. EndInv => EndsAreTrue
  BY DEF EndInv
<1> QED BY <1>1, <1>2, RelayBegins, RelaySteps, EndsStay, PTL DEF StreamSpec

------------------------------------------------------------------------------
(* What a rejection means, and what the caller is told.                    *)

Whys ==
    {VerdictOn(r) : r \in Rejections}
      \cup {"timeout", "request_deadline_exceeded", "tls_error", "unsupported_tool_schema", "context_length_exceeded",
            "request_too_large"}
      \cup DOMAIN TerminalEndings

\* The one row of an attempt that was not made is the last, and there is one before it.
MadeBut ==
    \A i \in DOMAIN errors : ~errors[i].attempted => i = Len(errors) /\ i # 1 /\ ending # "none"

FailuresInv ==
    /\ heard \in Rejections \cup {Silence, Unsent}
    /\ errors \in Seq([reason : Whys, attempted : BOOLEAN]) /\ ending \in DOMAIN TerminalEndings
    /\ MadeBut /\ VerdictsAgree

LEMMA RowJoins ==
  ASSUME FailuresInv, ending = "none", NEW row \in [reason : Whys, attempted : BOOLEAN], errors' = Append(errors, row),
         ending' \in DOMAIN TerminalEndings, ~row.attempted => errors # <<>> /\ ending' # "none"
  PROVE  errors' \in Seq([reason : Whys, attempted : BOOLEAN]) /\ MadeBut'
<1>1. errors \in Seq([reason : Whys, attempted : BOOLEAN])
  BY DEF FailuresInv
<1>2. errors' \in Seq([reason : Whys, attempted : BOOLEAN]) /\ Len(errors') = Len(errors) + 1 /\ Len(errors) \in Nat
      /\ errors'[Len(errors) + 1] = row /\ \A i \in 1..Len(errors) : errors'[i] = errors[i]
  BY <1>1
<1>3. errors # <<>> => Len(errors) # 0
  BY <1>1
<1>4. \A i \in DOMAIN errors : errors[i].attempted
  BY DEF FailuresInv, MadeBut
<1>5. ASSUME NEW i \in 1..(Len(errors) + 1), ~errors'[i].attempted
      PROVE  i = Len(errors') /\ i # 1 /\ ending' # "none"
  <2>1. i = Len(errors) + 1
    BY <1>1, <1>2, <1>4, <1>5
  <2> QED BY <2>1, <1>2, <1>3, <1>5
<1> QED BY <1>2, <1>5 DEF MadeBut

\* The status, the type of the payload, what it quotes and the log are one verdict.
LEMMA AnswerAgrees ==
  ASSUME FailuresInv, build_upstream_failure_response
  PROVE  VerdictsAgree'
<1> DEFINE tried == AttemptedRows(errors)
           own == TerminalEndings[ending]
           status == upstream_failure_status(errors, ending)
           error == build_upstream_failure_error(errors, ending)
           noted == route_log_failure_status(errors, ending)
           told == failure_route_reason(errors, ending)
           last == CHOOSE i \in tried : \A j \in tried : j <= i
           tools == every_attempt_failed_with(errors, tried, "unsupported_tool_schema")
           bad == every_attempt_failed_with(errors, tried, "bad_upstream_request")
           long == every_attempt_failed_with(errors, tried, "context_length_exceeded")
<1>1. errors \in Seq([reason : Whys, attempted : BOOLEAN]) /\ errors # <<>> /\ ending \in DOMAIN TerminalEndings /\ MadeBut
  BY DEF FailuresInv, build_upstream_failure_response
<1>2. answer' = [status |-> status, error |-> error, body |-> own.body, log |-> noted, reason |-> told]
  BY DEF build_upstream_failure_response
<1>3. last \in tried
  <2>1. Len(errors) \in Nat /\ Len(errors) # 0 /\ DOMAIN errors = 1..Len(errors)
    BY <1>1
  <2>2. CASE errors[Len(errors)].attempted
    <3>1. Len(errors) \in tried /\ \A j \in tried : j <= Len(errors)
      BY <2>1, <2>2 DEF AttemptedRows
    <3> HIDE DEF tried
    <3> QED BY <3>1
  <2>3. CASE ~errors[Len(errors)].attempted
    <3>1. Len(errors) # 1 /\ \A i \in DOMAIN errors : i # Len(errors) => errors[i].attempted
      BY <1>1, <2>1, <2>3 DEF MadeBut
    <3>2. Len(errors) - 1 \in tried /\ \A j \in tried : j <= Len(errors) - 1
      BY <2>1, <2>3, <3>1 DEF AttemptedRows
    <3> HIDE DEF tried
    <3> QED BY <3>2
  <2> QED BY <2>2, <2>3
<1>4. errors[last].attempted
  BY <1>3 DEF AttemptedRows
<1>5. /\ own.status = IF ending = "service_restarting" THEN 503 ELSE 0
      /\ own.type = "service_restarting" <=> ending = "service_restarting"
      /\ own.type # "invalid_request_error"
      /\ own.body <=> ending # "client_disconnected"
      /\ own.log = IF ending = "client_disconnected" THEN 499 ELSE 0
  <2>1. ending \in {"client_disconnected", "service_restarting", "request_deadline_exceeded", "none"}
    BY <1>1 DEF TerminalEndings
  <2>2. CASE ending = "client_disconnected"
    BY <2>2 DEF TerminalEndings
  <2>3. CASE ending = "service_restarting"
    BY <2>3 DEF TerminalEndings
  <2>4. CASE ending \in {"request_deadline_exceeded", "none"}
    BY <2>4 DEF TerminalEndings
  <2> QED BY <2>1, <2>2, <2>3, <2>4
<1> HIDE DEF own, tried, last
<1>6. /\ status \in {422, 400, own.status, 429, 504, 502}
      /\ status \in {422, 400} <=> tools \/ bad \/ long
      /\ ~(tools \/ bad \/ long) => status = IF own.status # 0 THEN own.status ELSE status
      /\ ~(tools \/ bad \/ long) /\ own.status = 0 => status \in {429, 504, 502}
  BY <1>5 DEF upstream_failure_status, tried, own
<1>7. /\ error.type = IF tools \/ bad \/ long THEN "invalid_request_error"
                      ELSE IF own.type # "none" THEN own.type ELSE "upstream_failure"
      /\ error.quotes = IF tools \/ bad \/ long THEN errors[last] ELSE [reason |-> "none", attempted |-> TRUE]
  BY DEF build_upstream_failure_error, RowsJudged, tried, own, last
<1>8. noted = IF own.log # 0 THEN own.log ELSE status
  BY DEF route_log_failure_status, own
<1> HIDE DEF tools, bad, long, status, error, noted, told
<1>9. answer'.status = status /\ answer'.error = error /\ answer'.body = own.body /\ answer'.log = noted
  BY <1>2
<1>10. (error.type = "invalid_request_error") = (status \in {400, 422})
  BY <1>5, <1>6, <1>7
<1>11. (error.type = "service_restarting") = (status = 503)
  BY <1>5, <1>6, <1>7
<1>12. error.quotes.attempted
  BY <1>4, <1>7
<1>13. IF own.body THEN noted = status ELSE noted = 499
  <2>1. CASE ending = "client_disconnected"
    BY <1>5, <1>8, <2>1
  <2>2. CASE ending # "client_disconnected"
    BY <1>5, <1>8, <2>2
  <2> QED BY <2>1, <2>2
<1> QED BY <1>9, <1>10, <1>11, <1>12, <1>13 DEF VerdictsAgree

LEMMA RowsAreSeq ==
  ASSUME NEW R, NEW n \in Nat, NEW f \in [1..n -> R]
  PROVE  f \in Seq(R)
OBVIOUS

LEMMA FailuresBegin == FailuresInit => FailuresInv
BY DEF FailuresInit, FailuresInv, MadeBut, VerdictsAgree, TerminalEndings

LEMMA FailuresSteps == FailuresInv /\ [FailuresNext]_failuresVars => FailuresInv'
<1> SUFFICES ASSUME FailuresInv, [FailuresNext]_failuresVars PROVE FailuresInv'
  OBVIOUS
<1>0. /\ heard \in Rejections \cup {Silence, Unsent} /\ ending \in DOMAIN TerminalEndings
      /\ errors \in Seq([reason : Whys, attempted : BOOLEAN]) /\ MadeBut /\ VerdictsAgree
  BY DEF FailuresInv
<1>1. CASE Hear
  <2>1. PICK r \in Rejections : heard' = r /\ errors' = Append(errors, [reason |-> VerdictOn(r), attempted |-> TRUE])
    BY <1>1 DEF Hear
  <2>2. ending = "none" /\ UNCHANGED <<ending, answer>>
    BY <1>1 DEF Hear, Open
  <2> DEFINE row == [reason |-> VerdictOn(r), attempted |-> TRUE]
  <2>3. row \in [reason : Whys, attempted : BOOLEAN] /\ row.attempted
    BY DEF Whys
  <2> HIDE DEF row
  <2>4. errors' = Append(errors, row)
    BY <2>1 DEF row
  <2>5. errors' \in Seq([reason : Whys, attempted : BOOLEAN]) /\ MadeBut'
    BY <1>0, <2>2, <2>3, <2>4, RowJoins
  <2> QED BY <1>0, <2>1, <2>2, <2>5 DEF FailuresInv, VerdictsAgree
<1>2. CASE GoOn
  BY <1>0, <1>2 DEF GoOn, FailuresInv, VerdictsAgree, MadeBut
<1>3. ASSUME NEW reason \in {"timeout", "request_deadline_exceeded", "tls_error"}, Raise(reason) PROVE FailuresInv'
  <2> DEFINE row == [reason |-> reason, attempted |-> TRUE]
  <2>1. row \in [reason : Whys, attempted : BOOLEAN] /\ row.attempted
    BY DEF Whys
  <2>2. errors' = Append(errors, row) /\ ending = "none" /\ UNCHANGED <<heard, ending, answer>>
    BY <1>3 DEF Raise, Open
  <2> HIDE DEF row
  <2>3. errors' \in Seq([reason : Whys, attempted : BOOLEAN]) /\ MadeBut'
    BY <1>0, <2>1, <2>2, RowJoins
  <2> QED BY <1>0, <2>2, <2>3 DEF FailuresInv, VerdictsAgree
<1>4. ASSUME NEW reasons \in [1..2 -> {"unsupported_tool_schema", "context_length_exceeded", "request_too_large"}],
             Exclude(reasons)
      PROVE  FailuresInv'
  <2>1. errors' = [i \in 1..2 |-> [reason |-> reasons[i], attempted |-> TRUE]] /\ heard' = Unsent /\ UNCHANGED <<ending, answer>>
    BY <1>4 DEF Exclude
  <2>2. \A i \in 1..2 : reasons[i] \in Whys
    BY DEF Whys
  <2>3. errors' \in [1..2 -> [reason : Whys, attempted : BOOLEAN]] /\ \A i \in 1..2 : errors'[i].attempted
    BY <2>1, <2>2
  <2>4. errors' \in Seq([reason : Whys, attempted : BOOLEAN])
    BY <2>3, RowsAreSeq
  <2>5. MadeBut'
    BY <2>3 DEF MadeBut
  <2> QED BY <1>0, <2>1, <2>4, <2>5 DEF FailuresInv, VerdictsAgree
<1>5. ASSUME NEW end \in DOMAIN TerminalEndings \ {"none"}, Stop(end) PROVE FailuresInv'
  <2> DEFINE row == [reason |-> end, attempted |-> FALSE]
  <2>1. row \in [reason : Whys, attempted : BOOLEAN]
    BY DEF Whys
  <2>2. errors' = Append(errors, row) /\ errors # <<>> /\ ending = "none" /\ ending' = end /\ UNCHANGED <<heard, answer>>
    BY <1>5 DEF Stop, Open
  <2> HIDE DEF row
  <2>3. errors' \in Seq([reason : Whys, attempted : BOOLEAN]) /\ MadeBut'
    BY <1>0, <2>1, <2>2, RowJoins
  <2> QED BY <1>0, <2>2, <2>3 DEF FailuresInv, VerdictsAgree
<1>6. CASE build_upstream_failure_response
  <2>1. UNCHANGED <<heard, errors, ending>>
    BY <1>6 DEF build_upstream_failure_response
  <2> QED BY <1>0, <1>6, <2>1, AnswerAgrees DEF FailuresInv, MadeBut
<1>7. CASE UNCHANGED failuresVars
  BY <1>0, <1>7 DEF failuresVars, FailuresInv, VerdictsAgree, MadeBut
<1> QED BY <1>1, <1>2, <1>3, <1>4, <1>5, <1>6, <1>7 DEF FailuresNext

------------------------------------------------------------------------------

\* The bare word that may be the caller's is not read where it could change a verdict on his request.
LEMMA WordIsNotRead ==
  ASSUME NEW status, NEW codes, NEW said, NEW text, NEW quotaFree, \A w : w # "token" => (w \in text <=> w \in said),
         quotes_caller_request(status, status_for_error_codes(codes)) \/ status = 402
  PROVE  Readings(status, codes, text, quotaFree) = Readings(status, codes, said, quotaFree)
<1> DEFINE named == status_for_error_codes(codes)
           s == IF status = NoStatus THEN 200 ELSE status
           demands == IF quotes_caller_request(status, named) THEN PaymentDemand ELSE FalseFree
<1>1. /\ \A w \in {"zero", "forbids", "tags", "quota", "account", "too_long", "wide", "gone", "contract"} :
             (w \in text) = (w \in said)
      /\ ({"pool", "ours"} \subseteq text) = ({"pool", "ours"} \subseteq said)
      /\ ({"ours", "entitle"} \subseteq text) = ({"ours", "entitle"} \subseteq said)
  OBVIOUS
<1>2. (402 \in {s, named} \/ text \cap demands # {}) = (402 \in {s, named} \/ said \cap demands # {})
  <2>1. CASE quotes_caller_request(status, named)
    <3>1. demands = {"payment", "quota"}
      BY <2>1 DEF PaymentDemand, FalseFree
    <3> QED BY <3>1
  <2>2. CASE status = 402
    BY <2>2 DEF NoStatus
  <2> QED BY <2>1, <2>2
<1> QED BY <1>1, <1>2 DEF Readings

\* A rejection of a schema is read off its structure, whatever else is in its text.
LEMMA StructureIsRead ==
  ASSUME NEW status \in RejectionStatuses, NEW codes, NEW said, NEW echo \in SUBSET {"token", "quota"}, NEW quotaFree,
         "forbids" \in said, status_for_error_codes(codes) \in RejectionStatuses \cup {NoStatus}
  PROVE  classify_failure(status, codes, said \cup echo, quotaFree) = classify_failure(status, codes, said, quotaFree)
<1> DEFINE named == status_for_error_codes(codes)
           Table(text) == Readings(status, codes, text, quotaFree)
           First(table) == CHOOSE i \in DOMAIN table : table[i][1] /\ \A j \in 1..(i - 1) : ~table[j][1]
<1>1. ASSUME NEW text, "forbids" \in text
      PROVE  /\ DOMAIN Table(text) = 1..23
             /\ ~Table(text)[1][1] /\ ~Table(text)[2][1] /\ ~Table(text)[3][1] /\ Table(text)[4][1]
             /\ Table(text)[4][2] = "bad_upstream_contract"
  <2>1. status \in {400, 422} /\ named \in {400, 422, 0}
    BY DEF RejectionStatuses, NoStatus
  <2>2. DOMAIN Table(text) = 1..23
    BY DEF Readings
  <2> DEFINE emptied == quotaFree /\ "insufficient_quota" \in NamesIn(codes) /\ named = 429
             s == IF status = NoStatus THEN 200 ELSE status
             c1 == emptied /\ "zero" \in text
             c3 == s = 403 /\ "free_quota_exhausted" \in NamesIn(codes)
             c4 == /\ s \in RejectionStatuses
                   /\ named \in RejectionStatuses \cup {NoStatus} /\ "forbids" \in text
  <2>5. /\ Table(text)[1] = <<c1, "no_free_quota">> /\ Table(text)[2] = <<emptied, "quota_exhausted">>
        /\ Table(text)[3] = <<c3, "quota_exhausted">> /\ Table(text)[4] = <<c4, "bad_upstream_contract">>
    BY DEF Readings
  <2>6. ~emptied /\ ~c1
    BY <2>1
  <2>7. ~c3 /\ c4
    BY <2>1, <1>1 DEF RejectionStatuses, NoStatus
  <2>8. /\ Table(text)[1][1] = c1 /\ Table(text)[2][1] = emptied /\ Table(text)[3][1] = c3
        /\ Table(text)[4][1] = c4 /\ Table(text)[4][2] = "bad_upstream_contract"
    <3> HIDE DEF Table, c1, c3, c4, emptied
    <3> QED BY <2>5
  <2> HIDE DEF Table, c1, c3, c4, emptied
  <2>3. ~Table(text)[1][1] /\ ~Table(text)[2][1] /\ ~Table(text)[3][1]
    BY <2>6, <2>7, <2>8, Zenon
  <2>4. Table(text)[4][1] /\ Table(text)[4][2] = "bad_upstream_contract"
    BY <2>7, <2>8, Zenon
  <2> QED BY <2>2, <2>3, <2>4
<1>2. ASSUME NEW text, "forbids" \in text PROVE classify_failure(status, codes, text, quotaFree) = "bad_upstream_contract"
  <2> DEFINE table == Table(text)
  <2>1. classify_failure(status, codes, text, quotaFree) = table[First(table)][2]
    BY DEF classify_failure
  <2>2. DOMAIN table = 1..23 /\ ~table[1][1] /\ ~table[2][1] /\ ~table[3][1] /\ table[4][1]
        /\ table[4][2] = "bad_upstream_contract"
    BY <1>1, <1>2
  <2> HIDE DEF table, Table
  <2>3. \A j \in 1..3 : ~table[j][1]
    BY <2>2
  <2>4. 4 \in DOMAIN table /\ table[4][1] /\ \A j \in 1..(4 - 1) : ~table[j][1]
    BY <2>2, <2>3
  <2>5. First(table) \in DOMAIN table /\ table[First(table)][1] /\ \A j \in 1..(First(table) - 1) : ~table[j][1]
    BY <2>4
  <2> HIDE DEF First
  <2>6. First(table) = 4
    BY <2>2, <2>3, <2>5
  <2> QED BY <2>1, <2>2, <2>6
<1> QED BY <1>2


StatusOfOne(c) ==
  IF c \in DOMAIN CanonicalStatus THEN CanonicalStatus[c] ELSE IF c \in PaymentCodes THEN 402 ELSE NoStatus
StatusOfTwo(c, d) ==
  IF c \in DOMAIN CanonicalStatus THEN CanonicalStatus[c]
  ELSE IF d \in DOMAIN CanonicalStatus THEN CanonicalStatus[d]
  ELSE IF c \in PaymentCodes \/ d \in PaymentCodes THEN 402 ELSE NoStatus

\* The status that the fields of an error object state: the first canonical name, or a word of payment.
LEMMA NamesState ==
  /\ status_for_error_codes(<<>>) = NoStatus
  /\ \A c : status_for_error_codes(<<c>>) = StatusOfOne(c)
  /\ \A c, d : status_for_error_codes(<<c, d>>) = StatusOfTwo(c, d)
<1> USE DEF StatusOfOne, StatusOfTwo
<1> DEFINE Canonical(codes) == {i \in DOMAIN codes : codes[i] \in DOMAIN CanonicalStatus}
           First(I) == CHOOSE i \in I : \A j \in I : i <= j
<1>1. ASSUME NEW codes
      PROVE  status_for_error_codes(codes) =
               IF Canonical(codes) # {} THEN CanonicalStatus[codes[First(Canonical(codes))]]
               ELSE IF NamesIn(codes) \cap PaymentCodes # {} THEN 402 ELSE NoStatus
  BY DEF status_for_error_codes
<1>2. First({1}) = 1 /\ First({2}) = 2
  OBVIOUS
<1>3. First({1, 2}) = 1
  <2>1. 1 \in {1, 2} /\ \A j \in {1, 2} : 1 <= j
    OBVIOUS
  <2>2. First({1, 2}) \in {1, 2} /\ \A j \in {1, 2} : First({1, 2}) <= j
    BY <2>1
  <2> QED BY <2>2
<1> HIDE DEF First
<1>4. status_for_error_codes(<<>>) = NoStatus
  <2>1. Canonical(<<>>) = {} /\ NamesIn(<<>>) = {}
    BY DEF NamesIn
  <2> HIDE DEF Canonical
  <2> QED BY <1>1, <2>1
<1>5. ASSUME NEW c PROVE status_for_error_codes(<<c>>) = StatusOfOne(c)
  <2>1. Canonical(<<c>>) = IF c \in DOMAIN CanonicalStatus THEN {1} ELSE {}
    OBVIOUS
  <2>2. NamesIn(<<c>>) \cap PaymentCodes # {} <=> c \in PaymentCodes
    BY DEF NamesIn, PaymentCodes
  <2> HIDE DEF Canonical
  <2> QED BY <1>1, <1>2, <2>1, <2>2
<1>6. ASSUME NEW c, NEW d PROVE status_for_error_codes(<<c, d>>) = StatusOfTwo(c, d)
  <2>1. Canonical(<<c, d>>) = (IF c \in DOMAIN CanonicalStatus THEN {1} ELSE {})
                                \cup (IF d \in DOMAIN CanonicalStatus THEN {2} ELSE {})
    OBVIOUS
  <2>2. NamesIn(<<c, d>>) \cap PaymentCodes # {} <=> c \in PaymentCodes \/ d \in PaymentCodes
    BY DEF NamesIn, PaymentCodes
  <2> HIDE DEF Canonical
  <2>3. CASE c \in DOMAIN CanonicalStatus
    <3>1. Canonical(<<c, d>>) = {1} \/ Canonical(<<c, d>>) = {1, 2}
      BY <2>1, <2>3
    <3> QED BY <1>1, <1>2, <1>3, <2>3, <3>1
  <2>4. CASE c \notin DOMAIN CanonicalStatus /\ d \in DOMAIN CanonicalStatus
    BY <1>1, <1>2, <2>1, <2>4
  <2>5. CASE c \notin DOMAIN CanonicalStatus /\ d \notin DOMAIN CanonicalStatus
    BY <1>1, <2>1, <2>2, <2>5
  <2> QED BY <2>3, <2>4, <2>5
<1> QED BY <1>4, <1>5, <1>6

LEMMA NoneStates ==
  ASSUME NEW c
  PROVE  /\ status_for_error_codes(<<"none", c>>) = status_for_error_codes(<<c>>)
         /\ status_for_error_codes(<<c, "none">>) = status_for_error_codes(<<c>>)
         /\ status_for_error_codes(<<"none", "none">>) = NoStatus
<1> DEFINE none == "none"
<1>1. none \notin DOMAIN CanonicalStatus /\ none \notin PaymentCodes
  BY DEF CanonicalStatus, PaymentCodes
<1> HIDE DEF none
<1>5. /\ StatusOfTwo(none, c) = StatusOfOne(c) /\ StatusOfTwo(c, none) = StatusOfOne(c)
      /\ StatusOfTwo(none, none) = NoStatus
  BY <1>1 DEF StatusOfOne, StatusOfTwo
<1>2. status_for_error_codes(<<none, c>>) = status_for_error_codes(<<c>>)
  BY <1>5, NamesState
<1>3. status_for_error_codes(<<c, none>>) = status_for_error_codes(<<c>>)
  BY <1>5, NamesState
<1>4. status_for_error_codes(<<none, none>>) = NoStatus
  BY <1>5, NamesState
<1> QED BY <1>2, <1>3, <1>4 DEF none

\* An echo changes no verdict that is read by a status of the request's, of none, or of payment.
LEMMA EchoIsUnread ==
  ASSUME NEW r \in Rejections, NEW status \in Nat, NEW codes,
         quotes_caller_request(status, status_for_error_codes(codes)) \/ status = 402,
         "quota" \in r.echo => /\ status \in RejectionStatuses
                              /\ status_for_error_codes(codes) \in RejectionStatuses \cup {NoStatus}
  PROVE  classify_failure(status, codes, r.said \cup r.echo, r.quotaFree) = classify_failure(status, codes, r.said, r.quotaFree)
<1> DEFINE said == r.said
           echo == r.echo
           quotaFree == r.quotaFree
<1>1. echo \in SUBSET {"token", "quota"} /\ ("quota" \in echo => "forbids" \in said)
  BY RejectionsArePlausible
<1>2. "quota" \in echo => /\ status \in RejectionStatuses
                         /\ status_for_error_codes(codes) \in RejectionStatuses \cup {NoStatus}
  OBVIOUS
<1> HIDE DEF said, echo, quotaFree
<1>3. CASE "quota" \in echo
  <2>1. classify_failure(status, codes, said \cup echo, quotaFree) = classify_failure(status, codes, said, quotaFree)
    BY <1>1, <1>2, <1>3, StructureIsRead
  <2> QED BY <2>1 DEF said, echo, quotaFree
<1>4. CASE "quota" \notin echo
  <2>1. echo \in SUBSET {"token"}
    BY <1>1, <1>4
  <2> DEFINE Decided(table) ==
               table[CHOOSE i \in DOMAIN table : table[i][1] /\ \A j \in 1..(i - 1) : ~table[j][1]][2]
             text == said \cup echo
             with == Readings(status, codes, text, quotaFree)
             without == Readings(status, codes, said, quotaFree)
  <2>2. \A w : w # "token" => (w \in text <=> w \in said)
    BY <2>1
  <2> HIDE DEF text
  <2>6. with = without
    BY <2>2, WordIsNotRead
  <2>3. /\ classify_failure(status, codes, text, quotaFree) = Decided(with)
        /\ classify_failure(status, codes, said, quotaFree) = Decided(without)
    BY DEF classify_failure
  <2>4. Decided(with) = Decided(without)
    <3> HIDE DEF with, without, Decided
    <3> QED BY <2>6
  <2>5. classify_failure(status, codes, text, quotaFree) = classify_failure(status, codes, said, quotaFree)
    <3> HIDE DEF with, without, Decided
    <3> QED BY <2>3, <2>4
  <2> QED BY <2>5 DEF text, said, echo, quotaFree
<1> QED BY <1>3, <1>4

LEMMA EchoSaysNothing ==
  ASSUME NEW r \in Rejections, AboutTheRequest(r)
  PROVE  VerdictOn(r) = VerdictOn([r EXCEPT !.echo = {}])
<1> DEFINE q == [r EXCEPT !.echo = {}]
           named == status_for_error_codes(CodesOf(r))
<1>0. DOMAIN r = {"door", "status", "number", "code", "type", "said", "echo", "quotaFree"}
  BY RejectionsArePlausible
<1>1. /\ r.door \in {"http", "wrapped", "streamed"} /\ r.status \in Nat /\ r.number \in Nat
      /\ "quota" \in r.echo => r.door = "http" /\ r.status \in RejectionStatuses
  <2>1. r.door \in {"http", "wrapped", "streamed"}
    BY RejectionsArePlausible
  <2>2. r.status \in Nat /\ r.number \in Nat
    BY RejectionsArePlausible
  <2>3. "quota" \in r.echo => r.door = "http" /\ r.status \in RejectionStatuses
    BY RejectionsArePlausible
  <2> QED BY <2>1, <2>2, <2>3
<1>2. /\ q.door = r.door /\ q.status = r.status /\ q.number = r.number /\ q.code = r.code /\ q.type = r.type
      /\ q.said = r.said /\ q.echo = {} /\ q.quotaFree = r.quotaFree
  BY <1>0
<1> HIDE DEF q
<1>3. /\ CodesOf(q) = CodesOf(r) /\ Text(r) = r.said \cup r.echo /\ Text(q) = r.said
      /\ WrappedStatus(q) = WrappedStatus(r) /\ StreamedStatus(q) = StreamedStatus(r)
  BY <1>2 DEF CodesOf, Text, WrappedStatus, StreamedStatus, StreamedName
<1>4. named \in RejectionStatuses \/ (named = NoStatus /\ Stated(r) \in RejectionStatuses \cup {NoStatus})
  BY DEF AboutTheRequest
<1>5. CASE r.door = "http"
  <2>1. quotes_caller_request(r.status, named)
    BY <1>4, <1>5 DEF quotes_caller_request, Stated
  <2>2. classify_failure(r.status, CodesOf(r), r.said \cup r.echo, r.quotaFree)
          = classify_failure(r.status, CodesOf(r), r.said, r.quotaFree)
    BY <1>1, <1>4, <2>1, EchoIsUnread
  <2> QED BY <1>2, <1>3, <1>5, <2>2 DEF VerdictOn, evaluate_upstream_failure_response, q
<1>6. CASE r.door = "wrapped"
  <2>1. WrappedStatus(r) \in Nat /\ quotes_caller_request(WrappedStatus(r), named)
    <3>1. CASE r.number # NoStatus
      BY <1>1, <1>4, <1>6, <3>1 DEF quotes_caller_request, Stated, WrappedStatus
    <3>2. CASE r.number = NoStatus
      BY <1>4, <3>2 DEF quotes_caller_request, WrappedStatus, RejectionStatuses, NoStatus
    <3> QED BY <3>1, <3>2
  <2>2. classify_failure(WrappedStatus(r), CodesOf(r), r.said \cup r.echo, r.quotaFree)
          = classify_failure(WrappedStatus(r), CodesOf(r), r.said, r.quotaFree)
    BY <1>1, <1>6, <2>1, EchoIsUnread
  <2> QED BY <1>2, <1>3, <1>6, <2>2 DEF VerdictOn, success_error_payload_failure, q
<1>7. CASE r.door = "streamed"
  <2> DEFINE s == StreamedStatus(r)
  <2>1. s = NoStatus \/ s = 402 \/ s \in RejectionStatuses
    <3>1. CASE r.type = "none" /\ r.number # NoStatus
      <4>1. s = r.number /\ CodesOf(r) = <<"none", "none">> /\ Stated(r) = r.number
        BY <1>7, <3>1 DEF StreamedStatus, CodesOf, Stated
      <4>2. named = NoStatus
        BY <4>1, NoneStates
      <4> QED BY <1>4, <4>1, <4>2 DEF RejectionStatuses, NoStatus
    <3>2. CASE r.type # "none" /\ r.number # NoStatus
      <4>1. s = status_for_error_codes(<<r.type>>) /\ CodesOf(r) = <<"none", r.type>>
        BY <3>2 DEF StreamedStatus, StreamedName, CodesOf
      <4>2. named = s
        BY <4>1, NoneStates
      <4> QED BY <1>4, <4>2
    <3>3. CASE r.type = "none" /\ r.number = NoStatus
      <4>1. s = status_for_error_codes(<<r.code>>) /\ CodesOf(r) = <<r.code, "none">>
        BY <3>3 DEF StreamedStatus, StreamedName, CodesOf
      <4>2. named = s
        BY <4>1, NoneStates
      <4> QED BY <1>4, <4>2
    <3>4. CASE r.type # "none" /\ r.number = NoStatus
      <4>1. s = status_for_error_codes(<<r.type>>) /\ CodesOf(r) = <<r.code, r.type>>
        BY <3>4 DEF StreamedStatus, StreamedName, CodesOf
      <4>2. status_for_error_codes(<<r.code>>) \in RejectionStatuses => s \in RejectionStatuses \cup {NoStatus, 402}
        BY <3>4, <4>1, RejectionsArePlausible
      <4>3. CASE r.code \in DOMAIN CanonicalStatus
        <5>1. named = CanonicalStatus[r.code] /\ status_for_error_codes(<<r.code>>) = CanonicalStatus[r.code]
          BY <4>1, <4>3, NamesState DEF StatusOfOne, StatusOfTwo
        <5>2. CanonicalStatus[r.code] # NoStatus
          BY <4>3 DEF CanonicalStatus, NoStatus
        <5> QED BY <1>4, <4>2, <5>1, <5>2
      <4>4. CASE r.code \notin DOMAIN CanonicalStatus /\ r.type \in DOMAIN CanonicalStatus
        <5>1. named = s
          BY <4>1, <4>4, NamesState DEF StatusOfOne, StatusOfTwo
        <5> QED BY <1>4, <5>1
      <4>5. CASE r.code \notin DOMAIN CanonicalStatus /\ r.type \notin DOMAIN CanonicalStatus
        <5>1. s = 402 \/ s = NoStatus
          BY <4>1, <4>5, NamesState DEF StatusOfOne, StatusOfTwo
        <5> QED BY <5>1
      <4> QED BY <4>3, <4>4, <4>5
    <3> QED BY <3>1, <3>2, <3>3, <3>4
  <2>2. s \in Nat /\ (quotes_caller_request(s, status_for_error_codes(<<>>)) \/ s = 402)
    BY <2>1 DEF quotes_caller_request, RejectionStatuses, NoStatus
  <2>3. classify_failure(s, <<>>, r.said \cup r.echo, r.quotaFree) = classify_failure(s, <<>>, r.said, r.quotaFree)
    <3>1. ~("quota" \in r.echo)
      BY <1>1, <1>7
    <3> DEFINE codes == <<>>
    <3> HIDE DEF s, codes
    <3>2. s \in Nat /\ (quotes_caller_request(s, status_for_error_codes(codes)) \/ s = 402)
      BY <2>2 DEF codes
    <3>3. "quota" \in r.echo => /\ s \in RejectionStatuses
                               /\ status_for_error_codes(codes) \in RejectionStatuses \cup {NoStatus}
      BY <3>1
    <3>4. classify_failure(s, codes, r.said \cup r.echo, r.quotaFree) = classify_failure(s, codes, r.said, r.quotaFree)
      BY <3>2, <3>3, EchoIsUnread
    <3> QED BY <3>4 DEF codes
  <2>4. VerdictOn(r) = (IF s = NoStatus THEN "pre_stream_failure" ELSE classify_failure(s, <<>>, Text(r), r.quotaFree))
    BY <1>7 DEF VerdictOn, evaluate_streaming_result
  <2>5. VerdictOn(q) = (IF s = NoStatus THEN "pre_stream_failure" ELSE classify_failure(s, <<>>, Text(q), r.quotaFree))
    BY <1>2, <1>3, <1>7 DEF VerdictOn, evaluate_streaming_result
  <2> QED BY <1>3, <2>3, <2>4, <2>5 DEF q
<1> QED BY <1>1, <1>5, <1>6, <1>7

LEMMA WrappedIsRead ==
  ASSUME NEW r \in Rejections, r.door = "wrapped", Stated(r) # NoStatus
  PROVE  VerdictOn(r) = VerdictOn([r EXCEPT !.door = "http", !.status = Stated(r)])
<1> DEFINE q == [r EXCEPT !.door = "http", !.status = Stated(r)]
<1>1. DOMAIN r = {"door", "status", "number", "code", "type", "said", "echo", "quotaFree"}
  BY RejectionsArePlausible
<1>2. /\ q.door = "http" /\ q.status = Stated(r) /\ q.number = r.number /\ q.code = r.code /\ q.type = r.type
      /\ q.said = r.said /\ q.echo = r.echo /\ q.quotaFree = r.quotaFree
  BY <1>1
<1> HIDE DEF q
<1>3. CodesOf(q) = CodesOf(r) /\ Text(q) = Text(r) /\ q.status = WrappedStatus(r)
  BY <1>2 DEF CodesOf, Text, WrappedStatus, Stated
<1> QED BY <1>2, <1>3 DEF VerdictOn, evaluate_upstream_failure_response, success_error_payload_failure, q

\* Of every rejection a provider may answer with, through whichever door it comes: words repeated from the
\* caller's request change no verdict on that request, a wrapped error is read as under its own status,
\* and what the caller is told, what the payload quotes and what is logged are one verdict, for requests
\* of any number of attempts (failures.py, classify_failure and build_upstream_failure_error).
THEOREM VerdictsStaySound == FailuresSpec => []VerdictsAreSound
<1>1. FailuresInv => VerdictsAreSound
  <2> SUFFICES ASSUME FailuresInv PROVE VerdictsAreSound
    OBVIOUS
  <2>1. heard \in Rejections \cup {Silence, Unsent} /\ VerdictsAgree
    BY DEF FailuresInv
  <2>2. Heard => heard \in Rejections
    BY <2>1 DEF Heard, Silence, Unsent
  <2>3. EchoIsNoVerdict
    BY <2>2, EchoSaysNothing DEF EchoIsNoVerdict
  <2>4. DoorsAgree
    BY <2>2, WrappedIsRead DEF DoorsAgree
  <2> QED BY <2>1, <2>3, <2>4 DEF VerdictsAreSound
<1> QED BY <1>1, FailuresBegin, FailuresSteps, PTL DEF FailuresSpec

------------------------------------------------------------------------------
(* The replay of reasoning.                                                *)

Turns == [model : ModelIds, id : Ids, signature : Signatures]

\* The choices that stream are turns there were.
ReplayTyped ==
    /\ turns \in Seq(Turns)
    /\ DOMAIN accumulated = DOMAIN streaming
    /\ \A c \in DOMAIN streaming : streaming[c] \in DOMAIN turns
    /\ \A c \in DOMAIN streaming : accumulated[c] \in [trace_parts : Seq(Nat), id : SUBSET Ids, name : 0..2]

\* What was read of a choice is the choice's.
ChoicesAreOwn ==
    \A c \in DOMAIN streaming :
        /\ \A i \in DOMAIN accumulated[c].trace_parts : accumulated[c].trace_parts[i] = streaming[c]
        /\ accumulated[c].id \subseteq {turns[streaming[c]].id}

\* An entry of the store is of one turn: its trace, its id, and what it asked for or a part of that.
OfTurn(e, u) ==
    /\ \A i \in DOMAIN e.trace : e.trace[i] = u
    /\ e.id = turns[u].id
    /\ e.names \in {turns[u].signature, "partial"}
StoreIsOwn == \A e \in _traces : \E u \in DOMAIN turns : OfTurn(e, u)

FilledIsThere == filled.trace = <<>> \/ filled.turn \in DOMAIN turns
PartsAreTurns == \A i \in DOMAIN filled.trace : filled.trace[i] \in DOMAIN turns

ReplayInv == ReplayTyped /\ ChoicesAreOwn /\ StoreIsOwn /\ FilledIsThere /\ PartsAreTurns /\ OwnTrace

\* The turns are a history: what was one stays one.
LEMMA TurnsStay ==
  ASSUME ReplayTyped, NEW new, NEW n \in Nat, new \in [1..n -> Turns], turns' = turns \o new
  PROVE  /\ turns' \in Seq(Turns) /\ DOMAIN turns \subseteq DOMAIN turns'
         /\ \A u \in DOMAIN turns : turns'[u] = turns[u]
         /\ \A c \in 1..n : Len(turns) + c \in DOMAIN turns'
<1>1. turns \in Seq(Turns) /\ new \in Seq(Turns) /\ Len(new) = n
  BY DEF ReplayTyped
<1> DEFINE more == turns \o new
<1>2. /\ more \in Seq(Turns) /\ Len(more) = Len(turns) + Len(new)
      /\ \A i \in 1..(Len(turns) + Len(new)) :
             more[i] = IF i <= Len(turns) THEN turns[i] ELSE new[i - Len(turns)]
  BY <1>1, ConcatProperties
<1> HIDE DEF more
<1>3. DOMAIN more = 1..Len(more) /\ DOMAIN turns = 1..Len(turns) /\ Len(turns) \in Nat
  BY <1>1, <1>2, LenProperties
<1>4. turns' = more
  BY DEF more
<1> QED BY <1>1, <1>2, <1>3, <1>4

\* A trace all of one turn stays so with one more part of it.
LEMMA PartsStay ==
  ASSUME NEW s \in Seq(Nat), NEW x \in Nat, \A i \in DOMAIN s : s[i] = x
  PROVE  Append(s, x) \in Seq(Nat) /\ \A i \in DOMAIN Append(s, x) : Append(s, x)[i] = x
<1>1. /\ Append(s, x) \in Seq(Nat) /\ Len(Append(s, x)) = Len(s) + 1
      /\ \A i \in 1..Len(s) : Append(s, x)[i] = s[i]
      /\ Append(s, x)[Len(s) + 1] = x
  BY AppendProperties
<1>2. DOMAIN Append(s, x) = 1..Len(Append(s, x)) /\ DOMAIN s = 1..Len(s) /\ Len(s) \in Nat
  BY <1>1, LenProperties
<1> QED BY <1>1, <1>2

LEMMA TurnKnown ==
  ASSUME ReplayTyped, NEW u \in DOMAIN turns
  PROVE  u \in Nat /\ turns[u] \in Turns /\ turns[u].id \in Ids /\ turns[u].signature \in Signatures
<1>1. turns \in Seq(Turns) /\ DOMAIN turns = 1..Len(turns) /\ Len(turns) \in Nat
  BY LenProperties DEF ReplayTyped
<1>2. turns[u] \in Turns
  BY <1>1, ElementOfSeq
<1> QED BY <1>1, <1>2 DEF Turns

LEMMA ReplayInitInv == ReplayInit => ReplayInv
BY DEF ReplayInit, ReplayInv, ReplayTyped, ChoicesAreOwn, StoreIsOwn, FilledIsThere, PartsAreTurns, OwnTrace, Nothing

LEMMA BeginOwn ==
  ASSUME ReplayInv, Begin
  PROVE  ReplayInv'
<1>0. PICK m \in ModelIds, n \in 1..2 :
          /\ \E new \in [1..n -> [model : {m}, id : Ids, signature : Signatures]] : turns' = turns \o new
          /\ streaming' = [c \in 1..n |-> Len(turns) + c]
          /\ accumulated' = [c \in 1..n |-> Empty]
  BY DEF Begin
<1>1. PICK new \in [1..n -> [model : {m}, id : Ids, signature : Signatures]] : turns' = turns \o new
  BY <1>0
<1>2. new \in [1..n -> Turns] /\ n \in Nat /\ ReplayTyped
  BY DEF Turns, ReplayInv
<1>3. /\ turns' \in Seq(Turns) /\ DOMAIN turns \subseteq DOMAIN turns'
      /\ \A u \in DOMAIN turns : turns'[u] = turns[u]
      /\ \A c \in 1..n : Len(turns) + c \in DOMAIN turns'
  BY <1>1, <1>2, TurnsStay
<1>4. Empty \in [trace_parts : Seq(Nat), id : SUBSET Ids, name : 0..2] /\ Empty.trace_parts = <<>> /\ Empty.id = {}
  BY DEF Empty
<1>5. ReplayTyped' /\ ChoicesAreOwn'
  BY <1>0, <1>3, <1>4 DEF ReplayTyped, ChoicesAreOwn
<1>6. StoreIsOwn'
  BY <1>3 DEF Begin, ReplayInv, StoreIsOwn, OfTurn
<1>7. FilledIsThere' /\ PartsAreTurns' /\ OwnTrace'
  BY DEF Begin, FilledIsThere, PartsAreTurns, OwnTrace, Nothing
<1> QED BY <1>5, <1>6, <1>7 DEF ReplayInv

LEMMA ConsumeOwn ==
  ASSUME ReplayInv, NEW c \in DOMAIN streaming, _consume_delta(c)
  PROVE  ReplayInv'
<1>1. /\ UNCHANGED <<turns, streaming, _traces, filled>> /\ ReplayTyped /\ ChoicesAreOwn
      /\ c \in DOMAIN accumulated /\ DOMAIN accumulated = DOMAIN streaming
  BY DEF _consume_delta, ReplayInv, ReplayTyped
<1>2. \A d \in DOMAIN streaming : accumulated[d] \in [trace_parts : Seq(Nat), id : SUBSET Ids, name : 0..2]
  BY <1>1 DEF ReplayTyped
<1> DEFINE a == accumulated[c]
           b == accumulated'[c]
<1>3. /\ DOMAIN accumulated' = DOMAIN accumulated
      /\ \A d \in DOMAIN accumulated \ {c} : accumulated'[d] = accumulated[d]
      /\ \/ b = [a EXCEPT !.trace_parts = Append(a.trace_parts, streaming[c])]
         \/ b = [a EXCEPT !.id = {turns[streaming[c]].id}]
         \/ a.name < 2 /\ b = [a EXCEPT !.name = a.name + 1]
  BY <1>1 DEF _consume_delta, ChoiceOf
<1>4. /\ streaming[c] \in Nat /\ turns[streaming[c]].id \in Ids
      /\ a \in [trace_parts : Seq(Nat), id : SUBSET Ids, name : 0..2]
      /\ \A i \in DOMAIN a.trace_parts : a.trace_parts[i] = streaming[c]
      /\ a.id \subseteq {turns[streaming[c]].id}
  <2>1. streaming[c] \in DOMAIN turns
    BY <1>1 DEF ReplayTyped
  <2> QED BY <1>1, <1>2, <2>1, TurnKnown DEF ChoicesAreOwn
<1> HIDE DEF a, b
<1>5. /\ Append(a.trace_parts, streaming[c]) \in Seq(Nat)
      /\ \A i \in DOMAIN Append(a.trace_parts, streaming[c]) : Append(a.trace_parts, streaming[c])[i] = streaming[c]
  BY <1>4, PartsStay
<1>6. /\ b \in [trace_parts : Seq(Nat), id : SUBSET Ids, name : 0..2]
      /\ \A i \in DOMAIN b.trace_parts : b.trace_parts[i] = streaming[c]
      /\ b.id \subseteq {turns[streaming[c]].id}
  <2>1. CASE b = [a EXCEPT !.trace_parts = Append(a.trace_parts, streaming[c])]
    BY <1>4, <1>5, <2>1
  <2>2. CASE b = [a EXCEPT !.id = {turns[streaming[c]].id}]
    BY <1>4, <2>2
  <2>3. CASE a.name < 2 /\ b = [a EXCEPT !.name = a.name + 1]
    BY <1>4, <2>3
  <2> QED BY <1>3, <2>1, <2>2, <2>3
<1>7. /\ \A d \in DOMAIN streaming : streaming[d] \in DOMAIN turns
      /\ \A d \in DOMAIN streaming \ {c} : accumulated'[d] = accumulated[d]
      /\ accumulated'[c] = b
  BY <1>1, <1>3 DEF ReplayTyped, b
<1>8. ReplayTyped'
  BY <1>1, <1>2, <1>3, <1>6, <1>7 DEF ReplayTyped
<1>9. ChoicesAreOwn'
  BY <1>1, <1>6, <1>7 DEF ChoicesAreOwn
<1> QED BY <1>1, <1>8, <1>9 DEF ReplayInv, StoreIsOwn, OfTurn, FilledIsThere, PartsAreTurns, OwnTrace

\* What is put into the store is of the turn that was kept.
LEMMA FinishOwn ==
  ASSUME ReplayInv, NEW c \in DOMAIN streaming, FinishChoice(c)
  PROVE  ReplayInv'
<1> DEFINE entry == [id |-> CHOOSE i \in accumulated[c].id : TRUE, at |-> ended, order |-> 0,
                     trace |-> accumulated[c].trace_parts,
                     names |-> SignatureOf(streaming[c], accumulated[c].name)]
<1>1. /\ UNCHANGED turns /\ filled' = Nothing /\ ReplayTyped /\ ChoicesAreOwn /\ StoreIsOwn
      /\ streaming' = Without(streaming, c) /\ accumulated' = Without(accumulated, c)
      /\ IF resolved_calls(c) THEN _traces' = observe(_traces, entry) ELSE _traces' = _traces
  BY DEF FinishChoice, ReplayInv
<1>2. ReplayTyped' /\ ChoicesAreOwn'
  BY <1>1 DEF ReplayTyped, ChoicesAreOwn, Without
<1>3. ASSUME resolved_calls(c), NEW k PROVE OfTurn([entry EXCEPT !.order = k], streaming[c])
  <2>1. entry.id = turns[streaming[c]].id
    BY <1>1, <1>3 DEF ChoicesAreOwn, resolved_calls
  <2>2. \A i \in DOMAIN entry.trace : entry.trace[i] = streaming[c]
    BY <1>1 DEF ChoicesAreOwn
  <2>3. entry.names \in {turns[streaming[c]].signature, "partial"}
    BY DEF SignatureOf
  <2>4. /\ [entry EXCEPT !.order = k].id = entry.id /\ [entry EXCEPT !.order = k].trace = entry.trace
        /\ [entry EXCEPT !.order = k].names = entry.names
    OBVIOUS
  <2> HIDE DEF entry
  <2> QED BY <2>1, <2>2, <2>3, <2>4 DEF OfTurn
<1> HIDE DEF entry
<1>4. \A e \in _traces' : e \in _traces \/ (resolved_calls(c) /\ \E k \in {1 + Max({o.order : o \in _traces} \cup {0})} :
                                               e = [entry EXCEPT !.order = k])
  BY <1>1 DEF observe, _evict, PutLast
<1>5. streaming[c] \in DOMAIN turns
  BY <1>1 DEF ReplayTyped
<1>6. StoreIsOwn'
  <2>1. ASSUME NEW e \in _traces' PROVE \E u \in DOMAIN turns : OfTurn(e, u)
    BY <1>1, <1>3, <1>4, <1>5 DEF StoreIsOwn
  <2> QED BY <1>1, <2>1 DEF StoreIsOwn, OfTurn
<1>7. FilledIsThere' /\ PartsAreTurns' /\ OwnTrace'
  BY <1>1 DEF FilledIsThere, PartsAreTurns, OwnTrace, Nothing
<1> QED BY <1>2, <1>6, <1>7 DEF ReplayInv

\* What comes back was kept for the same id and the same request, and no request is "partial".
LEMMA ReplayOwn ==
  ASSUME ReplayInv, replay_into_body
  PROVE  ReplayInv'
<1>1. PICK t \in DOMAIN turns, m \in ModelIds :
         LET trace == trace_for(turns[t].id, turns[t].signature)
         IN /\ filled' = IF trace # <<>> THEN [turn |-> t, trace |-> trace, stand_in |-> FALSE]
                         ELSE IF m \in _thinking THEN [turn |-> t, trace |-> <<>>, stand_in |-> TRUE]
                         ELSE Nothing
            /\ _traces' = {e \in _traces : e.id = turns[t].id => now - e.at <= Ttl}
  BY DEF replay_into_body
<1>2. UNCHANGED <<turns, streaming, accumulated>> /\ ReplayTyped /\ StoreIsOwn
  BY DEF replay_into_body, ReplayInv
<1> DEFINE trace == trace_for(turns[t].id, turns[t].signature)
<1>3. ASSUME trace # <<>>
      PROVE  \E u \in DOMAIN turns : /\ turns[u].id = turns[t].id /\ turns[u].signature = turns[t].signature
                                     /\ \A i \in DOMAIN trace : trace[i] = u
  <2>1. PICK e \in _traces : e.id = turns[t].id /\ e.names = turns[t].signature /\ trace = e.trace
    BY <1>3 DEF trace_for, Matches
  <2>2. PICK u \in DOMAIN turns : OfTurn(e, u)
    BY <1>2 DEF StoreIsOwn
  <2>3. turns[t].signature # "partial"
    BY <1>2, PartialNames, TurnKnown
  <2> QED BY <2>1, <2>2, <2>3 DEF OfTurn
<1>4. /\ filled'.trace = trace
      /\ trace # <<>> => filled'.turn = t
  BY <1>1 DEF Nothing
<1> HIDE DEF trace
<1>5. FilledIsThere' /\ PartsAreTurns' /\ OwnTrace'
  BY <1>2, <1>3, <1>4 DEF FilledIsThere, PartsAreTurns, OwnTrace
<1>6. StoreIsOwn'
  BY <1>1, <1>2 DEF StoreIsOwn, OfTurn
<1>7. ReplayTyped' /\ ChoicesAreOwn'
  BY <1>2 DEF ReplayTyped, ChoicesAreOwn, ReplayInv
<1> QED BY <1>5, <1>6, <1>7 DEF ReplayInv

LEMMA ReplayNextInv == ReplayInv /\ [ReplayNext]_replayVars => ReplayInv'
<1> SUFFICES ASSUME ReplayInv, [ReplayNext]_replayVars PROVE ReplayInv'
  OBVIOUS
<1> USE DEF ReplayInv, ReplayTyped, ChoicesAreOwn, StoreIsOwn, OfTurn, FilledIsThere, PartsAreTurns, OwnTrace
<1>1. CASE _give_up
  BY <1>1 DEF _give_up
<1>2. CASE finish \/ UNCHANGED replayVars
  BY <1>2 DEF finish, replayVars
<1>3. CASE TimePasses
  BY <1>3 DEF TimePasses, Nothing
<1> QED BY <1>1, <1>2, <1>3, BeginOwn, ConsumeOwn, FinishOwn, ReplayOwn DEF ReplayNext

\* A message is given the reasoning of its own turn or of one that carried the same id and asked
\* for the same, for any number of turns, traces of any length and any limits of the store
\* (reasoning_replay.py, trace_for, _StreamedChoice).
THEOREM ReplayStaysOwn == ReplaySpec => []OwnTrace
<1>1. ReplayInv => OwnTrace
  BY DEF ReplayInv
<1> QED BY ReplayInitInv, ReplayNextInv, <1>1, PTL DEF ReplaySpec

------------------------------------------------------------------------------
(* The log and its index.                                                  *)

LogLines == [kind : {"route", "correction"}, id : Requests, at : Nat] \cup {Junk}
RowReasons == {"ok", "client_disconnected"}
IndexRows == [id : Requests, rowid : Nat, reason : RowReasons, fixed : BOOLEAN, at : Nat]

\* A table: a row by id, and by rowid.
RowsOk(R) ==
    /\ R \subseteq IndexRows /\ IsFiniteSet(R)
    /\ \A a, b \in R : a.id = b.id \/ a.rowid = b.rowid => a = b

\* Its rows are of requests that were logged, at the time they were.
RowsFrom(R, W) == \A row \in R : Route(row.id, row.at) \in W

NewerIds(R, at) == {row.id : row \in {one \in R : one.at >= at}}

\* What a table says of the lines passed: a row is there, or as many as the cap that are as new;
\* and a correction was heard.
AnswersFor(R, P, time) ==
    /\ \A line \in P : line.kind = "route" /\ line.at + MaxAge >= time =>
           RowOf(R, line.id) # {} \/ Cardinality(NewerIds(R, line.at)) >= MaxRows
    /\ \A line \in P : line.kind = "correction" =>
           \A row \in RowOf(R, line.id) : row.reason = "client_disconnected"

\* No correction is passed before the row it corrects.
InOrder(line, P) == line.kind = "route" => \A c \in P : c.kind = "correction" => c.id # line.id

LEMMA HeadIs ==
  ASSUME NEW R, RowsOk(R)
  PROVE  HeadOf(R) \in Nat /\ \A row \in R : row.rowid <= HeadOf(R)
<1> DEFINE N == {row.rowid : row \in R}
           f == [row \in R |-> row.rowid]
<1>1. N \subseteq Nat /\ IsFiniteSet(R)
  BY DEF RowsOk, IndexRows
<1>2. IsFiniteSet(N)
  <2>1. f \in [R -> N] /\ \A n \in N : \E row \in R : f[row] = n
    OBVIOUS
  <2> HIDE DEF f, N
  <2> QED BY <2>1, <1>1, FiniteImage
<1> HIDE DEF N, f
<1>3. IsFiniteSet(N \cup {0}) /\ N \cup {0} # {} /\ N \cup {0} \subseteq Int
  BY <1>1, <1>2, FS_AddElement
<1> DEFINE m == Max(N \cup {0})
<1>4. m \in N \cup {0} /\ \A n \in N \cup {0} : m >= n
  BY <1>3, GreatestElement
<1>5. HeadOf(R) = m
  BY DEF HeadOf, N
<1>6. \A row \in R : row.rowid \in N
  BY DEF N
<1> HIDE DEF m
<1>7. m \in Nat
  BY <1>1, <1>4
<1>8. \A row \in R : row.rowid <= m
  <2> SUFFICES ASSUME NEW row \in R PROVE row.rowid <= m
    OBVIOUS
  <2>1. row.rowid \in N /\ row.rowid \in Nat
    BY <1>1, <1>6
  <2>2. m >= row.rowid
    BY <2>1, <1>4
  <2> QED BY <2>1, <2>2, <1>7
<1> QED BY <1>5, <1>7, <1>8

\* Unless a part is the whole, something outside it comes before everything else outside it.
LEMMA FirstOutside ==
  ASSUME NEW R, IsFiniteSet(R), NEW T \in SUBSET R, T # R, NEW before \in SUBSET (R \X R),
         \A a, b \in R : a = b \/ <<a, b>> \in before \/ <<b, a>> \in before,
         \A a \in R : <<a, a>> \notin before,
         \A a, b, c \in R : <<a, b>> \in before /\ <<b, c>> \in before => <<a, c>> \in before
  PROVE  \E x \in R \ T : \A y \in R \ T : y = x \/ <<x, y>> \in before
<1> DEFINE H == R \ T
           f == [h \in H |-> {k \in H : <<k, h>> \in before}]
<1>1. IsFiniteSet(H) /\ H # {} /\ f \in [H -> SUBSET H]
  BY FS_Subset
<1>2. \E h \in H : \A k \in H : ~(f[k] \subseteq f[h] /\ f[k] # f[h])
  <2> HIDE DEF f, H
  <2> QED BY <1>1, SmallestImage
<1>3. PICK h \in H : \A k \in H : ~(f[k] \subseteq f[h] /\ f[k] # f[h])
  BY <1>2
<1>4. \A k \in H : <<k, h>> \notin before
  <2> SUFFICES ASSUME NEW k \in H, <<k, h>> \in before PROVE FALSE
    OBVIOUS
  <2>1. f[k] \subseteq f[h]
    OBVIOUS
  <2>2. k \in f[h] /\ k \notin f[k]
    OBVIOUS
  <2> QED BY <2>1, <2>2, <1>3
<1> QED BY <1>4

\* As many ids as rows.
LEMMA IdsOfRows ==
  ASSUME NEW R, RowsOk(R), NEW S \in SUBSET R
  PROVE  /\ IsFiniteSet(S) /\ Cardinality(S) \in Nat
         /\ IsFiniteSet({row.id : row \in S}) /\ Cardinality({row.id : row \in S}) = Cardinality(S)
<1> DEFINE N == {row.id : row \in S}
           f == [row \in S |-> row.id]
<1>1. IsFiniteSet(S)
  BY FS_Subset DEF RowsOk
<1>2. f \in Bijection(S, N)
  BY DEF RowsOk, Bijection, Injection, Surjection, IsInjective
<1> HIDE DEF N, f
<1>3. IsFiniteSet(N) /\ Cardinality(N) = Cardinality(S)
  <2>1. ExistsBijection(S, N)
    BY <1>2 DEF ExistsBijection
  <2> QED BY <1>1, <2>1, FS_Bijection
<1>4. Cardinality(S) \in Nat
  BY <1>1, FS_CardinalityType
<1> QED BY <1>1, <1>3, <1>4 DEF N

\* More rows of the same age and newer, more of them to hold against what is not there.
LEMMA NewerGrow ==
  ASSUME NEW R, RowsOk(R), NEW Q, RowsOk(Q), NEW at \in Nat, NewerIds(R, at) \subseteq NewerIds(Q, at)
  PROVE  Cardinality(NewerIds(R, at)) >= MaxRows => Cardinality(NewerIds(Q, at)) >= MaxRows
<1>1. {row \in R : row.at >= at} \in SUBSET R /\ {row \in Q : row.at >= at} \in SUBSET Q
  OBVIOUS
<1>2. IsFiniteSet(NewerIds(R, at)) /\ IsFiniteSet(NewerIds(Q, at))
  BY <1>1, IdsOfRows DEF NewerIds
<1>3. /\ Cardinality(NewerIds(R, at)) <= Cardinality(NewerIds(Q, at))
      /\ Cardinality(NewerIds(R, at)) \in Nat /\ Cardinality(NewerIds(Q, at)) \in Nat
  BY <1>2, FS_Subset, FS_CardinalityType
<1> QED BY <1>3, LogLimits

LEMMA HeardGrow ==
  ASSUME NEW R, RowsOk(R), NEW Q, RowsOk(Q), NEW P \in SUBSET LogLines, AnswersFor(R, P, clock),
         \A at \in Nat : NewerIds(R, at) \subseteq NewerIds(Q, at),
         \A row \in R : RowOf(Q, row.id) # {},
         \A row \in Q : \A c \in P : c.kind = "correction" /\ c.id = row.id => row.reason = "client_disconnected"
  PROVE  AnswersFor(Q, P, clock)
<1>1. ASSUME NEW line \in P, line.kind = "route", line.at + MaxAge >= clock
      PROVE  RowOf(Q, line.id) # {} \/ Cardinality(NewerIds(Q, line.at)) >= MaxRows
  <2>1. CASE RowOf(R, line.id) # {}
    BY <2>1 DEF RowOf
  <2>2. CASE Cardinality(NewerIds(R, line.at)) >= MaxRows
    <3>1. line.at \in Nat
      BY <1>1 DEF LogLines, Junk
    <3> QED BY <2>2, <3>1, NewerGrow
  <2> QED BY <1>1, <2>1, <2>2 DEF AnswersFor
<1> QED BY <1>1 DEF AnswersFor, RowOf

LEMMA InsertOk ==
  ASSUME NEW R, RowsOk(R), NEW W, RowsFrom(R, W), NEW P \in SUBSET LogLines, AnswersFor(R, P, clock),
         NEW line \in LogLines, line \in W, line.kind = "route", InOrder(line, P)
  PROVE  /\ RowsOk(Insert(R, line)) /\ RowsFrom(Insert(R, line), W)
         /\ AnswersFor(Insert(R, line), P \cup {line}, clock)
         /\ \A row \in Insert(R, line) : row \in R \/ row.rowid > HeadOf(R)
         /\ HeadOf(Insert(R, line)) >= HeadOf(R)
<1> DEFINE new == [id |-> line.id, rowid |-> HeadOf(R) + 1, reason |-> "ok", fixed |-> FALSE, at |-> line.at]
           Q == Insert(R, line)
<1>0. HeadOf(R) \in Nat /\ (\A row \in R : row.rowid <= HeadOf(R)) /\ R \subseteq IndexRows /\ IsFiniteSet(R)
  BY HeadIs DEF RowsOk
<1>1. line \in [kind : {"route", "correction"}, id : Requests, at : Nat] /\ line = Route(line.id, line.at)
  BY DEF LogLines, Junk, Route
<1>2. CASE RowOf(R, line.id) # {}
  <2>1. Q = R
    BY <1>2 DEF Insert
  <2>2. AnswersFor(R, P \cup {line}, clock)
    BY <1>2 DEF AnswersFor
  <2> QED BY <2>1, <2>2, <1>0
<1>3. CASE RowOf(R, line.id) = {}
  <2>1. Q = R \cup {new}
    BY <1>3 DEF Insert
  <2>2. new \in IndexRows /\ \A row \in R : row.id # line.id /\ row.rowid < HeadOf(R) + 1
    BY <1>0, <1>1, <1>3 DEF IndexRows, RowReasons, RowOf
  <2>3. IsFiniteSet(Q)
    <3> HIDE DEF new, Q
    <3> QED BY <1>0, <2>1, FS_AddElement
  <2>4. RowsOk(Q)
    <3>1. new.id = line.id /\ new.rowid = HeadOf(R) + 1 /\ \A row \in R : row.rowid \in Nat
      BY <1>0 DEF IndexRows
    <3> HIDE DEF new, Q
    <3>2. \A row \in R : row.id # new.id /\ row.rowid # new.rowid
      BY <2>2, <3>1, <1>0
    <3>3. \A a, b \in Q : a.id = b.id \/ a.rowid = b.rowid => a = b
      BY <2>1, <3>2 DEF RowsOk
    <3> QED BY <2>1, <2>2, <2>3, <3>3, <1>0 DEF RowsOk
  <2>5. RowsFrom(Q, W)
    BY <2>1, <1>1 DEF RowsFrom
  <2>6. AnswersFor(Q, P, clock)
    <3>1. \A at \in Nat : NewerIds(R, at) \subseteq NewerIds(Q, at)
      BY <2>1 DEF NewerIds
    <3>2. \A row \in R : RowOf(Q, row.id) # {}
      BY <2>1 DEF RowOf
    <3>3. \A row \in Q : \A c \in P : c.kind = "correction" /\ c.id = row.id => row.reason = "client_disconnected"
      <4>1. \A c \in P : c.kind = "correction" => c.id # new.id
        BY DEF InOrder
      <4>2. \A row \in R : \A c \in P : c.kind = "correction" /\ c.id = row.id => row.reason = "client_disconnected"
        BY DEF AnswersFor, RowOf
      <4> HIDE DEF new
      <4> QED BY <2>1, <4>1, <4>2
    <3> HIDE DEF Q, new
    <3> QED BY <2>4, <3>1, <3>2, <3>3, HeardGrow
  <2>7. RowOf(Q, line.id) # {}
    <3>1. new \in Q /\ new.id = line.id
      BY <2>1
    <3> HIDE DEF new, Q
    <3> QED BY <3>1 DEF RowOf
  <2>8. AnswersFor(Q, P \cup {line}, clock)
    BY <2>6, <2>7 DEF AnswersFor
  <2>9. HeadOf(Q) >= HeadOf(R) + 1
    <3>1. new \in Q /\ new.rowid = HeadOf(R) + 1
      BY <2>1
    <3> HIDE DEF new, Q
    <3>2. HeadOf(Q) \in Nat /\ new.rowid <= HeadOf(Q)
      BY <2>4, <3>1, HeadIs
    <3> QED BY <3>1, <3>2, <1>0
  <2>10. HeadOf(Q) \in Nat
    BY <2>4, HeadIs
  <2> QED BY <2>1, <2>4, <2>5, <2>8, <2>9, <2>10, <1>0
<1> QED BY <1>2, <1>3
LEMMA CorrectOk ==
  ASSUME NEW R, RowsOk(R), NEW W, RowsFrom(R, W), NEW P \in SUBSET LogLines, AnswersFor(R, P, clock),
         NEW line \in LogLines, line.kind = "correction"
  PROVE  /\ RowsOk(Correct(R, line)) /\ RowsFrom(Correct(R, line), W)
         /\ AnswersFor(Correct(R, line), P \cup {line}, clock)
         /\ \A row \in Correct(R, line) : row \in R \/ row.rowid > HeadOf(R)
         /\ HeadOf(Correct(R, line)) \in Nat /\ HeadOf(Correct(R, line)) >= HeadOf(R)
<1> DEFINE Q == Correct(R, line)
           h == HeadOf(R) + 1
           moved(row) == [id |-> row.id, rowid |-> h, reason |-> "client_disconnected", fixed |-> TRUE, at |-> row.at]
<1>0. /\ HeadOf(R) \in Nat /\ (\A row \in R : row.rowid <= HeadOf(R)) /\ R \subseteq IndexRows /\ IsFiniteSet(R)
      /\ \A a, b \in R : a.id = b.id \/ a.rowid = b.rowid => a = b
  BY HeadIs DEF RowsOk
<1>1. CASE \A row \in R : row.id = line.id => row.reason = "client_disconnected"
  <2>1. Q = R
    BY <1>1 DEF Correct
  <2>2. AnswersFor(R, P \cup {line}, clock)
    BY <1>1 DEF AnswersFor, RowOf
  <2> QED BY <2>1, <2>2, <1>0
<1>2. CASE \E row \in R : row.id = line.id /\ row.reason # "client_disconnected"
  <2>1. PICK old \in R : old.id = line.id /\ old.reason # "client_disconnected"
    BY <1>2
  <2> DEFINE new == moved(old)
  <2>2. /\ old \in IndexRows /\ new \in IndexRows /\ new.id = line.id /\ new.rowid = h
        /\ new.at = old.at /\ new.reason = "client_disconnected" /\ h > HeadOf(R) /\ h \in Nat
    <3>1. old \in IndexRows /\ h \in Nat /\ h > HeadOf(R)
      BY <2>1, <1>0
    <3>2. new = [id |-> old.id, rowid |-> h, reason |-> "client_disconnected", fixed |-> TRUE, at |-> old.at]
      OBVIOUS
    <3> HIDE DEF new, h
    <3>3. new \in IndexRows
      BY <3>1, <3>2 DEF IndexRows, RowReasons
    <3> QED BY <2>1, <3>1, <3>2, <3>3
  <2>3. Q = (R \ {old}) \cup {new}
    <3>1. \A row \in R : row.id = line.id <=> row = old
      BY <2>1, <1>0
    <3> QED BY <2>1, <3>1 DEF Correct
  <2> HIDE DEF new, moved, Q, h
  <2>4. IsFiniteSet(Q)
    <3>1. IsFiniteSet(R \ {old})
      BY <1>0, FS_Subset
    <3> QED BY <3>1, <2>3, FS_AddElement
  <2>5. \A row \in R \ {old} : row.id # new.id /\ row.rowid # new.rowid /\ row.rowid \in Nat
    <3>1. \A row \in R \ {old} : row.id # new.id
      BY <2>1, <2>2, <1>0
    <3>2. \A row \in R : row.rowid \in Nat /\ row.rowid <= HeadOf(R)
      BY <1>0 DEF IndexRows
    <3>3. \A row \in R : row.rowid < h
      BY <3>2, <2>2, <1>0
    <3> QED BY <3>1, <3>2, <3>3, <2>2
  <2>6. RowsOk(Q)
    <3>1. \A a, b \in Q : a.id = b.id \/ a.rowid = b.rowid => a = b
      BY <2>3, <2>5, <1>0
    <3> QED BY <2>2, <2>3, <2>4, <3>1, <1>0 DEF RowsOk
  <2>7. RowsFrom(Q, W)
    <3>1. Route(new.id, new.at) = Route(old.id, old.at)
      BY <2>1, <2>2
    <3> QED BY <2>1, <2>3, <3>1 DEF RowsFrom
  <2>8. \A row \in Q : \A c \in P \cup {line} : c.kind = "correction" /\ c.id = row.id => row.reason = "client_disconnected"
    <3>1. \A row \in R : \A c \in P : c.kind = "correction" /\ c.id = row.id => row.reason = "client_disconnected"
      BY DEF AnswersFor, RowOf
    <3>2. \A row \in R \ {old} : row.id # line.id
      BY <2>2, <2>5
    <3> QED BY <2>2, <2>3, <3>1, <3>2
  <2>9. AnswersFor(Q, P \cup {line}, clock)
    <3>1. \A at \in Nat : NewerIds(R, at) \subseteq NewerIds(Q, at)
      <4> SUFFICES ASSUME NEW at \in Nat, NEW row \in R, row.at >= at PROVE row.id \in NewerIds(Q, at)
        BY DEF NewerIds
      <4>1. CASE row = old
        <5>1. new \in Q /\ new.at >= at /\ new.id = row.id
          BY <4>1, <2>1, <2>2, <2>3
        <5> QED BY <5>1 DEF NewerIds
      <4>2. CASE row # old
        <5>1. row \in Q
          BY <4>2, <2>3
        <5> QED BY <5>1 DEF NewerIds
      <4> QED BY <4>1, <4>2
    <3>2. \A row \in R : RowOf(Q, row.id) # {}
      BY <2>1, <2>2, <2>3 DEF RowOf
    <3>3. AnswersFor(Q, P, clock)
      BY <2>6, <2>8, <3>1, <3>2, HeardGrow
    <3> QED BY <2>8, <3>3 DEF AnswersFor, RowOf
  <2>10. HeadOf(Q) \in Nat /\ HeadOf(Q) >= h
    <3>1. new \in Q
      BY <2>3
    <3>2. HeadOf(Q) \in Nat /\ new.rowid <= HeadOf(Q)
      BY <2>6, <3>1, HeadIs
    <3> QED BY <2>2, <3>2
  <2>11. HeadOf(Q) >= HeadOf(R)
    BY <1>0, <2>2, <2>10
  <2>12. \A row \in Q : row \in R \/ row.rowid > HeadOf(R)
    BY <2>2, <2>3
  <2>13. Q = Correct(R, line)
    BY DEF Q
  <2> QED BY <2>6, <2>7, <2>9, <2>10, <2>11, <2>12, <2>13
<1> QED BY <1>1, <1>2

\* What one line does to the index.
LEMMA ApplyOk ==
  ASSUME NEW R, RowsOk(R), NEW W, RowsFrom(R, W), NEW P \in SUBSET LogLines, AnswersFor(R, P, clock),
         NEW line \in LogLines, line \in W, InOrder(line, P)
  PROVE  /\ RowsOk(Apply(R, line)) /\ RowsFrom(Apply(R, line), W)
         /\ AnswersFor(Apply(R, line), P \cup {line}, clock)
         /\ \A row \in Apply(R, line) : row \in R \/ row.rowid > HeadOf(R)
         /\ HeadOf(Apply(R, line)) \in Nat /\ HeadOf(Apply(R, line)) >= HeadOf(R)
<1>0. HeadOf(R) \in Nat
  BY HeadIs
<1>1. CASE line.kind = "route"
  <2>1. Apply(R, line) = Insert(R, line)
    BY <1>1 DEF Apply
  <2>2. RowsOk(Insert(R, line))
    BY <1>1, InsertOk
  <2>3. HeadOf(Insert(R, line)) \in Nat
    BY <2>2, HeadIs
  <2> QED BY <1>1, <2>1, <2>3, InsertOk
<1>2. CASE line.kind = "correction"
  <2>1. Apply(R, line) = Correct(R, line)
    BY <1>2 DEF Apply
  <2> QED BY <1>2, <2>1, CorrectOk
<1>3. CASE line.kind # "route" /\ line.kind # "correction"
  <2>1. Apply(R, line) = R
    BY <1>3 DEF Apply
  <2>2. AnswersFor(R, P \cup {line}, clock)
    BY <1>3 DEF AnswersFor
  <2> QED BY <2>1, <2>2, <1>0
<1> QED BY <1>1, <1>2, <1>3

\* The lines of a batch are taken one after the other.
LEMMA Taken ==
  ASSUME NEW R, NEW lines \in Seq(LogLines)
  PROVE  \E after : /\ after[0] = R
                    /\ \A k \in 1..Len(lines) : after[k] = Apply(after[k - 1], lines[k])
                    /\ _insert_rows(R, lines) = after[Len(lines)]
<1> DEFINE step(f, k) == IF k = 0 THEN R ELSE Apply(f[k - 1], lines[k])
           Some(n) == \E f : f = [k \in 0..n |-> step(f, k)]
           None == {n \in 0..Len(lines) : ~Some(n)}
<1>0. Len(lines) \in Nat
  OBVIOUS
<1>1. None = {}
  <2> SUFFICES ASSUME None # {} PROVE FALSE
    OBVIOUS
  <2>1. None \subseteq Int /\ IsFiniteSet(None)
    <3>1. IsFiniteSet(0..Len(lines))
      BY <1>0, FS_Interval
    <3>2. None \in SUBSET (0..Len(lines))
      OBVIOUS
    <3> HIDE DEF None
    <3>3. IsFiniteSet(None)
      BY <3>1, <3>2, FS_Subset
    <3> QED BY <3>2, <3>3, <1>0
  <2>2. PICK n \in None : \A m \in None : n <= m
    <3> HIDE DEF None
    <3> QED BY <2>1, LeastElement
  <2>3. n # 0
    <3>1. [k \in 0..0 |-> R] = [k \in 0..0 |-> step([j \in 0..0 |-> R], k)]
      OBVIOUS
    <3>2. Some(0)
      BY <3>1
    <3> QED BY <2>2, <3>2
  <2>4. n \in 1..Len(lines) /\ n - 1 \in 0..Len(lines) /\ ~Some(n) /\ ~(n <= n - 1)
    BY <2>2, <2>3, <1>0
  <2>5. PICK f : f = [k \in 0..(n - 1) |-> step(f, k)]
    BY <2>2, <2>4
  <2> DEFINE g == [k \in 0..n |-> IF k = n THEN Apply(f[n - 1], lines[n]) ELSE f[k]]
  <2>6. ASSUME NEW k \in 0..n PROVE g[k] = step(g, k)
    <3>1. CASE k = n
      BY <3>1, <2>4
    <3>2. CASE k # n
      <4>1. k \in 0..(n - 1) /\ (k # 0 => k - 1 \in 0..n /\ k - 1 # n)
        BY <3>2, <2>4
      <4>2. g[k] = f[k] /\ f[k] = step(f, k) /\ (k # 0 => g[k - 1] = f[k - 1])
        BY <4>1, <3>2, <2>5
      <4> QED BY <4>2
    <3> QED BY <3>1, <3>2
  <2>7. g = [k \in 0..n |-> step(g, k)]
    BY <2>6
  <2> HIDE DEF g
  <2> QED BY <2>4, <2>7
<1>2. Some(Len(lines))
  BY <1>0, <1>1
<1> DEFINE after == CHOOSE f : f = [k \in 0..Len(lines) |-> step(f, k)]
<1>3. after = [k \in 0..Len(lines) |-> step(after, k)]
  BY <1>2
<1>4. _insert_rows(R, lines) = after[Len(lines)]
  BY DEF _insert_rows
<1> HIDE DEF after
<1>5. after[0] = R
  BY <1>0, <1>3
<1>6. \A k \in 1..Len(lines) : after[k] = Apply(after[k - 1], lines[k])
  <2> SUFFICES ASSUME NEW k \in 1..Len(lines) PROVE after[k] = Apply(after[k - 1], lines[k])
    OBVIOUS
  <2>1. k \in 0..Len(lines) /\ k # 0
    BY <1>0
  <2> QED BY <2>1, <1>3
<1> QED BY <1>4, <1>5, <1>6

\* What a batch does: it adds rows and moves rows to the head, and what it passed is heard.
LEMMA InsertRowsOk ==
  ASSUME NEW R, RowsOk(R), NEW W, RowsFrom(R, W), NEW P \in SUBSET LogLines, AnswersFor(R, P, clock),
         NEW lines \in Seq(LogLines),
         \A k \in 1..Len(lines) : lines[k] \in W /\ InOrder(lines[k], P),
         \A j, k \in 1..Len(lines) :
             lines[j].kind = "correction" /\ lines[k].kind = "route" /\ lines[j].id = lines[k].id => k < j
  PROVE  LET Q == _insert_rows(R, lines) IN
         /\ RowsOk(Q) /\ RowsFrom(Q, W)
         /\ AnswersFor(Q, P \cup {lines[k] : k \in 1..Len(lines)}, clock)
         /\ \A row \in Q : row \in R \/ row.rowid > HeadOf(R)
         /\ HeadOf(Q) \in Nat /\ HeadOf(Q) >= HeadOf(R)
<1>1. PICK after : /\ after[0] = R
                   /\ \A k \in 1..Len(lines) : after[k] = Apply(after[k - 1], lines[k])
                   /\ _insert_rows(R, lines) = after[Len(lines)]
  BY Taken
<1> DEFINE Past(n) == P \cup {lines[k] : k \in 1..n}
           Good(n) == /\ RowsOk(after[n]) /\ RowsFrom(after[n], W) /\ AnswersFor(after[n], Past(n), clock)
                      /\ \A row \in after[n] : row \in R \/ row.rowid > HeadOf(R)
                      /\ HeadOf(after[n]) \in Nat /\ HeadOf(after[n]) >= HeadOf(R)
           Bad == {n \in 0..Len(lines) : ~Good(n)}
<1>2. Len(lines) \in Nat /\ HeadOf(R) \in Nat /\ \A k \in 1..Len(lines) : lines[k] \in LogLines
  BY HeadIs
<1>3. Good(0)
  <2>1. Past(0) = P
    OBVIOUS
  <2>2. after[0] = R
    BY <1>1
  <2> HIDE DEF Past
  <2>3. AnswersFor(after[0], Past(0), clock)
    BY <2>1, <2>2
  <2> QED BY <1>2, <2>2, <2>3
<1>4. ASSUME NEW n \in 1..Len(lines), Good(n - 1) PROVE Good(n)
  <2> DEFINE S == after[n - 1]
             Q == after[n]
             line == lines[n]
             N == Past(n - 1)
  <2>1. Q = Apply(S, line)
    BY <1>1
  <2>2. N \in SUBSET LogLines
    BY <1>2
  <2>3. InOrder(line, N)
    <3>1. \A k \in 1..(n - 1) : k \in 1..Len(lines) /\ ~(n < k)
      BY <1>2
    <3>2. \A k \in 1..(n - 1) : line.kind = "route" /\ lines[k].kind = "correction" => lines[k].id # line.id
      BY <3>1
    <3> QED BY <3>2 DEF InOrder
  <2>4. Past(n) = N \cup {line}
    <3>1. 1..n = (1..(n - 1)) \cup {n}
      BY <1>2
    <3> QED BY <3>1
  <2>5. line \in W /\ line \in LogLines
    BY <1>2
  <2>6. /\ RowsOk(S) /\ RowsFrom(S, W) /\ AnswersFor(S, N, clock) /\ HeadOf(S) \in Nat /\ HeadOf(S) >= HeadOf(R)
        /\ \A row \in S : row \in R \/ row.rowid > HeadOf(R)
    BY <1>4
  <2>7. Past(n) = N \cup {line} /\ after[n] = Q
    BY <2>4
  <2> HIDE DEF S, Q, line, N, Past
  <2>8. /\ RowsOk(Q) /\ RowsFrom(Q, W) /\ AnswersFor(Q, N \cup {line}, clock)
        /\ (\A row \in Q : row \in S \/ row.rowid > HeadOf(S))
        /\ HeadOf(Q) \in Nat /\ HeadOf(Q) >= HeadOf(S)
    BY <2>1, <2>2, <2>3, <2>5, <2>6, ApplyOk
  <2>9. HeadOf(Q) >= HeadOf(R)
    BY <2>6, <2>8, <1>2
  <2>10. \A row \in Q : row \in R \/ row.rowid > HeadOf(R)
    <3>1. Q \subseteq IndexRows
      BY <2>8 DEF RowsOk
    <3>2. \A row \in Q : row.rowid \in Nat
      BY <3>1 DEF IndexRows
    <3> QED BY <3>2, <2>6, <2>8, <1>2
  <2> QED BY <2>7, <2>8, <2>9, <2>10
<1>5. Bad = {}
  <2> SUFFICES ASSUME Bad # {} PROVE FALSE
    OBVIOUS
  <2>1. IsFiniteSet(Bad) /\ Bad \subseteq Int
    <3>0. Len(lines) \in Int
      BY <1>2
    <3>1. IsFiniteSet(0..Len(lines))
      BY <3>0, FS_Interval
    <3>2. Bad \in SUBSET (0..Len(lines))
      OBVIOUS
    <3> HIDE DEF Bad
    <3>3. IsFiniteSet(Bad)
      BY <3>1, <3>2, FS_Subset
    <3> QED BY <3>2, <3>3, <1>2
  <2>2. PICK n \in Bad : \A m \in Bad : n <= m
    <3> HIDE DEF Bad
    <3> QED BY <2>1, LeastElement
  <2>3. n \in 0..Len(lines) /\ ~Good(n)
    BY <2>2
  <2> HIDE DEF Good
  <2>4. n \in 1..Len(lines) /\ n - 1 \in 0..Len(lines) /\ ~(n <= n - 1)
    BY <2>3, <1>3, <1>2
  <2>5. Good(n - 1)
    BY <2>2, <2>4
  <2> QED BY <1>4, <2>3, <2>4, <2>5
<1>6. Good(Len(lines))
  <2> HIDE DEF Good
  <2> QED BY <1>2, <1>5
<1> QED BY <1>1, <1>6

\* What retention leaves still answers for the young lines.
LEMMA TrimOk ==
  ASSUME NEW R, RowsOk(R), NEW W, RowsFrom(R, W), NEW P \in SUBSET LogLines, AnswersFor(R, P, clock), P \subseteq W,
         \A a, b \in W : a.kind = "route" /\ b.kind = "route" /\ a.id = b.id => a = b,
         clock \in Nat
  PROVE  RowsOk(_trim(R)) /\ RowsFrom(_trim(R), W) /\ AnswersFor(_trim(R), P, clock) /\ _trim(R) \subseteq R
<1> DEFINE T == _trim(R)
           Above(row) == {other \in R : Later(other, row)}
<1>0. R \subseteq IndexRows /\ IsFiniteSet(R) /\ \A a, b \in R : a.id = b.id \/ a.rowid = b.rowid => a = b
  BY DEF RowsOk
<1>1. /\ T \subseteq R
      /\ \A row \in R : row \in T <=> Cardinality(Above(row)) < MaxRows /\ row.at + MaxAge >= clock
  BY DEF _trim
<1>2. \A row \in R : row.at \in Nat /\ row.rowid \in Nat
  BY <1>0 DEF IndexRows
<1>3. RowsOk(T)
  <2>1. IsFiniteSet(T)
    BY <1>0, <1>1, FS_Subset
  <2> QED BY <2>1, <1>0, <1>1 DEF RowsOk
<1>4. RowsFrom(T, W)
  BY <1>1 DEF RowsFrom
<1>5. ASSUME NEW at \in Nat, at + MaxAge >= clock, NEW K \in SUBSET R, K = {row \in R : row.at >= at},
             Cardinality(K) >= MaxRows
      PROVE  Cardinality(NewerIds(T, at)) >= MaxRows
  <2> DEFINE L == K \cap T
             before == {pair \in K \X K : Later(pair[1], pair[2])}
  <2>1. NewerIds(T, at) = {row.id : row \in L} /\ L \in SUBSET R
    BY <1>1, <1>5 DEF NewerIds
  <2>2. Cardinality(NewerIds(T, at)) = Cardinality(L) /\ IsFiniteSet(L) /\ Cardinality(L) \in Nat
    <3> HIDE DEF L, T
    <3> QED BY <2>1, IdsOfRows
  <2>3. Cardinality(L) >= MaxRows
    <3>1. CASE L = K
      BY <3>1, <1>5
    <3>2. CASE L # K
      <4>1. IsFiniteSet(K) /\ L \in SUBSET K /\ before \in SUBSET (K \X K)
        BY <1>0, FS_Subset
      <4>2. \A a, b \in K : <<a, b>> \in before <=> Later(a, b)
        OBVIOUS
      <4>3. \A a, b \in K : a = b \/ Later(a, b) \/ Later(b, a)
        BY <1>0, <1>2 DEF Later
      <4>4. \A a \in K : ~Later(a, a)
        BY <1>2 DEF Later
      <4>5. \A a, b, c \in K : Later(a, b) /\ Later(b, c) => Later(a, c)
        BY <1>2 DEF Later
      <4>6. PICK x \in K \ L : \A y \in K \ L : y = x \/ <<x, y>> \in before
        <5> HIDE DEF L, before
        <5> QED BY <4>1, <4>2, <4>3, <4>4, <4>5, <3>2, FirstOutside
      <4>7. x \in R /\ x \notin T /\ x.at >= at /\ x.at \in Nat
        BY <1>5, <1>2
      <4>8. Cardinality(Above(x)) >= MaxRows
        <5>1. x.at + MaxAge >= clock
          BY <4>7, <1>5, LogLimits
        <5>2. IsFiniteSet(Above(x))
          BY <1>0, FS_Subset
        <5>3. Cardinality(Above(x)) \in Nat
          BY <5>2, FS_CardinalityType
        <5>4. ~(Cardinality(Above(x)) < MaxRows)
          BY <4>7, <5>1, <1>1
        <5> QED BY <5>3, <5>4, LogLimits
      <4>9. Above(x) \subseteq L
        <5> SUFFICES ASSUME NEW y \in R, Later(y, x) PROVE y \in L
          OBVIOUS
        <5>1. y.at >= x.at /\ y.at \in Nat
          BY <1>2, <4>7 DEF Later
        <5>2. y \in K
          BY <5>1, <4>7, <1>5
        <5>3. y # x /\ ~Later(x, y)
          BY <1>2, <4>7 DEF Later
        <5> QED BY <5>2, <5>3, <4>6, <4>2
      <4>10. Cardinality(Above(x)) <= Cardinality(L) /\ Cardinality(Above(x)) \in Nat
        <5>1. IsFiniteSet(Above(x))
          BY <1>0, FS_Subset
        <5> HIDE DEF Above, L
        <5> QED BY <2>2, <4>9, <5>1, FS_Subset, FS_CardinalityType
      <4> QED BY <2>2, <4>8, <4>10, LogLimits
    <3> QED BY <3>1, <3>2
  <2> QED BY <2>2, <2>3
<1>6. ASSUME NEW line \in P, line.kind = "route", line.at + MaxAge >= clock
      PROVE  RowOf(T, line.id) # {} \/ Cardinality(NewerIds(T, line.at)) >= MaxRows
  <2> DEFINE K == {row \in R : row.at >= line.at}
  <2>1. line.at \in Nat /\ line.at + MaxAge >= clock /\ K \in SUBSET R
    BY <1>6 DEF LogLines, Junk
  <2>2. CASE Cardinality(K) >= MaxRows
    <3> HIDE DEF T
    <3> QED BY <2>1, <2>2, <1>5
  <2>3. CASE ~(Cardinality(K) >= MaxRows)
    <3>1. IsFiniteSet(K) /\ Cardinality(K) \in Nat /\ Cardinality(K) < MaxRows
      BY <2>1, <2>3, <1>0, FS_Subset, FS_CardinalityType, LogLimits
    <3>2. NewerIds(R, line.at) = {row.id : row \in K}
      BY DEF NewerIds
    <3>3. ~(Cardinality(NewerIds(R, line.at)) >= MaxRows)
      <4> HIDE DEF K
      <4> QED BY <3>1, <3>2, <2>1, <2>3, IdsOfRows
    <3>4. PICK row \in R : row.id = line.id
      BY <1>6, <3>3 DEF AnswersFor, RowOf
    <3>5. row.at = line.at
      <4>1. Route(row.id, row.at) \in W /\ line \in W
        BY DEF RowsFrom
      <4>2. Route(row.id, row.at).kind = "route" /\ Route(row.id, row.at).id = line.id
            /\ Route(row.id, row.at).at = row.at
        BY <3>4 DEF Route
      <4> QED BY <4>1, <4>2, <1>6
    <3>6. Above(row) \in SUBSET K
      BY <3>5, <1>2, <2>1 DEF Later
    <3>7. Cardinality(Above(row)) < MaxRows
      <4>1. Cardinality(Above(row)) <= Cardinality(K) /\ Cardinality(Above(row)) \in Nat
        <5> HIDE DEF Above, K
        <5> QED BY <3>1, <3>6, FS_Subset, FS_CardinalityType
      <4> QED BY <4>1, <3>1, LogLimits
    <3>8. row \in T
      BY <3>5, <3>7, <2>1, <1>1
    <3> QED BY <3>4, <3>8 DEF RowOf
  <2> QED BY <2>2, <2>3
<1>7. AnswersFor(T, P, clock)
  <2>1. \A line \in P : line.kind = "correction" =>
           \A row \in RowOf(T, line.id) : row.reason = "client_disconnected"
    BY <1>1 DEF AnswersFor, RowOf
  <2> QED BY <1>6, <2>1 DEF AnswersFor
<1> QED BY <1>1, <1>3, <1>4, <1>7

\* A page that has been answered shows every row behind its cursor, unless it was told to load the
\* list again or its cursor lost its meaning.
LEMMA PageAfterOk ==
  ASSUME NEW R, RowsOk(R), NEW for \in Reads, NEW fixed \in BOOLEAN,
         page \in [cursor : Nat, shows : SUBSET (Requests \X RowReasons), reload : BOOLEAN, reused : BOOLEAN],
         ~page.reload /\ ~page.reused =>
             \A row \in R : row.rowid <= page.cursor => <<row.id, row.reason>> \in page.shows
  PROVE  LET p == PageAfter(for, R, fixed) IN
         /\ p \in [cursor : Nat, shows : SUBSET (Requests \X RowReasons), reload : BOOLEAN, reused : BOOLEAN]
         /\ ~p.reload /\ ~p.reused =>
               /\ p.cursor <= HeadOf(R)
               /\ \A row \in R : row.rowid <= p.cursor => <<row.id, row.reason>> \in p.shows
<1> DEFINE head == HeadOf(R)
           beyond == {row \in R : row.rowid > page.cursor}
           Under(row) == {other \in beyond : other.rowid < row.rowid}
           batch == {row \in beyond : Cardinality(Under(row)) < Limit}
           resync == \/ fixed \/ page.cursor > head \/ head > page.cursor + MaxReplay
                     \/ \E row \in beyond : row.fixed
           p == PageAfter(for, R, fixed)
           Pages == [cursor : Nat, shows : SUBSET (Requests \X RowReasons), reload : BOOLEAN, reused : BOOLEAN]
<1>0. /\ head \in Nat /\ (\A row \in R : row.rowid <= head) /\ R \subseteq IndexRows /\ IsFiniteSet(R)
      /\ \A a, b \in R : a.id = b.id \/ a.rowid = b.rowid => a = b
  BY HeadIs DEF RowsOk
<1>1. \A row \in R : row.rowid \in Nat /\ <<row.id, row.reason>> \in Requests \X RowReasons
  BY <1>0 DEF IndexRows
<1>2. CASE for = "list"
  <2>1. p = [cursor |-> head, shows |-> {<<row.id, row.reason>> : row \in R}, reload |-> FALSE, reused |-> FALSE]
    BY <1>2 DEF PageAfter
  <2>2. {<<row.id, row.reason>> : row \in R} \in SUBSET (Requests \X RowReasons)
    BY <1>1
  <2> HIDE DEF p, head
  <2>3. p \in Pages /\ p.cursor = head /\ \A row \in R : <<row.id, row.reason>> \in p.shows
    BY <2>1, <2>2, <1>0
  <2> QED BY <2>3, <1>0 DEF p, head
<1>3. CASE for = "tail" /\ resync
  <2>1. p = [page EXCEPT !.cursor = head, !.reload = TRUE]
    BY <1>3 DEF PageAfter
  <2> HIDE DEF p, head, resync
  <2>2. p \in Pages /\ p.reload
    BY <2>1, <1>0
  <2> QED BY <2>2 DEF p
<1>4. CASE for = "tail" /\ ~resync
  <2> DEFINE cursor == IF Cardinality(batch) >= Limit THEN HeadOf(batch) ELSE head
  <2>1. p = [page EXCEPT !.cursor = cursor, !.shows = @ \cup {<<row.id, row.reason>> : row \in batch}]
    BY <1>4 DEF PageAfter
  <2>2. page.cursor \in Nat /\ page.cursor <= head
    BY <1>4, <1>0
  <2>3. /\ beyond \in SUBSET R /\ batch \in SUBSET beyond
        /\ \A row \in R : row \in beyond <=> row.rowid > page.cursor
        /\ \A row \in beyond : row \in batch <=> Cardinality(Under(row)) < Limit
        /\ \A row, other \in beyond : other \in Under(row) <=> other.rowid < row.rowid
        /\ \A row \in beyond : Under(row) \subseteq beyond
    OBVIOUS
  <2> HIDE DEF beyond, batch, Under, resync, head, p, cursor
  <2>4. /\ IsFiniteSet(beyond) /\ IsFiniteSet(batch) /\ Cardinality(batch) \in Nat
        /\ \A row \in beyond : IsFiniteSet(Under(row)) /\ Cardinality(Under(row)) \in Nat
    <3>1. IsFiniteSet(beyond)
      BY <1>0, <2>3, FS_Subset
    <3>2. \A row \in beyond : IsFiniteSet(Under(row))
      BY <3>1, <2>3, FS_Subset
    <3>3. IsFiniteSet(batch)
      BY <3>1, <2>3, FS_Subset
    <3> QED BY <3>1, <3>2, <3>3, FS_CardinalityType
  <2>5. RowsOk(batch)
    <3>1. batch \subseteq R
      BY <2>3
    <3> QED BY <3>1, <2>4, <1>0 DEF RowsOk
  <2>6. ASSUME Cardinality(batch) >= Limit
        PROVE  cursor \in Nat /\ cursor <= head /\ \A row \in beyond : row.rowid <= cursor => row \in batch
    <3>1. cursor = HeadOf(batch)
      BY <2>6 DEF cursor
    <3>2. HeadOf(batch) \in Nat /\ \A row \in batch : row.rowid <= HeadOf(batch)
      BY <2>5, HeadIs
    <3>3. batch # {}
      <4> SUFFICES ASSUME batch = {} PROVE FALSE
        OBVIOUS
      <4>1. Cardinality(batch) = 0
        BY FS_EmptySet
      <4> QED BY <4>1, <2>6, LogLimits
    <3>4. PICK top \in batch : HeadOf(batch) = top.rowid
      <4> DEFINE N == {row.rowid : row \in batch}
      <4>1. N \cup {0} \subseteq Int /\ N \cup {0} # {} /\ N # {} /\ \A n \in N : n > 0
        <5>1. \A row \in batch : row.rowid \in Nat /\ row.rowid > page.cursor
          BY <2>3, <1>1
        <5> QED BY <5>1, <2>2, <3>3
      <4>2. IsFiniteSet(N \cup {0})
        <5> DEFINE f == [row \in batch |-> row.rowid]
        <5>1. f \in [batch -> N] /\ \A n \in N : \E row \in batch : f[row] = n
          OBVIOUS
        <5> HIDE DEF f, N
        <5>2. IsFiniteSet(N)
          BY <5>1, <2>4, FiniteImage
        <5> QED BY <5>2, FS_AddElement
      <4>3. HeadOf(batch) = Max(N \cup {0})
        BY DEF HeadOf
      <4> HIDE DEF N
      <4>4. Max(N \cup {0}) \in N \cup {0} /\ \A n \in N \cup {0} : Max(N \cup {0}) >= n
        BY <4>1, <4>2, GreatestElement
      <4>5. HeadOf(batch) \in N
        <5>1. PICK n \in N : n > 0
          BY <4>1
        <5>2. HeadOf(batch) >= n
          BY <4>3, <4>4
        <5>3. HeadOf(batch) # 0
          BY <5>1, <5>2, <4>1
        <5> QED BY <4>3, <4>4, <5>3
      <4> QED BY <4>5 DEF N
    <3>5. \A row \in beyond : row.rowid <= cursor => row \in batch
      <4> SUFFICES ASSUME NEW row \in beyond, row.rowid <= cursor PROVE row \in batch
        OBVIOUS
      <4>1. top \in beyond /\ row.rowid \in Nat /\ top.rowid \in Nat /\ row.rowid <= top.rowid
        BY <2>3, <1>1, <3>1, <3>4
      <4>2. Under(row) \subseteq Under(top)
        <5> SUFFICES ASSUME NEW other \in Under(row) PROVE other \in Under(top)
          OBVIOUS
        <5>1. other \in beyond
          BY <2>3
        <5>2. other.rowid \in Nat /\ other.rowid < row.rowid
          BY <5>1, <2>3, <1>1
        <5> QED BY <5>1, <5>2, <4>1, <2>3
      <4>3. Cardinality(Under(row)) <= Cardinality(Under(top))
        BY <4>1, <4>2, <2>4, FS_Subset
      <4>4. Cardinality(Under(top)) < Limit
        BY <2>3, <4>1
      <4>5. Cardinality(Under(row)) < Limit
        BY <4>1, <4>3, <4>4, <2>4, LogLimits
      <4> QED BY <4>5, <2>3
    <3>6. cursor \in Nat /\ cursor <= head
      BY <3>1, <3>2, <3>4, <2>3, <1>0
    <3> QED BY <3>5, <3>6
  <2>7. ASSUME ~(Cardinality(batch) >= Limit)
        PROVE  cursor \in Nat /\ cursor <= head /\ \A row \in beyond : row.rowid <= cursor => row \in batch
    <3>1. cursor = head
      BY <2>7 DEF cursor
    <3>2. batch = beyond
      <4> SUFFICES ASSUME batch # beyond PROVE FALSE
        OBVIOUS
      <4>0. batch # beyond
        OBVIOUS
      <4> DEFINE before == {pair \in beyond \X beyond : pair[1].rowid < pair[2].rowid}
      <4>1. \A a, b \in beyond : <<a, b>> \in before <=> a.rowid < b.rowid
        OBVIOUS
      <4>2. \A row \in beyond : row.rowid \in Nat
        BY <2>3, <1>1
      <4>3. \A a, b \in beyond : a = b \/ a.rowid < b.rowid \/ b.rowid < a.rowid
        BY <4>2, <2>3, <1>0
      <4>4. before \in SUBSET (beyond \X beyond)
        OBVIOUS
      <4> HIDE DEF before
      <4>5. /\ \A a, b \in beyond : a = b \/ <<a, b>> \in before \/ <<b, a>> \in before
            /\ \A a \in beyond : <<a, a>> \notin before
            /\ \A a, b, c \in beyond : <<a, b>> \in before /\ <<b, c>> \in before => <<a, c>> \in before
        BY <4>1, <4>2, <4>3
      <4>6. PICK x \in beyond \ batch : \A y \in beyond \ batch : y = x \/ <<x, y>> \in before
        <5>1. IsFiniteSet(beyond) /\ batch \in SUBSET beyond /\ batch # beyond
          BY <4>0, <2>3, <2>4
        <5> QED BY <5>1, <4>4, <4>5, FirstOutside
      <4>7. Under(x) \subseteq batch
        <5> SUFFICES ASSUME NEW y \in Under(x) PROVE y \in batch
          OBVIOUS
        <5>1. y \in beyond
          BY <2>3
        <5>2. y.rowid < x.rowid /\ y.rowid \in Nat /\ x.rowid \in Nat
          BY <5>1, <2>3, <4>2
        <5>3. x \in beyond /\ x # y /\ ~(x.rowid < y.rowid)
          BY <5>2, <4>6
        <5>4. <<x, y>> \notin before
          BY <5>1, <5>3, <4>1
        <5> QED BY <5>1, <5>3, <5>4, <4>6
      <4>8. Cardinality(Under(x)) <= Cardinality(batch)
        BY <4>7, <2>4, FS_Subset
      <4>9. Cardinality(Under(x)) < Limit
        BY <4>8, <2>4, <2>7, LogLimits
      <4> QED BY <4>6, <4>9, <2>3
    <3> QED BY <3>1, <3>2, <1>0
  <2>8. cursor \in Nat /\ cursor <= head /\ \A row \in beyond : row.rowid <= cursor => row \in batch
    BY <2>6, <2>7
  <2>9. {<<row.id, row.reason>> : row \in batch} \in SUBSET (Requests \X RowReasons)
    BY <2>3, <1>1
  <2>10. /\ p \in Pages /\ p.cursor = cursor /\ p.reload = page.reload /\ p.reused = page.reused
         /\ p.shows = page.shows \cup {<<row.id, row.reason>> : row \in batch}
    BY <2>1, <2>8, <2>9
  <2>11. ASSUME ~p.reload /\ ~p.reused, NEW row \in R, row.rowid <= p.cursor
         PROVE  <<row.id, row.reason>> \in p.shows
    <3>1. CASE row.rowid <= page.cursor
      BY <3>1, <2>10, <2>11
    <3>2. CASE ~(row.rowid <= page.cursor)
      <4>1. row.rowid > page.cursor
        <5>1. row.rowid \in Nat /\ page.cursor \in Nat
          BY <2>2, <1>1
        <5> DEFINE a == row.rowid  b == page.cursor
        <5>2. a \in Nat /\ b \in Nat /\ ~(a <= b)
          BY <3>2, <5>1
        <5> HIDE DEF a, b
        <5>3. a > b
          BY <5>2
        <5> QED BY <5>3 DEF a, b
      <4>2. row \in beyond
        BY <4>1, <2>3
      <4> QED BY <4>2, <2>8, <2>10, <2>11
    <3> QED BY <3>1, <3>2
  <2> QED BY <2>8, <2>10, <2>11 DEF p, head
<1>5. CASE for = "other"
  <2> DEFINE ahead == head < page.cursor
             reused == page.reused \/ ahead
  <2>1. p = [page EXCEPT !.reused = reused]
    BY <1>5 DEF PageAfter
  <2>3. reused \in BOOLEAN /\ (~reused => ~page.reused /\ ~ahead)
    OBVIOUS
  <2>4. ~ahead => page.cursor <= head
    BY <1>0
  <2> HIDE DEF p, head, ahead, reused
  <2>2. /\ p \in Pages /\ p.cursor = page.cursor /\ p.shows = page.shows /\ p.reload = page.reload
        /\ ~p.reused => ~page.reused /\ p.cursor <= head
    <3>1. p \in Pages /\ p.cursor = page.cursor /\ p.shows = page.shows /\ p.reload = page.reload /\ p.reused = reused
      BY <2>1, <2>3
    <3> QED BY <3>1, <2>3, <2>4
  <2> QED BY <2>2 DEF p, head
<1> QED BY <1>2, <1>3, <1>4, <1>5 DEF Reads

------------------------------------------------------------------------------
FirstLines(n) == {Current[k] : k \in 1..n}
Written == UNION {{files[g][k] : k \in 1..Len(files[g])} : g \in 1..Gen}

LogTyped ==
    /\ clock \in Nat /\ files \in Seq(Seq(LogLines)) /\ Gen >= 1
    /\ present \in BOOLEAN /\ frag \in BOOLEAN
    /\ writer # NoLine => writer \in {"open", "write"} \X (LogLines \ {Junk})
    /\ meta \in [ident : Nat, offset : Nat]
    /\ reader \in [stage : {"idle", "open", "read"}, gen : Nat, offset : Nat, ident : Nat,
                   fixed : BOOLEAN, for : Reads \cup {"none"}]
    /\ page \in [cursor : Nat, shows : SUBSET (Requests \X RowReasons), reload : BOOLEAN, reused : BOOLEAN]

\* A request has one row in the log, and its correction is behind it.
LogInOrder ==
    /\ \A line \in Written : line # Junk => line.id \in logged
    /\ \A a, b \in Written : a.kind = "route" /\ b.kind = "route" /\ a.id = b.id => a = b
    /\ writer # NoLine => (writer[2].kind = "route" <=> writer[2].id \notin logged)
    /\ \A g \in 1..Gen : \A j, k \in 1..Len(files[g]) :
           files[g][j].kind = "correction" /\ files[g][k].kind = "route" /\ files[g][j].id = files[g][k].id => k < j

\* Whose offset the reader holds.
ReaderFollows ==
    /\ meta.ident <= Gen
    /\ reader.stage # "idle" =>
           1 <= reader.ident /\ meta.ident <= reader.ident /\ reader.ident <= Gen /\ reader.for \in Reads
    /\ reader.stage = "read" => reader.ident <= reader.gen /\ reader.gen <= Gen
    /\ reader.stage = "open" /\ ~present => reader.ident < Gen
    /\ reader.stage # "idle" /\ reader.ident = Gen /\ Gen \notin blank =>
           reader.offset = IF meta.ident = Gen THEN meta.offset ELSE 0

IndexAnswers ==
    /\ RowsOk(rows) /\ RowsFrom(rows, Written)
    /\ meta.ident = Gen /\ Gen \notin blank =>
           meta.offset <= Len(Current) /\ AnswersFor(rows, FirstLines(meta.offset), clock)

PageFollows ==
    ~page.reload /\ ~page.reused =>
        /\ page.cursor <= HeadOf(rows)
        /\ \A row \in rows : row.rowid <= page.cursor => <<row.id, row.reason>> \in page.shows

LogInv == LogTyped /\ LogInOrder /\ ReaderFollows /\ IndexAnswers /\ PageFollows

------------------------------------------------------------------------------
LEMMA FilesAre ==
  ASSUME LogTyped
  PROVE  /\ Gen \in Nat /\ Gen \in 1..Gen /\ \A g \in 1..Gen : files[g] \in Seq(LogLines)
         /\ \A line : line \in Written <=> \E g \in 1..Gen : \E k \in 1..Len(files[g]) : files[g][k] = line
         /\ Written \subseteq LogLines
         /\ Len(Current) \in Nat
         /\ \A n \in Nat : n <= Len(Current) => FirstLines(n) \subseteq Written
<1>1. Gen \in Nat /\ Gen \in 1..Gen /\ \A g \in 1..Gen : files[g] \in Seq(LogLines)
  BY DEF LogTyped, Gen
<1>2. \A line : line \in Written <=> \E g \in 1..Gen : \E k \in 1..Len(files[g]) : files[g][k] = line
  BY DEF Written
<1>3. \A g \in 1..Gen : Len(files[g]) \in Nat /\ \A k \in 1..Len(files[g]) : files[g][k] \in LogLines
  BY <1>1
<1>4. Written \subseteq LogLines
  BY <1>2, <1>3
<1>5. Len(Current) \in Nat
  BY <1>1, <1>3 DEF Current
<1>6. ASSUME NEW n \in Nat, n <= Len(Current) PROVE FirstLines(n) \subseteq Written
  <2>1. \A k \in 1..n : k \in 1..Len(files[Gen])
    BY <1>5, <1>6 DEF Current
  <2> QED BY <1>1, <1>2, <2>1 DEF FirstLines, Current
<1> QED BY <1>1, <1>2, <1>4, <1>5, <1>6

\* Less is asked of the lines passed as they grow old.
LEMMA HeardOlder ==
  ASSUME NEW R, NEW P \in SUBSET LogLines, NEW time \in Nat, NEW then \in Nat, time <= then, AnswersFor(R, P, time)
  PROVE  AnswersFor(R, P, then)
<1>1. \A line \in P : line.kind = "route" /\ line.at + MaxAge >= then => line.at + MaxAge >= time
  <2> SUFFICES ASSUME NEW line \in P, line.kind = "route", line.at + MaxAge >= then
               PROVE  line.at + MaxAge >= time
    OBVIOUS
  <2>1. line.at \in Nat
    BY DEF LogLines, Junk
  <2> QED BY <2>1, LogLimits
<1> QED BY <1>1 DEF AnswersFor

\* What a catch-up makes of the lines it has read from the file it holds open.
LEMMA BatchOk ==
  ASSUME LogTyped, LogInOrder, ReaderFollows, IndexAnswers, reader.stage = "read",
         NEW lines \in Seq(LogLines),
         \A k \in 1..Len(lines) : /\ reader.offset + k \in 1..Len(files[reader.gen])
                                  /\ lines[k] = files[reader.gen][reader.offset + k]
  PROVE  LET Q == _insert_rows(rows, lines) IN
         /\ RowsOk(Q) /\ RowsFrom(Q, Written)
         /\ \A row \in Q : row \in rows \/ row.rowid > HeadOf(rows)
         /\ HeadOf(Q) \in Nat /\ HeadOf(Q) >= HeadOf(rows)
         /\ reader.ident = Gen /\ Gen \notin blank =>
               /\ reader.offset + Len(lines) <= Len(Current)
               /\ AnswersFor(Q, FirstLines(reader.offset + Len(lines)), clock)
<1> DEFINE n == Len(lines)
           off == reader.offset
           here == reader.ident = Gen /\ Gen \notin blank
           P == IF here THEN FirstLines(off) ELSE {}
           Q == _insert_rows(rows, lines)
           N == {lines[k] : k \in 1..Len(lines)}
<1>1. /\ n \in Nat /\ off \in Nat /\ reader.gen \in 1..Gen
      /\ here => reader.gen = Gen
  <2>1. n \in Nat /\ off \in Nat /\ reader.gen \in Nat /\ reader.ident \in Nat /\ Gen \in Nat
    BY FilesAre DEF LogTyped
  <2>2. 1 <= reader.ident /\ reader.ident <= reader.gen /\ reader.gen <= Gen
    BY DEF ReaderFollows
  <2> HIDE DEF n, off
  <2> QED BY <2>1, <2>2
<1>2. here => off <= Len(Current) /\ AnswersFor(rows, FirstLines(off), clock)
  <2>1. CASE meta.ident = Gen
    BY <2>1 DEF ReaderFollows, IndexAnswers
  <2>2. CASE meta.ident # Gen
    <3>1. here => off = 0
      BY <2>2 DEF ReaderFollows
    <3>2. FirstLines(0) = {}
      BY DEF FirstLines
    <3>3. AnswersFor(rows, {}, clock)
      BY DEF AnswersFor
    <3>4. Len(Current) \in Nat
      BY FilesAre
    <3>5. here => FirstLines(off) = {}
      BY <3>1, <3>2
    <3> HIDE DEF off, here
    <3>6. here => off <= Len(Current)
      BY <3>1, <3>4
    <3>7. here => AnswersFor(rows, FirstLines(off), clock)
      <4> SUFFICES ASSUME here PROVE AnswersFor(rows, FirstLines(off), clock)
        OBVIOUS
      <4>1. FirstLines(off) = {}
        BY <3>5
      <4> QED BY <3>3, <4>1
    <3> QED BY <3>6, <3>7
  <2> QED BY <2>1, <2>2
<1>3. P \in SUBSET LogLines /\ AnswersFor(rows, P, clock)
  <2>1. here => FirstLines(off) \subseteq LogLines
    BY <1>1, <1>2, FilesAre
  <2>2. AnswersFor(rows, {}, clock)
    BY DEF AnswersFor
  <2> QED BY <1>2, <2>1, <2>2
<1>4. \A k \in 1..n : lines[k] \in Written
  BY <1>1, FilesAre
<1>5. \A k \in 1..n : InOrder(lines[k], P)
  <2> SUFFICES ASSUME here, NEW k \in 1..n, lines[k].kind = "route", NEW j \in 1..off,
                      Current[j].kind = "correction", Current[j].id = lines[k].id
               PROVE  FALSE
    BY DEF InOrder, FirstLines
  <2>1. off + k \in 1..Len(Current) /\ lines[k] = Current[off + k] /\ j \in 1..Len(Current)
    BY <1>1, <1>2, FilesAre DEF Current
  <2>2. off + k < j
    BY <2>1, FilesAre DEF LogInOrder, Current
  <2> QED BY <2>2, <1>1
<1>6. \A j, k \in 1..n :
          lines[j].kind = "correction" /\ lines[k].kind = "route" /\ lines[j].id = lines[k].id => k < j
  <2> SUFFICES ASSUME NEW j \in 1..n, NEW k \in 1..n, lines[j].kind = "correction", lines[k].kind = "route",
                      lines[j].id = lines[k].id
               PROVE  k < j
    OBVIOUS
  <2>1. off + k < off + j
    BY <1>1 DEF LogInOrder
  <2> QED BY <2>1, <1>1
<1>7. RowsOk(rows) /\ RowsFrom(rows, Written)
  BY DEF IndexAnswers
<1>8. /\ RowsOk(Q) /\ RowsFrom(Q, Written) /\ AnswersFor(Q, P \cup N, clock)
      /\ \A row \in Q : row \in rows \/ row.rowid > HeadOf(rows)
      /\ HeadOf(Q) \in Nat /\ HeadOf(Q) >= HeadOf(rows)
  <2> HIDE DEF P
  <2> QED BY <1>3, <1>4, <1>5, <1>6, <1>7, InsertRowsOk
<1>9. here => off + n <= Len(Current) /\ FirstLines(off + n) = P \cup N
  <2> SUFFICES ASSUME here PROVE off + n <= Len(Current) /\ FirstLines(off + n) = P \cup N
    OBVIOUS
  <2>1. \A k \in 1..n : off + k \in 1..Len(Current) /\ lines[k] = Current[off + k]
    BY <1>1 DEF Current
  <2>2. off + n <= Len(Current)
    <3>1. CASE n = 0
      BY <3>1, <1>1, <1>2
    <3>2. CASE n # 0
      <4>1. n \in 1..n
        BY <3>2, <1>1
      <4> QED BY <4>1, <2>1
    <3> QED BY <3>1, <3>2
  <2>3. P = {Current[k] : k \in 1..off} /\ N = {Current[off + k] : k \in 1..n}
    BY <2>1 DEF FirstLines
  <2>4. \A k \in 1..(off + n) : k \in 1..off \/ (k - off \in 1..n /\ off + (k - off) = k)
    BY <1>1
  <2>5. (\A k \in 1..off : k \in 1..(off + n)) /\ \A k \in 1..n : off + k \in 1..(off + n)
    BY <1>1
  <2>6. FirstLines(off + n) = {Current[k] : k \in 1..(off + n)}
    BY DEF FirstLines
  <2> HIDE DEF P, N, n, off
  <2>7. FirstLines(off + n) \subseteq P \cup N
    BY <2>3, <2>4, <2>6
  <2>8. P \cup N \subseteq FirstLines(off + n)
    BY <2>3, <2>5, <2>6
  <2> QED BY <2>2, <2>7, <2>8
<1> QED BY <1>8, <1>9

------------------------------------------------------------------------------
(* The writer's steps leave the index and the page alone.                  *)

\* What stays when the log only grows behind what was passed.
LEMMA IndexStays ==
  ASSUME LogInv, UNCHANGED <<clock, rows, meta, reader, blank, page>>,
         Gen' \in Nat, Gen <= Gen', Written \subseteq Written',
         reader.stage = "open" /\ ~present' => reader.ident < Gen',
         Gen' = Gen => /\ Len(Current)' \in Nat /\ Len(Current) <= Len(Current)'
                       /\ \A k \in 1..Len(Current) : Current'[k] = Current[k]
  PROVE  ReaderFollows' /\ IndexAnswers' /\ PageFollows'
<1>0. /\ Gen \in Nat /\ Len(Current) \in Nat /\ meta.ident \in Nat /\ meta.offset \in Nat /\ reader.ident \in Nat
      /\ reader.gen \in Nat /\ meta.ident <= Gen
      /\ reader.stage # "idle" => reader.ident <= Gen
  BY FilesAre DEF LogInv, LogTyped, ReaderFollows
<1>1. ReaderFollows'
  <2>1. meta'.ident <= Gen'
    BY <1>0
  <2>2. reader'.stage # "idle" =>
           1 <= reader'.ident /\ meta'.ident <= reader'.ident /\ reader'.ident <= Gen' /\ reader'.for \in Reads
    BY <1>0 DEF LogInv, ReaderFollows
  <2>3. reader'.stage = "read" => reader'.ident <= reader'.gen /\ reader'.gen <= Gen'
    BY <1>0 DEF LogInv, ReaderFollows
  <2>4. reader'.stage # "idle" /\ reader'.ident = Gen' /\ Gen' \notin blank' =>
           reader'.offset = IF meta'.ident = Gen' THEN meta'.offset ELSE 0
    <3>1. reader.stage # "idle" /\ reader.ident = Gen' => Gen' = Gen
      BY <1>0
    <3> QED BY <3>1 DEF LogInv, ReaderFollows
  <2> QED BY <2>1, <2>2, <2>3, <2>4 DEF ReaderFollows
<1>2. IndexAnswers'
  <2>1. RowsOk(rows)' /\ RowsFrom(rows, Written)'
    BY DEF LogInv, IndexAnswers, RowsFrom
  <2>2. ASSUME meta'.ident = Gen', Gen' \notin blank'
        PROVE  meta'.offset <= Len(Current)' /\ AnswersFor(rows, FirstLines(meta.offset), clock)'
    <3>1. Gen' = Gen
      BY <2>2, <1>0
    <3>2. meta.offset <= Len(Current) /\ AnswersFor(rows, FirstLines(meta.offset), clock)
      BY <2>2, <3>1 DEF LogInv, IndexAnswers
    <3>3. FirstLines(meta.offset)' = FirstLines(meta.offset)
      <4>1. \A k \in 1..meta.offset : k \in 1..Len(Current)
        BY <3>2, <1>0
      <4>2. \A k \in 1..meta.offset : Current'[k] = Current[k]
        BY <4>1, <3>1
      <4> QED BY <4>2 DEF FirstLines
    <3>4. meta'.offset <= Len(Current)'
      BY <3>1, <3>2, <1>0
    <3> QED BY <3>2, <3>3, <3>4
  <2> QED BY <2>1, <2>2 DEF IndexAnswers
<1>3. PageFollows'
  BY DEF LogInv, PageFollows
<1> QED BY <1>1, <1>2, <1>3

LEMMA AppendKeeps ==
  ASSUME LogInv, NEW line \in LogLines \ {Junk}, line.kind = "route" <=> line.id \notin logged, Append_(line)
  PROVE  LogInv'
<1> USE DEF LogInv
<1>0. /\ UNCHANGED <<clock, logged, rows, meta, reader, blank, page>> /\ writer' = <<"open", line>>
      /\ \/ files' = Append(files, <<>>) /\ present' = FALSE /\ frag' = FALSE
         \/ UNCHANGED <<files, present, frag>>
  BY DEF Append_, rotate_if_oversized, indexVars
<1>1. /\ Gen \in Nat /\ (\A g \in 1..Gen : files[g] \in Seq(LogLines)) /\ files \in Seq(Seq(LogLines)) /\ Gen >= 1
  BY FilesAre DEF LogTyped
<1>2. /\ files' \in Seq(Seq(LogLines)) /\ Gen' \in Nat /\ Gen <= Gen' /\ Gen' >= 1
      /\ \A g \in 1..Gen : files'[g] = files[g]
      /\ \A g \in 1..Gen' : g \in 1..Gen \/ files'[g] = <<>>
      /\ Gen' = Gen => files' = files /\ present' = present
      /\ Gen' # Gen => Gen < Gen'
  <2>1. CASE files' = Append(files, <<>>)
    <3>1. <<>> \in Seq(LogLines)
      OBVIOUS
    <3>2. files' \in Seq(Seq(LogLines)) /\ Gen' = Gen + 1
      BY <2>1, <3>1, <1>1 DEF Gen
    <3>3. (\A g \in 1..Gen : files'[g] = files[g]) /\ files'[Gen + 1] = <<>>
      BY <2>1, <1>1 DEF Gen
    <3> QED BY <3>2, <3>3, <1>1
  <2>2. CASE UNCHANGED <<files, present, frag>>
    BY <2>2, <1>1 DEF Gen
  <2> QED BY <2>1, <2>2, <1>0
<1>3. LogTyped'
  <2>1. writer' \in {"open", "write"} \X (LogLines \ {Junk})
    BY <1>0
  <2>2. present' \in BOOLEAN /\ frag' \in BOOLEAN
    BY <1>0 DEF LogTyped
  <2> QED BY <2>1, <2>2, <1>0, <1>2 DEF LogTyped
<1>4. Written' = Written
  <2>1. \A line1 : line1 \in Written' <=> \E g \in 1..Gen' : \E k \in 1..Len(files'[g]) : files'[g][k] = line1
    BY DEF Written
  <2>2. \A g \in 1..Gen : g \in 1..Gen'
    BY <1>1, <1>2
  <2>3. \A line1 : line1 \in Written' => line1 \in Written
    BY <2>1, <1>2, FilesAre
  <2>4. \A line1 : line1 \in Written => line1 \in Written'
    BY <2>1, <2>2, <1>2, FilesAre
  <2> QED BY <2>3, <2>4
<1>5. LogInOrder'
  <2>1. writer'[2] = line
    BY <1>0
  <2>2. \A g \in 1..Gen' : \A j, k \in 1..Len(files'[g]) :
           files'[g][j].kind = "correction" /\ files'[g][k].kind = "route" /\ files'[g][j].id = files'[g][k].id => k < j
    <3> SUFFICES ASSUME NEW g \in 1..Gen', NEW j \in 1..Len(files'[g]), NEW k \in 1..Len(files'[g]),
                        files'[g][j].kind = "correction", files'[g][k].kind = "route",
                        files'[g][j].id = files'[g][k].id
                 PROVE  k < j
      OBVIOUS
    <3>1. g \in 1..Gen /\ files'[g] = files[g]
      <4>1. files'[g] # <<>>
        <5> SUFFICES ASSUME files'[g] = <<>> PROVE FALSE
          OBVIOUS
        <5>1. Len(files'[g]) = 0
          OBVIOUS
        <5> QED BY <5>1
      <4> QED BY <4>1, <1>2
    <3> QED BY <3>1 DEF LogInOrder
  <2> QED BY <2>1, <2>2, <1>0, <1>4 DEF LogInOrder
<1>6. ReaderFollows' /\ IndexAnswers' /\ PageFollows'
  <2>1. reader.stage = "open" /\ ~present' => reader.ident < Gen'
    <3>1. CASE Gen' = Gen
      BY <3>1, <1>2 DEF ReaderFollows
    <3>2. CASE Gen' # Gen
      <4>1. reader.stage = "open" => reader.ident <= Gen /\ reader.ident \in Nat
        BY DEF ReaderFollows, LogTyped
      <4> QED BY <4>1, <3>2, <1>1, <1>2
    <3> QED BY <3>1, <3>2
  <2>2. Gen' = Gen => /\ Len(Current)' \in Nat /\ Len(Current) <= Len(Current)'
                      /\ \A k \in 1..Len(Current) : Current'[k] = Current[k]
    <3>1. Gen' = Gen => Current' = Current
      BY <1>2 DEF Current
    <3>2. Len(Current) \in Nat
      BY FilesAre
    <3> QED BY <3>1, <3>2
  <2> QED BY <2>1, <2>2, <1>0, <1>2, <1>4, IndexStays
<1> QED BY <1>3, <1>5, <1>6

LEMMA WriteKeeps ==
  ASSUME LogInv, WriteLine
  PROVE  LogInv'
<1> USE DEF LogInv
<1> DEFINE mine == writer[2]
           x == IF frag THEN Junk ELSE mine
<1>0. /\ writer # NoLine /\ UNCHANGED <<clock, present, rows, meta, reader, blank, page>> /\ writer' = NoLine
      /\ files' = [files EXCEPT ![Gen] = Append(@, x)] /\ frag' = FALSE
      /\ logged' = IF mine.kind = "route" THEN logged \cup {mine.id} ELSE logged
  BY DEF WriteLine, indexVars
<1>1. /\ Gen \in Nat /\ Gen \in 1..Gen /\ (\A g \in 1..Gen : files[g] \in Seq(LogLines)) /\ files \in Seq(Seq(LogLines)) /\ Gen >= 1
  BY FilesAre DEF LogTyped
<1>2. mine \in LogLines /\ mine # Junk /\ x \in LogLines
  BY <1>0 DEF LogTyped, LogLines
<1>3. /\ files' \in Seq(Seq(LogLines)) /\ Gen' = Gen
      /\ \A g \in 1..Gen : g # Gen => files'[g] = files[g]
      /\ files'[Gen] = Append(files[Gen], x)
  <2> HIDE DEF x, mine
  <2>1. Append(files[Gen], x) \in Seq(LogLines)
    BY <1>1, <1>2
  <2> QED BY <2>1, <1>0, <1>1 DEF Gen
<1>4. /\ Len(files[Gen]) \in Nat /\ Len(files'[Gen]) = Len(files[Gen]) + 1
      /\ \A k \in 1..Len(files[Gen]) : files'[Gen][k] = files[Gen][k]
      /\ files'[Gen][Len(files[Gen]) + 1] = x
  <2> DEFINE f == files[Gen]
  <2>1. f \in Seq(LogLines) /\ files'[Gen] = Append(f, x)
    BY <1>1, <1>3
  <2> HIDE DEF f, x
  <2>2. Len(Append(f, x)) = Len(f) + 1 /\ Len(f) \in Nat /\ (\A k \in 1..Len(f) : Append(f, x)[k] = f[k])
        /\ Append(f, x)[Len(f) + 1] = x
    BY <2>1
  <2> QED BY <2>1, <2>2 DEF f
<1>5. LogTyped'
  BY <1>0, <1>1, <1>3 DEF LogTyped
<1>6. Written' = Written \cup {x}
  <2> HIDE DEF x
  <2>1. \A line : line \in Written' <=> \E g \in 1..Gen : \E k \in 1..Len(files'[g]) : files'[g][k] = line
    <3>1. \A line : line \in Written' <=> \E g \in 1..Gen' : \E k \in 1..Len(files'[g]) : files'[g][k] = line
      BY DEF Written
    <3>2. Gen' = Gen
      BY <1>3
    <3> QED BY <3>1, <3>2
  <2>2. \A k \in 1..Len(files'[Gen]) : k \in 1..Len(files[Gen]) \/ k = Len(files[Gen]) + 1
    BY <1>4
  <2>3. (\A k \in 1..Len(files[Gen]) : k \in 1..Len(files'[Gen])) /\ Len(files[Gen]) + 1 \in 1..Len(files'[Gen])
    BY <1>4
  <2>4. \A line : line \in Written' => line \in Written \cup {x}
    BY <2>1, <2>2, <1>1, <1>3, <1>4, FilesAre
  <2>5. x \in Written'
    BY <2>1, <2>3, <1>1, <1>4
  <2>6. \A line : line \in Written => line \in Written'
    <3> SUFFICES ASSUME NEW g \in 1..Gen, NEW k \in 1..Len(files[g]) PROVE files[g][k] \in Written'
      BY FilesAre
    <3>1. CASE g = Gen
      BY <3>1, <2>1, <2>3, <1>1, <1>4
    <3>2. CASE g # Gen
      BY <3>2, <2>1, <1>3
    <3> QED BY <3>1, <3>2
  <2> QED BY <2>4, <2>5, <2>6
<1>7. LogInOrder'
  <2>0. /\ x = Junk \/ x = mine
        /\ Junk.kind = "junk"
        /\ mine.kind = "route" <=> mine.id \notin logged
        /\ logged \subseteq logged' /\ mine.id \in logged'
    BY <1>0 DEF LogInOrder, Junk
  <2> HIDE DEF x, mine
  <2>1. \A line \in Written' : line # Junk => line.id \in logged'
    BY <2>0, <1>6 DEF LogInOrder
  <2>2. \A a, b \in Written' : a.kind = "route" /\ b.kind = "route" /\ a.id = b.id => a = b
    <3>1. \A a \in Written : a.kind = "route" /\ x.kind = "route" => a.id # x.id
      <4> SUFFICES ASSUME NEW a \in Written, a.kind = "route", x.kind = "route" PROVE a.id # x.id
        OBVIOUS
      <4>1. x = mine /\ mine.id \notin logged
        BY <2>0
      <4>2. a.id \in logged
        BY <2>0 DEF LogInOrder
      <4> QED BY <4>1, <4>2
    <3> QED BY <3>1, <1>6 DEF LogInOrder
  <2>3. \A g \in 1..Gen : \A j, k \in 1..Len(files'[g]) :
           files'[g][j].kind = "correction" /\ files'[g][k].kind = "route" /\ files'[g][j].id = files'[g][k].id => k < j
    <3> SUFFICES ASSUME NEW g \in 1..Gen, NEW j \in 1..Len(files'[g]), NEW k \in 1..Len(files'[g]),
                        files'[g][j].kind = "correction", files'[g][k].kind = "route",
                        files'[g][j].id = files'[g][k].id
                 PROVE  k < j
      OBVIOUS
    <3>1. CASE g # Gen
      BY <3>1, <1>3 DEF LogInOrder
    <3>2. CASE g = Gen /\ j = Len(files[Gen]) + 1
      <4>1. k \in 1..(Len(files[Gen]) + 1) /\ j # k
        BY <3>2, <1>4
      <4> QED BY <4>1, <3>2, <1>4
    <3>3. CASE g = Gen /\ j # Len(files[Gen]) + 1
      <4>1. j \in 1..Len(files[Gen]) /\ files'[g][j] = files[Gen][j]
        BY <3>3, <1>4
      <4>2. CASE k = Len(files[Gen]) + 1
        <5>1. x.kind = "route" /\ x.id = files[Gen][j].id
          BY <4>1, <4>2, <3>3, <1>4
        <5>2. files[Gen][j] \in Written /\ files[Gen][j] # Junk
          BY <4>1, <1>1, <2>0, FilesAre
        <5>3. files[Gen][j].id \in logged
          BY <5>2 DEF LogInOrder
        <5>4. x = mine /\ mine.id \notin logged
          BY <5>1, <2>0
        <5> QED BY <5>1, <5>3, <5>4
      <4>3. CASE k # Len(files[Gen]) + 1
        <5>1. k \in 1..Len(files[Gen]) /\ files'[g][k] = files[Gen][k]
          BY <4>3, <3>3, <1>4
        <5> QED BY <5>1, <4>1, <1>1, <3>3 DEF LogInOrder
      <4> QED BY <4>2, <4>3
    <3> QED BY <3>1, <3>2, <3>3
  <2> QED BY <2>1, <2>2, <2>3, <1>0, <1>3 DEF LogInOrder
<1>8. ReaderFollows' /\ IndexAnswers' /\ PageFollows'
  <2>1. reader.stage = "open" /\ ~present' => reader.ident < Gen'
    BY <1>0, <1>3 DEF ReaderFollows
  <2>2. /\ Len(Current)' \in Nat /\ Len(Current) <= Len(Current)'
        /\ \A k \in 1..Len(Current) : Current'[k] = Current[k]
    BY <1>3, <1>4 DEF Current
  <2> HIDE DEF x, mine
  <2> QED BY <2>1, <2>2, <1>0, <1>1, <1>3, <1>6, IndexStays
<1> QED BY <1>5, <1>7, <1>8

LEMMA OpenKeeps ==
  ASSUME LogInv, open_private_append
  PROVE  LogInv'
<1> USE DEF LogInv
<1>0. /\ writer # NoLine /\ present' = TRUE /\ writer' = <<"write", writer[2]>>
      /\ UNCHANGED <<clock, files, frag, logged, corrected, rows, meta, reader, blank, page>>
  BY DEF open_private_append, indexVars
<1>1. LogTyped'
  <2>1. writer' \in {"open", "write"} \X (LogLines \ {Junk})
    BY <1>0 DEF LogTyped
  <2> QED BY <2>1, <1>0 DEF LogTyped, Gen
<1>2. Written' = Written /\ Gen' = Gen /\ Current' = Current
  BY <1>0 DEF Written, Current, Gen
<1>3. LogInOrder'
  <2>1. writer'[2] = writer[2]
    BY <1>0
  <2> QED BY <2>1, <1>0, <1>2 DEF LogInOrder
<1>4. ReaderFollows' /\ IndexAnswers' /\ PageFollows'
  <2>1. Len(Current) \in Nat /\ Gen \in Nat
    BY FilesAre
  <2> QED BY <2>1, <1>0, <1>2, IndexStays
<1> QED BY <1>1, <1>3, <1>4

------------------------------------------------------------------------------
(* The steps of the index leave the log alone.                             *)

LEMMA LogStays ==
  ASSUME LogInv, UNCHANGED logVars,
         meta' \in [ident : Nat, offset : Nat],
         reader' \in [stage : {"idle", "open", "read"}, gen : Nat, offset : Nat, ident : Nat,
                      fixed : BOOLEAN, for : Reads \cup {"none"}],
         page' \in [cursor : Nat, shows : SUBSET (Requests \X RowReasons), reload : BOOLEAN, reused : BOOLEAN]
  PROVE  /\ LogTyped' /\ LogInOrder'
         /\ Gen' = Gen /\ Written' = Written /\ Current' = Current /\ \A n : FirstLines(n)' = FirstLines(n)
<1>1. UNCHANGED <<clock, files, present, frag, writer, logged, corrected>>
  BY DEF logVars
<1>2. Gen' = Gen /\ Written' = Written /\ Current' = Current
  BY <1>1 DEF Written, Current, Gen
<1>3. \A n : FirstLines(n)' = FirstLines(n)
  BY <1>2 DEF FirstLines
<1>4. LogTyped'
  BY <1>1, <1>2 DEF LogInv, LogTyped
<1>5. LogInOrder'
  BY <1>1, <1>2 DEF LogInv, LogInOrder
<1> QED BY <1>2, <1>3, <1>4, <1>5

\* An answer from an index whose rows are those there were, or are further ahead.
LEMMA AnswerKeeps ==
  ASSUME LogInv, NEW for \in Reads, NEW fixed \in BOOLEAN, RowsOk(rows)', page' = PageAfter(for, rows', fixed),
         \A row \in rows' : row \in rows \/ row.rowid > HeadOf(rows)
  PROVE  /\ page' \in [cursor : Nat, shows : SUBSET (Requests \X RowReasons), reload : BOOLEAN, reused : BOOLEAN]
         /\ PageFollows'
<1>1. page \in [cursor : Nat, shows : SUBSET (Requests \X RowReasons), reload : BOOLEAN, reused : BOOLEAN]
  BY DEF LogInv, LogTyped
<1>2. ~page.reload /\ ~page.reused =>
          \A row \in rows' : row.rowid <= page.cursor => <<row.id, row.reason>> \in page.shows
  <2> SUFFICES ASSUME ~page.reload, ~page.reused, NEW row \in rows', row.rowid <= page.cursor
               PROVE  <<row.id, row.reason>> \in page.shows
    OBVIOUS
  <2>1. page.cursor <= HeadOf(rows) /\ page.cursor \in Nat
    BY <1>1 DEF LogInv, PageFollows
  <2>2. row.rowid \in Nat /\ HeadOf(rows) \in Nat
    BY HeadIs DEF RowsOk, IndexRows, LogInv, IndexAnswers
  <2>3. row \in rows
    BY <2>1, <2>2
  <2> QED BY <2>3 DEF LogInv, PageFollows
<1>3. RowsOk(rows')
  OBVIOUS
<1> DEFINE R == rows'
<1>4. RowsOk(R) /\ page' = PageAfter(for, R, fixed)
  BY <1>3
<1>5. ~page.reload /\ ~page.reused =>
          \A row \in R : row.rowid <= page.cursor => <<row.id, row.reason>> \in page.shows
  BY <1>2
<1> HIDE DEF R
<1>6. /\ page' \in [cursor : Nat, shows : SUBSET (Requests \X RowReasons), reload : BOOLEAN, reused : BOOLEAN]
      /\ ~page'.reload /\ ~page'.reused =>
            /\ page'.cursor <= HeadOf(R)
            /\ \A row \in R : row.rowid <= page'.cursor => <<row.id, row.reason>> \in page'.shows
  BY <1>1, <1>4, <1>5, PageAfterOk
<1> QED BY <1>6 DEF R, PageFollows

LEMMA ReaderIs ==
  ASSUME LogInv
  PROVE  /\ Idle \in [stage : {"idle", "open", "read"}, gen : Nat, offset : Nat, ident : Nat,
                      fixed : BOOLEAN, for : Reads \cup {"none"}]
         /\ Idle.stage = "idle"
         /\ Gen \in Nat /\ Gen >= 1 /\ Len(Current) \in Nat
         /\ meta.ident \in Nat /\ meta.offset \in Nat /\ reader.ident \in Nat /\ reader.offset \in Nat /\ reader.gen \in Nat
         /\ RowsOk(rows) /\ RowsFrom(rows, Written) /\ clock \in Nat /\ Written \subseteq LogLines
         /\ \A a, b \in Written : a.kind = "route" /\ b.kind = "route" /\ a.id = b.id => a = b
  BY FilesAre DEF Idle, LogInv, LogTyped, LogInOrder, IndexAnswers

LEMMA NoLogKeeps ==
  ASSUME LogInv, NEW for \in Reads, NoLog(for)
  PROVE  LogInv'
<1>1. /\ UNCHANGED logVars /\ UNCHANGED <<rows, meta, reader, blank>> /\ page' = PageAfter(for, rows', FALSE)
      /\ RowsOk(rows)'
  BY ReaderIs DEF NoLog
<1>2. PageFollows' /\ page' \in [cursor : Nat, shows : SUBSET (Requests \X RowReasons), reload : BOOLEAN, reused : BOOLEAN]
  BY <1>1, AnswerKeeps
<1>3. /\ LogTyped' /\ LogInOrder'
      /\ Gen' = Gen /\ Written' = Written /\ Current' = Current /\ \A n : FirstLines(n)' = FirstLines(n)
  BY <1>1, <1>2, LogStays DEF LogInv, LogTyped
<1>4. ReaderFollows'
  BY <1>1, <1>3 DEF LogInv, ReaderFollows, logVars
<1>5. IndexAnswers'
  BY <1>1, <1>3 DEF LogInv, IndexAnswers, logVars, FirstLines
<1> QED BY <1>2, <1>3, <1>4, <1>5 DEF LogInv

LEMMA StatQuietKeeps ==
  ASSUME LogInv, NEW for \in Reads, StatQuiet(for)
  PROVE  LogInv'
<1> DEFINE P == IF meta.ident = Gen /\ Gen \notin blank THEN FirstLines(meta.offset) ELSE {}
<1>1. /\ UNCHANGED logVars /\ UNCHANGED reader /\ reader = Idle /\ rows' = _trim(rows) /\ page' = PageAfter(for, rows', FALSE)
      /\ meta' = [meta EXCEPT !.ident = Gen]
      /\ blank' = IF meta.ident # Gen THEN blank \cup {Gen} ELSE blank
  BY DEF StatQuiet, MayRead
<1>2. P \in SUBSET LogLines /\ P \subseteq Written /\ AnswersFor(rows, P, clock)
  <2>1. AnswersFor(rows, {}, clock)
    BY DEF AnswersFor
  <2>2. meta.ident = Gen /\ Gen \notin blank =>
            FirstLines(meta.offset) \subseteq Written /\ AnswersFor(rows, FirstLines(meta.offset), clock)
    BY ReaderIs, FilesAre DEF LogInv, IndexAnswers
  <2> QED BY <2>1, <2>2, ReaderIs
<1>3. RowsOk(rows') /\ RowsFrom(rows', Written) /\ AnswersFor(rows', P, clock) /\ rows' \subseteq rows
  <2> HIDE DEF P
  <2> QED BY <1>1, <1>2, ReaderIs, TrimOk
<1>4. PageFollows' /\ page' \in [cursor : Nat, shows : SUBSET (Requests \X RowReasons), reload : BOOLEAN, reused : BOOLEAN]
  BY <1>1, <1>3, AnswerKeeps
<1>5. meta' \in [ident : Nat, offset : Nat] /\ meta'.ident = Gen /\ meta'.offset = meta.offset
  BY <1>1, ReaderIs DEF LogInv, LogTyped
<1>6. /\ LogTyped' /\ LogInOrder'
      /\ Gen' = Gen /\ Written' = Written /\ Current' = Current /\ \A n : FirstLines(n)' = FirstLines(n)
  BY <1>1, <1>4, <1>5, LogStays DEF LogInv, LogTyped
<1>7. ReaderFollows'
  BY <1>1, <1>5, <1>6, ReaderIs DEF ReaderFollows
<1>8. IndexAnswers'
  <2>1. ASSUME Gen' \notin blank' PROVE meta'.offset <= Len(Current)' /\ AnswersFor(rows, FirstLines(meta.offset), clock)'
    <3>1. meta.ident = Gen /\ Gen \notin blank
      BY <2>1, <1>1, <1>6
    <3>2. FirstLines(meta.offset)' = FirstLines(meta.offset)
      BY <1>5, <1>6 DEF FirstLines
    <3>3. AnswersFor(rows', FirstLines(meta.offset)', clock')
      BY <3>1, <3>2, <1>1, <1>3 DEF logVars
    <3>4. meta.offset <= Len(Current)
      BY <3>1 DEF LogInv, IndexAnswers
    <3> QED BY <3>3, <3>4, <1>5, <1>6
  <2> QED BY <2>1, <1>3, <1>6 DEF IndexAnswers
<1> QED BY <1>4, <1>6, <1>7, <1>8 DEF LogInv

LEMMA StatBehindKeeps ==
  ASSUME LogInv, NEW for \in Reads, StatBehind(for)
  PROVE  LogInv'
<1>1. /\ UNCHANGED logVars /\ UNCHANGED <<rows, meta, blank, page>> /\ reader = Idle /\ present
      /\ reader' = [Idle EXCEPT !.stage = "open", !.offset = StartOffset, !.ident = Gen, !.for = for]
  BY DEF StatBehind, MayRead
<1>2. StartOffset \in Nat
  BY ReaderIs DEF StartOffset
<1>3. /\ reader' \in [stage : {"idle", "open", "read"}, gen : Nat, offset : Nat, ident : Nat,
                      fixed : BOOLEAN, for : Reads \cup {"none"}]
      /\ reader'.stage = "open" /\ reader'.ident = Gen /\ reader'.offset = StartOffset /\ reader'.for = for
  <2> DEFINE o == StartOffset
  <2>1. o \in Nat /\ reader' = [Idle EXCEPT !.stage = "open", !.offset = o, !.ident = Gen, !.for = for]
    BY <1>1, <1>2
  <2>2. Gen \in Nat
    BY ReaderIs
  <2> HIDE DEF o
  <2>3. reader' = [stage |-> "open", gen |-> 0, offset |-> o, ident |-> Gen, fixed |-> FALSE, for |-> for]
    BY <2>1 DEF Idle
  <2>4. o = StartOffset
    BY DEF o
  <2>5. reader' \in [stage : {"idle", "open", "read"}, gen : Nat, offset : Nat, ident : Nat,
                     fixed : BOOLEAN, for : Reads \cup {"none"}]
    <3>1. o \in Nat /\ for \in Reads \cup {"none"}
      BY <2>1
    <3> QED BY <3>1, <2>2, <2>3
  <2>6. reader'.stage = "open" /\ reader'.ident = Gen /\ reader'.offset = o /\ reader'.for = for
    BY <2>3
  <2> QED BY <2>4, <2>5, <2>6
<1>4. /\ LogTyped' /\ LogInOrder'
      /\ Gen' = Gen /\ Written' = Written /\ Current' = Current /\ \A n : FirstLines(n)' = FirstLines(n)
  BY <1>1, <1>3, LogStays DEF LogInv, LogTyped
<1>5. ReaderFollows'
  <2>1. Gen \notin blank => StartOffset = IF meta.ident = Gen THEN meta.offset ELSE 0
    <3>1. meta.ident = Gen /\ Gen \notin blank => ~(Len(Current) < meta.offset)
      BY ReaderIs DEF LogInv, IndexAnswers
    <3> QED BY <3>1 DEF StartOffset
  <2>2. meta.ident <= Gen
    BY DEF LogInv, ReaderFollows
  <2> QED BY <2>1, <2>2, <1>1, <1>3, <1>4, ReaderIs DEF ReaderFollows, logVars
<1>6. IndexAnswers'
  BY <1>1, <1>4 DEF LogInv, IndexAnswers, logVars, FirstLines
<1>7. PageFollows'
  BY <1>1 DEF LogInv, PageFollows
<1> QED BY <1>4, <1>5, <1>6, <1>7 DEF LogInv

LEMMA OpenLogKeeps ==
  ASSUME LogInv, OpenLog
  PROVE  LogInv'
<1>1. /\ UNCHANGED logVars /\ UNCHANGED <<rows, meta, blank, page>> /\ reader.stage = "open" /\ present
      /\ reader' = [reader EXCEPT !.stage = "read", !.gen = Gen]
  BY DEF OpenLog
<1>3. /\ reader' \in [stage : {"idle", "open", "read"}, gen : Nat, offset : Nat, ident : Nat,
                      fixed : BOOLEAN, for : Reads \cup {"none"}]
      /\ reader'.stage = "read" /\ reader'.ident = reader.ident /\ reader'.offset = reader.offset
      /\ reader'.for = reader.for /\ reader'.gen = Gen
  BY <1>1, ReaderIs DEF LogInv, LogTyped
<1>4. /\ LogTyped' /\ LogInOrder'
      /\ Gen' = Gen /\ Written' = Written /\ Current' = Current /\ \A n : FirstLines(n)' = FirstLines(n)
  BY <1>1, <1>3, LogStays DEF LogInv, LogTyped
<1>5. ReaderFollows'
  BY <1>1, <1>3, <1>4, ReaderIs DEF ReaderFollows, LogInv
<1>6. IndexAnswers'
  BY <1>1, <1>4 DEF LogInv, IndexAnswers, logVars, FirstLines
<1>7. PageFollows'
  BY <1>1 DEF LogInv, PageFollows
<1> QED BY <1>4, <1>5, <1>6, <1>7 DEF LogInv

LEMMA OpenFailsKeeps ==
  ASSUME LogInv, OpenFails
  PROVE  LogInv'
<1>1. /\ UNCHANGED logVars /\ UNCHANGED <<rows, blank>> /\ reader.stage = "open" /\ ~present
      /\ meta' = [ident |-> reader.ident, offset |-> reader.offset] /\ reader' = Idle
      /\ page' = PageAfter(reader.for, rows', FALSE)
  BY DEF OpenFails
<1>2. reader.ident < Gen /\ reader.for \in Reads /\ RowsOk(rows)'
  BY <1>1, ReaderIs DEF LogInv, ReaderFollows
<1>3. PageFollows' /\ page' \in [cursor : Nat, shows : SUBSET (Requests \X RowReasons), reload : BOOLEAN, reused : BOOLEAN]
  BY <1>1, <1>2, AnswerKeeps
<1>4. meta' \in [ident : Nat, offset : Nat] /\ meta'.ident = reader.ident
  BY <1>1, ReaderIs
<1>5. /\ LogTyped' /\ LogInOrder'
      /\ Gen' = Gen /\ Written' = Written /\ Current' = Current /\ \A n : FirstLines(n)' = FirstLines(n)
  BY <1>1, <1>3, <1>4, LogStays, ReaderIs
<1>6. meta'.ident < Gen' /\ reader'.stage = "idle" /\ meta'.ident # Gen' /\ meta'.ident <= Gen'
  BY <1>1, <1>2, <1>4, <1>5, ReaderIs
<1>7. ReaderFollows'
  BY <1>6 DEF ReaderFollows
<1>8. IndexAnswers'
  BY <1>1, <1>5, <1>6, ReaderIs DEF IndexAnswers
<1> QED BY <1>3, <1>5, <1>7, <1>8 DEF LogInv

LEMMA IngestBatchKeeps ==
  ASSUME LogInv, IngestBatch
  PROVE  LogInv'
<1> DEFINE file == files[reader.gen]
           lines == SubSeq(UnreadLines, 1, Batch)
           off == reader.offset
           news == reader.fixed \/ \E row \in rows' \ rows : row.fixed
           Readers == [stage : {"idle", "open", "read"}, gen : Nat, offset : Nat, ident : Nat,
                       fixed : BOOLEAN, for : Reads \cup {"none"}]
<1>1. /\ UNCHANGED logVars /\ UNCHANGED <<blank, page>> /\ reader.stage = "read" /\ Len(UnreadLines) >= Batch
      /\ rows' = _insert_rows(rows, lines)
      /\ meta' = [ident |-> reader.ident, offset |-> off + Batch]
      /\ reader' = [reader EXCEPT !.offset = off + Batch, !.fixed = news]
  BY DEF IngestBatch
<1>2. reader.gen \in 1..Gen /\ Batch \in Nat \ {0} /\ off \in Nat /\ file \in Seq(LogLines)
  <2>1. 1 <= reader.ident /\ reader.ident <= reader.gen /\ reader.gen <= Gen
    BY <1>1 DEF LogInv, ReaderFollows
  <2>2. reader.gen \in 1..Gen
    BY <2>1, ReaderIs
  <2> QED BY <2>2, ReaderIs, FilesAre, LogLimits DEF LogInv
<1>3. /\ lines \in Seq(LogLines) /\ Len(lines) = Batch
      /\ \A k \in 1..Len(lines) : off + k \in 1..Len(file) /\ lines[k] = file[off + k]
  <2>1. UnreadLines = SubSeq(file, off + 1, Len(file))
    BY DEF UnreadLines
  <2> DEFINE rest == UnreadLines
  <2>2. Len(file) \in Nat
    BY <1>2
  <2>3. rest \in Seq(LogLines) /\ Len(rest) = (IF off + 1 <= Len(file) THEN Len(file) - off ELSE 0)
        /\ \A k \in 1..Len(rest) : rest[k] = file[off + k]
    <3> HIDE DEF file, off
    <3>1. off + 1 \in 1..(Len(file) + 1) \/ off + 1 > Len(file) + 1
      BY <1>2, <2>2
    <3>2. CASE off + 1 <= Len(file)
      <4>1. off + 1 >= 1 /\ Len(file) - (off + 1) + 1 = Len(file) - off
        BY <1>2, <2>2
      <4>2. rest \in Seq(LogLines) /\ Len(rest) = Len(file) - off
            /\ \A k \in 1..Len(rest) : rest[k] = file[off + 1 + k - 1] /\ off + 1 + k - 1 = off + k
        BY <2>1, <1>2, <2>2, <3>2, <4>1, SubSeqProperties
      <4> QED BY <4>2, <3>2
    <3>3. CASE ~(off + 1 <= Len(file))
      <4>1. rest = <<>>
        BY <2>1, <1>2, <2>2, <3>3, SubSeqProperties
      <4> QED BY <4>1, <3>3
    <3> QED BY <3>2, <3>3
  <2>4. Batch >= 1 /\ Batch <= Len(rest) /\ Len(rest) \in Nat
    BY <1>1, <1>2, <2>3
  <2>5. lines \in Seq(LogLines) /\ Len(lines) = Batch /\ \A k \in 1..Batch : lines[k] = rest[k]
    <3>1. lines = SubSeq(rest, 1, Batch)
      OBVIOUS
    <3> HIDE DEF lines, rest
    <3> QED BY <3>1, <2>3, <2>4, <1>2, SubSeqProperties
  <2>6. \A k \in 1..Batch : k \in 1..Len(rest) /\ off + k \in 1..Len(file)
    <3> HIDE DEF rest, off, file
    <3> QED BY <2>2, <2>3, <2>4, <1>2
  <2> HIDE DEF lines, rest, off, file
  <2> QED BY <2>3, <2>5, <2>6
<1>4. /\ RowsOk(rows') /\ RowsFrom(rows', Written)
      /\ (\A row \in rows' : row \in rows \/ row.rowid > HeadOf(rows))
      /\ HeadOf(rows') \in Nat /\ HeadOf(rows') >= HeadOf(rows)
      /\ reader.ident = Gen /\ Gen \notin blank =>
            off + Batch <= Len(Current) /\ AnswersFor(rows', FirstLines(off + Batch), clock)
  <2> HIDE DEF lines
  <2> QED BY <1>1, <1>3, BatchOk DEF LogInv
<1>5. /\ reader' \in Readers /\ reader'.stage = "read" /\ reader'.gen = reader.gen /\ reader'.ident = reader.ident
      /\ reader'.offset = off + Batch /\ reader'.for = reader.for
  <2>1. news \in BOOLEAN
    <3>1. reader.fixed \in BOOLEAN
      BY DEF LogInv, LogTyped
    <3> QED BY <3>1
  <2>2. off + Batch \in Nat /\ reader \in Readers
    BY <1>2 DEF LogInv, LogTyped
  <2> HIDE DEF news, off
  <2> QED BY <2>1, <2>2, <1>1
<1>6. meta' \in [ident : Nat, offset : Nat] /\ meta'.ident = reader.ident /\ meta'.offset = off + Batch
  BY <1>1, <1>2, ReaderIs
<1>7. /\ LogTyped' /\ LogInOrder'
      /\ Gen' = Gen /\ Written' = Written /\ Current' = Current /\ \A n : FirstLines(n)' = FirstLines(n)
  BY <1>1, <1>5, <1>6, LogStays DEF LogInv, LogTyped
<1>8. ReaderFollows'
  BY <1>1, <1>5, <1>6, <1>7, ReaderIs DEF ReaderFollows, LogInv
<1>9. IndexAnswers'
  <2>1. ASSUME reader.ident = Gen, Gen \notin blank
        PROVE  meta'.offset <= Len(Current)' /\ AnswersFor(rows, FirstLines(meta.offset), clock)'
    <3>1. FirstLines(meta.offset)' = FirstLines(off + Batch)
      BY <1>6, <1>7 DEF FirstLines
    <3>2. AnswersFor(rows', FirstLines(meta.offset)', clock')
      BY <2>1, <3>1, <1>1, <1>4 DEF logVars
    <3> QED BY <2>1, <3>2, <1>4, <1>6, <1>7
  <2> QED BY <2>1, <1>1, <1>4, <1>6, <1>7 DEF IndexAnswers
<1>10. PageFollows'
  <2>1. page' = page /\ HeadOf(rows) \in Nat /\ page.cursor \in Nat
    BY <1>1, HeadIs, ReaderIs DEF LogInv, LogTyped
  <2>2. \A row \in rows' : row.rowid \in Nat
    BY <1>4 DEF RowsOk, IndexRows
  <2>3. ASSUME ~page.reload, ~page.reused
        PROVE  /\ page.cursor <= HeadOf(rows')
               /\ \A row \in rows' : row.rowid <= page.cursor => <<row.id, row.reason>> \in page.shows
    <3>1. page.cursor <= HeadOf(rows)
      BY <2>3 DEF LogInv, PageFollows
    <3>2. \A row \in rows' : row.rowid <= page.cursor => row \in rows
      BY <3>1, <2>1, <2>2, <1>4
    <3> QED BY <3>1, <3>2, <2>1, <2>3, <1>4 DEF LogInv, PageFollows
  <2> QED BY <2>1, <2>3 DEF PageFollows
<1> QED BY <1>7, <1>8, <1>9, <1>10 DEF LogInv

LEMMA IngestRestKeeps ==
  ASSUME LogInv, IngestRest
  PROVE  LogInv'
<1> DEFINE file == files[reader.gen]
           lines == UnreadLines
           off == reader.offset
           full == _insert_rows(rows, lines)
           fixed == reader.fixed \/ \E row \in full \ rows : row.fixed
           far == IF off > Len(file) THEN off ELSE Len(file)
           here == reader.ident = Gen /\ Gen \notin blank
           P == IF here THEN FirstLines(far) ELSE {}
<1>1. /\ UNCHANGED logVars /\ UNCHANGED blank /\ reader.stage = "read" /\ Len(UnreadLines) < Batch
      /\ rows' = _trim(full)
      /\ meta' = [ident |-> reader.ident, offset |-> far]
      /\ reader' = Idle /\ page' = PageAfter(reader.for, rows', fixed)
  BY DEF IngestRest
<1>2. reader.gen \in 1..Gen /\ off \in Nat /\ file \in Seq(LogLines) /\ Len(file) \in Nat /\ reader.for \in Reads
      /\ (here => file = Current)
  <2>1. 1 <= reader.ident /\ reader.ident <= reader.gen /\ reader.gen <= Gen /\ reader.for \in Reads
    BY <1>1 DEF LogInv, ReaderFollows
  <2>2. reader.gen \in 1..Gen /\ (here => reader.gen = Gen)
    BY <2>1, ReaderIs
  <2>3. file \in Seq(LogLines)
    BY <2>2, FilesAre DEF LogInv
  <2> QED BY <2>1, <2>2, <2>3, ReaderIs DEF Current
<1>3. /\ lines \in Seq(LogLines) /\ Len(lines) = (IF off + 1 <= Len(file) THEN Len(file) - off ELSE 0)
      /\ \A k \in 1..Len(lines) : off + k \in 1..Len(file) /\ lines[k] = file[off + k]
  <2>1. lines = SubSeq(file, off + 1, Len(file))
    BY DEF UnreadLines
  <2> HIDE DEF file, off, lines
  <2>3. CASE off + 1 <= Len(file)
    <3>1. off + 1 >= 1 /\ Len(file) - (off + 1) + 1 = Len(file) - off
      BY <1>2
    <3>2. lines \in Seq(LogLines) /\ Len(lines) = Len(file) - off
          /\ \A k \in 1..Len(lines) : lines[k] = file[off + 1 + k - 1] /\ off + 1 + k - 1 = off + k
      BY <2>1, <1>2, <2>3, <3>1, SubSeqProperties
    <3>3. \A k \in 1..Len(lines) : off + k \in 1..Len(file)
      BY <3>2, <1>2
    <3> QED BY <3>2, <3>3, <2>3
  <2>4. CASE ~(off + 1 <= Len(file))
    <3>1. lines = <<>>
      BY <2>1, <1>2, <2>4, SubSeqProperties
    <3> QED BY <3>1, <2>4
  <2> QED BY <2>3, <2>4
<1>4. /\ RowsOk(full) /\ RowsFrom(full, Written)
      /\ (\A row \in full : row \in rows \/ row.rowid > HeadOf(rows))
      /\ here => off + Len(lines) <= Len(Current) /\ AnswersFor(full, FirstLines(off + Len(lines)), clock)
  <2> HIDE DEF lines
  <2> QED BY <1>1, <1>3, BatchOk DEF LogInv
<1>5. here => far <= Len(Current) /\ AnswersFor(full, FirstLines(far), clock) /\ FirstLines(far) \subseteq Written
  <2> SUFFICES ASSUME here
               PROVE  far <= Len(Current) /\ AnswersFor(full, FirstLines(far), clock) /\ FirstLines(far) \subseteq Written
    OBVIOUS
  <2>1. far = off + Len(lines) /\ far \in Nat
    <3>1. off + Len(lines) <= Len(file)
      BY <1>2, <1>4
    <3> HIDE DEF file, off, lines
    <3> QED BY <3>1, <1>2, <1>3
  <2>2. far <= Len(Current) /\ AnswersFor(full, FirstLines(far), clock)
    <3> HIDE DEF far, lines, full
    <3> QED BY <2>1, <1>4
  <2>3. FirstLines(far) \subseteq Written
    <3> HIDE DEF far
    <3> QED BY <2>1, <2>2, FilesAre DEF LogInv
  <2> QED BY <2>2, <2>3
<1>6. P \in SUBSET LogLines /\ P \subseteq Written /\ AnswersFor(full, P, clock)
  <2>1. AnswersFor(full, {}, clock)
    BY DEF AnswersFor
  <2> HIDE DEF far, full
  <2> QED BY <2>1, <1>5, ReaderIs
<1>7. RowsOk(rows') /\ RowsFrom(rows', Written) /\ AnswersFor(rows', P, clock) /\ rows' \subseteq full
  <2> HIDE DEF P, full
  <2> QED BY <1>1, <1>4, <1>6, ReaderIs, TrimOk
<1>8. PageFollows' /\ page' \in [cursor : Nat, shows : SUBSET (Requests \X RowReasons), reload : BOOLEAN, reused : BOOLEAN]
  <2>1. fixed \in BOOLEAN
    <3>1. reader.fixed \in BOOLEAN
      BY DEF LogInv, LogTyped
    <3> QED BY <3>1
  <2>2. \A row \in rows' : row \in rows \/ row.rowid > HeadOf(rows)
    <3> HIDE DEF full
    <3> QED BY <1>4, <1>7
  <2> HIDE DEF fixed
  <2> QED BY <2>1, <2>2, <1>1, <1>2, <1>7, AnswerKeeps
<1>9. meta' \in [ident : Nat, offset : Nat] /\ meta'.ident = reader.ident /\ meta'.offset = far
  <2>1. far \in Nat
    BY <1>2
  <2> HIDE DEF far
  <2> QED BY <2>1, <1>1, ReaderIs
<1>10. /\ LogTyped' /\ LogInOrder'
       /\ Gen' = Gen /\ Written' = Written /\ Current' = Current /\ \A n : FirstLines(n)' = FirstLines(n)
  BY <1>1, <1>8, <1>9, LogStays, ReaderIs
<1>11. ReaderFollows'
  <2>1. reader'.stage = "idle" /\ meta'.ident <= Gen'
    BY <1>1, <1>9, <1>10, ReaderIs DEF LogInv, ReaderFollows
  <2> QED BY <2>1 DEF ReaderFollows
<1>12. IndexAnswers'
  <2> HIDE DEF far, full
  <2>1. ASSUME reader.ident = Gen, Gen \notin blank
        PROVE  meta'.offset <= Len(Current)' /\ AnswersFor(rows, FirstLines(meta.offset), clock)'
    <3>1. FirstLines(meta.offset)' = FirstLines(far)
      BY <1>9, <1>10 DEF FirstLines
    <3>2. AnswersFor(rows', FirstLines(meta.offset)', clock')
      BY <2>1, <3>1, <1>1, <1>7 DEF logVars
    <3> QED BY <2>1, <3>2, <1>5, <1>9, <1>10
  <2> QED BY <2>1, <1>1, <1>7, <1>9, <1>10 DEF IndexAnswers
<1> QED BY <1>8, <1>10, <1>11, <1>12 DEF LogInv

LEMMA RebuildKeeps ==
  ASSUME LogInv, Rebuild
  PROVE  LogInv'
<1>1. /\ UNCHANGED logVars /\ UNCHANGED <<reader, blank>> /\ reader = Idle /\ rows' = {}
      /\ meta' = [meta EXCEPT !.offset = 0] /\ page' = [page EXCEPT !.reused = TRUE]
  BY DEF Rebuild
<1>2. /\ meta' \in [ident : Nat, offset : Nat] /\ meta'.offset = 0 /\ meta'.ident = meta.ident
      /\ page' \in [cursor : Nat, shows : SUBSET (Requests \X RowReasons), reload : BOOLEAN, reused : BOOLEAN]
      /\ page'.reused
  BY <1>1 DEF LogInv, LogTyped
<1>3. /\ LogTyped' /\ LogInOrder'
      /\ Gen' = Gen /\ Written' = Written /\ Current' = Current /\ \A n : FirstLines(n)' = FirstLines(n)
  BY <1>1, <1>2, LogStays DEF LogInv, LogTyped
<1>4. ReaderFollows'
  BY <1>1, <1>2, <1>3, ReaderIs DEF LogInv, ReaderFollows
<1>5. IndexAnswers'
  <2>1. RowsOk(rows') /\ RowsFrom(rows', Written')
    BY <1>1, FS_EmptySet DEF RowsOk, RowsFrom
  <2>2. FirstLines(meta.offset)' = {}
    BY <1>2 DEF FirstLines
  <2>3. AnswersFor(rows', {}, clock')
    BY DEF AnswersFor
  <2>4. AnswersFor(rows', FirstLines(meta.offset)', clock')
    BY <2>2, <2>3
  <2>5. meta'.offset <= Len(Current)'
    BY <1>2, <1>3, ReaderIs
  <2> QED BY <2>1, <2>4, <2>5 DEF IndexAnswers
<1>6. PageFollows'
  BY <1>2 DEF PageFollows
<1> QED BY <1>3, <1>4, <1>5, <1>6 DEF LogInv

LEMMA CrashKeeps ==
  ASSUME LogInv, Crash
  PROVE  LogInv'
<1>1. /\ UNCHANGED <<clock, files, present, logged, corrected, rows, meta, blank, page>>
      /\ frag' \in {frag, TRUE} /\ writer' = NoLine /\ reader' = Idle
  BY DEF Crash
<1>2. Gen' = Gen /\ Written' = Written /\ Current' = Current /\ FirstLines(meta.offset)' = FirstLines(meta.offset)
  BY <1>1 DEF Gen, Written, Current, FirstLines
<1>3. LogTyped'
  BY <1>1, <1>2, ReaderIs DEF LogInv, LogTyped
<1>4. LogInOrder'
  BY <1>1, <1>2 DEF LogInv, LogInOrder
<1>5. ReaderFollows'
  BY <1>1, <1>2, ReaderIs DEF LogInv, ReaderFollows
<1>6. IndexAnswers' /\ PageFollows'
  BY <1>1, <1>2 DEF LogInv, IndexAnswers, PageFollows
<1> QED BY <1>3, <1>4, <1>5, <1>6 DEF LogInv

LEMMA ClockKeeps ==
  ASSUME LogInv, ClockTicks
  PROVE  LogInv'
<1>1. UNCHANGED <<files, present, frag, writer, logged, corrected, rows, meta, reader, blank, page>> /\ clock' = clock + 1
  BY DEF ClockTicks, indexVars
<1>2. Gen' = Gen /\ Written' = Written /\ Current' = Current /\ FirstLines(meta.offset)' = FirstLines(meta.offset)
  BY <1>1 DEF Gen, Written, Current, FirstLines
<1>3. clock' \in Nat /\ clock <= clock'
  BY <1>1, ReaderIs
<1>4. LogTyped' /\ LogInOrder' /\ ReaderFollows' /\ PageFollows'
  BY <1>1, <1>2, <1>3 DEF LogInv, LogTyped, LogInOrder, ReaderFollows, PageFollows
<1>5. IndexAnswers'
  <2>1. ASSUME meta.ident = Gen, Gen \notin blank
        PROVE  meta.offset <= Len(Current) /\ AnswersFor(rows, FirstLines(meta.offset), clock')
    <3>1. meta.offset <= Len(Current) /\ AnswersFor(rows, FirstLines(meta.offset), clock)
      BY <2>1 DEF LogInv, IndexAnswers
    <3>2. FirstLines(meta.offset) \in SUBSET LogLines
      BY <3>1, ReaderIs, FilesAre DEF LogInv
    <3> QED BY <3>1, <3>2, <1>3, ReaderIs, HeardOlder
  <2> QED BY <2>1, <1>1, <1>2, ReaderIs DEF IndexAnswers
<1> QED BY <1>4, <1>5 DEF LogInv

LEMMA LogStep ==
  ASSUME LogInv, [RequestLogNext]_requestLogVars
  PROVE  LogInv'
<1>1. CASE UNCHANGED requestLogVars
  <2>1. UNCHANGED <<clock, files, present, frag, writer, logged, corrected, rows, meta, reader, blank, page>>
    BY <1>1 DEF requestLogVars
  <2>2. Gen' = Gen /\ Written' = Written /\ Current' = Current /\ FirstLines(meta.offset)' = FirstLines(meta.offset)
    BY <2>1 DEF Gen, Written, Current, FirstLines
  <2>3. LogTyped'
    BY <2>1, <2>2 DEF LogInv, LogTyped
  <2>4. LogInOrder'
    BY <2>1, <2>2 DEF LogInv, LogInOrder
  <2>5. ReaderFollows' /\ IndexAnswers' /\ PageFollows'
    BY <2>1, <2>2 DEF LogInv, ReaderFollows, IndexAnswers, PageFollows
  <2> QED BY <2>3, <2>4, <2>5 DEF LogInv
<1>2. ASSUME NEW r \in Requests, AppendRoute(r) PROVE LogInv'
  <2>1. Route(r, clock) \in LogLines \ {Junk} /\ Route(r, clock).kind = "route" /\ Route(r, clock).id \notin logged
    BY <1>2, ReaderIs DEF AppendRoute, Route, LogLines, Junk
  <2> QED BY <1>2, <2>1, AppendKeeps DEF AppendRoute
<1>3. ASSUME NEW r \in Requests, AppendCorrection(r) PROVE LogInv'
  <2>1. Correction(r) \in LogLines \ {Junk} /\ Correction(r).kind = "correction" /\ Correction(r).id \in logged
    BY <1>3 DEF AppendCorrection, Correction, LogLines, Junk
  <2> QED BY <1>3, <2>1, AppendKeeps DEF AppendCorrection
<1>4. ASSUME NEW for \in Reads, NoLog(for) \/ StatQuiet(for) \/ StatBehind(for) PROVE LogInv'
  BY <1>4, NoLogKeeps, StatQuietKeeps, StatBehindKeeps
<1> QED BY <1>1, <1>2, <1>3, <1>4, OpenKeeps, WriteKeeps, OpenLogKeeps, OpenFailsKeeps, IngestBatchKeeps,
           IngestRestKeeps, RebuildKeeps, CrashKeeps, ClockKeeps DEF RequestLogNext

LEMMA LogStart == RequestLogInit => LogInv
<1> SUFFICES ASSUME RequestLogInit PROVE LogInv
  OBVIOUS
<1>1. /\ clock = 0 /\ files = << <<>> >> /\ present = FALSE /\ frag = FALSE /\ writer = NoLine
      /\ rows = {} /\ meta = [ident |-> 0, offset |-> 0] /\ reader = Idle
      /\ page = [cursor |-> 0, shows |-> {}, reload |-> TRUE, reused |-> FALSE]
  BY DEF RequestLogInit
<1>2. <<>> \in Seq(LogLines)
  OBVIOUS
<1>3. files \in Seq(Seq(LogLines)) /\ Gen = 1 /\ files[1] = <<>>
  BY <1>1, <1>2 DEF Gen
<1>4. LogTyped
  <2>1. Idle \in [stage : {"idle", "open", "read"}, gen : Nat, offset : Nat, ident : Nat,
                  fixed : BOOLEAN, for : Reads \cup {"none"}]
    BY DEF Idle
  <2>2. page \in [cursor : Nat, shows : SUBSET (Requests \X RowReasons), reload : BOOLEAN, reused : BOOLEAN]
    BY <1>1
  <2>3. meta \in [ident : Nat, offset : Nat]
    BY <1>1
  <2>4. clock \in Nat /\ Gen >= 1
    BY <1>1, <1>3
  <2>5. present \in BOOLEAN /\ frag \in BOOLEAN
    BY <1>1, Zenon
  <2> QED BY <2>1, <2>2, <2>3, <2>4, <2>5, <1>1, <1>3 DEF LogTyped
<1>5. Written = {}
  <2>1. \A g \in 1..Gen : {files[g][k] : k \in 1..Len(files[g])} = {}
    BY <1>3
  <2> QED BY <2>1 DEF Written
<1>6. LogInOrder
  BY <1>1, <1>3, <1>5 DEF LogInOrder
<1>7. ReaderFollows
  BY <1>1, <1>3 DEF ReaderFollows, Idle
<1>8. IndexAnswers
  BY <1>1, <1>3, FS_EmptySet DEF IndexAnswers, RowsOk, RowsFrom
<1>9. PageFollows
  BY <1>1 DEF PageFollows
<1> QED BY <1>4, <1>6, <1>7, <1>8, <1>9 DEF LogInv

LEMMA LogSays == LogInv => IndexIsFaithful
<1> SUFFICES ASSUME LogInv PROVE IndexIsFaithful
  OBVIOUS
<1>1. ASSUME meta.ident = Gen, Gen \notin blank
      PROVE  Passed = FirstLines(meta.offset) /\ AnswersFor(rows, Passed, clock) /\ Passed \subseteq LogLines
  <2>1. meta.offset <= Len(Current) /\ AnswersFor(rows, FirstLines(meta.offset), clock)
    BY <1>1 DEF LogInv, IndexAnswers
  <2>2. Least(meta.offset, Len(Current)) = meta.offset
    BY <2>1, ReaderIs DEF Least
  <2>3. Passed = FirstLines(meta.offset)
    BY <2>2 DEF Passed, FirstLines
  <2>4. FirstLines(meta.offset) \subseteq LogLines
    BY <2>1, ReaderIs, FilesAre DEF LogInv
  <2> QED BY <2>1, <2>3, <2>4
<1>2. PassedIsIndexedElsewhere
  <2> SUFFICES ASSUME Gen \notin blank, meta.ident = Gen, NEW line \in Passed, line.kind = "route", Young(line),
                      Cardinality(rows) < MaxRows
               PROVE  RowOf(rows, line.id) # {}
    BY DEF PassedIsIndexedElsewhere, PassedIsIndexed
  <2>1. RowOf(rows, line.id) # {} \/ Cardinality(NewerIds(rows, line.at)) >= MaxRows
    BY <1>1 DEF AnswersFor, Young
  <2> DEFINE S == {one \in rows : one.at >= line.at}
  <2>2. NewerIds(rows, line.at) = {row.id : row \in S} /\ S \in SUBSET rows
    BY DEF NewerIds
  <2> HIDE DEF S
  <2>3. IsFiniteSet(S) /\ Cardinality(S) \in Nat /\ Cardinality(NewerIds(rows, line.at)) = Cardinality(S)
    BY <2>2, ReaderIs, IdsOfRows
  <2>4. Cardinality(S) <= Cardinality(rows) /\ Cardinality(rows) \in Nat
    BY <2>2, ReaderIs, FS_Subset, FS_CardinalityType DEF RowsOk
  <2> QED BY <2>1, <2>3, <2>4, LogLimits
<1>3. CorrectionStands
  BY <1>1 DEF CorrectionStands, AnswersFor
<1>4. PageInStep
  BY DEF PageInStep, LogInv, PageFollows
<1> QED BY <1>2, <1>3, <1>4 DEF IndexIsFaithful

\* What the index has passed over in the log it is in step with is in it, and no correction is lost;
\* and a page that follows the tail shows every row behind its cursor as the index has it
\* (request_log.py, _catch_up, _insert_rows, _trim, tail), whatever the sizes of the batch, of the table and
\* of the page, while the log is rolled and appended to between the steps of a read and the service dies
\* in any of them.
THEOREM IndexStaysFaithful == RequestLogSpec => []IndexIsFaithful
<1>1. LogInv /\ [RequestLogNext]_requestLogVars => LogInv'
  BY LogStep
<1> QED BY <1>1, LogStart, LogSays, PTL DEF RequestLogSpec
=============================================================================
