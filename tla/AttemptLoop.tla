---------------------------- MODULE AttemptLoop ----------------------------
(***************************************************************************)
(* One chat completion request inside ChatCompletionRouter.run_attempts:   *)
(* the fallback loop that asks one candidate after another until one of    *)
(* them answers, the window is spent, or there is a reason to stop.        *)
(*                                                                         *)
(* A candidate is a natural number: its place in the score order of the    *)
(* pool.  Time is counted in ticks; a wait, a budget and the drain of a    *)
(* stopping service count down together in Tick.                           *)
(***************************************************************************)
EXTENDS Integers, Sequences, FiniteSets, FiniteSetsExt

CONSTANTS
  Models,        \* the candidates, in score order
  NoModel,       \* no candidate yet
  Source,        \* Models -> the provider serving a candidate
  Upstream,      \* Models -> the weights behind it, whoever serves them
  QuotaKey,      \* Models -> the quota pool it draws on
  Context,       \* Models -> its known context window, 0 when unknown
  Pools,         \* the pools a virtual profile may start from
  Reasons,       \* the failure reasons the upstreams of this instance give
  Hints,         \* the Retry-After values (ticks) they send, 0 for none
  Sizes,         \* the request sizes a context rejection may report
  FirstSize,     \* the plan's estimate of the request size
  Knobs,         \* the sampling parameters the caller's body carries
  MaxAttempts,   \* config max_attempts_per_request
  PerSourceCap,  \* config max_attempts_per_source, 0 when unset
  CapacityPass,  \* config capacity_retry_pass
  Deadline,      \* config request_deadline_seconds, 0 when disabled
  InlineMax,     \* MAX_INLINE_RETRY_AFTER_SECONDS
  InlineMargin,  \* the second a retry must leave before the deadline
  PassMin, PassDefault, PassMax, PassReserve, PassModels,
                 \* the CAPACITY_RETRY_PASS_ constants
  DrainTime,     \* SHUTDOWN_DRAIN_SECONDS
  CanLeave,      \* whether this instance lets the caller hang up
  CanStop        \* whether it lets a SIGTERM arrive

CapacityReasons == {"rate_limited", "rate_limited_upstream", "server_error"}
ProviderScoped ==
  {"rate_limited", "auth_or_credit", "tls_error", "network_unreachable"}
SourceDiverting == {"bad_upstream_contract"}
ContextDiverting == {"context_length_exceeded"}
UpstreamDiverting ==
  {"truncated_before_content", "empty_assistant_message", "runaway_output"}
NonRetryable == {"bad_upstream_request"}

\* What classify_failure makes of an HTTP failure or of an error object.
Classified ==
  {"no_free_quota", "quota_exhausted", "bad_upstream_contract",
   "model_not_found", "auth_or_credit", "server_error", "unavailable",
   "rate_limited", "rate_limited_upstream", "context_length_exceeded",
   "request_too_large", "billing_or_paid", "bad_upstream_request"}
\* What evaluate_invocation_exception makes of an exception.
Raised ==
  {"runaway_output", "request_deadline_exceeded", "auth_or_credit",
   "tls_error", "network_unreachable", "timeout", "unavailable"}
\* A 200 whose JSON body holds no answer.
Unusable ==
  {"invalid_success_json", "upstream_finish_error", "runaway_output",
   "truncated_before_content", "empty_assistant_message"}
\* A stream that broke before anything reached the caller.
PreStream == {"pre_stream_failure", "runaway_output"}

AllReasons == Classified \cup Raised \cup Unusable \cup PreStream

ASSUME ModelsAssumption ==
  /\ Models \in SUBSET Nat
  /\ IsFiniteSet(Models) /\ NoModel \notin Models
  /\ Pools \subseteq (SUBSET Models) \ {{}}
  /\ Context \in [Models -> Nat]
  /\ DOMAIN Source = Models /\ DOMAIN Upstream = Models
  /\ DOMAIN QuotaKey = Models

ASSUME RequestAssumption ==
  /\ Reasons \subseteq AllReasons
  /\ Hints \in SUBSET Nat /\ 0 \in Hints
  /\ Sizes \in SUBSET Nat
  /\ FirstSize \in Nat
  /\ \A m \in Models : Context[m] = 0 \/ Context[m] >= FirstSize
  /\ IsFiniteSet(Knobs)
  /\ CanLeave \in BOOLEAN /\ CanStop \in BOOLEAN

ASSUME ConfigAssumption ==
  /\ MaxAttempts \in Nat \ {0}
  /\ PerSourceCap \in Nat
  /\ CapacityPass \in BOOLEAN
  /\ Deadline \in Nat /\ DrainTime \in Nat
  /\ InlineMax \in Nat /\ InlineMargin \in Nat
  /\ PassMin \in Nat /\ PassDefault \in Nat /\ PassMax \in Nat
  /\ PassReserve \in Nat /\ PassModels \in Nat

VARIABLES
  virtual,       \* the request names a virtual profile, not an exact model
  stream,        \* the caller asked for a stream
  pool,          \* candidate_pool
  pc,            \* where the handler thread is
  pending,       \* what is left of the attempt window
  slot,          \* the window position of each pending candidate
  considered,    \* window positions used up
  consideredIds, \* considered_ids
  ruledSources, ruledKeys, ruledUpstreams, required, divert,
                 \* ruled_out_*, required_context, divert_pending
  model,         \* the candidate of the current iteration
  again,         \* retry_same_model is set (it is always `model`)
  dropped,       \* dropped_parameters
  capRetried,    \* capacity_retried_ids
  passStarted,   \* capacity_pass_started
  attempts,      \* the attempt rows
  outcome,       \* how the request ended
  committed,     \* the HTTP 200 of a stream is on the wire
  connected, stopping,   \* the caller's socket, the SIGTERM flag
  budget,        \* ticks left before the request deadline
  wait,          \* ticks left of the current pause
  drain          \* ticks left before a stopping process exits

request == <<virtual, stream, pool>>
window == <<pending, slot, considered, consideredIds>>
facts == <<ruledSources, ruledKeys, ruledUpstreams, required, divert>>
turn == <<model, again, dropped>>
capacity == <<capRetried, passStarted>>
reply == <<outcome, committed>>
outside == <<connected, stopping>>
clocks == <<budget, drain>>
vars == <<request, window, facts, turn, capacity, reply, outside, clocks,
          pc, attempts, wait>>
-----------------------------------------------------------------------------
(***************************************************************************)
(* The attempt window.                                                     *)
(***************************************************************************)

SourceCap(n) ==
  IF PerSourceCap > 0 THEN PerSourceCap ELSE IF n > 2 THEN n - 1 ELSE 1

\* The candidates of S its provider still has room for, and the others.
Kept(S, n) ==
  {m \in S :
     Cardinality({k \in S : k < m /\ Source[k] = Source[m]}) < SourceCap(n)}
Deferred(S, n) == S \ Kept(S, n)

\* Where attempts_with_source_diversity places candidate m of S.
Place(m, S, n) ==
  IF m \in Kept(S, n)
  THEN Cardinality({k \in Kept(S, n) : k < m})
  ELSE Cardinality(Kept(S, n) \cup {k \in Deferred(S, n) : k < m})

Diverse(S, n) == {m \in S : Place(m, S, n) < n}

Planned ==
  IF virtual /\ MaxAttempts < Cardinality(pool)
  THEN MaxAttempts ELSE Cardinality(pool)

TooSmall(m, size) == Context[m] # 0 /\ Context[m] < size

\* Whether what is known of sources, weights and size rules m out.
Barred(m, sources, upstreams, size) ==
  \/ TooSmall(m, size)
  \/ Upstream[m] \in upstreams
  \/ Source[m] \in sources
  \/ QuotaKey[m] \in ruledKeys
RuledOut(m) == Barred(m, ruledSources, ruledUpstreams, required)
-----------------------------------------------------------------------------
(***************************************************************************)
(* Reasons to stop, and time.                                              *)
(***************************************************************************)

HasDeadline == virtual /\ Deadline > 0
Expired == HasDeadline /\ budget = 0

TerminalReason ==
  IF ~connected THEN "client_disconnected"
  ELSE IF stopping THEN "service_restarting" ELSE "none"

Ending == IF Expired THEN "request_deadline_exceeded" ELSE TerminalReason

\* The deadline is further away than the wait plus what must be left of it.
Leaves(seconds, reserve) == HasDeadline => budget > seconds + reserve

\* The loop is left: no answer was produced.
GiveUp(why) ==
  /\ pc' = "ended"
  /\ outcome' = IF why = "client_disconnected" THEN "abandoned"
                                               ELSE "json_failure"
  /\ UNCHANGED committed

Init ==
  /\ virtual \in BOOLEAN /\ stream \in BOOLEAN
  /\ pool \in IF virtual THEN Pools ELSE {{m} : m \in Models}
  /\ pending = Diverse(pool, Planned)
  /\ slot = [m \in Models |-> IF m \in pool THEN Place(m, pool, Planned) ELSE 0]
  /\ considered = 0 /\ consideredIds = {}
  /\ ruledSources = {} /\ ruledKeys = {} /\ ruledUpstreams = {}
  /\ required = FirstSize /\ divert = FALSE
  /\ model = NoModel /\ again = FALSE /\ dropped = {}
  /\ capRetried = {} /\ passStarted = FALSE
  /\ attempts = <<>>
  /\ pc = "choose" /\ outcome = "none" /\ committed = FALSE
  /\ connected = TRUE /\ stopping = FALSE
  /\ budget = Deadline /\ wait = 0 /\ drain = DrainTime
-----------------------------------------------------------------------------
(***************************************************************************)
(* The top of the loop: what the last attempt row says about the rest of   *)
(* the window, one re-plan if that is new, then the next candidate.        *)
(***************************************************************************)

LastRow == attempts[Len(attempts)]
LastReason == IF attempts = <<>> THEN "none" ELSE LastRow.reason
LastScoped == attempts # <<>> /\ LastRow.scoped

SourceFact ==
  IF LastReason \in SourceDiverting /\ ~LastScoped
  THEN {Source[LastRow.model]} ELSE {}
UpstreamFact ==
  IF LastReason \in UpstreamDiverting \/ LastScoped
  THEN {Upstream[LastRow.model]} ELSE {}
\* max(required_context, reported_tokens, failing_context + 1)
Grown(size) == Max({required, size, Context[model] + 1})
SizeFact ==
  IF LastReason \in ContextDiverting THEN {Grown(size) : size \in Sizes \cup {0}}
                                     ELSE {required}

\* Slip: the weights whose answer was unusable do not invalidate the window.
MustReplanOnSourcesOnly ==
  divert \/ SourceFact \ ruledSources # {} \/ LastReason \in ContextDiverting

MustReplan ==
  \/ divert
  \/ SourceFact \ ruledSources # {}
  \/ \E m \in pool \ consideredIds :
       Upstream[m] \in UpstreamFact \ ruledUpstreams
  \/ LastReason \in ContextDiverting

\* attempts_after_source_rejection: what the rest of the pool has to offer.
Survivors(size) ==
  {m \in pool \ consideredIds :
     ~Barred(m, ruledSources \cup SourceFact,
             ruledUpstreams \cup UpstreamFact, size)}
Replanned(size) ==
  IF MustReplan THEN Diverse(Survivors(size), Planned - considered) ELSE {}

\* A new candidate starts: m is the first of the window as it now stands.
AskNext(size, m, known) ==
  LET replanned == Replanned(size)
      offered   == IF replanned # {} THEN replanned ELSE pending
      position  == [k \in Models |->
                      IF k \in replanned
                      THEN considered + Place(k, Survivors(size), Planned - considered)
                      ELSE slot[k]]
  IN  /\ pc = "choose" /\ ~again /\ pending # {}
      /\ considered = 0 \/ Ending = "none"
      /\ m \in offered
      /\ \A k \in offered : position[m] <= position[k]
      /\ pc' = "asking" /\ model' = m
      /\ pending' = offered \ {m} /\ slot' = position
      /\ considered' = considered + 1
      /\ consideredIds' = consideredIds \cup {m}
      /\ ruledSources' = ruledSources \cup SourceFact
      /\ ruledUpstreams' = ruledUpstreams \cup UpstreamFact
      /\ required' = size /\ divert' = FALSE
      /\ dropped' = known       \* what the state says m refuses
      /\ UNCHANGED <<ruledKeys, again, request, capacity, attempts, reply,
                     outside, clocks, wait>>

\* The same candidate once more: its window position is not spent again.
AskAgain ==
  /\ pc = "choose" /\ again /\ Ending = "none"
  /\ pc' = "asking" /\ again' = FALSE
  /\ UNCHANGED <<model, dropped, request, window, facts, capacity, attempts,
                 reply, outside, clocks, wait>>

\* Slip: never stopping a retry.
StopShortFreshOnly ==
  /\ pc = "choose" /\ pending # {} /\ considered > 0 /\ Ending # "none"
  /\ GiveUp(Ending)
  /\ UNCHANGED <<request, window, facts, turn, capacity, attempts, outside,
                 clocks, wait>>

\* The deadline, a caller that hung up or a SIGTERM: read between attempts,
\* once one candidate was asked.  The locals are dead after the break.
StopShort ==
  /\ pc = "choose" /\ (again \/ pending # {})
  /\ considered > 0 /\ Ending # "none"
  /\ GiveUp(Ending)
  /\ UNCHANGED <<request, window, facts, turn, capacity, attempts, outside,
                 clocks, wait>>
-----------------------------------------------------------------------------
(***************************************************************************)
(* The capacity pass: the window is spent and every row is a capacity      *)
(* failure, so wait once and ask the first candidates again.               *)
(***************************************************************************)

Rows == DOMAIN attempts
PassWait ==
  LET hinted == {attempts[i].hint : i \in Rows} \ {0}
  IN  Max({PassMin, IF hinted = {} THEN PassDefault ELSE Max(hinted)})

FirstRow(m) == Min({i \in Rows : attempts[i].model = m})
Askable == {attempts[i].model : i \in Rows} \ capRetried
PassPlace(m) == Cardinality({k \in Askable : FirstRow(k) < FirstRow(m)})
Retried == {m \in Askable : PassPlace(m) < PassModels}

PassOpens ==
  /\ CapacityPass /\ ~passStarted /\ virtual /\ attempts # <<>>
  /\ \A i \in Rows : attempts[i].reason \in CapacityReasons
  /\ PassWait <= PassMax /\ Leaves(PassWait, PassReserve)
  /\ TerminalReason = "none"
  /\ Retried # {}

CapacityRetryPass ==
  /\ pc = "choose" /\ ~again /\ pending = {} /\ PassOpens
  /\ passStarted' = TRUE
  /\ pending' = Retried
  /\ slot' = [m \in Models |->
               IF m \in Retried THEN considered + PassPlace(m) ELSE slot[m]]
  /\ pc' = "waiting" /\ wait' = PassWait
  /\ UNCHANGED <<considered, consideredIds, request, facts, turn, capRetried,
                 attempts, reply, outside, clocks>>

\* Waited in one-second steps: a reason to stop ends the wait early.
PassWaitEnds ==
  /\ pc = "waiting" /\ (wait = 0 \/ TerminalReason # "none")
  /\ pc' = "choose" /\ wait' = 0
  /\ UNCHANGED <<request, window, facts, turn, capacity, attempts, reply,
                 outside, clocks>>

WindowSpent ==
  /\ pc = "choose" /\ ~again /\ pending = {} /\ ~PassOpens
  /\ GiveUp("none")
  /\ UNCHANGED <<request, window, facts, turn, capacity, attempts, outside,
                 clocks, wait>>
-----------------------------------------------------------------------------
(***************************************************************************)
(* What the candidate answers, and what the loop makes of it.              *)
(***************************************************************************)

Record(reason, hint, scoped, knob) ==
  attempts' = Append(attempts, [model |-> model, reason |-> reason,
                                hint |-> hint, scoped |-> scoped, knob |-> knob])

\* rule_out: the keys the cooldown just written blocks beyond the candidate.
RuleOut(reason) ==
  LET sources == IF reason \in ProviderScoped THEN {Source[model]} ELSE {}
      keys    == IF reason = "quota_exhausted" THEN {QuotaKey[model]} ELSE {}
  IN  /\ ruledSources' = ruledSources \cup sources
      /\ ruledKeys' = ruledKeys \cup keys
      /\ divert' = \/ divert
                   \/ sources \ ruledSources # {}
                   \/ \E m \in pool \ consideredIds :
                        QuotaKey[m] \in keys \ ruledKeys
      /\ UNCHANGED <<ruledUpstreams, required>>

\* _should_retry: on to the next candidate, or the run is over.
MoveOn(reason) ==
  IF virtual /\ reason \notin NonRetryable
  THEN pc' = "choose" /\ UNCHANGED reply
  ELSE GiveUp("none")

\* Slip: the inline retry is not spent.
CanRetryInlineAgain(seconds) ==
  /\ seconds \in 1..InlineMax
  /\ virtual => pending = {}
  /\ Leaves(seconds, InlineMargin)

\* inline_capacity_retry_delay
CanRetryInline(seconds) ==
  /\ seconds \in 1..InlineMax
  /\ model \notin capRetried
  /\ virtual => pending = {}
  /\ Leaves(seconds, InlineMargin)

PauseThenRetry(seconds) ==
  /\ pc' = "paused" /\ wait' = seconds /\ again' = TRUE
  /\ capRetried' = capRetried \cup {model}
  /\ UNCHANGED <<model, dropped, passStarted, reply>>

\* ProviderAdmissionRefused: the local request budget of the provider is full.
AdmissionRefused(seconds) ==
  /\ pc = "asking" /\ "rate_limited" \in Reasons
  /\ Record("rate_limited", seconds, FALSE, FALSE)
  /\ \/ /\ CanRetryInline(seconds)
        /\ PauseThenRetry(seconds)
        /\ UNCHANGED facts
     \/ /\ ~CanRetryInline(seconds)
        /\ ruledSources' = ruledSources \cup {Source[model]}
        /\ divert' = (divert \/ Source[model] \notin ruledSources)
        /\ pc' = "choose"
        /\ UNCHANGED <<ruledKeys, ruledUpstreams, required, turn, capacity,
                       reply, wait>>
  /\ UNCHANGED <<request, window, outside, clocks>>

InvocationFails(reason) ==
  /\ pc = "asking"
  /\ reason = "request_deadline_exceeded" => Expired
  /\ RuleOut(reason)
  /\ Record(reason, 0, FALSE, FALSE)
  /\ pc' = "choose"
  /\ UNCHANGED <<request, window, turn, capacity, reply, outside, clocks, wait>>

JsonAnswer ==
  /\ pc = "asking" /\ ~stream
  /\ Record("ok", 0, FALSE, FALSE)
  /\ pc' = "ended" /\ outcome' = "answered"
  /\ UNCHANGED <<committed, request, window, facts, turn, capacity, outside,
                 clocks, wait>>

\* A 200 that is no answer: for a JSON request the body, for a stream what
\* broke before its first byte was committed to the caller.
NoAnswer(reason) ==
  /\ pc = "asking"
  /\ reason \in Classified \cup (IF stream THEN PreStream ELSE Unusable)
  /\ RuleOut(reason)
  /\ Record(reason, 0, FALSE, FALSE)
  /\ MoveOn(reason)
  /\ UNCHANGED <<request, window, turn, capacity, outside, clocks, wait>>

StreamCommits ==
  /\ pc = "asking" /\ stream
  /\ pc' = "streaming" /\ committed' = TRUE
  /\ UNCHANGED <<outcome, request, window, facts, turn, capacity, attempts,
                 outside, clocks, wait>>

\* Slip: a stream with nothing deliverable is a terminal failure of the loop.
StreamEndsAsFailure(how) ==
  /\ pc = "streaming"
  /\ Record(IF how = "streamed" THEN "ok" ELSE "mid_stream", 0, FALSE, FALSE)
  /\ IF how = "streamed" THEN pc' = "ended" /\ outcome' = how /\ UNCHANGED committed
                         ELSE GiveUp("none")
  /\ UNCHANGED <<request, window, facts, turn, capacity, outside, clocks, wait>>

\* A committed stream ends the run whatever became of it: success or
\* mid_stream_failure, and never another candidate.
StreamEnds(how) ==
  /\ pc = "streaming"
  /\ Record(IF how = "streamed" THEN "ok" ELSE "mid_stream", 0, FALSE, FALSE)
  /\ pc' = "ended" /\ outcome' = how
  /\ UNCHANGED <<committed, request, window, facts, turn, capacity, outside,
                 clocks, wait>>

HttpFailure(reason, seconds, scoped) ==
  /\ pc = "asking"
  /\ scoped => reason \in SourceDiverting
  /\ seconds > 0 => reason \in CapacityReasons \cup {"quota_exhausted"}
  /\ RuleOut(reason)
  /\ Record(reason, seconds, scoped, FALSE)
  /\ IF reason \in {"rate_limited", "rate_limited_upstream"}
          /\ CanRetryInline(seconds)
     THEN PauseThenRetry(seconds)
     ELSE MoveOn(reason) /\ UNCHANGED <<turn, capacity, wait>>
  /\ UNCHANGED <<request, window, outside, clocks>>

\* The refusal names sampling knobs still in the body: drop them, ask again.
KnobsRejected(named, reason) ==
  /\ pc = "asking" /\ named \ dropped # {}
  /\ dropped' = dropped \cup named
  /\ Record(reason, 0, FALSE, TRUE)
  /\ pc' = "choose" /\ again' = TRUE
  /\ UNCHANGED <<model, request, window, facts, capacity, reply, outside,
                 clocks, wait>>

\* time.sleep returns; unlike the pass's wait nothing ends it early.
PauseEnds ==
  /\ pc = "paused" /\ wait = 0
  /\ pc' = "choose"
  /\ UNCHANGED <<request, window, facts, turn, capacity, attempts, reply,
                 outside, clocks, wait>>
-----------------------------------------------------------------------------
(***************************************************************************)
(* The caller, the signal handler, and time.                               *)
(***************************************************************************)

Running == pc \notin {"ended", "killed"}

ClientLeaves ==
  /\ CanLeave /\ connected /\ Running
  /\ connected' = FALSE
  /\ UNCHANGED <<request, window, facts, turn, capacity, attempts, reply,
                 clocks, pc, wait, stopping>>

Sigterm ==
  /\ CanStop /\ ~stopping /\ Running
  /\ stopping' = TRUE
  /\ UNCHANGED <<request, window, facts, turn, capacity, attempts, reply,
                 clocks, pc, wait, connected>>

\* The drain is over: the process exits under the handler thread.
Kill ==
  /\ Running /\ stopping /\ drain = 0
  /\ pc' = "killed"
  /\ UNCHANGED <<request, window, facts, turn, capacity, attempts, reply,
                 outside, clocks, wait>>

Less(n) == IF n > 0 THEN n - 1 ELSE 0

\* Time passes while the thread waits for something; a sleep that is over
\* returns before time goes on.
Tick ==
  /\ \/ pc \in {"asking", "streaming"}
     \/ pc \in {"paused", "waiting"} /\ wait > 0
  /\ stopping => drain > 0
  /\ budget' = IF HasDeadline THEN Less(budget) ELSE budget
  /\ drain' = IF stopping THEN drain - 1 ELSE drain
  /\ wait' = Less(wait)
  /\ UNCHANGED <<request, window, facts, turn, capacity, attempts, reply,
                 outside, pc>>

Done == ~Running /\ UNCHANGED vars

Choose ==
  \/ \E size \in SizeFact, m \in Models, known \in SUBSET Knobs :
       AskNext(size, m, known)
  \/ AskAgain \/ StopShort \/ CapacityRetryPass \/ PassWaitEnds
  \/ WindowSpent \/ PauseEnds

Answer ==
  \/ \E seconds \in Hints \ {0} : AdmissionRefused(seconds)
  \/ \E reason \in Reasons \cap Raised : InvocationFails(reason)
  \/ JsonAnswer
  \/ \E reason \in Reasons : NoAnswer(reason)
  \/ StreamCommits
  \/ \E how \in {"streamed", "broken"} : StreamEnds(how)
  \/ \E reason \in Reasons \cap Classified, seconds \in Hints, scoped \in BOOLEAN :
       HttpFailure(reason, seconds, scoped)
  \/ \E named \in SUBSET Knobs, reason \in NonRetryable \cup SourceDiverting :
       KnobsRejected(named, reason)

Next == Choose \/ Answer \/ ClientLeaves \/ Sigterm \/ Kill \/ Tick \/ Done

\* The handler thread runs, an upstream answers or times out, time passes.
Fairness == WF_vars(Choose) /\ WF_vars(Answer) /\ WF_vars(Kill) /\ WF_vars(Tick)

Spec == Init /\ [][Next]_vars
FairSpec == Spec /\ Fairness
-----------------------------------------------------------------------------
(***************************************************************************)
(* Properties.                                                             *)
(***************************************************************************)

Row == [model : Models, reason : AllReasons \cup {"ok", "mid_stream"},
        hint : Hints, scoped : BOOLEAN, knob : BOOLEAN]

\* Every variable keeps its type, and a window only offers what the pool holds.
TypeOK ==
  /\ virtual \in BOOLEAN /\ stream \in BOOLEAN
  /\ pool \in SUBSET Models /\ pool # {}
  /\ pending \in SUBSET pool /\ slot \in [Models -> Nat]
  /\ considered \in Nat /\ consideredIds \in SUBSET pool
  /\ ruledSources \subseteq {Source[m] : m \in Models}
  /\ ruledKeys \subseteq {QuotaKey[m] : m \in Models}
  /\ ruledUpstreams \subseteq {Upstream[m] : m \in Models}
  /\ required \in Nat /\ divert \in BOOLEAN
  /\ model \in pool \cup {NoModel} /\ again \in BOOLEAN
  /\ dropped \in SUBSET Knobs
  /\ capRetried \in SUBSET pool /\ passStarted \in BOOLEAN
  /\ attempts \in Seq(Row)
  /\ pc \in {"choose", "asking", "streaming", "paused", "waiting", "ended",
             "killed"}
  /\ outcome \in {"none", "answered", "streamed", "broken", "json_failure",
                  "abandoned"}
  /\ committed \in BOOLEAN /\ connected \in BOOLEAN /\ stopping \in BOOLEAN
  /\ budget \in Nat /\ wait \in Nat /\ drain \in Nat

\* What this request's own rows say about a candidate, whatever the loop
\* remembered of them: row i blocks every candidate it speaks for.
Blocks(i, m) ==
  LET row == attempts[i] IN
  \/ /\ \/ row.reason \in ProviderScoped
        \/ row.reason \in SourceDiverting /\ ~row.scoped
     /\ Source[m] = Source[row.model]
  \/ row.reason = "quota_exhausted" /\ QuotaKey[m] = QuotaKey[row.model]
  \/ /\ row.reason \in UpstreamDiverting \/ row.scoped
     /\ Upstream[m] = Upstream[row.model]
  \/ /\ row.reason \in ContextDiverting
     /\ Context[m] \in 1..Context[row.model]
Blocked(m) == \E i \in Rows : ~attempts[i].knob /\ Blocks(i, m)

\* Every row is of a candidate the window gave out, and so is `model` once
\* there is one.
Asked ==
  /\ considered > 0 => model \in consideredIds
  /\ (again \/ attempts # <<>> \/ pc \in {"asking", "streaming", "paused", "waiting"})
       => considered > 0
  /\ \A i \in Rows : attempts[i].model \in consideredIds
  /\ ~virtual => \E m \in Models : pool = {m}

\* Between an answer and the next candidate the last row is still to be read.
Unread == pc = "choose" /\ ~again

LastRowRead ==
  (Unread /\ attempts # <<>>) => LastRow.model = model /\ ~LastRow.knob

\* What the rows say is what the loop remembers ...
Learned ==
  \A i \in Rows : ~attempts[i].knob =>
    LET row == attempts[i] IN
    /\ row.reason \in ProviderScoped => Source[row.model] \in ruledSources
    /\ row.reason = "quota_exhausted" => QuotaKey[row.model] \in ruledKeys
    /\ (i < Len(attempts) \/ ~Unread) =>
         /\ (row.reason \in SourceDiverting /\ ~row.scoped)
              => Source[row.model] \in ruledSources
         /\ (row.reason \in UpstreamDiverting \/ row.scoped)
              => Upstream[row.model] \in ruledUpstreams
         /\ row.reason \in ContextDiverting => required > Context[row.model]

\* ... and it remembers nothing else.
Backed ==
  /\ \A s \in ruledSources : \E i \in Rows :
       /\ ~attempts[i].knob /\ Source[attempts[i].model] = s
       /\ \/ attempts[i].reason \in ProviderScoped
          \/ attempts[i].reason \in SourceDiverting /\ ~attempts[i].scoped
  /\ \A key \in ruledKeys : \E i \in Rows :
       /\ ~attempts[i].knob /\ QuotaKey[attempts[i].model] = key
       /\ attempts[i].reason = "quota_exhausted"
  /\ \A u \in ruledUpstreams : \E i \in Rows :
       /\ ~attempts[i].knob /\ Upstream[attempts[i].model] = u
       /\ attempts[i].reason \in UpstreamDiverting \/ attempts[i].scoped

\* The window holds distinct positions that are still to be used.
Slots ==
  /\ pending \cap consideredIds = {}
  /\ \A m \in pending : considered <= slot[m] /\ slot[m] < Planned
  /\ \A m, k \in pending : m # k => slot[m] # slot[k]

\* Unless a re-plan is due, the window offers nothing that is ruled out, or
\* there is nothing else to offer.
WindowSound ==
  \/ divert
  \/ \A m \in pending : ~RuledOut(m)
  \/ \A m \in pool \ consideredIds : RuledOut(m)

\* Up to the capacity pass the window the loop works through, the facts it
\* remembers and the rows it recorded agree with each other.
LoopInv ==
  (Running /\ ~passStarted) =>
    /\ LastRowRead /\ Backed /\ Slots /\ WindowSound
    /\ pending # {} => Learned

\* A candidate the request's own failures speak against is asked for the first
\* time only when the pool has no other candidate left: the rest was asked
\* already, is spoken against as well, or is too small for the request.
\* (attempts_after_source_rejection, rule_out and the re-plan at the top.)
BlockedIsLastResort ==
  [][(pc = "choose" /\ pc' = "asking" /\ ~again /\ ~passStarted) =>
       (Blocked(model') =>
          \A m \in pool \ consideredIds' : Blocked(m) \/ TooSmall(m, required'))]_vars

\* However the failures combine, the calls one request makes are bounded: the
\* window and one pass, each position once more per sampling knob, and at most
\* one inline retry in the window and one in the pass.
CallsMade == Len(attempts) + (IF pc \in {"asking", "streaming"} THEN 1 ELSE 0)
CallsAreBounded ==
  /\ CallsMade <= (Planned + IF passStarted THEN PassModels ELSE 0)
                    * (1 + Cardinality(Knobs)) + (IF virtual THEN 2 ELSE 1)
  /\ \A m \in pool :
       Cardinality({i \in Rows : attempts[i].model = m /\ ~attempts[i].knob}) <= 3

\* A pause never sleeps through the deadline, and the pass's wait leaves the
\* candidates it asks again their share of the budget.
PausesFitTheBudget ==
  HasDeadline =>
    /\ pc = "paused" => budget > wait + InlineMargin
    /\ pc = "waiting" => budget > wait + PassReserve

\* A request asks at most its attempts and waits at most its deadline, whatever happens to it
\* (run_chat_completion, the capacity pass and the inline retry).
WorkIsBounded == CallsAreBounded /\ PausesFitTheBudget

\* A candidate is asked a second time only after a capacity failure of its
\* own, or without a sampling knob it refused: no re-plan offers it again.
RepeatsAreForCapacity ==
  \A i, j \in Rows :
    (i < j /\ attempts[i].model = attempts[j].model /\ ~attempts[i].knob)
      => attempts[i].reason \in CapacityReasons

\* Once a stream is committed to the caller no other candidate is asked and no
\* JSON answer follows it: the run ends with the stream, whole or broken.
CommittedIsFinal ==
  committed => /\ pc \in {"streaming", "ended", "killed"}
               /\ outcome \in {"none", "streamed", "broken"}

\* A body an upstream refused is never sent to another candidate, except as
\* the same candidate's retry without the sampling knob it named.
RejectedBodyStops ==
  \A i \in Rows : (attempts[i].reason \in NonRetryable /\ ~attempts[i].knob) =>
                   i = Len(attempts) /\ pc = "ended"

\* A caller that hung up before its budget ran out gets no body, also when the
\* service is stopping at the same time.
GoneGetsNoBody ==
  [][(pc = "choose" /\ pc' = "ended" /\ (again \/ pending # {})) =>
       (outcome' = "abandoned" <=> (~connected /\ ~Expired))]_vars

\* Every request ends: answered, given up, abandoned or killed by the drain.
Terminates == <>(pc \in {"ended", "killed"})

\* A row that speaks for no second call of its candidate.
Final(i) == ~attempts[i].knob /\ attempts[i].reason \notin CapacityReasons
Refusal(i) == ~attempts[i].knob /\ attempts[i].reason \in NonRetryable

\* The loop implements the contract of a request (RequestContract): what the
\* rows and the thread's place show of it to the caller and to the providers.
InFlight == IF pc \in {"asking", "streaming"} THEN model ELSE NoModel
Spent == {attempts[i].model : i \in {k \in Rows : Final(k)}}
Refused == \E i \in Rows : Refusal(i)
Verdict == CASE pc = "killed" -> "cut" [] pc = "streaming" -> "streaming"
             [] OTHER -> outcome
Contract == INSTANCE RequestContract WITH
  inFlight <- InFlight, spent <- Spent, refused <- Refused, verdict <- Verdict
ImplementsContract == Contract!ContractSpec

\* The comment on the re-plan: considered + pending <= planned.
WindowBudget == considered + Cardinality(pending) <= Planned

\* The comment on SHUTDOWN_DRAIN_SECONDS: the drain ends as soon as the attempt
\* already running does, so what it cuts is an attempt and never a pause.
DrainCutsAttemptsOnly ==
  [][pc' = "killed" => pc \in {"asking", "streaming", "killed"}]_vars
=============================================================================
