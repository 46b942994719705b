------------------------- MODULE RuntimeCooldowns -------------------------
(***************************************************************************)
(* What one failure or one success writes to the shared runtime state: the *)
(* cooldowns of models, providers and quota pools, the quarantine and the  *)
(* recorded errors.  Requests, the provider prober and the admin page all  *)
(* work on it; each write is one locked read-modify-write of StateStore,   *)
(* but what led to it was read, or asked of an upstream, some time before. *)
(*                                                                         *)
(* Time is a counter, so that "written before the request started" is      *)
(* decided as the code decides it, by comparing stamps.  A row is absent   *)
(* when its `until` (or its reason) says so: see NoRow.                    *)
(***************************************************************************)
EXTENDS Integers

CONSTANTS
  Models, Sources, Keys,  \* catalog models, providers, quota pools
  Source,                 \* Models -> Sources
  DeclaredKey,            \* Models -> Keys: the pool a model's failure exhausts
  Covers,                 \* Keys -> the models a quota row of that key speaks for
  Requests,               \* the request threads
  Reasons,                \* the failure reasons the upstreams of this instance give
  Delays,                 \* cooldown lengths: table, escalation or Retry-After
  ReserveTime,            \* how long a reserved quota probe is not due again
  Legacy,                 \* models an older version left a provider-scoped row for
  MaxTime                 \* bound of the clock

ProviderScoped ==
  {"rate_limited", "auth_or_credit", "tls_error", "network_unreachable"}
NoModelFault ==
  {"truncated_before_content", "bad_upstream_request", "bad_upstream_contract",
   "client_disconnected", "request_deadline_exceeded", "context_length_exceeded"}
Quarantining == {"no_free_quota", "model_not_found", "billing_or_paid"}
ModelScoped ==
  {"timeout", "server_error", "unavailable", "rate_limited_upstream",
   "request_too_large"}
AllReasons ==
  ProviderScoped \cup NoModelFault \cup Quarantining \cup ModelScoped
    \cup {"quota_exhausted"}
ProviderErrorReasons == ProviderScoped \cup {"quota_exhausted", "no_free_quota"}
RouteBlocking ==
  {"billing_or_paid", "no_free_quota", "quota_exhausted", "auth_or_credit",
   "model_not_found"}

ASSUME CatalogAssumption ==
  /\ Source \in [Models -> Sources]
  /\ DeclaredKey \in [Models -> Keys] /\ Covers \in [Keys -> SUBSET Models]
  /\ \A m \in Models : m \in Covers[DeclaredKey[m]]
  /\ Legacy \subseteq Models

ASSUME TimeAssumption ==
  /\ Delays \subseteq Nat \ {0} /\ ReserveTime \in Nat \ {0} /\ MaxTime \in Nat
  /\ Reasons \subseteq AllReasons

VARIABLES
  now,
  cooldowns, providerCooldowns, quotaCooldowns,  \* by model, source and key
  quarantine,                                    \* by model
  modelErrors, providerErrors,                   \* the diagnostics, by model and source
  calls,                                         \* the requests, see Call
  prober,                                        \* the holder of the probe lock
  lastQuotaFailure, \* history: when a request last found a key's pool exhausted
  held              \* history: quarantined by hand or for billing, not released

blocks == <<cooldowns, providerCooldowns, quotaCooldowns, quarantine>>
errors == <<modelErrors, providerErrors>>
history == <<lastQuotaFailure, held>>
vars == <<now, blocks, errors, calls, prober, history>>

NoRow == [until |-> 0, reason |-> "none", at |-> 0]
NoQuota == [until |-> 0, next |-> 0, source |-> "none", at |-> 0]
NoNote == [reason |-> "none", at |-> 0]

Row(reason, delay) == [until |-> now + delay, reason |-> reason, at |-> now]
QuotaRow(m, delay) ==
  [until |-> now + delay, next |-> now + delay, source |-> Source[m], at |-> now]
Note(reason) == [reason |-> reason, at |-> now]
-----------------------------------------------------------------------------
(***************************************************************************)
(* Reading the state.                                                      *)
(***************************************************************************)

\* model_on_cooldown: a provider or model row blocks until it expires, a quota
\* row until something lifts it.
OnCooldown(m) ==
  \/ providerCooldowns[Source[m]].until > now
  \/ \E k \in Keys : m \in Covers[k] /\ quotaCooldowns[k].until > 0
  \/ cooldowns[m].until > now

Quarantined(m) == quarantine[m].reason # "none"
Usable(m) == ~OnCooldown(m) /\ ~Quarantined(m)

\* source_has_active_quota_cooldown
ActiveQuota(source, rows) ==
  \E k \in Keys : rows[k].source = source /\ rows[k].until > now

\* Slips: a row of the start's own instant is newer; any row is older.
PredatesStrictly(row, started) == row.at < started
PredatesAlways(row, started) == TRUE
\* cooldown_predates_request: a row without a stamp counts as older.
Predates(row, started) == row.at <= started
Lift(row, none, started) == IF Predates(row, started) THEN none ELSE row
-----------------------------------------------------------------------------
(***************************************************************************)
(* The two writes.                                                         *)
(***************************************************************************)

\* The cooldown policy: the reasons that cool the model itself.
CoolsModel(reason) == reason \in ModelScoped \cup {"billing_or_paid"}

\* Slip: the rows an older version left are kept.
PrunedNever(row) == row
\* prune_provider_scoped_model_cooldowns_in_state
Pruned(row) == IF row.reason \in ProviderScoped THEN NoRow ELSE row

\* set_cooldown_in_state: prune every model row, note the error, then the one
\* block the policy gives this reason (billing_or_paid alone has two).
Failure(m, reason, delay) ==
  /\ cooldowns' = [k \in Models |-> IF k = m /\ CoolsModel(reason)
                                    THEN Row(reason, delay) ELSE Pruned(cooldowns[k])]
  /\ providerCooldowns' =
       [providerCooldowns EXCEPT ![Source[m]] =
          IF reason \in ProviderScoped THEN Row(reason, delay) ELSE @]
  /\ quotaCooldowns' =
       [quotaCooldowns EXCEPT ![DeclaredKey[m]] =
          IF reason = "quota_exhausted" THEN QuotaRow(m, delay) ELSE @]
  /\ quarantine' = [quarantine EXCEPT ![m] =
                      IF reason \in Quarantining THEN Note(reason) ELSE @]
  /\ modelErrors' = [modelErrors EXCEPT ![m] = Note(reason)]
  /\ providerErrors' =
       [providerErrors EXCEPT ![Source[m]] =
          IF reason \in ProviderErrorReasons THEN Note(reason) ELSE @]

\* Slip: whatever asked, an answer frees the route.
FreesRouteAlways(origin) == TRUE
\* A probe's few tokens test neither the model's nor the provider's cooldown.
FreesRoute(origin) == origin = "request"

\* record_success_in_state: lift what was there when the call left.
Success(m, started, origin) ==
  /\ cooldowns' = [cooldowns EXCEPT ![m] =
                     IF FreesRoute(origin) THEN Lift(@, NoRow, started) ELSE @]
  /\ providerCooldowns' =
       [providerCooldowns EXCEPT ![Source[m]] =
          IF FreesRoute(origin) THEN Lift(@, NoRow, started) ELSE @]
  /\ quotaCooldowns' =
       [k \in Keys |-> IF m \in Covers[k] THEN Lift(quotaCooldowns[k], NoQuota, started)
                                          ELSE quotaCooldowns[k]]
  /\ providerErrors' =
       [providerErrors EXCEPT ![Source[m]] =
          IF ActiveQuota(Source[m], quotaCooldowns') THEN @
                                                     ELSE Lift(@, NoNote, started)]
  /\ quarantine' =
       [quarantine EXCEPT ![m] =
          IF @.reason = "model_not_found" THEN Lift(@, NoNote, started) ELSE @]
  /\ modelErrors' = [modelErrors EXCEPT ![m] = Lift(@, NoNote, started)]
-----------------------------------------------------------------------------
(***************************************************************************)
(* Requests: planned on the state of one moment, answered in another.      *)
(***************************************************************************)

NoModel == "none"
NoCall == [phase |-> "idle", pool |-> {}, model |-> NoModel, started |-> 0]

\* The plan keeps what is usable now; the loop asks along it without reading
\* the state again.
Plan(r) ==
  /\ calls[r].phase = "idle"
  /\ \E m \in Models : Usable(m)
  /\ calls' = [calls EXCEPT ![r] = [NoCall EXCEPT !.phase = "planned",
                                      !.pool = {m \in Models : Usable(m)}]]
  /\ UNCHANGED <<now, blocks, errors, prober, history>>

Ask(r, m) ==
  /\ calls[r].phase = "planned" /\ m \in calls[r].pool
  /\ calls' = [calls EXCEPT ![r] = [phase |-> "asking", pool |-> @.pool \ {m},
                                    model |-> m, started |-> now]]
  /\ UNCHANGED <<now, blocks, errors, prober, history>>

\* record_success_with_telemetry
Succeeds(r) ==
  /\ calls[r].phase = "asking"
  /\ Success(calls[r].model, calls[r].started, "request")
  /\ calls' = [calls EXCEPT ![r] = NoCall]
  /\ UNCHANGED <<now, prober, history>>

\* apply_chat_attempt_cooldown; the next candidate is asked, or the loop ends.
Fails(r, reason, delay) ==
  LET m == calls[r].model IN
  /\ calls[r].phase = "asking"
  /\ Failure(m, reason, delay)
  /\ calls' = [calls EXCEPT ![r].phase = "planned", ![r].model = NoModel]
  /\ lastQuotaFailure' = [lastQuotaFailure EXCEPT ![DeclaredKey[m]] =
                            IF reason = "quota_exhausted" THEN now ELSE @]
  /\ held' = IF reason = "billing_or_paid" THEN held \cup {m} ELSE held
  /\ UNCHANGED <<now, prober>>

EndsUnanswered(r) ==
  /\ calls[r].phase = "planned"
  /\ calls' = [calls EXCEPT ![r] = NoCall]
  /\ UNCHANGED <<now, blocks, errors, prober, history>>
-----------------------------------------------------------------------------
(***************************************************************************)
(* The prober: quota probes and benchmarks, one at a time under            *)
(* PROVIDER_PROBE_LOCK.                                                    *)
(***************************************************************************)

NoProbe == [phase |-> "idle", key |-> "none", model |-> NoModel, row |-> NoQuota,
            started |-> 0]

\* find_quota_probe_model: a model of the key that nothing but the key blocks.
Probeable(k, m) ==
  /\ m \in Covers[k] /\ ~Quarantined(m)
  /\ providerCooldowns[Source[m]].until <= now /\ cooldowns[m].until <= now

\* A due key (any standing key when forced from the admin page), read from a
\* fresh copy of the state.
PickProbe(k, m, force) ==
  /\ prober.phase = "idle"
  /\ quotaCooldowns[k] # NoQuota
  /\ force \/ quotaCooldowns[k].next <= now
  /\ Probeable(k, m)
  /\ prober' = [phase |-> "picked", key |-> k, model |-> m,
                row |-> quotaCooldowns[k], started |-> 0]
  /\ UNCHANGED <<now, blocks, errors, calls, history>>

\* reserve_quota_probe_in_state: if the key still stands, the row read before
\* is written back with a later probe time.
Reserve ==
  LET k == prober.key IN
  /\ prober.phase = "picked"
  /\ IF quotaCooldowns[k] = NoQuota
     THEN prober' = NoProbe /\ UNCHANGED quotaCooldowns
     ELSE /\ quotaCooldowns' = [quotaCooldowns EXCEPT ![k] =
                                  [prober.row EXCEPT !.next = now + ReserveTime]]
          /\ prober' = [prober EXCEPT !.phase = "probing", !.started = now]
  /\ UNCHANGED <<now, cooldowns, providerCooldowns, quarantine, errors, calls,
                 history>>

\* clear_quota_cooldown_in_state: the key is served again.
AccessRestored ==
  LET k == prober.key
      m == prober.model
      settled == ~ActiveQuota(Source[m], quotaCooldowns')
      quotaOnly(row) == IF settled /\ row.reason = "quota_exhausted" THEN NoNote ELSE row
  IN  /\ quotaCooldowns' = [quotaCooldowns EXCEPT ![k] = NoQuota]
      /\ providerErrors' = [providerErrors EXCEPT ![Source[m]] = quotaOnly(@)]
      /\ modelErrors' =
           [n \in Models |-> IF n = m THEN NoNote
                             ELSE IF Source[n] = Source[m] THEN quotaOnly(modelErrors[n])
                             ELSE modelErrors[n]]

\* Any 2xx, and a body the provider refused: it was let in.
ProbePasses ==
  /\ prober.phase = "probing"
  /\ AccessRestored
  /\ prober' = NoProbe
  /\ UNCHANGED <<now, cooldowns, providerCooldowns, quarantine, calls,
                 history>>

\* record_model_pool_limited: the key is served again but the model's own pool
\* is not, in two writes.
ProbePoolLimited ==
  /\ prober.phase = "probing" /\ "rate_limited_upstream" \in Reasons
  /\ AccessRestored
  /\ prober' = [prober EXCEPT !.phase = "limited"]
  /\ UNCHANGED <<now, cooldowns, providerCooldowns, quarantine, calls,
                 history>>
CoolPoolLimited(delay) ==
  /\ prober.phase = "limited"
  /\ Failure(prober.model, "rate_limited_upstream", delay)
  /\ prober' = NoProbe
  /\ UNCHANGED <<now, calls, history>>

\* Confirmed or inconclusive, the key is written anew; failure_guard adds the
\* quarantine, or the provider's error and cooldown.
ProbeFails(reason, delay, guard) ==
  LET m == prober.model IN
  /\ prober.phase = "probing"
  /\ reason # "rate_limited_upstream"
  /\ quotaCooldowns' = [quotaCooldowns EXCEPT ![prober.key] = QuotaRow(m, delay)]
  /\ quarantine' = [quarantine EXCEPT ![m] =
                      IF reason \in Quarantining THEN Note(reason) ELSE @]
  /\ held' = IF reason = "billing_or_paid" THEN held \cup {m} ELSE held
  /\ providerCooldowns' =
       [providerCooldowns EXCEPT ![Source[m]] =
          IF reason = "auth_or_credit" THEN Row(reason, guard) ELSE @]
  /\ providerErrors' =
       [providerErrors EXCEPT ![Source[m]] =
          IF reason = "auth_or_credit" THEN Note(reason) ELSE @]
  /\ prober' = NoProbe
  /\ UNCHANGED <<now, cooldowns, modelErrors, calls, lastQuotaFailure>>

\* The local request budget of the provider refused the probe itself.
ProbeSkipped ==
  /\ prober.phase = "probing"
  /\ prober' = NoProbe
  /\ UNCHANGED <<now, blocks, errors, calls, history>>

\* A benchmark or a capability probe of one model.
Bench(m) ==
  /\ prober.phase = "idle"
  /\ prober' = [NoProbe EXCEPT !.phase = "bench", !.model = m, !.started = now]
  /\ UNCHANGED <<now, blocks, errors, calls, history>>

\* It states a latency, not a start: waiting for the state lock moves the
\* start that is computed from it.
BenchSucceeds(started) ==
  /\ prober.phase = "bench"
  /\ started \in prober.started..now
  /\ Success(prober.model, started, "probe")
  /\ prober' = NoProbe
  /\ UNCHANGED <<now, calls, history>>

\* Only a route-blocking reason is a cooldown; any other is just noted.
BenchFails(reason, delay) ==
  /\ prober.phase = "bench"
  /\ IF reason \in RouteBlocking
     THEN Failure(prober.model, reason, delay)
     ELSE /\ modelErrors' = [modelErrors EXCEPT ![prober.model] = Note(reason)]
          /\ UNCHANGED <<blocks, providerErrors>>
  /\ held' = IF reason = "billing_or_paid" THEN held \cup {prober.model} ELSE held
  /\ prober' = NoProbe
  /\ UNCHANGED <<now, calls, lastQuotaFailure>>
-----------------------------------------------------------------------------
(***************************************************************************)
(* The admin page, a restart, time.                                        *)
(***************************************************************************)

ClearModel(m) ==
  /\ cooldowns' = [cooldowns EXCEPT ![m] = NoRow]
  /\ UNCHANGED <<now, providerCooldowns, quotaCooldowns, quarantine, errors, calls,
                 prober, history>>

ClearProvider(s) ==
  /\ providerCooldowns' = [providerCooldowns EXCEPT ![s] = NoRow]
  /\ UNCHANGED <<now, cooldowns, quotaCooldowns, quarantine, errors, calls, prober,
                 history>>

\* clear_all_cooldowns; scope "all" is the three together.
ClearAll(scope) ==
  /\ cooldowns' = IF scope \in {"all", "model"}
                  THEN [m \in Models |-> NoRow] ELSE cooldowns
  /\ providerCooldowns' = IF scope \in {"all", "provider"}
                          THEN [s \in Sources |-> NoRow] ELSE providerCooldowns
  /\ quotaCooldowns' = IF scope \in {"all", "quota"}
                       THEN [k \in Keys |-> NoQuota] ELSE quotaCooldowns
  /\ UNCHANGED <<now, quarantine, errors, calls, prober, history>>

Quarantine(m) ==
  /\ quarantine' = [quarantine EXCEPT ![m] = Note("manual")]
  /\ held' = held \cup {m}
  /\ UNCHANGED <<now, cooldowns, providerCooldowns, quotaCooldowns, errors, calls,
                 prober, lastQuotaFailure>>

Release(m) ==
  /\ Quarantined(m)
  /\ quarantine' = [quarantine EXCEPT ![m] = NoNote]
  /\ held' = held \ {m}
  /\ UNCHANGED <<now, cooldowns, providerCooldowns, quotaCooldowns, errors, calls,
                 prober, lastQuotaFailure>>

\* The process dies; the state file stays.
Restart ==
  /\ calls' = [r \in Requests |-> NoCall] /\ prober' = NoProbe
  /\ UNCHANGED <<now, blocks, errors, history>>

Tick ==
  /\ now < MaxTime
  /\ now' = now + 1
  /\ UNCHANGED <<blocks, errors, calls, prober, history>>

Init ==
  /\ now = 1
  /\ cooldowns = [m \in Models |->
                    IF m \in Legacy
                    THEN [until |-> MaxTime + 1, reason |-> "rate_limited", at |-> 0]
                    ELSE NoRow]
  /\ providerCooldowns = [s \in Sources |-> NoRow]
  /\ quotaCooldowns = [k \in Keys |-> NoQuota]
  /\ quarantine = [m \in Models |-> NoNote]
  /\ modelErrors = [m \in Models |-> NoNote]
  /\ providerErrors = [s \in Sources |-> NoNote]
  /\ calls = [r \in Requests |-> NoCall] /\ prober = NoProbe
  /\ lastQuotaFailure = [k \in Keys |-> 0] /\ held = {}

RequestStep ==
  \E r \in Requests :
    \/ Plan(r) \/ Succeeds(r) \/ EndsUnanswered(r)
    \/ \E m \in Models : Ask(r, m)
    \/ \E reason \in Reasons, delay \in Delays : Fails(r, reason, delay)

ProberStep ==
  \/ \E k \in Keys, m \in Models, force \in BOOLEAN : PickProbe(k, m, force)
  \/ Reserve \/ ProbePasses \/ ProbePoolLimited \/ ProbeSkipped
  \/ \E delay \in Delays : CoolPoolLimited(delay)
  \/ \E reason \in Reasons, delay, guard \in Delays : ProbeFails(reason, delay, guard)
  \/ \E m \in Models : Bench(m)
  \/ \E started \in 0..now : BenchSucceeds(started)
  \/ \E reason \in Reasons, delay \in Delays : BenchFails(reason, delay)

AdminStep ==
  \/ \E m \in Models : ClearModel(m) \/ Quarantine(m) \/ Release(m)
  \/ \E s \in Sources : ClearProvider(s)
  \/ \E scope \in {"all", "model", "provider", "quota"} : ClearAll(scope)

Next == RequestStep \/ ProberStep \/ AdminStep \/ Restart \/ Tick

Spec == Init /\ [][Next]_vars
-----------------------------------------------------------------------------
(***************************************************************************)
(* Properties.                                                             *)
(***************************************************************************)

Block(reasons) == [until : Nat, reason : reasons, at : 0..now]
NoteOf(reasons) == [reason : reasons, at : 0..now]

QuotaRows == [until : Nat, next : Nat, source : Sources \cup {"none"}, at : 0..now]

BlocksOK ==
  /\ cooldowns \in [Models -> Block(ModelScoped \cup ProviderScoped
                                      \cup {"billing_or_paid", "none"})]
  /\ \A m \in Models : cooldowns[m].reason \in ProviderScoped =>
                         m \in Legacy /\ cooldowns[m].at = 0
  /\ providerCooldowns \in [Sources -> Block(ProviderScoped \cup {"none"})]
  /\ quotaCooldowns \in [Keys -> QuotaRows]
  /\ quarantine \in [Models -> NoteOf(Quarantining \cup {"manual", "none"})]
ErrorsOK ==
  /\ modelErrors \in [Models -> NoteOf(AllReasons \cup {"none"})]
  /\ providerErrors \in [Sources -> NoteOf(ProviderErrorReasons \cup {"none"})]
CallsOK ==
  /\ calls \in [Requests -> [phase : {"idle", "planned", "asking"},
                             pool : SUBSET Models, model : Models \cup {NoModel},
                             started : 0..now]]
  /\ \A r \in Requests : calls[r].phase = "asking" => calls[r].model \in Models
ProberOK ==
  /\ prober \in [phase : {"idle", "picked", "probing", "limited", "bench"},
                 key : Keys \cup {"none"}, model : Models \cup {NoModel},
                 row : QuotaRows, started : 0..now]
  /\ prober.phase # "idle" => prober.model \in Models
  /\ prober.phase \in {"picked", "probing", "limited"} => prober.key \in Keys
HistoryOK == lastQuotaFailure \in [Keys -> 0..now] /\ held \in SUBSET Models

\* Every table holds rows of its own kind, stamped in the past; only a row an
\* older version left gives a model a provider's reason.
TypeOK ==
  now \in Nat /\ BlocksOK /\ ErrorsOK /\ CallsOK /\ ProberOK /\ HistoryOK

\* One incident, one guard: a model row with a provider's reason, which would
\* outlive the provider's own row, is gone once any provider or quota row is
\* written (set_cooldown_in_state prunes first).
OneBlockingScope ==
  \A m \in Models : cooldowns[m].reason \in ProviderScoped =>
    /\ \A s \in Sources : providerCooldowns[s] = NoRow
    /\ \A k \in Keys : quotaCooldowns[k] = NoQuota

\* A success never erases what was written after it left: every row, note and
\* quarantine younger than the start of the call is still there.
SuccessErasesNothingNewer ==
  [][\A r \in Requests : Succeeds(r) =>
       LET started == calls[r].started IN
       /\ \A m \in Models :
            /\ cooldowns[m].at > started => cooldowns'[m] = cooldowns[m]
            /\ quarantine[m].at > started => quarantine'[m] = quarantine[m]
            /\ modelErrors[m].at > started => modelErrors'[m] = modelErrors[m]
       /\ \A s \in Sources :
            /\ providerCooldowns[s].at > started
                 => providerCooldowns'[s] = providerCooldowns[s]
            /\ providerErrors[s].at > started => providerErrors'[s] = providerErrors[s]
       /\ \A k \in Keys : quotaCooldowns[k].at > started
                            => quotaCooldowns'[k] = quotaCooldowns[k]]_vars

\* The self-heal leaves nothing stuck: a request that was answered by m makes
\* m usable again at once, unless something that speaks of m was written after
\* the call left or its quarantine needs a release.
SuccessRestores ==
  [][\A r \in Requests, m \in Models :
       LET started == calls[r].started IN
       (/\ Succeeds(r) /\ m = calls[r].model
        /\ quarantine[m].reason \in {"none", "model_not_found"}
        /\ quarantine[m].at <= started
        /\ cooldowns[m].at <= started
        /\ providerCooldowns[Source[m]].at <= started
        /\ \A k \in Keys : m \in Covers[k] => quotaCooldowns[k].at <= started)
       => Usable(m)']_vars

\* A block a failure earned ends before its time only by an answered request
\* of a model it speaks for that left after it was written, by hand, or by a
\* younger row in its place: no probe, benchmark or restart frees a route.
Earned(models, row) ==
  \E r \in Requests :
    Succeeds(r) /\ calls[r].model \in models /\ row.at <= calls[r].started
BlocksAreEarned ==
  \A m \in Models :
    LET s == Source[m]
        ends(old, new) == old.until > now /\ new.until <= now
    IN  /\ (ends(cooldowns[m], cooldowns'[m]) /\ m \notin Legacy)
             => (Earned({m}, cooldowns[m]) \/ AdminStep)
        /\ ends(providerCooldowns[s], providerCooldowns'[s])
             => \/ Earned({k \in Models : Source[k] = s}, providerCooldowns[s])
                \/ AdminStep
RouteBlocksAreEarnedBack == [][BlocksAreEarned]_vars

\* "a success only disproves what was already true when it left": the quota
\* row a success lifts is not that of a failure that came after its start.
LaterQuotaFailureStands ==
  [][\A r \in Requests, k \in Keys :
       (/\ Succeeds(r)
        /\ quotaCooldowns[k] # NoQuota /\ quotaCooldowns'[k] = NoQuota)
       => lastQuotaFailure[k] <= calls[r].started]_vars

\* "A later concurrent failure is not disproved by an older in-flight success
\* and its diagnostic must survive alongside the cooldown": also when the
\* success is that of a quota probe.
LaterDiagnosticSurvives ==
  [][ProbePasses => \A m \in Models :
       modelErrors[m].at > prober.started => modelErrors'[m] = modelErrors[m]]_vars

\* "Billing and manual quarantines require explicit resolution and stay
\* untouched": a model under one stays out until it is released.
HeldUntilReleased == \A m \in held : Quarantined(m)
=============================================================================
