----------------------------- MODULE RequestPlan -----------------------------
(***************************************************************************)
(* What a chat request is planned with, and what its attempts teach the    *)
(* requests after it (chat_completion.py, cooldowns.py, router.py).        *)
(*                                                                         *)
(* ChatCompletionRouter.start refuses a body no provider takes and a       *)
(* request nobody is left for; plan_attempts compresses the body and drops *)
(* the candidates that cannot take it: a schema feature their provider     *)
(* declares unsupported, a known context too small, a token cap learned    *)
(* from a 413.  The attempts write what the plans and the sends after them *)
(* read: the cap a provider named, the sampling knob a model rejected,     *)
(* each trusted for a while.                                               *)
(*                                                                         *)
(* Time is counted in units of hours: a call fits into one.  In what order *)
(* a plan's candidates are asked is AttemptLoop's matter; here it is any.  *)
(***************************************************************************)
EXTENDS Naturals, FiniteSets

CONSTANTS
    Requests,     \* the handler threads
    Models,       \* the candidates of a profile
    Context,      \* Models -> known context window, 0 when unknown
    Strict,       \* the models whose provider declares the schema feature unsupported
    Dense,        \* the models that count inline media as text
    Bodies,       \* the bodies callers send
    Offers,       \* the candidates a selection may leave
    Caps,         \* the per-minute token limits a provider may set
    Safety,       \* config context_estimate_safety_factor
    MaxAttempts,  \* config max_attempts_per_request
    CapTtl,       \* REQUEST_TOKEN_LIMIT_TTL_SECONDS
    KnobTtl,      \* config unsupported_parameter_ttl_seconds
    MaxTime,      \* bound: units of time
    MaxRequests,  \* bound: requests
    MaxChanges    \* bound: times a provider changes its mind

VARIABLES
    now,
    granted,      \* model -> the limit its provider has for this account now
    picky,        \* the models that reject the sampling knob now
    request_token_limits,    \* model -> [limit, at], as learned
    unsupported_parameters,  \* model -> when it was learned to reject the knob
    req,          \* thread -> the request it is at
    begun,        \* requests begun
    changes,      \* model -> changes of its provider's mind
    lapses,       \* model -> times a learned cap ran out
    last,         \* ghost: model -> limit -> when the provider last had it
    rejected,     \* ghost: model -> when it last rejected the knob
    wasted        \* ghost: model -> 413s to a request its estimate says is too large

learnt == <<request_token_limits, unsupported_parameters>>
provider == <<granted, picky, changes>>
ghosts == <<last, rejected, wasted, lapses>>
planVars == <<now, learnt, provider, req, begun, ghosts>>

Never == MaxTime + 1
NoCap == [limit |-> 0, at |-> 0]
NoBody == [named |-> TRUE, feature |-> FALSE, text |-> 0, media |-> 0, completion |-> 0, knob |-> FALSE]
Idle == [phase |-> "idle", body |-> NoBody, offer |-> {}, known |-> [m \in Models |-> 0],
         start |-> 0, pool |-> {}, model |-> {}, knob |-> FALSE, tries |-> 0, heard |-> 0]

PlanInit ==
    /\ now = 0
    /\ granted \in [Models -> Caps] /\ picky \in SUBSET Models
    /\ request_token_limits = [m \in Models |-> NoCap]
    /\ unsupported_parameters = [m \in Models |-> Never]
    /\ req = [r \in Requests |-> Idle]
    /\ begun = 0
    /\ changes = [m \in Models |-> 0] /\ lapses = [m \in Models |-> 0]
    /\ last = [m \in Models |-> [l \in Caps |-> IF l = granted[m] THEN 0 ELSE Never]]
    /\ rejected = [m \in Models |-> Never] /\ wasted = [m \in Models |-> 0]

------------------------------------------------------------------------------
(* The size of a request.  A unit of inline media is one token decoded and *)
(* three as text: providers differ in which they count.                    *)

\* estimate_request_tokens_for_exclusion: the lower estimate, of what every provider counts.
Low(b) == b.text + b.media
\* estimate_request_tokens: the upper one.
High(b) == b.text + 3 * b.media

\* malformed_tool_call_detail: a tool call without a name, which no provider takes.
Malformed(b) == ~b.named

\* detect_tool_schema_features: some tool's schema has the feature.
HasFeature(b) == b.feature

\* The tokens a provider counts.
Counted(m, b) == IF m \in Dense THEN High(b) ELSE Low(b)

Fits(m, tokens) == Context[m] = 0 \/ Context[m] >= tokens

\* learned_request_token_limit: a cap is trusted for CapTtl, its last moment included.
InForceAlways(row, at) == row.limit
InForce(row, at) == IF row.limit # 0 /\ at - row.at <= CapTtl THEN row.limit ELSE 0

\* exclude_incompatible_candidates, exclude_undersized_candidates and
\* exclude_over_token_limit_candidates, one after the other.
Incompatible(b, S) == {m \in S : HasFeature(b) /\ m \in Strict}
Undersized(b, S) == {m \in S : ~Fits(m, Low(b) * Safety + b.completion)}
OverLimit(b, S, known) == {m \in S : known[m] # 0 /\ Low(b) > known[m]}

Eligible(b, S, known) ==
    S \ (Incompatible(b, S) \cup Undersized(b, S) \cup OverLimit(b, S, known))

\* prefer_context_headroom: the candidates tried only after the others.
Tight(b, S) == {m \in S : ~Fits(m, 2 * High(b) + b.completion)}

\* prepare_compression_route_body: the body, or the body with a block of text made smaller.
Compressed(b) == {b} \cup {[b EXCEPT !.text = t] : t \in 1..b.text}

------------------------------------------------------------------------------
\* _refusal_response: an answer of Ficelle's own (malformed_tool_call, no_available_model, what
\* excluded the candidates), and the request is over.
Refuse(r) == req' = [req EXCEPT ![r] = Idle]

\* ChatCompletionRouter and start: the learned caps are read once, before the catalog is.
Start(r) ==
    /\ req[r].phase = "idle" /\ begun < MaxRequests
    /\ begun' = begun + 1
    /\ \E b \in Bodies, S \in Offers :
         \/ Malformed(b) /\ Refuse(r)
         \/ ~Malformed(b) /\ S = {} /\ Refuse(r)
         \/ /\ ~Malformed(b) /\ S # {}
            /\ req' = [req EXCEPT ![r] = [Idle EXCEPT
                  !.phase = "plan", !.body = b, !.offer = S, !.start = now,
                  !.known = [m \in Models |-> InForce(request_token_limits[m], now)]]]
    /\ UNCHANGED <<now, learnt, provider, ghosts>>

\* plan_attempts.  A plan with nobody to ask answers from its exclusions.
Plan(r) ==
    /\ req[r].phase = "plan"
    /\ \E b \in Compressed(req[r].body) :
         LET pool == Eligible(b, req[r].offer, req[r].known) IN
         IF pool = {}
         THEN Refuse(r)
         ELSE req' = [req EXCEPT ![r].phase = "ask", ![r].body = b, ![r].pool = pool]
    /\ UNCHANGED <<now, learnt, provider, begun, ghosts>>

\* The window is spent, or there is nobody left: the request has failed.
Onward(r, q) ==
    IF q.pool = {} \/ q.tries >= MaxAttempts THEN Idle
    ELSE [q EXCEPT !.phase = "ask", !.model = {}, !.heard = 0]

\* unsupported_parameters_for_model: a rejection is trusted for less than KnobTtl.
Rejects(m) == unsupported_parameters[m] # Never /\ now - unsupported_parameters[m] < KnobTtl

\* The next candidate, with the knobs it is known to reject removed before the first send.
Ask(r, m) ==
    /\ req[r].phase = "ask" /\ m \in req[r].pool
    /\ Tight(req[r].body, req[r].pool) = req[r].pool \/ m \notin Tight(req[r].body, req[r].pool)
    /\ req' = [req EXCEPT ![r].phase = "sent", ![r].model = {m}, ![r].pool = @ \ {m},
                          ![r].tries = @ + 1, ![r].knob = req[r].body.knob /\ ~Rejects(m)]
    /\ UNCHANGED <<now, learnt, provider, begun, ghosts>>

\* What the provider makes of the body it is sent.
Answer(r, m) ==
    LET q == req[r] IN
    /\ q.phase = "sent" /\ q.model = {m}
    /\ \/ /\ q.knob /\ m \in picky
          /\ req' = [req EXCEPT ![r].phase = "knob"]
          /\ rejected' = [rejected EXCEPT ![m] = now]
          /\ UNCHANGED wasted
       \/ /\ ~(q.knob /\ m \in picky) /\ Counted(m, q.body) > granted[m]
          /\ req' = [req EXCEPT ![r].phase = "cap", ![r].heard = granted[m]]
          /\ wasted' = [wasted EXCEPT ![m] = @ + IF Low(q.body) > granted[m] THEN 1 ELSE 0]
          /\ UNCHANGED rejected
       \/ /\ ~(q.knob /\ m \in picky) /\ Counted(m, q.body) <= granted[m]
          /\ \/ req' = [req EXCEPT ![r] = Idle]                \* answered
             \/ req' = [req EXCEPT ![r] = Onward(r, q)]    \* another failure, or a spent window
          /\ UNCHANGED <<rejected, wasted>>
    /\ UNCHANGED <<now, learnt, provider, begun, last, lapses>>

\* record_request_token_limit_in_state, under the state's lock.
LearnCap(r, m) ==
    /\ req[r].phase = "cap" /\ req[r].model = {m}
    /\ request_token_limits' = [request_token_limits EXCEPT ![m] = [limit |-> req[r].heard, at |-> now]]
    /\ req' = [req EXCEPT ![r] = Onward(r, req[r])]
    /\ UNCHANGED <<now, unsupported_parameters, provider, begun, ghosts>>

\* learn_unsupported_parameters, which may fail to save; the same model is asked again without the
\* knob either way.
LearnKnob(r, m) ==
    /\ req[r].phase = "knob" /\ req[r].model = {m}
    /\ unsupported_parameters' \in
         {unsupported_parameters, [unsupported_parameters EXCEPT ![m] = now]}
    /\ req' = [req EXCEPT ![r].phase = "sent", ![r].knob = FALSE]
    /\ UNCHANGED <<now, request_token_limits, provider, begun, ghosts>>

------------------------------------------------------------------------------
(* The world.                                                              *)

\* A provider changes the limit of the account, or what it accepts.
Change(m) ==
    /\ changes[m] < MaxChanges
    /\ changes' = [changes EXCEPT ![m] = @ + 1]
    /\ \/ \E l \in Caps \ {granted[m]} :
            /\ granted' = [granted EXCEPT ![m] = l]
            /\ last' = [last EXCEPT ![m][l] = now]
            /\ UNCHANGED picky
       \/ /\ picky' = IF m \in picky THEN picky \ {m} ELSE picky \cup {m}
          /\ UNCHANGED <<granted, last>>
    /\ UNCHANGED <<now, learnt, req, begun, rejected, wasted, lapses>>

\* What was heard is saved before an hour passes.
Tick ==
    /\ now < MaxTime /\ \A r \in Requests : req[r].phase \notin {"cap", "knob"}
    /\ now' = now + 1
    /\ last' = [m \in Models |-> [last[m] EXCEPT ![granted[m]] = now']]
    /\ lapses' = [m \in Models |-> lapses[m] +
          IF InForce(request_token_limits[m], now) # InForce(request_token_limits[m], now') THEN 1 ELSE 0]
    /\ UNCHANGED <<learnt, provider, req, begun, rejected, wasted>>

PlanNext ==
    \/ \E r \in Requests : Start(r) \/ Plan(r)
    \/ \E r \in Requests, m \in Models : Ask(r, m) \/ Answer(r, m) \/ LearnCap(r, m) \/ LearnKnob(r, m)
    \/ \E m \in Models : Change(m)
    \/ Tick

PlanSpec == PlanInit /\ [][PlanNext]_planVars

------------------------------------------------------------------------------
\* A model is kept from a request for its size only while the word of its provider stands: within
\* CapTtl before the request began the provider had the cap that was held against it, and the body
\* exceeds that.  A knob is removed for a model only if it rejected it less than KnobTtl ago.
KeptOutForCause ==
    \A r \in Requests : LET q == req[r] IN
        /\ q.phase \in {"plan", "ask"} =>
             \A m \in q.offer : m \in OverLimit(q.body, {m}, q.known) =>
                last[m][q.known[m]] # Never /\ q.start <= last[m][q.known[m]] + CapTtl
        /\ \A m \in Models : Rejects(m) => rejected[m] # Never /\ now < rejected[m] + KnobTtl

\* A request that is known to be too large costs a model's provider a call only until it said so:
\* one of each thread when nothing is known and when what was learned lapses, and after a change of
\* the provider's mind one of each thread for every answer from before the change that is saved
\* after it (record_request_token_limit_in_state, learned_request_token_limit).
WasteIsBounded ==
    LET N == Cardinality(Requests) IN
    \A m \in Models : wasted[m] <= N * (1 + lapses[m] + N * changes[m])
==============================================================================
