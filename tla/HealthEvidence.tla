--------------------------- MODULE HealthEvidence ---------------------------
(***************************************************************************)
(* What a health run says of one live case (synthetic_health.py), and the  *)
(* two things outside it that this rests on: the service's gate for the    *)
(* header that names the case (router.py) and the route log.  The harness  *)
(* looks at the catalog again, decides whether the case may be sent, sends *)
(* it, and correlates: by the request id of the answer, or, when its client *)
(* gave up, by the name of the case.  Meanwhile the service may still be   *)
(* at work on a request nobody waits for, and the catalog is republished.  *)
(*                                                                         *)
(* The harness is the only client.  A session is one holding of the run    *)
(* lock, the first run or a later one; the service outlives it.  A catalog *)
(* is the set of its free models, so its identity is itself.               *)
(***************************************************************************)
EXTENDS Naturals, Sequences, FiniteSets, SequencesExt

CONSTANTS
    Plan,           \* the live cases, in order
    Target,         \* case |-> the model of a direct case, or NoModel for a profile
    Control,        \* case |-> the case whose outcome decides whether it is sent
    NoModel,
    Catalogs,       \* the catalogs published, in order
    MaxSessions     \* bound of the sessions

\* validate_unique_case_ids: a case has a name of its own, and none is called "none".
ASSUME HealthPlan ==
    Plan \in Seq(DOMAIN Target) /\ IsInjective(Plan) /\ "none" \notin DOMAIN Target

VARIABLES
    session,        \* [n, held]: sessions there were, and whether the lock is held
    published,      \* the catalog the service routes from, an index of Catalogs
    view,           \* what the harness holds: [initial, active, chain]
    at,             \* cases of the plan decided
    outcomes,       \* case |-> status, of the cases decided
    client,         \* the exchange in hand: [stage, id, before]
    requests,       \* request id |-> what the service knows of it
    log,            \* the route log: records [id, name, models, ok]
    writes,         \* requests whose failure was written to the runtime state
    gate,           \* [seen, active]: _SYNTHETIC_CASE_IDS_SEEN, _SYNTHETIC_RUN_WAS_ACTIVE
    verdict         \* what was last said of a case

evidenceVars ==
    <<session, published, view, at, outcomes, client, requests, log, writes, gate, verdict>>

NoName == "none"
NoExchange == [stage |-> "none", id |-> 0, before |-> {}]
NoVerdict ==
    [id |-> 0, row |-> 0, late |-> FALSE, breach |-> FALSE, charged |-> FALSE, foreign |-> FALSE]
Here == Plan[at + 1]

EvidenceInit ==
    /\ session = [n |-> 0, held |-> FALSE]
    /\ published = 1
    /\ view = [initial |-> 1, active |-> 1, chain |-> <<>>]
    /\ at = 0
    /\ outcomes = <<>>
    /\ client = NoExchange
    /\ requests = <<>>
    /\ log = {}
    /\ writes = {}
    /\ gate = [seen |-> {}, active |-> FALSE]
    /\ verdict = NoVerdict

-----------------------------------------------------------------------------
\* Sessions and catalogs

\* A run takes the lock with a corpus of its own, or goes on with one that died.
StartSession ==
    /\ ~session.held /\ session.n < MaxSessions
    /\ session' = [n |-> session.n + 1, held |-> TRUE]
    /\ \/ at' = 0 /\ outcomes' = <<>>
       \/ at \in 1..(Len(Plan) - 1) /\ UNCHANGED <<at, outcomes>>
    /\ view' = [initial |-> published, active |-> published, chain |-> <<>>]
    /\ UNCHANGED <<published, client, requests, log, writes, gate, verdict>>

\* The run is over, or its process dies with an exchange in hand.
EndSession ==
    /\ session.held
    /\ session' = [session EXCEPT !.held = FALSE]
    /\ client' = NoExchange
    /\ UNCHANGED <<published, view, at, outcomes, requests, log, writes, gate, verdict>>

Publish ==
    /\ published < Len(Catalogs)
    /\ published' = published + 1
    /\ UNCHANGED <<session, view, at, outcomes, client, requests, log, writes, gate, verdict>>

-----------------------------------------------------------------------------
\* The harness before it sends

\* refresh_active_view: a new document of the same identity is no transition.
\* The variant records the change and keeps comparing with the old one.
RecordsOnly(v) ==
    IF Catalogs[published] = Catalogs[v.active] THEN v
    ELSE [v EXCEPT !.chain = Append(@, <<v.active, published>>)]
Refreshed(v) ==
    IF Catalogs[published] = Catalogs[v.active] THEN v
    ELSE [v EXCEPT !.chain = Append(@, <<v.active, published>>), !.active = published]

\* A case that is not sent: its model has left the catalog (execution_eligibility),
\* or its control did not pass (dialect_control_verdict, post_sweep_skip_reason).
Left(c) == Target[c] # NoModel /\ Target[c] \notin Catalogs[view'.active]
Uncontrolled(c) ==
    /\ Control[c] \in DOMAIN outcomes
    /\ outcomes[Control[c]] \notin {"pass", "degraded"}

Decide(c, status) ==
    /\ outcomes' = [x \in DOMAIN outcomes \cup {c} |-> IF x = c THEN status ELSE outcomes[x]]
    /\ at' = at + 1
    /\ client' = NoExchange

Look ==
    /\ session.held /\ at < Len(Plan) /\ client.stage = "none"
    /\ view' = Refreshed(view)
    /\ IF Left(Here) \/ Uncontrolled(Here)
       THEN Decide(Here, "skipped") /\ verdict' = NoVerdict
       ELSE /\ client' = [client EXCEPT !.stage = "ready"]
            /\ UNCHANGED <<at, outcomes, verdict>>
    /\ UNCHANGED <<session, published, requests, log, writes, gate>>

\* The state is read, and the request leaves with the name of its case.
Send ==
    /\ client.stage = "ready"
    /\ client' = [stage |-> "sent", id |-> Len(requests) + 1, before |-> writes]
    /\ requests' = Append(requests, [case |-> Here, stage |-> "sent", name |-> NoName])
    /\ UNCHANGED <<session, published, view, at, outcomes, log, writes, gate, verdict>>

-----------------------------------------------------------------------------
\* The service

\* accept_synthetic_case_id: the lock is probed first, the set of names seen is
\* looked at afterwards, and another request may pass between the two.
Probe(i) ==
    /\ requests[i].stage = "sent"
    /\ requests' = [requests EXCEPT ![i].stage = IF session.held THEN "active" ELSE "inactive"]
    /\ UNCHANGED <<session, published, view, at, outcomes, client, log, writes, gate, verdict>>

Admit(i) ==
    LET c == requests[i].case
        seen == IF gate.active THEN gate.seen ELSE {}
        accepted == requests[i].stage = "active" /\ c \notin seen
    IN /\ requests[i].stage \in {"active", "inactive"}
       /\ gate' = IF requests[i].stage = "inactive" THEN [seen |-> {}, active |-> FALSE]
                  ELSE [seen |-> seen \cup {c}, active |-> TRUE]
       /\ requests' = [requests EXCEPT ![i].stage = "routing",
                                       ![i].name = IF accepted THEN c ELSE NoName]
       /\ UNCHANGED <<session, published, view, at, outcomes, client, log, writes, verdict>>

\* The request ends: it tried models of the catalog of now, the one it names or
\* any for a profile; a failure is written to the state, and its row to the log.
Reachable(c) ==
    IF Target[c] = NoModel THEN Catalogs[published]
    ELSE Catalogs[published] \cap {Target[c]}
Finish(i) ==
    /\ requests[i].stage = "routing"
    /\ \E m \in Reachable(requests[i].case) \cup {NoModel}, ok \in BOOLEAN :
         LET models == {m} \ {NoModel}
         IN /\ ok => models # {}
            /\ log' = log \cup {[id |-> i, name |-> requests[i].name, models |-> models,
                                 ok |-> ok]}
            /\ writes' = IF ~ok /\ models # {} THEN writes \cup {i} ELSE writes
            /\ requests' = [requests EXCEPT ![i].stage = "done"]
    /\ UNCHANGED <<session, published, view, at, outcomes, client, gate, verdict>>

-----------------------------------------------------------------------------
\* The harness after the exchange

RowsWith(i) == {row \in log : row.id = i}
RowsNamed(c) == {row \in log : row.name = c}

\* A row that is not alone is no route (route_axes, execute_live_case).
NoRoute == [id |-> 0, name |-> NoName, models |-> {}, ok |-> FALSE]
Route(rows) == IF Cardinality(rows) = 1 THEN CHOOSE row \in rows : TRUE ELSE NoRoute

\* safety_axis looks every attempt up in the catalog the session started with.
Breach(route) == ~(route.models \subseteq Catalogs[view.initial])

\* state_policy_verdict: a failed case that saw the state change for another
\* request is charged with it, unless its correlation had to wait.
Charged(route, late) ==
    /\ route # NoRoute /\ ~route.ok /\ route.models # {}
    /\ (writes \ client.before) \ {client.id} # {}
    /\ ~late

\* semantic_verdict: an answer may still not be what the case asked for.
Semantic(answered) == IF answered THEN {"pass", "fail"} ELSE {"fail"}

\* aggregate_case_status, from the axes that can differ here.
Status(route, late, semantic) ==
    IF Breach(route) THEN "safety_breach"
    ELSE IF late \/ semantic = "fail" THEN "fail"
    ELSE IF Charged(route, late) \/ route = NoRoute THEN "degraded"
    ELSE "pass"

Judge(rows, late, answered) ==
    LET route == Route(rows)
    IN /\ \E semantic \in Semantic(answered) : Decide(Here, Status(route, late, semantic))
       /\ verdict' = [id |-> client.id, row |-> route.id, late |-> late /\ route # NoRoute,
                      breach |-> Breach(route), charged |-> Charged(route, late),
                      foreign |-> route # NoRoute /\ route.id # client.id]
       /\ UNCHANGED <<session, published, view, requests, log, writes, gate>>

\* The answer came, and its request id; the row is there or is not in time.
Answered ==
    /\ client.stage = "sent" /\ requests[client.id].stage = "done"
    /\ \E rows \in {RowsWith(client.id), {}} :
         Judge(rows, FALSE, \E row \in RowsWith(client.id) : row.ok)

GiveUp ==
    /\ client.stage = "sent"
    /\ client' = [client EXCEPT !.stage = "waiting"]
    /\ UNCHANGED <<session, published, view, at, outcomes, requests, log, writes, gate, verdict>>

\* The wait ends with the first row that bears the name, or when the deadline of
\* the request has passed.
Late ==
    /\ client.stage = "waiting"
    /\ RowsNamed(Here) # {} \/ requests[client.id].stage = "done"
    /\ Judge(RowsNamed(Here), TRUE, FALSE)

EvidenceNext ==
    \/ StartSession \/ EndSession \/ Publish
    \/ Look \/ Send \/ Answered \/ GiveUp \/ Late
    \/ \E i \in DOMAIN requests : Probe(i) \/ Admit(i) \/ Finish(i)

EvidenceSpec == EvidenceInit /\ [][EvidenceNext]_evidenceVars

-----------------------------------------------------------------------------
\* What the evidence is worth

\* The transitions a session records lead from the catalog it started with to
\* the one it holds, each from where the last one ended ("both sides of every
\* catalog transition are now reconstructable", _finalize_run).
TransitionsLink ==
    LET c == view.chain
    IN /\ \A k \in DOMAIN c :
            c[k][1] = IF k = 1 THEN view.initial ELSE c[k - 1][2]
       /\ view.active = IF c = <<>> THEN view.initial ELSE Last(c)[2]

\* In the first session of a service no case is charged with what the request of
\* an earlier case wrote: its own correlation waited until that one was over
\* (state_policy_verdict).
ChargesItsOwn == session.n = 1 => ~verdict.charged

\* The row a client that gave up is told about is the one its request left
\* ("Exactly one late row means a late completion", execute_live_case).
LateRowIsOwn == verdict.late => ~verdict.foreign

\* A catalog republished in mid-run is a surface change of the session, and not
\* a breach: every attempt is on a model that was free when it was routed
\* (the comment on the active selection view in _run_cases).
RefreshIsNoBreach == ~verdict.breach

\* What a case is charged with is its own, and the catalog transitions of a session link
\* (synthetic_health.py, state_policy_verdict, _run_cases).
EvidenceIsOwn == TransitionsLink /\ ChargesItsOwn
=============================================================================
