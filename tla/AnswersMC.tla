------------------------------ MODULE AnswersMC ------------------------------
(***************************************************************************)
(* How an answer is relayed, judged, replayed and logged: StreamRelay,     *)
(* Failures, ReasoningReplay and RequestLog in one run.  A behaviour is of *)
(* one of them, which `part` names, and the others stand still in one      *)
(* state.                                                                  *)
(***************************************************************************)
EXTENDS StreamRelay, Failures, ReasoningReplay, RequestLog, TLC

CONSTANTS q1, q2

VARIABLE part

------------------------------------------------------------------------------
(* The rejections: three doors, and up to two phrases of the provider's.   *)

CodePairs ==
  { <<"none", "none">>, <<"invalid_request_error", "invalid_request_error">>,
    <<"invalid_api_key", "invalid_request_error">>, <<"insufficient_quota", "insufficient_quota">>,
    <<"none", "overloaded_error">>, <<"credit_limit_exceeded", "none">>,
    <<"credit_limit_exceeded", "invalid_request_error">>, <<"free_quota_exhausted", "none">>,
    <<"3505", "backend_out_of_capacity">>, <<"model_not_found", "none">> }

Phrases == {"payment", "token", "quota", "zero", "pool", "account", "ours", "entitle", "wide", "gone",
            "tags", "contract", "too_long", "forbids"}
Sayings == {{}} \cup {{a, b} : a, b \in Phrases}

Rejected(door, statuses, numbers, pairs) ==
  [door : {door}, status : statuses, number : numbers, pair : pairs, said : Sayings,
   echo : SUBSET {"token", "quota"}, quotaFree : BOOLEAN]

\* A schema rejection that repeats the rejected input is a plain HTTP 400 or 422 with no error
\* object; only there are whole phrases of the caller's repeated.
Plausible(r) ==
  /\ "forbids" \in r.said => r.door = "http" /\ r.status = 400 /\ r.pair = <<"none", "none">>
  /\ "quota" \in r.echo => "forbids" \in r.said

MCRejections ==
  { [door |-> r.door, status |-> r.status, number |-> r.number, code |-> r.pair[1], type |-> r.pair[2],
     said |-> r.said, echo |-> r.echo, quotaFree |-> r.quotaFree] :
    r \in { r \in UNION { Rejected("http", {400, 402, 403, 404, 413, 429, 502}, {0}, CodePairs),
                          Rejected("wrapped", {200}, {0, 429, 500}, CodePairs),
                          Rejected("streamed", {200}, {0, 429}, CodePairs) } : Plausible(r) } }

------------------------------------------------------------------------------
MCInit ==
    /\ part \in {"stream", "replay", "verdicts", "log"}
    /\ StreamInit /\ ReplayInit /\ FailuresInit /\ RequestLogInit
    /\ setting.budget \/ setting.form = "json" => setting.policy # "first_complete_event"
    /\ part # "stream" =>
         setting = [surface |-> "openai", form |-> "sse", policy |-> "immediate", budget |-> FALSE]

MCNext ==
    \/ part = "stream" /\ StreamNext
       /\ UNCHANGED <<part, replayVars, failuresVars, requestLogVars>>
    \/ part = "replay" /\ ReplayNext
       /\ UNCHANGED <<part, streamVars, failuresVars, requestLogVars>>
    \/ part = "verdicts" /\ FailuresNext
       /\ UNCHANGED <<part, streamVars, replayVars, requestLogVars>>
    \/ part = "log" /\ RequestLogNext
       /\ UNCHANGED <<part, streamVars, replayVars, failuresVars>>

MCSpec == MCInit /\ [][MCNext]_<<part, streamVars, replayVars, failuresVars, requestLogVars>>

Threads == Permutations({q1, q2})
==============================================================================
