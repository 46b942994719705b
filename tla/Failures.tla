------------------------------ MODULE Failures ------------------------------
(***************************************************************************)
(* What a provider's rejection means, and what the caller is told when     *)
(* every attempt failed: failures.py, and the doors of chat_completion.py  *)
(* and router.py by which a rejection reaches it.                          *)
(*                                                                         *)
(* A rejection comes through one of three doors: an HTTP status ("http"),  *)
(* an error object inside an HTTP 200 body ("wrapped"), or the first event *)
(* of a 200 stream ("streamed").  Its text is the set of the phrases the   *)
(* classifier looks for: those the provider said, and those it echoes from *)
(* the caller's own request.  Identifiers the caller chose never match     *)
(* (false_free_pattern), so only a bare word ("token") or, in a structured *)
(* schema rejection that repeats the rejected input, whole phrases can be  *)
(* echoed.                                                                 *)
(***************************************************************************)
EXTENDS Naturals, Sequences

CONSTANTS
  Rejections,    \* the rejections a provider may answer with
  MaxErrors      \* bound: attempts of one request

VARIABLES
  heard,         \* the last rejection classified, or Silence
  errors,        \* the error rows of the request, in order
  ending,        \* the ending the loop decided itself, or "none"
  answer         \* what the caller and the route log are told, or Unanswered

failuresVars == <<heard, errors, ending, answer>>

NoStatus == 0
Silence == [door |-> "none"]                  \* nothing was answered
Unsent == [door |-> "unsent"]                 \* nothing was even sent
Heard == heard.door \in {"http", "wrapped", "streamed"}
Unanswered == [status |-> 0]

-----------------------------------------------------------------------------
(* The provider's own words.                                               *)

\* ERROR_CODE_STATUSES: the canonical names of an error and their statuses.
CanonicalStatus ==
  [invalid_request_error |-> 400, invalid_api_key |-> 401, model_not_found |-> 404,
   insufficient_quota |-> 429, overloaded_error |-> 503]

PaymentCodes == {"credit_limit_exceeded"}     \* a code with a payment word in it
CapacityPair == <<"3505", "backend_out_of_capacity">>

NamesIn(codes) == {codes[i] : i \in DOMAIN codes} \ {"none"}

\* A canonical name wins over a payment word, across all the fields, the first one first.
status_for_error_codes(codes) ==
  LET canonical == {i \in DOMAIN codes : codes[i] \in DOMAIN CanonicalStatus}
      first     == CHOOSE i \in canonical : \A j \in canonical : i <= j
  IN  IF canonical # {} THEN CanonicalStatus[codes[first]]
      ELSE IF NamesIn(codes) \cap PaymentCodes # {} THEN 402
      ELSE NoStatus

RejectionStatuses == {400, 422}               \* REQUEST_REJECTION_STATUSES

\* FALSE_FREE_TEXT_MARKERS, and the narrower set for a text about the caller's request.
FalseFree == {"payment", "quota", "token"}
PaymentDemand == FalseFree \ {"token"}

\* What a provider may answer.  A phrase of the caller's is repeated whole only by a rejection of its
\* schema; and an error whose code says that the request is at fault has no type of another status.
ASSUME RejectionsArePlausible ==
  \A r \in Rejections :
    /\ DOMAIN r = {"door", "status", "number", "code", "type", "said", "echo", "quotaFree"}
    /\ r.door \in {"http", "wrapped", "streamed"} /\ r.status \in Nat /\ r.number \in Nat
    /\ r.echo \subseteq {"token", "quota"}
    /\ "quota" \in r.echo => "forbids" \in r.said /\ r.door = "http" /\ r.status \in RejectionStatuses
    /\ r.number = NoStatus /\ status_for_error_codes(<<r.code>>) \in RejectionStatuses =>
          status_for_error_codes(<<r.type>>) \in RejectionStatuses \cup {NoStatus, 402}

\* The same without the status a name states.
quotes_by_status(status, named) == status = NoStatus \/ status \in RejectionStatuses

\* Whether the text is as likely to be quoting the caller as to be the provider's own.
quotes_caller_request(status, named) ==
  status = NoStatus \/ status \in RejectionStatuses \/ named \in RejectionStatuses

\* classify_failure as the ordered table it is: the first row that holds decides.
Readings(status, codes, text, quotaFree) ==
  LET named    == status_for_error_codes(codes)
      s        == IF status = NoStatus THEN 200 ELSE status
      emptied  == quotaFree /\ "insufficient_quota" \in NamesIn(codes) /\ named = 429
      spent    == quotaFree /\ "quota" \in text
      rejected == s \in RejectionStatuses
      demands  == IF quotes_caller_request(status, named) THEN PaymentDemand ELSE FalseFree
  IN << <<emptied /\ "zero" \in text,                          "no_free_quota">>,
        <<emptied,                                             "quota_exhausted">>,
        <<s = 403 /\ "free_quota_exhausted" \in NamesIn(codes), "quota_exhausted">>,
        <<rejected /\ named \in RejectionStatuses \cup {NoStatus} /\ "forbids" \in text,
                                                               "bad_upstream_contract">>,
        <<rejected /\ "tags" \in text,                         "model_not_found">>,
        <<spent /\ s \in {402, 429} /\ "zero" \in text,        "no_free_quota">>,
        <<spent /\ s \in {402, 429},                           "quota_exhausted">>,
        <<spent /\ s \in {401, 403},                           "auth_or_credit">>,
        <<spent /\ s >= 500,                                   "server_error">>,
        <<spent,                                               "unavailable">>,
        <<s = 429 /\ "account" \notin text
            /\ (codes = CapacityPair \/ {"pool", "ours"} \subseteq text),
                                                               "rate_limited_upstream">>,
        <<s = 429,                                             "rate_limited">>,
        <<s = 413 /\ "too_long" \in text,                      "context_length_exceeded">>,
        <<s = 413,                                             "request_too_large">>,
        <<402 \in {s, named} \/ text \cap demands # {},        "billing_or_paid">>,
        <<s = 403 /\ {"ours", "entitle"} \subseteq text /\ "wide" \notin text,
                                                               "model_not_found">>,
        <<s \in {401, 403},                                    "auth_or_credit">>,
        <<s \in {404, 410} /\ "gone" \in text,                 "model_not_found">>,
        <<s >= 500,                                            "server_error">>,
        <<rejected /\ "contract" \in text,                     "bad_upstream_contract">>,
        <<rejected /\ "too_long" \in text,                     "context_length_exceeded">>,
        <<rejected,                                            "bad_upstream_request">>,
        <<TRUE,                                                "unavailable">> >>

classify_failure(status, codes, text, quotaFree) ==
  LET table == Readings(status, codes, text, quotaFree)
      first == CHOOSE i \in DOMAIN table : table[i][1] /\ \A j \in 1..(i - 1) : ~table[j][1]
  IN  table[first][2]

-----------------------------------------------------------------------------
(* The three doors.  code and type are the fields of the error object,     *)
(* number the status a numeric code states (0 when code is a name).        *)

Text(r) == r.said \cup r.echo
CodesOf(r) == <<IF r.number # NoStatus THEN "none" ELSE r.code, r.type>>

evaluate_upstream_failure_response(r) ==
  classify_failure(r.status, CodesOf(r), Text(r), r.quotaFree)

\* The status a wrapped error states: its number, or the status its names stand for.
WrappedStatus(r) ==
  IF r.number # NoStatus THEN r.number ELSE status_for_error_codes(CodesOf(r))

success_error_payload_failure(r) ==
  classify_failure(WrappedStatus(r), CodesOf(r), Text(r), r.quotaFree)

\* The stream reader keeps one field of the error object, its type before its code, and the
\* classifier is then given a sentence in which no field can be read.
StreamedName(r) == IF r.type # "none" THEN r.type ELSE r.code
StreamedStatus(r) ==
  IF r.type = "none" /\ r.number # NoStatus THEN r.number
  ELSE status_for_error_codes(<<StreamedName(r)>>)

evaluate_streaming_result(r) ==
  IF StreamedStatus(r) = NoStatus THEN "pre_stream_failure"
  ELSE classify_failure(StreamedStatus(r), <<>>, Text(r), r.quotaFree)

VerdictOn(r) ==
  CASE r.door = "http"     -> evaluate_upstream_failure_response(r)
    [] r.door = "wrapped"  -> success_error_payload_failure(r)
    [] r.door = "streamed" -> evaluate_streaming_result(r)

-----------------------------------------------------------------------------
(* What the caller is told once no candidate delivered.                    *)

\* TERMINAL_ENDINGS: its own status (0: none), payload type, whether a body is written, and the
\* status only the log carries (0: the status sent).
TerminalEndings ==
  [client_disconnected       |-> [status |-> 0, type |-> "client_disconnected", body |-> FALSE, log |-> 499],
   service_restarting        |-> [status |-> 503, type |-> "service_restarting", body |-> TRUE, log |-> 0],
   request_deadline_exceeded |-> [status |-> 0, type |-> "none", body |-> TRUE, log |-> 0],
   none                      |-> [status |-> 0, type |-> "none", body |-> TRUE, log |-> 0]]

AttemptedRows(rows) == {i \in DOMAIN rows : rows[i].attempted}

\* Of the rows in question, there are some and each has this reason.
every_attempt_failed_with(rows, those, reason) ==
  those # {} /\ \A i \in those : rows[i].reason = reason

OnlyFor(rows, those, reasons) == those # {} /\ \A i \in those : rows[i].reason \in reasons

upstream_failure_status(rows, end) ==
  LET tried == AttemptedRows(rows)
      own   == TerminalEndings[end].status
  IN IF every_attempt_failed_with(rows, tried, "unsupported_tool_schema") THEN 422
     ELSE IF \/ every_attempt_failed_with(rows, tried, "bad_upstream_request")
             \/ every_attempt_failed_with(rows, tried, "context_length_exceeded") THEN 400
     ELSE IF own # 0 THEN own
     ELSE IF OnlyFor(rows, tried, {"rate_limited", "rate_limited_upstream", "quota_exhausted"}) THEN 429
     ELSE IF OnlyFor(rows, tried, {"timeout", "request_deadline_exceeded"}) THEN 504
     ELSE 502

\* The rows a payload's verdict is read off: those of attempts that were made.
RowsJudged(rows) == AttemptedRows(rows)

build_upstream_failure_error(rows, end) ==
  LET tried == RowsJudged(rows)
      last  == CHOOSE i \in tried : \A j \in tried : j <= i
      own   == TerminalEndings[end].type
      asked == \E why \in {"unsupported_tool_schema", "bad_upstream_request", "context_length_exceeded"} :
                  every_attempt_failed_with(rows, tried, why)
  IN  [type   |-> IF asked THEN "invalid_request_error"
                  ELSE IF own # "none" THEN own ELSE "upstream_failure",
       quotes |-> IF asked THEN rows[last] ELSE [reason |-> "none", attempted |-> TRUE]]

route_log_failure_status(rows, end) ==
  IF TerminalEndings[end].log # 0 THEN TerminalEndings[end].log ELSE upstream_failure_status(rows, end)

failure_route_reason(rows, end) ==
  IF end # "none" THEN end
  ELSE IF every_attempt_failed_with(rows, DOMAIN rows, "bad_upstream_request") THEN "bad_upstream_request"
  ELSE IF every_attempt_failed_with(rows, DOMAIN rows, "context_length_exceeded") THEN "context_length_exceeded"
  ELSE "upstream_failure"

-----------------------------------------------------------------------------
FailuresInit ==
  /\ heard = Silence
  /\ errors = <<>>
  /\ ending = "none"
  /\ answer = Unanswered

Open == answer = Unanswered /\ ending = "none" /\ heard = Silence
_should_retry(reason) == reason # "bad_upstream_request"   \* on a virtual model

\* One attempt is made and rejected.  A rejection of the body itself ends the run.
Hear ==
  /\ Open
  /\ Len(errors) < MaxErrors
  /\ \A i \in DOMAIN errors : _should_retry(errors[i].reason)
  /\ \E r \in Rejections :
       /\ heard' = r
       /\ errors' = Append(errors, [reason |-> VerdictOn(r), attempted |-> TRUE])
  /\ UNCHANGED <<ending, answer>>

\* The loop goes on: the next candidate, an ending, or the answer.
GoOn == Heard /\ heard' = Silence /\ UNCHANGED <<errors, ending, answer>>

\* An attempt raises before any answer: the transport's own reasons.
Raise(reason) ==
  /\ Open
  /\ Len(errors) < MaxErrors
  /\ \A i \in DOMAIN errors : _should_retry(errors[i].reason)
  /\ errors' = Append(errors, [reason |-> reason, attempted |-> TRUE])
  /\ UNCHANGED <<heard, ending, answer>>

\* Every candidate was excluded before anything was sent: plan_attempts leaves one row for each.
Exclude(reasons) ==
  /\ Open /\ errors = <<>>
  /\ errors' = [i \in DOMAIN reasons |-> [reason |-> reasons[i], attempted |-> TRUE]]
  /\ heard' = Unsent
  /\ UNCHANGED <<ending, answer>>

\* Between two attempts the deadline, the caller's socket or a drain ends the run; the candidate
\* that was chosen and never asked leaves a row.
Stop(end) ==
  /\ Open /\ errors # <<>> /\ Len(errors) < MaxErrors
  /\ \A i \in DOMAIN errors : _should_retry(errors[i].reason)
  /\ ending' = end
  /\ errors' = Append(errors, [reason |-> end, attempted |-> FALSE])
  /\ UNCHANGED <<heard, answer>>

build_upstream_failure_response ==
  /\ answer = Unanswered /\ errors # <<>> /\ ~Heard
  /\ answer' = [status |-> upstream_failure_status(errors, ending),
                error  |-> build_upstream_failure_error(errors, ending),
                body   |-> TerminalEndings[ending].body,
                log    |-> route_log_failure_status(errors, ending),
                reason |-> failure_route_reason(errors, ending)]
  /\ UNCHANGED <<heard, errors, ending>>

FailuresNext ==
  \/ Hear
  \/ GoOn
  \/ \E reason \in {"timeout", "request_deadline_exceeded", "tls_error"} : Raise(reason)
  \/ \E reasons \in [1..2 -> {"unsupported_tool_schema", "context_length_exceeded", "request_too_large"}] :
        Exclude(reasons)
  \/ \E end \in DOMAIN TerminalEndings \ {"none"} : Stop(end)
  \/ build_upstream_failure_response

FailuresSpec == FailuresInit /\ [][FailuresNext]_failuresVars

-----------------------------------------------------------------------------
(* Properties.                                                             *)

\* The status a rejection states, by its own status line, by number or by name.
Stated(r) == IF r.door = "http" THEN r.status
             ELSE IF r.number # NoStatus THEN r.number ELSE status_for_error_codes(<<r.code, r.type>>)

\* Whether it says that it is about the caller's request, or says nothing of what it is about.
AboutTheRequest(r) ==
  LET named == status_for_error_codes(CodesOf(r))
  IN  named \in RejectionStatuses \/ (named = NoStatus /\ Stated(r) \in RejectionStatuses \cup {NoStatus})

\* Words the provider repeats from the caller's request never change the verdict on a rejection of
\* that request, through whichever door it comes: no model is quarantined, and no quota called
\* spent, over what the caller wrote (the structural read before the prose scans, and the narrowed
\* payment markers, failures.py 1044-1064 and 1134-1145).
EchoIsNoVerdict ==
  Heard /\ AboutTheRequest(heard) => VerdictOn(heard) = VerdictOn([heard EXCEPT !.echo = {}])

\* A rejection wrapped in an HTTP 200 body is read as the same rejection under its own status
\* (failures.py 253-259, "keeps both doors in agreement").
DoorsAgree ==
  Heard /\ heard.door = "wrapped" /\ Stated(heard) # NoStatus =>
    VerdictOn(heard) = VerdictOn([heard EXCEPT !.door = "http", !.status = Stated(heard)])

\* The status, the payload's type, the quoted row and the route log are one verdict written four
\* times: a 400 or 422 exactly for an invalid request, quoting an attempt that was made; a 503
\* exactly for a restart; a status only the log carries exactly when no body is written.
VerdictsAgree ==
  answer # Unanswered =>
    /\ (answer.error.type = "invalid_request_error") = (answer.status \in {400, 422})
    /\ (answer.error.type = "service_restarting") = (answer.status = 503)
    /\ answer.error.quotes.attempted
    /\ IF answer.body THEN answer.log = answer.status ELSE answer.log = 499

\* A verdict rests on what the provider said: not on what it repeats of the caller's, not on the
\* door the rejection came through, and the caller and the route log are told the same
\* (failures.py, classify_failure).
VerdictsAreSound == EchoIsNoVerdict /\ DoorsAgree /\ VerdictsAgree

\* Not met by the code: chat_completion.py 1376-1379 says that the streamed path "earns the same
\* auth/rate-limit/request-contract verdict as a non-streaming wrapped error".
StreamedVerdictAgrees ==
  LET wrapped == VerdictOn([heard EXCEPT !.door = "wrapped"])
  IN  Heard /\ heard.door = "streamed" =>
        (wrapped \in {"auth_or_credit", "rate_limited", "rate_limited_upstream", "quota_exhausted",
                      "bad_upstream_contract"} => VerdictOn(heard) = wrapped)
=============================================================================
