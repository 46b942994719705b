---------------------------- MODULE StreamRelay ----------------------------
(***************************************************************************)
(* One upstream body relayed to the client: stream_chunks_to_writer        *)
(* (router.py), the handler's stream_response around it, and the           *)
(* OpenAIToAnthropicStreamTranslator of anthropic_messages.py.  The body   *)
(* is a sequence of frames cut into chunks anywhere, so that a chunk may   *)
(* end inside a frame (half); a frame is known by what the code tells      *)
(* apart:                                                                  *)
(*    ping   a comment, or a usage object without choices                  *)
(*    think  a delta of reasoning alone       text  a delta of an answer   *)
(*    call   a tool call whose arguments never become an object            *)
(*    fin    a choice with its finish_reason  badfin  finish_reason error  *)
(*    done   data: [DONE]                     error   an error payload     *)
(*    junk   data that does not parse                                      *)
(* A plain JSON body, which a provider may answer instead, is one frame.   *)
(***************************************************************************)
EXTENDS Naturals, Sequences, FiniteSets, SequencesExt

CONSTANTS
    MaxFrames,   \* frames of a body
    PerChunk,    \* of them a chunk may complete
    MaxChars,    \* completion_char_budget_for_profile, an answer's delta counting one
    NoHalf

VARIABLES
    setting,     \* [surface, form, policy, budget]: chosen by the request and the provider
    frames,      \* the complete frames received
    half,        \* the frame cut by the end of the last chunk: [kind, cut], or NoHalf.  It is cut
                 \* short in its data, wide with more than SSE_TERMINAL_TAIL_BYTES of it there, or
                 \* unclosed, all but its blank line
    relay,       \* the relay's own state: see FreshRelay
    translator,  \* [closed, failed, broken]
    client,      \* what the client has: [headers, told, gone], told the last thing that ends a stream
    result       \* what stream_response returned: [status, reason, stream_started]

streamVars == <<setting, frames, half, relay, translator, client, result>>

Kinds == {"ping", "think", "text", "call", "fin", "badfin", "done", "error", "junk"}
Answers == {"text", "call"}
Measured == {"think", "text", "call"}

Relaying == [status |-> "running", reason |-> "", stream_started |-> FALSE]

FreshRelay == [response_committed |-> FALSE, normalization_valid |-> TRUE, error_event_seen |-> FALSE,
               completion_chars |-> 0, deliverable_sent |-> FALSE, runaway |-> FALSE,
               unseen |-> FALSE]     \* an error event went by after the scan was over (history)

Sse == setting.form = "sse"
Budgeted == setting.budget
Anthropic == setting.surface = "anthropic"

---------------------------------------------------------------------------
(* What the code reads in a frame.                                         *)

Allows(kind) == kind \notin {"done", "error", "junk"}

stream_precommit_event_decision(kind) ==
    CASE kind = "error" -> "retry"
      [] kind # "error" /\ setting.policy = "first_complete_event" -> "commit"
      [] kind \in Answers \cup {"think"} /\ setting.policy = "first_substantive_delta" -> "commit"
      [] OTHER -> "wait"

\* The first decision that is not to wait.
Decide(events) ==
    LET decided == SelectSeq(events, LAMBDA k : stream_precommit_event_decision(k) # "wait")
    IN IF decided = <<>> THEN "wait" ELSE stream_precommit_event_decision(Head(decided))

\* Mutant: a finish_reason stands whatever the same choice sends after it.
FinishStays(fs, h) ==
    /\ h = NoHalf
    /\ \E i \in 1..Len(fs) : fs[i] = "fin"
    /\ \A i \in 1..Len(fs) : fs[i] # "badfin"

EndsInFinish(fs) == \E i \in DOMAIN fs : fs[i] = "fin" /\ \A j \in DOMAIN fs : j > i => fs[j] = "ping"

\* The last delta of the choice carries its finish_reason, and every event is complete.
finish_reason_from_clean_sse_eof(fs, h) == h = NoHalf /\ EndsInFinish(fs) /\ ~Contains(fs, "badfin")

\* It reads the last data line, whether or not the blank line after it came.
sse_stream_ended_with_done(fs, h) ==
    IF h = NoHalf THEN fs # <<>> /\ Last(fs) = "done" ELSE h.kind = "done" /\ h.cut = "unclosed"

\* The probe of the first chunk reads its last event without waiting for the blank line.
upstream_stream_error_payload(events, h) ==
    Contains(events, "error") \/ (h # NoHalf /\ h.kind = "error" /\ h.cut = "unclosed")

---------------------------------------------------------------------------
(* A chunk: it completes the half of the one before, adds frames, and may  *)
(* end in a half of its own.                                               *)

Chunks ==
    LET room == (IF Sse THEN MaxFrames ELSE 1) - Len(frames)
        Halves == {NoHalf} \cup [kind : Kinds, cut : {"short", "wide"}]
                    \cup [kind : {"done", "error"}, cut : {"unclosed"}]   \* what may be read without it
        added == UNION {[1..n -> Kinds] : n \in {k \in 0..PerChunk : k <= room}}
        opens == IF half = NoHalf THEN added ELSE {<<half.kind>> \o a : a \in added}
        more == IF half = NoHalf THEN {}
                ELSE {[events |-> <<>>, half |-> h] : h \in {g \in Halves : g # NoHalf /\ g.kind = half.kind}}
    IN {c \in [events : opens, half : Halves] \cup more :
            /\ c.events # <<>> \/ c.half \notin {NoHalf, half}
            /\ Len(c.events) + (IF c.half = NoHalf THEN 0 ELSE 1) <= room
            /\ Sse \/ c.half = NoHalf \/ c.half.cut = "short"
            /\ Sse \/ \A i \in DOMAIN c.events : c.events[i] \notin {"ping", "fin", "done"}}

split_complete_sse_events(events, before) == events

\* relay_chunk, past the write: what the relay reads in the bytes it has just passed on.
Observe(r, piece) ==
    LET events == piece.events
        scan == split_complete_sse_events(events, piece.before)
        wide == piece.half # NoHalf /\ piece.half.cut = "wide"
        chars == r.completion_chars + Cardinality({i \in DOMAIN events : events[i] \in Measured})
        unmeasured == Contains(events, "junk")
    IN IF ~Sse THEN [r EXCEPT !.response_committed = TRUE]
       ELSE [r EXCEPT
          !.response_committed = TRUE,
          !.normalization_valid = @ /\ ~wide /\ \A i \in DOMAIN events : Allows(events[i]),
          !.error_event_seen = @ \/ (r.normalization_valid /\ Contains(events, "error")),
          !.unseen = @ \/ (~r.normalization_valid /\ Contains(events, "error")),
          !.deliverable_sent = @ \/ wide \/ \E i \in DOMAIN scan : scan[i] \in Answers,
          !.completion_chars = IF ~Budgeted THEN @ ELSE IF unmeasured THEN MaxChars + 1 ELSE chars,
          !.runaway = Budgeted /\ (@ \/ unmeasured \/ chars > MaxChars)]

\* OpenAIToAnthropicStreamTranslator, over what the client was told so far: _chunk reads a delta,
_chunk(event, at) ==
    CASE event = "badfin" -> [at EXCEPT !.failed = TRUE, !.told = "error"]
      [] event = "call" -> [at EXCEPT !.broken = TRUE]
      [] OTHER -> at

\* _done closes the message, unless a call's arguments never became an object,
_done(at) ==
    IF at.closed \/ at.failed THEN at
    ELSE IF at.broken THEN [at EXCEPT !.failed = TRUE, !.told = "error"]
    ELSE [at EXCEPT !.closed = TRUE, !.told = "stop"]

\* and of an error payload _event only takes note: the relay is to tell the client.
_event(event, at) ==
    CASE event = "error" -> [at EXCEPT !.failed = TRUE]
      [] event = "junk" -> [at EXCEPT !.failed = TRUE, !.told = "error"]
      [] event = "done" -> _done(at)
      [] OTHER -> _chunk(event, at)

\* feed: once closed or failed, the chunks that follow are not read.
Feed(at, piece) ==
    LET after[k \in 0..Len(piece.events)] ==
            IF k = 0 THEN at ELSE _event(piece.events[k], after[k - 1])
    IN IF at.closed \/ at.failed THEN at ELSE after[Len(piece.events)]

\* What the client of the OpenAI surface is told by the bytes themselves.
Verbatim(told, piece) ==
    LET marks == {i \in DOMAIN piece.events : piece.events[i] \in {"done", "error"}}
    IN IF piece.half # NoHalf /\ piece.half.kind = "done" /\ piece.half.cut = "unclosed" THEN "done"
       ELSE IF marks = {} THEN told ELSE piece.events[Max(marks)]

---------------------------------------------------------------------------
(* The client.                                                             *)

\* The pieces of one call, in turn: the chunk that came, or what was held and then the chunk.
InTurn(Take(_, _), start, pieces) ==
    IF Len(pieces) = 1 THEN Take(start, pieces[1]) ELSE Take(Take(start, pieces[1]), pieces[2])

Translated(pieces) ==
    InTurn(Feed, [closed |-> translator.closed, failed |-> translator.failed, broken |-> translator.broken,
                  told |-> client.told], pieces)

\* A chunk whose translation is empty is not written; the first one starts the message.
Emits(pieces) ==
    \/ ~Anthropic \/ ~client.headers
    \/ ~translator.closed /\ ~translator.failed
       /\ \E i \in DOMAIN pieces : \E j \in DOMAIN pieces[i].events :
             pieces[i].events[j] \notin {"ping", "think", "error"}

\* write_stream_chunk.  What the Anthropic surface is told of a plain JSON body waits for its end.
Handed(pieces) ==
    IF Anthropic /\ ~Sse THEN client
    ELSE [client EXCEPT !.headers = TRUE,
                        !.told = IF Anthropic THEN Translated(pieces).told ELSE InTurn(Verbatim, @, pieces)]

Lost == [client EXCEPT !.headers = TRUE, !.gone = TRUE]

\* emit_terminal_error
TellError(to) == IF Anthropic /\ ~Sse THEN to ELSE [to EXCEPT !.headers = TRUE, !.told = "error"]

\* stream_response, over what stream_chunks_to_writer returned.
Returned(status, reason, started) ==
    result' = IF Anthropic /\ ~Sse /\ status # "ok"
              THEN [status |-> status, reason |-> "pre_stream_failure", stream_started |-> FALSE]
              ELSE IF Anthropic /\ Sse /\ translator'.failed
              THEN [status |-> "fail", reason |-> "mid_stream_failure", stream_started |-> client'.headers]
              ELSE [status |-> status, reason |-> reason, stream_started |-> started]

\* Returned with nothing relayed: the next candidate may still answer.
Retryable(reason) ==
    /\ UNCHANGED <<relay, translator, client>>
    /\ Returned("fail", reason, FALSE)

\* Mutant: the response counts as committed once its first bytes were accepted.
CommittedOnceAccepted(r) == r.response_committed

\* It counts as committed before the write, which may send the headers and then fail.
CommittedBeforeWrite(r) == TRUE

\* relay_chunk on each piece, and the stop once the budget is crossed.  A write that fails ends the
\* stream as the client's doing.
Relay(pieces) ==
    LET seen == InTurn(Observe, relay, pieces)
    IN /\ translator' = IF Anthropic /\ Sse
                        THEN [f \in DOMAIN translator |-> Translated(pieces)[f]] ELSE translator
       /\ \/ /\ Emits(pieces) /\ ~(Anthropic /\ ~Sse)
             /\ UNCHANGED relay
             /\ client' = Lost
             /\ Returned("fail", "client_disconnected", CommittedBeforeWrite(relay))
          \/ /\ relay' = seen
             /\ IF seen.runaway
                THEN client' = TellError(Handed(pieces)) /\ Returned("fail", "runaway_output", TRUE)
                ELSE client' = Handed(pieces) /\ UNCHANGED result

---------------------------------------------------------------------------
(* A chunk arrives.                                                        *)

Held == [events |-> frames, half |-> half, before |-> NoHalf]

\* Nothing to wait for: a committed response, or a first chunk that is not an error.
PassOn(c) ==
    /\ Sse \/ ~Budgeted
    /\ relay.response_committed \/ setting.policy = "immediate" \/ ~Sse
    /\ IF ~relay.response_committed /\ upstream_stream_error_payload(c.events, c.half)
       THEN Retryable("pre_stream_failure")
       ELSE Relay(<<[events |-> c.events, half |-> c.half, before |-> half]>>)

\* Before the commit, events are held until one decides; a chunk may fill the guard of
\* STREAM_PRECOMMIT_MAX_BYTES, or pass it, and is then read only up to it.
HoldBack(c) ==
    /\ Sse /\ ~relay.response_committed /\ setting.policy # "immediate"
    /\ \E fits \in {"fits", "fills", "past"} : \E n \in 0..Len(c.events) :
        /\ fits # "past" => n = Len(c.events)
        /\ LET decision == Decide(SubSeq(c.events, 1, n))
               last == [events |-> c.events, half |-> c.half, before |-> half]
           IN CASE decision = "retry" -> Retryable("pre_stream_failure")
                [] decision = "wait" /\ fits = "fits" -> UNCHANGED <<relay, translator, client, result>>
                [] OTHER -> Relay(IF fits = "past" THEN <<Held, last>>
                                  ELSE <<[last EXCEPT !.events = frames \o @, !.before = NoHalf]>>)

\* A JSON body on a budgeted profile is read whole, up to completion_budget_transport_limit.
BufferJson(c) ==
    /\ ~Sse /\ Budgeted /\ ~relay.response_committed
    /\ \/ UNCHANGED <<relay, translator, client, result>>
       \/ Retryable("runaway_output")

Chunk ==
    /\ result = Relaying
    /\ \E c \in Chunks :
        /\ frames' = frames \o c.events /\ half' = c.half
        /\ PassOn(c) \/ HoldBack(c) \/ BufferJson(c)
    /\ UNCHANGED setting

\* The upstream fails: a dropped connection, a read timeout, deadline_guarded_chunks at the
\* deadline, or MAX_UPSTREAM_RESPONSE_BYTES.
UpstreamRaises ==
    /\ result = Relaying
    /\ IF relay.response_committed
       THEN /\ client' = TellError(client)
            /\ UNCHANGED <<relay, translator>>
            /\ Returned("fail", "mid_stream_failure", TRUE)
       ELSE Retryable("pre_stream_failure")
    /\ UNCHANGED <<setting, frames, half>>

---------------------------------------------------------------------------
(* The upstream body ends.                                                 *)

Failing(detail) ==
    /\ client' = TellError(client)
    /\ UNCHANGED <<relay, translator>>
    /\ Returned("fail", "mid_stream_failure", TRUE)

Normalizable == relay.normalization_valid /\ half = NoHalf /\ finish_reason_from_clean_sse_eof(frames, half)

EndSse ==
    /\ result = Relaying /\ Sse /\ relay.response_committed
    /\ IF relay.error_event_seen THEN Failing("upstream_error_after_content")
       ELSE IF sse_stream_ended_with_done(frames, half)
       THEN UNCHANGED <<relay, translator, client>> /\ Returned("ok", "ok", TRUE)
       ELSE IF ~Normalizable THEN Failing("missing_done")
       ELSE \* the conventional [DONE] the upstream left out
            /\ UNCHANGED relay
            /\ LET done == <<[events |-> <<"done">>, half |-> NoHalf, before |-> NoHalf]>>
               IN /\ translator' = IF Anthropic THEN [f \in DOMAIN translator |-> Translated(done)[f]]
                                   ELSE translator
                  /\ \/ Emits(done) /\ client' = Lost /\ Returned("fail", "client_disconnected", TRUE)
                     \/ client' = Handed(done) /\ Returned("ok", "ok", TRUE)
    /\ UNCHANGED <<setting, frames, half>>

\* A body with an answer in it, and calls whose arguments are objects, has a translation.
translate_openai_response(body) == body = <<"text">>

encode_anthropic_message_stream(to) == [to EXCEPT !.headers = TRUE, !.told = "stop"]

\* The whole of a JSON body reaches the Anthropic client as one translated message, or not at all.
TranslateJson ==
    IF ~translate_openai_response(frames) THEN Retryable("pre_stream_failure")
    ELSE /\ UNCHANGED <<relay, translator>>
         /\ \/ client' = Lost
               /\ result' = [status |-> "fail", reason |-> "client_disconnected", stream_started |-> TRUE]
            \/ client' = encode_anthropic_message_stream(client)
               /\ Returned("ok", "ok", TRUE)

EndJson ==
    /\ result = Relaying /\ ~Sse /\ relay.response_committed
    /\ IF Anthropic THEN TranslateJson
       ELSE UNCHANGED <<relay, translator, client>> /\ Returned("ok", "ok", TRUE)
    /\ UNCHANGED <<setting, frames, half>>

\* A budgeted JSON body is validated and measured before its first byte is passed on.
MeasureJson ==
    /\ result = Relaying /\ ~Sse /\ Budgeted /\ ~relay.response_committed /\ (frames # <<>> \/ half # NoHalf)
    /\ IF half # NoHalf \/ frames = <<"junk">> \/ frames = <<"error">> THEN Retryable("pre_stream_failure")
       ELSE \/ Relay(<<[events |-> frames, half |-> NoHalf, before |-> NoHalf]>>)
            \/ Retryable("runaway_output")
    /\ UNCHANGED <<setting, frames, half>>

EndEmpty ==
    /\ result = Relaying /\ ~relay.response_committed
    /\ Sse \/ (frames = <<>> /\ half = NoHalf)
    /\ Retryable("empty_stream")
    /\ UNCHANGED <<setting, frames, half>>

---------------------------------------------------------------------------

StreamInit ==
    /\ setting \in [surface : {"openai", "anthropic"}, form : {"sse", "json"},
                    policy : {"immediate", "first_complete_event", "first_substantive_delta"},
                    budget : BOOLEAN]
    /\ frames = <<>> /\ half = NoHalf
    /\ relay = FreshRelay
    /\ translator = [closed |-> FALSE, failed |-> FALSE, broken |-> FALSE]
    /\ client = [headers |-> FALSE, told |-> "", gone |-> FALSE]
    /\ result = Relaying

StreamNext == Chunk \/ UpstreamRaises \/ EndSse \/ EndJson \/ MeasureJson \/ EndEmpty

StreamSpec == StreamInit /\ [][StreamNext]_streamVars

---------------------------------------------------------------------------

\* The bytes the code decides on without having read them to the end: an error event after the
\* scan was given up, and a last [DONE] whose blank line never came, which the translator of the
\* Anthropic surface still waits for.
LeftUnread == relay.unseen \/ (Anthropic /\ half # NoHalf)

\* Recorded ok, the stream the client has is a complete one: the upstream sent its terminator, or
\* finished its choice and said nothing after.  Recorded otherwise, the client that is still
\* there was told of the failure last, whatever terminator the upstream had sent before.
EndsAreTrue ==
    (Sse /\ result # Relaying /\ ~LeftUnread) =>
        IF result.status = "ok"
        THEN /\ client.told \in {"done", "stop"}
             /\ sse_stream_ended_with_done(frames, half) \/ (EndsInFinish(frames) /\ half = NoHalf)
        ELSE client.headers /\ ~client.gone => client.told = "error"

\* A candidate answers in place of another only while the client has nothing of the first: not a
\* byte, and not the headers a first write sends before it fails.
RetryIsUnseen == (result # Relaying /\ ~result.stream_started) => ~client.headers

\* A model is scored as having answered nothing only if no delta of an answer went past, however
\* the transport cut it.
AnswerIsCredited ==
    (Sse /\ result.status = "ok" /\ ~relay.deliverable_sent) =>
        \A i \in DOMAIN frames : frames[i] \notin Answers

\* A call that is given up for another, or counted as an answer, was what the count says it was
\* (router.py, stream_response).
RelayIsFair == RetryIsUnseen /\ AnswerIsCredited

\* The comment on error_event_seen in stream_chunks_to_writer: "An upstream error event that arrives
\* AFTER the first relayed byte ... the request is not a success either".
LateErrorIsNoSuccess == (Sse /\ result.status = "ok") => ~Contains(frames, "error")

=============================================================================
