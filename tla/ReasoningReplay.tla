-------------------------- MODULE ReasoningReplay --------------------------
(***************************************************************************)
(* ReasoningReplayStore (reasoning_replay.py) and the observer that learns *)
(* from streams on their way past: what a thinking model reasoned before   *)
(* it called tools, put back on the assistant message when the next        *)
(* request brings it without.  A turn is one choice of one answer; two     *)
(* choices stream down one connection.  Nothing makes a tool-call id       *)
(* unique, so any turn may carry any of Ids.                               *)
(***************************************************************************)
EXTENDS Integers, Sequences, FiniteSets, FiniteSetsExt

CONSTANTS
    Ids,          \* tool-call ids
    Signatures,   \* what a call asks for, name(arguments)
    ModelIds,
    Capacity,     \* max_entries
    Ttl,          \* ttl_seconds
    MaxParts,     \* bound of the parts of a trace
    MaxTurns, MaxNow

\* Less than the whole of a name is no call's name.
ASSUME PartialNames == "partial" \notin Signatures

VARIABLES
    now,
    turns,        \* what each turn called: [model, id, signature] (history)
    streaming,    \* the turns, by choice index, the observer still holds
    accumulated,  \* _StreamedChoice of each of those: [trace_parts, id, name]
    ended,        \* when the stream ended, while finish is at work
    _traces,      \* the store: a set of [id, at, order, trace, names], the oldest of least order
    _thinking,    \* the models seen to reason
    filled        \* what the last replay put into which message: [turn, trace, stand_in]

replayVars == <<now, turns, streaming, accumulated, ended, _traces, _thinking, filled>>

StillOpen == -1
Nothing == [turn |-> 0, trace |-> <<>>, stand_in |-> FALSE]
Empty == [trace_parts |-> <<>>, id |-> {}, name |-> 0]

\* A name comes in two fragments: less than both is some other name.
SignatureOf(t, fragments) == IF fragments = 2 THEN turns[t].signature ELSE "partial"

---------------------------------------------------------------------------
(* observe, trace_for: each under the store's lock.                        *)

\* An id is stored once, and moved to the end.
PutLast(store, entry) ==
    {e \in store : e.id # entry.id}
        \cup {[entry EXCEPT !.order = 1 + Max({e.order : e \in store} \cup {0})]}

\* What is past its time goes, then the oldest of what is left.
_evict(store, at) ==
    LET live == {e \in store : at - e.at <= Ttl}
    IN {e \in live : Cardinality({o \in live : o.order > e.order}) < Capacity}

observe(store, entry) == IF entry.trace = <<>> THEN store ELSE _evict(PutLast(store, entry), entry.at)

\* The id of another turn is told by what that turn asked for.
Matches(entry, signature) == entry.names = signature

trace_for(id, signature) ==
    LET found == {e \in _traces : e.id = id /\ now - e.at <= Ttl /\ Matches(e, signature)}
    IN IF found = {} THEN <<>> ELSE (CHOOSE e \in found : TRUE).trace

---------------------------------------------------------------------------

\* An answer begins: one or two choices, of any ids.
Begin ==
    /\ DOMAIN streaming = {} /\ filled' = Nothing
    /\ \E m \in ModelIds, n \in 1..2 :
        /\ Len(turns) + n <= MaxTurns
        /\ \E new \in [1..n -> [model : {m}, id : Ids, signature : Signatures]] : turns' = turns \o new
        /\ streaming' = [c \in 1..n |-> Len(turns) + c]
        /\ accumulated' = [c \in 1..n |-> Empty]
    /\ UNCHANGED <<now, ended, _traces, _thinking>>

\* Mutant: the parts of every choice go to one buffer.
OneBuffer(c) == DOMAIN streaming

ChoiceOf(c) == {c}

\* A delta of choice c: a part of its trace, the id of its call, or a fragment of the name.
_consume_delta(c) ==
    /\ ended = StillOpen
    /\ \/ /\ Len(accumulated[c].trace_parts) < MaxParts
          /\ accumulated' = [d \in DOMAIN accumulated |->
                IF d \in ChoiceOf(c) THEN [accumulated[d] EXCEPT !.trace_parts = Append(@, streaming[c])]
                ELSE accumulated[d]]
       \/ /\ accumulated[c].id = {}
          /\ accumulated' = [accumulated EXCEPT ![c].id = {turns[streaming[c]].id}]
       \/ accumulated[c].name < 2 /\ accumulated' = [accumulated EXCEPT ![c].name = @ + 1]
    /\ UNCHANGED <<now, turns, streaming, ended, _traces, _thinking, filled>>

Without(f, c) == [d \in DOMAIN f \ {c} |-> f[d]]

\* A trace past MAX_TRACE_CHARS, or a line that never ends: the observer stops and drops what it held.
_give_up ==
    /\ DOMAIN streaming # {} /\ ended = StillOpen
    /\ streaming' = <<>> /\ accumulated' = <<>>
    /\ UNCHANGED <<now, turns, ended, _traces, _thinking, filled>>

\* The stream ends, cleanly, by an error or by the client: the clock is read once,
finish ==
    /\ DOMAIN streaming # {} /\ ended = StillOpen
    /\ ended' = now
    /\ UNCHANGED <<now, turns, streaming, accumulated, _traces, _thinking, filled>>

resolved_calls(c) == accumulated[c].id # {} /\ accumulated[c].name > 0

\* and each choice that called a tool is kept, in the order their first deltas came.
\* (record_completion_payload is the case of every delta having come.)
FinishChoice(c) ==
    /\ ended # StillOpen
    /\ LET entry == [id |-> CHOOSE i \in accumulated[c].id : TRUE, at |-> ended, order |-> 0,
                     trace |-> accumulated[c].trace_parts,
                     names |-> SignatureOf(streaming[c], accumulated[c].name)]
       IN IF resolved_calls(c)
          THEN /\ _traces' = observe(_traces, entry)
               /\ _thinking' = IF entry.trace = <<>> THEN _thinking
                               ELSE _thinking \cup {turns[streaming[c]].model}
          ELSE UNCHANGED <<_traces, _thinking>>
    /\ streaming' = Without(streaming, c) /\ accumulated' = Without(accumulated, c)
    /\ ended' = IF DOMAIN streaming = {c} THEN StillOpen ELSE ended
    /\ filled' = Nothing /\ UNCHANGED <<now, turns>>

\* replay_into_body on one assistant message that lost its trace, for the model chosen this time.
replay_into_body ==
    /\ \E t \in DOMAIN turns, m \in ModelIds :
        LET trace == trace_for(turns[t].id, turns[t].signature)
        IN /\ filled' = IF trace # <<>> THEN [turn |-> t, trace |-> trace, stand_in |-> FALSE]
                        ELSE IF m \in _thinking THEN [turn |-> t, trace |-> <<>>, stand_in |-> TRUE]
                        ELSE Nothing
           /\ _traces' = {e \in _traces : e.id = turns[t].id => now - e.at <= Ttl}
    /\ UNCHANGED <<now, turns, streaming, accumulated, ended, _thinking>>

TimePasses ==
    /\ now < MaxNow /\ now' = now + 1 /\ filled' = Nothing
    /\ UNCHANGED <<turns, streaming, accumulated, ended, _traces, _thinking>>

ReplayInit ==
    /\ now = 0 /\ turns = <<>> /\ streaming = <<>> /\ accumulated = <<>> /\ ended = StillOpen
    /\ _traces = {} /\ _thinking = {} /\ filled = Nothing

ReplayNext ==
    \/ Begin \/ _give_up \/ finish \/ replay_into_body \/ TimePasses
    \/ \E c \in DOMAIN streaming : _consume_delta(c) \/ FinishChoice(c)

ReplaySpec == ReplayInit /\ [][ReplayNext]_replayVars

---------------------------------------------------------------------------

\* A message is given the reasoning of its own turn, or of one that carried the same id and asked
\* for the same thing: never a part of another's, nor of the choice that streamed beside it.
OwnTrace ==
    \A i \in DOMAIN filled.trace :
        LET u == filled.trace[i]
        IN /\ turns[u].id = turns[filled.turn].id
           /\ turns[u].signature = turns[filled.turn].signature
           /\ \A j \in DOMAIN filled.trace : filled.trace[j] = u

=============================================================================
