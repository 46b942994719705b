------------------------------ MODULE Discovery ------------------------------
(***************************************************************************)
(* Capability discovery and benchmarks (use_cases/capability_discovery.py, *)
(* use_cases/benchmark.py, and their locks and writers in router.py).  The *)
(* server runs a discovery cycle in the background and a benchmark when    *)
(* the operator clicks; `ficelle canary` benchmarks from its own process.  *)
(* Each verdict is two writes of the state file; requests being served     *)
(* write verdicts and cooldowns of their own.                              *)
(*                                                                         *)
(* A pair <<m, p>> is a model and a capability the catalog does not deny   *)
(* it.  The order of the discovery queue is left open: a cycle takes any   *)
(* of the models that are due.  What a probe spends is module Allowance's  *)
(* subject; here it may be told at any time that the share is spent.       *)
(***************************************************************************)
EXTENDS Naturals, Sequences, FiniteSets, FiniteSetsExt, SequencesExt

CONSTANTS
    Pairs,       \* <<model, profile>> that can be probed
    PerCycle,    \* auto_benchmark_models_per_cycle
    Ttl,         \* verified-capability TTL
    ShortTtl,    \* ROUTE_REJECTION_VERDICT_TTL_SECONDS
    NoProber,
    MaxClock      \* bound of the clock

ASSUME DiscoveryConstants ==
    /\ IsFiniteSet(Pairs) /\ NoProber \notin {"cycle", "click", "canary"}
    /\ Ttl \in Nat /\ ShortTtl \in Nat

VARIABLES
    clock,
    row,         \* verified_capabilities: the verdict of each pair
    bench,       \* benchmark_results: the last result of each pair
    cooled,      \* models on cooldown or quarantined
    run,         \* who holds each process's _BENCHMARK_RUN_LOCK
    flock,       \* who holds locks/provider-probes.lock
    job,         \* what each prober is doing: [stage, queue, due, pair, got]
    refused,     \* refusals in a row on record for each pair, and when the last was (history)
    early        \* discovery asked again too soon (history)

discoveryVars == <<clock, row, bench, cooled, run, flock, job, refused, early>>
stored == <<row, bench, cooled>>
history == <<refused, early>>

Models == {mp[1] : mp \in Pairs}
Profiles == {mp[2] : mp \in Pairs}
Benchmarks == {"click", "canary"}
Probers == {"cycle"} \cup Benchmarks
Processes == {"server", "command"}
Process(w) == IF w = "canary" THEN "command" ELSE "server"
NoRow == [basis |-> "none", at |-> 0, streak |-> 0]
Resting == [stage |-> "idle", queue |-> <<>>, due |-> <<>>, pair |-> <<>>, got |-> NoRow]

\* A verdict is an answer that was judged, or a route that would not take the question.
Judged == [basis |-> "answer", at |-> clock, streak |-> 0]
Refusal == [basis |-> "route", at |-> clock, streak |-> 0]

Goes(w, next) == job' = [job EXCEPT ![w] = next]

------------------------------------------------------------------------------
(* Verdicts and how they age.                                              *)

\* Only the first refusal is worth asking about again soon.
route_rejection_deserves_a_retry_soon(r) == r.basis = "route" /\ r.streak <= 1

benchmark_result_is_aged(r) ==
    clock - r.at > (IF route_rejection_deserves_a_retry_soon(r) THEN ShortTtl ELSE Ttl)

Due(mp) == row[mp] = NoRow \/ benchmark_result_is_aged(row[mp])

model_due_capabilities(m) == {p \in Profiles : <<m, p>> \in Pairs /\ Due(<<m, p>>)}
models_needing_discovery == {m \in Models \ cooled : model_due_capabilities(m) # {}}

\* The streak goes on when the new verdict was reached as the one on record was.
consecutive_verdict_count(mp, got) ==
    IF got.basis # "route" THEN 0 ELSE IF row[mp].basis = "route" THEN Min({row[mp].streak + 1, 2}) ELSE 1

\* Mutant: the two histories of a probe are written apart.
ResultApart(mp, got, streak) == bench

\* The result of the same probe takes the streak over.
ResultAnnotated(mp, got, streak) ==
    IF got.basis = "route" /\ bench[mp].basis = "route" /\ bench[mp].at = got.at
    THEN [bench EXCEPT ![mp].streak = streak] ELSE bench

\* record_verified_capability_in_state, and what it adds to the history.
record_verified_capability(mp, got) ==
    LET streak == consecutive_verdict_count(mp, got)
    IN  /\ row' = [row EXCEPT ![mp] = [got EXCEPT !.streak = streak]]
        /\ bench' = ResultAnnotated(mp, got, streak)
        /\ refused' = [refused EXCEPT ![mp] = IF got.basis = "route" THEN [n |-> Min({@.n + 1, 2}), at |-> got.at]
                                              ELSE [n |-> 0, at |-> 0]]

record_benchmark_result(mp, got) == bench' = [bench EXCEPT ![mp] = got]

------------------------------------------------------------------------------
(* Requests being served.                                                  *)

\* record_production_profile_failure: a request's failure is evidence against a gated profile.
ProductionFailure(mp) ==
    /\ record_verified_capability(mp, Judged)
    /\ UNCHANGED <<clock, cooled, run, flock, job, early>>

\* Requests put models on cooldown, and cooldowns end.
Cooling(m) ==
    /\ cooled' = IF m \in cooled THEN cooled \ {m} ELSE cooled \cup {m}
    /\ UNCHANGED <<clock, row, bench, run, flock, job, history>>

------------------------------------------------------------------------------
(* The two locks of a prober; neither is waited for.                       *)

TakeRunLock(w) ==
    /\ job[w].stage = "idle" /\ run[Process(w)] = NoProber
    /\ run' = [run EXCEPT ![Process(w)] = w]
    /\ Goes(w, [Resting EXCEPT !.stage = "file"])
    /\ UNCHANGED <<clock, stored, flock, history>>

FileLockFree(w) == flock = NoProber

\* provider_probes_already_running: the run lock is given back.
FileLockHeld(w) ==
    /\ job[w].stage = "file" /\ ~FileLockFree(w)
    /\ run' = [run EXCEPT ![Process(w)] = NoProber]
    /\ Goes(w, Resting)
    /\ UNCHANGED <<clock, stored, flock, history>>

\* The cycle takes some of what is due, a benchmark the candidates of one profile.
TakeFileLock(w) ==
    /\ job[w].stage = "file" /\ FileLockFree(w)
    /\ flock' = w
    /\ \/ /\ w = "cycle"
          /\ \E ms \in kSubset(Min({PerCycle, Cardinality(models_needing_discovery)}), models_needing_discovery) :
             \E q \in SetToSeqs(ms) :
                Goes(w, [Resting EXCEPT !.stage = IF ms = {} THEN "release" ELSE "pick", !.queue = q])
       \/ /\ w \in Benchmarks
          /\ \E p \in Profiles : \E q \in SetToSeqs({m \in Models \ cooled : <<m, p>> \in Pairs}) :
                Goes(w, [Resting EXCEPT !.stage = "pick", !.queue = q, !.due = <<p>>])
    /\ UNCHANGED <<clock, stored, run, history>>

Release(w) ==
    /\ job[w].stage = "release"
    /\ flock' = NoProber /\ run' = [run EXCEPT ![Process(w)] = NoProber]
    /\ Goes(w, Resting)
    /\ UNCHANGED <<clock, stored, history>>

\* The process dies; the operating system gives its file lock back.
ProcessDies(proc) ==
    LET gone == {w \in Probers : Process(w) = proc}
    IN  /\ run' = [run EXCEPT ![proc] = NoProber]
        /\ flock' = IF flock \in gone THEN NoProber ELSE flock
        /\ job' = [w \in Probers |-> IF w \in gone THEN Resting ELSE job[w]]
        /\ UNCHANGED <<clock, stored, history>>

------------------------------------------------------------------------------
(* The discovery cycle.                                                    *)

Cycle == job["cycle"]

\* Asked again of fresh state: an earlier probe may have benched this model.
PickModel ==
    /\ Cycle.stage = "pick"
    /\ IF Cycle.queue = <<>> THEN Goes("cycle", [Resting EXCEPT !.stage = "release"])
       ELSE LET m == Head(Cycle.queue)
            IN  \E due \in SetToSeqs(IF m \in models_needing_discovery THEN model_due_capabilities(m) ELSE {}) :
                   Goes("cycle", [Cycle EXCEPT !.stage = IF due = <<>> THEN "pick" ELSE "send", !.queue = Tail(@),
                                               !.due = due, !.pair = IF due = <<>> THEN <<>> ELSE <<m>>])
    /\ UNCHANGED <<clock, stored, run, flock, history>>

\* The pair is asked about; or the share is spent and the model left; or the call is not admitted.
SendProbe ==
    LET mp == <<Cycle.pair[1], Head(Cycle.due)>>
        left == [Cycle EXCEPT !.stage = "pick", !.due = <<>>, !.pair = <<>>]
    IN  /\ Cycle.stage = "send"
        /\ \/ /\ Cycle.due # <<>>
              /\ Goes("cycle", [Cycle EXCEPT !.stage = "answer", !.due = Tail(@), !.pair = mp])
              /\ early' = (early \/ (refused[mp].n = 2 /\ clock - refused[mp].at <= Ttl))
           \/ /\ Cycle.due # <<>>
              /\ Goes("cycle", [Cycle EXCEPT !.due = Tail(@)]) /\ UNCHANGED early
           \/ Goes("cycle", left) /\ UNCHANGED early
        /\ UNCHANGED <<clock, stored, run, flock, refused>>

\* An answer that is judged, or a request or a route refused: a verdict on the capability only.
ProbeAnswered ==
    /\ Cycle.stage = "answer"
    /\ \E got \in {Judged, Refusal} :
          /\ record_benchmark_result(Cycle.pair, got)
          /\ Goes("cycle", [Cycle EXCEPT !.stage = "verdict", !.got = got])
    /\ UNCHANGED <<clock, row, cooled, run, flock, history>>

RecordVerdict ==
    /\ Cycle.stage = "verdict"
    /\ record_verified_capability(Cycle.pair, Cycle.got)
    /\ Goes("cycle", [Cycle EXCEPT !.stage = "send", !.got = NoRow])
    /\ UNCHANGED <<clock, cooled, run, flock, early>>

\* _cool_and_stop: the model, or all that share its account, is benched, and left.
ProbeBlocked ==
    /\ Cycle.stage = "answer"
    /\ \E ms \in {{Cycle.pair[1]}, Models} : cooled' = cooled \cup ms
    /\ Goes("cycle", [Cycle EXCEPT !.stage = "pick", !.due = <<>>, !.pair = <<>>])
    /\ UNCHANGED <<clock, row, bench, run, flock, history>>

------------------------------------------------------------------------------
(* A benchmark: the candidates of one profile.                             *)

\* The next candidate is asked, unless its call is not admitted; nothing is recorded of that.
BenchSend(w) ==
    LET j == job[w]
    IN  /\ j.stage = "pick"
        /\ IF j.queue = <<>> THEN Goes(w, [Resting EXCEPT !.stage = "release"])
           ELSE Goes(w, [j EXCEPT !.queue = Tail(@)])
                \/ Goes(w, [j EXCEPT !.stage = "answer", !.queue = Tail(@), !.pair = <<Head(j.queue), j.due[1]>>])
        /\ UNCHANGED <<clock, stored, run, flock, history>>

\* An answer is judged, and its verdict recorded next; a rejection is a result, and no verdict.
BenchAnswered(w) ==
    LET j == job[w]
    IN  /\ j.stage = "answer"
        /\ record_benchmark_result(j.pair, Judged)
        /\ \/ Goes(w, [j EXCEPT !.stage = "verdict", !.got = Judged])
           \/ Goes(w, [j EXCEPT !.stage = "pick", !.pair = <<>>])
        /\ UNCHANGED <<clock, row, cooled, run, flock, history>>

\* A blocked route or an exception cools the model, then leaves its result.
BenchBlocked(w) ==
    LET j == job[w]
    IN  /\ j.stage = "answer"
        /\ cooled' = cooled \cup {j.pair[1]}
        /\ record_benchmark_result(j.pair, Judged)
        /\ Goes(w, [j EXCEPT !.stage = "pick", !.pair = <<>>])
        /\ UNCHANGED <<clock, row, run, flock, history>>

\* The first candidate to pass ends the walk, unless all were to be tested.
BenchVerdict(w) ==
    LET j == job[w]
    IN  /\ j.stage = "verdict"
        /\ record_verified_capability(j.pair, j.got)
        /\ \/ Goes(w, [Resting EXCEPT !.stage = "release"])
           \/ Goes(w, [j EXCEPT !.stage = "pick", !.pair = <<>>, !.got = NoRow])
        /\ UNCHANGED <<clock, cooled, run, flock, early>>

ClockTicks ==
    /\ clock < MaxClock /\ clock' = clock + 1
    /\ UNCHANGED <<stored, run, flock, job, history>>

DiscoveryInit ==
    /\ clock = 0
    /\ row = [mp \in Pairs |-> NoRow] /\ bench = [mp \in Pairs |-> NoRow] /\ cooled = {}
    /\ run = [proc \in Processes |-> NoProber] /\ flock = NoProber
    /\ job = [w \in Probers |-> Resting]
    /\ refused = [mp \in Pairs |-> [n |-> 0, at |-> 0]] /\ early = FALSE

DiscoveryNext ==
    \/ \E mp \in Pairs : ProductionFailure(mp)
    \/ \E m \in Models : Cooling(m)
    \/ \E w \in Probers : TakeRunLock(w) \/ FileLockHeld(w) \/ TakeFileLock(w) \/ Release(w)
    \/ PickModel \/ SendProbe \/ ProbeAnswered \/ RecordVerdict \/ ProbeBlocked
    \/ \E w \in Benchmarks : BenchSend(w) \/ BenchAnswered(w) \/ BenchBlocked(w) \/ BenchVerdict(w)
    \/ \E proc \in Processes : ProcessDies(proc)
    \/ ClockTicks

DiscoverySpec == DiscoveryInit /\ [][DiscoveryNext]_discoveryVars

------------------------------------------------------------------------------
(* Properties.                                                             *)

\* A route that refused a probe of a pair twice in a row is not asked again before the verdict's
\* full TTL has passed, across crashes, benchmarks and the verdicts of requests.
RefusalsConverge == ~early

\* The two histories of a probe that was refused ask for its repetition alike, except between
\* their two writes or when a process died there.
HistoriesAgree ==
    \A mp \in Pairs :
        row[mp].basis = "route" /\ bench[mp].basis = "route" /\ row[mp].at = bench[mp].at
        => route_rejection_deserves_a_retry_soon(row[mp]) = route_rejection_deserves_a_retry_soon(bench[mp])

\* No two probers of one home send at a time, in one process or in two.
OneProber ==
    \A v, w \in Probers : v # w => {job[v].stage, job[w].stage} \cap {"idle", "file"} # {}

\* Refused probes are not repeated for ever, whichever prober or crash comes between, and only one
\* prober is at work (capability_discovery.py, auto_benchmark.py).
DiscoveryConverges == RefusalsConverge /\ HistoriesAgree /\ OneProber
==============================================================================
