----------------------------- MODULE Selection -----------------------------
(***************************************************************************)
(* Which models serve a virtual model, in which order, and what a caller   *)
(* is told when none does: selection.py, routing_policy.py, the evidence   *)
(* part of use_cases/model_scoring.py, and the gates of router.py.         *)
(*                                                                         *)
(* The catalog is fixed; what moves is the evidence about each model, the  *)
(* blocks on models, providers and quota pools, and the operator's profile.*)
(* The selection itself is a function of that state.                       *)
(***************************************************************************)
EXTENDS Naturals, Integers, Sequences, FiniteSetsExt, SequencesExt

CONSTANTS
  Catalog,       \* the invokable models, in the order of their ids: a sequence
  Source,        \* Source[m]: the provider of m
  Claims,        \* Claims[m]: the capabilities the row of m claims
  Declared,      \* Declared[m]: those among them the provider's own catalog declares
  Certified,     \* the models of the coding manifest
  Base,          \* Base[m]: the score of m without any evidence
  Profiles,      \* the profiles an operator may save
  Ttl,           \* verified_capability_ttl
  MaxBlock,      \* bound: the longest block
  MaxEvents      \* bound: probes, failures, blocks and edits of a behaviour

VARIABLES
  verified,      \* state.verified_capabilities of the profile, per model
  benchmark,     \* state.benchmark_results of the profile, per model
  until,         \* blocks left: <<"model", m>>, <<"provider", p>>, <<"quota", p>>
  quarantined,   \* the models in quarantine
  profile,       \* the profile as saved
  events         \* events so far, up to MaxEvents

selectionVars == <<verified, benchmark, until, quarantined, profile, events>>

Models == Range(Catalog)
Providers == {Source[m] : m \in Models}
BlockKeys == ({"model"} \X Models) \cup ({"provider", "quota"} \X Providers)
NoRow == [status |-> "none"]
NoBlock == -1
Never == 1000          \* no answer of a clock

-----------------------------------------------------------------------------
(* Evidence: two rows per model, each with the verdict, its age and whether *)
(* it was given by the test the profile uses today.                        *)

benchmark_result_is_aged(row) == row.age > Ttl
benchmark_result_matches_current_test(row) ==
  row # NoRow /\ row.same /\ ~benchmark_result_is_aged(row)

\* In parts of Ttl: all of it until the row ages, then down to nothing at twice the age.
stale_score_decay_factor(row) ==
  CASE ~row.same -> 0
    [] row.same /\ row.age <= Ttl -> Ttl
    [] row.same /\ row.age > Ttl -> Max({0, Ttl - (row.age - Ttl)})

DecaysAll(penalty, row) == penalty * stale_score_decay_factor(row)
_failed_verdict_penalty(penalty, row) ==
  IF row.same THEN penalty * Ttl ELSE penalty * stale_score_decay_factor(row)

RowBonus(row, won, lost) ==
  CASE row.status = "good" -> won * stale_score_decay_factor(row)
    [] row.status = "bad" -> - _failed_verdict_penalty(lost, row)
    [] row.status = "none" -> 0

\* benchmark_adjustment_parts: in parts of Ttl, the latency share of a pass left out.
score_adjustment(good, bench) == RowBonus(good, 12, 24) + RowBonus(bench, 8, 16)
Adjustment(m) == score_adjustment(verified[m], benchmark[m])

model_auto_score(m) == Base[m] * Ttl + Adjustment(m)

\* failed_profile_evidence_row, verified_capability_row: verdicts of today's test only.
FreshVerdict(row, status) == benchmark_result_matches_current_test(row) /\ row.status = status
model_failed_profile_evidence(m) ==
  FreshVerdict(verified[m], "bad") \/ FreshVerdict(benchmark[m], "bad")
ModelVerified(m) == FreshVerdict(verified[m], "good")

-----------------------------------------------------------------------------
(* The blocks, read from the widest scope down.  A quota row blocks until  *)
(* a probe drops it, whatever its date.                                    *)

ProviderBlocked(m) == until[<<"provider", Source[m]>>] > 0
QuotaBlocked(m) == until[<<"quota", Source[m]>>] # NoBlock
ModelBlocked(m) == until[<<"model", m>>] > 0
model_on_cooldown(m) ==
  CASE ProviderBlocked(m) -> "provider"
    [] ~ProviderBlocked(m) /\ QuotaBlocked(m) -> "quota"
    [] ~ProviderBlocked(m) /\ ~QuotaBlocked(m) /\ ModelBlocked(m) -> "model"
    [] OTHER -> "none"

Available == {m \in Models : model_on_cooldown(m) = "none" /\ m \notin quarantined}

-----------------------------------------------------------------------------
(* The profile.                                                            *)

GateCapability == "image"          \* GATE_CAPABILITY_BY_PROFILE of the specialized kind

model_matches_profile_requirements(m, p) ==
  /\ m \notin p.excluded
  /\ p.requires \subseteq Claims[m]
  /\ p.any # {} => p.any \cap Claims[m] # {}

\* profile_capability_metadata: what /v1/models says of every answer of the profile.
profile_capability_metadata(p) == p.requires \cup p.any

Position(m) == CHOOSE i \in DOMAIN Catalog : Catalog[i] = m
certified_first(m) == IF profile.kind = "coding" /\ m \notin Certified THEN 1 ELSE 0

sort_available_for_virtual_model(pool) ==
  SetToSortSeq(pool, LAMBDA m, n :
    \/ certified_first(m) < certified_first(n)
    \/ /\ certified_first(m) = certified_first(n)
       /\ \/ model_auto_score(m) > model_auto_score(n)
          \/ /\ model_auto_score(m) = model_auto_score(n)
             /\ Position(m) < Position(n))

ListedIn(pool) == SelectSeq(profile.models, LAMBDA m : m \in pool)
ListedAnywhere(pool) == SelectSeq(profile.models, LAMBDA m : m \in Available)
ManualList(pool) == ListedIn(pool)

\* The list the operator wrote, as far as it is eligible, then the rest if they want it.
manual_order_candidates(pool) ==
  LET listed == ManualList(pool)
  IN  IF profile.auto_tail
      THEN listed \o sort_available_for_virtual_model(pool \ Range(listed))
      ELSE listed

candidates_for_profile ==
  LET eligible == {m \in Available : model_matches_profile_requirements(m, profile)}
  IN  IF profile.mode = "manual_order"
      THEN manual_order_candidates(eligible)
      ELSE sort_available_for_virtual_model(eligible)

-----------------------------------------------------------------------------
(* The competence gate.                                                    *)

\* A claim the provider's catalog makes is trusted until a test fails; a guessed one is not
\* until a test passes.
route_eligible_for_profile(m) ==
  /\ ~model_failed_profile_evidence(m)
  /\ ModelVerified(m) \/ GateCapability \in Declared[m]

Competent(m) ==
  CASE profile.kind = "specialized" -> route_eligible_for_profile(m)
    [] profile.kind = "coding" -> m \in Certified /\ ~model_failed_profile_evidence(m)
    [] OTHER -> TRUE

\* Evidence never empties a pool, except that of the coding profile.
route_competence_gate_result(pool) ==
  LET passed == SelectSeq(pool, Competent)
  IN  IF passed = <<>> /\ profile.kind # "coding" THEN pool ELSE passed

select_models_result == route_competence_gate_result(candidates_for_profile)

-----------------------------------------------------------------------------
(* The hint of a refusal.                                                  *)

\* Only the rows of the scope the exclusion names are read, and only dates to come.
DatesOf(m) ==
  LET scope == model_on_cooldown(m)
      key == <<scope, IF scope = "model" THEN m ELSE Source[m]>>
  IN  IF scope # "none" /\ until[key] > 0 THEN {until[key]} ELSE {}

CooledDates == UNION {DatesOf(m) : m \in Models}
Earliest(dates) == Min(dates)
selection_retry_after_seconds == IF CooledDates = {} THEN Never ELSE Earliest(CooledDates)

-----------------------------------------------------------------------------
SelectionInit ==
  /\ verified = [m \in Models |-> NoRow]
  /\ benchmark = [m \in Models |-> NoRow]
  /\ until = [k \in BlockKeys |-> NoBlock]
  /\ quarantined = {}
  /\ profile \in Profiles
  /\ events = 0

Event == events < MaxEvents /\ events' = events + 1
Quiet == UNCHANGED <<until, quarantined, profile>>

Row(good) == [status |-> IF good THEN "good" ELSE "bad", age |-> 0, same |-> TRUE]
Older(row) == IF row = NoRow THEN NoRow ELSE [row EXCEPT !.age = Min({@ + 1, 2 * Ttl + 1})]
Sooner(left) == IF left > 0 THEN left - 1 ELSE left
OtherTest(row) == IF row = NoRow THEN NoRow ELSE [row EXCEPT !.same = FALSE]

\* Time passes: evidence ages, blocks run out.
Tick ==
  /\ verified' = [m \in Models |-> Older(verified[m])]
  /\ benchmark' = [m \in Models |-> Older(benchmark[m])]
  /\ until' = [k \in BlockKeys |-> Sooner(until[k])]
  /\ UNCHANGED <<quarantined, profile, events>>

\* A capability probe of a model: one verdict, written over the last one.
record_verified_capability ==
  /\ Event /\ Quiet
  /\ \E m \in Models, good \in BOOLEAN : verified' = [verified EXCEPT ![m] = Row(good)]
  /\ UNCHANGED benchmark

\* A benchmark of a model writes both rows.
record_benchmark_result ==
  /\ Event /\ Quiet
  /\ \E m \in Models, good \in BOOLEAN :
       /\ benchmark' = [benchmark EXCEPT ![m] = Row(good)]
       /\ verified' = [verified EXCEPT ![m] = Row(good)]

\* An update ships another test for the profile.
expected_test_type ==
  /\ Event /\ Quiet
  /\ verified' = [m \in Models |-> OtherTest(verified[m])]
  /\ benchmark' = [m \in Models |-> OtherTest(benchmark[m])]

\* A cooldown at one of the three scopes; a pool that answers again loses its row.
SetBlock ==
  /\ Event
  /\ \E k \in BlockKeys, t \in 1..MaxBlock : until' = [until EXCEPT ![k] = t]
  /\ UNCHANGED <<verified, benchmark, quarantined, profile>>

DropBlock ==
  /\ \E k \in BlockKeys : until[k] # NoBlock /\ until' = [until EXCEPT ![k] = NoBlock]
  /\ UNCHANGED <<verified, benchmark, quarantined, profile, events>>

Quarantine ==
  /\ Event
  /\ \E m \in Models \ quarantined : quarantined' = quarantined \cup {m}
  /\ UNCHANGED <<verified, benchmark, until, profile>>

SaveProfile ==
  /\ Event
  /\ profile' \in Profiles
  /\ UNCHANGED <<verified, benchmark, until, quarantined>>

SelectionNext ==
  Tick \/ record_verified_capability \/ record_benchmark_result \/ expected_test_type
  \/ SetBlock \/ DropBlock \/ Quarantine \/ SaveProfile
SelectionSpec == SelectionInit /\ [][SelectionNext]_selectionVars

-----------------------------------------------------------------------------
(* What /v1/models publishes as required of every answer holds of each     *)
(* model routed, whether by the written list, the automatic tail or the    *)
(* pool the gate gave back because it would have emptied it                *)
(* (routing_policy.py:142-149).                                            *)
PromisesHold ==
  \A m \in Range(select_models_result) : profile.requires \subseteq Claims[m]

(* The same of the whole published list, alternatives included.            *)
EveryPromiseHolds ==
  \A m \in Range(select_models_result) : profile_capability_metadata(profile) \subseteq Claims[m]

(* Time alone never lifts a model whose verdict is a failure above one     *)
(* whose evidence is current and good: an expired failure once did, and    *)
(* went straight back to the first rank (model_scoring.py:258-264).        *)
CurrentlyGood(m) ==
  /\ ModelVerified(m)
  /\ benchmark[m] = NoRow \/ FreshVerdict(benchmark[m], "good")
KnownBad(m) == verified[m].status = "bad" /\ verified[m].same
TimeKeepsOrder ==
  Tick => \A m, n \in Models :
     (KnownBad(m) /\ CurrentlyGood(n)' /\ model_auto_score(m) <= model_auto_score(n))
       => model_auto_score(m)' <= model_auto_score(n)'
ExpiryNeverOvertakes == [][TimeKeepsOrder]_selectionVars

(* The Retry-After of a refusal is never later than the moment at which a  *)
(* model of the profile comes back by itself: following it loses no answer *)
(* (_selection_refusal_response).                                          *)
FreeIn(m) == Max({0} \cup {until[k] : k \in
                 {<<"model", m>>, <<"provider", Source[m]>>, <<"quota", Source[m]>>}})
RetryNeverTooLate ==
  select_models_result = <<>> =>
    \A m \in Models \ quarantined :
      ( /\ model_matches_profile_requirements(m, profile)
        /\ until[<<"quota", Source[m]>>] = NoBlock
        /\ profile.kind # "coding"
        /\ profile.mode = "auto" )
        => selection_retry_after_seconds <= FreeIn(m)
=============================================================================
