------------------------------ MODULE Allowance ------------------------------
(***************************************************************************)
(* The allowance of a provider's account, and who spends it                *)
(* (use_cases/provider_budget.py, its wiring in router.py, and the part of *)
(* a discovery cycle in use_cases/capability_discovery.py that asks before *)
(* it spends).  Requests and probes are counted in the state file before   *)
(* they leave; discovery may have a share of the allowance and no more.    *)
(* A refresh asks the provider for the allowance, without holding anything *)
(* while it waits; the operator may change the account meanwhile.          *)
(***************************************************************************)
EXTENDS Naturals

CONSTANTS
    Weights,     \* burn weights of the models that draw on the account
    Accounts,    \* keys the operator may configure
    Grants,      \* what the provider grants each: [share, period, of], share = PROBE_BUDGET_SHARE of it
    Nobody,
    MaxDays,     \* bound of the days
    MaxSpend     \* bound of what is spent

ASSUME AllowanceGrants ==
    /\ Weights \subseteq Nat
    /\ Grants \in [Accounts -> [share : Nat, period : {"day", "month"}, of : Accounts]]
    /\ \A k \in Accounts : Grants[k].of = k

VARIABLES
    today,
    account,     \* the key configured; whether its change is still to be told to the state
    file,        \* the runtime state: [budget, meter, marker]
    cycle,       \* the discovery cycle: [stage, weight, state]
    refresh,     \* the budget refresh in progress: [on, knew, found], and whether a change of key
                 \* was told to the state after it began (stale)
    spent,       \* what left in the window of each schedule: this day, this month (history)
    base,        \* how much of the window's a change of schedule cut off the meter (history)
    over         \* discovery probes sent past the share since the last change (history)

allowanceVars == <<today, account, file, cycle, refresh, spent, base, over>>

NoBudget == [share |-> 0, period |-> "day", of |-> Nobody]
NoMeter == [window |-> <<"none", 0>>, spent |-> 0]
NoCycle == [stage |-> "idle", weight |-> 0, state |-> NoMeter]
NotRefreshing == [on |-> FALSE, knew |-> NoBudget, found |-> NoBudget, stale |-> FALSE]

------------------------------------------------------------------------------
(* The budget and the meter.                                               *)

budget_window(period) == <<period, IF period = "month" THEN 0 ELSE today>>

\* A pool without a budget is metered by the day.
_current_window(budget) == budget_window(budget.period)

\* A record of another window reads as empty.
provider_spend(f) == IF f.meter.window = _current_window(f.budget) THEN f.meter.spent ELSE 0

record_provider_spend(f, amount) ==
    [f EXCEPT !.meter = [window |-> _current_window(f.budget), spent |-> provider_spend(f) + amount]]

probing_is_within_budget(f) == f.budget = NoBudget \/ provider_spend(f) < f.budget.share

\* Counted before the call, whatever becomes of it; the window is the stored budget's.
record_upstream_spend(amount) ==
    /\ spent.month + amount <= MaxSpend
    /\ file' = record_provider_spend(file, amount)
    /\ spent' = [day |-> spent.day + amount, month |-> spent.month + amount]

\* The state file gets the budget b.
StoreBudget(b) ==
    /\ file' = [file EXCEPT !.budget = b]
    /\ base' = IF b.period = file.budget.period THEN base ELSE spent[b.period]
    /\ over' = IF b = file.budget THEN over ELSE 0

\* A request is sent, or a probe that asks nobody: a benchmark, a canary, a quota probe.
Call(amount) == record_upstream_spend(amount) /\ UNCHANGED <<today, account, cycle, refresh, base, over>>

------------------------------------------------------------------------------
(* The budget refresh and the change of account.                           *)

\* resolve_budget asks with the key configured now; what was known stands in for no answer.
RefreshRead ==
    /\ ~refresh.on
    /\ \E found \in {Grants[account.key], file.budget} :
          refresh' = [on |-> TRUE, knew |-> file.budget, found |-> found, stale |-> FALSE]
    /\ UNCHANGED <<today, account, file, cycle, spent, base, over>>

\* Written only if it differs from what the refresh read at its start.
RefreshStore ==
    /\ refresh.on /\ refresh' = NotRefreshing
    /\ IF refresh.found = refresh.knew THEN UNCHANGED <<file, base, over, account>>
       ELSE StoreBudget(refresh.found) /\ account' = [account EXCEPT !.raced = refresh.stale]
    /\ UNCHANGED <<today, cycle, spent>>

\* The new key is in place before the budget of the old one is forgotten.
store_provider_key(k) ==
    /\ ~account.changing /\ k # account.key
    /\ account' = [account EXCEPT !.key = k, !.changing = TRUE]
    /\ UNCHANGED <<today, file, cycle, refresh, spent, base, over>>

drop_provider_budget_in_state == NoBudget

invalidate_provider_budget ==
    /\ account.changing
    /\ StoreBudget(drop_provider_budget_in_state)
    /\ account' = [account EXCEPT !.changing = FALSE, !.raced = FALSE]
    /\ refresh' = [refresh EXCEPT !.stale = refresh.on]
    /\ UNCHANGED <<today, cycle, spent>>

------------------------------------------------------------------------------
(* The discovery cycle, as far as the allowance goes.                      *)

StartCycle ==
    /\ cycle.stage = "idle" /\ cycle' = [cycle EXCEPT !.stage = "model"]
    /\ UNCHANGED <<today, account, file, refresh, spent, base, over>>

\* The next model, or the end: the state is read once more for the summary.
NextModel ==
    /\ cycle.stage = "model"
    /\ \/ \E w \in Weights : cycle' = [cycle EXCEPT !.stage = "check", !.weight = w]
       \/ cycle' = [stage |-> "mark", weight |-> 0, state |-> file]
    /\ UNCHANGED <<today, account, file, refresh, spent, base, over>>

\* Mutant: nothing is asked between the probes of one model.
ProbeAgain == cycle' = [cycle EXCEPT !.stage = "send"]

\* Before each probe, of the state as it is then.
CheckEach == cycle' = [cycle EXCEPT !.stage = "check"]

\* The rest of a window whose share is spent belongs to requests.
CheckBudget ==
    /\ cycle.stage = "check"
    /\ cycle' = IF probing_is_within_budget(file) THEN [cycle EXCEPT !.stage = "send"]
                ELSE [cycle EXCEPT !.stage = "model", !.weight = 0]
    /\ UNCHANGED <<today, account, file, refresh, spent, base, over>>

\* The pacer's turn has come and the provider admits the call.
SpendProbe ==
    /\ cycle.stage = "send"
    /\ record_upstream_spend(cycle.weight)
    /\ over' = IF probing_is_within_budget(file) THEN over ELSE over + 1
    /\ CheckEach
    /\ UNCHANGED <<today, account, refresh, base>>

\* The call is not admitted, or the model is done with, or it was benched by the answer.
SkipProbe ==
    /\ cycle.stage \in {"check", "send"}
    /\ \E to \in {"check", "model"} : cycle' = [cycle EXCEPT !.stage = to, !.weight = IF to = "model" THEN 0 ELSE @]
    /\ UNCHANGED <<today, account, file, refresh, spent, base, over>>

\* Only the summary of what was read is written.
write_auto_benchmark_state(f, state) == [f EXCEPT !.marker = TRUE]

WriteMarker ==
    /\ cycle.stage = "mark"
    /\ file' = write_auto_benchmark_state(file, cycle.state)
    /\ cycle' = NoCycle
    /\ UNCHANGED <<today, account, refresh, spent, base, over>>

\* The server is restarted: what it had in hand is gone.
Restart ==
    /\ cycle' = NoCycle /\ refresh' = NotRefreshing
    /\ UNCHANGED <<today, account, file, spent, base, over>>

\* A day ends, within one month.
DayEnds ==
    /\ today < MaxDays /\ today' = today + 1
    /\ spent' = [spent EXCEPT !.day = 0]
    /\ IF file.budget.period = "day" THEN base' = 0 /\ over' = 0 ELSE UNCHANGED <<base, over>>
    /\ UNCHANGED <<account, file, cycle, refresh>>

AllowanceInit ==
    /\ today = 0
    /\ account \in [key : Accounts, changing : {FALSE}, raced : {FALSE}]
    /\ file = [budget |-> NoBudget, meter |-> NoMeter, marker |-> FALSE]
    /\ cycle = NoCycle /\ refresh = NotRefreshing
    /\ spent = [day |-> 0, month |-> 0] /\ base = 0 /\ over = 0

AllowanceNext ==
    \/ \E amount \in Weights : Call(amount)
    \/ RefreshRead \/ RefreshStore \/ invalidate_provider_budget
    \/ \E k \in Accounts : store_provider_key(k)
    \/ StartCycle \/ NextModel \/ CheckBudget \/ SpendProbe \/ SkipProbe \/ WriteMarker
    \/ Restart \/ DayEnds

AllowanceSpec == AllowanceInit /\ [][AllowanceNext]_allowanceVars

------------------------------------------------------------------------------
(* Properties.                                                             *)

\* Discovery sends at most one probe past its share of a window's allowance, however many requests
\* spend from it between the check and the probe (capability_discovery.py: checked per probe).
StaysInShare == over <= 1

\* The meter shows every call that left in its window since its schedule last changed, and never
\* more than left in it: no writer of the state file loses a call that another has counted.
MeterCountsEveryCall ==
    provider_spend(file) \in (spent[file.budget.period] - base)..spent[file.budget.period]

\* The budget probing is held to is the configured account's once a change of key is through, unless
\* a refresh that began before the change wrote after it.
BudgetOfAccount ==
    file.budget # NoBudget /\ ~account.changing /\ ~account.raced => file.budget.of = account.key

\* Discovery spends at most its share of what the provider grants the key that is configured, by a
\* meter that shows every call (capability_discovery.py, provider_budget.py).
AllowanceHolds == StaysInShare /\ MeterCountsEveryCall /\ BudgetOfAccount
=============================================================================
