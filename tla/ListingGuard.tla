--------------------------- MODULE ListingGuard ---------------------------
(***************************************************************************)
(* An explicit refresh removes from the user's orders the model ids their  *)
(* provider no longer lists.  A listing may be truncated, so the guard     *)
(* remembers the largest one each provider has shown, until it is old and  *)
(* enough refreshes have been below it (router.py, prune_stale_profile_    *)
(* models and what it calls).  What it removed can be undone from the      *)
(* audit log, and the dashboard announces it once.                         *)
(*                                                                         *)
(* One provider, since every decision is per provider, and one order.  Its *)
(* models are the numbers 1..n; a listing of k models is 1..k.  Times are  *)
(* ages, counted up to the age at which a peak may expire.                 *)
(***************************************************************************)
EXTENDS Naturals, Sequences

CONSTANTS
    N,             \* models the provider offers at first
    Sizes,         \* sizes of the listings it may give, in 1..N
    Refreshers,    \* explicit refreshes: the loop, the button, a key change, --refresh
    TTL,           \* age at which a peak may expire, above 0 (bound on ages)
    LowRefreshes,  \* refreshes that have to be below it (PROVIDER_LISTING_PEAK_LOW_REFRESHES)
    MaxPrunes,     \* prunes (bound)
    MaxSaves       \* orders the user saves (bound)

Ids == 1..N
Counts == 0..N
Ages == 0..TTL
\* raw 0: no listing.  base: what the state records as the listing before, 0 if nothing.
Catalogs == [raw : Counts, known : SUBSET Ids, base : Counts]
Peaks == [raw : Counts, age : Ages, low : 0..LowRefreshes]
Steps == {"idle", "asking", "judging", "recording", "pruning", "announcing"}

VARIABLES
    offers,      \* how many models the provider has
    settled,     \* it has shrunk for good, and answers in full from here on
    file,        \* the catalog in use
    peak,        \* the largest listing remembered, in state.json
    order,       \* the ids of the user's order
    job,         \* [Refreshers -> the refresh under way]
    audits,      \* [the prunes recorded -> the order before each]
    announced,   \* last_profile_prune: the prune the dashboard announces, or 0
    undoing,     \* the prune being undone, between its two writes, or 0
    shown,       \* [size -> age of the last listing of that size a refresh took in]
    saves

vars == <<offers, settled, file, peak, order, job, audits, announced, undoing, shown, saves>>

NoCatalog == [raw |-> 0, known |-> {}, base |-> 0]
NoPeak == [raw |-> 0, age |-> TTL, low |-> 0]
Idle == [step |-> "idle", previous |-> NoCatalog, seen |-> NoCatalog, prunable |-> FALSE, audit |-> 0]
Larger(a, b) == IF a > b THEN a ELSE b

------------------------------------------------------------------------------
(* The guard.                                                              *)

\* Mutant: a peak never expires.
ExpiredNever(p) == p.low >= LowRefreshes /\ p.age >= TTL + 1

Expired(p) == p.low >= LowRefreshes /\ p.age >= TTL

Trusted(p) == IF Expired(p) THEN 0 ELSE p.raw

\* Mutant: only the refresh before counts.
PrunableByLast(raw, previous, p) == raw > 0 /\ raw * 2 >= previous

\* A listing this long is long enough to conclude from.
Prunable(raw, previous, p) == raw > 0 /\ raw * 2 >= Larger(previous, Trusted(p))

\* The memory after a refresh that listed raw over a catalog of previous.
Recorded(p, raw, previous) ==
    LET observed == Larger(raw, previous) IN
    IF raw = 0 THEN p
    ELSE IF observed >= p.raw \/ Expired(p) THEN [raw |-> observed, age |-> 0, low |-> 0]
    ELSE [p EXCEPT !.low = IF @ < LowRefreshes THEN @ + 1 ELSE @]

------------------------------------------------------------------------------
(* The provider and the catalog.                                           *)

\* What a rebuild publishes: a provider that failed keeps its rows.
Published(answer) ==
    [raw |-> answer, known |-> IF answer = 0 THEN file.known ELSE 1..answer, base |-> file.raw]

\* 0: it failed.
Answers == IF settled THEN {offers} ELSE {0} \cup {k \in Sizes : k <= offers}

\* The startup warm, or a request that finds the catalog expired: no prune, no memory.
Reload ==
    /\ ~settled
    /\ \E answer \in Answers : file' = Published(answer)
    /\ UNCHANGED <<offers, settled, peak, order, job, audits, announced, undoing, shown, saves>>

\* The provider retires models for good.
Shrink ==
    /\ ~settled /\ \A r \in Refreshers : job[r] = Idle
    /\ settled' = TRUE /\ \E k \in Sizes : k <= offers /\ offers' = k
    /\ UNCHANGED <<file, peak, order, job, audits, announced, undoing, shown, saves>>

Age(a) == IF a < TTL THEN a + 1 ELSE a
Tick ==
    /\ peak' = [peak EXCEPT !.age = Age(@)]
    /\ shown' = [k \in 1..N |-> Age(shown[k])]
    /\ UNCHANGED <<offers, settled, file, order, job, audits, announced, undoing, saves>>

------------------------------------------------------------------------------
(* An explicit refresh.                                                    *)

Begin(r) ==
    /\ job[r].step = "idle"
    /\ job' = [job EXCEPT ![r] = [Idle EXCEPT !.step = "asking", !.previous = file]]
    /\ UNCHANGED <<offers, settled, file, peak, order, audits, announced, undoing, shown, saves>>

Refresh(r) ==
    /\ job[r].step = "asking"
    /\ \E answer \in Answers :
        /\ file' = Published(answer)
        /\ job' = [job EXCEPT ![r].step = "judging", ![r].seen = file']
    /\ UNCHANGED <<offers, settled, peak, order, audits, announced, undoing, shown, saves>>

\* Decide first, record after.
Judge(r) ==
    /\ job[r].step = "judging"
    /\ job' = [job EXCEPT ![r].step = "recording",
                          ![r].prunable = Prunable(job[r].seen.raw, job[r].previous.raw, peak)]
    /\ UNCHANGED <<offers, settled, file, peak, order, audits, announced, undoing, shown, saves>>

Record(r) ==
    LET raw == job[r].seen.raw
        previous == job[r].previous.raw
    IN
    /\ job[r].step = "recording"
    /\ peak' = Recorded(peak, raw, previous)
    /\ shown' = IF raw = 0 THEN shown
                ELSE [k \in 1..N |-> IF k \in {raw, previous} THEN 0 ELSE shown[k]]
    /\ job' = [job EXCEPT ![r] = IF job[r].prunable THEN [@ EXCEPT !.step = "pruning"] ELSE Idle]
    /\ UNCHANGED <<offers, settled, file, order, audits, announced, undoing, saves>>

\* Inside the configuration's own update; then the audit entry.
Prune(r) ==
    LET gone == order \ job[r].seen.known IN
    /\ job[r].step = "pruning" /\ (gone # {} => Len(audits) < MaxPrunes)
    /\ order' = order \ gone
    /\ IF gone = {} THEN job' = [job EXCEPT ![r] = Idle] /\ UNCHANGED audits
       ELSE /\ audits' = Append(audits, order)
            /\ job' = [job EXCEPT ![r].step = "announcing", ![r].audit = Len(audits) + 1]
    /\ UNCHANGED <<offers, settled, file, peak, announced, undoing, shown, saves>>

\* The dashboard announces the entry this refresh wrote.
Announce(r) ==
    /\ job[r].step = "announcing"
    /\ announced' = job[r].audit
    /\ job' = [job EXCEPT ![r] = Idle]
    /\ UNCHANGED <<offers, settled, file, peak, order, audits, undoing, shown, saves>>

------------------------------------------------------------------------------
(* The user.                                                               *)

\* An order may hold what the catalog lists and what it held before.
Save ==
    /\ saves < MaxSaves /\ saves' = saves + 1
    /\ \E ids \in SUBSET (file.known \cup order) : order' = ids
    /\ UNCHANGED <<offers, settled, file, peak, job, audits, announced, undoing, shown>>

Undo(a) ==
    /\ saves < MaxSaves /\ saves' = saves + 1
    /\ undoing = 0 /\ undoing' = a
    /\ order' = audits[a]
    /\ UNCHANGED <<offers, settled, file, peak, job, audits, announced, shown>>

\* The announcement is that of the prune just undone.
Retracts == announced = undoing

Retract ==
    /\ undoing # 0 /\ undoing' = 0
    /\ announced' = IF Retracts THEN 0 ELSE announced
    /\ UNCHANGED <<offers, settled, file, peak, order, job, audits, shown, saves>>

Init ==
    /\ offers = N /\ settled = FALSE /\ file = NoCatalog /\ peak = NoPeak
    /\ order = Ids /\ job = [r \in Refreshers |-> Idle]
    /\ audits = <<>> /\ announced = 0 /\ undoing = 0
    /\ shown = [k \in 1..N |-> TTL] /\ saves = 0

Step(r) == Begin(r) \/ Refresh(r) \/ Judge(r) \/ Record(r) \/ Prune(r) \/ Announce(r)
Next ==
    \/ Reload \/ Shrink \/ Tick \/ Save \/ Retract
    \/ \E r \in Refreshers : Step(r)
    \/ \E a \in 1..Len(audits) : Undo(a)

\* Time passes, and the periodic loop keeps refreshing.
Fair == WF_vars(Tick) /\ \A r \in Refreshers : WF_vars(Step(r))
Spec == Init /\ [][Next]_vars
FairSpec == Spec /\ Fair

------------------------------------------------------------------------------
(* Properties.                                                             *)

\* A type invariant: every announcement is of a prune in the audit log.
TypeOK ==
    /\ offers \in 1..N /\ settled \in BOOLEAN /\ file \in Catalogs /\ peak \in Peaks
    /\ order \subseteq Ids
    /\ job \in [Refreshers -> [step : Steps, previous : Catalogs, seen : Catalogs, prunable : BOOLEAN,
                            audit : 0..Len(audits)]]
    /\ Len(audits) <= MaxPrunes /\ \A a \in 1..Len(audits) : audits[a] \subseteq Ids
    /\ announced \in 0..Len(audits) /\ undoing \in 0..Len(audits)
    /\ shown \in [1..N -> Ages] /\ saves \in 0..MaxSaves

\* The sizes the refreshes were shown recently.
Recent == {k \in 1..N : shown[k] < TTL}

\* A prune concludes from no listing shorter than half of one that was shown recently.
PrunesInView ==
    [][\A r \in Refreshers :
        job[r].step = "judging" /\ job'[r].prunable => \A k \in Recent : job[r].seen.raw * 2 >= k]_vars

\* An undo takes back the announcement of the prune it undoes, and of no other.
UndoSilencesItsOwn ==
    [][announced # 0 /\ announced' = 0 => undoing = announced]_vars

\* A provider that shrank for good does become prunable again.
ShrinkIsPruned == settled ~> order \subseteq 1..offers
==============================================================================
