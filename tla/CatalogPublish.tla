-------------------------- MODULE CatalogPublish --------------------------
(***************************************************************************)
(* catalog.json, the models the router may use.  A refresh (the periodic   *)
(* loop, a request that finds the file expired, the Refresh button, a      *)
(* credential change, `ficelle --refresh`) asks every provider for its     *)
(* listing, decides what its answers may do to the catalog in use, and     *)
(* publishes (use_cases/catalog_refresh.py, router.py).  Only the two      *)
(* writes of a publication are under the catalog lock.  A licence change   *)
(* has a refresh of its own, with rules of its own.                        *)
(*                                                                         *)
(* The rows of a source are abstracted to the account they were listed     *)
(* for.  Every source is one that needs a key.  That a cached row still    *)
(* passes today's policy is abstracted to its source being enabled.        *)
(***************************************************************************)
EXTENDS Naturals, FiniteSets

CONSTANTS
    Sources,
    Accounts,
    NoKey,         \* no credential is configured
    NoRows,        \* the source has no rows
    NoIds,         \* the file records no credential identities
    Refreshers,    \* threads and processes that may refresh
    Licence,       \* the refresh a licence change starts, at most one at a time
    HasLicence,    \* whether licences change in this instance
    NoOne,
    KeysMove,      \* keys may change while a build is under way
    Losses,        \* what state.json may lose: nothing, or everything
    MaxBuilds,     \* builds (bound)
    MaxCrashes,    \* refreshes that raise or die (bound)
    MaxChanges     \* changes of the configuration (bound)

Workers == Refreshers \cup (IF HasLicence THEN {Licence} ELSE {})

\* What an instance may be given.
Parts ==
    /\ Licence \notin Refreshers /\ NoOne \notin Refreshers \cup {Licence}
    /\ {NoKey, NoRows} \cap Accounts = {} /\ NoIds \notin [Sources -> Accounts \cup {NoKey}]
    /\ {HasLicence, KeysMove, Losses} \subseteq BOOLEAN /\ {MaxBuilds, MaxCrashes, MaxChanges} \subseteq Nat

Gens == 0..MaxBuilds                       \* 0: no catalog
Classes == {"disabled", "credentials_unavailable", "transient_error", "success_empty", "success_nonempty"}
Keys == [Sources -> Accounts \cup {NoKey}]
Rows == [Sources -> Accounts \cup {NoRows}]
Pendings == [Sources -> Gens]              \* 0: no empty listing observed
Catalogs == [gen : Gens, variant : BOOLEAN, ids : Keys \cup {NoIds}, rows : Rows]
Steps == {"idle", "fetching", "built", "decided", "writing", "storing"}

VARIABLES
    enabled, keys, entitled,   \* the configuration, the credentials, the licence
    file,                      \* catalog.json
    state,                     \* of state.json: the pending empty listings, and whose sizes it records
    lock,                      \* holder of the catalog lock
    job,                       \* [Workers -> the refresh under way]
    emptied,                   \* sources whose last answer, in what was published, was an empty listing
    replaced,                  \* [generation -> the generation it replaced]
    builds, crashes, changes

publishVars == <<enabled, keys, entitled, file, state, lock, job, emptied, replaced, builds, crashes, changes>>
config == <<enabled, keys, entitled, changes>>

NoCatalog == [gen |-> 0, variant |-> FALSE, ids |-> NoIds, rows |-> [s \in Sources |-> NoRows]]
NoState == [pending |-> [s \in Sources |-> 0], counts |-> 0, previous |-> 0]
Idle == [step |-> "idle", on |-> [s \in Sources |-> TRUE], previous |-> NoCatalog, old |-> 0,
         class |-> [s \in Sources |-> "disabled"], asked |-> [s \in Sources |-> NoKey], next |-> NoCatalog,
         before |-> NoState.pending, pending |-> NoState.pending]

------------------------------------------------------------------------------
(* What a finished build is allowed to do (decide_catalog_publish).        *)

Of(class, c) == {s \in Sources : class[s] = c}
Listing(rows) == {s \in Sources : rows[s] # NoRows}

\* The account of a source is not the one the cached rows were listed for.
Changed(previous, ids) ==
    IF previous.ids = NoIds THEN {} ELSE {s \in Sources : previous.ids[s] # ids[s]}

\* Mutant: the rows of the account before are still last-known-good.
BaselineOfAny(previous, ids) == previous.rows

\* What the decision takes for the rows there were.
Baseline(previous, ids) ==
    [s \in Sources |-> IF s \in Changed(previous, ids) THEN NoRows ELSE previous.rows[s]]

\* Empty listings that are the first of their source, and those that confirm one.
FirstEmpty(class, cached, pending, gen) ==
    {s \in Of(class, "success_empty") \cap Listing(cached) : pending[s] \in {0, gen}}
Confirmed(class, cached, pending, gen) ==
    (Of(class, "success_empty") \cap Listing(cached)) \ FirstEmpty(class, cached, pending, gen)

\* The observations after this build.
Ledger(class, cached, pending, gen) ==
    [s \in Sources |->
        IF \/ class[s] \in {"success_nonempty", "disabled", "credentials_unavailable"}
           \/ s \in Confirmed(class, cached, pending, gen) THEN 0
        ELSE IF s \in FirstEmpty(class, cached, pending, gen) THEN gen ELSE pending[s]]

Policy(on, s) == on[s]

Preserved(class, cached, pending, gen, on) ==
    {s \in Listing(cached) \cap (Of(class, "transient_error") \cup FirstEmpty(class, cached, pending, gen)) :
        Policy(on, s)}

\* Mutant: only a first empty listing keeps its rows.
MergedEmpties(class, cached, pending, gen, on, fresh) ==
    [s \in Sources |-> IF fresh[s] = NoRows /\ s \in Preserved(class, cached, pending, gen, on)
                                                     \ Of(class, "transient_error")
                       THEN cached[s] ELSE fresh[s]]

\* The build plus the last-known-good rows.
Merged(class, cached, pending, gen, on, fresh) ==
    [s \in Sources |-> IF fresh[s] = NoRows /\ s \in Preserved(class, cached, pending, gen, on)
                       THEN cached[s] ELSE fresh[s]]

\* Nothing was accepted, and all there is belongs to providers that failed.
RejectedEmpty(class, cached, pending, gen, on, fresh) ==
    /\ Listing(fresh) = {} /\ Listing(cached) # {}
    /\ Listing(cached) \subseteq Of(class, "transient_error")
    /\ Preserved(class, cached, pending, gen, on) = Listing(cached)

\* The licence refresh has no ledger: it keeps the rows of what failed, and of nothing else.
\* The cached rows are filtered, when they are read and after the build, to what can be invoked.
Invokable(rows, on) == [s \in Sources |-> IF on[s] /\ keys[s] # NoKey THEN rows[s] ELSE NoRows]
LicenceMerged(class, cached, on, fresh) ==
    [s \in Sources |->
        IF fresh[s] = NoRows /\ class[s] \in {"transient_error", "disabled", "credentials_unavailable"}
        THEN Invokable(cached, on)[s] ELSE fresh[s]]

------------------------------------------------------------------------------
(* A refresh.                                                              *)

\* A refresh: nothing is locked while it reads the catalog it may replace.
StartRefresh(w) ==
    /\ w \in Refreshers
    /\ job' = [job EXCEPT ![w] = [Idle EXCEPT !.step = "fetching", !.on = enabled, !.previous = file,
                                              !.next = [NoCatalog EXCEPT !.variant = entitled]]]
    /\ UNCHANGED <<config, file, state, lock, emptied, replaced, builds, crashes>>

\* A request finds a catalog of the other licence variant; the flight lock admits one.
StartLicence(w) ==
    /\ w = Licence /\ Listing(file.rows) # {} /\ file.variant # entitled
    /\ job' = [job EXCEPT ![w] = [Idle EXCEPT !.step = "fetching", !.on = enabled,
                                              !.previous = [file EXCEPT !.rows = Invokable(file.rows, enabled)],
                                              !.next = [NoCatalog EXCEPT !.variant = entitled]]]
    /\ UNCHANGED <<config, file, state, lock, emptied, replaced, builds, crashes>>

\* What the providers may answer: every enabled one with a key is asked.
Answers(on) ==
    {class \in [Sources -> Classes] : \A s \in Sources :
        class[s] \in IF ~on[s] THEN {"disabled"}
                     ELSE IF keys[s] = NoKey THEN {"credentials_unavailable"}
                     ELSE {"transient_error", "success_empty", "success_nonempty"}}

\* A listing that is not empty may still hold nothing the router accepts.
Accepted(class) ==
    {rows \in Rows : \A s \in Sources :
        rows[s] \in {NoRows} \cup (IF class[s] = "success_nonempty" THEN {keys[s]} ELSE {})}

Fetch(w) ==
    /\ job[w].step = "fetching" /\ builds < MaxBuilds
    /\ \E class \in Answers(job[w].on) : \E fresh \in Accepted(class) :
        /\ job' = [job EXCEPT ![w] = [job[w] EXCEPT !.step = "built", !.class = class, !.asked = keys,
                                                    !.next = [job[w].next EXCEPT !.gen = builds + 1,
                                                                                 !.rows = fresh]]]
    /\ builds' = builds + 1
    /\ UNCHANGED <<config, file, state, lock, emptied, replaced, crashes>>

\* The identities are resolved, the ledger is read, and the decision is made.
Decide(w) ==
    LET j == job[w]
        cached == Baseline(j.previous, keys)
        pending == state.pending
        gen == j.next.gen
    IN
    /\ j.step = "built" /\ w \in Refreshers
    /\ job' = [job EXCEPT ![w] =
            [j EXCEPT !.step = IF RejectedEmpty(j.class, cached, pending, gen, j.on, j.next.rows)
                               THEN "storing" ELSE "decided",
                      !.before = pending, !.pending = Ledger(j.class, cached, pending, gen),
                      !.next = [j.next EXCEPT !.ids = keys,
                                              !.rows = Merged(j.class, cached, pending, gen, j.on, j.next.rows)]]]
    /\ UNCHANGED <<config, file, state, lock, emptied, replaced, builds, crashes>>

DecideLicence(w) ==
    /\ job[w].step = "built" /\ w = Licence
    /\ LET j == job[w]
           rows == LicenceMerged(j.class, j.previous.rows, j.on, j.next.rows)
       IN  job' = [job EXCEPT ![w] = [j EXCEPT !.step = "decided", !.next = [j.next EXCEPT !.rows = rows]]]
    /\ UNCHANGED <<config, file, state, lock, emptied, replaced, builds, crashes>>

\* The licence refresh publishes only over the catalog it read.
Stays(w) == w = Licence => file.gen = job[w].previous.gen /\ file.variant = job[w].previous.variant

\* Under the lock: the sizes are read off the outgoing file, then it is replaced.
PublishFile(w) ==
    /\ job[w].step = "decided" /\ lock = NoOne /\ Stays(w)
    /\ lock' = w
    /\ file' = job[w].next
    /\ replaced' = [replaced EXCEPT ![job[w].next.gen] = file.gen]
    /\ job' = [job EXCEPT ![w] = [job[w] EXCEPT !.step = "writing", !.old = file.gen]]
    /\ emptied' = (emptied \cap Of(job[w].class, "transient_error")) \cup Of(job[w].class, "success_empty")
    /\ UNCHANGED <<config, state, builds, crashes>>

Overtaken(w) ==
    /\ job[w].step = "decided" /\ lock = NoOne /\ ~Stays(w)
    /\ job' = [job EXCEPT ![w] = Idle]
    /\ UNCHANGED <<config, file, state, lock, emptied, replaced, builds, crashes>>

Sizes(w) == [state EXCEPT !.previous = job[w].old, !.counts = job[w].next.gen]

\* Still under the lock: the state says which catalog the sizes belong to.
PublishState(w) ==
    /\ job[w].step = "writing"
    /\ state' = Sizes(w)
    /\ lock' = NoOne
    /\ job' = [job EXCEPT ![w] = IF w = Licence THEN Idle ELSE [job[w] EXCEPT !.step = "storing"]]
    /\ UNCHANGED <<config, file, emptied, replaced, builds, crashes>>

\* The whole ledger is written, when this refresh changed it.
StorePending(w) ==
    /\ job[w].step = "storing"
    /\ state' = IF job[w].pending = job[w].before THEN state ELSE [state EXCEPT !.pending = job[w].pending]
    /\ job' = [job EXCEPT ![w] = Idle]
    /\ UNCHANGED <<config, file, lock, emptied, replaced, builds, crashes>>

\* A write fails, or the process ends; the lock goes with it.
Crash(w) ==
    /\ job[w].step # "idle" /\ crashes < MaxCrashes
    /\ job' = [job EXCEPT ![w] = Idle]
    /\ lock' = IF lock = w THEN NoOne ELSE lock
    /\ crashes' = crashes + 1
    /\ UNCHANGED <<config, file, state, emptied, replaced, builds>>

\* Mutant: the state is not asked which catalog its sizes belong to.
PreviousSizesOfAny(gen) == state.previous

\* What a reader takes for the sizes before a catalog it holds; 0 is no baseline.
PreviousSizes(gen) == IF state.counts = gen THEN state.previous ELSE 0

------------------------------------------------------------------------------
(* The configuration.                                                      *)

Change == changes < MaxChanges /\ changes' = changes + 1

ToggleSource(s) ==
    /\ Change /\ enabled' = [enabled EXCEPT ![s] = ~@]
    /\ UNCHANGED <<keys, entitled, file, state, lock, job, emptied, replaced, builds, crashes>>

ChangeKey(s, k) ==
    /\ Change /\ k # keys[s]
    /\ KeysMove \/ \A w \in Workers : job[w].step \notin {"fetching", "built"}
    /\ keys' = [keys EXCEPT ![s] = k]
    /\ UNCHANGED <<enabled, entitled, file, state, lock, job, emptied, replaced, builds, crashes>>

Relicense ==
    /\ HasLicence /\ Change /\ entitled' = ~entitled
    /\ UNCHANGED <<enabled, keys, file, state, lock, job, emptied, replaced, builds, crashes>>

LoseState ==
    /\ Losses /\ Change /\ state # NoState /\ state' = NoState
    /\ UNCHANGED <<enabled, keys, entitled, file, lock, job, emptied, replaced, builds, crashes>>

PublishInit ==
    /\ enabled = [s \in Sources |-> TRUE] /\ keys \in [Sources -> Accounts] /\ entitled = FALSE
    /\ file = NoCatalog /\ state = NoState /\ lock = NoOne
    /\ job = [w \in Workers |-> Idle]
    /\ emptied = {} /\ replaced = [g \in Gens |-> 0]
    /\ builds = 0 /\ crashes = 0 /\ changes = 0

PublishNext ==
    \/ \E w \in Workers :
        \/ job[w].step = "idle" /\ (StartRefresh(w) \/ StartLicence(w))
        \/ Fetch(w) \/ Decide(w) \/ DecideLicence(w)
        \/ PublishFile(w) \/ Overtaken(w) \/ PublishState(w) \/ StorePending(w)
        \/ Crash(w)
    \/ \E s \in Sources : ToggleSource(s) \/ \E k \in Accounts \cup {NoKey} : ChangeKey(s, k)
    \/ Relicense \/ LoseState

PublishSpec == PublishInit /\ [][PublishNext]_publishVars

------------------------------------------------------------------------------
(* Properties.                                                             *)

\* A type invariant: one lock holder between the two writes of a publication.
PublishTypeOK ==
    /\ enabled \in [Sources -> BOOLEAN] /\ keys \in Keys /\ entitled \in BOOLEAN
    /\ file \in Catalogs
    /\ state \in [pending : Pendings, counts : Gens, previous : Gens]
    /\ lock \in Workers \cup {NoOne}
    /\ job \in [Workers -> [step : Steps, on : [Sources -> BOOLEAN], previous : Catalogs, old : Gens,
                            class : [Sources -> Classes], asked : Keys, next : Catalogs, before : Pendings, pending : Pendings]]
    /\ emptied \subseteq Sources /\ replaced \in [Gens -> Gens]
    /\ builds \in 0..MaxBuilds /\ crashes \in 0..MaxCrashes /\ changes \in 0..MaxChanges
    /\ \A w \in Workers : job[w].step = "writing" <=> lock = w

\* w replaces the file, and its build says c of s, whose rows are of the account it asked with.
Publishes(w, s, c) ==
    /\ lock = NoOne /\ lock' = w /\ job[w].class[s] = c
    /\ file.rows[s] = job[w].asked[s]

\* An outage is no removal: whatever is published, the rows that the catalog in use holds
\* for a provider whose listing could not be fetched stay.
OutageKept(w, s) == Publishes(w, s, "transient_error") => file'.rows[s] = file.rows[s]

\* Rows go for an empty listing only when the listing before it was empty too.
RemovedTwice(w, s) == Publishes(w, s, "success_empty") /\ file'.rows[s] = NoRows => s \in emptied

OutageKeepsRows == [][\A w \in Workers, s \in Sources : OutageKept(w, s)]_publishVars
RemovalTwice == [][\A w \in Workers, s \in Sources : RemovedTwice(w, s)]_publishVars

\* What holds of them.  The first, of the licence refresh next to any other and of a refresher that
\* no other overlaps; the second, of such a refresher until one of its refreshes ends halfway.
Alone(w) == w \in Refreshers /\ Workers = {w}
RowsOutlive ==
    [][\A w \in Workers, s \in Sources :
        /\ w = Licence \/ Alone(w) => OutageKept(w, s)
        /\ Alone(w) /\ crashes = 0 => RemovedTwice(w, s)]_publishVars

\* A catalog that records the accounts it was listed for holds no rows of another account,
\* so that a change of key is noticed by comparing.
RowsAreOfAccount ==
    file.ids # NoIds => \A s \in Sources : file.rows[s] \in {NoRows, file.ids[s]}

\* Whatever failed between the two writes of a publication, and whenever a reader looks, the
\* sizes it takes for those before a catalog are of the catalog that this one replaced.
BaselineIsPrevious == \A g \in Gens \ {0} : PreviousSizes(g) \in {0, replaced[g]}
==============================================================================
