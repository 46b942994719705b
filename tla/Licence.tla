------------------------------ MODULE Licence ------------------------------
(* The licence facade (license_ops.py) with its callers: the daemon's renewal *)
(* loop, the admin routes and the command line, and the updater that renews  *)
(* a lapsed entitlement before it hands it over.  Nothing here takes a lock: *)
(* every operation reads the cached entitlement, asks the service, and       *)
(* writes what it was told over whatever is cached by then.                  *)
(*                                                                           *)
(* The signed token is the activation it names and when it was signed; it is *)
(* good for Validity ticks.  The pack's own offline grace after that, and a  *)
(* signed status that says the customer stopped paying, are left out.        *)
(* The service is known by its answers: it may be out of reach, it signs for *)
(* an activation it still holds, and it knows a machine by its fingerprint.  *)
EXTENDS Integers, FiniteSets

CONSTANTS
    Procs,          \* the processes that may manage the licence
    Daemon,         \* the one that runs the renewal loop
    Validity,       \* ticks a signed entitlement is good for
    CheckEvery,     \* license_refresh_loop: ticks between two checks
    RetryEvery,     \* ticks before the next try after a failure
    MaxOutage,      \* bound: ticks the service stays out of reach
    MaxTime,        \* bound: the clock
    MaxActs         \* bound: activations

\* A failure at half of the validity leaves time for an outage, and for the tries around it.
ASSUME LicenceTimes ==
    /\ Daemon \in Procs /\ "none" \notin Procs
    /\ {CheckEvery, RetryEvery} \subseteq Nat \ {0} /\ {Validity, MaxOutage} \subseteq Nat
    /\ 2 * (CheckEvery + MaxOutage + RetryEvery) <= Validity + 2

VARIABLES
    clock,
    cache,      \* entitlement.token: a token, or Empty
    machine,    \* machine-id: the process whose candidate was linked, or NoFingerprint
    slots,      \* service: <<activation, fingerprint>>
    outage,     \* service: above 0 the ticks it has been gone, below 0 newly back
    doing,      \* what each process is doing
    wake,       \* when the renewal loop runs next
    given,      \* service: activations handed out so far
    sent        \* ghost: the fingerprints the service was ever sent

licenceVars == <<clock, cache, machine, slots, outage, doing, wake, given, sent>>

Empty == [act |-> 0, issued |-> 0]
NoFingerprint == "none"
Nothing == [kind |-> "none", step |-> "none", cached |-> Empty, fp |-> NoFingerprint,
            token |-> Empty]

Expires(t) == t.issued + Validity

\* is_entitled, on a production build.
Entitled == cache # Empty /\ clock <= Expires(cache)

LicenceInit ==
    /\ clock = 0 /\ cache = Empty /\ machine = NoFingerprint /\ slots = {}
    /\ outage = 0 /\ wake = 0 /\ given = 0
    /\ doing = [p \in Procs |-> Nothing]
    /\ sent = {}

---------------------------------------------------------------------------
(* Time and the service.                                                     *)

\* The loop is prompt, and an operation is short beside a tick (an hour).
LoopIsDue == doing[Daemon].kind = "none" /\ clock >= wake

Tick ==
    /\ clock < MaxTime /\ clock' = clock + 1
    /\ ~LoopIsDue /\ \A p \in Procs : doing[p] = Nothing
    /\ outage <= MaxOutage
    /\ outage' = IF outage = 0 THEN 0 ELSE outage + 1
    /\ UNCHANGED <<cache, machine, slots, doing, wake, given, sent>>

ServiceLeaves ==
    /\ outage = 0 /\ outage' = 1
    /\ UNCHANGED <<clock, cache, machine, slots, doing, wake, given, sent>>

\* Back for longer than one retry.
ServiceReturns ==
    /\ outage > 0 /\ outage' = -(RetryEvery + 1)
    /\ UNCHANGED <<clock, cache, machine, slots, doing, wake, given, sent>>

---------------------------------------------------------------------------
(* The operations, step by step.                                             *)

ServiceSide == UNCHANGED <<clock, slots, outage, given, sent>>
Sets(p, o) == doing' = [doing EXCEPT ![p] = o]
Ends(p) == Sets(p, Nothing)

\* When the loop runs again: sooner after a failure.
LoopSleeps(p, kind, failed) ==
    wake' = IF p = Daemon /\ kind = "renew"
            THEN clock + (IF failed THEN RetryEvery ELSE CheckEvery) ELSE wake

Unoccupied(p) == doing[p].kind = "none"

Activate(p) ==
    /\ Unoccupied(p) /\ given < MaxActs
    /\ Sets(p, [Nothing EXCEPT !.kind = "activate", !.step = "id"])
    /\ UNCHANGED <<cache, machine, wake>> /\ ServiceSide

\* refresh with nothing cached is refused.
Refresh(p) ==
    /\ Unoccupied(p) /\ cache # Empty
    /\ Sets(p, [Nothing EXCEPT !.kind = "refresh", !.step = "id", !.cached = cache])
    /\ UNCHANGED <<cache, machine, wake>> /\ ServiceSide

\* _ensure_live_entitlement: only a lapsed entitlement is refreshed.
EnsureLive(p) ==
    /\ Unoccupied(p) /\ ~Entitled /\ cache # Empty
    /\ Sets(p, [Nothing EXCEPT !.kind = "ensure", !.step = "id", !.cached = cache])
    /\ UNCHANGED <<cache, machine, wake>> /\ ServiceSide

\* refresh_if_due: half of the signed validity has gone.
Due == cache # Empty /\ 2 * clock >= cache.issued + Expires(cache)

RefreshIfDue ==
    /\ LoopIsDue
    /\ IF Due
       THEN /\ Sets(Daemon, [Nothing EXCEPT !.kind = "renew", !.step = "id",
                                            !.cached = cache])
            /\ UNCHANGED wake
       ELSE wake' = clock + CheckEvery /\ UNCHANGED doing
    /\ UNCHANGED <<cache, machine>> /\ ServiceSide

\* With nothing cached the service is not asked.
Deactivate(p) ==
    /\ Unoccupied(p)
    /\ Sets(p, [Nothing EXCEPT !.kind = "deactivate", !.cached = cache,
                               !.step = IF cache = Empty THEN "store" ELSE "id"])
    /\ UNCHANGED <<cache, machine, wake>> /\ ServiceSide

\* load_or_create_machine_fingerprint: an id that is there is used; otherwise
\* a candidate is written beside it, and linked if nobody was first.
ReadId(p) ==
    /\ doing[p].step = "id"
    /\ doing' = IF machine # NoFingerprint
             THEN [doing EXCEPT ![p].fp = machine, ![p].step = "ask"]
             ELSE [doing EXCEPT ![p].step = "link"]
    /\ UNCHANGED <<cache, machine, wake>> /\ ServiceSide

\* Bug for a mutant: the candidate replaces whatever is there.
Replaces(p) == p

Winner(p) == IF machine = NoFingerprint THEN p ELSE machine

LinkId(p) ==
    /\ doing[p].step = "link"
    /\ machine' = Winner(p)
    /\ doing' = [doing EXCEPT ![p].fp = machine', ![p].step = "ask"]
    /\ UNCHANGED <<cache, wake>> /\ ServiceSide

\* The id cannot be written: the operation ends, a deactivation with it.
IdFails(p) ==
    /\ doing[p].step = "link" /\ Ends(p)
    /\ LoopSleeps(p, doing[p].kind, TRUE)
    /\ UNCHANGED <<cache, machine>> /\ ServiceSide

\* The service answers, refuses or cannot be reached.
Asks(p) == doing[p].step = "ask"
Mine(p) == <<doing[p].cached.act, doing[p].fp>>
Reaches(p) == Asks(p) /\ outage <= 0 /\ sent' = sent \cup {doing[p].fp}
Signed(a) == [act |-> a, issued |-> clock]
External == UNCHANGED <<clock, outage>>

ServiceActivates(p) ==
    /\ Reaches(p) /\ doing[p].kind = "activate" /\ given < MaxActs
    /\ given' = given + 1
    /\ slots' = slots \cup {<<given', doing[p].fp>>}
    /\ doing' = [doing EXCEPT ![p].token = Signed(given'), ![p].step = "store"]
    /\ UNCHANGED <<cache, machine, wake>> /\ External

ServiceRenews(p) ==
    /\ Reaches(p) /\ doing[p].kind \in {"refresh", "ensure", "renew"} /\ Mine(p) \in slots
    /\ doing' = [doing EXCEPT ![p].token = Signed(doing[p].cached.act), ![p].step = "store"]
    /\ UNCHANGED <<cache, machine, wake, given, slots>> /\ External

ServiceReleases(p) ==
    /\ Reaches(p) /\ doing[p].kind = "deactivate"
    /\ slots' = slots \ {Mine(p)}
    /\ doing' = [doing EXCEPT ![p].step = "store"]
    /\ UNCHANGED <<cache, machine, wake, given>> /\ External

\* A failure ends the operation; a deactivation goes on without the service.
ServiceFails(p) ==
    /\ Asks(p)
    /\ \/ outage > 0
       \/ doing[p].kind = "activate"
       \/ doing[p].kind \in {"refresh", "ensure", "renew"} /\ Mine(p) \notin slots
    /\ IF doing[p].kind = "deactivate"
       THEN doing' = [doing EXCEPT ![p].step = "store"] /\ UNCHANGED wake
       ELSE Ends(p) /\ LoopSleeps(p, doing[p].kind, TRUE)
    /\ UNCHANGED <<cache, machine>> /\ ServiceSide

\* store_entitlement_token: over whatever is cached by now.
Stored(p) == IF doing[p].kind = "deactivate" THEN Empty ELSE doing[p].token

Store(p) ==
    /\ doing[p].step = "store"
    /\ cache' = Stored(p)
    /\ Ends(p) /\ LoopSleeps(p, doing[p].kind, FALSE)
    /\ UNCHANGED machine /\ ServiceSide

LicenceNext ==
    \/ Tick \/ ServiceLeaves \/ ServiceReturns \/ RefreshIfDue
    \/ \E p \in Procs :
           \/ Activate(p) \/ Refresh(p) \/ EnsureLive(p) \/ Deactivate(p)
           \/ ReadId(p) \/ LinkId(p) \/ IdFails(p)
           \/ ServiceActivates(p) \/ ServiceRenews(p) \/ ServiceReleases(p)
           \/ ServiceFails(p) \/ Store(p)

LicenceSpec == LicenceInit /\ [][LicenceNext]_licenceVars

---------------------------------------------------------------------------
\* One machine is one fingerprint: however many processes made the first one
\* at once, the service was only ever sent one, so a renewal or a release names
\* the machine its activation was made for.  (os.link's one winner.)
OneMachine == Cardinality(sent) <= 1

\* An online daemon renews on its own: while no outage outlasts what is left of
\* the validity at half of it, less the loop's own sleeps, an entitlement whose
\* activation the service still holds has not run out.  (refresh_if_due: "an
\* online daemon has to renew on its own"; license_refresh_loop.)
NeverRunsOut ==
    <<cache.act, machine>> \in slots => clock <= Expires(cache)

\* The daemon keeps its licence without anybody's help, and never as two machines (license_ops.py).
LicenceHolds == OneMachine /\ NeverRunsOut
=============================================================================
