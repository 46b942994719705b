------------------------------ MODULE SettlingMC ------------------------------
(***************************************************************************)
(* Two parts of the service that must settle whatever happens meanwhile:   *)
(* the shutdown of the server, and the prune after a provider shrank.      *)
(* Instances of ServerLifecycle and ListingGuard in one run; a behaviour   *)
(* is of one of them, which `part` names, and the other stands still.      *)
(***************************************************************************)
EXTENDS ServerLifecycle, Sequences

CONSTANTS c1, c2, c3, r1

VARIABLES part, offers, settled, file, peak, order, job, audits, announced, undoing, shown, saves

guardVars == <<offers, settled, file, peak, order, job, audits, announced, undoing, shown, saves>>

Guard == INSTANCE ListingGuard WITH
    N <- 3, Sizes <- {1, 3}, Refreshers <- {r1}, TTL <- 1, LowRefreshes <- 1, MaxPrunes <- 2, MaxSaves <- 1

MCInit == part \in {"server", "guard"} /\ Init /\ Guard!Init

\* The order a user saves names the first model and the last.
MCNext ==
    \/ part = "server" /\ Next /\ UNCHANGED <<part, guardVars>>
    \/ part = "guard" /\ Guard!Next /\ UNCHANGED <<part, vars>>
       /\ (saves' # saves => undoing' # undoing \/ order' = {1, 3})

\* The fairness of the two modules: that of ListingGuard is owed to its own part only, that of
\* ServerLifecycle is of actions that are disabled where the server stands still.
MCFair ==
    /\ Fair
    /\ WF_guardVars(part = "guard" /\ Guard!Tick)
    /\ WF_guardVars(part = "guard" /\ Guard!Step(r1))

MCSpec == MCInit /\ [][MCNext]_<<part, vars, guardVars>> /\ MCFair

------------------------------------------------------------------------------
\* A prune never follows from a listing shorter than half of one shown recently, and an undo
\* silences no other announcement than its own (catalog_listing.py).
PrunesInView == Guard!PrunesInView /\ Guard!UndoSilencesItsOwn

\* A provider that shrank for good does become prunable again.
ShrinkIsPruned == Guard!ShrinkIsPruned
==============================================================================
