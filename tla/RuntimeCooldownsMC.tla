------------------------ MODULE RuntimeCooldownsMC ------------------------
(***************************************************************************)
(* Two instances of RuntimeCooldowns in one run: one model that fails in   *)
(* every scope, and two models behind one provider account that share its  *)
(* quota pool.  A behaviour is of one of them, which `part` names.         *)
(***************************************************************************)
EXTENDS RuntimeCooldowns, TLC

CONSTANTS m1, m2, s1, k1, r1, r2

VARIABLES part, now_2, cooldowns_2, providerCooldowns_2, quotaCooldowns_2, quarantine_2,
          modelErrors_2, providerErrors_2, calls_2, prober_2, lastQuotaFailure_2, held_2

vars_2 == <<now_2, cooldowns_2, providerCooldowns_2, quotaCooldowns_2, quarantine_2, modelErrors_2,
            providerErrors_2, calls_2, prober_2, lastQuotaFailure_2, held_2>>

OneModel == m1 :> s1
OneKey == m1 :> k1
OnePool == k1 :> {m1}

Shared == INSTANCE RuntimeCooldowns WITH
  Models <- {m1, m2}, Source <- (m1 :> s1) @@ (m2 :> s1),
  DeclaredKey <- (m1 :> k1) @@ (m2 :> k1), Covers <- k1 :> {m1, m2},
  Reasons <- {"rate_limited"}, Delays <- {1}, Legacy <- {m1},
  now <- now_2, cooldowns <- cooldowns_2, providerCooldowns <- providerCooldowns_2,
  quotaCooldowns <- quotaCooldowns_2, quarantine <- quarantine_2, modelErrors <- modelErrors_2,
  providerErrors <- providerErrors_2, calls <- calls_2, prober <- prober_2,
  lastQuotaFailure <- lastQuotaFailure_2, held <- held_2

MCInit == part \in {"one", "shared"} /\ Init /\ Shared!Init

MCNext ==
  \/ part = "one" /\ Next /\ UNCHANGED <<part, vars_2>>
  \/ part = "shared" /\ Shared!Next /\ UNCHANGED <<part, vars>>

MCSpec == MCInit /\ [][MCNext]_<<part, vars, vars_2>>

\* RouteBlocksAreEarnedBack and OneBlockingScope where a route and a quota pool serve two models:
\* the answer of one of them lifts what the other earned only if it left later, and no incident
\* is guarded by two rows.
SharedBlocksAreEarnedBack == [][Shared!BlocksAreEarned /\ Shared!OneBlockingScope']_vars_2

Threads == Permutations(Requests)
===========================================================================
