------------------------------ MODULE ProbingMC ------------------------------
(***************************************************************************)
(* What decides which provider is asked, and how often: Allowance,         *)
(* Discovery, Admission, Selection and RequestPlan in one run.             *)
(* A behaviour is of one of them, which `part` names, and the others stand *)
(* still in one state.                                                     *)
(***************************************************************************)
EXTENDS Admission, Discovery, Allowance

CONSTANTS t1, t2, t3

VARIABLES
    part,
    verified, benchmark, until, quarantined, profile, events,               \* Selection
    p_now, granted, picky, request_token_limits, unsupported_parameters, req, begun,
    changes, lapses, last, rejected, wasted                                  \* RequestPlan

selectionVars == <<verified, benchmark, until, quarantined, profile, events>>
planVars == <<p_now, granted, picky, request_token_limits, unsupported_parameters, req, begun,
              changes, lapses, last, rejected, wasted>>

------------------------------------------------------------------------------
(* Allowance: two keys of one provider, one granted per day, one per month. *)

MCGrants == [a |-> [share |-> 2, period |-> "day", of |-> "a"],
             b |-> [share |-> 3, period |-> "month", of |-> "b"]]

(* Discovery: two capabilities of one model.                               *)
MCPairs == {<<"m", "tools">>, <<"m", "vision">>}

(* Admission: three calls to a provider that takes two in a window.        *)
ASSUME AdmissionLimits == ProviderLimits

(* Selection: three models of two providers.                               *)
Pf(mode, models, tail, requires, any, kind) ==
  [mode |-> mode, models |-> models, auto_tail |-> tail, requires |-> requires,
   any |-> any, excluded |-> {}, kind |-> kind]
Plain == Pf("auto", <<>>, TRUE, {"tools"}, {}, "generic")
MCProfiles ==
  { Plain,
    Pf("auto", <<>>, TRUE, {"tools"}, {"image", "audio"}, "generic"),
    Pf("auto", <<>>, TRUE, {"tools", "image"}, {}, "specialized"),
    Pf("manual_order", <<"c", "b">>, TRUE, {"tools", "image"}, {}, "specialized"),
    Pf("manual_order", <<"c", "a">>, FALSE, {"tools", "image"}, {}, "generic"),
    [Plain EXCEPT !.excluded = {"a"}],
    Pf("auto", <<>>, TRUE, {"tools"}, {}, "coding") }

MCCatalog == <<"a", "b", "c">>
MCSource == [a |-> "p", b |-> "p", c |-> "q"]
MCClaims == [a |-> {"tools", "image", "audio"}, b |-> {"tools", "image"}, c |-> {"tools"}]
MCDeclared == [a |-> {"tools", "audio"}, b |-> {"tools", "image"}, c |-> {"tools"}]
MCBase == [a |-> 60, b |-> 60, c |-> 90]

Selection == INSTANCE Selection WITH
    Catalog <- MCCatalog, Source <- MCSource, Claims <- MCClaims, Declared <- MCDeclared,
    Certified <- {"a", "b"}, Base <- MCBase, Profiles <- MCProfiles,
    Ttl <- 1, MaxBlock <- 2, MaxEvents <- 3

(* RequestPlan: two threads and one model with a window of three units,    *)
(* which counts media as text.                                             *)
Body(named, text, media, knob) ==
  [named |-> named, feature |-> FALSE, text |-> text, media |-> media, completion |-> 0, knob |-> knob]

Plan == INSTANCE RequestPlan WITH
    Requests <- {t1, t2}, Models <- {"m"}, Context <- [m \in {"m"} |-> 3], Strict <- {}, Dense <- {"m"},
    Bodies <- {Body(TRUE, 2, 0, FALSE), Body(TRUE, 1, 1, TRUE), Body(FALSE, 1, 1, TRUE)},
    Offers <- {{}, {"m"}}, Caps <- {1, 2}, Safety <- 1, MaxAttempts <- 1, CapTtl <- 0, KnobTtl <- 1,
    MaxTime <- 1, MaxRequests <- 3, MaxChanges <- 1, now <- p_now

------------------------------------------------------------------------------
MCInit ==
    /\ part \in {"allowance", "discovery", "admission", "selection", "plan"}
    /\ AllowanceInit /\ DiscoveryInit
    /\ AdmissionInit /\ Selection!SelectionInit /\ Plan!PlanInit
    /\ part # "allowance" => account.key = "a"
    /\ part # "selection" => profile = Plain
    /\ part # "plan" => picky = {} /\ granted = [m \in {"m"} |-> 1]

MCNext ==
    \/ part = "allowance" /\ AllowanceNext
       /\ UNCHANGED <<part, discoveryVars, admissionVars, selectionVars, planVars>>
    \/ part = "discovery" /\ DiscoveryNext
       /\ UNCHANGED <<part, allowanceVars, admissionVars, selectionVars, planVars>>
    \/ part = "admission" /\ AdmissionNext
       /\ UNCHANGED <<part, allowanceVars, discoveryVars, selectionVars, planVars>>
    \/ part = "selection" /\ Selection!SelectionNext
       /\ UNCHANGED <<part, allowanceVars, discoveryVars, admissionVars, planVars>>
    \/ part = "plan" /\ Plan!PlanNext
       /\ UNCHANGED <<part, allowanceVars, discoveryVars, admissionVars, selectionVars>>

MCSpec ==
    MCInit /\ [][MCNext]_<<part, allowanceVars, discoveryVars, admissionVars, selectionVars, planVars>>

------------------------------------------------------------------------------
\* What a profile promises holds of every model routed, and a client is not told to come back
\* later than a model is free (model_scoring.py, routing_policy.py, router.py); a model is kept from
\* a request, and a parameter from a model, only while its provider's word stands, and a provider
\* is asked in vain a bounded number of times (chat_completion.py, cooldowns.py).
PromisesHold ==
    /\ part = "selection" => Selection!PromisesHold /\ Selection!RetryNeverTooLate
    /\ part = "plan" => Plan!KeptOutForCause /\ Plan!WasteIsBounded

\* The mere passing of time never puts a model behind one it was ahead of for having failed.
ExpiryNeverOvertakes == [][part = "selection" => Selection!TimeKeepsOrder]_selectionVars
==============================================================================
