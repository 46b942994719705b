----------------------------- MODULE OperationsMC -----------------------------
(***************************************************************************)
(* What runs beside the requests and may be killed: HealthRuns,            *)
(* HealthEvidence, HermesConnector and ProInstall in one run.  A behaviour *)
(* is of one of them, which `part` names, and the others stand still in    *)
(* one state.                                                              *)
(***************************************************************************)
EXTENDS HealthRuns, HealthEvidence, HermesConnector, ProInstall, TLC

CONSTANTS p1, p2, i1, i2

VARIABLE part

\* A corpus of one case, and its edition with a case before it.
MCCorpus == <<<<"a">>, <<"b", "a">>>>

\* A direct case, one that is sent only if it was right, and a profile; the second catalog has lost
\* the model of both.
MCPlan == <<"d", "x", "v">>
MCTarget == [d |-> "m", x |-> "m", v |-> "nomodel"]
MCControl == [d |-> "none", x |-> "d", v |-> "none"]
MCCatalogs == <<{"m"}, {"n"}>>

MCInit ==
    /\ part \in {"runs", "evidence", "connector", "pro"}
    /\ HealthInit /\ EvidenceInit /\ ConnectorInit /\ ProInit
    /\ part # "connector" => config.users /\ env.rest

\* A third sitting only of runs in which nothing failed short of a breach.
ThirdSittingIsPlain ==
    started'.sittings > 2 =>
        \A r \in Runs : \A k \in OutcomeRows(disk'[r].journal) : disk'[r].journal[k].status # "fail"

MCNext ==
    \/ part = "runs" /\ HealthNext /\ ThirdSittingIsPlain
       /\ UNCHANGED <<part, evidenceVars, connectorVars, proVars>>
    \/ part = "evidence" /\ EvidenceNext
       /\ UNCHANGED <<part, healthVars, connectorVars, proVars>>
    \/ part = "connector" /\ ConnectorNext
       /\ UNCHANGED <<part, healthVars, evidenceVars, proVars>>
    \/ part = "pro" /\ ProNext
       /\ UNCHANGED <<part, healthVars, evidenceVars, connectorVars>>

MCSpec ==
    MCInit /\ [][MCNext]_<<part, healthVars, evidenceVars, connectorVars, proVars>>

Interchangeable == Permutations({p1, p2})
===============================================================================
