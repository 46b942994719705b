---------------------------- MODULE PublicationMC ----------------------------
(***************************************************************************)
(* What several processes write that all of them read: the catalog, the    *)
(* configuration, the provider keys and the licence.  Instances of         *)
(* CatalogPublish (two of them), ConfigStore, KeyStore and Licence in one  *)
(* run.  A behaviour is of one of them, which `part` names, and the others *)
(* stand still in one state.                                               *)
(***************************************************************************)
EXTENDS KeyStore, ConfigStore, CatalogPublish, Licence, TLC

CONSTANTS r1, s1, s2, s3, a1, a2, h1, h2, i1, i2, service, b1, daemon, command

VARIABLES
    part,
    enabled_2, keys_2, entitled_2, file_2, state_2, lock_2, job_2, emptied_2, replaced_2, builds_2,
    crashes_2, changes_2                                                      \* CatalogPublish, again

licensedVars == <<enabled_2, keys_2, entitled_2, file_2, state_2, lock_2, job_2, emptied_2, replaced_2,
                  builds_2, crashes_2, changes_2>>

------------------------------------------------------------------------------
\* The catalog of Publication.cfg has two accounts, an operator who turns sources off and on and
\* changes keys, and no licence.  This one has one provider of one account and a licence, a process
\* that dies and listings that get lost.
Licensed == INSTANCE CatalogPublish WITH
    Sources <- {s3}, Accounts <- {a1}, HasLicence <- TRUE, Losses <- TRUE, MaxCrashes <- 1,
    enabled <- enabled_2, keys <- keys_2, entitled <- entitled_2, file <- file_2, state <- state_2,
    lock <- lock_2, job <- job_2, emptied <- emptied_2, replaced <- replaced_2, builds <- builds_2,
    crashes <- crashes_2, changes <- changes_2

\* Two handlers with settings of their own, from any first file.
Apart == (h1 :> {"order", "prune"}) @@ (h2 :> {"timeout", "switch"}) @@ (service :> {"migrate"})
AnyFile == {Stock, [Stock EXCEPT !.timeout = "legacy", !.order = {i1, i2}], NoFile}

ASSUME PublishParts == Parts /\ Licensed!Parts

\* A thread of the server and the command line, on every kind of host; the daemon and a command,
\* with an entitlement of four ticks that is renewed from the second on (Publication.cfg).
ASSUME KeyLimits == HostLimits

------------------------------------------------------------------------------
MCInit ==
    /\ part \in {"licensed", "refresh", "config", "keys", "licence"}
    /\ Init /\ PublishInit /\ Licensed!PublishInit /\ ConfigInit /\ LicenceInit
    /\ part # "licensed" => keys_2 = [s \in {s3} |-> a1]
    /\ part # "refresh" => keys = [s \in {s1, s2} |-> a1]
    /\ part # "config" => config_json = Stock
    /\ part # "keys" => host = "bare"

MCNext ==
    \/ part = "refresh" /\ PublishNext
       /\ UNCHANGED <<part, vars, licensedVars, configVars, licenceVars>>
    \/ part = "licensed" /\ Licensed!PublishNext
       /\ UNCHANGED <<part, vars, publishVars, configVars, licenceVars>>
    \/ part = "config" /\ ConfigNext
       /\ UNCHANGED <<part, vars, publishVars, licensedVars, licenceVars>>
    \/ part = "keys" /\ Next
       /\ UNCHANGED <<part, publishVars, licensedVars, configVars, licenceVars>>
    \/ part = "licence" /\ LicenceNext
       /\ UNCHANGED <<part, vars, publishVars, licensedVars, configVars>>

MCSpec == MCInit /\ [][MCNext]_<<part, vars, publishVars, licensedVars, configVars, licenceVars>>

------------------------------------------------------------------------------
\* The refresh of a licence change loses no rows it could not list, and whatever dies or is lost the
\* state's record of sizes is of the catalog the published one replaced (publish_catalog,
\* _run_catalog_license_transition_refresh).
LicensedRowsOutlive == Licensed!RowsOutlive /\ [][Licensed!BaselineIsPrevious']_licensedVars

Interchangeable == Permutations({s1, s2})
===============================================================================
