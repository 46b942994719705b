-------------------------- MODULE HermesConnector --------------------------
(* The Hermes connector: what Ficelle writes into another program's home     *)
(* (install.py, connector_registry.py, `ficelle connectors`), and what it    *)
(* takes away again.  Hermes and its user own that home and write to the     *)
(* same files: plugins, config.yaml, .env.  Ficelle keeps a registry record  *)
(* of what it put there, refreshed by every install and by every service     *)
(* start, and a removal trusts that record.                                  *)
(*                                                                           *)
(* A file is modelled by whose content it holds: a release of Ficelle        *)
(* (1..MaxRelease), the user's (Theirs), what a copy cut short left          *)
(* (CutShort), or nothing (Absent).  config.yaml may hold the managed block  *)
(* and the user's own settings side by side; .env may hold other keys beside *)
(* Ficelle's.  Ficelle runs one command at a time here; a command may be     *)
(* killed between two of its steps, and Hermes and the user act while none   *)
(* runs.  --dry-run, --no-backup and --skip-plugin are left out, and so is   *)
(* the rollback helper, which nothing in the program calls.                  *)
EXTENDS Integers, FiniteSets

CONSTANTS
    MaxRelease,     \* bound: releases of Ficelle
    MaxEdits,       \* bound: things Hermes and its user do
    MaxJobs         \* bound: commands of Ficelle

ASSUME ReleaseNumbers == MaxRelease \in Nat \ {0}

VARIABLES
    release,    \* the installed release: what the packaged assets hold
    plugin,     \* the Hermes home: the plugins of Ficelle's, by name,
    flat,       \* the provider plugin of Hermes's own catalog,
    marked,     \* whether the compression plugin bears Hermes's marker,
    snippet,    \* the snippet with the managed block,
    config,     \* config.yaml,
    env,        \* and .env
    saved,      \* backups: <<path, whose content>>
    record,     \* the registry's record of the connector
    job,        \* the command of Ficelle that runs
    touched,    \* ghost: paths the user has put work into
    wrote,      \* ghost: paths that hold what Ficelle alone put there
    removed,    \* ghost: the last command was a removal that went through
    crashed,    \* ghost: some command was killed
    edits, jobs

home == <<plugin, flat, marked, snippet, config, env>>
connectorVars == <<release, home, saved, record, job, touched, wrote, removed, crashed, edits, jobs>>

Absent == 0
Theirs == -1
CutShort == -2
Releases == 1..MaxRelease
Plugins == {"nested", "compression"}

NoConfig == [there |-> FALSE, block |-> Absent, users |-> FALSE]
NoEnv == [there |-> FALSE, key |-> "none", rest |-> FALSE]
Unknown == [known |-> FALSE, created |-> {}, managed |-> FALSE, config |-> NoConfig,
            snippet |-> Absent, envKey |-> "none",
            plugins |-> [p \in Plugins |-> Absent],
            owner |-> [p \in Plugins |-> "nobody"]]
AtRest == [op |-> "none", step |-> "none", had |-> {}, owner |-> Unknown.owner, take |-> {}]

ConnectorInit ==
    /\ release = 1
    /\ plugin = [p \in Plugins |-> Absent] /\ flat = Absent /\ marked = FALSE /\ snippet = Absent
    /\ \E user, rest \in BOOLEAN :
           /\ config = [there |-> user, block |-> Absent, users |-> user]
           /\ env = [there |-> rest, key |-> "none", rest |-> rest]
    /\ touched = IF config.users THEN {"config"} ELSE {}
    /\ saved = {} /\ record = Unknown /\ job = AtRest
    /\ wrote = {} /\ removed = FALSE /\ crashed = FALSE /\ edits = 0 /\ jobs = 0

---------------------------------------------------------------------------
(* Hermes, its user, and updates of Ficelle.                                *)

Outside == job = AtRest /\ edits < MaxEdits /\ edits' = edits + 1
Elsewhere == UNCHANGED <<saved, record, job, crashed, jobs>>

\* The user edits a plugin that is there, or puts one of their own there.
EditPlugin(p) ==
    /\ Outside
    /\ plugin' = [plugin EXCEPT ![p] = Theirs]
    /\ touched' = touched \cup {p} /\ wrote' = wrote \ {p} /\ removed' = FALSE
    /\ UNCHANGED <<release, flat, marked, snippet, config, env>> /\ Elsewhere

\* The user adds settings of their own to config.yaml, outside the block.
EditConfig ==
    /\ Outside
    /\ config' = [config EXCEPT !.there = TRUE, !.users = TRUE]
    /\ touched' = touched \cup {"config"} /\ removed' = FALSE
    /\ UNCHANGED <<release, wrote, plugin, flat, marked, snippet, env>> /\ Elsewhere

\* Another program's key in .env, or the user's own value for Ficelle's.
EditEnv ==
    /\ Outside
    /\ \/ env' = [env EXCEPT !.there = TRUE, !.rest = TRUE]
       \/ env' = [env EXCEPT !.there = TRUE, !.key = "users"]
    /\ wrote' = wrote \ (IF env'.key = "users" THEN {"env"} ELSE {})
    /\ removed' = FALSE
    /\ UNCHANGED <<release, touched, plugin, flat, marked, snippet, config>> /\ Elsewhere

\* Hermes installs its catalog's copy of a plugin: the provider as a flat
\* plugin beside Ficelle's nested one, the compression plugin in the very
\* directory Ficelle uses, with Hermes's marker.
HermesInstalls ==
    /\ Outside
    /\ \E r \in Releases :
           \/ flat' = r /\ UNCHANGED <<plugin, marked, touched, wrote>>
           \/ /\ plugin' = [plugin EXCEPT !["compression"] = r] /\ marked' = TRUE
              /\ touched' = touched \ {"compression"} /\ wrote' = wrote \ {"compression"}
              /\ UNCHANGED flat
    /\ removed' = FALSE
    /\ UNCHANGED <<release, snippet, config, env>> /\ Elsewhere

HermesRemoves ==
    /\ Outside
    /\ \/ flat' = Absent /\ UNCHANGED <<plugin, marked, touched>>
       \/ /\ marked /\ marked' = FALSE
          /\ plugin' = [plugin EXCEPT !["compression"] = Absent]
          /\ touched' = touched \ {"compression"} /\ UNCHANGED flat
    /\ UNCHANGED <<release, snippet, config, env, wrote, removed>> /\ Elsewhere

Update ==
    /\ job = AtRest /\ release < MaxRelease /\ release' = release + 1
    /\ removed' = FALSE
    /\ UNCHANGED <<home, saved, record, job, touched, wrote, crashed, edits, jobs>>

---------------------------------------------------------------------------
(* Install (`connectors install hermes`) and the refresh of every start.     *)

\* _hermes_manages_flat_plugin, or a plugin the record does not call ours.
External ==
    /\ plugin["compression"] # Absent
    /\ marked \/ record.owner["compression"] # "ficelle"

\* Both external payloads are checked before anything is written.
Conflict ==
    \/ flat # Absent /\ flat # release
    \/ External /\ plugin["compression"] # release

\* The ownership the plugins will have.
OwnersNow ==
    [nested |-> "ficelle", compression |-> IF External THEN "hermes" ELSE "ficelle"]

\* What was there before: it decides what Ficelle may later call its creation.
HadBefore ==
    (IF config.there THEN {"config"} ELSE {})
        \cup (IF env.there THEN {"envFile"} ELSE {})
        \cup (IF env.key # "none" THEN {"envKey"} ELSE {})

Started(op) ==
    /\ job = AtRest /\ jobs < MaxJobs /\ jobs' = jobs + 1
    /\ op = "refresh" => record.known
    /\ removed' = FALSE

\* A conflict ends the command: an install fails, a refresh only says so.
Install(op) ==
    /\ Started(op)
    /\ job' = IF Conflict THEN AtRest
              ELSE [op |-> op, step |-> "nested", had |-> HadBefore,
                    owner |-> OwnersNow, take |-> {}]
    /\ UNCHANGED <<release, home, saved, record, touched, wrote, crashed, edits>>

At(step) == job.op \in {"install", "refresh"} /\ job.step = step
To(step) == job' = [job EXCEPT !.step = step]
Quiet == UNCHANGED <<release, record, removed, crashed, touched, edits, jobs>>

Follows(p) == IF p = "nested" THEN "compression" ELSE "env"
Partway(p) == IF p = "nested" THEN "nested_copy" ELSE "compression_copy"

\* Bug for a mutant: a backup of the path that is there already is enough.
SaveOnce(p) ==
    saved \cup (IF plugin[p] = Absent \/ \E b \in saved : b[1] = p THEN {} ELSE {<<p, plugin[p]>>})

\* copy_plugin_tree: an equal tree stays; a different one is backed up, then
\* deleted, then copied anew.
SaveOld(p) == saved \cup (IF plugin[p] = Absent THEN {} ELSE {<<p, plugin[p]>>})

ClearPlugin(p) ==
    /\ At(p)
    /\ \/ /\ job.owner[p] = "hermes" \/ plugin[p] = release
          /\ To(Follows(p)) /\ UNCHANGED <<plugin, saved>>
       \/ /\ job.owner[p] = "ficelle" /\ plugin[p] # release
          /\ saved' = SaveOld(p)
          /\ plugin' = [plugin EXCEPT ![p] = Absent]
          /\ To(Partway(p))
    /\ UNCHANGED <<flat, marked, snippet, config, env, wrote>> /\ Quiet

CopyPlugin(p) ==
    /\ At(Partway(p))
    /\ plugin' = [plugin EXCEPT ![p] = release]
    /\ wrote' = wrote \cup {p}
    /\ To(Follows(p)) /\ UNCHANGED <<flat, marked, snippet, config, env, saved>> /\ Quiet

\* seed_provider_plugin_env_key: the owner's API token, whatever was there.
SeedEnv ==
    /\ At("env") /\ To("snippet")
    /\ env' = [env EXCEPT !.there = TRUE, !.key = "token"]
    /\ wrote' = wrote \cup (IF env.key = "none" THEN {"env"} ELSE {})
    /\ UNCHANGED <<plugin, flat, marked, snippet, config, saved>> /\ Quiet

\* configure_hermes, skipped by a refresh when config.yaml holds no block.
WriteSnippet ==
    /\ At("snippet")
    /\ IF job.op = "refresh" /\ config.block = Absent
       THEN To("register") /\ UNCHANGED snippet
       ELSE To("config") /\ snippet' = release
    /\ UNCHANGED <<plugin, flat, marked, config, env, saved, wrote>> /\ Quiet

\* A new config.yaml, a replaced block (backed up first), or an unmanaged file
\* that is left alone.
WriteConfig ==
    /\ At("config") /\ To("register")
    /\ \/ /\ ~config.there
          /\ config' = [config EXCEPT !.there = TRUE, !.block = release]
          /\ wrote' = wrote \cup {"config"} /\ UNCHANGED saved
       \/ /\ config.there /\ config.block \in Releases \ {release}
          /\ saved' = saved \cup {<<"config", IF config.users THEN Theirs ELSE config.block>>}
          /\ config' = [config EXCEPT !.block = release]
          /\ UNCHANGED wrote
       \/ /\ config.there /\ config.block \in {Absent, release}
          /\ UNCHANGED <<config, saved, wrote>>
    /\ UNCHANGED <<plugin, flat, marked, snippet, env>> /\ Quiet

\* hermes_connector_metadata: what is there now, hashed anew; a creation once
\* recorded stays recorded.
Created ==
    ((IF config.there THEN {"config"} ELSE {})
        \cup (IF env.there THEN {"envFile"} ELSE {})
        \cup (IF env.key # "none" THEN {"envKey"} ELSE {})) \ job.had

StillCreated == Created \cup record.created

Register ==
    /\ At("register") /\ job' = AtRest
    /\ record' = [known |-> TRUE, created |-> StillCreated,
                  managed |-> config.block # Absent, config |-> config,
                  snippet |-> snippet, envKey |-> env.key,
                  plugins |-> [p \in Plugins |-> IF job.owner[p] = "ficelle"
                                                 THEN plugin[p] ELSE Absent],
                  owner |-> job.owner]
    /\ UNCHANGED <<release, home, saved, removed, crashed, touched, wrote, edits, jobs>>

---------------------------------------------------------------------------
(* Removal (`connectors remove hermes`).                                     *)

\* The plugins a removal may take: there, not Hermes's, and called ours.
Removable ==
    {p \in Plugins : /\ plugin[p] # Absent
                     /\ ~(p = "compression" /\ marked)
                     /\ record.owner[p] = "ficelle"}

\* One artifact that no longer matches the record stops the whole removal.
Modified ==
    \/ snippet # Absent /\ snippet # record.snippet
    \/ record.managed /\ config.there /\ config # record.config
    \/ /\ "envKey" \in record.created /\ env.key # "none"
       /\ env.key # record.envKey
    \/ \E p \in Removable : plugin[p] # record.plugins[p]

RemoveConnector ==
    /\ Started("remove") /\ record.known /\ ~Modified
    /\ job' = [AtRest EXCEPT !.op = "remove", !.step = "plugins", !.take = Removable]
    /\ UNCHANGED <<release, home, saved, record, touched, wrote, crashed, edits>>

Refuse ==
    /\ Started("remove") /\ (record.known => Modified)
    /\ UNCHANGED <<release, home, saved, record, job, touched, wrote, crashed, edits>>

Removing(step) == job.op = "remove" /\ job.step = step
Kept == UNCHANGED <<release, saved, touched, wrote, crashed, edits, jobs>>

RemovePlugins ==
    /\ Removing("plugins") /\ To("files")
    /\ plugin' = [p \in Plugins |-> IF p \in job.take THEN Absent ELSE plugin[p]]
    /\ UNCHANGED <<flat, marked, snippet, config, env, record, removed>> /\ Kept

\* The snippet, and the key of .env when Ficelle created it; the file goes too
\* when Ficelle created it and nothing else is in it.
EnvWithout ==
    IF "envKey" \notin record.created THEN env
    ELSE IF "envFile" \in record.created /\ ~env.rest THEN NoEnv
    ELSE [env EXCEPT !.key = "none"]

RemoveFiles ==
    /\ Removing("files") /\ To("config")
    /\ snippet' = Absent /\ env' = EnvWithout
    /\ UNCHANGED <<plugin, flat, marked, config, record, removed>> /\ Kept

\* A config.yaml Ficelle created goes whole, any other loses the block.
ConfigWithout ==
    IF ~record.managed \/ ~config.there THEN config
    ELSE IF "config" \in record.created THEN NoConfig
    ELSE [config EXCEPT !.block = Absent]

RemoveConfig ==
    /\ Removing("config") /\ To("unregister")
    /\ config' = ConfigWithout
    /\ UNCHANGED <<plugin, flat, marked, snippet, env, record, removed>> /\ Kept

Unregister ==
    /\ Removing("unregister") /\ job' = AtRest
    /\ record' = Unknown /\ removed' = TRUE
    /\ UNCHANGED home /\ Kept

---------------------------------------------------------------------------
\* The command is killed.  A copy that was under way is left incomplete, and
\* the registry, which is truncated and rewritten in place, may be unreadable.
Killed ==
    /\ job # AtRest /\ job' = AtRest /\ crashed' = TRUE
    /\ \/ UNCHANGED <<home, record>>
       \/ /\ UNCHANGED record
          /\ \E p \in Plugins : /\ At(Partway(p))
                                /\ plugin' = [plugin EXCEPT ![p] = CutShort]
          /\ UNCHANGED <<flat, marked, snippet, config, env>>
       \/ At("register") /\ record' = Unknown /\ UNCHANGED home
    /\ UNCHANGED <<release, saved, touched, wrote, removed, edits, jobs>>

ConnectorNext ==
    \/ \E p \in Plugins : EditPlugin(p) \/ ClearPlugin(p) \/ CopyPlugin(p)
    \/ EditConfig \/ EditEnv \/ HermesInstalls \/ HermesRemoves \/ Update
    \/ \E op \in {"install", "refresh"} : Install(op)
    \/ SeedEnv \/ WriteSnippet \/ WriteConfig \/ Register
    \/ RemoveConnector \/ Refuse \/ RemovePlugins \/ RemoveFiles \/ RemoveConfig \/ Unregister
    \/ Killed

ConnectorSpec == ConnectorInit /\ [][ConnectorNext]_connectorVars

---------------------------------------------------------------------------
\* A plugin the user worked on is never lost: it is in place, or a backup
\* holds it, through every install, refresh, removal and kill.
\* (copy_plugin_tree's backup; the hashes remove_hermes_connector compares.)
PluginWorkIsKept ==
    \A p \in touched \cap Plugins : plugin[p] = Theirs \/ <<p, Theirs>> \in saved

\* What Hermes manages is Hermes's: no command of Ficelle changes the copy
\* Hermes marked, even one that took the place of Ficelle's own.
HermesCopyIsUntouched ==
    [][job' # job => /\ marked => plugin'["compression"] = plugin["compression"]
                     /\ flat' = flat]_connectorVars

\* A removal that went through, where nothing was ever killed, leaves nothing
\* of what Ficelle alone put there: no plugin, no key in .env, no block, however
\* many refreshes re-recorded the connector in between.
RemovalLeavesNothing ==
    removed /\ ~crashed =>
        /\ \A p \in wrote \cap Plugins : plugin[p] = Absent
        /\ "env" \in wrote => env.key # "token"
        /\ "config" \in wrote => config.block = Absent

\* Through installs, refreshes, removals and kills the user's plugins are kept, what Hermes manages
\* is not touched, and a removal leaves nothing of Ficelle's (install.py).
ConnectorIsSafe == [](PluginWorkIsKept /\ RemovalLeavesNothing) /\ HermesCopyIsUntouched

\* "Remove only unchanged Hermes artifacts previously registered by Ficelle":
\* the settings a user added to config.yaml survive, in place or in a backup.
ConfigWorkIsKept ==
    "config" \in touched => config.users \/ <<"config", Theirs>> \in saved
=============================================================================
