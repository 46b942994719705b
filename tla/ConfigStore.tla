---------------------------- MODULE ConfigStore ----------------------------
(***************************************************************************)
(* config.json: handler threads of the service, commands in processes of   *)
(* their own and a person with an editor write it.  Every service write    *)
(* reads the file, changes one setting, checks that the file is readable   *)
(* and replaces it, all under a lock the editor knows nothing of           *)
(* (config_store.py).  A handler then brings the service's configuration   *)
(* in memory into step, under another lock (router.py).                    *)
(*                                                                         *)
(* Three settings stand for all: the order of a virtual model, from which  *)
(* a catalog refresh prunes what a provider no longer lists, a timeout     *)
(* that old versions left at a legacy value, and a provider's switch.      *)
(***************************************************************************)
EXTENDS Naturals, FiniteSets

CONSTANTS
    Handlers,      \* threads of the service that write
    Commands,      \* processes of the command line
    Service,       \* the service's start, in neither of them
    Nobody,        \* no writer
    Ids,           \* model ids an order can hold
    Gone,          \* those their provider no longer lists
    Breaks,        \* contents that do not parse
    NoFile,        \* the file that is not there
    Does,          \* [writers -> what each may do]
    FirstFiles,    \* what config.json may be at first
    EditorWaits,   \* nobody edits the file during the milliseconds of an update
    MaxEdits,      \* edits by hand (bound)
    MaxUpdates         \* operations (bound)

Loaders == Commands \cup {Service}
Writers == Handlers \cup Loaders

Kinds == {"order", "prune", "timeout", "migrate", "switch"}

Timeouts == {"stock", "legacy", "custom"}
Configs == [order : SUBSET Ids, timeout : Timeouts, switch : BOOLEAN]
Stock == [order |-> {}, timeout |-> "stock", switch |-> TRUE]

VARIABLES
    config_json,        \* config.json: a configuration, something that does not parse, or NoFile
    copy,        \* config.json.broken
    live,        \* the service's configuration in memory, NoFile while it is down
    config_lock,        \* holder of config.json.lock
    op,          \* [Writers -> the write under way]
    seeding,     \* loaders that found no file and are about to write the stock one
    committed,   \* what the writes so far amount to, setting by setting
    reported,    \* what the last refusal or load found unreadable
    edits, updates

configVars == <<config_json, copy, live, config_lock, op, seeding, committed, reported, edits, updates>>

Resting == [step |-> "idle", kind |-> "order", to |-> Stock, base |-> Stock]

ASSUME ConfigParts ==
    /\ Service \notin Handlers \cup Commands /\ Handlers \cap Commands = {} /\ Nobody \notin Writers
    /\ NoFile \notin Breaks \cup Configs /\ Configs \cap Breaks = {}
    /\ FirstFiles \subseteq Configs \cup Breaks \cup {NoFile}
    /\ Does \in [Writers -> SUBSET Kinds] /\ MaxEdits \in Nat /\ MaxUpdates \in Nat

------------------------------------------------------------------------------
(* What an update does to the configuration it read.                       *)

Set(config, kind, to) ==
    CASE kind \in {"order", "prune"} -> [config EXCEPT !.order = to.order]
      [] kind \in {"timeout", "migrate"} -> [config EXCEPT !.timeout = to.timeout]
      [] kind = "switch" -> [config EXCEPT !.switch = to.switch]

\* The mutators: apply_profiles, apply_prune, apply_settings,
\* migrate_legacy_config_defaults, apply_toggle.
Mutated(w, base) ==
    CASE op[w].kind = "prune" -> [base EXCEPT !.order = @ \ Gone]
      [] op[w].kind = "migrate" -> [base EXCEPT !.timeout = IF @ = "legacy" THEN "stock" ELSE @]
      [] OTHER -> Set(base, op[w].kind, op[w].to)

\* load_json and merged: an absent file and one that does not parse are both
\* the stock configuration.
AsRead == IF config_json \in Configs THEN config_json ELSE Stock

------------------------------------------------------------------------------
(* ConfigStore.update.                                                     *)

Changes(w) ==
    LET o == op[w] IN
    CASE o.kind = "prune" -> o.base.order \cap Gone # {}
      [] OTHER -> TRUE

StartUpdate(w, kind, to) ==
    /\ op[w].step = "idle" /\ w \notin seeding /\ updates < MaxUpdates
    /\ kind \in Does[w]
    /\ config_json # NoFile      \* every writer has loaded the configuration first
    /\ w \in Handlers => live # NoFile
    /\ w = Service => live = NoFile
    /\ kind = "migrate" => AsRead.timeout = "legacy"
    /\ op' = [op EXCEPT ![w] = [step |-> "wait", kind |-> kind, to |-> to, base |-> AsRead]]
    /\ updates' = updates + 1
    /\ UNCHANGED <<config_json, copy, live, config_lock, seeding, committed, reported, edits>>

\* Mutant: the file is read before the lock is taken.
ReadEarly(w) ==
    /\ op[w].step = "wait" /\ config_lock = Nobody
    /\ config_lock' = w
    /\ op' = [op EXCEPT ![w] = [@ EXCEPT !.step = "read", !.to = Mutated(w, op[w].base)]]
    /\ UNCHANGED <<config_json, copy, live, seeding, committed, reported, edits, updates>>

Read(w) ==
    /\ op[w].step = "wait" /\ config_lock = Nobody
    /\ config_lock' = w
    /\ op' = [op EXCEPT ![w] = [step |-> "read", kind |-> op[w].kind, to |-> Mutated(w, AsRead), base |-> AsRead]]
    /\ UNCHANGED <<config_json, copy, live, seeding, committed, reported, edits, updates>>

Preserve == copy' = IF copy = NoFile THEN config_json ELSE copy

\* _save_locked: the update fails, and a copy is kept.
Refuses(w) ==
    /\ op[w].step = "read" /\ config_json \in Breaks
    /\ Preserve /\ reported' = config_json
    /\ op' = [op EXCEPT ![w] = Resting] /\ config_lock' = Nobody
    /\ UNCHANGED <<config_json, live, seeding, committed, edits, updates>>

Checks(w) ==
    /\ op[w].step = "read" /\ config_json \notin Breaks
    /\ op' = [op EXCEPT ![w].step = "checked"]
    /\ UNCHANGED <<config_json, copy, live, config_lock, seeding, committed, reported, edits, updates>>

Writes(w) ==
    /\ op[w].step = "checked"
    /\ config_json' = op[w].to /\ config_lock' = Nobody
    /\ committed' = Mutated(w, committed)
    /\ live' = IF w = Service THEN op[w].to ELSE live
    /\ op' = IF w \in Handlers /\ Changes(w) THEN [op EXCEPT ![w].step = "mirror"]
             ELSE [op EXCEPT ![w] = Resting]
    /\ UNCHANGED <<copy, seeding, reported, edits, updates>>

Mirrored(w) == Set(live, op[w].kind, op[w].to)

\* Under LIVE_CONFIG_LOCK.
Mirrors(w) ==
    /\ op[w].step = "mirror"
    /\ live' = Mirrored(w)
    /\ op' = [op EXCEPT ![w] = Resting]
    /\ UNCHANGED <<config_json, copy, config_lock, seeding, committed, reported, edits, updates>>

------------------------------------------------------------------------------
(* load_config, ConfigStore.load: a legacy file is migrated, any other is  *)
(* read without the lock, and an absent one is written.                    *)

Serves(l, config) == live' = IF l = Service THEN config ELSE live

Load(l) ==
    /\ l = Service => live = NoFile
    /\ op[l].step = "idle" /\ l \notin seeding
    /\ \/ config_json \in Configs /\ config_json.timeout # "legacy" /\ Serves(l, config_json) /\ UNCHANGED <<copy, seeding, reported>>
       \/ config_json \in Breaks /\ Serves(l, Stock) /\ Preserve /\ reported' = config_json /\ UNCHANGED seeding
       \/ config_json = NoFile /\ seeding' = seeding \cup {l} /\ UNCHANGED <<copy, live, reported>>
    /\ UNCHANGED <<config_json, config_lock, op, committed, edits, updates>>

Seeds(l) ==
    /\ l \in seeding
    /\ config_json' = Stock /\ Serves(l, Stock)
    /\ seeding' = seeding \ {l}
    /\ UNCHANGED <<copy, config_lock, op, committed, reported, edits, updates>>

------------------------------------------------------------------------------
(* The world.                                                              *)

\* Somebody saves the file from an editor: with a mistake, or repaired.
Edit ==
    /\ edits < MaxEdits /\ edits' = edits + 1
    /\ EditorWaits => config_lock = Nobody
    /\ \/ config_json # NoFile /\ config_json' \in Breaks \ {config_json} /\ UNCHANGED committed
       \/ config_json \in Breaks /\ config_json' = committed /\ UNCHANGED committed
    /\ UNCHANGED <<copy, live, config_lock, op, seeding, reported, updates>>

\* The service stops, whatever its threads were doing.
Stop ==
    /\ live # NoFile /\ live' = NoFile
    /\ op' = [w \in Writers |-> IF w \in Handlers THEN Resting ELSE op[w]]
    /\ config_lock' = IF config_lock \in Handlers THEN Nobody ELSE config_lock
    /\ UNCHANGED <<config_json, copy, seeding, committed, reported, edits, updates>>

ConfigInit ==
    /\ config_json \in FirstFiles
    /\ copy = NoFile /\ live = NoFile /\ config_lock = Nobody
    /\ op = [w \in Writers |-> Resting] /\ seeding = {}
    /\ committed = AsRead
    /\ reported = NoFile /\ edits = 0 /\ updates = 0

Update(w) ==
    \/ \E kind \in Kinds, to \in Configs :
        /\ StartUpdate(w, kind, to)
        /\ kind \in {"prune", "migrate"} => to = Stock
        /\ Set(Stock, kind, to) = to /\ to.timeout # "legacy"
    \/ Read(w) \/ Refuses(w) \/ Checks(w) \/ Writes(w) \/ Mirrors(w)

ConfigNext ==
    \/ \E w \in Writers : Update(w)
    \/ \E l \in Loaders : Load(l) \/ Seeds(l)
    \/ Edit \/ Stop

ConfigSpec == ConfigInit /\ [][ConfigNext]_configVars

------------------------------------------------------------------------------
(* Properties.                                                             *)

ConfigTypeOK ==
    /\ config_json \in Configs \cup Breaks \cup {NoFile}
    /\ copy \in Breaks \cup {NoFile} /\ reported \in Breaks \cup {NoFile}
    /\ live \in Configs \cup {NoFile}
    /\ config_lock \in Writers \cup {Nobody}
    /\ op \in [Writers -> [step : {"idle", "wait", "read", "checked", "mirror"}, kind : Kinds, to : Configs, base : Configs]]
    /\ seeding \subseteq Loaders
    /\ committed \in Configs
    /\ edits \in 0..MaxEdits /\ updates \in 0..MaxUpdates

\* A readable file holds of every setting what the writes so far amount to, one
\* after the other: no writer's fields are dropped by another's, and a prune takes
\* nothing but retired models from the order a user saved (ConfigStore.update).
SettingsStay == config_json \in Configs => config_json = committed

\* Nothing but the person who edits it replaces a file that does not parse
\* (ConfigFileUnreadable).
BrokenStays == [][(config_json \in Breaks /\ config_json' # config_json) => edits' # edits]_configVars

\* When no write is under way, the service runs on what the file says, unless
\* a command or a person wrote it (the mirrors of the admin saves).
LiveInStep ==
    /\ live # NoFile /\ config_json \in Configs /\ edits = 0
    /\ \A w \in Writers : op[w].step = "idle"
    => live = config_json

\* What a write saved stays in the file beside what the others saved, the service runs on what is
\* there, and nothing but its editor replaces a file that does not parse (config_store.py).
SavesStay == [](SettingsStay /\ LiveInStep) /\ BrokenStays

\* The copy a refusal points to is a copy of what was refused
\* (_preserve_broken_copy).
CopyIsOfThisFile == reported # NoFile => copy = reported
=============================================================================
