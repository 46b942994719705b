------------------------------ MODULE KeyStore ------------------------------
(***************************************************************************)
(* The provider keys: where one key may live, how a request resolves it,   *)
(* how `ficelle set-key`/`remove-key` and the dashboard's key form change  *)
(* it, and the memo every process keeps of its OS store's answers          *)
(* (provider_credentials.py, router.py, cli.py).                           *)
(*                                                                         *)
(* A key is a number: 0 is "no key", n is what the n-th write put there.   *)
(* One provider and one alias are followed.  The memo is per process: the  *)
(* router's threads share one, every command line starts with none.  A     *)
(* keychain can refuse (`shut`) without its file moving, as a locked one   *)
(* does.  The order of a walk is the code's: process environment, `.env`,  *)
(* OS store; on macOS the login keychain before the dedicated one.         *)
(***************************************************************************)
EXTENDS Naturals

CONSTANTS
    Threads,     \* the router's threads and the command line
    Cli,         \* the one of them that is the command line
    Hosts,       \* the kinds of host considered
    Exports,     \* the sets of processes that may hold the key in their environment
    MaxOps,      \* bound: operations started
    MaxWrites,   \* bound: keys ever written
    MaxWindow,   \* bound: retry windows (30 s each) that pass
    MaxMishaps   \* bound: outside writes, and times a store shuts or opens

(* The kinds of host the code tells apart.                                 *)
HostLimits ==
    /\ Hosts \subseteq {"darwin", "linux", "windows", "bare"}
    /\ MaxWrites \in Nat

VARIABLES
    host,        \* which of Hosts this one is
    exported,    \* the processes with the provider's environment variable set
    key,         \* place -> the key it holds
    sig,         \* keychain -> the signature of its file, 0 when there is none
    shut,        \* the places whose store refuses or does not answer
    window,      \* the number of the current retry window
    memo,        \* process -> item -> [tag, value]
    run,         \* thread -> the operation it is at
    writes,      \* the keys written so far
    ops,         \* the operations started so far
    mishaps,     \* outside writes and changes of `shut` so far
    seen,        \* ghost: what the place a thread reads has held since the memo could know
    held,        \* ghost: what libsecret has held in this window
    told         \* ghost: what the last store read of a thread answered

disk == <<key, sig, writes>>
world == <<host, exported, shut, mishaps>>
vars == <<disk, world, window, memo, run, ops, seen, held, told>>

Places == {"file", "login", "dedicated", "libsecret", "wincred"}
Items == {"login", "dedicated", "libsecret", "unlock"}
Processes == {"server", "cli"}
Silent == MaxWrites + 1      \* `security` raised or timed out: nothing was observed
EnvKey == MaxWrites + 2      \* what a process environment holds

Process(t) == IF t = Cli THEN "cli" ELSE "server"
PlaceOf(item) == IF item = "unlock" THEN "dedicated" ELSE item

(* default_secret_store / server_secret_store: what a process reads first, *)
(* and what it writes and deletes through.                                 *)
Reads == [darwin |-> "login", linux |-> "libsecret", windows |-> "wincred", bare |-> "none"]
WritesTo(t) == IF host = "darwin" /\ t # Cli THEN "dedicated" ELSE Reads[host]

(* The places a removal by t clears, the OS store first.                   *)
Clears(t) ==
    {"file", WritesTo(t)} \cup (IF host = "darwin" THEN {"dedicated"} ELSE {})

NoTag == <<"none", 0>>
Fresh == [item \in Items |-> [tag |-> NoTag, value |-> 0]]
IdleRun == [op |-> "none", pc |-> "done", item |-> "none", tag |-> NoTag, retry |-> 0,
            got |-> 0, begun |-> 0, refused |-> FALSE, answer |-> 0]

Init ==
    /\ host \in Hosts
    /\ exported \in Exports
    /\ writes \in IF host = "bare" THEN {0} ELSE {0, 1}
    /\ key = [p \in Places |-> IF p = Reads[host] THEN writes ELSE 0]
    /\ \E d \in {0, 1}: sig = [login |-> 1, dedicated |-> IF host = "darwin" THEN d ELSE 0]
    /\ shut = {}
    /\ window = 0
    /\ memo = [p \in Processes |-> Fresh]
    /\ run = [t \in Threads |-> IdleRun]
    /\ mishaps = 0 /\ ops = 0
    /\ seen = [t \in Threads |-> {}]
    /\ held = {key["libsecret"]}
    /\ told = [t \in Threads |-> 0]

-----------------------------------------------------------------------------
(* What the code knows of a store without asking it.                       *)

(* _keychain_file_signature and _keychain_retry_window: a keychain read is *)
(* vouched for by the file, an unlock verdict and libsecret by the window. *)
Tag(item) ==
    IF item \in {"login", "dedicated"} THEN <<"file", sig[item]>> ELSE <<"retry", window>>

(* _keychain_cached: an entry serves while it matches either.  The Windows *)
(* store is never remembered.                                              *)
Hit(t, item) ==
    item \in Items /\ memo[Process(t)][item].tag \in {Tag(item), <<"retry", window>>}

(* A dedicated keychain that setup never created is not asked to open.     *)
Absent(item) == item = "unlock" /\ sig["dedicated"] = 0

(* A change of a place; a keychain's file moves with it.                   *)
Put(p, k) ==
    /\ key' = [key EXCEPT ![p] = k]
    /\ sig' = IF p \in DOMAIN sig THEN [sig EXCEPT ![p] = @ + 1] ELSE sig
    /\ held' = IF p = "libsecret" THEN held \cup {k} ELSE held
    /\ seen' = [t \in Threads |-> IF run[t].item = p THEN seen[t] \cup {k} ELSE seen[t]]

SameDisk == UNCHANGED <<disk, held>>

(* Where the operation of t goes once `item` was answered with v.          *)
Goto(t, pc) == [run[t] EXCEPT !.pc = pc, !.tag = NoTag, !.got = 0, !.retry = 0]
Ask(t, item) == [Goto(t, "look") EXCEPT !.item = item]
Answered(t, v) == [Goto(t, "done") EXCEPT !.answer = v, !.item = "none"]

(* read_canonical_keychain_secret, dedicated_keychain_delete and           *)
(* dedicated_keychain_write, after each of their store calls.              *)
Onward(t, item, v) ==
    CASE item = "unlock" /\ run[t].op = "set" ->
            Goto(t, IF v = 1 THEN "write" ELSE "refused")
      [] item = "unlock" /\ run[t].op = "remove" /\ run[t].answer = Silent ->
            IF v = 1 THEN [Goto(t, "delete") EXCEPT !.item = "dedicated"]
            ELSE [Goto(t, "file") EXCEPT !.refused = @ \/ sig["dedicated"] # 0]
      [] item = "unlock" /\ run[t].op # "set" /\ (run[t].op = "resolve" \/ run[t].answer # Silent) ->
            IF v = 1 THEN Ask(t, "dedicated") ELSE Answered(t, 0)
      [] item = "login" /\ v = 0 -> Ask(t, "unlock")
      [] OTHER -> Answered(t, v)

Tell(t, item, v) ==
    /\ run' = [run EXCEPT ![t] = Onward(t, item, v)]
    /\ told' = [told EXCEPT ![t] = IF item = "unlock" THEN 0 ELSE v]

-----------------------------------------------------------------------------
(* One store read: consult the memo, ask the store, keep what it said.     *)

(* The signature is sampled here, before the store is asked.               *)
Sampled(t, item) == [run[t] EXCEPT !.pc = "probe", !.tag = Tag(item), !.retry = window]

Look(t) ==
    LET item == run[t].item IN
    /\ run[t].pc = "look"
    /\ seen' = [seen EXCEPT ![t] =
                   IF item = "libsecret" THEN held ELSE {key[PlaceOf(item)]}]
    /\ \/ /\ Absent(item)
          /\ Tell(t, item, 0)
       \/ /\ ~Absent(item) /\ Hit(t, item)
          /\ Tell(t, item, memo[Process(t)][item].value)
       \/ /\ ~Absent(item) /\ ~Hit(t, item)
          /\ run' = [run EXCEPT ![t] = Sampled(t, item)]
          /\ told' = [told EXCEPT ![t] = 0]
    /\ SameDisk
    /\ UNCHANGED <<world, window, memo>>

(* A store that will not open exits non-zero, which reads as "no key", or  *)
(* does not answer at all.                                                 *)
Said(item) ==
    IF PlaceOf(item) \in shut THEN {0, Silent}
    ELSE {IF item = "unlock" THEN 1 ELSE key[item]}

Probe(t) ==
    LET item == run[t].item IN
    /\ run[t].pc = "probe"
    /\ \E v \in Said(item):
         IF item = "wincred"
         THEN Tell(t, item, IF v = Silent THEN 0 ELSE v)
         ELSE /\ run' = [run EXCEPT ![t].pc = "keep", ![t].got = v]
              /\ UNCHANGED told
    /\ SameDisk
    /\ UNCHANGED <<world, window, memo, seen>>

(* The entry carries the signature sampled before the store was asked; a   *)
(* store that said nothing is asked again in the next window.              *)
EntryTagLate(r) == IF r.got = Silent THEN <<"retry", r.retry>> ELSE Tag(r.item)
EntryTag(r) == IF r.got = Silent THEN <<"retry", r.retry>> ELSE r.tag

Keep(t) ==
    LET r == run[t]
        v == IF r.got = Silent THEN 0 ELSE r.got
    IN  /\ r.pc = "keep"
        /\ memo' = [memo EXCEPT ![Process(t)][r.item] = [tag |-> EntryTag(r), value |-> v]]
        /\ Tell(t, r.item, v)
        /\ SameDisk
        /\ UNCHANGED <<world, window, seen>>

-----------------------------------------------------------------------------
(* The operations.                                                         *)

(* A command line is a process of its own: it starts without a memo.       *)
BeginMemo(t) == IF t = Cli THEN [memo EXCEPT !["cli"] = Fresh] ELSE memo

Start(t, op, next, begun) ==
    /\ run[t].pc = "done" /\ ops < MaxOps
    /\ ops' = ops + 1
    /\ run' = [run EXCEPT ![t] = [next EXCEPT !.op = op, !.begun = begun]]
    /\ memo' = BeginMemo(t)
    /\ told' = [told EXCEPT ![t] = 0]
    /\ SameDisk
    /\ UNCHANGED <<world, window, seen>>

(* resolve_credentials: the environment and the `.env` are read as they    *)
(* are, the store through the memo.                                        *)
Walked(t) ==
    IF Process(t) \in exported THEN Answered(t, EnvKey)
    ELSE IF key["file"] # 0 THEN Answered(t, key["file"])
    ELSE IF host = "bare" THEN Answered(t, 0)
    ELSE [Ask(t, Reads[host]) EXCEPT !.answer = 0]

Resolve(t) == Start(t, "resolve", [Walked(t) EXCEPT !.refused = FALSE], 0)

(* store_provider_key through the process's own store.                     *)
SetKey(t) ==
    /\ Start(t, "set", [IdleRun EXCEPT
                !.pc = IF WritesTo(t) = "dedicated" THEN "look"
                       ELSE IF host = "bare" THEN "plaintext" ELSE "write",
                !.item = IF WritesTo(t) = "dedicated" THEN "unlock" ELSE "none"], 0)

(* The store takes the key, or refuses it.                                 *)
StoreWrite(t) ==
    LET p == WritesTo(t) IN
    /\ run[t].pc = "write"
    /\ \/ /\ p \notin shut /\ writes < MaxWrites
          /\ writes' = writes + 1
          /\ Put(p, writes + 1)
          /\ run' = [run EXCEPT ![t] = [Goto(t, "drop") EXCEPT !.item = "none", !.answer = writes + 1]]
       \/ /\ p \in shut
          /\ run' = [run EXCEPT ![t] = [Goto(t, "refused") EXCEPT !.item = "none"]]
          /\ UNCHANGED <<disk, held, seen>>
    /\ UNCHANGED <<world, window, memo, told>>

(* A refusal is final, unless a person typed --allow-plaintext.            *)
StoreRefused(t) ==
    /\ run[t].pc = "refused"
    /\ run' = [run EXCEPT ![t] = Answered(t, 0)]
    /\ SameDisk
    /\ UNCHANGED <<world, window, memo, seen, told>>

AllowPlaintext(t) ==
    /\ run[t].pc = "refused" /\ t = Cli
    /\ run' = [run EXCEPT ![t] = [Goto(t, "plaintext") EXCEPT !.item = "none"]]
    /\ SameDisk
    /\ UNCHANGED <<world, window, memo, seen, told>>

(* env_file_set_key.                                                       *)
FileWrite(t) ==
    /\ run[t].pc = "plaintext" /\ writes < MaxWrites
    /\ writes' = writes + 1
    /\ Put("file", writes + 1)
    /\ run' = [run EXCEPT ![t] = Answered(t, writes + 1)]
    /\ UNCHANGED <<world, window, memo, told>>

(* The rest of the store after one place of it: KeychainStore.delete also  *)
(* clears the dedicated keychain.                                          *)
Beyond(t) ==
    IF run[t].item = "login" THEN Ask(t, "unlock")
    ELSE [Goto(t, "file") EXCEPT !.item = "none"]

(* invalidate_credential_cache, once the store call returned: this         *)
(* process's memo only.                                                    *)
Dropped(t) == [memo EXCEPT ![Process(t)] = Fresh]

DropMemo(t) ==
    /\ run[t].pc = "drop"
    /\ memo' = Dropped(t)
    /\ IF run[t].op = "set"
       THEN run' = [run EXCEPT ![t] = Answered(t, run[t].answer)]
       ELSE run' = [run EXCEPT ![t] = Beyond(t)]
    /\ SameDisk
    /\ UNCHANGED <<world, window, seen, told>>

(* remove_provider_key: the OS store, then the `.env`, then the walk again *)
(* for the verdict.  While it clears, its answer is not known yet.         *)
RemoveKey(t) ==
    /\ Start(t, "remove", [IdleRun EXCEPT
                !.pc = IF WritesTo(t) = "dedicated" THEN "look"
                       ELSE IF host = "bare" THEN "file" ELSE "delete",
                !.item = IF WritesTo(t) = "dedicated" THEN "unlock"
                         ELSE IF host = "bare" THEN "none" ELSE WritesTo(t),
                !.answer = Silent], writes)

(* record_delete: a refusal is remembered whatever the later places say.   *)
LatchedLast(t, next) == [next EXCEPT !.refused = run[t].item # "login"]
Latched(t, next) == [next EXCEPT !.refused = TRUE]

StoreDelete(t) ==
    LET p == run[t].item IN
    /\ run[t].pc = "delete"
    /\ \/ /\ p \in shut
          /\ run' = [run EXCEPT ![t] = Latched(t, Beyond(t))]
          /\ UNCHANGED <<disk, held, seen>>
       \/ /\ p \notin shut
          /\ key[p] = 0 /\ p # "libsecret"
          /\ run' = [run EXCEPT ![t] = Beyond(t)]
          /\ UNCHANGED <<disk, held, seen>>
       \/ /\ p \notin shut
          /\ key[p] # 0 \/ p = "libsecret"
          /\ Put(p, 0)
          /\ UNCHANGED writes
          /\ run' = [run EXCEPT ![t] = IF p = "wincred" THEN Beyond(t) ELSE Goto(t, "drop")]
    /\ UNCHANGED <<world, window, memo, told>>

(* env_file_delete_key reads the file, then writes it without the line.    *)
FileRead(t) ==
    /\ run[t].pc = "file"
    /\ run' = [run EXCEPT ![t] = IF key["file"] = 0 THEN Walked(t) ELSE Goto(t, "unfile")]
    /\ SameDisk
    /\ UNCHANGED <<world, window, memo, seen, told>>

FileDelete(t) ==
    /\ run[t].pc = "unfile"
    /\ Put("file", 0)
    /\ run' = [run EXCEPT ![t] = Goto(t, "verdict")]
    /\ UNCHANGED <<writes, world, window, memo, told>>

Verdict(t) ==
    /\ run[t].pc = "verdict"
    /\ run' = [run EXCEPT ![t] = Walked(t)]
    /\ SameDisk
    /\ UNCHANGED <<world, window, memo, seen, told>>

-----------------------------------------------------------------------------
(* The world: another program writes the store, setup creates the          *)
(* dedicated keychain, a store locks or opens, a window passes.            *)

Outside ==
    /\ host \in {"darwin", "linux", "windows"} /\ writes < MaxWrites
    /\ Reads[host] \notin shut /\ mishaps < MaxMishaps
    /\ mishaps' = mishaps + 1
    /\ writes' = writes + 1
    /\ Put(Reads[host], writes + 1)
    /\ UNCHANGED <<host, exported, shut, window, memo, run, told>>

CreateKeychain ==
    /\ host = "darwin" /\ sig["dedicated"] = 0
    /\ sig' = [sig EXCEPT !["dedicated"] = 1]
    /\ UNCHANGED <<key, writes, world, window, memo, run, seen, held, told>>

Toggle ==
    /\ mishaps < MaxMishaps
    /\ mishaps' = mishaps + 1
    /\ \E p \in {"login", "dedicated", "libsecret", "wincred"}:
         /\ p = Reads[host] \/ (host = "darwin" /\ p = "dedicated")
         /\ shut' = IF p \in shut THEN shut \ {p} ELSE shut \cup {p}
    /\ UNCHANGED <<disk, host, exported, window, memo, run, seen, held, told>>

Window ==
    /\ window < MaxWindow
    /\ window' = window + 1
    /\ held' = {key["libsecret"]}
    /\ UNCHANGED <<disk, world, memo, run, seen, told>>

Begin(t) == Resolve(t) \/ SetKey(t) \/ RemoveKey(t)

Go(t) ==
    \/ Look(t) \/ Probe(t) \/ Keep(t)
    \/ StoreWrite(t) \/ StoreRefused(t) \/ AllowPlaintext(t) \/ FileWrite(t)
    \/ StoreDelete(t) \/ DropMemo(t) \/ FileRead(t) \/ FileDelete(t) \/ Verdict(t)

Next ==
    \/ \E t \in Threads: Begin(t)
    \/ UNCHANGED ops /\ \E t \in Threads: Go(t)
    \/ UNCHANGED ops /\ (Outside \/ CreateKeychain \/ Toggle \/ Window)

Spec == Init /\ [][Next]_vars

-----------------------------------------------------------------------------
(* A removal that reports itself verified and says that no key resolves    *)
(* any more (remove_key, the dashboard's removal) left no key it found in  *)
(* any place it clears: neither a store that refused, nor a keychain that  *)
(* would not open, nor a memo of either reads as an empty place.           *)
RemovalVerdictIsTrue ==
    \A t \in Threads:
        (/\ run[t].op = "remove" /\ run[t].pc = "done"
         /\ ~run[t].refused /\ run[t].answer = 0)
        => \A p \in Clears(t) \cap Places: key[p] = 0 \/ key[p] > run[t].begun

(* A key the memo serves is never older than it may be: on macOS the place *)
(* held it at some moment of this very read, however many threads read and *)
(* other processes write; on Linux, in this retry window.                  *)
ServedKeyIsFresh == \A t \in Threads: told[t] # 0 => told[t] \in seen[t]
=============================================================================
