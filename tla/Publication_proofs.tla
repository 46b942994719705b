-------------------------- MODULE Publication_proofs --------------------------
(***************************************************************************)
(* Two results, for any number of threads, operations, outside writers and *)
(* windows, on every host: a key served from the memo of a process is one  *)
(* its store held while it was being read (macOS) or in this retry window  *)
(* (Linux); and a removal that reports no key left tells the truth.        *)
(*                                                                         *)
(* The first argument is about signatures.  A keychain's file moves with   *)
(* every change of it and never back, so an entry that carries the         *)
(* signature of now was read from what the keychain holds now (Memos).  An *)
(* entry is kept under the signature sampled BEFORE the store was asked    *)
(* (Reading): if the keychain changed in between, the entry carries a      *)
(* signature that is over and is never served.                             *)
(*                                                                         *)
(* The second follows a removal from place to place (Removal): what it is  *)
(* past is clear or holds a newer key, unless it remembers a refusal.      *)
(***************************************************************************)
EXTENDS KeyStore, ConfigStore, CatalogPublish, Licence, SetLemmas

Keychains == {"login", "dedicated"}
Asked == Items \cup {"wincred"}
Names == Places \cup Items \cup {"none"}
Pcs == {"look", "probe", "keep", "write", "refused", "plaintext", "drop", "delete", "file", "unfile",
        "verdict", "done"}
Ops == {"none", "resolve", "set", "remove"}
Tags == {"none", "file", "retry"} \X Nat
Entries == [tag : Tags, value : Nat]
Runs == [op : Ops, pc : Pcs, item : Names, tag : Tags, retry : Nat, got : Nat, begun : Nat,
         refused : BOOLEAN, answer : Nat]

Typed ==
    /\ host \in Hosts /\ key \in [Places -> Nat] /\ sig \in [Keychains -> Nat]
    /\ window \in Nat /\ writes \in Nat
    /\ memo \in [Processes -> [Items -> Entries]]
    /\ run \in [Threads -> Runs]
    /\ seen \in [Threads -> SUBSET Nat] /\ held \in SUBSET Nat /\ told \in [Threads -> Nat]
    /\ key["libsecret"] \in held

\* What an entry says of its store.
EntryHolds(e, item) ==
    /\ item \in Keychains /\ e.tag[1] = "file" =>
          e.tag[2] <= sig[item] /\ (e.tag[2] = sig[item] => e.value \in {0, key[item]})
    /\ item \in Keychains /\ e.tag[1] = "retry" => e.value = 0
    /\ item = "libsecret" /\ e.tag[1] = "retry" =>
          e.tag[2] <= window /\ (e.tag[2] = window => e.value \in {0} \cup held)

Memos == \A p \in Processes, item \in Items : EntryHolds(memo[p][item], item)

\* What a read under way knows: the place held what it was told since the read began, and it
\* sampled its signature before that.
Reading(t) ==
    LET r == run[t]
    IN  /\ r.pc = "look" => r.item \in Asked
        /\ r.pc = "probe" =>
              /\ r.item \in Asked /\ (r.item # "unlock" => key[r.item] \in seen[t])
              /\ r.item \in Keychains => r.tag[1] = "file" /\ r.tag[2] <= sig[r.item]
              /\ r.item = "libsecret" => r.tag[1] = "retry" /\ r.tag[2] <= window /\ r.retry <= window
        /\ r.pc = "keep" =>
              /\ r.item \in Items /\ (r.item # "unlock" => r.got \in seen[t] \cup {0, Silent})
              /\ r.item \in Keychains =>
                    /\ r.tag[1] = "file" /\ r.tag[2] <= sig[r.item]
                    /\ r.tag[2] = sig[r.item] => r.got \in {0, Silent, key[r.item]}
              /\ r.item = "libsecret" =>
                    /\ r.tag[1] = "retry" /\ r.tag[2] <= window /\ r.retry <= window
                    /\ r.tag[2] = window => r.got \in {0, Silent} \cup held

IInv == Typed /\ Memos /\ (\A t \in Threads : Reading(t)) /\ ServedKeyIsFresh

------------------------------------------------------------------------------
(* Where an operation may go: to the start of a read, or out of reading.   *)

Settled(r) == r \in Runs /\ r.pc \notin {"probe", "keep"} /\ (r.pc = "look" => r.item \in Asked)

LEMMA GotoSettles ==
  ASSUME Typed, NEW t \in Threads, NEW pc \in Pcs
  PROVE  Goto(t, pc) \in Runs /\ Goto(t, pc).pc = pc /\ Goto(t, pc).item = run[t].item
<1>1. run[t] \in Runs /\ NoTag \in Tags
  BY DEF Typed, NoTag, Tags
<1> QED BY <1>1 DEF Goto, Runs

LEMMA AskSettles ==
  ASSUME Typed, NEW t \in Threads, NEW item \in Asked
  PROVE  Settled(Ask(t, item))
<1>1. Goto(t, "look") \in Runs /\ Goto(t, "look").pc = "look"
  BY GotoSettles DEF Pcs
<1>2. item \in Names
  BY DEF Asked, Names, Places
<1> QED BY <1>1, <1>2 DEF Ask, Settled, Runs

LEMMA AnsweredSettles ==
  ASSUME Typed, NEW t \in Threads, NEW v \in Nat
  PROVE  Settled(Answered(t, v)) /\ Answered(t, v).pc = "done"
<1>1. Goto(t, "done") \in Runs /\ Goto(t, "done").pc = "done"
  BY GotoSettles DEF Pcs
<1>2. "none" \in Names
  BY DEF Names
<1> QED BY <1>1, <1>2 DEF Answered, Settled, Runs

LEMMA OnwardSettles ==
  ASSUME Typed, NEW t \in Threads, NEW item, NEW v \in Nat
  PROVE  Settled(Onward(t, item, v))
<1> DEFINE O == Onward(t, item, v)
           delete == [Goto(t, "delete") EXCEPT !.item = "dedicated"]
           unfile == [Goto(t, "file") EXCEPT !.refused = @ \/ sig["dedicated"] # 0]
<1>1. \A pc \in {"write", "refused", "delete", "file"} : Settled(Goto(t, pc))
  BY GotoSettles DEF Settled, Pcs
<1>2. Settled(delete) /\ Settled(unfile)
  <2>1. /\ Goto(t, "delete") \in Runs /\ Goto(t, "delete").pc = "delete"
        /\ Goto(t, "file") \in Runs /\ Goto(t, "file").pc = "file"
    BY GotoSettles DEF Pcs
  <2>3. "dedicated" \in Names
    BY DEF Names, Places
  <2>2. (Goto(t, "file").refused \/ sig["dedicated"] # 0) \in BOOLEAN
    OBVIOUS
  <2> QED BY <2>1, <2>2, <2>3 DEF Settled, Runs
<1>3. \A i \in {"dedicated", "unlock"} : Settled(Ask(t, i))
  BY AskSettles DEF Asked, Items
<1>4. Settled(Answered(t, 0)) /\ Settled(Answered(t, v))
  BY AnsweredSettles
<1>5. \/ O = Goto(t, IF v = 1 THEN "write" ELSE "refused")
      \/ O = IF v = 1 THEN delete ELSE unfile
      \/ O = IF v = 1 THEN Ask(t, "dedicated") ELSE Answered(t, 0)
      \/ O = Ask(t, "unlock")
      \/ O = Answered(t, v)
  BY DEF Onward
<1> HIDE DEF O, delete, unfile
<1>6. Settled(O)
  BY <1>1, <1>2, <1>3, <1>4, <1>5
<1> QED BY <1>6 DEF O

LEMMA WalkedSettles ==
  ASSUME HostLimits, Typed, NEW t \in Threads
  PROVE  Settled(Walked(t))
<1>1. EnvKey \in Nat /\ key["file"] \in Nat
  BY DEF HostLimits, EnvKey, Typed, Places
<1>2. /\ Settled(Answered(t, EnvKey)) /\ Settled(Answered(t, key["file"])) /\ Settled(Answered(t, 0))
  BY <1>1, AnsweredSettles
<1>3. host # "bare" => Settled([Ask(t, Reads[host]) EXCEPT !.answer = 0])
  <2>1. host # "bare" => Reads[host] \in Asked
    BY DEF HostLimits, Typed, Reads, Asked, Items
  <2>2. host # "bare" => Settled(Ask(t, Reads[host]))
    BY <2>1, AskSettles
  <2> QED BY <2>2 DEF Settled, Runs
<1> QED BY <1>2, <1>3 DEF Walked

------------------------------------------------------------------------------
(* The stores move: a keychain's signature goes up with each change of it, *)
(* a window only forward, and a change reaches every read that waits.      *)

StoresMove ==
    /\ key' \in [Places -> Nat] /\ sig' \in [Keychains -> Nat] /\ window' \in Nat
    /\ held' \in SUBSET Nat /\ key'["libsecret"] \in held'
    /\ \A i \in Keychains : sig'[i] >= sig[i] /\ (sig'[i] = sig[i] => key'[i] = key[i])
    /\ window' >= window /\ (window' = window => held \subseteq held')

Sees(t) ==
    /\ seen'[t] \in SUBSET Nat /\ seen[t] \subseteq seen'[t]
    /\ run[t].item \in Places => key'[run[t].item] \in seen'[t] \cup {key[run[t].item]}

LEMMA Still ==
  ASSUME Typed, SameDisk, UNCHANGED <<window, seen>>
  PROVE  StoresMove /\ \A t \in Threads : Sees(t)
<1>1. key' = key /\ sig' = sig /\ held' = held /\ window' = window /\ seen' = seen
  BY DEF SameDisk, disk
<1>2. \A i \in Keychains : sig[i] \in Nat
  BY DEF Typed
<1> QED BY <1>1, <1>2 DEF Typed, StoresMove, Sees

LEMMA PutMoves ==
  ASSUME Typed, NEW p \in Names, NEW k \in Nat, Put(p, k), UNCHANGED window
  PROVE  StoresMove /\ \A t \in Threads : Sees(t)
<1>1. /\ key' = [key EXCEPT ![p] = k] /\ window' = window
      /\ sig' = IF p \in DOMAIN sig THEN [sig EXCEPT ![p] = @ + 1] ELSE sig
      /\ held' = IF p = "libsecret" THEN held \cup {k} ELSE held
      /\ seen' = [t \in Threads |-> IF run[t].item = p THEN seen[t] \cup {k} ELSE seen[t]]
  BY DEF Put
<1>2. /\ key \in [Places -> Nat] /\ sig \in [Keychains -> Nat] /\ DOMAIN sig = Keychains
      /\ held \in SUBSET Nat /\ key["libsecret"] \in held /\ "libsecret" \in Places
      /\ window \in Nat /\ \A t \in Threads : seen[t] \in SUBSET Nat
      /\ Keychains \subseteq Places
  BY DEF Typed, Keychains, Places
<1>3. key' \in [Places -> Nat] /\ sig' \in [Keychains -> Nat] /\ held' \in SUBSET Nat
  <2>1. sig' \in [Keychains -> Nat]
    BY <1>1, <1>2
  <2> QED BY <1>1, <1>2, <2>1
<1>4. key'["libsecret"] \in held'
  BY <1>1, <1>2
<1>5. ASSUME NEW i \in Keychains
      PROVE  sig'[i] >= sig[i] /\ (sig'[i] = sig[i] => key'[i] = key[i])
  <2>1. CASE i = p
    <3>1. sig'[i] = sig[i] + 1 /\ sig[i] \in Nat
      BY <1>1, <1>2, <2>1
    <3> QED BY <3>1
  <2>2. CASE i # p
    <3>1. sig'[i] = sig[i] /\ key'[i] = key[i] /\ sig[i] \in Nat
      BY <1>1, <1>2, <2>2
    <3> QED BY <3>1
  <2> QED BY <2>1, <2>2
<1>6. StoresMove
  BY <1>1, <1>2, <1>3, <1>4, <1>5 DEF StoresMove
<1>7. \A t \in Threads : Sees(t)
  BY <1>1, <1>2 DEF Sees
<1> QED BY <1>6, <1>7

\* An entry of the memo stays true while the stores move.
LEMMA EntryStays ==
  ASSUME Typed, StoresMove, NEW e \in Entries, NEW item \in Items, EntryHolds(e, item)
  PROVE  EntryHolds(e, item)'
<1>1. e.tag[1] \in {"none", "file", "retry"} /\ e.tag[2] \in Nat /\ e.value \in Nat
  BY DEF Entries, Tags
<1>2. CASE item \in Keychains
  <2>1. sig[item] \in Nat /\ sig'[item] \in Nat
    BY <1>2 DEF Typed, StoresMove
  <2>2. sig'[item] >= sig[item] /\ (sig'[item] = sig[item] => key'[item] = key[item])
    BY <1>2 DEF StoresMove
  <2>3. item # "libsecret"
    BY <1>2 DEF Keychains
  <2> QED BY <1>1, <1>2, <2>1, <2>2, <2>3 DEF EntryHolds
<1>3. CASE item = "libsecret"
  <2>1. /\ window \in Nat /\ window' \in Nat /\ window' >= window
        /\ window' = window => held \subseteq held'
    BY DEF Typed, StoresMove
  <2>2. item \notin Keychains
    BY <1>3 DEF Keychains
  <2> QED BY <1>1, <1>3, <2>1, <2>2 DEF EntryHolds
<1>4. CASE item \notin Keychains /\ item # "libsecret"
  BY <1>4 DEF EntryHolds
<1> QED BY <1>2, <1>3, <1>4

\* So does what a read under way knows.
LEMMA ReadingStays ==
  ASSUME Typed, StoresMove, NEW t \in Threads, Reading(t), Sees(t), run'[t] = run[t]
  PROVE  Reading(t)'
<1> DEFINE r == run[t]
<1>1. /\ r \in Runs /\ r.tag[1] \in {"none", "file", "retry"} /\ r.tag[2] \in Nat /\ r.got \in Nat
      /\ r.retry \in Nat
  BY DEF Typed, Runs, Tags
<1>2. r.item \in Keychains => /\ sig[r.item] \in Nat /\ sig'[r.item] \in Nat
                              /\ sig'[r.item] >= sig[r.item]
                              /\ sig'[r.item] = sig[r.item] => key'[r.item] = key[r.item]
  BY DEF Typed, StoresMove
<1>3. /\ window \in Nat /\ window' \in Nat /\ window' >= window
      /\ window' = window => held \subseteq held'
  BY DEF Typed, StoresMove
<1>4. /\ seen[t] \subseteq seen'[t]
      /\ r.item \in Places => key'[r.item] \in seen'[t] \cup {key[r.item]}
  BY DEF Sees
<1>5. r.item \in Asked /\ r.item # "unlock" => r.item \in Places
  BY DEF Asked, Items, Places
<1> HIDE DEF r
<1>6. r.pc = "look" => r.item \in Asked
  BY DEF Reading, r
<1>7. r.pc = "probe" =>
        /\ r.item \in Asked /\ (r.item # "unlock" => key'[r.item] \in seen'[t])
        /\ r.item \in Keychains => r.tag[1] = "file" /\ r.tag[2] <= sig'[r.item]
        /\ r.item = "libsecret" => r.tag[1] = "retry" /\ r.tag[2] <= window' /\ r.retry <= window'
  <2> SUFFICES ASSUME r.pc = "probe"
               PROVE  /\ r.item \in Asked /\ (r.item # "unlock" => key'[r.item] \in seen'[t])
                      /\ r.item \in Keychains => r.tag[1] = "file" /\ r.tag[2] <= sig'[r.item]
                      /\ r.item = "libsecret" => r.tag[1] = "retry" /\ r.tag[2] <= window' /\ r.retry <= window'
    OBVIOUS
  <2>1. /\ r.item \in Asked /\ (r.item # "unlock" => key[r.item] \in seen[t])
        /\ r.item \in Keychains => r.tag[1] = "file" /\ r.tag[2] <= sig[r.item]
        /\ r.item = "libsecret" => r.tag[1] = "retry" /\ r.tag[2] <= window /\ r.retry <= window
    BY DEF Reading, r
  <2> QED BY <1>1, <1>2, <1>3, <1>4, <1>5, <2>1
<1>8. r.pc = "keep" =>
        /\ r.item \in Items /\ (r.item # "unlock" => r.got \in seen'[t] \cup {0, Silent})
        /\ r.item \in Keychains =>
              /\ r.tag[1] = "file" /\ r.tag[2] <= sig'[r.item]
              /\ r.tag[2] = sig'[r.item] => r.got \in {0, Silent, key'[r.item]}
        /\ r.item = "libsecret" =>
              /\ r.tag[1] = "retry" /\ r.tag[2] <= window' /\ r.retry <= window'
              /\ r.tag[2] = window' => r.got \in {0, Silent} \cup held'
  <2> SUFFICES ASSUME r.pc = "keep"
               PROVE  /\ r.item \in Items /\ (r.item # "unlock" => r.got \in seen'[t] \cup {0, Silent})
                      /\ r.item \in Keychains =>
                            /\ r.tag[1] = "file" /\ r.tag[2] <= sig'[r.item]
                            /\ r.tag[2] = sig'[r.item] => r.got \in {0, Silent, key'[r.item]}
                      /\ r.item = "libsecret" =>
                            /\ r.tag[1] = "retry" /\ r.tag[2] <= window' /\ r.retry <= window'
                            /\ r.tag[2] = window' => r.got \in {0, Silent} \cup held'
    OBVIOUS
  <2>1. /\ r.item \in Items /\ (r.item # "unlock" => r.got \in seen[t] \cup {0, Silent})
        /\ r.item \in Keychains =>
              /\ r.tag[1] = "file" /\ r.tag[2] <= sig[r.item]
              /\ r.tag[2] = sig[r.item] => r.got \in {0, Silent, key[r.item]}
        /\ r.item = "libsecret" =>
              /\ r.tag[1] = "retry" /\ r.tag[2] <= window /\ r.retry <= window
              /\ r.tag[2] = window => r.got \in {0, Silent} \cup held
    BY DEF Reading, r
  <2> QED BY <1>1, <1>2, <1>3, <1>4, <2>1
<1> QED BY <1>6, <1>7, <1>8 DEF Reading, r

------------------------------------------------------------------------------
(* The steps.                                                              *)

LEMMA InitInv == HostLimits /\ Init => IInv
<1> SUFFICES ASSUME HostLimits, Init PROVE IInv
  OBVIOUS
<1>1. /\ host \in Hosts /\ writes \in Nat /\ window = 0 /\ key \in [Places -> Nat]
      /\ sig \in [Keychains -> Nat] /\ held = {key["libsecret"]} /\ key["libsecret"] \in Nat
  <2>1. writes \in Nat
    BY DEF Init
  <2>2. key \in [Places -> Nat]
    BY <2>1 DEF Init
  <2>3. \A d \in {0, 1} : [login |-> 1, dedicated |-> IF host = "darwin" THEN d ELSE 0] \in [Keychains -> Nat]
    BY DEF Keychains
  <2> QED BY <2>1, <2>2, <2>3 DEF Init, Places
<1>2. memo = [p \in Processes |-> Fresh] /\ Fresh \in [Items -> Entries]
  BY DEF Init, Fresh, Entries, Tags, NoTag
<1>3. IdleRun \in Runs /\ IdleRun.pc = "done"
  BY DEF IdleRun, Runs, Ops, Pcs, Names, Tags, NoTag
<1>4. run = [t \in Threads |-> IdleRun] /\ seen = [t \in Threads |-> {}] /\ told = [t \in Threads |-> 0]
  BY DEF Init
<1>5. Typed
  BY <1>1, <1>2, <1>3, <1>4 DEF Typed
<1>6. Memos
  <2>1. \A p \in Processes, item \in Items : memo[p][item] = [tag |-> <<"none", 0>>, value |-> 0]
    BY <1>2 DEF Fresh, NoTag
  <2> QED BY <2>1 DEF Memos, EntryHolds
<1>7. (\A t \in Threads : Reading(t)) /\ ServedKeyIsFresh
  BY <1>3, <1>4 DEF Reading, ServedKeyIsFresh
<1> QED BY <1>5, <1>6, <1>7 DEF IInv

\* Whatever moves the stores, drops entries or takes threads out of their reads keeps the invariant.
LEMMA QuietKeeps ==
  ASSUME IInv, StoresMove, \A t \in Threads : Sees(t),
         UNCHANGED host, writes' \in Nat,
         seen' \in [Threads -> SUBSET Nat],
         run' \in [Threads -> Runs], \A t \in Threads : run'[t] = run[t] \/ Settled(run'[t]),
         told' \in [Threads -> Nat], \A t \in Threads : told'[t] \in {0, told[t]},
         memo' \in [Processes -> [Items -> Entries]],
         \A p \in Processes, item \in Items :
            memo'[p][item] = memo[p][item] \/ memo'[p][item].tag = NoTag
  PROVE  IInv'
<1>0. Typed /\ Memos /\ (\A t \in Threads : Reading(t)) /\ ServedKeyIsFresh
  BY DEF IInv
<1>1. Typed'
  BY <1>0 DEF Typed, StoresMove
<1>2. Memos'
  <2> SUFFICES ASSUME NEW p \in Processes, NEW item \in Items
               PROVE  EntryHolds(memo[p][item], item)'
    BY DEF Memos
  <2>1. CASE memo'[p][item] = memo[p][item]
    <3>1. PICK e \in Entries : e = memo[p][item]
      BY <1>0 DEF Typed
    <3>2. EntryHolds(e, item)
      BY <1>0, <3>1 DEF Memos
    <3>3. EntryHolds(e, item)'
      BY <1>0, <3>2, EntryStays
    <3> QED BY <2>1, <3>1, <3>3 DEF EntryHolds
  <2>2. CASE memo'[p][item].tag = NoTag
    BY <2>2 DEF EntryHolds, NoTag
  <2> QED BY <2>1, <2>2
<1>3. ASSUME NEW t \in Threads PROVE Reading(t)'
  <2>1. CASE run'[t] = run[t]
    BY <1>0, <2>1, ReadingStays
  <2>2. CASE Settled(run'[t])
    BY <2>2 DEF Settled, Reading
  <2> QED BY <2>1, <2>2
<1>4. ServedKeyIsFresh'
  <2>1. \A t \in Threads : seen[t] \subseteq seen'[t]
    BY DEF Sees
  <2> QED BY <1>0, <2>1 DEF ServedKeyIsFresh
<1> QED BY <1>1, <1>2, <1>3, <1>4 DEF IInv

\* The start of an operation.
LEMMA BeginKeeps ==
  ASSUME HostLimits, IInv, NEW t \in Threads, Begin(t)
  PROVE  IInv'
<1>0. Typed
  BY DEF IInv
<1>1. WritesTo(t) \in Names /\ Silent \in Nat /\ writes \in Nat
  <2>1. host \in {"darwin", "linux", "windows", "bare"}
    BY <1>0 DEF HostLimits, Typed
  <2>2. WritesTo(t) \in Names
    BY <2>1 DEF WritesTo, Reads, Names, Places
  <2> QED BY <1>0, <2>2 DEF HostLimits, Typed, Silent
<1>2. PICK what \in Ops, next \in Runs, begun \in Nat : Start(t, what, next, begun) /\ Settled(next)
  <2>1. CASE Resolve(t)
    <3>1. Settled([Walked(t) EXCEPT !.refused = FALSE])
      BY <1>0, WalkedSettles DEF Settled, Runs
    <3>2. [Walked(t) EXCEPT !.refused = FALSE] \in Runs /\ "resolve" \in Ops
      BY <3>1 DEF Settled, Ops
    <3>3. Start(t, "resolve", [Walked(t) EXCEPT !.refused = FALSE], 0)
      BY <2>1 DEF Resolve
    <3> QED BY <3>1, <3>2, <3>3
  <2>2. CASE SetKey(t)
    <3> DEFINE next == [IdleRun EXCEPT
                 !.pc = IF WritesTo(t) = "dedicated" THEN "look"
                        ELSE IF host = "bare" THEN "plaintext" ELSE "write",
                 !.item = IF WritesTo(t) = "dedicated" THEN "unlock" ELSE "none"]
    <3>1. Settled(next)
      BY DEF Settled, IdleRun, Runs, Ops, Pcs, Names, Items, Asked, Tags, NoTag
    <3>2. Start(t, "set", next, 0)
      BY <2>2 DEF SetKey
    <3> HIDE DEF next
    <3>3. next \in Runs /\ "set" \in Ops
      BY <3>1 DEF Settled, Ops
    <3> QED BY <3>1, <3>2, <3>3
  <2>3. CASE RemoveKey(t)
    <3> DEFINE next == [IdleRun EXCEPT
                 !.pc = IF WritesTo(t) = "dedicated" THEN "look"
                        ELSE IF host = "bare" THEN "file" ELSE "delete",
                 !.item = IF WritesTo(t) = "dedicated" THEN "unlock"
                          ELSE IF host = "bare" THEN "none" ELSE WritesTo(t),
                 !.answer = Silent]
    <3>1. Settled(next)
      BY <1>1 DEF Settled, IdleRun, Runs, Ops, Pcs, Names, Items, Asked, Tags, NoTag
    <3>2. Start(t, "remove", next, writes)
      BY <2>3 DEF RemoveKey
    <3> HIDE DEF next
    <3>3. next \in Runs /\ "remove" \in Ops
      BY <3>1 DEF Settled, Ops
    <3> QED BY <1>1, <3>1, <3>2, <3>3
  <2> QED BY <2>1, <2>2, <2>3 DEF Begin
<1>3. /\ run' = [run EXCEPT ![t] = [next EXCEPT !.op = what, !.begun = begun]]
      /\ memo' = BeginMemo(t) /\ told' = [told EXCEPT ![t] = 0]
      /\ SameDisk /\ UNCHANGED <<world, window, seen>>
  BY <1>2 DEF Start
<1>4. Settled([next EXCEPT !.op = what, !.begun = begun])
  BY <1>2 DEF Settled, Runs
<1>5. run' \in [Threads -> Runs] /\ \A u \in Threads : run'[u] = run[u] \/ Settled(run'[u])
  BY <1>0, <1>3, <1>4 DEF Typed, Settled
<1>6. /\ memo' \in [Processes -> [Items -> Entries]]
      /\ \A p \in Processes, item \in Items :
            memo'[p][item] = memo[p][item] \/ memo'[p][item].tag = NoTag
  <2>1. Fresh \in [Items -> Entries] /\ \A item \in Items : Fresh[item].tag = NoTag
    BY DEF Fresh, Entries, Tags, NoTag
  <2> QED BY <1>0, <1>3, <2>1 DEF Typed, BeginMemo
<1>7. told' \in [Threads -> Nat] /\ \A u \in Threads : told'[u] \in {0, told[u]}
  BY <1>0, <1>3 DEF Typed
<1>8. StoresMove /\ \A u \in Threads : Sees(u)
  BY <1>0, <1>3, Still
<1>9. UNCHANGED host /\ writes' \in Nat /\ seen' \in [Threads -> SUBSET Nat]
  BY <1>0, <1>3 DEF world, SameDisk, disk, Typed
<1> QED BY <1>5, <1>6, <1>7, <1>8, <1>9, QuietKeeps

\* The steps of a change: of a store, of the file, of the memo.
LEMMA ChangeKeeps ==
  ASSUME HostLimits, IInv, NEW t \in Threads,
         \/ StoreWrite(t) \/ StoreRefused(t) \/ AllowPlaintext(t) \/ FileWrite(t)
         \/ StoreDelete(t) \/ DropMemo(t) \/ FileRead(t) \/ FileDelete(t) \/ Verdict(t)
  PROVE  IInv'
<1>0. Typed
  BY DEF IInv
<1>1. run[t] \in Runs /\ writes \in Nat /\ WritesTo(t) \in Names
  <2>1. host \in {"darwin", "linux", "windows", "bare"}
    BY <1>0 DEF HostLimits, Typed
  <2>2. WritesTo(t) \in Names
    BY <2>1 DEF WritesTo, Reads, Names, Places
  <2> QED BY <1>0, <2>2 DEF Typed
<1>2. \A pc \in {"refused", "plaintext", "drop", "file", "unfile", "verdict"} :
        /\ Settled(Goto(t, pc))
        /\ Settled([Goto(t, pc) EXCEPT !.item = "none"])
        /\ \A n \in Nat : Settled([Goto(t, pc) EXCEPT !.item = "none", !.answer = n])
  <2> SUFFICES ASSUME NEW pc \in {"refused", "plaintext", "drop", "file", "unfile", "verdict"}
               PROVE  /\ Settled(Goto(t, pc))
                      /\ Settled([Goto(t, pc) EXCEPT !.item = "none"])
                      /\ \A n \in Nat : Settled([Goto(t, pc) EXCEPT !.item = "none", !.answer = n])
    OBVIOUS
  <2>1. Goto(t, pc) \in Runs /\ Goto(t, pc).pc = pc
    BY <1>0, GotoSettles DEF Pcs
  <2>2. "none" \in Names
    BY DEF Names
  <2>3. Settled(Goto(t, pc))
    BY <2>1 DEF Settled
  <2>4. Settled([Goto(t, pc) EXCEPT !.item = "none"])
    BY <2>1, <2>2 DEF Settled, Runs
  <2>5. ASSUME NEW n \in Nat PROVE Settled([Goto(t, pc) EXCEPT !.item = "none", !.answer = n])
    BY <2>1, <2>2 DEF Settled, Runs
  <2> QED BY <2>3, <2>4, <2>5
<1>3. \A n \in Nat : Settled(Answered(t, n))
  BY <1>0, AnsweredSettles
<1>4. Settled(Walked(t))
  BY <1>0, WalkedSettles
<1>5. Settled(Beyond(t)) /\ Settled(Latched(t, Beyond(t)))
  <2>1. Settled(Beyond(t))
    <3>1. Settled(Ask(t, "unlock"))
      BY <1>0, AskSettles DEF Asked, Items
    <3> QED BY <1>2, <3>1 DEF Beyond
  <2> QED BY <2>1 DEF Latched, Settled, Runs
<1>6. PICK r : Settled(r) /\ run' = [run EXCEPT ![t] = r]
  <2>1. CASE StoreWrite(t)
    <3>1. writes + 1 \in Nat
      BY <1>1
    <3> QED BY <2>1, <3>1, <1>2 DEF StoreWrite
  <2>2. CASE StoreRefused(t) \/ AllowPlaintext(t) \/ Verdict(t)
    BY <2>2, <1>2, <1>3, <1>4 DEF StoreRefused, AllowPlaintext, Verdict
  <2>3. CASE FileWrite(t)
    <3>1. writes + 1 \in Nat
      BY <1>1
    <3> QED BY <2>3, <3>1, <1>3 DEF FileWrite
  <2>4. CASE StoreDelete(t)
    BY <2>4, <1>2, <1>5 DEF StoreDelete
  <2>5. CASE DropMemo(t)
    <3>1. run[t].answer \in Nat
      BY <1>1 DEF Runs
    <3> QED BY <2>5, <3>1, <1>3, <1>5 DEF DropMemo
  <2>6. CASE FileRead(t) \/ FileDelete(t)
    BY <2>6, <1>2, <1>4 DEF FileRead, FileDelete
  <2> QED BY <2>1, <2>2, <2>3, <2>4, <2>5, <2>6
<1>7. run' \in [Threads -> Runs] /\ \A u \in Threads : run'[u] = run[u] \/ Settled(run'[u])
  BY <1>0, <1>6 DEF Typed, Settled
<1>8. /\ memo' \in [Processes -> [Items -> Entries]]
      /\ \A p \in Processes, item \in Items :
            memo'[p][item] = memo[p][item] \/ memo'[p][item].tag = NoTag
  <2>1. Fresh \in [Items -> Entries] /\ \A item \in Items : Fresh[item].tag = NoTag
    BY DEF Fresh, Entries, Tags, NoTag
  <2>2. memo' = memo \/ memo' = Dropped(t)
    BY DEF StoreWrite, StoreRefused, AllowPlaintext, FileWrite, StoreDelete, DropMemo, FileRead,
           FileDelete, Verdict
  <2> QED BY <1>0, <2>1, <2>2 DEF Typed, Dropped
<1>9. UNCHANGED <<host, told, window>> /\ writes' \in Nat
  BY <1>1 DEF StoreWrite, StoreRefused, AllowPlaintext, FileWrite, StoreDelete, DropMemo, FileRead,
         FileDelete, Verdict, world, SameDisk, disk
<1>10. (SameDisk /\ UNCHANGED seen) \/ \E p \in Names, k \in Nat : Put(p, k)
  <2>1. CASE StoreWrite(t)
    <3>1. writes + 1 \in Nat
      BY <1>1
    <3> QED BY <1>1, <2>1, <3>1 DEF StoreWrite, SameDisk
  <2>2. CASE FileWrite(t)
    <3>1. writes + 1 \in Nat /\ "file" \in Names
      BY <1>1 DEF Names, Places
    <3> QED BY <2>2, <3>1 DEF FileWrite
  <2>3. CASE StoreDelete(t)
    <3>1. run[t].item \in Names
      BY <1>1 DEF Runs
    <3> QED BY <2>3, <3>1 DEF StoreDelete, SameDisk
  <2>4. CASE FileDelete(t)
    <3>1. "file" \in Names
      BY DEF Names, Places
    <3> QED BY <2>4, <3>1 DEF FileDelete
  <2>5. CASE StoreRefused(t) \/ AllowPlaintext(t) \/ DropMemo(t) \/ FileRead(t) \/ Verdict(t)
    BY <2>5 DEF StoreRefused, AllowPlaintext, DropMemo, FileRead, Verdict
  <2> QED BY <2>1, <2>2, <2>3, <2>4, <2>5
<1>11. StoresMove /\ \A u \in Threads : Sees(u)
  BY <1>0, <1>9, <1>10, Still, PutMoves
<1>12. seen' \in [Threads -> SUBSET Nat]
  BY <1>0, <1>10 DEF Put, Typed
<1> QED BY <1>0, <1>7, <1>8, <1>9, <1>11, <1>12, QuietKeeps DEF Typed

\* A read of thread t is looked up, or answered, while the stores stand still: the other threads
\* and the entries are as they were, and t is where it may be.
LEMMA ReadKeeps ==
  ASSUME IInv, NEW t \in Threads, SameDisk, UNCHANGED <<world, window, memo>>,
         seen' \in [Threads -> SUBSET Nat], \A u \in Threads \ {t} : seen'[u] = seen[u],
         NEW r \in Runs, run' = [run EXCEPT ![t] = r], Reading(t)',
         told' \in [Threads -> Nat], \A u \in Threads \ {t} : told'[u] = told[u],
         told'[t] # 0 => told'[t] \in seen'[t]
  PROVE  IInv'
<1>0. Typed /\ Memos /\ (\A u \in Threads : Reading(u)) /\ ServedKeyIsFresh
  BY DEF IInv
<1>1. UNCHANGED <<key, sig, writes, held, host, window, memo>>
  BY DEF SameDisk, disk, world
<1>2. Typed'
  BY <1>0, <1>1 DEF Typed
<1>3. Memos'
  BY <1>0, <1>1 DEF Memos, EntryHolds
<1>4. \A u \in Threads : Reading(u)'
  <2>1. ASSUME NEW u \in Threads \ {t} PROVE Reading(u)'
    <3>1. run'[u] = run[u] /\ seen'[u] = seen[u]
      BY <1>0 DEF Typed
    <3>2. Reading(u)
      BY <1>0
    <3> QED BY <1>1, <3>1, <3>2 DEF Reading
  <2> QED BY <2>1
<1>5. ServedKeyIsFresh'
  BY <1>0 DEF ServedKeyIsFresh
<1> QED BY <1>2, <1>3, <1>4, <1>5 DEF IInv

LEMMA LookKeeps ==
  ASSUME HostLimits, IInv, NEW t \in Threads, Look(t)
  PROVE  IInv'
<1> DEFINE item == run[t].item
<1>0. Typed /\ Memos /\ Reading(t)
  BY DEF IInv
<1>1. /\ run[t].pc = "look" /\ SameDisk /\ UNCHANGED <<world, window, memo>>
      /\ seen' = [seen EXCEPT ![t] = IF item = "libsecret" THEN held ELSE {key[PlaceOf(item)]}]
  BY DEF Look
<1>2. run[t] \in Runs /\ item \in Asked
  BY <1>0, <1>1 DEF Typed, Reading
<1>3. /\ PlaceOf(item) \in Places /\ key[PlaceOf(item)] \in Nat /\ held \in SUBSET Nat
      /\ key["libsecret"] \in held
  BY <1>0, <1>2 DEF PlaceOf, Asked, Items, Places, Typed
<1>4. /\ seen' \in [Threads -> SUBSET Nat] /\ \A u \in Threads \ {t} : seen'[u] = seen[u]
      /\ item # "unlock" => key[item] \in seen'[t]
      /\ item = "libsecret" => seen'[t] = held
      /\ item \in Keychains => seen'[t] = {key[item]}
  BY <1>0, <1>1, <1>3 DEF Typed, PlaceOf, Keychains
<1>5. ASSUME NEW v \in Nat, Tell(t, item, v), item = "unlock" \/ v = 0 \/ v \in seen'[t]
      PROVE  IInv'
  <2>1. Settled(Onward(t, item, v))
    BY <1>0, OnwardSettles
  <2>2. run' = [run EXCEPT ![t] = Onward(t, item, v)] /\ run'[t] = Onward(t, item, v)
    BY <1>0, <1>5 DEF Tell, Typed
  <2>3. Reading(t)'
    BY <2>1, <2>2 DEF Settled, Reading
  <2>4. told' = [told EXCEPT ![t] = IF item = "unlock" THEN 0 ELSE v]
    BY <1>5 DEF Tell
  <2>5. /\ told' \in [Threads -> Nat] /\ \A u \in Threads \ {t} : told'[u] = told[u]
        /\ told'[t] # 0 => told'[t] \in seen'[t]
    BY <1>0, <1>5, <2>4 DEF Typed
  <2>6. Onward(t, item, v) \in Runs
    BY <2>1 DEF Settled
  <2> HIDE DEF item
  <2> QED BY <1>1, <1>4, <2>2, <2>3, <2>5, <2>6, ReadKeeps
<1>6. CASE Absent(item) /\ Tell(t, item, 0)
  BY <1>5, <1>6
<1>7. CASE Hit(t, item) /\ Tell(t, item, memo[Process(t)][item].value)
  <2> DEFINE e == memo[Process(t)][item]
  <2>1. item \in Items /\ e.tag \in {Tag(item), <<"retry", window>>}
    BY <1>7 DEF Hit
  <2>2. Process(t) \in Processes
    BY DEF Process, Processes
  <2>3. e \in Entries /\ EntryHolds(e, item)
    BY <1>0, <2>1, <2>2 DEF Typed, Memos
  <2>4. e.value \in Nat
    BY <2>3 DEF Entries
  <2>5. item \in Keychains => e.value \in {0, key[item]}
    <3>1. ASSUME item \in Keychains PROVE e.value \in {0, key[item]}
      <4>1. Tag(item) = <<"file", sig[item]>>
        BY <3>1 DEF Tag, Keychains
      <4>2. CASE e.tag = <<"file", sig[item]>>
        BY <2>3, <3>1, <4>2 DEF EntryHolds
      <4>3. CASE e.tag = <<"retry", window>>
        BY <2>3, <3>1, <4>3 DEF EntryHolds
      <4> QED BY <2>1, <4>1, <4>2, <4>3
    <3> QED BY <3>1
  <2>6. item = "libsecret" => e.value \in {0} \cup held
    <3>1. ASSUME item = "libsecret" PROVE e.value \in {0} \cup held
      <4>1. e.tag = <<"retry", window>>
        BY <2>1, <3>1 DEF Tag
      <4> QED BY <2>3, <3>1, <4>1 DEF EntryHolds
    <3> QED BY <3>1
  <2>7. item = "unlock" \/ item = "libsecret" \/ item \in Keychains
    BY <2>1 DEF Items, Keychains
  <2>8. item = "unlock" \/ e.value = 0 \/ e.value \in seen'[t]
    <3> HIDE DEF e, item
    <3> QED BY <1>4, <2>5, <2>6, <2>7
  <2> QED BY <1>5, <1>7, <2>4, <2>8
<1>8. CASE run' = [run EXCEPT ![t] = Sampled(t, item)] /\ told' = [told EXCEPT ![t] = 0]
  <2>1. /\ Tag(item) \in Tags /\ window \in Nat
        /\ item \in Keychains => Tag(item) = <<"file", sig[item]>> /\ sig[item] \in Nat
        /\ item = "libsecret" => Tag(item) = <<"retry", window>>
    BY <1>0 DEF Typed, Tag, Tags, Keychains
  <2>2. /\ Sampled(t, item) \in Runs /\ Sampled(t, item).pc = "probe" /\ Sampled(t, item).item = item
        /\ Sampled(t, item).tag = Tag(item) /\ Sampled(t, item).retry = window
    BY <1>2, <2>1 DEF Sampled, Runs, Pcs
  <2>3. run'[t] = Sampled(t, item)
    BY <1>0, <1>8 DEF Typed
  <2>4. key' = key /\ sig' = sig /\ window' = window
    BY <1>1 DEF SameDisk, disk
  <2>5. Reading(t)'
    <3> HIDE DEF item
    <3> QED BY <1>2, <1>4, <2>1, <2>2, <2>3, <2>4 DEF Reading
  <2>6. told' \in [Threads -> Nat] /\ told'[t] = 0 /\ \A u \in Threads \ {t} : told'[u] = told[u]
    BY <1>0, <1>8 DEF Typed
  <2> HIDE DEF item
  <2> QED BY <1>1, <1>4, <1>8, <2>2, <2>5, <2>6, ReadKeeps
<1> QED BY <1>6, <1>7, <1>8 DEF Look

LEMMA ProbeKeeps ==
  ASSUME HostLimits, IInv, NEW t \in Threads, Probe(t)
  PROVE  IInv'
<1> DEFINE item == run[t].item
<1>0. Typed /\ Memos /\ Reading(t)
  BY DEF IInv
<1>1. /\ run[t].pc = "probe" /\ SameDisk /\ UNCHANGED <<world, window, memo, seen>>
  BY DEF Probe
<1>2. /\ run[t] \in Runs /\ item \in Asked
      /\ item # "unlock" => key[item] \in seen[t]
      /\ item \in Keychains => run[t].tag[1] = "file" /\ run[t].tag[2] <= sig[item]
      /\ item = "libsecret" => run[t].tag[1] = "retry" /\ run[t].tag[2] <= window /\ run[t].retry <= window
  BY <1>0, <1>1 DEF Typed, Reading
<1>3. PICK v \in Said(item) :
        IF item = "wincred"
        THEN Tell(t, item, IF v = Silent THEN 0 ELSE v)
        ELSE run' = [run EXCEPT ![t].pc = "keep", ![t].got = v] /\ UNCHANGED told
  BY DEF Probe
<1>4. Silent \in Nat /\ (item # "unlock" => v \in {0, Silent, key[item]}) /\ v \in Nat
  <2>1. Silent \in Nat
    BY DEF HostLimits, Silent
  <2>2. item # "unlock" => PlaceOf(item) \in Places /\ key[item] \in Nat
    BY <1>0, <1>2 DEF PlaceOf, Asked, Items, Places, Typed
  <2> QED BY <2>1, <2>2, <1>3 DEF Said
<1>5. /\ UNCHANGED <<key, sig, writes, held>>
      /\ seen \in [Threads -> SUBSET Nat]
  BY <1>0, <1>1 DEF SameDisk, disk, Typed
<1>6. CASE item = "wincred"
  <2> DEFINE w == IF v = Silent THEN 0 ELSE v
  <2>1. Settled(Onward(t, item, w))
    BY <1>0, <1>4, OnwardSettles
  <2>2. run' = [run EXCEPT ![t] = Onward(t, item, w)] /\ told' = [told EXCEPT ![t] = w]
    BY <1>3, <1>6 DEF Tell
  <2>3. w \in Nat /\ (w # 0 => w \in seen'[t])
    BY <1>1, <1>2, <1>4, <1>6
  <2>4. Reading(t)'
    <3>1. run'[t] = Onward(t, item, w)
      BY <1>0, <2>2 DEF Typed
    <3> QED BY <2>1, <3>1 DEF Settled, Reading
  <2>5. /\ told' \in [Threads -> Nat] /\ \A u \in Threads \ {t} : told'[u] = told[u]
        /\ told'[t] # 0 => told'[t] \in seen'[t]
    BY <1>0, <2>2, <2>3 DEF Typed
  <2>6. Onward(t, item, w) \in Runs
    BY <2>1 DEF Settled
  <2> HIDE DEF item, w
  <2> QED BY <1>1, <1>5, <2>2, <2>4, <2>5, <2>6, ReadKeeps
<1>7. CASE item # "wincred"
  <2> DEFINE r == [run[t] EXCEPT !.pc = "keep", !.got = v]
  <2>1. run' = [run EXCEPT ![t] = r] /\ told' = told
    BY <1>3, <1>7
  <2>2. /\ r \in Runs /\ r.pc = "keep" /\ r.got = v /\ r.item = item /\ r.tag = run[t].tag
        /\ r.retry = run[t].retry
    BY <1>2, <1>4 DEF Runs, Pcs
  <2>3. run'[t] = r
    BY <1>0, <2>1 DEF Typed
  <2>4. item \in Items /\ (item = "libsecret" => key[item] \in held)
    BY <1>0, <1>2, <1>7 DEF Asked, Typed
  <2>5. Reading(t)'
    <3>1. item \in Keychains => item # "unlock" /\ v \in {0, Silent, key[item]}
      BY <1>4 DEF Keychains
    <3>2. item = "libsecret" => v \in {0, Silent} \cup held
      BY <1>4, <2>4
    <3>3. key' = key /\ sig' = sig /\ held' = held /\ window' = window /\ seen' = seen
      BY <1>1, <1>5
    <3>4. item # "unlock" => v \in seen[t] \cup {0, Silent}
      BY <1>2, <1>4
    <3> HIDE DEF item, r
    <3> QED BY <1>2, <2>2, <2>3, <2>4, <3>1, <3>2, <3>3, <3>4 DEF Reading
  <2>6. told' \in [Threads -> Nat] /\ (told'[t] # 0 => told'[t] \in seen'[t])
    BY <1>0, <1>1, <2>1 DEF Typed, IInv, ServedKeyIsFresh
  <2> HIDE DEF item, r
  <2> QED BY <1>1, <1>5, <2>1, <2>2, <2>5, <2>6, ReadKeeps
<1> QED BY <1>6, <1>7

LEMMA KeepKeeps ==
  ASSUME HostLimits, IInv, NEW t \in Threads, Keep(t)
  PROVE  IInv'
<1> DEFINE r == run[t]
           v == IF r.got = Silent THEN 0 ELSE r.got
           e == [tag |-> EntryTag(r), value |-> v]
<1>0. Typed /\ Memos /\ (\A u \in Threads : Reading(u)) /\ ServedKeyIsFresh
  BY DEF IInv
<1>1. /\ r.pc = "keep" /\ Tell(t, r.item, v) /\ SameDisk /\ UNCHANGED <<world, window, seen>>
      /\ memo' = [memo EXCEPT ![Process(t)][r.item] = e]
  BY DEF Keep
<1>2. r \in Runs /\ r.item \in Items /\ v \in Nat /\ Process(t) \in Processes
  BY <1>0, <1>1 DEF Typed, Reading, Runs, Process, Processes
<1>3. /\ r.item # "unlock" => r.got \in seen[t] \cup {0, Silent}
      /\ r.item \in Keychains => /\ r.tag[1] = "file" /\ r.tag[2] <= sig[r.item]
                                 /\ r.tag[2] = sig[r.item] => r.got \in {0, Silent, key[r.item]}
      /\ r.item = "libsecret" => /\ r.tag[1] = "retry" /\ r.tag[2] <= window /\ r.retry <= window
                                 /\ r.tag[2] = window => r.got \in {0, Silent} \cup held
  BY <1>0, <1>1 DEF Reading
<1>4. e \in Entries
  <2>1. <<"retry", r.retry>> \in Tags /\ r.tag \in Tags
    BY <1>2 DEF Runs, Tags
  <2> QED BY <1>2, <2>1 DEF Entries, EntryTag
<1>5. EntryHolds(e, r.item)
  <2>1. CASE r.got = Silent
    <3>1. e.tag = <<"retry", r.retry>> /\ e.value = 0
      BY <2>1 DEF EntryTag
    <3> HIDE DEF e, r
    <3> QED BY <1>3, <3>1 DEF EntryHolds
  <2>2. CASE r.got # Silent
    <3>1. e.tag = r.tag /\ e.value = r.got
      BY <2>2 DEF EntryTag
    <3>2. r.item = "libsecret" => r.item \notin Keychains
      BY DEF Keychains
    <3> HIDE DEF e, r
    <3> QED BY <1>3, <2>2, <3>1, <3>2 DEF EntryHolds
  <2> QED BY <2>1, <2>2
<1>6. UNCHANGED <<key, sig, writes, held, host, window>>
  BY <1>1 DEF SameDisk, disk, world
<1>7. \A p \in Processes, i \in Items :
        memo'[p][i] = IF p = Process(t) /\ i = r.item THEN e ELSE memo[p][i]
  BY <1>0, <1>1, <1>2 DEF Typed
<1>8. Memos'
  <2>1. ASSUME NEW p \in Processes, NEW i \in Items PROVE EntryHolds(memo[p][i], i)'
    <3>1. PICK f \in Entries : f = memo'[p][i] /\ EntryHolds(f, i)
      <4> HIDE DEF e, r
      <4> QED BY <1>0, <1>4, <1>5, <1>7 DEF Typed, Memos
    <3> QED BY <1>6, <3>1 DEF EntryHolds
  <2> QED BY <2>1 DEF Memos
<1>9. Settled(Onward(t, r.item, v))
  BY <1>0, <1>2, OnwardSettles
<1>10. /\ run' = [run EXCEPT ![t] = Onward(t, r.item, v)]
       /\ told' = [told EXCEPT ![t] = IF r.item = "unlock" THEN 0 ELSE v]
  BY <1>1 DEF Tell
<1>11. Typed'
  <2>1. run' \in [Threads -> Runs]
    BY <1>0, <1>9, <1>10 DEF Typed, Settled
  <2>2. told' \in [Threads -> Nat]
    BY <1>0, <1>2, <1>10 DEF Typed
  <2>3. memo' \in [Processes -> [Items -> Entries]]
    <3> HIDE DEF e, r
    <3> QED BY <1>0, <1>1, <1>2, <1>4 DEF Typed
  <2> QED BY <1>0, <1>1, <1>6, <2>1, <2>2, <2>3 DEF Typed
<1>12. \A u \in Threads : Reading(u)'
  <2>1. ASSUME NEW u \in Threads \ {t} PROVE Reading(u)'
    <3>1. run'[u] = run[u] /\ seen'[u] = seen[u]
      BY <1>0, <1>1, <1>10 DEF Typed
    <3>2. Reading(u)
      BY <1>0
    <3> QED BY <1>6, <3>1, <3>2 DEF Reading
  <2>2. Reading(t)'
    <3>1. run'[t] = Onward(t, r.item, v)
      BY <1>0, <1>10 DEF Typed
    <3> QED BY <1>9, <3>1 DEF Settled, Reading
  <2> QED BY <2>1, <2>2
<1>13. ServedKeyIsFresh'
  <2>1. told'[t] # 0 => told'[t] \in seen'[t]
    <3>1. told'[t] = IF r.item = "unlock" THEN 0 ELSE v
      BY <1>0, <1>10 DEF Typed
    <3>2. r.item # "unlock" /\ v # 0 => v \in seen[t]
      BY <1>3
    <3> QED BY <1>1, <3>1, <3>2
  <2>2. \A u \in Threads \ {t} : told'[u] = told[u] /\ seen'[u] = seen[u]
    BY <1>0, <1>1, <1>10 DEF Typed
  <2> QED BY <1>0, <2>1, <2>2 DEF ServedKeyIsFresh
<1> QED BY <1>8, <1>11, <1>12, <1>13 DEF IInv

\* The world moves: no thread does.
LEMMA WorldKeeps ==
  ASSUME HostLimits, IInv, Outside \/ CreateKeychain \/ Toggle \/ Window \/ UNCHANGED vars
  PROVE  IInv'
<1>0. Typed
  BY DEF IInv
<1>1. UNCHANGED <<host, memo, run, told>> /\ writes' \in Nat
  BY <1>0 DEF Typed, Outside, CreateKeychain, Toggle, Window, vars, world, disk
<1>2. StoresMove /\ (\A t \in Threads : Sees(t)) /\ seen' \in [Threads -> SUBSET Nat]
  <2>1. CASE Outside
    <3>1. Reads[host] \in Names /\ writes + 1 \in Nat
      BY <1>0 DEF HostLimits, Typed, Reads, Names, Places
    <3>2. Put(Reads[host], writes + 1) /\ UNCHANGED window
      BY <2>1 DEF Outside
    <3>3. seen' \in [Threads -> SUBSET Nat]
      BY <1>0, <3>1, <3>2 DEF Put, Typed
    <3> QED BY <1>0, <3>1, <3>2, <3>3, PutMoves
  <2>2. CASE CreateKeychain
    <3>1. /\ sig["dedicated"] = 0 /\ sig' = [sig EXCEPT !["dedicated"] = 1]
          /\ UNCHANGED <<key, window, seen, held>>
      BY <2>2 DEF CreateKeychain
    <3>2. sig' \in [Keychains -> Nat] /\ \A i \in Keychains : sig[i] \in Nat /\ sig'[i] \in Nat
      BY <1>0, <3>1 DEF Typed
    <3>3. \A i \in Keychains : sig'[i] >= sig[i] /\ (sig'[i] = sig[i] => key'[i] = key[i])
      BY <1>0, <3>1, <3>2 DEF Typed
    <3> QED BY <1>0, <3>1, <3>2, <3>3 DEF StoresMove, Sees, Typed
  <2>3. CASE Toggle \/ UNCHANGED vars
    <3>1. UNCHANGED <<disk, held, window, seen>>
      BY <2>3 DEF Toggle, vars
    <3> QED BY <1>0, <3>1, Still DEF SameDisk, Typed
  <2>4. CASE Window
    <3>1. window' = window + 1 /\ held' = {key["libsecret"]} /\ UNCHANGED <<key, sig, seen>>
      BY <2>4 DEF Window, disk
    <3>2. /\ window' \in Nat /\ window' >= window /\ window' # window
          /\ key["libsecret"] \in Nat /\ \A i \in Keychains : sig[i] \in Nat
      BY <1>0, <3>1 DEF Typed, Places
    <3> QED BY <1>0, <3>1, <3>2 DEF StoresMove, Sees, Typed
  <2> QED BY <2>1, <2>2, <2>3, <2>4
<1>3. run' \in [Threads -> Runs] /\ told' \in [Threads -> Nat]
      /\ memo' \in [Processes -> [Items -> Entries]]
  BY <1>0, <1>1 DEF Typed
<1> QED BY <1>1, <1>2, <1>3, QuietKeeps

LEMMA StepInv == HostLimits /\ IInv /\ [Next]_vars => IInv'
<1> SUFFICES ASSUME HostLimits, IInv, [Next]_vars PROVE IInv'
  OBVIOUS
<1>1. ASSUME NEW t \in Threads, Begin(t) PROVE IInv'
  BY <1>1, BeginKeeps
<1>2. ASSUME NEW t \in Threads, Go(t) PROVE IInv'
  BY <1>2, LookKeeps, ProbeKeeps, KeepKeeps, ChangeKeeps DEF Go
<1>3. CASE Outside \/ CreateKeychain \/ Toggle \/ Window \/ UNCHANGED vars
  BY <1>3, WorldKeeps
<1> QED BY <1>1, <1>2, <1>3 DEF Next

\* A key served from a process's memo is one the place held during this very read, or, in libsecret,
\* in this retry window: for any number of threads, operations, outside writers and windows, on every
\* host (_keychain_cached, invalidate_credential_cache).
THEOREM ServedKeysAreFresh ==
  ASSUME HostLimits
  PROVE  Spec => []ServedKeyIsFresh
<1>1. Init => IInv
  BY InitInv
<1>2. IInv /\ [Next]_vars => IInv'
  BY StepInv
<1>3. IInv => ServedKeyIsFresh
  BY DEF IInv
<1> QED BY <1>1, <1>2, <1>3, PTL DEF Spec

------------------------------------------------------------------------------
(* A removal.  What it has cleared stays cleared, because every key put    *)
(* back later is a newer one; so its verdict is true if, at each stage,    *)
(* the places it is past are clear, or it remembers a refusal.             *)

Clear(r, p) == p \in Places => key[p] = 0 \/ key[p] > r.begun

\* The places a removal has yet to clear.
ToClear(r) ==
    IF r.pc \in {"look", "probe", "keep"} /\ r.answer = Silent THEN {"dedicated", "file"}
    ELSE (IF r.pc = "delete" THEN {r.item} ELSE {})
         \cup (IF r.pc \in {"delete", "drop"} /\ r.item = "login" THEN {"dedicated"} ELSE {})
         \cup (IF r.pc \in {"delete", "drop", "file", "unfile"} THEN {"file"} ELSE {})

Cleared(r, t) == r.refused \/ \A p \in Clears(t) \ ToClear(r) : Clear(r, p)

Removal(r, t) ==
    r.op = "remove" =>
        /\ r.begun <= writes /\ r.pc \notin {"write", "refused", "plaintext"}
        /\ r.pc \in {"delete", "drop"} => r.answer = Silent
        /\ r.pc \in {"look", "probe", "keep"} /\ r.answer = Silent => r.item = "unlock"
        /\ Cleared(r, t)

\* A keychain that setup did not create holds nothing.
Uncreated == sig["dedicated"] = 0 => key["dedicated"] = 0

RInv == (\A t \in Threads : Removal(run[t], t)) /\ Uncreated

\* No key is put back but a newer one.
OnlyNewer ==
    /\ writes' \in Nat /\ writes' >= writes /\ host' = host
    /\ \A p \in Places : key'[p] \in {key[p], 0} \/ (key'[p] \in Nat /\ key'[p] > writes)

LEMMA ClearStays ==
  ASSUME Typed, OnlyNewer, NEW r \in Runs, r.begun <= writes, NEW p, Clear(r, p)
  PROVE  Clear(r, p)'
<1>1. r.begun \in Nat /\ writes \in Nat
  BY DEF Typed, Runs
<1>2. CASE p \in Places
  <2>1. key[p] \in Nat /\ (key'[p] \in {key[p], 0} \/ (key'[p] \in Nat /\ key'[p] > writes))
    BY <1>2 DEF Typed, OnlyNewer
  <2> QED BY <1>1, <1>2, <2>1 DEF Clear
<1> QED BY <1>2 DEF Clear

LEMMA RemovalStays ==
  ASSUME Typed, OnlyNewer, NEW t \in Threads, NEW r \in Runs, Removal(r, t)
  PROVE  Removal(r, t)'
<1> SUFFICES ASSUME r.op = "remove" PROVE Removal(r, t)'
  BY DEF Removal
<1>1. /\ r.begun <= writes /\ r.pc \notin {"write", "refused", "plaintext"}
      /\ r.pc \in {"delete", "drop"} => r.answer = Silent
      /\ r.pc \in {"look", "probe", "keep"} /\ r.answer = Silent => r.item = "unlock"
      /\ Cleared(r, t)
  BY DEF Removal
<1>2. r.begun <= writes'
  <2>1. r.begun \in Nat /\ writes \in Nat /\ writes' \in Nat /\ writes' >= writes
    BY DEF Typed, Runs, OnlyNewer
  <2> QED BY <1>1, <2>1
<1>3. Clears(t)' = Clears(t) /\ ToClear(r)' = ToClear(r)
  BY DEF OnlyNewer, Clears, WritesTo, ToClear, Silent
<1>4. Cleared(r, t)'
  BY <1>1, <1>3, ClearStays DEF Cleared
<1> QED BY <1>1, <1>2, <1>4 DEF Removal

\* The stores do not move, and every removal that takes no step is as it was.
LEMMA StillNewer ==
  ASSUME Typed, SameDisk, UNCHANGED world
  PROVE  OnlyNewer /\ (Uncreated => Uncreated')
<1>1. UNCHANGED <<key, sig, writes, host>>
  BY DEF SameDisk, disk, world
<1>2. writes \in Nat
  BY DEF Typed
<1> QED BY <1>1, <1>2 DEF OnlyNewer, Uncreated

\* A place gets a newer key, or is cleared.
LEMMA PutNewer ==
  ASSUME Typed, NEW p \in Names, NEW k \in Nat, Put(p, k), UNCHANGED world,
         writes' \in Nat, writes' >= writes, k = 0 \/ k > writes
  PROVE  OnlyNewer /\ (Uncreated => Uncreated') /\ (p \in Places => key'[p] = k)
<1>1. key' = [key EXCEPT ![p] = k] /\ host' = host
  BY DEF Put, world
<1>2. \A q \in Places : key'[q] = IF q = p THEN k ELSE key[q]
  BY <1>1 DEF Typed
<1>3. OnlyNewer
  BY <1>1, <1>2 DEF OnlyNewer
<1>4. Uncreated => Uncreated'
  <2>1. sig' = IF p \in DOMAIN sig THEN [sig EXCEPT ![p] = @ + 1] ELSE sig
    BY DEF Put
  <2>2. sig \in [Keychains -> Nat] /\ "dedicated" \in Keychains /\ "dedicated" \in Places
    BY DEF Typed, Keychains, Places
  <2>3. CASE p = "dedicated"
    <3>1. sig'["dedicated"] = sig["dedicated"] + 1 /\ sig["dedicated"] \in Nat
      BY <2>1, <2>2, <2>3
    <3> QED BY <3>1 DEF Uncreated
  <2>4. CASE p # "dedicated"
    BY <1>2, <2>1, <2>2, <2>4 DEF Uncreated
  <2> QED BY <2>3, <2>4
<1> QED BY <1>2, <1>3, <1>4

\* What an operation keeps of itself on its way.
LEMMA Fields ==
  ASSUME Typed, NEW t \in Threads
  PROVE  /\ \A pc \in Pcs : /\ Goto(t, pc).op = run[t].op /\ Goto(t, pc).begun = run[t].begun
                            /\ Goto(t, pc).refused = run[t].refused
                            /\ Goto(t, pc).answer = run[t].answer
                            /\ Goto(t, pc).item = run[t].item /\ Goto(t, pc).pc = pc
         /\ \A i \in Asked : /\ Ask(t, i).op = run[t].op /\ Ask(t, i).begun = run[t].begun
                             /\ Ask(t, i).refused = run[t].refused
                             /\ Ask(t, i).answer = run[t].answer
                             /\ Ask(t, i).item = i /\ Ask(t, i).pc = "look"
         /\ \A v \in Nat : /\ Answered(t, v).op = run[t].op /\ Answered(t, v).begun = run[t].begun
                           /\ Answered(t, v).refused = run[t].refused
                           /\ Answered(t, v).pc = "done" /\ Answered(t, v).answer = v
<1>1. run[t] \in Runs
  BY DEF Typed
<1>2. \A pc \in Pcs : /\ Goto(t, pc) \in Runs
                      /\ Goto(t, pc).op = run[t].op /\ Goto(t, pc).begun = run[t].begun
                      /\ Goto(t, pc).refused = run[t].refused
                      /\ Goto(t, pc).answer = run[t].answer
                      /\ Goto(t, pc).item = run[t].item /\ Goto(t, pc).pc = pc
  BY <1>1, GotoSettles DEF Goto, Runs
<1>3. "look" \in Pcs /\ "done" \in Pcs
  BY DEF Pcs
<1> QED BY <1>2, <1>3 DEF Ask, Answered, Runs

\* One thread steps: its removal is true where it arrives, and the others are as they were.
LEMMA MoveKeeps ==
  ASSUME Typed, RInv, OnlyNewer, Uncreated', NEW t \in Threads, NEW r \in Runs,
         run' = [run EXCEPT ![t] = r], Removal(r, t)'
  PROVE  RInv'
<1>1. ASSUME NEW u \in Threads PROVE Removal(run[u], u)'
  <2>1. CASE u = t
    <3>1. run'[u] = r
      BY <2>1 DEF Typed
    <3> QED BY <2>1, <3>1 DEF Removal, Cleared, ToClear, Clear
  <2>2. CASE u # t
    <3>1. PICK s \in Runs : s = run[u]
      BY DEF Typed
    <3>2. Removal(s, u)
      BY <3>1 DEF RInv
    <3>3. Removal(s, u)'
      BY <3>2, RemovalStays
    <3>4. run'[u] = s
      BY <2>2, <3>1 DEF Typed
    <3> QED BY <3>3, <3>4 DEF Removal, Cleared, ToClear, Clear
  <2> QED BY <2>1, <2>2
<1> QED BY <1>1 DEF RInv

\* A removal goes on: it is true where it arrives if the places it is past now are clear.
LEMMA Further ==
  ASSUME Typed, OnlyNewer, NEW t \in Threads, Removal(run[t], t), run[t].op = "remove",
         NEW r \in Runs, r.op = "remove", r.begun = run[t].begun, run[t].refused => r.refused,
         r.pc \notin {"write", "refused", "plaintext"},
         r.pc \in {"delete", "drop"} => r.answer = Silent,
         r.pc \in {"look", "probe", "keep"} /\ r.answer = Silent => r.item = "unlock",
         ~r.refused => \A p \in ToClear(run[t]) \ ToClear(r) : Clear(r, p)'
  PROVE  Removal(r, t)'
<1>1. PICK s \in Runs : s = run[t]
  BY DEF Typed
<1>2. Removal(s, t)'
  BY <1>1, RemovalStays
<1>3. r.begun <= writes'
  BY <1>1, <1>2 DEF Removal
<1>4. Clears(t)' = Clears(t) /\ ToClear(r)' = ToClear(r) /\ ToClear(s)' = ToClear(s)
  BY DEF OnlyNewer, Clears, WritesTo, ToClear, Silent
<1>5. ASSUME ~r.refused, NEW p \in Clears(t) \ ToClear(r) PROVE Clear(r, p)'
  <2>1. CASE p \in ToClear(s)
    BY <1>1, <1>5, <2>1
  <2>2. CASE p \notin ToClear(s)
    <3>1. Clear(s, p)'
      BY <1>1, <1>2, <1>4, <1>5, <2>2 DEF Removal, Cleared
    <3> QED BY <1>1, <3>1 DEF Clear
  <2> QED BY <2>1, <2>2
<1>6. Cleared(r, t)'
  BY <1>4, <1>5 DEF Cleared
<1>7. Silent' = Silent
  BY DEF Silent
<1> QED BY <1>3, <1>6, <1>7 DEF Removal

\* Nothing is said of an operation that is no removal.
LEMMA NoRemoval ==
  ASSUME NEW t, NEW r, r.op # "remove"
  PROVE  Removal(r, t)'
BY DEF Removal

\* Where a walk for the verdict leads.
LEMMA WalkedFields ==
  ASSUME HostLimits, Typed, NEW t \in Threads
  PROVE  /\ Walked(t).op = run[t].op /\ Walked(t).begun = run[t].begun
         /\ Walked(t).refused = run[t].refused /\ Walked(t).pc \in {"look", "done"}
         /\ Walked(t).pc = "look" => Walked(t).answer = 0
<1>1. EnvKey \in Nat /\ key["file"] \in Nat
  BY DEF HostLimits, EnvKey, Typed, Places
<1>2. host # "bare" => Reads[host] \in Asked
  BY DEF HostLimits, Typed, Reads, Asked, Items
<1>3. host # "bare" => Ask(t, Reads[host]) \in Runs
  BY <1>2, AskSettles DEF Settled
<1>4. host # "bare" =>
        LET r == [Ask(t, Reads[host]) EXCEPT !.answer = 0]
        IN  /\ r.op = run[t].op /\ r.begun = run[t].begun /\ r.refused = run[t].refused
            /\ r.pc = "look" /\ r.answer = 0
  BY <1>2, <1>3, Fields DEF Runs
<1>5. \A v \in Nat : /\ Answered(t, v).op = run[t].op /\ Answered(t, v).begun = run[t].begun
                     /\ Answered(t, v).refused = run[t].refused /\ Answered(t, v).pc = "done"
  BY Fields
<1> QED BY <1>1, <1>4, <1>5 DEF Walked
\* A read of a removal comes back: while it clears, the unlock verdict was asked for, and a keychain
\* that was never created has nothing to clear.
LEMMA OnwardRemoval ==
  ASSUME HostLimits, Typed, RInv, OnlyNewer, UNCHANGED key, NEW t \in Threads, NEW v \in Nat,
         run[t].pc \in {"look", "probe", "keep"},
         NEW r \in Runs, r = Onward(t, run[t].item, v)
  PROVE  Removal(r, t)'
<1> DEFINE o == run[t]
           delete == [Goto(t, "delete") EXCEPT !.item = "dedicated"]
           unfile == [Goto(t, "file") EXCEPT !.refused = @ \/ sig["dedicated"] # 0]
<1>1. o \in Runs /\ Removal(o, t) /\ (o.op = "remove" /\ o.answer = Silent => o.item = "unlock")
  BY DEF Typed, RInv, Removal
<1>2. /\ Goto(t, "delete") \in Runs /\ Goto(t, "file") \in Runs
      /\ delete.op = o.op /\ delete.begun = o.begun /\ delete.refused = o.refused
      /\ delete.answer = o.answer /\ delete.item = "dedicated" /\ delete.pc = "delete"
      /\ unfile.op = o.op /\ unfile.begun = o.begun /\ unfile.refused = (o.refused \/ sig["dedicated"] # 0)
      /\ unfile.answer = o.answer /\ unfile.pc = "file"
  <2>1. Goto(t, "delete") \in Runs /\ Goto(t, "file") \in Runs /\ "delete" \in Pcs /\ "file" \in Pcs
    BY GotoSettles DEF Pcs
  <2>2. /\ \A pc \in {"delete", "file"} :
             /\ Goto(t, pc).op = o.op /\ Goto(t, pc).begun = o.begun
             /\ Goto(t, pc).refused = o.refused /\ Goto(t, pc).answer = o.answer
             /\ Goto(t, pc).item = o.item /\ Goto(t, pc).pc = pc
    BY <2>1, Fields
  <2> QED BY <2>1, <2>2 DEF Runs
<1>3. CASE o.op = "remove" /\ o.answer = Silent
  <2>1. r = IF v = 1 THEN delete ELSE unfile
    BY <1>1, <1>3 DEF Onward
  <2>2. ToClear(o) = {"dedicated", "file"}
    BY <1>3 DEF ToClear
  <2> HIDE DEF delete, unfile
  <2>3. CASE v = 1
    <3>1. r = delete /\ ToClear(r) = {"dedicated", "file"}
      BY <1>2, <2>1, <2>3 DEF ToClear
    <3> QED BY <1>1, <1>2, <1>3, <2>2, <3>1, Further
  <2>4. CASE v # 1
    <3>1. r = unfile /\ ToClear(r) = {"file"}
      BY <1>2, <2>1, <2>4 DEF ToClear
    <3>2. ~r.refused => Clear(r, "dedicated")'
      BY <1>2, <3>1 DEF RInv, Uncreated, Clear
    <3> QED BY <1>1, <1>2, <1>3, <2>2, <3>1, <3>2, Further
  <2> QED BY <2>3, <2>4
<1>4. CASE o.op = "remove" /\ o.answer # Silent
  <2>1. \/ r = Ask(t, "dedicated") \/ r = Ask(t, "unlock")
        \/ r = Answered(t, 0) \/ r = Answered(t, v)
    BY <1>4 DEF Onward
  <2>2. "dedicated" \in Asked /\ "unlock" \in Asked
    BY DEF Asked, Items
  <2>3. /\ r.op = "remove" /\ r.begun = o.begun /\ r.refused = o.refused /\ r.pc \in {"look", "done"}
        /\ r.pc = "look" => r.answer = o.answer
    BY <1>4, <2>1, <2>2, Fields
  <2>4. ToClear(o) = {} /\ ToClear(r) = {}
    BY <1>4, <2>3 DEF ToClear
  <2> QED BY <1>1, <1>4, <2>3, <2>4, Further
<1>5. CASE o.op # "remove"
  <2>1. \/ \E pc \in {"write", "refused", "delete", "file"} : r = Goto(t, pc)
        \/ r = delete \/ r = unfile
        \/ r = Ask(t, "dedicated") \/ r = Ask(t, "unlock")
        \/ r = Answered(t, 0) \/ r = Answered(t, v)
    BY DEF Onward
  <2>2. "dedicated" \in Asked /\ "unlock" \in Asked /\ {"write", "refused", "delete", "file"} \subseteq Pcs
    BY DEF Asked, Items, Pcs
  <2>4. \A pc \in {"write", "refused", "delete", "file"} : Goto(t, pc).op = o.op
    BY <2>2, Fields
  <2>5. /\ Ask(t, "dedicated").op = o.op /\ Ask(t, "unlock").op = o.op
        /\ Answered(t, 0).op = o.op /\ Answered(t, v).op = o.op
    BY <2>2, Fields
  <2>6. delete.op = o.op /\ unfile.op = o.op
    BY <1>2
  <2> HIDE DEF delete, unfile, o
  <2>3. r.op = o.op
    BY <2>1, <2>4, <2>5, <2>6
  <2> QED BY <1>5, <2>3, NoRemoval
<1> QED BY <1>3, <1>4, <1>5

LEMMA ReadRemoval ==
  ASSUME HostLimits, IInv, RInv, NEW t \in Threads, Look(t) \/ Probe(t) \/ Keep(t)
  PROVE  RInv'
<1> DEFINE item == run[t].item
<1>0. Typed /\ Reading(t)
  BY DEF IInv
<1>1. SameDisk /\ UNCHANGED world /\ run[t].pc \in {"look", "probe", "keep"}
  BY DEF Look, Probe, Keep
<1>2. OnlyNewer /\ Uncreated' /\ UNCHANGED key
  BY <1>0, <1>1, StillNewer DEF RInv, SameDisk, disk
<1>3. Silent \in Nat
  BY DEF HostLimits, Silent
<1>4. ASSUME NEW v \in Nat, Tell(t, item, v) PROVE RInv'
  <2>1. Onward(t, item, v) \in Runs
    BY <1>0, <1>4, OnwardSettles DEF Settled
  <2>2. PICK r \in Runs : r = Onward(t, item, v)
    BY <2>1
  <2>3. run' = [run EXCEPT ![t] = r]
    BY <1>4, <2>2 DEF Tell
  <2>4. Removal(r, t)'
    BY <1>0, <1>1, <1>2, <1>4, <2>2, OnwardRemoval
  <2> QED BY <1>0, <1>2, <2>3, <2>4, MoveKeeps
\* A read that goes on keeps what it was asked and where the removal stands.
<1>5. ASSUME NEW r \in Runs, run' = [run EXCEPT ![t] = r], r.pc \in {"probe", "keep"},
             r.op = run[t].op, r.item = item, r.answer = run[t].answer, r.begun = run[t].begun,
             r.refused = run[t].refused
      PROVE  RInv'
  <2>1. Removal(run[t], t)
    BY DEF RInv
  <2>2. ToClear(r) = ToClear(run[t])
    BY <1>1, <1>5 DEF ToClear
  <2>3. Removal(r, t)'
    <3>1. CASE r.op = "remove"
      <4>1. r.answer = Silent => r.item = "unlock"
        BY <1>1, <1>5, <2>1, <3>1 DEF Removal
      <4> QED BY <1>0, <1>2, <1>5, <2>1, <2>2, <3>1, <4>1, Further
    <3>2. CASE r.op # "remove"
      BY <3>2, NoRemoval
    <3> QED BY <3>1, <3>2
  <2> QED BY <1>0, <1>2, <1>5, <2>3, MoveKeeps
<1>6. CASE Look(t)
  <2>1. \/ Tell(t, item, 0)
        \/ item \in Items /\ Tell(t, item, memo[Process(t)][item].value)
        \/ run' = [run EXCEPT ![t] = Sampled(t, item)]
    BY <1>6 DEF Look, Hit
  <2>2. item \in Items => memo[Process(t)][item].value \in Nat
    BY <1>0 DEF Typed, Entries, Process, Processes
  <2>3. CASE run' = [run EXCEPT ![t] = Sampled(t, item)]
    <3>1. Sampled(t, item) \in Runs
      <4>1. Tag(item) \in Tags /\ window \in Nat /\ run[t] \in Runs
        BY <1>0 DEF Typed, Tag, Tags, Keychains
      <4> QED BY <4>1 DEF Sampled, Runs, Pcs
    <3>2. PICK r \in Runs : r = Sampled(t, item)
      BY <3>1
    <3>3. /\ r.pc = "probe" /\ r.op = run[t].op /\ r.item = item /\ r.answer = run[t].answer
          /\ r.begun = run[t].begun /\ r.refused = run[t].refused
      BY <1>0, <3>2 DEF Sampled, Typed, Runs
    <3> QED BY <1>5, <2>3, <3>2, <3>3
  <2> QED BY <1>4, <2>1, <2>2, <2>3
<1>7. CASE Probe(t)
  <2>1. item \in Asked
    BY <1>0, <1>7 DEF Probe, Reading
  <2>2. PICK v \in Said(item) :
          IF item = "wincred" THEN Tell(t, item, IF v = Silent THEN 0 ELSE v)
          ELSE run' = [run EXCEPT ![t].pc = "keep", ![t].got = v]
    BY <1>7 DEF Probe
  <2>3. v \in Nat
    <3>1. item # "unlock" => key[item] \in Nat
      BY <1>0, <2>1 DEF Asked, Items, Places, Typed
    <3> QED BY <1>3, <2>2, <3>1 DEF Said
  <2>4. CASE item = "wincred"
    BY <1>4, <2>2, <2>3, <2>4
  <2>5. CASE item # "wincred"
    <3>1. run[t] \in Runs
      BY <1>0 DEF Typed
    <3>2. PICK r \in Runs : r = [run[t] EXCEPT !.pc = "keep", !.got = v]
      BY <2>3, <3>1 DEF Runs, Pcs
    <3>3. /\ r.pc = "keep" /\ r.op = run[t].op /\ r.item = item /\ r.answer = run[t].answer
          /\ r.begun = run[t].begun /\ r.refused = run[t].refused
      BY <3>1, <3>2 DEF Runs
    <3>4. run' = [run EXCEPT ![t] = r]
      BY <2>2, <2>5, <3>2
    <3> QED BY <1>5, <3>3, <3>4
  <2> QED BY <2>4, <2>5
<1>8. CASE Keep(t)
  <2>1. (IF run[t].got = Silent THEN 0 ELSE run[t].got) \in Nat
    BY <1>0 DEF Typed, Runs
  <2>2. Tell(t, item, IF run[t].got = Silent THEN 0 ELSE run[t].got)
    BY <1>8 DEF Keep
  <2> QED BY <1>4, <2>1, <2>2
<1> QED BY <1>6, <1>7, <1>8
LEMMA BeyondFields ==
  ASSUME Typed, NEW t \in Threads
  PROVE  /\ Beyond(t) \in Runs
         /\ Beyond(t).op = run[t].op /\ Beyond(t).begun = run[t].begun
         /\ Beyond(t).refused = run[t].refused /\ Beyond(t).answer = run[t].answer
         /\ run[t].item = "login" => Beyond(t).pc = "look" /\ Beyond(t).item = "unlock"
         /\ run[t].item # "login" => Beyond(t).pc = "file"
<1>1. "unlock" \in Asked /\ "file" \in Pcs /\ "none" \in Names
  BY DEF Asked, Items, Pcs, Names
<1>2. /\ Ask(t, "unlock") \in Runs
      /\ Ask(t, "unlock").op = run[t].op /\ Ask(t, "unlock").begun = run[t].begun
      /\ Ask(t, "unlock").refused = run[t].refused /\ Ask(t, "unlock").answer = run[t].answer
      /\ Ask(t, "unlock").item = "unlock" /\ Ask(t, "unlock").pc = "look"
  BY <1>1, AskSettles, Fields DEF Settled
<1>3. /\ Goto(t, "file") \in Runs
      /\ Goto(t, "file").op = run[t].op /\ Goto(t, "file").begun = run[t].begun
      /\ Goto(t, "file").refused = run[t].refused /\ Goto(t, "file").answer = run[t].answer
      /\ Goto(t, "file").pc = "file"
  BY <1>1, GotoSettles, Fields
<1> QED BY <1>1, <1>2, <1>3 DEF Beyond, Runs

\* A removal clears a place of its store, finds it empty, or is refused and remembers that.
LEMMA DeleteRemoval ==
  ASSUME HostLimits, Typed, RInv, NEW t \in Threads, StoreDelete(t)
  PROVE  RInv'
<1> DEFINE o == run[t]
<1>0. PICK p \in Names : p = run[t].item
  BY DEF Typed, Runs
<1>1. /\ o \in Runs /\ o.pc = "delete" /\ p \in Names /\ Removal(o, t)
      /\ o.op = "remove" => o.answer = Silent
  BY <1>0 DEF Typed, RInv, StoreDelete, Removal, Runs
<1>2. ToClear(o) = {p, "file"} \cup (IF p = "login" THEN {"dedicated"} ELSE {})
  BY <1>0, <1>1 DEF ToClear
<1>3. UNCHANGED writes /\ UNCHANGED world /\ writes \in Nat /\ writes' >= writes
  BY DEF StoreDelete, disk, Typed
<1>4. OnlyNewer /\ Uncreated' /\ (p \in Places /\ p \notin shut => key'[p] = 0)
  <2>1. CASE UNCHANGED <<disk, held, seen>> /\ (p \in shut \/ key[p] = 0)
    <3>1. SameDisk /\ UNCHANGED key
      BY <2>1 DEF SameDisk, disk
    <3> QED BY <1>3, <2>1, <3>1, StillNewer DEF RInv
  <2>2. CASE Put(p, 0)
    BY <1>1, <1>3, <2>2, PutNewer DEF RInv
  <2> QED BY <1>0, <2>1, <2>2 DEF StoreDelete
<1>5. CASE p \in shut
  <2>1. Beyond(t) \in Runs
    BY BeyondFields
  <2>2. PICK r \in Runs : r = Latched(t, Beyond(t))
    BY <2>1 DEF Latched, Runs
  <2>3. /\ r.op = o.op /\ r.begun = o.begun /\ r.refused /\ r.answer = o.answer
        /\ \/ r.pc = "look" /\ r.item = "unlock"
           \/ r.pc = "file"
    BY <2>1, <2>2, BeyondFields DEF Latched, Runs
  <2>4. run' = [run EXCEPT ![t] = r]
    BY <1>0, <1>5, <2>2 DEF StoreDelete
  <2> HIDE DEF o
  <2>5. Removal(r, t)'
    <3>1. CASE o.op = "remove"
      <4>1. run[t].op = "remove" /\ Removal(run[t], t) /\ r.begun = run[t].begun
        BY <1>1, <2>3, <3>1 DEF o
      <4> QED BY <1>4, <2>3, <3>1, <4>1, Further
    <3>2. CASE o.op # "remove"
      BY <2>3, <3>2, NoRemoval
    <3> QED BY <3>1, <3>2
  <2> QED BY <1>4, <2>4, <2>5, MoveKeeps
<1>6. CASE p \notin shut
  <2>1. PICK r \in Runs : /\ run' = [run EXCEPT ![t] = r]
                          /\ \/ r = Beyond(t) /\ (p = "wincred" \/ key[p] = 0)
                             \/ r = Goto(t, "drop")
    <3>1. Beyond(t) \in Runs /\ Goto(t, "drop") \in Runs
      BY BeyondFields, GotoSettles DEF Pcs
    <3> QED BY <1>0, <1>6, <3>1 DEF StoreDelete
  <2>2. /\ r.op = o.op /\ r.begun = o.begun /\ r.refused = o.refused /\ r.answer = o.answer
        /\ \/ p = "login" /\ r.pc = "look" /\ r.item = "unlock"
           \/ p # "login" /\ r.pc = "file"
           \/ r.pc = "drop" /\ r.item = p
    <3>1. "drop" \in Pcs
      BY DEF Pcs
    <3>2. CASE r = Beyond(t)
      BY <1>0, <3>2, BeyondFields
    <3>3. CASE r = Goto(t, "drop")
      BY <1>0, <3>1, <3>3, Fields
    <3> QED BY <2>1, <3>2, <3>3
  <2>3. o.op = "remove" => ToClear(o) \ ToClear(r) \subseteq {p}
    <3> HIDE DEF o
    <3> QED BY <1>1, <1>2, <2>2 DEF ToClear
  <2>4. Clear(r, p)'
    BY <1>4, <1>6 DEF Clear
  <2>5. Removal(r, t)'
    <3>1. CASE o.op = "remove"
      <4>1. \A q \in ToClear(run[t]) \ ToClear(r) : Clear(r, q)'
        BY <2>3, <2>4, <3>1
      <4> QED BY <1>1, <1>4, <2>2, <3>1, <4>1, Further
    <3>2. CASE o.op # "remove"
      BY <2>2, <3>2, NoRemoval
    <3> QED BY <3>1, <3>2
  <2> QED BY <1>4, <2>1, <2>5, MoveKeeps
<1> QED BY <1>5, <1>6

\* The rest of a removal: the memo, the file, the verdict.
LEMMA RestRemoval ==
  ASSUME HostLimits, Typed, RInv, NEW t \in Threads,
         DropMemo(t) \/ FileRead(t) \/ FileDelete(t) \/ Verdict(t)
  PROVE  RInv'
<1> DEFINE o == run[t]
<1>1. o \in Runs /\ Removal(o, t)
  BY DEF Typed, RInv
<1>2. UNCHANGED writes /\ UNCHANGED world /\ writes \in Nat /\ writes' >= writes
  BY DEF DropMemo, FileRead, FileDelete, Verdict, SameDisk, disk, Typed
<1>3. OnlyNewer /\ Uncreated' /\ (FileDelete(t) => key'["file"] = 0) /\ (~FileDelete(t) => key' = key)
  <2>1. CASE FileDelete(t)
    <3>1. "file" \in Names /\ "file" \in Places /\ Put("file", 0)
      BY <2>1 DEF Names, Places, FileDelete
    <3> QED BY <1>2, <2>1, <3>1, PutNewer DEF RInv
  <2>2. CASE ~FileDelete(t)
    <3>1. SameDisk /\ UNCHANGED key
      BY <2>2 DEF DropMemo, FileRead, Verdict, SameDisk, disk
    <3> QED BY <1>2, <2>2, <3>1, StillNewer DEF RInv
  <2> QED BY <2>1, <2>2
<1>4. Walked(t) \in Runs /\ Beyond(t) \in Runs /\ Goto(t, "unfile") \in Runs /\ Goto(t, "verdict") \in Runs
      /\ \A v \in Nat : Answered(t, v) \in Runs
  BY WalkedSettles, BeyondFields, GotoSettles, AnsweredSettles DEF Settled, Pcs
<1>5. ASSUME NEW r \in Runs, run' = [run EXCEPT ![t] = r], r.op = o.op, r.op = "remove" => Removal(r, t)'
      PROVE  RInv'
  <2>1. Removal(r, t)'
    BY <1>5, NoRemoval
  <2> QED BY <1>3, <1>5, <2>1, MoveKeeps
<1>6. ASSUME NEW r \in Runs, r.op = o.op, r.op = "remove", r.begun = o.begun, r.refused = o.refused,
             r.answer = o.answer \/ r.pc = "done" \/ (r.pc = "look" /\ r.answer = 0),
             \/ r.pc \in {"done", "file", "unfile", "verdict"}
             \/ r.pc = "look" /\ (r.item = "unlock" \/ r.answer = 0),
             \A q \in ToClear(o) \ ToClear(r) : Clear(r, q)'
      PROVE  Removal(r, t)'
  <2>1. r.answer = Silent /\ r.pc = "look" => r.item = "unlock"
    BY <1>6 DEF HostLimits, Silent
  <2> QED BY <1>1, <1>3, <1>6, <2>1, Further
<1>7. CASE DropMemo(t) /\ o.op = "set"
  <2>1. PICK r \in Runs : r = Answered(t, run[t].answer)
    BY <1>1, <1>4 DEF Runs
  <2>2. run' = [run EXCEPT ![t] = r]
    BY <1>7, <2>1 DEF DropMemo
  <2>3. r.op = o.op
    BY <1>1, <2>1, Fields DEF Runs
  <2> QED BY <1>5, <1>7, <2>2, <2>3
<1>8. CASE DropMemo(t) /\ o.op # "set"
  <2>1. PICK r \in Runs : r = Beyond(t)
    BY <1>4
  <2>2. run' = [run EXCEPT ![t] = r] /\ o.pc = "drop"
    BY <1>8, <2>1 DEF DropMemo
  <2>3. /\ r.op = o.op /\ r.begun = o.begun /\ r.refused = o.refused /\ r.answer = o.answer
        /\ o.item = "login" => r.pc = "look" /\ r.item = "unlock"
        /\ o.item # "login" => r.pc = "file"
    BY <2>1, BeyondFields
  <2>4. r.op = "remove" => ToClear(o) \subseteq ToClear(r)
    <3>1. o.op = "remove" => o.answer = Silent
      BY <1>1, <2>2 DEF Removal
    <3> HIDE DEF o
    <3> QED BY <2>2, <2>3, <3>1 DEF ToClear
  <2> HIDE DEF o
  <2>5. r.op = "remove" => Removal(r, t)'
    BY <1>6, <2>3, <2>4
  <2> QED BY <1>5, <2>2, <2>3, <2>5
<1>9. CASE FileRead(t) /\ key["file"] # 0
  <2>1. PICK r \in Runs : r = Goto(t, "unfile")
    BY <1>4
  <2>2. run' = [run EXCEPT ![t] = r] /\ o.pc = "file"
    BY <1>9, <2>1 DEF FileRead
  <2>3. /\ r.op = o.op /\ r.begun = o.begun /\ r.refused = o.refused /\ r.answer = o.answer
        /\ r.pc = "unfile"
    BY <2>1, Fields DEF Pcs
  <2>4. ToClear(o) \subseteq ToClear(r)
    BY <2>2, <2>3 DEF ToClear
  <2> HIDE DEF o
  <2>5. r.op = "remove" => Removal(r, t)'
    BY <1>6, <2>3, <2>4
  <2> QED BY <1>5, <2>2, <2>3, <2>5
<1>10. CASE (FileRead(t) /\ key["file"] = 0) \/ Verdict(t)
  <2>1. PICK r \in Runs : r = Walked(t)
    BY <1>4
  <2>2. run' = [run EXCEPT ![t] = r] /\ (o.pc = "verdict" \/ (o.pc = "file" /\ key'["file"] = 0))
    <3>1. CASE Verdict(t)
      BY <2>1, <3>1 DEF Verdict
    <3>2. CASE FileRead(t) /\ key["file"] = 0
      BY <2>1, <3>2 DEF FileRead, SameDisk, disk
    <3> QED BY <1>10, <3>1, <3>2
  <2>3. /\ r.op = o.op /\ r.begun = o.begun /\ r.refused = o.refused
        /\ r.pc \in {"look", "done"} /\ (r.pc = "look" => r.answer = 0)
    BY <2>1, WalkedFields
  <2>4. \A q \in ToClear(o) \ ToClear(r) : Clear(r, q)'
    <3>1. ToClear(o) \subseteq {"file"} /\ (o.pc = "verdict" => ToClear(o) = {})
      BY <2>2 DEF ToClear
    <3> QED BY <2>2, <3>1 DEF Clear
  <2> HIDE DEF o
  <2>5. r.op = "remove" => Removal(r, t)'
    BY <1>6, <2>3, <2>4
  <2> QED BY <1>5, <2>2, <2>3, <2>5
<1>11. CASE FileDelete(t)
  <2>1. PICK r \in Runs : r = Goto(t, "verdict")
    BY <1>4
  <2>2. run' = [run EXCEPT ![t] = r] /\ o.pc = "unfile" /\ key'["file"] = 0
    BY <1>3, <1>11, <2>1 DEF FileDelete
  <2>3. /\ r.op = o.op /\ r.begun = o.begun /\ r.refused = o.refused /\ r.answer = o.answer
        /\ r.pc = "verdict"
    BY <2>1, Fields DEF Pcs
  <2>4. \A q \in ToClear(o) \ ToClear(r) : Clear(r, q)'
    <3>1. ToClear(o) \subseteq {"file"}
      BY <2>2 DEF ToClear
    <3> QED BY <2>2, <3>1 DEF Clear
  <2> HIDE DEF o
  <2>5. r.op = "remove" => Removal(r, t)'
    BY <1>6, <2>3, <2>4
  <2> QED BY <1>5, <2>2, <2>3, <2>5
<1> QED BY <1>7, <1>8, <1>9, <1>10, <1>11
\* A key is written by no removal.
LEMMA WriteRemoval ==
  ASSUME HostLimits, IInv, RInv, NEW t \in Threads,
         StoreWrite(t) \/ StoreRefused(t) \/ AllowPlaintext(t) \/ FileWrite(t)
  PROVE  RInv'
<1>0. Typed
  BY DEF IInv
<1>1. run[t].op # "remove" /\ run[t] \in Runs
  BY <1>0 DEF RInv, Removal, Typed, StoreWrite, StoreRefused, AllowPlaintext, FileWrite
<1>2. UNCHANGED world /\ writes \in Nat /\ writes + 1 \in Nat /\ WritesTo(t) \in Names /\ "file" \in Names
  BY <1>0 DEF StoreWrite, StoreRefused, AllowPlaintext, FileWrite, Typed, HostLimits, WritesTo, Reads,
              Names, Places
<1>3. OnlyNewer /\ Uncreated'
  <2>1. CASE UNCHANGED <<disk, held>>
    <3>1. SameDisk
      BY <2>1 DEF SameDisk
    <3> QED BY <1>0, <1>2, <3>1, StillNewer DEF RInv
  <2>2. ASSUME NEW p \in Names, Put(p, writes + 1), writes' = writes + 1 PROVE OnlyNewer /\ Uncreated'
    BY <1>0, <1>2, <2>2, PutNewer DEF RInv
  <2> QED BY <1>2, <2>1, <2>2 DEF StoreWrite, StoreRefused, AllowPlaintext, FileWrite, SameDisk
<1>4. ASSUME NEW r \in Runs, run' = [run EXCEPT ![t] = r], r.op = run[t].op PROVE RInv'
  <2>1. Removal(r, t)'
    BY <1>1, <1>4, NoRemoval
  <2> QED BY <1>0, <1>3, <1>4, <2>1, MoveKeeps
<1>5. \A pc \in {"drop", "refused", "plaintext"} :
        /\ [Goto(t, pc) EXCEPT !.item = "none"] \in Runs
        /\ [Goto(t, pc) EXCEPT !.item = "none"].op = run[t].op
        /\ \A n \in Nat : /\ [Goto(t, pc) EXCEPT !.item = "none", !.answer = n] \in Runs
                          /\ [Goto(t, pc) EXCEPT !.item = "none", !.answer = n].op = run[t].op
  <2>1. "none" \in Names /\ {"drop", "refused", "plaintext"} \subseteq Pcs
    BY DEF Names, Pcs
  <2>2. \A pc \in {"drop", "refused", "plaintext"} : Goto(t, pc) \in Runs /\ Goto(t, pc).op = run[t].op
    BY <1>0, <2>1, GotoSettles, Fields
  <2> QED BY <2>1, <2>2 DEF Runs
<1>6. \A n \in Nat : Answered(t, n) \in Runs /\ Answered(t, n).op = run[t].op
  BY <1>0, AnsweredSettles, Fields DEF Settled
<1>7. PICK r \in Runs : run' = [run EXCEPT ![t] = r] /\ r.op = run[t].op
  <2>1. CASE StoreWrite(t)
    BY <1>2, <1>5, <2>1 DEF StoreWrite
  <2>2. CASE StoreRefused(t)
    BY <1>6, <2>2 DEF StoreRefused
  <2>3. CASE AllowPlaintext(t)
    BY <1>5, <2>3 DEF AllowPlaintext
  <2>4. CASE FileWrite(t)
    BY <1>2, <1>6, <2>4 DEF FileWrite
  <2> QED BY <2>1, <2>2, <2>3, <2>4
<1> QED BY <1>4, <1>7

\* A removal begins before every place it clears.
LEMMA BeginRemoval ==
  ASSUME HostLimits, IInv, RInv, NEW t \in Threads, Begin(t)
  PROVE  RInv'
<1>0. Typed
  BY DEF IInv
<1>1. SameDisk /\ UNCHANGED world
  BY DEF Begin, Resolve, SetKey, RemoveKey, Start
<1>2. OnlyNewer /\ Uncreated'
  BY <1>0, <1>1, StillNewer DEF RInv
<1>3. CASE Resolve(t) \/ SetKey(t)
  <2>1. PICK r \in Runs : run' = [run EXCEPT ![t] = r] /\ r.op # "remove"
    <3>1. CASE Resolve(t)
      <4>1. Walked(t) \in Runs
        BY <1>0, WalkedSettles DEF Settled
      <4>2. run' = [run EXCEPT ![t] = [[Walked(t) EXCEPT !.refused = FALSE] EXCEPT !.op = "resolve", !.begun = 0]]
        BY <3>1 DEF Resolve, Start
      <4>3. /\ [[Walked(t) EXCEPT !.refused = FALSE] EXCEPT !.op = "resolve", !.begun = 0] \in Runs
            /\ [[Walked(t) EXCEPT !.refused = FALSE] EXCEPT !.op = "resolve", !.begun = 0].op = "resolve"
        BY <4>1 DEF Runs, Ops
      <4> QED BY <4>2, <4>3
    <3>2. CASE SetKey(t)
      <4> DEFINE next == [IdleRun EXCEPT
                   !.pc = IF WritesTo(t) = "dedicated" THEN "look"
                          ELSE IF host = "bare" THEN "plaintext" ELSE "write",
                   !.item = IF WritesTo(t) = "dedicated" THEN "unlock" ELSE "none"]
      <4>1. next \in Runs
        BY DEF IdleRun, Runs, Ops, Pcs, Names, Items, Tags, NoTag
      <4>2. run' = [run EXCEPT ![t] = [next EXCEPT !.op = "set", !.begun = 0]]
        BY <3>2 DEF SetKey, Start
      <4> HIDE DEF next
      <4>3. /\ [next EXCEPT !.op = "set", !.begun = 0] \in Runs
            /\ [next EXCEPT !.op = "set", !.begun = 0].op = "set"
        BY <4>1 DEF Runs, Ops
      <4> QED BY <4>2, <4>3
    <3> QED BY <1>3, <3>1, <3>2
  <2>2. Removal(r, t)'
    BY <2>1, NoRemoval
  <2> QED BY <1>0, <1>2, <2>1, <2>2, MoveKeeps
<1>4. CASE RemoveKey(t)
  <2> DEFINE place == WritesTo(t)
             next == [IdleRun EXCEPT
               !.pc = IF WritesTo(t) = "dedicated" THEN "look"
                      ELSE IF host = "bare" THEN "file" ELSE "delete",
               !.item = IF WritesTo(t) = "dedicated" THEN "unlock"
                        ELSE IF host = "bare" THEN "none" ELSE WritesTo(t),
               !.answer = Silent]
  <2>1. run' = [run EXCEPT ![t] = [next EXCEPT !.op = "remove", !.begun = writes]]
    BY <1>4 DEF RemoveKey, Start
  <2>2. Silent \in Nat /\ writes \in Nat /\ host \in {"darwin", "linux", "windows", "bare"}
    BY <1>0 DEF HostLimits, Silent, Typed
  <2>3. /\ place = IF host = "darwin" THEN (IF t # Cli THEN "dedicated" ELSE "login")
                   ELSE IF host = "linux" THEN "libsecret"
                   ELSE IF host = "windows" THEN "wincred" ELSE "none"
    BY <2>2 DEF WritesTo, Reads
  <2>4. next \in Runs
    <3>1. place \in Names
      BY <2>3 DEF Names, Places
    <3> QED BY <2>2, <3>1 DEF IdleRun, Runs, Ops, Pcs, Names, Items, Tags, NoTag
  <2>5. /\ next.refused = FALSE /\ next.answer = Silent
        /\ place = "dedicated" => next.pc = "look" /\ next.item = "unlock"
        /\ place = "none" => next.pc = "file"
        /\ place \notin {"dedicated", "none"} => next.pc = "delete" /\ next.item = place
    BY <2>2, <2>3 DEF IdleRun
  <2>6. PICK r \in Runs : r = [next EXCEPT !.op = "remove", !.begun = writes]
    <3> HIDE DEF next
    <3> QED BY <2>2, <2>4 DEF Runs, Ops
  <2>7. /\ r.op = "remove" /\ r.begun = writes /\ r.refused = FALSE /\ r.answer = Silent
        /\ place = "dedicated" => r.pc = "look" /\ r.item = "unlock"
        /\ place = "none" => r.pc = "file"
        /\ place \notin {"dedicated", "none"} => r.pc = "delete" /\ r.item = place
    <3> HIDE DEF next
    <3> QED BY <2>4, <2>5, <2>6 DEF Runs
  <2>8. r.pc \in {"look", "file", "delete"}
    BY <2>7
  <2>9. Clears(t) \ ToClear(r) \subseteq {"none"}
    <3>1. Clears(t) = {"file", place} \cup (IF host = "darwin" THEN {"dedicated"} ELSE {})
      BY DEF Clears
    <3> HIDE DEF place
    <3> QED BY <2>3, <2>7, <3>1 DEF ToClear
  <2>10. \A p \in Clears(t) \ ToClear(r) : Clear(r, p)
    BY <2>9 DEF Clear, Places
  <2> HIDE DEF place, next
  <2>11. Removal(r, t)
    <3>1. r.begun <= writes
      BY <2>2, <2>7
    <3>2. r.pc = "look" => r.item = "unlock"
      BY <2>7
    <3> QED BY <2>7, <2>8, <2>10, <3>1, <3>2 DEF Removal, Cleared
  <2>12. Removal(r, t)'
    BY <1>0, <1>2, <2>11, RemovalStays
  <2>13. run' = [run EXCEPT ![t] = r]
    BY <2>1, <2>6
  <2> QED BY <1>0, <1>2, <2>12, <2>13, MoveKeeps
<1> QED BY <1>3, <1>4 DEF Begin

LEMMA WorldRemoval ==
  ASSUME HostLimits, IInv, RInv, Outside \/ CreateKeychain \/ Toggle \/ Window \/ UNCHANGED vars
  PROVE  RInv'
<1>0. Typed
  BY DEF IInv
<1>1. run' = run /\ host' = host /\ writes \in Nat
  BY <1>0 DEF Outside, CreateKeychain, Toggle, Window, vars, world, Typed
<1>2. OnlyNewer /\ Uncreated'
  <2>1. CASE Outside
    <3>1. Put(Reads[host], writes + 1) /\ writes' = writes + 1 /\ Reads[host] \in Names /\ writes + 1 \in Nat
      BY <1>0, <2>1 DEF Outside, HostLimits, Typed, Reads, Names, Places
    <3>2. key' = [key EXCEPT ![Reads[host]] = writes + 1] /\ Reads[host] # "dedicated"
      BY <2>1, <3>1 DEF Put, Outside, Reads
    <3>3. sig'["dedicated"] = sig["dedicated"]
      BY <1>0, <3>1, <3>2 DEF Put, Typed, Keychains
    <3>4. OnlyNewer
      BY <1>0, <1>1, <3>1, <3>2 DEF OnlyNewer, Typed
    <3>5. key'["dedicated"] = key["dedicated"]
      BY <1>0, <3>2 DEF Typed, Places
    <3> QED BY <3>3, <3>4, <3>5 DEF Uncreated, RInv
  <2>2. CASE CreateKeychain
    <3>1. UNCHANGED <<key, writes>> /\ sig' = [sig EXCEPT !["dedicated"] = 1]
      BY <2>2 DEF CreateKeychain
    <3>2. sig'["dedicated"] # 0
      BY <1>0, <3>1 DEF Typed, Keychains
    <3> QED BY <1>1, <3>1, <3>2 DEF OnlyNewer, Uncreated
  <2>3. CASE Toggle \/ Window \/ UNCHANGED vars
    <3>1. UNCHANGED <<key, sig, writes>>
      BY <2>3 DEF Toggle, Window, vars, disk
    <3> QED BY <1>1, <3>1 DEF OnlyNewer, Uncreated, RInv
  <2> QED BY <2>1, <2>2, <2>3
<1>3. ASSUME NEW u \in Threads PROVE Removal(run[u], u)'
  <2>1. PICK s \in Runs : s = run[u]
    BY <1>0 DEF Typed
  <2>2. Removal(s, u)
    BY <2>1 DEF RInv
  <2>3. Removal(s, u)'
    BY <1>0, <1>2, <2>2, RemovalStays
  <2> QED BY <1>1, <2>1, <2>3 DEF Removal, Cleared, ToClear, Clear
<1> QED BY <1>2, <1>3 DEF RInv

\* A removal that reports itself verified, with no refusal and no key left to resolve, left in the
\* places it clears no key it found there (remove_provider_key, KeychainStore.delete, record_delete,
\* env_file_delete_key): for any number of threads, of keys written meanwhile, of stores that shut and
\* open, on every host.
THEOREM RemovalVerdictsAreTrue ==
  ASSUME HostLimits
  PROVE  Spec => []RemovalVerdictIsTrue
<1>1. Init => IInv /\ RInv
  <2> SUFFICES ASSUME Init PROVE IInv /\ RInv
    OBVIOUS
  <2>1. IInv
    BY InitInv
  <2>2. \A t \in Threads : run[t].op = "none"
    BY DEF Init, IdleRun
  <2>3. key["dedicated"] = 0
    <3>1. Reads[host] # "dedicated"
      BY <2>1 DEF HostLimits, IInv, Typed, Reads
    <3> QED BY <3>1 DEF Init, Places
  <2> QED BY <2>1, <2>2, <2>3 DEF RInv, Removal, Uncreated
<1>2. IInv /\ RInv /\ [Next]_vars => (IInv /\ RInv)'
  <2> SUFFICES ASSUME IInv, RInv, [Next]_vars PROVE RInv' /\ IInv'
    OBVIOUS
  <2>1. IInv'
    BY StepInv
  <2>2. Typed
    BY DEF IInv
  <2>3. ASSUME NEW t \in Threads, Begin(t) PROVE RInv'
    BY <2>3, BeginRemoval
  <2>4. ASSUME NEW t \in Threads, Go(t) PROVE RInv'
    BY <2>2, <2>4, ReadRemoval, WriteRemoval, DeleteRemoval, RestRemoval DEF Go
  <2>5. CASE Outside \/ CreateKeychain \/ Toggle \/ Window \/ UNCHANGED vars
    BY <2>1, <2>5, WorldRemoval
  <2> QED BY <2>1, <2>3, <2>4, <2>5 DEF Next
<1>3. IInv /\ RInv => RemovalVerdictIsTrue
  <2> SUFFICES ASSUME IInv, RInv, NEW t \in Threads, run[t].op = "remove", run[t].pc = "done",
                      ~run[t].refused, NEW p \in Clears(t) \cap Places
               PROVE  key[p] = 0 \/ key[p] > run[t].begun
    BY DEF RemovalVerdictIsTrue
  <2>1. ToClear(run[t]) = {} /\ Removal(run[t], t)
    BY DEF ToClear, RInv
  <2> QED BY <2>1 DEF Removal, Cleared, Clear
<1> QED BY <1>1, <1>2, <1>3, PTL DEF Spec
------------------------------------------------------------------------------
(* ConfigStore.                                                            *)

\* The setting an update is about, and a configuration's value of it.
Settings == {"order", "timeout", "switch"}
SettingOf(kind) ==
    IF kind \in {"order", "prune"} THEN "order" ELSE IF kind = "switch" THEN "switch" ELSE "timeout"
Value(c, f) == IF f = "order" THEN c.order ELSE IF f = "timeout" THEN c.timeout ELSE c.switch
Touched(w) == {SettingOf(kind) : kind \in Does[w]}

\* What a mutator makes of a configuration.
Applied(kind, to, base) ==
    CASE kind = "prune" -> [base EXCEPT !.order = @ \ Gone]
      [] kind = "migrate" -> [base EXCEPT !.timeout = IF @ = "legacy" THEN "stock" ELSE @]
      [] OTHER -> Set(base, kind, to)

Updates == [step : {"idle", "wait", "read", "checked", "mirror"}, kind : Kinds, to : Configs, base : Configs]

\* The holder of the lock has read what the file still holds.
FileKept(o, w) ==
    /\ o.step # "idle" => o.kind \in Does[w] /\ config_json # NoFile
    /\ o.step \in {"read", "checked"} =>
          config_lock = w /\ o.base = AsRead /\ o.to = Applied(o.kind, o.to, AsRead)
    /\ o.step = "checked" => config_json \in Configs
    /\ o.step = "mirror" => w \in Handlers

SeedKept ==
    /\ seeding # {} => config_json = NoFile
    /\ config_json = NoFile => live = NoFile /\ committed = Stock /\ Commands = {}

\* The threads of a service that is down do nothing.
HandlersUp == \A h \in Handlers : op[h].step # "idle" => live # NoFile

ConfigInv ==
    ConfigTypeOK /\ SettingsStay /\ SeedKept /\ HandlersUp /\ \A w \in Writers : FileKept(op[w], w)

\* Nobody edits the file in the middle of an update, and only the service may find none.
OneSeeder == EditorWaits /\ (Commands = {} \/ NoFile \notin FirstFiles)

LEMMA SetValues ==
  ASSUME NEW b \in Configs, NEW kind \in Kinds, NEW to \in Configs
  PROVE  /\ Set(b, kind, to) \in Configs
         /\ \A f \in Settings :
              Value(Set(b, kind, to), f) = IF f = SettingOf(kind) THEN Value(to, f) ELSE Value(b, f)
BY DEF Set, Configs, Kinds, Settings, SettingOf, Value

LEMMA SameValues ==
  ASSUME NEW b \in Configs, NEW c \in Configs, \A f \in Settings : Value(b, f) = Value(c, f)
  PROVE  b = c
<1>1. b.order = c.order /\ b.timeout = c.timeout /\ b.switch = c.switch
  BY DEF Value, Settings
<1> QED BY <1>1 DEF Configs

\* A mutator touches its setting only, and its result stands when it is applied again.
LEMMA AppliedValues ==
  ASSUME NEW b \in Configs, NEW kind \in Kinds, NEW to \in Configs
  PROVE  /\ Applied(kind, to, b) \in Configs
         /\ \A f \in Settings \ {SettingOf(kind)} : Value(Applied(kind, to, b), f) = Value(b, f)
         /\ Applied(kind, Applied(kind, to, b), b) = Applied(kind, to, b)
<1>1. CASE kind = "prune"
  <2>1. Applied(kind, to, b) = [b EXCEPT !.order = b.order \ Gone]
    BY <1>1 DEF Applied
  <2>2. Applied(kind, Applied(kind, to, b), b) = [b EXCEPT !.order = b.order \ Gone]
    BY <1>1 DEF Applied
  <2> QED BY <1>1, <2>1, <2>2 DEF Configs, Value, Settings, SettingOf
<1>2. CASE kind = "migrate"
  <2> DEFINE v == IF b.timeout = "legacy" THEN "stock" ELSE b.timeout
  <2>1. Applied(kind, to, b) = [b EXCEPT !.timeout = v]
    BY <1>2 DEF Applied
  <2>2. Applied(kind, Applied(kind, to, b), b) = [b EXCEPT !.timeout = v]
    BY <1>2 DEF Applied
  <2>3. v \in Timeouts
    BY DEF Timeouts, Configs
  <2> HIDE DEF v
  <2> QED BY <1>2, <2>1, <2>2, <2>3 DEF Configs, Value, Settings, SettingOf
<1>3. CASE kind \notin {"prune", "migrate"}
  <2>1. Applied(kind, to, b) = Set(b, kind, to)
    BY <1>3 DEF Applied
  <2>2. Set(b, kind, to) \in Configs /\ Set(b, kind, Set(b, kind, to)) \in Configs
    BY SetValues
  <2>3. Applied(kind, Applied(kind, to, b), b) = Set(b, kind, Set(b, kind, to))
    BY <1>3, <2>1 DEF Applied
  <2>4. \A f \in Settings : Value(Set(b, kind, to), f) = IF f = SettingOf(kind) THEN Value(to, f) ELSE Value(b, f)
    BY SetValues
  <2>5. \A f \in Settings :
          Value(Set(b, kind, Set(b, kind, to)), f)
            = IF f = SettingOf(kind) THEN Value(Set(b, kind, to), f) ELSE Value(b, f)
    BY <2>2, SetValues
  <2>6. Set(b, kind, Set(b, kind, to)) = Set(b, kind, to)
    BY <2>2, <2>4, <2>5, SameValues
  <2> QED BY <2>1, <2>2, <2>3, <2>4, <2>6
<1> QED BY <1>1, <1>2, <1>3

LEMMA MutatedIsApplied ==
  ASSUME NEW w \in Writers, NEW b
  PROVE  Mutated(w, b) = Applied(op[w].kind, op[w].to, b)
BY DEF Mutated, Applied

LEMMA ReadIsConfig == AsRead \in Configs /\ Stock \in Configs /\ Resting \in Updates
BY DEF AsRead, Configs, Stock, Timeouts, Resting, Updates, Kinds

\* What an update that moves to `o` leaves to be shown: that the others' reads still stand.
LEMMA UpdateMoves ==
  ASSUME ConfigInv, NEW w \in Writers, NEW o \in Updates,
         op' = [op EXCEPT ![w] = o], FileKept(o, w)',
         \A v \in Writers \ {w} : \A u \in Updates : FileKept(u, v) /\ u = op[v] => FileKept(u, v)'
  PROVE  op' \in [Writers -> Updates] /\ (\A v \in Writers : FileKept(op[v], v))'
<1>1. op \in [Writers -> Updates]
  BY DEF ConfigInv, ConfigTypeOK, Updates
<1>2. op' \in [Writers -> Updates]
  BY <1>1
<1>3. \A u \in Updates, v \in Writers : u = op'[v] => FileKept(u, v)'
  <2> SUFFICES ASSUME NEW u \in Updates, NEW v \in Writers, u = op'[v]
               PROVE  FileKept(u, v)'
    OBVIOUS
  <2>1. CASE v = w
    <3>1. u = o
      BY <1>1, <2>1
    <3> QED BY <2>1, <3>1
  <2>2. CASE v # w
    <3>1. u = op[v]
      BY <1>1, <2>2
    <3>2. FileKept(op[v], v)
      BY DEF ConfigInv
    <3> QED BY <2>2, <3>1, <3>2
  <2> QED BY <2>1, <2>2
<1> QED BY <1>2, <1>3 DEF FileKept

\* A read stands as long as the file and the lock do, and nobody else has one while the lock is w's
\* or free.
LEMMA ReadsStand ==
  ASSUME NEW v \in Writers, NEW u \in Updates, FileKept(u, v), UNCHANGED config_json,
         config_lock' = config_lock \/ config_lock # v
  PROVE  FileKept(u, v)'
<1>1. AsRead' = AsRead
  BY DEF AsRead
<1>2. Applied(u.kind, u.to, AsRead)' = Applied(u.kind, u.to, AsRead)
  BY <1>1 DEF Applied, Set
<1> QED BY <1>1, <1>2 DEF FileKept

LEMMA NoOtherRead ==
  ASSUME NEW v \in Writers, NEW u \in Updates, FileKept(u, v),
         config_lock # v, config_json' # NoFile
  PROVE  FileKept(u, v)'
<1>1. u.step \notin {"read", "checked"}
  BY DEF FileKept
<1> QED BY <1>1 DEF FileKept

LEMMA ConfigStarts ==
  ASSUME ConfigParts, OneSeeder, ConfigInv, NEW w \in Writers, NEW kind \in Kinds, NEW to \in Configs,
         StartUpdate(w, kind, to)
  PROVE  ConfigInv' /\ UNCHANGED config_json
<1> DEFINE waits == [step |-> "wait", kind |-> kind, to |-> to, base |-> AsRead]
<1>1. PICK o \in Updates : o = waits /\ o.step = "wait" /\ o.kind = kind
  <2>1. waits \in Updates /\ waits.step = "wait" /\ waits.kind = kind
    BY ReadIsConfig DEF Updates
  <2> QED BY <2>1
<1>2. op' = [op EXCEPT ![w] = o] /\ UNCHANGED <<config_json, copy, live, config_lock, seeding, committed, reported, edits>>
  BY <1>1 DEF StartUpdate
<1>3. kind \in Does[w] /\ config_json # NoFile /\ updates < MaxUpdates /\ updates' = updates + 1
  BY DEF StartUpdate
<1> HIDE DEF waits
<1>4. FileKept(o, w)'
  BY <1>1, <1>2, <1>3 DEF FileKept
<1>5. op' \in [Writers -> Updates] /\ (\A v \in Writers : FileKept(op[v], v))'
  BY <1>1, <1>2, <1>4, UpdateMoves, ReadsStand
<1>7. HandlersUp'
  <2>1. w \in Handlers => live # NoFile
    BY DEF StartUpdate
  <2> QED BY <1>2, <2>1 DEF ConfigInv, HandlersUp, ConfigTypeOK
<1>6. ConfigTypeOK'
  BY <1>2, <1>3, <1>5 DEF ConfigInv, ConfigTypeOK, Updates, ConfigParts
<1> QED BY <1>2, <1>5, <1>6, <1>7 DEF ConfigInv, SettingsStay, SeedKept

LEMMA ConfigReads ==
  ASSUME ConfigParts, OneSeeder, ConfigInv, NEW w \in Writers, Read(w)
  PROVE  ConfigInv' /\ UNCHANGED config_json
<1> DEFINE to == Mutated(w, AsRead)
           reads == [step |-> "read", kind |-> op[w].kind, to |-> to, base |-> AsRead]
<1>1. op[w] \in Updates /\ op[w].step = "wait" /\ FileKept(op[w], w)
  BY DEF ConfigInv, ConfigTypeOK, Updates, Read
<1>2. to = Applied(op[w].kind, op[w].to, AsRead) /\ to \in Configs /\ Applied(op[w].kind, to, AsRead) = to
  BY <1>1, MutatedIsApplied, AppliedValues, ReadIsConfig DEF Updates
<1>3. op' = [op EXCEPT ![w] = reads]
  BY DEF Read
<1> HIDE DEF to
<1>4. PICK o \in Updates :
        /\ o = reads /\ o.step = "read" /\ o.kind = op[w].kind /\ o.base = AsRead
        /\ o.to = Applied(o.kind, o.to, AsRead)
  <2>1. reads \in Updates /\ reads.step = "read" /\ reads.kind = op[w].kind /\ reads.base = AsRead /\ reads.to = to
    BY <1>1, <1>2, ReadIsConfig DEF Updates
  <2> HIDE DEF reads
  <2> QED BY <1>2, <2>1
<1> HIDE DEF reads
<1>5. /\ config_lock = Nobody /\ config_lock' = w
      /\ UNCHANGED <<config_json, copy, live, seeding, committed, reported, edits, updates>>
  BY DEF Read
<1>6. AsRead' = AsRead /\ \A kind, c : Applied(kind, c, AsRead)' = Applied(kind, c, AsRead)
  BY <1>5 DEF AsRead, Applied, Set
<1>7. FileKept(o, w)'
  <2>1. o.kind \in Does[w] /\ config_json # NoFile
    BY <1>1, <1>4 DEF FileKept
  <2>2. o.to = Applied(o.kind, o.to, AsRead)'
    BY <1>4, <1>6
  <2> QED BY <1>4, <1>5, <1>6, <2>1, <2>2 DEF FileKept
<1>8. op' \in [Writers -> Updates] /\ (\A v \in Writers : FileKept(op[v], v))'
  <2>1. \A v \in Writers \ {w} : \A u \in Updates : FileKept(u, v) /\ u = op[v] => FileKept(u, v)'
    BY <1>5, ReadsStand DEF ConfigParts
  <2> QED BY <1>3, <1>4, <1>7, <2>1, UpdateMoves
<1>9. ConfigTypeOK'
  BY <1>5, <1>8 DEF ConfigInv, ConfigTypeOK, Updates
<1>10. HandlersUp'
  BY <1>1, <1>3, <1>5 DEF ConfigInv, HandlersUp, ConfigTypeOK
<1> QED BY <1>5, <1>8, <1>9, <1>10 DEF ConfigInv, SettingsStay, SeedKept

LEMMA ConfigRefuses ==
  ASSUME ConfigParts, OneSeeder, ConfigInv, NEW w \in Writers, Refuses(w) \/ Checks(w) \/ Mirrors(w)
  PROVE  ConfigInv' /\ UNCHANGED config_json
<1>0. op \in [Writers -> Updates] /\ op[w] \in Updates /\ FileKept(op[w], w) /\ Resting \in Updates
  BY ReadIsConfig DEF ConfigInv, ConfigTypeOK, Updates
<1>1. CASE Refuses(w)
  <2>1. /\ op' = [op EXCEPT ![w] = Resting] /\ config_lock' = Nobody
        /\ UNCHANGED <<config_json, live, seeding, committed, edits, updates>>
    BY <1>1 DEF Refuses
  <2>2. config_lock = w /\ config_json \in Breaks /\ copy' \in {copy, config_json} /\ reported' = config_json
        /\ (copy = NoFile \/ copy' = copy)
    BY <1>0, <1>1 DEF FileKept, Refuses, Preserve
  <2>3. FileKept(Resting, w)'
    BY DEF FileKept, Resting
  <2>4. op' \in [Writers -> Updates] /\ (\A v \in Writers : FileKept(op[v], v))'
    BY <1>0, <2>1, <2>2, <2>3, UpdateMoves, ReadsStand
  <2>5. ConfigTypeOK'
    BY <2>1, <2>2, <2>4 DEF ConfigInv, ConfigTypeOK, Updates
  <2>6. HandlersUp'
    BY <2>1 DEF ConfigInv, HandlersUp, ConfigTypeOK, Resting
  <2> QED BY <2>1, <2>4, <2>5, <2>6 DEF ConfigInv, SettingsStay, SeedKept
<1>2. CASE Checks(w)
  <2> DEFINE checked == [op[w] EXCEPT !.step = "checked"]
  <2>1. /\ op' = [op EXCEPT ![w] = checked] /\ op[w].step = "read" /\ config_json \notin Breaks
        /\ UNCHANGED <<config_json, copy, live, config_lock, seeding, committed, reported, edits, updates>>
    BY <1>2 DEF Checks
  <2>2. PICK o \in Updates :
          o = checked /\ o.step = "checked" /\ o.kind = op[w].kind /\ o.to = op[w].to /\ o.base = op[w].base
    <3>1. /\ checked \in Updates /\ checked.step = "checked" /\ checked.kind = op[w].kind
          /\ checked.to = op[w].to /\ checked.base = op[w].base
      BY <1>0 DEF Updates
    <3> HIDE DEF checked
    <3> QED BY <3>1
  <2> HIDE DEF checked
  <2>3. config_json \in Configs
    BY <1>0, <2>1 DEF FileKept, ConfigInv, ConfigTypeOK
  <2>4. FileKept(o, w)
    BY <1>0, <2>1, <2>2, <2>3 DEF FileKept
  <2>5. FileKept(o, w)' /\ \A v \in Writers \ {w} : \A u \in Updates : FileKept(u, v) /\ u = op[v] => FileKept(u, v)'
    BY <2>1, <2>2, <2>4, ReadsStand
  <2>6. op' \in [Writers -> Updates] /\ (\A v \in Writers : FileKept(op[v], v))'
    BY <2>1, <2>2, <2>5, UpdateMoves
  <2>7. ConfigTypeOK'
    BY <2>1, <2>6 DEF ConfigInv, ConfigTypeOK, Updates
  <2>8. HandlersUp'
    BY <2>1 DEF ConfigInv, HandlersUp, ConfigTypeOK
  <2> QED BY <2>1, <2>6, <2>7, <2>8 DEF ConfigInv, SettingsStay, SeedKept
<1>3. CASE Mirrors(w)
  <2>1. /\ op' = [op EXCEPT ![w] = Resting] /\ op[w].step = "mirror" /\ live' = Mirrored(w)
        /\ UNCHANGED <<config_json, copy, config_lock, seeding, committed, reported, edits, updates>>
    BY <1>3 DEF Mirrors
  <2>2. config_json # NoFile
    BY <1>0, <2>1 DEF FileKept
  <2>3. FileKept(Resting, w)'
    BY DEF FileKept, Resting
  <2>4. op' \in [Writers -> Updates] /\ (\A v \in Writers : FileKept(op[v], v))'
    BY <1>0, <2>1, <2>3, UpdateMoves, ReadsStand
  <2>5. live' \in Configs
    <3>1. live \in Configs
      BY <1>0, <2>1 DEF FileKept, HandlersUp, ConfigInv, ConfigTypeOK
    <3> QED BY <1>0, <2>1, <3>1, SetValues DEF Mirrored, Updates
  <2>6. ConfigTypeOK'
    BY <2>1, <2>4, <2>5 DEF ConfigInv, ConfigTypeOK, Updates
  <2>7. HandlersUp'
    BY <1>0, <2>1, <2>5 DEF ConfigInv, HandlersUp, Resting, ConfigParts
  <2> QED BY <2>1, <2>2, <2>4, <2>6, <2>7 DEF ConfigInv, SettingsStay, SeedKept
<1> QED BY <1>1, <1>2, <1>3 DEF Refuses, Checks, Mirrors

LEMMA ConfigWrites ==
  ASSUME ConfigParts, OneSeeder, ConfigInv, NEW w \in Writers, Writes(w)
  PROVE  /\ ConfigInv' /\ config_json \in Configs
         /\ config_json' = Applied(op[w].kind, op[w].to, config_json) /\ config_json' = op[w].to
<1>1. /\ op \in [Writers -> Updates] /\ op[w] \in Updates /\ FileKept(op[w], w) /\ Resting \in Updates
      /\ op[w].step = "checked"
  BY ReadIsConfig DEF ConfigInv, ConfigTypeOK, Updates, Writes
<1>2. /\ config_json \in Configs /\ config_json = committed /\ AsRead = config_json /\ config_lock = w
      /\ op[w].to = Applied(op[w].kind, op[w].to, config_json)
  BY <1>1 DEF FileKept, ConfigInv, SettingsStay, AsRead
<1>3. /\ config_json' = op[w].to /\ config_lock' = Nobody /\ committed' = op[w].to
      /\ UNCHANGED <<copy, seeding, reported, edits, updates>>
  <2>1. committed' = Mutated(w, committed)
    BY DEF Writes
  <2> QED BY <1>2, <2>1, MutatedIsApplied DEF Writes
<1>4. live' = IF w = Service THEN op[w].to ELSE live
  BY DEF Writes
<1>5. config_json' \in Configs /\ config_json' # NoFile /\ op[w].to \in Configs
  BY <1>1, <1>3 DEF Updates, ConfigParts
<1>6. PICK o \in Updates : /\ op' = [op EXCEPT ![w] = o]
                           /\ o.step = "idle" \/ (o.step = "mirror" /\ o.kind = op[w].kind /\ w \in Handlers)
  <2> DEFINE m == [op[w] EXCEPT !.step = "mirror"]
  <2>1. m \in Updates /\ m.step = "mirror" /\ m.kind = op[w].kind /\ Resting.step = "idle"
    BY <1>1 DEF Updates, Resting
  <2>2. (op' = [op EXCEPT ![w] = m] /\ w \in Handlers) \/ op' = [op EXCEPT ![w] = Resting]
    BY DEF Writes
  <2> HIDE DEF m
  <2> QED BY <1>1, <2>1, <2>2
<1>7. FileKept(o, w)'
  BY <1>1, <1>5, <1>6 DEF FileKept
<1>8. op' \in [Writers -> Updates] /\ (\A v \in Writers : FileKept(op[v], v))'
  <2>1. \A v \in Writers \ {w} : \A u \in Updates : FileKept(u, v) /\ u = op[v] => FileKept(u, v)'
    BY <1>2, <1>5, NoOtherRead
  <2> QED BY <1>6, <1>7, <2>1, UpdateMoves
<1>9. live' \in Configs \cup {NoFile} /\ (live # NoFile => live' # NoFile)
  BY <1>4, <1>5 DEF ConfigInv, ConfigTypeOK, ConfigParts
<1>10. ConfigTypeOK'
  BY <1>3, <1>5, <1>8, <1>9 DEF ConfigInv, ConfigTypeOK, Updates
<1>11. HandlersUp'
  BY <1>1, <1>6, <1>9 DEF ConfigInv, HandlersUp, ConfigTypeOK
<1>12. SeedKept'
  BY <1>2, <1>3, <1>5 DEF ConfigInv, SeedKept, ConfigParts
<1> QED BY <1>2, <1>3, <1>5, <1>8, <1>10, <1>11, <1>12 DEF ConfigInv, SettingsStay

\* The loads, the world.
LEMMA ConfigLoads ==
  ASSUME ConfigParts, OneSeeder, ConfigInv, (\E l \in Loaders : Load(l) \/ Seeds(l)) \/ Edit \/ Stop
  PROVE  ConfigInv' /\ (config_json \in Breaks /\ config_json' # config_json => edits' # edits)
<1>0. /\ op \in [Writers -> Updates] /\ Stock \in Configs /\ Resting \in Updates /\ edits \in Nat
      /\ \A v \in Writers : FileKept(op[v], v)
  BY ReadIsConfig DEF ConfigInv, ConfigTypeOK, Updates, ConfigParts
<1>1. ASSUME NEW l \in Loaders, Load(l) PROVE ConfigInv' /\ UNCHANGED config_json
  <2>1. /\ UNCHANGED <<config_json, config_lock, op, committed, edits, updates>>
        /\ live' \in Configs \cup {NoFile} /\ (live # NoFile => live' # NoFile)
        /\ (live' = live \/ config_json # NoFile)
    BY <1>0, <1>1 DEF Load, Serves, ConfigInv, ConfigTypeOK, ConfigParts
  <2>2. copy' \in Breaks \cup {NoFile} /\ reported' \in Breaks \cup {NoFile} /\ seeding' \subseteq Loaders
        /\ (seeding' = seeding \/ config_json = NoFile)
    BY <1>1 DEF Load, Preserve, ConfigInv, ConfigTypeOK
  <2>3. \A v \in Writers : \A u \in Updates : u = op[v] => FileKept(u, v)'
    BY <1>0, <2>1, ReadsStand
  <2>4. (\A v \in Writers : FileKept(op[v], v))'
    BY <1>0, <2>1, <2>3 DEF FileKept
  <2>5. ConfigTypeOK'
    BY <2>1, <2>2 DEF ConfigInv, ConfigTypeOK
  <2>6. SeedKept' /\ HandlersUp' /\ SettingsStay'
    BY <2>1, <2>2 DEF ConfigInv, SeedKept, HandlersUp, SettingsStay
  <2> QED BY <2>1, <2>4, <2>5, <2>6 DEF ConfigInv
<1>2. ASSUME NEW l \in Loaders, Seeds(l) PROVE ConfigInv' /\ config_json \notin Breaks
  <2>1. config_json = NoFile /\ committed = Stock /\ Commands = {} /\ l = Service /\ seeding \subseteq {Service}
    BY <1>2 DEF Seeds, ConfigInv, SeedKept, ConfigTypeOK, Loaders
  <2>2. /\ config_json' = Stock /\ live' = Stock /\ seeding' = {}
        /\ UNCHANGED <<copy, config_lock, op, committed, reported, edits, updates>>
    BY <1>2, <2>1 DEF Seeds, Serves
  <2>3. \A v \in Writers : op[v].step = "idle"
    BY <1>0, <2>1 DEF FileKept
  <2>4. (\A v \in Writers : FileKept(op[v], v))'
    BY <2>2, <2>3 DEF FileKept
  <2>5. ConfigTypeOK'
    BY <1>0, <2>2 DEF ConfigInv, ConfigTypeOK
  <2>6. SeedKept' /\ HandlersUp' /\ SettingsStay'
    BY <1>0, <2>1, <2>2 DEF SeedKept, HandlersUp, SettingsStay, ConfigParts
  <2>7. config_json \notin Breaks
    BY <2>1 DEF ConfigParts
  <2> QED BY <2>4, <2>5, <2>6, <2>7 DEF ConfigInv
<1>3. CASE Edit
  <2>1. /\ edits' = edits + 1 /\ edits < MaxEdits /\ config_lock = Nobody
        /\ config_json # NoFile /\ config_json' \in Configs \cup Breaks
        /\ (config_json' \in Breaks \/ config_json' = committed)
        /\ UNCHANGED <<copy, live, config_lock, op, seeding, reported, updates, committed>>
    BY <1>3 DEF Edit, OneSeeder, ConfigInv, ConfigTypeOK, ConfigParts
  <2>2. \A v \in Writers : \A u \in Updates : u = op[v] => FileKept(u, v)'
    BY <1>0, <2>1, NoOtherRead DEF ConfigParts
  <2>3. (\A v \in Writers : FileKept(op[v], v))'
    BY <1>0, <2>1, <2>2 DEF FileKept
  <2>4. ConfigTypeOK'
    BY <2>1 DEF ConfigInv, ConfigTypeOK, ConfigParts
  <2>5. SeedKept' /\ HandlersUp' /\ SettingsStay'
    BY <2>1 DEF ConfigInv, SeedKept, HandlersUp, SettingsStay, ConfigParts
  <2>6. edits' # edits
    BY <1>0, <2>1
  <2> QED BY <2>3, <2>4, <2>5, <2>6 DEF ConfigInv
<1>4. CASE Stop
  <2>1. /\ live # NoFile /\ live' = NoFile
        /\ op' = [v \in Writers |-> IF v \in Handlers THEN Resting ELSE op[v]]
        /\ config_lock' = IF config_lock \in Handlers THEN Nobody ELSE config_lock
        /\ UNCHANGED <<config_json, copy, seeding, committed, reported, edits, updates>>
    BY <1>4 DEF Stop
  <2>2. op' \in [Writers -> Updates] /\ Resting.step = "idle"
    BY <1>0, <2>1 DEF Resting
  <2>3. \A v \in Writers : \A u \in Updates : u = op'[v] => FileKept(u, v)'
    <3> SUFFICES ASSUME NEW v \in Writers, NEW u \in Updates, u = op'[v] PROVE FileKept(u, v)'
      OBVIOUS
    <3>1. CASE v \in Handlers
      BY <2>1, <2>2, <3>1 DEF FileKept
    <3>2. CASE v \notin Handlers
      <4>1. u = op[v] /\ FileKept(u, v)
        BY <1>0, <2>1, <3>2
      <4> QED BY <2>1, <3>2, <4>1, ReadsStand
    <3> QED BY <3>1, <3>2
  <2>4. (\A v \in Writers : FileKept(op[v], v))'
    BY <2>2, <2>3 DEF FileKept
  <2>5. ConfigTypeOK'
    BY <2>1, <2>2 DEF ConfigInv, ConfigTypeOK, Updates
  <2>6. SeedKept' /\ HandlersUp' /\ SettingsStay'
    BY <2>1, <2>2 DEF ConfigInv, SeedKept, HandlersUp, SettingsStay, Writers
  <2> QED BY <2>1, <2>4, <2>5, <2>6 DEF ConfigInv
<1> QED BY <1>1, <1>2, <1>3, <1>4

LEMMA ConfigKeeps ==
  ASSUME ConfigParts, OneSeeder, ConfigInv, [ConfigNext]_configVars
  PROVE  ConfigInv' /\ (config_json \in Breaks /\ config_json' # config_json => edits' # edits)
<1>1. ASSUME NEW w \in Writers, Update(w)
      PROVE  ConfigInv' /\ (config_json \in Breaks => config_json' = config_json)
  <2>1. CASE Writes(w)
    BY <2>1, ConfigWrites DEF ConfigParts
  <2>2. CASE ~Writes(w)
    BY <1>1, <2>2, ConfigStarts, ConfigReads, ConfigRefuses DEF Update
  <2> QED BY <2>1, <2>2
<1>2. CASE UNCHANGED configVars
  <2>1. ConfigTypeOK' /\ SettingsStay' /\ SeedKept' /\ HandlersUp'
    BY <1>2 DEF configVars, ConfigInv, ConfigTypeOK, SettingsStay, SeedKept, HandlersUp
  <2>2. \A v \in Writers : \A u \in Updates : FileKept(u, v) => FileKept(u, v)'
    BY <1>2, ReadsStand DEF configVars
  <2>3. (\A v \in Writers : FileKept(op[v], v))'
    BY <1>2, <2>2 DEF ConfigInv, ConfigTypeOK, configVars, Updates, FileKept
  <2> QED BY <1>2, <2>1, <2>3 DEF ConfigInv, configVars
<1> QED BY <1>1, <1>2, ConfigLoads DEF ConfigNext

LEMMA ConfigBegins ==
  ASSUME ConfigParts, OneSeeder, ConfigInit
  PROVE  ConfigInv
<1>1. Stock \in Configs /\ Resting \in Updates /\ Resting.step = "idle" /\ AsRead \in Configs
  BY ReadIsConfig DEF Resting
<1>2. ConfigTypeOK
  BY <1>1 DEF ConfigInit, ConfigTypeOK, ConfigParts, Updates
<1>3. \A w \in Writers : FileKept(op[w], w)
  BY <1>1 DEF ConfigInit, FileKept
<1>4. HandlersUp
  BY <1>1 DEF ConfigInit, HandlersUp, Writers
<1>5. SettingsStay /\ SeedKept
  BY DEF ConfigInit, SettingsStay, SeedKept, AsRead, OneSeeder, ConfigParts
<1> QED BY <1>2, <1>3, <1>4, <1>5 DEF ConfigInv

\* For any number of threads and commands, and whatever each may write, as long as nobody edits the
\* file within the milliseconds of an update: a readable file holds of every setting what the writes
\* amount to one after the other, and nothing but its editor replaces a file that does not parse.
\* The third condition is the first start: where commands run, the file has been there before
\* (ConfigStore.update, load_config).
THEOREM WritesAddUp ==
  ASSUME OneSeeder
  PROVE  ConfigSpec => []SettingsStay /\ BrokenStays
<1>1. ConfigInit => ConfigInv
  BY ConfigParts, ConfigBegins
<1>2. ConfigInv /\ [ConfigNext]_configVars => ConfigInv'
  BY ConfigParts, ConfigKeeps
<1>3. ConfigInv /\ [ConfigNext]_configVars
        => [(config_json \in Breaks /\ config_json' # config_json) => edits' # edits]_configVars
  BY ConfigParts, ConfigKeeps
<1>4. ConfigInv => SettingsStay
  BY DEF ConfigInv
<1> QED BY <1>1, <1>2, <1>3, <1>4, PTL DEF ConfigSpec, BrokenStays

\* Two threads never save the same setting, and no other process writes.
SettingsApart == Commands = {} /\ \A g, h \in Handlers : g # h => Touched(g) \cap Touched(h) = {}

\* What the service runs on differs from the file where a handler is about to bring it into step,
\* and in nothing else.
Mirroring(f) == \E h \in Handlers : op[h].step = "mirror" /\ SettingOf(op[h].kind) = f
InStep == live # NoFile /\ config_json \in Configs /\ edits = 0
LiveInv ==
    /\ op[Service].step # "idle" => live = NoFile
    /\ InStep => /\ \A f \in Settings : Value(live, f) = Value(config_json, f) \/ Mirroring(f)
                 /\ \A h \in Handlers : op[h].step = "mirror" =>
                      Value(op[h].to, SettingOf(op[h].kind)) = Value(config_json, SettingOf(op[h].kind))

LEMMA LiveAlone ==
  ASSUME ConfigParts, ConfigInv, LiveInv, NEW w \in Writers, NEW o \in Updates,
         op' = [op EXCEPT ![w] = o], UNCHANGED <<live, config_json, edits>>,
         op[w].step # "mirror", o.step # "mirror",
         op[w].step # "idle" \/ o.step = "idle" \/ (w = Service => live = NoFile)
  PROVE  LiveInv'
<1>1. op \in [Writers -> Updates] /\ Service \in Writers /\ Handlers \subseteq Writers
  BY DEF ConfigInv, ConfigTypeOK, Updates, Writers, Loaders
<1>2. (op[Service].step # "idle" => live = NoFile)'
  BY <1>1 DEF LiveInv
<1>3. \A h \in Handlers : (op[h].step = "mirror" \/ op'[h].step = "mirror") => op'[h] = op[h]
  BY <1>1
<1>4. \A f \in Settings : Mirroring(f) => Mirroring(f)'
  BY <1>3 DEF Mirroring
<1>5. InStep' => InStep /\ \A f \in Settings : Value(live, f)' = Value(live, f) /\ Value(config_json, f)' = Value(config_json, f)
  BY DEF InStep, Value
<1>6. ASSUME InStep'
      PROVE  /\ \A f \in Settings : Value(live', f) = Value(config_json', f) \/ Mirroring(f)'
             /\ \A h \in Handlers : op'[h].step = "mirror" =>
                  Value(op'[h].to, SettingOf(op'[h].kind)) = Value(config_json', SettingOf(op'[h].kind))
  BY <1>3, <1>4, <1>5, <1>6 DEF LiveInv
<1> QED BY <1>2, <1>6 DEF LiveInv, Value, SettingOf

LEMMA LiveWrites ==
  ASSUME ConfigParts, OneSeeder, SettingsApart, ConfigInv, LiveInv, NEW w \in Writers, Writes(w)
  PROVE  LiveInv'
<1>1. /\ op \in [Writers -> Updates] /\ op[w] \in Updates /\ FileKept(op[w], w) /\ op[w].step = "checked"
      /\ Service \in Writers /\ Handlers \subseteq Writers /\ Service \notin Handlers
      /\ Resting \in Updates /\ Resting.step = "idle" /\ w \in Handlers \cup {Service}
  BY ReadIsConfig DEF ConfigInv, ConfigTypeOK, Updates, Writes, Writers, Loaders, ConfigParts, Resting, SettingsApart
<1>2. /\ config_json \in Configs /\ config_json' = op[w].to /\ config_json' \in Configs
      /\ config_json' = Applied(op[w].kind, op[w].to, config_json)
  BY <1>1, ConfigWrites DEF Updates
<1>3. live' = (IF w = Service THEN op[w].to ELSE live) /\ edits' = edits
  BY DEF Writes
<1>4. CASE w = Service
  <2>1. op' = [op EXCEPT ![w] = Resting] /\ live' = config_json'
    BY <1>1, <1>2, <1>3, <1>4 DEF Writes
  <2>2. \A h \in Handlers : op'[h].step # "mirror"
    BY <1>1, <1>4, <2>1 DEF LiveInv, ConfigInv, HandlersUp
  <2>3. op'[Service].step = "idle"
    BY <1>1, <1>4, <2>1
  <2> QED BY <2>1, <2>2, <2>3 DEF LiveInv, Value
<1>5. CASE w \in Handlers
  <2> DEFINE f0 == SettingOf(op[w].kind)
             mirror == [op[w] EXCEPT !.step = "mirror"]
  <2>0. op'[Service] = op[Service] /\ live' = live
    BY <1>1, <1>3, <1>5 DEF Writes
  <2>1. (op[Service].step # "idle" => live = NoFile)'
    BY <2>0 DEF LiveInv
  <2>2. CASE Changes(w)
    <3>1. /\ mirror \in Updates /\ mirror.step = "mirror" /\ mirror.kind = op[w].kind /\ mirror.to = op[w].to
      BY <1>1 DEF Updates
    <3>2. op' = [op EXCEPT ![w] = mirror]
      BY <1>5, <2>2 DEF Writes
    <3> HIDE DEF mirror
    <3>3. op'[w] = mirror /\ \A h \in Handlers \ {w} : op'[h] = op[h]
      BY <1>1, <3>2
    <3>4. \A f \in Settings \ {f0} : Value(config_json', f) = Value(config_json, f)
      BY <1>1, <1>2, AppliedValues DEF Updates
    <3>5. \A h \in Handlers \ {w} : op[h].step = "mirror" => SettingOf(op[h].kind) \in Settings \ {f0}
      <4> SUFFICES ASSUME NEW h \in Handlers \ {w}, op[h].step = "mirror"
                   PROVE  SettingOf(op[h].kind) \in Settings \ {f0}
        OBVIOUS
      <4>1. op[h].kind \in Does[h] /\ op[w].kind \in Does[w]
        BY <1>1 DEF FileKept, ConfigInv
      <4>2. SettingOf(op[h].kind) \in Touched(h) /\ f0 \in Touched(w)
        BY <4>1 DEF Touched
      <4> QED BY <1>5, <4>2 DEF SettingsApart, Settings, SettingOf
    <3>6. ASSUME InStep'
          PROVE  /\ \A f \in Settings : Value(live', f) = Value(config_json', f) \/ Mirroring(f)'
                 /\ \A h \in Handlers : op'[h].step = "mirror" =>
                      Value(op'[h].to, SettingOf(op'[h].kind)) = Value(config_json', SettingOf(op'[h].kind))
      <4>1. InStep
        BY <1>2, <1>3, <2>0, <3>6 DEF InStep
      <4>2. \A f \in Settings \ {f0} : Mirroring(f) => Mirroring(f)'
        BY <1>1, <3>3 DEF Mirroring
      <4>3. \A f \in Settings : f = f0 => Mirroring(f)'
        BY <1>5, <3>1, <3>3 DEF Mirroring
      <4>4. \A f \in Settings : Value(live', f) = Value(config_json', f) \/ Mirroring(f)'
        BY <2>0, <3>4, <4>1, <4>2, <4>3 DEF LiveInv
      <4>5. \A h \in Handlers \ {w} : op'[h].step = "mirror" =>
              Value(op'[h].to, SettingOf(op'[h].kind)) = Value(config_json', SettingOf(op'[h].kind))
        BY <3>3, <3>4, <3>5, <4>1 DEF LiveInv
      <4>6. op'[w].to = config_json'
        BY <1>2, <3>1, <3>3
      <4> QED BY <4>4, <4>5, <4>6
    <3> QED BY <2>1, <3>6 DEF LiveInv, Value, SettingOf
  <2>3. CASE ~Changes(w)
    <3>1. op[w].kind = "prune" /\ op[w].base.order \cap Gone = {} /\ op[w].base = config_json
      BY <1>1, <1>2, <2>3 DEF Changes, FileKept, AsRead
    <3>2. config_json' = [config_json EXCEPT !.order = config_json.order \ Gone]
      BY <1>2, <3>1 DEF Applied
    <3>5. config_json.order \ Gone = config_json.order
      BY <3>1
    <3>3. config_json' = config_json
      BY <1>2, <3>2, <3>5 DEF Configs
    <3>4. op' = [op EXCEPT ![w] = Resting]
      BY <2>3 DEF Writes
    <3> QED BY <1>1, <1>3, <2>0, <3>3, <3>4, LiveAlone
  <2> QED BY <2>2, <2>3
<1> QED BY <1>1, <1>4, <1>5

LEMMA LiveMirrors ==
  ASSUME ConfigParts, OneSeeder, SettingsApart, ConfigInv, LiveInv, NEW w \in Writers, Mirrors(w)
  PROVE  LiveInv'
<1>1. /\ op \in [Writers -> Updates] /\ op[w] \in Updates /\ FileKept(op[w], w) /\ op[w].step = "mirror"
      /\ Service \in Writers /\ Handlers \subseteq Writers /\ Service \notin Handlers
      /\ Resting \in Updates /\ Resting.step = "idle"
  BY ReadIsConfig DEF ConfigInv, ConfigTypeOK, Updates, Mirrors, Writers, Loaders, ConfigParts, Resting
<1>2. w \in Handlers /\ live \in Configs /\ live # NoFile
  BY <1>1 DEF FileKept, ConfigInv, HandlersUp, ConfigTypeOK
<1>3. /\ op' = [op EXCEPT ![w] = Resting] /\ live' = Set(live, op[w].kind, op[w].to)
      /\ UNCHANGED <<config_json, edits>>
  BY DEF Mirrors, Mirrored
<1>4. op'[w].step = "idle" /\ \A v \in Writers \ {w} : op'[v] = op[v]
  BY <1>1, <1>3
<1>5. (op[Service].step # "idle" => live = NoFile)'
  BY <1>1, <1>2, <1>4 DEF LiveInv
<1> DEFINE f0 == SettingOf(op[w].kind)
<1>6. \A f \in Settings : Value(live', f) = IF f = f0 THEN Value(op[w].to, f) ELSE Value(live, f)
  BY <1>1, <1>2, <1>3, SetValues DEF Updates
<1>7. ASSUME InStep'
      PROVE  /\ \A f \in Settings : Value(live', f) = Value(config_json', f) \/ Mirroring(f)'
             /\ \A h \in Handlers : op'[h].step = "mirror" =>
                  Value(op'[h].to, SettingOf(op'[h].kind)) = Value(config_json', SettingOf(op'[h].kind))
  <2>1. InStep
    BY <1>2, <1>3, <1>7 DEF InStep
  <2>2. \A f \in Settings \ {f0} : Mirroring(f) => Mirroring(f)'
    BY <1>1, <1>4 DEF Mirroring
  <2>3. Value(op[w].to, f0) = Value(config_json, f0)
    BY <1>1, <1>2, <2>1 DEF LiveInv
  <2>4. \A f \in Settings : Value(live', f) = Value(config_json', f) \/ Mirroring(f)'
    BY <1>3, <1>6, <2>1, <2>2, <2>3 DEF LiveInv
  <2>5. \A h \in Handlers : op'[h].step = "mirror" => op'[h] = op[h]
    BY <1>1, <1>4
  <2> QED BY <1>3, <2>1, <2>4, <2>5 DEF LiveInv
<1> QED BY <1>5, <1>7 DEF LiveInv, Value, SettingOf

LEMMA LiveKeeps ==
  ASSUME ConfigParts, OneSeeder, SettingsApart, ConfigInv, LiveInv, [ConfigNext]_configVars
  PROVE  LiveInv'
<1>0. /\ op \in [Writers -> Updates] /\ Resting \in Updates /\ Resting.step = "idle" /\ edits \in Nat
      /\ Stock \in Configs /\ Service \in Writers /\ Handlers \subseteq Writers /\ Service \notin Handlers
  BY ReadIsConfig DEF ConfigInv, ConfigTypeOK, Updates, Writers, Loaders, ConfigParts, Resting
<1>1. ASSUME NEW w \in Writers, NEW kind \in Kinds, NEW to \in Configs, StartUpdate(w, kind, to)
      PROVE  LiveInv'
  <2> DEFINE waits == [step |-> "wait", kind |-> kind, to |-> to, base |-> AsRead]
  <2>1. waits \in Updates /\ waits.step = "wait"
    BY ReadIsConfig DEF Updates
  <2>2. /\ op' = [op EXCEPT ![w] = waits] /\ UNCHANGED <<live, config_json, edits>>
        /\ op[w].step = "idle" /\ (w = Service => live = NoFile)
    BY <1>1 DEF StartUpdate
  <2> HIDE DEF waits
  <2>3. PICK o \in Updates : o = waits
    BY <2>1
  <2> QED BY <2>1, <2>2, <2>3, LiveAlone
<1>2. ASSUME NEW w \in Writers, Read(w) \/ Refuses(w) \/ Checks(w) PROVE LiveInv'
  <2>1. op[w] \in Updates /\ op[w].step \in {"wait", "read"} /\ UNCHANGED <<live, config_json, edits>>
    BY <1>0, <1>2 DEF Read, Refuses, Checks
  <2>2. PICK o \in Updates : op' = [op EXCEPT ![w] = o] /\ o.step # "mirror"
    <3>1. CASE Read(w)
      <4> DEFINE to == Mutated(w, AsRead)
                 reads == [step |-> "read", kind |-> op[w].kind, to |-> to, base |-> AsRead]
      <4>1. op' = [op EXCEPT ![w] = reads]
        BY <3>1 DEF Read
      <4>2. to \in Configs
        BY <2>1, MutatedIsApplied, AppliedValues, ReadIsConfig DEF Updates
      <4> HIDE DEF to
      <4>3. reads \in Updates /\ reads.step = "read"
        BY <2>1, <4>2, ReadIsConfig DEF Updates
      <4> HIDE DEF reads
      <4> QED BY <4>1, <4>3
    <3>2. CASE Refuses(w)
      BY <1>0, <3>2 DEF Refuses
    <3>3. CASE Checks(w)
      <4> DEFINE checked == [op[w] EXCEPT !.step = "checked"]
      <4>1. op' = [op EXCEPT ![w] = checked]
        BY <3>3 DEF Checks
      <4>2. checked \in Updates /\ checked.step = "checked"
        BY <2>1 DEF Updates
      <4> HIDE DEF checked
      <4> QED BY <4>1, <4>2
    <3> QED BY <1>2, <3>1, <3>2, <3>3
  <2> QED BY <2>1, <2>2, LiveAlone
<1>3. ASSUME NEW l \in Loaders, Load(l) PROVE LiveInv'
  <2>1. l = Service /\ live = NoFile /\ op[Service].step = "idle" /\ UNCHANGED <<config_json, op, edits>>
    BY <1>3 DEF Load, Loaders, SettingsApart
  <2>2. \A h \in Handlers : op'[h].step # "mirror"
    BY <2>1 DEF ConfigInv, HandlersUp
  <2>3. InStep' => live' = config_json'
    BY <1>3, <2>1 DEF Load, Serves, InStep, ConfigParts
  <2> QED BY <2>1, <2>2, <2>3 DEF LiveInv, Value
<1>4. ASSUME NEW l \in Loaders, Seeds(l) PROVE LiveInv'
  <2>1. l = Service /\ config_json = NoFile
    BY <1>4 DEF Seeds, Loaders, SettingsApart, ConfigInv, SeedKept
  <2>2. live' = config_json' /\ op' = op
    BY <1>4, <2>1 DEF Seeds, Serves
  <2>3. \A w \in Writers : op[w].step = "idle"
    BY <2>1 DEF ConfigInv, FileKept
  <2> QED BY <1>0, <2>2, <2>3 DEF LiveInv, Value
<1>5. CASE Edit
  <2>1. edits' # 0 /\ UNCHANGED <<live, op>>
    BY <1>0, <1>5 DEF Edit
  <2> QED BY <2>1 DEF LiveInv, InStep
<1>6. CASE Stop
  BY <1>6 DEF Stop, LiveInv, InStep
<1>7. CASE UNCHANGED configVars
  BY <1>7 DEF configVars, LiveInv, InStep, Mirroring, Value, SettingOf
<1> QED BY <1>1, <1>2, <1>3, <1>4, <1>5, <1>6, <1>7, LiveWrites, LiveMirrors DEF ConfigNext, Update

LEMMA LiveFollows ==
  ASSUME ConfigInv, LiveInv
  PROVE  LiveInStep
<1> SUFFICES ASSUME live # NoFile, config_json \in Configs, edits = 0, \A w \in Writers : op[w].step = "idle"
             PROVE  live = config_json
  BY DEF LiveInStep
<1>1. live \in Configs /\ Handlers \subseteq Writers
  BY DEF ConfigInv, ConfigTypeOK, Writers
<1>2. \A f \in Settings : Value(live, f) = Value(config_json, f)
  BY <1>1 DEF LiveInv, InStep, Mirroring
<1> QED BY <1>1, <1>2, SameValues

\* For any number of threads that save settings of their own, and whatever the file is when the
\* service first starts: what they save stays, the service runs on it when they are done, and a
\* file that does not parse is its editor's (ConfigStore.update, the admin saves of router.py).
THEOREM SavesTakeEffect ==
  ASSUME EditorWaits, SettingsApart
  PROVE  ConfigSpec => SavesStay
<1>0. OneSeeder
  BY DEF OneSeeder, SettingsApart
<1>1. ConfigInit => ConfigInv /\ LiveInv
  <2>1. ASSUME ConfigInit PROVE LiveInv
    BY <2>1 DEF ConfigInit, LiveInv, InStep, Resting, Writers, Loaders
  <2> QED BY <1>0, <2>1, ConfigParts, ConfigBegins
<1>2. ConfigInv /\ LiveInv /\ [ConfigNext]_configVars => (ConfigInv /\ LiveInv)'
  BY <1>0, ConfigParts, ConfigKeeps, LiveKeeps
<1>3. ConfigInv /\ LiveInv => SettingsStay /\ LiveInStep
  BY LiveFollows DEF ConfigInv
<1>4. ConfigSpec => BrokenStays
  BY <1>0, WritesAddUp
<1> QED BY <1>1, <1>2, <1>3, <1>4, PTL DEF ConfigSpec, SavesStay

------------------------------------------------------------------------------
(* CatalogPublish.                                                         *)

Jobs == [step : Steps, on : [Sources -> BOOLEAN], previous : Catalogs, old : Gens, class : [Sources -> Classes],
         asked : Keys, next : Catalogs, before : Pendings, pending : Pendings]
Ledgers == [pending : Pendings, counts : Gens, previous : Gens]

\* The other workers stand still.
OthersRest(w) == \A v \in Workers \ {w} : job'[v] = job[v]

LEMMA Blank ==
  ASSUME Parts
  PROVE  /\ NoCatalog \in Catalogs /\ NoState \in Ledgers /\ Idle \in Jobs /\ 0 \in Gens
         /\ Idle.step = "idle" /\ Idle.previous = NoCatalog /\ Idle.next = NoCatalog /\ NoCatalog.gen = 0
         /\ NoState.counts = 0 /\ NoState.pending \in Pendings /\ \A s \in Sources : NoState.pending[s] = 0
         /\ \A s \in Sources : NoCatalog.rows[s] = NoRows
<1>1. 0 \in Gens
  BY DEF Parts, Gens
<1>2. NoCatalog \in Catalogs /\ NoCatalog.gen = 0 /\ \A s \in Sources : NoCatalog.rows[s] = NoRows
  BY <1>1 DEF NoCatalog, Catalogs, Rows
<1>3. NoState \in Ledgers /\ NoState.pending \in Pendings /\ NoState.counts = 0 /\ \A s \in Sources : NoState.pending[s] = 0
  BY <1>1 DEF NoState, Ledgers, Pendings
<1>4. /\ [s \in Sources |-> TRUE] \in [Sources -> BOOLEAN] /\ [s \in Sources |-> "disabled"] \in [Sources -> Classes]
      /\ [s \in Sources |-> NoKey] \in Keys
  BY DEF Classes, Keys
<1>5. Idle \in Jobs /\ Idle.step = "idle" /\ Idle.previous = NoCatalog /\ Idle.next = NoCatalog
  BY <1>1, <1>2, <1>3, <1>4 DEF Idle, Jobs, Steps
<1> QED BY <1>1, <1>2, <1>3, <1>5

\* What the type invariant says of the jobs, and of a step that moves one of them.
LEMMA JobTyped ==
  ASSUME PublishTypeOK, NEW w \in Workers
  PROVE  job \in [Workers -> Jobs] /\ job[w] \in Jobs /\ (job[w].step = "writing" <=> lock = w)
BY DEF PublishTypeOK, Jobs

LEMMA JobMoves ==
  ASSUME PublishTypeOK, NEW w \in Workers, NEW x \in Jobs, job' = [job EXCEPT ![w] = x]
  PROVE  job' \in [Workers -> Jobs] /\ job'[w] = x /\ OthersRest(w)
BY JobTyped DEF OthersRest

\* A step that moves w's job and takes no lock.
LEMMA JobMovesTyped ==
  ASSUME PublishTypeOK, NEW w \in Workers, job' \in [Workers -> Jobs], OthersRest(w),
         UNCHANGED <<config, file, lock, emptied, replaced, crashes>>,
         state' \in Ledgers, builds' \in 0..MaxBuilds,
         job[w].step # "writing", job'[w].step # "writing"
  PROVE  PublishTypeOK'
<1>1. \A v \in Workers : job'[v].step = "writing" <=> lock = v
  BY JobTyped DEF OthersRest
<1> QED BY <1>1 DEF PublishTypeOK, Jobs, Ledgers, config

LEMMA Kept ==
  ASSUME PublishTypeOK
  PROVE  state \in Ledgers /\ builds \in 0..MaxBuilds /\ file \in Catalogs /\ keys \in Keys
         /\ enabled \in [Sources -> BOOLEAN] /\ entitled \in BOOLEAN /\ replaced \in [Gens -> Gens]
BY DEF PublishTypeOK, Ledgers

LEMMA InvokableTyped ==
  ASSUME NEW rows \in Rows, NEW on
  PROVE  Invokable(rows, on) \in Rows
BY DEF Invokable, Rows

LEMMA RefreshStarts ==
  ASSUME Parts, PublishTypeOK, NEW w \in Workers, job[w].step = "idle", StartRefresh(w)
  PROVE  /\ PublishTypeOK' /\ OthersRest(w) /\ w \in Refreshers
         /\ job'[w].step = "fetching" /\ job'[w].on = enabled /\ job'[w].previous = file
<1> DEFINE next == [NoCatalog EXCEPT !.variant = entitled]
           started == [Idle EXCEPT !.step = "fetching", !.on = enabled, !.previous = file, !.next = next]
<1>1. next \in Catalogs
  BY Blank, Kept DEF Catalogs
<1> HIDE DEF next
<1>2. started \in Jobs /\ started.step = "fetching" /\ started.on = enabled /\ started.previous = file
  BY <1>1, Blank, Kept DEF Jobs, Steps
<1>3. job' = [job EXCEPT ![w] = started] /\ w \in Refreshers
      /\ UNCHANGED <<config, file, state, lock, emptied, replaced, builds, crashes>>
  BY DEF StartRefresh, next
<1> HIDE DEF started
<1>4. job' \in [Workers -> Jobs] /\ job'[w] = started /\ OthersRest(w)
  BY <1>2, <1>3, JobTyped DEF OthersRest
<1>5. PublishTypeOK'
  BY <1>2, <1>3, <1>4, JobMovesTyped, Kept
<1> QED BY <1>2, <1>3, <1>4, <1>5

LEMMA LicenceStarts ==
  ASSUME Parts, PublishTypeOK, NEW w \in Workers, job[w].step = "idle", StartLicence(w)
  PROVE  /\ PublishTypeOK' /\ OthersRest(w) /\ w = Licence
         /\ job'[w].step = "fetching" /\ job'[w].on = enabled /\ job'[w].previous.gen = file.gen
         /\ job'[w].previous.rows = Invokable(file.rows, enabled)
<1> DEFINE next == [NoCatalog EXCEPT !.variant = entitled]
           read == [file EXCEPT !.rows = Invokable(file.rows, enabled)]
           started == [Idle EXCEPT !.step = "fetching", !.on = enabled, !.previous = read, !.next = next]
<1>1. next \in Catalogs
  BY Blank, Kept DEF Catalogs
<1>6. read \in Catalogs /\ read.gen = file.gen /\ read.rows = Invokable(file.rows, enabled)
  <2>1. Invokable(file.rows, enabled) \in Rows
    BY Kept, InvokableTyped DEF Catalogs
  <2> QED BY <2>1, Kept DEF Catalogs
<1> HIDE DEF next, read
<1>2. started \in Jobs /\ started.step = "fetching" /\ started.on = enabled /\ started.previous = read
  BY <1>1, <1>6, Blank, Kept DEF Jobs, Steps
<1>3. job' = [job EXCEPT ![w] = started] /\ w = Licence
      /\ UNCHANGED <<config, file, state, lock, emptied, replaced, builds, crashes>>
  BY DEF StartLicence, next, read
<1> HIDE DEF started
<1>4. job' \in [Workers -> Jobs] /\ job'[w] = started /\ OthersRest(w)
  BY <1>2, <1>3, JobTyped DEF OthersRest
<1>5. PublishTypeOK'
  BY <1>2, <1>3, <1>4, JobMovesTyped, Kept
<1> QED BY <1>2, <1>3, <1>4, <1>5, <1>6

\* The fields of a job that a step leaves alone.
LEMMA BuildEnds ==
  ASSUME Parts, PublishTypeOK, NEW w \in Workers, Fetch(w)
  PROVE  /\ PublishTypeOK' /\ OthersRest(w) /\ builds' = builds + 1
         /\ job[w].step = "fetching" /\ job'[w].step = "built"
         /\ job'[w].on = job[w].on /\ job'[w].previous = job[w].previous
         /\ job'[w].asked = keys /\ job'[w].next.gen = builds + 1
         /\ job'[w].class \in Answers(job[w].on) /\ job'[w].next.rows \in Accepted(job'[w].class)
<1>0. PICK class \in Answers(job[w].on) : \E fresh \in Accepted(class) :
        job' = [job EXCEPT ![w] = [job[w] EXCEPT !.step = "built", !.class = class, !.asked = keys,
                                                 !.next = [job[w].next EXCEPT !.gen = builds + 1,
                                                                              !.rows = fresh]]]
  BY DEF Fetch
<1>1. PICK fresh \in Accepted(class) :
        job' = [job EXCEPT ![w] = [job[w] EXCEPT !.step = "built", !.class = class, !.asked = keys,
                                                 !.next = [job[w].next EXCEPT !.gen = builds + 1,
                                                                              !.rows = fresh]]]
  BY <1>0
<1> DEFINE next == [job[w].next EXCEPT !.gen = builds + 1, !.rows = fresh]
           built == [job[w] EXCEPT !.step = "built", !.class = class, !.asked = keys, !.next = next]
<1>2. job' = [job EXCEPT ![w] = built]
  BY <1>1, JobTyped
<1>3. /\ job[w].step = "fetching" /\ builds < MaxBuilds /\ builds' = builds + 1
      /\ UNCHANGED <<config, file, state, lock, emptied, replaced, crashes>>
  BY DEF Fetch
<1>4. builds + 1 \in Gens /\ builds + 1 \in 0..MaxBuilds /\ class \in [Sources -> Classes] /\ fresh \in Rows
  BY <1>3, Kept DEF Gens, Answers, Accepted, Parts
<1>5. next \in Catalogs /\ next.gen = builds + 1 /\ next.rows = fresh
  BY <1>4, JobTyped DEF Jobs, Catalogs
<1> HIDE DEF next
<1>6. /\ built \in Jobs /\ built.step = "built" /\ built.class = class /\ built.asked = keys /\ built.next = next
      /\ built.on = job[w].on /\ built.previous = job[w].previous
  BY <1>4, <1>5, JobTyped, Kept DEF Jobs, Steps
<1> HIDE DEF built
<1>7. job' \in [Workers -> Jobs] /\ job'[w] = built /\ OthersRest(w)
  BY <1>2, <1>6, JobTyped DEF OthersRest
<1>8. PublishTypeOK'
  BY <1>3, <1>4, <1>6, <1>7, JobMovesTyped, Kept
<1> QED BY <1>0, <1>1, <1>3, <1>5, <1>6, <1>7, <1>8

\* The decision of a refresh, in the terms of decide_catalog_publish.
LEMMA Decides ==
  ASSUME Parts, PublishTypeOK, NEW w \in Workers, Decide(w),
         NEW cached, cached = Baseline(job[w].previous, keys)
  PROVE  /\ PublishTypeOK' /\ OthersRest(w) /\ w \in Refreshers /\ cached \in Rows
         /\ job[w].step = "built"
         /\ job'[w].step = IF RejectedEmpty(job[w].class, cached, state.pending, job[w].next.gen, job[w].on,
                                            job[w].next.rows)
                           THEN "storing" ELSE "decided"
         /\ job'[w].on = job[w].on /\ job'[w].previous = job[w].previous /\ job'[w].class = job[w].class
         /\ job'[w].asked = job[w].asked /\ job'[w].before = state.pending
         /\ job'[w].pending = Ledger(job[w].class, cached, state.pending, job[w].next.gen)
         /\ job'[w].next.gen = job[w].next.gen /\ job'[w].next.ids = keys
         /\ job'[w].next.rows = Merged(job[w].class, cached, state.pending, job[w].next.gen, job[w].on,
                                       job[w].next.rows)
<1> DEFINE j == job[w]
           gen == j.next.gen
           merged == Merged(j.class, cached, state.pending, gen, j.on, j.next.rows)
           ledger == Ledger(j.class, cached, state.pending, gen)
           next == [j.next EXCEPT !.ids = keys, !.rows = merged]
           step == IF RejectedEmpty(j.class, cached, state.pending, gen, j.on, j.next.rows)
                   THEN "storing" ELSE "decided"
           chosen == [j EXCEPT !.step = step, !.before = state.pending, !.pending = ledger, !.next = next]
<1>0. j \in Jobs /\ j.next \in Catalogs /\ j.next.rows \in Rows /\ gen \in Gens /\ 0 \in Gens
  BY JobTyped, Blank DEF Jobs, Catalogs
<1>1. cached \in Rows
  BY <1>0 DEF Baseline, Rows, Jobs, Catalogs
<1>2. merged \in Rows
  BY <1>0, <1>1 DEF Merged, Rows
<1>3. ledger \in Pendings /\ state.pending \in Pendings
  BY <1>0, Kept DEF Ledger, Pendings, Ledgers
<1>4. /\ job' = [job EXCEPT ![w] = chosen] /\ w \in Refreshers /\ j.step = "built"
      /\ UNCHANGED <<config, file, state, lock, emptied, replaced, builds, crashes>>
  BY DEF Decide
<1> HIDE DEF merged, ledger
<1>5. next \in Catalogs /\ next.gen = gen /\ next.ids = keys /\ next.rows = merged
  BY <1>0, <1>2, Kept DEF Catalogs
<1>6. step \in Steps /\ step # "writing"
  BY DEF Steps
<1> HIDE DEF next, step
<1>7. /\ chosen \in Jobs /\ chosen.step = step /\ chosen.before = state.pending /\ chosen.pending = ledger
      /\ chosen.next = next /\ chosen.on = j.on /\ chosen.previous = j.previous /\ chosen.class = j.class
      /\ chosen.asked = j.asked
  BY <1>0, <1>3, <1>5, <1>6 DEF Jobs
<1> HIDE DEF chosen
<1>8. job' \in [Workers -> Jobs] /\ job'[w] = chosen /\ OthersRest(w)
  BY <1>4, <1>7, JobTyped DEF OthersRest
<1>9. PublishTypeOK'
  BY <1>4, <1>6, <1>7, <1>8, JobMovesTyped, Kept
<1> QED BY <1>1, <1>4, <1>5, <1>7, <1>8, <1>9 DEF step, merged, ledger

LEMMA LicenceDecides ==
  ASSUME Parts, PublishTypeOK, NEW w \in Workers, DecideLicence(w)
  PROVE  /\ PublishTypeOK' /\ OthersRest(w) /\ w = Licence
         /\ job[w].step = "built" /\ job'[w].step = "decided"
         /\ job'[w].on = job[w].on /\ job'[w].previous = job[w].previous /\ job'[w].class = job[w].class
         /\ job'[w].asked = job[w].asked /\ job'[w].next.gen = job[w].next.gen
         /\ job'[w].next.rows = LicenceMerged(job[w].class, job[w].previous.rows, job[w].on, job[w].next.rows)
<1> DEFINE j == job[w]
           rows == LicenceMerged(j.class, j.previous.rows, j.on, j.next.rows)
           next == [j.next EXCEPT !.rows = rows]
           chosen == [j EXCEPT !.step = "decided", !.next = next]
<1>0. j \in Jobs /\ j.next \in Catalogs /\ j.next.rows \in Rows /\ j.previous.rows \in Rows
  BY JobTyped DEF Jobs, Catalogs
<1>1. rows \in Rows
  <2>1. Invokable(j.previous.rows, j.on) \in Rows
    BY <1>0, InvokableTyped
  <2> QED BY <1>0, <2>1 DEF LicenceMerged, Rows
<1>2. /\ job' = [job EXCEPT ![w] = chosen] /\ w = Licence /\ j.step = "built"
      /\ UNCHANGED <<config, file, state, lock, emptied, replaced, builds, crashes>>
  BY DEF DecideLicence
<1> HIDE DEF rows
<1>3. next \in Catalogs /\ next.gen = j.next.gen /\ next.rows = rows
  BY <1>0, <1>1 DEF Catalogs
<1> HIDE DEF next
<1>4. /\ chosen \in Jobs /\ chosen.step = "decided" /\ chosen.next = next /\ chosen.on = j.on
      /\ chosen.previous = j.previous /\ chosen.class = j.class /\ chosen.asked = j.asked
  BY <1>0, <1>3 DEF Jobs, Steps
<1> HIDE DEF chosen
<1>5. job' \in [Workers -> Jobs] /\ job'[w] = chosen /\ OthersRest(w)
  BY <1>2, <1>4, JobTyped DEF OthersRest
<1>6. PublishTypeOK'
  BY <1>2, <1>4, <1>5, JobMovesTyped, Kept
<1> QED BY <1>2, <1>3, <1>4, <1>5, <1>6 DEF rows

LEMMA FileIsReplaced ==
  ASSUME Parts, PublishTypeOK, NEW w \in Workers, PublishFile(w)
  PROVE  /\ PublishTypeOK' /\ OthersRest(w) /\ job[w].step = "decided" /\ job'[w].step = "writing" /\ Stays(w)
         /\ job'[w].old = file.gen /\ job'[w].previous = job[w].previous /\ job'[w].next = job[w].next
         /\ job'[w].class = job[w].class /\ job'[w].before = job[w].before /\ job'[w].pending = job[w].pending
         /\ job'[w].asked = job[w].asked
         /\ lock = NoOne /\ file' = job[w].next /\ replaced' = [replaced EXCEPT ![job[w].next.gen] = file.gen]
         /\ emptied' = (emptied \cap Of(job[w].class, "transient_error")) \cup Of(job[w].class, "success_empty")
         /\ UNCHANGED <<config, state, builds, crashes>>
<1> DEFINE written == [job[w] EXCEPT !.step = "writing", !.old = file.gen]
<1>0. job[w] \in Jobs /\ job[w].next \in Catalogs /\ job[w].next.gen \in Gens /\ file.gen \in Gens
  BY JobTyped, Kept DEF Jobs, Catalogs
<1>1. /\ job' = [job EXCEPT ![w] = written] /\ job[w].step = "decided" /\ lock = NoOne /\ lock' = w /\ Stays(w)
      /\ file' = job[w].next /\ replaced' = [replaced EXCEPT ![job[w].next.gen] = file.gen]
      /\ emptied' = (emptied \cap Of(job[w].class, "transient_error")) \cup Of(job[w].class, "success_empty")
      /\ UNCHANGED <<config, state, builds, crashes>>
  BY DEF PublishFile
<1>2. /\ written \in Jobs /\ written.step = "writing" /\ written.old = file.gen
      /\ written.previous = job[w].previous /\ written.next = job[w].next /\ written.class = job[w].class
      /\ written.before = job[w].before /\ written.pending = job[w].pending /\ written.asked = job[w].asked
  BY <1>0 DEF Jobs, Steps
<1> HIDE DEF written
<1>3. job' \in [Workers -> Jobs] /\ job'[w] = written /\ OthersRest(w)
  BY <1>1, <1>2, JobTyped DEF OthersRest
<1>4. \A v \in Workers : job'[v].step = "writing" <=> lock' = v
  <2>1. NoOne \notin Workers
    BY DEF Parts, Workers
  <2> QED BY <1>1, <1>2, <1>3, <2>1, JobTyped DEF OthersRest
<1>5. PublishTypeOK'
  BY <1>0, <1>1, <1>3, <1>4 DEF PublishTypeOK, Jobs, config, Of
<1> QED BY <1>1, <1>2, <1>3, <1>5

\* A refresh that gives up, or is done.
LEMMA Rests ==
  ASSUME Parts, PublishTypeOK, NEW w \in Workers,
         Overtaken(w) \/ (PublishState(w) /\ w = Licence) \/ StorePending(w) \/ Crash(w)
  PROVE  /\ PublishTypeOK' /\ OthersRest(w) /\ job'[w] = Idle /\ job'[w].step = "idle"
         /\ UNCHANGED <<config, file, emptied, replaced, builds>>
<1>1. job' = [job EXCEPT ![w] = Idle] /\ UNCHANGED <<config, file, emptied, replaced, builds>>
  BY DEF Overtaken, PublishState, StorePending, Crash
<1>2. job' \in [Workers -> Jobs] /\ job'[w] = Idle /\ Idle.step = "idle" /\ OthersRest(w)
  BY <1>1, Blank, JobTyped DEF OthersRest
<1>3. state' \in Ledgers /\ crashes' \in 0..MaxCrashes
  <2>1. job[w].pending \in Pendings /\ job[w].old \in Gens /\ job[w].next.gen \in Gens
    BY JobTyped DEF Jobs, Catalogs
  <2>2. [state EXCEPT !.pending = job[w].pending] \in Ledgers /\ Sizes(w) \in Ledgers
    BY <2>1, Kept DEF Ledgers, Sizes
  <2>3. state' \in Ledgers
    BY <2>2, Kept DEF Overtaken, PublishState, StorePending, Crash
  <2>4. crashes' \in 0..MaxCrashes
    BY DEF Overtaken, PublishState, StorePending, Crash, PublishTypeOK, Parts
  <2> QED BY <2>3, <2>4
<1>4. lock' \in Workers \cup {NoOne} /\ \A v \in Workers : job'[v].step = "writing" <=> lock' = v
  <2>1. NoOne \notin Workers
    BY DEF Parts, Workers
  <2>2. \A v \in Workers : job[v].step = "writing" <=> lock = v
    BY JobTyped
  <2>3. lock' = IF lock = w THEN NoOne ELSE lock
    <3>1. CASE Overtaken(w) \/ StorePending(w)
      BY <2>2, <3>1 DEF Overtaken, StorePending
    <3>2. CASE PublishState(w)
      BY <2>2, <3>2 DEF PublishState
    <3>3. CASE Crash(w)
      BY <3>3 DEF Crash
    <3> QED BY <3>1, <3>2, <3>3
  <2> QED BY <1>2, <2>1, <2>2, <2>3 DEF OthersRest, PublishTypeOK
<1>5. PublishTypeOK'
  BY <1>1, <1>2, <1>3, <1>4 DEF PublishTypeOK, Jobs, Ledgers, config
<1> QED BY <1>1, <1>2, <1>5

LEMMA StateIsWritten ==
  ASSUME Parts, PublishTypeOK, NEW w \in Workers, PublishState(w), w # Licence
  PROVE  /\ PublishTypeOK' /\ OthersRest(w) /\ job[w].step = "writing" /\ job'[w].step = "storing"
         /\ job'[w].previous = job[w].previous /\ job'[w].before = job[w].before
         /\ job'[w].pending = job[w].pending
         /\ UNCHANGED <<config, file, emptied, replaced, builds, crashes>>
<1> DEFINE stored == [job[w] EXCEPT !.step = "storing"]
<1>0. job[w] \in Jobs
  BY JobTyped
<1>1. /\ job' = [job EXCEPT ![w] = stored] /\ state' = Sizes(w) /\ lock' = NoOne /\ job[w].step = "writing"
      /\ UNCHANGED <<config, file, emptied, replaced, builds, crashes>>
  BY DEF PublishState
<1>2. /\ stored \in Jobs /\ stored.step = "storing" /\ stored.previous = job[w].previous
      /\ stored.before = job[w].before /\ stored.pending = job[w].pending
  BY <1>0 DEF Jobs, Steps
<1> HIDE DEF stored
<1>3. job' \in [Workers -> Jobs] /\ job'[w] = stored /\ OthersRest(w)
  BY <1>1, <1>2, JobTyped DEF OthersRest
<1>4. \A v \in Workers : job'[v].step = "writing" <=> lock' = v
  <2>1. NoOne \notin Workers
    BY DEF Parts, Workers
  <2> QED BY <1>1, <1>2, <1>3, <2>1, JobTyped DEF OthersRest
<1>5. Sizes(w) \in Ledgers
  <2>1. job[w].old \in Gens /\ job[w].next.gen \in Gens
    BY <1>0 DEF Jobs, Catalogs
  <2> QED BY <2>1, Kept DEF Ledgers, Sizes
<1>6. PublishTypeOK'
  BY <1>1, <1>3, <1>4, <1>5 DEF PublishTypeOK, Jobs, Ledgers, config
<1> QED BY <1>1, <1>2, <1>3, <1>6

\* The configuration, the licence, the losses: no refresh moves.
WorldMoves ==
    \/ \E s \in Sources : ToggleSource(s) \/ \E k \in Accounts \cup {NoKey} : ChangeKey(s, k)
    \/ Relicense \/ LoseState

LEMMA WorldTyped ==
  ASSUME Parts, PublishTypeOK, WorldMoves
  PROVE  /\ PublishTypeOK' /\ UNCHANGED <<file, lock, job, emptied, replaced, builds, crashes>>
         /\ state' = state \/ state' = NoState
         /\ ~KeysMove => keys' = keys \/ \A w \in Workers : job[w].step \notin {"fetching", "built"}
<1>1. /\ UNCHANGED <<file, lock, job, emptied, replaced, builds, crashes>>
      /\ state' = state \/ state' = NoState
      /\ ~KeysMove => keys' = keys \/ \A w \in Workers : job[w].step \notin {"fetching", "built"}
  BY DEF WorldMoves, ToggleSource, ChangeKey, Relicense, LoseState
<1>2. /\ enabled' \in [Sources -> BOOLEAN] /\ keys' \in Keys /\ entitled' \in BOOLEAN /\ changes' \in 0..MaxChanges
  <2>1. enabled' \in [Sources -> BOOLEAN]
    <3>1. enabled' = enabled \/ \E s \in Sources : enabled' = [enabled EXCEPT ![s] = ~enabled[s]]
      BY DEF WorldMoves, ToggleSource, ChangeKey, Relicense, LoseState
    <3>2. \A s \in Sources : (~enabled[s]) \in BOOLEAN
      OBVIOUS
    <3> QED BY <3>1, <3>2, Kept
  <2>2. keys' \in Keys
    <3>1. keys' = keys \/ \E s \in Sources, k \in Accounts \cup {NoKey} : keys' = [keys EXCEPT ![s] = k]
      BY DEF WorldMoves, ToggleSource, ChangeKey, Relicense, LoseState
    <3> QED BY <3>1, Kept DEF Keys
  <2>3. entitled' \in BOOLEAN
    <3>1. entitled' = entitled \/ entitled' = ~entitled
      BY DEF WorldMoves, ToggleSource, ChangeKey, Relicense, LoseState
    <3> QED BY <3>1, Kept
  <2>4. changes' \in 0..MaxChanges
    <3>1. changes < MaxChanges /\ changes' = changes + 1
      BY DEF WorldMoves, ToggleSource, ChangeKey, Relicense, LoseState, Change
    <3> QED BY <3>1 DEF PublishTypeOK, Parts
  <2> QED BY <2>1, <2>2, <2>3, <2>4
<1>3. state' \in Ledgers
  BY <1>1, Blank, Kept
<1>4. PublishTypeOK'
  BY <1>1, <1>2, <1>3 DEF PublishTypeOK, Ledgers
<1> QED BY <1>1, <1>4

\* Builds are numbered as they end.  A number is of one build, and of no catalog before it is
\* published; the record of sizes is of a publication that is over.
Numbered(j) == j.step \in {"built", "decided", "writing"}
Unpublished(j) == j.step \in {"built", "decided"}
GenKept(w) ==
    /\ job[w].previous.gen <= builds
    /\ Numbered(job[w]) => job[w].next.gen \in 1..builds /\ job[w].next.gen # state.counts
    /\ Unpublished(job[w]) => job[w].next.gen # file.gen
    /\ job[w].step = "writing" => job[w].old = replaced[job[w].next.gen]
    /\ \A v \in Workers \ {w} : Numbered(job[w]) /\ Numbered(job[v]) => job[w].next.gen # job[v].next.gen
    /\ \A v \in Workers :
         Unpublished(job[w]) /\ job[v].step # "idle" => job[w].next.gen # job[v].previous.gen
GenInv ==
    /\ file.gen <= builds /\ state.counts <= builds
    /\ state.counts # 0 => state.previous = replaced[state.counts]
    /\ \A w \in Workers : GenKept(w)

LEMMA Gen ==
  ASSUME Parts, PublishTypeOK
  PROVE  /\ builds \in Nat /\ Gens \subseteq Nat /\ file.gen \in Gens /\ state.counts \in Gens /\ state.previous \in Gens
         /\ \A w \in Workers : job[w].next.gen \in Gens /\ job[w].previous.gen \in Gens /\ job[w].old \in Gens
<1>1. builds \in Nat /\ Gens \subseteq Nat
  BY DEF Parts, PublishTypeOK, Gens
<1>2. file.gen \in Gens /\ state.counts \in Gens /\ state.previous \in Gens
  BY DEF PublishTypeOK, Catalogs
<1>3. \A w \in Workers : job[w].next.gen \in Gens /\ job[w].previous.gen \in Gens /\ job[w].old \in Gens
  BY JobTyped DEF Jobs, Catalogs
<1> QED BY <1>1, <1>2, <1>3

\* What the record of sizes is when a refresh is done.
LEMMA Recorded ==
  ASSUME Parts, PublishTypeOK, NEW w \in Workers
  PROVE  /\ PublishState(w) => /\ state'.counts = job[w].next.gen /\ state'.previous = job[w].old
                               /\ state'.pending = state.pending /\ job[w].step = "writing"
         /\ Overtaken(w) \/ StorePending(w) \/ Crash(w) =>
              state'.counts = state.counts /\ state'.previous = state.previous
BY Kept DEF PublishState, Sizes, Overtaken, StorePending, Crash, Ledgers

LEMMA GenStep ==
  ASSUME Parts, PublishTypeOK, GenInv, [PublishNext]_publishVars
  PROVE  GenInv'
<1> USE DEF Numbered, Unpublished
<1>0. builds \in Nat /\ Gens \subseteq Nat /\ file.gen \in Nat /\ state.counts \in Nat
      /\ \A v \in Workers : job[v].next.gen \in Nat /\ job[v].previous.gen \in Nat
  BY Gen
<1>1. ASSUME NEW w \in Workers, job[w].step = "idle", StartRefresh(w) \/ StartLicence(w)
      PROVE  GenInv'
  <2>1. /\ OthersRest(w) /\ job'[w].step = "fetching" /\ job'[w].previous.gen = file.gen
        /\ UNCHANGED <<file, state, replaced, builds>>
    BY <1>1, RefreshStarts, LicenceStarts DEF StartRefresh, StartLicence
  <2> QED BY <1>0, <2>1 DEF GenInv, GenKept, OthersRest
<1>2. ASSUME NEW w \in Workers, Fetch(w) PROVE GenInv'
  <2>1. /\ OthersRest(w) /\ job[w].step = "fetching" /\ job'[w].step = "built"
        /\ job'[w].previous.gen = job[w].previous.gen /\ job'[w].next.gen = builds + 1
        /\ builds' = builds + 1 /\ UNCHANGED <<file, state, replaced>>
    BY <1>2, BuildEnds DEF Fetch
  <2> QED BY <1>0, <2>1 DEF GenInv, GenKept, OthersRest
<1>3. ASSUME NEW w \in Workers, Decide(w) \/ DecideLicence(w) PROVE GenInv'
  <2>1. /\ OthersRest(w) /\ job[w].step = "built" /\ job'[w].step \in {"decided", "storing"}
        /\ job'[w].previous.gen = job[w].previous.gen /\ job'[w].next.gen = job[w].next.gen
        /\ UNCHANGED <<file, state, replaced, builds>>
    BY <1>3, Decides, LicenceDecides DEF Decide, DecideLicence
  <2> QED BY <1>0, <2>1 DEF GenInv, GenKept, OthersRest
<1>4. ASSUME NEW w \in Workers, PublishFile(w) PROVE GenInv'
  <2>1. /\ OthersRest(w) /\ job[w].step = "decided" /\ job'[w].step = "writing" /\ job'[w].old = file.gen
        /\ job'[w].previous = job[w].previous /\ job'[w].next = job[w].next /\ file' = job[w].next
        /\ replaced' = [replaced EXCEPT ![job[w].next.gen] = file.gen] /\ UNCHANGED <<state, builds>>
    BY <1>4, FileIsReplaced
  <2>2. /\ replaced'[job[w].next.gen] = file.gen
        /\ \A g \in Gens : g # job[w].next.gen => replaced'[g] = replaced[g]
    BY <2>1, Kept, Gen
  <2>3. GenKept(w) /\ job[w].next.gen # state.counts /\ file'.gen = job[w].next.gen
    BY <2>1 DEF GenInv, GenKept
  <2>4. \A v \in Workers : GenKept(v)'
    <3> SUFFICES ASSUME NEW v \in Workers PROVE GenKept(v)'
      OBVIOUS
    <3>1. CASE v = w
      BY <1>0, <2>1, <2>2, <2>3, <3>1 DEF GenKept, OthersRest
    <3>2. CASE v # w
      <4>1. GenKept(v) /\ job'[v] = job[v]
        BY <2>1, <3>2 DEF GenInv, OthersRest
      <4>2. Numbered(job[v]) => job[v].next.gen # job[w].next.gen
        BY <2>1, <3>2, <4>1 DEF GenKept
      <4>3. job[v].step = "writing" => job[v].old = replaced'[job[v].next.gen]
        BY <2>2, <4>1, <4>2, Gen DEF GenKept
      <4> QED BY <1>0, <2>1, <2>3, <3>2, <4>1, <4>2, <4>3 DEF GenKept, OthersRest
    <3> QED BY <3>1, <3>2
  <2>5. state.counts # 0 => state.previous = replaced'[state.counts]
    BY <2>2, <2>3, Gen DEF GenInv
  <2> QED BY <1>0, <2>1, <2>3, <2>4, <2>5 DEF GenInv, GenKept
<1>5. ASSUME NEW w \in Workers, Overtaken(w) \/ PublishState(w) \/ StorePending(w) \/ Crash(w)
      PROVE  GenInv'
  <2>1. /\ OthersRest(w) /\ job'[w].step \in {"idle", "storing"} /\ UNCHANGED <<file, replaced, builds>>
        /\ job'[w].previous.gen \in {0, job[w].previous.gen} /\ job[w].step # "idle"
    <3>1. job[w].step # "idle"
      BY <1>5 DEF Overtaken, PublishState, StorePending, Crash
    <3> QED BY <1>5, <3>1, Rests, StateIsWritten, Blank
  <2>2. CASE PublishState(w)
    <3>1. state'.counts = job[w].next.gen /\ state'.previous = job[w].old /\ job[w].step = "writing"
      BY <2>2, Recorded
    <3>2. GenKept(w)
      BY DEF GenInv
    <3>3. state'.previous = replaced[state'.counts] /\ state'.counts <= builds
      BY <1>0, <3>1, <3>2 DEF GenKept
    <3>4. \A v \in Workers \ {w} : Numbered(job[v]) => job[v].next.gen # state'.counts
      BY <3>1, <3>2 DEF GenKept
    <3> QED BY <1>0, <2>1, <3>3, <3>4 DEF GenInv, GenKept, OthersRest
  <2>3. CASE ~PublishState(w)
    <3>1. state'.counts = state.counts /\ state'.previous = state.previous
      BY <1>5, <2>3, Recorded
    <3> QED BY <1>0, <2>1, <3>1 DEF GenInv, GenKept, OthersRest
  <2> QED BY <2>2, <2>3
<1>6. CASE WorldMoves
  <2>1. UNCHANGED <<file, job, replaced, builds>> /\ (state' = state \/ state'.counts = 0)
    BY <1>6, WorldTyped, Blank
  <2> QED BY <1>0, <2>1 DEF GenInv, GenKept
<1>7. CASE UNCHANGED publishVars
  BY <1>7 DEF publishVars, GenInv, GenKept
<1> QED BY <1>1, <1>2, <1>3, <1>4, <1>5, <1>6, <1>7 DEF PublishNext, WorldMoves

LEMMA TypeStep ==
  ASSUME Parts, PublishTypeOK, [PublishNext]_publishVars
  PROVE  PublishTypeOK'
<1>1. CASE UNCHANGED publishVars
  BY <1>1 DEF publishVars, PublishTypeOK
<1>2. ASSUME NEW w \in Workers,
             \/ job[w].step = "idle" /\ (StartRefresh(w) \/ StartLicence(w))
             \/ Fetch(w) \/ Decide(w) \/ DecideLicence(w)
      PROVE  PublishTypeOK'
  BY <1>2, RefreshStarts, LicenceStarts, BuildEnds, Decides, LicenceDecides
<1>3. ASSUME NEW w \in Workers,
             PublishFile(w) \/ Overtaken(w) \/ PublishState(w) \/ StorePending(w) \/ Crash(w)
      PROVE  PublishTypeOK'
  BY <1>3, FileIsReplaced, Rests, StateIsWritten
<1>4. CASE WorldMoves
  BY <1>4, WorldTyped
<1> QED BY <1>1, <1>2, <1>3, <1>4 DEF PublishNext, WorldMoves

LEMMA PublishBegins ==
  ASSUME Parts, PublishInit
  PROVE  PublishTypeOK /\ GenInv
<1>1. job \in [Workers -> Jobs] /\ \A w \in Workers : job[w] = Idle
  BY Blank DEF PublishInit
<1>2. NoOne \notin Workers /\ builds = 0 /\ lock = NoOne /\ file = NoCatalog /\ state = NoState
      /\ replaced \in [Gens -> Gens] /\ emptied = {} /\ crashes = 0 /\ changes = 0
  BY Blank DEF Parts, Workers, PublishInit
<1>3. enabled \in [Sources -> BOOLEAN] /\ keys \in Keys /\ entitled \in BOOLEAN
  BY DEF PublishInit, Keys
<1>4. PublishTypeOK
  BY <1>1, <1>2, <1>3, Blank DEF PublishTypeOK, Parts, Jobs, Ledgers
<1>5. GenInv
  BY <1>1, <1>2, Blank DEF GenInv, GenKept, Numbered, Unpublished
<1> QED BY <1>4, <1>5

\* For any number of refreshes at once, of both kinds, of crashes between the two writes and of
\* losses of the state file: the sizes a reader takes for those before a catalog are of the catalog
\* that it replaced (publish_catalog, previous_catalog_baseline).
THEOREM SizesAreOfPrevious ==
  ASSUME Parts
  PROVE  PublishSpec => []BaselineIsPrevious
<1>1. PublishInit => PublishTypeOK /\ GenInv
  BY PublishBegins
<1>2. PublishTypeOK /\ GenInv /\ [PublishNext]_publishVars => (PublishTypeOK /\ GenInv)'
  BY GenStep, TypeStep
<1>3. PublishTypeOK /\ GenInv => BaselineIsPrevious
  BY DEF GenInv, BaselineIsPrevious, PreviousSizes
<1> QED BY <1>1, <1>2, <1>3, PTL DEF PublishSpec

\* What a build says, while the keys stay: the accounts it asked with are those of now, an answer is
\* of a source that is enabled and has a key, and only a listing brings rows.
AnswerKept(w) ==
    job[w].step = "built" =>
      /\ job[w].asked = keys
      /\ \A s \in Sources :
          /\ job[w].class[s] \in {"transient_error", "success_empty"} =>
               job[w].on[s] /\ keys[s] # NoKey /\ job[w].next.rows[s] = NoRows
          /\ job[w].next.rows[s] \in {NoRows, keys[s]}
AnswerInv == \A w \in Workers : AnswerKept(w)

\* A catalog's rows are of the accounts it records.
Owned(c) == \A s \in Sources : c.rows[s] # NoRows => c.ids # NoIds /\ c.rows[s] = c.ids[s]
RowsInv ==
    /\ Owned(file)
    /\ \A w \in Workers : Owned(job[w].previous) /\ (job[w].step = "decided" => Owned(job[w].next))

LEMMA AnswerStep ==
  ASSUME Parts, ~KeysMove, PublishTypeOK, AnswerInv, [PublishNext]_publishVars
  PROVE  AnswerInv'
<1>1. ASSUME NEW w \in Workers, Fetch(w) PROVE AnswerInv'
  <2>1. /\ OthersRest(w) /\ job'[w].on = job[w].on /\ job'[w].asked = keys
        /\ job'[w].class \in Answers(job[w].on) /\ job'[w].next.rows \in Accepted(job'[w].class) /\ keys' = keys
    BY <1>1, BuildEnds DEF Fetch, config
  <2>2. AnswerKept(w)'
    BY <2>1 DEF AnswerKept, Answers, Accepted
  <2> QED BY <2>1, <2>2 DEF AnswerInv, AnswerKept, OthersRest
<1>2. ASSUME NEW w \in Workers, OthersRest(w), job'[w].step # "built", keys' = keys
      PROVE  AnswerInv'
  BY <1>2 DEF AnswerInv, AnswerKept, OthersRest
<1>3. ASSUME NEW w \in Workers,
             \/ job[w].step = "idle" /\ (StartRefresh(w) \/ StartLicence(w))
             \/ Decide(w) \/ DecideLicence(w)
      PROVE  AnswerInv'
  <2>1. OthersRest(w) /\ job'[w].step \in {"fetching", "decided", "storing"}
    BY <1>3, RefreshStarts, LicenceStarts, Decides, LicenceDecides
  <2>2. keys' = keys
    BY <1>3 DEF StartRefresh, StartLicence, Decide, DecideLicence, config
  <2> QED BY <1>2, <2>1, <2>2
<1>4. ASSUME NEW w \in Workers,
             PublishFile(w) \/ Overtaken(w) \/ PublishState(w) \/ StorePending(w) \/ Crash(w)
      PROVE  AnswerInv'
  <2>1. OthersRest(w) /\ job'[w].step \in {"writing", "idle", "storing"}
    BY <1>4, FileIsReplaced, Rests, StateIsWritten
  <2>2. keys' = keys
    BY <1>4 DEF PublishFile, Overtaken, PublishState, StorePending, Crash, config
  <2> QED BY <1>2, <2>1, <2>2
<1>5. CASE WorldMoves
  <2>1. job' = job /\ (keys' = keys \/ \A w \in Workers : job[w].step # "built")
    BY <1>5, WorldTyped
  <2> QED BY <2>1 DEF AnswerInv, AnswerKept
<1>6. CASE UNCHANGED publishVars
  BY <1>6 DEF publishVars, AnswerInv, AnswerKept
<1> QED BY <1>1, <1>3, <1>4, <1>5, <1>6 DEF PublishNext, WorldMoves

\* What decide_catalog_publish keeps is of the accounts of now.
LEMMA DecidedIsOwned ==
  ASSUME Parts, PublishTypeOK, AnswerInv, NEW w \in Workers, Owned(job[w].previous), Decide(w)
  PROVE  Owned(job'[w].next)
<1> DEFINE cached == Baseline(job[w].previous, keys)
<1>1. /\ job[w].step = "built" /\ job'[w].next.ids = keys
      /\ job'[w].next.rows = Merged(job[w].class, cached, state.pending, job[w].next.gen, job[w].on,
                                    job[w].next.rows)
  BY Decides
<1>2. \A s \in Sources : cached[s] # NoRows => cached[s] = keys[s]
  BY DEF Baseline, Changed, Owned
<1>3. \A s \in Sources : job[w].next.rows[s] \in {NoRows, keys[s]}
  BY <1>1 DEF AnswerInv, AnswerKept
<1> HIDE DEF cached
<1>4. \A s \in Sources : job'[w].next.rows[s] \in {cached[s], job[w].next.rows[s]}
  BY <1>1 DEF Merged
<1>5. keys # NoIds
  BY Kept DEF Parts, Keys
<1> QED BY <1>1, <1>2, <1>3, <1>4, <1>5 DEF Owned

LEMMA RowsStep ==
  ASSUME Parts, ~KeysMove, Licence \notin Workers, PublishTypeOK, AnswerInv, RowsInv, [PublishNext]_publishVars
  PROVE  RowsInv'
<1>1. ASSUME NEW w \in Workers, OthersRest(w), Owned(file)', Owned(job'[w].previous),
             job'[w].step = "decided" => Owned(job'[w].next)
      PROVE  RowsInv'
  BY <1>1 DEF RowsInv, OthersRest, Owned
<1>2. ASSUME NEW w \in Workers, StartRefresh(w), job[w].step = "idle" PROVE RowsInv'
  <2>1. OthersRest(w) /\ job'[w].previous = file /\ job'[w].step = "fetching" /\ file' = file
    BY <1>2, RefreshStarts DEF StartRefresh
  <2> QED BY <1>1, <2>1 DEF RowsInv, Owned
<1>3. ASSUME NEW w \in Workers, Fetch(w) PROVE RowsInv'
  <2>1. OthersRest(w) /\ job'[w].previous = job[w].previous /\ job'[w].step = "built" /\ file' = file
    BY <1>3, BuildEnds DEF Fetch
  <2> QED BY <1>1, <2>1 DEF RowsInv, Owned
<1>4. ASSUME NEW w \in Workers, Decide(w) PROVE RowsInv'
  <2>1. OthersRest(w) /\ job'[w].previous = job[w].previous /\ file' = file
    BY <1>4, Decides DEF Decide
  <2>2. Owned(job'[w].next)
    BY <1>4, DecidedIsOwned DEF RowsInv
  <2> QED BY <1>1, <2>1, <2>2 DEF RowsInv, Owned
<1>5. ASSUME NEW w \in Workers, PublishFile(w) PROVE RowsInv'
  <2>1. /\ OthersRest(w) /\ job'[w].previous = job[w].previous /\ file' = job[w].next
        /\ job[w].step = "decided" /\ job'[w].step = "writing"
    BY <1>5, FileIsReplaced
  <2> QED BY <1>1, <2>1 DEF RowsInv, Owned
<1>6. ASSUME NEW w \in Workers, Overtaken(w) \/ PublishState(w) \/ StorePending(w) \/ Crash(w)
      PROVE  RowsInv'
  <2>1. /\ OthersRest(w) /\ job'[w].step \in {"idle", "storing"} /\ file' = file
        /\ job'[w].previous \in {NoCatalog, job[w].previous}
    BY <1>6, Rests, StateIsWritten, Blank
  <2> QED BY <1>1, <2>1, Blank DEF RowsInv, Owned
<1>7. CASE WorldMoves
  <2>1. job' = job /\ file' = file
    BY <1>7, WorldTyped
  <2> QED BY <2>1 DEF RowsInv, Owned
<1>8. CASE UNCHANGED publishVars
  BY <1>8 DEF publishVars, RowsInv, Owned
<1> QED BY <1>2, <1>3, <1>4, <1>5, <1>6, <1>7, <1>8 DEF PublishNext, WorldMoves, DecideLicence, StartLicence

LEMMA AnswersBegin ==
  ASSUME Parts, PublishInit
  PROVE  AnswerInv /\ RowsInv
<1>1. file = NoCatalog /\ \A w \in Workers : job[w] = Idle
  BY DEF PublishInit
<1> QED BY <1>1, Blank DEF AnswerInv, AnswerKept, RowsInv, Owned

\* For any number of providers, accounts and refreshes at once, crashes and losses included: where no
\* licence is and keys change between builds, a catalog holds no rows of an account that is not the
\* one it records (decide_catalog_publish, _refresh_catalog_for_effective_config).
THEOREM RowsKeepTheirAccount ==
  ASSUME Parts, ~HasLicence, ~KeysMove
  PROVE  PublishSpec => []RowsAreOfAccount
<1>0. Licence \notin Workers
  BY DEF Workers, Parts
<1>1. PublishInit => PublishTypeOK /\ AnswerInv /\ RowsInv
  BY PublishBegins, AnswersBegin
<1>2. PublishTypeOK /\ AnswerInv /\ RowsInv /\ [PublishNext]_publishVars
        => (PublishTypeOK /\ AnswerInv /\ RowsInv)'
  BY <1>0, TypeStep, AnswerStep, RowsStep
<1>3. RowsInv => RowsAreOfAccount
  BY DEF RowsInv, Owned, RowsAreOfAccount
<1> QED BY <1>1, <1>2, <1>3, PTL DEF PublishSpec

\* The licence refresh publishes over the catalog it read, and this one was not replaced meanwhile
\* by one of the same number: the rows it kept are those in use.
LicenceKept ==
    file.gen = job[Licence].previous.gen =>
      /\ job[Licence].step \in {"fetching", "built"} =>
           \A s \in Sources : job[Licence].on[s] /\ keys[s] # NoKey => job[Licence].previous.rows[s] = file.rows[s]
      /\ job[Licence].step = "decided" =>
           \A s \in Sources : job[Licence].class[s] = "transient_error" => job[Licence].next.rows[s] = file.rows[s]

LEMMA LicenceStep ==
  ASSUME Parts, ~KeysMove, Licence \in Workers, PublishTypeOK, GenInv, AnswerInv, LicenceKept,
         [PublishNext]_publishVars
  PROVE  LicenceKept'
<1>1. ASSUME UNCHANGED <<file, keys>>, job'[Licence] = job[Licence] PROVE LicenceKept'
  BY <1>1 DEF LicenceKept
<1>2. ASSUME job'[Licence].step \notin {"fetching", "built", "decided"} PROVE LicenceKept'
  BY <1>2 DEF LicenceKept
<1>3. ASSUME NEW w \in Workers, job[w].step = "idle", StartRefresh(w) \/ StartLicence(w) PROVE LicenceKept'
  <2>1. CASE StartRefresh(w)
    <3>1. OthersRest(w) /\ w # Licence /\ UNCHANGED <<file, keys>>
      BY <1>3, <2>1, RefreshStarts DEF StartRefresh, config, Parts
    <3> QED BY <1>1, <3>1 DEF OthersRest
  <2>2. CASE StartLicence(w)
    <3>1. /\ w = Licence /\ job'[w].on = enabled /\ job'[w].step = "fetching"
          /\ job'[w].previous.rows = Invokable(file.rows, enabled) /\ UNCHANGED <<file, keys>>
      BY <1>3, <2>2, LicenceStarts DEF StartLicence, config
    <3> QED BY <3>1 DEF LicenceKept, Invokable
  <2> QED BY <1>3, <2>1, <2>2
<1>4. ASSUME NEW w \in Workers, Fetch(w) PROVE LicenceKept'
  <2>1. /\ OthersRest(w) /\ job[w].step = "fetching" /\ job'[w].step = "built" /\ job'[w].on = job[w].on
        /\ job'[w].previous = job[w].previous /\ UNCHANGED <<file, keys>>
    BY <1>4, BuildEnds DEF Fetch, config
  <2>2. CASE w = Licence
    BY <2>1, <2>2 DEF LicenceKept
  <2>3. CASE w # Licence
    BY <1>1, <2>1, <2>3 DEF OthersRest
  <2> QED BY <2>2, <2>3
<1>5. ASSUME NEW w \in Workers, Decide(w) PROVE LicenceKept'
  <2>1. OthersRest(w) /\ w # Licence /\ UNCHANGED <<file, keys>>
    BY <1>5, Decides DEF Decide, config, Parts
  <2> QED BY <1>1, <2>1 DEF OthersRest
<1>6. ASSUME NEW w \in Workers, DecideLicence(w) PROVE LicenceKept'
  <2> DEFINE j == job[Licence]
  <2>1. /\ w = Licence /\ j.step = "built" /\ job'[Licence].step = "decided"
        /\ job'[Licence].previous = j.previous /\ job'[Licence].class = j.class
        /\ job'[Licence].next.rows = LicenceMerged(j.class, j.previous.rows, j.on, j.next.rows)
        /\ UNCHANGED <<file, keys>>
    BY <1>6, LicenceDecides DEF DecideLicence, config
  <2>2. \A s \in Sources : j.class[s] = "transient_error" =>
          j.on[s] /\ keys[s] # NoKey /\ job'[Licence].next.rows[s] = j.previous.rows[s]
    BY <2>1 DEF AnswerInv, AnswerKept, LicenceMerged, Invokable
  <2> QED BY <2>1, <2>2 DEF LicenceKept
<1>7. ASSUME NEW w \in Workers, PublishFile(w) PROVE LicenceKept'
  <2>1. /\ OthersRest(w) /\ job[w].step = "decided" /\ job'[w].step = "writing" /\ file' = job[w].next
    BY <1>7, FileIsReplaced
  <2>2. CASE w # Licence
    <3>1. job'[Licence] = job[Licence]
      BY <2>1, <2>2 DEF OthersRest
    <3>2. job[Licence].step # "idle" => job[w].next.gen # job[Licence].previous.gen
      BY <2>1 DEF GenInv, GenKept, Unpublished
    <3> QED BY <2>1, <3>1, <3>2 DEF LicenceKept
  <2> QED BY <1>2, <2>1, <2>2
<1>8. ASSUME NEW w \in Workers, Overtaken(w) \/ PublishState(w) \/ StorePending(w) \/ Crash(w)
      PROVE  LicenceKept'
  <2>1. OthersRest(w) /\ job'[w].step \in {"idle", "storing"} /\ UNCHANGED <<file, keys>>
    BY <1>8, Rests, StateIsWritten DEF config
  <2>2. CASE w # Licence
    BY <1>1, <2>1, <2>2 DEF OthersRest
  <2> QED BY <1>2, <2>1, <2>2
<1>9. CASE WorldMoves
  <2>1. job' = job /\ file' = file /\ (keys' = keys \/ job[Licence].step \notin {"fetching", "built"})
    BY <1>9, WorldTyped
  <2> QED BY <2>1 DEF LicenceKept
<1>10. CASE UNCHANGED publishVars
  BY <1>1, <1>10 DEF publishVars
<1> QED BY <1>3, <1>4, <1>5, <1>6, <1>7, <1>8, <1>9, <1>10 DEF PublishNext, WorldMoves

\* A refresher that no other overlaps: the catalog it read is the one in use until it publishes, and
\* what it decides keeps the rows of an outage; a pending observation is of a source whose last answer,
\* in what was published, was an empty listing.
AloneKept(w) ==
    /\ job[w].step \in {"fetching", "built"} => job[w].previous = file
    /\ job[w].step = "decided" =>
         \A s \in Sources : file.rows[s] = job[w].asked[s] =>
           /\ job[w].class[s] = "transient_error" => job[w].next.rows[s] = file.rows[s]
           /\ job[w].class[s] = "success_empty" /\ job[w].next.rows[s] = NoRows /\ crashes = 0 => s \in emptied
    /\ crashes = 0 =>
         \A s \in Sources :
           /\ job[w].step \in {"idle", "fetching", "built"} /\ state.pending[s] # 0 => s \in emptied
           /\ job[w].step = "decided" /\ job[w].pending[s] # 0 =>
                job[w].class[s] = "success_empty" \/ (job[w].class[s] = "transient_error" /\ s \in emptied)
           /\ job[w].step \in {"writing", "storing"} /\ job[w].pending[s] # 0 => s \in emptied
           /\ job[w].step \in {"decided", "writing", "storing"} => state.pending[s] \in {0, job[w].before[s]}

\* The decision, source by source.
LEMMA DecidedKeeps ==
  ASSUME Parts, PublishTypeOK, AnswerInv, RowsInv, NEW w \in Workers, AloneKept(w), Decide(w)
  PROVE  AloneKept(w)'
<1> DEFINE j == job[w]
           cached == Baseline(j.previous, keys)
           gen == j.next.gen
           pending == state.pending
           first == FirstEmpty(j.class, cached, pending, gen)
           confirmed == Confirmed(j.class, cached, pending, gen)
           preserved == Preserved(j.class, cached, pending, gen, j.on)
           rejected == RejectedEmpty(j.class, cached, pending, gen, j.on, j.next.rows)
           next == job'[w].next.rows
           ledger == job'[w].pending
<1>1. /\ j.step = "built" /\ job'[w].step = (IF rejected THEN "storing" ELSE "decided")
      /\ job'[w].class = j.class /\ job'[w].asked = j.asked /\ job'[w].before = pending
      /\ ledger = Ledger(j.class, cached, pending, gen)
      /\ next = Merged(j.class, cached, pending, gen, j.on, j.next.rows)
      /\ UNCHANGED <<file, state, emptied, crashes>>
  BY Decides DEF Decide
<1>2. j.previous = file /\ j.asked = keys /\ Owned(file) /\ keys \in Keys
  BY <1>1, Kept DEF AloneKept, AnswerInv, AnswerKept, RowsInv
<1>3. \A s \in Sources : j.class[s] \in {"transient_error", "success_empty"} =>
        j.on[s] /\ keys[s] # NoKey /\ j.next.rows[s] = NoRows
  BY <1>1 DEF AnswerInv, AnswerKept
<1>4. \A s \in Sources : crashes = 0 /\ pending[s] # 0 => s \in emptied
  BY <1>1 DEF AloneKept
\* The rows the source had are of the account that was asked, so the decision still has them.
<1>5. \A s \in Sources :
        j.class[s] \in {"transient_error", "success_empty"} /\ file.rows[s] = j.asked[s] =>
          cached[s] = file.rows[s] /\ cached[s] # NoRows
  <2>1. \A s \in Sources : keys[s] # NoKey => keys[s] \in Accounts /\ keys[s] # NoRows
    BY <1>2 DEF Keys, Parts
  <2> QED BY <1>2, <1>3, <2>1 DEF Owned, Baseline, Changed
<1>6. \A s \in Sources : j.class[s] = "transient_error" /\ cached[s] # NoRows => next[s] = cached[s]
  BY <1>1, <1>3 DEF Merged, Preserved, Listing, Of, Policy
<1>7. \A s \in Sources : j.class[s] = "success_empty" /\ cached[s] # NoRows /\ next[s] = NoRows => pending[s] # 0
  BY <1>1, <1>3 DEF Merged, Preserved, FirstEmpty, Listing, Of, Policy
<1>8. \A s \in Sources : ledger[s] # 0 =>
        /\ j.class[s] \in {"transient_error", "success_empty"}
        /\ j.class[s] = "transient_error" \/ cached[s] = NoRows => ledger[s] = pending[s]
  <2>1. \A s \in Sources : j.class[s] \in Classes
    BY JobTyped DEF Jobs
  <2> QED BY <1>1, <2>1 DEF Ledger, FirstEmpty, Confirmed, Listing, Of, Classes
<1>9. \A s \in Sources : rejected /\ j.class[s] = "success_empty" => cached[s] = NoRows
  BY DEF RejectedEmpty, Listing, Of
<1> HIDE DEF cached, first, confirmed, preserved, rejected, next, ledger
<1>10. job'[w].step = "decided" =>
         \A s \in Sources : file.rows[s] = j.asked[s] =>
           /\ j.class[s] = "transient_error" => next[s] = file.rows[s]
           /\ j.class[s] = "success_empty" /\ next[s] = NoRows /\ crashes = 0 => s \in emptied
  BY <1>4, <1>5, <1>6, <1>7
<1>11. crashes = 0 => \A s \in Sources : ledger[s] # 0 =>
         j.class[s] = "success_empty" \/ (j.class[s] = "transient_error" /\ s \in emptied)
  BY <1>4, <1>8
<1>12. crashes = 0 /\ rejected => \A s \in Sources : ledger[s] # 0 => s \in emptied
  BY <1>4, <1>8, <1>9
<1> QED BY <1>1, <1>10, <1>11, <1>12 DEF AloneKept, next, ledger

LEMMA AloneStep ==
  ASSUME Parts, ~KeysMove, PublishTypeOK, AnswerInv, RowsInv, NEW w, Alone(w), AloneKept(w),
         [PublishNext]_publishVars
  PROVE  AloneKept(w)'
<1>0. w \in Workers /\ (\A v \in Workers : v = w) /\ w # Licence
  BY DEF Alone, Parts
<1>1. CASE job[w].step = "idle" /\ StartRefresh(w)
  <2>1. job'[w].step = "fetching" /\ job'[w].previous = file /\ UNCHANGED <<file, state, emptied, crashes>>
    BY <1>0, <1>1, RefreshStarts DEF StartRefresh
  <2> QED BY <1>1, <2>1 DEF AloneKept
<1>2. CASE Fetch(w)
  <2>1. /\ job[w].step = "fetching" /\ job'[w].step = "built" /\ job'[w].previous = job[w].previous
        /\ UNCHANGED <<file, state, emptied, crashes>>
    BY <1>0, <1>2, BuildEnds DEF Fetch
  <2> QED BY <2>1 DEF AloneKept
<1>3. CASE Decide(w)
  BY <1>0, <1>3, DecidedKeeps
<1>4. CASE PublishFile(w)
  <2>1. /\ job[w].step = "decided" /\ job'[w].step = "writing"
        /\ job'[w].before = job[w].before /\ job'[w].pending = job[w].pending
        /\ emptied' = (emptied \cap Of(job[w].class, "transient_error")) \cup Of(job[w].class, "success_empty")
        /\ UNCHANGED <<state, crashes>>
    BY <1>0, <1>4, FileIsReplaced
  <2>2. crashes = 0 => \A s \in Sources : job[w].pending[s] # 0 => s \in emptied'
    BY <2>1 DEF AloneKept, Of
  <2> QED BY <2>1, <2>2 DEF AloneKept
<1>5. CASE PublishState(w)
  <2>1. /\ job[w].step = "writing" /\ job'[w].step = "storing" /\ state'.pending = state.pending
        /\ job'[w].before = job[w].before /\ job'[w].pending = job[w].pending /\ UNCHANGED <<emptied, crashes>>
    BY <1>0, <1>5, StateIsWritten, Recorded
  <2> QED BY <2>1 DEF AloneKept
<1>6. CASE StorePending(w)
  <2>1. /\ job[w].step = "storing" /\ job'[w].step = "idle" /\ UNCHANGED <<emptied, crashes>>
        /\ state'.pending = IF job[w].pending = job[w].before THEN state.pending ELSE job[w].pending
    BY <1>0, <1>6, Rests, Kept DEF StorePending, Ledgers
  <2>2. crashes = 0 => \A s \in Sources : state'.pending[s] # 0 => s \in emptied
    BY <2>1 DEF AloneKept
  <2> QED BY <2>1, <2>2 DEF AloneKept
<1>7. CASE Overtaken(w)
  BY <1>0, <1>7 DEF Overtaken, Stays
<1>8. CASE Crash(w)
  <2>1. job'[w].step = "idle"
    BY <1>0, <1>8, Rests
  <2>2. crashes \in 0..MaxCrashes /\ MaxCrashes \in Nat /\ crashes' = crashes + 1
    BY <1>8 DEF Crash, PublishTypeOK, Parts
  <2>3. crashes' # 0
    BY <2>2
  <2> QED BY <2>1, <2>3 DEF AloneKept
<1>9. CASE WorldMoves
  <2>1. UNCHANGED <<job, file, emptied, crashes>> /\ (state' = state \/ \A s \in Sources : state'.pending[s] = 0)
    BY <1>9, WorldTyped, Blank
  <2> QED BY <2>1 DEF AloneKept
<1>10. CASE UNCHANGED publishVars
  BY <1>10 DEF publishVars, AloneKept
<1> QED
  BY <1>0, <1>1, <1>2, <1>3, <1>4, <1>5, <1>6, <1>7, <1>8, <1>9, <1>10
  DEF PublishNext, WorldMoves, DecideLicence, StartLicence

PublishInv ==
    /\ PublishTypeOK /\ GenInv /\ AnswerInv
    /\ Licence \in Workers => LicenceKept
    /\ Licence \notin Workers => RowsInv
    /\ \A w \in Workers : Alone(w) => AloneKept(w)

LEMMA AloneHasNoLicence ==
  ASSUME Parts, NEW w \in Workers, Alone(w)
  PROVE  Licence \notin Workers
BY DEF Alone, Parts

LEMMA PublishKeeps ==
  ASSUME Parts, ~KeysMove, PublishInv, [PublishNext]_publishVars
  PROVE  PublishInv'
<1>1. (PublishTypeOK /\ GenInv /\ AnswerInv)'
  BY TypeStep, GenStep, AnswerStep DEF PublishInv
<1>2. (Licence \in Workers => LicenceKept)'
  BY LicenceStep DEF PublishInv
<1>3. (Licence \notin Workers => RowsInv)'
  BY RowsStep DEF PublishInv
<1>4. \A w \in Workers : Alone(w) => AloneKept(w)'
  BY AloneHasNoLicence, AloneStep DEF PublishInv
<1> QED BY <1>1, <1>2, <1>3, <1>4 DEF PublishInv, Alone

\* Only the write of the catalog takes the lock.
LEMMA TakesTheLock ==
  ASSUME Parts, PublishTypeOK, [PublishNext]_publishVars, NEW w \in Workers, lock = NoOne, lock' = w
  PROVE  PublishFile(w)
<1>1. NoOne \notin Workers /\ lock' # lock
  BY DEF Parts, Workers
<1>2. CASE UNCHANGED publishVars
  BY <1>1, <1>2 DEF publishVars
<1>3. CASE WorldMoves
  BY <1>1, <1>3, WorldTyped
<1>4. ASSUME NEW v \in Workers,
             \/ job[v].step = "idle" /\ (StartRefresh(v) \/ StartLicence(v))
             \/ Fetch(v) \/ Decide(v) \/ DecideLicence(v)
             \/ PublishFile(v) \/ Overtaken(v) \/ PublishState(v) \/ StorePending(v) \/ Crash(v)
      PROVE  PublishFile(w)
  <2>1. PublishFile(v) \/ lock' \in {lock, NoOne}
    BY <1>4 DEF StartRefresh, StartLicence, Fetch, Decide, DecideLicence, Overtaken, PublishState,
                StorePending, Crash
  <2>2. PublishFile(v) => lock' = v
    BY DEF PublishFile
  <2> QED BY <1>1, <2>1, <2>2
<1> QED BY <1>2, <1>3, <1>4 DEF PublishNext, WorldMoves

LEMMA PublishedOutlives ==
  ASSUME Parts, PublishInv, [PublishNext]_publishVars, NEW w \in Workers, NEW s \in Sources
  PROVE  /\ w = Licence \/ Alone(w) => OutageKept(w, s)
         /\ Alone(w) /\ crashes = 0 => RemovedTwice(w, s)
<1>1. SUFFICES ASSUME lock = NoOne, lock' = w, file.rows[s] = job[w].asked[s]
               PROVE  /\ (w = Licence \/ Alone(w)) /\ job[w].class[s] = "transient_error" =>
                           file'.rows[s] = file.rows[s]
                      /\ Alone(w) /\ crashes = 0 /\ job[w].class[s] = "success_empty" /\ file'.rows[s] = NoRows =>
                           s \in emptied
  BY DEF OutageKept, RemovedTwice, Publishes
<1>2. job[w].step = "decided" /\ file' = job[w].next /\ Stays(w)
  BY <1>1, TakesTheLock, FileIsReplaced DEF PublishInv
<1>3. CASE w = Licence
  BY <1>2, <1>3, AloneHasNoLicence DEF PublishInv, LicenceKept, Stays
<1>4. CASE Alone(w)
  BY <1>1, <1>2, <1>4, AloneHasNoLicence DEF PublishInv, AloneKept, Alone, Parts
<1> QED BY <1>3, <1>4

\* For any number of providers and accounts, where keys change between builds.  The licence refresh,
\* next to any number of others that may die at any write, keeps the rows in use of every provider it
\* could not reach; so does a refresher that no other overlaps, and as long as none of its refreshes
\* ended halfway it takes a provider's rows for an empty listing only when the one before was empty
\* too (decide_catalog_publish, _run_catalog_license_transition_refresh).
THEOREM RowsOutliveFailures ==
  ASSUME Parts, ~KeysMove
  PROVE  PublishSpec => RowsOutlive
<1>1. PublishInit => PublishInv
  <2>1. ASSUME PublishInit PROVE PublishInv
    <3>1. PublishTypeOK /\ GenInv /\ AnswerInv /\ RowsInv
      BY <2>1, PublishBegins, AnswersBegin
    <3>2. state.pending = NoState.pending /\ \A w \in Workers : job[w].step = "idle"
      BY <2>1, Blank DEF PublishInit
    <3> QED BY <3>1, <3>2, Blank DEF PublishInv, LicenceKept, AloneKept
  <2> QED BY <2>1
<1>2. PublishInv /\ [PublishNext]_publishVars => PublishInv'
  BY PublishKeeps
<1>3. PublishInv /\ [PublishNext]_publishVars
        => [\A w \in Workers, s \in Sources :
              /\ w = Licence \/ Alone(w) => OutageKept(w, s)
              /\ Alone(w) /\ crashes = 0 => RemovedTwice(w, s)]_publishVars
  BY PublishedOutlives
<1> QED BY <1>1, <1>2, <1>3, PTL DEF PublishSpec, RowsOutlive


------------------------------------------------------------------------------
(* The licence.                                                            *)

Doings == {"none", "activate", "refresh", "ensure", "renew", "deactivate"}
Tokens == [act : Nat, issued : Nat]
Fingerprints == Procs \cup {NoFingerprint}
Managed == [kind : Doings, step : {"none", "id", "link", "ask", "store"}, cached : Tokens, fp : Fingerprints,
            token : Tokens]

LicenceTyped ==
    /\ clock \in Nat /\ cache \in Tokens /\ machine \in Fingerprints /\ slots \subseteq Nat \X Fingerprints
    /\ outage \in Int /\ outage <= MaxOutage + 1
    /\ doing \in [Procs -> Managed] /\ wake \in Nat /\ given \in Nat /\ sent \subseteq Fingerprints

\* Whoever asks has the fingerprint that was linked, and nobody asked before there was one.
IdsAgree ==
    /\ \A p \in Procs : doing[p].step = "ask" => machine # NoFingerprint /\ doing[p].fp = machine
    /\ sent \subseteq {machine} /\ \A s \in slots : s[2] = machine
    /\ machine = NoFingerprint => sent = {} /\ slots = {}

\* No activation is cached, or under way, that the service has not handed out.
ActsAreGiven ==
    /\ \A s \in slots : s[1] \in 1..given
    /\ cache.act <= given /\ cache.issued <= clock
    /\ \A p \in Procs : doing[p].cached.act <= given /\ doing[p].token.act <= given

\* The activation in use is one the service holds.
Held == <<cache.act, machine>> \in slots

\* What is about to be written over the cache was signed within this tick.
AnswersAreNew == \A p \in Procs : doing[p].step = "store" /\ doing[p].kind # "deactivate" => doing[p].token.issued = clock

\* While an operation makes a fingerprint, or the loop asks, no activation can come into use but a new one.
HeldIsNew ==
    Held => /\ \A p \in Procs : doing[p].step = "link" => cache.issued = clock
            /\ doing[Daemon].kind = "renew" /\ doing[Daemon].step # "store"
                 => cache = doing[Daemon].cached \/ cache.issued = clock

LoopWakes == clock <= wake /\ (wake <= clock + CheckEvery \/ wake <= clock + RetryEvery)

\* The loop will look in time: at half of the validity; or soon after an outage that is not over; or while
\* the service is back.
InTime ==
    \/ 2 * (wake - CheckEvery) < 2 * cache.issued + Validity
    \/ outage > 0 /\ wake <= clock + RetryEvery /\ clock + (MaxOutage + 1 - outage) + RetryEvery <= Expires(cache)
    \/ wake <= Expires(cache) /\ clock - outage > wake

LicenceInv ==
    /\ LicenceTyped /\ IdsAgree /\ ActsAreGiven /\ AnswersAreNew /\ HeldIsNew /\ LoopWakes
    /\ Held => InTime

LEMMA LicenceUnits ==
  /\ Empty \in Tokens /\ Nothing \in Managed /\ Empty.act = 0 /\ Empty.issued = 0
  /\ Nothing.kind = "none" /\ Nothing.step = "none" /\ Nothing.cached = Empty /\ Nothing.token = Empty
  /\ CheckEvery \in Nat /\ RetryEvery \in Nat /\ CheckEvery > 0 /\ RetryEvery > 0 /\ Validity \in Nat /\ MaxOutage \in Nat
  /\ 2 * (CheckEvery + MaxOutage + RetryEvery) <= Validity + 2 /\ Daemon \in Procs /\ NoFingerprint \notin Procs
BY LicenceTimes DEF Empty, Nothing, Tokens, Managed, Doings, Fingerprints, NoFingerprint

LEMMA LicenceBegins == LicenceInit => LicenceInv
<1> SUFFICES ASSUME LicenceInit PROVE LicenceInv
  OBVIOUS
<1>1. LicenceTyped
  BY LicenceUnits DEF LicenceInit, LicenceTyped, Fingerprints
<1>2. \A p \in Procs : doing[p] = Nothing
  BY DEF LicenceInit
<1>3. \A p \in Procs : doing[p].step = "none" /\ doing[p].cached = Empty /\ doing[p].token = Empty
  BY <1>2, LicenceUnits
<1>4. cache = Empty /\ clock = 0 /\ slots = {} /\ sent = {} /\ machine = NoFingerprint /\ wake = 0 /\ given = 0
  BY DEF LicenceInit
<1>5. IdsAgree /\ AnswersAreNew /\ ~Held
  BY <1>3, <1>4 DEF IdsAgree, AnswersAreNew, Held
<1>6. ActsAreGiven /\ LoopWakes
  BY <1>3, <1>4, LicenceUnits DEF ActsAreGiven, LoopWakes
<1> QED BY <1>1, <1>5, <1>6 DEF LicenceInv, HeldIsNew

\* Time and the service's outages.
LEMMA TimeKeeps ==
  ASSUME LicenceInv, Tick \/ ServiceLeaves \/ ServiceReturns
  PROVE  LicenceInv'
<1> USE LicenceUnits
<1>0. UNCHANGED <<cache, machine, slots, doing, wake, given, sent>>
  BY DEF Tick, ServiceLeaves, ServiceReturns
<1>1. LicenceTyped'
  BY <1>0 DEF LicenceInv, LicenceTyped, Tick, ServiceLeaves, ServiceReturns
<1>2. IdsAgree'
  BY <1>0 DEF LicenceInv, IdsAgree
<1>3. clock \in Nat /\ wake \in Nat /\ clock' \in Nat /\ cache \in Tokens /\ outage \in Int /\ outage' \in Int /\ outage <= MaxOutage + 1
  BY <1>1 DEF LicenceInv, LicenceTyped
<1>4. CASE Tick
  <2>1. \A p \in Procs : doing[p] = Nothing
    BY <1>4 DEF Tick
  <2>2. clock' = clock + 1 /\ clock < wake /\ outage' = (IF outage = 0 THEN 0 ELSE outage + 1)
    BY <1>3, <1>4, <2>1 DEF Tick, LoopIsDue
  <2>3. ActsAreGiven' /\ AnswersAreNew' /\ HeldIsNew'
    <3> HIDE LicenceUnits
    <3>1. \A p \in Procs : doing[p].step = "none" /\ doing[p].kind = "none"
      BY <2>1, LicenceUnits
    <3>2. ActsAreGiven'
      BY <1>0, <1>3, <2>2 DEF LicenceInv, ActsAreGiven, Tokens
    <3> QED BY <1>0, <3>1, <3>2, LicenceUnits DEF AnswersAreNew, HeldIsNew
  <2>4. LoopWakes'
    BY <1>0, <1>3, <2>2 DEF LicenceInv, LoopWakes
  <2>5. InTime => InTime'
    BY <1>0, <1>3, <2>2 DEF InTime, Expires, Tokens
  <2> QED BY <1>0, <1>1, <1>2, <2>3, <2>4, <2>5 DEF LicenceInv, Held
<1>5. CASE ServiceLeaves \/ ServiceReturns
  <2>1. clock' = clock
    BY <1>5 DEF ServiceLeaves, ServiceReturns
  <2>2. ActsAreGiven' /\ AnswersAreNew' /\ HeldIsNew' /\ LoopWakes'
    BY <1>0, <2>1 DEF LicenceInv, ActsAreGiven, AnswersAreNew, HeldIsNew, Held, LoopWakes
  <2>3. InTime => InTime'
    <3>1. clock <= wake
      BY DEF LicenceInv, LoopWakes
    <3>2. CASE ServiceLeaves
      BY <1>0, <1>3, <2>1, <3>1, <3>2 DEF InTime, Expires, Tokens, ServiceLeaves
    <3>3. CASE ServiceReturns
      <4>1. outage > 0 /\ outage' = -(RetryEvery + 1)
        BY <3>3 DEF ServiceReturns
      <4> QED BY <1>0, <1>3, <2>1, <3>1, <4>1 DEF InTime, Expires, Tokens
    <3> QED BY <1>5, <3>2, <3>3
  <2> QED BY <1>0, <1>1, <1>2, <2>2, <2>3 DEF LicenceInv, Held
<1> QED BY <1>4, <1>5

\* A step of an operation that writes nothing but its own progress.
LEMMA QuietSteps ==
  ASSUME LicenceInv, NEW p \in Procs, NEW o \in Managed, doing' = [doing EXCEPT ![p] = o],
         UNCHANGED <<clock, cache, machine, slots, outage, wake, given, sent>>,
         o.step = "ask" => machine # NoFingerprint /\ o.fp = machine,
         o.step = "link" => machine = NoFingerprint,
         o.step = "store" => o.kind = "deactivate",
         o.cached \in {Empty, cache, doing[p].cached}, o.token \in {Empty, doing[p].token},
         p = Daemon /\ o.kind = "renew"
            => \/ o.cached = cache
               \/ doing[p].kind = "renew" /\ doing[p].step # "store" /\ o.cached = doing[p].cached
  PROVE  LicenceInv'
<1>0. doing \in [Procs -> Managed] /\ Daemon \in Procs
  BY LicenceUnits DEF LicenceInv, LicenceTyped
<1>1. doing'[p] = o /\ \A q \in Procs : q # p => doing'[q] = doing[q]
  BY <1>0
<1>2. LicenceTyped'
  BY DEF LicenceInv, LicenceTyped
<1>3. IdsAgree'
  BY <1>1 DEF LicenceInv, IdsAgree
<1>4. ActsAreGiven'
  <2>1. Empty.act = 0 /\ given \in Nat
    BY LicenceUnits DEF LicenceInv, LicenceTyped
  <2>2. Empty.act <= given
    BY <2>1
  <2>3. cache.act <= given /\ doing[p].cached.act <= given /\ doing[p].token.act <= given
    BY DEF LicenceInv, ActsAreGiven
  <2>4. o.cached.act <= given /\ o.token.act <= given
    BY <2>2, <2>3
  <2> QED BY <1>1, <2>4 DEF LicenceInv, ActsAreGiven
<1>5. AnswersAreNew'
  BY <1>1 DEF LicenceInv, AnswersAreNew
<1>6. HeldIsNew'
  <2> SUFFICES ASSUME Held
               PROVE  (/\ \A q \in Procs : doing[q].step = "link" => cache.issued = clock
                       /\ doing[Daemon].kind = "renew" /\ doing[Daemon].step # "store"
                            => cache = doing[Daemon].cached \/ cache.issued = clock)'
    BY DEF Held, HeldIsNew
  <2>1. machine # NoFingerprint
    BY DEF LicenceInv, IdsAgree, Held
  <2> QED BY <1>0, <1>1, <2>1 DEF LicenceInv, HeldIsNew
<1> QED BY <1>2, <1>3, <1>4, <1>5, <1>6 DEF LicenceInv, Held, LoopWakes, InTime, Expires

\* A failed look of the loop, and one that had nothing to do.
LEMMA LoopSteps ==
  ASSUME LicenceInv, doing' \in {doing, [doing EXCEPT ![Daemon] = Nothing]},
         UNCHANGED <<clock, cache, machine, slots, outage, given, sent>>,
         \/ wake' = clock + CheckEvery /\ ~Due
         \/ wake' = clock + RetryEvery /\ (Held => cache.issued = clock \/ outage > 0)
  PROVE  LicenceInv'
<1> USE LicenceUnits
<1>0. doing \in [Procs -> Managed] /\ clock \in Nat /\ wake \in Nat /\ cache \in Tokens /\ outage \in Int /\ cache.issued \in Nat
  BY DEF LicenceInv, LicenceTyped, Tokens
<1>1. \A q \in Procs : doing'[q] \in {doing[q], Nothing}
  BY <1>0
<1>2. LicenceTyped'
  <2>1. doing' \in [Procs -> Managed]
    BY <1>0
  <2>2. wake' \in Nat
    BY <1>0
  <2> QED BY <2>1, <2>2 DEF LicenceInv, LicenceTyped
<1>3. LoopWakes'
  BY <1>0 DEF LoopWakes
<1>4. Held => InTime'
  <2> SUFFICES ASSUME Held PROVE InTime'
    OBVIOUS
  <2>1. CASE wake' = clock + CheckEvery /\ ~Due
    <3>1. cache # Empty
      BY LicenceUnits DEF LicenceInv, ActsAreGiven, Held
    <3>2. 2 * clock < 2 * cache.issued + Validity
      BY <1>0, <2>1, <3>1 DEF Due, Expires
    <3>3. 2 * (wake' - CheckEvery) < 2 * cache'.issued + Validity
      BY <1>0, <2>1, <3>2
    <3> QED BY <3>3 DEF InTime
  <2>2. CASE wake' = clock + RetryEvery /\ cache.issued = clock
    <3>1. 2 * (wake' - CheckEvery) < 2 * cache'.issued + Validity
      BY <1>0, <2>2
    <3> QED BY <3>1 DEF InTime
  <2>3. CASE wake' = clock + RetryEvery /\ outage > 0
    <3>1. InTime /\ clock <= wake
      BY DEF LicenceInv, LoopWakes
    <3>2. clock + (MaxOutage + 1 - outage) + RetryEvery <= cache.issued + Validity
      BY <1>0, <2>3, <3>1 DEF InTime, Expires
    <3> QED BY <1>0, <2>3, <3>2 DEF InTime, Expires
  <2> QED BY <2>1, <2>2, <2>3
<1>5. IdsAgree' /\ AnswersAreNew'
  BY <1>1 DEF LicenceInv, IdsAgree, AnswersAreNew
<1>6. HeldIsNew'
  BY <1>1 DEF LicenceInv, HeldIsNew, Held
<1>7. ActsAreGiven'
  <2>1. Empty.act = 0 /\ given \in Nat
    BY DEF LicenceInv, LicenceTyped
  <2> QED BY <1>1, <2>1 DEF LicenceInv, ActsAreGiven
<1> QED BY <1>2, <1>3, <1>4, <1>5, <1>6, <1>7 DEF LicenceInv, Held

\* One of the candidates is linked, and whoever came later takes that one.
LEMMA LinkKeeps ==
  ASSUME LicenceInv, NEW p \in Procs, LinkId(p)
  PROVE  LicenceInv'
<1>0. doing \in [Procs -> Managed] /\ Daemon \in Procs /\ NoFingerprint \notin Procs /\ machine \in Fingerprints
  BY LicenceUnits DEF LicenceInv, LicenceTyped
<1>1. machine' = Winner(p) /\ machine' \in Procs /\ UNCHANGED <<clock, cache, slots, outage, wake, given, sent>>
  BY <1>0 DEF LinkId, ServiceSide, Winner, Fingerprints
<1>2. PICK o \in Managed : /\ doing' = [doing EXCEPT ![p] = o] /\ o.fp = machine' /\ o.step = "ask"
                           /\ o.kind = doing[p].kind /\ o.cached = doing[p].cached /\ o.token = doing[p].token
  <2> DEFINE o == [doing[p] EXCEPT !.fp = machine', !.step = "ask"]
  <2>1. doing' = [doing EXCEPT ![p] = o]
    BY <1>0 DEF LinkId
  <2>2. o \in Managed /\ o.fp = machine' /\ o.step = "ask" /\ o.kind = doing[p].kind /\ o.cached = doing[p].cached
        /\ o.token = doing[p].token
    BY <1>0, <1>1 DEF Managed, Fingerprints
  <2> HIDE DEF o
  <2> QED BY <2>1, <2>2
<1>3. doing'[p] = o /\ \A q \in Procs : q # p => doing'[q] = doing[q]
  BY <1>0, <1>2
<1>4. machine = NoFingerprint => sent = {} /\ slots = {} /\ \A q \in Procs : doing[q].step # "ask"
  BY DEF LicenceInv, IdsAgree
<1>5. machine # NoFingerprint => machine' = machine
  BY <1>1 DEF Winner
<1>6. Held' => Held /\ machine' = machine
  BY <1>1, <1>4, <1>5 DEF Held
<1>7. LicenceTyped'
  BY <1>0, <1>1, <1>2 DEF LicenceInv, LicenceTyped, Fingerprints
<1>8. IdsAgree'
  BY <1>0, <1>1, <1>2, <1>3, <1>4, <1>5 DEF LicenceInv, IdsAgree
<1>9. ActsAreGiven' /\ AnswersAreNew'
  BY <1>1, <1>2, <1>3 DEF LicenceInv, ActsAreGiven, AnswersAreNew
<1>10. HeldIsNew'
  <2> SUFFICES ASSUME Held
               PROVE  (/\ \A q \in Procs : doing[q].step = "link" => cache.issued = clock
                       /\ doing[Daemon].kind = "renew" /\ doing[Daemon].step # "store"
                            => cache = doing[Daemon].cached \/ cache.issued = clock)'
    BY <1>6 DEF HeldIsNew
  <2>1. doing[p].step # "store"
    BY DEF LinkId
  <2> QED BY <1>0, <1>1, <1>2, <1>3, <2>1 DEF LicenceInv, HeldIsNew
<1> QED BY <1>1, <1>6, <1>7, <1>8, <1>9, <1>10 DEF LicenceInv, LoopWakes, InTime, Expires

\* The service signs, for a new activation or for one it holds.
LEMMA SigningKeeps ==
  ASSUME LicenceInv, NEW p \in Procs, ServiceActivates(p) \/ ServiceRenews(p) \/ ServiceReleases(p)
  PROVE  LicenceInv'
<1>0. doing \in [Procs -> Managed] /\ Daemon \in Procs /\ given \in Nat /\ clock \in Nat
  BY LicenceUnits DEF LicenceInv, LicenceTyped
<1>1. UNCHANGED <<clock, cache, machine, outage, wake>> /\ given' \in {given, given + 1} /\ doing[p].step = "ask"
      /\ doing[p].fp = machine /\ machine # NoFingerprint /\ sent' = sent \cup {machine}
      /\ slots' \subseteq slots \cup {<<given + 1, machine>>} /\ (given' = given => slots' \subseteq slots)
  <2>1. doing[p].step = "ask"
    BY DEF ServiceActivates, ServiceRenews, ServiceReleases, Reaches, Asks
  <2>2. doing[p].fp = machine /\ machine # NoFingerprint
    BY <2>1 DEF LicenceInv, IdsAgree
  <2>3. UNCHANGED <<clock, cache, machine, outage, wake>> /\ sent' = sent \cup {machine}
    BY <2>2 DEF ServiceActivates, ServiceRenews, ServiceReleases, Reaches, External
  <2>4. CASE ServiceActivates(p)
    BY <1>0, <2>1, <2>2, <2>3, <2>4 DEF ServiceActivates
  <2>5. CASE ServiceRenews(p) \/ ServiceReleases(p)
    BY <1>0, <2>1, <2>2, <2>3, <2>5 DEF ServiceRenews, ServiceReleases
  <2> QED BY <2>4, <2>5
<1>2. PICK o \in Managed : /\ doing' = [doing EXCEPT ![p] = o] /\ o.step = "store" /\ o.cached = doing[p].cached
                           /\ o.kind = doing[p].kind /\ o.token.act <= given'
                           /\ o.kind # "deactivate" => o.token.issued = clock
  <2>1. doing[p].cached.act <= given /\ doing[p].token.act <= given /\ doing[p].cached \in Tokens /\ doing[p].token \in Tokens
    BY <1>0 DEF LicenceInv, ActsAreGiven, Managed
  <2>2. CASE ServiceActivates(p)
    <3> DEFINE o == [doing[p] EXCEPT !.token = Signed(given'), !.step = "store"]
    <3>1. doing' = [doing EXCEPT ![p] = o] /\ given' = given + 1
      BY <1>0, <2>2 DEF ServiceActivates
    <3>2. o \in Managed /\ o.step = "store" /\ o.cached = doing[p].cached /\ o.kind = doing[p].kind /\ o.token = Signed(given')
      <4>1. Signed(given') \in Tokens
        BY <1>0, <3>1 DEF Signed, Tokens
      <4> QED BY <1>0, <4>1 DEF Managed
    <3>3. Signed(given').act <= given' /\ Signed(given').issued = clock
      BY <1>0, <3>1 DEF Signed
    <3> HIDE DEF o
    <3> QED BY <3>1, <3>2, <3>3
  <2>3. CASE ServiceRenews(p)
    <3> DEFINE o == [doing[p] EXCEPT !.token = Signed(doing[p].cached.act), !.step = "store"]
    <3>1. doing' = [doing EXCEPT ![p] = o] /\ given' = given
      BY <1>0, <2>3 DEF ServiceRenews
    <3>2. o \in Managed /\ o.step = "store" /\ o.cached = doing[p].cached /\ o.kind = doing[p].kind
          /\ o.token = Signed(doing[p].cached.act)
      <4>1. Signed(doing[p].cached.act) \in Tokens
        BY <1>0, <2>1 DEF Signed, Tokens
      <4> QED BY <1>0, <4>1 DEF Managed
    <3>3. Signed(doing[p].cached.act).act <= given' /\ Signed(doing[p].cached.act).issued = clock
      BY <1>0, <2>1, <3>1 DEF Signed
    <3> HIDE DEF o
    <3> QED BY <3>1, <3>2, <3>3
  <2>4. CASE ServiceReleases(p)
    <3> DEFINE o == [doing[p] EXCEPT !.step = "store"]
    <3>1. doing' = [doing EXCEPT ![p] = o] /\ given' = given /\ doing[p].kind = "deactivate"
      BY <1>0, <2>4 DEF ServiceReleases
    <3>2. o \in Managed /\ o.step = "store" /\ o.cached = doing[p].cached /\ o.kind = doing[p].kind /\ o.token = doing[p].token
      BY <1>0 DEF Managed
    <3> HIDE DEF o
    <3> QED BY <2>1, <3>1, <3>2
  <2> QED BY <2>2, <2>3, <2>4
<1>3. doing'[p] = o /\ \A q \in Procs : q # p => doing'[q] = doing[q]
  BY <1>0, <1>2
<1>4. cache.act <= given /\ (Held' => Held)
  BY <1>0, <1>1 DEF LicenceInv, ActsAreGiven, Held, LicenceTyped, Tokens
<1>5. LicenceTyped'
  BY <1>0, <1>1, <1>2 DEF LicenceInv, LicenceTyped
<1>6. IdsAgree'
  BY <1>0, <1>1, <1>2, <1>3 DEF LicenceInv, IdsAgree
<1>7. ActsAreGiven'
  <2>1. given <= given'
    BY <1>0, <1>1
  <2>2. \A s \in slots' : s[1] \in 1..given'
    BY <1>0, <1>1 DEF LicenceInv, ActsAreGiven
  <2>3. \A q \in Procs : doing[q].cached.act \in Nat /\ doing[q].token.act \in Nat
    BY <1>0 DEF Managed, Tokens
  <2>4. cache.act \in Nat
    BY DEF LicenceInv, LicenceTyped, Tokens
  <2>5. \A q \in Procs : doing[q].cached.act <= given' /\ doing[q].token.act <= given'
    BY <1>0, <1>1, <2>3 DEF LicenceInv, ActsAreGiven
  <2> QED BY <1>0, <1>1, <1>2, <1>3, <2>2, <2>4, <2>5 DEF LicenceInv, ActsAreGiven
<1>8. AnswersAreNew'
  BY <1>1, <1>2, <1>3 DEF LicenceInv, AnswersAreNew
<1>9. HeldIsNew'
  BY <1>0, <1>1, <1>2, <1>3, <1>4 DEF LicenceInv, HeldIsNew
<1> QED BY <1>1, <1>4, <1>5, <1>6, <1>7, <1>8, <1>9 DEF LicenceInv, LoopWakes, InTime, Expires

\* What the service said goes over whatever is cached by now.
LEMMA StoreKeeps ==
  ASSUME LicenceInv, NEW p \in Procs, Store(p)
  PROVE  LicenceInv'
<1> USE LicenceUnits
<1>0. doing \in [Procs -> Managed] /\ clock \in Nat /\ wake \in Nat /\ given \in Nat
  BY DEF LicenceInv, LicenceTyped
<1>1. UNCHANGED <<clock, slots, outage, given, sent, machine>> /\ doing' = [doing EXCEPT ![p] = Nothing]
      /\ wake' \in {wake, clock + CheckEvery} /\ cache' \in {Empty, doing[p].token}
      /\ (cache' # Empty => cache'.issued = clock)
  BY <1>0 DEF Store, Stored, Ends, Sets, LoopSleeps, ServiceSide, LicenceInv, AnswersAreNew
<1>2. \A q \in Procs : doing'[q] \in {doing[q], Nothing}
  BY <1>0, <1>1
<1>3. LicenceTyped'
  <2>1. doing' \in [Procs -> Managed] /\ wake' \in Nat
    BY <1>0, <1>1
  <2>2. cache' \in Tokens
    BY <1>0, <1>1 DEF Managed
  <2> QED BY <1>1, <2>1, <2>2 DEF LicenceInv, LicenceTyped
<1>4. Held' => cache'.issued = clock
  <2>1. cache' = Empty => cache'.act = 0
    OBVIOUS
  <2>2. \A s \in slots : s[1] # 0
    BY <1>0 DEF LicenceInv, ActsAreGiven
  <2> QED BY <1>1, <2>1, <2>2 DEF Held
<1>5. LoopWakes'
  BY <1>0, <1>1 DEF LicenceInv, LoopWakes
<1>6. Held' => InTime'
  <2> SUFFICES ASSUME cache'.issued = clock PROVE 2 * (wake' - CheckEvery) < 2 * cache'.issued + Validity
    BY <1>4 DEF InTime
  <2>1. wake' <= clock + CheckEvery \/ wake' <= clock + RetryEvery
    BY <1>0, <1>1 DEF LicenceInv, LoopWakes
  <2>2. wake' \in Nat
    BY <1>0, <1>1
  <2>3. 2 * (wake' - CheckEvery) < 2 * clock + Validity
    <3> DEFINE w == wake'
    <3>1. w \in Nat /\ (w <= clock + CheckEvery \/ w <= clock + RetryEvery)
      BY <2>1, <2>2
    <3> HIDE DEF w
    <3>2. 2 * (w - CheckEvery) < 2 * clock + Validity
      BY <1>0, <3>1
    <3> QED BY <3>2 DEF w
  <2> QED BY <2>3
<1>7. IdsAgree' /\ AnswersAreNew'
  BY <1>1, <1>2 DEF LicenceInv, IdsAgree, AnswersAreNew
<1>8. HeldIsNew'
  BY <1>1, <1>4 DEF HeldIsNew
<1>9. ActsAreGiven'
  <2>1. cache'.act <= given /\ cache'.issued <= clock
    BY <1>0, <1>1 DEF LicenceInv, ActsAreGiven
  <2>2. \A q \in Procs : doing'[q].cached.act <= given /\ doing'[q].token.act <= given
    BY <1>0, <1>2 DEF LicenceInv, ActsAreGiven
  <2> QED BY <1>1, <2>1, <2>2 DEF LicenceInv, ActsAreGiven
<1> QED BY <1>3, <1>5, <1>6, <1>7, <1>8, <1>9 DEF LicenceInv, Held

LEMMA LicenceSteps == LicenceInv /\ [LicenceNext]_licenceVars => LicenceInv'
<1> SUFFICES ASSUME LicenceInv, [LicenceNext]_licenceVars PROVE LicenceInv'
  OBVIOUS
<1> USE LicenceUnits
<1>0. doing \in [Procs -> Managed] /\ machine \in Fingerprints /\ cache \in Tokens
  BY DEF LicenceInv, LicenceTyped
<1>1. ASSUME NEW p \in Procs, Activate(p) \/ Refresh(p) \/ EnsureLive(p) \/ Deactivate(p)
      PROVE  LicenceInv'
  <2>1. UNCHANGED <<clock, cache, machine, slots, outage, wake, given, sent>>
    BY <1>1 DEF Activate, Refresh, EnsureLive, Deactivate, ServiceSide
  <2>2. PICK o \in Managed : /\ doing' = [doing EXCEPT ![p] = o] /\ o.step \in {"id", "store"}
                             /\ o.step = "store" => o.kind = "deactivate"
                             /\ o.cached \in {Empty, cache} /\ o.token = Empty /\ o.kind # "renew"
    <3>1. CASE Activate(p)
      <4> DEFINE o == [Nothing EXCEPT !.kind = "activate", !.step = "id"]
      <4>1. doing' = [doing EXCEPT ![p] = o]
        BY <3>1 DEF Activate, Sets
      <4>2. /\ o \in Managed /\ o.step \in {"id", "store"} /\ o.token = Empty
            /\ o.step = "store" => o.kind = "deactivate"
            /\ o.cached \in {Empty, cache} /\ o.kind # "renew"
        BY <1>0 DEF Nothing, Managed, Doings, Fingerprints
      <4> HIDE DEF o
      <4> QED BY <4>1, <4>2
    <3>2. CASE Refresh(p)
      <4> DEFINE o == [Nothing EXCEPT !.kind = "refresh", !.step = "id", !.cached = cache]
      <4>1. doing' = [doing EXCEPT ![p] = o]
        BY <3>2 DEF Refresh, Sets
      <4>2. /\ o \in Managed /\ o.step \in {"id", "store"} /\ o.token = Empty
            /\ o.step = "store" => o.kind = "deactivate"
            /\ o.cached \in {Empty, cache} /\ o.kind # "renew"
        BY <1>0 DEF Nothing, Managed, Doings, Fingerprints
      <4> HIDE DEF o
      <4> QED BY <4>1, <4>2
    <3>3. CASE EnsureLive(p)
      <4> DEFINE o == [Nothing EXCEPT !.kind = "ensure", !.step = "id", !.cached = cache]
      <4>1. doing' = [doing EXCEPT ![p] = o]
        BY <3>3 DEF EnsureLive, Sets
      <4>2. /\ o \in Managed /\ o.step \in {"id", "store"} /\ o.token = Empty
            /\ o.step = "store" => o.kind = "deactivate"
            /\ o.cached \in {Empty, cache} /\ o.kind # "renew"
        BY <1>0 DEF Nothing, Managed, Doings, Fingerprints
      <4> HIDE DEF o
      <4> QED BY <4>1, <4>2
    <3>4. CASE Deactivate(p)
      <4> DEFINE o == [Nothing EXCEPT !.kind = "deactivate", !.cached = cache,
                                 !.step = IF cache = Empty THEN "store" ELSE "id"]
      <4>1. doing' = [doing EXCEPT ![p] = o]
        BY <3>4 DEF Deactivate, Sets
      <4>2. /\ o \in Managed /\ o.step \in {"id", "store"} /\ o.token = Empty
            /\ o.step = "store" => o.kind = "deactivate"
            /\ o.cached \in {Empty, cache} /\ o.kind # "renew"
        BY <1>0 DEF Nothing, Managed, Doings, Fingerprints
      <4> HIDE DEF o
      <4> QED BY <4>1, <4>2
    <3> QED BY <1>1, <3>1, <3>2, <3>3, <3>4
  <2> QED BY <2>1, <2>2, QuietSteps
<1>2. CASE RefreshIfDue
  <2>1. CASE Due
    <3>1. UNCHANGED <<clock, cache, machine, slots, outage, wake, given, sent>>
      BY <1>2, <2>1 DEF RefreshIfDue, ServiceSide
    <3>2. PICK o \in Managed : /\ doing' = [doing EXCEPT ![Daemon] = o] /\ o.step = "id" /\ o.cached = cache
                               /\ o.token = Empty
      <4> DEFINE o == [Nothing EXCEPT !.kind = "renew", !.step = "id", !.cached = cache]
      <4>1. doing' = [doing EXCEPT ![Daemon] = o]
        BY <1>2, <2>1 DEF RefreshIfDue, Sets
      <4>2. o \in Managed /\ o.step = "id" /\ o.cached = cache /\ o.token = Empty
        BY <1>0 DEF Nothing, Managed, Doings, Fingerprints
      <4> HIDE DEF o
      <4> QED BY <4>1, <4>2
    <3> QED BY <3>1, <3>2, QuietSteps
  <2>2. CASE ~Due
    BY <1>2, <2>2, LoopSteps DEF RefreshIfDue, ServiceSide
  <2> QED BY <2>1, <2>2
<1>3. ASSUME NEW p \in Procs, ReadId(p) PROVE LicenceInv'
  <2>1. UNCHANGED <<clock, cache, machine, slots, outage, wake, given, sent>>
    BY <1>3 DEF ReadId, ServiceSide
  <2>2. PICK o \in Managed : /\ doing' = [doing EXCEPT ![p] = o]
                             /\ o.step = (IF machine # NoFingerprint THEN "ask" ELSE "link")
                             /\ machine # NoFingerprint => o.fp = machine
                             /\ o.kind = doing[p].kind /\ o.cached = doing[p].cached /\ o.token = doing[p].token
    <3> DEFINE o == IF machine # NoFingerprint THEN [doing[p] EXCEPT !.fp = machine, !.step = "ask"]
                    ELSE [doing[p] EXCEPT !.step = "link"]
    <3>1. doing' = [doing EXCEPT ![p] = o]
      BY <1>0, <1>3 DEF ReadId
    <3>2. o \in Managed /\ o.step = (IF machine # NoFingerprint THEN "ask" ELSE "link")
          /\ (machine # NoFingerprint => o.fp = machine)
          /\ o.kind = doing[p].kind /\ o.cached = doing[p].cached /\ o.token = doing[p].token
      BY <1>0 DEF Managed
    <3> HIDE DEF o
    <3> QED BY <3>1, <3>2
  <2>3. doing[p].step = "id"
    BY <1>3 DEF ReadId
  <2> QED BY <2>1, <2>2, <2>3, QuietSteps
<1>4. ASSUME NEW p \in Procs, IdFails(p) PROVE LicenceInv'
  <2>1. doing[p].step = "link" /\ doing' = [doing EXCEPT ![p] = Nothing]
        /\ UNCHANGED <<clock, cache, machine, slots, outage, given, sent>>
        /\ wake' = (IF p = Daemon /\ doing[p].kind = "renew" THEN clock + RetryEvery ELSE wake)
    BY <1>4 DEF IdFails, Ends, Sets, LoopSleeps, ServiceSide
  <2>2. CASE p = Daemon /\ doing[p].kind = "renew"
    <3>1. Held => cache.issued = clock
      BY <2>1, <2>2 DEF LicenceInv, HeldIsNew
    <3> QED BY <2>1, <2>2, <3>1, LoopSteps
  <2>3. CASE ~(p = Daemon /\ doing[p].kind = "renew")
    BY <2>1, <2>3, QuietSteps
  <2> QED BY <2>2, <2>3
<1>5. ASSUME NEW p \in Procs, ServiceFails(p) PROVE LicenceInv'
  <2>1. doing[p].step = "ask" /\ UNCHANGED <<clock, cache, machine, slots, outage, given, sent>>
    BY <1>5 DEF ServiceFails, Asks, ServiceSide
  <2>2. CASE doing[p].kind = "deactivate"
    <3> DEFINE o == [doing[p] EXCEPT !.step = "store"]
    <3>1. doing' = [doing EXCEPT ![p] = o] /\ wake' = wake
      BY <1>0, <1>5, <2>2 DEF ServiceFails
    <3>2. o \in Managed /\ o.step = "store" /\ o.kind = "deactivate" /\ o.cached = doing[p].cached /\ o.token = doing[p].token
      BY <1>0, <2>2 DEF Managed
    <3> HIDE DEF o
    <3> QED BY <2>1, <3>1, <3>2, QuietSteps
  <2>3. CASE doing[p].kind # "deactivate"
    <3>1. doing' = [doing EXCEPT ![p] = Nothing]
          /\ wake' = (IF p = Daemon /\ doing[p].kind = "renew" THEN clock + RetryEvery ELSE wake)
      BY <1>5, <2>3 DEF ServiceFails, Ends, Sets, LoopSleeps
    <3>2. CASE p = Daemon /\ doing[p].kind = "renew"
      <4>1. outage > 0 \/ <<doing[p].cached.act, machine>> \notin slots
        BY <1>5, <2>1, <3>2 DEF ServiceFails, Mine, LicenceInv, IdsAgree
      <4>2. Held => cache.issued = clock \/ outage > 0
        BY <2>1, <3>2, <4>1 DEF LicenceInv, HeldIsNew, Held
      <4> QED BY <2>1, <3>1, <3>2, <4>2, LoopSteps
    <3>3. CASE ~(p = Daemon /\ doing[p].kind = "renew")
      BY <2>1, <3>1, <3>3, QuietSteps
    <3> QED BY <3>2, <3>3
  <2> QED BY <2>2, <2>3
<1>6. CASE UNCHANGED licenceVars
  <2> USE <1>6 DEF licenceVars
  <2>1. LicenceTyped' /\ IdsAgree' /\ ActsAreGiven' /\ AnswersAreNew'
    BY DEF LicenceInv, LicenceTyped, IdsAgree, ActsAreGiven, AnswersAreNew
  <2> QED BY <2>1 DEF LicenceInv, HeldIsNew, LoopWakes, Held, InTime, Expires
<1> HIDE LicenceUnits
<1> QED BY <1>1, <1>2, <1>3, <1>4, <1>5, <1>6, TimeKeeps, LinkKeeps, SigningKeeps, StoreKeeps DEF LicenceNext

\* For any processes, any times that leave room for the outage, and whatever order the operations ask and
\* write in, which nothing locks: the service is sent one fingerprint of one machine, and the entitlement of
\* an activation that it holds is renewed by the daemon before it runs out (license_ops.py,
\* license_refresh_loop).
THEOREM LicenceStays == LicenceSpec => []LicenceHolds
<1>1. LicenceInv => LicenceHolds
  <2> SUFFICES ASSUME LicenceInv PROVE OneMachine /\ NeverRunsOut
    BY DEF LicenceHolds
  <2>1. OneMachine
    <3>1. sent = {} \/ sent = {machine}
      BY DEF LicenceInv, IdsAgree
    <3>2. Cardinality({}) = 0 /\ Cardinality({machine}) = 1
      BY FS_EmptySet, FS_Singleton
    <3>3. Cardinality(sent) = 0 \/ Cardinality(sent) = 1
      BY <3>1, <3>2
    <3> QED BY <3>3 DEF OneMachine
  <2>2. NeverRunsOut
    <3> SUFFICES ASSUME Held PROVE clock <= Expires(cache)
      BY DEF NeverRunsOut, Held
    <3>1. InTime /\ LoopWakes
      BY DEF LicenceInv
    <3>2. clock \in Nat /\ wake \in Nat /\ cache.issued \in Nat /\ outage \in Int /\ outage <= MaxOutage + 1
      BY DEF LicenceInv, LicenceTyped, Tokens
    <3> QED BY <3>1, <3>2, LicenceUnits DEF InTime, LoopWakes, Expires
  <2> QED BY <2>1, <2>2
<1> QED BY <1>1, LicenceBegins, LicenceSteps, PTL DEF LicenceSpec
==============================================================================
