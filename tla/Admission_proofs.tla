--------------------------- MODULE Admission_proofs ---------------------------
(***************************************************************************)
(* Who is let in: the connections of the server, and the calls to a        *)
(* provider.                                                               *)
(*                                                                         *)
(* ServerLifecycle.  The server's budgets are accounted for: whatever is   *)
(* taken of a budget belongs to a connection that will give it back, and   *)
(* none is overdrawn, for any number of connections and any limits.  The   *)
(* counters are compared with the size of a set: of the connections doing  *)
(* something, or of the bytes a table holds.  So each step needs to know   *)
(* how one connection's change alters such a set (CountChanges,            *)
(* SumChanges).  Accounted is not inductive as it stands: a slot goes with *)
(* the connection being handed over, which must have no handler yet.       *)
(*                                                                         *)
(* Admission.  A call the ledger allows is taken, for any number of        *)
(* threads and any rate, after headers that no other call disturbed.       *)
(* Such headers say exactly what the window had left, because nothing was  *)
(* under way when they were read (Undisturbed).  From then on every call   *)
(* the ledger allows is counted twice over: in what the headers left, and  *)
(* in what the provider took or is about to be sent (Covered).  Since the  *)
(* reset is counted from the arrival of the headers, they are forgotten no *)
(* sooner than the window ends.                                            *)
(*                                                                         *)
(* Discovery.  A refused pair is asked again no sooner than its streak     *)
(* demands: what a prober is about to ask was due when it was picked, and  *)
(* nobody else asks meanwhile, because a prober at work holds both locks   *)
(* (LocksHeld), and a cycle has each pair in hand once (CycleIsTimely).    *)
(* The streak on record is the one of the history (StreaksCount).          *)
(*                                                                         *)
(* Allowance.  Discovery oversteps its share by one probe at most.  The    *)
(* meter never shows more than left, whatever its window, so a change of   *)
(* schedule only cuts off what the new window never counted (MeterIsPast). *)
(* A probe past the share leaves the share spent, and then none is checked *)
(* and let through before the window ends (ShareIsSpent).  What a refresh  *)
(* found belongs to the key configured unless the key changes while it     *)
(* asks, which marks the refresh stale (FoundOfAccount).                   *)
(***************************************************************************)
EXTENDS ServerLifecycle, Admission, Discovery, Allowance, SetLemmas, FiniteSetTheorems, TLAPS

\* A connection is handed over before it has a handler.
Handed == accepting # NoConn => conn[accepting] = "none"

IInv == TypeOK /\ Handed /\ Accounted

------------------------------------------------------------------------------
(* Counting.                                                               *)

\* How many connections do one of D when c turns to d (every change of conn is of one
\* connection).
LEMMA CountChanges ==
  ASSUME NEW f \in [Conns -> Doings], NEW c \in Conns, NEW d \in Doings, NEW D
  PROVE  LET before == {k \in Conns : f[k] \in D}
             after == {k \in Conns : [f EXCEPT ![c] = d][k] \in D}
         IN  /\ Cardinality(before) \in Nat /\ Cardinality(after) \in Nat
             /\ Cardinality(after) + (IF f[c] \in D THEN 1 ELSE 0)
                  = Cardinality(before) + (IF d \in D THEN 1 ELSE 0)
<1> DEFINE before == {k \in Conns : f[k] \in D}
           after == {k \in Conns : [f EXCEPT ![c] = d][k] \in D}
           others == before \ {c}
<1>1. IsFiniteSet(before) /\ IsFiniteSet(after) /\ IsFiniteSet(others)
  <2>1. before \subseteq Conns /\ after \subseteq Conns /\ others \subseteq Conns
    OBVIOUS
  <2> HIDE DEF before, after, others
  <2> QED BY <2>1, Limits, FS_Subset
<1>2. Cardinality(before) \in Nat /\ Cardinality(after) \in Nat /\ Cardinality(others) \in Nat
  <2> HIDE DEF before, after, others
  <2> QED BY <1>1, FS_CardinalityType
<1>3. Cardinality(before) = Cardinality(others) + (IF f[c] \in D THEN 1 ELSE 0)
  <2>1. IF f[c] \in D THEN before = others \cup {c} ELSE before = others
    OBVIOUS
  <2>2. c \notin others
    OBVIOUS
  <2> HIDE DEF before, others
  <2> QED BY <2>1, <2>2, <1>1, <1>2, FS_AddElement
<1>4. Cardinality(after) = Cardinality(others) + (IF d \in D THEN 1 ELSE 0)
  <2>1. IF d \in D THEN after = others \cup {c} ELSE after = others
    OBVIOUS
  <2>2. c \notin others
    OBVIOUS
  <2> HIDE DEF after, others
  <2> QED BY <2>1, <2>2, <1>1, <1>2, FS_AddElement
<1> HIDE DEF before, after, others
<1>5. Cardinality(after) + (IF f[c] \in D THEN 1 ELSE 0)
        = Cardinality(before) + (IF d \in D THEN 1 ELSE 0)
  BY <1>2, <1>3, <1>4
<1> QED BY <1>2, <1>5 DEF before, after

\* n bytes of one connection are n.
LEMMA OwnBytes ==
  ASSUME NEW c, NEW n \in Nat
  PROVE  IsFiniteSet({c} \X (1..n)) /\ Cardinality({c} \X (1..n)) = n
<1>1. IsFiniteSet(1..n) /\ Cardinality(1..n) = n
  BY FS_Interval
<1>2. IsFiniteSet({c}) /\ Cardinality({c}) = 1
  BY FS_Singleton
<1> QED BY <1>1, <1>2, FS_Product

\* g is the table f with n for c.
Changed(f, g, c, n) == g = [f EXCEPT ![c] = n]

\* The sum over a table when c's entry becomes n (every change of a table is of one entry).
LEMMA SumChanges ==
  ASSUME NEW f \in [Conns -> Nat], NEW c \in Conns, NEW n \in Nat,
         NEW g, Changed(f, g, c, n)
  PROVE  /\ SumOver(f) \in Nat /\ SumOver(g) \in Nat
         /\ f[c] <= SumOver(f)
         /\ SumOver(g) + f[c] = SumOver(f) + n
<1> USE DEF Changed
<1> DEFINE rest == UNION {{k} \X (1..f[k]) : k \in Conns \ {c}}
           old == {c} \X (1..f[c])
           new == {c} \X (1..n)
<1>1. IsFiniteSet(rest)
  <2> DEFINE pieces == {{k} \X (1..f[k]) : k \in Conns \ {c}}
  <2>1. IsFiniteSet(Conns \ {c})
    BY Limits, FS_Difference
  <2>2. IsFiniteSet(pieces)
    <3> DEFINE size == [k \in Conns \ {c} |-> {k} \X (1..f[k])]
    <3>1. size \in Surjection(Conns \ {c}, pieces)
      BY DEF Surjection
    <3> QED BY <2>1, <3>1, FS_Surjection
  <2>3. \A p \in pieces : IsFiniteSet(p)
    BY OwnBytes
  <2> HIDE DEF pieces
  <2>4. IsFiniteSet(UNION pieces)
    BY <2>2, <2>3, FS_UNION
  <2> QED BY <2>4 DEF pieces
<1>2. BytesOf(f) = rest \cup old /\ BytesOf(g) = rest \cup new
  <2>1. \A k \in Conns \ {c} : g[k] = f[k]
    OBVIOUS
  <2>2. g[c] = n
    OBVIOUS
  <2>3. BytesOf(g) = UNION {{k} \X (1..g[k]) : k \in Conns}
    BY DEF BytesOf
  <2>4. BytesOf(f) = UNION {{k} \X (1..f[k]) : k \in Conns}
    BY DEF BytesOf
  <2>5. BytesOf(f) = rest \cup old
    BY <2>4
  <2>6. BytesOf(g) = rest \cup new
    <3> QED BY <2>1, <2>2, <2>3
  <2> QED BY <2>5, <2>6
<1>3. rest \cap old = {} /\ rest \cap new = {}
  OBVIOUS
<1>4. /\ IsFiniteSet(old) /\ Cardinality(old) = f[c]
      /\ IsFiniteSet(new) /\ Cardinality(new) = n
  BY OwnBytes
<1>5. Cardinality(rest) \in Nat
  <2> HIDE DEF rest
  <2> QED BY <1>1, FS_CardinalityType
<1>6. Cardinality({}) = 0
  BY FS_EmptySet
<1>7. SumOver(f) = Cardinality(rest) + f[c] /\ SumOver(g) = Cardinality(rest) + n
  <2>1. SumOver(f) = Cardinality(rest \cup old) /\ SumOver(g) = Cardinality(rest \cup new)
    BY <1>2 DEF SumOver
  <2> HIDE DEF rest, old, new
  <2>2. Cardinality(rest \cup old) = Cardinality(rest) + Cardinality(old) - Cardinality(rest \cap old)
    BY <1>1, <1>4, FS_Union
  <2>3. Cardinality(rest \cup new) = Cardinality(rest) + Cardinality(new) - Cardinality(rest \cap new)
    BY <1>1, <1>4, FS_Union
  <2>4. Cardinality(rest \cap old) = 0 /\ Cardinality(rest \cap new) = 0
    BY <1>3, <1>6
  <2>5. f[c] \in Nat
    OBVIOUS
  <2> QED BY <2>1, <2>2, <2>3, <2>4, <2>5, <1>4, <1>5
<1>8. f[c] \in Nat
  OBVIOUS
<1>9. /\ SumOver(f) \in Nat /\ SumOver(g) \in Nat /\ f[c] <= SumOver(f)
      /\ SumOver(g) + f[c] = SumOver(f) + n
  <2> HIDE DEF rest
  <2> QED BY <1>5, <1>7, <1>8
<1> QED BY <1>9

\* A sum is a number no smaller than any entry.
LEMMA SumBounds ==
  ASSUME NEW f \in [Conns -> Nat]
  PROVE  SumOver(f) \in Nat /\ \A c \in Conns : f[c] <= SumOver(f)
<1>1. CASE Conns = {}
  BY <1>1, FS_EmptySet DEF SumOver, BytesOf
<1>2. ASSUME NEW c \in Conns PROVE SumOver(f) \in Nat /\ f[c] <= SumOver(f)
  <2>1. Changed(f, [f EXCEPT ![c] = 0], c, 0)
    BY DEF Changed
  <2> QED BY <2>1, SumChanges
<1> QED BY <1>1, <1>2

------------------------------------------------------------------------------
(* The steps.                                                              *)

\* What a step that turns c to d does to the number of connections doing one of D.
LEMMA Turns ==
  ASSUME TypeOK, NEW c \in Conns, NEW d \in Doings, conn' = [conn EXCEPT ![c] = d],
         NEW CONSTANT D
  PROVE  /\ Cardinality(Doing(D)) \in Nat /\ Cardinality(Doing(D))' \in Nat
         /\ Cardinality(Doing(D))' + (IF conn[c] \in D THEN 1 ELSE 0)
              = Cardinality(Doing(D)) + (IF d \in D THEN 1 ELSE 0)
<1>1. conn \in [Conns -> Doings]
  BY DEF TypeOK
<1>2. /\ Doing(D) = {k \in Conns : conn[k] \in D}
      /\ Doing(D)' = {k \in Conns : [conn EXCEPT ![c] = d][k] \in D}
  BY DEF Doing
<1> QED BY <1>1, <1>2, CountChanges

\* How many a set of connections is while nobody turns.
LEMMA Stand ==
  ASSUME TypeOK, UNCHANGED conn, NEW CONSTANT D
  PROVE  Cardinality(Doing(D)) \in Nat /\ Cardinality(Doing(D))' = Cardinality(Doing(D))
<1>1. Doing(D) \subseteq Conns /\ Doing(D)' = Doing(D)
  BY DEF Doing
<1>2. IsFiniteSet(Doing(D))
  BY <1>1, Limits, FS_Subset
<1> QED BY <1>1, <1>2, FS_CardinalityType

\* What the counters count.
Holders == Cardinality(Doing(Doings \ {"none"}))
Watchers == Cardinality(Doing({"watching"}))
Chats == Cardinality(Doing({"admitted", "answering"}))

\* How they change, the three at once, when c turns to d.
CountsTurn(c, d) ==
    /\ {Holders, Watchers, Chats, Holders', Watchers', Chats'} \subseteq Nat
    /\ Holders' + (IF conn[c] = "none" THEN 0 ELSE 1) = Holders + (IF d = "none" THEN 0 ELSE 1)
    /\ Watchers' + (IF conn[c] = "watching" THEN 1 ELSE 0)
         = Watchers + (IF d = "watching" THEN 1 ELSE 0)
    /\ Chats' + (IF conn[c] \in {"admitted", "answering"} THEN 1 ELSE 0)
         = Chats + (IF d \in {"admitted", "answering"} THEN 1 ELSE 0)

LEMMA TurnsAll ==
  ASSUME TypeOK, NEW c \in Conns, NEW d \in Doings, conn' = [conn EXCEPT ![c] = d]
  PROVE  CountsTurn(c, d)
<1>1. conn[c] \in Doings
  BY DEF TypeOK
<1>2. /\ conn[c] \in Doings \ {"none"} <=> conn[c] # "none"
      /\ d \in Doings \ {"none"} <=> d # "none"
  BY <1>1
<1>3. /\ Holders \in Nat /\ Holders' \in Nat
      /\ Holders' + (IF conn[c] = "none" THEN 0 ELSE 1) = Holders + (IF d = "none" THEN 0 ELSE 1)
  <2>1. /\ Holders \in Nat /\ Holders' \in Nat
        /\ Holders' + (IF conn[c] \in Doings \ {"none"} THEN 1 ELSE 0)
             = Holders + (IF d \in Doings \ {"none"} THEN 1 ELSE 0)
    BY Turns DEF Holders
  <2> QED BY <1>2, <2>1
<1>4. /\ Watchers \in Nat /\ Watchers' \in Nat
      /\ Watchers' + (IF conn[c] \in {"watching"} THEN 1 ELSE 0)
           = Watchers + (IF d \in {"watching"} THEN 1 ELSE 0)
  BY Turns DEF Watchers
<1>5. /\ Chats \in Nat /\ Chats' \in Nat
      /\ Chats' + (IF conn[c] \in {"admitted", "answering"} THEN 1 ELSE 0)
           = Chats + (IF d \in {"admitted", "answering"} THEN 1 ELSE 0)
  BY Turns DEF Chats
<1> QED BY <1>3, <1>4, <1>5 DEF CountsTurn

\* And while nobody turns.
LEMMA StandAll ==
  ASSUME TypeOK, UNCHANGED conn
  PROVE  /\ {Holders, Watchers, Chats} \subseteq Nat
         /\ UNCHANGED <<Holders, Watchers, Chats>>
<1>1. Holders \in Nat /\ Holders' = Holders
  BY Stand DEF Holders
<1>2. Watchers \in Nat /\ Watchers' = Watchers
  BY Stand DEF Watchers
<1>3. Chats \in Nat /\ Chats' = Chats
  BY Stand DEF Chats
<1> QED BY <1>1, <1>2, <1>3

LEMMA InitInv == Init => IInv
<1> SUFFICES ASSUME Init PROVE IInv
  OBVIOUS
<1>1. TypeOK
  <2>1. phase \in Phases /\ {stopping, asked, expired} \subseteq BOOLEAN
    BY DEF Init, Phases
  <2>2. accepting \in Conns \cup {NoConn} /\ conn \in [Conns -> Doings] /\ tracked \subseteq Conns
    BY DEF Init, Doings
  <2>3. {slots, streams, active, reserved, output} \subseteq Nat
    BY DEF Init
  <2>4. lease \in [Conns -> Bodies \cup {0}] /\ spool \in [Conns -> Nat] /\ kept \in [Conns -> Nat]
    BY DEF Init
  <2> QED BY <2>1, <2>2, <2>3, <2>4 DEF TypeOK
<1>2. Handed
  BY DEF Init, Handed
<1>3. ASSUME NEW D, "none" \notin D PROVE Cardinality(Doing(D)) = 0
  <2>1. Doing(D) = {}
    BY <1>3 DEF Init, Doing
  <2> QED BY <2>1, FS_EmptySet
<1>4. SumOver([c \in Conns |-> 0]) = 0
  <2>1. \A c \in Conns : [k \in Conns |-> 0][c] = 0
    OBVIOUS
  <2>2. BytesOf([c \in Conns |-> 0]) = {}
    BY <2>1 DEF BytesOf
  <2> QED BY <2>2, FS_EmptySet DEF SumOver
<1>5. SumOver(lease) = 0 /\ SumOver(spool) = 0 /\ SumOver(kept) = 0
  BY <1>4 DEF Init
<1>6. Accounted
  <2>1. /\ Cardinality(Doing(Doings \ {"none"})) = 0 /\ Cardinality(Doing({"watching"})) = 0
        /\ Cardinality(Doing({"admitted", "answering"})) = 0
    BY <1>3
  <2>2. \A c \in Conns : lease[c] + spool[c] + kept[c] = 0
    BY DEF Init
  <2>3. slots <= MaxSlots /\ streams <= MaxStreams
        /\ active <= MaxActive /\ reserved <= MaxBytes /\ output <= MaxOutput
    BY Limits DEF Init
  <2> QED BY <1>5, <2>1, <2>2, <2>3 DEF Init, Accounted
<1> QED BY <1>1, <1>2, <1>6 DEF IInv

\* What the steps need of the invariant.
LEMMA InvFacts ==
  ASSUME IInv
  PROVE  /\ TypeOK /\ Handed /\ Accounted
         /\ slots \in Nat /\ streams \in Nat /\ active \in Nat /\ reserved \in Nat /\ output \in Nat
         /\ conn \in [Conns -> Doings] /\ tracked \subseteq Conns
         /\ lease \in [Conns -> Nat] /\ spool \in [Conns -> Nat] /\ kept \in [Conns -> Nat]
         /\ NoConn \notin Conns
         /\ MaxSlots \in Nat /\ MaxStreams \in Nat /\ MaxActive \in Nat /\ MaxBytes \in Nat
         /\ MaxOutput \in Nat
         /\ slots = Holders + (IF accepting = NoConn THEN 0 ELSE 1)
         /\ streams = Watchers /\ active = Chats
         /\ SumOver(lease) \in Nat /\ SumOver(spool) \in Nat /\ SumOver(kept) \in Nat
<1>1. TypeOK /\ Handed /\ Accounted
  BY DEF IInv
<1>2. lease \in [Conns -> Nat] /\ spool \in [Conns -> Nat] /\ kept \in [Conns -> Nat]
  <2>1. Bodies \cup {0} \subseteq Nat
    BY Limits
  <2>2. lease \in [Conns -> Bodies \cup {0}] /\ spool \in [Conns -> Nat] /\ kept \in [Conns -> Nat]
    BY <1>1 DEF TypeOK
  <2> QED BY <2>1, <2>2
<1>4. SumOver(lease) \in Nat /\ SumOver(spool) \in Nat /\ SumOver(kept) \in Nat
  BY <1>2, SumBounds
<1>5. /\ slots = Holders + (IF accepting = NoConn THEN 0 ELSE 1)
      /\ streams = Watchers /\ active = Chats
  BY <1>1 DEF Accounted, Holders, Watchers, Chats
<1>6. /\ slots \in Nat /\ streams \in Nat /\ active \in Nat /\ reserved \in Nat /\ output \in Nat
      /\ conn \in [Conns -> Doings] /\ tracked \subseteq Conns
  BY <1>1 DEF TypeOK
<1>7. /\ NoConn \notin Conns /\ MaxSlots \in Nat /\ MaxStreams \in Nat /\ MaxActive \in Nat
      /\ MaxBytes \in Nat /\ MaxOutput \in Nat
  BY Limits
<1> QED BY <1>1, <1>2, <1>4, <1>5, <1>6, <1>7

\* A connection is handed over, gets its handler, or does not.
LEMMA HandingKeeps ==
  ASSUME IInv, NEW c \in Conns, Take(c) \/ Start(c) \/ StartFails(c)
  PROVE  IInv'
<1>0. TypeOK /\ Handed /\ Accounted
  BY DEF IInv
<1>1. UNCHANGED <<streams, active, reserved, output, lease, spool, kept, life>>
  BY DEF Take, Start, StartFails, chat
<1>2. UNCHANGED <<SumOver(lease), SumOver(spool), SumOver(kept)>>
  BY <1>1 DEF SumOver, BytesOf
<1>3. CASE Take(c)
  <2>1. /\ accepting = NoConn /\ conn[c] = "none" /\ slots < MaxSlots
        /\ accepting' = c /\ slots' = slots + 1 /\ UNCHANGED <<conn, tracked>>
    BY <1>3 DEF Take
  <2>2. TypeOK'
    <3>1. slots' \in Nat
      BY <2>1, InvFacts
    <3> QED BY <1>0, <1>1, <2>1, <3>1 DEF TypeOK, life
  <2>3. Handed'
    BY <2>1 DEF Handed
  <2>4. UNCHANGED <<Holders, Watchers, Chats>> /\ Holders \in Nat
    BY <1>0, <2>1, StandAll
  <2>5. slots' = Holders' + (IF accepting' = NoConn THEN 0 ELSE 1) /\ slots' <= MaxSlots
    BY <2>1, <2>4, InvFacts
  <2>6. Accounted'
    BY <1>0, <1>1, <1>2, <2>1, <2>4, <2>5 DEF Accounted, Holders, Watchers, Chats
  <2> QED BY <2>2, <2>3, <2>6 DEF IInv
<1>4. CASE Start(c)
  <2>1. /\ accepting = c /\ conn[c] = "none" /\ accepting' = NoConn
        /\ conn' = [conn EXCEPT ![c] = "handling"] /\ UNCHANGED slots
        /\ tracked' \subseteq Conns /\ NoConn \notin Conns
    BY <1>0, <1>4, InvFacts DEF Start, Handed
  <2>2. TypeOK'
    <3>1. conn' \in [Conns -> Doings]
      BY <2>1, InvFacts DEF Doings
    <3> QED BY <1>0, <1>1, <2>1, <3>1 DEF TypeOK, life
  <2>3. Handed'
    BY <2>1 DEF Handed
  <2>4. Holders \in Nat /\ Holders' = Holders + 1 /\ Watchers' = Watchers /\ Chats' = Chats
    <3>1. "handling" \in Doings
      BY DEF Doings
    <3>2. CountsTurn(c, "handling")
      BY <1>0, <2>1, <3>1, TurnsAll
    <3> QED BY <2>1, <3>2 DEF CountsTurn
  <2>5. slots' = Holders' + (IF accepting' = NoConn THEN 0 ELSE 1)
    BY <2>1, <2>4, InvFacts
  <2>6. \A k \in Conns : conn'[k] \notin {"admitted", "answering"} => lease'[k] + spool'[k] + kept'[k] = 0
    BY <1>0, <1>1, <2>1, InvFacts DEF Accounted
  <2>7. Accounted'
    BY <1>0, <1>1, <1>2, <2>1, <2>4, <2>5, <2>6 DEF Accounted, Holders, Watchers, Chats
  <2> QED BY <2>2, <2>3, <2>7 DEF IInv
<1>5. CASE StartFails(c)
  <2>1. /\ accepting = c /\ accepting' = NoConn /\ slots' = slots - 1 /\ NoConn \notin Conns
        /\ UNCHANGED <<conn, tracked>>
    BY <1>5, InvFacts DEF StartFails
  <2>2. UNCHANGED <<Holders, Watchers, Chats>> /\ Holders \in Nat
    BY <1>0, <2>1, StandAll
  <2>3. slots' = Holders' + (IF accepting' = NoConn THEN 0 ELSE 1) /\ slots' \in Nat /\ slots' <= slots
    BY <2>1, <2>2, InvFacts
  <2>4. TypeOK'
    BY <1>0, <1>1, <2>1, <2>3 DEF TypeOK, life
  <2>5. Handed'
    BY <2>1 DEF Handed
  <2>6. slots' <= MaxSlots
    BY <1>0, <2>3, InvFacts DEF Accounted
  <2>7. Accounted'
    BY <1>0, <1>1, <1>2, <2>1, <2>2, <2>3, <2>6 DEF Accounted, Holders, Watchers, Chats
  <2> QED BY <2>4, <2>5, <2>7 DEF IInv
<1> QED BY <1>3, <1>4, <1>5

\* A handler between two requests ends, or serves a live stream, or that ends.
LEMMA HandlingKeeps ==
  ASSUME IInv, NEW c \in Conns, Hangup(c) \/ Watch(c) \/ Unwatch(c)
  PROVE  IInv'
<1>0. TypeOK /\ Handed /\ Accounted
  BY DEF IInv
<1>1. UNCHANGED <<active, reserved, output, lease, spool, kept, life, accepting>>
  BY DEF Hangup, Watch, Unwatch, chat
<1>2. UNCHANGED <<SumOver(lease), SumOver(spool), SumOver(kept)>>
  BY <1>1 DEF SumOver, BytesOf
<1>3. PICK d \in {"none", "watching"} :
        /\ conn' = [conn EXCEPT ![c] = d] /\ conn[c] \in {"handling", "watching"}
        /\ tracked' \subseteq Conns
  BY InvFacts DEF Hangup, Watch, Unwatch
<1>4. d \in Doings
  BY DEF Doings
<1>5. CountsTurn(c, d)
  BY <1>0, <1>3, <1>4, TurnsAll
<1>6. slots' = Holders' + (IF accepting' = NoConn THEN 0 ELSE 1) /\ slots' <= slots /\ slots' \in Nat
  BY <1>1, <1>3, <1>5, InvFacts DEF CountsTurn, Hangup, Watch, Unwatch
<1>7. streams' = Watchers' /\ streams' <= MaxStreams /\ streams' \in Nat
  BY <1>0, <1>3, <1>5, InvFacts DEF CountsTurn, Hangup, Watch, Unwatch, Accounted
<1>8. Chats' = Chats
  BY <1>3, <1>5 DEF CountsTurn
<1>9. TypeOK'
  <2>1. conn' \in [Conns -> Doings]
    BY <1>3, <1>4, InvFacts
  <2> QED BY <1>0, <1>1, <1>3, <1>6, <1>7, <2>1 DEF TypeOK, life
<1>10. Handed'
  BY <1>0, <1>1, <1>3, InvFacts DEF Handed
<1>11. slots' <= MaxSlots
  BY <1>0, <1>6, InvFacts DEF Accounted
<1>12. \A k \in Conns : conn'[k] \notin {"admitted", "answering"} => lease'[k] + spool'[k] + kept'[k] = 0
  BY <1>0, <1>1, <1>3, InvFacts DEF Accounted
<1>13. Accounted'
  BY <1>0, <1>1, <1>2, <1>6, <1>7, <1>8, <1>11, <1>12 DEF Accounted, Holders, Watchers, Chats
<1> QED BY <1>9, <1>10, <1>13 DEF IInv

\* A chat request is admitted with the bytes of its body, which its connection held none of.
LEMMA AdmitKeeps ==
  ASSUME IInv, NEW c \in Conns, NEW bytes \in Bodies, Admit(c, bytes)
  PROVE  IInv'
<1>0. TypeOK /\ Handed /\ Accounted
  BY DEF IInv
<1>1. /\ conn[c] = "handling" /\ active < MaxActive /\ reserved + bytes <= MaxBytes
      /\ conn' = [conn EXCEPT ![c] = "admitted"] /\ lease' = [lease EXCEPT ![c] = bytes]
      /\ active' = active + 1 /\ reserved' = reserved + bytes
      /\ UNCHANGED <<life, accepting, tracked, slots, streams, output, spool, kept>>
  BY DEF Admit, Fits
<1>2. bytes \in Nat
  BY Limits
<1>3. lease[c] = 0 /\ spool[c] = 0 /\ kept[c] = 0
  <2>1. lease[c] \in Nat /\ spool[c] \in Nat /\ kept[c] \in Nat
    BY InvFacts
  <2>2. lease[c] + spool[c] + kept[c] = 0
    BY <1>0, <1>1 DEF Accounted
  <2>3. \A i, j, k \in Nat : i + j + k = 0 => i = 0 /\ j = 0 /\ k = 0
    OBVIOUS
  <2> QED BY <2>1, <2>2, <2>3, Zenon
<1>4. SumOver(lease)' = SumOver(lease) + bytes
  <2>1. SumOver(lease') + lease[c] = SumOver(lease) + bytes /\ SumOver(lease') \in Nat
    <3>1. lease \in [Conns -> Nat]
      BY InvFacts
    <3>2. Changed(lease, lease', c, bytes)
      BY <1>1 DEF Changed
    <3> QED BY <1>2, <3>1, <3>2, SumChanges
  <2> QED BY <1>3, <2>1
<1>5. UNCHANGED <<SumOver(spool), SumOver(kept)>>
  BY <1>1 DEF SumOver, BytesOf
<1>6. Holders' = Holders /\ Watchers' = Watchers /\ Chats' = Chats + 1
  <2>1. "admitted" \in Doings
    BY DEF Doings
  <2>2. CountsTurn(c, "admitted")
    BY <1>0, <1>1, <2>1, TurnsAll
  <2> QED BY <1>1, <2>2 DEF CountsTurn
<1>7. TypeOK'
  <2>1. conn' \in [Conns -> Doings]
    BY <1>1, InvFacts DEF Doings
  <2>2. lease' \in [Conns -> Bodies \cup {0}]
    BY <1>0, <1>1 DEF TypeOK
  <2>3. active' \in Nat /\ reserved' \in Nat
    BY <1>1, <1>2, InvFacts
  <2> QED BY <1>0, <1>1, <2>1, <2>2, <2>3 DEF TypeOK, life
<1>8. Handed'
  BY <1>0, <1>1, InvFacts DEF Handed
<1>9. \A k \in Conns : conn'[k] \notin {"admitted", "answering"} => lease'[k] + spool'[k] + kept'[k] = 0
  BY <1>0, <1>1, InvFacts DEF Accounted
<1>10. active' <= MaxActive /\ reserved' = SumOver(lease)'
  BY <1>0, <1>1, <1>2, <1>4, InvFacts DEF Accounted
<1>11. Accounted'
  BY <1>0, <1>1, <1>5, <1>6, <1>9, <1>10 DEF Accounted, Holders, Watchers, Chats
<1> QED BY <1>7, <1>8, <1>11 DEF IInv

\* The bytes of a response are retained while it is read, kept with its request, or given back.
LEMMA ReadingKeeps ==
  ASSUME IInv, NEW c \in Conns, Spool(c) \/ Keep(c) \/ Drop(c)
  PROVE  IInv'
<1>0. TypeOK /\ Handed /\ Accounted
  BY DEF IInv
<1>1. /\ conn[c] = "admitted"
      /\ UNCHANGED <<life, accepting, conn, tracked, slots, streams, active, reserved, lease>>
  BY DEF Spool, Keep, Drop
<1>2. UNCHANGED <<Holders, Watchers, Chats>>
  BY <1>0, <1>1, StandAll
<1>3. UNCHANGED SumOver(lease)
  BY <1>1 DEF SumOver, BytesOf
<1>4. spool[c] \in Nat /\ kept[c] \in Nat /\ spool[c] <= SumOver(spool)
  <2>1. spool[c] \in Nat /\ kept[c] \in Nat
    BY InvFacts
  <2>2. spool[c] <= SumOver(spool)
    BY InvFacts, SumBounds
  <2> QED BY <2>1, <2>2
<1>5. SumOver(spool) \in Nat /\ SumOver(kept) \in Nat
  BY InvFacts
<1>6. /\ spool' \in [Conns -> Nat] /\ kept' \in [Conns -> Nat]
      /\ output' = SumOver(spool)' + SumOver(kept)' /\ output' \in Nat /\ output' <= MaxOutput
  <2>0. output = SumOver(spool) + SumOver(kept) /\ output <= MaxOutput
    BY <1>0 DEF Accounted
  <2>1. CASE Spool(c)
    <3>1. /\ output < MaxOutput /\ output' = output + 1
          /\ spool' = [spool EXCEPT ![c] = spool[c] + 1] /\ kept' = kept
      BY <2>1 DEF Spool
    <3>2. UNCHANGED SumOver(kept)
      BY <3>1 DEF SumOver, BytesOf
    <3>3. SumOver(spool') + spool[c] = SumOver(spool) + (spool[c] + 1) /\ SumOver(spool') \in Nat
      <4>1. Changed(spool, spool', c, spool[c] + 1) /\ spool[c] + 1 \in Nat
        BY <1>4, <3>1 DEF Changed
      <4> QED BY <4>1, InvFacts, SumChanges
    <3>4. spool' \in [Conns -> Nat] /\ kept' \in [Conns -> Nat]
      BY <1>4, <3>1, InvFacts
    <3> QED BY <1>4, <1>5, <2>0, <3>1, <3>2, <3>3, <3>4, InvFacts
  <2>2. CASE Keep(c)
    <3>1. /\ output' = output /\ spool' = [spool EXCEPT ![c] = 0]
          /\ kept' = [kept EXCEPT ![c] = kept[c] + spool[c]]
      BY <2>2 DEF Keep
    <3>2. SumOver(spool') + spool[c] = SumOver(spool) + 0 /\ SumOver(spool') \in Nat
      <4>1. Changed(spool, spool', c, 0)
        BY <3>1 DEF Changed
      <4> QED BY <4>1, InvFacts, SumChanges
    <3>3. /\ SumOver(kept') + kept[c] = SumOver(kept) + (kept[c] + spool[c])
          /\ SumOver(kept') \in Nat
      <4>1. Changed(kept, kept', c, kept[c] + spool[c]) /\ kept[c] + spool[c] \in Nat
        BY <1>4, <3>1 DEF Changed
      <4> QED BY <4>1, InvFacts, SumChanges
    <3>4. spool' \in [Conns -> Nat] /\ kept' \in [Conns -> Nat]
      BY <1>4, <3>1, InvFacts
    <3> QED BY <1>4, <1>5, <2>0, <3>1, <3>2, <3>3, <3>4, InvFacts
  <2>3. CASE Drop(c)
    <3>1. output' = output - spool[c] /\ spool' = [spool EXCEPT ![c] = 0] /\ kept' = kept
      BY <2>3 DEF Drop
    <3>2. UNCHANGED SumOver(kept)
      BY <3>1 DEF SumOver, BytesOf
    <3>3. SumOver(spool') + spool[c] = SumOver(spool) + 0 /\ SumOver(spool') \in Nat
      <4>1. Changed(spool, spool', c, 0)
        BY <3>1 DEF Changed
      <4> QED BY <4>1, InvFacts, SumChanges
    <3>4. spool' \in [Conns -> Nat] /\ kept' \in [Conns -> Nat]
      BY <3>1, InvFacts
    <3> QED BY <1>4, <1>5, <2>0, <3>1, <3>2, <3>3, <3>4, InvFacts
  <2> QED BY <2>1, <2>2, <2>3
<1>7. TypeOK'
  BY <1>0, <1>1, <1>6 DEF TypeOK, life
<1>8. Handed'
  BY <1>0, <1>1 DEF Handed
<1>9. \A k \in Conns : conn'[k] \notin {"admitted", "answering"} => lease'[k] + spool'[k] + kept'[k] = 0
  <2>1. \A k \in Conns \ {c} : spool'[k] = spool[k] /\ kept'[k] = kept[k]
    BY InvFacts DEF Spool, Keep, Drop
  <2> QED BY <1>0, <1>1, <2>1 DEF Accounted
<1>10. Accounted'
  BY <1>0, <1>1, <1>2, <1>3, <1>6, <1>9 DEF Accounted, Holders, Watchers, Chats
<1> QED BY <1>7, <1>8, <1>10 DEF IInv

\* The answer is sent; the request ends and gives back what its connection held.
LEMMA AnsweringKeeps ==
  ASSUME IInv, NEW c \in Conns, Answer(c) \/ End(c)
  PROVE  IInv'
<1>0. TypeOK /\ Handed /\ Accounted
  BY DEF IInv
<1>1. CASE Answer(c)
  <2>1. /\ conn[c] = "admitted" /\ conn' = [conn EXCEPT ![c] = "answering"]
        /\ UNCHANGED <<life, accepting, tracked, slots, streams, active, reserved, output, lease,
                       spool, kept>>
    BY <1>1 DEF Answer, chat
  <2>2. UNCHANGED <<SumOver(lease), SumOver(spool), SumOver(kept)>>
    BY <2>1 DEF SumOver, BytesOf
  <2>3. Holders' = Holders /\ Watchers' = Watchers /\ Chats' = Chats
    <3>1. "answering" \in Doings
      BY DEF Doings
    <3>2. CountsTurn(c, "answering")
      BY <1>0, <2>1, <3>1, TurnsAll
    <3> QED BY <2>1, <3>2 DEF CountsTurn
  <2>4. TypeOK'
    <3>1. conn' \in [Conns -> Doings]
      BY <2>1, InvFacts DEF Doings
    <3> QED BY <1>0, <2>1, <3>1 DEF TypeOK, life
  <2>5. Handed'
    BY <1>0, <2>1, InvFacts DEF Handed
  <2>6. \A k \in Conns : conn'[k] \notin {"admitted", "answering"} => lease'[k] + spool'[k] + kept'[k] = 0
    BY <1>0, <2>1, InvFacts DEF Accounted
  <2>7. Accounted'
    BY <1>0, <2>1, <2>2, <2>3, <2>6 DEF Accounted, Holders, Watchers, Chats
  <2> QED BY <2>4, <2>5, <2>7 DEF IInv
<1>2. CASE End(c)
  <2>1. /\ conn[c] \in {"admitted", "answering"} /\ spool[c] = 0
        /\ conn' = [conn EXCEPT ![c] = "handling"]
        /\ active' = active - 1 /\ reserved' = reserved - lease[c] /\ output' = output - kept[c]
        /\ lease' = [lease EXCEPT ![c] = 0] /\ kept' = [kept EXCEPT ![c] = 0]
        /\ UNCHANGED <<life, accepting, tracked, slots, streams, spool>>
    BY <1>2 DEF End
  <2>2. /\ lease[c] \in Nat /\ kept[c] \in Nat /\ SumOver(lease) \in Nat /\ SumOver(kept) \in Nat
        /\ SumOver(spool) \in Nat
    BY InvFacts
  <2>3. SumOver(lease') + lease[c] = SumOver(lease) + 0 /\ SumOver(lease') \in Nat
    <3>1. Changed(lease, lease', c, 0)
      BY <2>1 DEF Changed
    <3> QED BY <3>1, InvFacts, SumChanges
  <2>4. SumOver(kept') + kept[c] = SumOver(kept) + 0 /\ SumOver(kept') \in Nat
    <3>1. Changed(kept, kept', c, 0)
      BY <2>1 DEF Changed
    <3> QED BY <3>1, InvFacts, SumChanges
  <2>5. UNCHANGED SumOver(spool)
    BY <2>1 DEF SumOver, BytesOf
  <2>6. /\ Holders' = Holders /\ Watchers' = Watchers /\ Chats = Chats' + 1 /\ Chats' \in Nat
    <3>1. "handling" \in Doings
      BY DEF Doings
    <3>2. CountsTurn(c, "handling")
      BY <1>0, <2>1, <3>1, TurnsAll
    <3> QED BY <2>1, <3>2 DEF CountsTurn
  <2>7. /\ active' = Chats' /\ active' \in Nat /\ active' <= active
        /\ reserved' = SumOver(lease') /\ reserved' \in Nat /\ reserved' <= reserved
        /\ output' = SumOver(spool') + SumOver(kept') /\ output' \in Nat /\ output' <= output
    <3>1. reserved = SumOver(lease) /\ output = SumOver(spool) + SumOver(kept)
      BY <1>0 DEF Accounted
    <3>2. active' = Chats' /\ active' \in Nat /\ active' <= active
      <4>1. active = Chats /\ active \in Nat
        BY InvFacts
      <4>2. active' = active - 1 /\ Chats = Chats' + 1 /\ Chats' \in Nat
        BY <2>1, <2>6
      <4>3. \A i, j \in Nat : i = j + 1 => i - 1 = j /\ j <= i
        OBVIOUS
      <4> QED BY <4>1, <4>2, <4>3
    <3>3. reserved' = SumOver(lease') /\ reserved' \in Nat /\ reserved' <= reserved
      BY <2>1, <2>2, <2>3, <3>1
    <3>4. output' = SumOver(spool') + SumOver(kept') /\ output' \in Nat /\ output' <= output
      BY <2>1, <2>2, <2>4, <2>5, <3>1
    <3> QED BY <3>2, <3>3, <3>4
  <2>8. TypeOK'
    <3>1. conn' \in [Conns -> Doings]
      BY <2>1, InvFacts DEF Doings
    <3>2. lease' \in [Conns -> Bodies \cup {0}] /\ kept' \in [Conns -> Nat]
      BY <1>0, <2>1 DEF TypeOK
    <3> QED BY <1>0, <2>1, <2>7, <3>1, <3>2 DEF TypeOK, life
  <2>9. Handed'
    BY <1>0, <2>1, InvFacts DEF Handed
  <2>10. \A k \in Conns : conn'[k] \notin {"admitted", "answering"} => lease'[k] + spool'[k] + kept'[k] = 0
    <3>1. lease'[c] = 0 /\ kept'[c] = 0 /\ spool'[c] = 0
      BY <2>1, InvFacts
    <3>2. \A k \in Conns \ {c} : /\ conn'[k] = conn[k] /\ lease'[k] = lease[k]
                                 /\ spool'[k] = spool[k] /\ kept'[k] = kept[k]
      BY <2>1, InvFacts
    <3> QED BY <1>0, <3>1, <3>2 DEF Accounted
  <2>11. /\ active' <= MaxActive /\ reserved' <= MaxBytes /\ output' <= MaxOutput
    <3>1. active <= MaxActive /\ reserved <= MaxBytes /\ output <= MaxOutput
      BY <1>0 DEF Accounted
    <3> QED BY <2>7, <3>1, InvFacts
  <2>12. Accounted'
    BY <1>0, <2>1, <2>6, <2>7, <2>10, <2>11 DEF Accounted, Holders, Watchers, Chats
  <2> QED BY <2>8, <2>9, <2>12 DEF IInv
<1> QED BY <1>1, <1>2

\* Every change of the server keeps its accounts: the shutdown touches none of them.
LEMMA StepInv == IInv /\ [Next]_vars => IInv'
<1> SUFFICES ASSUME IInv, [Next]_vars PROVE IInv'
  OBVIOUS
<1>0. TypeOK /\ Handed /\ Accounted
  BY DEF IInv
<1>1. ASSUME NEW c \in Conns,
             \/ Take(c) \/ Start(c) \/ StartFails(c) \/ Hangup(c) \/ Watch(c) \/ Unwatch(c)
             \/ \E bytes \in Bodies : Admit(c, bytes)
             \/ Spool(c) \/ Keep(c) \/ Drop(c) \/ Answer(c) \/ End(c)
      PROVE  IInv'
  BY <1>1, HandingKeeps, HandlingKeeps, AdmitKeeps, ReadingKeeps, AnsweringKeeps
<1>2. CASE Signal \/ Ask \/ LoopEnds \/ CloseServer \/ Expire \/ Exit \/ UNCHANGED vars
  <2>1. UNCHANGED <<accepting, conn, tracked, slots, streams, active, reserved, output, lease, spool, kept>>
    BY <1>2 DEF Signal, Ask, LoopEnds, CloseServer, Expire, Exit, vars, chat
  <2>2. UNCHANGED <<SumOver(lease), SumOver(spool), SumOver(kept)>>
    BY <2>1 DEF SumOver, BytesOf
  <2>3. UNCHANGED <<Holders, Watchers, Chats>>
    BY <1>0, <2>1, StandAll
  <2>4. phase' \in Phases /\ {stopping', asked', expired'} \subseteq BOOLEAN
    <3>1. phase \in Phases /\ stopping \in BOOLEAN /\ asked \in BOOLEAN /\ expired \in BOOLEAN
      BY <1>0 DEF TypeOK
    <3>2. phase' \in Phases
      BY <1>2, <3>1 DEF Phases, Signal, Ask, LoopEnds, CloseServer, Expire, Exit, vars
    <3>3. stopping' \in BOOLEAN /\ asked' \in BOOLEAN /\ expired' \in BOOLEAN
      BY <1>2, <3>1 DEF Signal, Ask, LoopEnds, CloseServer, Expire, Exit, vars
    <3> QED BY <3>2, <3>3
  <2>5. TypeOK'
    BY <1>0, <2>1, <2>4 DEF TypeOK
  <2>6. Handed'
    BY <1>0, <2>1 DEF Handed
  <2>7. Accounted'
    BY <1>0, <2>1, <2>2, <2>3 DEF Accounted, Holders, Watchers, Chats
  <2> QED BY <2>5, <2>6, <2>7 DEF IInv
<1> QED BY <1>1, <1>2 DEF Next

\* The server's state has its type: the counters are numbers, never below zero, and every
\* connection does one thing (BoundedThreadingHTTPServer, ChatRequestBudget and
\* UpstreamResponseBudget count down without looking).
THEOREM TypeCorrect == Spec => []TypeOK
<1>1. IInv => TypeOK
  BY DEF IInv
<1> QED BY <1>1, InitInv, StepInv, PTL DEF Spec

\* The budgets are accounted for: each slot, chat lease and retained byte belongs to a
\* connection that will give it back, and no use exceeds its limit, whatever fails and
\* whenever the signal comes.
THEOREM BudgetsAreAccounted == Spec => []Accounted
<1>1. IInv => Accounted
  BY DEF IInv
<1> QED BY <1>1, InitInv, StepInv, PTL DEF Spec

------------------------------------------------------------------------------
(* The calls to a provider.                                                *)

Stages == {"none", "sent", "answered"}
Headers == [remaining : Nat, reset : Nat]
Limit == [remaining : Nat, reset_at : Nat]

Typed ==
    /\ now \in Nat /\ left \in 1..Window /\ taken \in 0..Granted
    /\ sure \in BOOLEAN /\ surprised \in BOOLEAN
    /\ _observed \in {Unknown} \cup Limit
    /\ call \in [Calls -> [stage : Stages, headers : {Unknown} \cup Headers, alone : BOOLEAN]]

Sent == {c \in Calls : call[c].stage = "sent"}

\* A call that is alone is the only one under way, and the headers of its answer still hold.
Undisturbed ==
    \A c \in Calls : call[c].alone =>
        /\ Under = {c}
        /\ call[c].headers # Unknown =>
              /\ call[c].stage = "answered"
              /\ call[c].headers.remaining = Granted - taken /\ call[c].headers.reset >= left

\* What the ledger may still allow in this window, what it allowed that did not arrive yet, and
\* what was taken fit in what the provider grants.
Covered ==
    sure => /\ _observed # Unknown /\ _observed.reset_at >= now + left
            /\ _observed.remaining + Cardinality(Sent) + taken <= Granted

AdmissionInv == Typed /\ Undisturbed /\ Covered /\ AllowedIsTaken

------------------------------------------------------------------------------
(* The calls on their way.                                                 *)

\* They can be counted, and the count follows a call that leaves and one that arrives.
LEMMA Counts ==
  ASSUME ProviderLimits
  PROVE  /\ Cardinality(Sent) \in Nat
         /\ \A c \in Calls :
              /\ Sent' = Sent \cup {c} /\ c \notin Sent => Cardinality(Sent)' = Cardinality(Sent) + 1
              /\ Sent' = Sent \ {c} /\ c \in Sent =>
                   Cardinality(Sent) \in Nat \ {0} /\ Cardinality(Sent)' = Cardinality(Sent) - 1
         /\ Sent' = Sent => Cardinality(Sent)' = Cardinality(Sent)
<1>1. IsFiniteSet(Sent)
  BY FS_Subset DEF ProviderLimits, Sent
<1>2. Cardinality(Sent) \in Nat
  BY <1>1, FS_CardinalityType
<1>3. ASSUME NEW c \in Calls
      PROVE  /\ Sent' = Sent \cup {c} /\ c \notin Sent => Cardinality(Sent)' = Cardinality(Sent) + 1
             /\ Sent' = Sent \ {c} /\ c \in Sent =>
                  Cardinality(Sent) \in Nat \ {0} /\ Cardinality(Sent)' = Cardinality(Sent) - 1
  <2>1. c \notin Sent => Cardinality(Sent \cup {c}) = Cardinality(Sent) + 1
    BY <1>1, FS_AddElement
  <2>2. c \in Sent => Cardinality(Sent \ {c}) = Cardinality(Sent) - 1
    BY <1>1, FS_RemoveElement
  <2>3. c \in Sent => Cardinality(Sent) # 0
    BY <1>1, FS_EmptySet
  <2> QED BY <1>2, <2>1, <2>2, <2>3
<1> QED BY <1>2, <1>3

------------------------------------------------------------------------------
(* The steps.                                                              *)

LEMMA AdmissionInitInv == ProviderLimits /\ AdmissionInit => AdmissionInv
<1> SUFFICES ASSUME ProviderLimits, AdmissionInit PROVE AdmissionInv
  OBVIOUS
<1>1. Typed
  <2>1. None \in [stage : Stages, headers : {Unknown} \cup Headers, alone : BOOLEAN]
    BY DEF None, Stages
  <2>2. call \in [Calls -> [stage : Stages, headers : {Unknown} \cup Headers, alone : BOOLEAN]]
    BY <2>1 DEF AdmissionInit
  <2>3. now \in Nat /\ left \in 1..Window /\ taken \in 0..Granted
    BY DEF ProviderLimits, AdmissionInit
  <2> QED BY <2>2, <2>3 DEF AdmissionInit, Typed
<1>2. Undisturbed /\ Covered /\ AllowedIsTaken
  BY DEF AdmissionInit, Undisturbed, Covered, AllowedIsTaken, None
<1> QED BY <1>1, <1>2 DEF AdmissionInv

\* What is known in a window that it covers is not forgotten.
LEMMA Known ==
  ASSUME Typed, Covered, sure
  PROVE  Current = _observed /\ _observed # Unknown /\ _observed \in Limit
<1>1. _observed # Unknown /\ _observed.reset_at >= now + left /\ _observed \in Limit
  BY DEF Typed, Covered
<1>2. now \in Nat /\ left \in Nat \ {0} /\ _observed.reset_at \in Nat
  BY <1>1 DEF Typed, Limit
<1>3. ~(_observed.reset_at <= now)
  BY <1>1, <1>2
<1> QED BY <1>1, <1>3 DEF Current

\* A refusal: what is forgotten was over.
LEMMA RefuseKeeps ==
  ASSUME ProviderLimits, AdmissionInv, NEW c \in Calls, Refuse(c)
  PROVE  AdmissionInv'
<1>0. Typed /\ Undisturbed /\ Covered /\ AllowedIsTaken
  BY DEF AdmissionInv
<1>1. UNCHANGED <<now, left, call, taken, sure, surprised>> /\ _observed' \in {_observed, Unknown}
  BY DEF Refuse
<1>2. Typed'
  BY <1>0, <1>1 DEF Typed
<1>3. Undisturbed' /\ AllowedIsTaken'
  BY <1>0, <1>1 DEF Undisturbed, Under, AllowedIsTaken
<1>4. Covered'
  <2>1. sure => _observed' = _observed
    BY <1>0, Known DEF Refuse
  <2>2. Cardinality(Sent)' = Cardinality(Sent)
    BY <1>1 DEF Sent
  <2> QED BY <1>0, <1>1, <2>1, <2>2 DEF Covered
<1> QED BY <1>2, <1>3, <1>4 DEF AdmissionInv

\* An allowed call: one less is left, one more is on its way.
LEMMA ReserveKeeps ==
  ASSUME ProviderLimits, AdmissionInv, NEW c \in Calls, Reserve(c)
  PROVE  AdmissionInv'
<1>0. Typed /\ Undisturbed /\ Covered /\ AllowedIsTaken
  BY DEF AdmissionInv
<1>1. /\ call[c].stage = "none" /\ UNCHANGED <<now, left, taken, sure, surprised>>
      /\ call' = [d \in Calls |-> IF d = c THEN [stage |-> "sent", headers |-> Unknown, alone |-> Under = {}]
                                  ELSE [call[d] EXCEPT !.alone = FALSE]]
  BY DEF Reserve
<1>2. \A d \in Calls : call[d] \in [stage : Stages, headers : {Unknown} \cup Headers, alone : BOOLEAN]
  BY <1>0 DEF Typed
<1>3. Typed'
  <2>1. call' \in [Calls -> [stage : Stages, headers : {Unknown} \cup Headers, alone : BOOLEAN]]
    <3>1. (Under = {}) \in BOOLEAN
      OBVIOUS
    <3> QED BY <1>1, <1>2, <3>1 DEF Stages
  <2>2. _observed' \in {Unknown} \cup Limit
    <3>1. CASE Current # Unknown /\ Current.remaining > 0 /\ _observed' = LeftAfter(Current)
      <4>1. Current \in Limit
        BY <1>0, <3>1 DEF Current, Typed
      <4> QED BY <3>1, <4>1 DEF LeftAfter, Limit
    <3>2. CASE _observed' = Unknown
      BY <3>2
    <3> QED BY <3>1, <3>2 DEF Reserve
  <2> QED BY <1>0, <1>1, <2>1, <2>2 DEF Typed
<1>4. Undisturbed'
  <2>1. \A d \in Calls \ {c} : call'[d].alone = FALSE /\ call'[d].stage = call[d].stage
    BY <1>1, <1>2
  <2>2. /\ call'[c].stage = "sent" /\ call'[c].headers = Unknown
        /\ call'[c].alone => Under = {}
    BY <1>1
  <2>3. Under' = Under \cup {c}
    BY <2>1, <2>2 DEF Under
  <2> QED BY <2>1, <2>2, <2>3 DEF Undisturbed
<1>5. Covered'
  <2> SUFFICES ASSUME sure
               PROVE  /\ _observed' # Unknown /\ _observed'.reset_at >= now + left
                      /\ _observed'.remaining + Cardinality(Sent') + taken <= Granted
    BY <1>1 DEF Covered
  <2>1. Current = _observed /\ _observed # Unknown /\ _observed \in Limit
    BY <1>0, Known
  <2>2. /\ _observed.remaining > 0
        /\ _observed' = [_observed EXCEPT !.remaining = _observed.remaining - 1]
    BY <2>1 DEF Reserve, LeftAfter
  <2>3. _observed' = [remaining |-> _observed.remaining - 1, reset_at |-> _observed.reset_at]
    BY <2>1, <2>2 DEF Limit
  <2>4. Sent' = Sent \cup {c} /\ c \notin Sent
    BY <1>1, <1>2 DEF Sent
  <2>5. Cardinality(Sent') = Cardinality(Sent) + 1 /\ Cardinality(Sent) \in Nat
    BY <2>4, Counts
  <2>6. _observed' # Unknown
    BY <2>1, <2>2, <2>3 DEF ProviderLimits, Limit
  <2> QED BY <1>0, <2>1, <2>2, <2>3, <2>5, <2>6 DEF Covered, Typed, Limit, ProviderLimits
<1>6. AllowedIsTaken'
  BY <1>0, <1>1 DEF AllowedIsTaken
<1> QED BY <1>3, <1>4, <1>5, <1>6 DEF AdmissionInv

\* A call arrives: one less is on its way, one more is taken, since there was room for it.
LEMMA ArriveKeeps ==
  ASSUME ProviderLimits, AdmissionInv, NEW c \in Calls, Arrive(c)
  PROVE  AdmissionInv'
<1>0. Typed /\ Undisturbed /\ Covered /\ AllowedIsTaken
  BY DEF AdmissionInv
<1>1. PICK headers \in {Unknown, [remaining |-> Granted - taken', reset |-> left]} :
        call' = [call EXCEPT ![c].stage = "answered", ![c].headers = headers]
  BY DEF Arrive
<1>2. /\ call[c].stage = "sent" /\ taken' = (IF taken < Granted THEN taken + 1 ELSE taken)
      /\ surprised' = (surprised \/ (sure /\ taken = Granted))
      /\ UNCHANGED <<now, left, _observed, _requests, sure>>
  BY DEF Arrive
<1>3. \A d \in Calls : call[d] \in [stage : Stages, headers : {Unknown} \cup Headers, alone : BOOLEAN]
  BY <1>0 DEF Typed
<1>4. taken' \in 0..Granted /\ Granted - taken' \in Nat /\ left \in Nat
  BY <1>0, <1>2 DEF Typed, ProviderLimits
<1>5. /\ call'[c].stage = "answered" /\ call'[c].headers = headers /\ call'[c].alone = call[c].alone
      /\ \A d \in Calls \ {c} : call'[d] = call[d]
  BY <1>0, <1>1, <1>3 DEF Typed
<1>6. Sent' = Sent \ {c} /\ c \in Sent /\ Under' = Under /\ c \in Under
  BY <1>2, <1>5 DEF Sent, Under
<1>7. sure => /\ taken < Granted
              /\ Cardinality(Sent') = Cardinality(Sent) - 1 /\ Cardinality(Sent) \in Nat \ {0}
  <2>1. Cardinality(Sent') = Cardinality(Sent) - 1 /\ Cardinality(Sent) \in Nat \ {0}
    BY <1>6, Counts
  <2>2. sure => _observed.remaining \in Nat /\ _observed.remaining + Cardinality(Sent) + taken <= Granted
    BY <1>0, Known DEF Covered, Limit
  <2> QED BY <1>0, <2>1, <2>2 DEF Typed, ProviderLimits
<1>8. Typed'
  <2>1. headers \in {Unknown} \cup Headers
    BY <1>1, <1>4 DEF Headers
  <2>2. call' \in [Calls -> [stage : Stages, headers : {Unknown} \cup Headers, alone : BOOLEAN]]
    BY <1>1, <1>0, <2>1 DEF Typed, Stages
  <2>3. surprised' \in BOOLEAN
    BY <1>2
  <2> QED BY <1>0, <1>2, <1>4, <2>2, <2>3 DEF Typed
<1>9. Undisturbed'
  <2>1. ASSUME NEW d \in Calls \ {c} PROVE ~call'[d].alone
    <3>1. call[d].alone => Under = {d}
      BY <1>0 DEF Undisturbed
    <3> QED BY <1>5, <1>6, <3>1
  <2>2. call'[c].alone => Under' = {c}
    BY <1>0, <1>5, <1>6 DEF Undisturbed
  <2>3. headers # Unknown => headers.remaining = Granted - taken' /\ headers.reset >= left'
    BY <1>1, <1>2, <1>4
  <2> QED BY <1>5, <2>1, <2>2, <2>3 DEF Undisturbed
<1>10. Covered'
  <2>1. sure => _observed.remaining \in Nat /\ _observed.remaining + Cardinality(Sent) + taken <= Granted
    BY <1>0, Known DEF Covered, Limit
  <2>2. sure => _observed.remaining + Cardinality(Sent') + taken' <= Granted
    BY <1>0, <1>2, <1>7, <2>1 DEF Typed, ProviderLimits
  <2> QED BY <1>0, <1>2, <2>2 DEF Covered
<1>11. AllowedIsTaken'
  BY <1>0, <1>2, <1>7 DEF AllowedIsTaken, Typed, ProviderLimits
<1> QED BY <1>8, <1>9, <1>10, <1>11 DEF AdmissionInv

\* Headers are read: those of a call that was alone say what is left while nothing is on its way.
LEMMA ObserveKeeps ==
  ASSUME ProviderLimits, AdmissionInv, NEW c \in Calls, observe(c)
  PROVE  AdmissionInv'
<1>0. Typed /\ Undisturbed /\ Covered /\ AllowedIsTaken
  BY DEF AdmissionInv
<1>1. /\ call[c].stage = "answered" /\ call[c].headers # Unknown
      /\ _observed' = Observed(call[c].headers) /\ sure' = call[c].alone
      /\ call' = [call EXCEPT ![c] = None]
      /\ UNCHANGED <<now, left, taken, surprised>>
  BY DEF observe
<1>2. \A d \in Calls : call[d] \in [stage : Stages, headers : {Unknown} \cup Headers, alone : BOOLEAN]
  BY <1>0 DEF Typed
<1>3. call[c].headers \in Headers
  BY <1>1, <1>2
<1>4. /\ _observed' = [remaining |-> call[c].headers.remaining, reset_at |-> now + call[c].headers.reset]
      /\ _observed' \in Limit
  BY <1>0, <1>1, <1>3 DEF Observed, Headers, Limit, Typed
<1>5. call'[c] = None /\ \A d \in Calls \ {c} : call'[d] = call[d]
  BY <1>0, <1>1 DEF Typed
<1>6. Typed'
  <2>1. call' \in [Calls -> [stage : Stages, headers : {Unknown} \cup Headers, alone : BOOLEAN]]
    BY <1>0, <1>1 DEF Typed, None, Stages
  <2>2. sure' \in BOOLEAN
    BY <1>1, <1>2
  <2> QED BY <1>0, <1>1, <1>4, <2>1, <2>2 DEF Typed
<1>7. Undisturbed'
  <2>1. ASSUME NEW d \in Calls \ {c} PROVE ~call'[d].alone
    <3>1. call[d].alone => Under = {d}
      BY <1>0 DEF Undisturbed
    <3>2. c \in Under
      BY <1>1 DEF Under
    <3> QED BY <1>5, <3>1, <3>2
  <2>2. ~call'[c].alone
    BY <1>5 DEF None
  <2> QED BY <2>1, <2>2 DEF Undisturbed
<1>8. Covered'
  <2> SUFFICES ASSUME call[c].alone
               PROVE  /\ _observed' # Unknown /\ _observed'.reset_at >= now + left
                      /\ _observed'.remaining + Cardinality(Sent') + taken <= Granted
    BY <1>1 DEF Covered
  <2>1. /\ Under = {c} /\ call[c].headers.remaining = Granted - taken
        /\ call[c].headers.reset >= left
    BY <1>0, <1>1 DEF Undisturbed
  <2>2. Sent' = {}
    BY <1>1, <1>5, <2>1 DEF Sent, Under, None
  <2>3. Cardinality(Sent') = 0
    BY <2>2, FS_EmptySet
  <2>4. _observed' # Unknown
    BY <1>4 DEF ProviderLimits, Limit
  <2> QED BY <1>0, <1>3, <1>4, <2>1, <2>3, <2>4 DEF Typed, Headers, ProviderLimits
<1>9. AllowedIsTaken'
  BY <1>0, <1>1 DEF AllowedIsTaken
<1> QED BY <1>6, <1>7, <1>8, <1>9 DEF AdmissionInv

\* A call ends with nothing learnt: it may have been taken or not.
LEMMA OverKeeps ==
  ASSUME ProviderLimits, AdmissionInv, NEW c \in Calls, Over(c)
  PROVE  AdmissionInv'
<1>0. Typed /\ Undisturbed /\ Covered /\ AllowedIsTaken
  BY DEF AdmissionInv
<1>1. /\ call[c].stage # "none" /\ call' = [call EXCEPT ![c] = None]
      /\ UNCHANGED <<now, left, _observed, taken, sure, surprised>>
  BY DEF Over
<1>2. call'[c] = None /\ \A d \in Calls \ {c} : call'[d] = call[d]
  BY <1>0, <1>1 DEF Typed
<1>3. Typed'
  <2>1. call' \in [Calls -> [stage : Stages, headers : {Unknown} \cup Headers, alone : BOOLEAN]]
    BY <1>0, <1>1 DEF Typed, None, Stages
  <2> QED BY <1>0, <1>1, <2>1 DEF Typed
<1>4. Undisturbed'
  <2>1. ASSUME NEW d \in Calls \ {c} PROVE ~call'[d].alone
    <3>1. call[d].alone => Under = {d}
      BY <1>0 DEF Undisturbed
    <3>2. c \in Under
      BY <1>1 DEF Under
    <3> QED BY <1>2, <3>1, <3>2
  <2>2. ~call'[c].alone
    BY <1>2 DEF None
  <2> QED BY <2>1, <2>2 DEF Undisturbed
<1>5. Covered'
  <2>1. Sent' = IF c \in Sent THEN Sent \ {c} ELSE Sent
    BY <1>2 DEF Sent, None
  <2>2. /\ Cardinality(Sent) \in Nat /\ Cardinality(Sent') \in Nat
        /\ Cardinality(Sent') <= Cardinality(Sent)
    BY <2>1, Counts
  <2>3. sure => _observed.remaining \in Nat /\ _observed.remaining + Cardinality(Sent) + taken <= Granted
    BY <1>0, Known DEF Covered, Limit
  <2>4. sure => _observed.remaining + Cardinality(Sent') + taken <= Granted
    BY <1>0, <2>2, <2>3 DEF Typed, ProviderLimits
  <2> QED BY <1>0, <1>1, <2>4 DEF Covered
<1>6. AllowedIsTaken'
  BY <1>0, <1>1 DEF AllowedIsTaken
<1> QED BY <1>3, <1>4, <1>5, <1>6 DEF AdmissionInv

\* A second passes; with a new window everything known of the last is dropped.
LEMMA TickKeeps ==
  ASSUME ProviderLimits, AdmissionInv, Tick
  PROVE  AdmissionInv'
<1>0. Typed /\ Undisturbed /\ Covered /\ AllowedIsTaken
  BY DEF AdmissionInv
<1>1. /\ now' = now + 1 /\ left' = (IF left = 1 THEN Window ELSE left - 1)
      /\ taken' = (IF left = 1 THEN 0 ELSE taken) /\ sure' = (sure /\ ~(left = 1))
      /\ call' = [c \in Calls |-> [call[c] EXCEPT !.alone = @ /\ ~(left = 1)]]
      /\ UNCHANGED <<_observed, surprised>>
  BY DEF Tick
<1>2. \A d \in Calls : call[d] \in [stage : Stages, headers : {Unknown} \cup Headers, alone : BOOLEAN]
  BY <1>0 DEF Typed
<1>3. \A d \in Calls : /\ call'[d].stage = call[d].stage /\ call'[d].headers = call[d].headers
                       /\ call'[d].alone = (call[d].alone /\ ~(left = 1))
  BY <1>1, <1>2
<1>4. Under' = Under /\ Sent' = Sent
  BY <1>3 DEF Under, Sent
<1>5. left' \in 1..Window /\ taken' \in 0..Granted /\ now' \in Nat
  BY <1>0, <1>1 DEF Typed, ProviderLimits
<1>6. left # 1 => now' + left' = now + left /\ left' < left
  BY <1>0, <1>1 DEF Typed, ProviderLimits
<1>7. Typed'
  <2>1. call' \in [Calls -> [stage : Stages, headers : {Unknown} \cup Headers, alone : BOOLEAN]]
    BY <1>1, <1>2
  <2>2. sure' \in BOOLEAN
    BY <1>1
  <2> QED BY <1>0, <1>1, <1>5, <2>1, <2>2 DEF Typed
<1>8. Undisturbed'
  <2> SUFFICES ASSUME NEW d \in Calls, call'[d].alone
               PROVE  /\ Under = {d}
                      /\ call[d].headers # Unknown =>
                            /\ call[d].stage = "answered"
                            /\ call[d].headers.remaining = Granted - taken'
                            /\ call[d].headers.reset >= left'
    BY <1>3, <1>4 DEF Undisturbed
  <2>1. call[d].alone /\ left # 1
    BY <1>3
  <2>2. /\ Under = {d}
        /\ call[d].headers # Unknown =>
              /\ call[d].stage = "answered"
              /\ call[d].headers.remaining = Granted - taken /\ call[d].headers.reset >= left
    BY <1>0, <2>1 DEF Undisturbed
  <2>3. call[d].headers # Unknown => call[d].headers.reset \in Nat
    BY <1>2 DEF Headers
  <2>4. left \in Nat /\ left' \in Nat /\ taken' = taken
    BY <1>0, <1>1, <1>5, <2>1 DEF Typed
  <2> QED BY <1>6, <2>1, <2>2, <2>3, <2>4
<1>9. Covered'
  <2>1. sure' => sure /\ left # 1 /\ taken' = taken
    BY <1>1
  <2> QED BY <1>0, <1>1, <1>4, <1>6, <2>1 DEF Covered
<1>10. AllowedIsTaken'
  BY <1>0, <1>1 DEF AllowedIsTaken
<1> QED BY <1>7, <1>8, <1>9, <1>10 DEF AdmissionInv

LEMMA AdmissionStepInv == ProviderLimits /\ AdmissionInv /\ [AdmissionNext]_admissionVars => AdmissionInv'
<1> SUFFICES ASSUME ProviderLimits, AdmissionInv, [AdmissionNext]_admissionVars PROVE AdmissionInv'
  OBVIOUS
<1>1. ASSUME NEW c \in Calls, Refuse(c) \/ Reserve(c) \/ Arrive(c) \/ observe(c) \/ Over(c)
      PROVE  AdmissionInv'
  BY <1>1, RefuseKeeps, ReserveKeeps, ArriveKeeps, ObserveKeeps, OverKeeps
<1>2. CASE Tick
  BY <1>2, TickKeeps
<1>3. CASE UNCHANGED admissionVars
  BY <1>3 DEF admissionVars, AdmissionInv, Typed, Undisturbed, Covered, AllowedIsTaken, Under, Sent
<1> QED BY <1>1, <1>2, <1>3 DEF AdmissionNext

\* A call the ledger allows while what the headers left is sure is never turned away, however many
\* threads call at a time and whatever the provider grants (ProviderAdmissionLedger.reserve and
\* observe).
THEOREM AllowedCallsAreTaken ==
  ASSUME ProviderLimits
  PROVE  AdmissionSpec => []AllowedIsTaken
<1>1. AdmissionInit => AdmissionInv
  BY AdmissionInitInv
<1>2. AdmissionInv /\ [AdmissionNext]_admissionVars => AdmissionInv'
  BY AdmissionStepInv
<1>3. AdmissionInv => AllowedIsTaken
  BY DEF AdmissionInv
<1> QED BY <1>1, <1>2, <1>3, PTL DEF AdmissionSpec

------------------------------------------------------------------------------
(* Discovery.                                                              *)

ProberStages == {"idle", "file", "pick", "send", "answer", "verdict", "release"}
Verdicts == [basis : {"none", "answer", "route"}, at : Nat, streak : 0..2]
JobParts == {"stage", "queue", "due", "pair", "got"}

ProbersTyped ==
    /\ clock \in Nat
    /\ row \in [Pairs -> Verdicts] /\ bench \in [Pairs -> Verdicts] /\ DOMAIN refused = Pairs
    /\ DOMAIN job = Probers /\ DOMAIN run = Processes
    /\ \A w \in Probers : DOMAIN job[w] = JobParts /\ job[w].stage \in ProberStages

\* A prober at work has the lock of its process; past "file", that of the home as well.
LocksHeld ==
    \A w \in Probers :
        /\ job[w].stage # "idle" => run[Process(w)] = w
        /\ job[w].stage \notin {"idle", "file"} => flock = w

\* The verdict on record knows how often in a row, and when last, its pair was refused.
StreaksCount ==
    \A mp \in Pairs :
        /\ row[mp].basis = "route" => row[mp].streak # 0
        /\ refused[mp] = IF row[mp].basis = "route" THEN [n |-> row[mp].streak, at |-> row[mp].at]
                         ELSE [n |-> 0, at |-> 0]

\* A refusal that a cycle is about to ask about again is as old as its streak demands.
AskedInTime(mp) == row[mp].basis = "route" => benchmark_result_is_aged(row[mp])

\* What a cycle has left to ask about one model, and what it is asking.
CycleIsTimely(j) ==
    /\ j.stage \in {"send", "answer", "verdict"} =>
          /\ j.due \in Seq(Profiles)
          /\ \A i, k \in 1..Len(j.due) : i # k => j.due[i] # j.due[k]
          /\ \A i \in 1..Len(j.due) : <<j.pair[1], j.due[i]>> \in Pairs /\ AskedInTime(<<j.pair[1], j.due[i]>>)
    /\ j.stage \in {"answer", "verdict"} =>
          /\ j.pair \in Pairs /\ j.pair = <<j.pair[1], j.pair[2]>>
          /\ \A i \in 1..Len(j.due) : j.due[i] # j.pair[2]
    /\ j.stage = "answer" => AskedInTime(j.pair)
    /\ j.stage = "verdict" => j.got \in Verdicts /\ j.got.basis \in {"answer", "route"}

\* A benchmark reaches no verdict that is a refusal of its route.
BenchesJudge == \A w \in Benchmarks : job[w].stage = "verdict" => job[w].got \in Verdicts /\ job[w].got.basis = "answer"

DiscoveryInv ==
    /\ ProbersTyped /\ LocksHeld /\ StreaksCount /\ HistoriesAgree
    /\ CycleIsTimely(job["cycle"]) /\ BenchesJudge /\ RefusalsConverge

LEMMA ProberParts ==
  /\ DOMAIN Resting = JobParts /\ Resting.stage = "idle" /\ NoRow \in Verdicts
  /\ "cycle" \in Probers /\ Benchmarks \subseteq Probers /\ "cycle" \notin Benchmarks
  /\ NoProber \notin Probers /\ \A w \in Probers : Process(w) \in Processes
BY DiscoveryConstants DEF Resting, JobParts, NoRow, Verdicts, Probers, Benchmarks, Process, Processes

\* A streak is counted up to two.
LEMMA StreakOfTwo ==
  ASSUME NEW n \in 0..2
  PROVE  Min({n + 1, 2}) = IF n = 0 THEN 1 ELSE 2
<1> DEFINE H == {n + 1, 2}
<1>1. IsFiniteSet(H)
  <2>1. IsFiniteSet({n + 1}) /\ H = {n + 1} \cup {2}
    BY FS_Singleton
  <2> HIDE DEF H
  <2> QED BY <2>1, FS_AddElement
<1>2. H \subseteq Int /\ H # {}
  OBVIOUS
<1>3. Min(H) \in H /\ \A h \in H : Min(H) =< h
  <2> HIDE DEF H
  <2> QED BY <1>1, <1>2, LeastElement
<1>4. Min(H) \in {n + 1, 2} /\ Min(H) =< n + 1 /\ Min(H) =< 2
  <2> DEFINE m == Min(H)
  <2>1. m \in H /\ \A h \in H : m =< h
    BY <1>3
  <2> HIDE DEF m
  <2>2. m \in {n + 1, 2} /\ m =< n + 1 /\ m =< 2
    BY <2>1
  <2> QED BY <2>2 DEF m
<1> HIDE DEF H
<1>5. Min(H) = IF n = 0 THEN 1 ELSE 2
  BY <1>4
<1> QED BY <1>5 DEF H

\* The sequences of a finite set name each of its elements once.
LEMMA QueuesOf ==
  ASSUME NEW S, IsFiniteSet(S), NEW s \in SetToSeqs(S)
  PROVE  /\ s \in Seq(S)
         /\ \A i, k \in 1..Len(s) : i # k => s[i] # s[k]
<1>1. Cardinality(S) \in Nat
  BY FS_CardinalityType
<1>2. s \in [1..Cardinality(S) -> S] /\ \A i, k \in 1..Cardinality(S) : i # k => s[i] # s[k]
  BY DEF SetToSeqs
<1>3. s \in Seq(S) /\ Len(s) = Cardinality(S)
  BY <1>1, <1>2
<1> QED BY <1>2, <1>3

LEMMA FewProfiles == IsFiniteSet(Profiles)
<1> DEFINE f == [mp \in Pairs |-> mp[2]]
<1>1. f \in [Pairs -> Profiles] /\ \A p \in Profiles : \E mp \in Pairs : f[mp] = p
  BY DEF Profiles
<1> HIDE DEF f
<1> QED BY <1>1, DiscoveryConstants, FiniteImage

\* What a verdict changes: its own pair, whose streak is counted as the refusals on record are.
LEMMA VerdictRecorded ==
  ASSUME ProbersTyped, StreaksCount, HistoriesAgree,
         NEW mp, NEW got \in Verdicts, got.basis \in {"answer", "route"}, record_verified_capability(mp, got)
  PROVE  /\ row' \in [Pairs -> Verdicts] /\ bench' \in [Pairs -> Verdicts] /\ DOMAIN refused' = Pairs
         /\ StreaksCount' /\ HistoriesAgree'
         /\ \A k \in Pairs : k # mp => row'[k] = row[k]
         /\ got.basis = "answer" => \A k \in Pairs : row'[k] = row[k] \/ row'[k].basis = "answer"
<1> DEFINE s == consecutive_verdict_count(mp, got)
           counted == [got EXCEPT !.streak = s]
<1>1. /\ row' = [row EXCEPT ![mp] = counted] /\ bench' = ResultAnnotated(mp, got, s)
      /\ refused' = [refused EXCEPT ![mp] = IF got.basis = "route" THEN [n |-> Min({refused[mp].n + 1, 2}), at |-> got.at]
                                            ELSE [n |-> 0, at |-> 0]]
  BY DEF record_verified_capability
<1>2. \A k \in Pairs : /\ row[k] \in Verdicts /\ bench[k] \in Verdicts /\ row[k].streak \in 0..2
                       /\ row[k].basis = "route" => row[k].streak # 0
                       /\ refused[k] = IF row[k].basis = "route" THEN [n |-> row[k].streak, at |-> row[k].at]
                                       ELSE [n |-> 0, at |-> 0]
  BY DEF ProbersTyped, StreaksCount, Verdicts
<1>3. mp \in Pairs => /\ s \in 0..2
                      /\ got.basis = "route" => s # 0 /\ Min({refused[mp].n + 1, 2}) = s
                      /\ got.basis # "route" => s = 0
  <2> SUFFICES ASSUME mp \in Pairs
               PROVE  /\ s \in 0..2
                      /\ got.basis = "route" => s # 0 /\ Min({refused[mp].n + 1, 2}) = s
                      /\ got.basis # "route" => s = 0
    OBVIOUS
  <2>1. CASE got.basis # "route"
    BY <2>1 DEF consecutive_verdict_count
  <2>2. CASE got.basis = "route" /\ row[mp].basis = "route"
    <3>1. refused[mp] = [n |-> row[mp].streak, at |-> row[mp].at] /\ row[mp].streak \in 0..2 /\ row[mp].streak # 0
      BY <1>2, <2>2
    <3>4. refused[mp].n = row[mp].streak
      BY <3>1
    <3>2. Min({row[mp].streak + 1, 2}) = 2
      BY <3>1, StreakOfTwo
    <3>3. s = Min({row[mp].streak + 1, 2})
      BY <2>2 DEF consecutive_verdict_count
    <3> HIDE DEF s
    <3> QED BY <2>2, <3>1, <3>4, <3>2, <3>3
  <2>3. CASE got.basis = "route" /\ row[mp].basis # "route"
    <3>4. refused[mp] = [n |-> 0, at |-> 0]
      BY <1>2, <2>3
    <3>1. refused[mp].n = 0
      BY <3>4
    <3>2. Min({0 + 1, 2}) = 1
      BY StreakOfTwo
    <3>3. s = 1
      BY <2>3 DEF consecutive_verdict_count
    <3> HIDE DEF s
    <3> QED BY <2>3, <3>1, <3>2, <3>3
  <2> QED BY <2>1, <2>2, <2>3
<1> HIDE DEF s
<1>4. mp \in Pairs => counted \in Verdicts /\ counted.basis = got.basis /\ counted.at = got.at /\ counted.streak = s
  BY <1>3 DEF Verdicts
<1> HIDE DEF counted
<1>5. row' \in [Pairs -> Verdicts] /\ DOMAIN refused' = Pairs
  BY <1>1, <1>4 DEF ProbersTyped
<1>6. \A k \in Pairs : k # mp => row'[k] = row[k] /\ refused'[k] = refused[k]
  BY <1>1 DEF ProbersTyped
<1>7. mp \in Pairs => /\ row'[mp] = counted
                      /\ refused'[mp] = IF got.basis = "route" THEN [n |-> s, at |-> got.at] ELSE [n |-> 0, at |-> 0]
  BY <1>1, <1>3 DEF ProbersTyped
<1>8. StreaksCount'
  BY <1>2, <1>3, <1>4, <1>6, <1>7 DEF StreaksCount
<1>9. /\ bench' \in [Pairs -> Verdicts]
      /\ \A k \in Pairs : k # mp => bench'[k] = bench[k]
      /\ mp \in Pairs => \/ bench'[mp] = bench[mp] /\ (got.basis # "route" \/ bench[mp].basis # "route" \/ bench[mp].at # got.at)
                         \/ bench'[mp].streak = s
  <2>1. CASE mp \in Pairs /\ got.basis = "route" /\ bench[mp].basis = "route" /\ bench[mp].at = got.at
    <3>1. bench' = [bench EXCEPT ![mp].streak = s]
      BY <1>1, <2>1 DEF ResultAnnotated
    <3>2. [bench[mp] EXCEPT !.streak = s] \in Verdicts
      BY <1>2, <1>3, <2>1 DEF Verdicts
    <3>3. bench' = [bench EXCEPT ![mp] = [bench[mp] EXCEPT !.streak = s]]
      BY <3>1
    <3>4. [bench[mp] EXCEPT !.streak = s].streak = s
      BY <1>2, <2>1 DEF Verdicts
    <3> QED BY <3>2, <3>3, <3>4, <2>1 DEF ProbersTyped
  <2>2. CASE mp \in Pairs /\ ~(got.basis = "route" /\ bench[mp].basis = "route" /\ bench[mp].at = got.at)
    <3>1. bench' = bench
      BY <1>1, <2>2 DEF ResultAnnotated
    <3> QED BY <3>1, <2>2 DEF ProbersTyped
  <2>3. CASE mp \notin Pairs
    <3>1. bench' = bench
      BY <1>1, <2>3 DEF ResultAnnotated, ProbersTyped
    <3> QED BY <3>1, <2>3 DEF ProbersTyped
  <2> QED BY <2>1, <2>2, <2>3
<1>10. HistoriesAgree'
  <2> SUFFICES ASSUME NEW k \in Pairs, row'[k].basis = "route", bench'[k].basis = "route", row'[k].at = bench'[k].at
               PROVE  route_rejection_deserves_a_retry_soon(row'[k]) = route_rejection_deserves_a_retry_soon(bench'[k])
    BY DEF HistoriesAgree
  <2>1. CASE k # mp
    BY <2>1, <1>6, <1>9 DEF HistoriesAgree
  <2>2. CASE k = mp
    <3>1. row'[k].basis = got.basis /\ row'[k].at = got.at /\ row'[k].streak = s
      BY <2>2, <1>7, <1>4
    <3>2. bench'[k].streak = s
      BY <2>2, <3>1, <1>9
    <3> QED BY <3>1, <3>2 DEF route_rejection_deserves_a_retry_soon
  <2> QED BY <2>1, <2>2
<1>11. got.basis = "answer" => \A k \in Pairs : row'[k] = row[k] \/ row'[k].basis = "answer"
  BY <1>4, <1>6, <1>7
<1> QED BY <1>5, <1>6, <1>8, <1>9, <1>10, <1>11

\* Time and the verdicts of others leave what a cycle is about to ask in time.
LEMMA CycleStaysTimely ==
  ASSUME ProbersTyped, CycleIsTimely(job["cycle"]), job'["cycle"] = job["cycle"], clock' \in {clock, clock + 1},
         \A k \in Pairs : row'[k] = row[k] \/ row'[k].basis = "answer"
  PROVE  CycleIsTimely(job["cycle"])'
<1>1. ASSUME NEW k \in Pairs, AskedInTime(k) PROVE AskedInTime(k)'
  <2>1. row[k].at \in Nat /\ clock \in Nat
    BY DEF ProbersTyped, Verdicts
  <2>2. CASE row'[k] = row[k]
    BY <1>1, <2>1, <2>2, DiscoveryConstants DEF AskedInTime, benchmark_result_is_aged, route_rejection_deserves_a_retry_soon
  <2>3. CASE row'[k].basis = "answer"
    BY <2>3 DEF AskedInTime
  <2> QED BY <2>2, <2>3
<1> DEFINE j == job["cycle"]
<1>2. j' = j
  OBVIOUS
<1> HIDE DEF AskedInTime
<1> QED BY <1>1, <1>2 DEF CycleIsTimely
\* A prober that holds its locks moves on, and keeps them.
LEMMA ProberMoves ==
  ASSUME ProbersTyped, LocksHeld, NEW w \in Probers, job[w].stage \notin {"idle", "file"},
         NEW next, DOMAIN next = JobParts, next.stage \in ProberStages, Goes(w, next), run' = run, flock' = flock
  PROVE  /\ DOMAIN job' = Probers /\ DOMAIN run' = Processes
         /\ \A v \in Probers : DOMAIN job'[v] = JobParts /\ job'[v].stage \in ProberStages
         /\ LocksHeld'
         /\ job'[w] = next /\ \A v \in Probers : v # w => job'[v] = job[v]
<1>1. job'[w] = next /\ DOMAIN job' = Probers /\ \A v \in Probers : v # w => job'[v] = job[v]
  BY DEF Goes, ProbersTyped
<1>2. LocksHeld'
  BY <1>1 DEF LocksHeld
<1>3. \A v \in Probers : DOMAIN job'[v] = JobParts /\ job'[v].stage \in ProberStages
  BY <1>1 DEF ProbersTyped
<1> QED BY <1>1, <1>2, <1>3 DEF ProbersTyped

\* The verdicts of a benchmark are not the cycle's, nor the cycle's a benchmark's.
LEMMA BenchesStay ==
  ASSUME BenchesJudge, \A w \in Benchmarks : job'[w] = job[w]
  PROVE  BenchesJudge'
BY DEF BenchesJudge

LEMMA StreaksStay ==
  ASSUME StreaksCount, row' = row, refused' = refused
  PROVE  StreaksCount'
BY DEF StreaksCount

LEMMA HistoriesStay ==
  ASSUME HistoriesAgree, row' = row, bench' = bench
  PROVE  HistoriesAgree'
BY DEF HistoriesAgree, route_rejection_deserves_a_retry_soon

------------------------------------------------------------------------------

LEMMA RequestsKeep ==
  ASSUME DiscoveryInv, \/ \E mp \in Pairs : ProductionFailure(mp)
                       \/ \E m \in Models : Cooling(m)
                       \/ ClockTicks
                       \/ UNCHANGED discoveryVars
  PROVE  DiscoveryInv'
<1> USE DEF DiscoveryInv
<1>1. ASSUME NEW mp \in Pairs, ProductionFailure(mp) PROVE DiscoveryInv'
  <2>1. /\ record_verified_capability(mp, Judged) /\ clock' = clock /\ run' = run /\ flock' = flock
        /\ job' = job /\ early' = early
    BY <1>1 DEF ProductionFailure
  <2>2. Judged \in Verdicts /\ Judged.basis = "answer"
    BY DEF ProbersTyped, Judged, Verdicts
  <2>3. /\ row' \in [Pairs -> Verdicts] /\ bench' \in [Pairs -> Verdicts] /\ DOMAIN refused' = Pairs
        /\ StreaksCount' /\ HistoriesAgree' /\ \A k \in Pairs : row'[k] = row[k] \/ row'[k].basis = "answer"
    <3> HIDE DEF Judged
    <3>1. Judged.basis \in {"answer", "route"}
      BY <2>2
    <3> QED BY <2>1, <2>2, <3>1, VerdictRecorded
  <2>4. ProbersTyped'
    BY <2>1, <2>3 DEF ProbersTyped
  <2>5. CycleIsTimely(job["cycle"])'
    BY <2>1, <2>3, CycleStaysTimely
  <2>6. LocksHeld' /\ BenchesJudge' /\ RefusalsConverge'
    BY <2>1 DEF LocksHeld, BenchesJudge, RefusalsConverge
  <2> QED BY <2>3, <2>4, <2>5, <2>6
<1>2. ASSUME row' = row, bench' = bench, run' = run, flock' = flock, job' = job, refused' = refused, early' = early,
             clock' \in {clock, clock + 1}
      PROVE  DiscoveryInv'
  <2>1. ProbersTyped'
    BY <1>2 DEF ProbersTyped
  <2>2. CycleIsTimely(job["cycle"])'
    BY <1>2, CycleStaysTimely
  <2>3. LocksHeld' /\ BenchesJudge' /\ RefusalsConverge' /\ StreaksCount' /\ HistoriesAgree'
    BY <1>2, StreaksStay, HistoriesStay DEF LocksHeld, BenchesJudge, RefusalsConverge
  <2> QED BY <2>1, <2>2, <2>3
<1>3. ASSUME NEW m \in Models, Cooling(m) PROVE DiscoveryInv'
  BY <1>3, <1>2 DEF Cooling, history
<1>4. ASSUME ClockTicks PROVE DiscoveryInv'
  BY <1>4, <1>2 DEF ClockTicks, history, stored
<1>5. ASSUME UNCHANGED discoveryVars PROVE DiscoveryInv'
  BY <1>5, <1>2 DEF discoveryVars
<1> QED BY <1>1, <1>3, <1>4, <1>5

\* Nothing is being asked, nor about to be.
Quiet(j) == DOMAIN j = JobParts /\ j.stage \in {"idle", "file", "pick", "release"}

\* What a step about the locks alone has to show.
LEMMA OnlyLocks ==
  ASSUME DiscoveryInv, clock' = clock, UNCHANGED stored, UNCHANGED history, LocksHeld',
         DOMAIN job' = Probers, DOMAIN run' = Processes,
         \A w \in Probers : job'[w] = job[w] \/ Quiet(job'[w])
  PROVE  DiscoveryInv'
<1>1. row' = row /\ bench' = bench /\ refused' = refused /\ early' = early
  BY DEF stored, history
<1> USE DEF Quiet
<1>2. ProbersTyped'
  BY <1>1 DEF DiscoveryInv, ProbersTyped, ProberStages
<1>3. CycleIsTimely(job["cycle"])'
  <2>1. CASE job'["cycle"] = job["cycle"]
    BY <2>1, <1>1, CycleStaysTimely DEF DiscoveryInv
  <2>2. CASE Quiet(job'["cycle"])
    BY <2>2 DEF CycleIsTimely
  <2> QED BY <2>1, <2>2, ProberParts
<1>4. BenchesJudge'
  BY ProberParts DEF DiscoveryInv, BenchesJudge
<1>5. StreaksCount' /\ HistoriesAgree' /\ RefusalsConverge'
  BY <1>1, StreaksStay, HistoriesStay DEF DiscoveryInv, RefusalsConverge
<1> QED BY <1>2, <1>3, <1>4, <1>5 DEF DiscoveryInv

LEMMA LocksKeep ==
  ASSUME DiscoveryInv, \/ \E w \in Probers : TakeRunLock(w) \/ FileLockHeld(w) \/ TakeFileLock(w) \/ Release(w)
                       \/ \E proc \in Processes : ProcessDies(proc)
  PROVE  DiscoveryInv'
<1>0. ProbersTyped /\ LocksHeld
  BY DEF DiscoveryInv
<1>1. ASSUME NEW w \in Probers, TakeRunLock(w) PROVE DiscoveryInv'
  <2> DEFINE k == [Resting EXCEPT !.stage = "file"]
  <2>1. /\ job[w].stage = "idle" /\ run[Process(w)] = NoProber /\ run' = [run EXCEPT ![Process(w)] = w]
        /\ job' = [job EXCEPT ![w] = k] /\ clock' = clock /\ UNCHANGED stored /\ flock' = flock /\ UNCHANGED history
    BY <1>1 DEF TakeRunLock, Goes
  <2>2. DOMAIN k = JobParts /\ k.stage = "file"
    BY DEF Resting, JobParts
  <2> HIDE DEF k
  <2>3. DOMAIN job' = Probers /\ DOMAIN run' = Processes /\ job'[w] = k /\ \A v \in Probers : v # w => job'[v] = job[v]
    BY <2>1, <1>0 DEF ProbersTyped
  <2>4. LocksHeld'
    <3> SUFFICES ASSUME NEW v \in Probers
                 PROVE  /\ job'[v].stage # "idle" => run'[Process(v)] = v
                        /\ job'[v].stage \notin {"idle", "file"} => flock' = v
      BY DEF LocksHeld
    <3>1. CASE v = w
      BY <3>1, <2>1, <2>2, <2>3, <1>0, ProberParts DEF ProbersTyped
    <3>2. CASE v # w
      BY <3>2, <2>1, <2>3, <1>0, ProberParts DEF ProbersTyped, LocksHeld
    <3> QED BY <3>1, <3>2
  <2>5. \A v \in Probers : job'[v] = job[v] \/ Quiet(job'[v])
    BY <2>2, <2>3 DEF Quiet
  <2> QED BY <2>1, <2>2, <2>3, <2>4, <2>5, OnlyLocks
<1>2. ASSUME NEW w \in Probers, FileLockHeld(w) PROVE DiscoveryInv'
  <2>1. /\ job[w].stage = "file" /\ run' = [run EXCEPT ![Process(w)] = NoProber]
        /\ job' = [job EXCEPT ![w] = Resting] /\ clock' = clock /\ UNCHANGED stored /\ flock' = flock
        /\ UNCHANGED history
    BY <1>2 DEF FileLockHeld, Goes
  <2>3. DOMAIN job' = Probers /\ DOMAIN run' = Processes /\ job'[w] = Resting /\ \A v \in Probers : v # w => job'[v] = job[v]
    BY <2>1, <1>0 DEF ProbersTyped
  <2>4. LocksHeld'
    <3> SUFFICES ASSUME NEW v \in Probers
                 PROVE  /\ job'[v].stage # "idle" => run'[Process(v)] = v
                        /\ job'[v].stage \notin {"idle", "file"} => flock' = v
      BY DEF LocksHeld
    <3>1. CASE v = w
      BY <3>1, <2>3, ProberParts
    <3>2. CASE v # w
      BY <3>2, <2>1, <2>3, <1>0, ProberParts DEF ProbersTyped, LocksHeld
    <3> QED BY <3>1, <3>2
  <2>5. \A v \in Probers : job'[v] = job[v] \/ Quiet(job'[v])
    BY <2>3, ProberParts DEF Quiet
  <2> QED BY <2>1, <2>3, <2>4, <2>5, OnlyLocks
<1>3. ASSUME NEW w \in Probers, TakeFileLock(w) PROVE DiscoveryInv'
  <2>1. PICK k : /\ DOMAIN k = JobParts /\ k.stage \in {"pick", "release"} /\ job' = [job EXCEPT ![w] = k]
    <3>1. CASE w = "cycle"
      <4>1. PICK ms, q : Goes(w, [Resting EXCEPT !.stage = IF ms = {} THEN "release" ELSE "pick", !.queue = q])
        BY <1>3, <3>1 DEF TakeFileLock, Benchmarks
      <4> DEFINE k == [Resting EXCEPT !.stage = IF ms = {} THEN "release" ELSE "pick", !.queue = q]
      <4>2. DOMAIN k = JobParts /\ k.stage \in {"pick", "release"}
        BY DEF Resting, JobParts
      <4>3. job' = [job EXCEPT ![w] = k]
        BY <4>1 DEF Goes
      <4> HIDE DEF k
      <4> QED BY <4>2, <4>3
    <3>2. CASE w \in Benchmarks
      <4>1. PICK p, q : Goes(w, [Resting EXCEPT !.stage = "pick", !.queue = q, !.due = <<p>>])
        BY <1>3, <3>2 DEF TakeFileLock, Benchmarks
      <4> DEFINE k == [Resting EXCEPT !.stage = "pick", !.queue = q, !.due = <<p>>]
      <4>2. DOMAIN k = JobParts /\ k.stage \in {"pick", "release"}
        BY DEF Resting, JobParts
      <4>3. job' = [job EXCEPT ![w] = k]
        BY <4>1 DEF Goes
      <4> HIDE DEF k
      <4> QED BY <4>2, <4>3
    <3> QED BY <3>1, <3>2 DEF Probers
  <2>2. /\ job[w].stage = "file" /\ flock = NoProber /\ flock' = w /\ clock' = clock /\ UNCHANGED stored /\ run' = run
        /\ UNCHANGED history
    BY <1>3 DEF TakeFileLock, FileLockFree
  <2>3. DOMAIN job' = Probers /\ DOMAIN run' = Processes /\ job'[w] = k /\ \A v \in Probers : v # w => job'[v] = job[v]
    BY <2>1, <2>2, <1>0 DEF ProbersTyped
  <2>4. LocksHeld'
    <3> SUFFICES ASSUME NEW v \in Probers
                 PROVE  /\ job'[v].stage # "idle" => run'[Process(v)] = v
                        /\ job'[v].stage \notin {"idle", "file"} => flock' = v
      BY DEF LocksHeld
    <3>1. CASE v = w
      BY <3>1, <2>2, <2>3, <1>0 DEF LocksHeld
    <3>2. CASE v # w
      BY <3>2, <2>2, <2>3, <1>0, ProberParts DEF LocksHeld
    <3> QED BY <3>1, <3>2
  <2>5. \A v \in Probers : job'[v] = job[v] \/ Quiet(job'[v])
    BY <2>1, <2>3 DEF Quiet
  <2> QED BY <2>1, <2>2, <2>3, <2>4, <2>5, OnlyLocks
<1>4. ASSUME NEW w \in Probers, Release(w) PROVE DiscoveryInv'
  <2>1. /\ job[w].stage = "release" /\ run' = [run EXCEPT ![Process(w)] = NoProber] /\ flock' = NoProber
        /\ job' = [job EXCEPT ![w] = Resting] /\ clock' = clock /\ UNCHANGED stored /\ UNCHANGED history
    BY <1>4 DEF Release, Goes
  <2>3. DOMAIN job' = Probers /\ DOMAIN run' = Processes /\ job'[w] = Resting /\ \A v \in Probers : v # w => job'[v] = job[v]
    BY <2>1, <1>0 DEF ProbersTyped
  <2>4. LocksHeld'
    <3> SUFFICES ASSUME NEW v \in Probers
                 PROVE  /\ job'[v].stage # "idle" => run'[Process(v)] = v
                        /\ job'[v].stage \notin {"idle", "file"} => flock' = v
      BY DEF LocksHeld
    <3>1. CASE v = w
      BY <3>1, <2>3, ProberParts
    <3>2. CASE v # w
      BY <3>2, <2>1, <2>3, <1>0, ProberParts DEF ProbersTyped, LocksHeld
    <3> QED BY <3>1, <3>2
  <2>5. \A v \in Probers : job'[v] = job[v] \/ Quiet(job'[v])
    BY <2>3, ProberParts DEF Quiet
  <2> QED BY <2>1, <2>3, <2>4, <2>5, OnlyLocks
<1>5. ASSUME NEW proc \in Processes, ProcessDies(proc) PROVE DiscoveryInv'
  <2> DEFINE gone == {w \in Probers : Process(w) = proc}
  <2>1. /\ run' = [run EXCEPT ![proc] = NoProber] /\ flock' = IF flock \in gone THEN NoProber ELSE flock
        /\ job' = [w \in Probers |-> IF w \in gone THEN Resting ELSE job[w]]
        /\ clock' = clock /\ UNCHANGED stored /\ UNCHANGED history
    BY <1>5 DEF ProcessDies
  <2>3. /\ DOMAIN job' = Probers /\ DOMAIN run' = Processes
        /\ \A w \in Probers : job'[w] = IF w \in gone THEN Resting ELSE job[w]
    BY <2>1, <1>0 DEF ProbersTyped
  <2>4. LocksHeld'
    BY <2>1, <2>3, <1>0, ProberParts DEF ProbersTyped, LocksHeld
  <2>5. \A v \in Probers : job'[v] = job[v] \/ Quiet(job'[v])
    BY <2>3, ProberParts DEF Quiet
  <2> QED BY <2>1, <2>3, <2>4, <2>5, OnlyLocks
<1> QED BY <1>1, <1>2, <1>3, <1>4, <1>5
------------------------------------------------------------------------------

\* What a step of the cycle that reaches no verdict has to show.
LEMMA CycleAlone ==
  ASSUME DiscoveryInv, job["cycle"].stage \notin {"idle", "file"}, NEW k, DOMAIN k = JobParts, k.stage \in ProberStages,
         Goes("cycle", k), UNCHANGED <<clock, row, run, flock, refused>>, ~early',
         bench' \in [Pairs -> Verdicts], HistoriesAgree', CycleIsTimely(k)
  PROVE  DiscoveryInv'
<1>1. /\ DOMAIN job' = Probers /\ DOMAIN run' = Processes
      /\ \A v \in Probers : DOMAIN job'[v] = JobParts /\ job'[v].stage \in ProberStages
      /\ LocksHeld' /\ job'["cycle"] = k /\ \A v \in Probers : v # "cycle" => job'[v] = job[v]
  <2>1. run' = run /\ flock' = flock
    OBVIOUS
  <2> QED BY <2>1, ProberMoves, ProberParts DEF DiscoveryInv
<1>2. ProbersTyped'
  BY <1>1 DEF DiscoveryInv, ProbersTyped
<1>3. StreaksCount' /\ RefusalsConverge' /\ BenchesJudge'
  BY <1>1, StreaksStay, ProberParts DEF DiscoveryInv, RefusalsConverge, BenchesJudge
<1>4. CycleIsTimely(job["cycle"])'
  BY <1>1 DEF CycleIsTimely, AskedInTime, benchmark_result_is_aged
<1> QED BY <1>1, <1>2, <1>3, <1>4 DEF DiscoveryInv

\* A cycle with nothing left of a model has nothing to ask too soon.
LEMMA NothingAsked ==
  ASSUME NEW k, k.stage \in {"pick", "release"}
  PROVE  CycleIsTimely(k)
BY DEF CycleIsTimely

LEMMA PickKeeps ==
  ASSUME DiscoveryInv, PickModel
  PROVE  DiscoveryInv'
<1> DEFINE j == job["cycle"]
<1>1. /\ j.stage = "pick" /\ DOMAIN j = JobParts /\ UNCHANGED <<clock, row, run, flock, refused>> /\ bench' = bench
      /\ ~early'
  BY ProberParts DEF PickModel, DiscoveryInv, ProbersTyped, Cycle, stored, history, RefusalsConverge
<1>2. bench' \in [Pairs -> Verdicts] /\ HistoriesAgree'
  BY <1>1, HistoriesStay DEF DiscoveryInv, ProbersTyped
<1>3. CASE j.queue = <<>>
  <2> DEFINE k == [Resting EXCEPT !.stage = "release"]
  <2>1. Goes("cycle", k) /\ DOMAIN k = JobParts /\ k.stage = "release"
    BY <1>3 DEF PickModel, Cycle, Resting, JobParts
  <2> HIDE DEF k
  <2>2. k.stage \in ProberStages /\ CycleIsTimely(k) /\ j.stage \notin {"idle", "file"}
    BY <2>1, <1>1, NothingAsked DEF ProberStages
  <2> QED BY <2>1, <2>2, <1>1, <1>2, CycleAlone
<1>4. CASE j.queue # <<>>
  <2> DEFINE m == Head(j.queue)
             dues == IF m \in models_needing_discovery THEN model_due_capabilities(m) ELSE {}
  <2>1. PICK due \in SetToSeqs(dues) :
           Goes("cycle", [j EXCEPT !.stage = IF due = <<>> THEN "pick" ELSE "send", !.queue = Tail(j.queue),
                                   !.due = due, !.pair = IF due = <<>> THEN <<>> ELSE <<m>>])
    BY <1>4 DEF PickModel, Cycle
  <2> DEFINE k == [j EXCEPT !.stage = IF due = <<>> THEN "pick" ELSE "send", !.queue = Tail(j.queue),
                            !.due = due, !.pair = IF due = <<>> THEN <<>> ELSE <<m>>]
  <2>2. Goes("cycle", k)
    BY <2>1
  <2>3. DOMAIN k = JobParts /\ k.due = due
    BY <1>1 DEF JobParts
  <2>4. CASE due = <<>>
    <3>1. k.stage = "pick"
      BY <1>1, <2>4 DEF JobParts
    <3> HIDE DEF k
    <3>2. k.stage \in ProberStages /\ CycleIsTimely(k) /\ j.stage \notin {"idle", "file"}
      BY <3>1, <1>1, NothingAsked DEF ProberStages
    <3> QED BY <2>2, <2>3, <3>2, <1>1, <1>2, CycleAlone
  <2>5. CASE due # <<>>
    <3>1. k.stage = "send" /\ k.pair = <<m>>
      BY <1>1, <2>5 DEF JobParts
    <3>2. dues \subseteq {p \in Profiles : <<m, p>> \in Pairs /\ Due(<<m, p>>)}
      BY DEF model_due_capabilities
    <3>3. IsFiniteSet(dues)
      <4> HIDE DEF dues
      <4>1. dues \subseteq Profiles
        BY <3>2
      <4> QED BY <4>1, FewProfiles, FS_Subset
    <3>4. due \in Seq(dues) /\ \A a, b \in 1..Len(due) : a # b => due[a] # due[b]
      <4> HIDE DEF dues
      <4> QED BY <3>3, QueuesOf
    <3>5. \A a \in 1..Len(due) : due[a] \in Profiles /\ <<m, due[a]>> \in Pairs /\ Due(<<m, due[a]>>)
      <4> HIDE DEF dues, m
      <4>1. \A a \in 1..Len(due) : due[a] \in dues
        BY <3>4
      <4> QED BY <4>1, <3>2
    <3>6. due \in Seq(Profiles)
      <4> HIDE DEF dues
      <4>1. dues \subseteq Profiles
        BY <3>2
      <4> QED BY <4>1, <3>4
    <3>7. ASSUME NEW mp, Due(mp) PROVE AskedInTime(mp)
      BY <3>7 DEF Due, AskedInTime, NoRow
    <3> HIDE DEF k, dues, m
    <3>8. k.pair[1] = m
      BY <3>1
    <3>9. CycleIsTimely(k)
      BY <2>3, <3>1, <3>8, <3>4, <3>5, <3>6, <3>7 DEF CycleIsTimely
    <3>10. k.stage \in ProberStages /\ j.stage \notin {"idle", "file"}
      BY <3>1, <1>1 DEF ProberStages
    <3> QED BY <2>2, <2>3, <3>9, <3>10, <1>1, <1>2, CycleAlone
  <2> QED BY <2>4, <2>5
<1> QED BY <1>3, <1>4

\* The rest of a sequence without repetitions.
LEMMA RestOf ==
  ASSUME NEW S, NEW s \in Seq(S), s # <<>>, \A a, b \in 1..Len(s) : a # b => s[a] # s[b]
  PROVE  /\ Tail(s) \in Seq(S) /\ Head(s) = s[1] /\ 1 \in 1..Len(s)
         /\ \A a \in 1..Len(Tail(s)) : a + 1 \in 1..Len(s) /\ Tail(s)[a] = s[a + 1] /\ Tail(s)[a] # s[1]
         /\ \A a, b \in 1..Len(Tail(s)) : a # b => Tail(s)[a] # Tail(s)[b]
<1>1. Len(s) \in Nat \ {0} /\ Len(Tail(s)) = Len(s) - 1 /\ Tail(s) \in Seq(S) /\ Head(s) = s[1]
  OBVIOUS
<1>2. \A a \in 1..Len(Tail(s)) : a + 1 \in 1..Len(s) /\ Tail(s)[a] = s[a + 1] /\ a + 1 # 1
  BY <1>1
<1>3. 1 \in 1..Len(s)
  BY <1>1
<1>4. \A a \in 1..Len(Tail(s)) : Tail(s)[a] # s[1]
  BY <1>2, <1>3
<1>5. \A a, b \in 1..Len(Tail(s)) : a # b => a + 1 # b + 1
  BY <1>1
<1> QED BY <1>1, <1>2, <1>3, <1>4, <1>5

LEMMA SendKeeps ==
  ASSUME DiscoveryInv, SendProbe
  PROVE  DiscoveryInv'
<1> DEFINE j == job["cycle"]
           mp == <<j.pair[1], Head(j.due)>>
<1>1. /\ j.stage = "send" /\ DOMAIN j = JobParts /\ UNCHANGED <<clock, row, run, flock, refused>> /\ bench' = bench
      /\ ~early /\ CycleIsTimely(j)
  BY ProberParts DEF SendProbe, DiscoveryInv, ProbersTyped, Cycle, stored, RefusalsConverge
<1>2. bench' \in [Pairs -> Verdicts] /\ HistoriesAgree' /\ j.stage \notin {"idle", "file"}
  BY <1>1, HistoriesStay DEF DiscoveryInv, ProbersTyped
<1>3. /\ j.due \in Seq(Profiles)
      /\ \A i, k \in 1..Len(j.due) : i # k => j.due[i] # j.due[k]
      /\ \A i \in 1..Len(j.due) : <<j.pair[1], j.due[i]>> \in Pairs /\ AskedInTime(<<j.pair[1], j.due[i]>>)
  BY <1>1 DEF CycleIsTimely
<1>4. j.due # <<>> =>
        /\ Tail(j.due) \in Seq(Profiles) /\ mp \in Pairs /\ AskedInTime(mp)
        /\ \A i, k \in 1..Len(Tail(j.due)) : i # k => Tail(j.due)[i] # Tail(j.due)[k]
        /\ \A i \in 1..Len(Tail(j.due)) :
              /\ Tail(j.due)[i] # Head(j.due)
              /\ <<j.pair[1], Tail(j.due)[i]>> \in Pairs /\ AskedInTime(<<j.pair[1], Tail(j.due)[i]>>)
  <2> SUFFICES ASSUME j.due # <<>>
               PROVE  /\ Tail(j.due) \in Seq(Profiles) /\ mp \in Pairs /\ AskedInTime(mp)
                      /\ \A i, k \in 1..Len(Tail(j.due)) : i # k => Tail(j.due)[i] # Tail(j.due)[k]
                      /\ \A i \in 1..Len(Tail(j.due)) :
                            /\ Tail(j.due)[i] # Head(j.due)
                            /\ <<j.pair[1], Tail(j.due)[i]>> \in Pairs
                            /\ AskedInTime(<<j.pair[1], Tail(j.due)[i]>>)
    OBVIOUS
  <2> DEFINE d == j.due
  <2>1. d \in Seq(Profiles) /\ d # <<>> /\ \A i, k \in 1..Len(d) : i # k => d[i] # d[k]
    BY <1>3
  <2> HIDE DEF d
  <2>2. /\ Tail(d) \in Seq(Profiles) /\ Head(d) = d[1] /\ 1 \in 1..Len(d)
        /\ \A a \in 1..Len(Tail(d)) : a + 1 \in 1..Len(d) /\ Tail(d)[a] = d[a + 1] /\ Tail(d)[a] # d[1]
        /\ \A a, b \in 1..Len(Tail(d)) : a # b => Tail(d)[a] # Tail(d)[b]
    BY <2>1, RestOf
  <2>3. \A i \in 1..Len(d) : <<j.pair[1], d[i]>> \in Pairs /\ AskedInTime(<<j.pair[1], d[i]>>)
    BY <1>3 DEF d
  <2>4. mp = <<j.pair[1], d[1]>> /\ j.due = d
    BY <2>2 DEF d
  <2> HIDE DEF j, mp
  <2> QED BY <2>2, <2>3, <2>4
<1>5. CASE j.due # <<>> /\ Goes("cycle", [j EXCEPT !.stage = "answer", !.due = Tail(j.due), !.pair = mp])
           /\ early' = (early \/ (refused[mp].n = 2 /\ clock - refused[mp].at <= Ttl))
  <2> DEFINE k == [j EXCEPT !.stage = "answer", !.due = Tail(j.due), !.pair = mp]
  <2>1. Goes("cycle", k) /\ DOMAIN k = JobParts /\ k.stage = "answer" /\ k.due = Tail(j.due) /\ k.pair = mp
    BY <1>5, <1>1 DEF JobParts
  <2>2. mp = <<mp[1], mp[2]>> /\ mp[1] = j.pair[1] /\ mp[2] = Head(j.due)
    OBVIOUS
  <2>3. k.stage \in ProberStages
    BY <2>1 DEF ProberStages
  <2>4. CycleIsTimely(k)
    <3> HIDE DEF k, mp, j
    <3> QED BY <1>5, <1>4, <2>1, <2>2 DEF CycleIsTimely
  <2>5. ~early'
    <3> HIDE DEF k, mp, j
    <3>1. mp \in Pairs /\ AskedInTime(mp)
      BY <1>4, <1>5
    <3>2. CASE row[mp].basis = "route"
      <4>1. refused[mp] = [n |-> row[mp].streak, at |-> row[mp].at]
        BY <3>1, <3>2 DEF DiscoveryInv, StreaksCount
      <4>2. refused[mp].n = row[mp].streak /\ refused[mp].at = row[mp].at
        BY <4>1
      <4>3. clock \in Nat /\ row[mp].at \in Nat
        BY <3>1 DEF DiscoveryInv, ProbersTyped, Verdicts
      <4>4. row[mp].streak = 2 => clock - row[mp].at > Ttl
        BY <3>1, <3>2 DEF AskedInTime, benchmark_result_is_aged, route_rejection_deserves_a_retry_soon
      <4>5. ~(refused[mp].n = 2 /\ clock - refused[mp].at <= Ttl)
        BY <4>2, <4>3, <4>4, DiscoveryConstants
      <4> QED BY <4>5, <1>1, <1>5
    <3>3. CASE row[mp].basis # "route"
      <4>1. refused[mp] = [n |-> 0, at |-> 0]
        BY <3>1, <3>3 DEF DiscoveryInv, StreaksCount
      <4>2. refused[mp].n # 2
        BY <4>1
      <4> QED BY <4>2, <1>1, <1>5
    <3> QED BY <3>2, <3>3
  <2> HIDE DEF k, mp
  <2> QED BY <2>1, <2>3, <2>4, <2>5, <1>1, <1>2, CycleAlone
<1>6. CASE j.due # <<>> /\ Goes("cycle", [j EXCEPT !.due = Tail(j.due)]) /\ early' = early
  <2> DEFINE k == [j EXCEPT !.due = Tail(j.due)]
  <2>1. Goes("cycle", k) /\ DOMAIN k = JobParts /\ k.stage = "send" /\ k.due = Tail(j.due) /\ k.pair = j.pair
    BY <1>6, <1>1 DEF JobParts
  <2>2. k.stage \in ProberStages
    BY <2>1 DEF ProberStages
  <2>3. CycleIsTimely(k)
    <3> HIDE DEF k, mp, j
    <3> QED BY <1>6, <1>4, <2>1 DEF CycleIsTimely
  <2> HIDE DEF k
  <2> QED BY <2>1, <2>2, <2>3, <1>1, <1>2, <1>6, CycleAlone
<1>7. CASE Goes("cycle", [j EXCEPT !.stage = "pick", !.due = <<>>, !.pair = <<>>]) /\ early' = early
  <2> DEFINE k == [j EXCEPT !.stage = "pick", !.due = <<>>, !.pair = <<>>]
  <2>1. Goes("cycle", k) /\ DOMAIN k = JobParts /\ k.stage = "pick"
    BY <1>7, <1>1 DEF JobParts
  <2> HIDE DEF k
  <2>2. k.stage \in ProberStages /\ CycleIsTimely(k)
    BY <2>1, NothingAsked DEF ProberStages
  <2> QED BY <2>1, <2>2, <1>1, <1>2, <1>7, CycleAlone
<1> QED BY <1>5, <1>6, <1>7 DEF SendProbe, Cycle
\* The result of a probe is no repetition of the one on record.
LEMMA ResultRecorded ==
  ASSUME ProbersTyped, HistoriesAgree, NEW mp, NEW got \in Verdicts, record_benchmark_result(mp, got), row' = row,
         mp \in Pairs /\ got.basis = "route" /\ row[mp].basis = "route" => row[mp].at # got.at
  PROVE  bench' \in [Pairs -> Verdicts] /\ HistoriesAgree'
<1>1. bench' = [bench EXCEPT ![mp] = got]
  BY DEF record_benchmark_result
<1>2. bench' \in [Pairs -> Verdicts] /\ \A k \in Pairs : bench'[k] = IF k = mp THEN got ELSE bench[k]
  BY <1>1 DEF ProbersTyped
<1>3. HistoriesAgree'
  BY <1>2 DEF HistoriesAgree, route_rejection_deserves_a_retry_soon
<1> QED BY <1>2, <1>3

LEMMA AnswerKeeps ==
  ASSUME DiscoveryInv, ProbeAnswered
  PROVE  DiscoveryInv'
<1> DEFINE j == job["cycle"]
<1>1. PICK got \in {Judged, Refusal} :
         /\ record_benchmark_result(j.pair, got)
         /\ Goes("cycle", [j EXCEPT !.stage = "verdict", !.got = got])
  BY DEF ProbeAnswered, Cycle
<1>2. /\ j.stage = "answer" /\ DOMAIN j = JobParts /\ UNCHANGED <<clock, row, run, flock, refused>>
      /\ ~early' /\ CycleIsTimely(j)
  BY ProberParts DEF ProbeAnswered, DiscoveryInv, ProbersTyped, Cycle, history, RefusalsConverge
<1>3. got \in Verdicts /\ got.basis \in {"answer", "route"} /\ got.at = clock
  BY DEF DiscoveryInv, ProbersTyped, Judged, Refusal, Verdicts
<1>4. j.pair \in Pairs /\ row[j.pair].basis = "route" => row[j.pair].at # clock
  <2> SUFFICES ASSUME j.pair \in Pairs, row[j.pair].basis = "route" PROVE row[j.pair].at # clock
    OBVIOUS
  <2>1. benchmark_result_is_aged(row[j.pair])
    BY <1>2 DEF CycleIsTimely, AskedInTime
  <2>2. clock \in Nat /\ row[j.pair].at \in Nat
    BY DEF DiscoveryInv, ProbersTyped, Verdicts
  <2>3. clock - row[j.pair].at > 0
    BY <2>1, <2>2, DiscoveryConstants DEF benchmark_result_is_aged
  <2> QED BY <2>2, <2>3
<1>5. bench' \in [Pairs -> Verdicts] /\ HistoriesAgree'
  <2>1. ProbersTyped /\ HistoriesAgree /\ row' = row
    BY <1>2 DEF DiscoveryInv
  <2>2. record_benchmark_result(j.pair, got)
    BY <1>1
  <2>3. j.pair \in Pairs /\ got.basis = "route" /\ row[j.pair].basis = "route" => row[j.pair].at # got.at
    BY <1>3, <1>4
  <2> HIDE DEF j
  <2> QED BY <2>1, <2>2, <2>3, <1>3, ResultRecorded
<1> DEFINE k == [j EXCEPT !.stage = "verdict", !.got = got]
<1>6. Goes("cycle", k) /\ DOMAIN k = JobParts /\ k.stage = "verdict" /\ k.got = got /\ k.due = j.due /\ k.pair = j.pair
  BY <1>1, <1>2 DEF JobParts
<1> HIDE DEF k
<1>7. CycleIsTimely(k)
  BY <1>2, <1>3, <1>6 DEF CycleIsTimely
<1>8. k.stage \in ProberStages /\ j.stage \notin {"idle", "file"}
  BY <1>2, <1>6 DEF ProberStages
<1> QED BY <1>2, <1>5, <1>6, <1>7, <1>8, CycleAlone

LEMMA BlockedKeeps ==
  ASSUME DiscoveryInv, ProbeBlocked
  PROVE  DiscoveryInv'
<1> DEFINE j == job["cycle"]
           k == [j EXCEPT !.stage = "pick", !.due = <<>>, !.pair = <<>>]
<1>1. /\ j.stage = "answer" /\ DOMAIN j = JobParts /\ UNCHANGED <<clock, row, run, flock, refused>> /\ bench' = bench
      /\ ~early' /\ Goes("cycle", k)
  BY ProberParts DEF ProbeBlocked, DiscoveryInv, ProbersTyped, Cycle, history, RefusalsConverge
<1>2. bench' \in [Pairs -> Verdicts] /\ HistoriesAgree'
  BY <1>1, HistoriesStay DEF DiscoveryInv, ProbersTyped
<1>3. DOMAIN k = JobParts /\ k.stage = "pick"
  BY <1>1 DEF JobParts
<1> HIDE DEF k
<1>4. k.stage \in ProberStages /\ CycleIsTimely(k) /\ j.stage \notin {"idle", "file"}
  BY <1>1, <1>3, NothingAsked DEF ProberStages
<1> QED BY <1>1, <1>2, <1>3, <1>4, CycleAlone

LEMMA VerdictKeeps ==
  ASSUME DiscoveryInv, RecordVerdict
  PROVE  DiscoveryInv'
<1> DEFINE j == job["cycle"]
           k == [j EXCEPT !.stage = "send", !.got = NoRow]
<1>1. /\ j.stage = "verdict" /\ DOMAIN j = JobParts /\ CycleIsTimely(j)
      /\ clock' = clock /\ run' = run /\ flock' = flock /\ early' = early
      /\ record_verified_capability(j.pair, j.got) /\ Goes("cycle", k)
  BY ProberParts DEF RecordVerdict, DiscoveryInv, ProbersTyped, Cycle
<1>2. /\ j.got \in Verdicts /\ j.got.basis \in {"answer", "route"} /\ j.pair \in Pairs
      /\ j.pair = <<j.pair[1], j.pair[2]>> /\ \A i \in 1..Len(j.due) : j.due[i] # j.pair[2]
      /\ j.due \in Seq(Profiles)
      /\ \A i, q \in 1..Len(j.due) : i # q => j.due[i] # j.due[q]
      /\ \A i \in 1..Len(j.due) : <<j.pair[1], j.due[i]>> \in Pairs /\ AskedInTime(<<j.pair[1], j.due[i]>>)
  BY <1>1 DEF CycleIsTimely
<1>3. /\ row' \in [Pairs -> Verdicts] /\ bench' \in [Pairs -> Verdicts] /\ DOMAIN refused' = Pairs
      /\ StreaksCount' /\ HistoriesAgree'
      /\ \A mp \in Pairs : mp # j.pair => row'[mp] = row[mp]
  <2>1. ProbersTyped /\ StreaksCount /\ HistoriesAgree
    BY DEF DiscoveryInv
  <2> HIDE DEF j
  <2> QED BY <2>1, <1>1, <1>2, VerdictRecorded
<1>4. DOMAIN k = JobParts /\ k.stage = "send" /\ k.due = j.due /\ k.pair = j.pair
  BY <1>1 DEF JobParts
<1>5. /\ DOMAIN job' = Probers /\ DOMAIN run' = Processes
      /\ \A v \in Probers : DOMAIN job'[v] = JobParts /\ job'[v].stage \in ProberStages
      /\ LocksHeld' /\ job'["cycle"] = k /\ \A v \in Probers : v # "cycle" => job'[v] = job[v]
  <2>1. k.stage \in ProberStages /\ j.stage \notin {"idle", "file"}
    BY <1>1, <1>4 DEF ProberStages
  <2> HIDE DEF k
  <2> QED BY <2>1, <1>1, <1>4, ProberMoves, ProberParts DEF DiscoveryInv
<1> HIDE DEF k
<1>6. ProbersTyped'
  BY <1>1, <1>3, <1>5 DEF DiscoveryInv, ProbersTyped
<1>7. BenchesJudge' /\ RefusalsConverge'
  BY <1>1, <1>5, ProberParts DEF DiscoveryInv, BenchesJudge, RefusalsConverge
<1>8. ASSUME NEW mp \in Pairs, mp # j.pair, AskedInTime(mp) PROVE AskedInTime(mp)'
  BY <1>1, <1>3, <1>8 DEF AskedInTime, benchmark_result_is_aged, route_rejection_deserves_a_retry_soon
<1>9. \A i \in 1..Len(j.due) : <<j.pair[1], j.due[i]>> # j.pair
  BY <1>2
<1>10. job'["cycle"].stage = "send" /\ job'["cycle"].due = j.due /\ job'["cycle"].pair = j.pair
  BY <1>4, <1>5
<1>11. CycleIsTimely(job["cycle"])'
  <2> DEFINE p1 == j.pair[1]
             d == j.due
  <2>1. d \in Seq(Profiles) /\ \A i, q \in 1..Len(d) : i # q => d[i] # d[q]
    BY <1>2
  <2>2. \A i \in 1..Len(job'["cycle"].due) :
           <<job'["cycle"].pair[1], job'["cycle"].due[i]>> \in Pairs
           /\ AskedInTime(<<job["cycle"].pair[1], job["cycle"].due[i]>>)'
    BY <1>2, <1>8, <1>9, <1>10
  <2> HIDE DEF p1
  <2> QED BY <1>10, <2>1, <2>2 DEF CycleIsTimely
<1> QED BY <1>3, <1>5, <1>6, <1>7, <1>11 DEF DiscoveryInv

------------------------------------------------------------------------------

\* What a step of a benchmark has to show.
LEMMA BenchAlone ==
  ASSUME DiscoveryInv, NEW w \in Benchmarks, job[w].stage \notin {"idle", "file"},
         NEW k, DOMAIN k = JobParts, k.stage \in ProberStages,
         k.stage = "verdict" => k.got \in Verdicts /\ k.got.basis = "answer",
         Goes(w, k), UNCHANGED <<clock, run, flock, early>>,
         row' \in [Pairs -> Verdicts], bench' \in [Pairs -> Verdicts], DOMAIN refused' = Pairs,
         StreaksCount', HistoriesAgree', \A mp \in Pairs : row'[mp] = row[mp] \/ row'[mp].basis = "answer"
  PROVE  DiscoveryInv'
<1>1. /\ DOMAIN job' = Probers /\ DOMAIN run' = Processes
      /\ \A v \in Probers : DOMAIN job'[v] = JobParts /\ job'[v].stage \in ProberStages
      /\ LocksHeld' /\ job'[w] = k /\ \A v \in Probers : v # w => job'[v] = job[v]
  <2>1. run' = run /\ flock' = flock /\ w \in Probers
    BY ProberParts
  <2> QED BY <2>1, ProberMoves DEF DiscoveryInv
<1>2. job'["cycle"] = job["cycle"] /\ clock' \in {clock, clock + 1}
  BY <1>1, ProberParts
<1>3. CycleIsTimely(job["cycle"])'
  BY <1>2, CycleStaysTimely DEF DiscoveryInv
<1>4. ProbersTyped' /\ RefusalsConverge'
  BY <1>1 DEF DiscoveryInv, ProbersTyped, RefusalsConverge
<1>5. BenchesJudge'
  BY <1>1, ProberParts DEF DiscoveryInv, BenchesJudge
<1> QED BY <1>1, <1>3, <1>4, <1>5 DEF DiscoveryInv

LEMMA BenchmarksKeep ==
  ASSUME DiscoveryInv, NEW w \in Benchmarks, \/ BenchSend(w)
                                             \/ BenchAnswered(w)
                                             \/ BenchBlocked(w)
                                             \/ BenchVerdict(w)
  PROVE  DiscoveryInv'
<1> DEFINE j == job[w]
<1>0. /\ DOMAIN j = JobParts /\ ProbersTyped /\ StreaksCount /\ HistoriesAgree /\ Judged \in Verdicts
      /\ Judged.basis = "answer" /\ DOMAIN Resting = JobParts
      /\ row \in [Pairs -> Verdicts] /\ bench \in [Pairs -> Verdicts] /\ DOMAIN refused = Pairs
  BY ProberParts DEF DiscoveryInv, ProbersTyped, Judged, Verdicts
<1>1. CASE BenchSend(w)
  <2>1. /\ j.stage = "pick" /\ row' = row /\ bench' = bench /\ refused' = refused
        /\ UNCHANGED <<clock, run, flock, early>>
    BY <1>1 DEF BenchSend, stored, history
  <2>2. PICK k : DOMAIN k = JobParts /\ k.stage \in {"release", "pick", "answer"} /\ Goes(w, k)
    <3>1. CASE Goes(w, [Resting EXCEPT !.stage = "release"])
      <4> DEFINE k == [Resting EXCEPT !.stage = "release"]
      <4>1. DOMAIN k = JobParts /\ k.stage \in {"release", "pick", "answer"} /\ Goes(w, k)
        BY <1>0, <3>1 DEF JobParts
      <4> HIDE DEF k
      <4> QED BY <4>1
    <3>2. CASE Goes(w, [j EXCEPT !.queue = Tail(j.queue)])
      <4> DEFINE k == [j EXCEPT !.queue = Tail(j.queue)]
      <4>1. DOMAIN k = JobParts /\ k.stage \in {"release", "pick", "answer"} /\ Goes(w, k)
        BY <1>0, <2>1, <3>2 DEF JobParts
      <4> HIDE DEF k
      <4> QED BY <4>1
    <3>3. CASE Goes(w, [j EXCEPT !.stage = "answer", !.queue = Tail(j.queue), !.pair = <<Head(j.queue), j.due[1]>>])
      <4> DEFINE k == [j EXCEPT !.stage = "answer", !.queue = Tail(j.queue), !.pair = <<Head(j.queue), j.due[1]>>]
      <4>1. DOMAIN k = JobParts /\ k.stage \in {"release", "pick", "answer"} /\ Goes(w, k)
        BY <1>0, <3>3 DEF JobParts
      <4> HIDE DEF k
      <4> QED BY <4>1
    <3> QED BY <1>1, <3>1, <3>2, <3>3 DEF BenchSend
  <2>3. k.stage \in ProberStages /\ k.stage # "verdict" /\ j.stage \notin {"idle", "file"}
    BY <2>1, <2>2 DEF ProberStages
  <2>4. StreaksCount' /\ HistoriesAgree'
    BY <2>1, <1>0, StreaksStay, HistoriesStay
  <2> QED BY <2>1, <2>2, <2>3, <2>4, <1>0, BenchAlone
<1>2. CASE BenchAnswered(w) \/ BenchBlocked(w)
  <2>1. /\ j.stage = "answer" /\ row' = row /\ refused' = refused
        /\ UNCHANGED <<clock, run, flock, early>> /\ record_benchmark_result(j.pair, Judged)
    BY <1>2 DEF BenchAnswered, BenchBlocked, history
  <2>2. PICK k : /\ DOMAIN k = JobParts /\ Goes(w, k)
                 /\ k.stage = "pick" \/ (k.stage = "verdict" /\ k.got = Judged)
    <3>1. CASE Goes(w, [j EXCEPT !.stage = "verdict", !.got = Judged])
      <4> DEFINE k == [j EXCEPT !.stage = "verdict", !.got = Judged]
      <4>1. DOMAIN k = JobParts /\ k.stage = "verdict" /\ k.got = Judged /\ Goes(w, k)
        BY <1>0, <3>1 DEF JobParts
      <4> HIDE DEF k
      <4> QED BY <4>1
    <3>2. CASE Goes(w, [j EXCEPT !.stage = "pick", !.pair = <<>>])
      <4> DEFINE k == [j EXCEPT !.stage = "pick", !.pair = <<>>]
      <4>1. DOMAIN k = JobParts /\ k.stage = "pick" /\ Goes(w, k)
        BY <1>0, <3>2 DEF JobParts
      <4> HIDE DEF k
      <4> QED BY <4>1
    <3> QED BY <1>2, <3>1, <3>2 DEF BenchAnswered, BenchBlocked
  <2>3. /\ k.stage \in ProberStages /\ j.stage \notin {"idle", "file"}
        /\ k.stage = "verdict" => k.got \in Verdicts /\ k.got.basis = "answer"
    BY <2>1, <2>2, <1>0 DEF ProberStages
  <2>4. bench' \in [Pairs -> Verdicts] /\ HistoriesAgree'
    <3> HIDE DEF j
    <3> QED BY <2>1, <1>0, ResultRecorded
  <2>5. StreaksCount'
    BY <2>1, <1>0, StreaksStay
  <2> QED BY <2>1, <2>2, <2>3, <2>4, <2>5, <1>0, BenchAlone
<1>3. CASE BenchVerdict(w)
  <2>1. /\ j.stage = "verdict" /\ UNCHANGED <<clock, run, flock, early>> /\ record_verified_capability(j.pair, j.got)
    BY <1>3 DEF BenchVerdict
  <2>2. j.got \in Verdicts /\ j.got.basis = "answer"
    BY <2>1 DEF DiscoveryInv, BenchesJudge
  <2>3. PICK k : DOMAIN k = JobParts /\ k.stage \in {"release", "pick"} /\ Goes(w, k)
    <3>1. CASE Goes(w, [Resting EXCEPT !.stage = "release"])
      <4> DEFINE k == [Resting EXCEPT !.stage = "release"]
      <4>1. DOMAIN k = JobParts /\ k.stage \in {"release", "pick"} /\ Goes(w, k)
        BY <1>0, <3>1 DEF JobParts
      <4> HIDE DEF k
      <4> QED BY <4>1
    <3>2. CASE Goes(w, [j EXCEPT !.stage = "pick", !.pair = <<>>, !.got = NoRow])
      <4> DEFINE k == [j EXCEPT !.stage = "pick", !.pair = <<>>, !.got = NoRow]
      <4>1. DOMAIN k = JobParts /\ k.stage \in {"release", "pick"} /\ Goes(w, k)
        BY <1>0, <3>2 DEF JobParts
      <4> HIDE DEF k
      <4> QED BY <4>1
    <3> QED BY <1>3, <3>1, <3>2 DEF BenchVerdict
  <2>4. /\ row' \in [Pairs -> Verdicts] /\ bench' \in [Pairs -> Verdicts] /\ DOMAIN refused' = Pairs
        /\ StreaksCount' /\ HistoriesAgree' /\ \A mp \in Pairs : row'[mp] = row[mp] \/ row'[mp].basis = "answer"
    <3>1. j.got.basis \in {"answer", "route"}
      BY <2>2
    <3> HIDE DEF j
    <3> QED BY <2>1, <2>2, <3>1, <1>0, VerdictRecorded
  <2>5. k.stage \in ProberStages /\ k.stage # "verdict" /\ j.stage \notin {"idle", "file"}
    BY <2>1, <2>3 DEF ProberStages
  <2> QED BY <2>1, <2>3, <2>4, <2>5, BenchAlone
<1> QED BY <1>1, <1>2, <1>3

------------------------------------------------------------------------------

LEMMA DiscoveryBegins == DiscoveryInit => DiscoveryInv
<1> SUFFICES ASSUME DiscoveryInit PROVE DiscoveryInv
  OBVIOUS
<1>1. /\ clock = 0 /\ row = [mp \in Pairs |-> NoRow] /\ bench = [mp \in Pairs |-> NoRow]
      /\ run = [proc \in Processes |-> NoProber] /\ job = [w \in Probers |-> Resting]
      /\ refused = [mp \in Pairs |-> [n |-> 0, at |-> 0]] /\ early = FALSE
  BY DEF DiscoveryInit
<1>2. NoRow \in Verdicts /\ NoRow.basis = "none"
  BY ProberParts DEF NoRow
<1>3. \A w \in Probers : job[w] = Resting /\ DOMAIN job[w] = JobParts /\ job[w].stage = "idle"
  BY <1>1, ProberParts
<1>4. ProbersTyped
  BY <1>1, <1>2, <1>3 DEF ProbersTyped, ProberStages
<1>5. LocksHeld /\ BenchesJudge /\ CycleIsTimely(job["cycle"])
  BY <1>3, ProberParts DEF LocksHeld, BenchesJudge, CycleIsTimely
<1>6. StreaksCount /\ HistoriesAgree /\ RefusalsConverge
  BY <1>1, <1>2 DEF StreaksCount, HistoriesAgree, RefusalsConverge
<1> QED BY <1>4, <1>5, <1>6 DEF DiscoveryInv

LEMMA DiscoverySteps == DiscoveryInv /\ [DiscoveryNext]_discoveryVars => DiscoveryInv'
<1> SUFFICES ASSUME DiscoveryInv, [DiscoveryNext]_discoveryVars PROVE DiscoveryInv'
  OBVIOUS
<1>1. ASSUME NEW w \in Benchmarks, BenchSend(w) \/ BenchAnswered(w) \/ BenchBlocked(w) \/ BenchVerdict(w)
      PROVE  DiscoveryInv'
  BY <1>1, BenchmarksKeep
<1>2. ASSUME PickModel \/ SendProbe \/ ProbeAnswered \/ RecordVerdict \/ ProbeBlocked PROVE DiscoveryInv'
  BY <1>2, PickKeeps, SendKeeps, AnswerKeeps, VerdictKeeps, BlockedKeeps
<1> QED BY <1>1, <1>2, RequestsKeep, LocksKeep DEF DiscoveryNext

\* Refused probes are not repeated before their time, the two histories of a refused probe agree,
\* and only one prober sends at a time, for any number of models and profiles, whatever
\* benchmarks, requests and crashes come between (capability_discovery.py, auto_benchmark.py).
THEOREM DiscoverySettles == DiscoverySpec => []DiscoveryConverges
<1>1. DiscoveryInv => DiscoveryConverges
  <2>1. DiscoveryInv => OneProber
    BY DEF DiscoveryInv, LocksHeld, OneProber
  <2> QED BY <2>1 DEF DiscoveryInv, DiscoveryConverges
<1> QED BY DiscoveryBegins, DiscoverySteps, <1>1, PTL DEF DiscoverySpec

------------------------------------------------------------------------------
(* The allowance.                                                          *)

Schedules == {"day", "month"}
Budgets == {NoBudget} \cup {Grants[k] : k \in Accounts}
Meters == [window : ({"none"} \cup Schedules) \X Nat, spent : Nat]
CycleStages == {"idle", "model", "check", "send", "mark"}

AllowanceTyped ==
    /\ today \in Nat
    /\ account \in [key : Accounts, changing : BOOLEAN, raced : BOOLEAN]
    /\ file.budget \in Budgets /\ file.meter \in Meters /\ DOMAIN file = {"budget", "meter", "marker"}
    /\ DOMAIN cycle = {"stage", "weight", "state"} /\ cycle.stage \in CycleStages /\ cycle.weight \in Weights \cup {0}
    /\ refresh \in [on : BOOLEAN, knew : Budgets, found : Budgets, stale : BOOLEAN]
    /\ spent \in [Schedules -> Nat] /\ base \in Nat /\ over \in Nat

\* Of the window of now, the meter shows no more than left in it; a day on the meter is no day to come.
MeterIsPast ==
    /\ file.meter.window[1] = "day" => file.meter.window[2] <= today
    /\ \A p \in Schedules : file.meter.window = budget_window(p) => file.meter.spent <= spent[p]

\* The share is overdrawn once: while it is, the budget lets no probe through.
ShareIsSpent == over = 1 => ~probing_is_within_budget(file) /\ cycle.stage # "send"

\* What a refresh found is of the key configured, or what was known, unless the key changes meanwhile.
FoundOfAccount ==
    refresh.on /\ ~refresh.stale /\ ~account.changing =>
        refresh.found = refresh.knew \/ refresh.found.of = account.key

AllowanceInv ==
    /\ AllowanceTyped /\ MeterIsPast /\ ShareIsSpent /\ FoundOfAccount
    /\ StaysInShare /\ MeterCountsEveryCall /\ BudgetOfAccount

LEMMA BudgetParts ==
  /\ NoBudget \in Budgets /\ NoBudget.period = "day" /\ NoMeter \in Meters
  /\ \A b \in Budgets : b.period \in Schedules /\ b.share \in Nat
  /\ \A k \in Accounts : Grants[k] \in Budgets /\ Grants[k].of = k
BY AllowanceGrants DEF Budgets, NoBudget, NoMeter, Meters, Schedules

LEMMA NoRefresh ==
  /\ NotRefreshing \in [on : BOOLEAN, knew : Budgets, found : Budgets, stale : BOOLEAN]
  /\ ~NotRefreshing.on
<1>1. NoBudget \in Budgets
  BY BudgetParts
<1> HIDE DEF NoBudget
<1> QED BY <1>1 DEF NotRefreshing

LEMMA AllowanceBegins == AllowanceInit => AllowanceInv
<1> SUFFICES ASSUME AllowanceInit PROVE AllowanceInv
  OBVIOUS
<1> USE DEF AllowanceInit
<1>1. AllowanceTyped
  <2>1. /\ file.budget \in Budgets /\ file.meter \in Meters /\ DOMAIN file = {"budget", "meter", "marker"}
        /\ account \in [key : Accounts, changing : BOOLEAN, raced : BOOLEAN]
    BY BudgetParts
  <2>2. DOMAIN cycle = {"stage", "weight", "state"} /\ cycle.stage \in CycleStages /\ cycle.weight \in Weights \cup {0}
    BY DEF NoCycle, CycleStages
  <2>3. refresh \in [on : BOOLEAN, knew : Budgets, found : Budgets, stale : BOOLEAN]
    BY NoRefresh
  <2>4. spent \in [Schedules -> Nat] /\ today \in Nat /\ base \in Nat /\ over \in Nat
    BY DEF Schedules
  <2> QED BY <2>1, <2>2, <2>3, <2>4 DEF AllowanceTyped
<1>2. MeterIsPast /\ ShareIsSpent /\ FoundOfAccount /\ StaysInShare /\ BudgetOfAccount
  BY DEF MeterIsPast, ShareIsSpent, FoundOfAccount, StaysInShare, BudgetOfAccount, NoMeter, NotRefreshing, budget_window,
         Schedules
<1>3. MeterCountsEveryCall
  BY DEF MeterCountsEveryCall, provider_spend, NoMeter, NoBudget
<1> QED BY <1>1, <1>2, <1>3 DEF AllowanceInv

\* The meter reads no more than what left, whatever the budget.
LEMMA MeterReads ==
  ASSUME AllowanceTyped, MeterIsPast
  PROVE  /\ provider_spend(file) \in Nat /\ provider_spend(file) <= spent[file.budget.period]
         /\ file.budget.period \in Schedules /\ spent[file.budget.period] \in Nat
<1>1. file.budget.period \in Schedules /\ file.meter.spent \in Nat
  BY BudgetParts DEF AllowanceTyped, Meters
<1> QED BY <1>1 DEF AllowanceTyped, MeterIsPast, provider_spend, _current_window, Schedules

------------------------------------------------------------------------------

\* A call is counted where it left.
LEMMA CallCounts ==
  ASSUME AllowanceInv, NEW amount \in Nat, record_upstream_spend(amount), UNCHANGED <<today, base>>
  PROVE  /\ file'.budget = file.budget /\ file'.meter \in Meters /\ DOMAIN file' = {"budget", "meter", "marker"}
         /\ spent' \in [Schedules -> Nat]
         /\ MeterIsPast' /\ MeterCountsEveryCall'
         /\ ~probing_is_within_budget(file) => ~probing_is_within_budget(file)'
<1> USE DEF AllowanceInv
<1> DEFINE p == file.budget.period
           m == [window |-> budget_window(p), spent |-> provider_spend(file) + amount]
<1>1. file' = [file EXCEPT !.meter = m] /\ spent' = [day |-> spent.day + amount, month |-> spent.month + amount]
  BY DEF record_upstream_spend, record_provider_spend, _current_window
<1>2. /\ provider_spend(file) \in Nat /\ provider_spend(file) <= spent[p] /\ p \in Schedules
      /\ spent \in [Schedules -> Nat] /\ today \in Nat /\ base \in Nat
  BY MeterReads DEF AllowanceTyped
<1>3. m \in Meters /\ m.window = budget_window(p) /\ m.spent = provider_spend(file) + amount
  BY <1>2 DEF Meters, budget_window, Schedules
<1>4. file'.budget = file.budget /\ file'.meter = m /\ DOMAIN file' = {"budget", "meter", "marker"}
  BY <1>1 DEF AllowanceTyped
<1> HIDE DEF m
<1>5. spent' \in [Schedules -> Nat] /\ \A s \in Schedules : spent'[s] = spent[s] + amount
  BY <1>1, <1>2 DEF Schedules
<1>6. budget_window(p)' = budget_window(p) /\ budget_window("day")[1] = "day" /\ budget_window("day")[2] = today
      /\ budget_window("month")[1] = "month"
  BY <1>4 DEF budget_window
<1>7. MeterIsPast'
  <2>1. m.window[1] = "day" => m.window[2] <= today
    BY <1>2, <1>3, <1>6 DEF Schedules
  <2>2. ASSUME NEW s \in Schedules, m.window = budget_window(s) PROVE s = p
    BY <2>2, <1>2, <1>3 DEF Schedules, budget_window
  <2>3. \A s \in Schedules : m.window = budget_window(s) => m.spent <= spent'[s]
    BY <2>2, <1>2, <1>3, <1>5
  <2> QED BY <2>1, <2>3, <1>4 DEF MeterIsPast, budget_window
<1>8. provider_spend(file)' = provider_spend(file) + amount
  <2>1. provider_spend(file)' = (IF file'.meter.window = budget_window(p) THEN file'.meter.spent ELSE 0)
    BY <1>4, <1>6 DEF provider_spend, _current_window
  <2> HIDE DEF p
  <2> QED BY <2>1, <1>3, <1>4
<1>9. MeterCountsEveryCall'
  <2>1. provider_spend(file) \in (spent[p] - base)..spent[p]
    BY DEF MeterCountsEveryCall
  <2>2. spent'[p] = spent[p] + amount /\ spent[p] \in Nat
    BY <1>2, <1>5
  <2>3. provider_spend(file) + amount \in (spent'[p] - base)..spent'[p]
    BY <2>1, <2>2, <1>2
  <2> QED BY <2>3, <1>4, <1>8 DEF MeterCountsEveryCall
<1>10. ~probing_is_within_budget(file) => ~probing_is_within_budget(file)'
  <2>1. file.budget.share \in Nat
    BY BudgetParts DEF AllowanceTyped
  <2> QED BY <2>1, <1>2, <1>4, <1>8 DEF probing_is_within_budget
<1> QED BY <1>3, <1>4, <1>5, <1>7, <1>9, <1>10

LEMMA CallsKeep ==
  ASSUME AllowanceInv, \/ \E amount \in Weights : Call(amount)
                       \/ SpendProbe
  PROVE  AllowanceInv'
<1> USE DEF AllowanceInv
<1>1. ASSUME NEW amount \in Weights, Call(amount) PROVE AllowanceInv'
  <2>1. amount \in Nat /\ record_upstream_spend(amount) /\ UNCHANGED <<today, account, cycle, refresh, base, over>>
    BY <1>1, AllowanceGrants DEF Call
  <2>2. /\ file'.budget = file.budget /\ file'.meter \in Meters /\ DOMAIN file' = {"budget", "meter", "marker"}
        /\ spent' \in [Schedules -> Nat] /\ MeterIsPast' /\ MeterCountsEveryCall'
        /\ ~probing_is_within_budget(file) => ~probing_is_within_budget(file)'
    BY <2>1, CallCounts
  <2>3. AllowanceTyped'
    BY <2>1, <2>2 DEF AllowanceTyped
  <2>4. ShareIsSpent' /\ FoundOfAccount' /\ StaysInShare' /\ BudgetOfAccount'
    BY <2>1, <2>2 DEF ShareIsSpent, FoundOfAccount, StaysInShare, BudgetOfAccount
  <2> QED BY <2>2, <2>3, <2>4
<1>2. CASE SpendProbe
  <2>1. /\ cycle.stage = "send" /\ record_upstream_spend(cycle.weight) /\ cycle' = [cycle EXCEPT !.stage = "check"]
        /\ over' = (IF probing_is_within_budget(file) THEN over ELSE over + 1)
        /\ UNCHANGED <<today, account, refresh, base>>
    BY <1>2 DEF SpendProbe, CheckEach
  <2>2. cycle.weight \in Nat
    <3>1. cycle.weight \in Weights \cup {0}
      BY DEF AllowanceTyped
    <3>2. ASSUME NEW w \in Weights \cup {0} PROVE w \in Nat
      BY AllowanceGrants
    <3> QED BY <3>1, <3>2
  <2>3. /\ file'.budget = file.budget /\ file'.meter \in Meters /\ DOMAIN file' = {"budget", "meter", "marker"}
        /\ spent' \in [Schedules -> Nat] /\ MeterIsPast' /\ MeterCountsEveryCall'
        /\ ~probing_is_within_budget(file) => ~probing_is_within_budget(file)'
    BY <2>1, <2>2, CallCounts
  <2>4. over = 0
    BY <2>1 DEF ShareIsSpent, StaysInShare, AllowanceTyped
  <2>5. over' \in {0, 1} /\ (over' = 1 => ~probing_is_within_budget(file))
    BY <2>1, <2>4
  <2>6. DOMAIN cycle' = {"stage", "weight", "state"} /\ cycle'.stage = "check" /\ cycle'.weight = cycle.weight
    BY <2>1 DEF AllowanceTyped
  <2>7. AllowanceTyped'
    BY <2>1, <2>3, <2>5, <2>6 DEF AllowanceTyped, CycleStages
  <2>8. ShareIsSpent' /\ FoundOfAccount' /\ StaysInShare' /\ BudgetOfAccount'
    BY <2>1, <2>3, <2>5, <2>6 DEF ShareIsSpent, FoundOfAccount, StaysInShare, BudgetOfAccount
  <2> QED BY <2>3, <2>7, <2>8
<1> QED BY <1>1, <1>2

\* Another budget begins to be counted at what left so far, and nothing is overdrawn yet.
LEMMA BudgetStored ==
  ASSUME AllowanceInv, NEW b \in Budgets, StoreBudget(b), UNCHANGED <<today, spent>>
  PROVE  /\ file'.budget = b /\ file'.meter = file.meter /\ DOMAIN file' = {"budget", "meter", "marker"}
         /\ base' \in Nat /\ over' \in {0, 1}
         /\ MeterIsPast' /\ MeterCountsEveryCall' /\ StaysInShare'
         /\ over' = 1 => over = 1 /\ (probing_is_within_budget(file)' <=> probing_is_within_budget(file))
<1> USE DEF AllowanceInv
<1>1. /\ file' = [file EXCEPT !.budget = b]
      /\ base' = (IF b.period = file.budget.period THEN base ELSE spent[b.period])
      /\ over' = (IF b = file.budget THEN over ELSE 0)
  BY DEF StoreBudget
<1>2. file'.budget = b /\ file'.meter = file.meter /\ DOMAIN file' = {"budget", "meter", "marker"}
  BY <1>1 DEF AllowanceTyped
<1>3. b.period \in Schedules /\ base' \in Nat /\ over' \in {0, 1} /\ (over' = 1 => over = 1 /\ b = file.budget)
  BY <1>1, BudgetParts DEF AllowanceTyped, StaysInShare, Schedules
<1>4. MeterIsPast'
  BY <1>2 DEF MeterIsPast, budget_window
<1>5. MeterCountsEveryCall'
  <2>1. /\ spent' \in [Schedules -> Nat] /\ file'.meter.spent \in Nat /\ base \in Nat
        /\ \A s \in Schedules : file'.meter.window = budget_window(s)' => file'.meter.spent <= spent'[s]
    BY <1>2, <1>4 DEF AllowanceTyped, MeterIsPast, Meters
  <2>2. provider_spend(file)' = (IF file'.meter.window = budget_window(b.period)' THEN file'.meter.spent ELSE 0)
    BY <1>2 DEF provider_spend, _current_window, budget_window
  <2>3. CASE b.period = file.budget.period
    <3>1. provider_spend(file)' = provider_spend(file) /\ base' = base
      BY <1>1, <1>2, <2>3 DEF provider_spend, _current_window, budget_window
    <3> QED BY <3>1, <2>3, <1>2 DEF MeterCountsEveryCall
  <2>4. CASE b.period # file.budget.period
    <3>1. base' = spent[b.period] /\ spent[b.period] \in Nat
      BY <1>1, <1>3, <2>4 DEF AllowanceTyped
    <3>2. provider_spend(file)' \in 0..spent'[b.period]
      BY <2>1, <2>2, <1>3, <3>1
    <3> QED BY <3>1, <3>2, <1>2 DEF MeterCountsEveryCall
  <2> QED BY <2>3, <2>4
<1>6. over' = 1 => (probing_is_within_budget(file)' <=> probing_is_within_budget(file))
  BY <1>2, <1>3 DEF probing_is_within_budget, provider_spend, _current_window, budget_window
<1> QED BY <1>2, <1>3, <1>4, <1>5, <1>6 DEF StaysInShare

LEMMA BudgetsKeep ==
  ASSUME AllowanceInv, \/ RefreshRead
                       \/ RefreshStore
                       \/ invalidate_provider_budget
                       \/ \E k \in Accounts : store_provider_key(k)
  PROVE  AllowanceInv'
<1> USE DEF AllowanceInv
<1>1. CASE RefreshRead
  <2>1. PICK found \in {Grants[account.key], file.budget} :
           refresh' = [on |-> TRUE, knew |-> file.budget, found |-> found, stale |-> FALSE]
    BY <1>1 DEF RefreshRead
  <2>2. UNCHANGED <<today, account, file, cycle, spent, base, over>>
    BY <1>1 DEF RefreshRead
  <2>3. found \in Budgets /\ (found = file.budget \/ found.of = account.key)
    BY BudgetParts DEF AllowanceTyped
  <2>4. /\ refresh' \in [on : BOOLEAN, knew : Budgets, found : Budgets, stale : BOOLEAN]
        /\ refresh'.found = found /\ refresh'.knew = file.budget
    BY <2>1, <2>3 DEF AllowanceTyped
  <2>5. AllowanceTyped' /\ FoundOfAccount'
    BY <2>2, <2>3, <2>4 DEF AllowanceTyped, FoundOfAccount
  <2> QED BY <2>2, <2>5 DEF MeterIsPast, ShareIsSpent, StaysInShare, MeterCountsEveryCall, BudgetOfAccount,
             budget_window, provider_spend, probing_is_within_budget, _current_window
<1>2. CASE RefreshStore
  <2>1. refresh.on /\ refresh' = NotRefreshing /\ UNCHANGED <<today, cycle, spent>>
    BY <1>2 DEF RefreshStore
  <2>2. /\ refresh' \in [on : BOOLEAN, knew : Budgets, found : Budgets, stale : BOOLEAN] /\ ~refresh'.on
        /\ refresh.found \in Budgets /\ refresh.stale \in BOOLEAN
    BY <2>1, BudgetParts DEF NotRefreshing, AllowanceTyped
  <2>3. FoundOfAccount'
    BY <2>2 DEF FoundOfAccount
  <2>4. CASE refresh.found = refresh.knew
    <3>1. UNCHANGED <<file, base, over, account>>
      BY <1>2, <2>4 DEF RefreshStore
    <3> QED BY <2>1, <2>2, <2>3, <3>1 DEF AllowanceTyped, MeterIsPast, ShareIsSpent, StaysInShare, MeterCountsEveryCall,
               BudgetOfAccount, budget_window, provider_spend, probing_is_within_budget, _current_window
  <2>5. CASE refresh.found # refresh.knew
    <3>1. StoreBudget(refresh.found) /\ account' = [account EXCEPT !.raced = refresh.stale]
      BY <1>2, <2>5 DEF RefreshStore
    <3>2. /\ account' \in [key : Accounts, changing : BOOLEAN, raced : BOOLEAN] /\ account'.key = account.key
          /\ account'.changing = account.changing /\ account'.raced = refresh.stale
      BY <2>2, <3>1 DEF AllowanceTyped
    <3>3. /\ file'.budget = refresh.found /\ file'.meter = file.meter /\ DOMAIN file' = {"budget", "meter", "marker"}
          /\ base' \in Nat /\ over' \in {0, 1} /\ MeterIsPast' /\ MeterCountsEveryCall' /\ StaysInShare'
          /\ over' = 1 => over = 1 /\ (probing_is_within_budget(file)' <=> probing_is_within_budget(file))
      BY <2>1, <2>2, <3>1, BudgetStored
    <3>4. AllowanceTyped'
      BY <2>1, <2>2, <3>2, <3>3 DEF AllowanceTyped
    <3>5. ShareIsSpent'
      BY <2>1, <3>3 DEF ShareIsSpent
    <3>6. BudgetOfAccount'
      BY <2>1, <2>5, <3>2, <3>3 DEF BudgetOfAccount, FoundOfAccount
    <3> QED BY <2>3, <3>3, <3>4, <3>5, <3>6
  <2> QED BY <2>4, <2>5
<1>3. CASE invalidate_provider_budget
  <2>1. /\ account.changing /\ StoreBudget(NoBudget) /\ UNCHANGED <<today, cycle, spent>>
        /\ account' = [account EXCEPT !.changing = FALSE, !.raced = FALSE]
        /\ refresh' = [refresh EXCEPT !.stale = refresh.on]
    BY <1>3 DEF invalidate_provider_budget, drop_provider_budget_in_state
  <2>2. account' \in [key : Accounts, changing : BOOLEAN, raced : BOOLEAN]
    BY <2>1 DEF AllowanceTyped
  <2>3. /\ refresh' \in [on : BOOLEAN, knew : Budgets, found : Budgets, stale : BOOLEAN]
        /\ refresh'.on = refresh.on /\ refresh'.stale = refresh.on
    BY <2>1 DEF AllowanceTyped
  <2>4. /\ file'.budget = NoBudget /\ file'.meter = file.meter /\ DOMAIN file' = {"budget", "meter", "marker"}
        /\ base' \in Nat /\ over' \in {0, 1} /\ MeterIsPast' /\ MeterCountsEveryCall' /\ StaysInShare'
        /\ over' = 1 => over = 1 /\ (probing_is_within_budget(file)' <=> probing_is_within_budget(file))
    BY <2>1, BudgetParts, BudgetStored
  <2>5. AllowanceTyped'
    BY <2>1, <2>2, <2>3, <2>4, BudgetParts DEF AllowanceTyped
  <2>6. ShareIsSpent' /\ FoundOfAccount' /\ BudgetOfAccount'
    BY <2>1, <2>3, <2>4 DEF ShareIsSpent, FoundOfAccount, BudgetOfAccount
  <2> QED BY <2>4, <2>5, <2>6
<1>4. ASSUME NEW k \in Accounts, store_provider_key(k) PROVE AllowanceInv'
  <2>1. /\ account' = [account EXCEPT !.key = k, !.changing = TRUE]
        /\ UNCHANGED <<today, file, cycle, refresh, spent, base, over>>
    BY <1>4 DEF store_provider_key
  <2>2. account' \in [key : Accounts, changing : BOOLEAN, raced : BOOLEAN] /\ account'.changing
    BY <2>1 DEF AllowanceTyped
  <2>3. AllowanceTyped' /\ FoundOfAccount' /\ BudgetOfAccount'
    BY <2>1, <2>2 DEF AllowanceTyped, FoundOfAccount, BudgetOfAccount
  <2> QED BY <2>1, <2>3 DEF MeterIsPast, ShareIsSpent, StaysInShare, MeterCountsEveryCall,
             budget_window, provider_spend, probing_is_within_budget, _current_window
<1> QED BY <1>1, <1>2, <1>3, <1>4

\* A step of the cycle that spends nothing.
LEMMA CycleSpendsNothing ==
  ASSUME AllowanceInv, DOMAIN cycle' = {"stage", "weight", "state"}, cycle'.stage \in CycleStages,
         cycle'.weight \in Weights \cup {0}, UNCHANGED <<today, account, spent, base, over>>,
         file'.budget = file.budget, file'.meter = file.meter, DOMAIN file' = {"budget", "meter", "marker"},
         refresh' \in {refresh, NotRefreshing}, cycle'.stage = "send" => cycle.stage = "send" \/ probing_is_within_budget(file)
  PROVE  AllowanceInv'
<1> USE DEF AllowanceInv
<1>1. refresh' \in [on : BOOLEAN, knew : Budgets, found : Budgets, stale : BOOLEAN] /\ (refresh' = refresh \/ ~refresh'.on)
  <2>1. refresh \in [on : BOOLEAN, knew : Budgets, found : Budgets, stale : BOOLEAN]
    BY DEF AllowanceTyped
  <2> QED BY <2>1, NoRefresh
<1>2. AllowanceTyped'
  BY <1>1 DEF AllowanceTyped
<1>3. FoundOfAccount' /\ BudgetOfAccount' /\ StaysInShare'
  BY <1>1 DEF FoundOfAccount, BudgetOfAccount, StaysInShare
<1>4. provider_spend(file)' = provider_spend(file)
  BY DEF provider_spend, _current_window, budget_window
<1>5. probing_is_within_budget(file)' <=> probing_is_within_budget(file)
  BY <1>4 DEF probing_is_within_budget
<1>6. MeterIsPast' /\ MeterCountsEveryCall'
  BY <1>4 DEF MeterIsPast, MeterCountsEveryCall, budget_window
<1>7. ShareIsSpent'
  BY <1>5 DEF ShareIsSpent
<1> QED BY <1>2, <1>3, <1>6, <1>7

LEMMA CyclesKeep ==
  ASSUME AllowanceInv, \/ StartCycle
                       \/ NextModel
                       \/ CheckBudget
                       \/ SkipProbe
                       \/ WriteMarker
                       \/ Restart
                       \/ UNCHANGED allowanceVars
  PROVE  AllowanceInv'
<1>0. /\ DOMAIN cycle = {"stage", "weight", "state"} /\ cycle.stage \in CycleStages /\ cycle.weight \in Weights \cup {0}
      /\ DOMAIN file = {"budget", "meter", "marker"}
      /\ DOMAIN NoCycle = {"stage", "weight", "state"} /\ NoCycle.stage = "idle" /\ NoCycle.weight = 0
  BY DEF AllowanceInv, AllowanceTyped, NoCycle
<1> USE DEF CycleStages
<1>1. CASE StartCycle
  BY <1>0, <1>1, CycleSpendsNothing DEF StartCycle
<1>2. CASE NextModel
  <2>1. UNCHANGED <<today, account, file, refresh, spent, base, over>>
    BY <1>2 DEF NextModel
  <2>2. CASE \E w \in Weights : cycle' = [cycle EXCEPT !.stage = "check", !.weight = w]
    <3>1. PICK w \in Weights : cycle' = [cycle EXCEPT !.stage = "check", !.weight = w]
      BY <2>2
    <3>2. DOMAIN cycle' = {"stage", "weight", "state"} /\ cycle'.stage = "check" /\ cycle'.weight = w
      BY <1>0, <3>1
    <3> QED BY <1>0, <2>1, <3>2, CycleSpendsNothing
  <2>3. CASE cycle' = [stage |-> "mark", weight |-> 0, state |-> file]
    <3>1. DOMAIN cycle' = {"stage", "weight", "state"} /\ cycle'.stage = "mark" /\ cycle'.weight = 0
      BY <2>3
    <3> QED BY <1>0, <2>1, <3>1, CycleSpendsNothing
  <2> QED BY <1>2, <2>2, <2>3 DEF NextModel
<1>3. CASE CheckBudget
  BY <1>0, <1>3, CycleSpendsNothing DEF CheckBudget
<1>4. CASE SkipProbe
  BY <1>0, <1>4, CycleSpendsNothing DEF SkipProbe
<1>5. CASE WriteMarker
  BY <1>0, <1>5, CycleSpendsNothing DEF WriteMarker, write_auto_benchmark_state
<1>6. CASE Restart
  BY <1>0, <1>6, CycleSpendsNothing DEF Restart
<1>7. CASE UNCHANGED allowanceVars
  BY <1>0, <1>7, CycleSpendsNothing DEF allowanceVars
<1> QED BY <1>1, <1>2, <1>3, <1>4, <1>5, <1>6, <1>7

LEMMA DaysKeep ==
  ASSUME AllowanceInv, DayEnds
  PROVE  AllowanceInv'
<1> USE DEF AllowanceInv
<1>1. /\ today' = today + 1 /\ spent' = [spent EXCEPT !["day"] = 0] /\ UNCHANGED <<account, file, cycle, refresh>>
      /\ IF file.budget.period = "day" THEN base' = 0 /\ over' = 0 ELSE base' = base /\ over' = over
  BY DEF DayEnds
<1>2. /\ today \in Nat /\ spent \in [Schedules -> Nat] /\ base \in Nat /\ over \in Nat
      /\ file.meter \in Meters /\ file.budget.period \in Schedules
  BY BudgetParts DEF AllowanceTyped
<1>3. spent' \in [Schedules -> Nat] /\ spent'["day"] = 0 /\ spent'["month"] = spent["month"]
  BY <1>1, <1>2 DEF Schedules
<1>4. file.meter.window # budget_window("day")' /\ budget_window("month")' = budget_window("month")
  <2>1. budget_window("day")' = <<"day", today + 1>>
    BY <1>1 DEF budget_window
  <2>2. file.meter.window[1] = "day" => file.meter.window[2] <= today
    BY DEF MeterIsPast
  <2>3. file.meter.window[2] \in Nat
    BY <1>2 DEF Meters
  <2>4. file.meter.window = <<"day", today + 1>> => file.meter.window[1] = "day" /\ file.meter.window[2] = today + 1
    OBVIOUS
  <2> QED BY <2>1, <2>2, <2>3, <2>4, <1>2 DEF budget_window
<1>5. AllowanceTyped'
  BY <1>1, <1>2, <1>3 DEF AllowanceTyped
<1>6. MeterIsPast'
  <2>1. file.meter.window[2] \in Nat
    BY <1>2 DEF Meters
  <2>2. file.meter.window[1] = "day" => file.meter.window[2] <= today'
    BY <1>1, <1>2, <2>1 DEF MeterIsPast
  <2>3. \A s \in Schedules : file.meter.window = budget_window(s)' => file.meter.spent <= spent'[s]
    BY <1>3, <1>4 DEF MeterIsPast, Schedules
  <2> QED BY <2>2, <2>3, <1>1 DEF MeterIsPast
<1>7. CASE file.budget.period = "day"
  <2>1. provider_spend(file)' = 0
    BY <1>1, <1>4, <1>7 DEF provider_spend, _current_window
  <2>2. MeterCountsEveryCall'
    BY <2>1, <1>1, <1>3, <1>7 DEF MeterCountsEveryCall
  <2>3. ShareIsSpent' /\ FoundOfAccount' /\ StaysInShare' /\ BudgetOfAccount'
    BY <1>1, <1>7 DEF ShareIsSpent, FoundOfAccount, StaysInShare, BudgetOfAccount
  <2> QED BY <2>2, <2>3, <1>5, <1>6
<1>8. CASE file.budget.period = "month"
  <2>1. provider_spend(file)' = provider_spend(file)
    BY <1>1, <1>4, <1>8 DEF provider_spend, _current_window
  <2>2. MeterCountsEveryCall'
    BY <2>1, <1>1, <1>3, <1>8 DEF MeterCountsEveryCall
  <2>3. probing_is_within_budget(file)' <=> probing_is_within_budget(file)
    BY <2>1, <1>1 DEF probing_is_within_budget
  <2>4. ShareIsSpent' /\ FoundOfAccount' /\ StaysInShare' /\ BudgetOfAccount'
    BY <1>1, <1>8, <2>3 DEF ShareIsSpent, FoundOfAccount, StaysInShare, BudgetOfAccount
  <2> QED BY <2>2, <2>4, <1>5, <1>6
<1> QED BY <1>2, <1>7, <1>8 DEF Schedules

LEMMA AllowanceSteps == AllowanceInv /\ [AllowanceNext]_allowanceVars => AllowanceInv'
<1> SUFFICES ASSUME AllowanceInv, [AllowanceNext]_allowanceVars PROVE AllowanceInv'
  OBVIOUS
<1> QED BY CallsKeep, BudgetsKeep, CyclesKeep, DaysKeep DEF AllowanceNext

\* For any keys, grants and weights, however requests, probes, refreshes, changes of key and restarts come
\* between: discovery sends at most one probe past its share, the meter shows every call, and the budget
\* is of the key configured (capability_discovery.py, provider_budget.py).
THEOREM AllowanceStays == AllowanceSpec => []AllowanceHolds
<1>1. AllowanceInv => AllowanceHolds
  BY DEF AllowanceInv, AllowanceHolds
<1> QED BY <1>1, AllowanceBegins, AllowanceSteps, PTL DEF AllowanceSpec
=============================================================================
