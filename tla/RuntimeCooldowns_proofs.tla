---------------------- MODULE RuntimeCooldowns_proofs ----------------------
(***************************************************************************)
(* Proofs about RuntimeCooldowns: the tables stay well formed, a success   *)
(* erases nothing younger than itself and leaves nothing stuck, one        *)
(* incident has one guard, and only a request that was answered, a younger *)
(* row or the admin page ends a route block before its time.               *)
(***************************************************************************)
EXTENDS RuntimeCooldowns, TLAPS

\* The row constructors make rows of the tables' kinds.
LEMMA FreshRows ==
  ASSUME now \in Nat, NEW reason, NEW delay \in Nat, NEW m \in Models
  PROVE  /\ \A R : reason \in R => Row(reason, delay) \in Block(R)
         /\ \A R : "none" \in R => NoRow \in Block(R) /\ NoNote \in NoteOf(R)
         /\ \A R : reason \in R => Note(reason) \in NoteOf(R)
         /\ QuotaRow(m, delay) \in QuotaRows
         /\ NoQuota \in QuotaRows
<1>1. 0 \in 0..now /\ now \in 0..now /\ now + delay \in Nat
  OBVIOUS
<1>2. Source[m] \in Sources
  BY CatalogAssumption
<1> QED
  BY <1>1, <1>2 DEF Row, Block, NoRow, NoNote, NoteOf, Note, QuotaRow, QuotaRows, NoQuota

\* What a failure writes keeps the tables well formed.
LEMMA FailureTyped ==
  ASSUME now \in Nat, BlocksOK, ErrorsOK, now' = now,
         NEW m \in Models, NEW reason \in AllReasons, NEW delay \in Nat,
         Failure(m, reason, delay)
  PROVE  BlocksOK' /\ ErrorsOK'
<1> DEFINE C == Block(ModelScoped \cup ProviderScoped \cup {"billing_or_paid", "none"})
           P == Block(ProviderScoped \cup {"none"})
<1>1. /\ CoolsModel(reason) => Row(reason, delay) \in C
      /\ NoRow \in C
      /\ reason \in ProviderScoped => Row(reason, delay) \in P
      /\ QuotaRow(m, delay) \in QuotaRows
      /\ reason \in Quarantining => Note(reason) \in NoteOf(Quarantining \cup {"manual", "none"})
      /\ Note(reason) \in NoteOf(AllReasons \cup {"none"})
      /\ reason \in ProviderErrorReasons => Note(reason) \in NoteOf(ProviderErrorReasons \cup {"none"})
  BY FreshRows DEF CoolsModel
<1>2. Source[m] \in Sources /\ DeclaredKey[m] \in Keys
  BY CatalogAssumption
<1>3. cooldowns' \in [Models -> C]
  BY <1>1 DEF Failure, Pruned, BlocksOK
<1>4. \A k \in Models : cooldowns'[k].reason \notin ProviderScoped
  <2> SUFFICES ASSUME NEW k \in Models PROVE cooldowns'[k].reason \notin ProviderScoped
    OBVIOUS
  <2>1. CASE k = m /\ CoolsModel(reason)
    <3>1. cooldowns'[k].reason = reason
      BY <2>1 DEF Failure, Row
    <3> QED
      BY <3>1, <2>1 DEF CoolsModel, ModelScoped, ProviderScoped
  <2>2. CASE ~(k = m /\ CoolsModel(reason))
    <3>1. cooldowns'[k] = Pruned(cooldowns[k])
      BY <2>2 DEF Failure
    <3> QED
      BY <3>1 DEF Pruned, NoRow, ProviderScoped
  <2> QED
    BY <2>1, <2>2
<1>5. providerCooldowns' \in [Sources -> P]
  BY <1>1, <1>2 DEF Failure, BlocksOK
<1>6. quotaCooldowns' \in [Keys -> QuotaRows]
  BY <1>1, <1>2 DEF Failure, BlocksOK
<1>7. quarantine' \in [Models -> NoteOf(Quarantining \cup {"manual", "none"})]
  BY <1>1 DEF Failure, BlocksOK
<1>8. modelErrors' \in [Models -> NoteOf(AllReasons \cup {"none"})]
  BY <1>1 DEF Failure, ErrorsOK
<1>9. providerErrors' \in [Sources -> NoteOf(ProviderErrorReasons \cup {"none"})]
  BY <1>1, <1>2 DEF Failure, ErrorsOK
<1> QED
  BY <1>3, <1>4, <1>5, <1>6, <1>7, <1>8, <1>9 DEF BlocksOK, ErrorsOK, Block, NoteOf, QuotaRows

\* So does what a success lifts: an entry is the old one or the empty one.
LEMMA SuccessTyped ==
  ASSUME now \in Nat, BlocksOK, ErrorsOK, now' = now,
         NEW m \in Models, NEW started, NEW origin,
         Success(m, started, origin)
  PROVE  BlocksOK' /\ ErrorsOK'
<1> DEFINE C == Block(ModelScoped \cup ProviderScoped \cup {"billing_or_paid", "none"})
           P == Block(ProviderScoped \cup {"none"})
<1>1. /\ NoRow \in C /\ NoRow \in P /\ NoQuota \in QuotaRows
      /\ NoNote \in NoteOf(Quarantining \cup {"manual", "none"})
      /\ NoNote \in NoteOf(AllReasons \cup {"none"})
      /\ NoNote \in NoteOf(ProviderErrorReasons \cup {"none"})
  BY DEF NoRow, NoNote, NoQuota, Block, NoteOf, QuotaRows
<1>2. Source[m] \in Sources
  BY CatalogAssumption
<1>3. cooldowns' \in [Models -> C]
  BY <1>1 DEF Success, Lift, BlocksOK
<1>4. \A k \in Models : cooldowns'[k] \in {cooldowns[k], NoRow}
  BY DEF Success, Lift, BlocksOK
<1>5. providerCooldowns' \in [Sources -> P]
  BY <1>1, <1>2 DEF Success, Lift, BlocksOK
<1>6. quotaCooldowns' \in [Keys -> QuotaRows]
  BY <1>1 DEF Success, Lift, BlocksOK
<1>7. quarantine' \in [Models -> NoteOf(Quarantining \cup {"manual", "none"})]
  BY <1>1 DEF Success, Lift, BlocksOK
<1>8. modelErrors' \in [Models -> NoteOf(AllReasons \cup {"none"})]
  BY <1>1 DEF Success, Lift, ErrorsOK
<1>9. providerErrors' \in [Sources -> NoteOf(ProviderErrorReasons \cup {"none"})]
  BY <1>1, <1>2 DEF Success, Lift, ErrorsOK
<1>10. \A k \in Models : cooldowns'[k].reason \in ProviderScoped =>
                           k \in Legacy /\ cooldowns'[k].at = 0
  BY <1>4 DEF BlocksOK, NoRow, ProviderScoped
<1> QED
  BY <1>3, <1>5, <1>6, <1>7, <1>8, <1>9, <1>10 DEF BlocksOK, ErrorsOK, Block, NoteOf, QuotaRows
LEMMA SameTables ==
  ASSUME BlocksOK, ErrorsOK, UNCHANGED <<now, blocks, errors>>
  PROVE  BlocksOK' /\ ErrorsOK'
BY DEF BlocksOK, ErrorsOK, blocks, errors, Block, NoteOf, QuotaRows

\* What a request does.
LEMMA RequestTyped ==
  ASSUME TypeOK, RequestStep
  PROVE  TypeOK'
<1> USE DEF TypeOK
<1>1. PICK r \in Requests :
        \/ Plan(r) \/ Succeeds(r) \/ EndsUnanswered(r)
        \/ \E m \in Models : Ask(r, m)
        \/ \E reason \in Reasons, delay \in Delays : Fails(r, reason, delay)
  BY DEF RequestStep
<1>2. 0 \in 0..now /\ now \in 0..now
  OBVIOUS
<1> DEFINE Entry == [phase : {"idle", "planned", "asking"}, pool : SUBSET Models,
                     model : Models \cup {NoModel}, started : 0..now]
<1>3. NoCall \in Entry /\ NoCall.phase = "idle"
  BY <1>2 DEF NoCall
<1>4. ASSUME now' = now, NEW entry \in Entry, calls' = [calls EXCEPT ![r] = entry],
             entry.phase = "asking" => entry.model \in Models
      PROVE  CallsOK'
  BY <1>4 DEF CallsOK
<1>5. ASSUME now' = now, UNCHANGED prober
      PROVE  ProberOK'
  BY <1>5 DEF ProberOK, QuotaRows
<1>6. CASE Plan(r)
  <2> DEFINE entry == [NoCall EXCEPT !.phase = "planned", !.pool = {m \in Models : Usable(m)}]
  <2>1. entry \in Entry /\ entry.phase = "planned"
    BY <1>3 DEF NoCall
  <2>2. CallsOK'
    BY <2>1, <1>4, <1>6 DEF Plan
  <2> QED
    BY <2>2, <1>5, <1>6, SameTables DEF Plan, HistoryOK, history
<1>7. CASE Succeeds(r)
  <2>1. calls[r].model \in Models
    BY <1>7 DEF Succeeds, CallsOK
  <2>2. BlocksOK' /\ ErrorsOK'
    BY <2>1, <1>7, SuccessTyped DEF Succeeds
  <2>3. CallsOK'
    BY <1>3, <1>4, <1>7 DEF Succeeds
  <2> QED
    BY <2>2, <2>3, <1>5, <1>7 DEF Succeeds, HistoryOK, history
<1>8. CASE EndsUnanswered(r)
  <2>1. CallsOK'
    BY <1>3, <1>4, <1>8 DEF EndsUnanswered
  <2> QED
    BY <2>1, <1>5, <1>8, SameTables DEF EndsUnanswered, HistoryOK, history
<1>9. ASSUME NEW m \in Models, Ask(r, m)
      PROVE  TypeOK'
  <2> DEFINE entry == [phase |-> "asking", pool |-> calls[r].pool \ {m}, model |-> m,
                       started |-> now]
  <2>1. entry \in Entry
    BY <1>2 DEF CallsOK
  <2>2. CallsOK'
    BY <2>1, <1>4, <1>9 DEF Ask
  <2> QED
    BY <2>2, <1>5, <1>9, SameTables DEF Ask, HistoryOK, history
<1>10. ASSUME NEW reason \in Reasons, NEW delay \in Delays, Fails(r, reason, delay)
       PROVE  TypeOK'
  <2> DEFINE m == calls[r].model
             entry == [calls[r] EXCEPT !.phase = "planned", !.model = NoModel]
  <2>1. m \in Models /\ reason \in AllReasons /\ delay \in Nat
    BY <1>10, TimeAssumption DEF Fails, CallsOK
  <2>2. BlocksOK' /\ ErrorsOK'
    BY <2>1, <1>10, FailureTyped DEF Fails
  <2>3. entry \in Entry /\ entry.phase = "planned"
    BY DEF CallsOK
  <2>4. calls' = [calls EXCEPT ![r] = entry]
    BY <1>10 DEF Fails, CallsOK
  <2>5. CallsOK'
    BY <2>3, <2>4, <1>4, <1>10 DEF Fails
  <2>6. HistoryOK'
    BY <2>1, <1>2, <1>10 DEF Fails, HistoryOK
  <2> QED
    BY <2>2, <2>5, <2>6, <1>5, <1>10 DEF Fails
<1> QED
  BY <1>1, <1>6, <1>7, <1>8, <1>9, <1>10

\* What the served key frees keeps the tables well formed.
LEMMA RestoredTyped ==
  ASSUME now \in Nat, BlocksOK, ErrorsOK, now' = now,
         prober.model \in Models, prober.key \in Keys, AccessRestored,
         UNCHANGED <<cooldowns, providerCooldowns, quarantine>>
  PROVE  BlocksOK' /\ ErrorsOK'
<1>1. NoQuota \in QuotaRows /\ Source[prober.model] \in Sources
  BY FreshRows, CatalogAssumption DEF NoQuota, QuotaRows
<1>2. quotaCooldowns' \in [Keys -> QuotaRows]
  BY <1>1 DEF AccessRestored, BlocksOK
<1>3. /\ NoNote \in NoteOf(AllReasons \cup {"none"})
      /\ NoNote \in NoteOf(ProviderErrorReasons \cup {"none"})
  BY DEF NoNote, NoteOf
<1>4. providerErrors' \in [Sources -> NoteOf(ProviderErrorReasons \cup {"none"})]
  BY <1>1, <1>3 DEF AccessRestored, ErrorsOK
<1>5. modelErrors' \in [Models -> NoteOf(AllReasons \cup {"none"})]
  BY <1>3 DEF AccessRestored, ErrorsOK
<1> QED
  BY <1>2, <1>4, <1>5 DEF BlocksOK, ErrorsOK, Block, NoteOf, QuotaRows

\* What the prober does.
LEMMA ProberTyped ==
  ASSUME TypeOK, ProberStep
  PROVE  TypeOK'
<1> USE DEF TypeOK
<1>1. 0 \in 0..now /\ now \in 0..now
  OBVIOUS
<1>2. NoQuota \in QuotaRows
  BY <1>1 DEF NoQuota, QuotaRows
<1> DEFINE Job == [phase : {"idle", "picked", "probing", "limited", "bench"},
                   key : Keys \cup {"none"}, model : Models \cup {NoModel},
                   row : QuotaRows, started : 0..now]
<1>3. NoProbe \in Job /\ NoProbe.phase = "idle"
  BY <1>1, <1>2 DEF NoProbe
<1>4. ASSUME now' = now, prober' \in Job,
             prober'.phase # "idle" => prober'.model \in Models,
             prober'.phase \in {"picked", "probing", "limited"} => prober'.key \in Keys
      PROVE  ProberOK'
  BY <1>4 DEF ProberOK, QuotaRows
<1>5. ASSUME now' = now, prober' = NoProbe
      PROVE  ProberOK'
  BY <1>3, <1>4, <1>5
<1>6. ASSUME now' = now, UNCHANGED calls
      PROVE  CallsOK'
  BY <1>6 DEF CallsOK
<1>7. ASSUME now' = now, UNCHANGED lastQuotaFailure, held' \in SUBSET Models
      PROVE  HistoryOK'
  BY <1>7 DEF HistoryOK
<1>8. held \in SUBSET Models
  BY DEF HistoryOK
<1>9. ASSUME NEW k \in Keys, NEW m \in Models, NEW force \in BOOLEAN, PickProbe(k, m, force)
      PROVE  TypeOK'
  <2>1. quotaCooldowns[k] \in QuotaRows
    BY DEF BlocksOK
  <2>2. ProberOK'
    BY <2>1, <1>1, <1>4, <1>9 DEF PickProbe
  <2> QED
    BY <2>2, <1>6, <1>7, <1>8, <1>9, SameTables DEF PickProbe, history
<1>10. CASE Reserve
  <2> DEFINE k == prober.key
  <2>1. prober \in Job /\ k \in Keys /\ prober.model \in Models
    BY <1>10 DEF Reserve, ProberOK
  <2>2. [prober.row EXCEPT !.next = now + ReserveTime] \in QuotaRows
    BY <2>1, TimeAssumption DEF QuotaRows
  <2>3. quotaCooldowns' \in [Keys -> QuotaRows]
    BY <2>2, <1>10 DEF Reserve, BlocksOK
  <2>4. BlocksOK' /\ ErrorsOK'
    BY <2>3, <1>10 DEF Reserve, BlocksOK, ErrorsOK, errors, Block, NoteOf, QuotaRows
  <2>5. ProberOK'
    BY <2>1, <1>1, <1>3, <1>4, <1>10 DEF Reserve
  <2> QED
    BY <2>4, <2>5, <1>6, <1>7, <1>8, <1>10 DEF Reserve, history
<1>11. CASE ProbePasses
  <2>1. prober.model \in Models /\ prober.key \in Keys
    BY <1>11 DEF ProbePasses, ProberOK
  <2>2. BlocksOK' /\ ErrorsOK'
    BY <2>1, <1>11, RestoredTyped DEF ProbePasses
  <2> QED
    BY <2>2, <1>5, <1>6, <1>7, <1>8, <1>11 DEF ProbePasses, history
<1>12. CASE ProbePoolLimited
  <2>1. prober \in Job /\ prober.model \in Models /\ prober.key \in Keys
    BY <1>12 DEF ProbePoolLimited, ProberOK
  <2>2. BlocksOK' /\ ErrorsOK'
    BY <2>1, <1>12, RestoredTyped DEF ProbePoolLimited
  <2>3. ProberOK'
    BY <2>1, <1>4, <1>12 DEF ProbePoolLimited
  <2> QED
    BY <2>2, <2>3, <1>6, <1>7, <1>8, <1>12 DEF ProbePoolLimited, history
<1>13. CASE ProbeSkipped
  BY <1>5, <1>6, <1>7, <1>8, <1>13, SameTables DEF ProbeSkipped, history
<1>14. ASSUME NEW delay \in Delays, CoolPoolLimited(delay)
       PROVE  TypeOK'
  <2>1. prober.model \in Models /\ "rate_limited_upstream" \in AllReasons /\ delay \in Nat
    BY <1>14, TimeAssumption DEF CoolPoolLimited, ProberOK, AllReasons, ModelScoped
  <2>2. BlocksOK' /\ ErrorsOK'
    BY <2>1, <1>14, FailureTyped DEF CoolPoolLimited
  <2> QED
    BY <2>2, <1>5, <1>6, <1>7, <1>8, <1>14 DEF CoolPoolLimited, history
<1>15. ASSUME NEW reason \in Reasons, NEW delay \in Delays, NEW guard \in Delays,
              ProbeFails(reason, delay, guard)
       PROVE  TypeOK'
  <2> DEFINE m == prober.model
  <2>1. m \in Models /\ prober.key \in Keys /\ Source[m] \in Sources
    BY <1>15, CatalogAssumption DEF ProbeFails, ProberOK
  <2>2. delay \in Nat /\ guard \in Nat
    BY TimeAssumption
  <2>3. /\ QuotaRow(m, delay) \in QuotaRows
        /\ reason \in Quarantining => Note(reason) \in NoteOf(Quarantining \cup {"manual", "none"})
        /\ reason = "auth_or_credit" => Row(reason, guard) \in Block(ProviderScoped \cup {"none"})
        /\ reason = "auth_or_credit" => Note(reason) \in NoteOf(ProviderErrorReasons \cup {"none"})
    BY <2>1, <2>2, FreshRows DEF ProviderScoped, ProviderErrorReasons
  <2>4. quotaCooldowns' \in [Keys -> QuotaRows]
    BY <2>3, <1>15 DEF ProbeFails, BlocksOK
  <2>5. quarantine' \in [Models -> NoteOf(Quarantining \cup {"manual", "none"})]
    BY <2>3, <1>15 DEF ProbeFails, BlocksOK
  <2>6. providerCooldowns' \in [Sources -> Block(ProviderScoped \cup {"none"})]
    BY <2>1, <2>3, <1>15 DEF ProbeFails, BlocksOK
  <2>7. providerErrors' \in [Sources -> NoteOf(ProviderErrorReasons \cup {"none"})]
    BY <2>1, <2>3, <1>15 DEF ProbeFails, ErrorsOK
  <2>8. BlocksOK' /\ ErrorsOK'
    BY <2>4, <2>5, <2>6, <2>7, <1>15
       DEF ProbeFails, BlocksOK, ErrorsOK, Block, NoteOf, QuotaRows
  <2>9. held' \in SUBSET Models
    BY <2>1, <1>8, <1>15 DEF ProbeFails
  <2> QED
    BY <2>8, <2>9, <1>5, <1>6, <1>7, <1>15 DEF ProbeFails
<1>16. ASSUME NEW m \in Models, Bench(m)
       PROVE  TypeOK'
  <2>1. ProberOK'
    BY <1>1, <1>3, <1>4, <1>16 DEF Bench, NoProbe
  <2> QED
    BY <2>1, <1>6, <1>7, <1>8, <1>16, SameTables DEF Bench, history
<1>17. ASSUME NEW started \in 0..now, BenchSucceeds(started)
       PROVE  TypeOK'
  <2>1. prober.model \in Models
    BY <1>17 DEF BenchSucceeds, ProberOK
  <2>2. BlocksOK' /\ ErrorsOK'
    BY <2>1, <1>17, SuccessTyped DEF BenchSucceeds
  <2> QED
    BY <2>2, <1>5, <1>6, <1>7, <1>8, <1>17 DEF BenchSucceeds, history
<1>18. ASSUME NEW reason \in Reasons, NEW delay \in Delays, BenchFails(reason, delay)
       PROVE  TypeOK'
  <2>1. prober.model \in Models /\ reason \in AllReasons /\ delay \in Nat
    BY <1>18, TimeAssumption DEF BenchFails, ProberOK
  <2>2. ASSUME reason \in RouteBlocking
        PROVE  BlocksOK' /\ ErrorsOK'
    BY <2>1, <2>2, <1>18, FailureTyped DEF BenchFails
  <2>3. ASSUME reason \notin RouteBlocking
        PROVE  BlocksOK' /\ ErrorsOK'
    <3>1. Note(reason) \in NoteOf(AllReasons \cup {"none"})
      BY <1>1, <2>1 DEF Note, NoteOf
    <3>2. modelErrors' = [modelErrors EXCEPT ![prober.model] = Note(reason)]
      BY <2>3, <1>18 DEF BenchFails
    <3>3. modelErrors' \in [Models -> NoteOf(AllReasons \cup {"none"})]
      BY <3>1, <3>2 DEF ErrorsOK
    <3>4. UNCHANGED <<now, blocks, providerErrors>>
      BY <2>3, <1>18 DEF BenchFails
    <3>5. BlocksOK'
      BY <3>4 DEF BlocksOK, blocks, Block, NoteOf, QuotaRows
    <3>6. ErrorsOK'
      BY <3>3, <3>4 DEF ErrorsOK, NoteOf
    <3> QED
      BY <3>5, <3>6
  <2>4. held' \in SUBSET Models
    BY <2>1, <1>8, <1>18 DEF BenchFails
  <2>5. BlocksOK' /\ ErrorsOK'
    BY <2>2, <2>3
  <2> QED
    BY <2>4, <2>5, <1>5, <1>6, <1>7, <1>18 DEF BenchFails
<1> QED
  BY <1>9, <1>10, <1>11, <1>12, <1>13, <1>14, <1>15, <1>16, <1>17, <1>18 DEF ProberStep

\* What the admin page, a restart and time do.
LEMMA AdminTyped ==
  ASSUME TypeOK, AdminStep \/ Restart \/ Tick
  PROVE  TypeOK'
<1> USE DEF TypeOK
<1>1. 0 \in 0..now /\ now \in 0..now
  OBVIOUS
<1>2. /\ \A R : "none" \in R => NoRow \in Block(R) /\ NoNote \in NoteOf(R)
      /\ Note("manual") \in NoteOf(Quarantining \cup {"manual", "none"})
      /\ NoQuota \in QuotaRows
  BY <1>1 DEF NoRow, NoNote, NoQuota, Note, Block, NoteOf, QuotaRows
<1>3. ASSUME now' = now, UNCHANGED <<calls, prober, lastQuotaFailure>>,
             held' \in SUBSET Models
      PROVE  CallsOK' /\ ProberOK' /\ HistoryOK'
  BY <1>3 DEF CallsOK, ProberOK, HistoryOK, QuotaRows
<1>4. ASSUME now' = now, UNCHANGED errors
      PROVE  ErrorsOK'
  BY <1>4 DEF ErrorsOK, errors, NoteOf
<1>5. held \in SUBSET Models
  BY DEF HistoryOK
<1>6. CASE AdminStep
  <2>1. ASSUME NEW m \in Models, ClearModel(m)
        PROVE  TypeOK'
    <3>1. cooldowns' = [cooldowns EXCEPT ![m] = NoRow]
      BY <2>1 DEF ClearModel
    <3>2. BlocksOK'
      BY <3>1, <1>2, <2>1
         DEF ClearModel, BlocksOK, Block, NoteOf, QuotaRows, NoRow, ProviderScoped
    <3> QED
      BY <3>2, <1>3, <1>4, <1>5, <2>1 DEF ClearModel, history
  <2>2. ASSUME NEW m \in Models, Quarantine(m)
        PROVE  TypeOK'
    <3>1. BlocksOK'
      BY <1>2, <2>2 DEF Quarantine, BlocksOK, Block, NoteOf, QuotaRows
    <3> QED
      BY <3>1, <1>3, <1>4, <1>5, <2>2 DEF Quarantine
  <2>3. ASSUME NEW m \in Models, Release(m)
        PROVE  TypeOK'
    <3>1. BlocksOK'
      BY <1>2, <2>3 DEF Release, BlocksOK, Block, NoteOf, QuotaRows
    <3> QED
      BY <3>1, <1>3, <1>4, <1>5, <2>3 DEF Release
  <2>4. ASSUME NEW s \in Sources, ClearProvider(s)
        PROVE  TypeOK'
    <3>1. BlocksOK'
      BY <1>2, <2>4 DEF ClearProvider, BlocksOK, Block, NoteOf, QuotaRows
    <3> QED
      BY <3>1, <1>3, <1>4, <1>5, <2>4 DEF ClearProvider, history
  <2>5. ASSUME NEW scope \in {"all", "model", "provider", "quota"}, ClearAll(scope)
        PROVE  TypeOK'
    <3>1. cooldowns' \in {cooldowns, [m \in Models |-> NoRow]}
      BY <2>5 DEF ClearAll
    <3>2. providerCooldowns' \in {providerCooldowns, [s \in Sources |-> NoRow]}
      BY <2>5 DEF ClearAll
    <3>3. quotaCooldowns' \in {quotaCooldowns, [k \in Keys |-> NoQuota]}
      BY <2>5 DEF ClearAll
    <3>4. BlocksOK'
      BY <3>1, <3>2, <3>3, <1>2, <2>5
         DEF ClearAll, BlocksOK, Block, NoteOf, QuotaRows, NoRow, ProviderScoped
    <3> QED
      BY <3>4, <1>3, <1>4, <1>5, <2>5 DEF ClearAll, history
  <2> QED
    BY <1>6, <2>1, <2>2, <2>3, <2>4, <2>5 DEF AdminStep
<1>7. CASE Restart
  <2>1. CallsOK' /\ ProberOK'
    BY <1>1, <1>2, <1>7 DEF Restart, CallsOK, ProberOK, NoCall, NoProbe, QuotaRows
  <2> QED
    BY <2>1, <1>7, SameTables DEF Restart, HistoryOK, history
<1>8. CASE Tick
  <2>1. now' \in Nat /\ 0..now \subseteq 0..now'
    BY <1>8 DEF Tick
  <2>2. \A R : Block(R) \subseteq Block(R)' /\ NoteOf(R) \subseteq NoteOf(R)'
    BY <2>1 DEF Block, NoteOf
  <2>3. QuotaRows \subseteq QuotaRows'
    BY <2>1 DEF QuotaRows
  <2> QED
    BY <2>1, <2>2, <2>3, <1>8
       DEF Tick, BlocksOK, ErrorsOK, CallsOK, ProberOK, HistoryOK, blocks, errors, history
<1> QED
  BY <1>6, <1>7, <1>8

\* The tables, the requests, the prober and the history keep their types, and
\* no stamp lies in the future.
THEOREM TypeCorrect == Spec => []TypeOK
<1>1. Init => TypeOK
  <2> SUFFICES ASSUME Init PROVE TypeOK
    OBVIOUS
  <2>1. now \in Nat /\ 0 \in 0..now /\ now = 1
    BY DEF Init
  <2>2. BlocksOK
    BY <2>1, TimeAssumption
       DEF Init, BlocksOK, Block, NoteOf, QuotaRows, NoRow, NoQuota, NoNote, ProviderScoped
  <2>3. ErrorsOK
    BY <2>1 DEF Init, ErrorsOK, NoteOf, NoNote
  <2>4. CallsOK /\ ProberOK /\ HistoryOK
    BY <2>1 DEF Init, CallsOK, ProberOK, HistoryOK, NoCall, NoProbe, NoQuota, QuotaRows
  <2> QED
    BY <2>1, <2>2, <2>3, <2>4 DEF TypeOK
<1>2. TypeOK /\ [Next]_vars => TypeOK'
  <2> SUFFICES ASSUME TypeOK, [Next]_vars PROVE TypeOK'
    OBVIOUS
  <2>1. CASE UNCHANGED vars
    BY <2>1, SameTables
       DEF vars, history, TypeOK, CallsOK, ProberOK, HistoryOK, QuotaRows
  <2> QED
    BY <2>1, RequestTyped, ProberTyped, AdminTyped DEF Next
<1> QED
  BY <1>1, <1>2, PTL DEF Spec

\* The fresh rows a failure writes for its model are never provider-scoped and
\* the others are pruned.
LEMMA FailurePrunes ==
  ASSUME NEW m \in Models, NEW reason, NEW delay, Failure(m, reason, delay)
  PROVE  \A k \in Models : cooldowns'[k].reason \notin ProviderScoped
<1> SUFFICES ASSUME NEW k \in Models PROVE cooldowns'[k].reason \notin ProviderScoped
  OBVIOUS
<1>1. CASE k = m /\ CoolsModel(reason)
  <2>1. cooldowns'[k].reason = reason
    BY <1>1 DEF Failure, Row
  <2> QED
    BY <2>1, <1>1 DEF CoolsModel, ModelScoped, ProviderScoped
<1>2. CASE ~(k = m /\ CoolsModel(reason))
  <2>1. cooldowns'[k] = Pruned(cooldowns[k])
    BY <1>2 DEF Failure
  <2> QED
    BY <2>1 DEF Pruned, NoRow, ProviderScoped
<1> QED
  BY <1>1, <1>2

\* No model row carries a provider's reason.
Migrated == \A m \in Models : cooldowns[m].reason \notin ProviderScoped

\* Why one guard is enough: a provider or quota row means the old rows are
\* gone, and so does a quota probe under way, whose key stood when it was
\* picked and whose failure writes rows of its own.
ScopeInv ==
  /\ Migrated \/ (/\ \A s \in Sources : providerCooldowns[s] = NoRow
                  /\ \A k \in Keys : quotaCooldowns[k] = NoQuota)
  /\ prober.phase \in {"picked", "probing"} => Migrated

\* Every write leaves a migrated state migrated.
LEMMA StaysMigrated ==
  ASSUME TypeOK, Migrated, [Next]_vars
  PROVE  Migrated'
<1> SUFFICES ASSUME NEW n \in Models PROVE cooldowns'[n].reason \notin ProviderScoped
  BY DEF Migrated
<1>1. cooldowns[n].reason \notin ProviderScoped /\ NoRow.reason \notin ProviderScoped
  BY DEF Migrated, NoRow, ProviderScoped
<1>2. ASSUME NEW m \in Models, NEW started, NEW origin, Success(m, started, origin)
      PROVE  cooldowns'[n] \in {cooldowns[n], NoRow}
  BY <1>2 DEF Success, Lift, TypeOK, BlocksOK
<1>3. CASE RequestStep
  <2>1. PICK r \in Requests :
          \/ Plan(r) \/ EndsUnanswered(r) \/ \E m \in Models : Ask(r, m)
          \/ Succeeds(r)
          \/ \E reason \in Reasons, delay \in Delays : Fails(r, reason, delay)
    BY <1>3 DEF RequestStep
  <2>2. CASE Plan(r) \/ EndsUnanswered(r) \/ \E m \in Models : Ask(r, m)
    BY <2>2, <1>1 DEF Plan, EndsUnanswered, Ask, blocks
  <2>3. CASE Succeeds(r)
    <3>1. calls[r].model \in Models /\ Success(calls[r].model, calls[r].started, "request")
      BY <2>3 DEF Succeeds, TypeOK, CallsOK
    <3> QED
      BY <3>1, <1>1, <1>2
  <2>4. ASSUME NEW reason \in Reasons, NEW delay \in Delays, Fails(r, reason, delay)
        PROVE  cooldowns'[n].reason \notin ProviderScoped
    <3>1. calls[r].model \in Models /\ Failure(calls[r].model, reason, delay)
      BY <2>4 DEF Fails, TypeOK, CallsOK
    <3> QED
      BY <3>1, FailurePrunes
  <2> QED
    BY <2>1, <2>2, <2>3, <2>4
<1>4. CASE ProberStep
  <2>1. ASSUME UNCHANGED cooldowns
        PROVE  cooldowns'[n].reason \notin ProviderScoped
    BY <2>1, <1>1
  <2>2. ASSUME NEW delay \in Delays, CoolPoolLimited(delay)
        PROVE  cooldowns'[n].reason \notin ProviderScoped
    <3>1. prober.model \in Models /\ Failure(prober.model, "rate_limited_upstream", delay)
      BY <2>2 DEF CoolPoolLimited, TypeOK, ProberOK
    <3> QED
      BY <3>1, FailurePrunes
  <2>3. ASSUME NEW started \in 0..now, BenchSucceeds(started)
        PROVE  cooldowns'[n].reason \notin ProviderScoped
    <3>1. prober.model \in Models /\ Success(prober.model, started, "probe")
      BY <2>3 DEF BenchSucceeds, TypeOK, ProberOK
    <3> QED
      BY <3>1, <1>1, <1>2
  <2>4. ASSUME NEW reason \in Reasons, NEW delay \in Delays, BenchFails(reason, delay)
        PROVE  cooldowns'[n].reason \notin ProviderScoped
    <3>1. prober.model \in Models
      BY <2>4 DEF BenchFails, TypeOK, ProberOK
    <3>2. Failure(prober.model, reason, delay) \/ UNCHANGED cooldowns
      BY <2>4 DEF BenchFails, blocks
    <3> QED
      BY <3>1, <3>2, <2>1, FailurePrunes
  <2>5. (\/ \E k \in Keys, m \in Models, force \in BOOLEAN : PickProbe(k, m, force)
         \/ Reserve \/ ProbePasses \/ ProbePoolLimited \/ ProbeSkipped
         \/ \E reason \in Reasons, delay, guard \in Delays : ProbeFails(reason, delay, guard)
         \/ \E m \in Models : Bench(m)) => UNCHANGED cooldowns
    BY DEF PickProbe, Reserve, ProbePasses, ProbePoolLimited, ProbeSkipped, ProbeFails,
           Bench, blocks
  <2> QED
    BY <1>4, <2>1, <2>2, <2>3, <2>4, <2>5 DEF ProberStep
<1>5. CASE AdminStep
  <2>1. cooldowns'[n] \in {cooldowns[n], NoRow}
    BY <1>5 DEF AdminStep, ClearModel, Quarantine, Release, ClearProvider, ClearAll,
                TypeOK, BlocksOK
  <2> QED
    BY <2>1, <1>1
<1>6. CASE Restart \/ Tick \/ UNCHANGED vars
  BY <1>6, <1>1 DEF Restart, Tick, vars, blocks
<1> QED
  BY <1>3, <1>4, <1>5, <1>6 DEF Next

LEMMA ScopeStep ==
  ASSUME TypeOK, ScopeInv, [Next]_vars
  PROVE  ScopeInv'
<1> DEFINE Clean == /\ \A s \in Sources : providerCooldowns[s] = NoRow
                    /\ \A k \in Keys : quotaCooldowns[k] = NoQuota
<1>1. CASE Migrated
  BY <1>1, StaysMigrated DEF ScopeInv
<1>2. CASE ~Migrated
  <2>1. Clean /\ prober.phase \notin {"picked", "probing"}
    BY <1>2 DEF ScopeInv
  <2>2. ASSUME Migrated'
        PROVE  ScopeInv'
    BY <2>2 DEF ScopeInv
  <2>3. ASSUME Clean', prober'.phase \notin {"picked", "probing"}
        PROVE  ScopeInv'
    BY <2>3 DEF ScopeInv
  <2>4. ASSUME NEW m \in Models, NEW reason, NEW delay, Failure(m, reason, delay)
        PROVE  Migrated'
    BY <2>4, FailurePrunes DEF Migrated
  <2>5. ASSUME NEW m \in Models, NEW started, NEW origin, Success(m, started, origin)
        PROVE  Clean'
    BY <2>1, <2>5 DEF Success, Lift, TypeOK, BlocksOK
  <2>6. ASSUME UNCHANGED <<providerCooldowns, quotaCooldowns>>
        PROVE  Clean'
    BY <2>1, <2>6
  <2>7. CASE RequestStep
    <3>1. UNCHANGED prober
      BY <2>7 DEF RequestStep, Plan, Succeeds, EndsUnanswered, Ask, Fails
    <3>2. PICK r \in Requests :
            \/ Plan(r) \/ EndsUnanswered(r) \/ \E m \in Models : Ask(r, m)
            \/ Succeeds(r)
            \/ \E reason \in Reasons, delay \in Delays : Fails(r, reason, delay)
      BY <2>7 DEF RequestStep
    <3>3. CASE Plan(r) \/ EndsUnanswered(r) \/ \E m \in Models : Ask(r, m)
      <4>1. UNCHANGED <<providerCooldowns, quotaCooldowns>>
        BY <3>3 DEF Plan, EndsUnanswered, Ask, blocks
      <4> QED
        BY <4>1, <2>1, <2>3, <2>6, <3>1
    <3>4. CASE Succeeds(r)
      <4>1. calls[r].model \in Models /\ Success(calls[r].model, calls[r].started, "request")
        BY <3>4 DEF Succeeds, TypeOK, CallsOK
      <4> QED
        BY <4>1, <2>1, <2>3, <2>5, <3>1
    <3>5. ASSUME NEW reason \in Reasons, NEW delay \in Delays, Fails(r, reason, delay)
          PROVE  ScopeInv'
      <4>1. calls[r].model \in Models /\ Failure(calls[r].model, reason, delay)
        BY <3>5 DEF Fails, TypeOK, CallsOK
      <4> QED
        BY <4>1, <2>2, <2>4
    <3> QED
      BY <3>2, <3>3, <3>4, <3>5
  <2>8. CASE ProberStep
    <3>1. ~\E k \in Keys, m \in Models, force \in BOOLEAN : PickProbe(k, m, force)
      BY <2>1 DEF PickProbe
    <3>2. ~(\/ Reserve \/ ProbePasses \/ ProbePoolLimited \/ ProbeSkipped
            \/ \E reason \in Reasons, delay, guard \in Delays : ProbeFails(reason, delay, guard))
      BY <2>1 DEF Reserve, ProbePasses, ProbePoolLimited, ProbeSkipped, ProbeFails
    <3>3. ASSUME NEW delay \in Delays, CoolPoolLimited(delay)
          PROVE  ScopeInv'
      <4>1. prober.model \in Models /\ Failure(prober.model, "rate_limited_upstream", delay)
        BY <3>3 DEF CoolPoolLimited, TypeOK, ProberOK
      <4> QED
        BY <4>1, <2>2, <2>4
    <3>4. ASSUME NEW m \in Models, Bench(m)
          PROVE  ScopeInv'
      <4>1. prober'.phase = "bench" /\ UNCHANGED <<providerCooldowns, quotaCooldowns>>
        BY <3>4 DEF Bench, NoProbe, blocks
      <4> QED
        BY <4>1, <2>3, <2>6
    <3>5. ASSUME NEW started \in 0..now, BenchSucceeds(started)
          PROVE  ScopeInv'
      <4>1. prober.model \in Models /\ Success(prober.model, started, "probe")
        BY <3>5 DEF BenchSucceeds, TypeOK, ProberOK
      <4>2. prober'.phase = "idle"
        BY <3>5 DEF BenchSucceeds, NoProbe
      <4> QED
        BY <4>1, <4>2, <2>3, <2>5
    <3>6. ASSUME NEW reason \in Reasons, NEW delay \in Delays, BenchFails(reason, delay)
          PROVE  ScopeInv'
      <4>1. prober.model \in Models /\ prober'.phase = "idle"
        BY <3>6 DEF BenchFails, NoProbe, TypeOK, ProberOK
      <4>2. \/ Failure(prober.model, reason, delay)
            \/ UNCHANGED <<providerCooldowns, quotaCooldowns>>
        BY <3>6 DEF BenchFails, blocks
      <4> QED
        BY <4>1, <4>2, <2>2, <2>3, <2>4, <2>6
    <3> QED
      BY <2>8, <3>1, <3>2, <3>3, <3>4, <3>5, <3>6 DEF ProberStep
  <2>9. CASE AdminStep
    <3>1. UNCHANGED prober
      BY <2>9 DEF AdminStep, ClearModel, Quarantine, Release, ClearProvider, ClearAll
    <3>2. Clean'
      BY <2>1, <2>9 DEF AdminStep, ClearModel, Quarantine, Release, ClearProvider,
                        ClearAll, TypeOK, BlocksOK
    <3> QED
      BY <2>1, <2>3, <3>1, <3>2
  <2>10. CASE Restart \/ Tick \/ UNCHANGED vars
    <3>1. UNCHANGED <<providerCooldowns, quotaCooldowns>>
      BY <2>10 DEF Restart, Tick, vars, blocks
    <3>2. prober'.phase \notin {"picked", "probing"}
      BY <2>1, <2>10 DEF Restart, Tick, vars, NoProbe
    <3> QED
      BY <2>3, <2>6, <3>1, <3>2
  <2> QED
    BY <2>7, <2>8, <2>9, <2>10 DEF Next
<1> QED
  BY <1>1, <1>2

\* One incident, one guard: from the first provider or quota row on, no model
\* row of an older version doubles it.
THEOREM OneGuard == Spec => []OneBlockingScope
<1>1. Init => ScopeInv
  BY DEF Init, ScopeInv, Migrated, NoProbe
<1>2. ScopeInv => OneBlockingScope
  BY DEF ScopeInv, Migrated, OneBlockingScope
<1> QED
  BY <1>1, <1>2, ScopeStep, TypeCorrect, PTL DEF Spec

\* A success that left before a row was written leaves the row alone, in all
\* six tables.
THEOREM SuccessKeepsNewerEvidence == Spec => SuccessErasesNothingNewer
<1>1. TypeOK => \A r \in Requests : Succeeds(r) =>
       LET started == calls[r].started IN
       /\ \A m \in Models :
            /\ cooldowns[m].at > started => cooldowns'[m] = cooldowns[m]
            /\ quarantine[m].at > started => quarantine'[m] = quarantine[m]
            /\ modelErrors[m].at > started => modelErrors'[m] = modelErrors[m]
       /\ \A s \in Sources :
            /\ providerCooldowns[s].at > started
                 => providerCooldowns'[s] = providerCooldowns[s]
            /\ providerErrors[s].at > started => providerErrors'[s] = providerErrors[s]
       /\ \A k \in Keys : quotaCooldowns[k].at > started
                            => quotaCooldowns'[k] = quotaCooldowns[k]
  <2> SUFFICES ASSUME TypeOK, NEW r \in Requests, Succeeds(r)
               PROVE  LET started == calls[r].started IN
       /\ \A m \in Models :
            /\ cooldowns[m].at > started => cooldowns'[m] = cooldowns[m]
            /\ quarantine[m].at > started => quarantine'[m] = quarantine[m]
            /\ modelErrors[m].at > started => modelErrors'[m] = modelErrors[m]
       /\ \A s \in Sources :
            /\ providerCooldowns[s].at > started
                 => providerCooldowns'[s] = providerCooldowns[s]
            /\ providerErrors[s].at > started => providerErrors'[s] = providerErrors[s]
       /\ \A k \in Keys : quotaCooldowns[k].at > started
                            => quotaCooldowns'[k] = quotaCooldowns[k]
    OBVIOUS
  <2> DEFINE started == calls[r].started
             n       == calls[r].model
  <2>1. started \in Nat /\ n \in Models /\ Source[n] \in Sources
    BY CatalogAssumption DEF TypeOK, CallsOK, Succeeds
  <2>2. Success(n, started, "request")
    BY DEF Succeeds
  <2>3. ASSUME NEW row, NEW none, row.at \in Nat, row.at > started
        PROVE  Lift(row, none, started) = row
    BY <2>1, <2>3 DEF Lift, Predates
  <2>4. /\ \A m \in Models : /\ cooldowns[m].at \in Nat /\ quarantine[m].at \in Nat
                             /\ modelErrors[m].at \in Nat
        /\ \A s \in Sources : providerCooldowns[s].at \in Nat /\ providerErrors[s].at \in Nat
        /\ \A k \in Keys : quotaCooldowns[k].at \in Nat
    BY DEF TypeOK, BlocksOK, ErrorsOK, Block, NoteOf, QuotaRows
  <2>5. \A m \in Models : cooldowns[m].at > started => cooldowns'[m] = cooldowns[m]
    BY <2>1, <2>2, <2>3, <2>4 DEF Success, TypeOK, BlocksOK
  <2>6. \A m \in Models : quarantine[m].at > started => quarantine'[m] = quarantine[m]
    BY <2>1, <2>2, <2>3, <2>4 DEF Success, TypeOK, BlocksOK
  <2>7. \A m \in Models : modelErrors[m].at > started => modelErrors'[m] = modelErrors[m]
    BY <2>1, <2>2, <2>3, <2>4 DEF Success, TypeOK, ErrorsOK
  <2>8. \A s \in Sources : providerCooldowns[s].at > started
                             => providerCooldowns'[s] = providerCooldowns[s]
    BY <2>1, <2>2, <2>3, <2>4 DEF Success, TypeOK, BlocksOK
  <2>9. \A s \in Sources : providerErrors[s].at > started
                             => providerErrors'[s] = providerErrors[s]
    BY <2>1, <2>2, <2>3, <2>4 DEF Success, TypeOK, ErrorsOK
  <2>10. \A k \in Keys : quotaCooldowns[k].at > started
                           => quotaCooldowns'[k] = quotaCooldowns[k]
    BY <2>2, <2>3, <2>4 DEF Success, TypeOK, BlocksOK
  <2> QED
    BY <2>5, <2>6, <2>7, <2>8, <2>9, <2>10
<1> QED
  BY <1>1, TypeCorrect, PTL DEF SuccessErasesNothingNewer

\* A request answered by m frees m at once, unless something that speaks of m
\* is younger than the call or its quarantine needs a release.
THEOREM SuccessHeals == Spec => SuccessRestores
<1>1. TypeOK => \A r \in Requests, m \in Models :
       LET started == calls[r].started IN
       (/\ Succeeds(r) /\ m = calls[r].model
        /\ quarantine[m].reason \in {"none", "model_not_found"}
        /\ quarantine[m].at <= started
        /\ cooldowns[m].at <= started
        /\ providerCooldowns[Source[m]].at <= started
        /\ \A k \in Keys : m \in Covers[k] => quotaCooldowns[k].at <= started)
       => Usable(m)'
  <2> SUFFICES ASSUME TypeOK, NEW r \in Requests, NEW m \in Models, Succeeds(r),
                      m = calls[r].model,
                      quarantine[m].reason \in {"none", "model_not_found"},
                      quarantine[m].at <= calls[r].started,
                      cooldowns[m].at <= calls[r].started,
                      providerCooldowns[Source[m]].at <= calls[r].started,
                      \A k \in Keys : m \in Covers[k] =>
                                        quotaCooldowns[k].at <= calls[r].started
               PROVE  Usable(m)'
    OBVIOUS
  <2>1. Success(m, calls[r].started, "request") /\ now' = now /\ now \in Nat
    BY DEF Succeeds, TypeOK
  <2>2. Source[m] \in Sources
    BY CatalogAssumption
  <2>3. cooldowns'[m] = NoRow /\ providerCooldowns'[Source[m]] = NoRow
    BY <2>1, <2>2 DEF Success, FreesRoute, Lift, Predates, TypeOK, BlocksOK
  <2>4. \A k \in Keys : m \in Covers[k] => quotaCooldowns'[k] = NoQuota
    BY <2>1 DEF Success, Lift, Predates
  <2>5. quarantine'[m].reason = "none"
    BY <2>1 DEF Success, Lift, Predates, NoNote, TypeOK, BlocksOK
  <2> QED
    BY <2>1, <2>3, <2>4, <2>5 DEF Usable, OnCooldown, Quarantined, NoRow, NoQuota
<1> QED
  BY <1>1, TypeCorrect, PTL DEF SuccessRestores

\* What a failure writes over a block that holds is a block that holds; what it prunes is a row
\* an older version left.
LEMMA FailureKeepsBlocks ==
  ASSUME TypeOK, NEW k \in Models, NEW reason, NEW delay \in Delays, Failure(k, reason, delay)
  PROVE  /\ \A m \in Models \ Legacy : cooldowns'[m].until > now \/ cooldowns'[m] = cooldowns[m]
         /\ \A s \in Sources :
              providerCooldowns'[s].until > now \/ providerCooldowns'[s] = providerCooldowns[s]
<1>1. now + delay > now
  BY TimeAssumption DEF TypeOK
<1>2. ASSUME NEW m \in Models \ Legacy
      PROVE  cooldowns'[m].until > now \/ cooldowns'[m] = cooldowns[m]
  <2>1. CASE m = k /\ CoolsModel(reason)
    <3>1. cooldowns'[m] = Row(reason, delay)
      BY <2>1 DEF Failure
    <3> QED
      BY <1>1, <3>1 DEF Row
  <2>2. CASE ~(m = k /\ CoolsModel(reason))
    <3>1. cooldowns'[m] = Pruned(cooldowns[m])
      BY <2>2 DEF Failure
    <3>2. cooldowns[m].reason \notin ProviderScoped
      BY DEF TypeOK, BlocksOK
    <3> QED
      BY <3>1, <3>2 DEF Pruned
  <2> QED
    BY <2>1, <2>2
<1>3. ASSUME NEW s \in Sources
      PROVE  providerCooldowns'[s].until > now \/ providerCooldowns'[s] = providerCooldowns[s]
  <2>1. providerCooldowns'[s] = providerCooldowns[s] \/ providerCooldowns'[s] = Row(reason, delay)
    BY DEF Failure, TypeOK, BlocksOK
  <2> QED
    BY <1>1, <2>1 DEF Row
<1> QED
  BY <1>2, <1>3

\* Of the blocks that hold only an answered request ends one of its own model or provider.
LEMMA EarnedStep ==
  ASSUME TypeOK, [Next]_vars, ~AdminStep
  PROVE  /\ \A m \in Models \ Legacy :
              \/ cooldowns'[m].until > now \/ cooldowns'[m] = cooldowns[m]
              \/ Earned({m}, cooldowns[m])
         /\ \A s \in Sources :
              \/ providerCooldowns'[s].until > now \/ providerCooldowns'[s] = providerCooldowns[s]
              \/ Earned({k \in Models : Source[k] = s}, providerCooldowns[s])
<1> DEFINE Goal == /\ \A m \in Models \ Legacy :
                        \/ cooldowns'[m].until > now \/ cooldowns'[m] = cooldowns[m]
                        \/ Earned({m}, cooldowns[m])
                   /\ \A s \in Sources :
                        \/ providerCooldowns'[s].until > now
                        \/ providerCooldowns'[s] = providerCooldowns[s]
                        \/ Earned({k \in Models : Source[k] = s}, providerCooldowns[s])
<1>1. ASSUME UNCHANGED <<cooldowns, providerCooldowns>> PROVE Goal
  BY <1>1
<1>2. ASSUME NEW k \in Models, NEW reason, NEW delay \in Delays, Failure(k, reason, delay)
      PROVE  Goal
  BY <1>2, FailureKeepsBlocks
<1>3. ASSUME NEW r \in Requests, Succeeds(r) PROVE Goal
  <2> DEFINE k == calls[r].model
             started == calls[r].started
  <2>1. k \in Models /\ Success(k, started, "request")
    BY <1>3 DEF Succeeds, TypeOK, CallsOK
  <2>2. ASSUME NEW m \in Models \ Legacy
        PROVE  cooldowns'[m] = cooldowns[m] \/ Earned({m}, cooldowns[m])
    <3>1. CASE m = k /\ cooldowns[m].at <= started
      BY <1>3, <3>1 DEF Earned
    <3>2. CASE ~(m = k /\ cooldowns[m].at <= started)
      BY <2>1, <3>2 DEF Success, Lift, Predates, TypeOK, BlocksOK
    <3> QED
      BY <3>1, <3>2
  <2>3. ASSUME NEW s \in Sources
        PROVE  \/ providerCooldowns'[s] = providerCooldowns[s]
               \/ Earned({n \in Models : Source[n] = s}, providerCooldowns[s])
    <3>1. CASE s = Source[k] /\ providerCooldowns[s].at <= started
      BY <1>3, <2>1, <3>1 DEF Earned
    <3>2. CASE ~(s = Source[k] /\ providerCooldowns[s].at <= started)
      BY <2>1, <3>2 DEF Success, Lift, Predates, TypeOK, BlocksOK
    <3> QED
      BY <3>1, <3>2
  <2> QED
    BY <2>2, <2>3
<1>4. ASSUME NEW r \in Requests, NEW reason \in Reasons, NEW delay \in Delays, Fails(r, reason, delay)
      PROVE  Goal
  BY <1>2, <1>4 DEF Fails, TypeOK, CallsOK
<1>5. CASE RequestStep
  <2>1. ASSUME NEW r \in Requests, Plan(r) \/ EndsUnanswered(r) \/ \E m \in Models : Ask(r, m)
        PROVE  Goal
    BY <1>1, <2>1 DEF Plan, EndsUnanswered, Ask, blocks
  <2> QED
    BY <1>3, <1>4, <1>5, <2>1 DEF RequestStep
<1>6. CASE ProberStep
  <2>1. ASSUME NEW delay \in Delays, CoolPoolLimited(delay) PROVE Goal
    BY <1>2, <2>1 DEF CoolPoolLimited, TypeOK, ProberOK
  <2>2. ASSUME NEW reason \in Reasons, NEW delay \in Delays, NEW guard \in Delays,
               ProbeFails(reason, delay, guard)
        PROVE  Goal
    <3>1. UNCHANGED cooldowns
      BY <2>2 DEF ProbeFails
    <3>2. ASSUME NEW s \in Sources
          PROVE  providerCooldowns'[s].until > now \/ providerCooldowns'[s] = providerCooldowns[s]
      <4>1. providerCooldowns'[s] = providerCooldowns[s] \/ providerCooldowns'[s] = Row(reason, guard)
        BY <2>2 DEF ProbeFails, TypeOK, BlocksOK
      <4>2. now + guard > now
        BY TimeAssumption DEF TypeOK
      <4> QED
        BY <4>1, <4>2 DEF Row
    <3> QED
      BY <3>1, <3>2
  <2>3. ASSUME NEW started \in 0..now, BenchSucceeds(started) PROVE Goal
    <3>1. Success(prober.model, started, "probe")
      BY <2>3 DEF BenchSucceeds
    <3>2. UNCHANGED <<cooldowns, providerCooldowns>>
      BY <3>1 DEF Success, FreesRoute, TypeOK, BlocksOK
    <3> QED
      BY <1>1, <3>2
  <2>4. ASSUME NEW reason \in Reasons, NEW delay \in Delays, BenchFails(reason, delay) PROVE Goal
    <3>1. prober.model \in Models
      BY <2>4 DEF BenchFails, TypeOK, ProberOK
    <3>2. Failure(prober.model, reason, delay) \/ UNCHANGED <<cooldowns, providerCooldowns>>
      BY <2>4 DEF BenchFails, blocks
    <3> QED
      BY <1>1, <1>2, <3>1, <3>2
  <2>5. ASSUME \/ \E k \in Keys, m \in Models, force \in BOOLEAN : PickProbe(k, m, force)
               \/ Reserve \/ ProbePasses \/ ProbePoolLimited \/ ProbeSkipped
               \/ \E m \in Models : Bench(m)
        PROVE  Goal
    <3>1. UNCHANGED <<cooldowns, providerCooldowns>>
      BY <2>5 DEF PickProbe, Reserve, ProbePasses, ProbePoolLimited, ProbeSkipped, Bench, blocks
    <3> QED
      BY <1>1, <3>1
  <2> QED
    BY <1>6, <2>1, <2>2, <2>3, <2>4, <2>5 DEF ProberStep
<1>7. CASE Restart \/ Tick \/ UNCHANGED vars
  BY <1>1, <1>7 DEF Restart, Tick, vars, blocks
<1> QED
  BY <1>5, <1>6, <1>7 DEF Next

\* A block a failure earned holds until its time unless an answered request of a model it speaks
\* for, which left after it, or somebody at the admin page ends it: no probe, benchmark, restart or
\* older success frees a route, for any catalog and any number of requests (record_success_in_state,
\* set_cooldown_in_state, failure_guard).
THEOREM BlocksStandUntilEarned == Spec => RouteBlocksAreEarnedBack
<1>1. TypeOK /\ TypeOK' /\ [Next]_vars => [BlocksAreEarned]_vars
  <2> SUFFICES ASSUME TypeOK, TypeOK', [Next]_vars PROVE BlocksAreEarned
    OBVIOUS
  <2>1. CASE AdminStep
    BY <2>1 DEF BlocksAreEarned
  <2>2. CASE ~AdminStep
    <3> SUFFICES ASSUME NEW m \in Models
                 PROVE  /\ (cooldowns[m].until > now /\ cooldowns'[m].until <= now /\ m \notin Legacy)
                             => Earned({m}, cooldowns[m])
                        /\ (/\ providerCooldowns[Source[m]].until > now
                            /\ providerCooldowns'[Source[m]].until <= now)
                             => Earned({k \in Models : Source[k] = Source[m]},
                                       providerCooldowns[Source[m]])
      BY DEF BlocksAreEarned
    <3>1. Source[m] \in Sources
      BY CatalogAssumption
    <3>2. /\ now \in Nat /\ cooldowns[m].until \in Nat
          /\ providerCooldowns[Source[m]].until \in Nat
      BY <3>1 DEF TypeOK, BlocksOK, Block
    <3>3. m \notin Legacy =>
            \/ cooldowns'[m].until > now \/ cooldowns'[m] = cooldowns[m]
            \/ Earned({m}, cooldowns[m])
      BY <2>2, EarnedStep
    <3>4. \/ providerCooldowns'[Source[m]].until > now
          \/ providerCooldowns'[Source[m]] = providerCooldowns[Source[m]]
          \/ Earned({k \in Models : Source[k] = Source[m]}, providerCooldowns[Source[m]])
      BY <2>2, <3>1, EarnedStep
    <3>5. cooldowns'[m].until \in Nat /\ providerCooldowns'[Source[m]].until \in Nat
      BY <3>1 DEF TypeOK, BlocksOK, Block
    <3> QED
      BY <3>2, <3>3, <3>4, <3>5
  <2> QED
    BY <2>1, <2>2
<1> QED
  BY <1>1, TypeCorrect, PTL DEF Spec, RouteBlocksAreEarnedBack
=============================================================================
