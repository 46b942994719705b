------------------------------ MODULE Admission ------------------------------
(***************************************************************************)
(* ProviderAdmissionLedger (provider_admission.py), the guard every call   *)
(* to a provider passes in invoke_model, for one provider and one scope.   *)
(* What the ledger goes by is the headers of the last answer to arrive;    *)
(* before any did, or once their window is over, the declared rate; and    *)
(* without one, nothing.  The provider is modelled from what its headers   *)
(* say: so many calls in each window, the rest turned away.                *)
(***************************************************************************)
EXTENDS Naturals, Sequences, FiniteSets

CONSTANTS
    Calls,       \* threads that may be calling
    Granted,     \* calls the provider takes in a window
    Window,      \* its length, and ADMISSION_WINDOW_SECONDS
    Declared,    \* the declared rate less its headroom; 0 when there is none
    Unknown,
    MaxTime      \* bound of the clock

\* What a provider grants is a number of calls and a window of some length.
ProviderLimits ==
    /\ IsFiniteSet(Calls) /\ Granted \in Nat /\ Window \in Nat \ {0} /\ Declared \in Nat
    /\ Unknown \notin [remaining : Nat, reset : Nat] \cup [remaining : Nat, reset_at : Nat]

VARIABLES
    now,
    left,        \* seconds left of the provider's window
    _observed,   \* what the last headers left: [remaining, reset_at], or Unknown
    _requests,   \* when the calls allowed by the declared rate left
    call,        \* each thread's call: [stage, headers], and whether no other call was under way
                 \* since it left, in the window of its headers (alone, history)
    taken,       \* what the provider took in its window
    sure,        \* the last headers came of such a call (history)
    surprised    \* a call was turned away nevertheless (history)

admissionVars == <<now, left, _observed, _requests, call, taken, sure, surprised>>

None == [stage |-> "none", headers |-> Unknown, alone |-> FALSE]
Under == {c \in Calls : call[c].stage # "none"}

\* Mutant: a call allowed by the headers takes nothing off what they left.
LeftAsIs(o) == o

LeftAfter(o) == [o EXCEPT !.remaining = @ - 1]

\* Headers whose window is over are forgotten.
Current == IF _observed # Unknown /\ _observed.reset_at <= now THEN Unknown ELSE _observed

Recent == SelectSeq(_requests, LAMBDA at : at + Window > now)

\* A refusal fails over, or skips the probe: it leaves nothing behind but what expired.
Refuse(c) ==
    /\ call[c].stage = "none"
    /\ \/ Current # Unknown /\ Current.remaining = 0 /\ UNCHANGED <<_observed, _requests>>
       \/ /\ Current = Unknown /\ Declared > 0 /\ Len(Recent) >= Declared
          /\ _observed' = Unknown /\ _requests' = Recent
    /\ UNCHANGED <<now, left, call, taken, sure, surprised>>

Reserve(c) ==
    /\ call[c].stage = "none"
    /\ \/ /\ Current # Unknown /\ Current.remaining > 0
          /\ _observed' = LeftAfter(Current) /\ UNCHANGED _requests
       \/ /\ Current = Unknown /\ _observed' = Unknown
          /\ IF Declared = 0 THEN UNCHANGED _requests
             ELSE Len(Recent) < Declared /\ _requests' = Append(Recent, now)
    /\ call' = [d \in Calls |-> IF d = c THEN [stage |-> "sent", headers |-> Unknown, alone |-> Under = {}]
                               ELSE [call[d] EXCEPT !.alone = FALSE]]
    /\ UNCHANGED <<now, left, taken, sure, surprised>>

\* The provider takes the call or turns it away; its headers say what is left of the window, which
\* an answer need not carry.
Arrive(c) ==
    /\ call[c].stage = "sent"
    /\ taken' = IF taken < Granted THEN taken + 1 ELSE taken
    /\ surprised' = (surprised \/ (sure /\ taken = Granted))
    /\ \E headers \in {Unknown, [remaining |-> Granted - taken', reset |-> left]} :
          call' = [call EXCEPT ![c].stage = "answered", ![c].headers = headers]
    /\ UNCHANGED <<now, left, _observed, _requests, sure>>

\* The headers replace what was known: the reset is counted from their arrival.
Observed(h) == [remaining |-> h.remaining, reset_at |-> now + h.reset]

\* The answer arrives.
observe(c) ==
    /\ call[c].stage = "answered" /\ call[c].headers # Unknown
    /\ _observed' = Observed(call[c].headers)
    /\ sure' = call[c].alone
    /\ call' = [call EXCEPT ![c] = None]
    /\ UNCHANGED <<now, left, _requests, taken, surprised>>

\* Headers that are not understood change nothing, and neither does a call that times out.
Over(c) ==
    /\ call[c].stage # "none"
    /\ call' = [call EXCEPT ![c] = None]
    /\ UNCHANGED <<now, left, _observed, _requests, taken, sure, surprised>>

\* The next window of the provider may begin.
Tick ==
    /\ now < MaxTime /\ now' = now + 1
    /\ LET rolls == left = 1
       IN  /\ left' = (IF rolls THEN Window ELSE left - 1)
           /\ taken' = (IF rolls THEN 0 ELSE taken)
           /\ sure' = (sure /\ ~rolls)
           /\ call' = [c \in Calls |-> [call[c] EXCEPT !.alone = @ /\ ~rolls]]
    /\ UNCHANGED <<_observed, _requests, surprised>>

AdmissionInit ==
    /\ now = 0 /\ left = Window /\ _observed = Unknown /\ _requests = <<>>
    /\ call = [c \in Calls |-> None]
    /\ taken = 0 /\ sure = FALSE /\ surprised = FALSE

AdmissionNext ==
    \/ \E c \in Calls : Refuse(c) \/ Reserve(c) \/ Arrive(c) \/ observe(c) \/ Over(c)
    \/ Tick

AdmissionSpec == AdmissionInit /\ [][AdmissionNext]_admissionVars

------------------------------------------------------------------------------
\* Once headers came of a call that no other overlapped, no call the ledger allows is turned away
\* in their window, however many are under way at a time, until headers come of a call that
\* another did overlap: those replace what is left by what was left before it
\* (ProviderAdmissionLedger.reserve, observe; one process has the account).
AllowedIsTaken == ~surprised
==============================================================================
