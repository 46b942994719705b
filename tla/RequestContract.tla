-------------------------- MODULE RequestContract --------------------------
(***************************************************************************)
(* What one chat completion request promises, whatever the loop behind it  *)
(* does to choose: to its caller, that it ends with one verdict and that   *)
(* nothing follows a committed stream; to the providers, that they are     *)
(* asked one at a time, that a candidate whose answer was final is not     *)
(* asked again, and that a body one of them refused goes to no other.      *)
(*                                                                         *)
(* The abstract specification of AttemptLoop: how the next candidate is    *)
(* chosen, waits, budgets, hang-ups and signals are not visible here.      *)
(***************************************************************************)
CONSTANTS
  Models,        \* the candidates
  NoModel        \* no candidate

VARIABLES
  inFlight,      \* the candidate being asked, or NoModel
  spent,         \* the candidates whose answer was final
  refused,       \* the body was refused as such
  verdict        \* what the caller was told, "none" while nothing was

contractVars == <<inFlight, spent, refused, verdict>>

ContractInit ==
  inFlight = NoModel /\ spent = {} /\ refused = FALSE /\ verdict = "none"

Ask(m) ==
  /\ verdict = "none" /\ inFlight = NoModel
  /\ m \notin spent
  /\ inFlight' = m
  /\ UNCHANGED <<spent, refused, verdict>>

\* No answer: unless it is final the candidate may be asked once more.
Fail(m) ==
  /\ verdict = "none" /\ inFlight = m
  /\ inFlight' = NoModel
  /\ spent' \in {spent, spent \cup {m}}
  /\ verdict' \in {"none", "json_failure"}
  /\ UNCHANGED refused

\* The body is refused: the end, in the same step.
Refuse(m) ==
  /\ verdict = "none" /\ inFlight = m
  /\ inFlight' = NoModel
  /\ spent' = spent \cup {m} /\ refused' = TRUE
  /\ verdict' = "json_failure"

Answer(m) ==
  /\ verdict = "none" /\ inFlight = m
  /\ inFlight' = NoModel
  /\ spent' = spent \cup {m} /\ verdict' = "answered"
  /\ UNCHANGED refused

\* The 200 of a stream is on the wire: only this candidate's stream may follow.
Commit(m) ==
  /\ verdict = "none" /\ inFlight = m
  /\ verdict' = "streaming"
  /\ UNCHANGED <<inFlight, spent, refused>>

Close(m) ==
  /\ verdict = "streaming" /\ inFlight = m
  /\ inFlight' = NoModel
  /\ spent' = spent \cup {m} /\ verdict' \in {"streamed", "broken"}
  /\ UNCHANGED refused

GiveUp ==
  /\ verdict = "none" /\ inFlight = NoModel
  /\ verdict' \in {"json_failure", "abandoned"}
  /\ UNCHANGED <<inFlight, spent, refused>>

\* The process exits under the request.
Cut ==
  /\ verdict \in {"none", "streaming"}
  /\ inFlight' = NoModel /\ verdict' = "cut"
  /\ UNCHANGED <<spent, refused>>

ContractNext ==
  \/ \E m \in Models :
       Ask(m) \/ Fail(m) \/ Refuse(m) \/ Answer(m) \/ Commit(m) \/ Close(m)
  \/ GiveUp \/ Cut
ContractSpec == ContractInit /\ [][ContractNext]_contractVars
=============================================================================
