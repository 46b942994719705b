--------------------------- MODULE AttemptLoopMC ---------------------------
(***************************************************************************)
(* Small instances of AttemptLoop for TLC.  Of five candidates the first   *)
(* two come from one provider, 3 and 5 from another and 4 from a third; 2  *)
(* and 3 serve the same weights, as do 1 and 5; 1 and 4 draw on one quota  *)
(* pool, and so do 2 and 5.  1 and 2 have the smallest known context and 4 *)
(* publishes none.                                                         *)
(***************************************************************************)
EXTENDS AttemptLoop

CONSTANTS s1, s2, s3, u1, u2, u3, q1, q2, q3, temperature, top_p

MCSource == [m \in Models |->
  CASE m \in {1, 2} -> s1 [] m \in {3, 5} -> s2 [] OTHER -> s3]
MCUpstream == [m \in Models |->
  CASE m \in {1, 5} -> u1 [] m \in {2, 3} -> u2 [] OTHER -> u3]
MCQuotaKey == [m \in Models |->
  CASE m \in {1, 4} -> q1 [] m \in {2, 5} -> q2 [] OTHER -> q3]
MCContext == [m \in Models |->
  CASE m \in {1, 2} -> 1 [] m = 3 -> 2 [] m = 4 -> 0 [] OTHER -> 3]

Whole == {Models}
SomePools == {Models, Models \ {1}, Models \cap 1..2}
=============================================================================
