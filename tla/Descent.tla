------------------------------ MODULE Descent ------------------------------
(***************************************************************************)
(* How far a procedure is from its end, in four numbers compared from the  *)
(* first one on.                                                           *)
(***************************************************************************)
EXTENDS Naturals

Ranks == Nat \X Nat \X Nat \X Nat

\* Rank r is below s when it is lower in the first place they differ in.
Below(r, s) ==
  /\ r \in Ranks
  /\ \E k \in 1..4 : r[k] < s[k] /\ \A j \in 1..(k - 1) : r[j] = s[j]
=============================================================================
