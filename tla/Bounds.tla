------------------------------- MODULE Bounds -------------------------------
(***************************************************************************)
(* How often things may happen.  A behaviour starts with one of Budgets, a *)
(* count for each sort of event that the code itself does not limit (calls *)
(* of the user, items, faults, crashes ...), and every such event takes    *)
(* one away.  Several budgets keep an instance small where all the counts  *)
(* together would not.                                                     *)
(***************************************************************************)
EXTENDS Integers

CONSTANT Budgets

VARIABLE left

BudgetsGiven == left \in Budgets

Spend(what) ==
  /\ left[what] > 0
  /\ left' = [left EXCEPT ![what] = @ - 1]
=============================================================================
