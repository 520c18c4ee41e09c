-------------------------- MODULE MCEditSession --------------------------
(* A file of the project and one outside it; lines that are equal, equal but for space, or blank. *)
EXTENDS EditSession

MCTexts == {"x", " x", "y", ""}
MCTrimmed == [t \in MCTexts |-> IF t = " x" THEN "x" ELSE t]

MCFiles == { << "x", "y" >>, << "x", "x" >>, << " x", "", "" >> }
MCPayloads == { << "x" >>, << "", "y" >> }

MCBudgets == { [calls |-> 3, foreign |-> 1, fault |-> 1], [calls |-> 2, foreign |-> 2, fault |-> 0], [calls |-> 4, foreign |-> 0, fault |-> 0] }
==========================================================================
