--------------------------- MODULE RegressionsMC ---------------------------
(***************************************************************************)
(* Model-checking instance of Regressions: two cases that want the same    *)
(* id, one of which has no question, and two registered ones, of which one *)
(* has a threshold out of range.  An executor leaves evidence, or nothing  *)
(* but an event that failed.                                               *)
(***************************************************************************)
EXTENDS Regressions, TLC

Case(id, expects) == [id |-> id, blank |-> FALSE, sound |-> TRUE, expects |-> expects]

Registry == <<Case("fault", "error"), [Case("threshold", "success") EXCEPT !.sound = FALSE]>>
Scenarios == {Case("answer", "success"), [Case("answer", "error") EXCEPT !.blank = TRUE]}
Left == {[failed |-> FALSE, empty |-> FALSE, response |-> FALSE, evidence |-> TRUE],
         [failed |-> TRUE, empty |-> FALSE, response |-> FALSE, evidence |-> FALSE]}
Symmetry == Permutations(Drivers)
=============================================================================
