----------------------------- MODULE MCSurveys ------------------------------
(* Model values and symmetry for checking Surveys.                         *)
EXTENDS Surveys, TLC

MCSymmetry == Permutations(Accounts) \cup Permutations(Questions)
              \cup Permutations(Texts) \cup Permutations(Posts)
=============================================================================
