--------------------------- MODULE MCSurveyNotes ---------------------------
(* Model values and symmetry for checking SurveyNotes.                     *)
EXTENDS SurveyNotes, TLC

MCSymmetry == Permutations(Visits) \cup Permutations(Asks)
=============================================================================
