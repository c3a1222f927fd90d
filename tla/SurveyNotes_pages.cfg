SPECIFICATION NotesSpec
CONSTANTS
  Visits = {v1, v2}
  Asks = {a1, a2}
  MaxAnswers = 3
  MaxNotesFaults = 1
SYMMETRY MCSymmetry
INVARIANTS
  ReadMeansShown
  NoFalseAllClear
CHECK_DEADLOCK FALSE
