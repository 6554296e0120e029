CONSTANTS
  Base = 2
  Size = 4
SPECIFICATION Spec
INVARIANTS MatchesModel ReadsModel NeverLate
