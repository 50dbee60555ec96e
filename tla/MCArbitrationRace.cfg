SPECIFICATION Spec
CONSTANTS
  a = a
  b = b
  Joueurs = {a, b}
  Genres = {"fete", "coop"}
  MaxRapports <- MCMaxRapports
  MaxVirages <- CalmeMaxVirages
CHECK_DEADLOCK FALSE
INVARIANTS VerdictAggregates
