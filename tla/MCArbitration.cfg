SPECIFICATION FairSpec
CONSTANTS
  a = a
  b = b
  Joueurs = {a, b}
  Genres = {"fete", "coop"}
  MaxRapports <- MCMaxRapports
  MaxVirages <- MCMaxVirages
CHECK_DEADLOCK FALSE
INVARIANTS TypeOK ShiftCreditedOnce PresentAreServed EndVerdictIsWhole ReportsAreMerged
PROPERTIES MarkedArePaid
