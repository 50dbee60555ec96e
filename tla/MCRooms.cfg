SPECIFICATION FairSpec
CONSTANTS
  a = a
  b = b
  g = g
  ua = ua
  ub = ub
  uc = uc
  f1 = f1
  f2 = f2
  Rien = Rien
  Joueurs = {a, b}
  Parties = {g}
  Uss = {ua, ub, uc}
  JoueurDe <- MCJoueurDe
  PartieDe <- MCPartieDe
  HoteDe <- MCHoteDe
  Flux = {f1, f2}
  UssDe <- MCUssDe
  MaxJetons <- MCMaxJetons
CHECK_DEADLOCK FALSE
ACTION_CONSTRAINT Patience
INVARIANTS TypeOK ListsAreTrue OneSessionPerPlayer
PROPERTIES RanksApart WakesTheLiving DepartedAreFreed
