SPECIFICATION Spec
CONSTANTS
  app = app
  arb = arb
  r1 = r1
  r2 = r2
  l1 = l1
  l2 = l2
  carte = carte
  fiche = fiche
  Aucun = aucun
  Arbitre = arb
  Servis = {app}
  Fils = {r1, r2, l1, l2}
  Ou <- MCOu
  Documents = {carte, fiche}
  Cartes = {carte}
  MaxEcrits = 2
CHECK_DEADLOCK FALSE
SYMMETRY Symetrie
ACTION_CONSTRAINT Patience
INVARIANTS TypeOK CaughtUp CreditsStay
