SPECIFICATION Spec
CONSTANTS
  p1 = p1
  p2 = p2
  s1 = s1
  o1 = o1
  Joueurs = {p1, p2}
  Serveurs = {s1}
  Operateurs = {o1}
  Aucun = Aucun
  MaxEcritures = 3
  MaxPannes = 1
INVARIANT TypeOK
PROPERTIES BannedIsCut KeepsItsPromise
