SPECIFICATION Spec
CONSTANTS
  w1 = w1
  w2 = w2
  c1 = c1
  Ecritures = {w1, w2}
  Octroi = octroi
  Appels = {c1}
  Aucun = aucun
  MaxPannes = 2
SYMMETRY Symetrie
INVARIANTS TypeOK AnsweredStay GrantedOnce
