SPECIFICATION Spec
CONSTANTS
  p = p
  q = q
  ouvert = ouvert
  sansMode = sansMode
  Camps = {1, 2, 3}
  Joueurs = {p, q}
  Voulus <- MCVoulus
  Batailles <- MCBatailles
  Modes = {ouvert}
  SansMode = sansMode
  ModeDe <- MCModeDe
  Depart <- MCDepart
  a = a
  k1 = k1
  k2 = k2
  Arbitres = {a}
  Consoles = {k1, k2}
  MaxBatailles = 2
  MaxRedemarrages = 1
SYMMETRY Symetrie
CHECK_DEADLOCK FALSE
INVARIANTS TypeOK AnswersAgree MidtermCountsFirstHalf NoVoteNoPoint
PROPERTIES OneBallotOnePhoto
