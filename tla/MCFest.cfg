SPECIFICATION FairSpec
CONSTANTS
  ouvert = ouvert
  tricolore = tricolore
  campA = campA
  campB = campB
  campC = campC
  a1 = a1
  a2 = a2
  b1 = b1
  c1 = c1
  Joueurs = {a1, a2, b1, c1}
  Tickets = {a1, a2, b1, c1}
  Flux = {a1, a2, b1, c1}
  Auteur <- MCIdentite
  TicketDe <- MCIdentite
  Voulus <- MCVoulus
  turf = turf
  Configs = {turf, ouvert, tricolore}
  ConfigParDefaut = turf
  SansConfig = sansConfig
  FilesDeFete = {ouvert, tricolore}
  Tricolores = {tricolore}
  Camps = {campA, campB, campC}
  SansCamp = sansCamp
  Ordre <- MCOrdre
  CampDe <- MCCampDe
  Capacite <- MCCapacite
  Defenseurs = {campA}
  Melanges = {FALSE, TRUE}
  Instant = TRUE
  Rien = rien
CHECK_DEADLOCK FALSE
ACTION_CONSTRAINT Patience
INVARIANTS CampsFaceEachOther
PROPERTIES ServesInOrder RosterEventuallyFormed
