SPECIFICATION FairSpec
CONSTANTS
  turf = turf
  coop = coop
  j1 = j1
  j2 = j2
  t1 = t1
  t2 = t2
  t3 = t3
  f1 = f1
  f2 = f2
  f3 = f3
  sansConfig = sansConfig
  Auteur <- MCAuteur
  TicketDe <- MCTicketDe
  Joueurs = {j1, j2}
  Tickets = {t1, t2, t3}
  Flux = {f1, f2, f3}
  Configs = {turf, coop}
  Voulus <- MCVoulus
  ConfigParDefaut = turf
  SansConfig = sansConfig
  FilesDeFete = {}
  Tricolores = {}
  Camps = {}
  SansCamp = sansCamp
  Defenseurs = {}
  Instant = TRUE
  Rien = rien
  Capacite <- MCCapacite
  CampDe <- MCCampDe
  Ordre <- MCOrdre
  Melanges <- MCMelanges
ACTION_CONSTRAINT Garde
CHECK_DEADLOCK FALSE
INVARIANTS TypeOK PoolMatchesStreams NoRosterLeftWaiting
PROPERTIES ServesInOrder DecisionDelivered
