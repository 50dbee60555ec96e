SPECIFICATION Spec
CONSTANTS
  a = a
  b = b
  etat = etat
  fiche = fiche
  juge = juge
  cE = cE
  cJ = cJ
  Aucun = aucun
  Consoles = {a, b}
  Documents = {etat, fiche, juge}
  De <- MCDe
  Collection <- MCCollection
  Synthese <- MCSynthese
  Verdict = juge
  Presence = {}
  Capacite = 1
  Repets = 1
  MaxEcrits = 2
  MaxVenues = 2
CHECK_DEADLOCK FALSE
ACTION_CONSTRAINT Bornes
INVARIANTS TypeOK NudgeFollowsWrite DepartedLeaveNothing
PROPERTIES WatchersCatchUp VerdictIsDelivered ValveFreesTheSession
