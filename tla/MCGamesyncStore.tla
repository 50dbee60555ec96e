--------------------------- MODULE MCGamesyncStore ---------------------------
(* Two consoles of a room, one of which watches: the state of the other, a   *)
(* document that is also made up in a snapshot, and the verdict.             *)
EXTENDS GamesyncStore, TLC

CONSTANTS a, b, etat, fiche, juge, cE, cJ

MCDe == etat :> a @@ fiche :> Aucun @@ juge :> Aucun
MCCollection == etat :> cE @@ fiche :> cE @@ juge :> cJ
MCSynthese == etat :> "jamais" @@ fiche :> "instantane" @@ juge :> "jamais"

(* Bounds: a only writes and leaves, b watches; the pusher of a, which has    *)
(* nothing to push, takes its nudge at once.                                 *)
Garde ==
  /\ colls'[a] = {} /\ ~watched'[a] /\ flux'[a] # "soupape"
  /\ ecriture'[b].etape = "rien"
AuPlusTot == flux[a] = "ouvert" /\ reveil[a] > 0 => reveil'[a] = 0
Bornes == Patience /\ Garde /\ AuPlusTot
==============================================================================
