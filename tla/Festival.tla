------------------------------ MODULE Festival ------------------------------
(***************************************************************************)
(* One festival, as the process that answers GetFestResult keeps it:        *)
(* registrations (src/fest_entries.go), victories and ink per camp, and the *)
(* midterm, frozen by whoever asks for it first once half of the festival   *)
(* is over (src/fest_intermede.go), then the points of the verdict          *)
(* (src/fest_bareme.go).                                                    *)
(*                                                                         *)
(* entreesFest and victoiresFest have a lock and a file each.  What is done *)
(* under one lock is a step, the write of the file included; the counting   *)
(* of a battle and the answer to a console take a lock several times and    *)
(* interleave in between.  The process may be killed and started again.     *)
(***************************************************************************)
EXTENDS Integers, FiniteSets

CONSTANTS Camps,      (* positive integers, in the order of the names         *)
          Joueurs,    (* who may register                                     *)
          Voulus,     (* per player: the camps he may ask for                 *)
          Batailles,  (* the battles that may be fought                       *)
          Modes,      (* the values of game_mode                              *)
          ModeDe,     (* modeDuCritere: per criterion, its mode or SansMode   *)
          SansMode,
          Depart,     (* partDeDepart: the shares before any vote, distinct   *)
          Arbitres,   (* the handlers that count battles                      *)
          Consoles,   (* who asks for the result                              *)
          MaxBatailles, (* bound: battles counted                             *)
          MaxRedemarrages (* bound: restarts                                  *)

Criteres == {"Yobisai", "PlayerCount", "Regular", "Challenge", "Tricolor"}
Compte == [Camps -> Nat]
Verdicts == [creneau : [Joueurs -> 0..3], vainqueur : 0..3, mode : Modes \cup {SansMode}]

ASSUME FestivalAssumption ==
  /\ Camps \subseteq Nat \ {0} /\ IsFiniteSet(Camps)
  /\ Cardinality(Camps) >= 3      (* campsCanoniques                         *)
  /\ IsFiniteSet(Joueurs)
  /\ Voulus \in [Joueurs -> SUBSET Camps]
  /\ Batailles \subseteq Verdicts
  /\ SansMode \notin Modes
  /\ ModeDe \in [Criteres -> Modes \cup {SansMode}]
  /\ Depart \in Compte
  /\ \A c, d \in Camps : Depart[c] = Depart[d] => c = d
  /\ MaxBatailles \in Nat /\ MaxRedemarrages \in Nat

VARIABLES
  miTemps,        (* mid_time is past                                         *)
  entrees,        (* entreesFest: the camp of a player, or Aucun              *)
  entreesFichier, (* fest_entries.json                                        *)
  compte,         (* victoiresFest                                            *)
  compteFichier,  (* what a start reads in fest_victoires.json: nothing counted
                     when the file is missing or is not whole                 *)
  comptages,      (* per arbiter: the counting of a battle under way          *)
  lectures,       (* per console: its GetFestResult under way                 *)
  batailles,      (* how many battles were counted                            *)
  redemarrages,   (* how often the process was started again                  *)
  inscriptions,   (* the <<player, camp>> CreateFestEntry answered            *)
  reponses,       (* the midterms GetFestResult answered                      *)
  premiere        (* what was counted when mid_time passed                    *)

votants == <<entrees, entreesFichier>>
comptes == <<compte, compteFichier>>
appels  == <<comptages, lectures>>
vu      == <<inscriptions, reponses, premiere>>
vars == <<miTemps, votants, comptes, appels, batailles, redemarrages, vu>>

Aucun == 0
Zero == [c \in Camps |-> 0]
Vide(n) == \A c \in Camps : n[c] = 0

(* A set of shares: only their order and their proportions are ever used,    *)
(* so it is kept as the counts they were divided from, with their origin.    *)
SansPhoto == [origine |-> "aucune", parts |-> Zero]
Photos == [origine : {"aucune", "ferveur", "victoires", "vote"}, parts : Compte]

comptageFest == [victoires : Compte, ferveur : Compte, parMode : [Modes -> Compte],
                 intermede : Photos]
SansCompte == [victoires |-> Zero, ferveur |-> Zero, parMode |-> [m \in Modes |-> Zero],
               intermede |-> SansPhoto]

(* ------------------------------- votes ---------------------------------- *)
votesParCamp == [c \in Camps |-> Cardinality({j \in Joueurs : entrees[j] = c})]

yobisaiDeLaFete == IF Vide(votesParCamp) THEN Depart ELSE votesParCamp

(* Fault: the answer is the registration found, where there was none yet.    *)
RepondreLAncienne(j, c) ==
  /\ entrees' = IF entrees[j] = Aucun THEN [entrees EXCEPT ![j] = c] ELSE entrees
  /\ entreesFichier' = entrees'
  /\ inscriptions' = inscriptions \cup {<<j, entrees[j]>>}
  /\ UNCHANGED <<miTemps, comptes, appels, batailles, redemarrages, reponses, premiere>>

(* Fault: the last choice of a player is the one that is kept.               *)
ReinscrireSansRegarder(j, c) ==
  /\ entrees' = [entrees EXCEPT ![j] = c]
  /\ entreesFichier' = entrees'
  /\ inscriptions' = inscriptions \cup {<<j, c>>}
  /\ UNCHANGED <<miTemps, comptes, appels, batailles, redemarrages, reponses, premiere>>

(* A player registers, or asks again: the camp he has is the answer.  The    *)
(* file is replaced by a rename before the lock is let go of.                *)
CreateFestEntry(j, c) ==
  /\ entrees' = IF entrees[j] = Aucun THEN [entrees EXCEPT ![j] = c] ELSE entrees
  /\ entreesFichier' = IF entrees[j] = Aucun THEN entrees' ELSE entreesFichier
  /\ inscriptions' = inscriptions \cup {<<j, entrees'[j]>>}
  /\ UNCHANGED <<miTemps, comptes, appels, batailles, redemarrages, reponses, premiere>>

(* ------------------------------ counting -------------------------------- *)
intermedeFige == compte.intermede # SansPhoto

enregistrer(n) == compte' = n /\ compteFichier' = n

(* The camp most of the winning team registered for; none if nobody did.     *)
campVainqueur(b) ==
  LET voix == [c \in Camps |-> Cardinality({j \in Joueurs : /\ b.creneau[j] = b.vainqueur
                                                            /\ entrees[j] = c})]
  IN  {c \in Camps : /\ b.vainqueur # 0
                     /\ voix[c] > 0
                     /\ \A d \in Camps : voix[d] < voix[c] \/ (voix[d] = voix[c] /\ c <= d)}

(* Every player inks one point.                                              *)
encreParCamp(b) ==
  [c \in Camps |-> Cardinality({j \in Joueurs : b.creneau[j] # 0 /\ entrees[j] = c})]

Comptage == [etape : {"repos", "victoire", "encre", "ferveur"},
             bataille : Verdicts, encre : Compte]
Oisif == [etape |-> "repos", encre |-> Zero,
          bataille |-> [creneau |-> [j \in Joueurs |-> 0], vainqueur |-> 0, mode |-> SansMode]]
Etape(a, e) == comptages[a].etape = e

compterLaBatailleDeFete(a, b) ==
  /\ Etape(a, "repos")
  /\ batailles < MaxBatailles
  /\ batailles' = batailles + 1
  /\ comptages' = [comptages EXCEPT ![a] =
       [etape |-> IF intermedeFige THEN "encre" ELSE "victoire", bataille |-> b, encre |-> Zero]]
  /\ UNCHANGED <<miTemps, votants, comptes, lectures, redemarrages, vu>>

enregistrerVictoireDeFete(a) ==
  /\ Etape(a, "victoire")
  /\ LET b == comptages[a].bataille
         un(n, c) == [n EXCEPT ![c] = @ + 1]
     IN  IF campVainqueur(b) = {} THEN UNCHANGED comptes
         ELSE \E c \in campVainqueur(b) :
                enregistrer([compte EXCEPT
                  !.victoires = un(@, c),
                  !.parMode = [m \in Modes |-> IF m = b.mode THEN un(@[m], c) ELSE @[m]]])
  /\ comptages' = [comptages EXCEPT ![a].etape = "encre"]
  /\ UNCHANGED <<miTemps, votants, lectures, batailles, redemarrages, vu>>

compterLaFerveurDeLaBataille(a) ==
  /\ Etape(a, "encre")
  /\ comptages' = [comptages EXCEPT
       ![a].etape = IF intermedeFige THEN "repos" ELSE "ferveur",
       ![a].encre = IF intermedeFige THEN Zero ELSE encreParCamp(comptages[a].bataille)]
  /\ UNCHANGED <<miTemps, votants, comptes, lectures, batailles, redemarrages, vu>>

(* Fault: the ink is only written with the next victory.                     *)
FerveurSansEcrire(a, c) ==
  /\ Etape(a, "ferveur")
  /\ comptages[a].encre[c] > 0
  /\ compte' = [compte EXCEPT !.ferveur[c] = @ + comptages[a].encre[c]]
  /\ comptages' = [comptages EXCEPT ![a].encre[c] = 0]
  /\ UNCHANGED <<miTemps, votants, compteFichier, lectures, batailles, redemarrages, vu>>

(* One camp after the other, in any order.                                   *)
enregistrerFerveur(a, c) ==
  /\ Etape(a, "ferveur")
  /\ comptages[a].encre[c] > 0
  /\ enregistrer([compte EXCEPT !.ferveur[c] = @ + comptages[a].encre[c]])
  /\ comptages' = [comptages EXCEPT ![a].encre[c] = 0]
  /\ UNCHANGED <<miTemps, votants, lectures, batailles, redemarrages, vu>>

FinDuComptage(a) ==
  /\ Etape(a, "ferveur")
  /\ Vide(comptages[a].encre)
  /\ comptages' = [comptages EXCEPT ![a].etape = "repos"]
  /\ UNCHANGED <<miTemps, votants, comptes, lectures, batailles, redemarrages, vu>>

(* ------------------------------ the midterm ----------------------------- *)
Lecture == [etape : {"repos", "ferveur", "victoires", "vote", "figer", "relire"},
            parts : Photos]
SansLecture == [etape |-> "repos", parts |-> SansPhoto]
Lit(k, e) == lectures[k].etape = e

Proposer(k, origine, n) ==
  lectures' = [lectures EXCEPT ![k] = [etape |-> "figer",
                                       parts |-> [origine |-> origine, parts |-> n]]]

(* The midterm is only looked for after mid_time; if it is frozen, it is the *)
(* answer.  A festival that is over is answered in the same way.             *)
GetFestResult(k) ==
  /\ Lit(k, "repos")
  /\ miTemps
  /\ IF intermedeFige
     THEN reponses' = reponses \cup {compte.intermede} /\ UNCHANGED lectures
     ELSE lectures' = [lectures EXCEPT ![k].etape = "ferveur"] /\ UNCHANGED reponses
  /\ UNCHANGED <<miTemps, votants, comptes, comptages, batailles, redemarrages,
                 inscriptions, premiere>>

partsDeFerveur(k) ==
  /\ Lit(k, "ferveur")
  /\ IF Vide(compte.ferveur) THEN lectures' = [lectures EXCEPT ![k].etape = "victoires"]
                             ELSE Proposer(k, "ferveur", compte.ferveur)
  /\ UNCHANGED <<miTemps, votants, comptes, comptages, batailles, redemarrages, vu>>

partsDesVictoires(k) ==
  /\ Lit(k, "victoires")
  /\ IF Vide(compte.victoires) THEN lectures' = [lectures EXCEPT ![k].etape = "vote"]
                               ELSE Proposer(k, "victoires", compte.victoires)
  /\ UNCHANGED <<miTemps, votants, comptes, comptages, batailles, redemarrages, vu>>

partsDuVote(k) ==
  /\ Lit(k, "vote")
  /\ Proposer(k, "vote", yobisaiDeLaFete)
  /\ UNCHANGED <<miTemps, votants, comptes, comptages, batailles, redemarrages, vu>>

(* Fault: the photo is taken again.                                          *)
FigerEncore(k) ==
  /\ Lit(k, "figer")
  /\ enregistrer([compte EXCEPT !.intermede = lectures[k].parts])
  /\ lectures' = [lectures EXCEPT ![k].etape = "relire"]
  /\ UNCHANGED <<miTemps, votants, comptages, batailles, redemarrages, vu>>

(* The first to come takes the photo ...                                     *)
figerIntermede(k) ==
  /\ Lit(k, "figer")
  /\ IF intermedeFige THEN UNCHANGED comptes
                      ELSE enregistrer([compte EXCEPT !.intermede = lectures[k].parts])
  /\ lectures' = [lectures EXCEPT ![k].etape = "relire"]
  /\ UNCHANGED <<miTemps, votants, comptages, batailles, redemarrages, vu>>

(* ... and everybody answers what was frozen, not what he proposed.          *)
Repondre(k) ==
  /\ Lit(k, "relire")
  /\ reponses' = reponses \cup {compte.intermede}
  /\ lectures' = [lectures EXCEPT ![k] = SansLecture]
  /\ UNCHANGED <<miTemps, votants, comptes, comptages, batailles, redemarrages,
                 inscriptions, premiere>>

(* ------------------------------- time ----------------------------------- *)
MidTime ==
  /\ ~miTemps
  /\ miTemps' = TRUE
  /\ premiere' = compte
  /\ UNCHANGED <<votants, comptes, appels, batailles, redemarrages, inscriptions, reponses>>

(* The process is killed; the next one reads the files.                      *)
Repartir ==
  /\ redemarrages < MaxRedemarrages
  /\ redemarrages' = redemarrages + 1
  /\ compte' = compteFichier'
  /\ entrees' = entreesFichier
  /\ comptages' = [a \in Arbitres |-> Oisif]
  /\ lectures' = [k \in Consoles |-> SansLecture]
  /\ UNCHANGED <<miTemps, entreesFichier, batailles, vu>>

Redemarrer == UNCHANGED compteFichier /\ Repartir

Init ==
  /\ miTemps = FALSE
  /\ entrees = [j \in Joueurs |-> Aucun] /\ entreesFichier = entrees
  /\ compte = SansCompte /\ compteFichier = SansCompte
  /\ comptages = [a \in Arbitres |-> Oisif]
  /\ lectures = [k \in Consoles |-> SansLecture]
  /\ batailles = 0 /\ redemarrages = 0
  /\ inscriptions = {} /\ reponses = {} /\ premiere = SansCompte

Compter(a) ==
  \/ \E b \in Batailles : compterLaBatailleDeFete(a, b)
  \/ enregistrerVictoireDeFete(a) \/ compterLaFerveurDeLaBataille(a)
  \/ \E c \in Camps : enregistrerFerveur(a, c)
  \/ FinDuComptage(a)

Lire(k) ==
  \/ GetFestResult(k) \/ partsDeFerveur(k) \/ partsDesVictoires(k) \/ partsDuVote(k)
  \/ figerIntermede(k) \/ Repondre(k)

Next ==
  \/ \E j \in Joueurs : \E c \in Voulus[j] : CreateFestEntry(j, c)
  \/ \E a \in Arbitres : Compter(a)
  \/ \E k \in Consoles : Lire(k)
  \/ MidTime \/ Redemarrer

Spec == Init /\ [][Next]_vars

(* ------------------------------ the verdict ----------------------------- *)
poidsDuBareme ==
  [Yobisai |-> <<90, 45, 0>>, PlayerCount |-> <<70, 35, 0>>, Regular |-> <<120, 60, 0>>,
   Challenge |-> <<120, 60, 0>>, Tricolor |-> <<180, 90, 0>>]

pointsDuCritere(critere, place) == poidsDuBareme[critere][IF place < 2 THEN place + 1 ELSE 3]

(* Fault: ex aequo ranked by their names.                                    *)
PlacesParNom(n) ==
  [c \in Camps |-> Cardinality({d \in Camps : n[d] > n[c] \/ (n[d] = n[c] /\ d < c)})]

(* From 0; the camps the count does not separate share the last place of     *)
(* their group.                                                              *)
placesAvecEgalites(n) ==
  [c \in Camps |-> Cardinality({d \in Camps \ {c} : n[d] >= n[c]})]

(* The victories in the mode of the criterion, or the votes.                 *)
placesDuCritere(critere) ==
  LET m == ModeDe[critere]
  IN  IF m # SansMode /\ ~Vide(compte.parMode[m])
      THEN placesAvecEgalites(compte.parMode[m])
      ELSE placesAvecEgalites(yobisaiDeLaFete)

classementsDeLaFete ==
  LET gain(critere, c) == pointsDuCritere(critere, placesDuCritere(critere)[c])
  IN  [c \in Camps |-> gain("Yobisai", c) + gain("PlayerCount", c) + gain("Regular", c)
                       + gain("Challenge", c) + gain("Tricolor", c)]

(* classement(parts)[0]                                                      *)
EnTete(n) == {c \in Camps : \A d \in Camps : n[d] < n[c] \/ (n[d] = n[c] /\ c <= d)}

campDefenseur == IF intermedeFige THEN EnTete(compte.intermede.parts) ELSE {}

(* ------------------------------ properties ------------------------------ *)
(* The type invariant.                                                       *)
TypeOK ==
  /\ miTemps \in BOOLEAN
  /\ entrees \in [Joueurs -> Camps \cup {Aucun}]
  /\ entreesFichier \in [Joueurs -> Camps \cup {Aucun}]
  /\ compte \in comptageFest
  /\ compteFichier \in comptageFest
  /\ comptages \in [Arbitres -> Comptage]
  /\ lectures \in [Consoles -> Lecture]
  /\ batailles \in Nat /\ redemarrages \in Nat
  /\ inscriptions \subseteq Joueurs \X Camps
  /\ reponses \subseteq Photos
  /\ premiere \in comptageFest

(* The choice of a camp is for good: whatever a player asks for later, and   *)
(* whatever restarts, he is told one camp ("IRREVERSIBLE", fest_entries.go). *)
EntriesAreKept == \A x, y \in inscriptions : x[1] = y[1] => x[2] = y[2]

(* All consoles are told the same midterm, although several compute it at    *)
(* once from counts that move, and although the process is started again.    *)
AnswersAgree == \A x, y \in reponses : x = y

(* The camp that defends is designated once ("il est FIGE pour toute la      *)
(* seconde moitie du festival", fest_intermede.go).                          *)
DefenderIsFixed == [][campDefenseur # {} => campDefenseur' = campDefenseur]_vars

(* A set of shares rests on what was counted in the first half: ink before   *)
(* victories, victories before votes.                                        *)
Honnete(p) ==
  /\ p.origine # "aucune"
  /\ p.origine = "ferveur" => \A c \in Camps : p.parts[c] >= premiere.ferveur[c]
  /\ p.origine = "victoires" =>
       /\ Vide(premiere.ferveur)
       /\ \A c \in Camps : p.parts[c] >= premiere.victoires[c]
  /\ p.origine = "vote" => Vide(premiere.ferveur) /\ Vide(premiere.victoires)

(* So does the midterm, whoever takes the photo and when: what was counted   *)
(* before mid_time is in it, and nothing of it is lost to a restart.         *)
MidtermCountsFirstHalf == intermedeFige => Honnete(compte.intermede)

(* Once somebody voted, a camp nobody chose gets no point, in any criterion  *)
(* ("un camp que personne n'a choisi ne rapporte aucun point",               *)
(* fest_egalites_test.go), whatever was counted by then.                     *)
NoVoteNoPoint ==
  ~Vide(votesParCamp) =>
    \A c \in Camps : votesParCamp[c] = 0 => classementsDeLaFete[c] = 0

(* The two registers, their files, the handlers that count battles and that  *)
(* race for the midterm, and the restarts, amount to a ballot one votes in   *)
(* once, counts that a battle raises for camps that were chosen, and one     *)
(* photo of what was counted between half-time and the photo.                *)
Scrutin == INSTANCE FestBallot WITH
  choix       <- entrees,
  dits        <- inscriptions,
  encre       <- compte.ferveur,
  victoires   <- compte.victoires,
  mi          <- miTemps,
  encreMi     <- premiere.ferveur,
  victoiresMi <- premiere.victoires,
  photo       <- compte.intermede,
  lus         <- reponses
OneBallotOnePhoto == Scrutin!Spec

(* ------------------------- inductive invariants ------------------------- *)
(* A file holds what memory holds whenever nobody has the lock.              *)
FichiersInv == entreesFichier = entrees /\ compteFichier = compte

(* Who was told a camp has it.                                               *)
InscriptionsInv == \A x \in inscriptions : entrees[x[1]] = x[2]

(* What was told is the photo, and nobody reads a photo that is not taken.   *)
PhotoInv ==
  /\ \A x \in reponses : intermedeFige /\ x = compte.intermede
  /\ \A k \in Consoles : Lit(k, "relire") => intermedeFige
  /\ \A k \in Consoles : Lit(k, "figer") => lectures[k].parts.origine # "aucune"

(* Victories only go to camps that somebody chose.                           *)
VictoiresInv ==
  \A m \in Modes, c \in Camps :
    compte.parMode[m][c] > 0 => \E j \in Joueurs : entrees[j] = c

(* Counts only grow, nothing is proposed before mid_time, and what a console *)
(* found empty was empty then.                                               *)
PremiereInv ==
  /\ ~miTemps => ~intermedeFige /\ \A k \in Consoles : Lit(k, "repos")
  /\ miTemps => \A c \in Camps :
       /\ compte.ferveur[c] >= premiere.ferveur[c]
       /\ compte.victoires[c] >= premiere.victoires[c]
  /\ \A k \in Consoles :
       /\ Lit(k, "victoires") => Vide(premiere.ferveur)
       /\ Lit(k, "vote") => Vide(premiere.ferveur) /\ Vide(premiere.victoires)
       /\ Lit(k, "figer") => Honnete(lectures[k].parts)
  /\ MidtermCountsFirstHalf

(* The ink on its way to a camp is of players who chose it.                  *)
EncreInv ==
  \A a \in Arbitres, c \in Camps : comptages[a].encre[c] <= votesParCamp[c]

(* A proposal holds nothing that was not counted, and is not empty.          *)
Sous(p, n) == ~Vide(p) /\ \A c \in Camps : p[c] <= n[c]

DejaCompte(p) ==
  \/ p.origine = "ferveur" /\ Sous(p.parts, compte.ferveur)
  \/ p.origine = "victoires" /\ Sous(p.parts, compte.victoires)
  \/ p.origine = "vote" /\ (p.parts = Depart \/ Sous(p.parts, votesParCamp))

ProposeInv == \A k \in Consoles : Lit(k, "figer") => DejaCompte(lectures[k].parts)
============================================================================
