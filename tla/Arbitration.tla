---------------------------- MODULE Arbitration ----------------------------
(***************************************************************************)
(* The referee of one battle: every console of the room writes a            *)
(* RefereeRequest when the battle starts and a RefereeReport when it ends,  *)
(* and WriteDocuments of src/gamesync.go answers each with a verdict made   *)
(* by arbitrer.  The reports are merged, the parameters of the request are  *)
(* given back to the verdict of the end, a Salmon Run shift is credited to  *)
(* the cards of the players, the history of the battle is published and a   *)
(* festival battle is counted.                                              *)
(*                                                                         *)
(* A handler takes one lock after the other (g.mu, parametresMatch,         *)
(* rapportsArbitrage, dejaCredite, carteMu) and holds none between, so      *)
(* every critical section is a step and the handlers of the consoles        *)
(* interleave between them.  All that is keyed by the match is kept for     *)
(* one match: no handler reads the key of another.                          *)
(***************************************************************************)
EXTENDS Integers, FiniteSets

CONSTANTS Joueurs,    (* the consoles of the battle; a player is his session  *)
          Genres,     (* the kinds of battle: a subset of TousLesGenres       *)
          MaxRapports,(* bound: reports written, for each console             *)
          MaxVirages  (* bound: times his session goes or comes back, for each*)

TousLesGenres == {"versus", "fete", "coop"}

ASSUME ArbitrationAssumption ==
  /\ IsFiniteSet(Joueurs)
  /\ Genres \subseteq TousLesGenres
  /\ MaxRapports \in [Joueurs -> Nat]
  /\ MaxVirages \in [Joueurs -> Nat]

VARIABLES
  genre,      (* what is being played; no step changes it                     *)
  virages,    (* per session: how often it left the room or came back         *)
  parametres, (* parametresMatch                                              *)
  rapports,   (* rapportsArbitrage, per player: which parts of his sheet      *)
  credites,   (* dejaCredite                                                  *)
  cartes,     (* per player: the shifts his point cards count                 *)
  historique, (* per player: his VsResults document of the battle             *)
  comptees,   (* the victories the battle adds to victoiresFest               *)
  verdict,    (* gamesyncServer.store, at docs/@@RefereeResult                *)
  appels,     (* per console: its WriteDocuments call                         *)
  faits       (* per console: how many of its writes were answered            *)

memoire  == <<parametres, rapports>>
credit   == <<credites, cartes>>
publie   == <<historique, comptees>>
vars == <<genre, virages, memoire, credit, publie, verdict, appels, faits>>

(* ---------------------------- documents --------------------------------- *)
(* The top-level fields the properties tell apart.  Absent: not in the map.  *)
Cles == {"stage", "shift_id", "fest_id"}
Absent == "absent"
Entetes == [Cles -> {Absent, "", "s"}]

(* A sheet of personal_result: what every console says of every player, what *)
(* a console adds on its own player, and what the server fills in.           *)
Parts == {"commun", "propre", "serveur"}
Fiches == [Joueurs -> SUBSET Parts]
SansFiche == [j \in Joueurs |-> {}]

Verdicts == [entete : Entetes, personnel : Fiches, status : -1..1]
SansEntete == [k \in Cles |-> Absent]
SansVerdict == [entete |-> SansEntete, personnel |-> SansFiche, status |-> -1]

(* A VsResults document: the sheets of the players, when they name a team.   *)
Documents == [publie : BOOLEAN, personnel : Fiches]
SansDocument == [publie |-> FALSE, personnel |-> SansFiche]

(* "if _, deja := champs[k]; !deja { champs[k] = v }"                        *)
Completer(d, e) == [k \in Cles |-> IF d[k] # Absent THEN d[k] ELSE e[k]]

(* The fields the server sets before it looks at what the console wrote.     *)
Cadre == [SansEntete EXCEPT !["fest_id"] = ""]

(* What the request of the consoles says of the battle.                      *)
Annonce ==
  CASE genre = "versus" -> [SansEntete EXCEPT !["stage"] = "s"]
    [] genre = "fete"   -> [SansEntete EXCEPT !["stage"] = "s", !["fest_id"] = "s"]
    [] genre = "coop"   -> [SansEntete EXCEPT !["shift_id"] = "s"]

verdictCoop(d) == d["shift_id"] # Absent

(* The inventories of a verdict: fields outside are left out.                *)
champsDuVerdict == {"stage", "fest_id"}
champsDuVerdictCoop == {"shift_id"}
(* Fault: the inventory of a versus verdict for every battle.                *)
InventaireVersus(d) == [k \in Cles |-> IF k \in champsDuVerdict THEN d[k] ELSE Absent]

Inventaire(d) ==
  LET garde == IF verdictCoop(d) THEN champsDuVerdictCoop ELSE champsDuVerdict
  IN  [k \in Cles |-> IF k \in garde THEN d[k] ELSE Absent]

(* The report of c describes every player, and is complete on its own.       *)
RapportDe(c) == [j \in Joueurs |-> IF j = c THEN {"commun", "propre"} ELSE {"commun"}]

(* Fault: the report stored whole, as one entry, under its author.           *)
RangerSousLAuteur(c) == [rapports EXCEPT ![c] = {"rapport"}]

(* Fault: the report stored in the place of those before it.                 *)
RangerSansFusion(c) == RapportDe(c)

retenirRapport(c) == [j \in Joueurs |-> rapports[j] \cup RapportDe(c)[j]]

resultatsIndividuels(coop) ==
  [j \in Joueurs |-> IF rapports[j] = {} \/ coop THEN rapports[j]
                                                 ELSE rapports[j] \cup {"serveur"}]

(* ------------------------------ sessions -------------------------------- *)
Presents == {j \in Joueurs : virages[j] % 2 = 0}

(* A session is forgotten when its stream is lost, and registered again by   *)
(* the IssueToken of a console that comes back.                              *)
Virer(j) ==
  /\ virages[j] < MaxVirages[j]
  /\ virages' = [virages EXCEPT ![j] = @ + 1]
  /\ UNCHANGED <<genre, memoire, credit, publie, verdict, appels, faits>>

(* ------------------------------- handlers ------------------------------- *)
Etapes == {"repos", "retenir", "parametres", "rassembler", "crediter", "carte",
           "historique", "publier"}
Appel == [etape : Etapes, uids : SUBSET Joueurs, entete : Entetes,
          personnel : Fiches, status : -1..1, reste : SUBSET Joueurs,
          paye : SUBSET Joueurs]
Repos == [etape |-> "repos", uids |-> {}, entete |-> SansEntete,
          personnel |-> SansFiche, status |-> -1, reste |-> {}, paye |-> {}]

(* The first write of a console is its request, the others are reports.      *)
FinDePartie(c) == faits[c] > 0

(* How far the call of c has come.                                           *)
A(c, etape) == appels[c].etape = etape

Poursuivre(c, appel) == appels' = [appels EXCEPT ![c] = appel]

(* The battle starts when every console has its verdict: none reports before.*)
PeutEcrire(c) ==
  /\ faits[c] <= MaxRapports[c]
  /\ FinDePartie(c) => \A d \in Joueurs : faits[d] > 0

(* arbitrer reads who is in the room, and frames the verdict.                *)
WriteDocuments(c) ==
  /\ A(c, "repos")
  /\ PeutEcrire(c)
  /\ Poursuivre(c, [Repos EXCEPT
         !.uids = Presents,
         !.etape = IF FinDePartie(c) THEN "retenir" ELSE "parametres",
         !.entete = IF FinDePartie(c) THEN Cadre ELSE Completer(Cadre, Annonce)])
  /\ UNCHANGED <<genre, virages, memoire, credit, publie, verdict, faits>>

(* The report is merged with those received before it.                       *)
Retenir(c) ==
  /\ A(c, "retenir")
  /\ rapports' = retenirRapport(c)
  /\ Poursuivre(c, [appels[c] EXCEPT !.etape = "parametres"])
  /\ UNCHANGED <<genre, virages, parametres, credit, publie, verdict, faits>>

(* A request leaves its parameters for the end of the match ...              *)
retenirParametres(c) ==
  /\ A(c, "parametres")
  /\ ~FinDePartie(c)
  /\ parametres' = appels[c].entete
  /\ Poursuivre(c, [appels[c] EXCEPT !.etape = "rassembler"])
  /\ UNCHANGED <<genre, virages, rapports, credit, publie, verdict, faits>>

(* ... and a report takes them back.                                         *)
parametresDe(c) ==
  /\ A(c, "parametres")
  /\ FinDePartie(c)
  /\ Poursuivre(c, [appels[c] EXCEPT !.etape = "rassembler",
                                     !.entete = Completer(@, parametres)])
  /\ UNCHANGED <<genre, virages, memoire, credit, publie, verdict, faits>>

(* personal_result, status and inventory of the verdict.                     *)
Rassembler(c) ==
  /\ A(c, "rassembler")
  /\ LET coop  == verdictCoop(appels[c].entete)
         carte == resultatsIndividuels(coop)
     IN  Poursuivre(c, [appels[c] EXCEPT
           !.personnel = carte,
           !.status = IF FinDePartie(c) THEN 1 ELSE 0,
           !.entete = Inventaire(@),
           !.etape = IF ~FinDePartie(c) THEN "publier"
                     ELSE IF coop THEN "crediter" ELSE "historique",
           !.reste = IF ~FinDePartie(c) THEN {}
                     ELSE IF coop THEN {j \in Joueurs : carte[j] # {}}
                     ELSE appels[c].uids])
  /\ UNCHANGED <<genre, virages, memoire, credit, publie, verdict, faits>>

(* Fault: a mark that is tested only.                                        *)
CrediterSansMarquer(c, j) ==
  /\ A(c, "crediter")
  /\ j \in appels[c].reste
  /\ Poursuivre(c, [appels[c] EXCEPT !.reste = @ \ {j},
                                     !.paye = IF j \in Presents \ credites THEN {j} ELSE {},
                                     !.etape = IF j \in Presents \ credites THEN "carte" ELSE @])
  /\ UNCHANGED <<genre, virages, memoire, credit, publie, verdict, faits>>

(* Fault: the mark set before the session is looked for.                     *)
MarquerDAbord(c, j) ==
  /\ A(c, "crediter")
  /\ j \in appels[c].reste
  /\ credites' = credites \cup {j}
  /\ IF j \in Presents \ credites
     THEN Poursuivre(c, [appels[c] EXCEPT !.reste = @ \ {j}, !.paye = {j},
                                          !.etape = "carte"])
     ELSE Poursuivre(c, [appels[c] EXCEPT !.reste = @ \ {j}])
  /\ UNCHANGED <<genre, virages, memoire, cartes, publie, verdict, faits>>

(* Fault: a return where the loop continues.                                 *)
ArreterAuPremier(c, j) ==
  /\ A(c, "crediter")
  /\ j \in appels[c].reste
  /\ IF j \in Presents \ credites
     THEN /\ credites' = credites \cup {j}
          /\ Poursuivre(c, [appels[c] EXCEPT !.reste = @ \ {j}, !.paye = {j},
                                             !.etape = "carte"])
     ELSE /\ Poursuivre(c, [appels[c] EXCEPT !.reste = {}])
          /\ UNCHANGED credites
  /\ UNCHANGED <<genre, virages, memoire, cartes, publie, verdict, faits>>

(* crediterQuartCoop goes through the sheets in any order.  A player whose   *)
(* session is gone, or who is marked, is passed over.                        *)
crediterQuartCoop(c, j) ==
  /\ A(c, "crediter")
  /\ j \in appels[c].reste
  /\ IF j \in Presents \ credites
     THEN /\ credites' = credites \cup {j}
          /\ Poursuivre(c, [appels[c] EXCEPT !.reste = @ \ {j}, !.paye = {j},
                                             !.etape = "carte"])
     ELSE /\ Poursuivre(c, [appels[c] EXCEPT !.reste = @ \ {j}])
          /\ UNCHANGED credites
  /\ UNCHANGED <<genre, virages, memoire, cartes, publie, verdict, faits>>

crediterCartesDePoints(c, j) ==
  /\ A(c, "carte")
  /\ j \in appels[c].paye
  /\ cartes' = [cartes EXCEPT ![j] = @ + 1]
  /\ Poursuivre(c, [appels[c] EXCEPT !.paye = {}, !.etape = "crediter"])
  /\ UNCHANGED <<genre, virages, memoire, credites, publie, verdict, faits>>

FinDuCredit(c) ==
  /\ A(c, "crediter")
  /\ appels[c].reste = {}
  /\ Poursuivre(c, [appels[c] EXCEPT !.etape = "historique", !.reste = appels[c].uids])
  /\ UNCHANGED <<genre, virages, memoire, credit, publie, verdict, faits>>

VerdictDe(c) == [entete |-> appels[c].entete, personnel |-> appels[c].personnel,
                 status |-> appels[c].status]

(* The sheets of a shift name no team.                                       *)
documentDeBataille(c) ==
  [publie |-> TRUE,
   personnel |-> IF verdictCoop(appels[c].entete) THEN SansFiche ELSE appels[c].personnel]

publierHistoriqueDeBataille(c, j) ==
  /\ A(c, "historique")
  /\ j \in appels[c].reste
  /\ historique' = [historique EXCEPT ![j] = documentDeBataille(c)]
  /\ Poursuivre(c, [appels[c] EXCEPT !.reste = @ \ {j}])
  /\ UNCHANGED <<genre, virages, memoire, credit, comptees, verdict, faits>>

(* Before the midterm, with a winner whose camp is known.                    *)
compterLaBatailleDeFete(c) ==
  /\ A(c, "historique")
  /\ appels[c].reste = {}
  /\ comptees' = IF appels[c].entete["fest_id"] \in {Absent, ""}
                 THEN comptees ELSE comptees + 1
  /\ Poursuivre(c, [appels[c] EXCEPT !.etape = "publier"])
  /\ UNCHANGED <<genre, virages, memoire, credit, historique, verdict, faits>>

(* The verdict is stored and the call answered.                              *)
Publier(c) ==
  /\ A(c, "publier")
  /\ verdict' = VerdictDe(c)
  /\ Poursuivre(c, Repos)
  /\ faits' = [faits EXCEPT ![c] = @ + 1]
  /\ UNCHANGED <<genre, virages, memoire, credit, publie>>

Init ==
  /\ genre \in Genres
  /\ virages = [j \in Joueurs |-> 0]
  /\ parametres = SansEntete
  /\ rapports = SansFiche
  /\ credites = {}
  /\ cartes = [j \in Joueurs |-> 0]
  /\ historique = [j \in Joueurs |-> SansDocument]
  /\ comptees = 0
  /\ verdict = SansVerdict
  /\ appels = [c \in Joueurs |-> Repos]
  /\ faits = [c \in Joueurs |-> 0]

Servir(c) ==
  \/ Retenir(c) \/ retenirParametres(c) \/ parametresDe(c) \/ Rassembler(c)
  \/ \E j \in Joueurs : \/ crediterQuartCoop(c, j)
                        \/ crediterCartesDePoints(c, j)
                        \/ publierHistoriqueDeBataille(c, j)
  \/ FinDuCredit(c) \/ compterLaBatailleDeFete(c) \/ Publier(c)

Next == \E c \in Joueurs : Virer(c) \/ WriteDocuments(c) \/ Servir(c)

Spec == Init /\ [][Next]_vars

(* The server ends every call it has begun; consoles promise nothing.        *)
FairSpec == Spec /\ \A c \in Joueurs : WF_vars(Servir(c))

(* ------------------------------ properties ------------------------------ *)
(* The type invariant.                                                       *)
TypeOK ==
  /\ genre \in TousLesGenres
  /\ virages \in [Joueurs -> Nat]
  /\ parametres \in Entetes
  /\ rapports \in Fiches
  /\ credites \subseteq Joueurs
  /\ cartes \in [Joueurs -> Nat]
  /\ historique \in [Joueurs -> Documents]
  /\ comptees \in Nat
  /\ verdict \in Verdicts
  /\ appels \in [Joueurs -> Appel]
  /\ faits \in [Joueurs -> Nat]

(* A shift is credited once for each player, however many reports arrive and *)
(* however their handlers interleave ("un quart ne se credite qu'UNE FOIS    *)
(* PAR JOUEUR", coop_carte_points.go).                                       *)
ShiftCreditedOnce == \A j \in Joueurs : cartes[j] <= 1

(* The mark that excludes a second credit never stands for a credit that is  *)
(* not made: who is marked has his shift on his cards in the end.            *)
MarkedArePaid == \A j \in Joueurs : (j \in credites) ~> (cartes[j] = 1)

(* Every console reported, and no call is under way.                         *)
Fini == \A c \in Joueurs : A(c, "repos") /\ FinDePartie(c) /\ faits[c] > 1

(* Whoever never left the room has his shift, and finds the battle in his    *)
(* history, with the sheets of all its players unless it was a shift,        *)
(* although others left before the reports or while the handlers went        *)
(* through the players.                                                      *)
PresentAreServed ==
  Fini => \A j \in Joueurs : virages[j] = 0 =>
    /\ genre = "coop" => cartes[j] = 1
    /\ historique[j].publie
    /\ genre # "coop" => \A i \in Joueurs : "commun" \in historique[j].personnel[i]

(* From the first answer to a report on, the console finds a verdict that    *)
(* says the match is over and which match it was, with a complete sheet for  *)
(* every player, and in a shift with nothing the versus verdict adds.  A     *)
(* report alone says none of that, and other handlers still publish.         *)
EndVerdictIsWhole ==
  (\E c \in Joueurs : faits[c] > 1) =>
    /\ verdict.status = 1
    /\ \A k \in {"stage", "shift_id"} : verdict.entete[k] = Annonce[k]
    /\ \A j \in Joueurs :
         /\ "commun" \in verdict.personnel[j]
         /\ "serveur" \in verdict.personnel[j] <=> genre # "coop"

(* What a console said of its own player stays in the merged report whatever *)
(* the others report of him before or after.                                 *)
ReportsAreMerged ==
  \A c \in Joueurs :
    \/ faits[c] > 1
    \/ FinDePartie(c) /\ appels[c].etape \notin {"repos", "retenir"}
    => "propre" \in rapports[c] /\ \A j \in Joueurs : "commun" \in rapports[j]

(* Once every console has reported, the verdict gathers what each said of    *)
(* its own player ("Le serveur AGREGE donc", gamesync.go).                   *)
VerdictAggregates ==
  Fini => \A j \in Joueurs : "propre" \in verdict.personnel[j]

(* A festival battle adds one victory to the count the midterm is made of    *)
(* ("L'INTERMEDE se compte ici", gamesync.go).                               *)
FestBattleIsCounted == genre = "fete" /\ Fini => comptees = 1

(* What the code does instead, whatever the battle: the frame of the verdict *)
(* sets an empty fest_id first, which the announced one never replaces.      *)
NoBattleIsCounted == comptees = 0

(* A mark that excludes a second credit is paid, or the handler that set it  *)
(* stands before the payment: the loop never passes over it.                 *)
MarkedAreOwed ==
  \A j \in credites :
    cartes[j] = 1 \/ \E c \in Joueurs : A(c, "carte") /\ appels[c].paye = {j}

(* One handler at a time between the gathering of the reports and the        *)
(* storage of what it made of them.  The code does not enforce it.           *)
Gathered == {"crediter", "carte", "historique", "publier"}
UnVerdictALaFois ==
  \A c, d \in Joueurs :
    /\ FinDePartie(c) /\ appels[c].etape \in Gathered
    /\ FinDePartie(d) /\ appels[d].etape \in Gathered
    => c = d

(* The stored verdict gathers what every console answered so far said of its *)
(* own player.                                                               *)
AnsweredAreGathered ==
  \A j \in Joueurs : faits[j] > 1 => "propre" \in verdict.personnel[j]

(* ------------------------- inductive invariants ------------------------- *)
(* A mark is either paid or about to be paid, by one handler.                *)
EnCours(j) == \E c \in Joueurs : j \in appels[c].paye
CreditInv ==
  /\ \A j \in Joueurs : cartes[j] = IF j \in credites /\ ~EnCours(j) THEN 1 ELSE 0
  /\ \A c, j \in Joueurs : j \in appels[c].paye =>
       /\ A(c, "carte")
       /\ j \in credites
       /\ appels[c].paye = {j}
       /\ \A d \in Joueurs : j \in appels[d].paye => d = c

(* The head of the verdict before and after the inventory.                   *)
EnteteEntier == Completer(Cadre, Annonce)
EnteteFinal == Inventaire(EnteteEntier)

(* How far the head of a verdict is, at each step of its handler, and what   *)
(* was remembered by then.                                                   *)
EnteteInv ==
  \A c \in Joueurs :
    /\ FinDePartie(c) \/ A(c, "rassembler") \/ A(c, "publier") =>
         parametres = EnteteEntier
    /\ A(c, "retenir") => FinDePartie(c)
    /\ A(c, "crediter") \/ A(c, "carte") \/ A(c, "historique") => FinDePartie(c)
    /\ A(c, "retenir") => appels[c].entete = Cadre
    /\ A(c, "parametres") =>
         appels[c].entete = IF FinDePartie(c) THEN Cadre ELSE EnteteEntier
    /\ A(c, "rassembler") => appels[c].entete = EnteteEntier
    /\ appels[c].etape \in {"crediter", "carte", "historique", "publier"} =>
         appels[c].entete = EnteteFinal

(* A whole set of sheets.                                                    *)
Entieres(fiches) == \A j \in Joueurs : /\ "commun" \in fiches[j]
                                       /\ "serveur" \in fiches[j] <=> genre # "coop"

(* No report is under way before every request is answered, and what a       *)
(* report has gathered is whole.                                             *)
VerdictInv ==
  /\ \A j \in Joueurs : "serveur" \notin rapports[j]
  /\ \A c \in Joueurs : (FinDePartie(c) /\ ~A(c, "repos")) \/ faits[c] > 1 =>
       \A d \in Joueurs : FinDePartie(d)
  /\ \A c \in Joueurs :
       FinDePartie(c) /\ appels[c].etape \in {"crediter", "carte", "historique", "publier"} =>
         appels[c].status = 1 /\ Entieres(appels[c].personnel)

(* What the handler of a report has yet to do for who never left, or did.    *)
Credite(c) == A(c, "historique") \/ (A(c, "publier") /\ FinDePartie(c)) \/ faits[c] > 1
Raconte(c) == (A(c, "publier") /\ FinDePartie(c)) \/ faits[c] > 1
Servi(j) ==
  /\ historique[j].publie
  /\ genre # "coop" => \A i \in Joueurs : "commun" \in historique[j].personnel[i]
Du(c, j) ==
  /\ ~A(c, "repos") => j \in appels[c].uids
  /\ genre = "coop" /\ (A(c, "crediter") \/ A(c, "carte")) => j \in appels[c].reste \cup credites
  /\ genre = "coop" /\ Credite(c) => j \in credites
  /\ A(c, "historique") => j \in appels[c].reste \/ Servi(j)
  /\ Raconte(c) => Servi(j)
ServisInv == \A c, j \in Joueurs : virages[j] = 0 => Du(c, j)

(* What a handler gathered is not behind what was answered.                  *)
CumulInv ==
  \A c \in Joueurs : FinDePartie(c) /\ appels[c].etape \in Gathered =>
    \A j \in Joueurs : j = c \/ faits[j] > 1 => "propre" \in appels[c].personnel[j]
============================================================================
