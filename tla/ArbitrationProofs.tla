-------------------------- MODULE ArbitrationProofs --------------------------
(* The inductive invariants of Arbitration and what follows from them.       *)
EXTENDS Arbitration, TLAPS

-----------------------------------------------------------------------------
(* Documents and sheets.                                                     *)

LEMMA TypesDesEntetes ==
  /\ SansEntete \in Entetes /\ Cadre \in Entetes
  /\ genre \in TousLesGenres => Annonce \in Entetes
BY DEF SansEntete, Cadre, Entetes, Cles, Absent, Annonce, TousLesGenres

LEMMA TypeCompleter ==
  ASSUME NEW d \in Entetes, NEW e \in Entetes PROVE Completer(d, e) \in Entetes
BY DEF Completer, Entetes, Cles, Absent

LEMMA TypeInventaire ==
  ASSUME NEW d \in Entetes PROVE Inventaire(d) \in Entetes
BY DEF Inventaire, Entetes, Cles, Absent

LEMMA TypesDesFiches ==
  /\ SansFiche \in Fiches
  /\ \A c \in Joueurs : RapportDe(c) \in Fiches
  /\ rapports \in Fiches =>
       /\ \A c \in Joueurs : retenirRapport(c) \in Fiches
       /\ \A coop \in BOOLEAN : resultatsIndividuels(coop) \in Fiches
BY DEF SansFiche, Fiches, Parts, RapportDe, retenirRapport, resultatsIndividuels

LEMMA TypeRepos == Repos \in Appel
BY TypesDesEntetes, TypesDesFiches DEF Repos, Appel, Etapes

-----------------------------------------------------------------------------
(* Types.                                                                    *)

LEMMA TypageInit == Init => TypeOK
<1> SUFFICES ASSUME Init PROVE TypeOK
  OBVIOUS
<1> USE DEF Init
<1>1. genre \in TousLesGenres
  BY ArbitrationAssumption
<1>2. parametres \in Entetes /\ rapports \in Fiches
  BY TypesDesEntetes, TypesDesFiches
<1>3. verdict \in Verdicts
  BY TypesDesEntetes, TypesDesFiches DEF SansVerdict, Verdicts
<1>4. historique \in [Joueurs -> Documents]
  BY TypesDesFiches DEF SansDocument, Documents
<1>5. appels \in [Joueurs -> Appel]
  BY TypeRepos
<1>6. virages \in [Joueurs -> Nat] /\ faits \in [Joueurs -> Nat] /\ cartes \in [Joueurs -> Nat]
  OBVIOUS
<1>7. credites \subseteq Joueurs /\ comptees \in Nat
  OBVIOUS
<1> HIDE DEF Init
<1> QED BY <1>1, <1>2, <1>3, <1>4, <1>5, <1>6, <1>7 DEF TypeOK

(* A call moves on, and the others stay where they are.                      *)
LEMMA Suite ==
  ASSUME appels \in [Joueurs -> Appel], NEW c \in Joueurs, NEW r \in Appel,
         Poursuivre(c, r)
  PROVE  /\ appels' \in [Joueurs -> Appel]
         /\ appels'[c] = r
         /\ \A d \in Joueurs : d # c => appels'[d] = appels[d]
BY DEF Poursuivre

(* The records the handlers move on with.                                    *)
LEMMA TypesDesAppels ==
  ASSUME NEW r \in Appel
  PROVE  /\ \A e \in Etapes : [r EXCEPT !.etape = e] \in Appel
         /\ \A S \in SUBSET Joueurs : [r EXCEPT !.reste = S] \in Appel
         /\ \A e \in Etapes, d \in Entetes : [r EXCEPT !.etape = e, !.entete = d] \in Appel
         /\ \A e \in Etapes, S \in SUBSET Joueurs :
              /\ [r EXCEPT !.etape = e, !.reste = S] \in Appel
              /\ [r EXCEPT !.paye = S, !.etape = e] \in Appel
         /\ \A e \in Etapes, S, P \in SUBSET Joueurs :
              [r EXCEPT !.reste = S, !.paye = P, !.etape = e] \in Appel
BY DEF Appel

LEMMA TypeRassemble ==
  ASSUME NEW r \in Appel, NEW p \in Fiches, NEW s \in -1..1, NEW d \in Entetes,
         NEW e \in Etapes, NEW S \in SUBSET Joueurs
  PROVE  [r EXCEPT !.personnel = p, !.status = s, !.entete = d, !.etape = e, !.reste = S]
           \in Appel
<1>1. [r EXCEPT !.personnel = p, !.status = s, !.entete = d] \in Appel
  BY DEF Appel
<1> QED BY <1>1 DEF Appel

LEMMA LesEtapes ==
  Etapes = {"repos", "retenir", "parametres", "rassembler", "crediter", "carte",
            "historique", "publier"}
BY DEF Etapes

LEMMA TypagePas == ASSUME TypeOK, [Next]_vars PROVE TypeOK'
<1>0. /\ appels \in [Joueurs -> Appel]
      /\ \A c \in Joueurs : /\ appels[c] \in Appel
                            /\ appels[c].entete \in Entetes
                            /\ appels[c].personnel \in Fiches
                            /\ appels[c].status \in -1..1
                            /\ appels[c].reste \in SUBSET Joueurs
                            /\ appels[c].uids \in SUBSET Joueurs
  BY DEF TypeOK, Appel
<1>1. ASSUME NEW c \in Joueurs, Virer(c) PROVE TypeOK'
  BY <1>1 DEF Virer, TypeOK, memoire, credit, publie
<1>2. ASSUME NEW c \in Joueurs, WriteDocuments(c) PROVE TypeOK'
  <2> DEFINE e == IF FinDePartie(c) THEN "retenir" ELSE "parametres"
             h == IF FinDePartie(c) THEN Cadre ELSE Completer(Cadre, Annonce)
  <2>1. Presents \in SUBSET Joueurs
    BY DEF Presents
  <2>2. h \in Entetes
    BY TypesDesEntetes, TypeCompleter DEF TypeOK
  <2>3. e \in Etapes
    BY LesEtapes
  <2>4. [Repos EXCEPT !.uids = Presents, !.etape = e, !.entete = h] \in Appel
    <3> HIDE DEF e, h
    <3> QED BY <2>1, <2>2, <2>3, TypesDesFiches, TypeRepos DEF Appel
  <2>5. appels' \in [Joueurs -> Appel]
    BY <1>0, <1>2, <2>4, Suite DEF WriteDocuments
  <2> QED BY <1>2, <2>5 DEF WriteDocuments, TypeOK, memoire, credit, publie
<1>3. ASSUME NEW c \in Joueurs, Retenir(c) PROVE TypeOK'
  <2>1. rapports' \in Fiches
    BY <1>3, TypesDesFiches DEF Retenir, TypeOK
  <2>2. appels' \in [Joueurs -> Appel]
    BY <1>0, <1>3, Suite, TypesDesAppels, LesEtapes DEF Retenir
  <2> QED BY <1>3, <2>1, <2>2 DEF Retenir, TypeOK, credit, publie
<1>4. ASSUME NEW c \in Joueurs, retenirParametres(c) PROVE TypeOK'
  <2>1. appels' \in [Joueurs -> Appel]
    BY <1>0, <1>4, Suite, TypesDesAppels, LesEtapes DEF retenirParametres
  <2>2. parametres' \in Entetes
    BY <1>0, <1>4 DEF retenirParametres
  <2> QED BY <1>4, <2>1, <2>2 DEF retenirParametres, TypeOK, credit, publie
<1>5. ASSUME NEW c \in Joueurs, parametresDe(c) PROVE TypeOK'
  <2>1. Completer(appels[c].entete, parametres) \in Entetes
    BY <1>0, TypeCompleter DEF TypeOK
  <2>2. appels' \in [Joueurs -> Appel]
    BY <1>0, <1>5, <2>1, Suite, TypesDesAppels, LesEtapes DEF parametresDe
  <2> QED BY <1>5, <2>2 DEF parametresDe, TypeOK, memoire, credit, publie
<1>6. ASSUME NEW c \in Joueurs, Rassembler(c) PROVE TypeOK'
  <2> DEFINE coop == verdictCoop(appels[c].entete)
             carte == resultatsIndividuels(coop)
             st == IF FinDePartie(c) THEN 1 ELSE 0
             h == Inventaire(appels[c].entete)
             e == IF ~FinDePartie(c) THEN "publier"
                  ELSE IF coop THEN "crediter" ELSE "historique"
             S == IF ~FinDePartie(c) THEN {}
                  ELSE IF coop THEN {j \in Joueurs : carte[j] # {}} ELSE appels[c].uids
  <2>1. coop \in BOOLEAN
    BY DEF verdictCoop
  <2>2. carte \in Fiches
    <3> HIDE DEF coop
    <3> QED BY <2>1, TypesDesFiches DEF TypeOK
  <2>3. h \in Entetes
    BY <1>0, TypeInventaire
  <2>4. e \in Etapes /\ S \in SUBSET Joueurs /\ st \in -1..1
    <3> HIDE DEF coop, carte
    <3> QED BY <1>0, LesEtapes
  <2>5. Poursuivre(c, [appels[c] EXCEPT !.personnel = carte, !.status = st, !.entete = h,
                                        !.etape = e, !.reste = S])
    BY <1>6 DEF Rassembler
  <2>6. [appels[c] EXCEPT !.personnel = carte, !.status = st, !.entete = h,
                          !.etape = e, !.reste = S] \in Appel
    <3> HIDE DEF coop, carte, st, h, e, S
    <3> QED BY <1>0, <2>2, <2>3, <2>4, TypeRassemble
  <2>7. appels' \in [Joueurs -> Appel]
    <3> HIDE DEF coop, carte, st, h, e, S
    <3> QED BY <1>0, <2>5, <2>6, Suite
  <2> QED BY <1>6, <2>7 DEF Rassembler, TypeOK, memoire, credit, publie
<1>7. ASSUME NEW c \in Joueurs, NEW j \in Joueurs, crediterQuartCoop(c, j) PROVE TypeOK'
  <2>1. appels[c].reste \ {j} \in SUBSET Joueurs /\ {j} \in SUBSET Joueurs
    BY <1>0
  <2>2. [appels[c] EXCEPT !.reste = @ \ {j}, !.paye = {j}, !.etape = "carte"] \in Appel
    BY <1>0, <2>1, TypesDesAppels, LesEtapes
  <2>3. [appels[c] EXCEPT !.reste = @ \ {j}] \in Appel
    BY <1>0, <2>1, TypesDesAppels
  <2>4. appels' \in [Joueurs -> Appel]
    BY <1>0, <1>7, <2>2, <2>3, Suite DEF crediterQuartCoop
  <2>5. credites' \subseteq Joueurs
    BY <1>7 DEF crediterQuartCoop, TypeOK
  <2> QED BY <1>7, <2>4, <2>5 DEF crediterQuartCoop, TypeOK, memoire, publie
<1>8. ASSUME NEW c \in Joueurs, NEW j \in Joueurs, crediterCartesDePoints(c, j) PROVE TypeOK'
  <2>1. appels' \in [Joueurs -> Appel]
    BY <1>0, <1>8, Suite, TypesDesAppels, LesEtapes DEF crediterCartesDePoints
  <2>2. cartes' \in [Joueurs -> Nat]
    BY <1>8 DEF crediterCartesDePoints, TypeOK
  <2> QED BY <1>8, <2>1, <2>2 DEF crediterCartesDePoints, TypeOK, memoire, publie
<1>9. ASSUME NEW c \in Joueurs, FinDuCredit(c) PROVE TypeOK'
  <2>1. appels' \in [Joueurs -> Appel]
    BY <1>0, <1>9, Suite, TypesDesAppels, LesEtapes DEF FinDuCredit
  <2> QED BY <1>9, <2>1 DEF FinDuCredit, TypeOK, memoire, credit, publie
<1>10. ASSUME NEW c \in Joueurs, NEW j \in Joueurs, publierHistoriqueDeBataille(c, j)
       PROVE TypeOK'
  <2>1. documentDeBataille(c) \in Documents
    BY <1>0, TypesDesFiches DEF documentDeBataille, Documents
  <2>2. appels[c].reste \ {j} \in SUBSET Joueurs
    BY <1>0
  <2>3. appels' \in [Joueurs -> Appel]
    BY <1>0, <1>10, <2>2, Suite, TypesDesAppels DEF publierHistoriqueDeBataille
  <2>4. historique' \in [Joueurs -> Documents]
    BY <1>10, <2>1 DEF publierHistoriqueDeBataille, TypeOK
  <2> QED BY <1>10, <2>3, <2>4 DEF publierHistoriqueDeBataille, TypeOK, memoire, credit
<1>11. ASSUME NEW c \in Joueurs, compterLaBatailleDeFete(c) PROVE TypeOK'
  <2>1. appels' \in [Joueurs -> Appel]
    BY <1>0, <1>11, Suite, TypesDesAppels, LesEtapes DEF compterLaBatailleDeFete
  <2>2. comptees' = comptees \/ comptees' = comptees + 1
    BY <1>11, Zenon DEF compterLaBatailleDeFete
  <2>3. comptees' \in Nat
    BY <2>2 DEF TypeOK
  <2> QED BY <1>11, <2>1, <2>3 DEF compterLaBatailleDeFete, TypeOK, memoire, credit
<1>12. ASSUME NEW c \in Joueurs, Publier(c) PROVE TypeOK'
  <2>1. appels' \in [Joueurs -> Appel]
    BY <1>0, <1>12, Suite, TypeRepos DEF Publier
  <2>2. verdict' \in Verdicts
    BY <1>0, <1>12 DEF Publier, VerdictDe, Verdicts
  <2>3. faits' \in [Joueurs -> Nat]
    BY <1>12 DEF Publier, TypeOK
  <2> QED BY <1>12, <2>1, <2>2, <2>3 DEF Publier, TypeOK, memoire, credit, publie
<1>13. CASE UNCHANGED vars
  BY <1>13 DEF vars, TypeOK, memoire, credit, publie
<1> QED
  BY <1>1, <1>2, <1>3, <1>4, <1>5, <1>6, <1>7, <1>8, <1>9, <1>10, <1>11, <1>12, <1>13
     DEF Next, Servir

(* Every state has its types.                                                *)
THEOREM ArbitrationTypeCorrect == Spec => []TypeOK
BY TypageInit, TypagePas, PTL DEF Spec

-----------------------------------------------------------------------------
(* The credit of a shift.                                                    *)

LEMMA CreditInit == Init => CreditInv
<1> SUFFICES ASSUME Init PROVE CreditInv
  OBVIOUS
<1>1. \A c \in Joueurs : appels[c].paye = {} /\ cartes[c] = 0
  BY DEF Init, Repos
<1>2. credites = {}
  BY DEF Init
<1> QED BY <1>1, <1>2 DEF CreditInv, EnCours

(* A step that pays and marks nobody.                                        *)
LEMMA CreditIntact ==
  ASSUME CreditInv, UNCHANGED credit,
         \A d \in Joueurs : /\ appels'[d].paye = appels[d].paye
                            /\ A(d, "carte") => A(d, "carte")'
  PROVE  CreditInv'
BY DEF CreditInv, EnCours, credit

LEMMA CreditPas == ASSUME TypeOK, CreditInv, [Next]_vars PROVE CreditInv'
<1>0. /\ appels \in [Joueurs -> Appel]
      /\ \A c \in Joueurs : appels[c] \in Appel
      /\ appels' \in [Joueurs -> Appel]
  BY TypagePas DEF TypeOK
<1>a. \A c \in Joueurs : appels[c].paye # {} => A(c, "carte")
  <2>1. \A c \in Joueurs : appels[c].paye \in SUBSET Joueurs
    BY <1>0 DEF Appel
  <2> QED BY <2>1 DEF CreditInv
<1>1. ASSUME NEW c \in Joueurs, Virer(c) PROVE CreditInv'
  BY <1>1, CreditIntact DEF Virer, A
<1>2. ASSUME NEW c \in Joueurs, WriteDocuments(c) PROVE CreditInv'
  <2>1. appels[c].paye = {} /\ ~A(c, "carte")
    BY <1>2, <1>a DEF WriteDocuments, A
  <2>2. appels'[c].paye = {} /\ \A d \in Joueurs : d # c => appels'[d] = appels[d]
    BY <1>0, <1>2 DEF WriteDocuments, Poursuivre, Repos
  <2> QED BY <1>2, <2>1, <2>2, CreditIntact DEF WriteDocuments, A
<1>3. ASSUME NEW c \in Joueurs,
             \/ Retenir(c) \/ retenirParametres(c) \/ parametresDe(c) \/ Rassembler(c)
             \/ FinDuCredit(c) \/ compterLaBatailleDeFete(c)
             \/ \E j \in Joueurs : publierHistoriqueDeBataille(c, j)
      PROVE CreditInv'
  <2>1. ~A(c, "carte") /\ UNCHANGED credit
    BY <1>3 DEF Retenir, retenirParametres, parametresDe, Rassembler, FinDuCredit,
                compterLaBatailleDeFete, publierHistoriqueDeBataille, A
  <2>2. appels'[c].paye = appels[c].paye /\ \A d \in Joueurs : d # c => appels'[d] = appels[d]
    <3>1. CASE Retenir(c)
      BY <1>0, <3>1 DEF Retenir, Poursuivre, Appel
    <3>2. CASE retenirParametres(c)
      BY <1>0, <3>2 DEF retenirParametres, Poursuivre, Appel
    <3>3. CASE parametresDe(c)
      BY <1>0, <3>3 DEF parametresDe, Poursuivre, Appel
    <3>4. CASE Rassembler(c)
      <4>1. PICK p, s, d, e, S :
              Poursuivre(c, [appels[c] EXCEPT !.personnel = p, !.status = s, !.entete = d,
                                              !.etape = e, !.reste = S])
        BY <3>4 DEF Rassembler
      <4> QED BY <1>0, <4>1 DEF Poursuivre, Appel
    <3>5. CASE FinDuCredit(c)
      BY <1>0, <3>5 DEF FinDuCredit, Poursuivre, Appel
    <3>6. CASE compterLaBatailleDeFete(c)
      <4>1. Poursuivre(c, [appels[c] EXCEPT !.etape = "publier"])
        BY <3>6, Zenon DEF compterLaBatailleDeFete
      <4> QED BY <1>0, <4>1 DEF Poursuivre, Appel
    <3>7. CASE \E j \in Joueurs : publierHistoriqueDeBataille(c, j)
      BY <1>0, <3>7 DEF publierHistoriqueDeBataille, Poursuivre, Appel
    <3> QED BY <1>3, <3>1, <3>2, <3>3, <3>4, <3>5, <3>6, <3>7
  <2> QED BY <2>1, <2>2, CreditIntact DEF A
<1>4. ASSUME NEW c \in Joueurs, NEW j \in Joueurs, crediterQuartCoop(c, j) PROVE CreditInv'
  <2>1. appels[c].paye = {} /\ ~A(c, "carte")
    BY <1>4, <1>a DEF crediterQuartCoop, A
  <2>2. \A d \in Joueurs : d # c => appels'[d] = appels[d]
    BY <1>0, <1>4 DEF crediterQuartCoop, Poursuivre
  <2>3. CASE j \in Presents \ credites
    <3>1. /\ appels'[c].paye = {j} /\ A(c, "carte")'
          /\ credites' = credites \cup {j} /\ cartes' = cartes
      <4> DEFINE r == [appels[c] EXCEPT !.reste = @ \ {j}, !.paye = {j}, !.etape = "carte"]
      <4>1. r.paye = {j} /\ r.etape = "carte"
        BY <1>0 DEF Appel
      <4>2. Poursuivre(c, r) /\ credites' = credites \cup {j} /\ cartes' = cartes
        BY <1>4, <2>3 DEF crediterQuartCoop
      <4>3. appels'[c] = r
        BY <1>0, <4>2 DEF Poursuivre
      <4> QED BY <4>1, <4>2, <4>3 DEF A
    <3>2. ~EnCours(j) /\ cartes[j] = 0
      BY <2>3 DEF CreditInv, EnCours
    <3>3. \A i \in Joueurs : EnCours(i)' <=> EnCours(i) \/ i = j
      BY <2>1, <2>2, <3>1 DEF EnCours
    <3> QED BY <2>1, <2>2, <3>1, <3>2, <3>3 DEF CreditInv, EnCours, A
  <2>4. CASE j \notin Presents \ credites
    <3>1. appels'[c].paye = appels[c].paye /\ UNCHANGED credit
      BY <1>0, <1>4, <2>4 DEF crediterQuartCoop, Poursuivre, Appel, credit
    <3> QED BY <2>1, <2>2, <3>1, CreditIntact DEF A
  <2> QED BY <2>3, <2>4
<1>5. ASSUME NEW c \in Joueurs, NEW j \in Joueurs, crediterCartesDePoints(c, j)
      PROVE CreditInv'
  <2>1. /\ appels[c].paye = {j} /\ j \in credites /\ cartes[j] = 0
        /\ \A d \in Joueurs : j \in appels[d].paye => d = c
    BY <1>5 DEF crediterCartesDePoints, CreditInv, EnCours
  <2>2. appels'[c].paye = {} /\ \A d \in Joueurs : d # c => appels'[d] = appels[d]
    BY <1>0, <1>5 DEF crediterCartesDePoints, Poursuivre, Appel
  <2>3. credites' = credites /\ cartes' = [cartes EXCEPT ![j] = 1]
    BY <1>5, <2>1 DEF crediterCartesDePoints, TypeOK
  <2>4. \A i \in Joueurs : EnCours(i)' <=> EnCours(i) /\ i # j
    BY <2>1, <2>2 DEF EnCours
  <2>5. \A i \in Joueurs : cartes'[i] = IF i = j THEN 1 ELSE cartes[i]
    BY <2>3 DEF TypeOK
  <2> QED BY <2>1, <2>2, <2>3, <2>4, <2>5 DEF CreditInv, A
<1>6. ASSUME NEW c \in Joueurs, Publier(c) PROVE CreditInv'
  <2>1. appels[c].paye = {} /\ ~A(c, "carte")
    BY <1>6, <1>a DEF Publier, A
  <2>2. appels'[c].paye = {} /\ \A d \in Joueurs : d # c => appels'[d] = appels[d]
    BY <1>0, <1>6 DEF Publier, Poursuivre, Repos
  <2> QED BY <1>6, <2>1, <2>2, CreditIntact DEF Publier, A
<1>7. CASE UNCHANGED vars
  BY <1>7, CreditIntact DEF vars, A
<1> QED BY <1>1, <1>2, <1>3, <1>4, <1>5, <1>6, <1>7 DEF Next, Servir

(* However many reports arrive, and however their handlers interleave, a     *)
(* player has his shift once.                                                *)
THEOREM ShiftIsCreditedOnce == Spec => []ShiftCreditedOnce
<1>1. TypeOK /\ CreditInv => ShiftCreditedOnce
  BY DEF CreditInv, ShiftCreditedOnce
<1> QED BY <1>1, TypageInit, TypagePas, CreditInit, CreditPas, PTL DEF Spec

-----------------------------------------------------------------------------
(* What each step does to the head and to the sheets of a verdict.           *)

Fins == {"crediter", "carte", "historique"}

Autres(c) == \A d \in Joueurs : d # c => appels'[d] = appels[d] /\ faits'[d] = faits[d]

LEMMA PasEcrire ==
  ASSUME TypeOK, NEW c \in Joueurs, WriteDocuments(c)
  PROVE  /\ A(c, "repos")
         /\ FinDePartie(c) => \A d \in Joueurs : FinDePartie(d)
         /\ appels'[c].etape = IF FinDePartie(c) THEN "retenir" ELSE "parametres"
         /\ appels'[c].entete = IF FinDePartie(c) THEN Cadre ELSE EnteteEntier
         /\ UNCHANGED <<faits, parametres, rapports, verdict, genre>>
         /\ Autres(c)
<1>1. /\ A(c, "repos")
      /\ FinDePartie(c) => \A d \in Joueurs : FinDePartie(d)
      /\ UNCHANGED <<faits, parametres, rapports, verdict, genre>>
  BY DEF WriteDocuments, PeutEcrire, FinDePartie, memoire
<1>2. PICK u, e, h :
        /\ Poursuivre(c, [Repos EXCEPT !.uids = u, !.etape = e, !.entete = h])
        /\ e = IF FinDePartie(c) THEN "retenir" ELSE "parametres"
        /\ h = IF FinDePartie(c) THEN Cadre ELSE EnteteEntier
  BY DEF WriteDocuments, EnteteEntier
<1>3. appels'[c].etape = e /\ appels'[c].entete = h
  BY <1>2 DEF Poursuivre, Repos, TypeOK
<1>4. Autres(c)
  BY <1>1, <1>2 DEF Autres, Poursuivre, TypeOK
<1> QED BY <1>1, <1>2, <1>3, <1>4

LEMMA PasRetenir ==
  ASSUME TypeOK, NEW c \in Joueurs, Retenir(c)
  PROVE  /\ A(c, "retenir") /\ appels'[c].etape = "parametres"
         /\ appels'[c].entete = appels[c].entete
         /\ rapports' = retenirRapport(c)
         /\ UNCHANGED <<faits, parametres, verdict, genre>>
         /\ Autres(c)
BY DEF Retenir, Poursuivre, TypeOK, Appel, Autres

LEMMA PasParametres ==
  ASSUME TypeOK, NEW c \in Joueurs, retenirParametres(c) \/ parametresDe(c)
  PROVE  /\ A(c, "parametres") /\ appels'[c].etape = "rassembler"
         /\ FinDePartie(c) =>
              /\ appels'[c].entete = Completer(appels[c].entete, parametres)
              /\ parametres' = parametres
         /\ ~FinDePartie(c) =>
              /\ appels'[c].entete = appels[c].entete
              /\ parametres' = appels[c].entete
         /\ UNCHANGED <<faits, rapports, verdict, genre>>
         /\ Autres(c)
<1>1. CASE retenirParametres(c)
  BY <1>1 DEF retenirParametres, Poursuivre, TypeOK, Appel, Autres
<1>2. CASE parametresDe(c)
  BY <1>2 DEF parametresDe, Poursuivre, TypeOK, Appel, Autres, memoire
<1> QED BY <1>1, <1>2

LEMMA PasRassembler ==
  ASSUME TypeOK, NEW c \in Joueurs, Rassembler(c)
  PROVE  /\ A(c, "rassembler")
         /\ appels'[c].etape \in IF FinDePartie(c) THEN Fins ELSE {"publier"}
         /\ appels'[c].entete = Inventaire(appels[c].entete)
         /\ appels'[c].personnel = resultatsIndividuels(verdictCoop(appels[c].entete))
         /\ FinDePartie(c) => appels'[c].status = 1
         /\ UNCHANGED <<faits, parametres, rapports, verdict, genre>>
         /\ Autres(c)
<1>1. A(c, "rassembler") /\ UNCHANGED <<faits, parametres, rapports, verdict, genre>>
  BY DEF Rassembler, memoire
<1>2. PICK p, s, d, e, S :
        /\ Poursuivre(c, [appels[c] EXCEPT !.personnel = p, !.status = s, !.entete = d,
                                           !.etape = e, !.reste = S])
        /\ p = resultatsIndividuels(verdictCoop(appels[c].entete))
        /\ FinDePartie(c) => s = 1
        /\ d = Inventaire(appels[c].entete)
        /\ e \in IF FinDePartie(c) THEN Fins ELSE {"publier"}
  BY DEF Rassembler, Fins
<1>3. /\ appels'[c].personnel = p /\ appels'[c].status = s
      /\ appels'[c].entete = d /\ appels'[c].etape = e
  BY <1>2 DEF Poursuivre, TypeOK, Appel
<1>4. Autres(c)
  BY <1>1, <1>2 DEF Autres, Poursuivre, TypeOK
<1> QED BY <1>1, <1>2, <1>3, <1>4

(* The credit, the history and the counting leave the verdict alone.         *)
LEMMA PasFin ==
  ASSUME TypeOK, NEW c \in Joueurs,
         \/ \E j \in Joueurs : \/ crediterQuartCoop(c, j) \/ crediterCartesDePoints(c, j)
                               \/ publierHistoriqueDeBataille(c, j)
         \/ FinDuCredit(c) \/ compterLaBatailleDeFete(c)
  PROVE  /\ appels[c].etape \in Fins
         /\ appels'[c].etape \in Fins \cup {"publier"}
         /\ appels'[c].entete = appels[c].entete
         /\ appels'[c].personnel = appels[c].personnel
         /\ appels'[c].status = appels[c].status
         /\ UNCHANGED <<faits, parametres, rapports, verdict, genre>>
         /\ Autres(c)
<1> USE DEF Fins
<1>1. ASSUME NEW j \in Joueurs, crediterQuartCoop(c, j)
      PROVE  /\ A(c, "crediter")
             /\ \/ \E R, P : Poursuivre(c, [appels[c] EXCEPT !.reste = R, !.paye = P,
                                                              !.etape = "carte"])
                \/ \E R : Poursuivre(c, [appels[c] EXCEPT !.reste = R])
             /\ UNCHANGED <<faits, parametres, rapports, verdict, genre>>
  BY <1>1 DEF crediterQuartCoop, memoire
<1>2. ASSUME NEW j \in Joueurs, crediterCartesDePoints(c, j)
      PROVE  /\ A(c, "carte")
             /\ Poursuivre(c, [appels[c] EXCEPT !.paye = {}, !.etape = "crediter"])
             /\ UNCHANGED <<faits, parametres, rapports, verdict, genre>>
  BY <1>2 DEF crediterCartesDePoints, memoire
<1>3. ASSUME NEW j \in Joueurs, publierHistoriqueDeBataille(c, j)
      PROVE  /\ A(c, "historique")
             /\ \E R : Poursuivre(c, [appels[c] EXCEPT !.reste = R])
             /\ UNCHANGED <<faits, parametres, rapports, verdict, genre>>
  BY <1>3 DEF publierHistoriqueDeBataille, memoire
<1>4. ASSUME FinDuCredit(c)
      PROVE  /\ A(c, "crediter")
             /\ \E R : Poursuivre(c, [appels[c] EXCEPT !.etape = "historique", !.reste = R])
             /\ UNCHANGED <<faits, parametres, rapports, verdict, genre>>
  BY <1>4 DEF FinDuCredit, memoire
<1>5. ASSUME compterLaBatailleDeFete(c)
      PROVE  /\ A(c, "historique")
             /\ Poursuivre(c, [appels[c] EXCEPT !.etape = "publier"])
             /\ UNCHANGED <<faits, parametres, rapports, verdict, genre>>
  BY <1>5, Zenon DEF compterLaBatailleDeFete, memoire
<1>6. /\ UNCHANGED <<faits, parametres, rapports, verdict, genre>>
      /\ appels[c].etape \in Fins
      /\ \E R, P : \E e \in Fins \cup {"publier"} :
           \/ Poursuivre(c, [appels[c] EXCEPT !.reste = R, !.paye = P, !.etape = e])
           \/ Poursuivre(c, [appels[c] EXCEPT !.reste = R])
           \/ Poursuivre(c, [appels[c] EXCEPT !.paye = P, !.etape = e])
           \/ Poursuivre(c, [appels[c] EXCEPT !.etape = e, !.reste = R])
           \/ Poursuivre(c, [appels[c] EXCEPT !.etape = e])
  BY <1>1, <1>2, <1>3, <1>4, <1>5 DEF A
<1>7. PICK R, P, e :
        /\ e \in Fins \cup {"publier"}
        /\ \/ Poursuivre(c, [appels[c] EXCEPT !.reste = R, !.paye = P, !.etape = e])
           \/ Poursuivre(c, [appels[c] EXCEPT !.reste = R])
           \/ Poursuivre(c, [appels[c] EXCEPT !.paye = P, !.etape = e])
           \/ Poursuivre(c, [appels[c] EXCEPT !.etape = e, !.reste = R])
           \/ Poursuivre(c, [appels[c] EXCEPT !.etape = e])
  BY <1>6
<1>8. /\ appels'[c].etape \in {e, appels[c].etape}
      /\ appels'[c].entete = appels[c].entete
      /\ appels'[c].personnel = appels[c].personnel
      /\ appels'[c].status = appels[c].status
  <2> HIDE DEF Fins
  <2>1. CASE Poursuivre(c, [appels[c] EXCEPT !.reste = R, !.paye = P, !.etape = e])
    BY <2>1 DEF Poursuivre, TypeOK, Appel
  <2>2. CASE Poursuivre(c, [appels[c] EXCEPT !.reste = R])
    BY <2>2 DEF Poursuivre, TypeOK, Appel
  <2>3. CASE Poursuivre(c, [appels[c] EXCEPT !.paye = P, !.etape = e])
    BY <2>3 DEF Poursuivre, TypeOK, Appel
  <2>4. CASE Poursuivre(c, [appels[c] EXCEPT !.etape = e, !.reste = R])
    BY <2>4 DEF Poursuivre, TypeOK, Appel
  <2>5. CASE Poursuivre(c, [appels[c] EXCEPT !.etape = e])
    BY <2>5 DEF Poursuivre, TypeOK, Appel
  <2> QED BY <1>7, <2>1, <2>2, <2>3, <2>4, <2>5
<1>9. Autres(c)
  BY <1>6, <1>7 DEF Autres, Poursuivre, TypeOK
<1> QED BY <1>6, <1>7, <1>8, <1>9

LEMMA PasPublier ==
  ASSUME TypeOK, NEW c \in Joueurs, Publier(c)
  PROVE  /\ A(c, "publier") /\ A(c, "repos")'
         /\ verdict' = VerdictDe(c)
         /\ faits'[c] = faits[c] + 1
         /\ UNCHANGED <<parametres, rapports, genre>>
         /\ Autres(c)
BY DEF Publier, Poursuivre, TypeOK, Appel, Repos, Autres, A, memoire

-----------------------------------------------------------------------------
(* The merged reports.                                                       *)

LEMMA RapportsInit == Init => ReportsAreMerged
BY DEF Init, Repos, ReportsAreMerged, FinDePartie

LEMMA RapportsPas ==
  ASSUME TypeOK, ReportsAreMerged, [Next]_vars PROVE ReportsAreMerged'
<1> DEFINE Dit(c) == "propre" \in rapports[c] /\ \A j \in Joueurs : "commun" \in rapports[j]
           Tenu(c) == \/ faits[c] > 1
                      \/ FinDePartie(c) /\ appels[c].etape \notin {"repos", "retenir"}
<1>0. \A c \in Joueurs : faits[c] \in Nat /\ (Tenu(c) => Dit(c))
  BY DEF TypeOK, ReportsAreMerged
<1>a. SUFFICES ASSUME NEW x \in Joueurs, Tenu(x)' PROVE Dit(x)'
  BY DEF ReportsAreMerged
<1>1. ASSUME NEW c \in Joueurs, Virer(c) PROVE Dit(x)'
  BY <1>0, <1>a, <1>1 DEF Virer, FinDePartie, memoire
<1>2. ASSUME NEW c \in Joueurs, WriteDocuments(c) PROVE Dit(x)'
  BY <1>0, <1>a, <1>2, PasEcrire DEF FinDePartie, Autres, A
<1>3. ASSUME NEW c \in Joueurs, Retenir(c) PROVE Dit(x)'
  <2>1. \A j \in Joueurs : /\ rapports[j] \subseteq rapports'[j]
                           /\ "commun" \in rapports'[j]
                           /\ j = c => "propre" \in rapports'[j]
    BY <1>3, PasRetenir DEF retenirRapport, RapportDe
  <2>2. x # c => Tenu(x)
    BY <1>a, <1>3, PasRetenir DEF Autres, FinDePartie
  <2> QED BY <1>0, <2>1, <2>2
<1>4. ASSUME NEW c \in Joueurs, retenirParametres(c) \/ parametresDe(c) PROVE Dit(x)'
  BY <1>0, <1>a, <1>4, PasParametres DEF FinDePartie, Autres, A
<1>5. ASSUME NEW c \in Joueurs, Rassembler(c) PROVE Dit(x)'
  BY <1>0, <1>a, <1>5, PasRassembler DEF FinDePartie, Autres, A
<1>6. ASSUME NEW c \in Joueurs,
             \/ \E j \in Joueurs : \/ crediterQuartCoop(c, j) \/ crediterCartesDePoints(c, j)
                                   \/ publierHistoriqueDeBataille(c, j)
             \/ FinDuCredit(c) \/ compterLaBatailleDeFete(c)
      PROVE  Dit(x)'
  BY <1>0, <1>a, <1>6, PasFin DEF FinDePartie, Autres, Fins
<1>7. ASSUME NEW c \in Joueurs, Publier(c) PROVE Dit(x)'
  BY <1>0, <1>a, <1>7, PasPublier DEF FinDePartie, Autres, A
<1>8. CASE UNCHANGED vars
  BY <1>0, <1>a, <1>8 DEF vars, memoire, FinDePartie
<1> QED BY <1>1, <1>2, <1>3, <1>4, <1>5, <1>6, <1>7, <1>8 DEF Next, Servir

(* Whatever the others report, and in whatever order the handlers run, what  *)
(* a console said of its own player stays in the merged report.              *)
THEOREM ReportsStayMerged == Spec => []ReportsAreMerged
BY TypageInit, TypagePas, RapportsInit, RapportsPas, PTL DEF Spec

-----------------------------------------------------------------------------
(* The head of the verdict.                                                  *)

LEMMA Entier ==
  ASSUME genre \in TousLesGenres
  PROVE  /\ Completer(Cadre, EnteteEntier) = EnteteEntier
         /\ verdictCoop(EnteteEntier) <=> genre = "coop"
         /\ verdictCoop(EnteteFinal) <=> genre = "coop"
         /\ EnteteFinal["stage"] = Annonce["stage"]
         /\ EnteteFinal["shift_id"] = Annonce["shift_id"]
<1> USE DEF TousLesGenres, EnteteEntier, EnteteFinal, Completer, Cadre, SansEntete, Cles,
            Annonce, Absent, verdictCoop, Inventaire, champsDuVerdict, champsDuVerdictCoop
<1>1. CASE genre = "versus"
  BY <1>1
<1>2. CASE genre = "fete"
  BY <1>2
<1>3. CASE genre = "coop"
  BY <1>3
<1> QED BY <1>1, <1>2, <1>3

LEMMA EnteteConstant ==
  ASSUME genre' = genre
  PROVE  EnteteEntier' = EnteteEntier /\ EnteteFinal' = EnteteFinal /\ Annonce' = Annonce
BY DEF EnteteEntier, EnteteFinal, Annonce, Completer, Inventaire

LEMMA EnteteInit == Init => EnteteInv
BY DEF Init, Repos, EnteteInv, FinDePartie, A

LEMMA EntetePas == ASSUME TypeOK, EnteteInv, [Next]_vars PROVE EnteteInv'
<1>0. \A c \in Joueurs : faits[c] \in Nat
  BY DEF TypeOK
<1>i. genre \in TousLesGenres
  BY DEF TypeOK
<1>g. genre' = genre
  <2>1. ASSUME NEW c \in Joueurs, compterLaBatailleDeFete(c) PROVE genre' = genre
    BY <2>1, Zenon DEF compterLaBatailleDeFete
  <2> QED BY <2>1 DEF Next, Servir, Virer, WriteDocuments, Retenir, retenirParametres,
                     parametresDe, Rassembler, crediterQuartCoop, crediterCartesDePoints,
                     FinDuCredit, publierHistoriqueDeBataille, Publier, vars
<1>e. EnteteEntier' = EnteteEntier /\ EnteteFinal' = EnteteFinal
  BY <1>g, EnteteConstant
<1>1. ASSUME NEW c \in Joueurs, Virer(c) PROVE EnteteInv'
  BY <1>1, <1>e DEF Virer, EnteteInv, FinDePartie, A, memoire
<1>2. ASSUME NEW c \in Joueurs, WriteDocuments(c) PROVE EnteteInv'
  BY <1>2, <1>e, PasEcrire DEF EnteteInv, FinDePartie, Autres, A
<1>3. ASSUME NEW c \in Joueurs, Retenir(c) PROVE EnteteInv'
  BY <1>3, <1>e, PasRetenir DEF EnteteInv, FinDePartie, Autres, A
<1>4. ASSUME NEW c \in Joueurs, retenirParametres(c) \/ parametresDe(c) PROVE EnteteInv'
  <2>1. Completer(Cadre, EnteteEntier) = EnteteEntier
    BY <1>i, Entier
  <2>2. FinDePartie(c) => /\ parametres = EnteteEntier /\ appels[c].entete = Cadre
    BY <1>4, PasParametres DEF EnteteInv
  <2>3. ~FinDePartie(c) => appels[c].entete = EnteteEntier
    BY <1>4, PasParametres DEF EnteteInv
  <2>4. parametres' = EnteteEntier /\ appels'[c].entete = EnteteEntier
    BY <1>4, <2>1, <2>2, <2>3, PasParametres
  <2> QED BY <1>4, <1>e, <2>4, PasParametres DEF EnteteInv, FinDePartie, Autres, A
<1>5. ASSUME NEW c \in Joueurs, Rassembler(c) PROVE EnteteInv'
  <2>1. appels'[c].entete = EnteteFinal /\ parametres = EnteteEntier
    BY <1>5, PasRassembler DEF EnteteInv, EnteteFinal
  <2> QED BY <1>5, <1>e, <2>1, PasRassembler DEF EnteteInv, FinDePartie, Autres, A, Fins
<1>6. ASSUME NEW c \in Joueurs,
             \/ \E j \in Joueurs : \/ crediterQuartCoop(c, j) \/ crediterCartesDePoints(c, j)
                                   \/ publierHistoriqueDeBataille(c, j)
             \/ FinDuCredit(c) \/ compterLaBatailleDeFete(c)
      PROVE  EnteteInv'
  <2>1. FinDePartie(c) /\ appels[c].entete = EnteteFinal /\ parametres = EnteteEntier
    BY <1>6, PasFin DEF EnteteInv, Fins, A
  <2> QED BY <1>6, <1>e, <2>1, PasFin DEF EnteteInv, FinDePartie, Autres, A, Fins
<1>7. ASSUME NEW c \in Joueurs, Publier(c) PROVE EnteteInv'
  <2>1. parametres = EnteteEntier
    BY <1>7, PasPublier DEF EnteteInv
  <2> QED BY <1>0, <1>7, <1>e, <2>1, PasPublier DEF EnteteInv, FinDePartie, Autres, A
<1>8. CASE UNCHANGED vars
  BY <1>8, <1>e DEF vars, EnteteInv, FinDePartie, A, memoire
<1> QED BY <1>1, <1>2, <1>3, <1>4, <1>5, <1>6, <1>7, <1>8 DEF Next, Servir

-----------------------------------------------------------------------------
(* The verdict of the end.                                                   *)

LEMMA VerdictInit == Init => VerdictInv /\ EndVerdictIsWhole
BY DEF Init, Repos, SansFiche, VerdictInv, EndVerdictIsWhole, FinDePartie, A

LEMMA VerdictPas ==
  ASSUME TypeOK, ReportsAreMerged, EnteteInv, VerdictInv, EndVerdictIsWhole, [Next]_vars
  PROVE  VerdictInv' /\ EndVerdictIsWhole'
<1>0. \A c \in Joueurs : faits[c] \in Nat
  BY DEF TypeOK
<1>i. genre \in TousLesGenres
  BY DEF TypeOK
<1>1. ASSUME NEW c \in Joueurs, Virer(c) PROVE VerdictInv' /\ EndVerdictIsWhole'
  <2>1. UNCHANGED <<genre, rapports, verdict, appels, faits>>
    BY <1>1 DEF Virer, memoire
  <2> QED BY <2>1, EnteteConstant DEF VerdictInv, EndVerdictIsWhole, Entieres, FinDePartie, A
<1>2. ASSUME NEW c \in Joueurs, WriteDocuments(c) PROVE VerdictInv' /\ EndVerdictIsWhole'
  <2>1. EndVerdictIsWhole'
    BY <1>2, PasEcrire, EnteteConstant DEF EndVerdictIsWhole
  <2>2. VerdictInv'
    BY <1>2, PasEcrire DEF VerdictInv, Entieres, FinDePartie, Autres, A
  <2> QED BY <2>1, <2>2
<1>3. ASSUME NEW c \in Joueurs, Retenir(c) PROVE VerdictInv' /\ EndVerdictIsWhole'
  <2>1. EndVerdictIsWhole'
    BY <1>3, PasRetenir, EnteteConstant DEF EndVerdictIsWhole
  <2>2. \A j \in Joueurs : "serveur" \notin rapports'[j]
    BY <1>3, PasRetenir DEF VerdictInv, retenirRapport, RapportDe
  <2>3. VerdictInv'
    BY <1>3, <2>2, PasRetenir DEF VerdictInv, Entieres, FinDePartie, Autres, A
  <2> QED BY <2>1, <2>3
<1>4. ASSUME NEW c \in Joueurs, retenirParametres(c) \/ parametresDe(c)
      PROVE  VerdictInv' /\ EndVerdictIsWhole'
  <2>1. EndVerdictIsWhole'
    BY <1>4, PasParametres, EnteteConstant DEF EndVerdictIsWhole
  <2>2. VerdictInv'
    BY <1>4, PasParametres DEF VerdictInv, Entieres, FinDePartie, Autres, A
  <2> QED BY <2>1, <2>2
<1>5. ASSUME NEW c \in Joueurs, Rassembler(c) PROVE VerdictInv' /\ EndVerdictIsWhole'
  <2>1. EndVerdictIsWhole'
    BY <1>5, PasRassembler, EnteteConstant DEF EndVerdictIsWhole
  <2>2. FinDePartie(c) => Entieres(appels'[c].personnel)
    <3>1. verdictCoop(appels[c].entete) <=> genre = "coop"
      BY <1>i, <1>5, Entier, PasRassembler DEF EnteteInv
    <3>2. FinDePartie(c) => \A j \in Joueurs : "commun" \in rapports[j] /\ "serveur" \notin rapports[j]
      BY <1>5, PasRassembler DEF ReportsAreMerged, VerdictInv, A
    <3>3. CASE genre = "coop"
      <4>1. appels'[c].personnel = [j \in Joueurs |-> rapports[j]]
        <5>1. appels'[c].personnel = resultatsIndividuels(verdictCoop(appels[c].entete))
          BY <1>5, PasRassembler
        <5> QED BY <3>1, <3>3, <5>1 DEF resultatsIndividuels, verdictCoop
      <4> QED BY <3>2, <3>3, <4>1 DEF Entieres
    <3>4. CASE genre # "coop"
      <4>1. appels'[c].personnel = [j \in Joueurs |-> IF rapports[j] = {} THEN rapports[j]
                                                     ELSE rapports[j] \cup {"serveur"}]
        <5>1. appels'[c].personnel = resultatsIndividuels(verdictCoop(appels[c].entete))
          BY <1>5, PasRassembler
        <5> QED BY <3>1, <3>4, <5>1 DEF resultatsIndividuels, verdictCoop
      <4> QED BY <3>2, <3>4, <4>1 DEF Entieres
    <3> QED BY <3>3, <3>4
  <2>3. VerdictInv'
    BY <1>5, <2>2, PasRassembler DEF VerdictInv, Entieres, FinDePartie, Autres, A
  <2> QED BY <2>1, <2>3
<1>6. ASSUME NEW c \in Joueurs,
             \/ \E j \in Joueurs : \/ crediterQuartCoop(c, j) \/ crediterCartesDePoints(c, j)
                                   \/ publierHistoriqueDeBataille(c, j)
             \/ FinDuCredit(c) \/ compterLaBatailleDeFete(c)
      PROVE  VerdictInv' /\ EndVerdictIsWhole'
  <2>1. EndVerdictIsWhole'
    BY <1>6, PasFin, EnteteConstant DEF EndVerdictIsWhole
  <2>2. VerdictInv'
    BY <1>6, PasFin DEF VerdictInv, Entieres, FinDePartie, Autres, A, Fins
  <2> QED BY <2>1, <2>2
<1>7. ASSUME NEW c \in Joueurs, Publier(c) PROVE VerdictInv' /\ EndVerdictIsWhole'
  <2>1. VerdictInv'
    BY <1>0, <1>7, PasPublier DEF VerdictInv, Entieres, FinDePartie, Autres, A
  <2>2. CASE FinDePartie(c)
    <3>1. verdict'.status = 1 /\ Entieres(verdict'.personnel) /\ verdict'.entete = EnteteFinal
      BY <1>7, <2>2, PasPublier DEF VerdictInv, EnteteInv, VerdictDe, A
    <3> QED BY <1>i, <1>7, <2>1, <3>1, Entier, EnteteConstant, PasPublier
            DEF EndVerdictIsWhole, Entieres
  <2>3. CASE ~FinDePartie(c)
    <3>1. ~\E x \in Joueurs : faits'[x] > 1
      BY <1>0, <1>7, <2>3, PasPublier DEF VerdictInv, FinDePartie, Autres
    <3> QED BY <2>1, <3>1 DEF EndVerdictIsWhole
  <2> QED BY <2>1, <2>2, <2>3
<1>8. CASE UNCHANGED vars
  <2>1. UNCHANGED <<genre, rapports, verdict, appels, faits>>
    BY <1>8 DEF vars, memoire
  <2> QED BY <2>1, EnteteConstant DEF VerdictInv, EndVerdictIsWhole, Entieres, FinDePartie, A
<1> QED BY <1>1, <1>2, <1>3, <1>4, <1>5, <1>6, <1>7, <1>8 DEF Next, Servir

(* From the first answer to a report on, the verdict served says that the    *)
(* match is over and which it was, with a whole sheet for every player.      *)
THEOREM EndVerdictStaysWhole == Spec => []EndVerdictIsWhole
BY TypageInit, TypagePas, RapportsInit, RapportsPas, EnteteInit, EntetePas,
   VerdictInit, VerdictPas, PTL DEF Spec
-----------------------------------------------------------------------------
(* Who never left.                                                           *)

LEMMA ServisInit == Init => ServisInv
BY DEF Init, Repos, ServisInv, Du, Credite, Raconte, A

(* A step of c, seen from the call of another.                               *)
LEMMA ServisAutre ==
  ASSUME NEW d \in Joueurs, NEW j \in Joueurs, Du(d, j),
         appels'[d] = appels[d], faits'[d] = faits[d], genre' = genre,
         credites \subseteq credites', Servi(j) => Servi(j)'
  PROVE  Du(d, j)'
BY DEF Du, Credite, Raconte, A, FinDePartie

(* What a step of c leaves to do for j.                                      *)
LEMMA ServisIntacts ==
  ASSUME UNCHANGED <<genre, historique>>, NEW j PROVE Servi(j)' <=> Servi(j)
BY DEF Servi

LEMMA ServisPas ==
  ASSUME TypeOK, ReportsAreMerged, EnteteInv, VerdictInv, ServisInv, [Next]_vars
  PROVE  ServisInv'
<1> SUFFICES ASSUME NEW x \in Joueurs, NEW j \in Joueurs, virages'[j] = 0
             PROVE  Du(x, j)'
  BY DEF ServisInv
<1>0. /\ appels \in [Joueurs -> Appel] /\ appels[x] \in Appel
      /\ faits \in [Joueurs -> Nat] /\ genre \in TousLesGenres /\ virages \in [Joueurs -> Nat]
  BY DEF TypeOK
<1>u. appels \in [Joueurs -> Appel] /\ \A c \in Joueurs : appels[c] \in Appel
  BY DEF TypeOK
<1>v. virages[j] = 0
  <2>1. ASSUME NEW c \in Joueurs, Virer(c) PROVE virages[j] = 0
    BY <1>0, <2>1 DEF Virer
  <2>2. ASSUME NEW c \in Joueurs, WriteDocuments(c) \/ Servir(c) PROVE virages' = virages
    <3>1. CASE compterLaBatailleDeFete(c)
      BY <3>1, Zenon DEF compterLaBatailleDeFete
    <3> QED BY <2>2, <3>1 DEF Servir, WriteDocuments, Retenir, retenirParametres,
                 parametresDe, Rassembler, crediterQuartCoop, crediterCartesDePoints,
                 FinDuCredit, publierHistoriqueDeBataille, Publier
  <2>3. CASE UNCHANGED vars
    BY <2>3 DEF vars
  <2> QED BY <2>1, <2>2, <2>3 DEF Next
<1>d. Du(x, j)
  BY <1>v DEF ServisInv
<1>1. ASSUME NEW c \in Joueurs, Virer(c) PROVE Du(x, j)'
  BY <1>1, <1>d, ServisAutre, ServisIntacts DEF Virer, credit, publie
<1>2. ASSUME NEW c \in Joueurs, WriteDocuments(c) PROVE Du(x, j)'
  <2>1. UNCHANGED <<genre, historique, credites, faits>>
    BY <1>2 DEF WriteDocuments, credit, publie
  <2>2. CASE x # c
    BY <1>2, <1>d, <2>1, <2>2, PasEcrire, ServisAutre, ServisIntacts DEF Autres
  <2>3. CASE x = c
    <3>1. appels'[c].uids = Presents /\ j \in Presents
      <4>1. PICK e, h : Poursuivre(c, [Repos EXCEPT !.uids = Presents, !.etape = e, !.entete = h])
        BY <1>2 DEF WriteDocuments
      <4>2. j \in Presents
        BY <1>v DEF Presents
      <4> QED BY <1>0, <4>1, <4>2 DEF Poursuivre, Repos
    <3>2. faits[c] > 1 => Du(c, j) /\ Servi(j) /\ (genre = "coop" => j \in credites)
      BY <1>d, <2>3 DEF Du, Credite, Raconte
    <3>3. appels'[c].etape \in {"retenir", "parametres"}
      BY <1>2, PasEcrire
    <3> QED BY <2>1, <2>3, <3>1, <3>2, <3>3, ServisIntacts DEF Du, Credite, Raconte, A
  <2> QED BY <2>2, <2>3
<1>3. ASSUME NEW c \in Joueurs, Retenir(c) \/ retenirParametres(c) \/ parametresDe(c)
      PROVE  Du(x, j)'
  <2>1. /\ ~A(c, "repos") /\ appels'[c].etape \in {"parametres", "rassembler"}
        /\ appels'[c].uids = appels[c].uids
        /\ Autres(c)
        /\ UNCHANGED <<genre, historique, credites, faits>>
    <3>1. CASE Retenir(c)
      <4>1. UNCHANGED <<genre, historique, credites, faits>>
        BY <3>1 DEF Retenir, credit, publie
      <4>2. Poursuivre(c, [appels[c] EXCEPT !.etape = "parametres"])
        BY <3>1 DEF Retenir
      <4>3. appels'[c].uids = appels[c].uids
        BY <1>u, <4>2 DEF Poursuivre, Appel
      <4> QED BY <3>1, <4>1, <4>3, PasRetenir DEF A
    <3>2. CASE retenirParametres(c)
      <4>1. UNCHANGED <<genre, historique, credites, faits>>
        BY <3>2 DEF retenirParametres, credit, publie
      <4>2. Poursuivre(c, [appels[c] EXCEPT !.etape = "rassembler"])
        BY <3>2 DEF retenirParametres
      <4>3. appels'[c].uids = appels[c].uids
        BY <1>u, <4>2 DEF Poursuivre, Appel
      <4> QED BY <3>2, <4>1, <4>3, PasParametres DEF A
    <3>3. CASE parametresDe(c)
      <4>1. UNCHANGED <<genre, historique, credites, faits>>
        BY <3>3 DEF parametresDe, credit, publie
      <4>2. PICK h : Poursuivre(c, [appels[c] EXCEPT !.etape = "rassembler", !.entete = h])
        BY <3>3 DEF parametresDe
      <4>3. appels'[c].uids = appels[c].uids
        BY <1>u, <4>2 DEF Poursuivre, Appel
      <4> QED BY <3>3, <4>1, <4>3, PasParametres DEF A
    <3> QED BY <1>3, <3>1, <3>2, <3>3
  <2>2. CASE x # c
    BY <1>d, <2>1, <2>2, ServisAutre, ServisIntacts DEF Autres
  <2>3. CASE x = c
    BY <1>d, <2>1, <2>3, ServisIntacts DEF Du, Credite, Raconte, A
  <2> QED BY <2>2, <2>3
<1>4. ASSUME NEW c \in Joueurs, Rassembler(c) PROVE Du(x, j)'
  <2>1. UNCHANGED <<genre, historique, credites, faits>> /\ A(c, "rassembler") /\ Autres(c)
    BY <1>4, PasRassembler DEF Rassembler, credit, publie
  <2>2. CASE x # c
    BY <1>d, <2>1, <2>2, ServisAutre, ServisIntacts DEF Autres
  <2>3. CASE x = c
    <3>1. verdictCoop(appels[c].entete) <=> genre = "coop"
      BY <1>0, <2>1, Entier DEF EnteteInv
    <3>2. FinDePartie(c) => rapports[j] # {}
      BY <2>1 DEF ReportsAreMerged, A
    <3>3. /\ appels'[c].uids = appels[c].uids
          /\ ~FinDePartie(c) => appels'[c].etape = "publier"
          /\ FinDePartie(c) /\ genre = "coop" =>
               appels'[c].etape = "crediter" /\ j \in appels'[c].reste
          /\ FinDePartie(c) /\ genre # "coop" =>
               appels'[c].etape = "historique" /\ appels'[c].reste = appels[c].uids
      <4> DEFINE coop == verdictCoop(appels[c].entete)
                 carte == resultatsIndividuels(coop)
      <4>1. PICK p, s, d, e, S :
              /\ Poursuivre(c, [appels[c] EXCEPT !.personnel = p, !.status = s, !.entete = d,
                                                 !.etape = e, !.reste = S])
              /\ e = IF ~FinDePartie(c) THEN "publier"
                     ELSE IF coop THEN "crediter" ELSE "historique"
              /\ S = IF ~FinDePartie(c) THEN {}
                     ELSE IF coop THEN {i \in Joueurs : carte[i] # {}} ELSE appels[c].uids
        BY <1>4, Zenon DEF Rassembler
      <4>2. /\ appels'[c].uids = appels[c].uids /\ appels'[c].etape = e /\ appels'[c].reste = S
        BY <1>0, <2>3, <4>1 DEF Poursuivre, Appel
      <4>3. FinDePartie(c) => carte[j] # {}
        <5> HIDE DEF coop
        <5> QED BY <3>2 DEF resultatsIndividuels
      <4> HIDE DEF carte
      <4> QED BY <3>1, <4>1, <4>2, <4>3
    <3> QED BY <1>d, <2>1, <2>3, <3>3, ServisIntacts DEF Du, Credite, Raconte, A, FinDePartie
  <2> QED BY <2>2, <2>3
<1>5. ASSUME NEW c \in Joueurs, NEW i \in Joueurs, crediterQuartCoop(c, i) PROVE Du(x, j)'
  <2>1. /\ UNCHANGED <<genre, historique, faits>> /\ Autres(c) /\ A(c, "crediter")
        /\ credites \subseteq credites'
    BY <1>5, PasFin DEF crediterQuartCoop, publie
  <2>2. CASE x # c
    BY <1>d, <2>1, <2>2, ServisAutre, ServisIntacts DEF Autres
  <2>3. CASE x = c
    <3>1. /\ appels'[c].uids = appels[c].uids
          /\ appels'[c].etape \in {"crediter", "carte"}
          /\ appels'[c].reste = appels[c].reste \ {i}
      <4>1. CASE i \in Presents \ credites
        <5>1. Poursuivre(c, [appels[c] EXCEPT !.reste = @ \ {i}, !.paye = {i}, !.etape = "carte"])
          BY <1>5, <4>1 DEF crediterQuartCoop
        <5> QED BY <1>0, <2>3, <5>1 DEF Poursuivre, Appel
      <4>2. CASE i \notin Presents \ credites
        <5>1. Poursuivre(c, [appels[c] EXCEPT !.reste = @ \ {i}]) /\ A(c, "crediter")
          BY <1>5, <4>2 DEF crediterQuartCoop
        <5> QED BY <1>0, <2>3, <5>1 DEF Poursuivre, Appel, A
      <4> QED BY <4>1, <4>2
    <3>2. i = j => j \in credites'
      <4>1. j \in Presents
        BY <1>v DEF Presents
      <4> QED BY <1>5, <4>1 DEF crediterQuartCoop
    <3> QED BY <1>d, <2>1, <2>3, <3>1, <3>2, ServisIntacts DEF Du, Credite, Raconte, A
  <2> QED BY <2>2, <2>3
<1>6. ASSUME NEW c \in Joueurs, NEW i \in Joueurs, crediterCartesDePoints(c, i) PROVE Du(x, j)'
  <2>1. UNCHANGED <<genre, historique, credites, faits>> /\ Autres(c) /\ A(c, "carte")
    BY <1>6, PasFin DEF crediterCartesDePoints, publie
  <2>2. CASE x # c
    BY <1>d, <2>1, <2>2, ServisAutre, ServisIntacts DEF Autres
  <2>3. CASE x = c
    <3>1. /\ appels'[c].uids = appels[c].uids
          /\ appels'[c].etape = "crediter"
          /\ appels'[c].reste = appels[c].reste
      BY <1>0, <1>6, <2>3 DEF crediterCartesDePoints, Poursuivre, Appel
    <3> QED BY <1>d, <2>1, <2>3, <3>1, ServisIntacts DEF Du, Credite, Raconte, A
  <2> QED BY <2>2, <2>3
<1>7. ASSUME NEW c \in Joueurs, FinDuCredit(c) PROVE Du(x, j)'
  <2>1. UNCHANGED <<genre, historique, credites, faits>> /\ Autres(c) /\ A(c, "crediter")
    BY <1>7, PasFin DEF FinDuCredit, credit, publie
  <2>2. CASE x # c
    BY <1>d, <2>1, <2>2, ServisAutre, ServisIntacts DEF Autres
  <2>3. CASE x = c
    <3>1. /\ appels'[c].uids = appels[c].uids
          /\ appels'[c].etape = "historique"
          /\ appels'[c].reste = appels[c].uids
          /\ appels[c].reste = {}
      BY <1>0, <1>7, <2>3 DEF FinDuCredit, Poursuivre, Appel
    <3> QED BY <1>d, <2>1, <2>3, <3>1, ServisIntacts DEF Du, Credite, Raconte, A
  <2> QED BY <2>2, <2>3
<1>8. ASSUME NEW c \in Joueurs, NEW i \in Joueurs, publierHistoriqueDeBataille(c, i)
      PROVE  Du(x, j)'
  <2>1. UNCHANGED <<genre, credites, faits>> /\ Autres(c) /\ A(c, "historique")
    BY <1>8, PasFin DEF publierHistoriqueDeBataille, credit
  <2>2. historique' = [historique EXCEPT ![i] = documentDeBataille(c)]
    BY <1>8 DEF publierHistoriqueDeBataille
  <2>3. /\ documentDeBataille(c).publie
        /\ genre # "coop" =>
             \A k \in Joueurs : "commun" \in documentDeBataille(c).personnel[k]
    <3>1. FinDePartie(c) /\ appels[c].entete = EnteteFinal
      BY <2>1 DEF EnteteInv, A
    <3>2. Entieres(appels[c].personnel)
      BY <2>1, <3>1 DEF VerdictInv, A
    <3>3. verdictCoop(appels[c].entete) => genre = "coop"
      BY <1>0, <3>1, Entier
    <3> QED BY <3>2, <3>3 DEF documentDeBataille, Entieres
  <2>4. historique \in [Joueurs -> Documents]
    BY DEF TypeOK
  <2>5. (Servi(j) => Servi(j)') /\ (i = j => Servi(j)')
    <3>1. CASE i = j
      <4>1. historique'[j] = documentDeBataille(c)
        BY <2>2, <2>4, <3>1
      <4> QED BY <2>1, <2>3, <4>1 DEF Servi
    <3>2. CASE i # j
      <4>1. historique'[j] = historique[j]
        BY <2>2, <2>4, <3>2
      <4> QED BY <2>1, <3>2, <4>1 DEF Servi
    <3> QED BY <3>1, <3>2
  <2>6. CASE x # c
    BY <1>d, <2>1, <2>5, <2>6, ServisAutre DEF Autres
  <2>7. CASE x = c
    <3>1. /\ appels'[c].uids = appels[c].uids
          /\ appels'[c].etape = "historique"
          /\ appels'[c].reste = appels[c].reste \ {i}
      BY <1>0, <1>8, <2>7 DEF publierHistoriqueDeBataille, Poursuivre, Appel, A
    <3> QED BY <1>d, <2>1, <2>5, <2>7, <3>1 DEF Du, Credite, Raconte, A
  <2> QED BY <2>6, <2>7
<1>9. ASSUME NEW c \in Joueurs, compterLaBatailleDeFete(c) PROVE Du(x, j)'
  <2>1. /\ UNCHANGED <<genre, historique, credites, faits>> /\ A(c, "historique")
        /\ appels[c].reste = {}
        /\ Poursuivre(c, [appels[c] EXCEPT !.etape = "publier"])
    BY <1>9, Zenon DEF compterLaBatailleDeFete, credit
  <2>2. CASE x # c
    BY <1>9, <1>d, <2>1, <2>2, PasFin, ServisAutre, ServisIntacts DEF Autres
  <2>3. CASE x = c
    <3>1. appels'[c].uids = appels[c].uids /\ appels'[c].etape = "publier"
      BY <1>0, <2>1, <2>3 DEF Poursuivre, Appel
    <3> QED BY <1>d, <2>1, <2>3, <3>1, ServisIntacts DEF Du, Credite, Raconte, A
  <2> QED BY <2>2, <2>3
<1>10. ASSUME NEW c \in Joueurs, Publier(c) PROVE Du(x, j)'
  <2>1. UNCHANGED <<genre, historique, credites>>
    BY <1>10 DEF Publier, credit, publie
  <2>2. CASE x # c
    BY <1>10, <1>d, <2>1, <2>2, PasPublier, ServisAutre, ServisIntacts DEF Autres
  <2>3. CASE x = c
    <3>1. A(c, "publier") /\ A(c, "repos")' /\ faits'[c] = faits[c] + 1
      BY <1>10, PasPublier
    <3>2. faits'[c] > 1 => FinDePartie(c)
      BY <1>0, <3>1 DEF FinDePartie
    <3> QED BY <1>d, <2>1, <2>3, <3>1, <3>2, ServisIntacts DEF Du, Credite, Raconte, A
  <2> QED BY <2>2, <2>3
<1>11. CASE UNCHANGED vars
  BY <1>11, <1>d, ServisAutre, ServisIntacts DEF vars, credit, publie
<1> QED
  BY <1>1, <1>2, <1>3, <1>4, <1>5, <1>6, <1>7, <1>8, <1>9, <1>10, <1>11 DEF Next, Servir

(* Once every console has reported, whoever never left the room has his      *)
(* shift on his cards and the battle in his history, whoever else left and   *)
(* whenever.                                                                 *)
THEOREM PresentStayServed == Spec => []PresentAreServed
<1>1. TypeOK /\ CreditInv /\ ServisInv => PresentAreServed
  <2> SUFFICES ASSUME TypeOK, CreditInv, ServisInv, Fini,
                      NEW j \in Joueurs, virages[j] = 0
               PROVE  Servi(j) /\ (genre = "coop" => cartes[j] = 1)
    BY DEF PresentAreServed, Servi
  <2>1. Du(j, j) /\ faits[j] > 1
    BY DEF ServisInv, Fini
  <2>2. ~EnCours(j)
    BY DEF EnCours, CreditInv, Fini, A
  <2> QED BY <2>1, <2>2 DEF Du, Credite, Raconte, CreditInv
<1> QED BY <1>1, TypageInit, TypagePas, RapportsInit, RapportsPas, CreditInit, CreditPas,
           EnteteInit, EntetePas, VerdictInit, VerdictPas, ServisInit, ServisPas, PTL DEF Spec
-----------------------------------------------------------------------------
(* The mark and the payment.                                                 *)

(* Who is marked is paid, or the handler that marked him is about to do it.  *)
THEOREM MarksAreOwed == Spec => []MarkedAreOwed
<1>1. CreditInv /\ TypeOK => MarkedAreOwed
  BY DEF CreditInv, EnCours, MarkedAreOwed, TypeOK
<1> QED BY <1>1, TypageInit, TypagePas, CreditInit, CreditPas, PTL DEF Spec

-----------------------------------------------------------------------------
(* The festival battles.                                                     *)

LEMMA EnteteSansFete ==
  ASSUME genre \in TousLesGenres PROVE EnteteFinal["fest_id"] \in {Absent, ""}
<1> USE DEF TousLesGenres, EnteteEntier, EnteteFinal, Completer, Cadre, SansEntete, Cles,
            Annonce, Absent, verdictCoop, Inventaire, champsDuVerdict, champsDuVerdictCoop
<1>1. CASE genre = "versus"
  BY <1>1
<1>2. CASE genre = "fete"
  BY <1>2
<1>3. CASE genre = "coop"
  BY <1>3
<1> QED BY <1>1, <1>2, <1>3

LEMMA ComptePas ==
  ASSUME TypeOK, EnteteInv, NoBattleIsCounted, [Next]_vars PROVE NoBattleIsCounted'
<1>1. ASSUME NEW c \in Joueurs, compterLaBatailleDeFete(c) PROVE NoBattleIsCounted'
  <2>1. appels[c].entete = EnteteFinal
    BY <1>1, Zenon DEF compterLaBatailleDeFete, EnteteInv, A
  <2>2. appels[c].entete["fest_id"] \in {Absent, ""}
    BY <2>1, EnteteSansFete DEF TypeOK
  <2>3. comptees' = comptees
    BY <1>1, <2>2, Zenon DEF compterLaBatailleDeFete
  <2> QED BY <2>3 DEF NoBattleIsCounted
<1>2. CASE comptees' = comptees
  BY <1>2 DEF NoBattleIsCounted
<1> QED
  BY <1>1, <1>2 DEF Next, Servir, vars, publie, Virer, WriteDocuments, Retenir,
     retenirParametres, parametresDe, Rassembler, crediterQuartCoop, crediterCartesDePoints,
     FinDuCredit, publierHistoriqueDeBataille, Publier

(* No battle, of a festival or not, ever reaches the count of the midterm.   *)
THEOREM FestBattlesAreLost == Spec => []NoBattleIsCounted
<1>1. Init => NoBattleIsCounted
  BY DEF Init, NoBattleIsCounted
<1> QED BY <1>1, TypageInit, TypagePas, EnteteInit, EntetePas, ComptePas, PTL DEF Spec

-----------------------------------------------------------------------------
(* What every console said, in the verdict that stays.                       *)

LEMMA CumulInit == Init => CumulInv /\ AnsweredAreGathered
BY DEF Init, Repos, CumulInv, AnsweredAreGathered, Gathered

LEMMA CumulPas ==
  ASSUME TypeOK, ReportsAreMerged, VerdictInv, UnVerdictALaFois, CumulInv, AnsweredAreGathered,
         [Next]_vars
  PROVE  CumulInv' /\ AnsweredAreGathered'
<1> USE DEF Gathered
<1>0. \A c \in Joueurs : faits[c] \in Nat
  BY DEF TypeOK
<1>1. ASSUME NEW c \in Joueurs, Virer(c) PROVE CumulInv' /\ AnsweredAreGathered'
  BY <1>1 DEF Virer, CumulInv, AnsweredAreGathered, FinDePartie
<1>2. ASSUME NEW c \in Joueurs, WriteDocuments(c) PROVE CumulInv' /\ AnsweredAreGathered'
  BY <1>2, PasEcrire DEF CumulInv, AnsweredAreGathered, FinDePartie, Autres
<1>3. ASSUME NEW c \in Joueurs, Retenir(c) PROVE CumulInv' /\ AnsweredAreGathered'
  BY <1>3, PasRetenir DEF CumulInv, AnsweredAreGathered, FinDePartie, Autres
<1>4. ASSUME NEW c \in Joueurs, retenirParametres(c) \/ parametresDe(c)
      PROVE  CumulInv' /\ AnsweredAreGathered'
  BY <1>4, PasParametres DEF CumulInv, AnsweredAreGathered, FinDePartie, Autres
<1>5. ASSUME NEW c \in Joueurs, Rassembler(c) PROVE CumulInv' /\ AnsweredAreGathered'
  <2>1. AnsweredAreGathered'
    BY <1>5, PasRassembler DEF AnsweredAreGathered
  <2>2. ASSUME FinDePartie(c), NEW j \in Joueurs, j = c \/ faits[j] > 1
        PROVE  "propre" \in appels'[c].personnel[j]
    <3>1. "propre" \in rapports[j]
      BY <1>5, <2>2, PasRassembler DEF ReportsAreMerged, A
    <3>2. appels'[c].personnel = resultatsIndividuels(verdictCoop(appels[c].entete))
      BY <1>5, PasRassembler
    <3> QED BY <3>1, <3>2 DEF resultatsIndividuels
  <2>3. CumulInv'
    BY <1>5, <2>2, PasRassembler DEF CumulInv, FinDePartie, Autres
  <2> QED BY <2>1, <2>3
<1>6. ASSUME NEW c \in Joueurs,
             \/ \E j \in Joueurs : \/ crediterQuartCoop(c, j) \/ crediterCartesDePoints(c, j)
                                   \/ publierHistoriqueDeBataille(c, j)
             \/ FinDuCredit(c) \/ compterLaBatailleDeFete(c)
      PROVE  CumulInv' /\ AnsweredAreGathered'
  <2>1. AnsweredAreGathered'
    BY <1>6, PasFin DEF AnsweredAreGathered
  <2>2. CumulInv'
    BY <1>6, PasFin DEF CumulInv, FinDePartie, Autres, Fins
  <2> QED BY <2>1, <2>2
<1>7. ASSUME NEW c \in Joueurs, Publier(c) PROVE CumulInv' /\ AnsweredAreGathered'
  <2>1. CASE FinDePartie(c)
    <3>1. \A j \in Joueurs : j = c \/ faits[j] > 1 => "propre" \in verdict'.personnel[j]
      BY <1>7, <2>1, PasPublier DEF CumulInv, VerdictDe, A
    <3>2. AnsweredAreGathered'
      BY <1>7, <3>1, PasPublier DEF AnsweredAreGathered, Autres
    <3>3. \A d \in Joueurs : FinDePartie(d) /\ appels[d].etape \in Gathered => d = c
      BY <1>7, <2>1, PasPublier DEF UnVerdictALaFois, A
    <3>4. CumulInv'
      BY <1>7, <3>3, PasPublier DEF CumulInv, FinDePartie, Autres, A
    <3> QED BY <3>2, <3>4
  <2>2. CASE ~FinDePartie(c)
    <3>1. \A j \in Joueurs : ~(faits[j] > 1) /\ ~(faits'[j] > 1)
      BY <1>0, <1>7, <2>2, PasPublier DEF VerdictInv, FinDePartie, Autres
    <3>2. AnsweredAreGathered'
      BY <3>1 DEF AnsweredAreGathered
    <3>3. CumulInv'
      BY <1>0, <1>7, <2>2, <3>1, PasPublier DEF CumulInv, FinDePartie, Autres, A
    <3> QED BY <3>2, <3>3
  <2> QED BY <2>1, <2>2
<1>8. CASE UNCHANGED vars
  BY <1>8 DEF vars, CumulInv, AnsweredAreGathered, FinDePartie
<1> QED BY <1>1, <1>2, <1>3, <1>4, <1>5, <1>6, <1>7, <1>8 DEF Next, Servir

LEMMA CumulToujours == Spec /\ []UnVerdictALaFois => []AnsweredAreGathered
BY TypageInit, TypagePas, RapportsInit, RapportsPas, EnteteInit, EntetePas,
   VerdictInit, VerdictPas, CumulInit, CumulPas, PTL DEF Spec

(* What the comment of gamesync.go announces holds as soon as two handlers   *)
(* do not cross between the gathering of the reports and the storage of the  *)
(* verdict: of all that interleaves, nothing else is in its way.             *)
THEOREM UncrossedVerdictAggregates == Spec /\ []UnVerdictALaFois => []VerdictAggregates
<1>1. AnsweredAreGathered => VerdictAggregates
  BY DEF AnsweredAreGathered, VerdictAggregates, Fini
<1> QED BY <1>1, CumulToujours, PTL
==============================================================================
