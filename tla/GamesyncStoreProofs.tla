------------------------- MODULE GamesyncStoreProofs -------------------------
(***************************************************************************)
(* What GamesyncStore promises, for any consoles, documents, collections   *)
(* and channel capacity.  Types hold whatever happens; that no change goes *)
(* unannounced, and that nothing stays of who left, is proved for consoles *)
(* that leave once their writes were answered (Patience).                  *)
(***************************************************************************)
EXTENDS GamesyncStore, TLAPS

-----------------------------------------------------------------------------
(* Types.                                                                   *)

LEMMA Nombres ==
  /\ MaxEcrits \in Nat /\ Capacite \in Nat /\ Repets \in Nat /\ MaxVenues \in Nat
  /\ Capacite > 0 /\ Invente \in 1..Invente /\ 0 \in Versions
  BY BornesAssumption DEF Invente, Versions

LEMMA InitType == Init => TypeOK
  <1>1. Calme \in Appels /\ Silence \in Reponses /\ Repos \in Passes
    BY DocumentsAssumption DEF Calme, Silence, Repos, Appels, Reponses, Passes, Lot
  <1>2. Silence.etape = "rien" /\ Muet \in [etat : Versions, repets : 0..Repets + 1]
    BY Nombres DEF Silence, Muet
  <1>3. 0 \in 0..Invente /\ 0 \in 0..MaxVenues /\ 0 \in 0..Capacite
    BY Nombres DEF Invente
  <1> QED
    BY <1>1, <1>2, <1>3, Nombres DEF Init, TypeOK, Rien

(* The documents made up and those that were read.                          *)
LEMMA LotType ==
  ASSUME TypeOK, NEW A \in SUBSET Documents, NEW B \in SUBSET Documents,
         \A d \in B : store[d] # 0
  PROVE  {<<d, Invente>> : d \in A} \cup {<<d, store[d]>> : d \in B} \in Lot
  <1>1. \A d \in B : store[d] \in 1..Invente
    BY Nombres DEF TypeOK, Versions, Invente
  <1>2. Invente \in 1..Invente
    BY Nombres
  <1> QED
    BY <1>1, <1>2 DEF Lot

LEMMA EnvoiType ==
  ASSUME NEW lot \in Lot, NEW e \in lot
  PROVE  lot \ {e} \in Lot /\ e[1] \in Documents /\ e[2] \in 0..Invente
  <1>1. e \in Documents \X (1..Invente)
    BY DEF Lot
  <1>2. 1..Invente \subseteq 0..Invente
    BY Nombres DEF Invente
  <1> QED
    BY <1>1, <1>2 DEF Lot

(* A step that leaves the other variables as they are.                      *)
LEMMA ReponseType ==
  ASSUME NEW c \in Consoles, NEW r \in Reponses, reponse \in [Consoles -> Reponses],
         \A x \in Consoles : reponse[x].etape # "rien" => reponse[x].coll \in Collections,
         r.etape # "rien" => r.coll \in Collections,
         reponse' = [reponse EXCEPT ![c] = r]
  PROVE  /\ reponse' \in [Consoles -> Reponses]
         /\ \A x \in Consoles : reponse'[x].etape # "rien" => reponse'[x].coll \in Collections
  OBVIOUS

LEMMA OublierType == ASSUME TypeOK, NEW c \in Consoles, oublierSession(c) PROVE TypeOK'
  <1>1. /\ sess' \subseteq Consoles
        /\ store' \in [Documents -> Versions]
        /\ flux' \in [Consoles -> {"ferme", "ouvert", "soupape"}]
    BY Nombres DEF oublierSession, TypeOK
  <1>2. /\ colls' \in [Consoles -> SUBSET Collections]
        /\ listees' \in [Consoles -> SUBSET Collections]
    BY DEF oublierSession, TypeOK
  <1>3. Silence \in Reponses /\ Silence.etape = "rien" /\ Repos \in Passes
    BY DEF Silence, Repos, Reponses, Passes, Lot
  <1>4. reponse' = [reponse EXCEPT ![c] = Silence] /\ poussee' = [poussee EXCEPT ![c] = Repos]
    BY DEF oublierSession
  <1>5. poussee' \in [Consoles -> Passes]
    BY <1>3, <1>4 DEF TypeOK
  <1>6. /\ reponse' \in [Consoles -> Reponses]
        /\ \A x \in Consoles : reponse'[x].etape # "rien" => reponse'[x].coll \in Collections
    BY <1>3, <1>4, ReponseType DEF TypeOK
  <1>7. UNCHANGED <<ecrits, venues, ecriture, reveil, verdict, copie, vu, promis>>
    BY DEF oublierSession, envoye
  <1>8. watched' \in [Consoles -> BOOLEAN] /\ enVain' \in [Consoles -> SUBSET Collections]
    BY DEF oublierSession, Detourne, TypeOK
  <1> QED
    BY <1>1, <1>2, <1>5, <1>6, <1>7, <1>8 DEF TypeOK

LEMMA RangerType ==
  ASSUME TypeOK, NEW c \in Consoles, NEW d \in Documents, NEW v \in Versions, Ranger(c, d, v)
  PROVE  TypeOK'
  <1>1. store' \in [Documents -> Versions] /\ ecrits' \in Versions
    BY DEF Ranger, TypeOK
  <1>2. ecriture' \in [Consoles -> Appels]
    <2>1. ecriture[c] \in Appels
      BY DEF TypeOK
    <2>2. [ecriture[c] EXCEPT !.etape = "reveiller"] \in Appels
      BY <2>1 DEF Appels
    <2>3. ecriture' = [ecriture EXCEPT ![c] = [ecriture[c] EXCEPT !.etape = "reveiller"]]
      BY DEF Ranger
    <2> QED
      BY <2>2, <2>3 DEF TypeOK
  <1>3. promis' \in [Consoles -> Versions]
    BY DEF Ranger, TypeOK
  <1>4. UNCHANGED <<sess, venues, flux, reveil, colls, listees, reponse, poussee, verdict,
                    copie, vu, watched, enVain>>
    BY DEF Ranger, suivi
  <1> QED
    BY <1>1, <1>2, <1>3, <1>4 DEF TypeOK

LEMMA EcrireType == ASSUME TypeOK, NEW c \in Consoles, Ecrire(c) PROVE TypeOK'
  <1>1. Nouveau \subseteq Versions /\ 0 \in Versions
    BY Nombres DEF TypeOK, Nouveau, Versions
  <1>2. CASE applyWritesToStore(c)
    <2>1. PICK v \in {0} \cup Nouveau : Ranger(c, ecriture[c].doc, v)
      BY <1>2 DEF applyWritesToStore
    <2>2. ecriture[c].doc \in Documents
      BY DEF TypeOK, Appels
    <2> QED
      BY <1>1, <2>1, <2>2, RangerType
  <1>3. CASE arbitrer(c)
    <2>1. PICK v \in {store[Verdict]} \cup Nouveau : Ranger(c, Verdict, v)
      BY <1>3 DEF arbitrer
    <2>2. Verdict \in Documents /\ store[Verdict] \in Versions
      BY DocumentsAssumption DEF TypeOK
    <2> QED
      BY <1>1, <2>1, <2>2, RangerType
  <1>4. CASE reveillerLaPartie(c)
    <2>1. Calme \in Appels
      BY DocumentsAssumption DEF Calme, Appels
    <2>2. ecriture' \in [Consoles -> Appels]
      BY <1>4, <2>1 DEF reveillerLaPartie, TypeOK
    <2>3. ASSUME NEW n \in 0..Capacite PROVE Pousse(n) \in 0..Capacite
      BY Nombres DEF Pousse
    <2>4. reveil' \in [Consoles -> 0..Capacite]
      BY <1>4, <2>3 DEF reveillerLaPartie, TypeOK
    <2>5. UNCHANGED <<sess, store, ecrits, venues, flux, colls, listees, reponse, poussee,
                      verdict, copie, vu, promis, watched, enVain>>
      BY <1>4 DEF reveillerLaPartie, envoye, suivi
    <2> QED
      BY <2>2, <2>4, <2>5 DEF TypeOK
  <1> QED
    BY <1>2, <1>3, <1>4 DEF Ecrire

LEMMA RecevoirType == ASSUME TypeOK, NEW c \in Consoles, Recevoir(c) PROVE TypeOK'
  <1>1. reponse[c] \in Reponses
    BY DEF TypeOK
  <1>2. CASE membresDeCollection(c)
    <2> DEFINE k == reponse[c].coll
               A == {d \in Dans(k) : Synthese[d] # "jamais"}
               B == {d \in Dans(k) : Synthese[d] = "jamais" /\ store[d] # 0}
               lot == {<<d, Invente>> : d \in A} \cup {<<d, store[d]>> : d \in B}
               r == [reponse[c] EXCEPT !.etape = "envoyer", !.envois = lot]
    <2>1. lot \in Lot
      <3>1. A \in SUBSET Documents /\ B \in SUBSET Documents /\ \A d \in B : store[d] # 0
        BY DEF Dans
      <3> HIDE DEF A, B
      <3> QED
        BY <3>1, LotType
    <2>2. /\ reponse' = [reponse EXCEPT ![c].etape = "envoyer", ![c].envois = lot]
          /\ reponse[c].etape = "lire"
      BY <1>2 DEF membresDeCollection
    <2> HIDE DEF lot
    <2>3. /\ r \in Reponses /\ r.coll = reponse[c].coll
      BY <1>1, <2>1 DEF Reponses
    <2>4. reponse' = [reponse EXCEPT ![c] = r]
      BY <2>2, <1>1 DEF TypeOK
    <2> HIDE DEF r
    <2>5. /\ reponse' \in [Consoles -> Reponses]
          /\ \A x \in Consoles : reponse'[x].etape # "rien" => reponse'[x].coll \in Collections
      BY <2>2, <2>3, <2>4, ReponseType DEF TypeOK
    <2>6. vu' \in [Consoles -> [Documents -> Versions]]
      BY <1>2 DEF membresDeCollection, TypeOK
    <2>7. UNCHANGED <<sess, store, ecrits, venues, ecriture, flux, reveil, colls, listees,
                      poussee, verdict, copie, promis, watched, enVain>>
      BY <1>2 DEF membresDeCollection, magasin, suivi
    <2> QED
      BY <2>5, <2>6, <2>7 DEF TypeOK
  <1>3. CASE EnvoyerMembre(c)
    <2>1. PICK e \in reponse[c].envois :
            /\ reponse' = [reponse EXCEPT ![c].envois = @ \ {e}]
            /\ copie' = [copie EXCEPT ![c][e[1]] = e[2]]
      BY <1>3 DEF EnvoyerMembre
    <2> DEFINE r == [reponse[c] EXCEPT !.envois = @ \ {e}]
    <2>2. reponse[c].envois \in Lot
      BY <1>1 DEF Reponses
    <2>3. /\ e[1] \in Documents /\ e[2] \in 0..Invente
          /\ reponse[c].envois \ {e} \in Lot
      BY <2>2, EnvoiType
    <2>4. r \in Reponses /\ r.coll = reponse[c].coll /\ r.etape = reponse[c].etape
      BY <1>1, <2>3 DEF Reponses
    <2>5. reponse' = [reponse EXCEPT ![c] = r]
      BY <2>1
    <2> HIDE DEF r
    <2>6. /\ reponse' \in [Consoles -> Reponses]
          /\ \A x \in Consoles : reponse'[x].etape # "rien" => reponse'[x].coll \in Collections
      BY <2>4, <2>5, ReponseType DEF TypeOK
    <2>7. copie' \in [Consoles -> [Documents -> 0..Invente]]
      BY <2>1, <2>3 DEF TypeOK
    <2>8. UNCHANGED <<sess, store, ecrits, venues, ecriture, flux, reveil, colls, listees,
                      poussee, verdict, vu, promis, watched, enVain>>
      BY <1>3 DEF EnvoyerMembre, magasin, suivi
    <2> QED
      BY <2>6, <2>7, <2>8 DEF TypeOK
  <1>4. CASE Lister(c) /\ flux[c] = "soupape"
    BY <1>4, OublierType DEF Lister
  <1>5. CASE Lister(c) /\ flux[c] # "soupape"
    <2>1. /\ listees' = [listees EXCEPT ![c] = @ \cup {reponse[c].coll}]
          /\ reponse' = [reponse EXCEPT ![c] = Silence]
          /\ reponse[c].etape = "lister"
          /\ UNCHANGED <<sess, store, ecrits, venues, ecriture, flux, reveil, colls,
                         poussee, verdict, copie, vu, promis, watched, enVain>>
      BY <1>5 DEF Lister, magasin, envoye, suivi
    <2>2. Silence \in Reponses /\ Silence.etape = "rien"
      BY DEF Silence, Reponses, Lot
    <2>3. /\ reponse' \in [Consoles -> Reponses]
          /\ \A x \in Consoles : reponse'[x].etape # "rien" => reponse'[x].coll \in Collections
      BY <2>1, <2>2, ReponseType DEF TypeOK
    <2>4. reponse[c].coll \in Collections
      BY <2>1 DEF TypeOK
    <2>5. listees' \in [Consoles -> SUBSET Collections]
      BY <2>1, <2>4 DEF TypeOK
    <2> QED
      BY <2>1, <2>3, <2>5 DEF TypeOK
  <1>6. CASE Suivre(c)
    <2> DEFINE r == [reponse[c] EXCEPT !.etape = "lister"]
    <2>1. r \in Reponses /\ r.coll = reponse[c].coll
      BY <1>1 DEF Reponses
    <2>2. reponse' = [reponse EXCEPT ![c] = r] /\ reponse[c].etape = "envoyer"
      BY <1>6 DEF Suivre
    <2> HIDE DEF r
    <2>3. /\ reponse' \in [Consoles -> Reponses]
          /\ \A x \in Consoles : reponse'[x].etape # "rien" => reponse'[x].coll \in Collections
      BY <2>1, <2>2, ReponseType DEF TypeOK
    <2>4. watched' \in [Consoles -> BOOLEAN]
      BY <1>6 DEF Suivre, TypeOK
    <2>5. UNCHANGED <<sess, store, ecrits, venues, ecriture, flux, reveil, colls, listees,
                      poussee, verdict, copie, vu, promis, enVain>>
      BY <1>6 DEF Suivre, magasin, envoye
    <2> QED
      BY <2>3, <2>4, <2>5 DEF TypeOK
  <1> QED
    BY <1>2, <1>3, <1>4, <1>5, <1>6 DEF Recevoir

LEMMA CommencerType ==
  ASSUME TypeOK, NEW c \in Consoles, NEW n \in 0..Capacite, Commencer(c, n)
  PROVE  TypeOK'
  <1>1. reveil' \in [Consoles -> 0..Capacite]
    BY DEF Commencer, TypeOK
  <1> DEFINE p == [poussee[c] EXCEPT !.reste = IF watched[c] THEN colls[c] ELSE {}]
  <1>2. poussee[c] \in Passes /\ colls[c] \in SUBSET Collections
    BY DEF TypeOK
  <1>3. p \in Passes
    BY <1>2 DEF Passes
  <1>4. poussee' = [poussee EXCEPT ![c] = p]
    BY DEF Commencer
  <1> HIDE DEF p
  <1>5. poussee' \in [Consoles -> Passes]
    BY <1>3, <1>4 DEF TypeOK
  <1>6. UNCHANGED <<sess, store, ecrits, venues, ecriture, flux, colls, listees, reponse,
                    verdict, copie, vu, promis, watched>>
    BY DEF Commencer, magasin, envoye
  <1>7. enVain' \in [Consoles -> SUBSET Collections]
    BY DEF Commencer, TypeOK
  <1> QED
    BY <1>1, <1>5, <1>6, <1>7 DEF TypeOK

LEMMA TaireType ==
  ASSUME NEW r \in [etat : Versions, repets : 0..Repets + 1], NEW v \in Versions
  PROVE  verdictTaire(r, v) \in [etat : Versions, repets : 0..Repets + 1]
  BY Nombres DEF verdictTaire

LEMMA PousserType == ASSUME TypeOK, NEW c \in Consoles, Pousser(c) PROVE TypeOK'
  <1>1. poussee[c] \in Passes /\ reveil[c] \in 0..Capacite
    BY DEF TypeOK
  <1>2. CASE SurReveil(c)
    <2>1. reveil[c] - 1 \in 0..Capacite
      BY <1>1, <1>2, Nombres DEF SurReveil
    <2> QED
      BY <1>2, <2>1, CommencerType DEF SurReveil
  <1>3. CASE docsSousCollection(c)
    <2> DEFINE lus(k) == {d \in Dans(k) : Synthese[d] # "toujours" /\ store[d] # 0}
               v == verdictTaire(verdict[c], store[Verdict])
               dits(k) == IF v.repets > Repets THEN lus(k) \ {Verdict} ELSE lus(k)
               faits(k) == {d \in Dans(k) : Synthese[d] = "toujours"}
               lot(k) == {<<d, Invente>> : d \in faits(k)} \cup {<<d, store[d]>> : d \in dits(k)}
    <2>1. PICK k \in poussee[c].reste :
            /\ poussee' = [poussee EXCEPT ![c] = [reste |-> @.reste \ {k}, envois |-> lot(k)]]
            /\ verdict' = IF Verdict \in lus(k) THEN [verdict EXCEPT ![c] = v] ELSE verdict
            /\ vu' = [vu EXCEPT ![c] = [d \in Documents |-> IF d \in Dans(k) THEN store[d] ELSE @[d]]]
            /\ UNCHANGED <<magasin, flux, reveil, colls, listees, reponse, copie, promis, watched, enVain>>
      BY <1>3 DEF docsSousCollection, suivi
    <2>2. lot(k) \in Lot
      <3>1. /\ faits(k) \in SUBSET Documents /\ dits(k) \in SUBSET Documents
            /\ \A d \in dits(k) : store[d] # 0
        BY DEF Dans
      <3> HIDE DEF faits, dits
      <3> QED
        BY <3>1, LotType
    <2>3. v \in [etat : Versions, repets : 0..Repets + 1]
      BY TaireType, DocumentsAssumption DEF TypeOK
    <2> HIDE DEF lot, v, lus
    <2>4. [reste |-> poussee[c].reste \ {k}, envois |-> lot(k)] \in Passes
      BY <1>1, <2>2 DEF Passes
    <2>5. poussee' \in [Consoles -> Passes]
      BY <2>1, <2>4 DEF TypeOK
    <2>6. verdict' \in [Consoles -> [etat : Versions, repets : 0..Repets + 1]]
      BY <2>1, <2>3 DEF TypeOK
    <2>7. vu' \in [Consoles -> [Documents -> Versions]]
      BY <2>1 DEF TypeOK
    <2>8. UNCHANGED <<sess, store, ecrits, venues, ecriture, flux, reveil, colls, listees,
                      reponse, copie, promis, watched, enVain>>
      BY <2>1 DEF magasin, suivi
    <2> QED
      BY <2>5, <2>6, <2>7, <2>8 DEF TypeOK
  <1>4. CASE EnvoyerChangement(c)
    <2>1. PICK e \in poussee[c].envois :
            /\ poussee' = [poussee EXCEPT ![c].envois = @ \ {e}]
            /\ copie' = [copie EXCEPT ![c][e[1]] = e[2]]
      BY <1>4 DEF EnvoyerChangement
    <2> DEFINE p == [poussee[c] EXCEPT !.envois = @ \ {e}]
    <2>2. poussee[c].envois \in Lot
      BY <1>1 DEF Passes
    <2>3. /\ e[1] \in Documents /\ e[2] \in 0..Invente
          /\ poussee[c].envois \ {e} \in Lot
      BY <2>2, EnvoiType
    <2>4. p \in Passes
      BY <1>1, <2>3 DEF Passes
    <2>5. poussee' = [poussee EXCEPT ![c] = p]
      BY <2>1
    <2> HIDE DEF p
    <2>6. poussee' \in [Consoles -> Passes]
      BY <2>4, <2>5 DEF TypeOK
    <2>7. copie' \in [Consoles -> [Documents -> 0..Invente]]
      BY <2>1, <2>3 DEF TypeOK
    <2>8. UNCHANGED <<sess, store, ecrits, venues, ecriture, flux, reveil, colls, listees,
                      reponse, verdict, vu, promis, watched, enVain>>
      BY <1>4 DEF EnvoyerChangement, magasin, suivi
    <2> QED
      BY <2>6, <2>7, <2>8 DEF TypeOK
  <1> QED
    BY <1>2, <1>3, <1>4 DEF Pousser

(* The sessions, the call that begins, the watch and the valve.             *)
LEMMA AutreType ==
  ASSUME TypeOK, NEW c \in Consoles,
         \/ IssueToken(c) \/ KeepUserSession(c) \/ Soupape(c) \/ UpdateTargetDocument(c)
         \/ \E d \in Documents : WriteDocuments(c, d)
         \/ \E k \in Collections : UpdateTarget(c, k)
  PROVE  TypeOK'
  <1>1. CASE IssueToken(c)
    <2>1. venues' \in 0..MaxVenues
      BY <1>1, Nombres DEF IssueToken, TypeOK
    <2>2. sess' \subseteq Consoles
      BY <1>1 DEF IssueToken, TypeOK
    <2>3. UNCHANGED <<store, ecrits, ecriture, flux, reveil, colls, listees, reponse, poussee,
                      verdict, copie, vu, promis, watched, enVain>>
      BY <1>1 DEF IssueToken, envoye, suivi
    <2> QED
      BY <2>1, <2>2, <2>3 DEF TypeOK
  <1>2. CASE KeepUserSession(c)
    <2>1. Muet \in [etat : Versions, repets : 0..Repets + 1] /\ 0 \in 0..Capacite
          /\ Rien \in 0..Invente /\ 0 \in Versions
      BY Nombres DEF Muet, Rien, Invente
    <2>2. /\ flux' \in [Consoles -> {"ferme", "ouvert", "soupape"}]
          /\ reveil' \in [Consoles -> 0..Capacite]
          /\ promis' \in [Consoles -> Versions]
      BY <1>2, <2>1 DEF KeepUserSession, TypeOK
    <2>3. verdict' \in [Consoles -> [etat : Versions, repets : 0..Repets + 1]]
      BY <1>2, <2>1 DEF KeepUserSession, TypeOK
    <2>4. /\ copie' \in [Consoles -> [Documents -> 0..Invente]]
          /\ vu' \in [Consoles -> [Documents -> Versions]]
      BY <1>2, <2>1 DEF KeepUserSession, TypeOK
    <2>5. UNCHANGED <<sess, store, ecrits, venues, ecriture, colls, listees, reponse, poussee, watched, enVain>>
      BY <1>2 DEF KeepUserSession, magasin, suivi
    <2> QED
      BY <2>2, <2>3, <2>4, <2>5 DEF TypeOK
  <1>3. CASE Soupape(c)
    <2>1. flux' \in [Consoles -> {"ferme", "ouvert", "soupape"}]
      BY <1>3 DEF Soupape, TypeOK
    <2>2. UNCHANGED <<sess, store, ecrits, venues, ecriture, reveil, colls, listees, reponse,
                      poussee, verdict, copie, vu, promis, watched, enVain>>
      BY <1>3 DEF Soupape, magasin, envoye, suivi
    <2> QED
      BY <2>1, <2>2 DEF TypeOK
  <1>4. ASSUME NEW d \in Documents, WriteDocuments(c, d) PROVE TypeOK'
    <2> DEFINE a == [etape |-> IF d = Verdict THEN "arbitrer" ELSE "ranger", doc |-> d]
    <2>1. a \in Appels
      BY DEF Appels
    <2>2. ecriture' = [ecriture EXCEPT ![c] = a]
      BY <1>4 DEF WriteDocuments
    <2> HIDE DEF a
    <2>3. ecriture' \in [Consoles -> Appels]
      BY <2>1, <2>2 DEF TypeOK
    <2>4. UNCHANGED <<sess, store, ecrits, venues, flux, reveil, colls, listees, reponse,
                      poussee, verdict, copie, vu, promis, watched, enVain>>
      BY <1>4 DEF WriteDocuments, envoye, suivi
    <2> QED
      BY <2>3, <2>4 DEF TypeOK
  <1>5. ASSUME NEW k \in Collections, UpdateTarget(c, k) PROVE TypeOK'
    <2> DEFINE r == [etape |-> "lire", coll |-> k, envois |-> {}]
    <2>1. r \in Reponses /\ r.coll \in Collections
      BY DEF Reponses, Lot
    <2>2. reponse' = [reponse EXCEPT ![c] = r]
      BY <1>5 DEF UpdateTarget
    <2> HIDE DEF r
    <2>3. /\ reponse' \in [Consoles -> Reponses]
          /\ \A x \in Consoles : reponse'[x].etape # "rien" => reponse'[x].coll \in Collections
      BY <2>1, <2>2, ReponseType DEF TypeOK
    <2>4. colls' \in [Consoles -> SUBSET Collections]
      BY <1>5 DEF UpdateTarget, TypeOK
    <2>5. UNCHANGED <<sess, store, ecrits, venues, ecriture, flux, reveil, listees,
                      poussee, verdict, copie, vu, promis, enVain>>
      BY <1>5 DEF UpdateTarget, magasin, envoye
    <2>6. watched' \in [Consoles -> BOOLEAN]
      BY <1>5 DEF UpdateTarget, TypeOK
    <2> QED
      BY <2>3, <2>4, <2>5, <2>6 DEF TypeOK
  <1>6. CASE UpdateTargetDocument(c)
    <2>1. watched' \in [Consoles -> BOOLEAN]
      BY <1>6 DEF UpdateTargetDocument, TypeOK
    <2>2. UNCHANGED <<sess, store, ecrits, venues, ecriture, flux, reveil, colls, listees,
                      reponse, poussee, verdict, copie, vu, promis, enVain>>
      BY <1>6 DEF UpdateTargetDocument, magasin, envoye
    <2> QED
      BY <2>1, <2>2 DEF TypeOK
  <1> QED
    BY <1>1, <1>2, <1>3, <1>4, <1>5, <1>6

(* The store, the streams and their threads are always of their types.      *)
THEOREM StoreTypeCorrect == Spec => []TypeOK
  <1>1. ASSUME TypeOK, [Next]_vars PROVE TypeOK'
    <2>1. ASSUME NEW c \in Consoles, Echo(c) \/ StreamEnds(c) PROVE TypeOK'
      BY <1>1, <2>1, OublierType DEF Echo, StreamEnds
    <2>2. ASSUME NEW c \in Consoles, Rappel(c) PROVE TypeOK'
      <3>1. reveil[c] \in 0..Capacite
        BY <1>1 DEF TypeOK
      <3> QED
        BY <1>1, <2>2, <3>1, CommencerType DEF Rappel
    <2>3. CASE UNCHANGED vars
      BY <1>1, <2>3 DEF TypeOK, vars, magasin, envoye, suivi
    <2>4. CASE Next
      BY <1>1, <2>1, <2>2, <2>4, EcrireType, RecevoirType, PousserType, AutreType DEF Next
    <2> QED
      BY <1>1, <2>3, <2>4
  <1> QED
    BY <1>1, InitType, PTL DEF Spec

-----------------------------------------------------------------------------
(* What a stream was not told is announced, and who left has no documents.  *)
(* A pass that pushes nothing finds no collection but one that is about to  *)
(* be read, or is being sent and is then noted.                             *)

StoreInv ==
  /\ \A c \in Consoles : flux[c] # "ferme" => c \in sess
  /\ \A c \in Consoles : flux[c] = "ferme" => colls[c] = {}
  /\ \A c \in Consoles : ecriture[c].etape = "ranger" => De[ecriture[c].doc] \in {c, Aucun}
  /\ OnlyFirstSnapshotsLose
  /\ NudgeFollowsWrite
  /\ DepartedLeaveNothing

LEMMA StoreInvInit == Init => StoreInv
  BY DEF Init, StoreInv, OnlyFirstSnapshotsLose, NudgeFollowsWrite, DepartedLeaveNothing, Calme

(* What only depends on the stream of one console.                          *)
LEMMA PremierSeul ==
  ASSUME StoreInv, NEW c \in Consoles,
         \A x \in Consoles : x # c => /\ flux'[x] = flux[x] /\ watched'[x] = watched[x]
                                      /\ colls'[x] = colls[x] /\ reponse'[x] = reponse[x],
         flux'[c] # "ferme" /\ ~watched'[c] =>
           \/ colls'[c] = {}
           \/ colls'[c] = {reponse'[c].coll} /\ reponse'[c].etape \in {"lire", "envoyer"}
  PROVE  OnlyFirstSnapshotsLose'
  BY DEF StoreInv, OnlyFirstSnapshotsLose

LEMMA OublierInv ==
  ASSUME TypeOK, StoreInv, NEW c \in Consoles, oublierSession(c) PROVE StoreInv'
  <1>1. /\ flux' = [flux EXCEPT ![c] = "ferme"] /\ sess' = sess \ {c}
        /\ store' = [d \in Documents |-> IF De[d] = c THEN 0 ELSE store[d]]
        /\ colls' = [colls EXCEPT ![c] = {}]
        /\ reponse' = [reponse EXCEPT ![c] = Silence]
        /\ poussee' = [poussee EXCEPT ![c] = Repos]
        /\ watched' = [watched EXCEPT ![c] = FALSE] /\ enVain' = [enVain EXCEPT ![c] = {}]
        /\ UNCHANGED <<ecriture, reveil, vu>>
    BY DEF oublierSession, envoye, Detourne
  <1>2. /\ \A x \in Consoles : flux'[x] # "ferme" => x \in sess'
        /\ \A x \in Consoles : flux'[x] = "ferme" => colls'[x] = {}
    BY <1>1 DEF StoreInv, TypeOK
  <1>3. NudgeFollowsWrite'
    <2>1. ASSUME NEW x \in Consoles, NEW d \in Documents, flux'[x] = "ouvert"
          PROVE  /\ x # c /\ flux[x] = "ouvert" /\ colls'[x] = colls[x]
                 /\ reponse'[x] = reponse[x] /\ poussee'[x] = poussee[x]
                 /\ enVain'[x] = enVain[x]
                 /\ (store'[d] # 0 => store'[d] = store[d])
      BY <1>1, <2>1 DEF TypeOK
    <2> QED
      BY <1>1, <2>1 DEF StoreInv, NudgeFollowsWrite, Annonce
  <1>4. DepartedLeaveNothing'
    BY <1>1 DEF StoreInv, DepartedLeaveNothing, TypeOK
  <1>5. OnlyFirstSnapshotsLose'
    BY <1>1, PremierSeul DEF TypeOK
  <1> QED
    BY <1>1, <1>2, <1>3, <1>4, <1>5 DEF StoreInv

LEMMA RangerInv ==
  ASSUME TypeOK, StoreInv, SansEcriture, NEW c \in Consoles, NEW d \in Documents, NEW v,
         De[d] \in {c, Aucun}, ecriture[c].etape # "rien", Ranger(c, d, v)
  PROVE  StoreInv'
  <1>1. /\ store' = [store EXCEPT ![d] = v]
        /\ ecriture' = [ecriture EXCEPT ![c].etape = "reveiller"]
        /\ UNCHANGED <<sess, flux, colls, watched, reponse>>
    BY DEF Ranger, suivi
  <1>2. ecriture'[c].etape = "reveiller"
        /\ \A x \in Consoles : x # c => ecriture'[x] = ecriture[x]
    BY <1>1 DEF TypeOK, Appels
  <1>3. NudgeFollowsWrite'
    BY <1>2 DEF NudgeFollowsWrite, Annonce
  <1>4. DepartedLeaveNothing'
    BY <1>1, DocumentsAssumption DEF StoreInv, SansEcriture, DepartedLeaveNothing, TypeOK
  <1> QED
    BY <1>1, <1>2, <1>3, <1>4 DEF StoreInv, OnlyFirstSnapshotsLose

LEMMA EcrireInv ==
  ASSUME TypeOK, StoreInv, SansEcriture, NEW c \in Consoles, Ecrire(c) PROVE StoreInv'
  <1>1. CASE applyWritesToStore(c)
    <2>1. PICK v \in {0} \cup Nouveau : Ranger(c, ecriture[c].doc, v)
      BY <1>1 DEF applyWritesToStore
    <2>2. ecriture[c].doc \in Documents /\ De[ecriture[c].doc] \in {c, Aucun}
      BY <1>1 DEF TypeOK, Appels, applyWritesToStore, StoreInv
    <2> QED
      BY <1>1, <2>1, <2>2, RangerInv DEF applyWritesToStore
  <1>2. CASE arbitrer(c)
    <2>1. PICK v \in {store[Verdict]} \cup Nouveau : Ranger(c, Verdict, v)
      BY <1>2 DEF arbitrer
    <2> QED
      BY <1>2, <2>1, RangerInv, DocumentsAssumption DEF arbitrer
  <1>3. CASE reveillerLaPartie(c)
    <2>1. /\ ecriture' = [ecriture EXCEPT ![c] = Calme]
          /\ UNCHANGED <<sess, store, flux, colls, reponse, poussee, vu, watched>>
      BY <1>3 DEF reveillerLaPartie, envoye, suivi
    <2>2. ASSUME NEW x \in Consoles, flux[x] = "ouvert" PROVE reveil'[x] > 0
      <3>1. {x, c} \subseteq sess
        BY <1>3, <2>2 DEF StoreInv, SansEcriture, reveillerLaPartie
      <3>2. reveil'[x] = Pousse(reveil[x])
        BY <1>3, <2>2, <3>1 DEF reveillerLaPartie
      <3>3. reveil[x] \in 0..Capacite
        BY DEF TypeOK
      <3> QED
        BY <3>2, <3>3, Nombres DEF Pousse
    <2>3. NudgeFollowsWrite'
      BY <2>1, <2>2 DEF NudgeFollowsWrite, Annonce
    <2>4. \A x \in Consoles : ecriture'[x].etape = "ranger" => ecriture'[x] = ecriture[x]
      BY <2>1 DEF Calme, TypeOK
    <2> QED
      BY <2>1, <2>3, <2>4 DEF StoreInv, OnlyFirstSnapshotsLose, DepartedLeaveNothing
  <1> QED
    BY <1>1, <1>2, <1>3 DEF Ecrire

LEMMA RecevoirInv == ASSUME TypeOK, StoreInv, NEW c \in Consoles, Recevoir(c) PROVE StoreInv'
  <1>1. CASE membresDeCollection(c)
    <2>1. /\ reponse[c].etape = "lire"
          /\ \A x \in Consoles : x # c => reponse'[x] = reponse[x] /\ vu'[x] = vu[x]
          /\ \A d \in Documents :
               vu'[c][d] = IF d \in Dans(reponse[c].coll) THEN store[d] ELSE vu[c][d]
          /\ reponse'[c].etape = "envoyer" /\ reponse'[c].coll = reponse[c].coll
          /\ UNCHANGED <<sess, store, ecriture, flux, reveil, colls, poussee, watched, enVain>>
      BY <1>1 DEF membresDeCollection, magasin, suivi, TypeOK, Reponses
    <2>2. NudgeFollowsWrite'
      BY <2>1 DEF StoreInv, NudgeFollowsWrite, Annonce, Dans
    <2>3. OnlyFirstSnapshotsLose'
      BY <2>1, PremierSeul DEF StoreInv, OnlyFirstSnapshotsLose
    <2> QED
      BY <2>1, <2>2, <2>3 DEF StoreInv, DepartedLeaveNothing
  <1>2. CASE EnvoyerMembre(c)
    <2>1. /\ reponse[c].etape = "envoyer" /\ reponse'[c].etape = "envoyer"
          /\ reponse'[c].coll = reponse[c].coll
          /\ \A x \in Consoles : x # c => reponse'[x] = reponse[x]
          /\ UNCHANGED <<sess, store, ecriture, flux, reveil, colls, poussee, vu, watched, enVain>>
      BY <1>2 DEF EnvoyerMembre, magasin, suivi, TypeOK, Reponses
    <2>2. NudgeFollowsWrite'
      BY <2>1 DEF StoreInv, NudgeFollowsWrite, Annonce
    <2>3. OnlyFirstSnapshotsLose'
      BY <2>1, PremierSeul DEF StoreInv, OnlyFirstSnapshotsLose
    <2> QED
      BY <2>1, <2>2, <2>3 DEF StoreInv, DepartedLeaveNothing
  <1>3. CASE Lister(c) /\ flux[c] = "soupape"
    BY <1>3, OublierInv DEF Lister
  <1>4. CASE Lister(c) /\ flux[c] # "soupape"
    <2>1. /\ reponse[c].etape = "lister" /\ reponse'[c].etape = "rien"
          /\ \A x \in Consoles : x # c => reponse'[x] = reponse[x]
          /\ UNCHANGED <<sess, store, ecriture, flux, reveil, colls, poussee, vu, watched, enVain>>
      BY <1>4 DEF Lister, magasin, envoye, suivi, Silence, TypeOK
    <2>2. NudgeFollowsWrite'
      BY <2>1 DEF StoreInv, NudgeFollowsWrite, Annonce
    <2>3. OnlyFirstSnapshotsLose'
      BY <2>1, PremierSeul DEF StoreInv, OnlyFirstSnapshotsLose
    <2> QED
      BY <2>1, <2>2, <2>3 DEF StoreInv, DepartedLeaveNothing
  <1>5. CASE Suivre(c)
    <2>1. /\ reponse[c].etape = "envoyer" /\ reponse'[c].etape = "lister" /\ watched'[c]
          /\ \A x \in Consoles : x # c => reponse'[x] = reponse[x] /\ watched'[x] = watched[x]
          /\ UNCHANGED <<sess, store, ecriture, flux, reveil, colls, poussee, vu, enVain>>
      BY <1>5 DEF Suivre, magasin, envoye, TypeOK, Reponses
    <2>2. NudgeFollowsWrite'
      BY <2>1 DEF StoreInv, NudgeFollowsWrite, Annonce
    <2>3. OnlyFirstSnapshotsLose'
      BY <2>1, PremierSeul
    <2> QED
      BY <2>1, <2>2, <2>3 DEF StoreInv, DepartedLeaveNothing
  <1> QED
    BY <1>1, <1>2, <1>3, <1>4, <1>5 DEF Recevoir

(* A pass that begins: with something in watched it will read whatever is   *)
(* watched; with nothing, only a snapshot being sent has lost the nudge.    *)
LEMMA CommencerInv ==
  ASSUME TypeOK, StoreInv, NEW c \in Consoles, NEW n \in Nat, n = reveil[c] \/ n < reveil[c],
         Commencer(c, n)
  PROVE  StoreInv'
  <1>1. /\ poussee'[c].reste = IF watched[c] THEN colls[c] ELSE {}
        /\ enVain'[c] = IF watched[c] THEN {}
                        ELSE IF n < reveil[c] /\ reponse[c].etape = "envoyer"
                             THEN colls[c] ELSE enVain[c]
        /\ reveil'[c] = n /\ flux[c] = "ouvert" /\ poussee[c].reste = {}
        /\ \A x \in Consoles : x # c => /\ poussee'[x] = poussee[x] /\ reveil'[x] = reveil[x]
                                        /\ enVain'[x] = enVain[x]
        /\ UNCHANGED <<sess, store, ecriture, flux, colls, reponse, vu, watched>>
    BY DEF Commencer, AuRepos, Repos, magasin, envoye, TypeOK, Passes
  <1>2. NudgeFollowsWrite'
    <2> SUFFICES ASSUME NEW x \in Consoles, NEW d \in Documents,
                        flux[x] = "ouvert", Collection[d] \in colls[x], store[d] # 0,
                        vu[x][d] # store[d]
                 PROVE  Annonce(x, d)' \/ Collection[d] \in enVain'[x]
      BY <1>1 DEF NudgeFollowsWrite
    <2>1. Annonce(x, d) \/ Collection[d] \in enVain[x]
      BY DEF StoreInv, NudgeFollowsWrite
    <2>2. CASE x # c
      BY <1>1, <2>1, <2>2 DEF Annonce
    <2>3. CASE x = c /\ watched[c]
      BY <1>1, <2>3 DEF Annonce
    <2>4. CASE x = c /\ ~watched[c] /\ n = reveil[c]
      BY <1>1, <2>1, <2>4 DEF Annonce
    <2>5. CASE x = c /\ ~watched[c] /\ n < reveil[c]
      <3>1. /\ Collection[d] = reponse[c].coll
            /\ reponse[c].etape \in {"lire", "envoyer"}
        BY <2>5, <1>1 DEF StoreInv, OnlyFirstSnapshotsLose
      <3> QED
        BY <1>1, <2>5, <3>1 DEF Annonce
    <2> QED
      BY <2>2, <2>3, <2>4, <2>5
  <1>3. OnlyFirstSnapshotsLose'
    BY <1>1 DEF StoreInv, OnlyFirstSnapshotsLose
  <1> QED
    BY <1>1, <1>2, <1>3 DEF StoreInv, DepartedLeaveNothing

LEMMA PousserInv == ASSUME TypeOK, StoreInv, NEW c \in Consoles, Pousser(c) PROVE StoreInv'
  <1>1. CASE SurReveil(c)
    <2>1. reveil[c] \in 0..Capacite /\ reveil[c] > 0
      BY <1>1 DEF SurReveil, TypeOK
    <2>2. reveil[c] - 1 \in Nat /\ reveil[c] - 1 < reveil[c]
      BY <2>1, Nombres
    <2> QED
      BY <1>1, <2>2, CommencerInv DEF SurReveil
  <1>2. CASE docsSousCollection(c)
    <2>1. PICK k \in poussee[c].reste :
            /\ poussee'[c].reste = poussee[c].reste \ {k}
            /\ \A x \in Consoles : x # c => poussee'[x] = poussee[x] /\ vu'[x] = vu[x]
            /\ \A d \in Documents : vu'[c][d] = IF d \in Dans(k) THEN store[d] ELSE vu[c][d]
            /\ UNCHANGED <<sess, store, ecriture, flux, reveil, colls, reponse, watched, enVain>>
      BY <1>2 DEF docsSousCollection, magasin, suivi, TypeOK
    <2>2. NudgeFollowsWrite'
      BY <2>1 DEF StoreInv, NudgeFollowsWrite, Annonce, Dans
    <2> QED
      BY <2>1, <2>2 DEF StoreInv, OnlyFirstSnapshotsLose, DepartedLeaveNothing
  <1>3. CASE EnvoyerChangement(c)
    <2>1. /\ poussee'[c].reste = poussee[c].reste
          /\ \A x \in Consoles : x # c => poussee'[x] = poussee[x]
          /\ UNCHANGED <<sess, store, ecriture, flux, reveil, colls, reponse, vu, watched, enVain>>
      BY <1>3 DEF EnvoyerChangement, magasin, suivi, TypeOK, Passes
    <2>2. NudgeFollowsWrite'
      BY <2>1 DEF StoreInv, NudgeFollowsWrite, Annonce
    <2> QED
      BY <2>1, <2>2 DEF StoreInv, OnlyFirstSnapshotsLose, DepartedLeaveNothing
  <1> QED
    BY <1>1, <1>2, <1>3 DEF Pousser

LEMMA AutreInv ==
  ASSUME TypeOK, StoreInv, NEW c \in Consoles,
         \/ IssueToken(c) \/ KeepUserSession(c) \/ Soupape(c) \/ UpdateTargetDocument(c)
         \/ \E d \in Documents : WriteDocuments(c, d)
         \/ \E k \in Collections : UpdateTarget(c, k)
  PROVE  StoreInv'
  <1>1. CASE IssueToken(c)
    <2>1. /\ sess' = sess \cup {c}
          /\ UNCHANGED <<store, ecriture, flux, reveil, colls, reponse, poussee, vu, watched, enVain>>
      BY <1>1 DEF IssueToken, envoye, suivi
    <2>2. NudgeFollowsWrite' /\ DepartedLeaveNothing'
      BY <2>1 DEF StoreInv, NudgeFollowsWrite, Annonce, DepartedLeaveNothing
    <2> QED
      BY <2>1, <2>2 DEF StoreInv, OnlyFirstSnapshotsLose
  <1>2. CASE KeepUserSession(c)
    <2>1. /\ flux[c] = "ferme" /\ flux'[c] = "ouvert" /\ c \in sess
          /\ \A x \in Consoles : x # c =>
               flux'[x] = flux[x] /\ reveil'[x] = reveil[x] /\ vu'[x] = vu[x]
          /\ UNCHANGED <<sess, store, ecriture, colls, reponse, poussee, watched, enVain>>
      BY <1>2 DEF KeepUserSession, magasin, suivi, TypeOK
    <2>2. NudgeFollowsWrite'
      BY <2>1 DEF StoreInv, NudgeFollowsWrite, Annonce
    <2>3. OnlyFirstSnapshotsLose'
      BY <2>1, PremierSeul DEF StoreInv
    <2> QED
      BY <2>1, <2>2, <2>3 DEF StoreInv, DepartedLeaveNothing
  <1>3. CASE Soupape(c)
    <2>1. /\ flux[c] = "ouvert" /\ flux'[c] = "soupape"
          /\ \A x \in Consoles : x # c => flux'[x] = flux[x]
          /\ UNCHANGED <<sess, store, ecriture, reveil, colls, reponse, poussee, vu, watched, enVain>>
      BY <1>3 DEF Soupape, AuRepos, magasin, envoye, suivi, TypeOK
    <2>2. NudgeFollowsWrite'
      BY <2>1 DEF StoreInv, NudgeFollowsWrite, Annonce
    <2>3. OnlyFirstSnapshotsLose'
      BY <2>1 DEF StoreInv, OnlyFirstSnapshotsLose
    <2> QED
      BY <2>1, <2>2, <2>3 DEF StoreInv, DepartedLeaveNothing
  <1>4. ASSUME NEW d \in Documents, WriteDocuments(c, d) PROVE StoreInv'
    <2>1. /\ De[d] \in {c, Aucun} /\ ecriture[c].etape = "rien"
          /\ ecriture'[c].doc = d /\ ecriture'[c].etape \in {"arbitrer", "ranger"}
          /\ \A x \in Consoles : x # c => ecriture'[x] = ecriture[x]
          /\ UNCHANGED <<sess, store, flux, reveil, colls, reponse, poussee, vu, watched, enVain>>
      BY <1>4 DEF WriteDocuments, envoye, suivi, TypeOK
    <2>2. NudgeFollowsWrite'
      BY <2>1 DEF StoreInv, NudgeFollowsWrite, Annonce
    <2> QED
      BY <2>1, <2>2 DEF StoreInv, OnlyFirstSnapshotsLose, DepartedLeaveNothing
  <1>5. ASSUME NEW k \in Collections, UpdateTarget(c, k) PROVE StoreInv'
    <2>1. /\ reponse[c].etape = "rien" /\ reponse'[c].etape = "lire" /\ reponse'[c].coll = k
          /\ flux[c] # "ferme" /\ colls'[c] = colls[c] \cup {k}
          /\ watched[c] => watched'[c]
          /\ \A x \in Consoles : x # c => /\ reponse'[x] = reponse[x] /\ colls'[x] = colls[x]
                                          /\ watched'[x] = watched[x]
          /\ UNCHANGED <<sess, store, ecriture, flux, reveil, poussee, vu, enVain>>
      BY <1>5 DEF UpdateTarget, magasin, envoye, TypeOK
    <2>2. NudgeFollowsWrite'
      BY <2>1 DEF StoreInv, NudgeFollowsWrite, Annonce
    <2>3. OnlyFirstSnapshotsLose'
      BY <2>1, PremierSeul DEF StoreInv, OnlyFirstSnapshotsLose
    <2> QED
      BY <2>1, <2>2, <2>3 DEF StoreInv, DepartedLeaveNothing
  <1>6. CASE UpdateTargetDocument(c)
    <2>1. /\ watched' = [watched EXCEPT ![c] = TRUE]
          /\ UNCHANGED <<sess, store, ecriture, flux, reveil, colls, reponse, poussee, vu, enVain>>
      BY <1>6 DEF UpdateTargetDocument, magasin, envoye
    <2>2. NudgeFollowsWrite'
      BY <2>1 DEF StoreInv, NudgeFollowsWrite, Annonce
    <2>3. OnlyFirstSnapshotsLose'
      BY <2>1, PremierSeul DEF TypeOK
    <2> QED
      BY <2>1, <2>2, <2>3 DEF StoreInv, DepartedLeaveNothing
  <1> QED
    BY <1>1, <1>2, <1>3, <1>4, <1>5, <1>6

LEMMA StoreInvStep == TypeOK /\ StoreInv /\ SansEcriture /\ [Next]_vars => StoreInv'
  <1> SUFFICES ASSUME TypeOK, StoreInv, SansEcriture, [Next]_vars PROVE StoreInv'
    OBVIOUS
  <1>1. ASSUME NEW c \in Consoles, Echo(c) \/ StreamEnds(c) PROVE StoreInv'
    BY <1>1, OublierInv DEF Echo, StreamEnds
  <1>2. ASSUME NEW c \in Consoles, Rappel(c) PROVE StoreInv'
    <2>1. reveil[c] \in Nat
      BY Nombres DEF TypeOK
    <2> QED
      BY <1>2, <2>1, CommencerInv DEF Rappel
  <1>3. CASE UNCHANGED vars
    BY <1>3 DEF StoreInv, OnlyFirstSnapshotsLose, NudgeFollowsWrite, Annonce,
                DepartedLeaveNothing, vars, magasin, envoye, suivi
  <1>4. CASE Next
    BY <1>1, <1>2, <1>4, EcrireInv, RecevoirInv, PousserInv, AutreInv DEF Next
  <1> QED
    BY <1>3, <1>4

LEMMA StoreInvariant == Spec /\ []SansEcriture => []StoreInv
  BY StoreInvInit, StoreInvStep, StoreTypeCorrect, PTL DEF Spec

(* A change a stream watches and did not read is announced to it, though a  *)
(* full wake channel drops nudges (Pousse, gamesync.go:1130), unless a      *)
(* nudge was taken in vain (doPush, gamesync.go:2117).                      *)
THEOREM NudgesFollowWrites == Spec /\ []SansEcriture => []NudgeFollowsWrite
  <1>1. StoreInv => NudgeFollowsWrite
    BY DEF StoreInv
  <1> QED
    BY <1>1, StoreInvariant, PTL

(* A nudge is taken in vain only while the snapshot of the first collection *)
(* of a stream is sent (KeepUserSession, gamesync.go:2402).                 *)
THEOREM OneSnapshotMayLose == Spec /\ []SansEcriture => []OnlyFirstSnapshotsLose
  <1>1. StoreInv => OnlyFirstSnapshotsLose
    BY DEF StoreInv
  <1> QED
    BY <1>1, StoreInvariant, PTL

(* Nothing stays in the store of a user session that is gone                *)
(* (oublierSession), if no write of it is under way.                        *)
THEOREM DepartedAreForgotten == Spec /\ []SansEcriture => []DepartedLeaveNothing
  <1>1. StoreInv => DepartedLeaveNothing
    BY DEF StoreInv
  <1> QED
    BY <1>1, StoreInvariant, PTL
-----------------------------------------------------------------------------
(* The silence of verdicts.                                                  *)

(* The receiving thread only sends of a collection that is not listed yet,   *)
(* the pushing thread only the verdict it counted last; only the arbiter     *)
(* writes the verdict.                                                       *)
FilOK(c) ==
  /\ flux[c] = "ferme" => poussee[c] = Repos
  /\ listees[c] \subseteq colls[c]
  /\ reponse[c].etape # "rien" => reponse[c].coll \in colls[c] \ listees[c]
  /\ \A e \in reponse[c].envois :
       reponse[c].etape # "rien" /\ Collection[e[1]] = reponse[c].coll
  /\ \A e \in poussee[c].envois : e[1] = Verdict => e[2] = verdict[c].etat
  /\ ecriture[c].etape = "ranger" => ecriture[c].doc # Verdict
  /\ verdict[c].etat <= ecrits

(* What was promised is sent, or about to be, unless a pass will find it new.*)
PromisOK(c) ==
  flux[c] # "ferme" /\ promis[c] > 0 =>
    /\ Collection[Verdict] \in listees[c]
    /\ promis[c] <= store[Verdict]
    /\ \/ verdict[c].etat # store[Verdict]
       \/ copie[c][Verdict] >= promis[c]
       \/ <<Verdict, store[Verdict]>> \in poussee[c].envois

SilenceInv ==
  /\ store[Verdict] <= ecrits
  /\ \A c \in Consoles : FilOK(c) /\ PromisOK(c)

LEMMA SilenceInit == Init => SilenceInv
  BY Nombres, DocumentsAssumption
     DEF Init, SilenceInv, FilOK, PromisOK, Silence, Repos, Calme, Muet

LEMMA Compteurs ==
  ASSUME TypeOK
  PROVE  /\ ecrits \in Nat /\ store[Verdict] \in Nat
         /\ \A c \in Consoles : /\ verdict[c].etat \in Nat /\ promis[c] \in Nat
                                /\ copie[c][Verdict] \in Nat
  BY DocumentsAssumption, Nombres DEF TypeOK, Versions

(* A stream a step does not touch, while the verdict stays.                  *)
Intacte(c) ==
  /\ flux'[c] = flux[c] /\ colls'[c] = colls[c] /\ listees'[c] = listees[c]
  /\ reponse'[c] = reponse[c] /\ poussee'[c] = poussee[c] /\ verdict'[c] = verdict[c]
  /\ copie'[c] = copie[c] /\ promis'[c] = promis[c]

LEMMA IntacteReste ==
  ASSUME TypeOK, NEW c \in Consoles, FilOK(c), PromisOK(c), Intacte(c),
         ecrits' \in Nat, ecrits <= ecrits', store'[Verdict] = store[Verdict],
         ecriture'[c].etape = "ranger" =>
           ecriture'[c].doc # Verdict \/ ecriture'[c] = ecriture[c]
  PROVE  FilOK(c)' /\ PromisOK(c)'
  <1>1. verdict[c].etat <= ecrits'
    BY Compteurs DEF FilOK
  <1>2. FilOK(c)'
    BY <1>1 DEF FilOK, Intacte
  <1>3. PromisOK(c)'
    BY DEF PromisOK, Intacte
  <1> QED
    BY <1>2, <1>3

LEMMA OublierSilence ==
  ASSUME TypeOK, SilenceInv, NEW c \in Consoles, oublierSession(c) PROVE SilenceInv'
  <1>1. store'[Verdict] = store[Verdict] /\ ecrits' = ecrits /\ ecriture' = ecriture
    BY DocumentsAssumption DEF oublierSession
  <1>2. /\ flux'[c] = "ferme" /\ colls'[c] = {} /\ listees'[c] = {} /\ reponse'[c] = Silence
        /\ poussee'[c] = Repos /\ verdict'[c] = verdict[c]
    BY DEF oublierSession, TypeOK
  <1>3. ASSUME NEW x \in Consoles PROVE FilOK(x)' /\ PromisOK(x)'
    <2>1. CASE x # c
      <3>1. Intacte(x)
        BY <2>1 DEF oublierSession, envoye, Intacte, TypeOK
      <3> QED
        BY <1>1, <3>1, IntacteReste, Compteurs DEF SilenceInv
    <2>2. CASE x = c
      <3>1. FilOK(c)
        BY DEF SilenceInv
      <3> QED
        BY <1>1, <1>2, <2>2, <3>1 DEF FilOK, PromisOK, Silence, Repos
    <2> QED
      BY <2>1, <2>2
  <1> QED
    BY <1>1, <1>3 DEF SilenceInv

LEMMA RangerSilence ==
  ASSUME TypeOK, SilenceInv, NEW c \in Consoles, NEW d \in Documents,
         NEW v \in Versions, Ranger(c, d, v), v \in Nouveau \/ (v = 0 /\ d # Verdict) \/ v = store[d]
  PROVE  SilenceInv'
  <1>1. /\ store' = [store EXCEPT ![d] = v]
        /\ ecrits' = IF v > ecrits THEN v ELSE ecrits
        /\ ecriture' = [ecriture EXCEPT ![c].etape = "reveiller"]
        /\ promis' = [x \in Consoles |->
                        IF d = Verdict /\ v # store[d] /\ Collection[d] \in listees[x]
                        THEN v ELSE promis[x]]
        /\ UNCHANGED <<flux, colls, listees, reponse, poussee, verdict, copie>>
    BY DEF Ranger
  <1>2. v \in Nat /\ ecrits' \in Nat /\ ecrits <= ecrits' /\ v <= ecrits'
    BY <1>1, Compteurs DEF Versions
  <1>3. \A x \in Consoles :
          ecriture'[x].etape = "ranger" => x # c /\ ecriture'[x] = ecriture[x]
    BY <1>1 DEF TypeOK, Appels
  <1>4. CASE d = Verdict /\ v # store[d]
    <2>1. v > ecrits /\ store'[Verdict] = v /\ ecrits' = v
      BY <1>1, <1>4, Compteurs DEF Nouveau, TypeOK
    <2>2. ASSUME NEW x \in Consoles PROVE FilOK(x)' /\ PromisOK(x)'
      <3>1. FilOK(x) /\ PromisOK(x) /\ verdict[x].etat <= ecrits
        BY DEF SilenceInv, FilOK
      <3>2. verdict[x].etat <= ecrits' /\ verdict[x].etat # v
        BY <1>2, <2>1, <3>1, Compteurs
      <3>3. FilOK(x)'
        BY <1>1, <1>3, <3>1, <3>2 DEF FilOK
      <3>4. promis'[x] = IF Collection[Verdict] \in listees[x] THEN v ELSE promis[x]
        BY <1>1, <1>4
      <3>5. PromisOK(x)'
        BY <1>1, <1>2, <1>4, <2>1, <3>1, <3>2, <3>4 DEF PromisOK
      <3> QED
        BY <3>3, <3>5
    <2> QED
      BY <1>2, <2>1, <2>2 DEF SilenceInv
  <1>5. CASE ~(d = Verdict /\ v # store[d])
    <2>1. store'[Verdict] = store[Verdict] /\ promis' = promis
      BY <1>1, <1>5, DocumentsAssumption DEF TypeOK
    <2>2. ASSUME NEW x \in Consoles PROVE FilOK(x)' /\ PromisOK(x)'
      <3>1. Intacte(x)
        BY <1>1, <2>1 DEF Intacte
      <3> QED
        BY <1>2, <1>3, <2>1, <3>1, IntacteReste DEF SilenceInv
    <2> QED
      BY <1>2, <2>1, <2>2, Compteurs DEF SilenceInv
  <1> QED
    BY <1>4, <1>5

LEMMA EcrireSilence == ASSUME TypeOK, SilenceInv, NEW c \in Consoles, Ecrire(c) PROVE SilenceInv'
  <1>1. Nouveau \subseteq Versions /\ 0 \in Versions
    BY Nombres DEF TypeOK, Nouveau, Versions
  <1>2. CASE applyWritesToStore(c)
    <2>1. PICK v \in {0} \cup Nouveau : Ranger(c, ecriture[c].doc, v)
      BY <1>2 DEF applyWritesToStore
    <2>2. ecriture[c].doc \in Documents
      BY DEF TypeOK, Appels
    <2>3. ecriture[c].doc # Verdict
      BY <1>2 DEF SilenceInv, FilOK, applyWritesToStore
    <2> QED
      BY <1>1, <2>1, <2>2, <2>3, RangerSilence
  <1>3. CASE arbitrer(c)
    <2>1. PICK v \in {store[Verdict]} \cup Nouveau : Ranger(c, Verdict, v)
      BY <1>3 DEF arbitrer
    <2>2. Verdict \in Documents /\ store[Verdict] \in Versions
      BY DocumentsAssumption DEF TypeOK
    <2> QED
      BY <1>1, <2>1, <2>2, RangerSilence
  <1>4. CASE reveillerLaPartie(c)
    <2>1. UNCHANGED <<sess, store, ecrits, flux, colls, listees, reponse, poussee, verdict,
                      copie, promis>>
      BY <1>4 DEF reveillerLaPartie, envoye
    <2>2. \A x \in Consoles : ecriture'[x].etape = "ranger" => ecriture'[x] = ecriture[x]
      BY <1>4 DEF reveillerLaPartie, Calme, TypeOK
    <2>3. \A x \in Consoles : Intacte(x)
      BY <2>1 DEF Intacte
    <2> QED
      BY <2>1, <2>2, <2>3, IntacteReste, Compteurs DEF SilenceInv
  <1> QED
    BY <1>2, <1>3, <1>4 DEF Ecrire

(* A step of the threads of c.                                               *)
LEMMA FilSeul ==
  ASSUME TypeOK, SilenceInv, NEW c \in Consoles,
         UNCHANGED <<store, ecrits, ecriture>>,
         \A x \in Consoles : x # c => Intacte(x),
         FilOK(c)', PromisOK(c)'
  PROVE  SilenceInv'
  BY IntacteReste, Compteurs DEF SilenceInv

LEMMA RecevoirSilence ==
  ASSUME TypeOK, SilenceInv, NEW c \in Consoles, Recevoir(c) PROVE SilenceInv'
  <1>0. FilOK(c) /\ PromisOK(c)
    BY DEF SilenceInv
  <1>1. CASE membresDeCollection(c)
    <2>1. /\ UNCHANGED <<store, ecrits, ecriture, flux, colls, listees, poussee, verdict, copie, promis>>
          /\ \A x \in Consoles : x # c => reponse'[x] = reponse[x]
          /\ reponse[c].etape = "lire"
          /\ reponse'[c].etape = "envoyer" /\ reponse'[c].coll = reponse[c].coll
          /\ \A e \in reponse'[c].envois : \E d \in Dans(reponse[c].coll) : e[1] = d
      <3> DEFINE k == reponse[c].coll
                 lot == {<<d, Invente>> : d \in {d \in Dans(k) : Synthese[d] # "jamais"}}
                   \cup {<<d, store[d]>> :
                           d \in {d \in Dans(k) : Synthese[d] = "jamais" /\ store[d] # 0}}
      <3>1. /\ reponse' = [reponse EXCEPT ![c].etape = "envoyer", ![c].envois = lot]
            /\ \A e \in lot : \E d \in Dans(k) : e[1] = d
        BY <1>1 DEF membresDeCollection
      <3> HIDE DEF lot
      <3>2. /\ UNCHANGED <<store, ecrits, ecriture, flux, colls, listees, poussee, verdict,
                           copie, promis>>
            /\ reponse[c].etape = "lire"
        BY <1>1 DEF membresDeCollection, magasin
      <3> QED
        BY <3>1, <3>2 DEF TypeOK, Reponses
    <2>2. FilOK(c)' /\ PromisOK(c)'
      BY <1>0, <2>1 DEF FilOK, PromisOK, Dans
    <2>3. \A x \in Consoles : x # c => Intacte(x)
      BY <2>1 DEF Intacte
    <2> QED
      BY <2>1, <2>2, <2>3, FilSeul
  <1>2. CASE EnvoyerMembre(c)
    <2>1. PICK e \in reponse[c].envois :
            /\ reponse' = [reponse EXCEPT ![c].envois = @ \ {e}]
            /\ copie' = [copie EXCEPT ![c][e[1]] = e[2]]
      BY <1>2 DEF EnvoyerMembre
    <2>2. UNCHANGED <<store, ecrits, ecriture, flux, colls, listees, poussee, verdict, promis>>
      BY <1>2 DEF EnvoyerMembre, magasin
    <2>3. /\ reponse'[c].etape = reponse[c].etape /\ reponse'[c].coll = reponse[c].coll
          /\ reponse'[c].envois = reponse[c].envois \ {e}
          /\ \A x \in Consoles : x # c => reponse'[x] = reponse[x] /\ copie'[x] = copie[x]
          /\ e[1] # Verdict => copie'[c][Verdict] = copie[c][Verdict]
      BY <2>1 DEF TypeOK, Reponses
    <2>4. FilOK(c)'
      BY <1>0, <2>2, <2>3 DEF FilOK
    <2>5. e[1] = Verdict => Collection[Verdict] \notin listees[c]
      BY <1>0 DEF FilOK
    <2>6. PromisOK(c)'
      BY <1>0, <2>2, <2>3, <2>5 DEF PromisOK
    <2>7. \A x \in Consoles : x # c => Intacte(x)
      BY <2>2, <2>3 DEF Intacte
    <2> QED
      BY <2>2, <2>4, <2>6, <2>7, FilSeul
  <1>3. CASE Lister(c) /\ flux[c] = "soupape"
    BY <1>3, OublierSilence DEF Lister
  <1>4. CASE Lister(c) /\ flux[c] # "soupape"
    <2>1. /\ UNCHANGED <<store, ecrits, ecriture, flux, colls, poussee, verdict, copie, promis>>
          /\ reponse[c].etape = "lister"
          /\ listees' = [listees EXCEPT ![c] = @ \cup {reponse[c].coll}]
          /\ reponse' = [reponse EXCEPT ![c] = Silence]
      BY <1>4 DEF Lister, magasin, envoye
    <2>2. /\ listees'[c] = listees[c] \cup {reponse[c].coll} /\ reponse'[c] = Silence
          /\ \A x \in Consoles : x # c => listees'[x] = listees[x] /\ reponse'[x] = reponse[x]
      BY <2>1 DEF TypeOK
    <2>3. FilOK(c)' /\ PromisOK(c)'
      BY <1>0, <2>1, <2>2 DEF FilOK, PromisOK, Silence
    <2>4. \A x \in Consoles : x # c => Intacte(x)
      BY <2>1, <2>2 DEF Intacte
    <2> QED
      BY <2>1, <2>3, <2>4, FilSeul
  <1>5. CASE Suivre(c)
    <2>1. /\ UNCHANGED <<store, ecrits, ecriture, flux, colls, listees, poussee, verdict, copie,
                         promis>>
          /\ reponse[c].etape = "envoyer" /\ reponse'[c].etape = "lister"
          /\ reponse'[c].coll = reponse[c].coll /\ reponse'[c].envois = reponse[c].envois
          /\ \A x \in Consoles : x # c => reponse'[x] = reponse[x]
      BY <1>5 DEF Suivre, magasin, envoye, TypeOK, Reponses
    <2>2. FilOK(c)' /\ PromisOK(c)'
      BY <1>0, <2>1 DEF FilOK, PromisOK
    <2>3. \A x \in Consoles : x # c => Intacte(x)
      BY <2>1 DEF Intacte
    <2> QED
      BY <2>1, <2>2, <2>3, FilSeul
  <1> QED
    BY <1>1, <1>2, <1>3, <1>4, <1>5 DEF Recevoir

LEMMA CommencerSilence ==
  ASSUME TypeOK, SilenceInv, NEW c \in Consoles, NEW n, Commencer(c, n) PROVE SilenceInv'
  <1>1. /\ UNCHANGED <<store, ecrits, ecriture, flux, colls, listees, reponse, verdict, copie,
                       promis>>
        /\ flux[c] = "ouvert"
        /\ poussee'[c].envois = poussee[c].envois
        /\ \A x \in Consoles : x # c => poussee'[x] = poussee[x]
    BY DEF Commencer, AuRepos, magasin, envoye, TypeOK, Passes
  <1>2. FilOK(c)' /\ PromisOK(c)'
    BY <1>1 DEF SilenceInv, FilOK, PromisOK
  <1>3. \A x \in Consoles : x # c => Intacte(x)
    BY <1>1 DEF Intacte
  <1> QED
    BY <1>1, <1>2, <1>3, FilSeul

(* What a pass counts, and what it is about to send.                         *)
LEMMA LirePas ==
  ASSUME TypeOK, NEW c \in Consoles, docsSousCollection(c)
  PROVE  /\ UNCHANGED <<store, ecrits, ecriture, flux, colls, listees, reponse, copie, promis>>
         /\ \A x \in Consoles : x # c => poussee'[x] = poussee[x] /\ verdict'[x] = verdict[x]
         /\ poussee[c].envois = {}
         /\ \A e \in poussee'[c].envois : e[1] = Verdict => e[2] = store[Verdict]
         /\ \/ /\ verdict'[c] = verdict[c]
               /\ \A e \in poussee'[c].envois : e[1] # Verdict
            \/ /\ verdict'[c] = verdictTaire(verdict[c], store[Verdict])
               /\ verdict'[c].repets > Repets
                    \/ <<Verdict, store[Verdict]>> \in poussee'[c].envois
  <1> DEFINE lus(k) == {d \in Dans(k) : Synthese[d] # "toujours" /\ store[d] # 0}
             v == verdictTaire(verdict[c], store[Verdict])
             dits(k) == IF v.repets > Repets THEN lus(k) \ {Verdict} ELSE lus(k)
             faits(k) == {d \in Dans(k) : Synthese[d] = "toujours"}
             lot(k) == {<<d, Invente>> : d \in faits(k)} \cup {<<d, store[d]>> : d \in dits(k)}
  <1>1. PICK k \in poussee[c].reste :
          /\ poussee[c].envois = {}
          /\ poussee' = [poussee EXCEPT ![c] = [reste |-> @.reste \ {k}, envois |-> lot(k)]]
          /\ verdict' = IF Verdict \in lus(k) THEN [verdict EXCEPT ![c] = v] ELSE verdict
          /\ UNCHANGED <<magasin, flux, colls, listees, reponse, copie, promis>>
    BY DEF docsSousCollection
  <1>2. Verdict \notin faits(k)
    BY DocumentsAssumption
  <1>3. \A e \in lot(k) : e[1] = Verdict => e[2] = store[Verdict] /\ Verdict \in dits(k)
    BY <1>2
  <1>4. /\ Verdict \in dits(k) => Verdict \in lus(k)
        /\ Verdict \in lus(k) => v.repets > Repets \/ <<Verdict, store[Verdict]>> \in lot(k)
    OBVIOUS
  <1> HIDE DEF lot, v, lus, dits, faits
  <1>5. /\ poussee'[c].envois = lot(k)
        /\ verdict'[c] = IF Verdict \in lus(k) THEN v ELSE verdict[c]
        /\ \A x \in Consoles : x # c => poussee'[x] = poussee[x] /\ verdict'[x] = verdict[x]
    BY <1>1 DEF TypeOK
  <1>6. v = verdictTaire(verdict[c], store[Verdict])
    BY DEF v
  <1> QED
    BY <1>1, <1>3, <1>4, <1>5, <1>6 DEF magasin

LEMMA PousserSilence ==
  ASSUME TypeOK, SilenceInv, NEW c \in Consoles, Pousser(c) PROVE SilenceInv'
  <1>0. FilOK(c) /\ PromisOK(c)
    BY DEF SilenceInv
  <1>1. CASE SurReveil(c)
    BY <1>1, CommencerSilence DEF SurReveil
  <1>2. CASE docsSousCollection(c)
    <2>1. /\ verdict[c] \in [etat : Versions, repets : 0..Repets + 1]
          /\ verdictTaire(verdict[c], store[Verdict]).etat = store[Verdict]
          /\ verdict[c].etat # store[Verdict] =>
               ~(verdictTaire(verdict[c], store[Verdict]).repets > Repets)
      BY Nombres DEF TypeOK, verdictTaire
    <2>2. FilOK(c)'
      <3>1. verdict'[c].etat <= ecrits
        BY <1>0, <1>2, <2>1, LirePas DEF FilOK, SilenceInv
      <3>2. \A e \in poussee'[c].envois : e[1] = Verdict => e[2] = verdict'[c].etat
        BY <1>2, <2>1, LirePas
      <3>3. flux'[c] # "ferme"
        BY <1>0, <1>2, LirePas DEF FilOK, docsSousCollection, Repos
      <3> QED
        BY <1>0, <1>2, <3>1, <3>2, <3>3, LirePas DEF FilOK
    <2>3. PromisOK(c)'
      BY <1>0, <1>2, <2>1, LirePas DEF PromisOK
    <2>4. \A x \in Consoles : x # c => Intacte(x)
      BY <1>2, LirePas DEF Intacte
    <2> QED
      BY <1>2, <2>2, <2>3, <2>4, LirePas, FilSeul
  <1>3. CASE EnvoyerChangement(c)
    <2>1. PICK e \in poussee[c].envois :
            /\ poussee' = [poussee EXCEPT ![c].envois = @ \ {e}]
            /\ copie' = [copie EXCEPT ![c][e[1]] = e[2]]
      BY <1>3 DEF EnvoyerChangement
    <2>2. UNCHANGED <<store, ecrits, ecriture, flux, colls, listees, reponse, verdict, promis>>
      BY <1>3 DEF EnvoyerChangement, magasin
    <2>3. /\ poussee'[c].envois = poussee[c].envois \ {e}
          /\ \A x \in Consoles : x # c => poussee'[x] = poussee[x] /\ copie'[x] = copie[x]
          /\ copie'[c][Verdict] = IF e[1] = Verdict THEN e[2] ELSE copie[c][Verdict]
      BY <2>1, DocumentsAssumption DEF TypeOK, Passes
    <2>4. FilOK(c)'
      BY <1>0, <2>1, <2>2, <2>3 DEF FilOK, Repos
    <2>5. e[1] = Verdict => e[2] = verdict[c].etat
      BY <1>0 DEF FilOK
    <2>6. PromisOK(c)'
      <3>1. CASE e[1] = Verdict
        BY <1>0, <2>2, <2>3, <2>5, <3>1, Compteurs DEF PromisOK
      <3>2. CASE e[1] # Verdict
        BY <1>0, <2>2, <2>3, <3>2 DEF PromisOK
      <3> QED
        BY <3>1, <3>2
    <2>7. \A x \in Consoles : x # c => Intacte(x)
      BY <2>2, <2>3 DEF Intacte
    <2> QED
      BY <2>2, <2>4, <2>6, <2>7, FilSeul
  <1> QED
    BY <1>1, <1>2, <1>3 DEF Pousser

LEMMA AutreSilence ==
  ASSUME TypeOK, SilenceInv, NEW c \in Consoles,
         \/ IssueToken(c) \/ KeepUserSession(c) \/ Soupape(c) \/ UpdateTargetDocument(c)
         \/ \E d \in Documents : WriteDocuments(c, d)
         \/ \E k \in Collections : UpdateTarget(c, k)
  PROVE  SilenceInv'
  <1>0. FilOK(c) /\ PromisOK(c)
    BY DEF SilenceInv
  <1>1. CASE IssueToken(c)
    <2>1. /\ UNCHANGED <<store, ecrits, ecriture>>
          /\ \A x \in Consoles : Intacte(x)
      BY <1>1 DEF IssueToken, envoye, Intacte
    <2> QED
      BY <2>1, IntacteReste, Compteurs DEF SilenceInv
  <1>2. CASE KeepUserSession(c)
    <2>1. /\ UNCHANGED <<store, ecrits, ecriture>> /\ flux[c] = "ferme"
          /\ \A x \in Consoles : x # c => Intacte(x)
          /\ promis'[c] = 0 /\ verdict'[c] = Muet
          /\ UNCHANGED <<colls, listees, reponse, poussee>>
      BY <1>2 DEF KeepUserSession, magasin, Intacte, TypeOK
    <2>2. FilOK(c)' /\ PromisOK(c)'
      BY <1>0, <2>1, Compteurs DEF FilOK, PromisOK, Muet, Repos
    <2> QED
      BY <2>1, <2>2, FilSeul
  <1>3. CASE Soupape(c)
    <2>1. /\ UNCHANGED <<store, ecrits, ecriture, colls, listees, reponse, poussee, verdict,
                         copie, promis>>
          /\ flux[c] = "ouvert" /\ flux'[c] = "soupape"
          /\ \A x \in Consoles : x # c => flux'[x] = flux[x]
      BY <1>3 DEF Soupape, AuRepos, magasin, envoye, TypeOK
    <2>2. FilOK(c)' /\ PromisOK(c)'
      BY <1>0, <2>1 DEF FilOK, PromisOK
    <2>3. \A x \in Consoles : x # c => Intacte(x)
      BY <2>1 DEF Intacte
    <2> QED
      BY <2>1, <2>2, <2>3, FilSeul
  <1>4. ASSUME NEW d \in Documents, WriteDocuments(c, d) PROVE SilenceInv'
    <2>1. /\ UNCHANGED <<store, ecrits>>
          /\ \A x \in Consoles : Intacte(x)
      BY <1>4 DEF WriteDocuments, envoye, Intacte
    <2>2. \A x \in Consoles : ecriture'[x].etape = "ranger" =>
            ecriture'[x].doc # Verdict \/ ecriture'[x] = ecriture[x]
      BY <1>4 DEF WriteDocuments, TypeOK
    <2> QED
      BY <2>1, <2>2, IntacteReste, Compteurs DEF SilenceInv
  <1>5. ASSUME NEW k \in Collections, UpdateTarget(c, k) PROVE SilenceInv'
    <2>1. /\ UNCHANGED <<store, ecrits, ecriture, flux, listees, poussee, verdict, copie, promis>>
          /\ k \notin colls[c] /\ colls'[c] = colls[c] \cup {k}
          /\ reponse'[c] = [etape |-> "lire", coll |-> k, envois |-> {}]
          /\ \A x \in Consoles : x # c => reponse'[x] = reponse[x] /\ colls'[x] = colls[x]
      BY <1>5 DEF UpdateTarget, magasin, envoye, TypeOK
    <2>2. FilOK(c)' /\ PromisOK(c)'
      BY <1>0, <2>1 DEF FilOK, PromisOK
    <2>3. \A x \in Consoles : x # c => Intacte(x)
      BY <2>1 DEF Intacte
    <2> QED
      BY <2>1, <2>2, <2>3, FilSeul
  <1>6. CASE UpdateTargetDocument(c)
    <2>1. UNCHANGED <<store, ecrits, ecriture>> /\ \A x \in Consoles : Intacte(x)
      BY <1>6 DEF UpdateTargetDocument, magasin, envoye, Intacte
    <2> QED
      BY <2>1, IntacteReste, Compteurs DEF SilenceInv
  <1> QED
    BY <1>1, <1>2, <1>3, <1>4, <1>5, <1>6

LEMMA SilenceStep == TypeOK /\ SilenceInv /\ [Next]_vars => SilenceInv'
  <1> SUFFICES ASSUME TypeOK, SilenceInv, [Next]_vars PROVE SilenceInv'
    OBVIOUS
  <1>1. ASSUME NEW c \in Consoles, Echo(c) \/ StreamEnds(c) PROVE SilenceInv'
    BY <1>1, OublierSilence DEF Echo, StreamEnds
  <1>2. ASSUME NEW c \in Consoles, Rappel(c) PROVE SilenceInv'
    BY <1>2, CommencerSilence DEF Rappel
  <1>3. CASE UNCHANGED vars
    <2>1. UNCHANGED <<store, ecrits, ecriture>> /\ \A x \in Consoles : Intacte(x)
      BY <1>3 DEF vars, magasin, envoye, Intacte
    <2> QED
      BY <2>1, IntacteReste, Compteurs DEF SilenceInv
  <1>4. CASE Next
    BY <1>1, <1>2, <1>4, EcrireSilence, RecevoirSilence, PousserSilence, AutreSilence DEF Next
  <1> QED
    BY <1>3, <1>4

(* A stream that is not told the verdict any more has the one it was last    *)
(* promised, or is about to.                                                 *)
THEOREM SilencesAreEarned == Spec => []SilenceIsEarned
  <1>1. TypeOK /\ SilenceInv => SilenceIsEarned
    <2> SUFFICES ASSUME TypeOK, SilenceInv, NEW c \in Consoles, flux[c] # "ferme", Silencieux(c)
                 PROVE  copie[c][Verdict] >= promis[c]
                          \/ <<Verdict, store[Verdict]>> \in poussee[c].envois
      BY DEF SilenceIsEarned
    <2>1. verdict[c].etat = store[Verdict]
      BY Nombres DEF Silencieux, verdictTaire, TypeOK
    <2> QED
      BY <2>1, Compteurs DEF SilenceInv, PromisOK
  <1> QED
    BY <1>1, SilenceInit, SilenceStep, StoreTypeCorrect, PTL DEF Spec
=============================================================================
