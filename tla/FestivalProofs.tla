---------------------------- MODULE FestivalProofs ----------------------------
(* The inductive invariants of Festival and what follows from them.          *)
EXTENDS Festival, FiniteSetTheorems, TLAPS

-----------------------------------------------------------------------------
(* Counts.                                                                   *)

LEMMA LesCamps == /\ Camps \subseteq Nat /\ Aucun \notin Camps
                  /\ \A j \in Joueurs : Voulus[j] \subseteq Camps
BY FestivalAssumption DEF Aucun

(* A number of players is a natural number, and is zero when there are none. *)
LEMMA NombreDeJoueurs ==
  ASSUME NEW S \in SUBSET Joueurs
  PROVE  /\ Cardinality(S) \in Nat
         /\ Cardinality(S) > 0 <=> S # {}
<1>1. IsFiniteSet(S)
  BY FestivalAssumption, FS_Subset
<1>2. Cardinality(S) \in Nat
  BY <1>1, FS_CardinalityType
<1>3. Cardinality(S) = 0 <=> S = {}
  BY <1>1, FS_EmptySet
<1> QED BY <1>2, <1>3

LEMMA TypeZero == Zero \in Compte
BY DEF Zero, Compte

LEMMA TypeVotes ==
  /\ votesParCamp \in Compte
  /\ yobisaiDeLaFete \in Compte
  /\ \A c \in Camps : votesParCamp[c] > 0 <=> \E j \in Joueurs : entrees[j] = c
<1>1. ASSUME NEW c \in Camps
      PROVE  /\ votesParCamp[c] \in Nat
             /\ votesParCamp[c] > 0 <=> \E j \in Joueurs : entrees[j] = c
  <2> DEFINE S == {j \in Joueurs : entrees[j] = c}
  <2>1. Cardinality(S) \in Nat /\ (Cardinality(S) > 0 <=> S # {})
    BY NombreDeJoueurs
  <2>2. votesParCamp[c] = Cardinality(S)
    BY DEF votesParCamp
  <2>3. S # {} <=> \E j \in Joueurs : entrees[j] = c
    OBVIOUS
  <2> QED BY <2>1, <2>2, <2>3
<1>2. votesParCamp \in Compte
  BY <1>1 DEF votesParCamp, Compte
<1>3. yobisaiDeLaFete \in Compte
  BY <1>2, FestivalAssumption DEF yobisaiDeLaFete
<1> QED BY <1>1, <1>2, <1>3

LEMMA TypeEncre == ASSUME NEW b PROVE encreParCamp(b) \in Compte
<1>1. ASSUME NEW c \in Camps
      PROVE  Cardinality({j \in Joueurs : b.creneau[j] # 0 /\ entrees[j] = c}) \in Nat
  BY NombreDeJoueurs
<1> QED BY <1>1 DEF encreParCamp, Compte

(* A camp that wins is one that somebody of the winning team chose.          *)
LEMMA LeVainqueurEstChoisi ==
  ASSUME NEW b, NEW c \in campVainqueur(b)
  PROVE  c \in Camps /\ \E j \in Joueurs : entrees[j] = c
<1> DEFINE S == {j \in Joueurs : b.creneau[j] = b.vainqueur /\ entrees[j] = c}
<1>1. c \in Camps /\ Cardinality(S) > 0
  BY DEF campVainqueur
<1>2. S # {}
  BY <1>1, NombreDeJoueurs
<1> QED BY <1>1, <1>2

LEMMA Incremente ==
  ASSUME NEW n \in Compte, NEW c \in Camps, NEW k \in Nat
  PROVE  /\ [n EXCEPT ![c] = @ + k] \in Compte
         /\ \A d \in Camps : [n EXCEPT ![c] = @ + k][d] = IF d = c THEN n[d] + k ELSE n[d]
BY DEF Compte

-----------------------------------------------------------------------------
(* Records.                                                                  *)

LEMMA TypesDesRecords ==
  /\ SansPhoto \in Photos /\ SansCompte \in comptageFest
  /\ SansLecture \in Lecture
  /\ [j \in Joueurs |-> Aucun] \in [Joueurs -> Camps \cup {Aucun}]
<1>1. SansPhoto \in Photos
  BY TypeZero DEF SansPhoto, Photos
<1>2. SansCompte \in comptageFest
  BY <1>1, TypeZero DEF SansCompte, comptageFest
<1>3. SansLecture \in Lecture
  BY <1>1 DEF SansLecture, Lecture
<1> QED BY <1>1, <1>2, <1>3

LEMMA TypeOisif == Oisif \in Comptage
<1>1. [creneau |-> [j \in Joueurs |-> 0], vainqueur |-> 0, mode |-> SansMode] \in Verdicts
  BY DEF Verdicts
<1> QED BY <1>1, TypeZero DEF Oisif, Comptage

LEMMA TypeComptageFest ==
  ASSUME NEW n \in comptageFest
  PROVE  /\ n.victoires \in Compte /\ n.ferveur \in Compte
         /\ n.parMode \in [Modes -> Compte] /\ n.intermede \in Photos
BY DEF comptageFest

-----------------------------------------------------------------------------
(* Types.                                                                    *)

LEMMA TypageInit == Init => TypeOK
<1> SUFFICES ASSUME Init PROVE TypeOK
  OBVIOUS
<1> USE DEF Init
<1>1. /\ miTemps \in BOOLEAN /\ batailles \in Nat /\ redemarrages \in Nat
      /\ inscriptions \subseteq Joueurs \X Camps /\ reponses \subseteq Photos
  OBVIOUS
<1>2. /\ entrees \in [Joueurs -> Camps \cup {Aucun}]
      /\ entreesFichier \in [Joueurs -> Camps \cup {Aucun}]
  OBVIOUS
<1>3. compte \in comptageFest /\ compteFichier \in comptageFest /\ premiere \in comptageFest
  BY TypesDesRecords
<1>4. comptages \in [Arbitres -> Comptage] /\ lectures \in [Consoles -> Lecture]
  BY TypesDesRecords, TypeOisif
<1> HIDE DEF Init
<1> QED BY <1>1, <1>2, <1>3, <1>4 DEF TypeOK

(* What a counted victory and a counted ink make of the counts.              *)
LEMMA VictoirePas ==
  ASSUME TypeOK, NEW a \in Arbitres, enregistrerVictoireDeFete(a)
  PROVE  \/ UNCHANGED comptes
         \/ \E c \in campVainqueur(comptages[a].bataille) :
              /\ compteFichier' = compte'
              /\ compte' \in comptageFest
              /\ compte'.ferveur = compte.ferveur
              /\ compte'.intermede = compte.intermede
              /\ \A d \in Camps : compte'.victoires[d] >= compte.victoires[d]
              /\ \A m \in Modes, d \in Camps :
                   compte'.parMode[m][d] = compte.parMode[m][d] \/ d = c
<1> DEFINE b == comptages[a].bataille
<1>1. CASE campVainqueur(b) = {}
  BY <1>1 DEF enregistrerVictoireDeFete
<1>2. CASE campVainqueur(b) # {}
  <2> DEFINE un(n, c) == [n EXCEPT ![c] = @ + 1]
             v(c) == un(compte.victoires, c)
             p(c) == [m \in Modes |-> IF m = b.mode THEN un(compte.parMode[m], c)
                                                    ELSE compte.parMode[m]]
  <2>1. PICK c \in campVainqueur(b) :
          /\ compte' = [compte EXCEPT !.victoires = v(c), !.parMode = p(c)]
          /\ compteFichier' = compte'
    BY <1>2 DEF enregistrerVictoireDeFete, enregistrer
  <2>2. c \in Camps
    BY LeVainqueurEstChoisi
  <2>3. compte \in comptageFest
    BY DEF TypeOK
  <2>4. \A n \in Compte : /\ un(n, c) \in Compte
                          /\ \A d \in Camps : un(n, c)[d] >= n[d] /\ (un(n, c)[d] = n[d] \/ d = c)
    BY <2>2 DEF Compte
  <2>5. v(c) \in Compte /\ \A d \in Camps : v(c)[d] >= compte.victoires[d]
    BY <2>3, <2>4, TypeComptageFest
  <2>6. /\ p(c) \in [Modes -> Compte]
        /\ \A m \in Modes, d \in Camps : p(c)[m][d] = compte.parMode[m][d] \/ d = c
    <3> HIDE DEF un
    <3>1. \A m \in Modes : compte.parMode[m] \in Compte
      BY <2>3, TypeComptageFest
    <3> QED BY <2>4, <3>1
  <2> HIDE DEF v, p
  <2>7. /\ compte'.victoires = v(c) /\ compte'.parMode = p(c)
        /\ compte'.ferveur = compte.ferveur /\ compte'.intermede = compte.intermede
        /\ compte' \in comptageFest
    BY <2>1, <2>3, <2>5, <2>6 DEF comptageFest
  <2> QED BY <2>1, <2>5, <2>6, <2>7
<1> QED BY <1>1, <1>2

LEMMA FerveurPas ==
  ASSUME TypeOK, NEW a \in Arbitres, NEW c \in Camps, enregistrerFerveur(a, c)
  PROVE  /\ compteFichier' = compte'
         /\ compte' \in comptageFest
         /\ compte'.victoires = compte.victoires
         /\ compte'.parMode = compte.parMode
         /\ compte'.intermede = compte.intermede
         /\ \A d \in Camps : compte'.ferveur[d] >= compte.ferveur[d]
<1> DEFINE k == comptages[a].encre[c]
           f == [compte.ferveur EXCEPT ![c] = @ + k]
<1>1. k \in Nat /\ compte \in comptageFest
  BY DEF TypeOK, Comptage, Compte
<1>2. f \in Compte /\ \A d \in Camps : f[d] >= compte.ferveur[d]
  BY <1>1, TypeComptageFest DEF Compte
<1>3. compte' = [compte EXCEPT !.ferveur = f] /\ compteFichier' = compte'
  BY DEF enregistrerFerveur, enregistrer
<1> HIDE DEF f
<1> QED BY <1>1, <1>2, <1>3 DEF comptageFest

LEMMA FigerPas ==
  ASSUME TypeOK, NEW k \in Consoles, figerIntermede(k)
  PROVE  \/ intermedeFige /\ UNCHANGED comptes
         \/ /\ ~intermedeFige
            /\ compteFichier' = compte'
            /\ compte' \in comptageFest
            /\ compte'.victoires = compte.victoires
            /\ compte'.parMode = compte.parMode
            /\ compte'.ferveur = compte.ferveur
            /\ compte'.intermede = lectures[k].parts
<1>1. lectures[k].parts \in Photos /\ compte \in comptageFest
  BY DEF TypeOK, Lecture
<1> QED BY <1>1 DEF figerIntermede, enregistrer, comptageFest

LEMMA TypageCompte ==
  ASSUME TypeOK, [Next]_vars
  PROVE  compte' \in comptageFest /\ compteFichier' \in comptageFest
<1>1. compte \in comptageFest /\ compteFichier \in comptageFest
  BY DEF TypeOK
<1>2. ASSUME NEW a \in Arbitres, Compter(a) PROVE compte' \in comptageFest /\ compteFichier' \in comptageFest
  <2>1. CASE enregistrerVictoireDeFete(a)
    BY <1>1, <2>1, VictoirePas DEF comptes
  <2>2. ASSUME NEW c \in Camps, enregistrerFerveur(a, c)
        PROVE  compte' \in comptageFest /\ compteFichier' \in comptageFest
    BY <2>2, FerveurPas
  <2> QED BY <1>1, <1>2, <2>1, <2>2
        DEF Compter, compterLaBatailleDeFete, compterLaFerveurDeLaBataille, FinDuComptage, comptes
<1>3. ASSUME NEW k \in Consoles, Lire(k) PROVE compte' \in comptageFest /\ compteFichier' \in comptageFest
  <2>1. CASE figerIntermede(k)
    BY <1>1, <2>1, FigerPas DEF comptes
  <2> QED BY <1>1, <1>3, <2>1
        DEF Lire, GetFestResult, partsDeFerveur, partsDesVictoires, partsDuVote, Repondre, comptes
<1> QED BY <1>1, <1>2, <1>3 DEF Next, vars, comptes, CreateFestEntry, MidTime, Redemarrer, Repartir

LEMMA TypageEntrees ==
  ASSUME TypeOK, [Next]_vars
  PROVE  /\ entrees' \in [Joueurs -> Camps \cup {Aucun}]
         /\ entreesFichier' \in [Joueurs -> Camps \cup {Aucun}]
         /\ inscriptions' \subseteq Joueurs \X Camps
<1>1. ASSUME NEW j \in Joueurs, NEW c \in Voulus[j], CreateFestEntry(j, c)
      PROVE  /\ entrees' \in [Joueurs -> Camps \cup {Aucun}]
             /\ entreesFichier' \in [Joueurs -> Camps \cup {Aucun}]
             /\ inscriptions' \subseteq Joueurs \X Camps
  <2>1. c \in Camps
    BY LesCamps
  <2>2. entrees' \in [Joueurs -> Camps \cup {Aucun}] /\ entrees'[j] \in Camps
    BY <1>1, <2>1 DEF CreateFestEntry, TypeOK
  <2> QED BY <1>1, <2>2 DEF CreateFestEntry, TypeOK
<1>2. ASSUME NEW a \in Arbitres, Compter(a) PROVE UNCHANGED <<votants, inscriptions>>
  BY <1>2 DEF Compter, compterLaBatailleDeFete, enregistrerVictoireDeFete, vu,
       compterLaFerveurDeLaBataille, enregistrerFerveur, FinDuComptage
<1>3. ASSUME NEW k \in Consoles, Lire(k) PROVE UNCHANGED <<votants, inscriptions>>
  BY <1>3 DEF Lire, GetFestResult, partsDeFerveur, partsDesVictoires, partsDuVote, vu,
       figerIntermede, Repondre
<1> QED BY <1>1, <1>2, <1>3 DEF Next, vars, votants, vu, TypeOK, MidTime, Redemarrer, Repartir

LEMMA TypageComptages ==
  ASSUME TypeOK, [Next]_vars PROVE comptages' \in [Arbitres -> Comptage] /\ batailles' \in Nat
<1>1. comptages \in [Arbitres -> Comptage] /\ batailles \in Nat
  BY DEF TypeOK
<1>2. ASSUME NEW a \in Arbitres, Compter(a)
      PROVE  comptages' \in [Arbitres -> Comptage] /\ batailles' \in Nat
  <2>1. ASSUME NEW b \in Batailles, compterLaBatailleDeFete(a, b)
        PROVE  comptages' \in [Arbitres -> Comptage] /\ batailles' \in Nat
    <3>1. b \in Verdicts
      BY FestivalAssumption
    <3>2. [etape |-> IF intermedeFige THEN "encre" ELSE "victoire", bataille |-> b, encre |-> Zero]
            \in Comptage
      BY <3>1, TypeZero DEF Comptage
    <3> QED BY <1>1, <2>1, <3>2 DEF compterLaBatailleDeFete
  <2>2. CASE enregistrerVictoireDeFete(a)
    BY <1>1, <2>2 DEF enregistrerVictoireDeFete, Comptage
  <2>3. CASE compterLaFerveurDeLaBataille(a)
    <3>1. encreParCamp(comptages[a].bataille) \in Compte
      BY TypeEncre
    <3> QED BY <1>1, <2>3, <3>1, TypeZero DEF compterLaFerveurDeLaBataille, Comptage
  <2>4. ASSUME NEW c \in Camps, enregistrerFerveur(a, c)
        PROVE  comptages' \in [Arbitres -> Comptage] /\ batailles' \in Nat
    BY <1>1, <2>4 DEF enregistrerFerveur, Comptage, Compte
  <2>5. CASE FinDuComptage(a)
    BY <1>1, <2>5 DEF FinDuComptage, Comptage
  <2> QED BY <1>2, <2>1, <2>2, <2>3, <2>4, <2>5 DEF Compter
<1>3. ASSUME NEW k \in Consoles, Lire(k) PROVE UNCHANGED <<comptages, batailles>>
  BY <1>3 DEF Lire, GetFestResult, partsDeFerveur, partsDesVictoires, partsDuVote,
       figerIntermede, Repondre
<1> QED BY <1>1, <1>2, <1>3, TypeOisif
      DEF Next, vars, appels, CreateFestEntry, MidTime, Redemarrer, Repartir

LEMMA TypageLectures ==
  ASSUME TypeOK, [Next]_vars PROVE lectures' \in [Consoles -> Lecture]
<1>1. lectures \in [Consoles -> Lecture]
  BY DEF TypeOK
<1>2. ASSUME NEW k \in Consoles, Lire(k) PROVE lectures' \in [Consoles -> Lecture]
  <2>1. \A o \in {"ferveur", "victoires", "vote"}, n \in Compte :
          [etape |-> "figer", parts |-> [origine |-> o, parts |-> n]] \in Lecture
    BY DEF Lecture, Photos
  <2>2. compte.ferveur \in Compte /\ compte.victoires \in Compte
    BY TypeComptageFest DEF TypeOK
  <2>3. \A e \in {"ferveur", "victoires", "vote", "relire"} :
          [lectures EXCEPT ![k].etape = e] \in [Consoles -> Lecture]
    BY <1>1 DEF Lecture
  <2>4. \A l \in Lecture : [lectures EXCEPT ![k] = l] \in [Consoles -> Lecture]
    BY <1>1
  <2>5. ASSUME NEW o \in {"ferveur", "victoires", "vote"}, NEW n \in Compte, Proposer(k, o, n)
        PROVE  lectures' \in [Consoles -> Lecture]
    BY <2>1, <2>4, <2>5 DEF Proposer
  <2>6. CASE GetFestResult(k)
    BY <1>1, <2>3, <2>6 DEF GetFestResult
  <2>7. CASE partsDeFerveur(k)
    BY <2>2, <2>3, <2>5, <2>7 DEF partsDeFerveur
  <2>8. CASE partsDesVictoires(k)
    BY <2>2, <2>3, <2>5, <2>8 DEF partsDesVictoires
  <2>9. CASE partsDuVote(k)
    BY <2>5, <2>9, TypeVotes DEF partsDuVote
  <2>10. CASE figerIntermede(k)
    BY <2>3, <2>10 DEF figerIntermede
  <2>11. CASE Repondre(k)
    BY <2>4, <2>11, TypesDesRecords DEF Repondre
  <2> QED BY <1>2, <2>6, <2>7, <2>8, <2>9, <2>10, <2>11 DEF Lire
<1>3. ASSUME NEW a \in Arbitres, Compter(a) PROVE UNCHANGED lectures
  BY <1>3 DEF Compter, compterLaBatailleDeFete, enregistrerVictoireDeFete,
       compterLaFerveurDeLaBataille, enregistrerFerveur, FinDuComptage
<1> QED BY <1>1, <1>2, <1>3, TypesDesRecords
      DEF Next, vars, appels, CreateFestEntry, MidTime, Redemarrer, Repartir

LEMMA TypageVu ==
  ASSUME TypeOK, [Next]_vars
  PROVE  /\ miTemps' \in BOOLEAN /\ redemarrages' \in Nat
         /\ reponses' \subseteq Photos /\ premiere' \in comptageFest
<1>1. /\ miTemps \in BOOLEAN /\ redemarrages \in Nat /\ reponses \subseteq Photos
      /\ premiere \in comptageFest /\ compte \in comptageFest /\ compte.intermede \in Photos
  BY TypeComptageFest DEF TypeOK
<1>2. ASSUME NEW a \in Arbitres, Compter(a) PROVE UNCHANGED <<miTemps, redemarrages, vu>>
  BY <1>2 DEF Compter, compterLaBatailleDeFete, enregistrerVictoireDeFete,
       compterLaFerveurDeLaBataille, enregistrerFerveur, FinDuComptage
<1>3. ASSUME NEW k \in Consoles, Lire(k)
      PROVE  UNCHANGED <<miTemps, redemarrages, premiere>> /\ reponses' \subseteq Photos
  BY <1>1, <1>3 DEF Lire, GetFestResult, partsDeFerveur, partsDesVictoires, partsDuVote,
       figerIntermede, Repondre, vu
<1>4. ASSUME NEW j \in Joueurs, NEW c \in Voulus[j], CreateFestEntry(j, c)
      PROVE  UNCHANGED <<miTemps, redemarrages, reponses, premiere>>
  BY <1>4 DEF CreateFestEntry
<1>5. CASE MidTime
  BY <1>1, <1>5 DEF MidTime
<1>6. CASE Redemarrer
  BY <1>1, <1>6 DEF Redemarrer, Repartir, vu
<1>7. CASE UNCHANGED vars
  BY <1>1, <1>7 DEF vars, vu
<1> QED BY <1>1, <1>2, <1>3, <1>4, <1>5, <1>6, <1>7 DEF Next, vu

LEMMA TypagePas == ASSUME TypeOK, [Next]_vars PROVE TypeOK'
BY TypageCompte, TypageEntrees, TypageComptages, TypageLectures, TypageVu DEF TypeOK

(* Every reachable state of the festival is well typed (fest_intermede.go,   *)
(* fest_entries.go), for any camps, players and consoles.                    *)
THEOREM FestivalTypeCorrect == Spec => []TypeOK
<1>1. Init => TypeOK
  BY TypageInit
<1>2. TypeOK /\ [Next]_vars => TypeOK'
  BY TypagePas
<1> QED BY <1>1, <1>2, PTL DEF Spec

-----------------------------------------------------------------------------
(* What a step does to the counts and to the photo.                          *)

(* Counts grow; the photo stays, unless a console takes it.                  *)
LEMMA ComptePas ==
  ASSUME TypeOK, FichiersInv, [Next]_vars
  PROVE  /\ FichiersInv'
         /\ \A c \in Camps : compte'.ferveur[c] >= compte.ferveur[c]
         /\ \A c \in Camps : compte'.victoires[c] >= compte.victoires[c]
         /\ \/ compte'.intermede = compte.intermede
            \/ \E k \in Consoles : /\ figerIntermede(k)
                                   /\ ~intermedeFige
                                   /\ compte'.intermede = lectures[k].parts
<1> DEFINE But == /\ FichiersInv'
                  /\ \A c \in Camps : compte'.ferveur[c] >= compte.ferveur[c]
                  /\ \A c \in Camps : compte'.victoires[c] >= compte.victoires[c]
                  /\ \/ compte'.intermede = compte.intermede
                     \/ \E k \in Consoles : /\ figerIntermede(k)
                                            /\ ~intermedeFige
                                            /\ compte'.intermede = lectures[k].parts
<1>1. \A c \in Camps : compte.ferveur[c] \in Nat /\ compte.victoires[c] \in Nat
  BY TypeComptageFest DEF TypeOK, Compte
<1>2. UNCHANGED <<votants, comptes>> => But
  BY <1>1 DEF FichiersInv, votants, comptes
<1>3. ASSUME NEW j \in Joueurs, NEW c \in Voulus[j], CreateFestEntry(j, c) PROVE But
  BY <1>1, <1>3 DEF CreateFestEntry, FichiersInv, comptes
<1>4. ASSUME NEW a \in Arbitres, Compter(a) PROVE But
  <2>1. UNCHANGED votants
    BY <1>4 DEF Compter, compterLaBatailleDeFete, enregistrerVictoireDeFete,
         compterLaFerveurDeLaBataille, enregistrerFerveur, FinDuComptage
  <2>2. CASE enregistrerVictoireDeFete(a)
    BY <1>1, <1>2, <2>1, <2>2, VictoirePas DEF FichiersInv, votants
  <2>3. ASSUME NEW c \in Camps, enregistrerFerveur(a, c) PROVE But
    BY <1>1, <2>1, <2>3, FerveurPas DEF FichiersInv, votants
  <2>4. CASE \/ \E b \in Batailles : compterLaBatailleDeFete(a, b)
             \/ compterLaFerveurDeLaBataille(a) \/ FinDuComptage(a)
    BY <1>2, <2>1, <2>4 DEF compterLaBatailleDeFete, compterLaFerveurDeLaBataille, FinDuComptage
  <2> QED BY <1>4, <2>2, <2>3, <2>4 DEF Compter
<1>5. ASSUME NEW k \in Consoles, Lire(k) PROVE But
  <2>1. CASE figerIntermede(k)
    <3>1. UNCHANGED votants
      BY <2>1 DEF figerIntermede
    <3> QED BY <1>1, <1>2, <2>1, <3>1, FigerPas DEF FichiersInv, votants
  <2>2. CASE ~figerIntermede(k)
    BY <1>2, <1>5, <2>2 DEF Lire, GetFestResult, partsDeFerveur, partsDesVictoires, partsDuVote,
         Repondre
  <2> QED BY <2>1, <2>2
<1>6. CASE MidTime
  BY <1>2, <1>6 DEF MidTime
<1>7. CASE Redemarrer
  BY <1>1, <1>7 DEF Redemarrer, Repartir, FichiersInv
<1>8. CASE UNCHANGED vars
  BY <1>2, <1>8 DEF vars
<1> QED BY <1>3, <1>4, <1>5, <1>6, <1>7, <1>8 DEF Next

-----------------------------------------------------------------------------
(* Registrations.                                                            *)

LEMMA InscriptionsPas ==
  ASSUME TypeOK, FichiersInv, InscriptionsInv, [Next]_vars
  PROVE  /\ InscriptionsInv'
         /\ \A j \in Joueurs : entrees[j] # Aucun => entrees'[j] = entrees[j]
<1>1. entrees \in [Joueurs -> Camps \cup {Aucun}]
  BY DEF TypeOK
<1>2. inscriptions \subseteq Joueurs \X Camps
  BY DEF TypeOK
<1>3. ASSUME NEW j \in Joueurs, NEW c \in Voulus[j], CreateFestEntry(j, c)
      PROVE  /\ InscriptionsInv'
             /\ \A i \in Joueurs : entrees[i] # Aucun => entrees'[i] = entrees[i]
  <2>1. \A i \in Joueurs : entrees[i] # Aucun => entrees'[i] = entrees[i]
    BY <1>1, <1>3 DEF CreateFestEntry
  <2>2. inscriptions' = inscriptions \cup {<<j, entrees'[j]>>}
    BY <1>3 DEF CreateFestEntry
  <2>3. ASSUME NEW x \in inscriptions PROVE entrees'[x[1]] = x[2]
    <3>1. x[1] \in Joueurs /\ x[2] \in Camps
      BY <1>2
    <3>2. entrees[x[1]] = x[2]
      BY DEF InscriptionsInv
    <3> QED BY <2>1, <3>1, <3>2, LesCamps
  <2>4. ASSUME NEW x, x = <<j, entrees'[j]>> PROVE entrees'[x[1]] = x[2]
    BY <2>4
  <2> QED BY <2>1, <2>2, <2>3, <2>4 DEF InscriptionsInv
<1>4. UNCHANGED <<entrees, inscriptions>> =>
        /\ InscriptionsInv'
        /\ \A i \in Joueurs : entrees[i] # Aucun => entrees'[i] = entrees[i]
  BY DEF InscriptionsInv
<1>5. ASSUME NEW a \in Arbitres, Compter(a) PROVE UNCHANGED <<entrees, inscriptions>>
  BY <1>5 DEF Compter, compterLaBatailleDeFete, enregistrerVictoireDeFete, votants, vu,
       compterLaFerveurDeLaBataille, enregistrerFerveur, FinDuComptage
<1>6. ASSUME NEW k \in Consoles, Lire(k) PROVE UNCHANGED <<entrees, inscriptions>>
  BY <1>6 DEF Lire, GetFestResult, partsDeFerveur, partsDesVictoires, partsDuVote, votants, vu,
       figerIntermede, Repondre
<1>7. CASE Redemarrer
  BY <1>4, <1>7 DEF Redemarrer, Repartir, FichiersInv, vu
<1>8. CASE MidTime
  BY <1>4, <1>8 DEF MidTime, votants
<1>9. CASE UNCHANGED vars
  BY <1>4, <1>9 DEF vars, votants, vu
<1> QED BY <1>3, <1>4, <1>5, <1>6, <1>7, <1>8, <1>9 DEF Next

(* Whatever a player asks for later and whatever restarts, CreateFestEntry   *)
(* (fest_entries.go) tells him one camp.                                     *)
THEOREM EntriesStayKept == Spec => []EntriesAreKept
<1> DEFINE Inv == TypeOK /\ FichiersInv /\ InscriptionsInv
<1>1. Init => Inv
  BY TypageInit DEF Init, FichiersInv, InscriptionsInv
<1>2. Inv /\ [Next]_vars => Inv'
  BY TypagePas, ComptePas, InscriptionsPas
<1>3. Inv => EntriesAreKept
  BY DEF InscriptionsInv, EntriesAreKept
<1> QED BY <1>1, <1>2, <1>3, PTL DEF Spec

-----------------------------------------------------------------------------
(* The photo.                                                                *)

LEMMA LaPhotoReste ==
  ASSUME TypeOK, FichiersInv, [Next]_vars, intermedeFige
  PROVE  compte'.intermede = compte.intermede /\ intermedeFige'
BY ComptePas DEF intermedeFige

(* A console moves from one step of its reading to another, or stays.        *)
LEMMA LecturesPas ==
  ASSUME TypeOK, [Next]_vars, NEW k \in Consoles
  PROVE  \/ lectures'[k] = lectures[k]
         \/ lectures'[k] = SansLecture
         \/ GetFestResult(k) /\ ~intermedeFige
         \/ partsDeFerveur(k) \/ partsDesVictoires(k) \/ partsDuVote(k)
         \/ figerIntermede(k)
<1>1. lectures \in [Consoles -> Lecture]
  BY DEF TypeOK
<1>2. ASSUME NEW a \in Arbitres, Compter(a) PROVE UNCHANGED lectures
  BY <1>2 DEF Compter, compterLaBatailleDeFete, enregistrerVictoireDeFete,
       compterLaFerveurDeLaBataille, enregistrerFerveur, FinDuComptage
<1>3. ASSUME NEW i \in Consoles, Lire(i), i # k PROVE lectures'[k] = lectures[k]
  BY <1>1, <1>3 DEF Lire, GetFestResult, partsDeFerveur, partsDesVictoires, partsDuVote,
       Proposer, figerIntermede, Repondre
<1>4. CASE Lire(k)
  <2>1. CASE GetFestResult(k)
    BY <2>1 DEF GetFestResult
  <2>2. CASE Repondre(k)
    BY <1>1, <2>2 DEF Repondre
  <2> QED BY <1>4, <2>1, <2>2 DEF Lire
<1>5. CASE Redemarrer
  BY <1>5 DEF Redemarrer, Repartir
<1> QED BY <1>2, <1>3, <1>4, <1>5 DEF Next, vars, appels, CreateFestEntry, MidTime

LEMMA ReponsesPas ==
  ASSUME TypeOK, PhotoInv, [Next]_vars
  PROVE  reponses' = reponses \/ (intermedeFige /\ reponses' = reponses \cup {compte.intermede})
<1>1. ASSUME NEW a \in Arbitres, Compter(a) PROVE UNCHANGED reponses
  BY <1>1 DEF Compter, compterLaBatailleDeFete, enregistrerVictoireDeFete, vu,
       compterLaFerveurDeLaBataille, enregistrerFerveur, FinDuComptage
<1>2. ASSUME NEW k \in Consoles, Lire(k)
      PROVE  \/ reponses' = reponses
             \/ intermedeFige /\ reponses' = reponses \cup {compte.intermede}
  <2>1. CASE GetFestResult(k)
    BY <2>1 DEF GetFestResult
  <2>2. CASE Repondre(k)
    BY <2>2 DEF Repondre, PhotoInv
  <2> QED BY <1>2, <2>1, <2>2
        DEF Lire, partsDeFerveur, partsDesVictoires, partsDuVote, figerIntermede, vu
<1> QED BY <1>1, <1>2 DEF Next, vars, vu, CreateFestEntry, MidTime, Redemarrer, Repartir

LEMMA PhotoPas ==
  ASSUME TypeOK, FichiersInv, PhotoInv, [Next]_vars PROVE PhotoInv'
<1>1. ASSUME NEW x \in reponses' PROVE intermedeFige' /\ x = compte'.intermede
  BY ReponsesPas, LaPhotoReste DEF PhotoInv
<1>2. lectures \in [Consoles -> Lecture]
  BY DEF TypeOK
<1>3. ASSUME NEW k \in Consoles
      PROVE  /\ Lit(k, "relire")' => intermedeFige'
             /\ Lit(k, "figer")' => lectures'[k].parts.origine # "aucune"
  <2>1. CASE lectures'[k] = lectures[k]
    BY <2>1, LaPhotoReste DEF PhotoInv, Lit
  <2>2. CASE lectures'[k] = SansLecture
    BY <2>2 DEF SansLecture, Lit
  <2>3. CASE GetFestResult(k) /\ ~intermedeFige
    <3>1. lectures'[k].etape = "ferveur"
      BY <1>2, <2>3 DEF GetFestResult, Lecture
    <3> QED BY <3>1 DEF Lit
  <2>4. CASE partsDeFerveur(k)
    <3>1. \/ lectures'[k].etape = "victoires"
          \/ lectures'[k].etape = "figer" /\ lectures'[k].parts.origine = "ferveur"
      BY <1>2, <2>4 DEF partsDeFerveur, Proposer, Lecture
    <3> QED BY <3>1 DEF Lit
  <2>5. CASE partsDesVictoires(k)
    <3>1. \/ lectures'[k].etape = "vote"
          \/ lectures'[k].etape = "figer" /\ lectures'[k].parts.origine = "victoires"
      BY <1>2, <2>5 DEF partsDesVictoires, Proposer, Lecture
    <3> QED BY <3>1 DEF Lit
  <2>6. CASE partsDuVote(k)
    <3>1. lectures'[k].etape = "figer" /\ lectures'[k].parts.origine = "vote"
      BY <1>2, <2>6 DEF partsDuVote, Proposer, Lecture
    <3> QED BY <3>1 DEF Lit
  <2>7. CASE figerIntermede(k)
    <3>1. lectures'[k].etape = "relire"
      BY <1>2, <2>7 DEF figerIntermede, Lecture
    <3>2. lectures[k].parts.origine # "aucune"
      BY <2>7 DEF figerIntermede, PhotoInv
    <3>3. lectures[k].parts # SansPhoto
      BY <3>2 DEF SansPhoto
    <3>4. intermedeFige'
      BY <2>7, <3>3, FigerPas, LaPhotoReste DEF intermedeFige
    <3> QED BY <3>1, <3>4 DEF Lit
  <2> QED BY <2>1, <2>2, <2>3, <2>4, <2>5, <2>6, <2>7, LecturesPas
<1> QED BY <1>1, <1>3 DEF PhotoInv

LEMMA PhotoToujours == Spec => [](TypeOK /\ FichiersInv /\ PhotoInv)
<1> DEFINE Inv == TypeOK /\ FichiersInv /\ PhotoInv
<1>1. Init => Inv
  BY TypageInit DEF Init, FichiersInv, PhotoInv, Lit, SansLecture
<1>2. Inv /\ [Next]_vars => Inv'
  BY TypagePas, ComptePas, PhotoPas
<1> QED BY <1>1, <1>2, PTL DEF Spec

(* However many consoles compute the midterm at once from counts that move   *)
(* (honsaiMidtermDeLaFete), they are all told the same.                      *)
THEOREM AnswersStayOne == Spec => []AnswersAgree
<1>1. TypeOK /\ FichiersInv /\ PhotoInv => AnswersAgree
  BY DEF PhotoInv, AnswersAgree
<1> QED BY <1>1, PhotoToujours, PTL

(* The camp that defends (campDefenseur) is designated once.                 *)
THEOREM DefenderStaysFixed == Spec => DefenderIsFixed
<1>1. ASSUME TypeOK, FichiersInv, [Next]_vars, campDefenseur # {}
      PROVE  campDefenseur' = campDefenseur
  BY <1>1, LaPhotoReste DEF campDefenseur, EnTete
<1>2. TypeOK /\ FichiersInv /\ [Next]_vars => [campDefenseur # {} => campDefenseur' = campDefenseur]_vars
  BY <1>1
<1> QED BY <1>2, PhotoToujours, PTL DEF Spec, DefenderIsFixed

-----------------------------------------------------------------------------
(* The first half.                                                           *)

LEMMA TempsPas ==
  ASSUME TypeOK, [Next]_vars
  PROVE  \/ /\ UNCHANGED <<miTemps, premiere>>
         \/ /\ ~miTemps /\ miTemps' /\ premiere' = compte
            /\ UNCHANGED <<comptes, lectures>>
<1>1. ASSUME NEW a \in Arbitres, Compter(a) PROVE UNCHANGED <<miTemps, premiere>>
  BY <1>1 DEF Compter, compterLaBatailleDeFete, enregistrerVictoireDeFete, vu,
       compterLaFerveurDeLaBataille, enregistrerFerveur, FinDuComptage
<1>2. ASSUME NEW k \in Consoles, Lire(k) PROVE UNCHANGED <<miTemps, premiere>>
  BY <1>2 DEF Lire, GetFestResult, partsDeFerveur, partsDesVictoires, partsDuVote, vu,
       figerIntermede, Repondre
<1>3. CASE MidTime
  BY <1>3 DEF MidTime, appels
<1> QED BY <1>1, <1>2, <1>3 DEF Next, vars, vu, CreateFestEntry, Redemarrer, Repartir

LEMMA HonneteReste ==
  ASSUME NEW p, Honnete(p), premiere' = premiere PROVE Honnete(p)'
BY DEF Honnete, Vide

(* A count that is still empty was empty when mid_time passed.               *)
LEMMA VideAlors ==
  ASSUME TypeOK, PremiereInv, miTemps
  PROVE  /\ Vide(compte.ferveur) => Vide(premiere.ferveur)
         /\ Vide(compte.victoires) => Vide(premiere.victoires)
<1>1. \A c \in Camps : /\ premiere.ferveur[c] \in Nat /\ premiere.victoires[c] \in Nat
                       /\ compte.ferveur[c] \in Nat /\ compte.victoires[c] \in Nat
  BY TypeComptageFest DEF TypeOK, Compte
<1>2. \A c \in Camps : /\ compte.ferveur[c] >= premiere.ferveur[c]
                       /\ compte.victoires[c] >= premiere.victoires[c]
  BY DEF PremiereInv
<1> QED BY <1>1, <1>2 DEF Vide

LEMMA PremierePas ==
  ASSUME TypeOK, FichiersInv, PremiereInv, [Next]_vars PROVE PremiereInv'
<1>1. lectures \in [Consoles -> Lecture]
  BY DEF TypeOK
<1>2. \A k \in Consoles : ~Lit(k, "repos") => miTemps
  BY DEF PremiereInv
<1>3. ~miTemps' => ~intermedeFige' /\ \A k \in Consoles : Lit(k, "repos")'
  <2> SUFFICES ASSUME ~miTemps' PROVE ~intermedeFige' /\ \A k \in Consoles : Lit(k, "repos")'
    OBVIOUS
  <2>1. ~miTemps /\ ~intermedeFige /\ \A k \in Consoles : Lit(k, "repos")
    BY TempsPas DEF PremiereInv
  <2>2. ASSUME NEW k \in Consoles
        PROVE  lectures'[k] = lectures[k] \/ lectures'[k] = SansLecture
    BY <2>1, LecturesPas DEF GetFestResult, partsDeFerveur, partsDesVictoires, partsDuVote,
       figerIntermede, Lit
  <2>3. \A k \in Consoles : ~figerIntermede(k)
    BY <2>1 DEF figerIntermede, Lit
  <2>4. ~intermedeFige'
    BY <2>1, <2>3, ComptePas DEF intermedeFige
  <2> QED BY <2>1, <2>2, <2>4 DEF Lit, SansLecture
<1>4. ASSUME miTemps', NEW c \in Camps
      PROVE  /\ compte'.ferveur[c] >= premiere'.ferveur[c]
             /\ compte'.victoires[c] >= premiere'.victoires[c]
  <2>1. /\ compte.ferveur[c] \in Nat /\ compte.victoires[c] \in Nat
        /\ compte'.ferveur[c] \in Nat /\ compte'.victoires[c] \in Nat
        /\ premiere.ferveur[c] \in Nat /\ premiere.victoires[c] \in Nat
    BY TypagePas, TypeComptageFest DEF TypeOK, Compte
  <2>2. CASE UNCHANGED <<miTemps, premiere>>
    <3>1. /\ compte.ferveur[c] >= premiere.ferveur[c]
          /\ compte.victoires[c] >= premiere.victoires[c]
      BY <1>4, <2>2 DEF PremiereInv
    <3>2. /\ compte'.ferveur[c] >= compte.ferveur[c]
          /\ compte'.victoires[c] >= compte.victoires[c]
      BY ComptePas
    <3> QED BY <2>1, <2>2, <3>1, <3>2
  <2>3. CASE premiere' = compte /\ UNCHANGED <<comptes, lectures>>
    BY <2>1, <2>3 DEF comptes
  <2> QED BY <2>2, <2>3, TempsPas
<1>5. ASSUME NEW k \in Consoles
      PROVE  /\ Lit(k, "victoires")' => Vide(premiere.ferveur)'
             /\ Lit(k, "vote")' => Vide(premiere.ferveur)' /\ Vide(premiere.victoires)'
             /\ Lit(k, "figer")' => Honnete(lectures[k].parts)'
  <2>1. CASE ~miTemps
    <3>1. Lit(k, "repos")
      BY <2>1 DEF PremiereInv
    <3>2. CASE lectures'[k] = lectures[k] \/ lectures'[k] = SansLecture
      BY <3>1, <3>2 DEF Lit, SansLecture
    <3>3. CASE GetFestResult(k) \/ partsDeFerveur(k) \/ partsDesVictoires(k)
               \/ partsDuVote(k) \/ figerIntermede(k)
      BY <2>1, <3>1, <3>3 DEF GetFestResult, partsDeFerveur, partsDesVictoires, partsDuVote,
         figerIntermede, Lit
    <3> QED BY <3>2, <3>3, LecturesPas
  <2>2. CASE miTemps
    <3>1. premiere' = premiere
      BY <2>2, TempsPas
    <3>2. /\ Lit(k, "victoires") => Vide(premiere.ferveur)
          /\ Lit(k, "vote") => Vide(premiere.ferveur) /\ Vide(premiere.victoires)
          /\ Lit(k, "figer") => Honnete(lectures[k].parts)
      BY DEF PremiereInv
    <3>3. Vide(premiere.ferveur) => Vide(premiere.ferveur)'
      BY <3>1 DEF Vide
    <3>4. Vide(premiere.victoires) => Vide(premiere.victoires)'
      BY <3>1 DEF Vide
    <3>5. CASE lectures'[k] = lectures[k]
      <4>1. Honnete(lectures[k].parts) => Honnete(lectures[k].parts)'
        BY <3>1, <3>5 DEF Honnete, Vide
      <4> QED BY <3>2, <3>3, <3>4, <3>5, <4>1 DEF Lit
    <3>6. CASE lectures'[k] = SansLecture
      BY <3>6 DEF Lit, SansLecture
    <3>7. CASE GetFestResult(k) /\ ~intermedeFige
      <4>1. lectures'[k].etape = "ferveur"
        BY <1>1, <3>7 DEF GetFestResult, Lecture
      <4> QED BY <4>1 DEF Lit
    <3>8. CASE partsDeFerveur(k)
      <4>1. CASE Vide(compte.ferveur)
        <5>1. lectures'[k].etape = "victoires"
          BY <1>1, <3>8, <4>1 DEF partsDeFerveur, Lecture
        <5> QED BY <2>2, <3>3, <4>1, <5>1, VideAlors DEF Lit
      <4>2. CASE ~Vide(compte.ferveur)
        <5>1. lectures'[k] = [etape |-> "figer",
                              parts |-> [origine |-> "ferveur", parts |-> compte.ferveur]]
          BY <1>1, <3>8, <4>2 DEF partsDeFerveur, Proposer
        <5>2. Honnete(lectures[k].parts)'
          BY <2>2, <3>1, <5>1 DEF Honnete, PremiereInv
        <5> QED BY <5>1, <5>2 DEF Lit
      <4> QED BY <4>1, <4>2
    <3>9. CASE partsDesVictoires(k)
      <4>0. Vide(premiere.ferveur)'
        BY <3>2, <3>3, <3>9 DEF partsDesVictoires
      <4>1. CASE Vide(compte.victoires)
        <5>1. lectures'[k].etape = "vote"
          BY <1>1, <3>9, <4>1 DEF partsDesVictoires, Lecture
        <5> QED BY <2>2, <3>4, <4>0, <4>1, <5>1, VideAlors DEF Lit
      <4>2. CASE ~Vide(compte.victoires)
        <5>1. lectures'[k] = [etape |-> "figer",
                              parts |-> [origine |-> "victoires", parts |-> compte.victoires]]
          BY <1>1, <3>9, <4>2 DEF partsDesVictoires, Proposer
        <5>2. Honnete(lectures[k].parts)'
          BY <2>2, <3>1, <4>0, <5>1 DEF Honnete, PremiereInv
        <5> QED BY <5>1, <5>2 DEF Lit
      <4> QED BY <4>1, <4>2
    <3>10. CASE partsDuVote(k)
      <4>1. lectures'[k] = [etape |-> "figer",
                            parts |-> [origine |-> "vote", parts |-> yobisaiDeLaFete]]
        BY <1>1, <3>10 DEF partsDuVote, Proposer
      <4>2. Vide(premiere.ferveur)' /\ Vide(premiere.victoires)'
        BY <3>2, <3>3, <3>4, <3>10 DEF partsDuVote
      <4>3. Honnete(lectures[k].parts)'
        BY <4>1, <4>2 DEF Honnete
      <4> QED BY <4>1, <4>3 DEF Lit
    <3>11. CASE figerIntermede(k)
      <4>1. lectures'[k].etape = "relire"
        BY <1>1, <3>11 DEF figerIntermede, Lecture
      <4> QED BY <4>1 DEF Lit
    <3> QED BY <3>5, <3>6, <3>7, <3>8, <3>9, <3>10, <3>11, LecturesPas
  <2> QED BY <2>1, <2>2
<1>6. MidtermCountsFirstHalf'
  <2> SUFFICES ASSUME intermedeFige' PROVE Honnete(compte.intermede)'
    BY DEF MidtermCountsFirstHalf
  <2>1. CASE compte'.intermede = compte.intermede
    <3>1. intermedeFige' => intermedeFige
      BY <2>1 DEF intermedeFige
    <3>2. intermedeFige => miTemps /\ Honnete(compte.intermede)
      BY DEF PremiereInv, MidtermCountsFirstHalf
    <3>3. miTemps => premiere' = premiere
      BY TempsPas
    <3> QED BY <2>1, <3>1, <3>2, <3>3 DEF Honnete, Vide
  <2>2. ASSUME NEW k \in Consoles, figerIntermede(k), compte'.intermede = lectures[k].parts
        PROVE  Honnete(compte.intermede)'
    <3>1. Lit(k, "figer")
      BY <2>2 DEF figerIntermede
    <3>2. miTemps /\ Honnete(lectures[k].parts)
      BY <1>2, <3>1 DEF PremiereInv, Lit
    <3>3. premiere' = premiere
      BY <3>2, TempsPas
    <3> QED BY <2>2, <3>2, <3>3 DEF Honnete, Vide
  <2> QED BY <2>1, <2>2, ComptePas
<1> QED BY <1>3, <1>4, <1>5, <1>6 DEF PremiereInv

(* The midterm rests on all that was counted in the first half: ink before   *)
(* victories, victories before votes (honsaiMidtermDeLaFete), and nothing is *)
(* lost to a restart that does not cut a write.                              *)
THEOREM FirstHalfCounts == Spec => []MidtermCountsFirstHalf
<1> DEFINE Inv == TypeOK /\ FichiersInv /\ PremiereInv
<1>1. Init => Inv
  <2> SUFFICES ASSUME Init PROVE Inv
    OBVIOUS
  <2>1. PremiereInv
    BY DEF Init, PremiereInv, MidtermCountsFirstHalf, intermedeFige, SansCompte, Lit,
       SansLecture
  <2> QED BY <2>1, TypageInit DEF Init, FichiersInv
<1>2. Inv /\ [Next]_vars => Inv'
  BY TypagePas, ComptePas, PremierePas
<1>3. Inv => MidtermCountsFirstHalf
  BY DEF PremiereInv
<1> QED BY <1>1, <1>2, <1>3, PTL DEF Spec

-----------------------------------------------------------------------------
(* The points.                                                               *)

LEMMA VictoiresPas ==
  ASSUME TypeOK, FichiersInv, InscriptionsInv, VictoiresInv, [Next]_vars PROVE VictoiresInv'
<1>1. \A c \in Camps : (\E j \in Joueurs : entrees[j] = c) => \E j \in Joueurs : entrees'[j] = c
  BY InscriptionsPas, LesCamps
<1>2. compte'.parMode = compte.parMode => VictoiresInv'
  BY <1>1 DEF VictoiresInv
<1>3. ASSUME NEW a \in Arbitres, Compter(a) PROVE VictoiresInv'
  <2>1. CASE enregistrerVictoireDeFete(a)
    <3>1. CASE UNCHANGED comptes
      BY <1>2, <3>1 DEF comptes
    <3>2. ASSUME NEW c \in campVainqueur(comptages[a].bataille),
                 \A m \in Modes, d \in Camps :
                   compte'.parMode[m][d] = compte.parMode[m][d] \/ d = c
          PROVE  VictoiresInv'
      <4>1. \E j \in Joueurs : entrees[j] = c
        BY LeVainqueurEstChoisi
      <4> QED BY <1>1, <3>2, <4>1 DEF VictoiresInv
    <3> QED BY <2>1, <3>1, <3>2, VictoirePas
  <2>2. ASSUME NEW c \in Camps, enregistrerFerveur(a, c) PROVE VictoiresInv'
    BY <1>2, <2>2, FerveurPas
  <2>3. CASE UNCHANGED comptes
    BY <1>2, <2>3 DEF comptes
  <2> QED BY <1>3, <2>1, <2>2, <2>3
        DEF Compter, compterLaBatailleDeFete, compterLaFerveurDeLaBataille, FinDuComptage
<1>4. ASSUME NEW k \in Consoles, Lire(k) PROVE VictoiresInv'
  <2>1. CASE figerIntermede(k)
    BY <1>2, <2>1, FigerPas DEF comptes
  <2>2. CASE UNCHANGED comptes
    BY <1>2, <2>2 DEF comptes
  <2> QED BY <1>4, <2>1, <2>2
        DEF Lire, GetFestResult, partsDeFerveur, partsDesVictoires, partsDuVote, Repondre
<1>5. CASE Redemarrer
  BY <1>2, <1>5 DEF Redemarrer, Repartir, FichiersInv
<1> QED BY <1>2, <1>3, <1>4, <1>5 DEF Next, vars, comptes, CreateFestEntry, MidTime

(* A camp the count leaves at zero has no better place than the third.       *)
LEMMA LesDerniers ==
  ASSUME NEW n \in Compte, NEW c \in Camps, n[c] = 0
  PROVE  placesAvecEgalites(n)[c] \in Nat /\ placesAvecEgalites(n)[c] >= 2
<1>1. {d \in Camps \ {c} : n[d] >= n[c]} = Camps \ {c}
  BY DEF Compte
<1>2. IsFiniteSet(Camps) /\ Cardinality(Camps) \in Nat /\ Cardinality(Camps) >= 3
  BY FestivalAssumption, FS_CardinalityType
<1>3. Cardinality(Camps \ {c}) = Cardinality(Camps) - 1
  BY <1>2, FS_RemoveElement
<1> QED BY <1>1, <1>2, <1>3 DEF placesAvecEgalites

LEMMA SansPoint ==
  ASSUME NEW critere \in Criteres, NEW place \in Nat, place >= 2
  PROVE  pointsDuCritere(critere, place) = 0
BY DEF pointsDuCritere, poidsDuBareme, Criteres

(* Once somebody voted, a camp nobody chose gets no point (placesAvecEgalites *)
(* of fest_bareme.go), whatever was counted by then.                         *)
THEOREM UnchosenGetNothing == Spec => []NoVoteNoPoint
<1> DEFINE Inv == TypeOK /\ FichiersInv /\ InscriptionsInv /\ VictoiresInv
<1>1. Init => Inv
  <2> SUFFICES ASSUME Init PROVE Inv
    OBVIOUS
  <2>1. VictoiresInv
    BY DEF Init, VictoiresInv, SansCompte, Zero
  <2> QED BY <2>1, TypageInit DEF Init, FichiersInv, InscriptionsInv
<1>2. Inv /\ [Next]_vars => Inv'
  BY TypagePas, ComptePas, InscriptionsPas, VictoiresPas
<1>3. Inv => NoVoteNoPoint
  <2> SUFFICES ASSUME Inv, ~Vide(votesParCamp), NEW c \in Camps, votesParCamp[c] = 0
               PROVE  classementsDeLaFete[c] = 0
    BY DEF NoVoteNoPoint
  <2>1. yobisaiDeLaFete[c] = 0
    BY DEF yobisaiDeLaFete
  <2>2. ASSUME NEW critere \in Criteres
        PROVE  pointsDuCritere(critere, placesDuCritere(critere)[c]) = 0
    <3> DEFINE m == ModeDe[critere]
    <3>1. CASE m # SansMode /\ ~Vide(compte.parMode[m])
      <4>1. m \in Modes
        BY <3>1, FestivalAssumption
      <4>2. compte.parMode[m] \in Compte
        BY <4>1, TypeComptageFest DEF TypeOK
      <4>3. compte.parMode[m][c] = 0
        <5>1. ~(compte.parMode[m][c] > 0)
          BY <4>1, TypeVotes DEF VictoiresInv
        <5> QED BY <4>2, <5>1 DEF Compte
      <4>4. placesDuCritere(critere)[c] = placesAvecEgalites(compte.parMode[m])[c]
        BY <3>1 DEF placesDuCritere
      <4> QED BY <4>2, <4>3, <4>4, LesDerniers, SansPoint
    <3>2. CASE ~(m # SansMode /\ ~Vide(compte.parMode[m]))
      <4>1. placesDuCritere(critere)[c] = placesAvecEgalites(yobisaiDeLaFete)[c]
        BY <3>2 DEF placesDuCritere
      <4> QED BY <2>1, <4>1, TypeVotes, LesDerniers, SansPoint
    <3> QED BY <3>1, <3>2
  <2>3. \A critere \in {"Yobisai", "PlayerCount", "Regular", "Challenge", "Tricolor"} :
          pointsDuCritere(critere, placesDuCritere(critere)[c]) = 0
    BY <2>2 DEF Criteres
  <2> QED BY <2>3 DEF classementsDeLaFete
<1> QED BY <1>1, <1>2, <1>3, PTL DEF Spec

-----------------------------------------------------------------------------
(* The festival implements FestBallot: each step is one of its steps, or     *)
(* changes nothing of what it promises.                                      *)

LEMMA MemeNombre == \A S : Scrutin!Cardinality(S) = Cardinality(S)
BY DEF Scrutin!Cardinality, Cardinality

LEMMA LesVoix == ASSUME NEW c \in Camps PROVE Scrutin!Voix(c) = votesParCamp[c]
BY MemeNombre DEF Scrutin!Voix, votesParCamp

(* Registrations are for good, so votes only come in.                        *)
LEMMA VotesMontent ==
  ASSUME TypeOK, FichiersInv, InscriptionsInv, [Next]_vars, NEW c \in Camps
  PROVE  votesParCamp[c] <= votesParCamp'[c]
<1> DEFINE S == {j \in Joueurs : entrees[j] = c}
           T == {j \in Joueurs : entrees'[j] = c}
<1>1. S \subseteq T
  BY InscriptionsPas, LesCamps
<1>2. IsFiniteSet(T)
  BY FestivalAssumption, FS_Subset
<1>3. Cardinality(S) <= Cardinality(T)
  BY <1>1, <1>2, FS_Subset
<1> QED BY <1>3 DEF votesParCamp

(* A battle inks for a camp at most as many points as it has players.        *)
LEMMA EncreDesVotants ==
  ASSUME NEW b, NEW c \in Camps PROVE encreParCamp(b)[c] <= votesParCamp[c]
<1> DEFINE S == {j \in Joueurs : b.creneau[j] # 0 /\ entrees[j] = c}
           T == {j \in Joueurs : entrees[j] = c}
<1>1. S \subseteq T
  OBVIOUS
<1>2. IsFiniteSet(T)
  BY FestivalAssumption, FS_Subset
<1>3. Cardinality(S) <= Cardinality(T)
  BY <1>1, <1>2, FS_Subset
<1> QED BY <1>3 DEF votesParCamp, encreParCamp

LEMMA EncrePas ==
  ASSUME TypeOK, FichiersInv, InscriptionsInv, EncreInv, [Next]_vars PROVE EncreInv'
<1> SUFFICES ASSUME NEW x \in Arbitres, NEW c \in Camps
             PROVE  comptages'[x].encre[c] <= votesParCamp'[c]
  BY DEF EncreInv
<1>1. /\ votesParCamp[c] <= votesParCamp'[c]
      /\ votesParCamp[c] \in Nat /\ votesParCamp'[c] \in Nat
      /\ comptages[x].encre[c] <= votesParCamp[c]
      /\ comptages[x].encre[c] \in Nat
      /\ comptages \in [Arbitres -> Comptage]
  <2>1. votesParCamp[c] \in Nat /\ votesParCamp'[c] \in Nat
    BY NombreDeJoueurs DEF votesParCamp
  <2> QED BY <2>1, VotesMontent DEF EncreInv, TypeOK, Comptage, Compte
<1>2. ASSUME comptages'[x].encre[c] \in {0, comptages[x].encre[c]}
      PROVE  comptages'[x].encre[c] <= votesParCamp'[c]
  BY <1>1, <1>2
<1>3. ASSUME NEW a \in Arbitres, Compter(a)
      PROVE  comptages'[x].encre[c] <= votesParCamp'[c]
  <2>1. ASSUME NEW b \in Batailles, compterLaBatailleDeFete(a, b)
        PROVE  comptages'[x].encre[c] \in {0, comptages[x].encre[c]}
    BY <1>1, <2>1 DEF compterLaBatailleDeFete, Zero
  <2>2. CASE enregistrerVictoireDeFete(a)
    BY <1>1, <1>2, <2>2 DEF enregistrerVictoireDeFete, Comptage
  <2>3. CASE compterLaFerveurDeLaBataille(a)
    <3> DEFINE e == IF intermedeFige THEN Zero ELSE encreParCamp(comptages[a].bataille)
    <3>1. e[c] = 0 \/ e[c] <= votesParCamp[c]
      BY EncreDesVotants DEF Zero
    <3>2. comptages' = [comptages EXCEPT
            ![a] = [[comptages[a] EXCEPT !.etape = IF intermedeFige THEN "repos" ELSE "ferveur"]
                      EXCEPT !.encre = e]]
      BY <1>1, <2>3 DEF compterLaFerveurDeLaBataille, Comptage
    <3> HIDE DEF e
    <3>3. comptages'[x].encre = IF x = a THEN e ELSE comptages[x].encre
      BY <1>1, <3>2 DEF Comptage
    <3>4. e[c] \in Nat
      BY TypeZero, TypeEncre DEF e, Compte
    <3> QED BY <1>1, <3>1, <3>3, <3>4
  <2>4. ASSUME NEW d \in Camps, enregistrerFerveur(a, d)
        PROVE  comptages'[x].encre[c] \in {0, comptages[x].encre[c]}
    BY <1>1, <2>4 DEF enregistrerFerveur, Comptage, Compte
  <2>5. CASE FinDuComptage(a)
    BY <1>1, <1>2, <2>5 DEF FinDuComptage, Comptage
  <2> QED BY <1>2, <1>3, <2>1, <2>2, <2>3, <2>4, <2>5 DEF Compter
<1>4. ASSUME NEW k \in Consoles, Lire(k) PROVE UNCHANGED comptages
  BY <1>4 DEF Lire, GetFestResult, partsDeFerveur, partsDesVictoires, partsDuVote,
       figerIntermede, Repondre
<1>5. CASE Redemarrer
  BY <1>2, <1>5 DEF Redemarrer, Repartir, Oisif, Zero
<1> QED BY <1>1, <1>2, <1>3, <1>4, <1>5 DEF Next, vars, appels, CreateFestEntry, MidTime

(* What was counted stays counted.                                           *)
LEMMA DejaCompteReste ==
  ASSUME TypeOK, FichiersInv, InscriptionsInv, [Next]_vars,
         NEW p \in Photos, DejaCompte(p)
  PROVE  DejaCompte(p)'
<1>1. /\ compte.ferveur \in Compte /\ compte.victoires \in Compte /\ votesParCamp \in Compte
      /\ p.parts \in Compte
  BY TypeComptageFest, TypeVotes DEF TypeOK, Photos
<1>2. /\ compte'.ferveur \in Compte /\ compte'.victoires \in Compte /\ votesParCamp' \in Compte
  <2>1. TypeOK'
    BY TypagePas
  <2>2. \A c \in Camps : Cardinality({j \in Joueurs : entrees'[j] = c}) \in Nat
    BY NombreDeJoueurs
  <2> QED BY <2>1, <2>2, TypeComptageFest DEF TypeOK, votesParCamp, Compte
<1>3. ASSUME NEW n \in Compte, NEW m \in Compte, \A c \in Camps : n[c] <= m[c], Sous(p.parts, n)
      PROVE  Sous(p.parts, m)
  BY <1>1, <1>3 DEF Sous, Compte
<1>4. /\ \A c \in Camps : compte.ferveur[c] <= compte'.ferveur[c]
      /\ \A c \in Camps : compte.victoires[c] <= compte'.victoires[c]
      /\ \A c \in Camps : votesParCamp[c] <= votesParCamp'[c]
  BY <1>1, <1>2, ComptePas, VotesMontent DEF Compte
<1>5. CASE p.origine = "ferveur" /\ Sous(p.parts, compte.ferveur)
  <2>1. Sous(p.parts, compte'.ferveur)
    BY <1>1, <1>2, <1>3, <1>4, <1>5
  <2> QED BY <1>5, <2>1 DEF DejaCompte, Sous, Vide
<1>6. CASE p.origine = "victoires" /\ Sous(p.parts, compte.victoires)
  <2>1. Sous(p.parts, compte'.victoires)
    BY <1>1, <1>2, <1>3, <1>4, <1>6
  <2> QED BY <1>6, <2>1 DEF DejaCompte, Sous, Vide
<1>7. CASE p.origine = "vote" /\ Sous(p.parts, votesParCamp)
  <2>1. Sous(p.parts, votesParCamp')
    BY <1>1, <1>2, <1>3, <1>4, <1>7
  <2> QED BY <1>7, <2>1 DEF DejaCompte, Sous, Vide
<1>8. CASE p.origine = "vote" /\ p.parts = Depart
  BY <1>8 DEF DejaCompte
<1> QED BY <1>5, <1>6, <1>7, <1>8 DEF DejaCompte

LEMMA ProposePas ==
  ASSUME TypeOK, FichiersInv, InscriptionsInv, ProposeInv, [Next]_vars PROVE ProposeInv'
<1> SUFFICES ASSUME NEW k \in Consoles, Lit(k, "figer")' PROVE DejaCompte(lectures[k].parts)'
  BY DEF ProposeInv
<1>1. lectures \in [Consoles -> Lecture]
  BY DEF TypeOK
<1>2. lectures'[k].etape = "figer"
  BY DEF Lit
<1>3. CASE lectures'[k] = lectures[k]
  <2>1. lectures[k].parts \in Photos /\ DejaCompte(lectures[k].parts)
    BY <1>1, <1>2, <1>3 DEF ProposeInv, Lit, Lecture
  <2> DEFINE p == lectures[k].parts
  <2>2. \A q \in Photos : DejaCompte(q) => DejaCompte(q)'
    BY DejaCompteReste
  <2> QED BY <1>3, <2>1, <2>2 DEF DejaCompte, Sous, Vide
<1>4. CASE partsDeFerveur(k)
  <2>1. ~Vide(compte.ferveur)
    BY <1>1, <1>2, <1>4 DEF partsDeFerveur, Lecture
  <2>2. /\ lectures'[k].parts = [origine |-> "ferveur", parts |-> compte.ferveur]
        /\ compte' = compte
    BY <1>1, <1>4, <2>1 DEF partsDeFerveur, Proposer, comptes
  <2>3. \A c \in Camps : compte.ferveur[c] <= compte.ferveur[c]
    BY TypeComptageFest DEF TypeOK, Compte
  <2> QED BY <2>1, <2>2, <2>3 DEF DejaCompte, Sous, Vide
<1>5. CASE partsDesVictoires(k)
  <2>1. ~Vide(compte.victoires)
    BY <1>1, <1>2, <1>5 DEF partsDesVictoires, Lecture
  <2>2. /\ lectures'[k].parts = [origine |-> "victoires", parts |-> compte.victoires]
        /\ compte' = compte
    BY <1>1, <1>5, <2>1 DEF partsDesVictoires, Proposer, comptes
  <2>3. \A c \in Camps : compte.victoires[c] <= compte.victoires[c]
    BY TypeComptageFest DEF TypeOK, Compte
  <2> QED BY <2>1, <2>2, <2>3 DEF DejaCompte, Sous, Vide
<1>6. CASE partsDuVote(k)
  <2>1. /\ lectures'[k].parts = [origine |-> "vote", parts |-> yobisaiDeLaFete]
        /\ votesParCamp' = votesParCamp
    BY <1>1, <1>6 DEF partsDuVote, Proposer, votants, votesParCamp
  <2>2. \A c \in Camps : votesParCamp[c] <= votesParCamp[c]
    BY TypeVotes DEF Compte
  <2>3. yobisaiDeLaFete = Depart \/ (yobisaiDeLaFete = votesParCamp /\ ~Vide(votesParCamp))
    BY DEF yobisaiDeLaFete
  <2> QED BY <2>1, <2>2, <2>3 DEF DejaCompte, Sous, Vide
<1>7. lectures'[k] # SansLecture
  BY <1>2 DEF SansLecture
<1>8. ~figerIntermede(k)
  BY <1>1, <1>2 DEF figerIntermede, Lecture
<1>9. ~(GetFestResult(k) /\ ~intermedeFige)
  BY <1>1, <1>2 DEF GetFestResult, Lecture
<1> QED BY <1>3, <1>4, <1>5, <1>6, <1>7, <1>8, <1>9, LecturesPas

(* The counts exactly.                                                       *)
LEMMA VictoireExacte ==
  ASSUME TypeOK, NEW a \in Arbitres, enregistrerVictoireDeFete(a)
  PROVE  \/ UNCHANGED compte
         \/ \E c \in Camps :
              /\ votesParCamp[c] > 0
              /\ compte'.victoires = [compte.victoires EXCEPT ![c] = @ + 1]
              /\ compte'.ferveur = compte.ferveur
              /\ compte'.intermede = compte.intermede
<1> DEFINE b == comptages[a].bataille
<1>1. CASE campVainqueur(b) = {}
  BY <1>1 DEF enregistrerVictoireDeFete, comptes
<1>2. CASE campVainqueur(b) # {}
  <2> DEFINE un(n, c) == [n EXCEPT ![c] = @ + 1]
             p(c) == [m \in Modes |-> IF m = b.mode THEN un(compte.parMode[m], c)
                                                    ELSE compte.parMode[m]]
  <2>1. PICK c \in campVainqueur(b) :
          compte' = [compte EXCEPT !.victoires = [compte.victoires EXCEPT ![c] = @ + 1],
                                   !.parMode = p(c)]
    BY <1>2 DEF enregistrerVictoireDeFete, enregistrer
  <2>2. c \in Camps /\ votesParCamp[c] > 0
    BY LeVainqueurEstChoisi, TypeVotes
  <2>3. compte \in comptageFest
    BY DEF TypeOK
  <2> HIDE DEF p
  <2> QED BY <2>1, <2>2, <2>3 DEF comptageFest
<1> QED BY <1>1, <1>2

LEMMA FerveurExacte ==
  ASSUME TypeOK, NEW a \in Arbitres, NEW c \in Camps, enregistrerFerveur(a, c)
  PROVE  /\ compte'.ferveur = [compte.ferveur EXCEPT ![c] = @ + comptages[a].encre[c]]
         /\ compte'.victoires = compte.victoires
         /\ compte'.intermede = compte.intermede
<1>1. compte \in comptageFest
  BY DEF TypeOK
<1>2. compte' = [compte EXCEPT !.ferveur =
                   [compte.ferveur EXCEPT ![c] = @ + comptages[a].encre[c]]]
  BY DEF enregistrerFerveur, enregistrer
<1> QED BY <1>1, <1>2 DEF comptageFest

(* A step that changes nothing of what the players know.                     *)
LEMMA RienDeNeuf ==
  ASSUME UNCHANGED <<miTemps, entrees, compte, inscriptions, reponses, premiere>>
  PROVE  UNCHANGED Scrutin!festVars
BY DEF Scrutin!festVars, Scrutin!bulletins, Scrutin!scores, Scrutin!moitie

LEMMA ScrutinInit == Init => Scrutin!Init
BY DEF Init, Scrutin!Init, SansCompte, Zero

LEMMA CompterPromis ==
  ASSUME TypeOK, EncreInv, NEW a \in Arbitres, Compter(a)
  PROVE  [Scrutin!Next]_(Scrutin!festVars)
<1>1. UNCHANGED <<miTemps, votants, inscriptions, reponses, premiere>>
  BY DEF Compter, compterLaBatailleDeFete, enregistrerVictoireDeFete, vu,
     compterLaFerveurDeLaBataille, enregistrerFerveur, FinDuComptage
<1>2. CASE UNCHANGED compte
  BY <1>1, <1>2, RienDeNeuf DEF votants
<1>3. CASE enregistrerVictoireDeFete(a)
  <2>1. ASSUME NEW c \in Camps, votesParCamp[c] > 0,
               compte'.victoires = [compte.victoires EXCEPT ![c] = @ + 1],
               compte'.ferveur = compte.ferveur, compte'.intermede = compte.intermede
        PROVE  Scrutin!Gagner(c)
    BY <1>1, <2>1, LesVoix DEF Scrutin!Gagner, Scrutin!bulletins, Scrutin!moitie, votants
  <2> QED BY <1>2, <1>3, <2>1, VictoireExacte DEF Scrutin!Next
<1>4. ASSUME NEW c \in Camps, enregistrerFerveur(a, c) PROVE Scrutin!Encrer(c)
  <2> DEFINE k == comptages[a].encre[c]
  <2>1. /\ k \in Nat /\ k > 0 /\ k <= votesParCamp[c]
        /\ compte.ferveur \in Compte
    BY <1>4, TypeComptageFest DEF enregistrerFerveur, TypeOK, Comptage, Compte, EncreInv
  <2>2. /\ compte'.ferveur = [compte.ferveur EXCEPT ![c] = @ + k]
        /\ compte'.victoires = compte.victoires /\ compte'.intermede = compte.intermede
    BY <1>4, FerveurExacte
  <2> HIDE DEF k
  <2>3. /\ compte'.ferveur \in Compte
        /\ compte'.ferveur[c] = compte.ferveur[c] + k
        /\ \A d \in Camps \ {c} : compte'.ferveur[d] = compte.ferveur[d]
    BY <2>1, <2>2 DEF Compte
  <2>4. votesParCamp[c] \in Nat /\ compte.ferveur[c] \in Nat
    BY <2>1, TypeVotes DEF Compte
  <2>5. /\ compte.ferveur[c] < compte'.ferveur[c]
        /\ compte'.ferveur[c] <= compte.ferveur[c] + votesParCamp[c]
    BY <2>1, <2>3, <2>4
  <2> QED BY <1>1, <2>2, <2>3, <2>5, LesVoix
        DEF Scrutin!Encrer, Scrutin!bulletins, Scrutin!moitie, votants, Compte
<1>5. CASE \/ \E b \in Batailles : compterLaBatailleDeFete(a, b)
           \/ compterLaFerveurDeLaBataille(a) \/ FinDuComptage(a)
  BY <1>2, <1>5 DEF compterLaBatailleDeFete, compterLaFerveurDeLaBataille, FinDuComptage, comptes
<1> QED BY <1>3, <1>4, <1>5 DEF Compter, Scrutin!Next

(* A proposal is what a photo may be, whoever takes it.                      *)
LEMMA ProposeJuste ==
  ASSUME TypeOK, NEW p \in Photos, Honnete(p), DejaCompte(p)
  PROVE  Scrutin!Juste(p)
<1>1. /\ p.parts \in Compte /\ compte.ferveur \in Compte /\ compte.victoires \in Compte
      /\ premiere.ferveur \in Compte /\ premiere.victoires \in Compte
  BY TypeComptageFest DEF TypeOK, Photos
<1>2. \A n : Vide(n) <=> Scrutin!Rien(n)
  BY DEF Vide, Scrutin!Rien
<1>3. \A c \in Camps : Scrutin!Voix(c) = votesParCamp[c]
  BY LesVoix
<1>4. CASE p.origine = "ferveur"
  BY <1>1, <1>2, <1>4 DEF Honnete, DejaCompte, Sous, Scrutin!Juste, Compte
<1>5. CASE p.origine = "victoires"
  BY <1>1, <1>2, <1>5 DEF Honnete, DejaCompte, Sous, Scrutin!Juste, Compte
<1>6. CASE p.origine = "vote"
  BY <1>2, <1>3, <1>6 DEF Honnete, DejaCompte, Sous, Scrutin!Juste
<1> QED BY <1>4, <1>5, <1>6 DEF DejaCompte

LEMMA LirePromis ==
  ASSUME TypeOK, PhotoInv, PremiereInv, ProposeInv, NEW k \in Consoles, Lire(k)
  PROVE  [Scrutin!Next]_(Scrutin!festVars)
<1>1. UNCHANGED <<miTemps, votants, inscriptions, premiere>>
  BY DEF Lire, GetFestResult, partsDeFerveur, partsDesVictoires, partsDuVote, vu,
     figerIntermede, Repondre
<1>2. CASE UNCHANGED <<compte, reponses>>
  BY <1>1, <1>2, RienDeNeuf DEF votants
<1>3. ASSUME intermedeFige, UNCHANGED compte, reponses' = reponses \cup {compte.intermede}
      PROVE  Scrutin!Montrer
  BY <1>1, <1>3 DEF Scrutin!Montrer, Scrutin!bulletins, Scrutin!scores, Scrutin!moitie,
     votants, intermedeFige
<1>4. CASE GetFestResult(k)
  BY <1>2, <1>3, <1>4 DEF GetFestResult, comptes, Scrutin!Next
<1>5. CASE Repondre(k)
  <2>1. intermedeFige
    BY <1>5 DEF Repondre, PhotoInv
  <2> QED BY <1>3, <1>5, <2>1 DEF Repondre, comptes, Scrutin!Next
<1>6. CASE figerIntermede(k)
  <2>1. Lit(k, "figer") /\ reponses' = reponses
    BY <1>6 DEF figerIntermede, vu
  <2>2. CASE intermedeFige /\ UNCHANGED comptes
    BY <1>2, <2>1, <2>2 DEF comptes
  <2>3. CASE /\ ~intermedeFige
             /\ compte'.victoires = compte.victoires
             /\ compte'.ferveur = compte.ferveur
             /\ compte'.intermede = lectures[k].parts
    <3>1. miTemps
      BY <2>1 DEF PremiereInv, Lit
    <3>2. /\ lectures[k].parts \in Photos
          /\ Honnete(lectures[k].parts) /\ DejaCompte(lectures[k].parts)
      BY <2>1 DEF TypeOK, Lecture, PremiereInv, ProposeInv
    <3>3. Scrutin!Juste(lectures[k].parts)
      BY <3>2, ProposeJuste
    <3>4. Scrutin!Photographier
      BY <1>1, <2>1, <2>3, <3>1, <3>3 DEF Scrutin!Photographier, Scrutin!bulletins,
         Scrutin!scores, Scrutin!moitie, votants, intermedeFige
    <3> QED BY <3>4 DEF Scrutin!Next
  <2> QED BY <1>6, <2>2, <2>3, FigerPas
<1>7. CASE partsDeFerveur(k) \/ partsDesVictoires(k) \/ partsDuVote(k)
  BY <1>2, <1>7 DEF partsDeFerveur, partsDesVictoires, partsDuVote, comptes, vu
<1> QED BY <1>4, <1>5, <1>6, <1>7 DEF Lire

LEMMA PasDuScrutin ==
  ASSUME TypeOK, FichiersInv, EncreInv, PhotoInv, PremiereInv, ProposeInv, [Next]_vars
  PROVE  [Scrutin!Next]_(Scrutin!festVars)
<1>1. ASSUME NEW j \in Joueurs, NEW c \in Voulus[j], CreateFestEntry(j, c)
      PROVE  Scrutin!Next
  <2>1. Scrutin!Voter(j, c)
    BY <1>1 DEF CreateFestEntry, comptes, Scrutin!Voter, Scrutin!scores, Scrutin!moitie
  <2> QED BY <2>1, LesCamps DEF Scrutin!Next
<1>2. CASE MidTime
  <2>1. Scrutin!Passer
    BY <1>2 DEF MidTime, votants, comptes, Scrutin!Passer, Scrutin!bulletins, Scrutin!scores
  <2> QED BY <2>1 DEF Scrutin!Next
<1>3. CASE Redemarrer
  BY <1>3, RienDeNeuf DEF Redemarrer, Repartir, FichiersInv, vu
<1>4. CASE UNCHANGED vars
  BY <1>4, RienDeNeuf DEF vars, votants, comptes, vu
<1> QED BY <1>1, <1>2, <1>3, <1>4, CompterPromis, LirePromis DEF Next

(* The festival keeps the promise of FestBallot: one vote a player, counts   *)
(* of the camps' own players, one photo of all of the first half and of      *)
(* nothing that was not counted, through every race and restart.             *)
THEOREM FestivalKeepsItsPromise == Spec => OneBallotOnePhoto
<1> DEFINE Inv == /\ TypeOK /\ FichiersInv /\ InscriptionsInv
                  /\ EncreInv /\ PhotoInv /\ PremiereInv /\ ProposeInv
<1>1. Init => Inv
  <2> SUFFICES ASSUME Init PROVE Inv
    OBVIOUS
  <2>1. PremiereInv
    BY DEF Init, PremiereInv, MidtermCountsFirstHalf, intermedeFige, SansCompte, Lit,
       SansLecture
  <2>2. PhotoInv /\ ProposeInv
    BY DEF Init, PhotoInv, ProposeInv, Lit, SansLecture
  <2>3. EncreInv
    <3>1. \A c \in Camps : votesParCamp[c] \in Nat
      BY TypageInit, TypeVotes DEF Compte
    <3> QED BY <3>1 DEF Init, EncreInv, Oisif, Zero
  <2> QED BY <2>1, <2>2, <2>3, TypageInit DEF Init, FichiersInv, InscriptionsInv
<1>2. Inv /\ [Next]_vars => Inv'
  BY TypagePas, ComptePas, InscriptionsPas, EncrePas, PhotoPas, PremierePas, ProposePas
<1>3. Inv /\ [Next]_vars => [Scrutin!Next]_(Scrutin!festVars)
  BY PasDuScrutin
<1> QED BY <1>1, <1>2, <1>3, ScrutinInit, PTL DEF Spec, OneBallotOnePhoto, Scrutin!Spec
=============================================================================
