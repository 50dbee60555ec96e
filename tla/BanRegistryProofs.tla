-------------------------- MODULE BanRegistryProofs --------------------------
(***************************************************************************)
(* What BanRegistry promises, for any players, servers and bounds.  Types, *)
(* the streams and the dates hold whatever commands run at once; that no   *)
(* ban is forgotten is proved for commands that follow each other.         *)
(***************************************************************************)
EXTENDS BanRegistry, TLAPS

-----------------------------------------------------------------------------
(* The lists of entries.                                                    *)

LEMMA PoserType == ASSUME NEW L \in SUBSET Entrees, NEW b \in Entrees
                   PROVE  Poser(L, b) \in SUBSET Entrees
  BY DEF Poser

(* An entry names one player, whom its key names too.                       *)
LEMMA UnJoueur == ASSUME NEW b \in Entrees
                  PROVE  /\ JoueurDe(b) \in Joueurs
                         /\ \A p \in Joueurs : matches(b, p) <=> p = JoueurDe(b)
  BY AucunAssumption DEF Entrees, Cible, JoueurDe, matches

LEMMA MemeClef == ASSUME NEW b \in Entrees, NEW x \in Entrees,
                         banEntryKey(x) = banEntryKey(b)
                  PROVE  JoueurDe(x) = JoueurDe(b)
  BY DEF banEntryKey, JoueurDe, Entrees

(* A new entry takes nobody's place: the one it replaces is of its player.  *)
LEMMA PoserGarde == ASSUME NEW L \in SUBSET Entrees, NEW b \in Entrees
                    PROVE  Bannis(L) \cup {JoueurDe(b)} \subseteq Bannis(Poser(L, b))
  <1>1. ASSUME NEW p \in Bannis(L) PROVE p \in Bannis(Poser(L, b))
    <2>1. p \in Joueurs /\ \E x \in L : matches(x, p)
      BY <1>1 DEF Bannis
    <2>2. PICK x \in L : matches(x, p)
      BY <2>1
    <2>3. CASE banEntryKey(x) = banEntryKey(b)
      <3>1. p = JoueurDe(b)
        BY <2>1, <2>2, <2>3, UnJoueur, MemeClef
      <3>2. matches(b, p)
        BY <2>1, <3>1, UnJoueur
      <3> QED
        BY <2>1, <3>2 DEF Bannis, Poser
    <2>4. CASE banEntryKey(x) # banEntryKey(b)
      BY <2>1, <2>2, <2>4 DEF Bannis, Poser
    <2> QED
      BY <2>3, <2>4
  <1>2. JoueurDe(b) \in Bannis(Poser(L, b))
    <2>1. JoueurDe(b) \in Joueurs /\ matches(b, JoueurDe(b))
      BY UnJoueur
    <2> QED
      BY <2>1 DEF Bannis, Poser
  <1> QED
    BY <1>1, <1>2

(* What an unban takes out is of the one player it is about.                *)
LEMMA ViserUnJoueur ==
  ASSUME NEW L \in SUBSET Entrees, NEW c \in Entrees, c.pid = Aucun \/ c.uid = Aucun
  PROVE  Bannis(L) \ {JoueurDe(c)} \subseteq Bannis(L \ Vises(L, c))
  <1> SUFFICES ASSUME NEW p \in Bannis(L), p # JoueurDe(c)
               PROVE  p \in Bannis(L \ Vises(L, c))
    OBVIOUS
  <1>1. p \in Joueurs /\ \E x \in L : matches(x, p)
    BY DEF Bannis
  <1>2. PICK x \in L : matches(x, p)
    BY <1>1
  <1>3. p = JoueurDe(x)
    BY <1>1, <1>2, UnJoueur
  <1>4. x \notin Vises(L, c)
    BY <1>3, <1>2, AucunAssumption DEF Vises, JoueurDe, Entrees, Cible
  <1> QED
    BY <1>1, <1>2, <1>4 DEF Bannis

(* A ban adds its player, an unban takes out its player or nobody.          *)
LEMMA BannisDePoser == ASSUME NEW L \in SUBSET Entrees, NEW b \in Entrees
                       PROVE  Bannis(Poser(L, b)) = Bannis(L) \cup {JoueurDe(b)}
  <1>1. Bannis(Poser(L, b)) \subseteq Bannis(L) \cup {JoueurDe(b)}
    BY UnJoueur DEF Bannis, Poser
  <1> QED
    BY <1>1, PoserGarde

LEMMA BannisDeViser ==
  ASSUME NEW L \in SUBSET Entrees, NEW c \in Entrees, c.pid = Aucun \/ c.uid = Aucun
  PROVE  \/ Bannis(L \ Vises(L, c)) = Bannis(L)
         \/ Bannis(L \ Vises(L, c)) = Bannis(L) \ {JoueurDe(c)}
  <1>1. Bannis(L \ Vises(L, c)) \subseteq Bannis(L)
    BY DEF Bannis
  <1> QED
    BY <1>1, ViserUnJoueur

-----------------------------------------------------------------------------
(* Types.                                                                   *)

LEMMA TypeInit == Init => TypeOK
  BY DEF Init, TypeOK, Repos, EtatsDeFlux

(* What a step does to the file and to the commands.                        *)
LEMMA RemplacerType ==
  ASSUME TypeOK, NEW o \in Operateurs, NEW bans \in SUBSET Entrees, Remplacer(o, bans)
  PROVE  /\ fichier' \in [date : Nat, bans : SUBSET Entrees]
         /\ outil' \in [Operateurs -> [lance : BOOLEAN, bans : SUBSET Entrees]]
  BY DEF TypeOK, Remplacer, Repos

LEMMA CoupeType == ASSUME NEW f \in [Joueurs -> EtatsDeFlux], NEW L
                   PROVE  cancellationsForCurrentBans(f, L) \in [Joueurs -> EtatsDeFlux]
  BY DEF cancellationsForCurrentBans, EtatsDeFlux

LEMMA PasserType ==
  ASSUME TypeOK, NEW s \in Serveurs, NEW p \in Joueurs, NEW de \in EtatsDeFlux,
         NEW a \in EtatsDeFlux, Passer(s, p, de, a)
  PROVE  TypeOK'
  BY DEF TypeOK, Passer, registre

LEMMA TypeStep == ASSUME TypeOK, [Next]_vars PROVE TypeOK'
  <1>1. ASSUME NEW o \in Operateurs, Commander(o) PROVE TypeOK'
    BY <1>1 DEF Commander, TypeOK, registre
  <1>2. ASSUME NEW o \in Operateurs, NEW c \in Entrees, unban(o, c) PROVE TypeOK'
    <2>1. outil[o].bans \ Vises(outil[o].bans, c) \in SUBSET Entrees
      BY DEF TypeOK
    <2> QED
      BY <1>2, <2>1, RemplacerType DEF unban, Remplacer, TypeOK, registre
  <1>3. ASSUME NEW o \in Operateurs, NEW c \in Entrees, NEW dit \in BOOLEAN, ban(o, c, dit)
        PROVE  TypeOK'
    <2>1. Poser(outil[o].bans, c) \in SUBSET Entrees
      BY PoserType DEF TypeOK
    <2>2. acquis' \subseteq Joueurs
      BY <1>3, UnJoueur DEF ban, TypeOK
    <2> QED
      BY <1>3, <2>1, <2>2, RemplacerType DEF ban, Remplacer, TypeOK, registre
  <1>4. ASSUME NEW o \in Operateurs, Renoncer(o) PROVE TypeOK'
    BY <1>4 DEF Renoncer, Repos, TypeOK, registre
  <1>5. ASSUME NEW s \in Serveurs, refresh(s) PROVE TypeOK'
    BY <1>5 DEF refresh, TypeOK
  <1>6. ASSUME NEW s \in Serveurs, Lire(s) PROVE TypeOK'
    <2>1. flux' \in [Serveurs -> [Joueurs -> EtatsDeFlux]]
      BY <1>6, CoupeType DEF Lire, TypeOK
    <2> QED
      BY <1>6, <2>1 DEF Lire, TypeOK
  <1>7. ASSUME NEW s \in Serveurs, LireEnVain(s) PROVE TypeOK'
    BY <1>7 DEF LireEnVain, TypeOK, registre
  <1>8. ASSUME NEW s \in Serveurs, Temps(s) PROVE TypeOK'
    BY <1>8 DEF Temps, TypeOK, registre
  <1>9. ASSUME NEW s \in Serveurs, Redemarrer(s) PROVE TypeOK'
    BY <1>9 DEF Redemarrer, TypeOK, EtatsDeFlux
  <1>10. ASSUME NEW s \in Serveurs, NEW p \in Joueurs, Appel(s, p) PROVE TypeOK'
    BY <1>10, PasserType DEF Appel, requireAllowed, trackStream, Finir, EtatsDeFlux
  <1>11. CASE UNCHANGED vars
    BY <1>11 DEF vars, TypeOK, registre
  <1> QED
    BY <1>1, <1>2, <1>3, <1>4, <1>5, <1>6, <1>7, <1>8, <1>9, <1>10, <1>11
       DEF Next, Commande

(* Every variable of the registry is of its type in every reachable state.  *)
THEOREM BansTypeCorrect == Spec => []TypeOK
  BY TypeInit, TypeStep, PTL DEF Spec

-----------------------------------------------------------------------------
(* The streams and the dates.  A date noted is never ahead of the file's,   *)
(* and a rename moves the file's on: only the read of what is there now can *)
(* make them equal.                                                         *)

DatesOK ==
  /\ fichier.date = 0 => fichier.bans = {}
  /\ \A s \in Serveurs :
       /\ date[s] <= fichier.date
       /\ lecture[s] <= fichier.date
       /\ date[s] = 0 => liste[s] = {}
       /\ date[s] = fichier.date => liste[s] = fichier.bans

LEMMA DatesStep == ASSUME TypeOK, DatesOK, [Next]_vars PROVE DatesOK'
  <1>1. ASSUME NEW o \in Operateurs, NEW bans \in SUBSET Entrees, Remplacer(o, bans)
        PROVE  DatesOK'
    BY <1>1 DEF Remplacer, DatesOK, TypeOK, registre
  <1>2. ASSUME NEW o \in Operateurs, Commande(o) PROVE DatesOK'
    <2>1. CASE Commander(o)
      BY <2>1 DEF Commander, DatesOK, registre
    <2>2. ASSUME NEW c \in Entrees, unban(o, c) PROVE DatesOK'
      <3>1. outil[o].bans \ Vises(outil[o].bans, c) \in SUBSET Entrees
        BY DEF TypeOK
      <3> QED
        BY <1>1, <2>2, <3>1 DEF unban
    <2>3. ASSUME NEW c \in Entrees, NEW dit \in BOOLEAN, ban(o, c, dit) PROVE DatesOK'
      <3>1. Poser(outil[o].bans, c) \in SUBSET Entrees
        BY PoserType DEF TypeOK
      <3> QED
        BY <1>1, <2>3, <3>1 DEF ban
    <2>4. CASE Renoncer(o)
      BY <2>4 DEF Renoncer, DatesOK, registre
    <2> QED
      BY <1>2, <2>1, <2>2, <2>3, <2>4 DEF Commande
  <1>3. ASSUME NEW s \in Serveurs, refresh(s) PROVE DatesOK'
    BY <1>3 DEF refresh, DatesOK, TypeOK
  <1>4. ASSUME NEW s \in Serveurs, Lire(s) PROVE DatesOK'
    BY <1>4 DEF Lire, DatesOK, TypeOK
  <1>5. ASSUME NEW s \in Serveurs, LireEnVain(s) PROVE DatesOK'
    BY <1>5 DEF LireEnVain, DatesOK, TypeOK, registre
  <1>6. ASSUME NEW s \in Serveurs, Temps(s) PROVE DatesOK'
    BY <1>6 DEF Temps, DatesOK, registre
  <1>7. ASSUME NEW s \in Serveurs, Redemarrer(s) PROVE DatesOK'
    BY <1>7 DEF Redemarrer, DatesOK, TypeOK
  <1>8. ASSUME NEW s \in Serveurs, NEW p \in Joueurs, Appel(s, p) PROVE DatesOK'
    BY <1>8 DEF Appel, requireAllowed, trackStream, Finir, Passer, DatesOK, registre
  <1>9. CASE UNCHANGED vars
    BY <1>9 DEF vars, registre, DatesOK
  <1> QED
    BY <1>2, <1>3, <1>4, <1>5, <1>6, <1>7, <1>8, <1>9 DEF Next

(* A server that skips the read knows what the file holds.                  *)
THEOREM NothingIsMissed == Spec => []NothingMissed
  <1>1. Init => DatesOK
    BY DEF Init, DatesOK
  <1>2. TypeOK /\ DatesOK /\ [Next]_vars => DatesOK'
    BY DatesStep
  <1>3. DatesOK => NothingMissed
    BY DEF DatesOK, NothingMissed
  <1> QED
    BY <1>1, <1>2, <1>3, BansTypeCorrect, PTL DEF Spec

LEMMA TrackedStep == ASSUME TypeOK, TrackedAreAllowed, [Next]_vars PROVE TrackedAreAllowed'
  <1>1. ASSUME NEW o \in Operateurs, Commande(o) PROVE TrackedAreAllowed'
    BY <1>1 DEF Commande, Commander, ban, unban, Remplacer, Renoncer, registre,
                TrackedAreAllowed, Autorise
  <1>2. ASSUME NEW s \in Serveurs, refresh(s) PROVE TrackedAreAllowed'
    BY <1>2 DEF refresh, TrackedAreAllowed, Autorise
  <1>3. ASSUME NEW s \in Serveurs, Lire(s) PROVE TrackedAreAllowed'
    <2> SUFFICES ASSUME NEW t \in Serveurs, NEW p \in Joueurs, flux'[t][p] = "suivi"
                 PROVE  p \notin Bannis(liste'[t])
      BY DEF TrackedAreAllowed, Autorise
    <2>1. CASE t = s
      <3>1. flux'[s][p] = cancellationsForCurrentBans(flux[s], fichier.bans)[p]
        BY <1>3, <2>1 DEF Lire, TypeOK
      <3>2. liste'[s] = fichier.bans
        BY <1>3 DEF Lire, TypeOK
      <3> QED
        BY <2>1, <3>1, <3>2 DEF cancellationsForCurrentBans
    <2>2. CASE t # s
      BY <1>3, <2>2 DEF Lire, TypeOK, TrackedAreAllowed, Autorise
    <2> QED
      BY <2>1, <2>2
  <1>4. ASSUME NEW s \in Serveurs, LireEnVain(s) PROVE TrackedAreAllowed'
    BY <1>4 DEF LireEnVain, registre, TrackedAreAllowed, Autorise
  <1>5. ASSUME NEW s \in Serveurs, Temps(s) PROVE TrackedAreAllowed'
    BY <1>5 DEF Temps, registre, TrackedAreAllowed, Autorise
  <1>6. ASSUME NEW s \in Serveurs, Redemarrer(s) PROVE TrackedAreAllowed'
    <2> SUFFICES ASSUME NEW t \in Serveurs, NEW p \in Joueurs, flux'[t][p] = "suivi"
                 PROVE  p \notin Bannis(liste'[t])
      BY DEF TrackedAreAllowed, Autorise
    <2> QED
      BY <1>6 DEF Redemarrer, TypeOK, TrackedAreAllowed, Autorise
  <1>7. ASSUME NEW s \in Serveurs, NEW p \in Joueurs, Appel(s, p) PROVE TrackedAreAllowed'
    <2> SUFFICES ASSUME NEW t \in Serveurs, NEW q \in Joueurs, flux'[t][q] = "suivi"
                 PROVE  q \notin Bannis(liste'[t])
      BY DEF TrackedAreAllowed, Autorise
    <2>1. liste' = liste
      BY <1>7 DEF Appel, requireAllowed, trackStream, Finir, Passer, registre
    <2>2. flux[t][q] = "suivi" \/ q \notin Bannis(liste[t])
      BY <1>7 DEF Appel, requireAllowed, trackStream, Finir, Passer, TypeOK, Autorise
    <2> QED
      BY <2>1, <2>2 DEF TrackedAreAllowed, Autorise
  <1>8. CASE UNCHANGED vars
    BY <1>8 DEF vars, registre, TrackedAreAllowed, Autorise
  <1> QED
    BY <1>1, <1>2, <1>3, <1>4, <1>5, <1>6, <1>7, <1>8 DEF Next

(* No server follows a stream of a player it knows to be banned.            *)
THEOREM TrackedStayAllowed == Spec => []TrackedAreAllowed
  <1>1. Init => TrackedAreAllowed
    BY DEF Init, TrackedAreAllowed
  <1>2. TypeOK /\ TrackedAreAllowed /\ [Next]_vars => TrackedAreAllowed'
    BY TrackedStep
  <1> QED
    BY <1>1, <1>2, BansTypeCorrect, PTL DEF Spec

-----------------------------------------------------------------------------
(* Commands that follow each other, from however many operators.  What the  *)
(* one under way has read is what the file still holds.                     *)

UneCommandeALaFois ==
  \A o1, o2 \in Operateurs : outil[o1].lance /\ outil[o2].lance => o1 = o2
LuEncoreVrai == \A o \in Operateurs : outil[o].lance => outil[o].bans = fichier.bans
KeptInv == LuEncoreVrai /\ BanKept

LEMMA KeptStep == ASSUME UneCommandeALaFois, TypeOK, KeptInv, [Next]_vars PROVE KeptInv'
  <1>1. ASSUME NEW o \in Operateurs, NEW bans, Remplacer(o, bans) PROVE LuEncoreVrai'
    BY <1>1 DEF Remplacer, LuEncoreVrai, TypeOK, Repos, UneCommandeALaFois
  <1>2. ASSUME NEW o \in Operateurs, Commander(o) PROVE KeptInv'
    BY <1>2 DEF Commander, KeptInv, LuEncoreVrai, BanKept, TypeOK
  <1>3. ASSUME NEW o \in Operateurs, NEW c \in Entrees, unban(o, c) PROVE KeptInv'
    <2>1. /\ fichier'.bans = outil[o].bans \ Vises(outil[o].bans, c)
          /\ outil[o].bans = fichier.bans
          /\ c.pid = Aucun \/ c.uid = Aucun
      BY <1>3 DEF unban, Remplacer, KeptInv, LuEncoreVrai
    <2>2. BanKept'
      BY <1>3, <2>1, ViserUnJoueur DEF unban, KeptInv, BanKept, TypeOK
    <2> QED
      BY <1>1, <1>3, <2>2 DEF unban, KeptInv
  <1>4. ASSUME NEW o \in Operateurs, NEW c \in Entrees, NEW dit \in BOOLEAN, ban(o, c, dit)
        PROVE  KeptInv'
    <2>1. /\ fichier'.bans = Poser(outil[o].bans, c)
          /\ outil[o].bans = fichier.bans
      BY <1>4 DEF ban, Remplacer, KeptInv, LuEncoreVrai
    <2>2. BanKept'
      BY <1>4, <2>1, PoserGarde DEF ban, KeptInv, BanKept, TypeOK
    <2> QED
      BY <1>1, <1>4, <2>2 DEF ban, KeptInv
  <1>5. ASSUME NEW o \in Operateurs, Renoncer(o) PROVE KeptInv'
    BY <1>5 DEF Renoncer, Repos, KeptInv, LuEncoreVrai, BanKept, TypeOK
  <1>6. CASE UNCHANGED <<fichier, outil, acquis>>
    BY <1>6 DEF KeptInv, LuEncoreVrai, BanKept
  <1>7. ASSUME NEW s \in Serveurs, \/ refresh(s) \/ Lire(s) \/ LireEnVain(s) \/ Temps(s)
                                   \/ Redemarrer(s) \/ \E p \in Joueurs : Appel(s, p)
        PROVE  UNCHANGED <<fichier, outil, acquis>>
    BY <1>7 DEF refresh, Lire, LireEnVain, Temps, Redemarrer, Appel, requireAllowed,
                trackStream, Finir, Passer
  <1> QED
    BY <1>2, <1>3, <1>4, <1>5, <1>6, <1>7 DEF Next, Commande, vars

(* A ban the operator was told of stays in the file until an unban, as long *)
(* as no command begins between the read and the rename of another.         *)
THEOREM BansAreKept == Spec /\ []UneCommandeALaFois => []BanKept
  <1>1. Init => KeptInv
    BY DEF Init, KeptInv, LuEncoreVrai, BanKept, Repos
  <1>2. UneCommandeALaFois /\ TypeOK /\ KeptInv /\ [Next]_vars => KeptInv'
    BY KeptStep
  <1>3. KeptInv => BanKept
    BY DEF KeptInv
  <1> QED
    BY <1>1, <1>2, <1>3, BansTypeCorrect, PTL DEF Spec
-----------------------------------------------------------------------------
(* The registry implements the one list of BanList: each step is one step   *)
(* of the list, or changes nothing of it.                                   *)

Suivis(s) == {p \in Joueurs : flux[s][p] = "suivi"}

LEMMA PromisInit == Init => Promis!Init
  BY DEF Init, Promis!Init, Bannis

LEMMA CommandePromise ==
  ASSUME TypeOK, LuEncoreVrai, NEW o \in Operateurs, Commande(o)
  PROVE  [Promis!Next]_(Promis!listeVars)
  <1>1. UNCHANGED <<liste, flux>>
    BY DEF Commande, Commander, ban, unban, Remplacer, Renoncer, registre
  <1>2. CASE Commander(o) \/ Renoncer(o)
    BY <1>1, <1>2 DEF Commander, Renoncer, Promis!listeVars
  <1>3. ASSUME NEW c \in Entrees, unban(o, c) PROVE [Promis!Next]_(Promis!listeVars)
    <2>1. /\ fichier'.bans = fichier.bans \ Vises(fichier.bans, c)
          /\ c.pid = Aucun \/ c.uid = Aucun
          /\ acquis' = acquis \ {JoueurDe(c)}
      BY <1>3 DEF unban, Remplacer, LuEncoreVrai
    <2>2. JoueurDe(c) \in Joueurs /\ fichier.bans \in SUBSET Entrees
      BY UnJoueur DEF TypeOK
    <2>3. \/ Bannis(fichier'.bans) = Bannis(fichier.bans)
          \/ Bannis(fichier'.bans) = Bannis(fichier.bans) \ {JoueurDe(c)}
      BY <2>1, <2>2, BannisDeViser
    <2> QED
      BY <1>1, <2>1, <2>2, <2>3 DEF Promis!Next, Promis!Gracier
  <1>4. ASSUME NEW c \in Entrees, NEW dit \in BOOLEAN, ban(o, c, dit)
        PROVE  [Promis!Next]_(Promis!listeVars)
    <2>1. /\ fichier'.bans = Poser(fichier.bans, c)
          /\ acquis' \in {acquis, acquis \cup {JoueurDe(c)}}
      BY <1>4 DEF ban, Remplacer, LuEncoreVrai
    <2>2. JoueurDe(c) \in Joueurs /\ fichier.bans \in SUBSET Entrees
      BY UnJoueur DEF TypeOK
    <2>3. Bannis(fichier'.bans) = Bannis(fichier.bans) \cup {JoueurDe(c)}
      BY <2>1, <2>2, BannisDePoser
    <2> QED
      BY <1>1, <2>1, <2>2, <2>3 DEF Promis!Next, Promis!Bannir
  <1> QED
    BY <1>2, <1>3, <1>4 DEF Commande

LEMMA LirePromis ==
  ASSUME TypeOK, NEW s \in Serveurs, Lire(s)
  PROVE  Promis!Apprendre(s)
  <1>1. \A t \in Serveurs : liste'[t] = IF t = s THEN fichier.bans ELSE liste[t]
    BY DEF Lire, TypeOK
  <1>2. \A t \in Serveurs : {p \in Joueurs : flux'[t][p] = "suivi"} =
          IF t = s THEN Suivis(s) \ Bannis(fichier.bans) ELSE Suivis(t)
    BY DEF Lire, TypeOK, cancellationsForCurrentBans, Suivis
  <1>3. UNCHANGED <<fichier, acquis>>
    BY DEF Lire
  <1> QED
    BY <1>1, <1>2, <1>3 DEF Promis!Apprendre, Suivis

LEMMA RepartirPromis ==
  ASSUME TypeOK, NEW s \in Serveurs, Redemarrer(s)
  PROVE  Promis!Repartir(s)
  <1>1. \A t \in Serveurs : Bannis(liste'[t]) = IF t = s THEN {} ELSE Bannis(liste[t])
    BY DEF Redemarrer, TypeOK, Bannis
  <1>2. \A t \in Serveurs : {p \in Joueurs : flux'[t][p] = "suivi"} =
          IF t = s THEN {} ELSE Suivis(t)
    BY DEF Redemarrer, TypeOK, Suivis
  <1>3. UNCHANGED <<fichier, acquis>>
    BY DEF Redemarrer
  <1> QED
    BY <1>1, <1>2, <1>3 DEF Promis!Repartir, Suivis

LEMMA PasserPromis ==
  ASSUME TypeOK, NEW s \in Serveurs, NEW p \in Joueurs, NEW de, NEW a, Passer(s, p, de, a)
  PROVE  /\ UNCHANGED <<fichier, acquis, liste>>
         /\ \A t \in Serveurs : {q \in Joueurs : flux'[t][q] = "suivi"} =
              IF t # s THEN Suivis(t)
              ELSE IF a = "suivi" THEN Suivis(s) \cup {p} ELSE Suivis(s) \ {p}
  BY DEF Passer, registre, TypeOK, Suivis

LEMMA AppelPromis ==
  ASSUME TypeOK, NEW s \in Serveurs, NEW p \in Joueurs, Appel(s, p)
  PROVE  [Promis!Next]_(Promis!listeVars)
  <1>1. ASSUME NEW de, NEW a, Passer(s, p, de, a), a # "suivi"
        PROVE  Promis!Quitter(s, p)
    <2>1. UNCHANGED <<fichier, acquis, liste>>
      BY <1>1, PasserPromis
    <2>2. \A t \in Serveurs : {q \in Joueurs : flux'[t][q] = "suivi"} =
            IF t = s THEN Suivis(s) \ {p} ELSE Suivis(t)
      BY <1>1, PasserPromis
    <2> QED
      BY <2>1, <2>2 DEF Promis!Quitter, Suivis
  <1>2. ASSUME NEW de, Passer(s, p, de, "suivi"), Autorise(s, p)
        PROVE  Promis!Suivre(s, p)
    <2>1. UNCHANGED <<fichier, acquis, liste>>
      BY <1>2, PasserPromis
    <2>2. \A t \in Serveurs : {q \in Joueurs : flux'[t][q] = "suivi"} =
            IF t = s THEN Suivis(s) \cup {p} ELSE Suivis(t)
      BY <1>2, PasserPromis
    <2>3. p \notin Bannis(liste[s])
      BY <1>2 DEF Autorise
    <2> QED
      BY <2>1, <2>2, <2>3 DEF Promis!Suivre, Suivis
  <1>3. Promis!Quitter(s, p) \/ Promis!Suivre(s, p)
    BY <1>1, <1>2 DEF Appel, requireAllowed, trackStream, Finir
  <1> QED
    BY <1>3 DEF Promis!Next

LEMMA PromisStep ==
  ASSUME TypeOK, LuEncoreVrai, [Next]_vars
  PROVE  [Promis!Next]_(Promis!listeVars)
  <1>1. ASSUME NEW s \in Serveurs, refresh(s) \/ LireEnVain(s) \/ Temps(s)
        PROVE  UNCHANGED Promis!listeVars
    BY <1>1 DEF refresh, LireEnVain, Temps, registre, Promis!listeVars
  <1>2. CASE UNCHANGED vars
    BY <1>2 DEF vars, registre, Promis!listeVars
  <1>3. ASSUME NEW s \in Serveurs, Lire(s) \/ Redemarrer(s)
        PROVE  Promis!Next
    BY <1>3, LirePromis, RepartirPromis DEF Promis!Next
  <1> QED
    BY <1>1, <1>2, <1>3, CommandePromise, AppelPromis DEF Next

(* The registry keeps the promise of BanList, under the same condition.     *)
THEOREM BansKeepTheirPromise == Spec /\ []UneCommandeALaFois => KeepsItsPromise
  <1>1. Init => KeptInv
    BY DEF Init, KeptInv, LuEncoreVrai, BanKept, Repos
  <1>2. UneCommandeALaFois /\ TypeOK /\ KeptInv /\ [Next]_vars => KeptInv'
    BY KeptStep
  <1>3. TypeOK /\ KeptInv /\ [Next]_vars => [Promis!Next]_(Promis!listeVars)
    BY PromisStep DEF KeptInv
  <1> QED
    BY <1>1, <1>2, <1>3, PromisInit, BansTypeCorrect, PTL
       DEF Spec, KeepsItsPromise, Promis!Spec
=============================================================================
