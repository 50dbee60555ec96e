-------------------------- MODULE MatchmakerProofs --------------------------
(***************************************************************************)
(* Safety of the matchmaking queue for any number of players, tickets,     *)
(* streams, modes and camps.  IInv (Matchmaker) is inductive; the theorems *)
(* of the last section read off it.                                        *)
(***************************************************************************)
EXTENDS Matchmaker, FiniteSetTheorems, WellFoundedInduction, TLAPS

-----------------------------------------------------------------------------
(* Finite sets and least elements.                                         *)

(* A non-empty set of naturals has a least element.                        *)
LEMMA NatMin ==
  ASSUME NEW N, N \subseteq Nat, N # {}
  PROVE  \E n \in N : \A m \in N : n <= m
<1>1. \E n \in N : \A m \in N : <<m, n>> \notin OpToRel(<, Nat)
  BY NatLessThanWellFounded, WFMin
<1>2. ASSUME NEW n \in N, NEW m \in N, <<m, n>> \notin OpToRel(<, Nat)
      PROVE  n <= m
  BY <1>2 DEF OpToRel
<1> QED BY <1>1, <1>2

(* Some member of a non-empty set of waiters arrived first.                *)
LEMMA PremierArrive ==
  ASSUME NEW S, S # {}, S \subseteq Flux, NEW a \in [Flux -> Nat]
  PROVE  \E x \in S : \A y \in S : a[x] <= a[y]
<1> DEFINE N == {a[x] : x \in S}
<1>1. N \subseteq Nat /\ N # {} OBVIOUS
<1>2. PICK n \in N : \A m \in N : n <= m
  <2> HIDE DEF N
  <2> QED BY <1>1, NatMin
<1> QED BY <1>2

LEMMA FluxFini ==
  ASSUME NEW S, S \subseteq Flux
  PROVE  IsFiniteSet(S) /\ Cardinality(S) \in Nat
BY MatchmakerAssumption, FS_Subset, FS_CardinalityType

LEMMA NonVide ==
  ASSUME NEW S, Cardinality(S) >= 1
  PROVE  S # {}
<1>1. ASSUME S = {} PROVE Cardinality(S) = 0
  BY <1>1, FS_EmptySet, Zenon
<1> QED BY <1>1

(* The size of two, and of three, disjoint teams.                          *)
LEMMA TailleDesEquipes ==
  ASSUME NEW T1, NEW T2, NEW T3, T1 \subseteq Flux, T2 \subseteq Flux, T3 \subseteq Flux,
         T1 \cap T2 = {}, T1 \cap T3 = {}, T2 \cap T3 = {}
  PROVE  Cardinality(T1 \cup T2 \cup T3) = Cardinality(T1) + Cardinality(T2) + Cardinality(T3)
<1>1. /\ IsFiniteSet(T1) /\ IsFiniteSet(T2) /\ IsFiniteSet(T3) /\ IsFiniteSet(T1 \cup T2)
      /\ Cardinality(T1) \in Nat /\ Cardinality(T2) \in Nat /\ Cardinality(T3) \in Nat
  BY FluxFini, FS_Union
<1>2. Cardinality({}) = 0
  BY FS_EmptySet
<1>3. Cardinality(T1 \cup T2) = Cardinality(T1) + Cardinality(T2) - Cardinality(T1 \cap T2)
  BY <1>1, FS_Union
<1>4. Cardinality((T1 \cup T2) \cup T3)
        = Cardinality(T1 \cup T2) + Cardinality(T3) - Cardinality((T1 \cup T2) \cap T3)
  BY <1>1, FS_Union, Zenon
<1>5. (T1 \cup T2) \cap T3 = {}
  OBVIOUS
<1>6. Cardinality(T1 \cap T2) = 0 /\ Cardinality((T1 \cup T2) \cap T3) = 0
  BY <1>2, <1>5, Zenon
<1>7. Cardinality(T1 \cup T2) = Cardinality(T1) + Cardinality(T2)
  BY <1>1, <1>3, <1>6
<1> QED BY <1>1, <1>4, <1>6, <1>7

-----------------------------------------------------------------------------
(* The rosters.                                                            *)

(* The capacities of the festival modes split evenly.                      *)
LEMMA Parts ==
  ASSUME NEW c \in Configs
  PROVE  /\ Capacite[c] \in Nat /\ Capacite[c] >= 2
         /\ c \in FilesDeFete => /\ Capacite[c] \div 2 \in Nat
                                 /\ Capacite[c] \div 2 >= 1
                                 /\ (Capacite[c] \div 2) + (Capacite[c] \div 2) = Capacite[c]
         /\ c \in Tricolores  => /\ Capacite[c] \div 4 \in Nat
                                 /\ Capacite[c] \div 4 >= 1
                                 /\ (Capacite[c] \div 2) + (Capacite[c] \div 4)
                                      + (Capacite[c] \div 4) = Capacite[c]
<1> DEFINE n == Capacite[c]
<1>1. n \in Nat /\ n >= 2
  BY MatchmakerAssumption
<1>2. c \in FilesDeFete => n % 2 = 0
  <2>1. n % 4 = 0 => n % 2 = 0
    <3> HIDE DEF n
    <3> QED BY <1>1
  <2> QED BY <2>1, MatchmakerAssumption
<1>3. c \in Tricolores => n % 4 = 0 /\ c \in FilesDeFete
  BY MatchmakerAssumption
<1> HIDE DEF n
<1>4. n % 2 = 0 => n \div 2 \in Nat /\ n \div 2 >= 1 /\ (n \div 2) + (n \div 2) = n
  BY <1>1
<1>5. n % 4 = 0 => n \div 4 \in Nat /\ n \div 4 >= 1 /\ (n \div 2) + (n \div 4) + (n \div 4) = n
  BY <1>1
<1> USE DEF n
<1> QED BY <1>1, <1>2, <1>3, <1>4, <1>5

(* What formMatchLocked promises of a roster e of queue c taken from the    *)
(* waiters W: distinct players of the queue, as many as the mode holds, one *)
(* of whom can host; in a festival queue, camps apart and teams of the      *)
(* sizes of the mode.                                                       *)
Equipe(e, s) == {f \in DOMAIN e : e[f] = s}

BonPartage(e, c) ==
  /\ \A f, g \in DOMAIN e : e[f] = e[g] <=> suivi[f].camp = suivi[g].camp
  /\ \A f \in DOMAIN e : suivi[f].camp # SansCamp
  /\ Cardinality(Equipe(e, "team1")) = Capacite[c] \div 2
  /\ IF c \in Tricolores
     THEN /\ Cardinality(Equipe(e, "team2")) = Capacite[c] \div 4
          /\ Cardinality(Equipe(e, "team3")) = Capacite[c] \div 4
     ELSE Cardinality(Equipe(e, "team2")) = Capacite[c] \div 2

BonneComposition(e, W, a, c) ==
  /\ DOMAIN e \subseteq Distincts(W, a, c)
  /\ e \in [DOMAIN e -> Creneaux]
  /\ Cardinality(DOMAIN e) = Capacite[c]
  /\ \E f \in DOMAIN e : e[f] \in {"aucun", "team1"}
  /\ c \in FilesDeFete => BonPartage(e, c)

(* Three teams taken each from a camp of its own, the third perhaps empty,  *)
(* make a good split.                                                       *)
TroisCamps(T1, T2, T3) ==
  /\ T1 \subseteq Flux /\ T2 \subseteq Flux /\ T3 \subseteq Flux
  /\ \A f, g \in T1 : suivi[f].camp = suivi[g].camp
  /\ \A f, g \in T2 : suivi[f].camp = suivi[g].camp
  /\ \A f, g \in T3 : suivi[f].camp = suivi[g].camp
  /\ \A f \in T1, g \in T2 : suivi[f].camp # suivi[g].camp
  /\ \A f \in T1, g \in T3 : suivi[f].camp # suivi[g].camp
  /\ \A f \in T2, g \in T3 : suivi[f].camp # suivi[g].camp
  /\ \A f \in T1 \cup T2 \cup T3 : suivi[f].camp # SansCamp

BonPlacement(e, T1, T2, T3) ==
  /\ DOMAIN e = T1 \cup T2 \cup T3
  /\ e \in [DOMAIN e -> Creneaux]
  /\ Cardinality(DOMAIN e) = Cardinality(T1) + Cardinality(T2) + Cardinality(T3)
  /\ \A f, g \in DOMAIN e : e[f] = e[g] <=> suivi[f].camp = suivi[g].camp
  /\ \A f \in DOMAIN e : suivi[f].camp # SansCamp
  /\ \A f \in T1 : e[f] = "team1"
  /\ Equipe(e, "team1") = T1 /\ Equipe(e, "team2") = T2 /\ Equipe(e, "team3") = T3

LEMMA TroisEquipes ==
  ASSUME NEW T1, NEW T2, NEW T3, TroisCamps(T1, T2, T3)
  PROVE  BonPlacement(Placer(T1, T2, T3), T1, T2, T3)
<1> DEFINE e == Placer(T1, T2, T3)
<1>1. T1 \cap T2 = {} /\ T1 \cap T3 = {} /\ T2 \cap T3 = {}
  BY DEF TroisCamps
<1>2. /\ DOMAIN e = T1 \cup T2 \cup T3
      /\ e \in [DOMAIN e -> Creneaux]
      /\ \A f \in T1 : e[f] = "team1"
      /\ \A f \in T2 : e[f] = "team2"
      /\ \A f \in T3 : e[f] = "team3"
      /\ Equipe(e, "team1") = T1 /\ Equipe(e, "team2") = T2 /\ Equipe(e, "team3") = T3
  BY <1>1 DEF Placer, Equipe, Creneaux
<1>3. Cardinality(T1 \cup T2 \cup T3) = Cardinality(T1) + Cardinality(T2) + Cardinality(T3)
  BY <1>1, TailleDesEquipes DEF TroisCamps
<1> HIDE DEF e
<1>4. \A f, g \in DOMAIN e : e[f] = e[g] <=> suivi[f].camp = suivi[g].camp
  BY <1>2 DEF TroisCamps
<1>5. \A f \in DOMAIN e : suivi[f].camp # SansCamp
  BY <1>2 DEF TroisCamps
<1>6. BonPlacement(e, T1, T2, T3)
  BY <1>2, <1>3, <1>4, <1>5 DEF BonPlacement
<1> QED BY <1>6 DEF e

LEMMA TetesFacts ==
  ASSUME NEW S, NEW a, NEW n, NEW T \in Tetes(S, a, n)
  PROVE  T \subseteq S /\ Cardinality(T) = n
BY DEF Tetes

(* The players of a camp are of that camp.                                  *)
LEMMA DuCampFacts ==
  ASSUME NEW D, NEW x, NEW T, T \subseteq DuCamp(D, CampsDe(D), x)
  PROVE  T \subseteq D /\ \A f \in T : suivi[f].camp = x
BY DEF DuCamp, CampsDe

LEMMA FestimatchFacts ==
  ASSUME NEW W, W \subseteq Flux, NEW a, NEW c \in FilesDeFete \ Tricolores,
         NEW e \in RepartirParCamp(Distincts(W, a, c), CampsDe(Distincts(W, a, c)), a, Capacite[c])
  PROVE  BonneComposition(e, W, a, c)
<1> DEFINE D == Distincts(W, a, c)
           camp == CampsDe(D)
           n == Capacite[c]
<1>1. D \subseteq Flux
  BY DEF Distincts, EnFile
<1>2. PICK p \in DeuxCamps(D, camp) :
        \E T1 \in Tetes(DuCamp(D, camp, p[1]), a, n \div 2),
           T2 \in Tetes(DuCamp(D, camp, p[2]), a, n \div 2) : e = Placer(T1, T2, {})
  BY DEF RepartirParCamp
<1>20. PICK T1 \in Tetes(DuCamp(D, camp, p[1]), a, n \div 2),
            T2 \in Tetes(DuCamp(D, camp, p[2]), a, n \div 2) : e = Placer(T1, T2, {})
  BY <1>2
<1>3. p[1] # p[2] /\ p[1] # SansCamp /\ p[2] # SansCamp
  BY DEF DeuxCamps, CampsPresents
<1>4. /\ T1 \subseteq D /\ T2 \subseteq D
      /\ \A f \in T1 : suivi[f].camp = p[1]
      /\ \A f \in T2 : suivi[f].camp = p[2]
      /\ Cardinality(T1) = n \div 2 /\ Cardinality(T2) = n \div 2
  <2> HIDE DEF D, camp, n
  <2>1. /\ T1 \subseteq DuCamp(D, camp, p[1]) /\ Cardinality(T1) = n \div 2
        /\ T2 \subseteq DuCamp(D, camp, p[2]) /\ Cardinality(T2) = n \div 2
    BY TetesFacts
  <2> QED BY <2>1, DuCampFacts DEF camp
<1>5. TroisCamps(T1, T2, {})
  <2> HIDE DEF D, camp, n
  <2> QED BY <1>1, <1>3, <1>4 DEF TroisCamps
<1>6. BonPlacement(e, T1, T2, {})
  BY <1>20, <1>5, TroisEquipes
<1>7. c \in Configs /\ n \div 2 \in Nat /\ n \div 2 >= 1 /\ (n \div 2) + (n \div 2) = n
  BY Parts, MatchmakerAssumption
<1>8. Cardinality({}) = 0 /\ T1 # {}
  <2> HIDE DEF D, camp, n
  <2> QED BY <1>4, <1>7, FS_EmptySet, NonVide
<1>9. BonPartage(e, c)
  <2> HIDE DEF D, camp
  <2> QED BY <1>4, <1>6 DEF BonPlacement, BonPartage
<1>10. Cardinality(DOMAIN e) = n /\ DOMAIN e \subseteq D /\ e \in [DOMAIN e -> Creneaux]
  <2> HIDE DEF D, camp, n
  <2> QED BY <1>4, <1>6, <1>7, <1>8 DEF BonPlacement
<1>11. \E f \in DOMAIN e : e[f] \in {"aucun", "team1"}
  BY <1>6, <1>8 DEF BonPlacement
<1> QED BY <1>9, <1>10, <1>11 DEF BonneComposition

LEMMA TricoloreFacts ==
  ASSUME NEW W, W \subseteq Flux, \A f \in W : suivi[f] \in Suivi,
         NEW a, NEW c \in Tricolores,
         NEW e \in RepartirTricolore(Distincts(W, a, c), CampsDe(Distincts(W, a, c)), a,
                                     Capacite[c], defenseur)
  PROVE  BonneComposition(e, W, a, c)
<1> DEFINE D == Distincts(W, a, c)
           camp == CampsDe(D)
           n == Capacite[c]
           forts == {d \in CampsPresents(D, camp) \ {defenseur} :
                       Cardinality(DuCamp(D, camp, d)) >= n \div 4}
<1>1. D \subseteq W
  BY DEF Distincts, EnFile
<1>2. /\ defenseur \in Camps
      /\ \E p \in forts \X forts :
           /\ Ordre[p[1]] < Ordre[p[2]]
           /\ \E T1 \in Tetes(DuCamp(D, camp, defenseur), a, n \div 2),
                 T2 \in Tetes(DuCamp(D, camp, p[1]), a, n \div 4),
                 T3 \in Tetes(DuCamp(D, camp, p[2]), a, n \div 4) : e = Placer(T1, T2, T3)
  BY DEF RepartirTricolore
<1>3. PICK x \in forts, y \in forts :
        /\ Ordre[x] < Ordre[y]
        /\ \E T1 \in Tetes(DuCamp(D, camp, defenseur), a, n \div 2),
              T2 \in Tetes(DuCamp(D, camp, x), a, n \div 4),
              T3 \in Tetes(DuCamp(D, camp, y), a, n \div 4) : e = Placer(T1, T2, T3)
  BY <1>2
<1>4. PICK T1 \in Tetes(DuCamp(D, camp, defenseur), a, n \div 2),
           T2 \in Tetes(DuCamp(D, camp, x), a, n \div 4),
           T3 \in Tetes(DuCamp(D, camp, y), a, n \div 4) : e = Placer(T1, T2, T3)
  BY <1>3
<1>5. \A d \in forts : d \in Camps /\ d # defenseur
  BY <1>1 DEF CampsPresents, CampsDe, Suivi
<1>6. /\ x # y /\ defenseur # x /\ defenseur # y
      /\ x # SansCamp /\ y # SansCamp /\ defenseur # SansCamp
  BY <1>2, <1>3, <1>5, CampsAssumption
<1>7. /\ T1 \subseteq D /\ T2 \subseteq D /\ T3 \subseteq D
      /\ \A f \in T1 : suivi[f].camp = defenseur
      /\ \A f \in T2 : suivi[f].camp = x
      /\ \A f \in T3 : suivi[f].camp = y
      /\ Cardinality(T1) = n \div 2 /\ Cardinality(T2) = n \div 4 /\ Cardinality(T3) = n \div 4
  <2> HIDE DEF D, camp, n
  <2>1. /\ T1 \subseteq DuCamp(D, camp, defenseur) /\ Cardinality(T1) = n \div 2
        /\ T2 \subseteq DuCamp(D, camp, x) /\ Cardinality(T2) = n \div 4
        /\ T3 \subseteq DuCamp(D, camp, y) /\ Cardinality(T3) = n \div 4
    BY TetesFacts
  <2> QED BY <2>1, DuCampFacts DEF camp
<1>8. TroisCamps(T1, T2, T3)
  <2> HIDE DEF D, camp, n, forts
  <2> QED BY <1>1, <1>6, <1>7 DEF TroisCamps
<1>9. BonPlacement(e, T1, T2, T3)
  BY <1>4, <1>8, TroisEquipes
<1>10. /\ n \div 2 \in Nat /\ n \div 2 >= 1
       /\ (n \div 2) + (n \div 4) + (n \div 4) = n
  BY Parts, MatchmakerAssumption
<1>11. T1 # {}
  <2> HIDE DEF D, camp, n, forts
  <2> QED BY <1>7, <1>10, NonVide
<1>12. BonPartage(e, c)
  <2> HIDE DEF D, camp, forts
  <2> QED BY <1>7, <1>9 DEF BonPlacement, BonPartage
<1>13. Cardinality(DOMAIN e) = n /\ DOMAIN e \subseteq D /\ e \in [DOMAIN e -> Creneaux]
  <2> HIDE DEF D, camp, n, forts
  <2> QED BY <1>7, <1>9, <1>10 DEF BonPlacement
<1>14. \E f \in DOMAIN e : e[f] \in {"aucun", "team1"}
  BY <1>9, <1>11 DEF BonPlacement
<1> QED BY <1>12, <1>13, <1>14 DEF BonneComposition

LEMMA OrdinaireFacts ==
  ASSUME NEW W, W \subseteq Flux, NEW a, NEW c \in Configs \ FilesDeFete,
         NEW T \in Tetes(Distincts(W, a, c), a, Capacite[c])
  PROVE  BonneComposition([f \in T |-> "aucun"], W, a, c)
<1> DEFINE e == [f \in T |-> "aucun"]
<1>1. T \subseteq Distincts(W, a, c) /\ Cardinality(T) = Capacite[c]
  BY TetesFacts
<1>2. Capacite[c] \in Nat /\ Capacite[c] >= 2
  BY Parts
<1>3. T # {}
  <2> HIDE DEF e
  <2> QED BY <1>1, <1>2, NonVide
<1> QED BY <1>1, <1>3 DEF BonneComposition, Creneaux

(* Whatever the mode, formMatchLocked forms a good roster or none.          *)
LEMMA CompositionFacts ==
  ASSUME NEW W, W \subseteq Flux, \A f \in W : suivi[f] \in Suivi,
         NEW a, NEW c \in Configs, NEW e \in Compositions(W, a, c)
  PROVE  BonneComposition(e, W, a, c)
<1> DEFINE D == Distincts(W, a, c)
           n == Capacite[c]
<1>1. CASE c \notin FilesDeFete
  <2>1. e \in {[f \in T |-> "aucun"] : T \in Tetes(D, a, n)}
    BY <1>1 DEF Compositions
  <2> QED BY <1>1, <2>1, OrdinaireFacts
<1>2. CASE c \in Tricolores
  <2>1. e \in RepartirTricolore(D, CampsDe(D), a, n, defenseur)
    BY <1>2, MatchmakerAssumption DEF Compositions
  <2> QED BY <1>2, <2>1, TricoloreFacts
<1>3. CASE c \in FilesDeFete \ Tricolores
  <2>1. e \in RepartirParCamp(D, CampsDe(D), a, n)
    BY <1>3 DEF Compositions
  <2> QED BY <1>3, <2>1, FestimatchFacts
<1> QED BY <1>1, <1>2, <1>3

LEMMA HoteFacts ==
  ASSUME NEW W, W \subseteq Flux, NEW a \in [Flux -> Nat], NEW c, NEW e,
         BonneComposition(e, W, a, c)
  PROVE  Hote(e, a) \in DOMAIN e
<1> DEFINE S == {f \in DOMAIN e : e[f] \in {"aucun", "team1"}}
<1>1. S # {} /\ S \subseteq Flux
  BY DEF BonneComposition, Distincts, EnFile
<1>2. PICK x \in S : \A y \in S : a[x] <= a[y]
  <2> HIDE DEF S
  <2> QED BY <1>1, PremierArrive
<1>3. /\ x \in DOMAIN e
      /\ e[x] \in {"aucun", "team1"}
      /\ \A g \in DOMAIN e : e[g] \in {"aucun", "team1"} => a[x] <= a[g]
  BY <1>2
<1> HIDE DEF S
<1> QED BY <1>3 DEF Hote

(* The rosters formed together are good, and no player is in two of them.   *)
BonsPrets(E, W, a) ==
  /\ \A e \in E : \E c \in Configs : BonneComposition(e, W, a, c)
  /\ \A e, d \in E : DOMAIN e \cap DOMAIN d # {} => e = d

LEMMA PretsFacts ==
  ASSUME NEW W, W \subseteq Flux, \A f \in W : suivi[f] \in Suivi,
         NEW a, NEW C, C \subseteq Configs
  PROVE  BonsPrets(Prets(W, a, C), W, a)
<1> DEFINE choix(c) == CHOOSE e \in Compositions(W, a, c) : TRUE
           P == {c \in C : Compositions(W, a, c) # {}}
<1>1. Prets(W, a, C) = {choix(c) : c \in P}
  BY DEF Prets
<1>2. \A c \in P : choix(c) \in Compositions(W, a, c)
  OBVIOUS
<1>3. \A c \in P : c \in Configs
  OBVIOUS
<1> HIDE DEF choix, P
<1>4. \A c \in P : BonneComposition(choix(c), W, a, c)
  BY <1>2, <1>3, CompositionFacts
<1>5. \A c \in P : \A f \in DOMAIN choix(c) : suivi[f].cfg = c
  BY <1>4 DEF BonneComposition, Distincts, EnFile
<1>6. ASSUME NEW e \in Prets(W, a, C), NEW d \in Prets(W, a, C), DOMAIN e \cap DOMAIN d # {}
      PROVE  e = d
  <2>1. PICK c \in P, b \in P : e = choix(c) /\ d = choix(b)
    BY <1>1
  <2>2. PICK f : f \in DOMAIN e /\ f \in DOMAIN d
    BY <1>6
  <2>3. c = b
    BY <1>5, <2>1, <2>2
  <2> QED BY <2>1, <2>3
<1>7. \A e \in Prets(W, a, C) : \E c \in Configs : BonneComposition(e, W, a, c)
  BY <1>1, <1>3, <1>4
<1> QED BY <1>6, <1>7 DEF BonsPrets

-----------------------------------------------------------------------------
(* A critical section that forms the rosters E out of the waiters W.        *)

Servis(E) == UNION {DOMAIN e : e \in E}
Sien(E) == [f \in Servis(E) |-> CHOOSE e \in E : f \in DOMAIN e]

(* What holds of the pool when formMatchLocked runs: the waiters of W are   *)
(* unmatched, with an empty channel, each at its own place.                 *)
AvantFormation(W, a) ==
  /\ W \subseteq Flux
  /\ a \in [Flux -> Nat]
  /\ \A f \in W : suivi[f] \in Suivi /\ ~Servi(f) /\ out[f] = "vide"
  /\ \A f, g \in W : a[f] = a[g] => f = g

LEMMA SienFacts ==
  ASSUME NEW W, NEW a, AvantFormation(W, a), NEW E, BonsPrets(E, W, a)
  PROVE  /\ Servis(E) \subseteq W
         /\ \A f \in Servis(E) :
              /\ Sien(E)[f] \in E
              /\ f \in DOMAIN Sien(E)[f]
              /\ DOMAIN Sien(E)[f] \subseteq Servis(E)
              /\ \A g \in DOMAIN Sien(E)[f] : Sien(E)[g] = Sien(E)[f]
              /\ Hote(Sien(E)[f], a) \in DOMAIN Sien(E)[f]
<1>1. Servis(E) \subseteq W
  BY DEF Servis, BonsPrets, BonneComposition, Distincts, EnFile
<1>2. \A f \in Servis(E) : Sien(E)[f] \in E /\ f \in DOMAIN Sien(E)[f]
  BY DEF Servis, Sien
<1>3. \A f \in Servis(E) : DOMAIN Sien(E)[f] \subseteq Servis(E)
  BY <1>2 DEF Servis
<1>4. \A f \in Servis(E) : \A g \in DOMAIN Sien(E)[f] : Sien(E)[g] = Sien(E)[f]
  <2> TAKE f \in Servis(E)
  <2> TAKE g \in DOMAIN Sien(E)[f]
  <2>1. g \in Servis(E) BY <1>3
  <2>2. g \in DOMAIN Sien(E)[g] /\ Sien(E)[g] \in E /\ Sien(E)[f] \in E BY <1>2, <2>1
  <2> QED BY <2>2 DEF BonsPrets
<1>5. \A e \in E : Hote(e, a) \in DOMAIN e
  BY HoteFacts DEF BonsPrets, AvantFormation
<1> QED BY <1>1, <1>2, <1>3, <1>4, <1>5

EffetDeFormer(W, a, E) ==
  /\ waiting' = W \ Servis(E)
  /\ arrivee' \in [Flux -> Nat] /\ \A f \in waiting' : arrivee'[f] = a[f]
  /\ out' \in [Flux -> Messages]
  /\ \A f \in Flux : out'[f] = IF f \in Servis(E) THEN "SUCCEEDED" ELSE out[f]
  /\ partie' \in [Flux -> Flux \cup {Rien}]
  /\ \A f \in Flux : partie'[f] = IF f \in Servis(E) THEN Hote(Sien(E)[f], a) ELSE partie[f]
  /\ creneau' \in [Flux -> Creneaux]
  /\ \A f \in Flux : creneau'[f] = IF f \in Servis(E) THEN Sien(E)[f][f] ELSE creneau[f]
  /\ participants' \in [Flux -> SUBSET Joueurs]
  /\ \A h \in Flux : participants'[h] =
       IF h \in Servis(E) /\ Hote(Sien(E)[h], a) = h
       THEN {Joueur(f) : f \in DOMAIN Sien(E)[h]} ELSE participants[h]

LEMMA FormerFacts ==
  ASSUME TypeOK, NEW W, NEW a, AvantFormation(W, a), NEW E, BonsPrets(E, W, a), Former(W, a, E)
  PROVE  EffetDeFormer(W, a, E)
<1>1. /\ waiting' = W \ Servis(E)
      /\ arrivee' = Oublier(a, Servis(E))
      /\ out' = [f \in Flux |-> IF f \in Servis(E) /\ out[f] = "vide"
                                THEN "SUCCEEDED" ELSE out[f]]
      /\ partie' = [f \in Flux |-> IF f \in Servis(E) THEN Hote(Sien(E)[f], a) ELSE partie[f]]
      /\ creneau' = [f \in Flux |-> IF f \in Servis(E) THEN Sien(E)[f][f] ELSE creneau[f]]
      /\ participants' =
           [h \in Flux |-> IF h \in Servis(E) /\ Hote(Sien(E)[h], a) = h
                           THEN {Joueur(f) : f \in DOMAIN Sien(E)[h]}
                           ELSE participants[h]]
  BY DEF Former, Servis, Sien
<1>2. /\ Servis(E) \subseteq W /\ W \subseteq Flux /\ a \in [Flux -> Nat]
      /\ \A f \in Servis(E) : /\ Sien(E)[f] \in E
                              /\ f \in DOMAIN Sien(E)[f]
                              /\ DOMAIN Sien(E)[f] \subseteq Servis(E)
                              /\ Hote(Sien(E)[f], a) \in DOMAIN Sien(E)[f]
      /\ \A f \in Servis(E) : out[f] = "vide"
  BY SienFacts DEF AvantFormation
<1>3. \A f \in Servis(E) : Sien(E)[f][f] \in Creneaux
  BY <1>2 DEF BonsPrets, BonneComposition
<1>4. \A f \in Flux : Joueur(f) \in Joueurs
  BY MatchmakerAssumption DEF Joueur
<1>5. arrivee' \in [Flux -> Nat] /\ \A f \in waiting' : arrivee'[f] = a[f]
  BY <1>1, <1>2 DEF Oublier
<1>6. /\ out' \in [Flux -> Messages]
      /\ \A f \in Flux : out'[f] = IF f \in Servis(E) THEN "SUCCEEDED" ELSE out[f]
  BY <1>1, <1>2 DEF TypeOK, Messages
<1>7. /\ partie' \in [Flux -> Flux \cup {Rien}]
      /\ \A f \in Flux : partie'[f] = IF f \in Servis(E) THEN Hote(Sien(E)[f], a) ELSE partie[f]
  BY <1>1, <1>2 DEF TypeOK
<1>8. /\ creneau' \in [Flux -> Creneaux]
      /\ \A f \in Flux : creneau'[f] = IF f \in Servis(E) THEN Sien(E)[f][f] ELSE creneau[f]
  BY <1>1, <1>3 DEF TypeOK
<1>9. /\ participants' \in [Flux -> SUBSET Joueurs]
      /\ \A h \in Flux : participants'[h] =
           IF h \in Servis(E) /\ Hote(Sien(E)[h], a) = h
           THEN {Joueur(f) : f \in DOMAIN Sien(E)[h]} ELSE participants[h]
  <2>1. \A h \in Servis(E) : {Joueur(f) : f \in DOMAIN Sien(E)[h]} \in SUBSET Joueurs
    BY <1>2, <1>4
  <2> QED BY <1>1, <2>1 DEF TypeOK
<1> QED BY <1>1, <1>5, <1>6, <1>7, <1>8, <1>9 DEF EffetDeFormer

(* What the sessions satisfy: named by one of their players, full, and the  *)
(* camps apart.                                                             *)
Sessions == HoteParmiLesSiens /\ FullRoster /\ CampsFaceEachOther

BonneSession(h) ==
  /\ h \in Salon(h)
  /\ Cardinality(Salon(h)) = Capacite[suivi[h].cfg]
  /\ \A f \in Salon(h) : suivi[f].cfg = suivi[h].cfg
  /\ \A f, g \in Salon(h) : Joueur(f) = Joueur(g) => f = g
  /\ participants[h] \subseteq {Joueur(f) : f \in Salon(h)}
  /\ \A f \in Salon(h) : ~Informe(f) => Joueur(f) \in participants[h]
  /\ suivi[h].cfg \in FilesDeFete =>
       /\ \A f, g \in Salon(h) : creneau[f] = creneau[g] <=> suivi[f].camp = suivi[g].camp
       /\ \A f \in Salon(h) : suivi[f].camp # SansCamp
       /\ Cardinality({f \in Salon(h) : creneau[f] = "team1"}) = Capacite[suivi[h].cfg] \div 2
       /\ IF suivi[h].cfg \in Tricolores
          THEN /\ Cardinality({f \in Salon(h) : creneau[f] = "team2"})
                    = Capacite[suivi[h].cfg] \div 4
               /\ Cardinality({f \in Salon(h) : creneau[f] = "team3"})
                    = Capacite[suivi[h].cfg] \div 4
          ELSE Cardinality({f \in Salon(h) : creneau[f] = "team2"})
                    = Capacite[suivi[h].cfg] \div 2

LEMMA SessionsBonnes == Sessions <=> \A h \in Flux : Salon(h) # {} => BonneSession(h)
BY DEF Sessions, HoteParmiLesSiens, FullRoster, CampsFaceEachOther, BonneSession

(* A step that matches nobody and changes no copy of a matched ticket keeps *)
(* them, whoever tells his console and whoever is struck off, once told.    *)
LEMMA SessionsGardees ==
  ASSUME Sessions, UNCHANGED <<partie, creneau>>,
         \A f \in Flux : Servi(f) => suivi'[f] = suivi[f],
         \A f \in Flux : Servi(f) /\ Informe(f) => Informe(f)',
         \A h \in Flux : participants'[h] \subseteq participants[h],
         \A h \in Flux : \A f \in Salon(h) :
           Joueur(f) \in participants[h] => Informe(f) \/ Joueur(f) \in participants'[h]
  PROVE  Sessions'
<1>1. \A h \in Flux : Salon(h)' = Salon(h)
  BY DEF Salon
<1>2. \A h \in Flux : \A f \in Salon(h) : suivi'[f] = suivi[f]
  BY MatchmakerAssumption DEF Salon, Servi
<1>3. ASSUME NEW h \in Flux, Salon(h)' # {}
      PROVE  BonneSession(h)'
  <2>1. BonneSession(h) BY <1>1, <1>3, SessionsBonnes
  <2>2. Salon(h)' = Salon(h) /\ suivi'[h] = suivi[h]
    BY <1>1, <1>2, <2>1 DEF BonneSession
  <2>3. creneau' = creneau /\ \A f \in Salon(h) : suivi'[f] = suivi[f]
    BY <1>2
  <2>4. \A f \in Flux : Joueur(f)' = Joueur(f)
    BY DEF Joueur
  <2>5. participants'[h] \subseteq {Joueur(f) : f \in Salon(h)}
    BY <2>1 DEF BonneSession
  <2>6. \A f \in Salon(h) : ~Informe(f)' => Joueur(f) \in participants'[h]
    <3>1. \A f \in Salon(h) : Servi(f) /\ f \in Flux
      BY MatchmakerAssumption DEF Salon, Servi
    <3> QED BY <2>1, <3>1 DEF BonneSession
  <2> QED BY <2>1, <2>2, <2>3, <2>4, <2>5, <2>6 DEF BonneSession, Joueur
<1> QED BY <1>3 DEF Sessions, HoteParmiLesSiens, FullRoster, CampsFaceEachOther, BonneSession

LEMMA SessionsInchangees ==
  ASSUME Sessions, UNCHANGED <<partie, creneau, participants>>,
         \A f \in Flux : Servi(f) => suivi'[f] = suivi[f],
         \A f \in Flux : Servi(f) /\ Informe(f) => Informe(f)'
  PROVE  Sessions'
BY SessionsGardees

LEMMA JoueursDistincts ==
  ASSUME NEW W, NEW a, AvantFormation(W, a), NEW c, NEW e, BonneComposition(e, W, a, c),
         NEW f \in DOMAIN e, NEW g \in DOMAIN e, Joueur(f) = Joueur(g)
  PROVE  f = g
<1>1. f \in W /\ g \in W /\ f \in Flux /\ g \in Flux /\ a[f] \in Nat /\ a[g] \in Nat
  BY DEF BonneComposition, Distincts, EnFile, AvantFormation
<1>2. a[f] <= a[g] /\ a[g] <= a[f]
  BY DEF BonneComposition, Distincts
<1>3. a[f] = a[g]
  BY <1>1, <1>2
<1> QED BY <1>1, <1>3 DEF AvantFormation

(* The sessions after a formation: those of before, and one per roster.     *)
LEMMA FormerSessions ==
  ASSUME TypeOK, Sessions, NEW W, NEW a, AvantFormation(W, a),
         NEW E, BonsPrets(E, W, a), Former(W, a, E), suivi' = suivi,
         \A f \in Flux : Servi(f) /\ Informe(f) => Informe(f)'
  PROVE  Sessions'
<1>1. /\ Servis(E) \subseteq W
      /\ \A f \in Servis(E) :
           /\ Sien(E)[f] \in E
           /\ f \in DOMAIN Sien(E)[f]
           /\ DOMAIN Sien(E)[f] \subseteq Servis(E)
           /\ \A g \in DOMAIN Sien(E)[f] : Sien(E)[g] = Sien(E)[f]
           /\ Hote(Sien(E)[f], a) \in DOMAIN Sien(E)[f]
  BY SienFacts
<1>2. /\ \A f \in Flux : partie'[f] = IF f \in Servis(E) THEN Hote(Sien(E)[f], a) ELSE partie[f]
      /\ \A f \in Flux : creneau'[f] = IF f \in Servis(E) THEN Sien(E)[f][f] ELSE creneau[f]
      /\ \A h \in Flux : participants'[h] =
           IF h \in Servis(E) /\ Hote(Sien(E)[h], a) = h
           THEN {Joueur(f) : f \in DOMAIN Sien(E)[h]} ELSE participants[h]
  <2>1. EffetDeFormer(W, a, E) BY FormerFacts
  <2> QED BY <2>1 DEF EffetDeFormer
<1>3. Servis(E) \subseteq Flux /\ \A f \in Servis(E) : f \in Flux /\ ~Servi(f)
  BY <1>1 DEF AvantFormation
<1>4. \A h \in Servis(E) : Salon(h) = {}
  BY <1>3, MatchmakerAssumption DEF Sessions, HoteParmiLesSiens, Salon, Servi
<1>5. ASSUME NEW h \in Flux, h \notin Servis(E), Salon(h)' # {}
      PROVE  BonneSession(h)'
  <2>1. Salon(h)' = Salon(h)
    <3>1. \A f \in Servis(E) : partie'[f] # h /\ partie[f] # h
      BY <1>1, <1>2, <1>3, <1>5, MatchmakerAssumption DEF Servi
    <3> QED BY <1>2, <3>1 DEF Salon
  <2>2. BonneSession(h)
    BY <1>5, <2>1, SessionsBonnes
  <2>3. \A f \in Salon(h) : f \notin Servis(E)
    BY <1>3, MatchmakerAssumption DEF Salon, Servi
  <2>4. participants'[h] = participants[h] /\ \A f \in Salon(h) : creneau'[f] = creneau[f]
    BY <1>2, <1>5, <2>3 DEF Salon
  <2>5. \A f \in Flux : Joueur(f)' = Joueur(f)
    BY DEF Joueur
  <2>6. /\ {f \in Salon(h)' : creneau'[f] = "team1"} = {f \in Salon(h) : creneau[f] = "team1"}
        /\ {f \in Salon(h)' : creneau'[f] = "team2"} = {f \in Salon(h) : creneau[f] = "team2"}
        /\ {f \in Salon(h)' : creneau'[f] = "team3"} = {f \in Salon(h) : creneau[f] = "team3"}
    BY <2>1, <2>4
  <2> DEFINE c == suivi[h].cfg
  <2>7. /\ h \in Salon(h)'
        /\ Cardinality(Salon(h)') = Capacite[c]
        /\ \A f \in Salon(h)' : suivi[f].cfg = c
        /\ \A f, g \in Salon(h)' : Joueur(f) = Joueur(g) => f = g
        /\ participants'[h] \subseteq {Joueur(f) : f \in Salon(h)'}
    BY <2>1, <2>2, <2>4 DEF BonneSession
  <2>10. \A f \in Salon(h)' : ~Informe(f)' => Joueur(f) \in participants'[h]
    <3>1. \A f \in Salon(h) : Servi(f) /\ f \in Flux
      BY MatchmakerAssumption DEF Salon, Servi
    <3> QED BY <2>1, <2>2, <2>4, <3>1 DEF BonneSession
  <2>8. c \in FilesDeFete =>
          /\ \A f, g \in Salon(h)' : creneau'[f] = creneau'[g] <=> suivi[f].camp = suivi[g].camp
          /\ \A f \in Salon(h)' : suivi[f].camp # SansCamp
    BY <2>1, <2>2, <2>4 DEF BonneSession
  <2>9. c \in FilesDeFete =>
          /\ Cardinality({f \in Salon(h)' : creneau'[f] = "team1"}) = Capacite[c] \div 2
          /\ IF c \in Tricolores
             THEN /\ Cardinality({f \in Salon(h)' : creneau'[f] = "team2"}) = Capacite[c] \div 4
                  /\ Cardinality({f \in Salon(h)' : creneau'[f] = "team3"}) = Capacite[c] \div 4
             ELSE Cardinality({f \in Salon(h)' : creneau'[f] = "team2"}) = Capacite[c] \div 2
    BY <2>1, <2>2, <2>6 DEF BonneSession
  <2> QED BY <2>5, <2>7, <2>8, <2>9, <2>10 DEF BonneSession, Joueur
<1>6. ASSUME NEW h \in Servis(E), Salon(h)' # {}
      PROVE  BonneSession(h)'
  <2> DEFINE e == Sien(E)[h]
  <2>1. PICK f \in Flux : partie'[f] = h
    BY <1>6 DEF Salon
  <2>2. f \in Servis(E)
    BY <1>2, <1>4, <1>6, <2>1 DEF Salon
  <2>3. Hote(Sien(E)[f], a) = h /\ h \in DOMAIN Sien(E)[f] /\ Sien(E)[h] = Sien(E)[f]
    BY <1>1, <1>2, <2>1, <2>2
  <2>4. Hote(e, a) = h
    BY <2>3
  <2>5. Salon(h)' = DOMAIN e
    <3>1. ASSUME NEW g \in DOMAIN e PROVE g \in Flux /\ partie'[g] = h
      BY <1>1, <1>2, <1>3, <2>4, <3>1
    <3>2. ASSUME NEW g \in Flux, partie'[g] = h PROVE g \in DOMAIN e
      <4>1. g \in Servis(E)
        BY <1>2, <1>4, <1>6, <3>2 DEF Salon
      <4>2. h \in DOMAIN Sien(E)[g] /\ Sien(E)[h] = Sien(E)[g]
        BY <1>1, <1>2, <3>2, <4>1
      <4> QED BY <1>1, <4>1, <4>2
    <3> QED BY <3>1, <3>2 DEF Salon
  <2>6. PICK c \in Configs : BonneComposition(e, W, a, c)
    BY <1>1 DEF BonsPrets
  <2>7. \A g \in DOMAIN e : suivi[g].cfg = c
    BY <2>6 DEF BonneComposition, Distincts, EnFile
  <2>8. h \in DOMAIN e /\ suivi[h].cfg = c
    BY <1>1, <2>7
  <2>9. \A g \in DOMAIN e : creneau'[g] = e[g]
    BY <1>1, <1>2, <1>3
  <2>10. participants'[h] = {Joueur(g) : g \in DOMAIN e}
    BY <1>2, <1>3, <2>4
  <2>11. \A g, k \in DOMAIN e : Joueur(g) = Joueur(k) => g = k
    BY <2>6, JoueursDistincts
  <2>12. \A s : {g \in DOMAIN e : creneau'[g] = s} = Equipe(e, s)
    BY <2>9 DEF Equipe
  <2>13. \A g \in Flux : Joueur(g)' = Joueur(g)
    BY DEF Joueur
  <2>14. Cardinality(DOMAIN e) = Capacite[c] /\ (c \in FilesDeFete => BonPartage(e, c))
    BY <2>6 DEF BonneComposition
  <2> HIDE DEF e
  <2>15. c \in FilesDeFete =>
           /\ \A g, k \in DOMAIN e : creneau'[g] = creneau'[k] <=> suivi[g].camp = suivi[k].camp
           /\ \A g \in DOMAIN e : suivi[g].camp # SansCamp
    BY <2>9, <2>14 DEF BonPartage
  <2>16. c \in FilesDeFete =>
           /\ Cardinality({g \in DOMAIN e : creneau'[g] = "team1"}) = Capacite[c] \div 2
           /\ IF c \in Tricolores
              THEN /\ Cardinality({g \in DOMAIN e : creneau'[g] = "team2"}) = Capacite[c] \div 4
                   /\ Cardinality({g \in DOMAIN e : creneau'[g] = "team3"}) = Capacite[c] \div 4
              ELSE Cardinality({g \in DOMAIN e : creneau'[g] = "team2"}) = Capacite[c] \div 2
    BY <2>12, <2>14 DEF BonPartage
  <2> QED BY <2>5, <2>7, <2>8, <2>10, <2>11, <2>13, <2>14, <2>15, <2>16 DEF BonneSession, Joueur
<1> QED BY <1>5, <1>6 DEF Sessions, HoteParmiLesSiens, FullRoster, CampsFaceEachOther, BonneSession

-----------------------------------------------------------------------------
(* The invariant is inductive.                                             *)

(* Either the stream f that forms is already parked, or it parks itself as  *)
(* the last to arrive; both ways the whole invariant survives.              *)
LEMMA FormationPreserves ==
  ASSUME IInv, NEW W, NEW a, AvantFormation(W, a), NEW C, C \subseteq Configs,
         Former(W, a, Prets(W, a, C)),
         UNCHANGED <<tvars, suivi, present, evars>>,
         phase' \in [Flux -> Phases], rang' \in Nat,
         \A f \in W : a[f] <= rang',
         \A f \in Flux : f \in W <=> phase'[f] = "attente" /\ out[f] = "vide" /\ ~Servi(f),
         \A f \in Flux : phase'[f] = phase[f] \/ (phase'[f] = "attente" /\ phase[f] = "placement")
  PROVE  IInv'
<1> DEFINE E == Prets(W, a, C)
<1>1. BonsPrets(E, W, a)
  BY PretsFacts DEF AvantFormation
<1>2. EffetDeFormer(W, a, E)
  BY <1>1, FormerFacts DEF IInv
<1>3. /\ Servis(E) \subseteq W /\ W \subseteq Flux
      /\ \A f \in Servis(E) : Hote(Sien(E)[f], a) \in Flux
  <2>1. /\ Servis(E) \subseteq W
        /\ \A f \in Servis(E) : /\ Hote(Sien(E)[f], a) \in DOMAIN Sien(E)[f]
                                /\ DOMAIN Sien(E)[f] \subseteq Servis(E)
    BY <1>1, SienFacts
  <2>2. W \subseteq Flux BY DEF AvantFormation
  <2> HIDE DEF E
  <2> QED BY <2>1, <2>2
<1>4. Sessions'
  <2>1. \A f \in Flux : Servi(f) /\ Informe(f) => phase'[f] = phase[f]
    BY DEF IInv, DejaEnFile, AvantFormation, Informe
  <2> QED BY <1>1, <2>1, FormerSessions DEF IInv, Sessions, Informe
<1> HIDE DEF E
<1>5. /\ waiting' = W \ Servis(E)
      /\ \A f \in waiting' : arrivee'[f] = a[f]
      /\ \A f \in Flux : out'[f] = IF f \in Servis(E) THEN "SUCCEEDED" ELSE out[f]
      /\ \A f \in Flux : Servi(f)' <=> (f \in Servis(E) \/ Servi(f))
  BY <1>2, <1>3, MatchmakerAssumption DEF EffetDeFormer, Servi
<1>6. TypeOK'
  <2>1. UNCHANGED <<demande, tickets, suivi, present, melange, defenseur>>
    BY DEF tvars, evars
  <2>2. /\ arrivee' \in [Flux -> Nat] /\ out' \in [Flux -> Messages]
        /\ partie' \in [Flux -> Flux \cup {Rien}] /\ creneau' \in [Flux -> Creneaux]
        /\ participants' \in [Flux -> SUBSET Joueurs]
    BY <1>2 DEF EffetDeFormer
  <2> QED BY <1>3, <1>5, <2>1, <2>2 DEF IInv, TypeOK
<1>7. SuiviOuvert'
  BY DEF IInv, SuiviOuvert, AvantFormation
<1>8. OrdreDArrivee'
  BY <1>5 DEF OrdreDArrivee, AvantFormation
<1>9. DejaEnFile'
  BY <1>3, <1>5 DEF IInv, DejaEnFile
<1>10. PoolMatchesStreams'
  BY <1>3, <1>5 DEF PoolMatchesStreams
<1> QED BY <1>4, <1>6, <1>7, <1>8, <1>9, <1>10 DEF IInv, Sessions

(* The pool as the stream that parks itself finds it, itself included.      *)
LEMMA EnqueueParks ==
  ASSUME IInv, NEW f \in Flux, Enqueue(f)
  PROVE  /\ AvantFormation(waiting \cup {f}, [arrivee EXCEPT ![f] = rang'])
         /\ \A g \in waiting \cup {f} : [arrivee EXCEPT ![f] = rang'][g] <= rang'
         /\ ~Servi(f) /\ out[f] = "vide"
<1> DEFINE W == waiting \cup {f}
           a == [arrivee EXCEPT ![f] = rang']
<1>1. phase[f] = "placement" /\ rang' = rang + 1 /\ rang \in Nat
  BY DEF Enqueue, IInv, TypeOK
<1>2. f \notin waiting /\ ~Servi(f) /\ out[f] = "vide"
  BY <1>1 DEF IInv, PoolMatchesStreams, DejaEnFile
<1>3. /\ W \subseteq Flux /\ a \in [Flux -> Nat]
      /\ a[f] = rang + 1 /\ \A g \in waiting : a[g] = arrivee[g] /\ a[g] <= rang
      /\ \A g, h \in waiting : arrivee[g] = arrivee[h] => g = h
  BY <1>1, <1>2 DEF IInv, TypeOK, OrdreDArrivee
<1>4. \A g \in W : suivi[g] \in Suivi /\ ~Servi(g) /\ out[g] = "vide"
  BY <1>1, <1>2 DEF IInv, TypeOK, PoolMatchesStreams, SuiviOuvert
<1> HIDE DEF a
<1>5. /\ \A g \in W : a[g] <= rang' /\ a[g] \in Nat
      /\ \A g, h \in W : a[g] = a[h] => g = h
  BY <1>1, <1>3
<1> HIDE DEF W
<1>6. AvantFormation(W, a)
  BY <1>3, <1>4, <1>5 DEF AvantFormation
<1> QED BY <1>2, <1>5, <1>6 DEF W, a

LEMMA EnqueuePreserves ==
  ASSUME IInv, NEW f \in Flux, Enqueue(f)
  PROVE  IInv'
<1> DEFINE W == waiting \cup {f}
           a == [arrivee EXCEPT ![f] = rang']
<1>1. /\ phase[f] = "placement" /\ phase' = [phase EXCEPT ![f] = "attente"]
      /\ rang' = rang + 1 /\ rang \in Nat /\ suivi[f].cfg \in Configs
      /\ Former(W, a, Prets(W, a, {suivi[f].cfg}))
      /\ UNCHANGED <<tvars, suivi, present, evars>>
  BY DEF Enqueue, IInv, TypeOK, SuiviOuvert, Suivi
<1>2. /\ AvantFormation(W, a) /\ \A g \in W : a[g] <= rang'
      /\ ~Servi(f) /\ out[f] = "vide"
  BY EnqueueParks
<1>3. \A g \in Flux : g \in W <=> phase'[g] = "attente" /\ out[g] = "vide" /\ ~Servi(g)
  BY <1>1, <1>2 DEF IInv, TypeOK, PoolMatchesStreams
<1> HIDE DEF a, W
<1>4. phase' \in [Flux -> Phases] /\ rang' \in Nat /\ {suivi[f].cfg} \subseteq Configs
  BY <1>1 DEF IInv, TypeOK, Phases
<1>5. \A g \in Flux : phase'[g] = phase[g] \/ (phase'[g] = "attente" /\ phase[g] = "placement")
  BY <1>1 DEF IInv, TypeOK
<1> QED BY <1>1, <1>2, <1>3, <1>4, <1>5, FormationPreserves

LEMMA RevisionPreserves ==
  ASSUME IInv, NEW f \in Flux, Revision(f)
  PROVE  IInv'
<1>1. /\ Former(waiting, arrivee, Prets(waiting, arrivee, Configs))
      /\ UNCHANGED <<rang, tvars, suivi, phase, present, evars>>
  BY DEF Revision
<1>2. AvantFormation(waiting, arrivee)
  BY DEF AvantFormation, IInv, TypeOK, SuiviOuvert, PoolMatchesStreams, OrdreDArrivee
<1>3. /\ phase' \in [Flux -> Phases] /\ rang' \in Nat
      /\ \A g \in waiting : arrivee[g] <= rang'
      /\ \A g \in Flux : g \in waiting <=> phase'[g] = "attente" /\ out[g] = "vide" /\ ~Servi(g)
      /\ \A g \in Flux : phase'[g] = phase[g]
  BY <1>1 DEF IInv, TypeOK, OrdreDArrivee, PoolMatchesStreams
<1> QED BY <1>1, <1>2, <1>3, FormationPreserves

THEOREM InitInvariant == Init => IInv
<1> SUFFICES ASSUME Init PROVE IInv
  OBVIOUS
<1>1. TypeOK
  BY MatchmakerAssumption DEF Init, TypeOK, Phases, Messages, Creneaux
<1>2. \A f \in Flux : ~Servi(f)
  BY DEF Init, Servi
<1>3. \A h \in Flux : Salon(h) = {}
  BY <1>2, MatchmakerAssumption DEF Salon, Servi
<1>4. HoteParmiLesSiens /\ FullRoster /\ CampsFaceEachOther
  BY <1>3 DEF HoteParmiLesSiens, FullRoster, CampsFaceEachOther
<1>5. SuiviOuvert /\ OrdreDArrivee /\ DejaEnFile /\ PoolMatchesStreams
  BY <1>2 DEF Init, SuiviOuvert, OrdreDArrivee, DejaEnFile, PoolMatchesStreams
<1> QED BY <1>1, <1>4, <1>5 DEF IInv

THEOREM StepInvariant == IInv /\ [Next]_vars => IInv'
<1> SUFFICES ASSUME IInv, [Next]_vars PROVE IInv'
  OBVIOUS
<1>0. TypeOK /\ SuiviOuvert /\ OrdreDArrivee /\ DejaEnFile /\ PoolMatchesStreams /\ Sessions
  BY DEF IInv, Sessions
<1>a. ASSUME TypeOK', SuiviOuvert', OrdreDArrivee', DejaEnFile', PoolMatchesStreams', Sessions'
      PROVE  IInv'
  BY <1>a DEF IInv, Sessions
<1>1. ASSUME NEW t \in Tickets, NEW c \in Configs \cup {SansConfig}, CreateMatchmakingTicket(t, c) PROVE IInv'
  <2>1. TypeOK'
    BY <1>0, <1>1, MatchmakerAssumption DEF CreateMatchmakingTicket, TypeOK, Phases, Messages, Suivi, tvars, pvars, evars
  <2>2. Sessions'
    BY <1>0, <1>1, SessionsInchangees DEF CreateMatchmakingTicket, TypeOK, DejaEnFile, Informe, tvars, pvars, evars
  <2>3. SuiviOuvert' /\ OrdreDArrivee' /\ DejaEnFile' /\ PoolMatchesStreams'
    BY <1>0, <1>1, MatchmakerAssumption DEF CreateMatchmakingTicket, TypeOK, Phases, Messages, Suivi, SuiviOuvert,
       OrdreDArrivee, DejaEnFile, PoolMatchesStreams, Servi, tvars, pvars, evars
  <2> QED BY <1>a, <2>1, <2>2, <2>3
<1>2. ASSUME NEW f \in Flux, Track(f) PROVE IInv'
  <2>1. TypeOK'
    BY <1>0, <1>2, MatchmakerAssumption DEF Track, TypeOK, Phases, Messages, Suivi, tvars, pvars, evars
  <2>2. Sessions'
    BY <1>0, <1>2, SessionsInchangees DEF Track, TypeOK, DejaEnFile, Informe, tvars, pvars, evars
  <2>3. SuiviOuvert' /\ OrdreDArrivee' /\ DejaEnFile' /\ PoolMatchesStreams'
    BY <1>0, <1>2, MatchmakerAssumption DEF Track, TypeOK, Phases, Messages, Suivi, SuiviOuvert,
       OrdreDArrivee, DejaEnFile, PoolMatchesStreams, Servi, tvars, pvars, evars
  <2> QED BY <1>a, <2>1, <2>2, <2>3
<1>3. ASSUME NEW f \in Flux, Placement(f) PROVE IInv'
  <2>1. TypeOK'
    BY <1>0, <1>3, MatchmakerAssumption DEF Placement, TypeOK, Phases, Messages, Suivi, tvars, pvars, evars
  <2>2. Sessions'
    BY <1>0, <1>3, SessionsInchangees DEF Placement, TypeOK, DejaEnFile, Informe, tvars, pvars, evars
  <2>3. SuiviOuvert' /\ OrdreDArrivee' /\ DejaEnFile' /\ PoolMatchesStreams'
    BY <1>0, <1>3, MatchmakerAssumption DEF Placement, TypeOK, Phases, Messages, Suivi, SuiviOuvert,
       OrdreDArrivee, DejaEnFile, PoolMatchesStreams, Servi, tvars, pvars, evars
  <2> QED BY <1>a, <2>1, <2>2, <2>3
<1>4. ASSUME NEW f \in Flux, Conclude(f) PROVE IInv'
  <2>1. TypeOK'
    BY <1>0, <1>4, MatchmakerAssumption DEF Conclude, TypeOK, Phases, Messages, Suivi, tvars, pvars, evars
  <2>2. Sessions'
    BY <1>0, <1>4, SessionsInchangees DEF Conclude, TypeOK, DejaEnFile, Informe, tvars, pvars, evars
  <2>3. SuiviOuvert' /\ OrdreDArrivee' /\ DejaEnFile' /\ PoolMatchesStreams'
    BY <1>0, <1>4, MatchmakerAssumption DEF Conclude, TypeOK, Phases, Messages, Suivi, SuiviOuvert,
       OrdreDArrivee, DejaEnFile, PoolMatchesStreams, Servi, tvars, pvars, evars
  <2> QED BY <1>a, <2>1, <2>2, <2>3
<1>5. ASSUME NEW f \in Flux, Receive(f) PROVE IInv'
  <2>1. TypeOK'
    BY <1>0, <1>5, MatchmakerAssumption DEF Receive, TypeOK, Phases, Messages, Suivi, tvars, pvars, evars
  <2>2. Sessions'
    BY <1>0, <1>5, SessionsInchangees DEF Receive, TypeOK, DejaEnFile, Informe, tvars, pvars, evars
  <2>3. SuiviOuvert' /\ OrdreDArrivee' /\ DejaEnFile' /\ PoolMatchesStreams'
    BY <1>0, <1>5, MatchmakerAssumption DEF Receive, TypeOK, Phases, Messages, Suivi, SuiviOuvert,
       OrdreDArrivee, DejaEnFile, PoolMatchesStreams, Servi, tvars, pvars, evars
  <2> QED BY <1>a, <2>1, <2>2, <2>3
<1>6. ASSUME NEW f \in Flux, Announce(f) PROVE IInv'
  <2>1. TypeOK'
    BY <1>0, <1>6, MatchmakerAssumption DEF Announce, TypeOK, Phases, Messages, Suivi, tvars, pvars, evars
  <2>2. Sessions'
    BY <1>0, <1>6, SessionsInchangees DEF Announce, TypeOK, DejaEnFile, Informe, tvars, pvars, evars
  <2>3. SuiviOuvert' /\ OrdreDArrivee' /\ DejaEnFile' /\ PoolMatchesStreams'
    BY <1>0, <1>6, MatchmakerAssumption DEF Announce, TypeOK, Phases, Messages, Suivi, SuiviOuvert,
       OrdreDArrivee, DejaEnFile, PoolMatchesStreams, Servi, tvars, pvars, evars
  <2> QED BY <1>a, <2>1, <2>2, <2>3
<1>7. ASSUME NEW f \in Flux, Withdraw(f) PROVE IInv'
  <2>1. TypeOK'
    BY <1>0, <1>7, MatchmakerAssumption DEF Withdraw, Oublier, TypeOK, Phases, Messages, Suivi, tvars, pvars, evars
  <2>2. Sessions'
    BY <1>0, <1>7, SessionsInchangees DEF Withdraw, TypeOK, DejaEnFile, Informe, tvars, pvars, evars
  <2>3. SuiviOuvert' /\ OrdreDArrivee' /\ DejaEnFile' /\ PoolMatchesStreams'
    BY <1>0, <1>7, MatchmakerAssumption DEF Withdraw, Oublier, TypeOK, Phases, Messages, Suivi, SuiviOuvert,
       OrdreDArrivee, DejaEnFile, PoolMatchesStreams, Servi, tvars, pvars, evars
  <2> QED BY <1>a, <2>1, <2>2, <2>3
<1>8. ASSUME NEW f \in Flux, Release(f) PROVE IInv'
  <2>1. TypeOK'
    BY <1>0, <1>8, MatchmakerAssumption DEF Release, TypeOK, Phases, Messages, Suivi, tvars, pvars, evars
  <2>2. Sessions'
    BY <1>0, <1>8, SessionsInchangees DEF Release, TypeOK, DejaEnFile, Informe, tvars, pvars, evars
  <2>3. SuiviOuvert' /\ OrdreDArrivee' /\ DejaEnFile' /\ PoolMatchesStreams'
    BY <1>0, <1>8, MatchmakerAssumption DEF Release, TypeOK, Phases, Messages, Suivi, SuiviOuvert,
       OrdreDArrivee, DejaEnFile, PoolMatchesStreams, Servi, tvars, pvars, evars
  <2> QED BY <1>a, <2>1, <2>2, <2>3
<1>9. ASSUME NEW f \in Flux, Hangup(f) PROVE IInv'
  <2>1. TypeOK'
    BY <1>0, <1>9, MatchmakerAssumption DEF Hangup, TypeOK, Phases, Messages, Suivi, tvars, pvars, evars
  <2>2. Sessions'
    BY <1>0, <1>9, SessionsInchangees DEF Hangup, TypeOK, DejaEnFile, Informe, tvars, pvars, evars
  <2>3. SuiviOuvert' /\ OrdreDArrivee' /\ DejaEnFile' /\ PoolMatchesStreams'
    BY <1>0, <1>9, MatchmakerAssumption DEF Hangup, TypeOK, Phases, Messages, Suivi, SuiviOuvert,
       OrdreDArrivee, DejaEnFile, PoolMatchesStreams, Servi, tvars, pvars, evars
  <2> QED BY <1>a, <2>1, <2>2, <2>3
<1>10. ASSUME NEW t \in Tickets, CancelMatchmakingTicket(t) PROVE IInv'
  <2>1. TypeOK'
    BY <1>0, <1>10, MatchmakerAssumption DEF CancelMatchmakingTicket, Oublier, TypeOK, Phases, Messages, Suivi, tvars, pvars, evars
  <2>2. Sessions'
    BY <1>0, <1>10, SessionsInchangees DEF CancelMatchmakingTicket, TypeOK, DejaEnFile, Informe, tvars, pvars, evars
  <2>3. SuiviOuvert' /\ OrdreDArrivee' /\ DejaEnFile' /\ PoolMatchesStreams'
    BY <1>0, <1>10, MatchmakerAssumption DEF CancelMatchmakingTicket, Oublier, TypeOK, Phases, Messages, Suivi, SuiviOuvert,
       OrdreDArrivee, DejaEnFile, PoolMatchesStreams, Servi, tvars, pvars, evars
  <2> QED BY <1>a, <2>1, <2>2, <2>3
<1>11. ASSUME FlipFlag PROVE IInv'
  <2>1. TypeOK'
    BY <1>0, <1>11, MatchmakerAssumption DEF FlipFlag, TypeOK, Phases, Messages, Suivi, tvars, pvars, evars
  <2>2. Sessions'
    BY <1>0, <1>11, SessionsInchangees DEF FlipFlag, TypeOK, DejaEnFile, Informe, tvars, pvars, evars
  <2>3. SuiviOuvert' /\ OrdreDArrivee' /\ DejaEnFile' /\ PoolMatchesStreams'
    BY <1>0, <1>11, MatchmakerAssumption DEF FlipFlag, TypeOK, Phases, Messages, Suivi, SuiviOuvert,
       OrdreDArrivee, DejaEnFile, PoolMatchesStreams, Servi, tvars, pvars, evars
  <2> QED BY <1>a, <2>1, <2>2, <2>3
<1>12. ASSUME FestivalMoves PROVE IInv'
  <2>1. TypeOK'
    BY <1>0, <1>12, MatchmakerAssumption DEF FestivalMoves, TypeOK, Phases, Messages, Suivi, tvars, pvars, evars
  <2>2. Sessions'
    BY <1>0, <1>12, SessionsInchangees DEF FestivalMoves, TypeOK, DejaEnFile, Informe, tvars, pvars, evars
  <2>3. SuiviOuvert' /\ OrdreDArrivee' /\ DejaEnFile' /\ PoolMatchesStreams'
    BY <1>0, <1>12, MatchmakerAssumption DEF FestivalMoves, TypeOK, Phases, Messages, Suivi, SuiviOuvert,
       OrdreDArrivee, DejaEnFile, PoolMatchesStreams, Servi, tvars, pvars, evars
  <2> QED BY <1>a, <2>1, <2>2, <2>3
<1>13. CASE UNCHANGED vars
  <2>1. Sessions'
    BY <1>0, <1>13, SessionsInchangees DEF vars, Informe, tvars, pvars, evars
  <2>2. TypeOK' /\ SuiviOuvert' /\ OrdreDArrivee' /\ DejaEnFile' /\ PoolMatchesStreams'
    BY <1>0, <1>13 DEF vars, tvars, pvars, evars, TypeOK, SuiviOuvert, OrdreDArrivee,
       DejaEnFile, PoolMatchesStreams, Servi
  <2> QED BY <1>a, <2>1, <2>2
<1>16. ASSUME NEW f \in Flux, oublierParticipant(f) PROVE IInv'
  <2>1. /\ Servi(f) /\ Informe(f) /\ partie[f] \in Flux
        /\ participants' = [participants EXCEPT ![partie[f]] = @ \ {Joueur(f)}]
        /\ UNCHANGED <<tvars, suivi, phase, present, waiting, rang, arrivee, out, partie, creneau, evars>>
    BY <1>0, <1>16 DEF oublierParticipant, TypeOK, Servi
  <2>2. TypeOK'
    BY <1>0, <2>1 DEF TypeOK, tvars, evars
  <2>3. ASSUME NEW h \in Flux
        PROVE  /\ participants'[h] \subseteq participants[h]
               /\ \A g \in Salon(h) : Joueur(g) \in participants[h]
                                       => Informe(g) \/ Joueur(g) \in participants'[h]
    <3>1. participants'[h] = IF h = partie[f] THEN participants[h] \ {Joueur(f)} ELSE participants[h]
      BY <1>0, <2>1 DEF TypeOK
    <3>2. \A g \in Salon(partie[f]) : Joueur(g) = Joueur(f) => g = f
      <4>1. f \in Salon(partie[f])
        BY DEF Salon
      <4> QED BY <1>0, <2>1, <4>1 DEF Sessions, FullRoster
    <3> QED BY <2>1, <3>1, <3>2
  <2>4. Sessions'
    BY <1>0, <2>1, <2>3, SessionsGardees DEF Informe
  <2>5. SuiviOuvert' /\ OrdreDArrivee' /\ DejaEnFile' /\ PoolMatchesStreams'
    BY <1>0, <2>1 DEF SuiviOuvert, OrdreDArrivee, DejaEnFile, PoolMatchesStreams, Servi
  <2> QED BY <1>a, <2>2, <2>4, <2>5
<1>14. ASSUME NEW f \in Flux, Serveur(f) PROVE IInv'
  BY <1>3, <1>4, <1>5, <1>6, <1>7, <1>8, <1>14, EnqueuePreserves, RevisionPreserves DEF Serveur
<1>15. CASE Client
  BY <1>1, <1>2, <1>9, <1>10, <1>15 DEF Client
<1> QED BY <1>11, <1>12, <1>13, <1>14, <1>15, <1>16 DEF Next

-----------------------------------------------------------------------------
(* The results.                                                            *)

THEOREM Invariance == Spec => []IInv
BY InitInvariant, StepInvariant, PTL DEF Spec

(* Every variable of the queue keeps its type.                             *)
THEOREM TypeCorrect == Spec => []TypeOK
<1>1. IInv => TypeOK BY DEF IInv
<1> QED BY <1>1, Invariance, PTL

(* The pool holds the parked, undecided streams and no other: no ghost of  *)
(* a client that left, of a cancelled ticket or of a matched one.          *)
THEOREM PoolIsExact == Spec => []PoolMatchesStreams
<1>1. IInv => PoolMatchesStreams BY DEF IInv
<1> QED BY <1>1, Invariance, PTL

(* A session is announced with a full roster of distinct players of its    *)
(* mode; the registry lists none but them, and all of them but those whose *)
(* stream told them or ended.                                              *)
THEOREM RostersAreFull == Spec => []FullRoster
<1>1. IInv => FullRoster BY DEF IInv
<1> QED BY <1>1, Invariance, PTL

(* In a festival session the teams are of the sizes of the mode and each   *)
(* is one camp of its own.                                                 *)
THEOREM CampsAreApart == Spec => []CampsFaceEachOther
<1>1. IInv => CampsFaceEachOther BY DEF IInv
<1> QED BY <1>1, Invariance, PTL

(* No step touches the match of a stream that has one already, nor adds    *)
(* anybody to the list of its session.                                     *)
RestentServis ==
  \A f \in Flux : Servi(f) =>
    /\ partie'[f] = partie[f] /\ creneau'[f] = creneau[f]
    /\ participants'[partie[f]] \subseteq participants[partie[f]]

LEMMA FormationKeepsMatches ==
  ASSUME IInv, NEW W, NEW a, AvantFormation(W, a), NEW C, C \subseteq Configs,
         Former(W, a, Prets(W, a, C))
  PROVE  RestentServis
<1> DEFINE E == Prets(W, a, C)
<1>1. BonsPrets(E, W, a)
  BY PretsFacts DEF AvantFormation
<1>2. EffetDeFormer(W, a, E)
  BY <1>1, FormerFacts DEF IInv
<1>3. Servis(E) \subseteq W
  BY <1>1, SienFacts
<1> HIDE DEF E
<1>4. ASSUME NEW f \in Flux, Servi(f)
      PROVE  f \notin Servis(E) /\ partie[f] \in Flux /\ partie[f] \notin Servis(E)
  <2>1. partie[f] \in Flux /\ Servi(partie[f])
    BY <1>4, MatchmakerAssumption DEF IInv, TypeOK, HoteParmiLesSiens, Salon, Servi
  <2> QED BY <1>3, <1>4, <2>1 DEF AvantFormation
<1> QED BY <1>2, <1>4 DEF EffetDeFormer, RestentServis

(* A ticket is matched once: its session and its slot are final, and the   *)
(* list of its session only loses players.                                 *)
THEOREM MatchIsFinal == Spec => MatchedOnce
<1>1. IInv /\ [Next]_vars => [RestentServis]_vars
  <2> SUFFICES ASSUME IInv, Next PROVE RestentServis
    OBVIOUS
  <2>1. ASSUME NEW f \in Flux, Enqueue(f) PROVE RestentServis
    <3> DEFINE W == waiting \cup {f}
               a == [arrivee EXCEPT ![f] = rang']
    <3>1. /\ phase[f] = "placement" /\ rang' = rang + 1 /\ rang \in Nat
          /\ suivi[f].cfg \in Configs
          /\ Former(W, a, Prets(W, a, {suivi[f].cfg}))
      BY <2>1 DEF Enqueue, IInv, TypeOK, SuiviOuvert, Suivi
    <3>2. AvantFormation(W, a)
      BY <2>1, EnqueueParks
    <3> QED BY <3>1, <3>2, FormationKeepsMatches
  <2>2. ASSUME NEW f \in Flux, Revision(f) PROVE RestentServis
    <3>1. AvantFormation(waiting, arrivee)
      BY DEF AvantFormation, IInv, TypeOK, SuiviOuvert, PoolMatchesStreams, OrdreDArrivee
    <3> QED BY <2>2, <3>1, FormationKeepsMatches DEF Revision
  <2>3. ASSUME UNCHANGED <<partie, creneau, participants>> PROVE RestentServis
    BY <2>3 DEF RestentServis
  <2>4. ASSUME NEW f \in Flux, Serveur(f) PROVE RestentServis
    BY <2>1, <2>2, <2>3, <2>4 DEF Serveur, Placement, Conclude, Receive, Announce, Withdraw,
       Release, pvars
  <2>5. CASE Client
    BY <2>3, <2>5 DEF Client, CreateMatchmakingTicket, Track, Hangup, CancelMatchmakingTicket, pvars
  <2>6. CASE FlipFlag \/ FestivalMoves
    BY <2>3, <2>6 DEF FlipFlag, FestivalMoves, pvars
  <2>7. ASSUME NEW f \in Flux, oublierParticipant(f) PROVE RestentServis
    <3>1. participants' = [participants EXCEPT ![partie[f]] = @ \ {Joueur(f)}]
      BY <2>7 DEF oublierParticipant
    <3>2. \A h \in Flux : participants'[h] \subseteq participants[h]
      BY <3>1 DEF IInv, TypeOK
    <3>3. \A g \in Flux : Servi(g) => partie[g] \in Flux
      BY DEF IInv, TypeOK, Servi
    <3> QED BY <2>7, <3>2, <3>3 DEF oublierParticipant, RestentServis
  <2> QED BY <2>4, <2>5, <2>6, <2>7 DEF Next
<1>2. [RestentServis]_vars <=> [\A f \in Flux : Servi(f) =>
         /\ partie'[f] = partie[f] /\ creneau'[f] = creneau[f]
         /\ participants'[partie[f]] \subseteq participants[partie[f]]]_vars
  BY DEF RestentServis
<1> QED BY <1>1, <1>2, Invariance, PTL DEF Spec, MatchedOnce

-----------------------------------------------------------------------------
(* First come, first served.                                               *)

(* The earliest waiter of a player stands for him.                          *)
LEMMA DistinctsPremiers ==
  ASSUME NEW W, W \subseteq Flux, NEW a \in [Flux -> Nat], NEW c, NEW g \in EnFile(W, c)
  PROVE  \E x \in Distincts(W, a, c) : Joueur(x) = Joueur(g) /\ a[x] <= a[g]
<1> DEFINE S == {x \in EnFile(W, c) : Joueur(x) = Joueur(g)}
<1>1. S # {} /\ S \subseteq Flux
  BY DEF EnFile
<1>2. PICK x \in S : \A y \in S : a[x] <= a[y]
  <2> HIDE DEF S
  <2> QED BY <1>1, PremierArrive
<1>3. x \in Distincts(W, a, c)
  BY <1>2 DEF Distincts
<1> QED BY <1>2, <1>3

LEMMA EquipeEnTete ==
  ASSUME NEW D, NEW a, NEW d, NEW n, NEW T \in Tetes(DuCamp(D, CampsDe(D), d), a, n),
         NEW f \in T, NEW g \in D \ T, suivi[f].camp = suivi[g].camp
  PROVE  a[f] < a[g]
BY DEF Tetes, DuCamp, CampsDe

(* Who is left out of a roster came after those of his camp who are in it.  *)
LEMMA ServisEnTete ==
  ASSUME NEW W, NEW a, NEW c \in Configs, NEW e \in Compositions(W, a, c),
         NEW f \in DOMAIN e, NEW g \in Distincts(W, a, c) \ DOMAIN e,
         c \in FilesDeFete => suivi[f].camp = suivi[g].camp
  PROVE  a[f] < a[g]
<1> DEFINE D == Distincts(W, a, c)
           n == Capacite[c]
<1>1. CASE c \notin FilesDeFete
  <2>1. PICK T \in Tetes(D, a, n) : e = [x \in T |-> "aucun"]
    BY <1>1 DEF Compositions
  <2> QED BY <2>1 DEF Tetes
<1>2. ASSUME c \in FilesDeFete, NEW T1, NEW T2, NEW T3, NEW d1, NEW d2, NEW d3,
             NEW n1, NEW n2, NEW n3,
             T1 \in Tetes(DuCamp(D, CampsDe(D), d1), a, n1),
             T2 \in Tetes(DuCamp(D, CampsDe(D), d2), a, n2),
             T3 = {} \/ T3 \in Tetes(DuCamp(D, CampsDe(D), d3), a, n3),
             e = Placer(T1, T2, T3)
      PROVE  a[f] < a[g]
  <2>1. DOMAIN e = T1 \cup T2 \cup T3
    BY <1>2 DEF Placer
  <2> HIDE DEF D
  <2>2. g \in D
    BY DEF D
  <2> QED BY <1>2, <2>1, <2>2, EquipeEnTete
<1>3. CASE c \in Tricolores
  <2>1. e \in RepartirTricolore(D, CampsDe(D), a, n, defenseur)
    BY <1>3, MatchmakerAssumption DEF Compositions
  <2> HIDE DEF D, n
  <2>2. \E d1, d2, d3 : \E T1 \in Tetes(DuCamp(D, CampsDe(D), d1), a, n \div 2),
                           T2 \in Tetes(DuCamp(D, CampsDe(D), d2), a, n \div 4),
                           T3 \in Tetes(DuCamp(D, CampsDe(D), d3), a, n \div 4) :
          e = Placer(T1, T2, T3)
    BY <2>1 DEF RepartirTricolore
  <2> QED BY <1>2, <1>3, <2>2, MatchmakerAssumption
<1>4. CASE c \in FilesDeFete \ Tricolores
  <2>1. e \in RepartirParCamp(D, CampsDe(D), a, n)
    BY <1>4 DEF Compositions
  <2> HIDE DEF D, n
  <2>2. \E d1, d2 : \E T1 \in Tetes(DuCamp(D, CampsDe(D), d1), a, n \div 2),
                       T2 \in Tetes(DuCamp(D, CampsDe(D), d2), a, n \div 2) :
          e = Placer(T1, T2, {})
    BY <2>1 DEF RepartirParCamp
  <2> QED BY <1>2, <1>4, <2>2
<1> QED BY <1>1, <1>3, <1>4

(* A formation seats nobody before a waiter it leaves, who wants the same   *)
(* places and came first, unless it seats that player through another of    *)
(* his streams.                                                             *)
LEMMA PremiersServis ==
  ASSUME CampConnu, NEW W, NEW a, AvantFormation(W, a), \A x \in W : phase[x] # "libre",
         NEW C, C \subseteq Configs, NEW e \in Prets(W, a, C),
         NEW f \in DOMAIN e, NEW g \in W,
         suivi[f].cfg = suivi[g].cfg,
         suivi[f].cfg \in FilesDeFete => suivi[f].camp = suivi[g].camp
  PROVE  \/ a[f] < a[g]
         \/ \E x \in DOMAIN e : Joueur(x) = Joueur(g)
<1>0. /\ W \subseteq Flux /\ a \in [Flux -> Nat]
      /\ \A x \in W : suivi[x] \in Suivi
  BY DEF AvantFormation
<1>1. PICK c \in C : e \in Compositions(W, a, c)
  BY DEF Prets
<1>2. DOMAIN e \subseteq Distincts(W, a, c)
  BY <1>0, <1>1, CompositionFacts DEF BonneComposition
<1>3. f \in W /\ suivi[f].cfg = c /\ g \in EnFile(W, c)
  BY <1>2 DEF Distincts, EnFile
<1>4. PICK x \in Distincts(W, a, c) : Joueur(x) = Joueur(g) /\ a[x] <= a[g]
  BY <1>0, <1>3, DistinctsPremiers
<1>5. x \in W /\ suivi[x].cfg = c /\ suivi[g].cfg = c
  BY <1>3, <1>4 DEF Distincts, EnFile
<1>6. CASE x \notin DOMAIN e
  <2>1. c \in FilesDeFete => suivi[f].camp = suivi[x].camp
    BY <1>0, <1>3, <1>4, <1>5 DEF CampConnu
  <2>2. a[f] < a[x]
    BY <1>1, <1>4, <1>6, <2>1, ServisEnTete
  <2>3. a[f] \in Nat /\ a[x] \in Nat /\ a[g] \in Nat
    BY <1>0, <1>3, <1>5
  <2> QED BY <1>4, <2>2, <2>3
<1> QED BY <1>4, <1>6

LEMMA FormationEnOrdre ==
  ASSUME IInv, CampConnu, NEW W, NEW a, AvantFormation(W, a), \A x \in W : phase[x] # "libre",
         NEW C, C \subseteq Configs, Former(W, a, Prets(W, a, C)),
         NEW f \in Flux, NEW g \in Flux, ~Servi(f), partie'[f] # Rien,
         g \in W, g \in waiting',
         suivi[f].cfg = suivi[g].cfg, suivi[f].camp = suivi[g].camp
  PROVE  /\ f \in W
         /\ \/ a[f] < a[g]
            \/ \E x \in Flux : partie'[x] = partie'[f] /\ Joueur(x) = Joueur(g)
<1> DEFINE E == Prets(W, a, C)
           e == Sien(E)[f]
<1>1. BonsPrets(E, W, a)
  BY PretsFacts DEF AvantFormation
<1>2. EffetDeFormer(W, a, E)
  BY <1>1, FormerFacts DEF IInv
<1>3. f \in Servis(E)
  BY <1>2 DEF EffetDeFormer, Servi
<1>4. /\ Servis(E) \subseteq W /\ W \subseteq Flux /\ e \in E /\ f \in DOMAIN e
      /\ DOMAIN e \subseteq Servis(E)
      /\ \A x \in DOMAIN e : Sien(E)[x] = e
  BY <1>1, <1>3, SienFacts DEF AvantFormation
<1>5. a[f] < a[g] \/ \E x \in DOMAIN e : Joueur(x) = Joueur(g)
  <2> HIDE DEF e
  <2> QED BY <1>4, PremiersServis
<1> HIDE DEF E, e
<1>6. \A x \in DOMAIN e : x \in Flux /\ partie'[x] = Hote(e, a)
  BY <1>2, <1>4 DEF EffetDeFormer
<1> QED BY <1>3, <1>4, <1>5, <1>6

LEMMA CampConnuInit == Init => CampConnu
BY DEF Init, CampConnu

LEMMA CampConnuPas == ASSUME TypeOK, CampConnu, [Next]_vars PROVE CampConnu'
<1> SUFFICES ASSUME NEW x \in Flux, phase'[x] # "libre", suivi'[x].cfg \in FilesDeFete
             PROVE  suivi'[x].camp = CampDe[Joueur(x)]
  BY DEF CampConnu, Joueur
<1>1. ASSUME NEW f \in Flux, Track(f) PROVE suivi'[x].camp = CampDe[Joueur(x)]
  <2>1. phase' = [phase EXCEPT ![f] = IF Instant THEN "recherche" ELSE "battement"]
    BY <1>1 DEF Track
  <2>2. CASE x = f
    <3>1. /\ suivi'[f].cfg = IF TicketDe[f] \in tickets THEN demande[TicketDe[f]] ELSE ConfigParDefaut
          /\ suivi'[f].camp = IF TicketDe[f] \in tickets THEN CampDe[Auteur[TicketDe[f]]] ELSE SansCamp
      BY <1>1 DEF Track, TypeOK
    <3> QED BY <2>2, <3>1, MatchmakerAssumption DEF Joueur
  <2>3. CASE x # f
    <3>1. suivi'[x] = suivi[x] /\ phase'[x] = phase[x]
      BY <1>1, <2>1, <2>3 DEF Track, TypeOK
    <3> QED BY <3>1 DEF CampConnu
  <2> QED BY <2>2, <2>3
<1>2. ASSUME suivi' = suivi, \A f \in Flux : phase'[f] # "libre" => phase[f] # "libre"
      PROVE  suivi'[x].camp = CampDe[Joueur(x)]
  BY <1>2 DEF CampConnu
<1>3. ASSUME NEW f \in Flux, Serveur(f) PROVE suivi'[x].camp = CampDe[Joueur(x)]
  <2>1. suivi' = suivi /\ \E e \in Phases : phase' = [phase EXCEPT ![f] = e] \/ phase' = phase
    BY <1>3 DEF Serveur, Placement, Enqueue, Revision, Conclude, Receive, Announce, Withdraw,
       Release, Phases
  <2>2. phase[f] # "libre"
    BY <1>3 DEF Serveur, Placement, Enqueue, Revision, Conclude, Receive, Announce, Withdraw,
       Release
  <2>3. \A g \in Flux : phase'[g] # "libre" => phase[g] # "libre"
    BY <2>1, <2>2 DEF TypeOK
  <2> QED BY <1>2, <2>1, <2>3
<1>4. CASE Client
  BY <1>1, <1>2, <1>4 DEF Client, CreateMatchmakingTicket, Hangup, CancelMatchmakingTicket
<1>5. CASE FlipFlag \/ FestivalMoves \/ (\E f \in Flux : oublierParticipant(f)) \/ UNCHANGED vars
  BY <1>2, <1>5 DEF FlipFlag, FestivalMoves, oublierParticipant, vars
<1> QED BY <1>3, <1>4, <1>5 DEF Next

NullePartDevant ==
  \A f, g \in Flux :
    /\ ~Servi(f) /\ (partie[f] # Rien)'
    /\ g \in waiting /\ g \in waiting'
    /\ suivi[f].cfg = suivi[g].cfg /\ suivi[f].camp = suivi[g].camp
    => \/ f \in waiting /\ arrivee[f] < arrivee[g]
       \/ \E x \in Flux : partie'[x] = partie'[f] /\ Joueur(x) = Joueur(g)

(* Within a queue and a camp, nobody is matched past an earlier arrival.    *)
THEOREM NobodyOvertakes == Spec => NoOvertaking
<1>1. IInv /\ CampConnu /\ [Next]_vars => [NullePartDevant]_vars
  <2> SUFFICES ASSUME IInv, CampConnu, Next,
                      NEW f \in Flux, NEW g \in Flux, ~Servi(f), partie'[f] # Rien,
                      g \in waiting, g \in waiting',
                      suivi[f].cfg = suivi[g].cfg, suivi[f].camp = suivi[g].camp
               PROVE  \/ f \in waiting /\ arrivee[f] < arrivee[g]
                      \/ \E x \in Flux : partie'[x] = partie'[f] /\ Joueur(x) = Joueur(g)
    BY DEF NullePartDevant
  <2>0. \A x \in waiting : x \in Flux /\ phase[x] = "attente"
    BY DEF IInv, TypeOK, PoolMatchesStreams
  <2>1. partie' # partie
    BY DEF Servi
  <2>2. CASE \E h \in Flux : Enqueue(h)
    <3>1. PICK h \in Flux : Enqueue(h)
      BY <2>2
    <3> DEFINE W == waiting \cup {h}
               a == [arrivee EXCEPT ![h] = rang']
    <3>2. /\ phase[h] = "placement" /\ rang' = rang + 1 /\ rang \in Nat
          /\ suivi[h].cfg \in Configs
          /\ Former(W, a, Prets(W, a, {suivi[h].cfg}))
      BY <3>1 DEF Enqueue, IInv, TypeOK, SuiviOuvert, Suivi
    <3>3. AvantFormation(W, a)
      BY <3>1, EnqueueParks
    <3>4. \A x \in W : phase[x] # "libre"
      BY <2>0, <3>2
    <3>5. /\ f \in W
          /\ \/ a[f] < a[g]
             \/ \E x \in Flux : partie'[x] = partie'[f] /\ Joueur(x) = Joueur(g)
      <4> HIDE DEF W, a
      <4>1. g \in W
        BY DEF W
      <4> QED BY <3>2, <3>3, <3>4, <4>1, FormationEnOrdre
    <3>6. /\ h \notin waiting /\ a[h] = rang + 1
          /\ \A x \in waiting : a[x] = arrivee[x] /\ arrivee[x] \in Nat /\ arrivee[x] <= rang
      BY <2>0, <3>2 DEF IInv, TypeOK, OrdreDArrivee
    <3> HIDE DEF a
    <3> QED BY <3>2, <3>5, <3>6
  <2>3. CASE \E h \in Flux : Revision(h)
    <3>1. Former(waiting, arrivee, Prets(waiting, arrivee, Configs))
      BY <2>3 DEF Revision
    <3>2. AvantFormation(waiting, arrivee)
      BY DEF AvantFormation, IInv, TypeOK, SuiviOuvert, PoolMatchesStreams, OrdreDArrivee
    <3> QED BY <2>0, <3>1, <3>2, FormationEnOrdre
  <2>4. ASSUME NEW h \in Flux, Serveur(h) PROVE Enqueue(h) \/ Revision(h)
    BY <2>1, <2>4 DEF Serveur, Placement, Conclude, Receive, Announce, Withdraw, Release, pvars
  <2>5. ~Client
    BY <2>1 DEF Client, CreateMatchmakingTicket, Track, Hangup, CancelMatchmakingTicket, pvars
  <2>6. ~FlipFlag /\ ~FestivalMoves /\ \A h \in Flux : ~oublierParticipant(h)
    BY <2>1 DEF FlipFlag, FestivalMoves, oublierParticipant, pvars
  <2> QED BY <2>2, <2>3, <2>4, <2>5, <2>6 DEF Next
<1>2. IInv => TypeOK
  BY DEF IInv
<1>3. [NullePartDevant]_vars <=> [\A f, g \in Flux :
         /\ ~Servi(f) /\ (partie[f] # Rien)'
         /\ g \in waiting /\ g \in waiting'
         /\ suivi[f].cfg = suivi[g].cfg /\ suivi[f].camp = suivi[g].camp
         => \/ f \in waiting /\ arrivee[f] < arrivee[g]
            \/ \E x \in Flux : partie'[x] = partie'[f] /\ Joueur(x) = Joueur(g)]_vars
  BY DEF NullePartDevant
<1> QED BY <1>1, <1>2, <1>3, Invariance, CampConnuInit, CampConnuPas, PTL DEF Spec, NoOvertaking

-----------------------------------------------------------------------------
(* A complete roster does not wait.                                        *)

JoueursDe(W, c) == {Joueur(f) : f \in EnFile(W, c)}

LEMMA JoueursFinis ==
  ASSUME NEW W, W \subseteq Flux, NEW c
  PROVE  IsFiniteSet(JoueursDe(W, c)) /\ Cardinality(JoueursDe(W, c)) \in Nat
<1> DEFINE S == EnFile(W, c)
           J == JoueursDe(W, c)
           h == [f \in S |-> Joueur(f)]
<1>1. IsFiniteSet(S)
  BY FluxFini DEF EnFile
<1>2. h \in Surjection(S, J)
  BY DEF JoueursDe, Surjection
<1> HIDE DEF S, J, h
<1>3. IsFiniteSet(J)
  BY <1>1, <1>2, FS_Surjection
<1> QED BY <1>3, FS_CardinalityType DEF J

LEMMA JoueursMonotone ==
  ASSUME NEW W, W \subseteq Flux, NEW V, V \subseteq W, NEW c
  PROVE  Cardinality(JoueursDe(V, c)) <= Cardinality(JoueursDe(W, c))
<1>1. JoueursDe(V, c) \subseteq JoueursDe(W, c)
  BY DEF JoueursDe, EnFile
<1> QED BY <1>1, JoueursFinis, FS_Subset

(* waitersForConfigLocked counts the players of the queue.                  *)
LEMMA DistinctsCompte ==
  ASSUME NEW W, W \subseteq Flux, NEW a \in [Flux -> Nat],
         \A f, g \in W : a[f] = a[g] => f = g, NEW c
  PROVE  Cardinality(Distincts(W, a, c)) = Cardinality(JoueursDe(W, c))
<1> DEFINE D == Distincts(W, a, c)
           J == JoueursDe(W, c)
           h == [f \in D |-> Joueur(f)]
<1>1. D \subseteq W /\ D \subseteq EnFile(W, c)
  BY DEF Distincts, EnFile
<1>2. \A f, g \in D : Joueur(f) = Joueur(g) => f = g
  <2> SUFFICES ASSUME NEW f \in D, NEW g \in D, Joueur(f) = Joueur(g) PROVE f = g
    OBVIOUS
  <2>1. a[f] <= a[g] /\ a[g] <= a[f]
    BY DEF Distincts
  <2>2. f \in W /\ g \in W /\ a[f] \in Nat /\ a[g] \in Nat
    BY <1>1
  <2> HIDE DEF D
  <2>3. a[f] = a[g]
    BY <2>1, <2>2
  <2> QED BY <2>2, <2>3
<1>3. \A j \in J : \E x \in D : Joueur(x) = j
  BY DistinctsPremiers DEF JoueursDe
<1>4. \A x \in D : Joueur(x) \in J
  BY <1>1 DEF JoueursDe
<1> HIDE DEF D, J
<1>5. h \in Bijection(D, J)
  BY <1>2, <1>3, <1>4 DEF Bijection, Injection, Surjection, IsInjective
<1>6. ExistsBijection(D, J)
  BY <1>5, Zenon DEF ExistsBijection
<1>7. IsFiniteSet(D)
  BY <1>1, FluxFini
<1>8. Cardinality(J) = Cardinality(D)
  <2> HIDE DEF h
  <2> QED BY <1>6, <1>7, FS_Bijection
<1> QED BY <1>8 DEF D, J

(* A step that only takes waiters out of the pool.                          *)
LEMMA FilesReduites ==
  ASSUME NoRosterLeftWaiting, waiting \subseteq Flux, waiting' \subseteq waiting,
         \A f \in waiting : suivi'[f] = suivi[f]
  PROVE  NoRosterLeftWaiting'
<1> SUFFICES ASSUME NEW c \in Configs \ FilesDeFete
             PROVE  Cardinality({Joueur(f) : f \in EnFile(waiting, c)'}) < Capacite[c]
  BY DEF NoRosterLeftWaiting, Joueur
<1>1. {Joueur(f) : f \in EnFile(waiting, c)'} = JoueursDe(waiting', c)
  BY DEF EnFile, JoueursDe
<1>2. Cardinality(JoueursDe(waiting', c)) <= Cardinality(JoueursDe(waiting, c))
  BY JoueursMonotone
<1>3. Cardinality(JoueursDe(waiting, c)) < Capacite[c]
  BY DEF NoRosterLeftWaiting, JoueursDe
<1>4. /\ Cardinality(JoueursDe(waiting, c)) \in Nat /\ Cardinality(JoueursDe(waiting', c)) \in Nat
      /\ Capacite[c] \in Nat
  BY JoueursFinis, Parts
<1> QED BY <1>1, <1>2, <1>3, <1>4

(* A queue with as many players as the mode holds has one roster: them all. *)
LEMMA FileComplete ==
  ASSUME NEW W, W \subseteq Flux, \A x \in W : suivi[x] \in Suivi,
         NEW a \in [Flux -> Nat], \A f, g \in W : a[f] = a[g] => f = g,
         NEW c \in Configs \ FilesDeFete, Cardinality(JoueursDe(W, c)) = Capacite[c]
  PROVE  \E e \in Prets(W, a, {c}) : DOMAIN e = Distincts(W, a, c)
<1> DEFINE D == Distincts(W, a, c)
           n == Capacite[c]
           e == CHOOSE x \in Compositions(W, a, c) : TRUE
<1>1. Cardinality(D) = n /\ D \subseteq Flux /\ n \in Nat
  BY DistinctsCompte, Parts DEF Distincts, EnFile
<1>2. D \in Tetes(D, a, n)
  BY <1>1 DEF Tetes
<1>3. [f \in D |-> "aucun"] \in Compositions(W, a, c)
  <2> HIDE DEF D
  <2>1. [f \in D |-> "aucun"] \in {[f \in T |-> "aucun"] : T \in Tetes(D, a, n)}
    BY <1>2
  <2> QED BY <1>1, <2>1 DEF Compositions, D
<1>4. e \in Compositions(W, a, c)
  BY <1>3
<1>5. e \in Prets(W, a, {c})
  BY <1>3 DEF Prets
<1>6. DOMAIN e \subseteq D /\ Cardinality(DOMAIN e) = n
  <2> HIDE DEF e
  <2> QED BY <1>4, CompositionFacts DEF BonneComposition
<1>7. DOMAIN e = D
  <2> HIDE DEF e, D
  <2> QED BY <1>1, <1>6, FluxFini, FS_Subset
<1> QED BY <1>5, <1>7

LEMMA EnqueueComplete ==
  ASSUME IInv, NoRosterLeftWaiting, NEW f \in Flux, Enqueue(f)
  PROVE  NoRosterLeftWaiting'
<1> DEFINE W == waiting \cup {f}
           a == [arrivee EXCEPT ![f] = rang']
           C == {suivi[f].cfg}
           E == Prets(W, a, C)
<1>1. /\ phase[f] = "placement" /\ suivi[f].cfg \in Configs
      /\ Former(W, a, E) /\ suivi' = suivi
  BY DEF Enqueue, IInv, TypeOK, SuiviOuvert, Suivi
<1>2. AvantFormation(W, a)
  BY EnqueueParks
<1>3. /\ W \subseteq Flux /\ a \in [Flux -> Nat]
      /\ \A x \in W : suivi[x] \in Suivi
      /\ \A x, y \in W : a[x] = a[y] => x = y
  <2> HIDE DEF W, a
  <2> QED BY <1>2 DEF AvantFormation
<1>4. waiting' = W \ Servis(E)
  BY <1>1 DEF Former, Servis
<1> SUFFICES ASSUME NEW c \in Configs \ FilesDeFete
             PROVE  Cardinality(JoueursDe(waiting', c)) < Capacite[c]
  BY <1>1 DEF NoRosterLeftWaiting, JoueursDe, EnFile, Joueur
<1>5. /\ Cardinality(JoueursDe(waiting, c)) < Capacite[c]
      /\ Capacite[c] \in Nat
      /\ IsFiniteSet(JoueursDe(waiting, c))
      /\ Cardinality(JoueursDe(waiting, c)) \in Nat
      /\ Cardinality(JoueursDe(W, c)) \in Nat
      /\ Cardinality(JoueursDe(waiting', c)) \in Nat
      /\ Cardinality(JoueursDe(waiting', c)) <= Cardinality(JoueursDe(W, c))
  <2>1. waiting \subseteq Flux /\ W \subseteq Flux /\ waiting' \subseteq W /\ waiting' \subseteq Flux
    BY <1>3, <1>4
  <2> HIDE DEF W
  <2> QED BY <2>1, JoueursFinis, JoueursMonotone, Parts DEF NoRosterLeftWaiting, JoueursDe
<1>6. CASE JoueursDe(waiting', c) \subseteq JoueursDe(waiting, c)
  BY <1>5, <1>6, FS_Subset
<1>7. CASE ~(JoueursDe(waiting', c) \subseteq JoueursDe(waiting, c))
  <2>1. f \in waiting' /\ suivi[f].cfg = c /\ Joueur(f) \notin JoueursDe(waiting, c)
    BY <1>4, <1>7 DEF JoueursDe, EnFile
  <2>2. JoueursDe(W, c) = JoueursDe(waiting, c) \cup {Joueur(f)}
    BY <2>1 DEF JoueursDe, EnFile
  <2>3. Cardinality(JoueursDe(W, c)) = Cardinality(JoueursDe(waiting, c)) + 1
    <3> HIDE DEF W
    <3> QED BY <1>5, <2>1, <2>2, FS_AddElement
  <2>4. Cardinality(JoueursDe(W, c)) # Capacite[c]
    <3> SUFFICES ASSUME Cardinality(JoueursDe(W, c)) = Capacite[c] PROVE FALSE
      OBVIOUS
    <3>1. f \in EnFile(W, c)
      BY <2>1 DEF EnFile
    <3>2. f \in Distincts(W, a, c)
      <4> HIDE DEF a
      <4>1. PICK x \in Distincts(W, a, c) : Joueur(x) = Joueur(f)
        <5> HIDE DEF W
        <5> QED BY <1>3, <3>1, DistinctsPremiers
      <4>2. x \in EnFile(W, c)
        BY DEF Distincts
      <4>3. x \notin waiting
        BY <2>1, <4>1, <4>2 DEF JoueursDe, EnFile
      <4>4. x = f
        BY <4>2, <4>3 DEF EnFile
      <4> QED BY <4>4
    <3>3. PICK e \in E : DOMAIN e = Distincts(W, a, c)
      <4> HIDE DEF W, a
      <4> QED BY <1>3, <2>1, FileComplete
    <3>4. f \in Servis(E)
      BY <3>2, <3>3 DEF Servis
    <3> QED BY <1>4, <2>1, <3>4
  <2> HIDE DEF W
  <2> QED BY <1>5, <2>3, <2>4
<1> QED BY <1>6, <1>7

LEMMA CompleteInit == Init => NoRosterLeftWaiting
<1> SUFFICES ASSUME Init, NEW c \in Configs \ FilesDeFete
             PROVE  Cardinality({Joueur(f) : f \in EnFile(waiting, c)}) < Capacite[c]
  BY DEF NoRosterLeftWaiting
<1>1. {Joueur(f) : f \in EnFile(waiting, c)} = {}
  BY DEF Init, EnFile
<1>2. Capacite[c] \in Nat /\ Capacite[c] >= 2
  BY Parts
<1> QED BY <1>1, <1>2, FS_EmptySet

LEMMA CompletePas ==
  ASSUME IInv, NoRosterLeftWaiting, [Next]_vars PROVE NoRosterLeftWaiting'
<1>0. waiting \subseteq Flux /\ \A f \in waiting : phase[f] = "attente"
  BY DEF IInv, TypeOK, PoolMatchesStreams
<1>1. ASSUME NEW f \in Flux, Track(f) PROVE NoRosterLeftWaiting'
  <2>1. waiting' = waiting /\ \A g \in waiting : suivi'[g] = suivi[g]
    BY <1>0, <1>1 DEF Track, pvars, IInv, TypeOK
  <2> QED BY <1>0, <2>1, FilesReduites
<1>2. ASSUME waiting' \subseteq waiting, suivi' = suivi PROVE NoRosterLeftWaiting'
  BY <1>0, <1>2, FilesReduites
<1>3. ASSUME NEW f \in Flux, Revision(f) PROVE NoRosterLeftWaiting'
  BY <1>2, <1>3 DEF Revision, Former
<1>4. ASSUME NEW f \in Flux, Serveur(f) PROVE NoRosterLeftWaiting'
  BY <1>2, <1>3, <1>4, EnqueueComplete DEF Serveur, Placement, Conclude, Receive, Announce,
     Withdraw, Release, pvars
<1>5. CASE Client
  BY <1>1, <1>2, <1>5 DEF Client, CreateMatchmakingTicket, Hangup, CancelMatchmakingTicket, pvars
<1>6. CASE FlipFlag \/ FestivalMoves \/ (\E f \in Flux : oublierParticipant(f)) \/ UNCHANGED vars
  BY <1>2, <1>6 DEF FlipFlag, FestivalMoves, oublierParticipant, vars, pvars
<1> QED BY <1>4, <1>5, <1>6 DEF Next

(* Outside the festival queues a complete roster never sits in the pool.    *)
THEOREM NoRosterWaits == Spec => []NoRosterLeftWaiting
BY CompleteInit, CompletePas, Invariance, PTL DEF Spec

-----------------------------------------------------------------------------
(* The queue implements MatchQueue: each step is one of its steps, or        *)
(* changes nothing of what it promises.                                      *)

LEMMA EnAttenteEstLaFile ==
  ASSUME TypeOK, PoolMatchesStreams
  PROVE  Promesse!EnAttente = waiting
BY DEF TypeOK, PoolMatchesStreams, Promesse!EnAttente, Etapes

LEMMA PromesseInit == Init => Promesse!Init
<1> SUFFICES ASSUME Init PROVE Promesse!Init
  OBVIOUS
<1>1. Rangs(waiting, arrivee) = {}
  BY DEF Init, Rangs
<1>2. Etapes = [f \in Flux |-> "libre"] /\ Souhaits = [f \in Flux |-> Rien]
  BY DEF Init, Etapes, Souhaits
<1> QED BY <1>1, <1>2 DEF Init, Promesse!Init

(* The session of a stream, told by its host.                               *)
LEMMA HoteDit ==
  ASSUME NEW W, NEW a, AvantFormation(W, a), NEW E, BonsPrets(E, W, a),
         NEW f \in Servis(E)
  PROVE  {g \in Servis(E) : Hote(Sien(E)[g], a) = Hote(Sien(E)[f], a)} = DOMAIN Sien(E)[f]
<1>1. /\ \A g \in Servis(E) : /\ g \in DOMAIN Sien(E)[g]
                              /\ DOMAIN Sien(E)[g] \subseteq Servis(E)
                              /\ \A x \in DOMAIN Sien(E)[g] : Sien(E)[x] = Sien(E)[g]
                              /\ Hote(Sien(E)[g], a) \in DOMAIN Sien(E)[g]
  BY SienFacts
<1>2. ASSUME NEW g \in Servis(E), Hote(Sien(E)[g], a) = Hote(Sien(E)[f], a)
      PROVE  g \in DOMAIN Sien(E)[f]
  BY <1>1, <1>2
<1>3. ASSUME NEW g \in DOMAIN Sien(E)[f]
      PROVE  g \in Servis(E) /\ Hote(Sien(E)[g], a) = Hote(Sien(E)[f], a)
  BY <1>1
<1> QED BY <1>2, <1>3

LEMMA MemeTaille == \A S : Promesse!Cardinality(S) = Cardinality(S)
BY DEF Promesse!Cardinality, Cardinality

(* The rosters of a formation are sessions the promise allows.              *)
LEMMA FormationConvient ==
  ASSUME CampConnu, NEW W, NEW a, AvantFormation(W, a), \A x \in W : phase[x] # "libre",
         NEW C, C \subseteq Configs
  PROVE  LET E == Prets(W, a, C)
         IN  Promesse!Convient(W, Rangs(W, a), Servis(E),
                               [f \in Servis(E) |-> Hote(Sien(E)[f], a)])
<1> DEFINE E == Prets(W, a, C)
           hote == [f \in Servis(E) |-> Hote(Sien(E)[f], a)]
<1>1. BonsPrets(E, W, a)
  BY PretsFacts DEF AvantFormation
<1>2. /\ Servis(E) \subseteq W /\ W \subseteq Flux
      /\ \A f \in Servis(E) : /\ Sien(E)[f] \in E
                              /\ f \in DOMAIN Sien(E)[f]
                              /\ DOMAIN Sien(E)[f] \subseteq Servis(E)
                              /\ Hote(Sien(E)[f], a) \in DOMAIN Sien(E)[f]
  BY <1>1, SienFacts DEF AvantFormation
<1>3. \A f \in W : /\ Souhaits[f].mode = suivi[f].cfg /\ Souhaits[f].camp = suivi[f].camp
                  /\ Identites[f] = Joueur(f)
  BY <1>2 DEF Souhaits, Identites
<1> SUFFICES ASSUME NEW f \in Servis(E)
             PROVE  LET T == {g \in Servis(E) : hote[g] = hote[f]}
                    IN  /\ hote[f] \in T
                        /\ Cardinality(T) = Capacite[Souhaits[f].mode]
                        /\ \A g \in T : /\ Souhaits[g].mode = Souhaits[f].mode
                                        /\ Identites[g] = Identites[f] => g = f
                        /\ \A g \in W \ Servis(E) : Promesse!Rivaux(f, g) =>
                             \/ <<f, g>> \in Rangs(W, a)
                             \/ \E x \in T : Identites[x] = Identites[g]
  BY MemeTaille DEF Promesse!Convient
<1> DEFINE e == Sien(E)[f]
           T == {g \in Servis(E) : hote[g] = hote[f]}
<1>4. T = {g \in Servis(E) : Hote(Sien(E)[g], a) = Hote(Sien(E)[f], a)}
  OBVIOUS
<1>5. T = DOMAIN e
  BY <1>1, <1>4, HoteDit
<1>6. hote[f] \in DOMAIN e /\ e \in E /\ f \in DOMAIN e /\ DOMAIN e \subseteq W
  BY <1>2
<1> HIDE DEF T, hote, E, e
<1>7. PICK c \in Configs : BonneComposition(e, W, a, c)
  BY <1>1, <1>6 DEF BonsPrets
<1>8. Cardinality(DOMAIN e) = Capacite[c] /\ \A g \in DOMAIN e : suivi[g].cfg = c
  BY <1>7 DEF BonneComposition, Distincts, EnFile
<1>9. \A g \in DOMAIN e : Joueur(g) = Joueur(f) => g = f
  BY <1>6, <1>7, JoueursDistincts
<1>10. ASSUME NEW g \in W \ Servis(E), Promesse!Rivaux(f, g)
       PROVE  <<f, g>> \in Rangs(W, a) \/ \E x \in DOMAIN e : Identites[x] = Identites[g]
  <2>1. /\ suivi[f].cfg = suivi[g].cfg
        /\ suivi[f].cfg \in FilesDeFete => suivi[f].camp = suivi[g].camp
    BY <1>3, <1>6, <1>10 DEF Promesse!Rivaux
  <2>2. a[f] < a[g] \/ \E x \in DOMAIN e : Joueur(x) = Joueur(g)
    BY <1>6, <2>1, PremiersServis DEF E
  <2> QED BY <1>3, <1>6, <2>2 DEF Rangs
<1> QED BY <1>3, <1>5, <1>6, <1>8, <1>9, <1>10 DEF T

(* A formation out of the waiters W, in the order a, is a step of the       *)
(* promise for them.                                                        *)
LEMMA FormationSert ==
  ASSUME IInv, CampConnu, NEW W, NEW a, AvantFormation(W, a),
         \A x \in W : phase[x] # "libre",
         NEW C, C \subseteq Configs, Former(W, a, Prets(W, a, C)),
         \A x \in Flux : phase'[x] = IF x \in W THEN "attente" ELSE phase[x],
         waiting \subseteq W
  PROVE  Promesse!Servir(W, Rangs(W, a))
<1> DEFINE E == Prets(W, a, C)
           P == Servis(E)
           hote == [f \in P |-> Hote(Sien(E)[f], a)]
<1>1. BonsPrets(E, W, a)
  BY PretsFacts DEF AvantFormation
<1>2. EffetDeFormer(W, a, E)
  BY <1>1, FormerFacts DEF IInv
<1>3. Promesse!Convient(W, Rangs(W, a), P, hote)
  BY FormationConvient
<1>4. /\ P \subseteq W /\ W \subseteq Flux
      /\ \A f \in P : /\ DOMAIN Sien(E)[f] \subseteq P
                      /\ Hote(Sien(E)[f], a) \in DOMAIN Sien(E)[f]
  BY <1>1, SienFacts DEF AvantFormation
<1>5. hote \in [P -> P] /\ \A f \in P : hote[f] = Hote(Sien(E)[f], a)
  BY <1>4
<1>6. Etapes' = [f \in Flux |-> IF f \in P THEN "choisi"
                               ELSE IF f \in W THEN "file" ELSE Etapes[f]]
  <2>1. /\ waiting' = W \ P
        /\ \A f \in Flux : Servi(f)' <=> (f \in P \/ Servi(f))
    <3> HIDE DEF E
    <3> QED BY <1>2, <1>4, MatchmakerAssumption DEF EffetDeFormer, Servi
  <2> HIDE DEF P
  <2>2. ASSUME NEW f \in Flux, f \in W
        PROVE  Etapes'[f] = IF f \in P THEN "choisi" ELSE "file"
    BY <2>1, <2>2 DEF Etapes
  <2>3. ASSUME NEW f \in Flux, f \notin W
        PROVE  Etapes'[f] = Etapes[f]
    BY <1>4, <2>1, <2>3 DEF Etapes
  <2>4. Etapes' = [f \in Flux |-> Etapes'[f]]
    BY DEF Etapes
  <2> QED BY <1>4, <2>2, <2>3, <2>4
<1>7. Rangs(waiting, arrivee)' = Rangs(W, a) \cap ((W \ P) \X (W \ P))
  <2>1. waiting' = W \ P /\ \A f \in waiting' : arrivee'[f] = a[f]
    BY <1>2 DEF EffetDeFormer
  <2> HIDE DEF P
  <2> QED BY <2>1 DEF Rangs
<1>8. partie' = [f \in Flux |-> IF f \in P THEN hote[f] ELSE partie[f]]
  <2> HIDE DEF E
  <2> QED BY <1>2 DEF EffetDeFormer
<1>9. participants' =
        [h \in Flux |-> IF h \in P /\ hote[h] = h
                        THEN {Identites[f] : f \in {g \in P : hote[g] = h}}
                        ELSE participants[h]]
  <2>1. ASSUME NEW h \in P, hote[h] = h
        PROVE  {Identites[f] : f \in {g \in P : hote[g] = h}} = {Joueur(f) : f \in DOMAIN Sien(E)[h]}
    <3>1. {g \in P : hote[g] = h} = {g \in P : Hote(Sien(E)[g], a) = Hote(Sien(E)[h], a)}
      BY <1>5, <2>1
    <3>2. {g \in P : hote[g] = h} = DOMAIN Sien(E)[h]
      BY <1>1, <3>1, HoteDit
    <3>3. \A f \in DOMAIN Sien(E)[h] : Identites[f] = Joueur(f)
      BY <1>4 DEF Identites
    <3> HIDE DEF E, hote
    <3> QED BY <3>2, <3>3
  <2>2. /\ participants' \in [Flux -> SUBSET Joueurs]
        /\ \A h \in Flux : participants'[h] =
             IF h \in P /\ Hote(Sien(E)[h], a) = h
             THEN {Joueur(f) : f \in DOMAIN Sien(E)[h]} ELSE participants[h]
    BY <1>2 DEF EffetDeFormer
  <2> HIDE DEF E, P, hote
  <2> QED BY <1>5, <2>1, <2>2
<1> HIDE DEF P, hote
<1>10. P \in SUBSET W /\ hote \in [P -> P]
  BY <1>4, <1>5
<1>11. Promesse!Sortir(W, Rangs(W, a), P, hote)
  BY <1>6, <1>7, <1>8, <1>9, Zenon DEF Promesse!Sortir
<1> QED BY <1>3, <1>10, <1>11, Zenon DEF Promesse!Servir

LEMMA EnqueueEntre ==
  ASSUME IInv, CampConnu, NEW f \in Flux, Enqueue(f)
  PROVE  Promesse!Entrer(f)
<1> DEFINE W == waiting \cup {f}
           a == [arrivee EXCEPT ![f] = rang']
<1>1. /\ phase[f] = "placement" /\ phase' = [phase EXCEPT ![f] = "attente"]
      /\ rang' = rang + 1 /\ rang \in Nat /\ {suivi[f].cfg} \subseteq Configs
      /\ Former(W, a, Prets(W, a, {suivi[f].cfg}))
      /\ suivi' = suivi
  BY DEF Enqueue, IInv, TypeOK, SuiviOuvert, Suivi
<1>2. AvantFormation(W, a)
  BY EnqueueParks
<1>3. \A x \in waiting : phase[x] = "attente" /\ x # f
  BY <1>1 DEF IInv, TypeOK, PoolMatchesStreams
<1>4. \A x \in Flux : phase'[x] = IF x \in W THEN "attente" ELSE phase[x]
  BY <1>1, <1>3 DEF IInv, TypeOK
<1>5. Rangs(W, a) = Rangs(waiting, arrivee) \cup (waiting \X {f})
  <2>1. /\ a[f] = rang + 1
        /\ \A x \in waiting : a[x] = arrivee[x] /\ arrivee[x] \in Nat /\ arrivee[x] <= rang
    BY <1>1, <1>3 DEF IInv, TypeOK, OrdreDArrivee
  <2> HIDE DEF a
  <2>2. /\ \A x \in waiting : a[x] < a[f] /\ ~(a[f] < a[x])
        /\ ~(a[f] < a[f])
        /\ \A x, y \in waiting : a[x] < a[y] <=> arrivee[x] < arrivee[y]
    BY <1>1, <2>1
  <2> QED BY <1>3, <2>2 DEF Rangs
<1>6. Promesse!EnAttente = waiting
  BY EnAttenteEstLaFile DEF IInv
<1> HIDE DEF a
<1>7. Promesse!Servir(W, Rangs(W, a))
  <2>1. (\A x \in W : phase[x] # "libre") /\ waiting \subseteq W
    BY <1>1, <1>3
  <2> HIDE DEF W
  <2> QED BY <1>1, <1>2, <1>4, <2>1, FormationSert
<1>8. Etapes[f] = "dehors"
  BY <1>1 DEF Etapes
<1>9. Souhaits' = Souhaits
  BY <1>1, <1>3, <1>4 DEF Souhaits
<1> QED BY <1>5, <1>6, <1>7, <1>8, <1>9 DEF Promesse!Entrer

LEMMA RevisionReexamine ==
  ASSUME IInv, CampConnu, NEW f \in Flux, Revision(f)
  PROVE  Promesse!Reexaminer
<1>1. /\ Former(waiting, arrivee, Prets(waiting, arrivee, Configs))
      /\ UNCHANGED <<suivi, phase>>
  BY DEF Revision
<1>2. AvantFormation(waiting, arrivee)
  BY DEF AvantFormation, IInv, TypeOK, SuiviOuvert, PoolMatchesStreams, OrdreDArrivee
<1>3. \A x \in waiting : phase[x] = "attente"
  BY DEF IInv, TypeOK, PoolMatchesStreams
<1>4. \A x \in Flux : phase'[x] = IF x \in waiting THEN "attente" ELSE phase[x]
  BY <1>1, <1>3 DEF IInv, TypeOK
<1>5. Promesse!Servir(waiting, Rangs(waiting, arrivee))
  BY <1>1, <1>2, <1>3, <1>4, FormationSert
<1>6. Promesse!EnAttente = waiting
  BY EnAttenteEstLaFile DEF IInv
<1>7. Souhaits' = Souhaits
  BY <1>1 DEF Souhaits
<1> QED BY <1>5, <1>6, <1>7 DEF Promesse!Reexaminer

LEMMA TrackDemande ==
  ASSUME IInv, IInv', NEW f \in Flux, Track(f)
  PROVE  Promesse!Demander(f)
<1>1. /\ phase[f] = "libre" /\ suivi'[f] \in Suivi
      /\ phase' = [phase EXCEPT ![f] = IF Instant THEN "recherche" ELSE "battement"]
      /\ \A x \in Flux \ {f} : suivi'[x] = suivi[x]
      /\ UNCHANGED pvars
  BY DEF Track, IInv, TypeOK, SuiviOuvert
<1>2. phase'[f] \in {"recherche", "battement"} /\ \A x \in Flux \ {f} : phase'[x] = phase[x]
  BY <1>1 DEF IInv, TypeOK
<1>3. Etapes[f] = "libre" /\ Etapes' = [Etapes EXCEPT ![f] = "dehors"]
  <2>1. waiting' = waiting /\ partie' = partie
    BY <1>1 DEF pvars
  <2> QED BY <1>1, <1>2, <2>1 DEF Etapes, Servi
<1>4. \E m \in Configs, c \in Camps \cup {SansCamp} :
        Souhaits' = [Souhaits EXCEPT ![f] = [mode |-> m, camp |-> c]]
  <2>1. suivi'[f].cfg \in Configs /\ suivi'[f].camp \in Camps \cup {SansCamp}
    BY <1>1 DEF Suivi
  <2>2. Souhaits' = [Souhaits EXCEPT ![f] = [mode |-> suivi'[f].cfg, camp |-> suivi'[f].camp]]
    BY <1>1, <1>2 DEF Souhaits
  <2> QED BY <2>1, <2>2
<1> QED BY <1>1, <1>3, <1>4 DEF Promesse!Demander, pvars, Rangs

(* The pool without the streams of S keeps its order.                       *)
LEMMA RangsSans ==
  ASSUME NEW S, waiting' = waiting \ S, TypeOK, arrivee' = Oublier(arrivee, S)
  PROVE  Rangs(waiting, arrivee)' = Rangs(waiting, arrivee) \cap ((waiting \ S) \X (waiting \ S))
<1>1. \A x \in waiting' : arrivee'[x] = arrivee[x]
  BY DEF TypeOK, Oublier
<1> QED BY <1>1 DEF Rangs

LEMMA CancelRaye ==
  ASSUME IInv, NEW t \in Tickets, CancelMatchmakingTicket(t)
  PROVE  Promesse!Rayer(Auteur[t])
<1> DEFINE S == {f \in waiting : TicketDe[f] = t}
<1>1. /\ waiting' = waiting \ S /\ arrivee' = Oublier(arrivee, S)
      /\ UNCHANGED <<suivi, phase, partie, participants>>
  BY DEF CancelMatchmakingTicket
<1>2. Promesse!EnAttente = waiting
  BY EnAttenteEstLaFile DEF IInv
<1>3. \A f \in S : Identites[f] = Auteur[t] /\ f \in waiting
  BY DEF Identites, Joueur, IInv, TypeOK
<1>4. \A f \in waiting : phase[f] = "attente" /\ ~Servi(f) /\ f \in Flux
  BY DEF IInv, TypeOK, PoolMatchesStreams
<1> HIDE DEF S
<1>5. Etapes' = [f \in Flux |-> IF f \in S THEN "raye" ELSE Etapes[f]]
  BY <1>1, <1>3, <1>4 DEF Etapes, Servi
<1>6. Rangs(waiting, arrivee)' = Rangs(waiting, arrivee) \cap ((waiting \ S) \X (waiting \ S))
  BY <1>1, RangsSans DEF IInv
<1>7. Souhaits' = Souhaits
  BY <1>1 DEF Souhaits
<1>8. S \in SUBSET {f \in waiting : Identites[f] = Auteur[t]}
  BY <1>3
<1> QED BY <1>1, <1>2, <1>5, <1>6, <1>7, <1>8 DEF Promesse!Rayer

(* A step of the stream f alone, which moves its goroutine and not the pool.*)
LEMMA EtapeSeule ==
  ASSUME IInv, NEW f \in Flux, NEW e \in Phases, phase[f] # "libre", e # "libre",
         e # "attente", phase[f] # "attente" \/ f \notin waiting,
         phase' = [phase EXCEPT ![f] = e], UNCHANGED <<suivi, waiting, arrivee, partie>>
  PROVE  /\ Etapes' = [Etapes EXCEPT ![f] = Etapes'[f]]
         /\ Souhaits' = Souhaits
         /\ Rangs(waiting, arrivee)' = Rangs(waiting, arrivee)
         /\ Rangs(waiting, arrivee)
              = Rangs(waiting, arrivee) \cap ((waiting \ {f}) \X (waiting \ {f}))
<1>1. f \notin waiting
  BY DEF IInv, TypeOK, PoolMatchesStreams
<1>2. Rangs(waiting, arrivee)
        = Rangs(waiting, arrivee) \cap ((waiting \ {f}) \X (waiting \ {f}))
  BY <1>1 DEF Rangs
<1>3. \A x \in Flux \ {f} : phase'[x] = phase[x]
  BY DEF IInv, TypeOK
<1>4. phase'[f] = e
  BY DEF IInv, TypeOK
<1>5. Souhaits' = Souhaits
  BY <1>3, <1>4 DEF Souhaits
<1>6. Etapes' = [Etapes EXCEPT ![f] = Etapes'[f]]
  BY <1>3 DEF Etapes, Servi
<1> QED BY <1>2, <1>5, <1>6 DEF Rangs

LEMMA ServeurPromet ==
  ASSUME IInv, CampConnu, NEW f \in Flux, Serveur(f)
  PROVE  [Promesse!Next]_(Promesse!fileVars)
<1> DEFINE inchange == UNCHANGED Promesse!fileVars
<1>1. CASE Enqueue(f)
  BY <1>1, EnqueueEntre DEF Promesse!Next
<1>2. CASE Revision(f)
  BY <1>2, RevisionReexamine DEF Promesse!Next
<1>3. CASE Placement(f)
  <2>1. /\ phase[f] = "recherche" /\ UNCHANGED <<suivi, waiting, arrivee, partie, participants>>
        /\ \E e \in {"placement", "ferme"} : phase' = [phase EXCEPT ![f] = e]
    BY <1>3 DEF Placement, pvars
  <2>2. PICK e \in {"placement", "ferme"} : phase' = [phase EXCEPT ![f] = e]
    BY <2>1
  <2>3. Etapes[f] = "dehors" /\ Etapes'[f] = IF e = "ferme" THEN "parti" ELSE "dehors"
    BY <2>1, <2>2 DEF Etapes, IInv, TypeOK
  <2>4. /\ Etapes' = [Etapes EXCEPT ![f] = Etapes'[f]] /\ Souhaits' = Souhaits
        /\ Rangs(waiting, arrivee)' = Rangs(waiting, arrivee)
        /\ Rangs(waiting, arrivee)
              = Rangs(waiting, arrivee) \cap ((waiting \ {f}) \X (waiting \ {f}))
    BY <2>1, <2>2, EtapeSeule DEF Phases
  <2>5. CASE e = "placement"
    <3>1. Etapes' = Etapes
      BY <2>3, <2>4, <2>5 DEF Etapes
    <3> QED BY <2>1, <2>4, <3>1 DEF Promesse!fileVars
  <2>6. CASE e = "ferme"
    <3>1. Promesse!Partir(f)
      BY <2>1, <2>3, <2>4, <2>6, EnAttenteEstLaFile DEF Promesse!Partir, IInv
    <3> QED BY <3>1 DEF Promesse!Next
  <2> QED BY <2>5, <2>6
<1>4. CASE Conclude(f)
  <2>1. /\ phase[f] = "attente" /\ phase' = [phase EXCEPT ![f] = "annule"]
        /\ f \notin waiting /\ ~Servi(f)
        /\ UNCHANGED <<suivi, waiting, arrivee, partie, participants>>
    BY <1>4 DEF Conclude, IInv, PoolMatchesStreams, DejaEnFile
  <2>2. Etapes[f] = "raye" /\ Etapes'[f] = "averti"
    BY <2>1 DEF Etapes, IInv, TypeOK
  <2>3. /\ Etapes' = [Etapes EXCEPT ![f] = Etapes'[f]] /\ Souhaits' = Souhaits
        /\ Rangs(waiting, arrivee)' = Rangs(waiting, arrivee)
    BY <2>1, EtapeSeule DEF Phases
  <2>4. Promesse!Dire(f)
    BY <2>1, <2>2, <2>3 DEF Promesse!Dire
  <2> QED BY <2>4 DEF Promesse!Next
<1>5. CASE Receive(f)
  <2>1. /\ phase[f] = "attente" /\ phase' = [phase EXCEPT ![f] = "retenu"]
        /\ f \notin waiting /\ Servi(f)
        /\ UNCHANGED <<suivi, waiting, arrivee, partie, participants>>
    BY <1>5 DEF Receive, IInv, PoolMatchesStreams, DejaEnFile
  <2>2. Etapes[f] = "choisi" /\ Etapes'[f] = "choisi"
    BY <2>1 DEF Etapes, IInv, TypeOK
  <2>3. /\ Etapes' = [Etapes EXCEPT ![f] = Etapes'[f]] /\ Souhaits' = Souhaits
        /\ Rangs(waiting, arrivee)' = Rangs(waiting, arrivee)
    BY <2>1, EtapeSeule DEF Phases
  <2>4. Etapes' = Etapes
    BY <2>2, <2>3 DEF Etapes
  <2> QED BY <2>1, <2>3, <2>4 DEF Promesse!fileVars
<1>6. CASE Announce(f)
  <2>1. /\ phase[f] = "retenu" /\ UNCHANGED <<suivi, waiting, arrivee, partie, participants>>
        /\ \E e \in {"conclu", "ferme"} : phase' = [phase EXCEPT ![f] = e]
    BY <1>6 DEF Announce, pvars
  <2>2. PICK e \in {"conclu", "ferme"} : phase' = [phase EXCEPT ![f] = e]
    BY <2>1
  <2>3. Etapes[f] = "choisi" /\ Etapes'[f] = IF e = "ferme" THEN "parti" ELSE "servi"
    BY <2>1, <2>2 DEF Etapes, IInv, TypeOK
  <2>4. /\ Etapes' = [Etapes EXCEPT ![f] = Etapes'[f]] /\ Souhaits' = Souhaits
        /\ Rangs(waiting, arrivee)' = Rangs(waiting, arrivee)
        /\ Rangs(waiting, arrivee)
              = Rangs(waiting, arrivee) \cap ((waiting \ {f}) \X (waiting \ {f}))
    BY <2>1, <2>2, EtapeSeule DEF Phases
  <2>5. CASE e = "conclu"
    <3>1. Promesse!Dire(f)
      BY <2>1, <2>3, <2>4, <2>5 DEF Promesse!Dire
    <3> QED BY <3>1 DEF Promesse!Next
  <2>6. CASE e = "ferme"
    <3>1. Promesse!Partir(f)
      BY <2>1, <2>3, <2>4, <2>6, EnAttenteEstLaFile DEF Promesse!Partir, IInv
    <3> QED BY <3>1 DEF Promesse!Next
  <2> QED BY <2>5, <2>6
<1>7. CASE Withdraw(f)
  <2>1. /\ phase[f] = "attente" /\ phase' = [phase EXCEPT ![f] = "ferme"]
        /\ waiting' = waiting \ {f} /\ arrivee' = Oublier(arrivee, {f})
        /\ UNCHANGED <<suivi, partie, participants>>
    BY <1>7 DEF Withdraw
  <2>2. Etapes[f] \in {"file", "choisi", "raye"} /\ Etapes' = [Etapes EXCEPT ![f] = "parti"]
    BY <2>1 DEF Etapes, Servi, IInv, TypeOK
  <2>3. Souhaits' = Souhaits
    BY <2>1 DEF Souhaits, IInv, TypeOK
  <2>4. Rangs(waiting, arrivee)'
          = Rangs(waiting, arrivee) \cap ((waiting \ {f}) \X (waiting \ {f}))
    BY <2>1, RangsSans DEF IInv
  <2>5. Promesse!Partir(f)
    BY <2>1, <2>2, <2>3, <2>4, EnAttenteEstLaFile DEF Promesse!Partir, IInv
  <2> QED BY <2>5 DEF Promesse!Next
<1>8. CASE Release(f)
  <2>1. /\ phase[f] \in {"conclu", "battement"} /\ phase' = [phase EXCEPT ![f] = "ferme"]
        /\ UNCHANGED <<suivi, waiting, arrivee, partie, participants>>
    BY <1>8 DEF Release, pvars
  <2>2. Etapes[f] \in {"servi", "dehors"} /\ Etapes'[f] = "parti"
    BY <2>1 DEF Etapes, IInv, TypeOK
  <2>3. /\ Etapes' = [Etapes EXCEPT ![f] = Etapes'[f]] /\ Souhaits' = Souhaits
        /\ Rangs(waiting, arrivee)' = Rangs(waiting, arrivee)
        /\ Rangs(waiting, arrivee)
              = Rangs(waiting, arrivee) \cap ((waiting \ {f}) \X (waiting \ {f}))
    BY <2>1, EtapeSeule DEF Phases
  <2>4. Promesse!Partir(f)
    BY <2>1, <2>2, <2>3, EnAttenteEstLaFile DEF Promesse!Partir, IInv
  <2> QED BY <2>4 DEF Promesse!Next
<1> QED BY <1>1, <1>2, <1>3, <1>4, <1>5, <1>6, <1>7, <1>8 DEF Serveur

(* A player struck off the list of his session was told, or his stream is    *)
(* gone.                                                                    *)
LEMMA OublierQuitte ==
  ASSUME IInv, NEW f \in Flux, oublierParticipant(f)
  PROVE  Promesse!Quitter(f)
<1>1. /\ partie[f] # Rien /\ phase[f] \in {"conclu", "ferme"}
      /\ participants' = [participants EXCEPT ![partie[f]] = @ \ {Identites[f]}]
      /\ UNCHANGED <<suivi, phase, waiting, arrivee, partie>>
  BY DEF oublierParticipant, Informe, Servi, Identites
<1>2. Etapes[f] \in {"servi", "parti"}
  BY <1>1 DEF Etapes
<1>3. Etapes' = Etapes /\ Souhaits' = Souhaits /\ Rangs(waiting, arrivee)' = Rangs(waiting, arrivee)
  BY <1>1 DEF Etapes, Souhaits, Rangs, Servi
<1> QED BY <1>1, <1>2, <1>3 DEF Promesse!Quitter

(* A step that moves nothing a console knows.                               *)
LEMMA RienNeChange ==
  ASSUME UNCHANGED <<suivi, phase, waiting, arrivee, partie, participants>>
  PROVE  UNCHANGED Promesse!fileVars
<1>1. Etapes' = Etapes
  BY DEF Etapes, Servi
<1> QED BY <1>1 DEF Souhaits, Rangs, Promesse!fileVars

LEMMA PasPromis ==
  ASSUME IInv, IInv', CampConnu, [Next]_vars
  PROVE  [Promesse!Next]_(Promesse!fileVars)
<1>1. ASSUME NEW t \in Tickets, NEW c, CreateMatchmakingTicket(t, c)
      PROVE  UNCHANGED Promesse!fileVars
  BY <1>1, RienNeChange DEF CreateMatchmakingTicket, pvars
<1>2. ASSUME NEW f \in Flux, Track(f)
      PROVE  Promesse!Next
  BY <1>2, TrackDemande DEF Promesse!Next
<1>3. ASSUME NEW f \in Flux, Hangup(f)
      PROVE  UNCHANGED Promesse!fileVars
  BY <1>3, RienNeChange DEF Hangup, pvars
<1>4. ASSUME NEW t \in Tickets, CancelMatchmakingTicket(t)
      PROVE  Promesse!Next
  BY <1>4, CancelRaye, MatchmakerAssumption DEF Promesse!Next
<1>5. CASE Client
  BY <1>1, <1>2, <1>3, <1>4, <1>5 DEF Client
<1>6. CASE FlipFlag \/ FestivalMoves \/ UNCHANGED vars
  BY <1>6, RienNeChange DEF FlipFlag, FestivalMoves, vars, pvars
<1>7. ASSUME NEW f \in Flux, oublierParticipant(f)
      PROVE  Promesse!Next
  BY <1>7, OublierQuitte DEF Promesse!Next
<1> QED BY <1>5, <1>6, <1>7, ServeurPromet DEF Next

(* The queue implements MatchQueue: streams leave it in complete sessions of *)
(* distinct players, in their order, and are told so.                       *)
THEOREM QueueKeepsItsPromise == Spec => ServesInOrder
<1>1. IInv /\ IInv' /\ CampConnu /\ [Next]_vars => [Promesse!Next]_(Promesse!fileVars)
  BY PasPromis
<1>2. IInv /\ CampConnu /\ [Next]_vars => CampConnu'
  BY CampConnuPas DEF IInv
<1> QED BY <1>1, <1>2, PromesseInit, CampConnuInit, Invariance, PTL
        DEF Spec, ServesInOrder, Promesse!Spec

-----------------------------------------------------------------------------
(* Why a cancelled ticket is matched.                                      *)

(* Who gets a session was in the pool, or is the stream that parks itself. *)
NouveauxServis ==
  \A f \in Flux : ~Servi(f) /\ partie'[f] # Rien => f \in waiting \/ phase[f] = "placement"

LEMMA ServisDeLaFile ==
  ASSUME IInv, NEW W, NEW a, AvantFormation(W, a), NEW C, C \subseteq Configs,
         Former(W, a, Prets(W, a, C))
  PROVE  /\ waiting' \subseteq W
         /\ \A f \in Flux : ~Servi(f) /\ partie'[f] # Rien => f \in W
<1> DEFINE E == Prets(W, a, C)
<1>1. BonsPrets(E, W, a)
  BY PretsFacts DEF AvantFormation
<1>2. EffetDeFormer(W, a, E)
  BY <1>1, FormerFacts DEF IInv
<1>3. Servis(E) \subseteq W
  BY <1>1, SienFacts
<1> HIDE DEF E
<1> QED BY <1>2, <1>3 DEF EffetDeFormer, Servi

(* What a step does to the pool: it takes in the stream that parks itself  *)
(* and nobody else, and only from it are the new sessions drawn.           *)
LEMMA PasDeLaFile ==
  ASSUME IInv, Next
  PROVE  /\ NouveauxServis
         /\ \A f \in waiting' : f \in waiting \/ phase[f] = "placement"
<1>1. ASSUME NEW h \in Flux, Enqueue(h)
      PROVE  /\ NouveauxServis
             /\ \A f \in waiting' : f \in waiting \/ phase[f] = "placement"
  <2> DEFINE W == waiting \cup {h}
             a == [arrivee EXCEPT ![h] = rang']
  <2>1. /\ phase[h] = "placement" /\ suivi[h].cfg \in Configs
        /\ Former(W, a, Prets(W, a, {suivi[h].cfg}))
    BY <1>1 DEF Enqueue, IInv, TypeOK, SuiviOuvert, Suivi
  <2>2. AvantFormation(W, a)
    BY <1>1, EnqueueParks
  <2>3. /\ waiting' \subseteq W
        /\ \A f \in Flux : ~Servi(f) /\ partie'[f] # Rien => f \in W
    <3> HIDE DEF W, a
    <3> QED BY <2>1, <2>2, ServisDeLaFile
  <2> QED BY <2>1, <2>3 DEF NouveauxServis
<1>2. ASSUME NEW h \in Flux, Revision(h)
      PROVE  NouveauxServis /\ waiting' \subseteq waiting
  <2>1. AvantFormation(waiting, arrivee)
    BY DEF AvantFormation, IInv, TypeOK, SuiviOuvert, PoolMatchesStreams, OrdreDArrivee
  <2> QED BY <1>2, <2>1, ServisDeLaFile DEF Revision, NouveauxServis
<1>3. ASSUME partie' = partie, waiting' \subseteq waiting
      PROVE  NouveauxServis /\ waiting' \subseteq waiting
  BY <1>3 DEF NouveauxServis, Servi
<1>4. ASSUME NEW h \in Flux, Serveur(h)
      PROVE  /\ NouveauxServis
             /\ \A f \in waiting' : f \in waiting \/ phase[f] = "placement"
  BY <1>1, <1>2, <1>3, <1>4 DEF Serveur, Placement, Conclude, Receive, Announce, Withdraw,
     Release, pvars
<1>5. CASE Client
  BY <1>3, <1>5 DEF Client, CreateMatchmakingTicket, Track, Hangup, CancelMatchmakingTicket, pvars
<1>6. CASE FlipFlag \/ FestivalMoves \/ \E f \in Flux : oublierParticipant(f)
  BY <1>3, <1>6 DEF FlipFlag, FestivalMoves, oublierParticipant, pvars
<1> QED BY <1>4, <1>5, <1>6 DEF Next

(* A ticket is only forgotten by its cancellation, which takes its waiters *)
(* off the pool; who enters the pool was in its heartbeats.                *)
LEMMA AttenteVouluePas ==
  ASSUME IInv, PassagesVoulus, AttenteVoulue, [Next]_vars
  PROVE  AttenteVoulue'
<1>1. CASE UNCHANGED vars
  BY <1>1 DEF AttenteVoulue, vars, tvars, pvars
<1>2. CASE Next
  <2> SUFFICES ASSUME NEW f \in waiting', suivi'[f].connu
               PROVE  TicketDe[f] \in tickets'
    BY DEF AttenteVoulue
  <2>1. f \in Flux /\ (f \in waiting \/ phase[f] = "placement")
    <3>1. waiting' \subseteq Flux
      BY <1>2, StepInvariant DEF IInv, TypeOK
    <3> QED BY <1>2, <3>1, PasDeLaFile
  <2>2. phase[f] # "libre"
    BY <2>1 DEF IInv, PoolMatchesStreams
  <2>3. suivi'[f] = suivi[f]
    <3>1. ASSUME NEW g \in Flux, Track(g) PROVE suivi'[f] = suivi[f]
      BY <2>1, <2>2, <3>1 DEF Track, IInv, TypeOK
    <3>2. ASSUME NEW g \in Flux, Serveur(g) PROVE suivi' = suivi
      BY <3>2 DEF Serveur, Placement, Enqueue, Revision, Conclude, Receive, Announce, Withdraw,
         Release
    <3> QED BY <1>2, <3>1, <3>2 DEF Next, Client, CreateMatchmakingTicket, Hangup,
        CancelMatchmakingTicket, FlipFlag, FestivalMoves, oublierParticipant
  <2>4. TicketDe[f] \in tickets
    BY <2>1, <2>3 DEF AttenteVoulue, PassagesVoulus
  <2>5. CASE \E t \in Tickets : CancelMatchmakingTicket(t)
    <3>1. PICK t \in Tickets : CancelMatchmakingTicket(t)
      BY <2>5
    <3>2. tickets' = tickets \ {t} /\ waiting' = waiting \ {g \in waiting : TicketDe[g] = t}
      BY <3>1 DEF CancelMatchmakingTicket
    <3> QED BY <2>4, <3>2
  <2>6. CASE \E t \in Tickets, c \in Configs \cup {SansConfig} : CreateMatchmakingTicket(t, c)
    BY <2>4, <2>6 DEF CreateMatchmakingTicket
  <2>7. CASE \E g \in Flux : Track(g) \/ Hangup(g)
    BY <2>4, <2>7 DEF Track, Hangup, tvars
  <2>8. CASE \E g \in Flux : Serveur(g)
    BY <2>4, <2>8 DEF Serveur, Placement, Enqueue, Revision, Conclude, Receive, Announce,
       Withdraw, Release, tvars
  <2>9. CASE FlipFlag \/ FestivalMoves \/ \E g \in Flux : oublierParticipant(g)
    BY <2>4, <2>9 DEF FlipFlag, FestivalMoves, oublierParticipant, tvars
  <2> QED BY <1>2, <2>5, <2>6, <2>7, <2>8, <2>9 DEF Next, Client
<1> QED BY <1>1, <1>2

AnnulesNonApparies ==
  \A f \in Flux : ~Servi(f) /\ (partie[f] # Rien)' /\ suivi[f].connu
                   => TicketDe[f] \in tickets

(* The cancellation that comes in the two seconds of the heartbeats is the *)
(* only way a cancelled ticket is matched: without one, none is, however    *)
(* streams, departures, other cancellations and the festival go.           *)
THEOREM TimelyCancellationsHold == Spec /\ []PassagesVoulus => CancelledNeverMatched
<1>1. Init => AttenteVoulue
  BY DEF Init, AttenteVoulue
<1>2. IInv /\ PassagesVoulus /\ AttenteVoulue /\ [Next]_vars => AttenteVoulue'
  BY AttenteVouluePas
<1>3. IInv /\ PassagesVoulus /\ AttenteVoulue /\ [Next]_vars => [AnnulesNonApparies]_vars
  BY PasDeLaFile DEF NouveauxServis, AnnulesNonApparies, AttenteVoulue, PassagesVoulus
<1>4. [AnnulesNonApparies]_vars <=>
        [\A f \in Flux : ~Servi(f) /\ (partie[f] # Rien)' /\ suivi[f].connu
                         => TicketDe[f] \in tickets]_vars
  BY DEF AnnulesNonApparies
<1> QED BY <1>1, <1>2, <1>3, <1>4, Invariance, PTL DEF Spec, CancelledNeverMatched
=============================================================================
