----------------------------- MODULE FestTeams -----------------------------
(***************************************************************************)
(* How a festival queue is split into teams: src/fest_equipes.go.          *)
(*                                                                         *)
(* The operators work on a set D of waiters, the camp each declared, and   *)
(* the arrival number of each.  A split is a function from the chosen      *)
(* waiters to their slot; "no split" (nil in the code) is the empty set,   *)
(* and a possible split is unique, so every operator below returns a set   *)
(* of at most one split.                                                   *)
(***************************************************************************)
EXTENDS Integers, FiniteSets

CONSTANTS Camps,     (* the camps a console may declare                      *)
          SansCamp,  (* the console declared none: campDuTicket returned ""  *)
          Ordre      (* Ordre[c]: the place of c in the alphabetical order   *)

ASSUME CampsAssumption ==
  /\ SansCamp \notin Camps
  /\ Ordre \in [Camps -> Nat]
  /\ \A c, d \in Camps : Ordre[c] = Ordre[d] => c = d

Creneaux == {"aucun", "team1", "team2", "team3"}

(* Fault: the slice is taken from the tail of the queue.                    *)
TetesParLaFin(S, a, n) ==
  {T \in SUBSET S : /\ Cardinality(T) = n
                    /\ \A x \in T, y \in S \ T : a[x] > a[y]}

(* The slice expression S[:n] on a queue sorted by arrival: the n earliest  *)
(* members of S, and nothing when S is shorter than n.                      *)
Tetes(S, a, n) ==
  {T \in SUBSET S : /\ Cardinality(T) = n
                    /\ \A x \in T, y \in S \ T : a[x] < a[y]}

DuCamp(D, camp, c) == {w \in D : camp[w] = c}

CampsPresents(D, camp) == {camp[w] : w \in D} \ {SansCamp}

(* sort.Slice in repartirParCamp: larger camps first, then the name.        *)
MieuxRepresente(D, camp, x, y) ==
  LET n(c) == Cardinality(DuCamp(D, camp, c))
  IN  \/ n(x) > n(y)
      \/ n(x) = n(y) /\ Ordre[x] < Ordre[y]

(* camps[0], camps[1]: the two best represented camps, when there are two.  *)
DeuxCamps(D, camp) ==
  LET P == CampsPresents(D, camp)
  IN  {p \in P \X P :
         /\ p[1] # p[2]
         /\ MieuxRepresente(D, camp, p[1], p[2])
         /\ \A z \in P \ {p[1], p[2]} : MieuxRepresente(D, camp, p[2], z)}

Placer(T1, T2, T3) ==
  [w \in T1 \cup T2 \cup T3 |->
     IF w \in T1 THEN "team1" ELSE IF w \in T2 THEN "team2" ELSE "team3"]

(* A festimatch: n \div 2 players of each of the two camps, or nothing.     *)
RepartirParCamp(D, camp, a, n) ==
  UNION {{Placer(T1, T2, {}) : T1 \in Tetes(DuCamp(D, camp, p[1]), a, n \div 2),
                               T2 \in Tetes(DuCamp(D, camp, p[2]), a, n \div 2)}
           : p \in DeuxCamps(D, camp)}

(* A tricolour match of n = 8: four defenders in team1, two attackers of    *)
(* each of the two first other camps, in the order of their names.  The     *)
(* code writes 4 and 2; they are kept as fractions of the room.             *)
RepartirTricolore(D, camp, a, n, defenseur) ==
  LET forts == {c \in CampsPresents(D, camp) \ {defenseur} :
                  Cardinality(DuCamp(D, camp, c)) >= n \div 4}
      paires == {p \in forts \X forts :
                   /\ Ordre[p[1]] < Ordre[p[2]]
                   /\ \A z \in forts \ {p[1], p[2]} : Ordre[p[2]] < Ordre[z]}
  IN  IF defenseur \notin Camps THEN {}
      ELSE UNION {{Placer(T1, T2, T3) :
                     T1 \in Tetes(DuCamp(D, camp, defenseur), a, n \div 2),
                     T2 \in Tetes(DuCamp(D, camp, p[1]), a, n \div 4),
                     T3 \in Tetes(DuCamp(D, camp, p[2]), a, n \div 4)}
                    : p \in paires}
=============================================================================
