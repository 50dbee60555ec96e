------------------------------ MODULE MCFest ------------------------------
(* Two festival queues, an open battle of 1 against 1 and a tricolour      *)
(* battle of 2 against 1 against 1; two players of camp A, one of B, one   *)
(* of C, one ticket and one stream each.  The flag flips, the defender     *)
(* comes and goes.                                                         *)
EXTENDS Matchmaker, TLC

CONSTANTS turf, ouvert, tricolore, campA, campB, campC, a1, a2, b1, c1

MCCapacite == turf :> 2 @@ ouvert :> 2 @@ tricolore :> 4
MCIdentite == [j \in Joueurs |-> j]
MCVoulus == [j \in Joueurs |-> IF j = c1 THEN {tricolore} ELSE {ouvert, tricolore}]
MCCampDe == a1 :> campA @@ a2 :> campA @@ b1 :> campB @@ c1 :> campC
MCOrdre == campA :> 1 @@ campB :> 2 @@ campC :> 3

(* Bound: nobody cancels, leaves a stream or a session here; MCMatchmaker   *)
(* has all three.                                                           *)
Patience ==
  /\ tickets \subseteq tickets'
  /\ \A f \in Flux : present[f] => present'[f]
  /\ \A h \in Flux : participants[h] \subseteq participants'[h]
=============================================================================
