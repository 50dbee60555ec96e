---------------------------- MODULE MCFestival ----------------------------
(* Three camps, two players who register when they like, one of them twice  *)
(* for different camps, two battles to choose from and two consoles that ask  *)
(* for the midterm.                                                           *)
EXTENDS Festival, TLC

CONSTANTS p, q, a, k1, k2, ouvert, sansMode

MCVoulus == p :> {1} @@ q :> {2, 3}
MCDepart == [c \in Camps |-> 10 + c]
MCModeDe == [c \in Criteres |-> IF c = "Regular" THEN ouvert ELSE SansMode]

(* p against q, which p wins; then q is there and p is not, in a mode that    *)
(* feeds no criterion.                                                        *)
MCBatailles ==
  {[creneau |-> (p :> 1 @@ q :> 2), vainqueur |-> 1, mode |-> ouvert],
   [creneau |-> (p :> 0 @@ q :> 2), vainqueur |-> 2, mode |-> SansMode]}

Symetrie == Permutations(Consoles)
===========================================================================
