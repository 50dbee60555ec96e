--------------------------- MODULE MCMatchmaker ---------------------------
(* Two players and two ordinary modes.  j1 holds two tickets, as S3 does   *)
(* (one opened at boot and one in the lobby), the second perhaps for       *)
(* another mode; j2 names none; every client may hang up at any moment.    *)
EXTENDS Matchmaker, TLC

CONSTANTS turf, coop, j1, j2, t1, t2, t3, f1, f2, f3, sansConfig

MCCapacite == [c \in Configs |-> 2]
MCAuteur == t1 :> j1 @@ t2 :> j1 @@ t3 :> j2
MCTicketDe == f1 :> t1 @@ f2 :> t2 @@ f3 :> t3
MCVoulus == t1 :> {turf} @@ t2 :> {turf, coop} @@ t3 :> {sansConfig}
MCCampDe == [j \in Joueurs |-> SansCamp]
MCOrdre == [c \in Camps |-> 0]
MCMelanges == {FALSE}

(* Bound: the second ticket of j1 is never cancelled, the others may be.   *)
Garde == t2 \in tickets => t2 \in tickets'
=============================================================================
