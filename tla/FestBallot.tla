----------------------------- MODULE FestBallot -----------------------------
(***************************************************************************)
(* What a festival promises its players, with nothing of the files, of the *)
(* locks, of the handlers that race for them nor of the restarts: a ballot *)
(* one votes in once; counts that only a camp's own players raise and that  *)
(* nothing lowers; and, from half-time on, one photo, taken once, of what   *)
(* was counted between half-time and the photo.                            *)
(***************************************************************************)
EXTENDS Integers, FiniteSets

CONSTANTS Camps,     (* what one may vote for                              *)
          Joueurs,   (* who may vote                                       *)
          Aucun,     (* no camp                                            *)
          Depart,    (* the shares published before any vote               *)
          SansPhoto  (* no photo                                           *)

VARIABLES
  choix,        (* per player: his camp, or none                           *)
  dits,         (* the <<player, camp>> that were told                     *)
  encre,        (* per camp: the ink of its players                        *)
  victoires,    (* per camp: its victories                                 *)
  mi,           (* half-time is past                                       *)
  encreMi,      (* the ink when it passed                                  *)
  victoiresMi,  (* the victories when it passed                            *)
  photo,        (* the midterm, once it is taken                           *)
  lus           (* the midterms that were told                             *)

bulletins == <<choix, dits>>
scores    == <<encre, victoires>>
moitie    == <<mi, encreMi, victoiresMi>>
festVars  == <<bulletins, scores, moitie, photo, lus>>

(* The votes for a camp.                                                    *)
Voix(c) == Cardinality({j \in Joueurs : choix[j] = c})

(* Nothing was counted.                                                     *)
Rien(n) == \A c \in Camps : n[c] = 0

(* A photo rests on the first count that is not empty: ink, victories,      *)
(* votes.  All of the first half is in it, and nothing that was not counted.*)
Juste(p) ==
  \/ /\ p.origine = "ferveur"
     /\ ~Rien(p.parts)
     /\ \A c \in Camps : encreMi[c] <= p.parts[c] /\ p.parts[c] <= encre[c]
  \/ /\ p.origine = "victoires"
     /\ ~Rien(p.parts) /\ Rien(encreMi)
     /\ \A c \in Camps : victoiresMi[c] <= p.parts[c] /\ p.parts[c] <= victoires[c]
  \/ /\ p.origine = "vote"
     /\ Rien(encreMi) /\ Rien(victoiresMi)
     /\ \/ p.parts = Depart
        \/ ~Rien(p.parts) /\ \A c \in Camps : p.parts[c] <= Voix(c)

Init ==
  /\ choix = [j \in Joueurs |-> Aucun] /\ dits = {}
  /\ encre = [c \in Camps |-> 0] /\ victoires = [c \in Camps |-> 0]
  /\ mi = FALSE
  /\ encreMi = [c \in Camps |-> 0] /\ victoiresMi = [c \in Camps |-> 0]
  /\ photo = SansPhoto /\ lus = {}

(* The first vote is the vote; it is what the player is told ever after.    *)
Voter(j, c) ==
  /\ choix' = IF choix[j] = Aucun THEN [choix EXCEPT ![j] = c] ELSE choix
  /\ dits' = dits \cup {<<j, choix'[j]>>}
  /\ UNCHANGED <<scores, moitie, photo, lus>>

(* A battle is won for a camp that somebody chose.                          *)
Gagner(c) ==
  /\ Voix(c) > 0
  /\ victoires' = [victoires EXCEPT ![c] = @ + 1]
  /\ UNCHANGED <<bulletins, encre, moitie, photo, lus>>

(* A battle brings a camp the ink of its players who were in it.            *)
Encrer(c) ==
  /\ encre' \in [Camps -> Nat]
  /\ encre[c] < encre'[c] /\ encre'[c] <= encre[c] + Voix(c)
  /\ \A d \in Camps \ {c} : encre'[d] = encre[d]
  /\ UNCHANGED <<bulletins, victoires, moitie, photo, lus>>

(* Half-time passes.                                                        *)
Passer ==
  /\ ~mi
  /\ mi' = TRUE
  /\ encreMi' = encre /\ victoiresMi' = victoires
  /\ UNCHANGED <<bulletins, scores, photo, lus>>

(* The photo is taken, once.                                                *)
Photographier ==
  /\ mi
  /\ photo = SansPhoto
  /\ Juste(photo')
  /\ UNCHANGED <<bulletins, scores, moitie, lus>>

(* It is what everybody is told.                                            *)
Montrer ==
  /\ photo # SansPhoto
  /\ lus' = lus \cup {photo}
  /\ UNCHANGED <<bulletins, scores, moitie, photo>>

Next ==
  \/ \E j \in Joueurs, c \in Camps : Voter(j, c)
  \/ \E c \in Camps : Gagner(c) \/ Encrer(c)
  \/ Passer
  \/ Photographier
  \/ Montrer

Spec == Init /\ [][Next]_festVars
=============================================================================
