------------------------------- MODULE BanList -------------------------------
(***************************************************************************)
(* What the bans promise, with nothing of the file, of its date, of the    *)
(* entries, of the locks and of the checks: one list, that an operator     *)
(* changes one player at a time; servers that learn of it now and then;    *)
(* streams, opened for players the server does not know to be banned and   *)
(* cut at the moment it learns that they are.                              *)
(***************************************************************************)
CONSTANTS Joueurs, Serveurs

VARIABLES
  bannis,  \* the players banned
  acquis,  \* those of them the operator was told are banned
  connus,  \* the players each server knows to be banned
  suivis   \* the players whose stream each server follows

listeVars == <<bannis, acquis, connus, suivis>>

Init ==
  /\ bannis = {} /\ acquis = {}
  /\ connus = [s \in Serveurs |-> {}]
  /\ suivis = [s \in Serveurs |-> {}]

(* A command may be done and not said.                                      *)
Bannir(p) ==
  /\ bannis' = bannis \cup {p}
  /\ acquis' \in {acquis, acquis \cup {p}}
  /\ UNCHANGED <<connus, suivis>>

(* A player named by another entry stays banned.                            *)
Gracier(p) ==
  /\ bannis' \in {bannis, bannis \ {p}}
  /\ acquis' = acquis \ {p}
  /\ UNCHANGED <<connus, suivis>>

(* What a server knows is replaced, and the streams are cut, in one step.   *)
Apprendre(s) ==
  /\ connus' = [connus EXCEPT ![s] = bannis]
  /\ suivis' = [suivis EXCEPT ![s] = @ \ bannis]
  /\ UNCHANGED <<bannis, acquis>>

Suivre(s, p) ==
  /\ p \notin connus[s]
  /\ suivis' = [suivis EXCEPT ![s] = @ \cup {p}]
  /\ UNCHANGED <<bannis, acquis, connus>>

Quitter(s, p) ==
  /\ suivis' = [suivis EXCEPT ![s] = @ \ {p}]
  /\ UNCHANGED <<bannis, acquis, connus>>

Repartir(s) ==
  /\ connus' = [connus EXCEPT ![s] = {}]
  /\ suivis' = [suivis EXCEPT ![s] = {}]
  /\ UNCHANGED <<bannis, acquis>>

Next ==
  \/ \E p \in Joueurs : Bannir(p) \/ Gracier(p)
  \/ \E s \in Serveurs :
       \/ Apprendre(s)
       \/ Repartir(s)
       \/ \E p \in Joueurs : Suivre(s, p) \/ Quitter(s, p)

Spec == Init /\ [][Next]_listeVars
=============================================================================
