----------------------------- MODULE MatchQueue -----------------------------
(***************************************************************************)
(* What the matchmaking queue promises its players, with nothing of the    *)
(* tickets, of the timers, of the pool's list, of the channels, of the     *)
(* flag or of how a festival is split: streams enter a queue in some       *)
(* order; complete sessions leave it, in that order; each stream that left *)
(* it is told why once; after that nothing happens to it any more, but for *)
(* the list of its session, which its player may leave.                    *)
(***************************************************************************)
EXTENDS Integers, FiniteSets

CONSTANTS Flux,      (* the streams                                         *)
          Joueurs,   (* the players                                         *)
          JoueurDe,  (* the player behind each stream                       *)
          Modes,     (* what one may ask to play                            *)
          Places,    (* how many players a session of each mode takes       *)
          Camps,     (* the sides of a festival, none included              *)
          Opposes,   (* the modes that take each side apart                 *)
          Rien

VARIABLES
  etat,      (* per stream: libre, dehors (it said what it wants), file (in *)
             (* the queue), choisi or raye (out of it), servi or averti     *)
             (* (it was told), parti                                        *)
  voeu,      (* per stream: the mode and the side it asked for              *)
  avant,     (* the pairs of waiting streams, the earlier one first         *)
  salon,     (* per stream: the session it plays in, named by its host      *)
  inscrits   (* per session: the players its consoles are shown             *)

fileVars == <<etat, voeu, avant, salon, inscrits>>

(* The queue.                                                               *)
EnAttente == {f \in Flux : etat[f] = "file"}

(* f and g wait for the same places.                                        *)
Rivaux(f, g) ==
  /\ voeu[f].mode = voeu[g].mode
  /\ voeu[f].mode \in Opposes => voeu[f].camp = voeu[g].camp

(* Out of the streams W, queued in the order o, those of P may leave for    *)
(* the sessions hote names: each is full, of distinct players who asked for *)
(* its mode, has its host in it, and passes over nobody who was there first *)
(* and whom it does not seat through another of his streams.                *)
Convient(W, o, P, hote) ==
  \A f \in P :
    LET T == {g \in P : hote[g] = hote[f]}
    IN  /\ hote[f] \in T
        /\ Cardinality(T) = Places[voeu[f].mode]
        /\ \A g \in T : /\ voeu[g].mode = voeu[f].mode
                        /\ JoueurDe[g] = JoueurDe[f] => g = f
        /\ \A g \in W \ P : Rivaux(f, g) =>
             <<f, g>> \in o \/ \E x \in T : JoueurDe[x] = JoueurDe[g]

(* They do: the others wait in the order they were in, each session is named *)
(* by its host, and its consoles are shown its players.                      *)
Sortir(W, o, P, hote) ==
  /\ etat' = [f \in Flux |-> IF f \in P THEN "choisi" ELSE IF f \in W THEN "file" ELSE etat[f]]
  /\ avant' = o \cap ((W \ P) \X (W \ P))
  /\ salon' = [f \in Flux |-> IF f \in P THEN hote[f] ELSE salon[f]]
  /\ inscrits' = [h \in Flux |-> IF h \in P /\ hote[h] = h
                                 THEN {JoueurDe[f] : f \in {g \in P : hote[g] = h}}
                                 ELSE inscrits[h]]

(* Any number of complete sessions leave the streams W.                     *)
Servir(W, o) ==
  \E P \in SUBSET W : \E hote \in [P -> P] :
    Convient(W, o, P, hote) /\ Sortir(W, o, P, hote)

(* Nobody has asked for anything.                                           *)
Init ==
  /\ etat = [f \in Flux |-> "libre"]
  /\ voeu = [f \in Flux |-> Rien]
  /\ avant = {}
  /\ salon = [f \in Flux |-> Rien]
  /\ inscrits = [f \in Flux |-> {}]

(* The stream says what it wants to play; it is not in the queue yet.       *)
Demander(f) ==
  /\ etat[f] = "libre"
  /\ etat' = [etat EXCEPT ![f] = "dehors"]
  /\ \E m \in Modes, c \in Camps : voeu' = [voeu EXCEPT ![f] = [mode |-> m, camp |-> c]]
  /\ UNCHANGED <<avant, salon, inscrits>>

(* The stream is the last of the queue; it may complete a session.          *)
Entrer(f) ==
  /\ etat[f] = "dehors"
  /\ Servir(EnAttente \cup {f}, avant \cup (EnAttente \X {f}))
  /\ UNCHANGED voeu

(* Sessions that something else made possible.                              *)
Reexaminer ==
  /\ Servir(EnAttente, avant)
  /\ UNCHANGED voeu

(* Streams of one player are taken off the queue at his request.            *)
Rayer(j) ==
  \E S \in SUBSET {f \in EnAttente : JoueurDe[f] = j} :
    /\ etat' = [f \in Flux |-> IF f \in S THEN "raye" ELSE etat[f]]
    /\ avant' = avant \cap ((EnAttente \ S) \X (EnAttente \ S))
    /\ UNCHANGED <<voeu, salon, inscrits>>

(* The stream tells its console what became of it: only what did.           *)
Dire(f) ==
  /\ etat[f] \in {"choisi", "raye"}
  /\ etat' = [etat EXCEPT ![f] = IF etat[f] = "choisi" THEN "servi" ELSE "averti"]
  /\ UNCHANGED <<voeu, avant, salon, inscrits>>

(* The client left, at whatever moment.                                     *)
Partir(f) ==
  /\ etat[f] \in {"dehors", "file", "choisi", "raye", "servi"}
  /\ etat' = [etat EXCEPT ![f] = "parti"]
  /\ avant' = avant \cap ((EnAttente \ {f}) \X (EnAttente \ {f}))
  /\ UNCHANGED <<voeu, salon, inscrits>>

(* A player leaves the session he was seated in: never before he was told,  *)
(* unless his stream is gone.                                               *)
Quitter(f) ==
  /\ etat[f] \in {"servi", "parti"}
  /\ salon[f] # Rien
  /\ inscrits' = [inscrits EXCEPT ![salon[f]] = @ \ {JoueurDe[f]}]
  /\ UNCHANGED <<etat, voeu, avant, salon>>

Next ==
  \/ Reexaminer
  \/ \E f \in Flux : Demander(f) \/ Entrer(f) \/ Dire(f) \/ Partir(f) \/ Quitter(f)
  \/ \E j \in Joueurs : Rayer(j)

Spec == Init /\ [][Next]_fileVars
=============================================================================
