----------------------------- MODULE Matchmaker -----------------------------
(***************************************************************************)
(* The public matchmaking queue: type matchmakerServer in                  *)
(* src/matchmaking.go, with src/fest_equipes.go (FestTeams).               *)
(*                                                                         *)
(* A console creates a ticket, then follows it on a server stream.  Each   *)
(* stream works on its own copy of the ticket, parks it in the shared pool *)
(* m.waiting after two timed heartbeats, and waits on its private channel. *)
(* Whoever completes a roster, under m.mu, builds the session and feeds    *)
(* every channel.  One action below is one critical section of m.mu, or    *)
(* one step of a stream between two blocking calls.                        *)
(*                                                                         *)
(* A waiter, a mmWaiter, is named by the stream that parked it.  A formed   *)
(* session, whose name is a fresh uuid, is named by its first player.      *)
(***************************************************************************)
EXTENDS Integers, FiniteSets, FestTeams

CONSTANTS Joueurs,         (* players: the uid of the signed caller          *)
          Tickets,         (* ticket ids (uuid4), each created once          *)
          Auteur,          (* ... the player whose call creates it           *)
          Voulus,          (* ... and the configurations the call may name   *)
          Flux,            (* TrackMatchmakingTicket streams, each used once *)
          TicketDe,        (* ... and the ticket it follows                  *)
          Configs,         (* matchmaking configurations (modes)             *)
          ConfigParDefaut, (* regular_match_config                           *)
          SansConfig,      (* the call named no configuration                *)
          Capacite,        (* s3RoomCapacity of each configuration           *)
          FilesDeFete,     (* configurations whose name contains "fest"      *)
          Tricolores,      (* ... and "tricolor"                             *)
          CampDe,          (* the camp each player's console declares        *)
          Melanges,        (* the values flag "festmelange" takes            *)
          Defenseurs,      (* the defending camps a festival may have        *)
          Instant,         (* NPLN_MATCH_MODE = "instant"                    *)
          Rien

ASSUME MatchmakerAssumption ==
  /\ IsFiniteSet(Flux)
  /\ Auteur \in [Tickets -> Joueurs]
  /\ TicketDe \in [Flux -> Tickets]
  /\ ConfigParDefaut \in Configs \ FilesDeFete
  /\ SansConfig \notin Configs
  /\ Voulus \in [Tickets -> SUBSET (Configs \cup {SansConfig})]
  /\ Capacite \in [Configs -> Nat \ {0, 1}]
  /\ FilesDeFete \subseteq Configs /\ Tricolores \subseteq FilesDeFete
  /\ \A c \in FilesDeFete : Capacite[c] % 4 = 0 \/ (c \notin Tricolores /\ Capacite[c] % 2 = 0)
  /\ CampDe \in [Joueurs -> Camps \cup {SansCamp}]
  /\ Melanges \subseteq BOOLEAN /\ Melanges # {}
  /\ Defenseurs \subseteq Camps
  /\ Instant \in BOOLEAN
  /\ Rien \notin Flux \cup Joueurs \cup Tickets \cup Configs \cup Camps \cup {SansCamp}

VARIABLES
  demande,      (* per ticket: its MatchmakingConfig, Rien before the call *)
  tickets,      (* the keys of m.tickets                                  *)
  suivi,        (* per stream: its own copy of the ticket it follows      *)
  phase,        (* per stream: where TrackMatchmakingTicket stands        *)
  present,      (* per stream: it is open and its client still there      *)
  waiting,      (* the waiters in m.waiting                               *)
  rang,         (* how many waiters were ever appended to m.waiting        *)
  arrivee,      (* per waiter in the pool: its place in the order of arrival *)
  out,          (* per waiter: its channel, of capacity one               *)
  partie,       (* per stream: the session its ticket was matched into    *)
  creneau,      (* per stream: the team slot written in its token         *)
  participants, (* participantsParGsid, per session                       *)
  melange,      (* hot flag "festmelange"                                 *)
  defenseur     (* campDefenseur of the running festival, or Rien         *)

tvars == <<demande, tickets>>
pvars == <<waiting, rang, arrivee, out, partie, creneau, participants>>
evars == <<melange, defenseur>>
vars  == <<tvars, suivi, phase, present, pvars, evars>>

-----------------------------------------------------------------------------
(* Types. *)

Suivi == [cfg : Configs, camp : Camps \cup {SansCamp}, connu : BOOLEAN]

(* The player behind a stream: uidFromCtx of its signed caller.            *)
Joueur(f) == Auteur[TicketDe[f]]

Phases == {"libre", "battement", "recherche", "placement", "attente",
           "retenu", "conclu", "annule", "ferme"}

Messages == {"vide", "SUCCEEDED", "CANCELLED"}

TypeOK ==
  /\ demande \in [Tickets -> Configs \cup {Rien}]
  /\ tickets \subseteq Tickets
  /\ suivi \in [Flux -> Suivi \cup {Rien}]
  /\ phase \in [Flux -> Phases]
  /\ present \in [Flux -> BOOLEAN]
  /\ waiting \subseteq Flux
  /\ rang \in Nat
  /\ arrivee \in [Flux -> Nat]
  /\ out \in [Flux -> Messages]
  /\ partie \in [Flux -> Flux \cup {Rien}]
  /\ creneau \in [Flux -> Creneaux]
  /\ participants \in [Flux -> SUBSET Joueurs]
  /\ melange \in BOOLEAN
  /\ defenseur \in Camps \cup {Rien}

-----------------------------------------------------------------------------
(* The pool.  W is the set of waiters, a their order of arrival.           *)

EnFile(W, c) == {f \in W : suivi[f].cfg = c}

(* Fault: a player is counted once per ticket.                              *)
DistinctsParTicket(W, a, c) == EnFile(W, c)

(* waitersForConfigLocked: at most one waiter per player, the earliest.    *)
Distincts(W, a, c) ==
  {f \in EnFile(W, c) :
     \A g \in EnFile(W, c) : Joueur(g) = Joueur(f) => a[f] <= a[g]}

CampsDe(D) == [f \in D |-> suivi[f].camp]

(* Fault: one player more than the capacity is waited for.                  *)
CompositionsTardives(W, a, c) ==
  LET D == Distincts(W, a, c)
  IN  IF Cardinality(D) <= Capacite[c] THEN {}
      ELSE {[f \in T |-> "aucun"] : T \in Tetes(D, a, Capacite[c])}

(* Fault: a festival queue that cannot be split is served like any other.   *)
CompositionsMelees(W, a, c) ==
  LET D == Distincts(W, a, c)
      camps == RepartirParCamp(D, CampsDe(D), a, Capacite[c])
  IN  IF Cardinality(D) < Capacite[c] THEN {}
      ELSE IF camps # {} /\ ~melange THEN camps
      ELSE {[f \in T |-> "aucun"] : T \in Tetes(D, a, Capacite[c])}

(* formMatchLocked up to the roster: who plays, and in which slot.  Nothing *)
(* while the queue is short, nor for a festival while the flag is on.       *)
Compositions(W, a, c) ==
  LET D == Distincts(W, a, c)
      n == Capacite[c]
      choix == IF c \notin FilesDeFete
               THEN {[f \in T |-> "aucun"] : T \in Tetes(D, a, n)}
               ELSE IF c \in Tricolores
                    THEN RepartirTricolore(D, CampsDe(D), a, n, defenseur)
                    ELSE RepartirParCamp(D, CampsDe(D), a, n)
  IN  {e \in choix : Cardinality(D) >= n /\ (c \in FilesDeFete => ~melange)}

Prets(W, a, C) ==
  {CHOOSE e \in Compositions(W, a, c) : TRUE :
     c \in {d \in C : Compositions(W, a, d) # {}}}

(* players[0]: it names the session and hosts it.                          *)
Hote(e, a) ==
  CHOOSE f \in DOMAIN e :
    /\ e[f] \in {"aucun", "team1"}
    /\ \A g \in DOMAIN e : e[g] \in {"aucun", "team1"} => a[f] <= a[g]

(* Fault: the entry itself is dropped.                                      *)
OublierLaCle(a, S) == [f \in Flux \ S |-> a[f]]

Oublier(a, S) == [f \in Flux |-> IF f \in S THEN 0 ELSE a[f]]

(* formMatchLocked for the rosters of E: the sessions, the registry, the    *)
(* channels, and the pool without the players served.                       *)
Former(W, a, E) ==
  LET servis == UNION {DOMAIN e : e \in E}
      sien == [f \in servis |-> CHOOSE e \in E : f \in DOMAIN e]
  IN  /\ waiting' = W \ servis
      /\ arrivee' = Oublier(a, servis)
      /\ out' = [f \in Flux |-> IF f \in servis /\ out[f] = "vide"
                                THEN "SUCCEEDED" ELSE out[f]]
      /\ partie' = [f \in Flux |-> IF f \in servis THEN Hote(sien[f], a) ELSE partie[f]]
      /\ creneau' = [f \in Flux |-> IF f \in servis THEN sien[f][f] ELSE creneau[f]]
      /\ participants' =
           [h \in Flux |-> IF h \in servis /\ Hote(sien[h], a) = h
                           THEN {Joueur(f) : f \in DOMAIN sien[h]}
                           ELSE participants[h]]

(* The stream is matched; the streams of a session.                         *)
Servi(f) == partie[f] # Rien
Salon(h) == {f \in Flux : partie[f] = h}

(* The stream told its console the match, or ended.                         *)
Informe(f) == phase[f] \in {"conclu", "ferme"}

-----------------------------------------------------------------------------
Init ==
  /\ demande = [t \in Tickets |-> Rien]
  /\ tickets = {}
  /\ suivi = [f \in Flux |-> Rien]
  /\ phase = [f \in Flux |-> "libre"]
  /\ present = [f \in Flux |-> FALSE]
  /\ waiting = {}
  /\ rang = 0
  /\ arrivee = [f \in Flux |-> 0]
  /\ out = [f \in Flux |-> "vide"]
  /\ partie = [f \in Flux |-> Rien]
  /\ creneau = [f \in Flux |-> "aucun"]
  /\ participants = [f \in Flux |-> {}]
  /\ melange \in Melanges
  /\ defenseur = Rien

(* CreateMatchmakingTicket: an empty configuration becomes the default one. *)
CreateMatchmakingTicket(t, c) ==
  /\ demande[t] = Rien
  /\ c \in Voulus[t]
  /\ demande' = [demande EXCEPT ![t] = IF c = SansConfig THEN ConfigParDefaut ELSE c]
  /\ tickets' = tickets \cup {t}
  /\ UNCHANGED <<suivi, phase, present, pvars, evars>>

(* The stream opens: it copies the stored ticket, or makes up a ticket for  *)
(* the default configuration when the id is unknown, and sends SEARCHING.   *)
(* Outside the "instant" mode it then only sends heartbeats.                *)
Track(f) ==
  LET t == TicketDe[f]
      connu == t \in tickets
  IN  /\ phase[f] = "libre"
      /\ demande[t] # Rien
      /\ suivi' = [suivi EXCEPT ![f] =
           [cfg  |-> IF connu THEN demande[t] ELSE ConfigParDefaut,
            camp |-> IF connu THEN CampDe[Auteur[t]] ELSE SansCamp,
            connu |-> connu]]
      /\ phase' = [phase EXCEPT ![f] = IF Instant THEN "recherche" ELSE "battement"]
      /\ present' = [present EXCEPT ![f] = TRUE]
      /\ UNCHANGED <<tvars, pvars, evars>>

(* One second later the stream sends PLACING; a send to a client that left  *)
(* ends the stream.                                                         *)
Placement(f) ==
  /\ phase[f] = "recherche"
  /\ phase' = [phase EXCEPT ![f] = IF present[f] THEN "placement" ELSE "ferme"]
  /\ UNCHANGED <<tvars, suivi, present, pvars, evars>>

(* Another second later, whatever became of the ticket or of the client     *)
(* meanwhile, the stream parks its waiter, and forms the match if its queue *)
(* is now full.                                                             *)
Enqueue(f) ==
  /\ phase[f] = "placement"
  /\ phase' = [phase EXCEPT ![f] = "attente"]
  /\ rang' = rang + 1
  /\ \E W \in {waiting \cup {f}}, a \in {[arrivee EXCEPT ![f] = rang']} :
       \E E \in {Prets(W, a, {suivi[f].cfg})} : Former(W, a, E)
  /\ UNCHANGED <<tvars, suivi, present, evars>>

(* Fault: the ticker skips the festival queues.                             *)
RevisionSansFete(f) ==
  /\ phase[f] = "attente"
  /\ \E E \in {Prets(waiting, arrivee, Configs \ FilesDeFete)} :
       E # {} /\ Former(waiting, arrivee, E)
  /\ UNCHANGED <<rang, tvars, suivi, phase, present, evars>>

(* revision.C: every two seconds each parked stream re-examines all queues, *)
(* and forms one session in each that can.                                  *)
Revision(f) ==
  /\ phase[f] = "attente"
  /\ \E E \in {Prets(waiting, arrivee, Configs)} : E # {} /\ Former(waiting, arrivee, E)
  /\ UNCHANGED <<rang, tvars, suivi, phase, present, evars>>

(* <-w.out with a cancelled ticket: it is returned and the stream ends.     *)
Conclude(f) ==
  /\ phase[f] = "attente"
  /\ out[f] = "CANCELLED"
  /\ out' = [out EXCEPT ![f] = "vide"]
  /\ phase' = [phase EXCEPT ![f] = "annule"]
  /\ present' = [present EXCEPT ![f] = FALSE]
  /\ UNCHANGED <<tvars, suivi, waiting, rang, arrivee, partie, creneau, participants, evars>>

(* <-w.out with a match: it is held for the minimum search duration.        *)
Receive(f) ==
  /\ phase[f] = "attente"
  /\ out[f] = "SUCCEEDED"
  /\ out' = [out EXCEPT ![f] = "vide"]
  /\ phase' = [phase EXCEPT ![f] = "retenu"]
  /\ UNCHANGED <<tvars, suivi, present, waiting, rang, arrivee, partie, creneau, participants, evars>>

(* SUCCEEDED is sent and the stream held open, unless the client left.      *)
Announce(f) ==
  /\ phase[f] = "retenu"
  /\ phase' = [phase EXCEPT ![f] = IF present[f] THEN "conclu" ELSE "ferme"]
  /\ UNCHANGED <<tvars, suivi, present, pvars, evars>>

(* The client lets the stream go: its context is done.                      *)
Hangup(f) ==
  /\ present[f]
  /\ present' = [present EXCEPT ![f] = FALSE]
  /\ UNCHANGED <<tvars, suivi, phase, pvars, evars>>

(* Fault: the waiter of a departed client stays in the pool.                *)
WithdrawSansRetirer(f) ==
  /\ phase[f] = "attente"
  /\ ~present[f]
  /\ phase' = [phase EXCEPT ![f] = "ferme"]
  /\ UNCHANGED <<tvars, suivi, present, pvars, evars>>

(* <-ctx.Done() while parked: the waiter leaves the pool.                   *)
Withdraw(f) ==
  /\ phase[f] = "attente"
  /\ ~present[f]
  /\ waiting' = waiting \ {f}
  /\ arrivee' = Oublier(arrivee, {f})
  /\ phase' = [phase EXCEPT ![f] = "ferme"]
  /\ UNCHANGED <<tvars, suivi, present, rang, out, partie, creneau, participants, evars>>

(* <-ctx.Done() in a stream with nothing left to say.                       *)
Release(f) ==
  /\ phase[f] \in {"conclu", "battement"}
  /\ ~present[f]
  /\ phase' = [phase EXCEPT ![f] = "ferme"]
  /\ UNCHANGED <<tvars, suivi, present, pvars, evars>>

(* Fault: the streams of the ticket are not told.                           *)
CancelEnSilence(t) ==
  LET annules == {f \in waiting : TicketDe[f] = t}
  IN  /\ demande[t] # Rien
      /\ tickets' = tickets \ {t}
      /\ waiting' = waiting \ annules
      /\ arrivee' = Oublier(arrivee, annules)
      /\ UNCHANGED <<demande, suivi, phase, present, rang, out, partie, creneau,
                     participants, evars>>

(* CancelMatchmakingTicket: the ticket is forgotten, its waiters leave the  *)
(* pool and their streams are told.                                         *)
CancelMatchmakingTicket(t) ==
  LET annules == {f \in waiting : TicketDe[f] = t}
  IN  /\ demande[t] # Rien
      /\ tickets' = tickets \ {t}
      /\ waiting' = waiting \ annules
      /\ arrivee' = Oublier(arrivee, annules)
      /\ out' = [f \in Flux |-> IF f \in annules /\ out[f] = "vide"
                                THEN "CANCELLED" ELSE out[f]]
      /\ UNCHANGED <<demande, suivi, phase, present, rang, partie, creneau,
                     participants, evars>>

(* oublierSession: the user session of a player who was told is over, and   *)
(* he is struck off the list of the session he was matched into.            *)
oublierParticipant(f) ==
  /\ Servi(f)
  /\ Informe(f)
  /\ Joueur(f) \in participants[partie[f]]
  /\ participants' = [participants EXCEPT ![partie[f]] = @ \ {Joueur(f)}]
  /\ UNCHANGED <<tvars, suivi, phase, present, waiting, rang, arrivee, out, partie, creneau, evars>>

(* The operator flips the hot flag.                                         *)
FlipFlag ==
  /\ melange' \in Melanges \ {melange}
  /\ UNCHANGED <<tvars, suivi, phase, present, pvars, defenseur>>

(* The intermediate result of the festival is frozen, or a new one begins.  *)
FestivalMoves ==
  /\ defenseur' \in IF defenseur = Rien THEN Defenseurs ELSE {Rien}
  /\ UNCHANGED <<tvars, suivi, phase, present, pvars, melange>>

Serveur(f) ==
  \/ Placement(f) \/ Enqueue(f) \/ Revision(f) \/ Conclude(f)
  \/ Receive(f) \/ Announce(f) \/ Withdraw(f) \/ Release(f)

Client ==
  \/ \E t \in Tickets, c \in Configs \cup {SansConfig} : CreateMatchmakingTicket(t, c)
  \/ \E f \in Flux : Track(f)
  \/ \E f \in Flux : Hangup(f)
  \/ \E t \in Tickets : CancelMatchmakingTicket(t)

Next ==
  \/ Client
  \/ \E f \in Flux : Serveur(f)
  \/ \E f \in Flux : oublierParticipant(f)
  \/ FlipFlag
  \/ FestivalMoves

Spec == Init /\ [][Next]_vars

(* A stream whose timer fires or whose channel is ready runs: the scheduler *)
(* of goroutines.  Consoles, operator and festival owe nothing.             *)
Equite == \A f \in Flux : WF_vars(Serveur(f))

FairSpec == Spec /\ Equite

-----------------------------------------------------------------------------
(* Properties. *)

(* A waiter is in the pool exactly while its stream is parked with nothing  *)
(* to read: no ghost of an ended, cancelled or matched stream can poison    *)
(* the next roster, and no parked stream is left out of the pool with       *)
(* nothing coming (m.waiting against mmWaiter.out and the stream's select). *)
PoolMatchesStreams ==
  \A f \in Flux : f \in waiting <=>
    phase[f] = "attente" /\ out[f] = "vide" /\ ~Servi(f)

(* Never a partial session announced as full (formMatchLocked): every       *)
(* session has exactly the capacity of its mode, in distinct players who    *)
(* all wait for that mode, and the registry the consoles read as their      *)
(* roster lists none but them: all of them, except those whose stream told  *)
(* them or ended, who may have been to the session and left it.             *)
FullRoster ==
  \A h \in Flux : Salon(h) # {} =>
    /\ Cardinality(Salon(h)) = Capacite[suivi[h].cfg]
    /\ \A f \in Salon(h) : suivi[f].cfg = suivi[h].cfg
    /\ \A f, g \in Salon(h) : Joueur(f) = Joueur(g) => f = g
    /\ participants[h] \subseteq {Joueur(f) : f \in Salon(h)}
    /\ \A f \in Salon(h) : ~Informe(f) => Joueur(f) \in participants[h]

(* Outside the festival queues a complete roster never sits in the pool:    *)
(* whatever arrives, leaves, or is cancelled, each queue stays one player   *)
(* short (the check of TrackMatchmakingTicket as it enqueues).              *)
NoRosterLeftWaiting ==
  \A c \in Configs \ FilesDeFete :
    Cardinality({Joueur(f) : f \in EnFile(waiting, c)}) < Capacite[c]

(* Two slots of a festival session never share a camp, a slot never mixes   *)
(* two, and the slots have the sizes of the mode: half and half, or one     *)
(* half against two quarters (repartirParCamp, repartirTricolore).          *)
CampsFaceEachOther ==
  \A h \in Flux : Salon(h) # {} /\ suivi[h].cfg \in FilesDeFete =>
    LET n == Capacite[suivi[h].cfg]
        taille(s) == Cardinality({f \in Salon(h) : creneau[f] = s})
    IN  /\ \A f, g \in Salon(h) : creneau[f] = creneau[g] <=> suivi[f].camp = suivi[g].camp
        /\ \A f \in Salon(h) : suivi[f].camp # SansCamp
        /\ taille("team1") = n \div 2
        /\ IF suivi[h].cfg \in Tricolores
           THEN taille("team2") = n \div 4 /\ taille("team3") = n \div 4
           ELSE taille("team2") = n \div 2

(* First come, first served: within a queue and a camp nobody is matched    *)
(* past a player who arrived before him and stays in the pool (the slices   *)
(* players[:seuil] and parCamp[c][:n] of a queue kept in order of arrival). *)
NoOvertaking ==
  [][\A f, g \in Flux :
       /\ ~Servi(f) /\ (partie[f] # Rien)'
       /\ g \in waiting /\ g \in waiting'
       /\ suivi[f].cfg = suivi[g].cfg /\ suivi[f].camp = suivi[g].camp
       => \/ f \in waiting /\ arrivee[f] < arrivee[g]
          \/ \E x \in Flux : partie'[x] = partie'[f] /\ Joueur(x) = Joueur(g)]_vars

(* A ticket is matched once: its session and slot never change afterwards,  *)
(* and no later formation adds anybody to the list of its session, which    *)
(* only loses those who left it (served waiters are removed before m.mu is  *)
(* released; oublierParticipant).                                           *)
MatchedOnce ==
  [][\A f \in Flux : Servi(f) =>
       /\ partie'[f] = partie[f] /\ creneau'[f] = creneau[f]
       /\ participants'[partie[f]] \subseteq participants[partie[f]]]_vars

(* What the console of each stream knows, whatever its goroutine is at: who  *)
(* it is, where it stands, what it asked for, and who came before whom.      *)
Identites == [f \in Flux |-> Joueur(f)]

Etapes ==
  [f \in Flux |->
     CASE phase[f] = "libre" -> "libre"
       [] phase[f] \in {"battement", "recherche", "placement"} -> "dehors"
       [] phase[f] = "attente" -> IF f \in waiting THEN "file"
                                  ELSE IF Servi(f) THEN "choisi" ELSE "raye"
       [] phase[f] = "retenu" -> "choisi"
       [] phase[f] = "conclu" -> "servi"
       [] phase[f] = "annule" -> "averti"
       [] OTHER -> "parti"]

Souhaits ==
  [f \in Flux |-> IF phase[f] = "libre" THEN Rien
                  ELSE [mode |-> suivi[f].cfg, camp |-> suivi[f].camp]]

Rangs(W, a) == {p \in W \X W : a[p[1]] < a[p[2]]}

(* The tickets, the copies of the streams, their timers and channels, the    *)
(* pool and the splits of the festival amount to queues that streams enter   *)
(* in order, that only complete sessions of distinct players leave, past     *)
(* nobody who was there first, whose lists are exact and lose a player only  *)
(* once his stream told him or ended, and whose verdicts are final and told  *)
(* as they are (matchmakerServer, oublierParticipant).                       *)
Promesse == INSTANCE MatchQueue WITH
  JoueurDe <- Identites,
  Modes    <- Configs,
  Places   <- Capacite,
  Camps    <- Camps \cup {SansCamp},
  Opposes  <- FilesDeFete,
  etat     <- Etapes,
  voeu     <- Souhaits,
  avant    <- Rangs(waiting, arrivee),
  salon    <- partie,
  inscrits <- participants
ServesInOrder == Promesse!Spec

(* A parked stream that left the pool, matched or cancelled, concludes: the  *)
(* console never waits on a decided ticket (the comment of                   *)
(* CancelMatchmakingTicket describes the game stuck on such a stream).       *)
DecisionDelivered ==
  \A f \in Flux : phase[f] = "attente" /\ f \notin waiting
                   ~> phase[f] \in {"conclu", "annule", "ferme"}

(* In a festival queue a roster that can be composed does not stay there:   *)
(* a revision of some parked stream forms it, or it stops being possible    *)
(* (the ticker of TrackMatchmakingTicket, needed when the festival moves).  *)
RosterEventuallyFormed ==
  \A c \in Configs : (Compositions(waiting, arrivee, c) # {}) ~>
                     (Compositions(waiting, arrivee, c) = {})

-----------------------------------------------------------------------------
(* The inductive invariant of MatchmakerProofs: what the properties above    *)
(* need, and do not say, of the pool and of the sessions.                    *)

SuiviOuvert == \A f \in Flux : phase[f] # "libre" => suivi[f] \in Suivi

(* m.waiting is a list: the places are distinct, and a new one is the last.  *)
OrdreDArrivee ==
  /\ \A f \in waiting : arrivee[f] <= rang
  /\ \A f, g \in waiting : arrivee[f] = arrivee[g] => f = g

(* A session is named by one of its own players.                             *)
HoteParmiLesSiens == \A h \in Flux : Salon(h) # {} => h \in Salon(h)

(* A session is only of a stream that was parked; a channel is only fed when *)
(* its stream leaves the pool, with the decision that made it leave.         *)
DejaEnFile ==
  \A f \in Flux :
    /\ Servi(f) => phase[f] \in {"attente", "retenu", "conclu", "ferme"}
    /\ out[f] # "vide" => phase[f] \in {"attente", "ferme"}
    /\ out[f] = "CANCELLED" => ~Servi(f)
    /\ out[f] = "SUCCEEDED" => Servi(f)

(* The console of a festival declares the camp of its player.               *)
CampConnu ==
  \A f \in Flux : phase[f] # "libre" /\ suivi[f].cfg \in FilesDeFete
                   => suivi[f].camp = CampDe[Joueur(f)]

IInv ==
  /\ TypeOK /\ SuiviOuvert /\ OrdreDArrivee /\ HoteParmiLesSiens /\ DejaEnFile
  /\ PoolMatchesStreams /\ FullRoster /\ CampsFaceEachOther

-----------------------------------------------------------------------------
(* What comments of the source say, and the code does not do.                *)

(* A cancelled ticket is not matched: the comment of CancelMatchmakingTicket *)
(* reports one matched 37 s after its cancellation as the fault it repairs.  *)
(* A stream of that ticket that is still in its two timed heartbeats is not  *)
(* in m.waiting yet, and is parked and matched all the same.                 *)
CancelledNeverMatched ==
  [][\A f \in Flux : ~Servi(f) /\ (partie[f] # Rien)' /\ suivi[f].connu
                     => TicketDe[f] \in tickets]_vars

(* The cancellation did not come between the opening of a stream and its     *)
(* place in the queue: the case that CancelMatchmakingTicket does not see.   *)
PassagesVoulus ==
  \A f \in Flux : phase[f] \in {"recherche", "placement"} /\ suivi[f].connu
                   => TicketDe[f] \in tickets

(* The pool only holds streams of tickets that are still wanted.             *)
AttenteVoulue ==
  \A f \in waiting : suivi[f].connu => TicketDe[f] \in tickets
=============================================================================
