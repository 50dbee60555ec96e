----------------------------- MODULE GameRooms -----------------------------
(***************************************************************************)
(* Private rooms and the user sessions that connect to them: the           *)
(* GameSessionService of src/matchmaking.go (rooms, aliases, the list of   *)
(* participants) and the registry of src/gamesync.go (IssueToken, the       *)
(* KeepUserSession streams, oublierSession).                               *)
(*                                                                         *)
(* Three locks are involved: g.mu of the rooms, participantsParGsid, and    *)
(* g.mu of gamesync.  A handler lets go of one before it changes what       *)
(* another protects, so every critical section is an action, and the        *)
(* handlers interleave between them.                                        *)
(***************************************************************************)
EXTENDS Integers, FiniteSets

CONSTANTS Joueurs,   (* players (uid)                                        *)
          Parties,   (* rooms (gsid), each created once                      *)
          Uss,       (* user sessions: a uuid4 minted per creation or join    *)
          JoueurDe,  (* ... for this player                                  *)
          PartieDe,  (* ... in this room                                     *)
          HoteDe,    (* the user session minted when a room is created       *)
          Flux,      (* KeepUserSession streams, each used once              *)
          UssDe,     (* ... and the user session whose documents it watches  *)
          MaxJetons, (* bound: IssueToken calls for each user session        *)
          Rien

ASSUME RoomsAssumption ==
  /\ IsFiniteSet(Uss)
  /\ JoueurDe \in [Uss -> Joueurs]
  /\ PartieDe \in [Uss -> Parties]
  /\ HoteDe \in [Parties -> Uss]
  /\ \A g \in Parties : PartieDe[HoteDe[g]] = g
  /\ UssDe \in [Flux -> Uss]
  /\ Uss \cap Flux = {}
  /\ MaxJetons \in [Uss -> Nat]
  /\ Rien \notin Uss \cup Flux
  /\ Rien # {}

VARIABLES
  salon,    (* per room: its entry in g.sessions, with its creation ticket   *)
  aliases,  (* the rooms g.aliases resolves a code to                        *)
  fiche,    (* participantsParGsid, per room: the user sessions listed       *)
  effectif, (* CurrentParticipantCount, per room                             *)
  jonction, (* per user session: how far its JoinGameSession is              *)
  emises,   (* the user sessions whose creation or join was answered         *)
  sess,     (* the keys of gamesyncServer.sess                               *)
  rang,     (* ... and their rang                                            *)
  last,     (* gamesyncServer.last                                           *)
  perimees, (* per user session: what its IssueToken has yet to forget       *)
  radier,   (* per IssueToken and per stream: the session that its           *)
            (* oublierSession has yet to strike off the list of participants *)
  jetons,   (* per user session: how many IssueToken calls were answered     *)
  flux,     (* per stream: where KeepUserSession stands                      *)
  closing,  (* gamesyncServer.closing                                        *)
  wakers    (* gamesyncServer.wakers: the stream whose channel is registered *)

rvars == <<salon, aliases, effectif, jonction>>
ivars == <<emises, perimees, jetons>>
svars == <<sess, rang, last>>
fvars == <<flux, closing, wakers>>
vars  == <<rvars, fiche, ivars, svars, radier, fvars>>

Etapes == {"libre", "ouvert", "perdu", "clos", "muet", "fini"}

TypeOK ==
  /\ salon \in [Parties -> {"a creer", "ouvert", "retire", "annule"}]
  /\ aliases \subseteq Parties
  /\ fiche \in [Parties -> SUBSET Uss]
  /\ effectif \in [Parties -> Nat]
  /\ jonction \in [Uss -> {"non", "lue", "notee", "faite"}]
  /\ emises \subseteq Uss
  /\ sess \subseteq Uss
  /\ rang \in [Uss -> Nat]
  /\ last \in Uss \cup {Rien}
  /\ perimees \in [Uss -> {Rien} \cup SUBSET Uss]
  /\ radier \in [Uss \cup Flux -> Uss \cup {Rien}]
  /\ jetons \in [Uss -> Nat]
  /\ flux \in [Flux -> Etapes]
  /\ closing \subseteq Uss
  /\ wakers \in [Uss -> Flux \cup {Rien}]

Init ==
  /\ salon = [g \in Parties |-> "a creer"]
  /\ aliases = {}
  /\ fiche = [g \in Parties |-> {}]
  /\ effectif = [g \in Parties |-> 0]
  /\ jonction = [u \in Uss |-> "non"]
  /\ emises = {}
  /\ sess = {}
  /\ rang = [u \in Uss |-> 0]
  /\ last = Rien
  /\ perimees = [u \in Uss |-> Rien]
  /\ radier = [x \in Uss \cup Flux |-> Rien]
  /\ jetons = [u \in Uss |-> 0]
  /\ flux = [f \in Flux |-> "libre"]
  /\ closing = {}
  /\ wakers = [u \in Uss |-> Rien]

-----------------------------------------------------------------------------
(* The list of participants of a room.                                     *)

DuJoueur(S, j) == {u \in S : JoueurDe[u] = j}

(* Fault: the list is deduplicated by user session.                         *)
NoterParSession(u) ==
  fiche' = [fiche EXCEPT ![PartieDe[u]] = @ \cup {u}]

(* noterParticipant: a player already listed is replaced.                   *)
noterParticipant(u) ==
  fiche' = [fiche EXCEPT ![PartieDe[u]] = (@ \ DuJoueur(@, JoueurDe[u])) \cup {u}]

(* oublierParticipant strikes the player off, whatever his session there.   *)
oublierParticipant(u) ==
  fiche' = [fiche EXCEPT ![PartieDe[u]] = @ \ DuJoueur(@, JoueurDe[u])]

-----------------------------------------------------------------------------
(* GameSessionService. *)

(* The new name is known to nobody before the answer: one step.             *)
CreateGameSessionCreationTicket(g) ==
  /\ salon[g] = "a creer"
  /\ salon' = [salon EXCEPT ![g] = "ouvert"]
  /\ effectif' = [effectif EXCEPT ![g] = 1]
  /\ emises' = emises \cup {HoteDe[g]}
  /\ noterParticipant(HoteDe[g])
  /\ UNCHANGED <<aliases, jonction, perimees, jetons, svars, radier, fvars>>

(* A console asks for the code of a room it knows the name of; the handler  *)
(* does not look whether the room is still there.                           *)
CreateGameSessionShortAlias(g) ==
  /\ salon[g] # "a creer"
  /\ aliases' = aliases \cup {g}
  /\ UNCHANGED <<salon, effectif, jonction, fiche, ivars, svars, radier, fvars>>

(* CancelGameSessionCreationTicket: ticket, session and codes under g.mu... *)
CancelGameSessionCreationTicket(g) ==
  /\ salon[g] = "ouvert"
  /\ salon' = [salon EXCEPT ![g] = "retire"]
  /\ aliases' = aliases \ {g}
  /\ UNCHANGED <<effectif, jonction, fiche, ivars, svars, radier, fvars>>

(* ... then its list of participants.                                       *)
CancelFinish(g) ==
  /\ salon[g] = "retire"
  /\ salon' = [salon EXCEPT ![g] = "annule"]
  /\ fiche' = [fiche EXCEPT ![g] = {}]
  /\ UNCHANGED <<aliases, effectif, jonction, ivars, svars, radier, fvars>>

(* JoinGameSession finds the room, and lets go of g.mu...                   *)
JoinGameSession(u) ==
  /\ jonction[u] = "non"
  /\ u # HoteDe[PartieDe[u]]
  /\ salon[PartieDe[u]] = "ouvert"
  /\ jonction' = [jonction EXCEPT ![u] = "lue"]
  /\ UNCHANGED <<salon, aliases, effectif, fiche, ivars, svars, radier, fvars>>

(* ... lists the newcomer, without looking at the room again...             *)
JoinNote(u) ==
  /\ jonction[u] = "lue"
  /\ jonction' = [jonction EXCEPT ![u] = "notee"]
  /\ noterParticipant(u)
  /\ UNCHANGED <<salon, aliases, effectif, ivars, svars, radier, fvars>>

(* ... and publishes the length of the list, unless it is empty.            *)
JoinCount(u) ==
  LET gsid == PartieDe[u]
  IN  /\ jonction[u] = "notee"
      /\ jonction' = [jonction EXCEPT ![u] = "faite"]
      /\ effectif' = IF fiche[gsid] = {} THEN effectif
                     ELSE [effectif EXCEPT ![gsid] = Cardinality(fiche[gsid])]
      /\ emises' = emises \cup {u}
      /\ UNCHANGED <<salon, aliases, fiche, perimees, jetons, svars, radier, fvars>>

-----------------------------------------------------------------------------
(* Gamesync. *)

(* Fault: the entry itself is dropped.                                      *)
OublierLaCle(x, u) ==
  /\ sess' = sess \ {u}
  /\ rang' = [v \in DOMAIN rang \ {u} |-> rang[v]]
  /\ last' = IF last = u THEN Rien ELSE last
  /\ radier' = [radier EXCEPT ![x] = IF u \in sess THEN u ELSE Rien]

(* oublierSession by x, an IssueToken or a stream: the session leaves the   *)
(* registry under g.mu, and its player is struck off afterwards.            *)
oublierSession(x, u) ==
  /\ sess' = sess \ {u}
  /\ rang' = [rang EXCEPT ![u] = 0]
  /\ last' = IF last = u THEN Rien ELSE last
  /\ radier' = [radier EXCEPT ![x] = IF u \in sess THEN u ELSE Rien]

Strike(x) ==
  /\ radier[x] # Rien
  /\ radier' = [radier EXCEPT ![x] = Rien]
  /\ oublierParticipant(radier[x])
  /\ UNCHANGED <<rvars, ivars, svars, fvars>>

(* Fault: nobody is superseded.                                             *)
IssueTokenSansPerimer(u) ==
  /\ u \in emises
  /\ perimees[u] = Rien
  /\ jetons[u] < MaxJetons[u]
  /\ perimees' = [perimees EXCEPT ![u] = {}]
  /\ UNCHANGED <<rvars, fiche, emises, jetons, svars, radier, fvars>>

(* IssueToken lists the other sessions of the player...                     *)
IssueToken(u) ==
  /\ u \in emises
  /\ perimees[u] = Rien
  /\ jetons[u] < MaxJetons[u]
  /\ perimees' = [perimees EXCEPT ![u] = DuJoueur(sess \ {u}, JoueurDe[u])]
  /\ UNCHANGED <<rvars, fiche, emises, jetons, svars, radier, fvars>>

(* ... forgets them one by one...                                           *)
IssueForget(u) ==
  /\ perimees[u] # Rien
  /\ radier[u] = Rien
  /\ \E v \in perimees[u] :
       /\ perimees' = [perimees EXCEPT ![u] = @ \ {v}]
       /\ oublierSession(u, v)
  /\ UNCHANGED <<rvars, fiche, emises, jetons, fvars>>

RangsDe(g) == {rang[v] : v \in {w \in sess : PartieDe[w] = g}}

(* Fault: the rank is the number of sessions in the room, plus one.         *)
RangParEffectif(u) ==
  IF u \in sess THEN {rang[u]}
  ELSE {Cardinality({v \in sess : PartieDe[v] = PartieDe[u]}) + 1}

(* The rank of a session in its room: its own when it reconnects, otherwise *)
(* one more than the greatest.                                              *)
RangDe(u) ==
  LET R == RangsDe(PartieDe[u]) \cup {0}
  IN  IF u \in sess THEN {rang[u]} ELSE {r + 1 : r \in {s \in R : \A t \in R : t <= s}}

(* ... and registers its own, under g.mu.                                   *)
IssueRegister(u) ==
  /\ perimees[u] = {}
  /\ radier[u] = Rien
  /\ perimees' = [perimees EXCEPT ![u] = Rien]
  /\ jetons' = [jetons EXCEPT ![u] = @ + 1]
  /\ sess' = sess \cup {u}
  /\ \E r \in RangDe(u) : rang' = [rang EXCEPT ![u] = r]
  /\ last' = u
  /\ UNCHANGED <<rvars, fiche, emises, radier, fvars>>

(* KeepUserSession opens and its first target names the user session: the   *)
(* session is active again, and woken through this stream from now on.      *)
KeepUserSession(f) ==
  LET u == UssDe[f]
  IN  /\ flux[f] = "libre"
      /\ jetons[u] > 0
      /\ flux' = [flux EXCEPT ![f] = "ouvert"]
      /\ closing' = closing \ {u}
      /\ wakers' = [wakers EXCEPT ![u] = f]
      /\ UNCHANGED <<rvars, fiche, ivars, svars, radier>>

(* The client goes, or is lost: Recv returns.                               *)
StreamEnds(f) ==
  /\ flux[f] = "ouvert"
  /\ flux' = [flux EXCEPT ![f] = "perdu"]
  /\ UNCHANGED <<rvars, fiche, ivars, svars, radier, closing, wakers>>

(* The deferred function: the session is closing...                         *)
setStreamClosed(f) ==
  /\ flux[f] = "perdu"
  /\ flux' = [flux EXCEPT ![f] = "clos"]
  /\ closing' = closing \cup {UssDe[f]}
  /\ UNCHANGED <<rvars, fiche, ivars, svars, radier, wakers>>

(* Fault: the channel of a stream that took over is dropped too.            *)
DropWakerAveugle(f) ==
  /\ flux[f] = "clos"
  /\ flux' = [flux EXCEPT ![f] = "muet"]
  /\ wakers' = [wakers EXCEPT ![UssDe[f]] = Rien]
  /\ UNCHANGED <<rvars, fiche, ivars, svars, radier, closing>>

(* ... its channel is dropped, unless another stream took over...           *)
DropWaker(f) ==
  LET u == UssDe[f]
  IN  /\ flux[f] = "clos"
      /\ flux' = [flux EXCEPT ![f] = "muet"]
      /\ wakers' = [wakers EXCEPT ![u] = IF @ = f THEN Rien ELSE @]
      /\ UNCHANGED <<rvars, fiche, ivars, svars, radier, closing>>

(* Fault: the session is only flagged.                                      *)
StreamSansOubli(f) ==
  /\ flux[f] = "muet"
  /\ flux' = [flux EXCEPT ![f] = "fini"]
  /\ UNCHANGED <<rvars, fiche, ivars, svars, radier, closing, wakers>>

(* ... and the session is forgotten, whether or not another stream took     *)
(* over.                                                                    *)
StreamForgets(f) ==
  /\ flux[f] = "muet"
  /\ flux' = [flux EXCEPT ![f] = "fini"]
  /\ oublierSession(f, UssDe[f])
  /\ UNCHANGED <<rvars, fiche, ivars, closing, wakers>>

Salons ==
  \/ \E g \in Parties : \/ CreateGameSessionCreationTicket(g)
                        \/ CreateGameSessionShortAlias(g)
                        \/ CancelGameSessionCreationTicket(g)
  \/ \E u \in Uss : JoinGameSession(u)

Consoles ==
  \/ Salons
  \/ \E u \in Uss : IssueToken(u)
  \/ \E f \in Flux : KeepUserSession(f) \/ StreamEnds(f)

(* What a handler that began does on its own.                               *)
FinDeFlux(f) == setStreamClosed(f) \/ DropWaker(f) \/ StreamForgets(f) \/ Strike(f)
FinDeJeton(u) == IssueForget(u) \/ IssueRegister(u) \/ Strike(u)
FinDeJonction(u) == JoinNote(u) \/ JoinCount(u)

Next ==
  \/ Consoles
  \/ \E g \in Parties : CancelFinish(g)
  \/ \E u \in Uss : FinDeJonction(u) \/ FinDeJeton(u)
  \/ \E f \in Flux : FinDeFlux(f)

Spec == Init /\ [][Next]_vars

(* A handler that began is run to its end by the scheduler.                 *)
Equite ==
  /\ \A g \in Parties : WF_vars(CancelFinish(g))
  /\ \A u \in Uss : WF_vars(FinDeJonction(u)) /\ WF_vars(FinDeJeton(u))
  /\ \A f \in Flux : WF_vars(FinDeFlux(f))

FairSpec == Spec /\ Equite

-----------------------------------------------------------------------------
(* Properties. *)

RangsDistincts ==
  /\ \A u \in sess : rang[u] > 0
  /\ \A u, v \in sess : PartieDe[u] = PartieDe[v] /\ rang[u] = rang[v] => u = v

(* The identifiers ussid, ucsid and upcsid that the consoles of a room read *)
(* from rang tell its sessions apart (two equal ones "se repliaient sur le  *)
(* meme emplacement", comment of gsSessionInfo.rang), and a session that    *)
(* reconnects keeps the one its peers know it by.                           *)
RanksApart == [][RangsDistincts' /\ \A u \in sess \cap sess' : rang'[u] = rang[u]]_vars

(* The user sessions of a room: of its creation, or of a join under way.    *)
Venus(g) == {v \in Uss : PartieDe[v] = g /\ (v \in emises \/ jonction[v] # "non")}

EachPlayerOnce ==
  \A g \in Parties :
    /\ \A u, v \in fiche[g] : JoueurDe[u] = JoueurDe[v] => u = v
    /\ effectif[g] <= Cardinality({JoueurDe[u] : u \in Venus(g)})

HostStruckOff == \A g \in Parties : salon[g] = "annule" => HoteDe[g] \notin fiche[g]

(* A room lists each player once, however often he retried, and the count   *)
(* it publishes never exceeds the players who came (comments of             *)
(* noterParticipant and of JoinGameSession); once given up, it lists its    *)
(* creator no more, whatever the guests it is still letting in do (comment  *)
(* of CancelGameSessionCreationTicket).                                     *)
ListsAreTrue == EachPlayerOnce /\ HostStruckOff

ReveilDesVivants ==
  \A u \in Uss : wakers[u] # Rien =>
    UssDe[wakers[u]] = u /\ flux[wakers[u]] \in {"ouvert", "perdu", "clos"}

(* The channel a write wakes is never that of a stream that is over, and a  *)
(* stream only loses its own to one that opens after it: the late end of a  *)
(* former stream does not cut the new one off (the guard of the deferred    *)
(* function of KeepUserSession).                                            *)
WakesTheLiving ==
  /\ []ReveilDesVivants
  /\ [][\A f \in Flux : flux[f] = "ouvert" /\ wakers[UssDe[f]] = f =>
          \/ wakers'[UssDe[f]] = f
          \/ \E h \in Flux : flux[h] = "libre" /\ wakers'[UssDe[f]] = h]_vars

(* A console waits for the answer of one IssueToken before the next: a step *)
(* never leaves a player with two of them under way.                        *)
UnJetonALaFois ==
  \A u, v \in Uss : JoueurDe[u] = JoueurDe[v] /\ u # v =>
    perimees[u] = Rien \/ perimees[v] = Rien

Patience == UnJetonALaFois'

(* A player who opens a session has given up the others: when consoles wait *)
(* for the answer of one IssueToken before the next, he never has two.      *)
OneSessionPerPlayer == \A u, v \in sess : JoueurDe[u] = JoueurDe[v] => u = v

(* The session of a stream that ended is freed (comment of the deferred     *)
(* function of KeepUserSession: departed players stayed in the roster).     *)
DepartedAreFreed == \A f \in Flux : flux[f] = "perdu" ~> UssDe[f] \notin sess

-----------------------------------------------------------------------------
(* The inductive invariant of GameRoomsProofs.                               *)

(* A user session is only listed in its own room, once its creation or join  *)
(* is under way; the host's is not minted by a join.                         *)
ListesDesVenus ==
  /\ \A g \in Parties : fiche[g] \subseteq Venus(g)
  /\ \A u \in Uss : jonction[u] # "non" => u # HoteDe[PartieDe[u]]

IInv ==
  /\ TypeOK /\ RangsDistincts /\ EachPlayerOnce /\ HostStruckOff
  /\ ListesDesVenus /\ ReveilDesVivants

=============================================================================
