---------------------------- MODULE GamesyncStore ----------------------------
(***************************************************************************)
(* The documents of one room (gamesync.go): what its consoles write, and   *)
(* what each is sent of it on the stream of its user session.  A stream has*)
(* two threads that send on it, each in its own time: the one that receives*)
(* (KeepUserSession), which answers a new watch with a snapshot, and the   *)
(* one that pushes, on a nudge of a writer or, at the latest, every thirty *)
(* seconds.  Neither holds g.mu while it sends what it read.               *)
(*                                                                         *)
(* Data: of a document, the number of the write it comes from; a transform *)
(* and a merge are writes like an update.  A console keeps its documents by*)
(* name, whatever target they came on.  Without the flags reveilsolo,      *)
(* rosterexist, frontiere and pousseminuteur.                              *)
(***************************************************************************)
EXTENDS Naturals

CONSTANTS
  Consoles,    \* the user sessions of the room
  Documents,   \* the names of the documents
  De,          \* the user session whose id ends the name of a document, or Aucun
  Collection,  \* the collection a document is directly in
  Synthese,    \* when the server makes up the document: jamais, instantane, toujours
  Verdict,     \* the document of the arbiter
  Presence,    \* the collections of user sessions (__pus)
  Aucun,       \* no user session, no collection
  Capacite,    \* what a wake channel holds
  Repets,      \* how often a verdict is sent again
  MaxEcrits,   \* bound: writes
  MaxVenues    \* bound: sessions opened

VARIABLES
  sess,      \* the user sessions of the room in g.sess
  store,     \* g.store: the write a document comes from, 0 if it is not there
  ecrits,    \* writes so far
  venues,    \* sessions opened so far
  ecriture,  \* the call of WriteDocuments a console has under way
  flux,      \* KeepUserSession of a console
  reveil,    \* nudges in its wake channel
  colls,     \* the collections it watches
  watched,   \* a document is in its map watched, without which nothing is pushed
  listees,   \* those whose snapshot it has
  reponse,   \* what the receiving thread is about to send
  poussee,   \* what the pushing thread is about to read and send
  verdict,   \* verdictEtat and verdictRepets, of one document
  copie,     \* the documents the console received last
  vu,        \* the last write its stream read of a document
  promis,    \* the last write of the verdict made while the console had its snapshot
  enVain     \* the collections of which a nudge was taken by a pass that pushed nothing

vars == <<sess, store, ecrits, venues, ecriture, flux, reveil, colls, watched, listees, reponse,
          poussee, verdict, copie, vu, promis, enVain>>
suivi == <<watched, enVain>>
magasin == <<sess, store, ecrits, venues, ecriture>>
envoye == <<copie, vu, promis>>

Collections == {Collection[d] : d \in Documents}
Dans(k) == {d \in Documents : Collection[d] = k}

ASSUME DocumentsAssumption ==
  /\ Verdict \in Documents /\ De[Verdict] = Aucun /\ Synthese[Verdict] = "jamais"
  /\ Aucun \notin Consoles /\ Aucun \notin Collections
  /\ Presence \subseteq Collections
  /\ De \in [Documents -> Consoles \cup {Aucun}]
  /\ Synthese \in [Documents -> {"jamais", "instantane", "toujours"}]
ASSUME BornesAssumption ==
  /\ Capacite \in Nat \ {0}
  /\ Repets \in Nat /\ MaxEcrits \in Nat /\ MaxVenues \in Nat

\* What stands for a document made up by the server; a console may also have none.
Invente == MaxEcrits + 1
Rien == 0

-----------------------------------------------------------------------------
Calme == [etape |-> "rien", doc |-> Verdict]
Silence == [etape |-> "rien", coll |-> Aucun, envois |-> {}]
Repos == [reste |-> {}, envois |-> {}]
Muet == [etat |-> 0, repets |-> 0]

Init ==
  /\ sess = {}
  /\ store = [d \in Documents |-> 0]
  /\ ecrits = 0 /\ venues = 0
  /\ ecriture = [c \in Consoles |-> Calme]
  /\ flux = [c \in Consoles |-> "ferme"]
  /\ reveil = [c \in Consoles |-> 0]
  /\ colls = [c \in Consoles |-> {}]
  /\ listees = [c \in Consoles |-> {}]
  /\ reponse = [c \in Consoles |-> Silence]
  /\ poussee = [c \in Consoles |-> Repos]
  /\ verdict = [c \in Consoles |-> Muet]
  /\ copie = [c \in Consoles |-> [d \in Documents |-> Rien]]
  /\ vu = [c \in Consoles |-> [d \in Documents |-> 0]]
  /\ promis = [c \in Consoles |-> 0]
  /\ watched = [c \in Consoles |-> FALSE]
  /\ enVain = [c \in Consoles |-> {}]

(* The session enters the registry; its stream is opened, and its first     *)
(* target, the document of the session itself, gives the stream its waker.  *)
IssueToken(c) ==
  /\ c \notin sess /\ flux[c] = "ferme" /\ venues < MaxVenues
  /\ sess' = sess \cup {c}
  /\ venues' = venues + 1
  /\ UNCHANGED <<store, ecrits, ecriture, flux, reveil, colls, listees, reponse, poussee,
                 verdict, envoye, suivi>>

KeepUserSession(c) ==
  /\ c \in sess /\ flux[c] = "ferme"
  /\ flux' = [flux EXCEPT ![c] = "ouvert"]
  /\ reveil' = [reveil EXCEPT ![c] = 0]
  /\ verdict' = [verdict EXCEPT ![c] = Muet]
  /\ copie' = [copie EXCEPT ![c] = [d \in Documents |-> Rien]]
  /\ vu' = [vu EXCEPT ![c] = [d \in Documents |-> 0]]
  /\ promis' = [promis EXCEPT ![c] = 0]
  /\ UNCHANGED <<magasin, colls, listees, reponse, poussee, suivi>>

\* Nothing is watched any more.
Detourne(c) ==
  /\ watched' = [watched EXCEPT ![c] = FALSE]
  /\ enVain' = [enVain EXCEPT ![c] = {}]

\* Fault: the documents stay.
OublierSansDocuments(c) ==
  /\ flux' = [flux EXCEPT ![c] = "ferme"]
  /\ sess' = sess \ {c}
  /\ colls' = [colls EXCEPT ![c] = {}]
  /\ listees' = [listees EXCEPT ![c] = {}]
  /\ reponse' = [reponse EXCEPT ![c] = Silence]
  /\ poussee' = [poussee EXCEPT ![c] = Repos]
  /\ Detourne(c)
  /\ UNCHANGED <<store, ecrits, venues, ecriture, reveil, verdict, envoye>>

(* The stream ends: its channel goes, and oublierSession takes the session  *)
(* and the documents that bear its id out, under g.mu.                      *)
oublierSession(c) ==
  /\ flux' = [flux EXCEPT ![c] = "ferme"]
  /\ sess' = sess \ {c}
  /\ store' = [d \in Documents |-> IF De[d] = c THEN 0 ELSE store[d]]
  /\ colls' = [colls EXCEPT ![c] = {}]
  /\ listees' = [listees EXCEPT ![c] = {}]
  /\ reponse' = [reponse EXCEPT ![c] = Silence]
  /\ poussee' = [poussee EXCEPT ![c] = Repos]
  /\ Detourne(c)
  /\ UNCHANGED <<ecrits, venues, ecriture, reveil, verdict, envoye>>

StreamEnds(c) == flux[c] # "ferme" /\ oublierSession(c)

-----------------------------------------------------------------------------
(* WriteDocuments: the store is changed under g.mu, the arbiter's verdict   *)
(* stored under g.mu again, and then everybody in the room is nudged.       *)

(* What is written is a document, or a report (d is the verdict).           *)
WriteDocuments(c, d) ==
  /\ c \in sess /\ ecriture[c].etape = "rien" /\ ecrits < MaxEcrits
  /\ De[d] \in {c, Aucun}
  /\ ecriture' = [ecriture EXCEPT ![c] =
                    [etape |-> IF d = Verdict THEN "arbitrer" ELSE "ranger", doc |-> d]]
  /\ UNCHANGED <<sess, store, ecrits, venues, flux, reveil, colls, listees, reponse,
                 poussee, verdict, envoye, suivi>>

Ranger(c, d, v) ==
  /\ store' = [store EXCEPT ![d] = v]
  /\ ecrits' = IF v > ecrits THEN v ELSE ecrits
  /\ ecriture' = [ecriture EXCEPT ![c].etape = "reveiller"]
  /\ promis' = [x \in Consoles |->
                  IF d = Verdict /\ v # store[d] /\ Collection[d] \in listees[x]
                  THEN v ELSE promis[x]]
  /\ UNCHANGED <<sess, venues, flux, reveil, colls, listees, reponse, poussee, verdict, copie, vu, suivi>>

Nouveau == {n \in {ecrits + 1} : n <= MaxEcrits}

(* An update, or a delete.                                                  *)
applyWritesToStore(c) ==
  /\ ecriture[c].etape = "ranger"
  /\ \E v \in {0} \cup Nouveau : Ranger(c, ecriture[c].doc, v)

(* A report is no document of a watched collection: what it changes is the  *)
(* verdict, which may also come out as it was.                              *)
arbitrer(c) ==
  /\ ecriture[c].etape = "arbitrer"
  /\ \E v \in {store[Verdict]} \cup Nouveau : Ranger(c, Verdict, v)

\* Fault: the channel has no capacity.
PousseToujours(n) == n + 1

\* A non-blocking send.
Pousse(n) == IF n < Capacite THEN n + 1 ELSE n

\* Fault: only the author is nudged (the code until 25 August, and the flag reveilsolo).
ReveillerLAuteur(c) ==
  /\ ecriture[c].etape = "reveiller"
  /\ ecriture' = [ecriture EXCEPT ![c] = Calme]
  /\ reveil' = [reveil EXCEPT ![c] = IF flux[c] # "ferme" THEN Pousse(@) ELSE @]
  /\ UNCHANGED <<sess, store, ecrits, venues, flux, colls, listees, reponse, poussee,
                 verdict, envoye, suivi>>

(* The author, if he has a channel, and who shares his room, if he is still *)
(* in the registry.                                                         *)
reveillerLaPartie(c) ==
  /\ ecriture[c].etape = "reveiller"
  /\ ecriture' = [ecriture EXCEPT ![c] = Calme]
  /\ reveil' = [x \in Consoles |->
                  IF flux[x] # "ferme" /\ (x = c \/ {x, c} \subseteq sess)
                  THEN Pousse(reveil[x]) ELSE reveil[x]]
  /\ UNCHANGED <<sess, store, ecrits, venues, flux, colls, listees, reponse, poussee,
                 verdict, envoye, suivi>>

-----------------------------------------------------------------------------
(* The receiving thread.  A request that asks nothing (an echo) leaves      *)
(* everything as it is, except that the thread then sees the valve.         *)

\* Fault: the valve is looked at where a watch is asked for.
EchoSansRegarder(c) == flux[c] = "soupape" /\ reponse[c].etape = "rien" /\ UNCHANGED vars

Echo(c) == flux[c] = "soupape" /\ reponse[c].etape = "rien" /\ oublierSession(c)

(* A watch on a document of the session or the game (__stu, __stg, __gs/s): *)
(* there is something to push from then on, and it is sent at once.         *)
UpdateTargetDocument(c) ==
  /\ flux[c] = "ouvert" /\ reponse[c].etape = "rien"
  /\ watched' = [watched EXCEPT ![c] = TRUE]
  /\ UNCHANGED <<magasin, flux, reveil, colls, listees, reponse, poussee, verdict, envoye, enVain>>

(* A watch on a collection is noted, and is of a pass from then on; only    *)
(* that on user sessions is something to push as well.                      *)
UpdateTarget(c, k) ==
  /\ flux[c] # "ferme" /\ reponse[c].etape = "rien" /\ k \notin colls[c]
  /\ colls' = [colls EXCEPT ![c] = @ \cup {k}]
  /\ reponse' = [reponse EXCEPT ![c] = [etape |-> "lire", coll |-> k, envois |-> {}]]
  /\ watched' = [watched EXCEPT ![c] = @ \/ k \in Presence]
  /\ UNCHANGED <<magasin, flux, reveil, listees, poussee, verdict, envoye, enVain>>

(* The snapshot: the members made up, then those of the store.              *)
membresDeCollection(c) ==
  LET k == reponse[c].coll IN
  /\ reponse[c].etape = "lire"
  /\ reponse' = [reponse EXCEPT
       ![c].etape = "envoyer",
       ![c].envois = {<<d, Invente>> : d \in {d \in Dans(k) : Synthese[d] # "jamais"}}
         \cup {<<d, store[d]>> : d \in {d \in Dans(k) : Synthese[d] = "jamais" /\ store[d] # 0}}]
  /\ vu' = [vu EXCEPT ![c] = [d \in Documents |-> IF d \in Dans(k) THEN store[d] ELSE @[d]]]
  /\ UNCHANGED <<magasin, flux, reveil, colls, listees, poussee, verdict, copie, promis, suivi>>

EnvoyerMembre(c) ==
  /\ reponse[c].etape = "envoyer"
  /\ \E e \in reponse[c].envois :
       /\ reponse' = [reponse EXCEPT ![c].envois = @ \ {e}]
       /\ copie' = [copie EXCEPT ![c][e[1]] = e[2]]
  /\ UNCHANGED <<magasin, flux, reveil, colls, listees, poussee, verdict, vu, promis, suivi>>

(* After the snapshot, the user session is sent on this target, and is      *)
(* something to push from then on.                                          *)
Suivre(c) ==
  /\ reponse[c].etape = "envoyer" /\ reponse[c].envois = {}
  /\ reponse' = [reponse EXCEPT ![c].etape = "lister"]
  /\ watched' = [watched EXCEPT ![c] = TRUE]
  /\ UNCHANGED <<magasin, flux, reveil, colls, listees, poussee, verdict, envoye, enVain>>

(* TargetChange LISTED, and the next turn of the loop.                      *)
Lister(c) ==
  /\ reponse[c].etape = "lister"
  /\ IF flux[c] = "soupape"
     THEN oublierSession(c)
     ELSE /\ listees' = [listees EXCEPT ![c] = @ \cup {reponse[c].coll}]
          /\ reponse' = [reponse EXCEPT ![c] = Silence]
          /\ UNCHANGED <<magasin, flux, reveil, colls, poussee, verdict, envoye, suivi>>

-----------------------------------------------------------------------------
(* The pushing thread: doPush, on a nudge or on the reminder.               *)

AuRepos(c) == flux[c] = "ouvert" /\ poussee[c] = Repos

(* A pass begins.  It pushes what is in watched, and replays the            *)
(* collections if that was something; else the nudge was taken in vain, as  *)
(* one is while the first snapshot is sent.                                 *)
Commencer(c, n) ==
  /\ AuRepos(c)
  /\ reveil' = [reveil EXCEPT ![c] = n]
  /\ poussee' = [poussee EXCEPT ![c].reste = IF watched[c] THEN colls[c] ELSE {}]
  /\ enVain' = [enVain EXCEPT ![c] =
                  IF watched[c] THEN {}
                  ELSE IF n < reveil[c] /\ reponse[c].etape = "envoyer" THEN colls[c] ELSE @]
  /\ UNCHANGED <<magasin, flux, colls, watched, listees, reponse, verdict, envoye>>

SurReveil(c) == reveil[c] > 0 /\ Commencer(c, reveil[c] - 1)

\* Fault: no reminder without a nudge.
SansRappel(c) == reveil[c] > 0 /\ Commencer(c, reveil[c])

(* Nothing was pushed for thirty seconds.                                   *)
Rappel(c) == Commencer(c, reveil[c])

(* The valve: the stream is too old.  The thread stops, and the other is to *)
(* see it when it has served a request.                                     *)
Soupape(c) ==
  /\ AuRepos(c)
  /\ flux' = [flux EXCEPT ![c] = "soupape"]
  /\ UNCHANGED <<magasin, reveil, colls, listees, reponse, poussee, verdict, envoye, suivi>>

\* Fault: a verdict is counted whatever it says.
verdictTaireToujours(r, v) ==
  [etat |-> v, repets |-> IF r.repets > Repets THEN r.repets ELSE r.repets + 1]

verdictTaire(r, v) ==
  [etat |-> v, repets |-> IF r.etat # v THEN 0
                          ELSE IF r.repets > Repets THEN r.repets ELSE r.repets + 1]

(* One collection: the documents made up, then those of the store, except a *)
(* verdict that was repeated often enough.                                  *)
docsSousCollection(c) ==
  \E k \in poussee[c].reste :
    LET lus == {d \in Dans(k) : Synthese[d] # "toujours" /\ store[d] # 0}
        v == verdictTaire(verdict[c], store[Verdict])
        dits == IF v.repets > Repets THEN lus \ {Verdict} ELSE lus
    IN
    /\ poussee[c].envois = {}
    /\ poussee' = [poussee EXCEPT
         ![c] = [reste |-> @.reste \ {k},
                 envois |-> {<<d, Invente>> : d \in {d \in Dans(k) : Synthese[d] = "toujours"}}
                            \cup {<<d, store[d]>> : d \in dits}]]
    /\ verdict' = IF Verdict \in lus THEN [verdict EXCEPT ![c] = v] ELSE verdict
    /\ vu' = [vu EXCEPT ![c] = [d \in Documents |-> IF d \in Dans(k) THEN store[d] ELSE @[d]]]
    /\ UNCHANGED <<magasin, flux, reveil, colls, listees, reponse, copie, promis, suivi>>

EnvoyerChangement(c) ==
  /\ \E e \in poussee[c].envois :
       /\ poussee' = [poussee EXCEPT ![c].envois = @ \ {e}]
       /\ copie' = [copie EXCEPT ![c][e[1]] = e[2]]
  /\ UNCHANGED <<magasin, flux, reveil, colls, listees, reponse, verdict, vu, promis, suivi>>

-----------------------------------------------------------------------------
Recevoir(c) ==
  \/ membresDeCollection(c)
  \/ EnvoyerMembre(c)
  \/ Suivre(c)
  \/ Lister(c)

Pousser(c) ==
  \/ SurReveil(c)
  \/ docsSousCollection(c)
  \/ EnvoyerChangement(c)

Ecrire(c) ==
  \/ applyWritesToStore(c)
  \/ arbitrer(c)
  \/ reveillerLaPartie(c)

Next ==
  \E c \in Consoles :
    \/ IssueToken(c)
    \/ KeepUserSession(c)
    \/ StreamEnds(c)
    \/ \E d \in Documents : WriteDocuments(c, d)
    \/ Ecrire(c)
    \/ Echo(c)
    \/ UpdateTargetDocument(c)
    \/ \E k \in Collections : UpdateTarget(c, k)
    \/ Recevoir(c)
    \/ Pousser(c)
    \/ Rappel(c)
    \/ Soupape(c)

(* A thread that has begun goes on; the pusher takes its nudges, and after  *)
(* thirty seconds without any it pushes.  The console keeps its heartbeat.  *)
Spec ==
  /\ Init /\ [][Next]_vars
  /\ \A c \in Consoles :
       WF_vars(Ecrire(c)) /\ WF_vars(Recevoir(c)) /\ WF_vars(Pousser(c))
       /\ WF_vars(Rappel(c)) /\ WF_vars(Echo(c))

-----------------------------------------------------------------------------
(* Properties.                                                              *)

Versions == 0..MaxEcrits
Lot == SUBSET (Documents \X (1..Invente))
Appels == [etape : {"rien", "ranger", "arbitrer", "reveiller"}, doc : Documents]
Reponses == [etape : {"rien", "lire", "envoyer", "lister"}, coll : Collections \cup {Aucun}, envois : Lot]
Passes == [reste : SUBSET Collections, envois : Lot]

\* Every variable is of its type (gamesyncServer, KeepUserSession).
TypeOK ==
  /\ sess \subseteq Consoles
  /\ store \in [Documents -> Versions]
  /\ ecrits \in Versions
  /\ venues \in 0..MaxVenues
  /\ ecriture \in [Consoles -> Appels]
  /\ flux \in [Consoles -> {"ferme", "ouvert", "soupape"}]
  /\ reveil \in [Consoles -> 0..Capacite]
  /\ colls \in [Consoles -> SUBSET Collections]
  /\ listees \in [Consoles -> SUBSET Collections]
  /\ reponse \in [Consoles -> Reponses]
  /\ \A c \in Consoles : reponse[c].etape # "rien" => reponse[c].coll \in Collections
  /\ poussee \in [Consoles -> Passes]
  /\ verdict \in [Consoles -> [etat : Versions, repets : 0..Repets + 1]]
  /\ copie \in [Consoles -> [Documents -> 0..Invente]]
  /\ vu \in [Consoles -> [Documents -> Versions]]
  /\ promis \in [Consoles -> Versions]
  /\ watched \in [Consoles -> BOOLEAN]
  /\ enVain \in [Consoles -> SUBSET Collections]

(* A console leaves once its writes were answered.                          *)
SansEcriture == \A c \in Consoles : ecriture[c].etape # "rien" => c \in sess
Patience == SansEcriture'

(* What is written in a collection a stream watches and not yet read by it  *)
(* is announced: a nudge is in its channel, or a pass of its pusher or its  *)
(* snapshot is about to read the collection, or a writer has yet to nudge.  *)
(* A full channel drops a nudge (gamesync.go:1130), never a change.  Only a *)
(* nudge taken in vain loses one, until the next pass: while the snapshot   *)
(* of the first collection is sent, the stream has nothing in watched, and  *)
(* doPush replays nothing (gamesync.go:2117).  Held by consoles that leave  *)
(* once their writes were answered.                                         *)
Annonce(c, d) ==
  \/ reveil[c] > 0
  \/ Collection[d] \in poussee[c].reste
  \/ reponse[c].etape = "lire" /\ reponse[c].coll = Collection[d]
  \/ \E x \in Consoles : ecriture[x].etape = "reveiller"
NudgeFollowsWrite ==
  \A c \in Consoles, d \in Documents :
    flux[c] = "ouvert" /\ Collection[d] \in colls[c] /\ store[d] # 0 /\ vu[c][d] # store[d]
      => Annonce(c, d) \/ Collection[d] \in enVain[c]

(* That loss is of one collection: a stream with nothing in watched has no  *)
(* collection but the one whose snapshot it is being sent.                  *)
OnlyFirstSnapshotsLose ==
  \A c \in Consoles : flux[c] # "ferme" /\ ~watched[c] =>
    colls[c] = {} \/ (colls[c] = {reponse[c].coll} /\ reponse[c].etape \in {"lire", "envoyer"})

(* "Les documents de CE participant n'ont plus lieu d'etre publies aux      *)
(* autres." (gamesync.go:2835): the store holds no document of a user       *)
(* session that is gone.  Held by consoles that leave once their writes     *)
(* were answered.                                                           *)
DepartedLeaveNothing == \A d \in Documents : De[d] \in Consoles \ sess => store[d] = 0

(* A console that goes on watching a document the game writes has it as it  *)
(* stands, again and again: the thread that receives may send an older      *)
(* reading after the pusher sent the last one, or one the server made up,   *)
(* and the reminder repairs that (dureeRappel, gamesync.go:1043).           *)
WatchersCatchUp ==
  \A c \in Consoles, d \in Documents :
    d # Verdict /\ Synthese[d] # "toujours" =>
      (<>[](flux[c] = "ouvert" /\ Collection[d] \in colls[c])
         => []<>(store[d] \in {0, copie[c][d]}))

(* "Le verdict est renvoye tant qu'il CHANGE ..., puis trois fois de plus,  *)
(* puis silence." (gamesync.go:1979): the silence never swallows a verdict  *)
(* that changed after the console had its snapshot.                         *)
VerdictIsDelivered ==
  \A c \in Consoles : []<>(flux[c] # "ouvert" \/ copie[c][Verdict] >= promis[c])

(* That silence is earned: a stream whose next pass would leave the verdict  *)
(* out was sent the one last promised to it, or is about to be, though the   *)
(* count starts with what was read, long before it is sent, and though the   *)
(* other thread sends as well.                                               *)
Silencieux(c) == verdictTaire(verdict[c], store[Verdict]).repets > Repets
SilenceIsEarned ==
  \A c \in Consoles : flux[c] # "ferme" /\ Silencieux(c) =>
    copie[c][Verdict] >= promis[c] \/ <<Verdict, store[Verdict]>> \in poussee[c].envois

(* "on arrete de pousser et on laisse le flux se terminer, ce qui libere la *)
(* session" (gamesync.go:2303): a stream whose valve was opened ends, as    *)
(* the thread that receives sees it after the next request.                 *)
ValveFreesTheSession == \A c \in Consoles : flux[c] = "soupape" ~> flux[c] = "ferme"
=============================================================================
