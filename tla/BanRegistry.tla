----------------------------- MODULE BanRegistry -----------------------------
(***************************************************************************)
(* The bans of a running service (ban.go).  The operator bans and unbans   *)
(* from the command line: each command is a process of its own that reads  *)
(* the file of the bans, changes its copy and replaces the file by a       *)
(* rename.  The servers never write the file: a monitor and the requests   *)
(* look at its date and read it again when the date changed; a stream      *)
(* opened before the ban is cut by the reload that learns of it.           *)
(*                                                                         *)
(* Data: a token names its player by a PID and by a UID, one and the same  *)
(* value here; the reason and the date of a ban are left out; the dates of *)
(* two renames differ.                                                     *)
(***************************************************************************)
EXTENDS Naturals

CONSTANTS
  Joueurs,       \* the players
  Serveurs,      \* the server processes
  Operateurs,    \* how many commands may run at once
  Aucun,         \* no PID, or no UID, in an entry
  MaxEcritures,  \* bound: renames of the file
  MaxPannes      \* bound: reads of the file that fail

ASSUME AucunAssumption == Aucun \notin Joueurs
ASSUME BornesAssumption == MaxEcritures \in Nat /\ MaxPannes \in Nat

VARIABLES
  fichier,  \* bans.json: the date of its last rename (0: no file), its entries
  outil,    \* the bans read by the command each operator has under way
  liste,    \* r.bans of a server
  date,     \* r.fileModTime and r.fileSize; 0 stands for ~r.fileExists
  charge,   \* r.loaded
  recent,   \* r.lastCheck is less than 250 ms old
  lecture,  \* the date os.Stat gave to a refresh that is to read the file; 0: none
  flux,     \* the stream of a player on a server
  pannes,   \* reads that failed so far
  acquis    \* the players the operator was told are banned

registre == <<liste, date, charge>>
vars == <<fichier, outil, registre, recent, lecture, flux, pannes, acquis>>

-----------------------------------------------------------------------------
(* The entries: keyed by a PID, by a UID, or by a PID with its UID.         *)

Cible == Joueurs \cup {Aucun}
Entrees == {b \in [pid : Cible, uid : Cible] :
              /\ b.pid # Aucun \/ b.uid # Aucun
              /\ b.pid # Aucun /\ b.uid # Aucun => b.pid = b.uid}
Repos == [lance |-> FALSE, bans |-> {}]

banEntryKey(b) == IF b.pid # Aucun THEN <<"pid", b.pid>> ELSE <<"uid", b.uid>>
matches(b, p) == p \in {b.pid, b.uid}
Bannis(L) == {p \in Joueurs : \E b \in L : matches(b, p)}

\* r.bans[banEntryKey(entry)] = entry
Poser(L, b) == {x \in L : banEntryKey(x) # banEntryKey(b)} \cup {b}

\* The entries an unban by PID, or by UID, takes out.
Vises(L, c) == {b \in L : \/ c.pid # Aucun /\ b.pid = c.pid
                          \/ c.uid # Aucun /\ b.uid = c.uid}
JoueurDe(c) == IF c.pid # Aucun THEN c.pid ELSE c.uid

-----------------------------------------------------------------------------
(* The command line: refresh, then the change and the rename.               *)

Init ==
  /\ fichier = [date |-> 0, bans |-> {}]
  /\ outil = [o \in Operateurs |-> Repos]
  /\ liste = [s \in Serveurs |-> {}]
  /\ date = [s \in Serveurs |-> 0]
  /\ charge = [s \in Serveurs |-> FALSE]
  /\ recent = [s \in Serveurs |-> FALSE]
  /\ lecture = [s \in Serveurs |-> 0]
  /\ flux = [s \in Serveurs |-> [p \in Joueurs |-> "ferme"]]
  /\ pannes = 0
  /\ acquis = {}

(* A new process has loaded nothing: its refresh(true) reads the file.      *)
(* What the command is to do with what it read is said at its second step.  *)
Commander(o) ==
  /\ ~outil[o].lance
  /\ outil' = [outil EXCEPT ![o] = [lance |-> TRUE, bans |-> fichier.bans]]
  /\ UNCHANGED <<fichier, registre, recent, lecture, flux, pannes, acquis>>

Remplacer(o, bans) ==
  /\ outil[o].lance /\ fichier.date < MaxEcritures
  /\ fichier' = [date |-> fichier.date + 1, bans |-> bans]
  /\ outil' = [outil EXCEPT ![o] = Repos]
  /\ UNCHANGED <<registre, recent, lecture, flux, pannes>>

(* The file is replaced.  The operator is told so, unless os.Stat fails     *)
(* after the rename or the process is killed: then dit is FALSE.            *)
ban(o, c, dit) ==
  /\ Remplacer(o, Poser(outil[o].bans, c))
  /\ acquis' = IF dit THEN acquis \cup {JoueurDe(c)} ELSE acquis

\* Fault: the entry is emptied instead of taken out.
viderEntree(o, c) ==
  /\ Vises(outil[o].bans, c) # {}
  /\ Remplacer(o, (outil[o].bans \ Vises(outil[o].bans, c)) \cup {[pid |-> Aucun, uid |-> Aucun]})
  /\ acquis' = acquis \ {JoueurDe(c)}

(* An unban is by PID or by UID.  That it was done, or perhaps done, ends   *)
(* what the operator was told of the player before.                         *)
unban(o, c) ==
  /\ c.pid = Aucun \/ c.uid = Aucun
  /\ Vises(outil[o].bans, c) # {}
  /\ Remplacer(o, outil[o].bans \ Vises(outil[o].bans, c))
  /\ acquis' = acquis \ {JoueurDe(c)}

(* Nothing to take out, or a failure before the rename: no change.          *)
Renoncer(o) ==
  /\ outil[o].lance
  /\ outil' = [outil EXCEPT ![o] = Repos]
  /\ UNCHANGED <<fichier, registre, recent, lecture, flux, pannes, acquis>>

-----------------------------------------------------------------------------
(* refresh, under r.mu: os.Stat, and the read of the file if its date is    *)
(* not the one noted.  r.mu is held in between: lecture[s] # 0.             *)

\* Fault: the file is read once, when the server starts.
refreshUneFois(s) ==
  /\ lecture[s] = 0
  /\ recent' = [recent EXCEPT ![s] = TRUE]
  /\ lecture' = IF charge[s] THEN lecture ELSE [lecture EXCEPT ![s] = fichier.date]
  /\ UNCHANGED <<fichier, outil, registre, flux, pannes, acquis>>

refresh(s) ==
  /\ lecture[s] = 0
  /\ recent' = [recent EXCEPT ![s] = TRUE]
  /\ IF fichier.date = 0
     THEN /\ charge' = [charge EXCEPT ![s] = TRUE]
          /\ UNCHANGED lecture
     ELSE /\ lecture' = IF charge[s] /\ date[s] = fichier.date
                        THEN lecture ELSE [lecture EXCEPT ![s] = fichier.date]
          /\ UNCHANGED charge
  /\ UNCHANGED <<fichier, outil, liste, date, flux, pannes, acquis>>

\* r.streams without those of the players the new list names.
cancellationsForCurrentBans(f, L) ==
  [p \in Joueurs |-> IF f[p] = "suivi" /\ p \in Bannis(L) THEN "coupe" ELSE f[p]]

\* Fault: the new list is in use before the streams are looked at.
LireEnDeuxTemps(s) ==
  \/ /\ lecture[s] # 0 /\ liste[s] # fichier.bans
     /\ liste' = [liste EXCEPT ![s] = fichier.bans]
     /\ UNCHANGED <<date, charge, lecture, flux>>
     /\ UNCHANGED <<fichier, outil, recent, pannes, acquis>>
  \/ /\ lecture[s] # 0 /\ liste[s] = fichier.bans
     /\ date' = [date EXCEPT ![s] = lecture[s]]
     /\ charge' = [charge EXCEPT ![s] = TRUE]
     /\ lecture' = [lecture EXCEPT ![s] = 0]
     /\ flux' = [flux EXCEPT ![s] = cancellationsForCurrentBans(@, liste[s])]
     /\ UNCHANGED <<fichier, outil, liste, recent, pannes, acquis>>

Lire(s) ==
  /\ lecture[s] # 0
  /\ liste' = [liste EXCEPT ![s] = fichier.bans]
  /\ date' = [date EXCEPT ![s] = lecture[s]]
  /\ charge' = [charge EXCEPT ![s] = TRUE]
  /\ lecture' = [lecture EXCEPT ![s] = 0]
  /\ flux' = [flux EXCEPT ![s] = cancellationsForCurrentBans(@, fichier.bans)]
  /\ UNCHANGED <<fichier, outil, recent, pannes, acquis>>

(* The read or the parse fails: what the memory holds stays.                *)
LireEnVain(s) ==
  /\ lecture[s] # 0 /\ pannes < MaxPannes
  /\ pannes' = pannes + 1
  /\ lecture' = [lecture EXCEPT ![s] = 0]
  /\ UNCHANGED <<fichier, outil, registre, recent, flux, acquis>>

Temps(s) ==
  /\ recent[s]
  /\ recent' = [recent EXCEPT ![s] = FALSE]
  /\ UNCHANGED <<fichier, outil, liste, date, charge, lecture, flux, pannes, acquis>>

-----------------------------------------------------------------------------
(* A call: the refresh and the look of requireAllowed, then, for a stream,  *)
(* the refresh and the registration of trackStream.  refresh(false) returns *)
(* at once within 250 ms of the last one; a call that finds an older one    *)
(* makes its own, which is refresh(s), and is then within the 250 ms.       *)

Passer(s, p, de, a) ==
  /\ flux[s][p] = de /\ lecture[s] = 0
  /\ flux' = [flux EXCEPT ![s][p] = a]
  /\ UNCHANGED <<fichier, outil, registre, recent, lecture, pannes, acquis>>

Autorise(s, p) == p \notin Bannis(liste[s])

requireAllowed(s, p) == recent[s] /\ Autorise(s, p) /\ Passer(s, p, "ferme", "verifie")

trackStream(s, p) ==
  recent[s] /\ Passer(s, p, "verifie", IF Autorise(s, p) THEN "suivi" ELSE "ferme")

(* The handler of a unary call, or of a stream, returns: remove() is run.   *)
Finir(s, p) == \E de \in {"verifie", "suivi", "coupe"} : Passer(s, p, de, "ferme")

(* The server process stops and starts again: main starts the monitor anew. *)
Redemarrer(s) ==
  /\ liste' = [liste EXCEPT ![s] = {}]
  /\ date' = [date EXCEPT ![s] = 0]
  /\ charge' = [charge EXCEPT ![s] = FALSE]
  /\ recent' = [recent EXCEPT ![s] = FALSE]
  /\ lecture' = [lecture EXCEPT ![s] = 0]
  /\ flux' = [flux EXCEPT ![s] = [p \in Joueurs |-> "ferme"]]
  /\ UNCHANGED <<fichier, outil, pannes, acquis>>

-----------------------------------------------------------------------------
Commande(o) ==
  \/ Commander(o)
  \/ \E c \in Entrees : unban(o, c) \/ \E dit \in BOOLEAN : ban(o, c, dit)
  \/ Renoncer(o)

Appel(s, p) ==
  \/ requireAllowed(s, p)
  \/ trackStream(s, p)
  \/ Finir(s, p)

Next ==
  \/ \E o \in Operateurs : Commande(o)
  \/ \E s \in Serveurs :
        \/ refresh(s)
        \/ Lire(s)
        \/ LireEnVain(s)
        \/ Temps(s)
        \/ Redemarrer(s)
        \/ \E p \in Joueurs : Appel(s, p)

(* startBanMonitor calls refresh(true) every 500 ms for as long as the      *)
(* server runs, and a refresh that holds r.mu goes on to its end.  Nothing  *)
(* is asked of the operators, nor of the players.                           *)
Spec ==
  /\ Init /\ [][Next]_vars
  /\ \A s \in Serveurs : WF_vars(refresh(s)) /\ WF_vars(Lire(s))

-----------------------------------------------------------------------------
(* Properties.                                                              *)

EtatsDeFlux == {"ferme", "verifie", "suivi", "coupe"}

\* Every variable is of its type (ban.go: playerBan, trackedBanStream, banRegistry).
TypeOK ==
  /\ fichier \in [date : Nat, bans : SUBSET Entrees]
  /\ outil \in [Operateurs -> [lance : BOOLEAN, bans : SUBSET Entrees]]
  /\ liste \in [Serveurs -> SUBSET Entrees]
  /\ date \in [Serveurs -> Nat]
  /\ charge \in [Serveurs -> BOOLEAN]
  /\ recent \in [Serveurs -> BOOLEAN]
  /\ lecture \in [Serveurs -> Nat]
  /\ flux \in [Serveurs -> [Joueurs -> EtatsDeFlux]]
  /\ pannes \in Nat
  /\ acquis \subseteq Joueurs

(* Whatever lands between the check of a call and the registration of its   *)
(* stream, a stream that is followed is not of a player its server knows to *)
(* be banned: it was refused, or it was cut (ban.go:208, :341).             *)
TrackedAreAllowed ==
  \A s \in Serveurs, p \in Joueurs : flux[s][p] = "suivi" => Autorise(s, p)

(* A server that skips the read because the date did not change (ban.go:172)*)
(* knows what the file holds: the file may be replaced between os.Stat and  *)
(* os.ReadFile, and the date noted is then too old, never too new.          *)
NothingMissed ==
  \A s \in Serveurs :
    lecture[s] = 0 /\ charge[s] /\ date[s] = fichier.date => liste[s] = fichier.bans

(* A player the operator was told is banned is in the file for as long as   *)
(* he was not unbanned, whatever commands came after and failed half-way:   *)
(* "Banned PID ... Active streams will be cancelled by the running server"  *)
(* (ban.go:572).  Held by commands that follow each other.                  *)
BanKept == acquis \subseteq Bannis(fichier.bans)

(* The file, its entries keyed three ways, the dates, the lock and the two  *)
(* looks of a call amount to one list that a command changes one player at  *)
(* a time, that keeps whoever the operator was told is banned, that a server*)
(* learns whole, and whose news cut the streams in the same step            *)
(* (banRegistry).  Held by commands that follow each other.                 *)
Promis == INSTANCE BanList WITH
  bannis <- Bannis(fichier.bans),
  acquis <- acquis,
  connus <- [s \in Serveurs |-> Bannis(liste[s])],
  suivis <- [s \in Serveurs |-> {p \in Joueurs : flux[s][p] = "suivi"}]
KeepsItsPromise == Promis!Spec

(* The streams of a player who stays banned are in the end all cut, and no  *)
(* new one is followed, on every server, whatever reads fail on the way.    *)
BannedIsCut ==
  \A s \in Serveurs, p \in Joueurs :
    <>[](p \in Bannis(fichier.bans)) => <>[](flux[s][p] # "suivi")
=============================================================================
