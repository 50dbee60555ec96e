------------------------------ MODULE UgcStore ------------------------------
(***************************************************************************)
(* The documents of the players (ugcstore.go, ugcstore_runquery.go) as two *)
(* processes share them: a map in the memory of each, one file per         *)
(* document, and a journal in which a writer names the document it wrote.  *)
(* A process reads all the files when it starts; after that a query reads  *)
(* again what the journal names since the last one, and a read of a name   *)
(* the memory does not know falls back on the file.  The arbiter credits   *)
(* the point cards of Salmon Run (coop_carte_points.go); consoles read and *)
(* write in the other process.                                             *)
(*                                                                         *)
(* Data: of a card, how many shifts it counts (job_num), each of the two   *)
(* cards of a player on its own; of another document, the number of the    *)
(* write it comes from.  Deletes, which only leave the memory, and the     *)
(* attributes made up for who has none are left out.                       *)
(***************************************************************************)
EXTENDS Integers, Sequences

CONSTANTS
  Arbitre,    \* the process that referees the battles
  Servis,     \* the processes whose document service the consoles call
  Fils,       \* the handlers
  Ou,         \* the process of a handler
  Documents,  \* the names of the documents
  Cartes,     \* those that are point cards
  Aucun,      \* no document
  MaxEcrits   \* bound: writes begun

VARIABLES
  docs,     \* documentStore.docs of a process; 0: the name is not there
  fichier,  \* what the file of a document holds; 0: there is no file
  journal,  \* changes.index
  offset,   \* derniereRelecture.offset of a process
  charge,   \* the files a process that starts has yet to read
  travail,  \* the call a handler has under way
  ecrits,   \* writes begun so far
  quarts,   \* the shifts written on a card
  coupes,   \* documents whose file was left in the middle of a write
  tus       \* documents whose file, or whose announcement, was not written

vars == <<docs, fichier, journal, offset, charge, travail, ecrits, quarts, coupes, tus>>
disque == <<fichier, journal>>
histoire == <<quarts, coupes, tus>>

Processus == Servis \cup {Arbitre}

(* As deployed (ugcstore.go:67): the arbiter is a process of its own.       *)
ASSUME RolesAssumption == Arbitre \notin Servis /\ Ou \in [Fils -> Processus]
ASSUME CartesAssumption == Cartes \subseteq Documents /\ Aucun \notin Documents /\ MaxEcrits \in Nat

\* A file that was truncated and not written, or written by two at once.
Partiel == -1

\* What a read of the file gives: an unreadable one is as if it were not there.
Lu(d) == IF fichier[d] = Partiel THEN 0 ELSE fichier[d]

Appel(op, etape, d, v) ==
  [op |-> op, etape |-> etape, doc |-> d, val |-> v, reste |-> <<>>, fin |-> 0]
Libre == Appel("rien", "libre", Aucun, 0)

Init ==
  /\ docs = [p \in Processus |-> [d \in Documents |-> 0]]
  /\ fichier = [d \in Documents |-> 0]
  /\ journal = <<>>
  /\ offset = [p \in Processus |-> 0]
  /\ charge = [p \in Processus |-> {}]
  /\ travail = [f \in Fils |-> Libre]
  /\ ecrits = 0
  /\ quarts = [d \in Cartes |-> 0]
  /\ coupes = {} /\ tus = {}

Sert(f) == travail[f].etape = "libre" /\ charge[Ou[f]] = {}

-----------------------------------------------------------------------------
(* storeGetDocument: the memory, else the file, which is then kept.         *)

\* What the caller does with the document: answer, or count one more shift.
Suite(op, d, v) ==
  IF op = "carte" THEN Appel(op, "ranger", d, v + 1) ELSE Libre

storeGetDocument(f, op, d) ==
  LET v == docs[Ou[f]][d] IN
  travail' = [travail EXCEPT ![f] = IF v # 0 THEN Suite(op, d, v) ELSE Appel(op, "disque", d, 0)]

LireLeFichier(f) ==
  LET t == travail[f] IN
  /\ t.etape = "disque"
  /\ travail' = [travail EXCEPT ![f] = IF Lu(t.doc) = 0 THEN Suite(t.op, t.doc, 0)
                   ELSE [t EXCEPT !.etape = "garder", !.val = Lu(t.doc)]]
  /\ UNCHANGED <<docs, disque, offset, charge, ecrits, histoire>>

Garder(f) ==
  LET t == travail[f] IN
  /\ t.etape = "garder"
  /\ docs' = [docs EXCEPT ![Ou[f]][t.doc] = t.val]
  /\ travail' = [travail EXCEPT ![f] = Suite(t.op, t.doc, t.val)]
  /\ UNCHANGED <<disque, offset, charge, ecrits, histoire>>

(* A document the memory knows is answered at once: nothing changes.        *)
GetDocument(f, d) ==
  /\ Sert(f) /\ Ou[f] \in Servis /\ docs[Ou[f]][d] = 0
  /\ storeGetDocument(f, "get", d)
  /\ UNCHANGED <<docs, disque, offset, charge, ecrits, histoire>>

-----------------------------------------------------------------------------
(* storePutDocument: the memory, the file, the journal.                     *)

(* A document of its own, never made from the one that was there.           *)
storePutDocument(f, d) ==
  /\ Sert(f) /\ d \notin Cartes /\ ecrits < MaxEcrits
  /\ ecrits' = ecrits + 1
  /\ travail' = [travail EXCEPT ![f] = Appel("put", "ranger", d, ecrits + 1)]
  /\ UNCHANGED <<docs, disque, offset, charge, histoire>>

(* What the game commits; what an initialisation makes up is put likewise.  *)
CommitDocuments(f, d) == Ou[f] \in Servis /\ storePutDocument(f, d)

(* The record of a battle, of one player.                                   *)
publierHistoriqueDeBataille(f, d) == Ou[f] = Arbitre /\ storePutDocument(f, d)

\* Fault: two handlers may credit at once.
CrediterSansVerrou(f, d) ==
  /\ Sert(f) /\ Ou[f] = Arbitre /\ d \in Cartes /\ ecrits < MaxEcrits
  /\ ecrits' = ecrits + 1
  /\ storeGetDocument(f, "carte", d)
  /\ UNCHANGED <<docs, disque, offset, charge, histoire>>

carteMu == \E g \in Fils : travail[g].op = "carte"

(* carteMu is held from the read of the card to the end of its write.       *)
crediterCartesDePoints(f, d) ==
  /\ Sert(f) /\ Ou[f] = Arbitre /\ d \in Cartes /\ ecrits < MaxEcrits
  /\ ~carteMu
  /\ ecrits' = ecrits + 1
  /\ storeGetDocument(f, "carte", d)
  /\ UNCHANGED <<docs, disque, offset, charge, histoire>>

Ranger(f) ==
  LET t == travail[f] IN
  /\ t.etape = "ranger"
  /\ docs' = [docs EXCEPT ![Ou[f]][t.doc] = t.val]
  /\ travail' = [travail EXCEPT ![f].etape = "ouvrir"]
  /\ UNCHANGED <<disque, offset, charge, ecrits, histoire>>

\* os.WriteFile truncates, then writes.
Ouvrir(f) ==
  /\ travail[f].etape = "ouvrir"
  /\ fichier' = [fichier EXCEPT ![travail[f].doc] = Partiel]
  /\ travail' = [travail EXCEPT ![f].etape = "ecrire"]
  /\ UNCHANGED <<docs, journal, offset, charge, ecrits, histoire>>

(* Where another write ended since the truncation, the two are mixed if     *)
(* their lengths differ.                                                    *)
persisterDocument(f) ==
  LET t == travail[f] IN
  /\ t.etape = "ecrire"
  /\ \E v \in {t.val} \cup IF fichier[t.doc] = Partiel THEN {} ELSE {Partiel} :
       fichier' = [fichier EXCEPT ![t.doc] = v]
  /\ quarts' = [d \in Cartes |-> IF d = t.doc THEN quarts[d] + 1 ELSE quarts[d]]
  /\ travail' = [travail EXCEPT ![f].etape = "annoncer"]
  /\ UNCHANGED <<docs, journal, offset, charge, ecrits, coupes, tus>>

annoncerChangementDocument(f) ==
  /\ travail[f].etape = "annoncer"
  /\ journal' = Append(journal, travail[f].doc)
  /\ travail' = [travail EXCEPT ![f] = Libre]
  /\ UNCHANGED <<docs, fichier, offset, charge, ecrits, histoire>>

(* A write of the file or of the journal fails: it is logged, the call goes *)
(* on to its answer.                                                        *)
EcrireEnVain(f) ==
  LET t == travail[f] IN
  /\ t.etape \in {"ouvrir", "ecrire", "annoncer"}
  /\ coupes' = IF t.etape = "ecrire" THEN coupes \cup {t.doc} ELSE coupes
  /\ tus' = tus \cup {t.doc}
  /\ travail' = [travail EXCEPT ![f] = Libre]
  /\ UNCHANGED <<docs, disque, offset, charge, ecrits, quarts>>

-----------------------------------------------------------------------------
(* relireLesNouveauxDocuments: the size of the journal; then, under the     *)
(* lock, the files it names between the offset and that size.               *)

RunQuery(f) ==
  /\ Sert(f) /\ Ou[f] \in Servis
  /\ travail' = [travail EXCEPT ![f] =
                   [Appel("requete", "stat", Aucun, 0) EXCEPT !.fin = Len(journal)]]
  /\ UNCHANGED <<docs, disque, offset, charge, ecrits, histoire>>

derniereRelecture(p) ==
  \E g \in Fils : Ou[g] = p /\ travail[g].etape \in {"lire", "poser"}

relireLesNouveauxDocuments(f) ==
  LET t == travail[f] IN
  /\ t.etape = "stat" /\ ~derniereRelecture(Ou[f])
  /\ travail' = [travail EXCEPT ![f] =
                   IF t.fin <= offset[Ou[f]] THEN Libre
                   ELSE [t EXCEPT !.etape = "lire", !.reste = SubSeq(journal, offset[Ou[f]] + 1, t.fin)]]
  /\ UNCHANGED <<docs, disque, offset, charge, ecrits, histoire>>

(* The next file; one that cannot be read is passed over.                   *)
RelireUnFichier(f) ==
  LET t == travail[f]
      d == Head(t.reste)
  IN
  /\ t.etape = "lire" /\ t.reste # <<>>
  /\ travail' = [travail EXCEPT ![f] =
                   IF Lu(d) = 0 THEN [t EXCEPT !.reste = Tail(@)]
                   ELSE [t EXCEPT !.reste = Tail(@), !.etape = "poser", !.doc = d, !.val = Lu(d)]]
  /\ UNCHANGED <<docs, disque, offset, charge, ecrits, histoire>>

Poser(f) ==
  LET t == travail[f] IN
  /\ t.etape = "poser"
  /\ docs' = [docs EXCEPT ![Ou[f]][t.doc] = t.val]
  /\ travail' = [travail EXCEPT ![f].etape = "lire"]
  /\ UNCHANGED <<disque, offset, charge, ecrits, histoire>>

\* Fault: the offset goes to the end of the journal as it now is.
FinirALaFin(f) ==
  /\ travail[f].etape = "lire" /\ travail[f].reste = <<>>
  /\ offset' = [offset EXCEPT ![Ou[f]] = Len(journal)]
  /\ travail' = [travail EXCEPT ![f] = Libre]
  /\ UNCHANGED <<docs, disque, charge, ecrits, histoire>>

\* Fault: the size noted is added to the offset, in place of what was read.
FinirEnAjoutant(f) ==
  /\ travail[f].etape = "lire" /\ travail[f].reste = <<>>
  /\ offset' = [offset EXCEPT ![Ou[f]] = @ + travail[f].fin]
  /\ travail' = [travail EXCEPT ![f] = Libre]
  /\ UNCHANGED <<docs, disque, charge, ecrits, histoire>>

FinDeRelecture(f) ==
  /\ travail[f].etape = "lire" /\ travail[f].reste = <<>>
  /\ offset' = [offset EXCEPT ![Ou[f]] = travail[f].fin]
  /\ travail' = [travail EXCEPT ![f] = Libre]
  /\ UNCHANGED <<docs, disque, charge, ecrits, histoire>>

-----------------------------------------------------------------------------
(* A process stops, whatever it was doing, and starts: chargerDocuments     *)
(* notes the size of the journal, lists the directory (S: a file may appear *)
(* in between), then reads the files one by one; only then are calls served.*)

Redemarrer(p) ==
  LET siens(e) == {travail[f].doc : f \in {g \in Fils : Ou[g] = p /\ travail[g].etape = e}} IN
  /\ docs' = [docs EXCEPT ![p] = [d \in Documents |-> 0]]
  /\ offset' = [offset EXCEPT ![p] = Len(journal)]
  /\ \E S \in SUBSET Documents :
       {d \in Documents : fichier[d] # 0} \subseteq S /\ charge' = [charge EXCEPT ![p] = S]
  /\ travail' = [f \in Fils |-> IF Ou[f] = p THEN Libre ELSE travail[f]]
  /\ coupes' = coupes \cup siens("ecrire")
  /\ tus' = tus \cup siens("annoncer")
  /\ UNCHANGED <<disque, ecrits, quarts>>

chargerDocuments(p) ==
  /\ \E d \in charge[p] :
       /\ charge' = [charge EXCEPT ![p] = @ \ {d}]
       /\ docs' = [docs EXCEPT ![p][d] = Lu(d)]
  /\ UNCHANGED <<disque, offset, travail, ecrits, histoire>>

-----------------------------------------------------------------------------
Etape(f) ==
  \/ LireLeFichier(f)
  \/ Garder(f)
  \/ Ranger(f)
  \/ Ouvrir(f)
  \/ persisterDocument(f)
  \/ annoncerChangementDocument(f)
  \/ EcrireEnVain(f)
  \/ relireLesNouveauxDocuments(f)
  \/ RelireUnFichier(f)
  \/ Poser(f)
  \/ FinDeRelecture(f)

Next ==
  \/ \E f \in Fils :
       \/ \E d \in Documents :
            \/ GetDocument(f, d)
            \/ CommitDocuments(f, d)
            \/ publierHistoriqueDeBataille(f, d)
            \/ crediterCartesDePoints(f, d)
       \/ RunQuery(f)
       \/ Etape(f)
  \/ \E p \in Processus : Redemarrer(p) \/ chargerDocuments(p)

Spec == Init /\ [][Next]_vars

-----------------------------------------------------------------------------
(* Properties.                                                              *)

Etapes == {"libre", "disque", "garder", "ranger", "ouvrir", "ecrire", "annoncer",
           "stat", "lire", "poser"}

Travaux ==
  [op : {"rien", "get", "carte", "put", "requete"}, etape : Etapes,
   doc : Documents \cup {Aucun}, val : Nat, reste : Seq(Documents), fin : Nat]

\* Every variable is of its type (documentStore, derniereRelecture).
TypeOK ==
  /\ docs \in [Processus -> [Documents -> Nat]]
  /\ fichier \in [Documents -> Nat \cup {Partiel}]
  /\ journal \in Seq(Documents)
  /\ offset \in [Processus -> Nat]
  /\ \A p \in Processus : offset[p] <= Len(journal)
  /\ charge \in [Processus -> SUBSET Documents]
  /\ travail \in [Fils -> Travaux]
  /\ ecrits \in 0..MaxEcrits
  /\ quarts \in [Cartes -> Nat]
  /\ coupes \subseteq Documents
  /\ tus \subseteq Documents

(* What may still change what process p knows of document d, or its file.  *)
EnChemin(p, d) ==
  \/ \E i \in offset[p] + 1 .. Len(journal) : journal[i] = d
  \/ d \in charge[p]
  \/ \E f \in Fils :
       /\ travail[f].doc = d
       /\ \/ travail[f].etape = "annoncer"
          \/ Ou[f] = p /\ travail[f].etape \in {"ouvrir", "ecrire"}

(* A process that has read what the journal names serves each document as   *)
(* its file holds it, however the sibling's writes, its own writes, queries *)
(* and its start crossed on the way (ugcstore_runquery.go:132,              *)
(* ugcstore.go:200).  Held when no fallback read is overtaken by a write.   *)
CaughtUp ==
  \A p \in Processus, d \in Documents \ (coupes \cup tus) :
    EnChemin(p, d) \/ Lu(d) \in {0, docs[p][d]}

(* Nobody writes a document between the read of its file by a fallback and  *)
(* the place that read takes in memory.                                     *)
RepliFrais == \A f \in Fils : travail[f].etape = "garder" => travail[f].val = fichier[travail[f].doc]

(* No shift is lost from a card: its file counts at least the shifts that   *)
(* were written, whatever handlers credit it together, whatever writes fail *)
(* or processes restart (carteMu, coop_carte_points.go:180), unless a write *)
(* was stopped between the truncation and the bytes.                        *)
CreditsStay ==
  \A d \in Cartes \ coupes : fichier[d] >= quarts[d] \/ (fichier[d] = Partiel /\ carteMu)

-----------------------------------------------------------------------------
(* What the properties rest on.                                             *)

(* Who does what where; a process that starts serves nothing.               *)
Roles ==
  \A f \in Fils :
    LET t == travail[f] IN
    /\ t.etape \in {"disque", "garder"} => t.op \in {"get", "carte"}
    /\ t.etape \in {"ranger", "ouvrir", "ecrire", "annoncer"} => t.op \in {"put", "carte"}
    /\ t.etape \in {"stat", "lire", "poser"} => t.op = "requete"
    /\ t.etape = "libre" => t = Libre
    /\ t.op \in {"get", "requete"} => Ou[f] # Arbitre
    /\ t.op \in {"get", "put", "carte"} \/ t.etape = "poser" => t.doc \in Documents
    /\ t.op = "put" => t.doc \notin Cartes
    /\ t.op = "carte" => Ou[f] = Arbitre /\ t.doc \in Cartes
    /\ t.etape # "libre" => charge[Ou[f]] = {}

UnSeulCredit == \A f, g \in Fils : travail[f].op = "carte" /\ travail[g].op = "carte" => f = g

(* A credit starts from what was written, in the file and in memory.        *)
CreditSuivi ==
  \A d \in Cartes \ coupes :
    /\ fichier[d] = Partiel \/ fichier[d] >= quarts[d]
    /\ fichier[d] = Partiel => \E f \in Fils : travail[f].op = "carte" /\ travail[f].etape = "ecrire" /\ travail[f].doc = d
    /\ docs[Arbitre][d] = 0 \/ docs[Arbitre][d] >= quarts[d]
    /\ \A f \in Fils : travail[f].op = "carte" /\ travail[f].doc = d =>
         /\ travail[f].etape = "garder" => travail[f].val >= quarts[d]
         /\ travail[f].etape \in {"ranger", "ouvrir", "ecrire"} => travail[f].val > quarts[d]
         /\ travail[f].etape \in {"ouvrir", "ecrire"} => docs[Arbitre][d] = travail[f].val
         /\ travail[f].etape = "ecrire" => fichier[d] = Partiel

CreditInv == Roles /\ UnSeulCredit /\ CreditSuivi

Relit(f, p) == Ou[f] = p /\ travail[f].etape \in {"lire", "poser"}

(* One reading of the journal at a time, of what it named when it began.    *)
RelectureInv ==
  /\ \A f, g \in Fils : Relit(f, Ou[g]) /\ Relit(g, Ou[g]) => f = g
  /\ \A f \in Fils : travail[f].etape \in {"stat", "lire", "poser"} => travail[f].fin <= Len(journal)
  /\ \A f \in Fils : Relit(f, Ou[f]) =>
       LET lu == travail[f].fin - Len(travail[f].reste) IN
       /\ offset[Ou[f]] <= lu
       /\ \A i \in 1..Len(travail[f].reste) : travail[f].reste[i] = journal[lu + i]
  /\ \A f \in Fils : travail[f].etape = "poser" =>
       \E i \in offset[Ou[f]] + 1 .. Len(journal) : journal[i] = travail[f].doc

(* Process p has passed entry i of the journal.                             *)
Vu(p, i) ==
  \/ i <= offset[p]
  \/ \E f \in Fils : Relit(f, p) /\ i <= travail[f].fin - Len(travail[f].reste)

Annonce(p, d) == \E i \in 1..Len(journal) : journal[i] = d /\ ~Vu(p, i)

EnMain(f, p, d) ==
  /\ travail[f].doc = d
  /\ travail[f].etape = "annoncer" \/ (Ou[f] = p /\ travail[f].etape \in {"ouvrir", "ecrire"})

EnRoute(p, d) == d \in charge[p] \/ Annonce(p, d) \/ \E f \in Fils : EnMain(f, p, d)

Pose(f, p, d) == Ou[f] = p /\ travail[f].etape = "poser" /\ travail[f].doc = d

(* What is in no way is known, or about to be placed.                       *)
Sait(p, d) ==
  \/ EnRoute(p, d)
  \/ Lu(d) = 0
  \/ \E f \in Fils : Pose(f, p, d) /\ travail[f].val = Lu(d)
  \/ docs[p][d] = Lu(d) /\ \A f \in Fils : ~Pose(f, p, d)

Suivi == \A p \in Processus, d \in Documents \ (coupes \cup tus) : Sait(p, d)

IInv == TypeOK /\ CreditInv /\ RelectureInv /\ Suivi
=============================================================================
