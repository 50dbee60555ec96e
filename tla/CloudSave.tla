------------------------------ MODULE CloudSave ------------------------------
(***************************************************************************)
(* The cloud save of one account (cloudsave_nextendo.go): a copy in memory,*)
(* a record file replaced by a rename, and the marker file of the starter  *)
(* grant, which raises a new or low save to some minimums once.  A call    *)
(* holds s.mu from the load to its end, and on its way the record may be   *)
(* written and the marker not; the process may stop anywhere, a write may  *)
(* fail.  Accounts share nothing but the lock.  The requests are readable: *)
(* one that is not is answered with a success and nothing is written       *)
(* (replay.go:768, 990).                                                   *)
(*                                                                         *)
(* Data: of a record, the deltas merged into it, whether one of the        *)
(* minimums is not met, whether its level is 10 or more, and whether it    *)
(* bears the penalty.  A delta is merged once however often it is sent.    *)
(***************************************************************************)
EXTENDS Naturals

CONSTANTS
  Ecritures,  \* the deltas and names the console writes
  Octroi,     \* the starter grant, as one more thing a record may hold
  Appels,     \* the calls the console may have under way at once
  Aucun,      \* no record
  MaxPannes   \* bound: writes of a file that fail

VARIABLES
  fichier,  \* the record file
  marque,   \* the marker file is there
  mem,      \* s.mem
  verrou,   \* what the call that holds s.mu is about to do
  absents,  \* the calls that were told there is no record, and create one
  pannes,   \* writes that failed so far
  acquis,   \* the writes the console was told are done, since its last upload
  recu      \* what the logins and uploads answered so far were

vars == <<fichier, marque, mem, verrou, absents, pannes, acquis, recu>>
histoire == <<acquis, recu>>

Fiches == [fait : SUBSET (Ecritures \cup {Octroi}), bas : BOOLEAN, haut : BOOLEAN,
           peine : BOOLEAN]

ASSUME OctroiAssumption == Octroi \notin Ecritures
ASSUME AucunAssumption == Aucun \notin Fiches
ASSUME BorneAssumption == MaxPannes \in Nat

-----------------------------------------------------------------------------
(* Records.                                                                 *)

Vide == [fait |-> {}, bas |-> TRUE, haut |-> FALSE, peine |-> FALSE]
Libre == [etape |-> "libre", op |-> "rien", w |-> Octroi, rec |-> Vide, releve |-> FALSE]

(* What a login or an upload may be answered from: a record read, uploaded, *)
(* made and written, or made while one of its writes failed.                *)
Reponses == {"login", "create", "neuf", "manque"}

hasRecord == mem # Aucun \/ fichier # Aucun

\* loadLocked: memory, then the file, then nothing.
Charge == IF mem # Aucun THEN mem ELSE IF fichier # Aucun THEN fichier ELSE Vide

\* A delta may spend what is there, raise the level, or bring the penalty.
Effets == {"rien", "depense", "monte", "carton"}
mergeSaveData(r, w, e) ==
  [fait |-> r.fait \cup {w}, bas |-> r.bas \/ e = "depense",
   haut |-> r.haut \/ e = "monte", peine |-> r.peine \/ e = "carton"]

\* ensureSaveProgressionMinimums on a record that misses one.
Relever(r) == [r EXCEPT !.fait = @ \cup {Octroi}, !.bas = FALSE]

-----------------------------------------------------------------------------
(* The calls, up to their first write.  loadLocked answers a copy of what   *)
(* is in memory, but what it reads from the file it puts in memory and      *)
(* answers as it is: the call then changes the memory too.                  *)

Prendre(op, w, rec, releve, etape) ==
  /\ verrou.etape = "libre"
  /\ verrou' = [etape |-> etape, op |-> op, w |-> w, rec |-> rec, releve |-> releve]
  /\ UNCHANGED <<fichier, marque, pannes, histoire>>

EnMemoire(rec) == mem' = IF mem = Aucun /\ fichier # Aucun THEN rec ELSE mem

WriteSaveRecord(w, e) ==
  LET r == mergeSaveData(Charge, w, e) IN
  /\ Prendre("apply", w, r, FALSE, "ecrire") /\ EnMemoire(r) /\ UNCHANGED absents

ChangeUserName(w) ==
  LET r == mergeSaveData(Charge, w, "rien") IN
  /\ Prendre("setString", w, r, FALSE, "ecrire") /\ EnMemoire(r) /\ UNCHANGED absents

EtapeDuLogin(r) ==
  IF r # Charge THEN "ecrire" ELSE IF marque THEN "repondre" ELSE "marquer"

(* GetSaveRecord of a player who has a record: the penalty goes, and the    *)
(* minimums are met once.                                                   *)
snapshotForLogin ==
  LET releve == ~marque /\ ~Charge.haut /\ Charge.bas
      r == IF releve THEN [Relever(Charge) EXCEPT !.peine = FALSE]
                     ELSE [Charge EXCEPT !.peine = FALSE]
  IN /\ hasRecord
     /\ Prendre("login", Octroi, r, releve, EtapeDuLogin(r))
     /\ EnMemoire(r) /\ UNCHANGED absents

(* CreateSaveRecord: the console uploads the save it has.                   *)
CreateSaveRecord(bas, haut) ==
  LET neuf == ~marque /\ ~hasRecord /\ bas
      r == [Vide EXCEPT !.bas = bas, !.haut = haut]
  IN /\ Prendre("create", Octroi, IF neuf THEN Relever(r) ELSE r, neuf, "ecrire")
     /\ UNCHANGED <<mem, absents>>

(* GetSaveRecord of a player without a record, with the flag recordneuf:    *)
(* has() is asked under its own lock, the record is made under another.     *)
GetSaveRecordAbsent(a) ==
  /\ verrou.etape = "libre" /\ ~hasRecord
  /\ absents' = absents \cup {a}
  /\ UNCHANGED <<fichier, marque, mem, verrou, pannes, histoire>>

creerRecordJoueurNeuf(a) ==
  /\ a \in absents
  /\ Prendre("neuf", Octroi, Relever(Vide), TRUE, "ecrire")
  /\ absents' = absents \ {a}
  /\ UNCHANGED mem

-----------------------------------------------------------------------------
(* The writes of the call that holds the lock, in their order.              *)

(* Who writes no marker: a delta, and a call that found it in its place.    *)
PasseLaMarque(v) == v.op = "apply" \/ (v.op # "setString" /\ marque)

\* Fault: an upload leaves no marker.
PersisterSansMarquer ==
  /\ verrou.etape = "ecrire"
  /\ fichier' = verrou.rec
  /\ mem' = IF verrou.op = "login" THEN verrou.rec ELSE mem
  /\ acquis' = IF verrou.op = "create" THEN {} ELSE acquis
  /\ verrou' = [verrou EXCEPT !.etape =
                  IF PasseLaMarque(verrou) \/ verrou.op = "create" THEN "repondre" ELSE "marquer"]
  /\ UNCHANGED <<marque, absents, pannes, recu>>

persistLocked ==
  /\ verrou.etape = "ecrire"
  /\ fichier' = verrou.rec
  /\ mem' = IF verrou.op = "login" THEN verrou.rec ELSE mem
  /\ acquis' = IF verrou.op = "create" THEN {} ELSE acquis
  /\ verrou' = [verrou EXCEPT !.etape = IF PasseLaMarque(verrou) THEN "repondre" ELSE "marquer"]
  /\ UNCHANGED <<marque, absents, pannes, recu>>

markStarterGrantApplied ==
  /\ verrou.etape = "marquer"
  /\ marque' = TRUE
  /\ verrou' = [verrou EXCEPT !.etape = "repondre"]
  /\ UNCHANGED <<fichier, mem, absents, pannes, histoire>>

\* Fault: a delta is answered from memory and written with the next one.
RepondreSansEcrire ==
  /\ verrou.etape = "repondre" \/ (verrou.etape = "ecrire" /\ verrou.op = "apply")
  /\ mem' = IF verrou.op \in {"login", "manque"} THEN mem ELSE verrou.rec
  /\ acquis' = IF verrou.op \in {"apply", "setString"} THEN acquis \cup {verrou.w} ELSE acquis
  /\ recu' = recu \cup ({verrou.op} \cap Reponses)
  /\ verrou' = Libre
  /\ UNCHANGED <<fichier, marque, absents, pannes>>

\* Fault: whatever was asked is noted as written.
RepondreToutCompte ==
  /\ verrou.etape = "repondre"
  /\ mem' = IF verrou.op \in {"login", "manque"} THEN mem ELSE verrou.rec
  /\ acquis' = acquis \cup {verrou.w}
  /\ recu' = recu \cup ({verrou.op} \cap Reponses)
  /\ verrou' = Libre
  /\ UNCHANGED <<fichier, marque, absents, pannes>>

(* The answer, and the new copy in memory.                                  *)
Repondre ==
  /\ verrou.etape = "repondre"
  /\ mem' = IF verrou.op \in {"login", "manque"} THEN mem ELSE verrou.rec
  /\ acquis' = IF verrou.op \in {"apply", "setString"} THEN acquis \cup {verrou.w} ELSE acquis
  /\ recu' = recu \cup ({verrou.op} \cap Reponses)
  /\ verrou' = Libre
  /\ UNCHANGED <<fichier, marque, absents, pannes>>

(* A write fails.  The call ends there, with an error, and what the load    *)
(* left in memory stays, as does a record already in its file; but the      *)
(* creation of a record only logs the failure, makes no second write and is *)
(* answered with a record that is not in memory.                            *)
EcrireEnVain ==
  /\ verrou.etape \in {"ecrire", "marquer"} /\ pannes < MaxPannes
  /\ pannes' = pannes + 1
  /\ verrou' = IF verrou.op = "neuf" THEN [verrou EXCEPT !.etape = "repondre", !.op = "manque"]
                                     ELSE Libre
  /\ UNCHANGED <<fichier, marque, mem, absents, histoire>>

(* The process stops, whatever it was doing, and starts with no memory.     *)
Redemarrer ==
  /\ mem' = Aucun
  /\ verrou' = Libre
  /\ absents' = {}
  /\ UNCHANGED <<fichier, marque, pannes, histoire>>

-----------------------------------------------------------------------------
Init ==
  /\ fichier \in {Aucun} \cup [fait : {{}}, bas : BOOLEAN, haut : BOOLEAN, peine : BOOLEAN]
  /\ marque = FALSE
  /\ mem = Aucun /\ verrou = Libre /\ absents = {}
  /\ pannes = 0
  /\ acquis = {} /\ recu = {}

(* A call that was told there is no record is still under way.              *)
Appel ==
  \/ \E w \in Ecritures, e \in Effets : WriteSaveRecord(w, e)
  \/ \E w \in Ecritures : ChangeUserName(w)
  \/ snapshotForLogin
  \/ \E bas, haut \in BOOLEAN : CreateSaveRecord(bas, haut)

Next ==
  \/ absents # Appels /\ Appel
  \/ \E a \in Appels \ absents : GetSaveRecordAbsent(a)
  \/ \E a \in absents : creerRecordJoueurNeuf(a)
  \/ persistLocked
  \/ markStarterGrantApplied
  \/ Repondre
  \/ EcrireEnVain
  \/ Redemarrer

Spec == Init /\ [][Next]_vars

-----------------------------------------------------------------------------
(* Properties.                                                              *)

Travaux == [etape : {"libre", "ecrire", "marquer", "repondre"},
            op : {"rien", "apply", "setString"} \cup Reponses,
            w : Ecritures \cup {Octroi}, rec : Fiches, releve : BOOLEAN]

\* Every variable is of its type (saveRecordStore, SaveRecord).
TypeOK ==
  /\ fichier \in Fiches \cup {Aucun}
  /\ mem \in Fiches \cup {Aucun}
  /\ marque \in BOOLEAN
  /\ verrou \in Travaux
  /\ verrou.op \in {"apply", "setString"} => verrou.w \in Ecritures
  /\ absents \subseteq Appels
  /\ pannes \in Nat
  /\ acquis \subseteq Ecritures
  /\ recu \subseteq Reponses

(* A write the console was told is done is in the file, and in what it will *)
(* be served, whatever fails or stops later: apply and setString answer     *)
(* after the rename, and the memory a later call starts from is never       *)
(* behind what was answered.  Held by a console that waits for its answers. *)
AnsweredStay ==
  \A w \in acquis :
    /\ fichier # Aucun /\ w \in fichier.fait
    /\ mem # Aucun => w \in mem.fait

(* "The sidecar marker prevents later logins from restoring funds/licenses  *)
(* that the player has spent" (cloudsave_nextendo.go:361): once a login or  *)
(* an upload was answered, no call raises the save to the minimums again,   *)
(* through failures and restarts.  One answer does not count, that of a     *)
(* creation whose record or marker could not be written: the code gives it  *)
(* without the marker, and the next login raises the save once more.        *)
GrantedOnce == recu \ {"manque"} # {} => ~verrou.releve

(* The record is written before the marker (cloudsave_nextendo.go:173), so  *)
(* that no stop leaves the marker of a grant with no record to bear it.     *)
MarkerHasRecord == marque => fichier # Aucun
=============================================================================
