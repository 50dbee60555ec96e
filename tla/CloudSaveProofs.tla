--------------------------- MODULE CloudSaveProofs ---------------------------
(***************************************************************************)
(* What CloudSave promises, for any deltas and any number of failures and  *)
(* restarts.  Types hold, and no record is lost, whatever calls overlap;   *)
(* the rest needs that a call which was told there is no record does not   *)
(* make one when another did, as of a console that waits for its answers.  *)
(***************************************************************************)
EXTENDS CloudSave, TLAPS

(* The console has at most one call under way.                              *)
UnSeul == \A a, b \in Appels : a = b

(* What has() answered to a call that makes a record is still so.           *)
AbsenceVraie == absents # {} => ~hasRecord

-----------------------------------------------------------------------------
(* Types.                                                                   *)

LEMMA ChargeType == TypeOK => Charge \in Fiches
  BY AucunAssumption DEF TypeOK, Charge, Vide, Fiches

LEMMA MergeType == ASSUME NEW r \in Fiches, NEW w \in Ecritures, NEW e
                   PROVE  mergeSaveData(r, w, e) \in Fiches
  BY DEF Fiches, mergeSaveData

LEMMA ReleverType == ASSUME NEW r \in Fiches PROVE Relever(r) \in Fiches
  BY DEF Fiches, Relever

LEMMA LibreType == Libre \in Travaux /\ Libre.op = "rien"
  BY DEF Libre, Travaux, Vide, Fiches, Reponses

(* What each call asks for as it takes the lock.                            *)
LEMMA PrendreType ==
  ASSUME TypeOK, NEW op \in {"apply", "setString"} \cup Reponses,
         NEW w \in Ecritures \cup {Octroi}, NEW rec \in Fiches, NEW releve \in BOOLEAN,
         NEW etape \in {"ecrire", "marquer", "repondre"},
         op \in {"apply", "setString"} => w \in Ecritures,
         Prendre(op, w, rec, releve, etape), mem' \in Fiches \cup {Aucun},
         absents' \subseteq Appels
  PROVE  TypeOK'
  BY DEF TypeOK, Prendre, Travaux, histoire

LEMMA EnMemoireType == ASSUME TypeOK, NEW rec \in Fiches, EnMemoire(rec)
                       PROVE  mem' \in Fiches \cup {Aucun}
  BY DEF EnMemoire, TypeOK

LEMMA EcritureType ==
  ASSUME TypeOK, NEW w \in Ecritures,
         ChangeUserName(w) \/ \E e \in Effets : WriteSaveRecord(w, e)
  PROVE  TypeOK'
  <1>1. ASSUME NEW op \in {"apply", "setString"}, NEW r \in Fiches,
               Prendre(op, w, r, FALSE, "ecrire"), EnMemoire(r), UNCHANGED absents
        PROVE  TypeOK'
    <2>1. mem' \in Fiches \cup {Aucun} /\ absents' \subseteq Appels
      BY <1>1, EnMemoireType DEF TypeOK
    <2> QED
      BY <1>1, <2>1, PrendreType
  <1>2. ASSUME NEW e \in Effets \cup {"rien"} PROVE mergeSaveData(Charge, w, e) \in Fiches
    BY ChargeType, MergeType
  <1> QED
    BY <1>1, <1>2 DEF ChangeUserName, WriteSaveRecord

LEMMA LoginType == ASSUME TypeOK, snapshotForLogin PROVE TypeOK'
  <1> DEFINE releve == ~marque /\ ~Charge.haut /\ Charge.bas
             r == IF releve THEN [Relever(Charge) EXCEPT !.peine = FALSE]
                            ELSE [Charge EXCEPT !.peine = FALSE]
  <1>1. Charge \in Fiches /\ Relever(Charge) \in Fiches
    BY ChargeType, ReleverType
  <1>2. r \in Fiches
    BY <1>1 DEF Fiches
  <1>3. /\ Prendre("login", Octroi, r, releve, EtapeDuLogin(r))
        /\ EnMemoire(r) /\ UNCHANGED absents
    BY DEF snapshotForLogin
  <1>4. EtapeDuLogin(r) \in {"ecrire", "marquer", "repondre"}
    BY DEF EtapeDuLogin
  <1>5. releve \in BOOLEAN
    OBVIOUS
  <1>6. mem' \in Fiches \cup {Aucun} /\ absents' \subseteq Appels
    BY <1>2, <1>3, EnMemoireType DEF TypeOK
  <1> HIDE DEF r, releve
  <1> QED
    BY <1>2, <1>3, <1>4, <1>5, <1>6, PrendreType DEF Reponses

LEMMA CreateType ==
  ASSUME TypeOK, NEW bas \in BOOLEAN, NEW haut \in BOOLEAN, CreateSaveRecord(bas, haut)
  PROVE  TypeOK'
  <1> DEFINE neuf == ~marque /\ ~hasRecord /\ bas
             r == [Vide EXCEPT !.bas = bas, !.haut = haut]
             rec == IF neuf THEN Relever(r) ELSE r
  <1>1. r \in Fiches
    BY DEF Vide, Fiches
  <1>2. rec \in Fiches /\ neuf \in BOOLEAN
    BY <1>1, ReleverType
  <1>3. Prendre("create", Octroi, rec, neuf, "ecrire") /\ UNCHANGED <<mem, absents>>
    BY DEF CreateSaveRecord
  <1>4. mem' \in Fiches \cup {Aucun} /\ absents' \subseteq Appels
    BY <1>3 DEF TypeOK
  <1> HIDE DEF rec, neuf
  <1> QED
    BY <1>2, <1>3, <1>4, PrendreType DEF Reponses

LEMMA NeufType == ASSUME TypeOK, NEW a \in absents, creerRecordJoueurNeuf(a) PROVE TypeOK'
  <1>1. Relever(Vide) \in Fiches
    BY ReleverType DEF Vide, Fiches
  <1>2. mem' \in Fiches \cup {Aucun} /\ absents' \subseteq Appels
    BY DEF creerRecordJoueurNeuf, TypeOK
  <1> QED
    BY <1>1, <1>2, PrendreType DEF creerRecordJoueurNeuf, Reponses

LEMMA TypeStep == ASSUME TypeOK, [Next]_vars PROVE TypeOK'
  <1>1. CASE Appel
    BY <1>1, EcritureType, LoginType, CreateType DEF Appel
  <1>2. ASSUME NEW a \in Appels, GetSaveRecordAbsent(a) PROVE TypeOK'
    BY <1>2 DEF GetSaveRecordAbsent, TypeOK, histoire
  <1>3. ASSUME NEW a \in absents, creerRecordJoueurNeuf(a) PROVE TypeOK'
    BY <1>3, NeufType
  <1>4. CASE persistLocked
    BY <1>4 DEF persistLocked, TypeOK, Travaux
  <1>5. CASE markStarterGrantApplied
    BY <1>5 DEF markStarterGrantApplied, TypeOK, Travaux, histoire
  <1>6. CASE Repondre
    <2> QED
      BY <1>6, LibreType DEF Repondre, TypeOK, Travaux
  <1>7. CASE EcrireEnVain
    <2>1. verrou' \in Travaux /\ verrou'.op \notin {"apply", "setString"}
      BY <1>7, LibreType DEF EcrireEnVain, TypeOK, Travaux, Reponses
    <2>2. pannes' \in Nat /\ UNCHANGED <<fichier, mem, marque, absents, acquis, recu>>
      BY <1>7 DEF EcrireEnVain, TypeOK, histoire
    <2> QED
      BY <2>1, <2>2 DEF TypeOK
  <1>8. CASE Redemarrer
    BY <1>8, LibreType DEF Redemarrer, TypeOK, histoire
  <1>9. CASE UNCHANGED vars
    BY <1>9 DEF vars, TypeOK, histoire
  <1> QED
    BY <1>1, <1>2, <1>3, <1>4, <1>5, <1>6, <1>7, <1>8, <1>9 DEF Next

(* Every variable of the store is of its type in every reachable state.     *)
THEOREM SavesTypeCorrect == Spec => []TypeOK
  <1>1. ASSUME Init PROVE TypeOK
    <2>1. [fait : {{}}, bas : BOOLEAN, haut : BOOLEAN, peine : BOOLEAN] \subseteq Fiches
      BY DEF Fiches
    <2>2. fichier \in Fiches \cup {Aucun}
      BY <1>1, <2>1 DEF Init
    <2> QED
      BY <1>1, <2>2, LibreType DEF Init, TypeOK
  <1>2. TypeOK /\ [Next]_vars => TypeOK'
    BY TypeStep
  <1> QED
    BY <1>1, <1>2, PTL DEF Spec

-----------------------------------------------------------------------------
(* The invariant.  No marker and no copy in memory without a record; the    *)
(* call that holds the lock works on a record that bears all that was       *)
(* answered, and once it wrote it, the file is that record, unless it is a  *)
(* creation that failed; any other answered login or upload left the        *)
(* marker, so a call that raises the save comes before the first of them.   *)

(* A creation that failed writes no more.                                   *)
EchecOK == verrou.op = "manque" => verrou.etape = "repondre"

TravailOK ==
  /\ EchecOK
  /\ verrou.etape \in {"marquer", "repondre"} /\ verrou.op # "manque" => fichier # Aucun
  /\ verrou.etape = "repondre" /\ verrou.op \in {"login", "create", "neuf"} => marque
  /\ verrou.etape = "ecrire" /\ verrou.op # "create" => acquis \subseteq verrou.rec.fait
  /\ verrou.etape \in {"marquer", "repondre"} /\ verrou.op # "manque" =>
       acquis \subseteq verrou.rec.fait
  /\ verrou.op \in {"apply", "setString"} =>
       /\ verrou.w \in verrou.rec.fait
       /\ verrou.etape \in {"marquer", "repondre"} => fichier = verrou.rec

SaveInv ==
  /\ mem # Aucun => fichier # Aucun
  /\ MarkerHasRecord
  /\ AnsweredStay
  /\ recu \ {"manque"} # {} => marque
  /\ GrantedOnce
  /\ TravailOK

LEMMA InvInit == Init => SaveInv
  BY DEF Init, SaveInv, MarkerHasRecord, AnsweredStay, GrantedOnce, TravailOK, EchecOK, Libre, Vide

(* What a call starts from bears all that was answered.                     *)
LEMMA ChargeAcquis == ASSUME TypeOK, SaveInv PROVE acquis \subseteq Charge.fait
  BY DEF SaveInv, AnsweredStay, Charge, TypeOK

(* A call that takes the lock with a record that bears what was answered.   *)
LEMMA PrendreInv ==
  ASSUME TypeOK, SaveInv,
         NEW op \in {"apply", "setString", "login"},
         NEW w \in Ecritures \cup {Octroi}, NEW rec \in Fiches, NEW releve \in BOOLEAN,
         NEW etape \in {"ecrire", "marquer", "repondre"},
         Prendre(op, w, rec, releve, etape), EnMemoire(rec), UNCHANGED absents,
         acquis \subseteq rec.fait, releve => ~marque,
         etape # "ecrire" => op = "login" /\ hasRecord,
         etape = "repondre" => marque,
         op # "login" => w \in rec.fait
  PROVE  SaveInv'
  <1>1. UNCHANGED <<fichier, marque, acquis, recu, absents>>
    BY DEF Prendre, histoire
  <1>2. mem' \in {mem, rec} /\ (mem' # Aucun => fichier # Aucun)
    BY DEF EnMemoire, SaveInv
  <1>3. AnsweredStay'
    BY <1>1, <1>2 DEF SaveInv, AnsweredStay
  <1>4. verrou' = [etape |-> etape, op |-> op, w |-> w, rec |-> rec, releve |-> releve]
    BY DEF Prendre
  <1>5. TravailOK'
    BY <1>1, <1>4 DEF TravailOK, EchecOK, hasRecord, SaveInv
  <1>6. GrantedOnce'
    BY <1>1, <1>4 DEF GrantedOnce, SaveInv
  <1> QED
    BY <1>1, <1>2, <1>3, <1>5, <1>6 DEF SaveInv, MarkerHasRecord

LEMMA AppelInv == ASSUME TypeOK, SaveInv, Appel PROVE SaveInv'
  <1>2. Charge \in Fiches /\ acquis \subseteq Charge.fait
    BY ChargeType, ChargeAcquis
  <1>3. ASSUME NEW w \in Ecritures, ChangeUserName(w) PROVE SaveInv'
    <2> DEFINE r == mergeSaveData(Charge, w, "rien")
    <2>1. r \in Fiches /\ acquis \subseteq r.fait /\ w \in r.fait
      BY <1>2, MergeType DEF mergeSaveData
    <2>2. Prendre("setString", w, r, FALSE, "ecrire") /\ EnMemoire(r) /\ UNCHANGED absents
      BY <1>3 DEF ChangeUserName
    <2> HIDE DEF r
    <2> QED
      BY <2>1, <2>2, PrendreInv
  <1>4. ASSUME NEW w \in Ecritures, NEW e \in Effets, WriteSaveRecord(w, e) PROVE SaveInv'
    <2> DEFINE r == mergeSaveData(Charge, w, e)
    <2>1. r \in Fiches /\ acquis \subseteq r.fait /\ w \in r.fait
      BY <1>2, MergeType DEF mergeSaveData
    <2>2. Prendre("apply", w, r, FALSE, "ecrire") /\ EnMemoire(r) /\ UNCHANGED absents
      BY <1>4 DEF WriteSaveRecord
    <2> HIDE DEF r
    <2> QED
      BY <2>1, <2>2, PrendreInv
  <1>5. CASE snapshotForLogin
    <2> DEFINE releve == ~marque /\ ~Charge.haut /\ Charge.bas
               r == IF releve THEN [Relever(Charge) EXCEPT !.peine = FALSE]
                              ELSE [Charge EXCEPT !.peine = FALSE]
    <2>1. Relever(Charge) \in Fiches /\ acquis \subseteq Relever(Charge).fait
      BY <1>2, ReleverType DEF Relever, Fiches
    <2>2. r \in Fiches /\ acquis \subseteq r.fait
      BY <1>2, <2>1 DEF Fiches
    <2>3. /\ Prendre("login", Octroi, r, releve, EtapeDuLogin(r))
          /\ EnMemoire(r) /\ UNCHANGED absents /\ hasRecord
      BY <1>5 DEF snapshotForLogin
    <2>4. /\ EtapeDuLogin(r) \in {"ecrire", "marquer", "repondre"}
          /\ EtapeDuLogin(r) = "repondre" => marque
      BY DEF EtapeDuLogin
    <2>5. releve \in BOOLEAN /\ (releve => ~marque)
      OBVIOUS
    <2> HIDE DEF r, releve
    <2> QED
      BY <2>2, <2>3, <2>4, <2>5, PrendreInv
  <1>6. ASSUME NEW bas \in BOOLEAN, NEW haut \in BOOLEAN, CreateSaveRecord(bas, haut)
        PROVE  SaveInv'
    <2> DEFINE neuf == ~marque /\ ~hasRecord /\ bas
               r == [Vide EXCEPT !.bas = bas, !.haut = haut]
    <2>1. UNCHANGED <<fichier, mem, marque, acquis, recu, absents>>
      BY <1>6 DEF CreateSaveRecord, Prendre, histoire
    <2>2. /\ verrou'.etape = "ecrire" /\ verrou'.op = "create"
          /\ verrou'.releve => ~marque
      BY <1>6 DEF CreateSaveRecord, Prendre
    <2>3. TravailOK' /\ GrantedOnce'
      BY <2>1, <2>2 DEF TravailOK, EchecOK, GrantedOnce, SaveInv
    <2>4. AnsweredStay'
      BY <2>1 DEF AnsweredStay, SaveInv
    <2> QED
      BY <2>1, <2>3, <2>4 DEF SaveInv, MarkerHasRecord
  <1> QED
    BY <1>3, <1>4, <1>5, <1>6 DEF Appel

LEMMA NeufInv ==
  ASSUME AbsenceVraie, TypeOK, SaveInv, NEW a \in absents, creerRecordJoueurNeuf(a)
  PROVE  SaveInv'
  <1>1. fichier = Aucun /\ mem = Aucun /\ acquis = {} /\ ~marque /\ recu \ {"manque"} = {}
    BY DEF AbsenceVraie, SaveInv, hasRecord, AnsweredStay, MarkerHasRecord
  <1>2. UNCHANGED <<fichier, mem, marque, acquis, recu>>
    BY DEF creerRecordJoueurNeuf, Prendre, histoire
  <1>3. verrou'.etape = "ecrire" /\ verrou'.op = "neuf"
    BY DEF creerRecordJoueurNeuf, Prendre
  <1>4. TravailOK' /\ GrantedOnce'
    BY <1>1, <1>2, <1>3 DEF TravailOK, EchecOK, GrantedOnce
  <1>5. AnsweredStay' /\ MarkerHasRecord'
    BY <1>1, <1>2 DEF AnsweredStay, MarkerHasRecord
  <1> QED
    BY <1>1, <1>2, <1>4, <1>5 DEF SaveInv

LEMMA PersisterInv == ASSUME TypeOK, SaveInv, persistLocked PROVE SaveInv'
  <1>1. /\ fichier' = verrou.rec /\ verrou.rec # Aucun
        /\ mem' \in {mem, verrou.rec} /\ (verrou.op # "login" => mem' = mem)
        /\ acquis' = IF verrou.op = "create" THEN {} ELSE acquis
        /\ UNCHANGED <<marque, absents, recu>>
    BY AucunAssumption DEF persistLocked, TypeOK, Travaux
  <1>2. acquis' \subseteq verrou.rec.fait
    BY <1>1 DEF SaveInv, TravailOK, EchecOK, persistLocked
  <1>3. verrou' = [verrou EXCEPT !.etape = IF PasseLaMarque(verrou) THEN "repondre" ELSE "marquer"]
    BY DEF persistLocked
  <1>4. /\ verrou'.op = verrou.op /\ verrou'.w = verrou.w /\ verrou'.rec = verrou.rec
        /\ verrou'.releve = verrou.releve
        /\ verrou'.etape \in {"marquer", "repondre"}
        /\ verrou'.etape = "repondre" /\ verrou.op \in {"login", "create", "neuf"} => marque
    BY <1>3 DEF TypeOK, Travaux, PasseLaMarque
  <1>5. TravailOK'
    BY <1>1, <1>2, <1>4 DEF TravailOK, EchecOK, SaveInv, persistLocked
  <1>6. AnsweredStay'
    BY <1>1, <1>2 DEF AnsweredStay, SaveInv
  <1> QED
    BY <1>1, <1>4, <1>5, <1>6 DEF SaveInv, MarkerHasRecord, GrantedOnce

LEMMA MarquerInv == ASSUME TypeOK, SaveInv, markStarterGrantApplied PROVE SaveInv'
  <1>1. /\ UNCHANGED <<fichier, mem, absents, acquis, recu>> /\ marque'
        /\ verrou' = [verrou EXCEPT !.etape = "repondre"] /\ verrou.etape = "marquer"
    BY DEF markStarterGrantApplied, histoire
  <1>2. TravailOK'
    BY <1>1 DEF TravailOK, EchecOK, SaveInv, TypeOK, Travaux
  <1>3. GrantedOnce'
    BY <1>1 DEF GrantedOnce, SaveInv, TypeOK, Travaux
  <1>4. AnsweredStay' /\ MarkerHasRecord'
    BY <1>1 DEF AnsweredStay, MarkerHasRecord, SaveInv, TravailOK, EchecOK
  <1> QED
    BY <1>1, <1>2, <1>3, <1>4 DEF SaveInv

LEMMA RepondreInv == ASSUME TypeOK, SaveInv, Repondre PROVE SaveInv'
  <1>1. UNCHANGED <<fichier, marque, absents>> /\ verrou' = Libre
    BY DEF Repondre
  <1>2. ASSUME verrou.op = "manque" PROVE AnsweredStay'
    <2>1. UNCHANGED <<mem, acquis>>
      BY <1>2 DEF Repondre
    <2> QED
      BY <1>1, <2>1 DEF SaveInv, AnsweredStay
  <1>3. ASSUME verrou.op # "manque" PROVE AnsweredStay'
    <2>1. fichier # Aucun /\ acquis' \subseteq verrou.rec.fait
      BY <1>3 DEF Repondre, SaveInv, TravailOK, EchecOK
    <2>2. /\ acquis' # acquis => fichier = verrou.rec
          /\ mem' = IF verrou.op = "login" THEN mem ELSE verrou.rec
          /\ verrou.op = "login" => acquis' = acquis
      BY <1>3 DEF Repondre, SaveInv, TravailOK, EchecOK
    <2> QED
      BY <1>1, <2>1, <2>2 DEF AnsweredStay, SaveInv
  <1>4. AnsweredStay' /\ (mem' # Aucun => fichier' # Aucun)
    BY <1>1, <1>2, <1>3 DEF SaveInv, Repondre, TravailOK, EchecOK
  <1>5. recu' \ {"manque"} # {} => marque'
    BY DEF Repondre, SaveInv, TravailOK, EchecOK, Reponses
  <1>6. TravailOK' /\ GrantedOnce'
    BY <1>1 DEF TravailOK, EchecOK, GrantedOnce, Libre
  <1> QED
    BY <1>1, <1>4, <1>5, <1>6 DEF SaveInv, MarkerHasRecord

(* A write fails: the call is over, or is a creation yet to be answered.    *)
LEMMA EchecPas ==
  ASSUME TypeOK, EcrireEnVain
  PROVE  /\ UNCHANGED <<fichier, marque, mem, absents, acquis, recu>>
         /\ \/ verrou' = Libre
            \/ /\ verrou'.etape = "repondre" /\ verrou'.op = "manque"
               /\ verrou'.releve = verrou.releve
  BY DEF EcrireEnVain, histoire, TypeOK, Travaux

LEMMA EchecInv == ASSUME TypeOK, SaveInv, EcrireEnVain PROVE SaveInv'
  <1>1. TravailOK' /\ GrantedOnce'
    BY EchecPas DEF TravailOK, EchecOK, GrantedOnce, SaveInv, Libre
  <1> QED
    BY EchecPas, <1>1 DEF SaveInv, MarkerHasRecord, AnsweredStay

LEMMA InvStep == ASSUME AbsenceVraie, TypeOK, SaveInv, [Next]_vars PROVE SaveInv'
  <1>1. ASSUME NEW a \in Appels, GetSaveRecordAbsent(a) PROVE SaveInv'
    BY <1>1 DEF GetSaveRecordAbsent, SaveInv, histoire, MarkerHasRecord, AnsweredStay,
                GrantedOnce, TravailOK, EchecOK, hasRecord
  <1>2. CASE EcrireEnVain
    BY <1>2, EchecInv
  <1>3. CASE Redemarrer
    BY <1>3 DEF Redemarrer, SaveInv, histoire, MarkerHasRecord, AnsweredStay,
                GrantedOnce, TravailOK, EchecOK, hasRecord, Libre
  <1>4. CASE UNCHANGED vars
    BY <1>4 DEF vars, SaveInv, histoire, MarkerHasRecord, AnsweredStay,
                GrantedOnce, TravailOK, EchecOK, hasRecord
  <1> QED
    BY <1>1, <1>2, <1>3, <1>4, AppelInv, NeufInv, PersisterInv, MarquerInv, RepondreInv
       DEF Next

LEMMA SaveInvariant == Spec /\ []AbsenceVraie => []SaveInv
  <1>1. TypeOK /\ AbsenceVraie /\ SaveInv /\ [Next]_vars => SaveInv'
    BY InvStep
  <1> QED
    BY <1>1, InvInit, SavesTypeCorrect, PTL DEF Spec

(* However many calls overlap, and through any failure or restart: what was *)
(* answered is kept and the grant is given once after any answer but that   *)
(* of a creation whose writes failed, as long as no record is made by a     *)
(* call for which another made one meanwhile.                               *)
THEOREM UncrossedSavesAreKept ==
  Spec /\ []AbsenceVraie => [](AnsweredStay /\ GrantedOnce)
  <1>1. SaveInv => AnsweredStay /\ GrantedOnce
    BY DEF SaveInv
  <1> QED
    BY <1>1, SaveInvariant, PTL

-----------------------------------------------------------------------------
(* A console that waits for its answers.                                    *)

Attente == absents # {} => ~hasRecord /\ verrou.etape = "libre"

LEMMA AttenteStep == ASSUME UnSeul, TypeOK, Attente, [Next]_vars PROVE Attente'
  <1>1. CASE absents # Appels /\ Appel
    <2>1. absents = {} /\ absents' = {}
      BY <1>1 DEF UnSeul, TypeOK, Appel, WriteSaveRecord, ChangeUserName, snapshotForLogin,
                  CreateSaveRecord
    <2> QED
      BY <2>1 DEF Attente
  <1>2. ASSUME NEW a \in Appels, GetSaveRecordAbsent(a) PROVE Attente'
    BY <1>2 DEF GetSaveRecordAbsent, Attente, hasRecord
  <1>3. ASSUME NEW a \in absents, creerRecordJoueurNeuf(a) PROVE Attente'
    <2>1. absents' = {}
      BY <1>3 DEF creerRecordJoueurNeuf, UnSeul, TypeOK
    <2> QED
      BY <2>1 DEF Attente
  <1>4. CASE persistLocked \/ markStarterGrantApplied \/ Repondre \/ EcrireEnVain
    <2>1. verrou.etape # "libre" /\ absents' = absents
      BY <1>4 DEF persistLocked, markStarterGrantApplied, Repondre, EcrireEnVain
    <2> QED
      BY <2>1 DEF Attente
  <1>5. CASE Redemarrer
    BY <1>5 DEF Redemarrer, Attente
  <1>6. CASE UNCHANGED vars
    BY <1>6 DEF vars, Attente, hasRecord
  <1> QED
    BY <1>1, <1>2, <1>3, <1>4, <1>5, <1>6 DEF Next

LEMMA SeulAttend == UnSeul => (Spec => []AbsenceVraie)
  <1> SUFFICES ASSUME UnSeul PROVE Spec => []AbsenceVraie
    OBVIOUS
  <1>1. Init => Attente
    BY DEF Init, Attente
  <1>2. TypeOK /\ Attente /\ [Next]_vars => Attente'
    BY AttenteStep
  <1>3. Attente => AbsenceVraie
    BY DEF Attente, AbsenceVraie
  <1> QED
    BY <1>1, <1>2, <1>3, SavesTypeCorrect, PTL DEF Spec

(* What was answered is in the file and in memory, through any failure.     *)
THEOREM AnsweredAreKept == UnSeul => (Spec => []AnsweredStay)
  BY UncrossedSavesAreKept, SeulAttend, PTL

(* After an answered login or upload, but for that of a creation whose      *)
(* record or marker could not be written, the minimums are restored no more.*)
THEOREM GrantIsGivenOnce == UnSeul => (Spec => []GrantedOnce)
  BY UncrossedSavesAreKept, SeulAttend, PTL

-----------------------------------------------------------------------------
(* The record and its marker, whatever calls overlap.                       *)

(* What stands for a record only does so once there is one.                 *)
Adosse ==
  /\ mem # Aucun \/ marque => fichier # Aucun
  /\ verrou.etape \in {"marquer", "repondre"} /\ verrou.op # "manque" => fichier # Aucun
  /\ EchecOK

LEMMA AdosseStep ==
  ASSUME TypeOK, Adosse, [Next]_vars
  PROVE  Adosse' /\ (fichier # Aucun => fichier' # Aucun)
  <1>1. ASSUME NEW op, NEW w, NEW r, NEW releve, NEW etape,
               Prendre(op, w, r, releve, etape), EnMemoire(r) \/ UNCHANGED mem,
               etape # "ecrire" => hasRecord, op # "manque"
        PROVE  Adosse' /\ (fichier # Aucun => fichier' # Aucun)
    BY <1>1 DEF Prendre, EnMemoire, Adosse, EchecOK, hasRecord
  <1>2. CASE Appel
    BY <1>1, <1>2 DEF Appel, WriteSaveRecord, ChangeUserName, snapshotForLogin, CreateSaveRecord
  <1>3. ASSUME NEW a \in absents, creerRecordJoueurNeuf(a)
        PROVE  Adosse' /\ (fichier # Aucun => fichier' # Aucun)
    BY <1>1, <1>3 DEF creerRecordJoueurNeuf
  <1>4. ASSUME NEW a \in Appels, GetSaveRecordAbsent(a)
        PROVE  Adosse' /\ (fichier # Aucun => fichier' # Aucun)
    BY <1>4 DEF GetSaveRecordAbsent, Adosse, EchecOK
  <1>5. CASE persistLocked
    BY <1>5, AucunAssumption DEF persistLocked, Adosse, EchecOK, TypeOK, Travaux
  <1>6. CASE markStarterGrantApplied \/ Repondre
    BY <1>6 DEF markStarterGrantApplied, Repondre, Adosse, EchecOK, Libre, TypeOK, Travaux
  <1>7. CASE EcrireEnVain
    BY <1>7, EchecPas DEF Adosse, EchecOK, Libre
  <1>9. CASE Redemarrer
    BY <1>9 DEF Redemarrer, Adosse, EchecOK, Libre
  <1>8. CASE UNCHANGED vars
    BY <1>8 DEF vars, Adosse, EchecOK
  <1> QED
    BY <1>2, <1>3, <1>4, <1>5, <1>6, <1>7, <1>8, <1>9 DEF Next

LEMMA AdosseInit == Init => Adosse
  BY DEF Init, Adosse, EchecOK, Libre

(* No marker without a record, whatever calls overlap, fail or are cut.     *)
THEOREM MarkerFollowsRecord == Spec => []MarkerHasRecord
  <1>1. TypeOK /\ Adosse /\ [Next]_vars => Adosse'
    BY AdosseStep
  <1>2. Adosse => MarkerHasRecord
    BY DEF Adosse, EchecOK, MarkerHasRecord
  <1> QED
    BY <1>1, <1>2, AdosseInit, SavesTypeCorrect, PTL DEF Spec
=============================================================================
