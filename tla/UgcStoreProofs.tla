--------------------------- MODULE UgcStoreProofs ---------------------------
(***************************************************************************)
(* Proofs about the documents of the players: types, the credits of a card *)
(* and the readings of the journal, for any handlers, documents, writes,   *)
(* failures and restarts.                                                  *)
(***************************************************************************)
EXTENDS UgcStore, SequenceTheorems, TLAPS

USE RolesAssumption, CartesAssumption DEF Processus

-----------------------------------------------------------------------------
(* Types.                                                                   *)

(* A call is well typed, a handler at rest too.                             *)
LEMMA AppelType ==
  ASSUME NEW op \in {"rien", "get", "carte", "put", "requete"}, NEW e \in Etapes,
         NEW d \in Documents \cup {Aucun}, NEW v \in Nat
  PROVE  Appel(op, e, d, v) \in Travaux
<1>1. <<>> \in Seq(Documents)
  OBVIOUS
<1>. QED  BY <1>1 DEF Appel, Travaux

LEMMA LibreType == Libre \in Travaux
BY AppelType DEF Libre, Etapes

LEMMA EtapeType ==
  ASSUME NEW t \in Travaux, NEW e \in Etapes
  PROVE  [t EXCEPT !.etape = e] \in Travaux
BY DEF Travaux

LEMMA FinType ==
  ASSUME NEW t \in Travaux, NEW n \in Nat
  PROVE  [t EXCEPT !.fin = n] \in Travaux
BY DEF Travaux

LEMMA FilType ==
  ASSUME TypeOK, NEW f \in Fils
  PROVE  /\ travail[f] \in Travaux /\ travail[f].etape \in Etapes
         /\ travail[f].doc \in Documents \cup {Aucun} /\ travail[f].val \in Nat
         /\ travail[f].reste \in Seq(Documents) /\ travail[f].fin \in Nat
BY DEF TypeOK, Travaux

(* What a handler goes on with once it has the document.                    *)
LEMMA SuiteType ==
  ASSUME NEW op \in {"get", "carte"}, NEW d \in Documents, NEW v \in Nat
  PROVE  Suite(op, d, v) \in Travaux
BY LibreType, AppelType DEF Suite, Etapes

(* A reading of a file gives a number.                                      *)
LEMMA LuType ==
  ASSUME TypeOK, NEW d \in Documents
  PROVE  Lu(d) \in Nat
BY DEF TypeOK, Lu, Partiel

(* The files a reading of the journal has to go through.                    *)
LEMMA ResteType ==
  ASSUME NEW s \in Seq(Documents), NEW o \in Nat, NEW fin \in Nat, o < fin, fin <= Len(s)
  PROVE  /\ SubSeq(s, o + 1, fin) \in Seq(Documents)
         /\ Len(SubSeq(s, o + 1, fin)) = fin - o
         /\ \A i \in 1..(fin - o) : SubSeq(s, o + 1, fin)[i] = s[o + i]
<1>1. /\ o + 1 \in 1..(Len(s) + 1)
      /\ fin \in o..Len(s)
  OBVIOUS
<1>2. \A i \in (o + 1)..fin : s[i] \in Documents
  BY <1>1, ElementOfSeq
<1>. QED  BY <1>1, <1>2, SubSeqProperties

(* Each step keeps the types.                                               *)
LEMMA TypeStep == TypeOK /\ Roles /\ RelectureInv /\ [Next]_vars => TypeOK'
<1>. SUFFICES ASSUME TypeOK, Roles, RelectureInv, [Next]_vars PROVE TypeOK'
  OBVIOUS
<1>. USE DEF disque, histoire
<1>0. ASSUME NEW f \in Fils, NEW op \in {"get", "carte"}, NEW d \in Documents, storeGetDocument(f, op, d)
      PROVE  travail' \in [Fils -> Travaux]
  <2>. DEFINE v == docs[Ou[f]][d]
  <2>1. v \in Nat /\ travail \in [Fils -> Travaux]
    BY <1>0 DEF TypeOK
  <2>2. Appel(op, "disque", d, 0) \in Travaux
    BY AppelType DEF Etapes
  <2>3. Suite(op, d, v) \in Travaux
    BY <2>1, SuiteType
  <2>. QED  BY <1>0, <2>1, <2>2, <2>3 DEF storeGetDocument
<1>1. ASSUME NEW f \in Fils, NEW d \in Documents, GetDocument(f, d) PROVE TypeOK'
  BY <1>0, <1>1 DEF GetDocument, TypeOK
<1>2. ASSUME NEW f \in Fils, NEW d \in Documents, storePutDocument(f, d) PROVE TypeOK'
  <2>1. Appel("put", "ranger", d, ecrits + 1) \in Travaux
    BY AppelType DEF Etapes, TypeOK
  <2>. QED  BY <1>2, <2>1 DEF storePutDocument, TypeOK
<1>3. ASSUME NEW f \in Fils, NEW d \in Documents, crediterCartesDePoints(f, d) PROVE TypeOK'
  BY <1>0, <1>3 DEF crediterCartesDePoints, TypeOK
<1>4. ASSUME NEW f \in Fils, RunQuery(f) PROVE TypeOK'
  <2>1. Appel("requete", "stat", Aucun, 0) \in Travaux
    BY AppelType DEF Etapes
  <2>2. [Appel("requete", "stat", Aucun, 0) EXCEPT !.fin = Len(journal)] \in Travaux
    BY <2>1, FinType DEF TypeOK
  <2>. QED  BY <1>4, <2>2 DEF RunQuery, TypeOK
<1>5. ASSUME NEW f \in Fils, LireLeFichier(f) PROVE TypeOK'
  <2>. DEFINE t == travail[f]
  <2>1. t \in Travaux /\ t.op \in {"get", "carte"} /\ t.doc \in Documents
    BY <1>5 DEF LireLeFichier, TypeOK, Roles, Travaux, Libre
  <2>2. Suite(t.op, t.doc, 0) \in Travaux
    BY <2>1, SuiteType
  <2>3. [t EXCEPT !.etape = "garder", !.val = Lu(t.doc)] \in Travaux
    BY <2>1, LuType DEF Travaux, Etapes
  <2>. QED  BY <1>5, <2>2, <2>3 DEF LireLeFichier, TypeOK
<1>6. ASSUME NEW f \in Fils, Garder(f) PROVE TypeOK'
  <2>. DEFINE t == travail[f]
  <2>1. t \in Travaux /\ t.op \in {"get", "carte"} /\ t.doc \in Documents
    BY <1>6 DEF Garder, TypeOK, Roles, Travaux, Libre
  <2>2. Suite(t.op, t.doc, t.val) \in Travaux /\ t.val \in Nat
    BY <2>1, SuiteType DEF Travaux
  <2>. QED  BY <1>6, <2>1, <2>2 DEF Garder, TypeOK
<1>7. ASSUME NEW f \in Fils, Ranger(f) PROVE TypeOK'
  <2>1. [travail[f] EXCEPT !.etape = "ouvrir"] \in Travaux /\ travail[f].val \in Nat
    BY FilType, EtapeType DEF Etapes
  <2>. QED  BY <1>7, <2>1 DEF Ranger, TypeOK
<1>8. ASSUME NEW f \in Fils, Ouvrir(f) PROVE TypeOK'
  <2>1. [travail[f] EXCEPT !.etape = "ecrire"] \in Travaux
    BY FilType, EtapeType DEF Etapes
  <2>. QED  BY <1>8, <2>1 DEF Ouvrir, TypeOK
<1>9. ASSUME NEW f \in Fils, persisterDocument(f) PROVE TypeOK'
  <2>1. [travail[f] EXCEPT !.etape = "annoncer"] \in Travaux /\ travail[f].val \in Nat
    BY FilType, EtapeType DEF Etapes
  <2>2. PICK v \in Nat \cup {Partiel} : fichier' = [fichier EXCEPT ![travail[f].doc] = v]
    BY <1>9, <2>1 DEF persisterDocument
  <2>3. fichier' \in [Documents -> Nat \cup {Partiel}]
    BY <2>2 DEF TypeOK
  <2>4. quarts' \in [Cartes -> Nat]
    BY <1>9 DEF persisterDocument, TypeOK
  <2>. QED  BY <1>9, <2>1, <2>3, <2>4 DEF persisterDocument, TypeOK
<1>10. ASSUME NEW f \in Fils, annoncerChangementDocument(f) PROVE TypeOK'
  <2>1. travail[f].doc \in Documents
    BY <1>10 DEF annoncerChangementDocument, TypeOK, Travaux, Roles
  <2>. QED  BY <1>10, <2>1, LibreType DEF annoncerChangementDocument, TypeOK
<1>11. ASSUME NEW f \in Fils, EcrireEnVain(f) PROVE TypeOK'
  <2>1. travail[f].doc \in Documents
    BY <1>11 DEF EcrireEnVain, TypeOK, Travaux, Roles
  <2>. QED  BY <1>11, <2>1, LibreType DEF EcrireEnVain, TypeOK
<1>12. ASSUME NEW f \in Fils, relireLesNouveauxDocuments(f) PROVE TypeOK'
  <2>. DEFINE t == travail[f]
              s == SubSeq(journal, offset[Ou[f]] + 1, t.fin)
  <2>1. t \in Travaux /\ t.etape = "stat" /\ t.fin \in Nat /\ offset[Ou[f]] \in Nat /\ t.fin <= Len(journal)
    BY <1>12 DEF relireLesNouveauxDocuments, TypeOK, Travaux, RelectureInv
  <2>2. CASE t.fin <= offset[Ou[f]]
    BY <1>12, <2>2, LibreType DEF relireLesNouveauxDocuments, TypeOK
  <2>3. CASE ~(t.fin <= offset[Ou[f]])
    <3>1. s \in Seq(Documents)
      BY <2>1, <2>3, ResteType DEF TypeOK
    <3>2. [t EXCEPT !.etape = "lire", !.reste = s] \in Travaux
      BY <2>1, <3>1 DEF Travaux, Etapes
    <3>. QED  BY <1>12, <2>3, <3>2 DEF relireLesNouveauxDocuments, TypeOK
  <2>. QED  BY <2>2, <2>3
<1>13. ASSUME NEW f \in Fils, RelireUnFichier(f) PROVE TypeOK'
  <2>. DEFINE t == travail[f]
              d == Head(t.reste)
  <2>1. t \in Travaux /\ t.reste \in Seq(Documents) /\ t.reste # <<>>
    BY <1>13 DEF RelireUnFichier, TypeOK, Travaux
  <2>2. d \in Documents /\ Tail(t.reste) \in Seq(Documents)
    BY <2>1, HeadTailProperties
  <2>3. [t EXCEPT !.reste = Tail(@)] \in Travaux
    BY <2>1, <2>2 DEF Travaux, Etapes
  <2>4. [t EXCEPT !.reste = Tail(@), !.etape = "poser", !.doc = d, !.val = Lu(d)] \in Travaux
    BY <2>1, <2>2, LuType DEF Travaux, Etapes
  <2>. QED  BY <1>13, <2>3, <2>4 DEF RelireUnFichier, TypeOK
<1>14. ASSUME NEW f \in Fils, Poser(f) PROVE TypeOK'
  <2>1. [travail[f] EXCEPT !.etape = "lire"] \in Travaux /\ travail[f].val \in Nat
    BY FilType, EtapeType DEF Etapes
  <2>. QED  BY <1>14, <2>1 DEF Poser, TypeOK
<1>15. ASSUME NEW f \in Fils, FinDeRelecture(f) PROVE TypeOK'
  <2>1. travail[f].fin \in Nat /\ travail[f].fin <= Len(journal)
    BY <1>15 DEF FinDeRelecture, TypeOK, Travaux, RelectureInv
  <2>. QED  BY <1>15, <2>1, LibreType DEF FinDeRelecture, TypeOK
<1>16. ASSUME NEW p \in Processus, Redemarrer(p) PROVE TypeOK'
  <2>1. \A f \in Fils : travail[f].etape \in {"ecrire", "annoncer"} => travail[f].doc \in Documents
    BY DEF TypeOK, Travaux, Roles
  <2>2. coupes' \subseteq Documents /\ tus' \subseteq Documents
    BY <1>16, <2>1 DEF Redemarrer, TypeOK
  <2>. QED  BY <1>16, <2>2, LibreType DEF Redemarrer, TypeOK
<1>17. ASSUME NEW p \in Processus, chargerDocuments(p) PROVE TypeOK'
  <2>1. PICK d \in charge[p] : /\ charge' = [charge EXCEPT ![p] = @ \ {d}]
                               /\ docs' = [docs EXCEPT ![p][d] = Lu(d)]
    BY <1>17 DEF chargerDocuments
  <2>2. d \in Documents /\ Lu(d) \in Nat
    BY <1>17, LuType DEF TypeOK
  <2>. QED  BY <1>17, <2>1, <2>2 DEF chargerDocuments, TypeOK
<1>18. CASE UNCHANGED vars
  BY <1>18 DEF vars, TypeOK
<1>. QED
  BY <1>1, <1>2, <1>3, <1>4, <1>5, <1>6, <1>7, <1>8, <1>9, <1>10, <1>11, <1>12, <1>13, <1>14,
     <1>15, <1>16, <1>17, <1>18 DEF Next, Etape, CommitDocuments, publierHistoriqueDeBataille
-----------------------------------------------------------------------------
(* The credits of the cards.                                                *)

(* Who does what, and one credit at a time.                                 *)
LEMMA RolesStep == TypeOK /\ RelectureInv /\ Roles /\ UnSeulCredit /\ [Next]_vars => Roles' /\ UnSeulCredit'
<1>. SUFFICES ASSUME TypeOK, RelectureInv, Roles, UnSeulCredit, [Next]_vars PROVE Roles' /\ UnSeulCredit'
  OBVIOUS
<1>. USE FilType DEF disque, histoire, Roles, UnSeulCredit
<1>0. travail \in [Fils -> Travaux] /\ charge \in [Processus -> SUBSET Documents]
  BY DEF TypeOK
<1>1. ASSUME NEW f \in Fils, NEW d \in Documents, GetDocument(f, d) PROVE Roles' /\ UnSeulCredit'
  BY <1>0, <1>1 DEF GetDocument, storeGetDocument, Sert, Suite, Appel, Libre
<1>2. ASSUME NEW f \in Fils, NEW d \in Documents, storePutDocument(f, d) PROVE Roles' /\ UnSeulCredit'
  BY <1>0, <1>2 DEF storePutDocument, Sert, Suite, Appel, Libre
<1>3. ASSUME NEW f \in Fils, NEW d \in Documents, crediterCartesDePoints(f, d) PROVE Roles' /\ UnSeulCredit'
  BY <1>0, <1>3 DEF crediterCartesDePoints, storeGetDocument, carteMu, Sert, Suite, Appel, Libre
<1>4. ASSUME NEW f \in Fils, RunQuery(f) PROVE Roles' /\ UnSeulCredit'
  BY <1>0, <1>4 DEF RunQuery, Sert, Suite, Appel, Libre
<1>5. ASSUME NEW f \in Fils, LireLeFichier(f) PROVE Roles' /\ UnSeulCredit'
  BY <1>0, <1>5 DEF LireLeFichier, Suite, Appel, Libre
<1>6. ASSUME NEW f \in Fils, Garder(f) PROVE Roles' /\ UnSeulCredit'
  BY <1>0, <1>6 DEF Garder, Suite, Appel, Libre
<1>7. ASSUME NEW f \in Fils, Ranger(f) PROVE Roles' /\ UnSeulCredit'
  BY <1>0, <1>7 DEF Ranger, Suite, Appel, Libre
<1>8. ASSUME NEW f \in Fils, Ouvrir(f) PROVE Roles' /\ UnSeulCredit'
  BY <1>0, <1>8 DEF Ouvrir, Suite, Appel, Libre
<1>9. ASSUME NEW f \in Fils, persisterDocument(f) PROVE Roles' /\ UnSeulCredit'
  BY <1>0, <1>9 DEF persisterDocument, Suite, Appel, Libre
<1>10. ASSUME NEW f \in Fils, annoncerChangementDocument(f) PROVE Roles' /\ UnSeulCredit'
  BY <1>0, <1>10 DEF annoncerChangementDocument, Suite, Appel, Libre
<1>11. ASSUME NEW f \in Fils, EcrireEnVain(f) PROVE Roles' /\ UnSeulCredit'
  BY <1>0, <1>11 DEF EcrireEnVain, Suite, Appel, Libre
<1>12. ASSUME NEW f \in Fils, relireLesNouveauxDocuments(f) PROVE Roles' /\ UnSeulCredit'
  BY <1>0, <1>12 DEF relireLesNouveauxDocuments, Suite, Appel, Libre
<1>13. ASSUME NEW f \in Fils, RelireUnFichier(f) PROVE Roles' /\ UnSeulCredit'
  BY <1>0, <1>13 DEF RelireUnFichier, Suite, Appel, Libre
<1>14. ASSUME NEW f \in Fils, Poser(f) PROVE Roles' /\ UnSeulCredit'
  BY <1>0, <1>14 DEF Poser, Suite, Appel, Libre
<1>15. ASSUME NEW f \in Fils, FinDeRelecture(f) PROVE Roles' /\ UnSeulCredit'
  BY <1>0, <1>15 DEF FinDeRelecture, Suite, Appel, Libre
<1>16. ASSUME NEW p \in Processus, Redemarrer(p) PROVE Roles' /\ UnSeulCredit'
  BY <1>0, <1>16 DEF Redemarrer, Appel, Libre
<1>17. ASSUME NEW p \in Processus, chargerDocuments(p) PROVE Roles' /\ UnSeulCredit'
  BY <1>0, <1>17 DEF chargerDocuments
<1>18. CASE UNCHANGED vars
  BY <1>18 DEF vars
<1>. QED
  BY <1>1, <1>2, <1>3, <1>4, <1>5, <1>6, <1>7, <1>8, <1>9, <1>10, <1>11, <1>12, <1>13, <1>14,
     <1>15, <1>16, <1>17, <1>18 DEF Next, Etape, CommitDocuments, publierHistoriqueDeBataille

(* What a credit starts from is what was written.                           *)
LEMMA CreditStep == TypeOK /\ Roles /\ UnSeulCredit /\ CreditSuivi /\ [Next]_vars => CreditSuivi'
<1>. SUFFICES ASSUME TypeOK, Roles, UnSeulCredit, CreditSuivi, [Next]_vars PROVE CreditSuivi'
  OBVIOUS
<1>. USE FilType, LuType DEF disque, histoire, CreditSuivi, Roles, UnSeulCredit
<1>0. /\ travail \in [Fils -> Travaux] /\ docs \in [Processus -> [Documents -> Nat]]
      /\ fichier \in [Documents -> Nat \cup {Partiel}] /\ quarts \in [Cartes -> Nat] /\ Partiel = -1
  BY DEF TypeOK, Partiel
<1>1. ASSUME NEW f \in Fils, NEW d \in Documents, GetDocument(f, d) PROVE CreditSuivi'
  BY <1>0, <1>1 DEF GetDocument, storeGetDocument, Sert, Suite, Appel, Libre
<1>2. ASSUME NEW f \in Fils, NEW d \in Documents, storePutDocument(f, d) PROVE CreditSuivi'
  BY <1>0, <1>2 DEF storePutDocument, Sert, Suite, Appel, Libre
<1>3. ASSUME NEW f \in Fils, NEW d \in Documents, crediterCartesDePoints(f, d) PROVE CreditSuivi'
  BY <1>0, <1>3 DEF crediterCartesDePoints, storeGetDocument, carteMu, Sert, Suite, Appel, Libre
<1>4. ASSUME NEW f \in Fils, RunQuery(f) PROVE CreditSuivi'
  BY <1>0, <1>4 DEF RunQuery, Sert, Suite, Appel, Libre
<1>5. ASSUME NEW f \in Fils, LireLeFichier(f) PROVE CreditSuivi'
  <2>1. \A d \in Cartes \ coupes : travail[f].op = "carte" /\ travail[f].doc = d =>
          fichier[d] >= quarts[d] /\ Lu(d) = fichier[d]
    BY <1>0, <1>5 DEF LireLeFichier, Lu
  <2>. QED  BY <1>0, <1>5, <2>1 DEF LireLeFichier, Suite, Appel, Libre
<1>6. ASSUME NEW f \in Fils, Garder(f) PROVE CreditSuivi'
  BY <1>0, <1>6 DEF Garder, Suite, Appel, Libre
<1>7. ASSUME NEW f \in Fils, Ranger(f) PROVE CreditSuivi'
  BY <1>0, <1>7 DEF Ranger, Suite, Appel, Libre
<1>8. ASSUME NEW f \in Fils, Ouvrir(f) PROVE CreditSuivi'
  BY <1>0, <1>8 DEF Ouvrir, Suite, Appel, Libre
<1>9. ASSUME NEW f \in Fils, persisterDocument(f) PROVE CreditSuivi'
  <2>. DEFINE t == travail[f]
  <2>1. /\ t.etape = "ecrire" /\ t.doc \in Documents /\ t.val \in Nat
        /\ travail' = [travail EXCEPT ![f].etape = "annoncer"]
        /\ \A d \in Documents : d # t.doc => fichier'[d] = fichier[d]
        /\ \A d \in Cartes : d # t.doc => quarts'[d] = quarts[d]
        /\ docs' = docs /\ coupes' = coupes
    BY <1>0, <1>9 DEF persisterDocument
  <2>2. CASE t.doc \in Cartes \ coupes
    <3>1. t.op = "carte" /\ fichier[t.doc] = Partiel /\ t.val > quarts[t.doc]
      BY <2>1, <2>2
    <3>2. fichier'[t.doc] = t.val /\ quarts'[t.doc] = quarts[t.doc] + 1
      BY <1>0, <1>9, <2>1, <2>2, <3>1 DEF persisterDocument
    <3>3. docs[Arbitre][t.doc] = t.val
      BY <2>1, <2>2, <3>1
    <3>. QED  BY <1>0, <2>1, <2>2, <3>1, <3>2, <3>3
  <2>3. CASE t.doc \notin Cartes \ coupes
    BY <1>0, <2>1, <2>3
  <2>. QED  BY <2>2, <2>3
<1>10. ASSUME NEW f \in Fils, annoncerChangementDocument(f) PROVE CreditSuivi'
  BY <1>0, <1>10 DEF annoncerChangementDocument, Suite, Appel, Libre
<1>11. ASSUME NEW f \in Fils, EcrireEnVain(f) PROVE CreditSuivi'
  BY <1>0, <1>11 DEF EcrireEnVain, Suite, Appel, Libre
<1>12. ASSUME NEW f \in Fils, relireLesNouveauxDocuments(f) PROVE CreditSuivi'
  BY <1>0, <1>12 DEF relireLesNouveauxDocuments, Suite, Appel, Libre
<1>13. ASSUME NEW f \in Fils, RelireUnFichier(f) PROVE CreditSuivi'
  BY <1>0, <1>13 DEF RelireUnFichier, Suite, Appel, Libre
<1>14. ASSUME NEW f \in Fils, Poser(f) PROVE CreditSuivi'
  BY <1>0, <1>14 DEF Poser, Suite, Appel, Libre
<1>15. ASSUME NEW f \in Fils, FinDeRelecture(f) PROVE CreditSuivi'
  BY <1>0, <1>15 DEF FinDeRelecture, Suite, Appel, Libre
<1>16. ASSUME NEW p \in Processus, Redemarrer(p) PROVE CreditSuivi'
  <2>1. CASE p = Arbitre
    <3>1. \A f \in Fils : travail'[f].op # "carte"
      BY <1>0, <1>16, <2>1 DEF Redemarrer, Appel, Libre
    <3>2. ASSUME NEW d \in Cartes \ coupes, fichier[d] = Partiel PROVE d \in coupes'
      <4>1. PICK f \in Fils : travail[f].op = "carte" /\ travail[f].etape = "ecrire" /\ travail[f].doc = d
        BY <3>2
      <4>2. Ou[f] = p
        BY <4>1, <2>1
      <4>. QED  BY <4>1, <4>2, <1>16 DEF Redemarrer
    <3>3. coupes \subseteq coupes' /\ fichier' = fichier /\ quarts' = quarts
          /\ docs'[Arbitre] = [d \in Documents |-> 0]
      BY <1>0, <1>16, <2>1 DEF Redemarrer
    <3>. QED  BY <1>0, <3>1, <3>2, <3>3
  <2>2. CASE p # Arbitre
    <3>1. \A f \in Fils : \/ travail'[f] = travail[f]
                          \/ travail[f].op # "carte" /\ travail'[f].op # "carte"
      BY <1>0, <1>16, <2>2 DEF Redemarrer, Appel, Libre
    <3>. QED  BY <1>0, <1>16, <2>2, <3>1 DEF Redemarrer
  <2>. QED  BY <2>1, <2>2
<1>17. ASSUME NEW p \in Processus, chargerDocuments(p) PROVE CreditSuivi'
  <2>1. CASE p = Arbitre
    <3>1. \A f \in Fils : travail[f].op # "carte"
      BY <1>17, <2>1 DEF chargerDocuments, Libre, Appel
    <3>2. \A d \in Cartes \ coupes : Lu(d) >= quarts[d]
      BY <1>0, <3>1 DEF Lu
    <3>. QED  BY <1>0, <1>17, <2>1, <3>1, <3>2 DEF chargerDocuments
  <2>2. CASE p # Arbitre
    BY <1>0, <1>17, <2>2 DEF chargerDocuments
  <2>. QED  BY <2>1, <2>2
<1>18. CASE UNCHANGED vars
  BY <1>18 DEF vars
<1>. QED
  BY <1>1, <1>2, <1>3, <1>4, <1>5, <1>6, <1>7, <1>8, <1>9, <1>10, <1>11, <1>12, <1>13, <1>14,
     <1>15, <1>16, <1>17, <1>18 DEF Next, Etape, CommitDocuments, publierHistoriqueDeBataille

-----------------------------------------------------------------------------
(* The readings of the journal.                                             *)

(* One at a time, of what the journal named when it began.                  *)
LEMMA RelectureStep == TypeOK /\ Roles /\ RelectureInv /\ [Next]_vars => RelectureInv'
<1>. SUFFICES ASSUME TypeOK, Roles, RelectureInv, [Next]_vars PROVE RelectureInv'
  OBVIOUS
<1>. USE FilType DEF disque, histoire, RelectureInv, Relit
<1>0. /\ travail \in [Fils -> Travaux] /\ offset \in [Processus -> Nat] /\ journal \in Seq(Documents)
      /\ \A p \in Processus : offset[p] <= Len(journal)
  BY DEF TypeOK
<1>1. ASSUME NEW f \in Fils, NEW d \in Documents, GetDocument(f, d) PROVE RelectureInv'
  BY <1>0, <1>1 DEF GetDocument, storeGetDocument, Sert, Suite, Appel, Libre
<1>2. ASSUME NEW f \in Fils, NEW d \in Documents, storePutDocument(f, d) PROVE RelectureInv'
  BY <1>0, <1>2 DEF storePutDocument, Sert, Suite, Appel, Libre
<1>3. ASSUME NEW f \in Fils, NEW d \in Documents, crediterCartesDePoints(f, d) PROVE RelectureInv'
  BY <1>0, <1>3 DEF crediterCartesDePoints, storeGetDocument, carteMu, Sert, Suite, Appel, Libre
<1>4. ASSUME NEW f \in Fils, RunQuery(f) PROVE RelectureInv'
  BY <1>0, <1>4 DEF RunQuery, Sert, Suite, Appel, Libre
<1>5. ASSUME NEW f \in Fils, LireLeFichier(f) PROVE RelectureInv'
  BY <1>0, <1>5 DEF LireLeFichier, Suite, Appel, Libre
<1>6. ASSUME NEW f \in Fils, Garder(f) PROVE RelectureInv'
  BY <1>0, <1>6 DEF Garder, Suite, Appel, Libre
<1>7. ASSUME NEW f \in Fils, Ranger(f) PROVE RelectureInv'
  BY <1>0, <1>7 DEF Ranger, Suite, Appel, Libre
<1>8. ASSUME NEW f \in Fils, Ouvrir(f) PROVE RelectureInv'
  BY <1>0, <1>8 DEF Ouvrir, Suite, Appel, Libre
<1>9. ASSUME NEW f \in Fils, persisterDocument(f) PROVE RelectureInv'
  BY <1>0, <1>9 DEF persisterDocument, Suite, Appel, Libre
<1>10. ASSUME NEW f \in Fils, annoncerChangementDocument(f) PROVE RelectureInv'
  <2>1. /\ travail[f].etape = "annoncer" /\ travail[f].doc \in Documents
        /\ offset' = offset /\ journal' = Append(journal, travail[f].doc)
        /\ travail'[f].etape = "libre"
        /\ \A g \in Fils : g # f => travail'[g] = travail[g]
    BY <1>0, <1>10 DEF annoncerChangementDocument, Appel, Libre, Roles
  <2>2. /\ Len(journal) \in Nat /\ Len(journal') = Len(journal) + 1
        /\ \A i \in 1..Len(journal) : journal'[i] = journal[i]
    BY <1>0, <2>1, AppendProperties, LenProperties
  <2>. HIDE FilType
  <2>3. \A g, h \in Fils : Relit(g, Ou[h])' /\ Relit(h, Ou[h])' => g = h
    BY <2>1
  <2>4. \A g \in Fils : travail'[g].etape \in {"stat", "lire", "poser"} => travail'[g].fin <= Len(journal')
    <3>1. ASSUME NEW g \in Fils, travail'[g].etape \in {"stat", "lire", "poser"}
          PROVE  travail'[g].fin <= Len(journal')
      <4>1. travail'[g] = travail[g] /\ travail[g].fin \in Nat /\ travail[g].fin <= Len(journal)
        BY <2>1, <3>1, FilType
      <4>. QED  BY <2>2, <4>1
    <3>. QED  BY <3>1
  <2>5. ASSUME NEW g \in Fils, Relit(g, Ou[g])'
        PROVE  LET lu == travail'[g].fin - Len(travail'[g].reste) IN
               /\ offset[Ou[g]] <= lu
               /\ \A i \in 1..Len(travail'[g].reste) : travail'[g].reste[i] = journal'[lu + i]
    <3>. DEFINE u == travail[g]
                lu == u.fin - Len(u.reste)
    <3>1. travail'[g] = u /\ u.etape \in {"lire", "poser"}
      BY <2>1, <2>5
    <3>2. /\ offset[Ou[g]] <= lu /\ u.fin <= Len(journal)
          /\ \A i \in 1..Len(u.reste) : u.reste[i] = journal[lu + i]
      BY <3>1
    <3>3. u.fin \in Nat /\ Len(u.reste) \in Nat /\ offset[Ou[g]] \in Nat
      BY <1>0, FilType, LenProperties DEF Travaux
    <3>4. \A i \in 1..Len(u.reste) : lu + i \in 1..Len(journal)
      BY <2>2, <3>2, <3>3
    <3>5. \A i \in 1..Len(u.reste) : journal'[lu + i] = journal[lu + i]
      BY <2>2, <3>4
    <3>. QED  BY <3>1, <3>2, <3>5
  <2>6. ASSUME NEW g \in Fils, travail'[g].etape = "poser"
        PROVE  \E i \in offset[Ou[g]] + 1 .. Len(journal') : journal'[i] = travail'[g].doc
    <3>1. PICK i \in offset[Ou[g]] + 1 .. Len(journal) : journal[i] = travail[g].doc
      BY <2>1, <2>6
    <3>2. i \in 1..Len(journal) /\ i \in offset[Ou[g]] + 1 .. Len(journal')
      BY <1>0, <2>2, FilType
    <3>. QED  BY <2>1, <2>2, <2>6, <3>1, <3>2
  <2>. QED  BY <2>1, <2>3, <2>4, <2>5, <2>6
<1>11. ASSUME NEW f \in Fils, EcrireEnVain(f) PROVE RelectureInv'
  BY <1>0, <1>11 DEF EcrireEnVain, Suite, Appel, Libre
<1>12. ASSUME NEW f \in Fils, relireLesNouveauxDocuments(f) PROVE RelectureInv'
  <2>. DEFINE t == travail[f]
              s == SubSeq(journal, offset[Ou[f]] + 1, t.fin)
  <2>1. t.etape = "stat" /\ offset' = offset /\ journal' = journal
    BY <1>12 DEF relireLesNouveauxDocuments
  <2>2. CASE t.fin <= offset[Ou[f]]
    BY <1>0, <1>12, <2>1, <2>2 DEF relireLesNouveauxDocuments, Appel, Libre
  <2>3. CASE ~(t.fin <= offset[Ou[f]])
    <3>1. travail' = [travail EXCEPT ![f] = [t EXCEPT !.etape = "lire", !.reste = s]]
      BY <1>12, <2>3 DEF relireLesNouveauxDocuments
    <3>2. \A g \in Fils : ~Relit(g, Ou[f])
      BY <1>12 DEF relireLesNouveauxDocuments, derniereRelecture
    <3>3. Len(s) = t.fin - offset[Ou[f]] /\ \A i \in 1..Len(s) : s[i] = journal[offset[Ou[f]] + i]
      BY <1>0, <2>1, <2>3, ResteType
    <3>4. /\ travail'[f].etape = "lire" /\ travail'[f].reste = s /\ travail'[f].fin = t.fin
          /\ \A g \in Fils : g # f => travail'[g] = travail[g]
      BY <1>0, <3>1 DEF Travaux
    <3>. HIDE DEF s
    <3>5. \A g, h \in Fils : Relit(g, Ou[h])' /\ Relit(h, Ou[h])' => g = h
      BY <3>2, <3>4
    <3>6. \A g \in Fils : travail'[g].etape \in {"stat", "lire", "poser"} => travail'[g].fin <= Len(journal)
      BY <2>1, <3>4
    <3>7. ASSUME NEW g \in Fils, Relit(g, Ou[g])'
          PROVE  LET lu == travail'[g].fin - Len(travail'[g].reste) IN
                 /\ offset[Ou[g]] <= lu
                 /\ \A i \in 1..Len(travail'[g].reste) : travail'[g].reste[i] = journal[lu + i]
      <4>1. CASE g = f
        <5>1. t.fin - Len(s) = offset[Ou[f]]
          BY <1>0, <3>3
        <5>. QED  BY <1>0, <4>1, <3>3, <3>4, <5>1
      <4>2. CASE g # f
        BY <3>4, <3>7, <4>2
      <4>. QED  BY <4>1, <4>2
    <3>8. \A g \in Fils : travail'[g].etape = "poser" =>
            \E i \in offset[Ou[g]] + 1 .. Len(journal) : journal[i] = travail'[g].doc
      BY <3>4
    <3>. QED  BY <2>1, <3>5, <3>6, <3>7, <3>8
  <2>. QED  BY <2>2, <2>3
<1>13. ASSUME NEW f \in Fils, RelireUnFichier(f) PROVE RelectureInv'
  <2>. DEFINE t == travail[f]
  <2>1. /\ t.etape = "lire" /\ t.reste \in Seq(Documents) /\ t.reste # <<>> /\ t.fin \in Nat
        /\ offset' = offset /\ journal' = journal
    BY <1>13 DEF RelireUnFichier
  <2>2. /\ Len(Tail(t.reste)) = Len(t.reste) - 1
        /\ \A i \in 1..Len(Tail(t.reste)) : Tail(t.reste)[i] = t.reste[i + 1]
    BY <2>1, HeadTailProperties
  <2>3. /\ travail'[f].reste = Tail(t.reste) /\ travail'[f].fin = t.fin
        /\ travail'[f].etape \in {"lire", "poser"}
        /\ \A g \in Fils : g # f => travail'[g] = travail[g]
    BY <1>0, <1>13 DEF RelireUnFichier
  <2>. HIDE FilType
  <2>4. \A g, h \in Fils : Relit(g, Ou[h])' /\ Relit(h, Ou[h])' => g = h
    <3>1. \A g, h \in Fils : Relit(g, Ou[h])' => Relit(g, Ou[h])
      BY <2>1, <2>3
    <3>. QED  BY <3>1
  <2>5. \A g \in Fils : travail'[g].etape \in {"stat", "lire", "poser"} => travail'[g].fin <= Len(journal)
    BY <2>1, <2>3
  <2>6. ASSUME NEW g \in Fils, Relit(g, Ou[g])'
        PROVE  LET lu == travail'[g].fin - Len(travail'[g].reste) IN
               /\ offset[Ou[g]] <= lu
               /\ \A i \in 1..Len(travail'[g].reste) : travail'[g].reste[i] = journal[lu + i]
    <3>1. CASE g = f
      <4>. DEFINE lu == t.fin - Len(t.reste)
      <4>1. /\ offset[Ou[f]] <= lu
            /\ \A i \in 1..Len(t.reste) : t.reste[i] = journal[lu + i]
        BY <2>1
      <4>2. Len(t.reste) \in Nat /\ lu \in Int
        BY <2>1
      <4>3. t.fin - (Len(t.reste) - 1) = lu + 1
        BY <2>1, <4>2
      <4>4. ASSUME NEW n \in Nat, NEW m \in Int, NEW i \in 1..(n - 1)
            PROVE  i + 1 \in 1..n /\ m + (i + 1) = (m + 1) + i
        OBVIOUS
      <4>5. \A i \in 1..(Len(t.reste) - 1) : Tail(t.reste)[i] = journal[(lu + 1) + i]
        BY <2>2, <4>1, <4>2, <4>4
      <4>6. travail'[g].fin - Len(travail'[g].reste) = lu + 1
        BY <3>1, <2>2, <2>3, <4>3
      <4>7. offset[Ou[f]] <= lu + 1
        BY <1>0, <4>1, <4>2
      <4>. QED  BY <3>1, <2>2, <2>3, <4>5, <4>6, <4>7
    <3>2. CASE g # f
      BY <2>3, <2>6, <3>2
    <3>. QED  BY <3>1, <3>2
  <2>7. ASSUME NEW g \in Fils, travail'[g].etape = "poser"
        PROVE  \E i \in offset[Ou[g]] + 1 .. Len(journal) : journal[i] = travail'[g].doc
    <3>1. CASE g = f
      <4>. DEFINE lu == t.fin - Len(t.reste)
      <4>1. t.reste[1] = journal[lu + 1] /\ offset[Ou[f]] <= lu /\ t.fin <= Len(journal)
        <5>1. Len(t.reste) \in Nat \ {0}
          BY <2>1, EmptySeq, LenProperties
        <5>. QED  BY <2>1, <5>1
      <4>2. Len(t.reste) \in Nat \ {0} /\ Len(journal) \in Nat /\ offset[Ou[f]] \in Nat
        BY <1>0, <2>1, EmptySeq, LenProperties, FilType
      <4>. HIDE DEF lu
      <4>3. lu + 1 \in offset[Ou[f]] + 1 .. Len(journal)
        <5>1. \A m, n, k, o \in Nat : n >= 1 /\ m <= k /\ o <= m - n => m - n + 1 \in o + 1 .. k
          OBVIOUS
        <5>2. t.fin \in Nat /\ lu = t.fin - Len(t.reste)
          BY <2>1 DEF lu
        <5>. QED  BY <4>1, <4>2, <5>1, <5>2
      <4>4. travail'[f].doc = t.reste[1]
        <5>1. t \in Travaux /\ travail'[f].etape = "poser"
          BY <1>0, <2>7, <3>1
        <5>2. travail'[f] = [t EXCEPT !.reste = Tail(t.reste), !.etape = "poser", !.doc = Head(t.reste), !.val = Lu(Head(t.reste))]
          BY <1>0, <1>13, <2>1, <5>1 DEF RelireUnFichier
        <5>3. travail'[f].doc = Head(t.reste)
          BY <5>1, <5>2 DEF Travaux
        <5>4. Head(t.reste) = t.reste[1]
          BY <2>1
        <5>. QED  BY <5>3, <5>4
      <4>. QED  BY <3>1, <4>1, <4>3, <4>4
    <3>2. CASE g # f
      BY <2>3, <2>7, <3>2
    <3>. QED  BY <3>1, <3>2
  <2>. QED  BY <2>1, <2>4, <2>5, <2>6, <2>7
<1>14. ASSUME NEW f \in Fils, Poser(f) PROVE RelectureInv'
  BY <1>0, <1>14 DEF Poser, Suite, Appel, Libre
<1>15. ASSUME NEW f \in Fils, FinDeRelecture(f) PROVE RelectureInv'
  BY <1>0, <1>15 DEF FinDeRelecture, Suite, Appel, Libre
<1>16. ASSUME NEW p \in Processus, Redemarrer(p) PROVE RelectureInv'
  BY <1>0, <1>16 DEF Redemarrer, Appel, Libre
<1>17. ASSUME NEW p \in Processus, chargerDocuments(p) PROVE RelectureInv'
  BY <1>0, <1>17 DEF chargerDocuments
<1>18. CASE UNCHANGED vars
  BY <1>18 DEF vars
<1>. QED
  BY <1>1, <1>2, <1>3, <1>4, <1>5, <1>6, <1>7, <1>8, <1>9, <1>10, <1>11, <1>12, <1>13, <1>14,
     <1>15, <1>16, <1>17, <1>18 DEF Next, Etape, CommitDocuments, publierHistoriqueDeBataille

(* What was in the way stays there, when nothing is passed in the journal.  *)
LEMMA RoutePas ==
  ASSUME NEW p \in Processus, NEW d \in Documents,
         Len(journal) \in Nat, Len(journal') \in Nat, Len(journal) <= Len(journal'),
         \A i \in 1..Len(journal) : journal'[i] = journal[i],
         \A i \in 1..Len(journal) : journal[i] = d /\ Vu(p, i)' => Vu(p, i),
         d \in charge[p] => d \in charge'[p],
         \A f \in Fils : EnMain(f, p, d) => Annonce(p, d)' \/ EnMain(f, p, d)',
         EnRoute(p, d)
  PROVE  EnRoute(p, d)'
<1>1. CASE Annonce(p, d)
  BY <1>1 DEF Annonce, EnRoute
<1>2. CASE d \in charge[p] \/ \E f \in Fils : EnMain(f, p, d)
  BY <1>2 DEF EnRoute
<1>. QED  BY <1>1, <1>2 DEF EnRoute

(* A step that neither places, writes nor announces, nor passes an entry.   *)
LEMMA SaitPas ==
  ASSUME NEW p \in Processus, NEW d \in Documents,
         journal \in Seq(Documents), journal' = journal, Lu(d)' = Lu(d),
         docs'[p][d] = docs[p][d], charge' = charge,
         \A i \in 1..Len(journal) : journal[i] = d /\ Vu(p, i)' => Vu(p, i),
         \A f \in Fils : EnMain(f, p, d) => EnMain(f, p, d)',
         \A f \in Fils : Pose(f, p, d)' <=> Pose(f, p, d),
         \A f \in Fils : Pose(f, p, d) => travail'[f].val = travail[f].val,
         Sait(p, d)
  PROVE  Sait(p, d)'
<1>1. CASE EnRoute(p, d)
  BY <1>1, RoutePas DEF Sait
<1>2. CASE ~EnRoute(p, d)
  BY <1>2 DEF Sait
<1>. QED  BY <1>1, <1>2

(* A step of a handler that is at none of those, nor in a reading.          *)
LEMMA SaitNeutre ==
  ASSUME NEW f \in Fils, NEW p \in Processus, NEW d \in Documents,
         journal \in Seq(Documents), journal' = journal, fichier' = fichier, docs' = docs,
         charge' = charge, offset' = offset,
         \A g \in Fils : g # f => travail'[g] = travail[g],
         travail[f].etape \notin {"ouvrir", "ecrire", "annoncer", "lire", "poser"},
         travail'[f].etape \notin {"annoncer", "lire", "poser"},
         Sait(p, d)
  PROVE  Sait(p, d)'
<1>1. \A i \in 1..Len(journal) : Vu(p, i)' => Vu(p, i)
  BY DEF Vu, Relit
<1>2. \A g \in Fils : EnMain(g, p, d) => EnMain(g, p, d)'
  BY DEF EnMain
<1>3. \A g \in Fils : /\ Pose(g, p, d)' <=> Pose(g, p, d)
                      /\ Pose(g, p, d) => travail'[g].val = travail[g].val
  BY DEF Pose
<1>4. Lu(d)' = Lu(d)
  BY DEF Lu
<1>. QED  BY <1>1, <1>2, <1>3, <1>4, SaitPas

(* What is in no way still is known.                                        *)
LEMMA SuiviStep == TypeOK /\ Roles /\ RelectureInv /\ RepliFrais /\ Suivi /\ [Next]_vars => Suivi'
<1>. SUFFICES ASSUME TypeOK, Roles, RelectureInv, RepliFrais, Suivi, [Next]_vars PROVE Suivi'
  OBVIOUS
<1>. USE DEF disque, histoire
<1>0. /\ travail \in [Fils -> Travaux] /\ docs \in [Processus -> [Documents -> Nat]]
      /\ fichier \in [Documents -> Nat \cup {Partiel}] /\ journal \in Seq(Documents)
      /\ offset \in [Processus -> Nat] /\ charge \in [Processus -> SUBSET Documents]
  BY DEF TypeOK
<1>n. ASSUME NEW f \in Fils, journal' = journal, fichier' = fichier, docs' = docs,
             charge' = charge, offset' = offset, coupes' = coupes, tus' = tus,
             \A g \in Fils : g # f => travail'[g] = travail[g],
             travail[f].etape \notin {"ouvrir", "ecrire", "annoncer", "lire", "poser"},
             travail'[f].etape \notin {"annoncer", "lire", "poser"}
      PROVE  Suivi'
  BY <1>0, <1>n, SaitNeutre DEF Suivi
<1>1. ASSUME NEW f \in Fils, NEW d \in Documents, GetDocument(f, d) PROVE Suivi'
  BY <1>0, <1>n, <1>1 DEF GetDocument, storeGetDocument, Sert, Suite, Appel, Libre
<1>2. ASSUME NEW f \in Fils, NEW d \in Documents, storePutDocument(f, d) PROVE Suivi'
  BY <1>0, <1>n, <1>2 DEF storePutDocument, Sert, Suite, Appel, Libre
<1>3. ASSUME NEW f \in Fils, NEW d \in Documents, crediterCartesDePoints(f, d) PROVE Suivi'
  BY <1>0, <1>n, <1>3 DEF crediterCartesDePoints, storeGetDocument, Sert, Suite, Appel, Libre
<1>4. ASSUME NEW f \in Fils, RunQuery(f) PROVE Suivi'
  BY <1>0, <1>n, <1>4 DEF RunQuery, Sert, Suite, Appel, Libre
<1>5. ASSUME NEW f \in Fils, LireLeFichier(f) PROVE Suivi'
  <2>1. /\ travail[f].etape = "disque"
        /\ \A g \in Fils : g # f => travail'[g] = travail[g]
        /\ UNCHANGED <<docs, fichier, journal, offset, charge, coupes, tus>>
    BY <1>0, <1>5 DEF LireLeFichier
  <2>2. \A op, d, v : Suite(op, d, v).etape \in {"libre", "ranger"}
    BY DEF Suite, Appel, Libre
  <2>3. travail'[f].etape \in {"libre", "ranger", "garder"}
    BY <1>0, <1>5, <2>2 DEF LireLeFichier, Travaux
  <2>. QED  BY <1>n, <2>1, <2>3
<1>6. ASSUME NEW f \in Fils, Garder(f) PROVE Suivi'
  <2>. DEFINE t == travail[f]
  <2>1. /\ t.etape = "garder" /\ t.doc \in Documents /\ t.val \in Nat /\ t.val = fichier[t.doc]
        /\ docs' = [docs EXCEPT ![Ou[f]][t.doc] = t.val]
        /\ travail' = [travail EXCEPT ![f] = Suite(t.op, t.doc, t.val)]
        /\ UNCHANGED <<fichier, journal, offset, charge, coupes, tus>>
    BY <1>6, FilType DEF Garder, Roles, RepliFrais
  <2>2. travail'[f].etape \notin {"annoncer", "lire", "poser"}
    BY <1>0, <2>1 DEF Suite, Appel, Libre
  <2>3. ASSUME NEW p \in Processus, NEW d \in Documents, Sait(p, d) PROVE Sait(p, d)'
    <3>1. \A g \in Fils : /\ EnMain(g, p, d) => EnMain(g, p, d)'
                          /\ Pose(g, p, d)' <=> Pose(g, p, d)
                          /\ Pose(g, p, d) => travail'[g].val = travail[g].val
      BY <1>0, <2>1, <2>2 DEF EnMain, Pose
    <3>2. \A i \in 1..Len(journal) : Vu(p, i)' => Vu(p, i)
      BY <1>0, <2>1, <2>2 DEF Vu, Relit
    <3>3. CASE docs'[p][d] = docs[p][d]
      <4>1. Lu(d)' = Lu(d)
        BY <2>1 DEF Lu
      <4>. QED  BY <1>0, <2>1, <2>3, <3>1, <3>2, <3>3, <4>1, SaitPas
    <3>4. CASE docs'[p][d] # docs[p][d]
      <4>1. d = t.doc /\ docs'[p][d] = Lu(d) /\ Lu(d)' = Lu(d)
        BY <1>0, <2>1, <3>4 DEF Lu, Partiel
      <4>2. CASE EnRoute(p, d)
        <5>1. journal' = journal /\ charge' = charge /\ Len(journal) \in Nat
          BY <1>0, <2>1, LenProperties
        <5>2. EnRoute(p, d)'
          BY <3>1, <3>2, <4>2, <5>1, RoutePas
        <5>. QED  BY <5>2 DEF Sait
      <4>. QED  BY <2>3, <3>1, <4>1, <4>2 DEF Sait
    <3>. QED  BY <3>3, <3>4
  <2>. QED  BY <2>1, <2>3 DEF Suivi
<1>7. ASSUME NEW f \in Fils, Ranger(f) PROVE Suivi'
  <2>. DEFINE t == travail[f]
  <2>1. /\ t.etape = "ranger"
        /\ docs' = [docs EXCEPT ![Ou[f]][t.doc] = t.val]
        /\ travail'[f].etape = "ouvrir" /\ travail'[f].doc = t.doc
        /\ \A g \in Fils : g # f => travail'[g] = travail[g]
        /\ UNCHANGED <<fichier, journal, offset, charge, coupes, tus>>
    BY <1>0, <1>7 DEF Ranger, Travaux
  <2>2. ASSUME NEW p \in Processus, NEW d \in Documents, Sait(p, d) PROVE Sait(p, d)'
    <3>1. CASE p = Ou[f] /\ d = t.doc
      BY <2>1, <3>1 DEF Sait, EnRoute, EnMain
    <3>2. CASE ~(p = Ou[f] /\ d = t.doc)
      <4>1. \A g \in Fils : /\ EnMain(g, p, d) => EnMain(g, p, d)'
                            /\ Pose(g, p, d)' <=> Pose(g, p, d)
                            /\ Pose(g, p, d) => travail'[g].val = travail[g].val
        BY <2>1 DEF EnMain, Pose
      <4>2. \A i \in 1..Len(journal) : Vu(p, i)' => Vu(p, i)
        BY <2>1 DEF Vu, Relit
      <4>3. docs'[p][d] = docs[p][d]
        BY <1>0, <2>1, <3>2
      <4>4. Lu(d)' = Lu(d)
        BY <2>1 DEF Lu
      <4>. QED  BY <1>0, <2>1, <2>2, <4>1, <4>2, <4>3, <4>4, SaitPas
    <3>. QED  BY <3>1, <3>2
  <2>. QED  BY <2>1, <2>2 DEF Suivi
<1>8. ASSUME NEW f \in Fils, Ouvrir(f) PROVE Suivi'
  <2>. DEFINE t == travail[f]
  <2>1. /\ t.etape = "ouvrir"
        /\ fichier' = [fichier EXCEPT ![t.doc] = Partiel]
        /\ travail'[f].etape = "ecrire" /\ travail'[f].doc = t.doc
        /\ \A g \in Fils : g # f => travail'[g] = travail[g]
        /\ UNCHANGED <<docs, journal, offset, charge, coupes, tus>>
    BY <1>0, <1>8 DEF Ouvrir, Travaux
  <2>2. ASSUME NEW p \in Processus, NEW d \in Documents, Sait(p, d) PROVE Sait(p, d)'
    <3>1. CASE d = t.doc
      BY <1>0, <2>1, <3>1 DEF Sait, Lu
    <3>2. CASE d # t.doc
      <4>1. \A g \in Fils : /\ EnMain(g, p, d) => EnMain(g, p, d)'
                            /\ Pose(g, p, d)' <=> Pose(g, p, d)
                            /\ Pose(g, p, d) => travail'[g].val = travail[g].val
        BY <2>1 DEF EnMain, Pose
      <4>2. \A i \in 1..Len(journal) : Vu(p, i)' => Vu(p, i)
        BY <2>1 DEF Vu, Relit
      <4>3. Lu(d)' = Lu(d)
        BY <1>0, <2>1, <3>2 DEF Lu
      <4>. QED  BY <1>0, <2>1, <2>2, <4>1, <4>2, <4>3, SaitPas
    <3>. QED  BY <3>1, <3>2
  <2>. QED  BY <2>1, <2>2 DEF Suivi
<1>9. ASSUME NEW f \in Fils, persisterDocument(f) PROVE Suivi'
  <2>. DEFINE t == travail[f]
  <2>1. /\ t.etape = "ecrire"
        /\ \A d \in Documents : d # t.doc => fichier'[d] = fichier[d]
        /\ travail'[f].etape = "annoncer" /\ travail'[f].doc = t.doc
        /\ \A g \in Fils : g # f => travail'[g] = travail[g]
        /\ UNCHANGED <<docs, journal, offset, charge, coupes, tus>>
    BY <1>0, <1>9 DEF persisterDocument, Travaux
  <2>2. ASSUME NEW p \in Processus, NEW d \in Documents, Sait(p, d) PROVE Sait(p, d)'
    <3>1. CASE d = t.doc
      BY <2>1, <3>1 DEF Sait, EnRoute, EnMain
    <3>2. CASE d # t.doc
      <4>1. \A g \in Fils : /\ EnMain(g, p, d) => EnMain(g, p, d)'
                            /\ Pose(g, p, d)' <=> Pose(g, p, d)
                            /\ Pose(g, p, d) => travail'[g].val = travail[g].val
        BY <2>1, <3>2 DEF EnMain, Pose
      <4>2. \A i \in 1..Len(journal) : Vu(p, i)' => Vu(p, i)
        BY <2>1 DEF Vu, Relit
      <4>3. Lu(d)' = Lu(d)
        BY <2>1, <3>2 DEF Lu
      <4>. QED  BY <1>0, <2>1, <2>2, <4>1, <4>2, <4>3, SaitPas
    <3>. QED  BY <3>1, <3>2
  <2>. QED  BY <2>1, <2>2 DEF Suivi
<1>10. ASSUME NEW f \in Fils, annoncerChangementDocument(f) PROVE Suivi'
  <2>. DEFINE t == travail[f]
  <2>1. /\ t.etape = "annoncer" /\ t.doc \in Documents
        /\ journal' = Append(journal, t.doc)
        /\ travail'[f] = Libre
        /\ \A g \in Fils : g # f => travail'[g] = travail[g]
        /\ UNCHANGED <<docs, fichier, offset, charge, coupes, tus>>
    BY <1>0, <1>10, FilType DEF annoncerChangementDocument, Roles
  <2>2. /\ Len(journal') = Len(journal) + 1 /\ Len(journal) \in Nat
        /\ \A i \in 1..Len(journal) : journal'[i] = journal[i]
        /\ journal'[Len(journal) + 1] = t.doc
    BY <1>0, <2>1, AppendProperties, LenProperties
  <2>3. \A p \in Processus, i \in Nat : Vu(p, i)' => Vu(p, i)
    BY <2>1 DEF Vu, Relit, Libre, Appel
  <2>4. \A p \in Processus : ~Vu(p, Len(journal) + 1)
    <3>1. \A p \in Processus : ~(Len(journal) + 1 <= offset[p])
      BY <1>0, <2>2 DEF TypeOK
    <3>2. ASSUME NEW g \in Fils, NEW p \in Processus, Relit(g, p)
          PROVE  ~(Len(journal) + 1 <= travail[g].fin - Len(travail[g].reste))
      <4>1. /\ travail[g].fin \in Nat /\ travail[g].fin <= Len(journal)
            /\ Len(travail[g].reste) \in Nat
        BY <3>2, FilType, LenProperties DEF Relit, RelectureInv
      <4>. QED  BY <2>2, <4>1
    <3>. QED  BY <3>1, <3>2 DEF Vu
  <2>5. ASSUME NEW p \in Processus, NEW d \in Documents, Sait(p, d) PROVE Sait(p, d)'
    <3>1. CASE d = t.doc
      <4>1. Annonce(p, d)'
        BY <2>2, <2>3, <2>4, <3>1 DEF Annonce
      <4>. QED  BY <4>1 DEF Sait, EnRoute
    <3>2. CASE d # t.doc
      <4>1. \A g \in Fils : /\ EnMain(g, p, d) => EnMain(g, p, d)'
                            /\ Pose(g, p, d)' <=> Pose(g, p, d)
                            /\ Pose(g, p, d) => travail'[g].val = travail[g].val
        BY <2>1, <3>2 DEF EnMain, Pose, Libre, Appel
      <4>2. Lu(d)' = Lu(d) /\ docs' = docs /\ charge' = charge
        BY <2>1 DEF Lu
      <4>3. CASE EnRoute(p, d)
        <5>1. \A i \in 1..Len(journal) : Vu(p, i)' => Vu(p, i)
          BY <2>2, <2>3
        <5>2. EnRoute(p, d)'
          BY <2>2, <4>1, <4>2, <4>3, <5>1, RoutePas
        <5>. QED  BY <5>2 DEF Sait
      <4>4. CASE ~EnRoute(p, d)
        BY <2>5, <4>1, <4>2, <4>4 DEF Sait
      <4>. QED  BY <4>3, <4>4
    <3>. QED  BY <3>1, <3>2
  <2>. QED  BY <2>1, <2>5 DEF Suivi
<1>11. ASSUME NEW f \in Fils, EcrireEnVain(f) PROVE Suivi'
  <2>. DEFINE t == travail[f]
  <2>1. /\ t.etape \in {"ouvrir", "ecrire", "annoncer"}
        /\ t.doc \in tus' /\ coupes \subseteq coupes' /\ tus \subseteq tus'
        /\ travail'[f] = Libre
        /\ \A g \in Fils : g # f => travail'[g] = travail[g]
        /\ UNCHANGED <<docs, fichier, journal, offset, charge>>
    BY <1>0, <1>11 DEF EcrireEnVain
  <2>2. ASSUME NEW p \in Processus, NEW d \in Documents, d # t.doc, Sait(p, d) PROVE Sait(p, d)'
    <3>1. \A g \in Fils : /\ EnMain(g, p, d) => EnMain(g, p, d)'
                          /\ Pose(g, p, d)' <=> Pose(g, p, d)
                          /\ Pose(g, p, d) => travail'[g].val = travail[g].val
      BY <2>1, <2>2 DEF EnMain, Pose, Libre, Appel
    <3>2. \A i \in 1..Len(journal) : Vu(p, i)' => Vu(p, i)
      BY <2>1 DEF Vu, Relit, Libre, Appel
    <3>3. Lu(d)' = Lu(d)
      BY <2>1 DEF Lu
    <3>. QED  BY <1>0, <2>1, <2>2, <3>1, <3>2, <3>3, SaitPas
  <2>. QED  BY <2>1, <2>2 DEF Suivi
<1>12. ASSUME NEW f \in Fils, relireLesNouveauxDocuments(f) PROVE Suivi'
  <2>. DEFINE t == travail[f]
              s == SubSeq(journal, offset[Ou[f]] + 1, t.fin)
  <2>1. /\ t.etape = "stat" /\ t.fin \in Nat /\ t.fin <= Len(journal) /\ offset[Ou[f]] \in Nat
        /\ \A g \in Fils : g # f => travail'[g] = travail[g]
        /\ UNCHANGED <<docs, fichier, journal, offset, charge, coupes, tus>>
    BY <1>0, <1>12, FilType DEF relireLesNouveauxDocuments, RelectureInv
  <2>2. CASE t.fin <= offset[Ou[f]]
    <3>1. travail'[f].etape = "libre"
      BY <1>0, <1>12, <2>2 DEF relireLesNouveauxDocuments, Libre, Appel
    <3>. QED  BY <1>n, <2>1, <3>1
  <2>3. CASE ~(t.fin <= offset[Ou[f]])
    <3>1. Len(s) = t.fin - offset[Ou[f]]
      BY <1>0, <2>1, <2>3, ResteType
    <3>2. travail' = [travail EXCEPT ![f] = [t EXCEPT !.etape = "lire", !.reste = s]]
      BY <1>12, <2>3 DEF relireLesNouveauxDocuments
    <3>. HIDE DEF s
    <3>3. travail'[f].etape = "lire" /\ travail'[f].reste = s /\ travail'[f].fin = t.fin
      BY <1>0, <3>2 DEF Travaux
    <3>4. travail'[f].fin - Len(travail'[f].reste) = offset[Ou[f]]
      BY <2>1, <3>1, <3>3
    <3>5. ASSUME NEW p \in Processus, NEW d \in Documents, Sait(p, d) PROVE Sait(p, d)'
      <4>1. \A i \in 1..Len(journal) : Vu(p, i)' => Vu(p, i)
        BY <2>1, <3>3, <3>4 DEF Vu, Relit
      <4>2. \A g \in Fils : /\ EnMain(g, p, d) => EnMain(g, p, d)'
                            /\ Pose(g, p, d)' <=> Pose(g, p, d)
                            /\ Pose(g, p, d) => travail'[g].val = travail[g].val
        BY <2>1, <3>3 DEF EnMain, Pose
      <4>3. Lu(d)' = Lu(d)
        BY <2>1 DEF Lu
      <4>. QED  BY <1>0, <2>1, <3>5, <4>1, <4>2, <4>3, SaitPas
    <3>. QED  BY <2>1, <3>5 DEF Suivi
  <2>. QED  BY <2>2, <2>3
<1>13. ASSUME NEW f \in Fils, RelireUnFichier(f) PROVE Suivi'
  <2>. DEFINE t == travail[f]
              n == Head(t.reste)
              lu == t.fin - Len(t.reste)
  <2>1. /\ t.etape = "lire" /\ t.reste \in Seq(Documents) /\ t.reste # <<>> /\ t.fin \in Nat
        /\ t.fin <= Len(journal) /\ offset[Ou[f]] <= lu
        /\ \A g \in Fils : g # f => travail'[g] = travail[g]
        /\ UNCHANGED <<docs, fichier, journal, offset, charge, coupes, tus>>
    BY <1>0, <1>13, FilType DEF RelireUnFichier, RelectureInv, Relit
  <2>2. /\ n \in Documents /\ n = t.reste[1] /\ Len(t.reste) \in Nat \ {0}
        /\ Len(Tail(t.reste)) = Len(t.reste) - 1
    BY <2>1, HeadTailProperties, EmptySeq, LenProperties
  <2>3. n = journal[lu + 1]
    BY <2>1, <2>2 DEF RelectureInv, Relit
  <2>4. /\ travail'[f].reste = Tail(t.reste) /\ travail'[f].fin = t.fin
        /\ \/ Lu(n) = 0 /\ travail'[f].etape = "lire"
           \/ travail'[f].etape = "poser" /\ travail'[f].doc = n /\ travail'[f].val = Lu(n)
    BY <1>0, <1>13 DEF RelireUnFichier, Travaux
  <2>5. \A g \in Fils : g # f => ~Relit(g, Ou[f])
    BY <2>1 DEF RelectureInv, Relit
  <2>6. ASSUME NEW p \in Processus, NEW i \in 1..Len(journal), Vu(p, i)'
        PROVE  Vu(p, i) \/ (p = Ou[f] /\ i = lu + 1)
    <3>1. travail'[f].fin - Len(travail'[f].reste) = lu + 1
      BY <2>1, <2>2, <2>4
    <3>2. lu \in Int
      BY <2>1, <2>2
    <3>. HIDE DEF lu
    <3>3. CASE \E g \in Fils : g # f /\ Relit(g, p) /\ i <= travail[g].fin - Len(travail[g].reste)
      BY <3>3 DEF Vu
    <3>4. CASE i <= offset[p]
      BY <3>4 DEF Vu
    <3>5. CASE Relit(f, p)' /\ i <= lu + 1
      <4>1. p = Ou[f] /\ Relit(f, p)
        BY <2>1, <3>5 DEF Relit
      <4>2. CASE i <= lu
        BY <4>1, <4>2 DEF Vu, lu
      <4>3. CASE i = lu + 1
        BY <4>1, <4>3
      <4>. QED  BY <3>2, <3>5, <4>2, <4>3
    <3>. QED  BY <2>1, <2>6, <3>1, <3>3, <3>4, <3>5 DEF Vu, Relit
  <2>. HIDE DEF lu
  <2>7. ASSUME NEW p \in Processus, NEW d \in Documents, Sait(p, d) PROVE Sait(p, d)'
    <3>1. CASE p = Ou[f] /\ d = n
      <4>1. Lu(d)' = Lu(d)
        BY <2>1 DEF Lu
      <4>2. Lu(d) = 0 \/ (travail'[f].etape = "poser" /\ travail'[f].doc = d /\ travail'[f].val = Lu(d))
        BY <2>4, <3>1
      <4>. QED  BY <3>1, <4>1, <4>2 DEF Sait, Pose
    <3>2. CASE ~(p = Ou[f] /\ d = n)
      <4>1. \A i \in 1..Len(journal) : journal[i] = d /\ Vu(p, i)' => Vu(p, i)
        BY <2>3, <2>6, <3>2
      <4>2. \A g \in Fils : /\ EnMain(g, p, d) => EnMain(g, p, d)'
                            /\ Pose(g, p, d)' <=> Pose(g, p, d)
                            /\ Pose(g, p, d) => travail'[g].val = travail[g].val
        BY <2>1, <2>4, <3>2 DEF EnMain, Pose
      <4>3. Lu(d)' = Lu(d)
        BY <2>1 DEF Lu
      <4>. QED  BY <1>0, <2>1, <2>7, <4>1, <4>2, <4>3, SaitPas
    <3>. QED  BY <3>1, <3>2
  <2>. QED  BY <2>1, <2>7 DEF Suivi
<1>14. ASSUME NEW f \in Fils, Poser(f) PROVE Suivi'
  <2>. DEFINE t == travail[f]
  <2>1. /\ t.etape = "poser" /\ t.doc \in Documents
        /\ docs' = [docs EXCEPT ![Ou[f]][t.doc] = t.val]
        /\ travail'[f] = [t EXCEPT !.etape = "lire"]
        /\ \A g \in Fils : g # f => travail'[g] = travail[g]
        /\ UNCHANGED <<fichier, journal, offset, charge, coupes, tus>>
    BY <1>0, <1>14, FilType DEF Poser, Roles
  <2>2. travail'[f].etape = "lire" /\ travail'[f].fin = t.fin /\ travail'[f].reste = t.reste
    BY <1>0, <2>1 DEF Travaux
  <2>3. \A g \in Fils : g # f => ~Relit(g, Ou[f])
    BY <2>1 DEF RelectureInv, Relit
  <2>4. ASSUME NEW p \in Processus, NEW d \in Documents, Sait(p, d) PROVE Sait(p, d)'
    <3>1. \A i \in 1..Len(journal) : Vu(p, i)' => Vu(p, i)
      BY <2>1, <2>2 DEF Vu, Relit
    <3>2. \A g \in Fils : EnMain(g, p, d) => EnMain(g, p, d)'
      BY <2>1, <2>2 DEF EnMain
    <3>3. Lu(d)' = Lu(d)
      BY <2>1 DEF Lu
    <3>4. CASE ~(p = Ou[f] /\ d = t.doc)
      <4>1. \A g \in Fils : /\ Pose(g, p, d)' <=> Pose(g, p, d)
                            /\ Pose(g, p, d) => travail'[g].val = travail[g].val
        BY <2>1, <2>2, <3>4 DEF Pose
      <4>2. docs'[p][d] = docs[p][d]
        BY <1>0, <2>1, <3>4
      <4>. QED  BY <1>0, <2>1, <2>4, <3>1, <3>2, <3>3, <4>1, <4>2, SaitPas
    <3>5. CASE p = Ou[f] /\ d = t.doc
      <4>1. \A g \in Fils : ~Pose(g, p, d)' /\ (Pose(g, p, d) => g = f) /\ Pose(f, p, d)
        BY <2>1, <2>2, <2>3, <3>5 DEF Pose, Relit
      <4>2. docs'[p][d] = t.val
        BY <1>0, <2>1, <3>5
      <4>3. CASE EnRoute(p, d)
        <5>1. journal' = journal /\ charge' = charge /\ Len(journal) \in Nat
          BY <1>0, <2>1, LenProperties
        <5>2. EnRoute(p, d)'
          BY <3>1, <3>2, <4>3, <5>1, RoutePas
        <5>. QED  BY <5>2 DEF Sait
      <4>4. CASE ~EnRoute(p, d)
        BY <2>4, <3>3, <4>1, <4>2, <4>4 DEF Sait
      <4>. QED  BY <4>3, <4>4
    <3>. QED  BY <3>4, <3>5
  <2>. QED  BY <2>1, <2>4 DEF Suivi
<1>15. ASSUME NEW f \in Fils, FinDeRelecture(f) PROVE Suivi'
  <2>. DEFINE t == travail[f]
  <2>1. /\ t.etape = "lire" /\ t.reste = <<>> /\ t.fin \in Nat
        /\ offset' = [offset EXCEPT ![Ou[f]] = t.fin]
        /\ travail'[f] = Libre
        /\ \A g \in Fils : g # f => travail'[g] = travail[g]
        /\ UNCHANGED <<docs, fichier, journal, charge, coupes, tus>>
    BY <1>0, <1>15, FilType DEF FinDeRelecture
  <2>2. t.fin - Len(t.reste) = t.fin
    BY <2>1
  <2>3. ASSUME NEW p \in Processus, NEW d \in Documents, Sait(p, d) PROVE Sait(p, d)'
    <3>1. ASSUME NEW i \in 1..Len(journal), Vu(p, i)' PROVE Vu(p, i)
      <4>1. CASE \E g \in Fils : g # f /\ Relit(g, p) /\ i <= travail[g].fin - Len(travail[g].reste)
        BY <4>1 DEF Vu
      <4>2. CASE p # Ou[f] /\ i <= offset[p]
        BY <4>2 DEF Vu
      <4>3. CASE p = Ou[f] /\ i <= t.fin
        BY <2>1, <2>2, <4>3 DEF Vu, Relit
      <4>4. ~Relit(f, p)'
        BY <2>1 DEF Relit, Libre, Appel
      <4>5. CASE i <= offset'[p]
        BY <1>0, <2>1, <4>2, <4>3, <4>5
      <4>6. CASE ~(i <= offset'[p])
        <5>1. PICK g \in Fils : Relit(g, p)' /\ i <= travail'[g].fin - Len(travail'[g].reste)
          BY <3>1, <4>6 DEF Vu
        <5>2. g # f /\ travail'[g] = travail[g]
          BY <2>1, <4>4, <5>1
        <5>. QED  BY <4>1, <5>1, <5>2 DEF Relit
      <4>. QED  BY <4>5, <4>6
    <3>2. \A g \in Fils : /\ EnMain(g, p, d) => EnMain(g, p, d)'
                          /\ Pose(g, p, d)' <=> Pose(g, p, d)
                          /\ Pose(g, p, d) => travail'[g].val = travail[g].val
      BY <2>1 DEF EnMain, Pose, Libre, Appel
    <3>3. Lu(d)' = Lu(d)
      BY <2>1 DEF Lu
    <3>. QED  BY <1>0, <2>1, <2>3, <3>1, <3>2, <3>3, SaitPas
  <2>. QED  BY <2>1, <2>3 DEF Suivi
<1>16. ASSUME NEW q \in Processus, Redemarrer(q) PROVE Suivi'
  <2>1. /\ \A d \in Documents : fichier[d] # 0 => d \in charge'[q]
        /\ \A p \in Processus : p # q => charge'[p] = charge[p]
        /\ \A p \in Processus : p # q => docs'[p] = docs[p] /\ offset'[p] = offset[p]
        /\ \A f \in Fils : IF Ou[f] = q THEN travail'[f] = Libre ELSE travail'[f] = travail[f]
        /\ \A f \in Fils : Ou[f] = q /\ travail[f].etape = "annoncer" => travail[f].doc \in tus'
        /\ coupes \subseteq coupes' /\ tus \subseteq tus' /\ fichier' = fichier /\ journal' = journal
    <3>1. \A f \in Fils : Ou[f] = q /\ travail[f].etape = "annoncer" => travail[f].doc \in tus'
      BY <1>16 DEF Redemarrer
    <3>2. /\ \A d \in Documents : fichier[d] # 0 => d \in charge'[q]
          /\ \A p \in Processus : p # q => charge'[p] = charge[p]
      BY <1>0, <1>16 DEF Redemarrer
    <3>. QED  BY <1>0, <1>16, <3>1, <3>2 DEF Redemarrer
  <2>2. ASSUME NEW p \in Processus, NEW d \in Documents \ tus', Sait(p, d) PROVE Sait(p, d)'
    <3>1. CASE p = q
      BY <1>0, <2>1, <3>1 DEF Sait, EnRoute, Lu
    <3>2. CASE p # q
      <4>1. \A f \in Fils : /\ EnMain(f, p, d) => EnMain(f, p, d)'
                            /\ Pose(f, p, d)' <=> Pose(f, p, d)
                            /\ Pose(f, p, d) => travail'[f].val = travail[f].val
        BY <2>1, <3>2 DEF EnMain, Pose, Libre, Appel
      <4>2. \A i \in 1..Len(journal) : Vu(p, i)' => Vu(p, i)
        BY <2>1, <3>2 DEF Vu, Relit, Libre, Appel
      <4>3. Lu(d)' = Lu(d) /\ docs'[p][d] = docs[p][d] /\ charge'[p] = charge[p]
        BY <1>0, <2>1, <3>2 DEF Lu
      <4>4. CASE EnRoute(p, d)
        <5>1. journal' = journal /\ Len(journal) \in Nat
          BY <1>0, <2>1, LenProperties
        <5>2. EnRoute(p, d)'
          BY <4>1, <4>2, <4>3, <4>4, <5>1, RoutePas
        <5>. QED  BY <5>2 DEF Sait
      <4>5. CASE ~EnRoute(p, d)
        BY <2>2, <4>1, <4>3, <4>5 DEF Sait
      <4>. QED  BY <4>4, <4>5
    <3>. QED  BY <3>1, <3>2
  <2>. QED  BY <2>1, <2>2 DEF Suivi
<1>17. ASSUME NEW q \in Processus, chargerDocuments(q) PROVE Suivi'
  <2>1. PICK c \in charge[q] : /\ charge' = [charge EXCEPT ![q] = @ \ {c}]
                               /\ docs' = [docs EXCEPT ![q][c] = Lu(c)]
    BY <1>17 DEF chargerDocuments
  <2>2. c \in Documents /\ UNCHANGED <<fichier, journal, offset, travail, coupes, tus>>
    BY <1>0, <1>17 DEF chargerDocuments
  <2>3. \A f \in Fils : Ou[f] = q => travail[f].etape = "libre"
    BY <2>1 DEF Roles
  <2>4. ASSUME NEW p \in Processus, NEW d \in Documents, Sait(p, d) PROVE Sait(p, d)'
    <3>1. Lu(d)' = Lu(d) /\ \A f \in Fils : Pose(f, p, d)' <=> Pose(f, p, d)
      BY <2>2 DEF Lu, Pose
    <3>2. CASE p = q /\ d = c
      <4>1. docs'[p][d] = Lu(d) /\ \A f \in Fils : ~Pose(f, p, d)
        BY <1>0, <2>1, <2>2, <2>3, <3>2 DEF Pose
      <4>. QED  BY <3>1, <4>1 DEF Sait
    <3>3. CASE ~(p = q /\ d = c)
      <4>1. docs'[p][d] = docs[p][d] /\ (d \in charge[p] => d \in charge'[p])
        BY <1>0, <2>1, <3>3
      <4>2. EnRoute(p, d) => EnRoute(p, d)'
        BY <2>2, <4>1 DEF EnRoute, Annonce, Vu, Relit, EnMain
      <4>. QED  BY <2>2, <2>4, <3>1, <4>1, <4>2 DEF Sait
    <3>. QED  BY <3>2, <3>3
  <2>. QED  BY <2>2, <2>4 DEF Suivi
<1>18. CASE UNCHANGED vars
  BY <1>18 DEF vars, Suivi, Sait, EnRoute, Annonce, Vu, Relit, EnMain, Pose, Lu
<1>. QED
  BY <1>1, <1>2, <1>3, <1>4, <1>5, <1>6, <1>7, <1>8, <1>9, <1>10, <1>11, <1>12, <1>13, <1>14,
     <1>15, <1>16, <1>17, <1>18 DEF Next, Etape, CommitDocuments, publierHistoriqueDeBataille

-----------------------------------------------------------------------------
(* The theorems.                                                            *)

LEMMA InitInv == Init => TypeOK /\ CreditInv /\ RelectureInv /\ Suivi
<1>. SUFFICES ASSUME Init PROVE TypeOK /\ CreditInv /\ RelectureInv /\ Suivi
  OBVIOUS
<1>1. TypeOK
  BY LibreType DEF Init, TypeOK, Partiel
<1>2. CreditInv
  BY DEF Init, CreditInv, Roles, UnSeulCredit, CreditSuivi, Libre, Appel, Partiel
<1>3. RelectureInv
  BY DEF Init, RelectureInv, Relit, Libre, Appel
<1>4. Suivi
  BY DEF Init, Suivi, Sait, Lu, Partiel
<1>. QED  BY <1>1, <1>2, <1>3, <1>4

(* No property of a document is needed for the types, the credits and the   *)
(* readings to go on.                                                       *)
LEMMA InvStep ==
  TypeOK /\ CreditInv /\ RelectureInv /\ [Next]_vars => TypeOK' /\ CreditInv' /\ RelectureInv'
BY TypeStep, RolesStep, CreditStep, RelectureStep DEF CreditInv

(* Types, the credits of a card and the readings, in every reachable state. *)
LEMMA Invariant == Spec => [](TypeOK /\ CreditInv /\ RelectureInv)
<1>1. Init => TypeOK /\ CreditInv /\ RelectureInv
  BY InitInv
<1>. QED  BY <1>1, InvStep, PTL DEF Spec

(* Memories, files, the journal and the calls under way are well typed, and *)
(* no process has passed more of the journal than there is (documentStore,  *)
(* derniereRelecture).                                                      *)
THEOREM UgcTypeCorrect == Spec => []TypeOK
BY Invariant, PTL

(* No shift is lost from a card, for any handlers, failures and restarts    *)
(* (crediterCartesDePoints).                                                *)
THEOREM CreditsAlwaysStay == Spec => []CreditsStay
<1>1. CreditInv => CreditsStay
  BY DEF CreditInv, CreditSuivi, CreditsStay, carteMu
<1>. QED  BY <1>1, Invariant, PTL

(* Where no fallback read is overtaken by a write, a process that has read  *)
(* the journal serves what the files hold (relireLesNouveauxDocuments,      *)
(* chargerDocuments).                                                       *)
THEOREM ReadersCatchUp == Spec /\ []RepliFrais => []CaughtUp
<1>. DEFINE I == TypeOK /\ CreditInv /\ RelectureInv /\ Suivi
<1>1. Init => I
  BY InitInv
<1>2. I /\ RepliFrais /\ [Next]_vars => I'
  BY InvStep, SuiviStep DEF CreditInv
<1>3. I => CaughtUp
  <2>. SUFFICES ASSUME I, NEW p \in Processus, NEW d \in Documents \ (coupes \cup tus), ~EnChemin(p, d)
                PROVE  Lu(d) \in {0, docs[p][d]}
    BY DEF CaughtUp
  <2>1. Sait(p, d)
    BY DEF Suivi
  <2>2. ~EnRoute(p, d)
    BY DEF EnChemin, EnRoute, Annonce, Vu, EnMain, TypeOK
  <2>3. \A f \in Fils : ~Pose(f, p, d)
    BY DEF EnChemin, Pose, RelectureInv
  <2>. QED  BY <2>1, <2>2, <2>3 DEF Sait
<1>. QED  BY <1>1, <1>2, <1>3, PTL DEF Spec
=============================================================================
