--------------------------- MODULE GameRoomsProofs ---------------------------
(* The inductive invariant of GameRooms and what follows from it.           *)
EXTENDS GameRooms, FiniteSetTheorems, TLAPS

(* What every list of GameRooms relies on: the assumptions, as types.       *)
LEMMA Constantes ==
  /\ \A u \in Uss : JoueurDe[u] \in Joueurs /\ PartieDe[u] \in Parties
  /\ \A g \in Parties : HoteDe[g] \in Uss /\ PartieDe[HoteDe[g]] = g
  /\ \A f \in Flux : UssDe[f] \in Uss
  /\ Rien \notin Uss \cup Flux
BY RoomsAssumption

(* A list of distinct players is no longer than the players who came.       *)
LEMMA PasPlusQueVenus ==
  ASSUME NEW S \in SUBSET Uss, NEW V \in SUBSET Uss, S \subseteq V,
         \A x, y \in S : JoueurDe[x] = JoueurDe[y] => x = y
  PROVE  /\ IsFiniteSet({JoueurDe[x] : x \in V})
         /\ Cardinality(S) <= Cardinality({JoueurDe[x] : x \in V})
<1> DEFINE J == {JoueurDe[x] : x \in V}
           f == [x \in V |-> JoueurDe[x]]
           h == [x \in S |-> JoueurDe[x]]
<1>1. IsFiniteSet(J)
  <2>1. f \in Surjection(V, J)
    BY DEF Surjection
  <2> QED BY <2>1, RoomsAssumption, FS_Subset, FS_Surjection
<1>2. h \in Injection(S, J)
  BY DEF Injection, IsInjective
<1>3. Cardinality(S) <= Cardinality(J)
  <2> HIDE DEF J, h
  <2> QED BY <1>1, <1>2, FS_Injection
<1> QED BY <1>1, <1>3

(* The greatest rank plus one is above every rank.                          *)
LEMMA RangAuDessus ==
  ASSUME TypeOK, NEW u \in Uss, u \notin sess, NEW r \in RangDe(u)
  PROVE  /\ r \in Nat /\ r > 0
         /\ \A v \in sess : PartieDe[v] = PartieDe[u] => rang[v] < r
<1> DEFINE R == RangsDe(PartieDe[u]) \cup {0}
<1>1. R \subseteq Nat
  <2>1. \A v \in sess : rang[v] \in Nat
    BY DEF TypeOK
  <2> QED BY <2>1 DEF RangsDe
<1>2. PICK s \in R : r = s + 1 /\ \A t \in R : t <= s
  BY DEF RangDe
<1>3. \A v \in sess : PartieDe[v] = PartieDe[u] => rang[v] \in R
  BY DEF RangsDe
<1> QED BY <1>1, <1>2, <1>3
-----------------------------------------------------------------------------
(* Types.                                                                   *)

LEMMA TypageInit == Init => TypeOK
<1> SUFFICES ASSUME Init PROVE TypeOK
  OBVIOUS
<1> USE DEF Init
<1>1. salon \in [Parties -> {"a creer", "ouvert", "retire", "annule"}]
  OBVIOUS
<1>2. jonction \in [Uss -> {"non", "lue", "notee", "faite"}]
  OBVIOUS
<1>3. flux \in [Flux -> Etapes]
  BY DEF Etapes
<1>4. /\ fiche \in [Parties -> SUBSET Uss]
      /\ effectif \in [Parties -> Nat]
      /\ rang \in [Uss -> Nat]
      /\ jetons \in [Uss -> Nat]
  OBVIOUS
<1>5. /\ perimees \in [Uss -> {Rien} \cup SUBSET Uss]
      /\ radier \in [Uss \cup Flux -> Uss \cup {Rien}]
      /\ wakers \in [Uss -> Flux \cup {Rien}]
      /\ last \in Uss \cup {Rien}
  OBVIOUS
<1> QED BY <1>1, <1>2, <1>3, <1>4, <1>5 DEF TypeOK

LEMMA TypagePas == ASSUME TypeOK, [Next]_vars PROVE TypeOK'
<1>0. \A u \in Uss : \A r \in RangDe(u) : r \in Nat
  BY RangAuDessus DEF RangDe, TypeOK
<1> USE DEF TypeOK, Etapes, rvars, ivars, svars, fvars
<1>1. ASSUME NEW g \in Parties, CreateGameSessionCreationTicket(g) PROVE TypeOK'
  <2>1. HoteDe[g] \in Uss /\ PartieDe[HoteDe[g]] = g
    BY Constantes
  <2>2. fiche' \in [Parties -> SUBSET Uss]
    BY <1>1, <2>1 DEF CreateGameSessionCreationTicket, noterParticipant
  <2>3. /\ salon' \in [Parties -> {"a creer", "ouvert", "retire", "annule"}]
        /\ effectif' \in [Parties -> Nat]
        /\ emises' \subseteq Uss
    BY <1>1, <2>1 DEF CreateGameSessionCreationTicket
  <2> QED BY <1>1, <2>2, <2>3 DEF CreateGameSessionCreationTicket
<1>2. ASSUME NEW g \in Parties, CreateGameSessionShortAlias(g) PROVE TypeOK'
  BY <1>2 DEF CreateGameSessionShortAlias
<1>3. ASSUME NEW g \in Parties, CancelGameSessionCreationTicket(g) PROVE TypeOK'
  BY <1>3 DEF CancelGameSessionCreationTicket
<1>4. ASSUME NEW u \in Uss, JoinGameSession(u) PROVE TypeOK'
  BY <1>4 DEF JoinGameSession
<1>5. ASSUME NEW u \in Uss, IssueToken(u) PROVE TypeOK'
  BY <1>5 DEF IssueToken, DuJoueur
<1>6. ASSUME NEW f \in Flux, KeepUserSession(f) PROVE TypeOK'
  BY <1>6, Constantes DEF KeepUserSession
<1>7. ASSUME NEW f \in Flux, StreamEnds(f) PROVE TypeOK'
  BY <1>7 DEF StreamEnds
<1>8. ASSUME NEW g \in Parties, CancelFinish(g) PROVE TypeOK'
  BY <1>8 DEF CancelFinish
<1>9. ASSUME NEW u \in Uss, JoinNote(u) PROVE TypeOK'
  BY <1>9, Constantes DEF JoinNote, noterParticipant
<1>10. ASSUME NEW u \in Uss, JoinCount(u) PROVE TypeOK'
  <2>1. IsFiniteSet(fiche[PartieDe[u]])
    BY Constantes, RoomsAssumption, FS_Subset
  <2>2. Cardinality(fiche[PartieDe[u]]) \in Nat
    BY <2>1, FS_CardinalityType
  <2> QED BY <1>10, <2>2, Constantes DEF JoinCount
<1>11. ASSUME NEW u \in Uss, IssueForget(u) PROVE TypeOK'
  <2>1. PICK v \in perimees[u] :
          /\ perimees' = [perimees EXCEPT ![u] = @ \ {v}]
          /\ oublierSession(u, v)
    BY <1>11 DEF IssueForget
  <2>2. perimees[u] \in SUBSET Uss
    BY <1>11 DEF IssueForget
  <2>3. v \in Uss
    BY <2>2
  <2>4. perimees' \in [Uss -> {Rien} \cup SUBSET Uss]
    BY <2>1, <2>2
  <2>5. /\ sess' \subseteq Uss /\ rang' \in [Uss -> Nat]
        /\ last' \in Uss \cup {Rien}
        /\ radier' \in [Uss \cup Flux -> Uss \cup {Rien}]
    BY <2>1, <2>3 DEF oublierSession
  <2> QED BY <1>11, <2>4, <2>5 DEF IssueForget
<1>12. ASSUME NEW u \in Uss, IssueRegister(u) PROVE TypeOK'
  <2>1. PICK r \in RangDe(u) : rang' = [rang EXCEPT ![u] = r]
    BY <1>12 DEF IssueRegister
  <2>2. r \in Nat
    BY <1>0
  <2>3. perimees' \in [Uss -> {Rien} \cup SUBSET Uss]
    BY <1>12 DEF IssueRegister
  <2>4. jetons' \in [Uss -> Nat]
    <3>1. jetons' = [jetons EXCEPT ![u] = @ + 1]
      BY <1>12 DEF IssueRegister
    <3>2. jetons[u] \in Nat /\ jetons \in [Uss -> Nat]
      OBVIOUS
    <3> HIDE DEF TypeOK
    <3> QED BY <3>1, <3>2
  <2>5. /\ sess' \subseteq Uss /\ rang' \in [Uss -> Nat]
        /\ last' \in Uss \cup {Rien}
    BY <1>12, <2>1, <2>2 DEF IssueRegister
  <2> QED BY <1>12, <2>3, <2>4, <2>5 DEF IssueRegister
<1>13. ASSUME NEW x \in Uss \cup Flux, Strike(x) PROVE TypeOK'
  <2>1. radier[x] \in Uss
    BY <1>13 DEF Strike
  <2>2. fiche' \in [Parties -> SUBSET Uss]
    BY <1>13, <2>1, Constantes DEF Strike, oublierParticipant
  <2>3. radier' \in [Uss \cup Flux -> Uss \cup {Rien}]
    BY <1>13 DEF Strike
  <2> QED BY <1>13, <2>2, <2>3 DEF Strike
<1>14. ASSUME NEW f \in Flux, setStreamClosed(f) PROVE TypeOK'
  <2>1. flux' = [flux EXCEPT ![f] = "clos"] /\ closing' = closing \cup {UssDe[f]}
    BY <1>14 DEF setStreamClosed
  <2>2. flux' \in [Flux -> Etapes]
    BY <2>1
  <2>3. closing' \subseteq Uss
    <3>1. UssDe[f] \in Uss /\ closing \subseteq Uss
      BY Constantes
    <3> QED BY <2>1, <3>1
  <2> QED BY <1>14, <2>2, <2>3 DEF setStreamClosed
<1>15. ASSUME NEW f \in Flux, DropWaker(f) PROVE TypeOK'
  BY <1>15, Constantes DEF DropWaker
<1>16. ASSUME NEW f \in Flux, StreamForgets(f) PROVE TypeOK'
  BY <1>16, Constantes DEF StreamForgets, oublierSession
<1>17. CASE UNCHANGED vars
  BY <1>17 DEF vars
<1> HIDE DEF TypeOK
<1> QED
  BY <1>1, <1>2, <1>3, <1>4, <1>5, <1>6, <1>7, <1>8, <1>9, <1>10, <1>11, <1>12,
     <1>13, <1>14, <1>15, <1>16, <1>17
     DEF Next, Consoles, Salons, FinDeJonction, FinDeJeton, FinDeFlux
-----------------------------------------------------------------------------
(* Ranks.                                                                   *)

(* The registry changes by oublierSession and by IssueRegister only.        *)
LEMMA SessionsPas ==
  ASSUME TypeOK, [Next]_vars
  PROVE  \/ UNCHANGED <<sess, rang>>
         \/ \E x \in Uss \cup Flux, v \in Uss : oublierSession(x, v)
         \/ \E u \in Uss : IssueRegister(u)
<1> USE DEF rvars, ivars, svars, fvars
<1>1. ASSUME Salons PROVE UNCHANGED svars
  BY <1>1 DEF Salons, CreateGameSessionCreationTicket, CreateGameSessionShortAlias,
              CancelGameSessionCreationTicket, JoinGameSession
<1>2. ASSUME Consoles PROVE UNCHANGED svars
  BY <1>1, <1>2 DEF Consoles, IssueToken, KeepUserSession, StreamEnds
<1>3. ASSUME NEW u \in Uss, FinDeJonction(u) PROVE UNCHANGED svars
  BY <1>3 DEF FinDeJonction, JoinNote, JoinCount
<1>4. ASSUME NEW u \in Uss, IssueForget(u)
      PROVE  \E v \in Uss : oublierSession(u, v)
  <2>1. perimees[u] \in SUBSET Uss
    BY <1>4 DEF IssueForget, TypeOK
  <2> QED BY <1>4, <2>1 DEF IssueForget
<1>5. ASSUME NEW f \in Flux, StreamForgets(f)
      PROVE  \E v \in Uss : oublierSession(f, v)
  BY <1>5, Constantes DEF StreamForgets
<1>6. ASSUME NEW x \in Uss \cup Flux, Strike(x) PROVE UNCHANGED svars
  BY <1>6 DEF Strike
<1>7. ASSUME NEW f \in Flux, setStreamClosed(f) \/ DropWaker(f) PROVE UNCHANGED svars
  BY <1>7 DEF setStreamClosed, DropWaker
<1>8. ASSUME NEW g \in Parties, CancelFinish(g) PROVE UNCHANGED svars
  BY <1>8 DEF CancelFinish
<1>9. CASE UNCHANGED vars
  BY <1>9 DEF vars
<1> QED
  BY <1>2, <1>3, <1>4, <1>5, <1>6, <1>7, <1>8, <1>9 DEF Next, FinDeJeton, FinDeFlux

(* Ranks stay apart, and a session that stays keeps its own.                *)
LEMMA RangsPas ==
  ASSUME TypeOK, RangsDistincts, [Next]_vars
  PROVE  /\ RangsDistincts'
         /\ \A u \in sess \cap sess' : rang'[u] = rang[u]
<1>1. CASE UNCHANGED <<sess, rang>>
  BY <1>1 DEF RangsDistincts
<1>2. ASSUME NEW x \in Uss \cup Flux, NEW v \in Uss, oublierSession(x, v)
      PROVE  /\ RangsDistincts'
             /\ \A u \in sess \cap sess' : rang'[u] = rang[u]
  <2>1. sess' = sess \ {v} /\ \A u \in sess' : rang'[u] = rang[u]
    BY <1>2 DEF oublierSession, TypeOK
  <2> QED BY <2>1 DEF RangsDistincts
<1>3. ASSUME NEW u \in Uss, IssueRegister(u)
      PROVE  /\ RangsDistincts'
             /\ \A v \in sess \cap sess' : rang'[v] = rang[v]
  <2>1. PICK r \in RangDe(u) : rang' = [rang EXCEPT ![u] = r]
    BY <1>3 DEF IssueRegister
  <2>2. sess' = sess \cup {u} /\ rang'[u] = r
        /\ \A v \in sess : v # u => rang'[v] = rang[v]
    BY <1>3, <2>1 DEF IssueRegister, TypeOK
  <2>3. CASE u \in sess
    <3>1. r = rang[u]
      BY <2>1, <2>3 DEF RangDe
    <3> QED BY <2>2, <2>3, <3>1 DEF RangsDistincts
  <2>4. CASE u \notin sess
    <3>1. /\ r \in Nat /\ r > 0
          /\ \A v \in sess : PartieDe[v] = PartieDe[u] => rang[v] < r
      BY <2>1, <2>4, RangAuDessus
    <3>2. \A v \in sess : rang[v] \in Nat
      BY DEF TypeOK
    <3> QED BY <2>2, <2>4, <3>1, <3>2 DEF RangsDistincts
  <2> QED BY <2>3, <2>4
<1> QED BY <1>1, <1>2, <1>3, SessionsPas
-----------------------------------------------------------------------------
(* Lists of participants.                                                   *)

(* u, of the room g, is listed by noterParticipant.                         *)
Note(g, u) ==
  /\ PartieDe[u] = g /\ u \in Venus(g)'
  /\ fiche'[g] = (fiche[g] \ DuJoueur(fiche[g], JoueurDe[u])) \cup {u}
  /\ u = HoteDe[g] => salon'[g] # "annule"

(* What a step may do to the room g.                                        *)
SallePas(g) ==
  /\ Venus(g) \subseteq Venus(g)'
  /\ \/ fiche'[g] \subseteq fiche[g]
     \/ \E u \in Uss : Note(g, u)
  /\ \/ effectif'[g] = effectif[g]
     \/ effectif'[g] = 1 /\ HoteDe[g] \in Venus(g)'
     \/ effectif'[g] = Cardinality(fiche[g])
  /\ salon'[g] = "annule" => salon[g] = "annule" \/ fiche'[g] = {}

(* A user session that joins is not the host's.                             *)
JonctionsDesInvites ==
  \A u \in Uss : jonction[u] # "non" => u # HoteDe[PartieDe[u]]

LEMMA SallesPas ==
  ASSUME TypeOK, JonctionsDesInvites, [Next]_vars
  PROVE  JonctionsDesInvites' /\ \A g \in Parties : SallePas(g)
<1> DEFINE But == JonctionsDesInvites' /\ \A g \in Parties : SallePas(g)
<1>0. /\ \A g \in Parties : fiche[g] \in SUBSET Uss
      /\ fiche \in [Parties -> SUBSET Uss]
      /\ salon \in [Parties -> {"a creer", "ouvert", "retire", "annule"}]
      /\ effectif \in [Parties -> Nat]
      /\ jonction \in [Uss -> {"non", "lue", "notee", "faite"}]
      /\ radier \in [Uss \cup Flux -> Uss \cup {Rien}]
  BY DEF TypeOK
<1>1. ASSUME UNCHANGED rvars, UNCHANGED fiche, emises \subseteq emises' PROVE But
  BY <1>1 DEF rvars, SallePas, Venus, JonctionsDesInvites
<1>2. ASSUME NEW h \in Parties, CreateGameSessionCreationTicket(h) PROVE But
  <2>1. HoteDe[h] \in Uss /\ PartieDe[HoteDe[h]] = h
    BY Constantes
  <2>2. HoteDe[h] \in Venus(h)'
    BY <1>2, <2>1 DEF CreateGameSessionCreationTicket, Venus
  <2>3. \A g \in Parties : Venus(g) \subseteq Venus(g)'
    BY <1>2 DEF CreateGameSessionCreationTicket, Venus
  <2>4. Note(h, HoteDe[h])
    BY <1>0, <1>2, <2>1, <2>2
       DEF CreateGameSessionCreationTicket, noterParticipant, Note
  <2>5. \A g \in Parties : g # h => fiche'[g] = fiche[g]
    BY <1>0, <1>2, <2>1 DEF CreateGameSessionCreationTicket, noterParticipant
  <2>6. \A g \in Parties : /\ g # h => effectif'[g] = effectif[g]
                           /\ effectif'[h] = 1
                           /\ salon'[g] = "annule" => salon[g] = "annule"
    BY <1>0, <1>2 DEF CreateGameSessionCreationTicket
  <2>7. JonctionsDesInvites'
    BY <1>2 DEF CreateGameSessionCreationTicket, JonctionsDesInvites
  <2> QED BY <2>1, <2>2, <2>3, <2>4, <2>5, <2>6, <2>7 DEF SallePas
<1>3. ASSUME NEW h \in Parties, CreateGameSessionShortAlias(h) PROVE But
  BY <1>3 DEF CreateGameSessionShortAlias, ivars, SallePas, Venus, JonctionsDesInvites
<1>4. ASSUME NEW h \in Parties, CancelGameSessionCreationTicket(h) PROVE But
  BY <1>0, <1>4
     DEF CancelGameSessionCreationTicket, ivars, SallePas, Venus, JonctionsDesInvites
<1>5. ASSUME NEW h \in Parties, CancelFinish(h) PROVE But
  BY <1>0, <1>5 DEF CancelFinish, ivars, SallePas, Venus, JonctionsDesInvites
<1>6. ASSUME NEW v \in Uss, JoinGameSession(v) PROVE But
  BY <1>0, <1>6 DEF JoinGameSession, ivars, SallePas, Venus, JonctionsDesInvites
<1>7. ASSUME NEW v \in Uss, JoinNote(v) PROVE But
  <2>1. PartieDe[v] \in Parties /\ v # HoteDe[PartieDe[v]]
    BY <1>7, Constantes DEF JoinNote, JonctionsDesInvites
  <2>2. \A g \in Parties : Venus(g) \subseteq Venus(g)'
    BY <1>0, <1>7 DEF JoinNote, ivars, Venus
  <2>3. v \in Venus(PartieDe[v])'
    BY <1>0, <1>7 DEF JoinNote, Venus
  <2>4. Note(PartieDe[v], v)
    BY <1>0, <1>7, <2>1, <2>3 DEF JoinNote, noterParticipant, Note
  <2>5. \A g \in Parties : g # PartieDe[v] => fiche'[g] = fiche[g]
    BY <1>0, <1>7, <2>1 DEF JoinNote, noterParticipant
  <2>6. UNCHANGED <<salon, effectif>>
    BY <1>7 DEF JoinNote
  <2>7. JonctionsDesInvites'
    BY <1>0, <1>7 DEF JoinNote, JonctionsDesInvites
  <2> QED BY <2>1, <2>2, <2>4, <2>5, <2>6, <2>7 DEF SallePas
<1>8. ASSUME NEW v \in Uss, JoinCount(v) PROVE But
  <2>1. \A g \in Parties : Venus(g) \subseteq Venus(g)'
    BY <1>0, <1>8 DEF JoinCount, Venus
  <2>2. \A g \in Parties : \/ effectif'[g] = effectif[g]
                           \/ effectif'[g] = Cardinality(fiche[g])
    BY <1>0, <1>8 DEF JoinCount
  <2>3. UNCHANGED <<salon, fiche>>
    BY <1>8 DEF JoinCount
  <2>4. JonctionsDesInvites'
    BY <1>0, <1>8 DEF JoinCount, JonctionsDesInvites
  <2> QED BY <2>1, <2>2, <2>3, <2>4 DEF SallePas
<1>9. ASSUME NEW x \in Uss \cup Flux, Strike(x) PROVE But
  <2>1. radier[x] \in Uss /\ PartieDe[radier[x]] \in Parties
    BY <1>0, <1>9, Constantes DEF Strike
  <2>2. \A g \in Parties : fiche'[g] \subseteq fiche[g]
    BY <1>0, <1>9, <2>1 DEF Strike, oublierParticipant
  <2>3. UNCHANGED rvars /\ UNCHANGED emises
    BY <1>9 DEF Strike, ivars
  <2> QED BY <2>2, <2>3 DEF rvars, SallePas, Venus, JonctionsDesInvites
<1>10. ASSUME NEW u \in Uss, IssueToken(u) \/ IssueForget(u) \/ IssueRegister(u)
       PROVE  But
  BY <1>1, <1>10 DEF IssueToken, IssueForget, IssueRegister
<1>11. ASSUME NEW f \in Flux,
              \/ KeepUserSession(f) \/ StreamEnds(f)
              \/ setStreamClosed(f) \/ DropWaker(f) \/ StreamForgets(f)
       PROVE  But
  BY <1>1, <1>11
     DEF KeepUserSession, StreamEnds, setStreamClosed, DropWaker, StreamForgets, ivars
<1>12. ASSUME UNCHANGED vars PROVE But
  BY <1>1, <1>12 DEF vars, ivars
<1> HIDE DEF But
<1>13. ASSUME Consoles PROVE But
  BY <1>2, <1>3, <1>4, <1>6, <1>10, <1>11, <1>13 DEF Consoles, Salons
<1>14. ASSUME NEW u \in Uss, FinDeJonction(u) \/ FinDeJeton(u) PROVE But
  BY <1>7, <1>8, <1>9, <1>10, <1>14 DEF FinDeJonction, FinDeJeton
<1>15. ASSUME NEW f \in Flux, FinDeFlux(f) PROVE But
  BY <1>9, <1>11, <1>15 DEF FinDeFlux
<1>16. ASSUME Next PROVE But
  BY <1>5, <1>13, <1>14, <1>15, <1>16 DEF Next
<1>17. But
  BY <1>12, <1>16
<1> QED BY <1>17 DEF But

(* Each player once, the count, the host of a room given up, the newcomers. *)
LEMMA ListesPas ==
  ASSUME TypeOK, TypeOK', EachPlayerOnce, HostStruckOff, ListesDesVenus, [Next]_vars
  PROVE  EachPlayerOnce' /\ HostStruckOff' /\ ListesDesVenus'
<1>1. JonctionsDesInvites' /\ \A g \in Parties : SallePas(g)
  BY SallesPas DEF ListesDesVenus, JonctionsDesInvites
<1>2. ASSUME NEW g \in Parties
      PROVE  /\ fiche'[g] \subseteq Venus(g)'
             /\ \A u, v \in fiche'[g] : JoueurDe[u] = JoueurDe[v] => u = v
             /\ salon'[g] = "annule" => HoteDe[g] \notin fiche'[g]
  <2>1. /\ fiche[g] \in SUBSET Uss /\ fiche[g] \subseteq Venus(g)
        /\ \A u, v \in fiche[g] : JoueurDe[u] = JoueurDe[v] => u = v
        /\ salon[g] = "annule" => HoteDe[g] \notin fiche[g]
        /\ Venus(g) \subseteq Venus(g)'
    BY <1>1 DEF TypeOK, EachPlayerOnce, HostStruckOff, ListesDesVenus, SallePas
  <2>2. salon'[g] = "annule" => HoteDe[g] \notin fiche[g] \/ fiche'[g] = {}
    BY <1>1, <2>1 DEF SallePas
  <2>3. CASE fiche'[g] \subseteq fiche[g]
    BY <2>1, <2>2, <2>3
  <2>4. ASSUME NEW w \in Uss, Note(g, w)
        PROVE  /\ fiche'[g] \subseteq Venus(g)'
               /\ \A u, v \in fiche'[g] : JoueurDe[u] = JoueurDe[v] => u = v
               /\ salon'[g] = "annule" => HoteDe[g] \notin fiche'[g]
    <3>1. /\ fiche'[g] = (fiche[g] \ DuJoueur(fiche[g], JoueurDe[w])) \cup {w}
          /\ w \in Venus(g)'
          /\ w = HoteDe[g] => salon'[g] # "annule"
      BY <2>4 DEF Note
    <3>2. /\ fiche'[g] \subseteq fiche[g] \cup {w}
          /\ \A u, v \in fiche'[g] : JoueurDe[u] = JoueurDe[v] => u = v
      BY <2>1, <3>1 DEF DuJoueur
    <3> QED BY <2>1, <2>2, <3>1, <3>2
  <2> QED BY <1>1, <2>3, <2>4 DEF SallePas
<1>3. ASSUME NEW g \in Parties
      PROVE  effectif'[g] <= Cardinality({JoueurDe[u] : u \in Venus(g)'})
  <2> DEFINE J == {JoueurDe[u] : u \in Venus(g)}
             K == {JoueurDe[u] : u \in Venus(g)'}
  <2>1. /\ Venus(g) \in SUBSET Uss /\ Venus(g)' \in SUBSET Uss
        /\ Venus(g) \subseteq Venus(g)'
    BY <1>1 DEF SallePas, Venus
  <2>2. /\ fiche[g] \in SUBSET Uss /\ fiche[g] \subseteq Venus(g)
        /\ \A u, v \in fiche[g] : JoueurDe[u] = JoueurDe[v] => u = v
        /\ effectif[g] <= Cardinality(J)
        /\ effectif[g] \in Nat
    BY DEF TypeOK, EachPlayerOnce, ListesDesVenus
  <2>3. IsFiniteSet(J) /\ Cardinality(fiche[g]) <= Cardinality(J)
    BY <2>1, <2>2, PasPlusQueVenus
  <2>4. IsFiniteSet(K)
    <3>1. /\ {} \in SUBSET Uss /\ {} \subseteq Venus(g)'
          /\ \A x, y \in {} : JoueurDe[x] = JoueurDe[y] => x = y
      BY <2>1
    <3> QED BY <2>1, <3>1, PasPlusQueVenus
  <2>5. J \subseteq K
    BY <2>1
  <2>6. Cardinality(J) <= Cardinality(K) /\ Cardinality(J) \in Nat /\ Cardinality(K) \in Nat
    <3> HIDE DEF J, K
    <3> QED BY <2>3, <2>4, <2>5, FS_Subset, FS_CardinalityType
  <2>7. Cardinality(fiche[g]) \in Nat
    BY <2>2, RoomsAssumption, FS_Subset, FS_CardinalityType
  <2>8. HoteDe[g] \in Venus(g)' => 1 <= Cardinality(K)
    <3>1. ASSUME HoteDe[g] \in Venus(g)' PROVE JoueurDe[HoteDe[g]] \in K
      BY <3>1
    <3>2. ASSUME K # {} PROVE 1 <= Cardinality(K)
      <4> HIDE DEF K
      <4> QED BY <2>4, <2>6, <3>2, FS_EmptySet
    <3> QED BY <3>1, <3>2
  <2> HIDE DEF J, K
  <2>9. effectif'[g] <= Cardinality(K)
    BY <1>1, <2>2, <2>3, <2>6, <2>7, <2>8 DEF SallePas
  <2> QED BY <2>9 DEF K
<1> QED
  BY <1>1, <1>2, <1>3
     DEF EachPlayerOnce, HostStruckOff, ListesDesVenus, JonctionsDesInvites
-----------------------------------------------------------------------------
(* Channels.                                                                *)

(* The channel of a stream that is open passes to one that opens after it.  *)
Passation(f) ==
  flux[f] = "ouvert" /\ wakers[UssDe[f]] = f =>
    \/ wakers'[UssDe[f]] = f
    \/ \E h \in Flux : flux[h] = "libre" /\ wakers'[UssDe[f]] = h

LEMMA ReveilPas ==
  ASSUME TypeOK, ReveilDesVivants, [Next]_vars
  PROVE  ReveilDesVivants' /\ \A f \in Flux : Passation(f)
<1> DEFINE But == ReveilDesVivants' /\ \A f \in Flux : Passation(f)
<1>0. /\ flux \in [Flux -> Etapes]
      /\ wakers \in [Uss -> Flux \cup {Rien}]
      /\ \A f \in Flux : UssDe[f] \in Uss
      /\ Rien \notin Flux
  BY Constantes DEF TypeOK
<1> USE DEF rvars, ivars, svars, fvars
<1>1. ASSUME UNCHANGED <<flux, wakers>> PROVE But
  BY <1>1 DEF ReveilDesVivants, Passation
<1>2. ASSUME NEW g \in Flux, KeepUserSession(g) PROVE But
  BY <1>0, <1>2 DEF KeepUserSession, ReveilDesVivants, Passation
<1>3. ASSUME NEW g \in Flux, StreamEnds(g) PROVE But
  BY <1>0, <1>3 DEF StreamEnds, ReveilDesVivants, Passation
<1>4. ASSUME NEW g \in Flux, setStreamClosed(g) PROVE But
  BY <1>0, <1>4 DEF setStreamClosed, ReveilDesVivants, Passation
<1>5. ASSUME NEW g \in Flux, DropWaker(g) PROVE But
  BY <1>0, <1>5 DEF DropWaker, ReveilDesVivants, Passation
<1>6. ASSUME NEW g \in Flux, StreamForgets(g) PROVE But
  BY <1>0, <1>6 DEF StreamForgets, ReveilDesVivants, Passation
<1>7. ASSUME Salons PROVE But
  BY <1>1, <1>7
     DEF Salons, CreateGameSessionCreationTicket, CreateGameSessionShortAlias,
         CancelGameSessionCreationTicket, JoinGameSession
<1>8. ASSUME NEW u \in Uss, IssueToken(u) \/ FinDeJonction(u) \/ FinDeJeton(u)
      PROVE  But
  BY <1>1, <1>8
     DEF IssueToken, FinDeJonction, FinDeJeton, JoinNote, JoinCount, IssueForget,
         IssueRegister, Strike
<1>9. ASSUME NEW f \in Flux, FinDeFlux(f) PROVE But
  <2>1. ASSUME Strike(f) PROVE But
    BY <1>1, <2>1 DEF Strike
  <2> HIDE DEF But
  <2> QED BY <1>4, <1>5, <1>6, <1>9, <2>1 DEF FinDeFlux
<1>10. ASSUME NEW g \in Parties, CancelFinish(g) PROVE But
  BY <1>1, <1>10 DEF CancelFinish
<1>11. ASSUME UNCHANGED vars PROVE But
  BY <1>1, <1>11 DEF vars
<1> HIDE DEF But
<1>12. ASSUME Consoles PROVE But
  BY <1>2, <1>3, <1>7, <1>8, <1>12 DEF Consoles
<1>13. ASSUME Next PROVE But
  BY <1>8, <1>9, <1>10, <1>12, <1>13 DEF Next
<1>14. But
  BY <1>11, <1>13
<1> QED BY <1>14 DEF But

-----------------------------------------------------------------------------
(* The invariant, and what follows from it.                                 *)

LEMMA InvInit == Init => IInv
<1> SUFFICES ASSUME Init PROVE IInv
  OBVIOUS
<1>1. TypeOK
  BY TypageInit
<1>2. EachPlayerOnce
  <2>1. ASSUME NEW g \in Parties
        PROVE  /\ fiche[g] = {} /\ effectif[g] = 0
               /\ Cardinality({JoueurDe[u] : u \in Venus(g)}) \in Nat
    <3>1. /\ {} \in SUBSET Uss /\ Venus(g) \in SUBSET Uss /\ {} \subseteq Venus(g)
          /\ \A x, y \in {} : JoueurDe[x] = JoueurDe[y] => x = y
      BY DEF Venus
    <3>2. IsFiniteSet({JoueurDe[u] : u \in Venus(g)})
      BY <3>1, PasPlusQueVenus
    <3> QED BY <3>2, FS_CardinalityType DEF Init
  <2> QED BY <2>1 DEF EachPlayerOnce
<1>3. RangsDistincts /\ HostStruckOff /\ ListesDesVenus
  BY DEF Init, RangsDistincts, HostStruckOff, ListesDesVenus
<1>4. ReveilDesVivants
  BY DEF Init, ReveilDesVivants
<1> QED BY <1>1, <1>2, <1>3, <1>4 DEF IInv

LEMMA InvPas == IInv /\ [Next]_vars => IInv'
BY TypagePas, RangsPas, ListesPas, ReveilPas DEF IInv

LEMMA InvToujours == Spec => []IInv
BY InvInit, InvPas, PTL DEF Spec

(* Every variable of the rooms and of the registry keeps its type: a list   *)
(* of participants, a rank, a channel is never of another kind.             *)
THEOREM RoomsTypeCorrect == Spec => []TypeOK
BY InvToujours, PTL DEF IInv

(* Two sessions of a room never share the identifiers the consoles read     *)
(* from rang, in any order of IssueToken, of losses of streams and of their *)
(* late ends (IssueToken and oublierSession of gamesync.go), and a session  *)
(* still in the registry keeps its own.                                     *)
THEOREM RanksStayApart == Spec => RanksApart
<1>1. IInv /\ [Next]_vars
        => [RangsDistincts' /\ \A u \in sess \cap sess' : rang'[u] = rang[u]]_vars
  BY RangsPas DEF IInv
<1> QED BY <1>1, InvToujours, PTL DEF Spec, RanksApart

(* A room lists a player once, never publishes more players than came and,  *)
(* given up, never lists its creator again, whatever the joins, retries and *)
(* departures that interleave.                                              *)
THEOREM ListsStayTrue == Spec => []ListsAreTrue
BY InvToujours, PTL DEF IInv, ListsAreTrue

(* The channel of a user session is never that of a stream whose deferred   *)
(* function dropped it, and only a stream that opens later takes it from    *)
(* one that is open.                                                        *)
THEOREM WakesOnlyTheLiving == Spec => WakesTheLiving
<1>1. IInv => ReveilDesVivants
  BY DEF IInv
<1>2. IInv /\ [Next]_vars
        => [\A f \in Flux : flux[f] = "ouvert" /\ wakers[UssDe[f]] = f =>
             \/ wakers'[UssDe[f]] = f
             \/ \E h \in Flux : flux[h] = "libre" /\ wakers'[UssDe[f]] = h]_vars
  BY ReveilPas DEF IInv, Passation
<1> QED BY <1>1, <1>2, InvToujours, PTL DEF Spec, WakesTheLiving

-----------------------------------------------------------------------------
(* One session per player.                                                  *)

(* What the IssueToken of a player has yet to forget holds all his other    *)
(* sessions, so that none is left once it is empty.                         *)
RienDOublie ==
  \A u \in Uss : perimees[u] # Rien =>
    \A v \in sess : v # u /\ JoueurDe[v] = JoueurDe[u] => v \in perimees[u]

UnInv == TypeOK /\ UnJetonALaFois /\ OneSessionPerPlayer /\ RienDOublie

LEMMA UnPas == UnInv /\ [Next]_vars /\ [Patience]_vars => UnInv'
<1> SUFFICES ASSUME UnInv, [Next]_vars, [Patience]_vars PROVE UnInv'
  OBVIOUS
<1> DEFINE But == OneSessionPerPlayer' /\ RienDOublie'
<1>0. TypeOK /\ UnJetonALaFois /\ OneSessionPerPlayer /\ RienDOublie
  BY DEF UnInv
<1>1. TypeOK'
  BY <1>0, TypagePas
<1>2. UnJetonALaFois'
  BY <1>0 DEF Patience, UnJetonALaFois, vars, ivars
<1>3. ASSUME sess' \subseteq sess, UNCHANGED perimees PROVE But
  BY <1>0, <1>3 DEF OneSessionPerPlayer, RienDOublie
<1>4. ASSUME NEW u \in Uss, IssueToken(u) PROVE But
  <2>1. UNCHANGED sess
    BY <1>4 DEF IssueToken, svars
  <2>2. perimees' = [perimees EXCEPT ![u] = DuJoueur(sess \ {u}, JoueurDe[u])]
    BY <1>4 DEF IssueToken
  <2>3. \A v \in sess : v # u /\ JoueurDe[v] = JoueurDe[u] => v \in perimees'[u]
    BY <1>0, <2>2 DEF TypeOK, DuJoueur
  <2>4. \A w \in Uss : w # u => perimees'[w] = perimees[w]
    BY <1>0, <2>2 DEF TypeOK
  <2> QED BY <1>0, <2>1, <2>3, <2>4 DEF OneSessionPerPlayer, RienDOublie
<1>5. ASSUME NEW u \in Uss, IssueForget(u) PROVE But
  <2>1. PICK v \in perimees[u] : /\ perimees' = [perimees EXCEPT ![u] = @ \ {v}]
                                 /\ sess' = sess \ {v}
    BY <1>5 DEF IssueForget, oublierSession
  <2>2. /\ perimees'[u] = perimees[u] \ {v}
        /\ \A w \in Uss : w # u => perimees'[w] = perimees[w]
    BY <1>0, <2>1 DEF TypeOK
  <2>3. perimees[u] # Rien
    BY <1>5 DEF IssueForget
  <2> QED BY <1>0, <2>1, <2>2, <2>3 DEF OneSessionPerPlayer, RienDOublie
<1>6. ASSUME NEW u \in Uss, IssueRegister(u) PROVE But
  <2>1. perimees[u] = {} /\ perimees[u] # Rien
    BY <1>6, RoomsAssumption DEF IssueRegister
  <2>2. \A v \in sess : JoueurDe[v] = JoueurDe[u] => v = u
    BY <1>0, <2>1 DEF RienDOublie
  <2>3. /\ sess' = sess \cup {u} /\ perimees'[u] = Rien
        /\ \A w \in Uss : w # u => perimees'[w] = perimees[w]
    BY <1>0, <1>6 DEF IssueRegister, TypeOK
  <2>4. \A w \in Uss : w # u /\ JoueurDe[w] = JoueurDe[u] => perimees[w] = Rien
    BY <1>0, <2>1 DEF UnJetonALaFois
  <2>5. OneSessionPerPlayer'
    BY <1>0, <2>2, <2>3 DEF OneSessionPerPlayer
  <2>6. RienDOublie'
    BY <1>0, <2>3, <2>4 DEF RienDOublie
  <2> QED BY <2>5, <2>6
<1>7. ASSUME NEW f \in Flux, FinDeFlux(f) PROVE But
  BY <1>3, <1>7 DEF FinDeFlux, setStreamClosed, DropWaker, StreamForgets, Strike,
                    oublierSession, ivars, svars
<1>8. ASSUME NEW u \in Uss, Strike(u) PROVE But
  BY <1>3, <1>8 DEF Strike, ivars, svars
<1>9. ASSUME NEW u \in Uss, FinDeJonction(u) PROVE But
  BY <1>3, <1>9 DEF FinDeJonction, JoinNote, JoinCount, ivars, svars
<1>10. ASSUME NEW g \in Parties, CancelFinish(g) PROVE But
  BY <1>3, <1>10 DEF CancelFinish, ivars, svars
<1>11. ASSUME Salons PROVE But
  BY <1>3, <1>11
     DEF Salons, CreateGameSessionCreationTicket, CreateGameSessionShortAlias,
         CancelGameSessionCreationTicket, JoinGameSession, ivars, svars
<1>12. ASSUME NEW f \in Flux, KeepUserSession(f) \/ StreamEnds(f) PROVE But
  BY <1>3, <1>12 DEF KeepUserSession, StreamEnds, ivars, svars
<1>13. ASSUME UNCHANGED vars PROVE But
  BY <1>3, <1>13 DEF vars, ivars, svars
<1> HIDE DEF But
<1>14. ASSUME Consoles PROVE But
  BY <1>4, <1>11, <1>12, <1>14 DEF Consoles
<1>15. ASSUME Next PROVE But
  BY <1>5, <1>6, <1>7, <1>8, <1>9, <1>10, <1>14, <1>15 DEF Next, FinDeJeton
<1>16. But
  BY <1>13, <1>15
<1> QED BY <1>1, <1>2, <1>16 DEF But, UnInv

(* When consoles wait for the answer of one IssueToken before the next, no  *)
(* player ever has two sessions in the registry, whatever their streams do. *)
THEOREM OneSessionEach == Spec /\ [][Patience]_vars => []OneSessionPerPlayer
<1>1. Init => UnInv
  BY TypageInit
     DEF Init, UnInv, UnJetonALaFois, OneSessionPerPlayer, RienDOublie
<1>2. UnInv => OneSessionPerPlayer
  BY DEF UnInv
<1> QED BY <1>1, <1>2, UnPas, PTL DEF Spec
=============================================================================
