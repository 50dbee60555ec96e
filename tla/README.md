# splatoon-3: a TLA+ model of the server

This directory models the parts of the repository whose correctness depends on the order
in which things happen: players who search, leave, cancel and are matched; private rooms,
the sessions that connect to them and the documents they exchange; the referee of a battle;
the counting of a festival; the bans; the cloud saves; the documents that two processes
share as files. TLC checks the models on small instances, TLAPS proves the main invariants
for every instance. Names follow the Go source (French where the source is French); each
definition names the code it stands for in `PROJECT.json` under `map`.

## 1. Inventory

The program is one Go binary that answers the gRPC services of an online game. One
process can serve several listeners (`main.go`, `local.go`): the public service, the
game session service on port 7575 (`NPLN_GAMESYNC_ONLY`, then a process of its own), or
all of them at once (`NPLN_LOCAL`). Each RPC runs in its goroutine; state is held in maps
behind mutexes, some of it also in JSON or protobuf files.

| Part | State | Operations | What must hold |
|---|---|---|---|
| Public queue, `matchmaking.go` | `m.tickets`, `m.waiting`, one channel per waiter | create, track (a server stream), cancel a ticket; form a match | full rosters of distinct players in one mode; nobody forgotten, nobody matched twice; order of arrival |
| Festival teams, `fest_equipes.go` | none | split a queue by camp | whole camps face each other |
| Private rooms, `matchmaking.go` | `g.tickets`, `g.sessions`, `g.aliases`, `participantsParGsid` | create, cancel, code, join, read | a room lists who is in it, once; a room given up is gone |
| User sessions, `gamesync.go` | `g.sess`, `g.last`, `g.wakers`, `g.closing` | issue a token, keep a session (bidirectional stream) | ranks distinct; one session per player; departures noticed |
| Documents of a room, `gamesync.go` | `g.store`, and per stream a wake channel, the targets, a verdict counter | write documents, snapshot, push, remind, close an old stream | a write is seen by all who watch; who left leaves nothing |
| Arbitration, `gamesync.go`, `vsresults_historique.go` | `rapportsArbitrage`, `parametresMatch`, the verdict in `g.store` | referee request and report | the final verdict is whole, gathers all reports and stays |
| Festival counting, `fest_intermede.go`, `fest_votes.go`, `fest_entries.go`, `fest_bareme.go` | victories, ferveur, frozen midterm, votes (files) | register, count a battle, freeze, answer | a choice is for good; one midterm, which never changes and rests on the first half; no points without votes |
| Salmon Run cards, `coop_carte_points.go` | credited shifts (memory), cards (document store) | credit a shift | each shift credited once, no credit lost |
| Ban registry, `ban.go` | the file; per server its copy, its date, the open streams | ban, unban (commands); reload, check a call, track a stream | a banned player has no open stream, and stays banned |
| Cloud saves, `cloudsave_nextendo.go` | record and marker (files), memory | load, apply, rename, log in, upload, create | starter grant given once; what was answered is kept |
| Document store, `ugcstore*.go` | files and journal; per process a map and an offset | commit, get, query, start | a process that read the journal serves what the files hold |
| Presence, friends, tokens, schedules, gateway, dashboard, replay | little or none | | |

How they meet: the queue and the rooms mint a signed token that names the user session;
`Gamesync.IssueToken` decodes it, registers the session and strikes off superseded ones,
which reaches back into the list of participants of the room. The arbiter counts festival
battles; their frozen midterm designates the defending camp, which the queue reads to
compose tricolour matches. The arbiter writes each player's history and point cards as
documents, which another process serves. The ban registry stands before every call and cuts
streams. The hot flags file is read by all.

What is hard: streams that end at any time and whose deferred functions run late; state
read under one lock and used under another (or after a timed wait); retries and
reconnections; files shared by two processes. `PROJECT.json`, `hazards`, lists these at
their lines.

## 2. Modules

| Module | Models | Source |
|---|---|---|
| `FestTeams` | the split of a festival queue, as operators on sets | `fest_equipes.go` |
| `MatchQueue` | what the queue promises: streams enter in some order, complete sessions leave in that order, each is told once | the abstract specification |
| `Matchmaker` | the public queue; uses `FestTeams`, implements `MatchQueue` | `matchmaking.go` |
| `MatchmakerProofs` | the inductive invariant of `Matchmaker` and what follows from it | |
| `GameRooms` | private rooms, participants, user sessions and their streams | `matchmaking.go`, `gamesync.go` |
| `GamesyncStore` | the documents of a room: writes, nudges, snapshots, pushes, the valve | `gamesync.go` |
| `Arbitration` | the referee of one battle: reports, verdict, credit of a shift, history | `gamesync.go`, `coop_carte_points.go`, `vsresults_historique.go`, `fest_intermede.go` |
| `FestBallot` | what a festival promises: a ballot, counts, one photo of the first half | the abstract specification |
| `Festival` | registrations, counts and midterm of one festival, and its points; implements `FestBallot` | `fest_entries.go`, `fest_intermede.go`, `fest_votes.go`, `fest_bareme.go` |
| `BanList` | what the bans promise: one list, servers that learn of it, streams | the abstract specification |
| `BanRegistry` | the file of the bans, the commands, the servers; implements `BanList` | `ban.go` |
| `CloudSave` | one account: record, marker, memory | `cloudsave_nextendo.go` |
| `UgcStore` | the documents two processes share, and the point cards | `ugcstore.go`, `ugcstore_runquery.go`, `coop_carte_points.go`, `vsresults_historique.go` |
| `MatchmakerProofs`, `GameRoomsProofs`, `GamesyncStoreProofs`, `ArbitrationProofs`, `FestivalProofs`, `BanRegistryProofs`, `CloudSaveProofs`, `UgcStoreProofs` | what is proved of each | |
| `MCMatchmaker`, `MCFest`, `MCRooms`, `MCGamesyncStore`, `MCArbitration`, `MCFestival`, `MCBanRegistry`, `MCCloudSave`, `MCUgcStore` | instances of the above for TLC | |

Definitions marked *Fault* in a comment are not part of a specification: each is a
plausible bug of the code, used to see that the property it is meant for does fail.

### Matchmaker

One action per critical section of `m.mu`, or per step of a stream between two blocking
calls. `phase[f]` says where `TrackMatchmakingTicket` stands in stream `f`:

    libre -> recherche -> placement -> attente -> retenu -> conclu -> ferme
    (not open) SEARCHING   PLACING     parked     match     SUCCEEDED  ended
                                       |          held       sent
                                       +-> annule (CANCELLED read)

In the mode that is not « instant » the stream only sends heartbeats (`battement`).
A waiter is named by its stream; `waiting` is the set of waiters in `m.waiting` and
`arrivee` their place in that list, counted by `rang`. `out[f]` is the channel of capacity
one. `partie[f]`, `creneau[f]` are what the ticket of `f` was finalised with: the session,
named by its first player in place of a fresh uuid, and the team slot. `participants` is
`participantsParGsid`, filled by `formMatchLocked`, and emptied player by player when their user
sessions end: `oublierParticipant` is the end of `oublierSession` (`gamesync.go:2860`), which
strikes players of public sessions off too. User sessions are `GameRooms`'; here one may
end for any player who was told his match. His stream may have ended since, and the action does
not ask whether it had told him before: it allows a few strikes more than the code. Nothing adds a
player to a public session again: `JoinGameSession` only knows the rooms of `gameSessionServer`.
Where the matchmaker and gamesync are two processes the list is the matchmaker's alone and nobody
is struck off it, which the action, never obliged, covers.

`Compositions` is `formMatchLocked` up to the choice of the roster and `Former` the rest.
`Enqueue` and `Revision` call them as the code does: on the newcomer's queue, and every two
seconds on all queues. `CancelMatchmakingTicket` tells the streams after it has let go of
`m.mu`; the waiters have left the pool by then and nobody else feeds their channels, so the
two are one step.

`SansConfig` is a request that names no configuration. `CreateMatchmakingTicket` gives it the
default one before `baseConfigName` could give it a queue of its own, which the comment at
`matchmaking.go:637` announces; the module does what the code does.

`MatchQueue` is what is promised of all this: a set of queues with an order, without tickets,
timers, channels or places. `Promesse` maps it: `Etapes` the place a stream is at (a parked
stream is in the queue, chosen or taken off according to the pool and its session), `Souhaits`
what its request asks for, `Rangs` the order of the places in `m.waiting`; a session is named
by its host in both. `Servir`, the abstract step, lets any set of sessions leave that are
complete and pass over nobody; how `fest_equipes.go` splits a queue is one way to choose it.
`Quitter` lets the list of a session lose a player who was told, or whose stream is gone.

Left out: the content of tickets and sessions; the replay of a captured answer
(`NPLN_MM_REPLAY`); the heartbeat of a parked stream (`time.After` of three seconds is
recreated at each turn of a loop that a two-second ticker wakes, so it never fires); the
flag « ticketferme ». A stream is assumed to be opened by the author of its ticket: the
code takes the player from the stream's caller and the ticket from its name.

### FestTeams

The slices of the code, `parCamp[c][:n]`, become `Tetes`: the *n* earliest of a set. A
split is a function from the chosen waiters to their slot. "No split" is the empty set,
and the operators return at most one, so that the absence of a split needs no marker. The
code writes four and two players of eight for a tricolour match; the module writes a half
and two quarters so that an instance can be smaller.

### GameRooms

Three mutexes protect what this module models: `g.mu` of the rooms, the one of
`participantsParGsid`, and `g.mu` of gamesync. A handler lets go of one before it changes
what another protects, so a handler is several actions:

- `CancelGameSessionCreationTicket`, `CancelFinish`: the room and its codes, then its list;
- `JoinGameSession`, `JoinNote`, `JoinCount`: the room is looked up, the guest listed, the
  count published;
- `IssueToken`, `IssueForget` (with `Strike`), `IssueRegister`: the other sessions of the
  player are listed, forgotten one by one, and the new one registered;
- `KeepUserSession`, `StreamEnds`, and the deferred function `setStreamClosed`,
  `DropWaker`, `StreamForgets` (with `Strike`).

`oublierSession(x, u)` is the common body of the last two; `radier[x]` remembers that the
player has yet to be struck off the list, which the code does after `g.mu`.
`participantsParGsid` is one registry: true of the processes that serve both services
(the normal mode, `NPLN_LOCAL`). The separate process on port 7575 has its own, which stays
empty. A stream is taken to watch the documents of one user session. `setStreamActive` and
the registration of the waker, two adjacent critical sections of one handler, are one step.

Left out: passwords (a refused join changes nothing), capacities (`JoinGameSession` does
not look at them), the other tenant of the server; the documents are `GamesyncStore`. `GetGameSession`, `QueryGameSessions`, the resolution of a code,
`TrackGameSessionCreationTicket` and `RefreshToken` change no state that is modelled.

### Arbitration

`WriteDocuments` calls `arbitrer` for each request (the start) and report (the end) a console
writes; `Arbitration` is about one battle and has one call per console at a time. `arbitrer`
takes five locks one after the other and holds none in between, so a call is a walk:

    WriteDocuments -> [Retenir] -> retenirParametres | parametresDe -> Rassembler
      -> [crediterQuartCoop <-> crediterCartesDePoints ... FinDuCredit]
      -> [publierHistoriqueDeBataille ... compterLaBatailleDeFete] -> Publier

where the bracketed steps are those of a report, the second line that of a shift (and what
is bracketed there is done per player). `appels[c].etape` names the next step of console
`c`, the other fields are the local variables of `arbitrer`: `uids`, `champs` (its head, in
`entete`; `personal_result`, in `personnel`; `status`) and what remains of a loop (`reste`,
`paye`). `rapports`, `parametres`, `credites`, `cartes` are the maps of that name, at the
key of the battle.

Documents are reduced to what the properties tell apart. Of the head of a verdict: `stage`,
`shift_id`, `fest_id`, each absent, empty or set, with the rule « keep what is there » that
merges frame, report and parameters (`Completer`) and the two inventories that filter the
result. Of a player's sheet: what every console says of him, what his own adds, what the
server fills in. What a request contains (`Annonce`), what a report contains (`RapportDe`)
and when a console writes (`PeutEcrire`: reports after every request was answered, any
number of times) is the game's behaviour, from what the comments of `gamesync.go` measured.
`cfgMatch` is empty, as the comment at `gamesync.go:623` explains: a shift is recognised by
the fields of its verdict. Sessions leave the room and come back (`Virer`); a session is
identified with its player, so the same player comes back to the same sheet.

Left out: who won; how the room is split into teams; the second festival counter
(`compterLaFerveurDeLaBataille`, which returns on the same empty `fest_id`); a restart, which
would lose the mark of the shifts already credited, kept in memory only (`coop_carte_points.go:111`).
`compterLaBatailleDeFete` is the case « before the midterm, winner of a known camp ».

### Festival

One festival, in the process that answers `GetFestResult`. `entreesFest` and `victoiresFest`
have a mutex and a file each; what is done under a mutex is one step, the write of the file
included (`enregistrer`). What takes a mutex several times is a walk, of `comptages[a]` for
the battle arbiter `a` is counting, of `lectures[k]` for what console `k` is being answered:

    compterLaBatailleDeFete -> [enregistrerVictoireDeFete] -> compterLaFerveurDeLaBataille
      -> [enregistrerFerveur, per camp ... FinDuComptage]
    GetFestResult -> partsDeFerveur -> [partsDesVictoires -> [partsDuVote]]
      -> figerIntermede -> Repondre

A battle passes the bracketed steps of the first walk only if the midterm is not frozen when
it looks; it may be by the time it counts. A console leaves the second walk at once if the
midterm is frozen. The walk is `honsaiMidtermDeLaFete`, which a closed festival goes through
as well (`intermedeDuVerdict`). Before `MidTime` a result holds no midterm and changes nothing.

Shares are kept as the counts they are divided from, with what they count (`origine`): two
shares of one total compare like the counts, and nothing else is done with them. A player
inks one point per battle. The registrations of the players of a battle are read in one
step: they never change once made. `partDeDepart`, the shares before any vote, is a constant
of distinct values. Camps are numbers in the order of their names.

`Redemarrer` kills the process between two steps and starts one that reads the files (the
code reads them at the first call). A kill inside `os.WriteFile` is left out: it would leave
a file of victories the next process cannot read, and the first half would be forgotten (see
« Met while modelling »). `premiere` records what was counted when `mid_time` passed,
`inscriptions` and `reponses` what callers were told.

`FestBallot` is what is promised of all this. `Scrutin` maps it: the registrations and what
callers were told are the ballot, `compte` the counts and the photo, `premiere` the counts at
half-time. The walks, their local variables, the files and the restarts are not in it: a
restart is a stutter, the photo is taken in the one step of `figerIntermede` that finds none,
and must then be just (`Juste`) although it was computed from counts read before.

The module counts battles as `fest_intermede.go` and its tests do, with the identifier of
the festival. That the referee never passes one is the subject of `fest_battle_uncounted`.

`classementsDeLaFete` and what it uses are operators on the state. The code reads votes and
victories under two mutexes; the operator takes them together.

Left out: two processes with a copy each; registrations after the results and the keys that
name the winner (`fest_cloture.go`); the other phases; a disk that refuses a write.

### GamesyncStore

A stream (`KeepUserSession`) has two threads, and each sends what it read after it let go of
`g.mu`:

    receives: UpdateTargetDocument
              UpdateTarget -> membresDeCollection -> EnvoyerMembre ... -> Suivre -> Lister
    pushes:   SurReveil | Rappel -> docsSousCollection -> EnvoyerChangement ...   (per collection)
    writes:   WriteDocuments -> applyWritesToStore | arbitrer -> reveillerLaPartie

`reveil[c]` is the channel of nudges, which holds `Capacite` and drops the rest; `colls[c]`
the collections watched, from the moment they are noted; `reponse[c]`, `poussee[c]` what each
thread has read and not sent yet; `verdict[c]` the counter of `verdictTaire`. A document is
the number of the write it comes from; `Synthese` says which ones the server makes up. The
console keeps what it received last (`copie`). `vu` and `promis` are history.

`Soupape` is the pusher of a stream that is too old: it stops, and the receiving thread ends
the stream when it has served the next request (`Echo`, or `Lister`), with no lock between
the two. Until then the session stays.

`doPush` counts in `pushed` the entries of `watched` it sent: the collection of user sessions, the
user session itself and three single documents (`pus`, `us`, `gss`, `stu`, `stg`). It replays the
collections only if there is one (`gamesync.go:2117`). `watched[c]` says that there is: from a
watch on one of these documents (`UpdateTargetDocument`), from a watch on a collection of
`Presence`, and in any case from the end of the first snapshot on (`Suivre`: `us` is set after the
members were sent, line 2463). Before that a pass replays nothing, and its nudge is gone:
`enVain[c]` keeps the collections it was about. A pass takes `watched` and the collections in one
step; the code reads the latter a moment later, which can only replay more.

Left out: the content of documents made up; what is sent on the targets that name one document
(they are watched, and the pass is about the collections); the flags
« reveilsolo », « rosterexist », « frontiere », « pousseminuteur », which change when
something is sent. Each session has one stream (`GameRooms` has the second). The order of
the documents in a pass is left open, and so is whether a push precedes LISTED. A document on two targets is pushed on the first.

### BanRegistry

`Commander`, `ban`, `unban` are a process of the command line: it reads the file, and its
second step replaces it by a rename. `refresh` is `os.Stat` and `Lire` the `os.ReadFile` that
follows under the same `r.mu`: the file may be replaced in between. `recent` is the quarter of
a second in which a call makes no reload of its own. `requireAllowed` and `trackStream` are
the two looks of a call. An entry names a player by PID, by UID or both; its key is not its
meaning, so one player may have two entries. `acquis` is what the operator was told.

`BanList` is what is promised of all this: one list, changed one player at a time; a server
learns the whole list in one step, which also cuts the streams of those it names.

Left out: the reason and the dates of a ban, the listing. Two renames have two dates (the
code compares the date and the size).

### CloudSave

One account; all share nothing but `s.mu`. A call holds the lock from its load to its answer:
`Prendre` is the load and the change, then `persistLocked` (the record), `markStarterGrantApplied`
(the marker), `Repondre` (the answer, and the copy in memory). `EcrireEnVain` is a write that
fails, `Redemarrer` a stop between any two steps. `loadLocked` answers a copy of the memory,
but what it reads from the file it puts in memory and answers as one object: `EnMemoire`.
A failed write ends a call with an error, but for the creation of a new player at his first
login: `creerRecordJoueurNeuf` logs the failure, leaves the memory as it was and the login is
answered all the same. `recu` says which answers were given, and tells that one (`manque`) apart.
A record is the deltas merged into it and what the grant and the penalty look at.

The console waits for its answers: it has one call under way. `GetSaveRecordAbsent` and
`creerRecordJoueurNeuf` are one call, under two locks.

Left out: how nested keys merge (`mergeSaveData`), the identifier filled in, `UpdateTime`, the
seeding from a capture, the check of a record (`ValidateSaveRecord`) and the refusal of the
strict mode, which change nothing; the requests that cannot be read, which are answered with
success and nothing written (`replay.go:768`, `:990`); `save_api.go` and `save_search.go`, which read.

### UgcStore

Two processes, as deployed (`ugcstore.go:67`): the arbiter, and the one that serves documents.
A write is `storePutDocument` (`Ranger` in memory, `Ouvrir` and `persisterDocument` for the two
halves of `os.WriteFile`, `annoncerChangementDocument` for the journal), a read is the memory,
else `LireLeFichier` and `Garder`. `crediterCartesDePoints` reads a card, counts one more shift
and writes it, all under `carteMu`. `RunQuery` takes the size of the journal, then, one at a
time, reads what it names since the last reading. `Redemarrer` takes a process away wherever
its handlers are, and starts it: the size of the journal, the directory, the files one by one.
`EcrireEnVain` is a write that fails, which the code logs and passes over.

`fichier[d] = Partiel` is a file truncated and not written, or written by two at once; a read
takes it for an absent one. `quarts`, `coupes`, `tus` are history: shifts written, files cut
in a write, announcements that never came.

Left out: deletes, which leave the memory only; the attributes made up for who has none; the
filters of a query; the drawings and the public square. The two cards of a player are two
documents. The size of a journal that cannot be looked at is 0; its last line is whole.

## 3. What is checked

| Run | Instance | Question |
|---|---|---|
| `match_ordinary` | two players, three tickets, three streams, two modes for two players each | the pool, the delivery of decisions; the queue implements its promise |
| `match_fest` | four players of three camps, an open queue for two and a tricolour one for four | the split, a possible match is made; festivals implement the same promise |
| `rooms` | a room, its host, a guest who joins twice and reconnects on a second stream | ranks, participants, superseded sessions, channels, departures |
| `documents` | two consoles, one writes and leaves, the other watches; a state, a document also made up, the verdict | nudges, pushes, the silence of verdicts, what who left leaves, the valve |
| `arbitration` | two consoles, one reports twice; sessions go and come back; a festival battle or a shift | merging, verdict of the end, credit, history, under interleaved handlers |
| `festival` | three camps, two players, two battles, two consoles, a restart | the festival implements its promise; midterm, points, interleaved lock by lock |
| `bans` | two players, one server, one operator, three renames, a failed read, restarts | the registry implements its promise; who is banned is cut |
| `saves` | two writes of a console, two failed writes, restarts | what was answered is kept; the grant is given once |
| `player_documents` | two handlers of the arbiter, two of the other process, a card and a document | readers of the journal are up to date; no credit is lost |
| `cancel_still_matched` | as `match_ordinary` | a cancelled ticket is matched (violation) |
| `verdict_race` | two consoles, nobody leaves | the verdict that stays lacks a received report (violation) |
| `fest_battle_uncounted` | as `verdict_race` | a festival battle is not counted (violation) |

The violation runs show where the code and its own comments part; `PROJECT.json`,
`findings`, quotes both.

Properties of the queue. `PoolMatchesStreams`: `m.waiting` holds exactly the parked streams
that have nothing to read and no session. `ServesInOrder`: the queue implements `MatchQueue`,
that is, a session has exactly the capacity of its mode in distinct players of that mode, all
listed until they are told or their stream ends; it passes over nobody who was there first; a
match is final and told once.
`NoRosterLeftWaiting`: an ordinary queue never holds a complete roster between two steps.
`DecisionDelivered`: a parked stream that left the pool concludes. `CampsFaceEachOther`,
`RosterEventuallyFormed` for festivals.

Properties of the rooms. `RanksApart`: the identifiers consoles know each other by are
distinct in a room and survive a reconnection. `ListsAreTrue`: retries do not fill a room, and
a late guest does not bring back the host of a room given up. `OneSessionPerPlayer`.
`WakesTheLiving`: the late end of a former stream does not cut the new one off.
`DepartedAreFreed`: the session of a lost stream leaves the registry.

Properties of the documents of a room. `NudgeFollowsWrite`: what is written in a watched
collection and not read yet is announced by something, although a full channel drops nudges,
or its nudge was taken in vain during the stream's first snapshot and no pass was made since.
`WatchersCatchUp`: a console has a document as it stands again and again, although its two
threads may send an older reading last. `VerdictIsDelivered`: the silence after a few repeats
swallows no verdict that changed. `DepartedLeaveNothing`, `ValveFreesTheSession`.

Properties of the referee. `ReportsAreMerged`: what a console said of its own player survives
the reports of the others. `EndVerdictIsWhole`: from the first answer to a report on, the
stored verdict is final, names its match by what only the request said, and has a whole sheet
for every player, whoever else is still publishing. `ShiftCreditedOnce`, `PresentAreServed`,
`MarkedArePaid`: the credit of a shift is made once, to all who stayed, who also find the
battle in their history, and the mark that excludes a second credit is always followed by it.

Properties of the festival. `OneBallotOnePhoto`: `Festival` implements `FestBallot`. A player
is told one camp whatever he asks for later; a victory is only counted for a camp somebody
chose, ink only for players who chose the camp; the photo is taken once, holds all of the first
half and nothing that was not counted when it was taken. `AnswersAgree`: one midterm for all consoles, although several compute it from counts
that move between two locks. `MidtermCountsFirstHalf`: what was counted before `mid_time` is
in the midterm; ink, else victories, else votes. `NoVoteNoPoint`: once somebody voted, a camp
nobody chose gets no point in any criterion, those that follow battles included.

Properties of the bans. `KeepsItsPromise`: `BanRegistry` implements `BanList`, with the list
of the file for the list, and the streams followed for the streams. That is where a reload
skipped by its date, a file replaced between the look and the read, and a stream registered
while a reload lands are all answered. `BannedIsCut`: the streams of who stays banned are cut
in the end, on every server, and stay so.

Properties of the saves. `AnsweredStay`: a write that was answered is in the file, and in
whatever memory a later call starts from. `GrantedOnce`: a save is not raised again once a
login, an upload or a creation was answered, so that what the player spent is not given back;
the creation answered although its record or its marker could not be written does not count, as
the code does raise that save again (« Met while modelling »).

Properties of the player documents. `CaughtUp`: a process that has read what the journal names
serves each document as its file holds it, however writes, queries and starts crossed.
`CreditsStay`: a card counts at least the shifts that were written on it, whatever handlers
credit it together, writes fail or processes restart.

### Bounds

- `MCMatchmaker`: capacity two is enough for a roster to be completed by an arrival, to be
  prevented by a departure, and for a player to occupy two places with two tickets; the
  third stream makes the surplus. The code's capacities (4, 8, 10) are values of the same
  constant. The second ticket of a player is not cancelled (`Garde`), the others may be.
- `MCFest`: two against one against one is the smallest tricolour match; one camp has two
  players so that their order matters, and the open queue has three camps to choose two
  from. Nobody cancels, leaves or is struck off there (`Patience`); `MCMatchmaker` covers all.
- `MCRooms`: two streams of the same session are what a reconnection makes; the guest's two
  sessions are what a retry makes. `MaxJetons` bounds the tokens issued per session (two for
  the session that reconnects). `Patience`: a console has one `IssueToken` in flight.
  Without it two overlapping calls leave a player two sessions: each lists the other's
  before either is registered. Rooms share the registry but never a rank or a list, so one
  room; what a second one adds is under « Met while modelling ».
- `MCGamesyncStore`: a channel of one nudge is full with the first; two writes make an older
  and a newer reading; a verdict is repeated once before it is silenced. `MaxVenues` is two
  sessions opened. `Garde`: `a` writes and `b` watches, `b` one document or two collections in
  any order, none of which counts in `pushed` by itself (`Presence` is empty), so that a first
  snapshot can lose a nudge. `AuPlusTot`: the pusher of `a`, which has nothing to push, takes its
  nudge at once. `Patience`: a console leaves once its
  writes were answered; without it `DepartedLeaveNothing` fails, as a late write puts the
  document of who left back.
- `MCArbitration`: two handlers are enough for every pair of critical sections to be swapped;
  the second report of `a` meets all that the first left. The session of `b` goes and comes
  back while the handlers run, that of `a` goes. The kind « versus » is the festival battle
  without its `fest_id`, and no step tells them apart but the count, so it is left to the
  proofs. The violation runs use a room nobody leaves.
- `MCFestival`: two consoles are what a race for the photo takes; one arbiter, as the second
  would only add battles; two battles, so that one is counted before the middle and one
  across it; one restart. One player asks for two camps. Of the two battles one is in a mode
  that feeds a criterion. Three camps, as `campsCanoniques` publishes.
- `MCBanRegistry`: three renames are a ban, an unban and a ban, or an entry by PID, one by UID
  and an unban of one of them; one server, as servers share nothing but the file. One
  operator: with two commands at once the later rename drops what the former wrote.
- `MCCloudSave`: two writes, so that one is answered before the other fails; two failures, one
  per file; one call under way.
- `MCUgcStore`: two handlers per process are two credits, two queries, or a query that crosses
  a write of its own process; two writes begun, of which one may be of the card and one of the
  document; restarts are not bounded. `Patience`: no write ends while a fallback read of the
  same document is on its way to the memory (`RepliFrais`); without it `CaughtUp` fails.
  An instance with three writes (2.8 million states) passes too.

`CHECK_DEADLOCK FALSE` in the instances whose tickets, streams, reports, battles and writes are
each used once, so that the behaviours come to an end. `bans` and `saves` check deadlock: there
a process may always restart.

### Fairness

Weak fairness of each stream's own steps and of the steps that finish a handler: a
goroutine that can run does. Nothing is assumed of consoles, of the operator or of the
festival. The two-second ticker is a step of a parked stream like the others; as it only
changes the state when a queue can form, weak fairness of the stream is what the ticker
gives. In `Arbitration` the server ends every call it has begun. In `BanRegistry` the monitor
that `main` starts looks at the file every half second, and a reload under way ends. In
`GamesyncStore` the two threads of a stream and a write under way go on, the reminder comes
after thirty seconds without a push, and the console keeps sending its heartbeat, which the
valve needs (the comment of `KeepUserSession`, `gamesync.go:1903`). `CloudSave` and `UgcStore` assume
none.

### Met while modelling

Apart from the three violation runs. Each was read in the code, and seen in a model where it
is the reason of a bound or of an assumption.

- The festival queue has no fallback to an ordinary room, of which the header of
  `fest_equipes.go` (line 28) and a comment of `formMatchLocked` speak: a full queue whose camps
  do not balance waits.
- A guest who joins again while his former session is being forgotten is struck off the list
  by its end (`gamesync.go:2860`): the list is by player, the session was not.
- A stream whose session was forgotten is served the room of the last session of the server
  (`lookup`, `gamesync.go:1707`). The deferred function that forgets it is not guarded the way
  the channel is (`gamesync.go:1950` and `:1962`).
- The snapshot of a collection sends the members it makes up and skips those of the store
  (`if vus[nom]`), while the comment above says the latter have the last word.
- `g.store` maps are changed in place by a transform (`gamesync.go:1014-1025`), while a pusher
  may hold the same map.
- A document written by a console that has left meanwhile stays for ever.
- While a stream receives the snapshot of its first collection (between the read at
  `gamesync.go:2425` and the entry at `:2463`), a pass replays nothing, as `pushed` is 0
  (`:2117`), and takes the nudge all the same: what was written then is not told to that stream
  before the next nudge, or the reminder after thirty seconds. The excepted case of
  `NudgeFollowsWrite`.
- Two bans at once: each command read the same file, the second rename drops the first ban
  (`ban.go:377`). An unban by PID leaves an entry keyed by UID alone, after the line that says
  new connections are allowed again (`ban.go:594`).
- A login reads the record from its file, raises it in place and fails to write it. The raised
  record stays in memory; the next login finds nothing to change, writes the marker and
  answers. After a restart the save is what it was before, and the grant is not given again
  (`cloudsave_nextendo.go:231` and the order announced at `:173`).
- `has()` and the creation of a new record are under two locks (`cloudsave_nextendo.go:620`):
  with two calls at once, an upload made between them is overwritten.
- A creation that fails to be written is answered all the same (`cloudsave_nextendo.go:643-657`,
  `replay.go:855`). When its record was written and its marker was not, the player plays on and
  spends, and his next login, which finds no marker, gives the minimums back. TLC finds it when
  `GrantedOnce` counts that answer (`manque`) with the others.
- `os.WriteFile` truncates first: a kill in the middle leaves a point card, or the victories of
  the festival (`fest_intermede.go:93`), unreadable, and they start again from nothing.
- A read that falls back on the file may put an older document over a newer one
  (`ugcstore.go:89`), until its next write; `GetDocument` never reads the journal. A kill
  between the file and its announcement leaves the sibling behind as long.
- `CommitDocuments` deletes from the memory only: the next read falls back on the file and
  brings the document back.

## 4. What is proved

`MatchmakerProofs` proves, for every set of players, tickets, streams, modes, camps and
every capacity of at least two (multiples of two or four for festival modes):

- `TypeCorrect`: `Spec => []TypeOK`
- `PoolIsExact`: `Spec => []PoolMatchesStreams`
- `RostersAreFull`: `Spec => []FullRoster`
- `CampsAreApart`: `Spec => []CampsFaceEachOther`
- `MatchIsFinal`: `Spec => MatchedOnce`
- `NobodyOvertakes`: `Spec => NoOvertaking`
- `NoRosterWaits`: `Spec => []NoRosterLeftWaiting`
- `QueueKeepsItsPromise`: `Spec => ServesInOrder`, the refinement of `MatchQueue`
- `TimelyCancellationsHold`: `Spec /\ []PassagesVoulus => CancelledNeverMatched`

The assumptions are those of the modules: `CampsAssumption` (camps are ordered),
`MatchmakerAssumption` (finitely many streams, the types of the constants, the
divisibility of festival capacities). TLC evaluates them on each run.

The argument is the inductive invariant `IInv` of `Matchmaker`: the properties, and what
they silently rely on. `OrdreDArrivee`, places in the list are distinct and a new one is
the last, makes the first *n* of a queue well defined. `HoteParmiLesSiens`, a session is
named by one of its own players, keeps two sessions from being confused when a new one is
formed: its host was in the pool, so he has no session, so the name is fresh.
`DejaEnFile` relates the phase of a stream to its channel and session. Without them a step
of `Former` from an unreachable state could merge two sessions, which is why `FullRoster`
alone is not inductive. `MatchIsFinal` says of the registry what the code gives: a later
formation adds nobody to it, and it loses those who leave the session. That everyone who was not
told yet is in it is the last part of `FullRoster`: a strike-off names a player, and only the
players of one session being distinct makes it his own (`SessionsGardees`).

The lemmas follow the code: what `Tetes` returns (`n` members, disjoint for disjoint sets);
that a roster is made of distinct players of one queue with the slots of its mode; that the
rosters formed together in one revision are disjoint, as they come from different queues;
that `Former` then preserves the invariant (`FormationPreserves`) from a pool that has just
been extended (`EnqueueParks`) or not. Each other action is one step of `StepInvariant`.

`NobodyOvertakes` rests on what `Tetes` takes (who is left of a team came after those in it),
on the waiter that stands for a player with several tickets being his earliest
(`DistinctsPremiers`), and on `CampConnu`: two waiters of one player in a festival queue
declare one camp. The second disjunct of the property, that the player passed over is in the
session by another of his waiters, cannot be dropped. `NoRosterWaits` counts: a stream that
parks itself brings a queue one player more than it had; when that makes the capacity, the
distinct waiters are as many as the players (`DistinctsCompte`), the only roster is all of them
(`FileComplete`), and the newcomer leaves with it, so what stays had no complete roster before.

`QueueKeepsItsPromise` puts the above together, under `IInv` and `CampConnu`. Each formation is a
`Servir`: complete by `Compositions`, in order by `PremiersServis`, from a pool just extended
(`Entrer`) or not (`Reexaminer`). A request is `Demander`, a cancellation `Rayer`, what a stream
tells its console `Dire`, its end `Partir`, a strike-off `Quitter`; tickets, heartbeats and the
flag are stutters.
`RostersAreFull`, `NobodyOvertakes` and `MatchIsFinal` state parts of it on the module's own
variables, and stay theorems of their own.

`TimelyCancellationsHold` is about the finding `cancel_still_matched`. `PassagesVoulus` says that
no stream is between its opening and its place in the queue with a ticket that is gone. As long
as that holds, every waiter's ticket is wanted (`AttenteVoulue`: a cancellation of a ticket takes
its waiters with it), and a match only takes waiters; so those two seconds of heartbeats are the
only way a cancelled ticket is matched.

`GameRoomsProofs` proves, for every set of players, rooms, user sessions and streams, and
any number of `IssueToken` calls:

- `RoomsTypeCorrect`: `Spec => []TypeOK`
- `RanksStayApart`: `Spec => RanksApart`
- `ListsStayTrue`: `Spec => []ListsAreTrue`
- `WakesOnlyTheLiving`: `Spec => WakesTheLiving`
- `OneSessionEach`: `Spec /\ [][Patience]_vars => []OneSessionPerPlayer`

It assumes `RoomsAssumption`: finitely many user sessions, each minted for one player in one
room, the host's in his own. All but the last rest on `IInv` of `GameRooms`. To the properties
it adds `ListesDesVenus`: a list only holds user sessions of its room that were answered or
are joining, which bounds the published count by the players who came; and a join never
mints the host's session, which is why a guest who finishes joining after the room was
given up cannot put the host back. Each lemma cuts the steps by what they change: the
registry only through `oublierSession` and `IssueRegister` (`SessionsPas`), a list only by
`noterParticipant` or by shrinking (`SallesPas`).

`OneSessionEach` has an invariant of its own: what an `IssueToken` under way has yet to
forget holds all the other sessions of its player (`RienDOublie`). It is false without
`Patience`: two `IssueToken` calls of one player that overlap can each list the sessions
before the other registers its own. The two lines of the code are two critical sections.

`GamesyncStoreProofs` proves, for every set of consoles and documents, every capacity of the
channels and any number of repeats, under `DocumentsAssumption` and `BornesAssumption`:

- `StoreTypeCorrect`: `Spec => []TypeOK`
- `NudgesFollowWrites`: `Spec /\ []SansEcriture => []NudgeFollowsWrite`
- `OneSnapshotMayLose`: `Spec /\ []SansEcriture => []OnlyFirstSnapshotsLose`
- `DepartedAreForgotten`: `Spec /\ []SansEcriture => []DepartedLeaveNothing`
- `SilencesAreEarned`: `Spec => []SilenceIsEarned`

`NudgesFollowWrites` holds because a full channel is a channel that holds a nudge: what the send
drops is already announced. `OneSnapshotMayLose` says how far its exception goes: a stream with
nothing in `watched` has one collection, whose snapshot it is being sent. They and
`DepartedAreForgotten` need that a console leaves once its writes were answered. `SilencesAreEarned` needs nothing. It is the safety half of `VerdictIsDelivered`: a
stream whose next pass would leave the verdict out was sent the one last promised, or holds it
in a pass it is sending. The counter starts with what was *read*, long before it is sent, and
two threads send; `FilOK` says that the pass under way carries the verdict the counter
counted, `PromisOK` that the verdict promised was received, is in that pass, or differs from the
counted one, so that the next pass finds it new.

`ArbitrationProofs` proves, for every set of consoles, any number of reports and any coming
and going:

- `ArbitrationTypeCorrect`: `Spec => []TypeOK`
- `ShiftIsCreditedOnce`: `Spec => []ShiftCreditedOnce`
- `ReportsStayMerged`: `Spec => []ReportsAreMerged`
- `EndVerdictStaysWhole`: `Spec => []EndVerdictIsWhole`
- `PresentStayServed`: `Spec => []PresentAreServed`
- `MarksAreOwed`: `Spec => []MarkedAreOwed`, the safety half of the liveness `MarkedArePaid`
- `FestBattlesAreLost`: `Spec => []NoBattleIsCounted`
- `UncrossedVerdictAggregates`: `Spec /\ []UnVerdictALaFois => []VerdictAggregates`

from `ArbitrationAssumption` (finitely many consoles, the types of the constants). The first
lemmas (`Pas...`) say once what each step changes; the rest argue on those.
`CreditInv`: a player's cards count one shift exactly when he is marked and no handler is
between his mark and his card, and at most one handler is. `EnteteInv` follows the head of
the verdict through a handler: before the inventory it is what the request said, because the
parameters were remembered before anybody reported; after it, what is kept of it. It is where
a shift is recognised as one. `VerdictInv`: no report is under way before every request is
answered, so no handler that would store a verdict of the start remains, and what a report
gathered is whole. `EndVerdictIsWhole` is not inductive without these two: it speaks of the
stored verdict, and the next one to be stored is in the local variables of a handler.
`ServisInv` says, of each console that never left, what every handler has yet to do for it: it
is among those the handler found in the room; in the loop of the credit it is still to be
visited or marked; in the loop of the history it is still to be visited or has its document.
`PresentAreServed` alone says nothing until every handler is done. The two loops end, so with
`CreditInv` (nobody is about to be paid once all are done) it follows.

The last two are about the findings. `fest_battle_uncounted` is not an accident of one
interleaving: no battle is counted in any behaviour of any instance, since the head a handler
reads is the one whose `fest_id` the frame made empty. `verdict_race` has one cause: as long as
no two handlers are between the gathering of the reports and the storage of the verdict
(`UnVerdictALaFois`), what was answered is in the stored verdict (`AnsweredAreGathered`), and the
final one gathers everything, whatever else interleaves.

`FestivalProofs` proves, for every set of camps (three or more), players, consoles and
arbiters, and any number of battles and restarts:

- `FestivalTypeCorrect`: `Spec => []TypeOK`
- `EntriesStayKept`: `Spec => []EntriesAreKept`
- `AnswersStayOne`: `Spec => []AnswersAgree`
- `DefenderStaysFixed`: `Spec => DefenderIsFixed`
- `FirstHalfCounts`: `Spec => []MidtermCountsFirstHalf`
- `UnchosenGetNothing`: `Spec => []NoVoteNoPoint`
- `FestivalKeepsItsPromise`: `Spec => OneBallotOnePhoto`, the refinement of `FestBallot`

from `FestivalAssumption` (finitely many camps and players, the types of the constants). All
rest on `FichiersInv`, the files hold what memory holds between two steps, without which a
restart would undo the rest. `PhotoInv`: whoever reads
the photo reads one that is taken. `PremiereInv`: counts only grow, so what a console
proposes covers what was counted when `mid_time` passed, and a count it found empty was
empty then; the photo alone says nothing of the proposals under way, one of which is the
next photo. `VictoiresInv`: a camp that won was chosen by somebody, so the criteria that
follow the battles leave a camp without votes in the last group too. `ComptePas` and
`LecturesPas` say once what a step does to the counts and to a reading.

`FestivalKeepsItsPromise` needs two bounds from above that no invariant of a single variable
gives. `EncreInv`: the ink an arbiter is about to add to a camp is at most the votes for it,
because the players it was read from keep their camp (`VotesMontent`). `ProposeInv`: what a
console proposes for the photo was counted and is not empty; counts grow while it waits, so it
stays below them (`DejaCompteReste`). With `PremiereInv` for the other side, the step that takes
the photo is `Photographier`; the others are read off `ScrutinInit`, `CompterPromis` (a victory,
some ink), `LirePromis`, `PasDuScrutin`.

`BanRegistryProofs` proves, for every set of players, servers and operators, any number of
renames and of failed reads:

- `BansTypeCorrect`: `Spec => []TypeOK`
- `TrackedStayAllowed`: `Spec => []TrackedAreAllowed`
- `NothingIsMissed`: `Spec => []NothingMissed`
- `BansAreKept`: `Spec /\ []UneCommandeALaFois => []BanKept`
- `BansKeepTheirPromise`: `Spec /\ []UneCommandeALaFois => KeepsItsPromise`, the refinement of
  `BanList`: the initial states of the registry are those of the list, and each of its steps is
  one of the list or a stutter

`UneCommandeALaFois` is about behaviours, not about the instance: any number of operators, no two
of whose commands overlap. The invariant says that the command under way holds what the file
holds, so that a rename changes one player; and that a date noted by a server is never newer
than the read that went with it, so that a reload it skips brings nothing. Two commands at once
break the former, and lose a ban.

`CloudSaveProofs` proves, for every set of writes and any number of failures and restarts:

- `SavesTypeCorrect`: `Spec => []TypeOK`
- `UncrossedSavesAreKept`: `Spec /\ []AbsenceVraie => [](AnsweredStay /\ GrantedOnce)`
- `AnsweredAreKept`, `GrantIsGivenOnce`: the same without the condition when the console has at
  most one call under way (`UnSeul`), which implies it
- `MarkerFollowsRecord`: `Spec => []MarkerHasRecord`

`GrantedOnce` is proved of every answer but that of a creation whose writes failed. Calls may
overlap as they like: the lock orders them. The one thing that loses a save is a
creation that goes on from an answer of `has()` that another call has made false, and
`AbsenceVraie` says that none does. `MarkerFollowsRecord` needs not even that.

The invariant follows the record in the hands of the call that holds the lock: it has all that
was answered, in each of the steps up to its file, and its marker is written before its answer.

`UgcStoreProofs` proves, for every set of processes with one arbiter, handlers, documents and
cards, and any number of writes, failures and restarts:

- `UgcTypeCorrect`: `Spec => []TypeOK`
- `CreditsAlwaysStay`: `Spec => []CreditsStay`
- `ReadersCatchUp`: `Spec /\ []RepliFrais => []CaughtUp`

`CreditSuivi` is why no credit is lost: under `carteMu` a credit starts from a card that counts
all the shifts written, in memory or in the file, and holds more than them from then on, also
between the two halves of the write. `RelectureInv`: one reading of the journal at a time in a
process, of what the journal named when it began, from the offset on. `Suivi` is what
`CaughtUp` rests on: what process *p* does not know of a document is somewhere on its way, as an
entry of the journal *p* has not passed, an announcement to come, a file to be read by its
start, or a reading about to take its place in memory. The last disjunct is the strengthening:
an entry is passed when its file is read, one step before the memory has it.

Only model-checked: the liveness properties, as fairness is out of the provers' reach here. Of
`DecisionDelivered`, `VerdictIsDelivered`, `MarkedArePaid` and `BannedIsCut` the safety half is
proved (`PoolIsExact`, `SilencesAreEarned`, `MarksAreOwed`, `NothingIsMissed`): what they wait for
is always under way. Every invariant and every action property of a passing run, and the three
refinements, are theorems, a few under the conditions listed with them. The findings are
counterexamples, which a run shows; the theorems named above say how far each one reaches.

## 5. Plan

What would come next, in this order:

1. How nested keys of a save merge (`mergeSaveData`), as a function on trees.
2. The lobby channels of `replay.go` (`canalDeHall`, `deposerSiPresent`), and the time-to-live
   rules of the dashboard.

### Not modelled

Of the 73 000 lines of the repository some 54 000 are generated from protocol definitions
(`proto/`), and hold no decision of this program. Of the 19 000 written by hand, a large part
builds the answers the game expects, byte for byte, from captures (`replay.go`, `toyohr.go`,
the documents the server makes up in `gamesync.go`, the schedules) or reports on the others
(`dashboard.go`, `stats.go`, logs): functions of a clock and of recorded bytes, with no state
that two calls share. Tokens and authentication are functions of cryptographic material. The
offline tools (`cmd/`) run alone. What is modelled is where state is shared, kept or raced for.
