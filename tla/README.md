# Verification of durak-app

TLA+ models of the durak site in this repository, its game engine, its server
and the parts of its web client that keep state, checked with TLC on small
instances and proved about with TLAPS for every instance. Paths below are
relative to the repository.

1. [The system](#1-the-system)
2. [Modules and how they correspond to the code](#2-modules-and-how-they-correspond-to-the-code)
3. [What is checked](#3-what-is-checked)
4. [Fairness](#4-fairness)
5. [What is proved](#5-what-is-proved)
6. [Where code and comments disagree](#6-where-code-and-comments-disagree)
7. [Abstractions, and what is not modelled](#7-abstractions-and-what-is-not-modelled)
8. [Plan](#8-plan)

## 1. The system

Players meet in **lobbies**, start a **game**, play it through the **game
engine** under the eyes of a **turn timer** and a **pause** that starts when
somebody's connection is lost, and may start over with a **rematch**. The API
server (`apps/api`, one NestJS process) keeps all live state in Redis and
writes finished games and ratings to Postgres. The web client (`apps/web`)
keeps copies of all this, in a query cache and in component state, and offers
the moves it believes legal.

```
 lobby --start--> games.service --applyCommand--> engine (pure reducer)
   |               |   ^   ^  \
   |  per-game lock+   |   |   +-- game over --> finalise (Postgres, ratings)
   |  game in Redis    |   |                         |
   |            turn timer  gateway <-> pause record +--> metrics, history,
   |            (forced     (sockets,   (disconnected     highlights
   |             take/pass)  grace,      players, vote)
   |                         tally)         |
   |                           |            +--> concede, or rematch -> new game
   +------- web client: room and list, game page, chat, bubbles, profile, admin
```

| component | state it keeps | operations | what makes it hard | what makes it correct |
|---|---|---|---|---|
| game engine, `packages/game-engine` | `GameState`: hands, pile, table, discard, roles, phase, passes, places, cheat attempts | `createGame`; `applyCommand`: attack, beat, translate, take, pass, notice_cheat; closing a bout: sweep or take, refill, places, roles, end | long sequences of legal commands; rollbacks in the middle of a bout; a pile that runs out while several players draw | cards are conserved; a bout is always answerable, never stuck and always ends; places and the durak are right |
| games service, `games.service.ts` | the game in Redis, a lock key with a TTL, lists of failed finalisations | command, expiry of the turn timer, concede, finalise with retries, metrics, chat | three handlers and several failures around one lock; a commit whose answer is lost; a crash between two stores | one writer; every finished game rated exactly once or on record as failed |
| turn timer, `games-turn-timer.service.ts` | a snapshot in Redis, a timeout in memory | reconcile, clear, resume after a restart, fire | the deadline passes while a move, a pause or a crash is under way | the clock runs for the player who owes the move, and its end moves the game on |
| pause and vote, `games-pause.service.ts`, `games.gateway.ts` | a pause record (who is missing, votes), grace timers in memory | mark disconnected and reconnected, grace, open vote, ballot, tally, extend, concede, resume | sockets, game and record are read at different moments; locks that are given up on | a paused game stands still; a vote ends; nobody present is conceded |
| lobbies, `lobbies.service.ts`, `lobbies.gateway.ts` | lobby record, a membership key per user, an index, rooms | create, join, leave, settings, ready, start, touch, delete, list | a lock per lobby but a membership per user; keys that expire apart; start writes game and lobby separately | a pointer leads to a seat; a game starts with the lobby's members, all ready for its settings |
| rematch, `rematch.service.ts`, `RematchListener.tsx` | an invitation in Redis with a TTL, a timeout in memory, a modal per client | initiate, accept, cancel, expire, spawn, resume | a lock that is optional in effect; an expiry that races its own key; a DEL that fails; two connections | one game per rematch, with those who accepted; a session has a timer |
| cheat metrics, `metrics-collector.ts` | a book of illegal cards still on the table | diff of two states per command | it judges with hindsight, keyed by entry | a cheat is counted as caught or as got away with |
| ratings, profiles, history, highlights: `rating-updater.ts`, `profile`, `history`, `highlights` | rows of games, participants, users; a cached list | finalise, read a profile or a list | two games that end together; several queries per page | a game is recorded once and whole; what is read was true |
| accounts and sessions: `auth`, `sessions`, `admin-users`, `admin-setup` | rows of users and sessions, session keys with copied flags | log in, out, change or reset a password, create, update, disable, remove | requests hold no lock: check, write, then bring sessions in line | an admin remains; sessions carry their account's flags |
| pictures: `image-upload.service.ts`, profile pictures, card backs, face cards | a file and a row per picture | upload, replace, remove, choose | file and row change one after the other | a row's address has its file |
| text reactions, emoji, flying cards: `text-reactions`, `useGameReactions`, `useCardThrowAnimation` | phrases, bubbles with timers, tokens of cards seen | create, remove, send, show, fade; a card played | counts before writes; snapshots out of order; plays taken back | bubbles go; a play flies once |
| view redaction and legality: `game-redactor.ts`, `legality.ts`, `GamePage.tsx` | none | project the state; decide which moves to offer | a second copy of the engine's rules | every legal move is offered, no forbidden one |
| web client, game page: `features/games` | copy of the game, pause and chat; socket, REST | subscribe, hear, fetch, merge | three sources for one copy, no versions | once quiet, the page shows what is stored |
| web client, lobby pages: `features/lobbies` | settings drafts, list | edit, push, take over, merge deltas | drafts of several editors, debounces, newcomers, lost answers | drafts and list end up as the server has them; only what somebody chose is pushed |
| web client, shell and desk: `App.tsx`, `auth`, `profile`, `admin` | who is signed in; caches of the lists | log in and out, edit, invalidate, refetch | answers out of order, caches written by hand | the right person is shown, and the rows the server has |
| the rest: deck factory, event filter, shared types, health | - | - | little | - |

`PROJECT.json` lists every component with its status, and under `hazards` the
places where the code is hard to test.

## 2. Modules and how they correspond to the code

| module | stands for |
|---|---|
| `Cards` | cards, `beats`, rank matching, the choice of the trump (`deck/card.ts`, `strategies/beat-rule`, `trump.ts`) |
| `DurakEngine` | the engine, one variable per field of `GameState` |
| `BoutProtocol` | abstract specification: what the engine promises its callers, without cards |
| `GamePage` | over `DurakEngine`: the snapshot for one viewer, `legality.ts` and the moves the page offers |
| `CheatBook` | over `DurakEngine`: the metrics collector's book, command by command |
| `LiveGame` | the service around one stored game; its game is a `BoutProtocol` state |
| `PauseVote` | the disconnect pause: socket room, pause record, grace timer, vote and tally |
| `Seating` | games and `userInGame` pointers as lobbies and rematch see them; `CreateFromComposition` |
| `Lobbies`, `Rematch` | the two services, over `Seating`; `Rematch` with the clients' modals |
| `Matchmaking` | both in one process that crashes and restarts |
| `Room` | a game as one of its players watches it: gateway, chat, query cache |
| `Accounts` | users, sessions and the requests that change them |
| `Records` | finalisation into Postgres, and the pages that read it back |
| `Uploads` | pictures: file and row |
| `Effects` | phrases, bubbles, flying cards |
| `Lounge` | the lobby pages: drafts of the settings, list of open lobbies |
| `Shell` | one tab: cookie, `/auth/me`, store, router, profile page |
| `Desk` | the lists an administrator or player edits, and their cached copies |
| `MCDurakEngine`, `MCCheatBook`, `MCLiveGame`, `MCPauseVote`, `MCMatchmaking`, `MCSite` | small instances for TLC |
| `DurakEngineProofs`, `DurakPlay`, `LiveGameProofs`, `PauseVoteProofs`, `MatchmakingProofs`, `SiteProofs`, `RoomProofs`, `ScreenProofs` | the theorems of section 5 |

Which extends which: `Cards` < `DurakEngine` < `GamePage` < `MCDurakEngine` and
`DurakEngine` < `CheatBook`; `MCCheatBook` takes both. `DurakEngine` and
`LiveGame` instantiate `BoutProtocol`. `Seating` < `Lobbies`, `Rematch` <
`Matchmaking`. `DurakPlay` extends `DurakEngineProofs`, `CheatBook` and
`GamePage`; `SiteProofs` is about `Accounts`, `Uploads` and `Records`,
`RoomProofs` about `Room`, `ScreenProofs` about `Effects`, `Desk`, `Lounge` and `Shell`.

**DurakEngine.** The engine is pure: an accepted command is one step, a refused
one is no step. The actions `Attack`, `Beat`, `Translate`, `Take`, `Pass`,
`NoticeBeat` and `NoticeAttack` are the branches of `applyCommand`
(`state/reducers.ts`), each with the whole of what follows: `Attack`, `Beat`,
`Take` and `Pass` contain the closing of the bout (`closeBoutBeaten`,
`closeBoutTaken` of `state/transitions.ts`) with refill, finishing places, end
of the game and the next roles. `Init` is `createGame` for any order the
shuffle may leave the deck in. `canThrow`, `limit`, `canTranslate` and
`canNotice` are the strategies the settings choose. Players are seats `0..N-1`.
`refillHands` is written without the code's loop: the k-th draw gets the k-th
card from the top, and a draw's number is the count of draws before it. The
unused branch of `PhaseAfterCatch` (an empty table) is kept, as the code has it.

**BoutProtocol.** Phase, roles, passes and who is out. Its actions leave open
what only the cards decide: whether a throw closes the bout, who runs out of
cards. `DurakEngine` implements it with `out` as the players who have a place
(`ImplementsBoutProtocol`), and `LiveGame` runs it, so what `LiveGame` is
checked for holds with the engine in its place.

**GamePage.** No state of its own: `redactForPlayer` is the part of the
snapshot the client decides by, `canBeatCard`, `canAttackWith` and the other
functions of `legality.ts` decide from it alone, and `Offered` is what
`GamePage.tsx` makes of a dropped card and of its buttons. `Accepts` repeats
the guards of the engine's actions, and the two properties compare them in every
reachable game.

**CheatBook.** `BookNext` runs each engine command together with the diff that
`metrics-collector.ts` makes of it. `tainted` and `twice` are history
variables: the plays that were illegal when made, the entries cheated on twice.

**LiveGame.** The three handlers that change a stored game are processes with
a program counter:

| handler | code | stages |
|---|---|---|
| `"command"` | `applyGameCommand` | `Enter` (lock, load, pause check), `CommandMoves` or `Refused`, `Stored`, `Finalise`, `Reconcile` |
| `"expiry"` | `expireTurnTimer` | `Fire`, `Look` (reads without the lock), then as a command with the take or pass decided on |
| `"concede"` | `executeConcede`, `concedeGame` | `DecideConcede`, `Enter` (no pause check), `ConcedeMoves`, `Stored` (drops the pause record), `Finalise`, `Reconcile` |

`Apply` is `persistMutation`; `Finalise` is one attempt of
`finalizeGameWithRetry`, which commits, fails, or commits and loses the answer;
`Reconcile` is `reconcileTurnTimer`; `LockLapses`, `Busied` and `Release` are
the lock's TTL, its polling limit and its token check (`withLock`);
`Vanish`, `MarkDisconnected` and `MarkReconnected` are the gateway's teardown
and subscription; `RedisFails`, `SnapshotLost`, `Crash` and `Restart` are
failures between two writes. `tick` and `slipped` are history variables that
only properties read.

**PauseVote.** The socket handlers of `games.gateway.ts` and their methods of
`GamesPauseService`. Each event starts a handler that is a set element until it
is done: `marking` (a lost socket noticed, `handleDisconnectAfterTeardown`
before `markDisconnected`), `returning` (in the room, `handleReconnect` to
come), `due` (the grace timer has fired), and `tallies`, the calls of
`tallyAndMaybeFinish`, each with the record it was called with. That record is
stale by the time it is counted, which is the point of the module. `Join` and
`Unmark` are `onSubscribe`, `Leave` and `Mark` a lost socket, `Expire` and
`OpenVote` the timer, `Vote` a ballot, `Count`, `Extend` and `Concede` the
tally's outcome, `Restart` the end of the process with `resumePauseTimers` of
the next. `LiveGame` keeps only what a pause does to the game: the names in the
record, and a concede decided with an earlier list of them. `came`, `flapped`
and `shaken` are history variables.

**Lobbies, Rematch, Matchmaking.** A call is a record in a slot with the step it
has reached and what it has read; between two steps other slots run. In
`Lobbies`, `lock` is the lock of a lobby (creating takes none), `age` counts
half hours since a key's TTL was refreshed, so that a lobby and its membership
keys can expire apart, `informed` are the users in a room who have been sent the
lobby as it is, and `stale` is history: ready flags given for other settings. In
`Rematch`, `session` and `timer` are the key and the timeout that is to end it
aloud, `outlives` in a session says that its key will outlive the timer,
`inbox` is a user's socket in order, and a response travels beside it. The last
accept deals the next game under the session's lock. Only a deal holds that lock for
long, and who has tried for a second goes on without it: then an accept reads and
writes in two steps (`Reads`, `Joins`), and a cancel or the timer may end the session
in the middle of the deal. `agreed`, `spent`, `overtaken` and `stray` are history: who
accepted, whose accept has been dealt, whose session was ended under its deal, and
which session may have lost its timer to a failed DEL or a late write. `Matchmaking` starts after
a game all users played together, ends games, and crashes and restarts the
process that both run in (`onModuleInit`).

**Room.** The page's copy of one game is fed by broadcasts and by the answer to
`game:subscribe`, which share the socket, and by the REST snapshot, which does
not. Moves, pauses and messages of others are events of the environment (they
are `LiveGame`'s and `PauseVote`'s subject). `raced`, `heartsCrossed` and
`unheard` are history: what an older copy was under way for, which clicks
crossed, which messages were said between a subscriber's reading and joining.
`appendChat` is written without recursion (`Lacking`), so that it can be proved about.

**Accounts, Records, Uploads, Desk.** Requests are records with a step, one
database or file operation each, and hold no lock. A rating in `Records` is the
sequence of games that made it; a reading page asks its queries one at a time.
In `Uploads` a picture is a numbered file and a row with a number. `Desk` gives a
list two copies, the administrator's page and the pickers of the game page. Rows may
be created before the list has come; changed or removed only once they are shown.

**Effects, Lounge, Shell.** In `Effects` a play is one laying or beating of a card:
a beat that a caught cheat took back and that is made again is another play with the
same token. The page stays mounted when the player goes to another game
(`GoesToGame`), which compares the new table with the tokens of the old. In `Lounge`
a guest may be a member from the start or join, and a page that is told of its
membership pushes what its editor then has (`LearnsSeat`, `PushesBack`).
These modules have the state of hooks: timers, drafts, debounced
values, `pending`, and a query cache whose fetches replace what mutations have
written meanwhile. Their history variables (`moved`, `older`, `skipped`,
`outdated`, `adrift`, `carried`, `behind`, `missed`, `hasty` and so on) name the situations in which a property
does not hold of the code, and each is set by exactly the steps that its
comment says.

**MCSite.** These eight parts share no state in the code, so one run checks all
of them: a behaviour is about one of them, its `scene`, and the others keep
their initial state.

## 3. What is checked

| run | instance | distinct states | properties | shows |
|---|---|---|---|---|
| `classic` | 3 players, 7 cards with a joker, hands of 2, cap 3, `exclusiveThrowIn`, first bout limited by the hand | 285,220 | `CardsConserved`, `SomebodyCanMove`, `ResultHonest`, `FlagsHold`, `MovesOffered`, `MovesAccepted`, `RolesRotate`, `BoutProgress`, `ImplementsBoutProtocol` | whole games under every order of throws, beats, translates, takes and passes |
| `cheat` | 3 players, 6 cards, cheating, everybody may call out | 690,222 | `TypeOK`, `DefenderCanAnswer`, `PhaseAlive`, `MovesOffered` | rollbacks of caught cheats leave the bout consistent and answerable |
| `cheat_duel` | 2 players, 7 cards, cheating, only the defender may call out a throw, any first attacker, with the book | about 516,000 | `HandsRefilled`, `CheatHistory` | refills from a short pile, cheats caught and escaped |
| `live_table` | 3 players, no drop, no fault | 56,808 | `AnswerForced` | an answer owed is given, by the player or by the timer |
| `live_faults` | 3 players, a drop, a fault, 3 attempts, symmetric | 735,932 | `TypeOK`, `OneWriter`, `ResultKept`, `ClockAgrees`, `PauseStopsPlay` | locks, lost answers, a crash or a Redis error anywhere |
| `pause_vote` | 3 players, 2 lost sockets or restarts, symmetric | 1,066,473 | `TypeOK`, `RecordMatchesRoom`, `PauseHasEnd`, `VoteWaits`, `BallotsFresh` | the pause record against the room, the timer and the votes, with every handler interleaved |
| `lobby` | 2 users, 2 lobbies, 2 calls at once, expiring keys, symmetric | 427,936 | `TypeOK`, `MembersServed`, `LobbyAgreed` | operations of two users on two lobbies in every interleaving of their steps |
| `rematch` | 2 users, 2 requests at once, 4 presses, a crash, 3 games, symmetric | 1,543,989 | `SessionWatched`, `RematchAgreed`, `DealtOnce` | sessions, their timers and keys, failed deletes, calls without the lock, answers and events on two connections |
| `site` | 2 of everything; the bounds of `MCSite`, one part per behaviour, symmetric | about 1,129,000 | `RoomAgrees`, `AccountsAgree`, `RecordsAgree`, `FilesKept`, `EffectsAgree`, `LoungeAgrees`, `ShellAgrees`, `DeskAgrees` | the eight parts around a game |
| `live_resume`, `live_place`, `pause_stuck` | 2, 3, 2 players | - | one each | violated: section 6 |

Each property has a comment at its definition that says what it means and which
code it is about, and a mutant (`PROJECT.json`, "mutants"): a plausible bug in
a mapped definition under which TLC finds the property violated.

Several properties are conjunctions of named parts, each with a comment of its
own: `ResultHonest` of `PlacesInOrder` and `DurakHoldsTheRest`, `FlagsHold` of
`LatchMeansDefense` and `ExclusiveLockHolds`, `PhaseAlive` of
`PhaseMatchesTable` and `SomebodyCanMove`, `ResultKept` of `RatedOnce` and
`Accounted`, `MembersServed` of `PointerHonest` and `RoomInformed`, and each
property of `site` of two to six parts. Some have an exception ("unless two
requests crossed"): it names, by a history variable, the situation in which the
code itself does not keep the promise; section 6 lists these situations.

**Bounds of the engine.** Deck, hand size and cap are scaled down together. Six
or seven cards over two or three ranks with repeats are enough for throw-ins,
translates, a pile that runs out during a refill, several players going out in
one refill, draws, and every phase; three players are the fewest where thrower,
defender and bystander differ and where a finished player has to be skipped.
`HandSize = 2` and `BoutCap = 3` keep the code's relation that a cap can
exceed a hand and a hand a cap (after a take). Two shuffles per run (the listed
deck and its reverse) are enough for different trumps and first attackers. With
`FirstBoutLimit = 0` (`'defender_hand'`) and 2 both kinds of limit occur. In
the cheat runs any card may be thrown and beaten with, so those reach far more
tables than legal play.

**Bounds of LiveGame.** `MaxDrops` and `MaxFaults` count disconnections and
crashes or Redis errors over a whole run; with one of each every stage of every
handler is hit by a fault, during and outside a pause. `Attempts = 3` is the
code's. Two handlers of the same kind never overlap in the model: commands are
serialised by the lock and have no state before it, and the shortest turn
timer, half a minute, outlasts an expiry handler. Symmetry over the players is
used for the safety run only. With three players a bystander exists whose pass
keeps a bout open after the primary attacker's.

**Bounds of PauseVote.** Two lost sockets with three players give two missing
players, one who returns while the other does not, a second drop during the
grace, the vote and a tally, and a restart in each of them; ballots and tallies
are not bounded but that a player waits for the count before changing a ballot.
A player's teardown and return handlers run once at a time, and the grace of a
minute outlasts a command and the tallies of an earlier vote. Deadlock is not
checked: a player who came and went faster than the handlers may be marked as
missing while present, and if that happens to everybody nothing happens until
somebody reconnects, which `MaxDrops` forbids.

**Bounds of Matchmaking.** Both runs check the one specification. In `lobby` no
session is started (`RematchSlots = {}`): two users and two lobbies are what a
user in two lobbies, an owner who leaves and a start that meets a join need; a
third user adds members but no new pair of steps. Ids are drawn once and two
games can be dealt; when both are used up nothing more happens, hence
`CHECK_DEADLOCK FALSE`. The run has no crash: `PointerHonest` says nothing
after one, and the theorems of section 5 cover it for `LobbyAgreed`. In
`rematch` no lobby call runs; four presses allow an initiate, an accept, a
cancel and a second session on the same game, and the crash may come at each
step. A third game leaves room for a second deal, which `DealtOnce` forbids.

**Bounds of the site.** `MCSite` states them per part, as alternatives, so that
each kind of event is plentiful in some behaviour: two moves or three messages
in `Room`, five requests on two users and two sessions in `Accounts`, two games
of two players in `Records`, with two accounts that go and a failing attempt, one
that goes under a list being read, or a profile being read,
three edits with two requests under way in `Uploads`, five utterances, four
plays, or two plays and another game in `Effects`, two edits, a visit or two changes of
the list in `Lounge` with guests who are members or may join,
two calls, a fault, a reload or a revoked session in `Shell`, two writes and
three visits in `Desk`. Buffers and caps are scaled down to where they
overflow (`HistoryLimit` 2, `BufferLimit` 3, `Cap` 1).

## 4. Fairness

`LiveGame` has a liveness property. `LiveSpec`:

* weak fairness on the steps of a handler that has the lock, on the marks of a
  teardown handler that has started, and on the look of an expiry handler: they
  are awaited continuations of a running process;
* weak fairness on `Fire`, `LockLapses` and `Restart`: a timeout fires, a Redis
  TTL ends, and the process manager restarts a stopped server;
* strong fairness on `Enter` of the expiry and concede handlers: they poll the
  lock every 20 ms for about a second, while a healthy command holds it
  for a few milliseconds, so a lock that is free again and again is caught. The
  polling limit is not abstracted away: behind a finalisation or a dead
  handler `Busied` may end the wait;
* none on players: nobody has to command, disconnect or come back, and none on
  faults.

The engine has no fairness. That a bout ends is stated as a safety property,
`BoutProgress`: without cheating, every step inside a bout lowers a measure
(cards in hand, then phase, then passes owed), so no order of commands stays in
one bout for ever.

## 5. What is proved

All for every value of the constants, from the named assumptions of the modules.
For the engine these are: at least two players, a finite deck of cards, enough of
them to deal, settings in their ranges. The other modules assume that sets of
players or requests are finite where something is counted, that bounds are
natural numbers, and that the value for "nobody" or "nothing" is no row, copy or
user. Every safety property and every action property that a passing run checks is
a theorem; what is not is at the end of this section.

The pattern is the same throughout: a property is seldom inductive, so each
component has an invariant that is, made of named parts; TLC has checked each part
on the run's instance; there is a lemma per action, and the theorem follows.

The engine (`DurakEngineProofs`, `DurakPlay`):

* **`TypeCorrect`**: `TypeOK` is inductive. The work is in the bounds:
  `nextActivePlayerIndex` always returns a seat, a refill never reads past the
  pile, places stay within `0..N` because the players who go out together are
  counted, the cheat attempts stop at zero.
* **`Conservation`**: `CardsConserved`, with `TypeOK` inductive. Lemmas say what
  each move of cards does: a throw and a beat move one card from a hand to the
  table, a refill gives different cards to different players because different
  draws have different numbers of draws before them, and what the refill leaves of
  the pile is what nobody drew.
* **`Refinement`**: `Spec => ImplementsBoutProtocol`. The inductive invariant is
  `TypeOK` with `RolesInPlay` (attacker and defender differ and neither has a place
  while the game goes on) and `PhaseFits` (the table is empty exactly in
  `bout_attack`). Both are needed: a closed bout must hand the roles to players who
  are still in, and a take or beat is only protocol-conform in the phases where a
  table exists. Each engine action then maps to one protocol action or a stutter.
* **`Answerable`**: `DefenderCanAnswer`. It is not inductive: a beat needs to know
  that hand and beaten cards of the defender still make up the hand the bout began
  with (`HandCovers`). A rolled-back cheat gives both back.
* **`SomebodyMoves`**, **`PhasesAlive`**: `SomebodyCanMove` and `PhaseAlive`.
  `CanOpen` (whoever is in holds cards when a bout opens) needs that a refill from
  a pile that lasts leaves nobody empty, and that a player left empty by one that
  does not has a place; `PassAwaited` says the passes are never complete;
  `PhaseTells` adds to `PhaseFits` what the phase says of open entries.
* **`FlagsCorrect`**, **`RolesCorrect`**, **`BoutEnds`**, **`ResultRight`**:
  `FlagsHold` (a swept table holds an even number of different cards),
  `RolesRotate`, `BoutProgress`, and `ResultHonest`: counting off the seats of
  those who leave together is a bijection onto `1..n`, which makes the places
  gapless; a game that ends has somebody leave, so the pile is empty, and who is
  left then holds cards.
* **`NobodyShort`**: `HandsRefilled`. It speaks of bouts that open; the invariant,
  `Stocked`, of all states: while the pile lasts, a player's hand and what they laid
  in this bout are a full hand. The round-robin deal is counted seat by seat for
  the initial state.
* **`BookTells`**: `CheatHistory`, over `BookSpec`. The plays called tainted lie on
  the table, a card that does not beat what it covers is one of them, and an entry
  with two of them is known (`TwiceKnown`); a rolled-back play leaves the book with
  its card.
* **`PageKeepsNothingBack`**, **`PageOffersNothingForbidden`**: `MovesOffered` and
  `MovesAccepted`. The second copy of the rules agrees with the first, card by card
  and kind by kind, given the phases of `PhaseTells` and that who has a place holds
  no card.

The service around a game (`LiveGameProofs`), for any players, attempts,
disconnections and faults: **`LiveInvariant`** and from it `LiveTypes`,
`LiveOneWriter`, `LiveResultKept`, `LiveClockAgrees`, `LivePauseStops`. The
inductive invariant `LiveInv` says who may be where while whose token is in the
lock (`WritersHold`), that only a finished game is finalised (`FinalOver`), that
a finished game neither rated nor listed has a handler at work on it
(`BeingRated`), that a clock which disagrees with the game is about to be set
(`BeingSet`), and that the one command which had passed the pause check is the
last (`SlippedOnce`).

The pause (`PauseVoteProofs`), for any players, lost sockets and restarts:
**`PauseInvariant`**, and `PauseTypes`, `PauseRecord`, `PauseEnds`,
`PauseVoteWaits`, `PauseBallots`. Each part of `PauseInv` states a property
together with the handlers that are about to restore it: the record names whom
the room misses but for a mark or an unmark on its way (`MarksFollow`), a pause
has a timer, its handler, a vote or a concede (`EndComes`), a vote with all its
ballots has a tally that knows them (`VerdictComes`).

Lobbies and rematch together (`MatchmakingProofs`), for any users, lobbies,
calls, requests and crashes: **`MatchInvariant`**, **`LobbyStartsAgreed`**
(`LobbyAgreed`), **`RematchByAll`** (`RematchAgreed`), **`SessionsWatched`**
(`SessionWatched`). The invariant says that a call between two writes has its
lobby's lock, so that what a start has read (everybody ready, nobody's flag
stale) is still so when it deals. The lock of a rematch promises less, since a deal is the only
step it covers and others enter after a second: the invariant says that whom a
session counts has accepted (`SessionsSound`), that a call about to deal has the lock
and the complete session it wrote, none of it dealt before, unless that session was
ended under the deal, and that a call writes what it read without the lock only after
that (`RequestsGo`). **`RematchOnce`** (`DealtOnce`) follows: a session that a failed
DEL left is complete, and who presses again is counted already. **`MatchTyped`** (`TypeOK`) and **`MembersAreServed`** (`MembersServed`)
rest on a second invariant, `TableInv`: what a call has read of its lobby still
holds when it writes (`CallsFit`), who has a lobby's lock is between two writes to
it (`LocksHeld`), and a pointer without its seat, or a room that has not been told,
belongs to a leave that has taken the seat and is still to clear and tell
(`Pointed`, `Told`).

Accounts, pictures and results (`SiteProofs`):

* **`AccountsHold`**: `AccountsAgree`. By `InLine`, while a
  request follows up its write of an account it is the only one on it, and when none
  does every session carries the account's flags. By `AdminsLeft` each
  request that has passed its check leaves an admin who is not the one it takes.
* **`PicturesHold`**: `FilesKept`. A row's file exists unless the edit that replaces
  it is at work (`PicturesKept`), and a card back that is chosen is there
  (`ChoiceKept`).
* **`ResultsHold`**, **`ResultsAgree`**: `RecordsAgree`, from `RecordsInv`. A rating
  is the line of games that made it, so `StandingsFit` can say which of an account's
  games it holds, and `FinishesFit` that what a finish has read was on record before
  its own stamp; `InOrder` says that stamps follow the records but for two finishes
  that met, `PagesFit` what a page has seen query by query.

A game as one player watches it (`RoomProofs`), for any number of handlers, any
lengths of the two histories and any number of events: **`RoomHolds`**
(`RoomAgrees`), from `RoomInv`. `RoomAgrees` speaks of a page to which nothing is on
its way; the invariant says of every state what the page will show once it has heard
its queue:

* `Follows`: the last message of the queue that carries the game carries the stored
  one (`GameWillBe`); the last that decides the pause, with those after it that add to
  it, comes out as the stored pause (`PauseWillBe`: "paused" during a vote stays a
  vote, "wait extended" without a pause does nothing); every message is on the page,
  in the queue, or was not told, and its heart will be as stored (`Reaches`,
  `HeartWillBe`). Without a copy an answer must be in the queue, since nothing else
  fills the chat.
* `PageFollows`: that holds of a page that listens, unless a handler of its is still
  to read the chat (`Awaited`), or has read it and its answer will cover what the page
  will otherwise lack (`Covered`). This is where a drop, or a visit to another page, is
  made good: a new subscription, for which `Reaches` holds by what it has read.
* `QueueFits` gives the order on which the chat rests: a message that is on its way is
  newer than all the page has and all that comes before it in the queue, so that to
  append what is new keeps the order; `HeldFits` and `HistoryFits` that a copy of the
  history is what had been said when it was read, and has the hearts as they are unless
  a click crossed it.
* `CopiesFit` and `WireFits`: a copy of the game or the pause that is under way is the
  stored one unless `raced` says otherwise; a socket that is down has no room, no queue
  and no calls.

`appendChat` filters what it appends, so the lemmas about it count: the n-th new
message is the one with n new ones up to it (`Lacking`, `LackingFits`), and an
ascending sequence of numbers up to n has no more than n (`AscendingIsShort`), which
keeps it within the buffer.

What the client shows (`ScreenProofs`):

* **`EffectsHold`**: `EffectsAgree`, from `PhrasesInv` and `FlightsInv`. A snapshot is
  compared with all later ones: a play lies on a stretch of them and does not come
  back, though its card may be played again under the same token; so a play that is new
  on a table that is drawn has not flown, and one that is drawn without a flight was
  found there, or its card was beaten, taken back and beaten again unseen.
* **`DeskHolds`**: `DeskAgrees`, from `DeskInv`: the copy of a page that is
  open and fetches nothing is fresh, and a fresh copy, or one about to arrive, is the
  server's unless a fetch and a mutation crossed (`CopiesFit`); what is typed lies
  over a form that has been filled, and a save under way carries what was typed
  before it (`FormFits`, `SavesFit`, `FormKept`).
* **`LoungeHolds`**: `LoungeAgrees`, from `LoungeInv`. What a page will show is read
  off its queue: the last settings on their way to it are the server's
  (`ShownFit`); where the editor differs from what was told, the difference is being
  typed, pushed, or served and on its way back (`DraftFit`), and somebody chose it
  (`ChosenFit`); and the list with its queue comes out as the open lobbies
  (`ListsFit`), through puts, removals and whole lists in any order.
* **`ShellHolds`**: `ShellAgrees`, from `ShellInv`. The answers on their way are in
  the order the server gave them (`OrderFits`). The last that may tell of an account's
  change, and is not overtaken, tells the row as it is (`RowsAsTold`); so does the
  cache while no change is still to be told (`MeFits`), and the profile page unless an
  edit's answer or a fetch is to come (`PageFits`). Games only end, so an answer says
  nothing older than one given before it, and of an end that the tab has not been told
  somebody still asks, or it is missed (`GamesFit`). While the site has no admin there
  is no session and no sign-in under way (`SetupFits`), and a query that is pending is
  being fetched (`ClientFits`).

Only model-checked: liveness under fairness (`AnswerForced`), which
is out of the prover's reach.

## 6. Where code and comments disagree

Each of these is a run in which TLC shows the comment wrong:

* **`live_resume`**: a deadline that passes during a pause is dropped with the
  comment "We'll re-arm naturally on resume via the next state broadcast"
  (`games.service.ts:727`). The resume arms nothing: the players are back and
  no clock runs until somebody moves by themselves.
* **`live_place`**: `concedeGame` says "Players that already finished keep
  their position" (`games.service.ts:782`), but a player who goes out between
  the teardown handler's read and its mark is conceded with the others and may
  be the loser although already in `finishedPlayers`.
* **`pause_stuck`**: "auto-concede the missing seats so the game doesn't get
  stuck" (`games.gateway.ts:748`) is looked at only when a vote opens, a ballot
  arrives or somebody returns. When the last voter goes during the vote nothing
  tallies and no timer runs.

The models show more, without a run of their own. Game and service:

* in `bout_settle` and `bout_take_pending` the clock runs for the primary
  attacker even after that player has passed
  (`games-turn-timer.service.ts:49`): the forced pass is refused
  (`games.service.ts:754`) and the clock is not set again. `AnswerForced`
  leaves this case out;
* the expiry handler decides on take or pass before it has the lock
  (`games.service.ts:722`), so a move in between turns it into a take or pass
  for which nobody's time had run out; the code accepts this when the command
  still happens to be legal;
* after a crash or Redis error between the store of a finished game and its
  finalisation the result is never written (`games.service.ts:681`);
  `Accounted` and `ClockAgrees` exclude faults for this reason;
* "cleared as soon as every seat is reconnected" (`shared-types` on `PauseInfo`)
  fails for a player who is back before the teardown handler has marked them,
  and the record can also miss one who left before the return handler was done:
  `RecordMatchesRoom` names these players (`flapped`) and holds for all others;
* a tally acts on the record it was called with: a player who returns while it
  reads is conceded all the same, and a grace timer that has fired opens the
  vote of whatever pause it then finds, without its grace;
* two illegal plays on one entry: the second note replaces the first
  (`metrics-collector.ts:149`, "collisions don't matter"), and cards before an
  entry are judged as they lie now (`reducers.ts:668`), so a later play can make
  an earlier cheat legal or the reverse;
* the client does not offer a legal throw-in of a joker (`legality.ts:57`) and
  has no button to take once everything is beaten (`GamePage.tsx:637`);
* two games that end together: each reads the ratings before the transaction
  that writes them (`games.service.ts:1448`), and one result is lost (`stale` in
  `Records`); a game whose other players have no account any more changes no rating,
  so it may be recorded after one that ended later and stand first on the profile
  with an older rating (an exception of `ProfileCoherent` that its proof asked for); "Skip players without a User row" does not hold when the missing
  account is the durak's.

Lobbies and rematch (`Matchmaking` also defines two promises of comments that
TLC refutes in a few hundred states when added to the runs' cfg files):

* `SingleMembership`: `userInLobby` is "used to enforce single-membership"
  (`lobbies.service.ts:36`), but membership is checked under a lock per lobby,
  so a user may sit in two;
* `ModalMeansSession`: a session that ends by its key's TTL ends in silence and
  the modal stays (`rematch.service.ts:76`, `shared-types/src/index.ts:425`), and
  the last accept's HTTP response may arrive after `started` and open it again;
* a start writes the game before it deletes the lobby
  (`lobbies.service.ts:484-540`), so after a crash the lobby can start again;
  dealing a game never looks at `userInGame`, and the end of one game deletes
  the pointer to whichever game it names by then (`games.service.ts:1258`);
* a cancel or the expiry of a rematch that has waited for a second ends the session in
  the middle of its deal (`rematch.service.ts:509-511`), and the game is dealt all the
  same; an accept that goes on without the lock then may write the session again,
  without a timer (`overtaken`, `stray`).

Web client (each is the exception of a property of `site`):

* room: a REST snapshot or an answer read before a broadcast but delivered
  after it puts the page back (`raced`), also to a pause that is over; history
  fetched after more messages than the buffer holds is appended in the wrong
  order; two clicks on a reaction may be broadcast in the other order;
* lounge: a page that becomes a member's by a join that brings newer settings pushes
  the ones it had before, which nobody has chosen there (`carried`;
  `LobbyRoomPage.tsx:152,182,185,195`);
* lounge: changing nothing but `exclusiveThrowIn` is never pushed
  (`LobbyRoomPage.tsx:170-183`, `352-366` omit it); a number edited back within
  the debounce is not pushed; a lost ack leaves the editor disabled; room and
  list do not subscribe again after a reconnect; a change pushed by a guest whose
  join is still under way is served, but not told to that guest, whose page then
  compares with older settings (the proof of `LoungeHolds` did not go through
  without this exception; it takes two visits, one more than the run has);
* shell: "even if the server-side logout fails we want the UI to drop back to
  anonymous" (`auth/hooks.ts`): the cleared cache is fetched again and a live
  cookie signs the user back in; a late answer of `/auth/me` overrides a newer
  login; answers of overlapping edits may come in the other order; a game's end that
  the tab could not hear keeps the banner until a fresh row of the same person comes
  (`missed`, a set of persons since its proof: as one flag it was cleared by the row of
  whoever signed in next, while the first person's late answer was still on its way);
* desk: writing an answer into a copy marks it fresh, so a list invalidated or
  never fetched before counts as up to date for five minutes
  (`textReactionsHooks.ts:65-70`, `faceCardsHooks.ts:31-33`); an invalidation
  during a first load is lost;
* desk: what is typed while a save is under way is dropped by its answer
  (`AdminRatingConfigPage.tsx:120`; `hasty`);
* effects: leaving a game cancels the timers of its bubbles but keeps the
  bubbles; on the next game a card with the number of one on the table left appears
  without a flight and the others fly all at once (`old`); a beat that is taken back
  and made again between two tables that are drawn is not shown flying (`skipped`); two creates that count before either writes exceed the cap on
  phrases;
* accounts: `remove` relies on "cascade-delete dependent rows via FK", but
  `RatingHistory` and `GameParticipant` are `onDelete: Restrict`
  (`schema.prisma:66,120`), so it fails for who has played, after the sessions
  are gone.

## 7. Abstractions, and what is not modelled

A definition of the models stands for the lines that `PROJECT.json`, "map",
names; helpers defined within a mapped definition's lines are read with it.

* Engine: no domain events, entry ids, nicknames, `boutNumber`, order of cards
  in a hand; the shuffle is a choice of deck orders (seed arithmetic left to
  unit tests). `previous_loser` as first attacker is any seat. `CheatBook` has
  no crash between a command and its diff, and no counters.
* `GamePage`: no drag and drop, no profiles, timestamps or counts of the piles.
* `LiveGame`: the turn timer is on; durations are dropped, a timer fires at any
  time after it was armed; keys of the game do not expire; a handler never
  stalls between load and store for longer than the lock's 5 s TTL (there is no
  fencing, so such a stall would lose an update); all players have a `User`
  row; chat, reactions, read models and metrics are in other modules or left
  out; the seat order `concedeGame` picks the loser by is "one of the conceded".
* `PauseVote`: a player is in the room or not (tabs are not counted); the model
  ends with the game; a concede does not fail (it may in `LiveGame`); the pause
  lock is always obtained (after a second without it the code goes on without),
  and a record is never cleared in the middle of another's read-modify-write,
  which only the concede could do.
* `Matchmaking`: games are dealt and end without being played; a call's reads
  of one key at a time are one step each; settings are a count of players and
  one other value; durations are dropped but for the half hours of `age`.
* `Rematch`: a lock is waited for, up to a second, only behind a deal: another holder
  reads and writes one key, which is one step, so Redis is not that slow. A cancel's
  or the timer's read and DEL are one step, also when they go on without the lock; so
  are the deal and the DEL after it, which may fail. The timer's handler has no step
  of its own between firing and ending the session.
* `Room`: a write and its broadcast are one step, and so is a read of two keys
  of the chat; the viewer's own reactions, events buffered while the socket is
  down and the TTL of a finished game are left out.
* `Accounts`: hashing, cookie attributes, the sliding TTL of a session, paging
  and search are left out; `DestroyAll` and `createFirstAdmin` are single steps, and
  so is `UpdateFlags`, which in the code reads and then writes one session after the
  other (`session.service.ts:86-93`): a log-out between the two would bring the
  session back, which the model does not show.
* `Records`: TrueSkill is a library call on floating-point numbers, out of TLC's
  reach; a rating is the sequence of games that made it. Statistics that are
  sums of one query are left out, and the window of the highlights' lists
  (`highlights.service.ts:362,367`) is all time.
* `Effects`: tables are plays without cards' values, so an attack passed on, a cheat
  taken back and the end of a bout are free choices; flights that find no seat or no
  slot to fly between, and the registering of a slot, are left out. Another game is
  entered with one card on its table at most.
* `Lounge`: a join always succeeds, and nobody leaves the lobby or is removed; when
  the settings and the membership come together the two pushes carry what the editor
  had before them.
* `Uploads`, `Effects`, `Lounge`, `Shell`, `Desk`: layout, wording, validation,
  resizing of pictures, sounds, local storage and the create dialog of a lobby
  are left out.
* Not modelled: the deck factory with its seeded generator (bit-exact
  arithmetic, unit-tested), the event filter and the identity rating strategy
  (they return their argument), type declarations, health checks and constant
  lists.

## 8. Plan

Done, in this order: the engine and its type theorem; conservation; the bout
protocol and the refinement; the live game; the pause and its vote; the page and
the book of cheats over the engine; lobbies, rematch and the process they share;
the eight parts of the site; the proofs of the engine's properties, of the live
game, of the pause and of matchmaking; hands, book and page over the engine;
accounts, pictures, results, effects, desk, lounge and shell; the room.

Left, by weight:

* a `LiveGame` with two games, to relate finalisations (`Records`) with handlers;
* expiry of a game's keys, and the lists of games that the client shows.
