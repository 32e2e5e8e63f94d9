------------------------------ MODULE Records -------------------------------
(***************************************************************************)
(* What is left of a game when it is over: finalizeGame of                 *)
(* games.service.ts writes the game, a row for each participant and the    *)
(* new ratings, and the profile, the history and the highlights read them  *)
(* back.  The ratings are read before the transaction that writes them,    *)
(* as they will be; the transaction is atomic but may fail, or commit      *)
(* without its caller being told; a failed attempt is retried.  The        *)
(* readers ask several queries and nothing ties these together.            *)
(*                                                                         *)
(* A rating is the sequence of games that made it: what the formula of     *)
(* TrueSkill does with them is left out.                                   *)
(***************************************************************************)
EXTENDS Naturals, FiniteSets, SequencesExt

CONSTANTS Players, Games,
          PlayersOf,     \* [Games -> sets of players]
          Nobody,        \* no row, no loser, nothing under way
          MaxAttempts,   \* FINALIZE_MAX_ATTEMPTS
          MinGames,      \* NO_LOSS_MIN_GAMES_*
          Chances        \* bound: how many attempts fail without a reason of their
                         \* own, how many accounts go (leavers), and which pages are
                         \* read, of "profile", "highlights"

(* The rows of accounts, the work of a finalisation, a page on its way, and what
   the highlights keep.  The order players got out in is any of those who did. *)
Standing == [rating : Seq(Games), played : Nat]
RatingCopies == UNION {[S -> Seq(Games)] : S \in SUBSET Players}
Finishing == [step : {"read", "write", "clean", "done", "failed"}, attempt : Nat,
              finished : UNION {SetToSeqs(S) : S \in SUBSET Players}, loser : Players \cup {Nobody},
              copy : RatingCopies \cup {Nobody}, stamp : Nat]
Page == [what : {"profile", "highlights"}, who : Players \cup {Nobody}, base : Nat,
         saw : UNION {[S -> Nat] : S \in SUBSET {"user", "total", "wins", "games", "totals", "losses"}}]
NoLossList == [names : SUBSET Players, base : Nat]

ASSUME RecordsAssumption ==
  /\ PlayersOf \in [Games -> SUBSET Players] /\ IsFiniteSet(Players)
  /\ Nobody \notin Players \cup Standing \cup Page \cup NoLossList
  /\ Nobody \notin Finishing
  /\ MaxAttempts \in Nat \ {0} /\ MinGames \in Nat \ {0}
  /\ \A c \in Chances : c.faults \in Nat /\ c.leavers \in Nat /\ c.pages \subseteq {"profile", "highlights"}

VARIABLES
  acct,        \* row of a player: [rating, played]
  written,     \* the rows of the games, in the order of their commits:
               \* [game, stamp, loser, rows: player -> [before, after, place]]
  fin,         \* finalizeGameWithRetry of a game: [attempt, step, loser, ...]
  metrics,     \* games whose counters are in Redis
  now,         \* stamps given out (finishedAt)
  chance,      \* what is left of the bound
  failedList,  \* games:failed_finalizations
  reading,     \* a page on its way: [what, who, base, saw: query -> records seen]
  cache,       \* highlights:cache, the names of the no-loss list, and since when
  stale        \* history: players whose rating was written from an older copy

recordVars == <<acct, written, fin, metrics, now, chance, failedList, reading, cache, stale>>

-----------------------------------------------------------------------------
Recorded == {written[i].game : i \in 1..Len(written)}
(* The records of a player, those lost, those won, by their numbers. *)
RowsOf(p, records) == {i \in 1..Len(records) : p \in DOMAIN records[i].rows}
Lost(p, records) == {i \in 1..Len(records) : records[i].loser = p}
Won(p, records) == {i \in RowsOf(p, records) : records[i].rows[p].place = 1}
HasAccount(p) == acct[p] # Nobody

-----------------------------------------------------------------------------
(* A game ends and its result is persisted: in which order the players got out,
   and who was left, nobody when they all were out at once. *)
GameEnds(g, finished, loser) ==
  /\ fin[g] = Nobody
  /\ fin' = [fin EXCEPT ![g] = [step |-> "read", attempt |-> 1, finished |-> finished, loser |-> loser,
                                copy |-> Nobody, stamp |-> 0]]
  /\ metrics' = metrics \cup {g}
  /\ UNCHANGED <<acct, written, now, chance, failedList, reading, cache, stale>>

(* The accounts that still exist and the counters are read; finishedAt is taken.
   With no account left there is nothing to do. *)
FinalizeReads(g) ==
  LET ratable == {p \in PlayersOf[g] : HasAccount(p)}
  IN  /\ fin[g] # Nobody /\ fin[g].step = "read"
      /\ IF ratable = {}
         THEN /\ fin' = [fin EXCEPT ![g].step = "done"]
              /\ UNCHANGED now
         ELSE /\ now' = now + 1
              /\ fin' = [fin EXCEPT ![g].step = "write", ![g].stamp = now + 1,
                                    ![g].copy = [p \in ratable |-> acct[p].rating]]
      /\ UNCHANGED <<acct, written, metrics, chance, failedList, reading, cache, stale>>

(* updateRatings takes two players or more; a lone one keeps the rating. *)
updateRatings(g, copy) ==
  [p \in DOMAIN copy |-> IF Cardinality(DOMAIN copy) >= 2 THEN Append(copy[p], g) ELSE copy[p]]

(* The places follow the order the players got out in; the durak is last, and
   with no durak all are first. *)
place(f, p) == IF f.loser = Nobody THEN 1
               ELSE CHOOSE i \in 1..Len(f.finished) + 1 : Append(f.finished, f.loser)[i] = p

Record(g) ==
  LET f == fin[g]
      after == updateRatings(g, f.copy)
  IN  [game |-> g, stamp |-> f.stamp, loser |-> f.loser, metrics |-> g \in metrics,
       rows |-> [p \in DOMAIN f.copy |-> [before |-> f.copy[p], after |-> after[p],
                                          place |-> place(f, p)]]]

(* Mutant: the count of games is written from the copy, as the rating is. *)
Commits_Count(g) ==
  LET record == Record(g)
  IN  /\ written' = Append(written, record)
      /\ acct' = [p \in Players |->
           IF p \in DOMAIN record.rows
           THEN [rating |-> record.rows[p].after, played |-> Len(record.rows[p].before) + 1] ELSE acct[p]]
      /\ stale' = stale \cup {p \in DOMAIN record.rows : acct[p].rating # record.rows[p].before}

(* The transaction: the record, the participants' rows, and their accounts with
   the rating that was computed and one game more. *)
Commits(g) ==
  LET record == Record(g)
  IN  /\ written' = Append(written, record)
      /\ acct' = [p \in Players |->
           IF p \in DOMAIN record.rows
           THEN [rating |-> record.rows[p].after, played |-> acct[p].played + 1] ELSE acct[p]]
      /\ stale' = stale \cup {p \in DOMAIN record.rows : acct[p].rating # record.rows[p].before}

(* A row that names an account that is gone is refused: a participant's who left
   since the read, and the game's own when its durak had left before. *)
Refused(g) == \E p \in DOMAIN fin[g].copy \cup ({fin[g].loser} \ {Nobody}) : ~HasAccount(p)

Succeeds(g) ==
  /\ fin' = [fin EXCEPT ![g].step = "clean"]
  /\ UNCHANGED failedList

(* finalizeGameWithRetry: another attempt reads everything again. *)
Fails(g) ==
  IF fin[g].attempt < MaxAttempts
  THEN /\ fin' = [fin EXCEPT ![g].step = "read", ![g].attempt = @ + 1, ![g].copy = Nobody]
       /\ UNCHANGED failedList
  ELSE /\ fin' = [fin EXCEPT ![g].step = "failed"]
       /\ failedList' = failedList \cup {g}

FinalizeWrites(g) ==
  /\ fin[g] # Nobody /\ fin[g].step = "write"
  /\ IF g \in Recorded
     THEN Succeeds(g) /\ UNCHANGED <<acct, written, stale, chance>>
     ELSE \/ ~Refused(g) /\ Commits(g) /\ Succeeds(g) /\ UNCHANGED chance
          \/ Refused(g) /\ Fails(g) /\ UNCHANGED <<acct, written, stale, chance>>
          \/ /\ chance.faults > 0 /\ chance' = [chance EXCEPT !.faults = @ - 1]
             /\ Fails(g)
             /\ \/ ~Refused(g) /\ Commits(g)
                \/ UNCHANGED <<acct, written, stale>>
  /\ UNCHANGED <<metrics, now, reading, cache>>

(* The counters of the game are dropped. *)
FinalizeCleans(g) ==
  /\ fin[g] # Nobody /\ fin[g].step = "clean"
  /\ fin' = [fin EXCEPT ![g].step = "done"]
  /\ metrics' = metrics \ {g}
  /\ UNCHANGED <<acct, written, now, chance, failedList, reading, cache, stale>>

(* Only an account without games on record can be deleted. *)
AccountGoes(p) ==
  /\ chance.leavers > 0 /\ chance' = [chance EXCEPT !.leavers = @ - 1]
  /\ HasAccount(p) /\ RowsOf(p, written) = {}
  /\ acct' = [acct EXCEPT ![p] = Nobody]
  /\ UNCHANGED <<written, fin, metrics, now, failedList, reading, cache, stale>>

-----------------------------------------------------------------------------
(* The pages.  A query sees the records that are committed when it runs. *)
Queries(what) == IF what = "profile" THEN {"user", "total", "wins", "games"} ELSE {"totals", "losses"}

(* The profile reads the account first; the highlights only when none are cached. *)
PageOpens(what, who) ==
  /\ reading = Nobody /\ what \in chance.pages
  /\ what = "profile" => HasAccount(who)
  /\ what = "highlights" => cache = Nobody
  /\ reading' = [what |-> what, who |-> who, base |-> Len(written),
                 saw |-> IF what = "profile" THEN [q \in {"user"} |-> Len(written)] ELSE [q \in {} |-> 0]]
  /\ UNCHANGED <<acct, written, fin, metrics, now, chance, failedList, cache, stale>>

PageReads(q) ==
  /\ reading # Nobody
  /\ q \in Queries(reading.what) \ DOMAIN reading.saw
  /\ reading' = [reading EXCEPT !.saw = [x \in DOMAIN @ \cup {q} |-> IF x = q THEN Len(written) ELSE @[x]]]
  /\ UNCHANGED <<acct, written, fin, metrics, now, chance, failedList, cache, stale>>

Answered == reading # Nobody /\ DOMAIN reading.saw = Queries(reading.what)
Seen(q) == SubSeq(written, 1, reading.saw[q])

(* listLastForUser: the player's games, the last to finish first. *)
LastGame(p, records) ==
  records[CHOOSE i \in RowsOf(p, records) : \A j \in RowsOf(p, records) : records[j].stamp <= records[i].stamp]

(* listSameComposition: the other games with exactly these players on record. *)
SameComposition(g, records) ==
  LET who(r) == DOMAIN r.rows
      ref == {r \in ToSet(records) : r.game = g}
  IN  {r.game : r \in {s \in ToSet(records) : s.game # g /\ \E f \in ref : who(s) = who(f)}}

(* topNoLoss: enough games in the one answer, no loss in the other. *)
topNoLoss == {p \in Players : /\ Cardinality(RowsOf(p, Seen("totals"))) >= MinGames
                              /\ Lost(p, Seen("losses")) = {}}

(* The page is shown; the highlights are cached for the next reader. *)
PageShows ==
  /\ Answered
  /\ reading' = Nobody
  /\ cache' = IF reading.what = "highlights" THEN [names |-> topNoLoss, base |-> reading.base] ELSE cache
  /\ UNCHANGED <<acct, written, fin, metrics, now, chance, failedList, stale>>

(* The cache lives for HIGHLIGHTS_CACHE_TTL_SECONDS. *)
CacheExpires ==
  /\ cache # Nobody
  /\ cache' = Nobody
  /\ UNCHANGED <<acct, written, fin, metrics, now, chance, failedList, reading, stale>>

-----------------------------------------------------------------------------
RecordsInit ==
  /\ acct = [p \in Players |-> [rating |-> <<>>, played |-> 0]]
  /\ written = <<>> /\ fin = [g \in Games |-> Nobody]
  /\ metrics = {} /\ now = 0 /\ chance \in Chances /\ failedList = {}
  /\ reading = Nobody /\ cache = Nobody /\ stale = {}

RecordsNext ==
  \/ \E g \in Games : \/ \E loser \in PlayersOf[g] \cup {Nobody} :
                           \E finished \in SetToSeqs(PlayersOf[g] \ {loser}) : GameEnds(g, finished, loser)
                      \/ FinalizeReads(g) \/ FinalizeWrites(g) \/ FinalizeCleans(g)
  \/ \E p \in Players : AccountGoes(p) \/ PageOpens("profile", p)
  \/ PageOpens("highlights", Nobody)
  \/ \E q \in {"total", "wins", "games", "totals", "losses"} : PageReads(q)
  \/ PageShows \/ CacheExpires

RecordsSpec == RecordsInit /\ [][RecordsNext]_recordVars
-----------------------------------------------------------------------------
(* gamesPlayed and the participants' rows are kept apart and read in place of
   each other (computeStats): they agree, and no game is on record twice. *)
PlayedOnce ==
  /\ \A i, j \in 1..Len(written) : written[i].game = written[j].game => i = j
  /\ \A p \in Players : HasAccount(p) => acct[p].played = Cardinality(RowsOf(p, written))

(* A player's rating is the outcome of the last game that was recorded; it comes
   from every game the player has on record, unless a rating was written from
   a copy that was out of date. *)
LastRow(p, records) == records[Max(RowsOf(p, records))].rows[p]
Rated(i) == Cardinality(DOMAIN written[i].rows) >= 2
RatingExplained ==
  \A p \in Players : HasAccount(p) /\ RowsOf(p, written) # {} =>
    /\ acct[p].rating = LastRow(p, written).after
    /\ p \in stale \/ ToSet(acct[p].rating) = {written[i].game : i \in {k \in RowsOf(p, written) : Rated(k)}}

(* A game that is over is recorded with its counters, or on the list of failures,
   or somebody still works on it; unless nobody of it has an account. *)
NothingLost ==
  /\ \A r \in ToSet(written) : r.metrics
  /\ \A g \in Games : fin[g] # Nobody /\ fin[g].step = "done" =>
       g \in Recorded \/ \A p \in PlayersOf[g] : ~HasAccount(p)
  /\ \A g \in Games : fin[g] # Nobody /\ fin[g].step = "failed" => g \in failedList

(* Nobody is named as without a loss who lost a game that was recorded before
   the list was made. *)
NoLossHonest ==
  cache # Nobody => \A p \in cache.names : Lost(p, SubSeq(written, 1, cache.base)) = {}

(* On a profile whose queries met no new record, the first of the last games ends
   at the rating shown above it.  Two kinds of players are left out: those whose
   rating was written from an old copy, and those of a game nobody else is on
   record for, which changes no rating, so that it may overtake another game. *)
ProfileCoherent ==
  Answered /\ reading.what = "profile" /\ reading.saw["user"] = reading.saw["games"] =>
    LET p == reading.who
        records == Seen("games")
        mine == RowsOf(p, records)
    IN  mine # {} /\ p \notin stale /\ (\A i \in mine : Rated(i)) =>
          LastGame(p, records).rows[p].after = LastRow(p, records).after

(* The share of games won that a profile shows is at most one, if the wins were
   not counted after the games: the two queries are asked at once. *)
ShareHonest ==
  Answered /\ reading.what = "profile" /\ reading.saw["wins"] <= reading.saw["total"] =>
    Cardinality(Won(reading.who, Seen("wins"))) <= Cardinality(RowsOf(reading.who, Seen("total")))

(* Two games of the same players list each other, if no account of theirs went. *)
CompositionKept ==
  \A g, h \in Recorded : g # h /\ PlayersOf[g] = PlayersOf[h] /\ (\A p \in PlayersOf[g] : HasAccount(p)) =>
    h \in SameComposition(g, written)

(* The seven together: what finalizeGame records once is recorded whole, and what
   the profile, the history and the highlights say is true of some moment. *)
RecordsAgree == PlayedOnce /\ RatingExplained /\ NothingLost /\ NoLossHonest /\ ProfileCoherent /\ ShareHonest
  /\ CompositionKept
=============================================================================
