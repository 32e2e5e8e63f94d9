-------------------------------- MODULE Room --------------------------------
(***************************************************************************)
(* A game as one of its players watches it: games.gateway.ts and the chat  *)
(* of games.service.ts on one side, the hooks of the web client on the     *)
(* other.  The page keeps a copy of the game, its pause, and the chat in a *)
(* query cache.  The copy is fed from three sides: by broadcasts to the    *)
(* socket's room, by the answer to `game:subscribe', and by the REST       *)
(* snapshot; only the first two share a connection.  Nothing carries a     *)
(* version.                                                                *)
(*                                                                         *)
(* Moves, pauses and messages of the others are events of the environment  *)
(* here; LiveGame and PauseVote are about them.                            *)
(***************************************************************************)
EXTENDS Naturals, SequencesExt

CONSTANTS Handlers,      \* calls of game:subscribe that may be under way
          HistoryLimit,  \* CHAT_HISTORY_LIMIT, messages kept by the server
          BufferLimit,   \* CHAT_BUFFER_LIMIT, messages kept by the client
          Nothing,       \* no copy, no call
          Budgets        \* bound: how many events of each kind a behaviour has

(* What is stored of a game here, and copies of it: the page's, a handler's, the
   REST answer. *)
Game == [ver : Nat, over : BOOLEAN]
Pauses == {"none", "waiting", "voting"}
View == [game : Game, pause : Pauses, chat : Seq(Nat), hearts : SUBSET Nat]
Call == [step : {"asked", "read", "chat", "joined", "sent", "fetch", "fetched"},
         game : Game \cup {Nothing}, pause : Pauses \cup {Nothing}, chat : Seq(Nat), hearts : SUBSET Nat]
Rest == [kind : {"asked", "finished", "error"}] \cup [kind : {"live"}, game : Game, pause : Pauses]

ASSUME RoomAssumption ==
  /\ HistoryLimit \in Nat \ {0} /\ BufferLimit \in Nat
  /\ HistoryLimit <= BufferLimit
  /\ Nothing \notin View /\ Nothing \notin Call /\ Nothing \notin Rest /\ Nothing \notin Nat
  /\ Budgets \subseteq [{"play", "talk", "visit"} -> Nat]

VARIABLES
  game,      \* the game: [ver, over], ver counts what was persisted
  pause,     \* the pause record: "none", "waiting" or "voting"
  log,       \* chat:<id>, message numbers, oldest first
  said,      \* messages so far
  hearts,    \* reactions: messages another player has put a heart on
  click,     \* that player's reaction between its write and its broadcast
  socket,    \* "up" or "down"
  joined,    \* the socket is in the room
  inbox,     \* on its way to the socket, in order
  calls,     \* handlers at work for this socket: game:subscribe, game:chat_fetch
  rest,      \* the response to GET /games/:id on its way
  page,      \* the page is mounted
  panel,     \* the chat panel is open on it
  detail,    \* cached REST answer
  view,      \* cached live copy: ['games', 'live', id]
  left,      \* events left, of each kind
  raced,     \* history: "game", "pause": it changed last while an older copy was under way
  heartsCrossed,   \* history: the same of the heart on a message
  unheard    \* history: messages this page was not told, or too early

serverVars == <<game, pause, log, said, hearts, click>>
clientVars == <<page, panel, detail, view>>
wireVars == <<socket, joined, inbox, calls, rest>>
roomVars == <<serverVars, clientVars, wireVars, left, raced, heartsCrossed, unheard>>

-----------------------------------------------------------------------------
LastN(s, n) == IF Len(s) <= n THEN s ELSE SubSeq(s, Len(s) - n + 1, Len(s))

Happens(kind) == left[kind] > 0 /\ left' = [left EXCEPT ![kind] = @ - 1]

(* Every broadcaster emits to the sockets that are in the room.  One process
   serves the game, so broadcasts go out in the order of the writes. *)
Told(messages) == inbox' = IF joined THEN inbox \o messages ELSE inbox

(* Handlers that hold a copy of the game, of the pause, of the chat. *)
Holding(steps) == \E h \in Handlers : calls[h] # Nothing /\ calls[h].step \in steps
HoldsGame == Holding({"read", "chat", "joined", "sent"}) \/ (rest # Nothing /\ rest.kind = "live")
HoldsPause == Holding({"sent"}) \/ (rest # Nothing /\ rest.kind = "live")
HoldsChat == Holding({"chat", "joined", "sent", "fetched"})

(* History: the last change of each of these met an older copy that was under
   way, and nothing says which of the two the page takes for the newer. *)
Changes(what, met) == raced' = IF met THEN raced \cup what ELSE raced \ what
ChangesHeart(m, met) == heartsCrossed' = IF met THEN heartsCrossed \cup {m} ELSE heartsCrossed \ {m}

-----------------------------------------------------------------------------
(* The server. *)

(* A command of somebody else is applied; broadcastUpdate sends each socket its
   snapshot, and a second time when the game is over. *)
Moves ==
  /\ Happens("play")
  /\ ~game.over /\ pause = "none"
  /\ \E over \in BOOLEAN :
       /\ game' = [ver |-> game.ver + 1, over |-> over]
       /\ Told(<<[type |-> "state", game |-> game']>> \o
               (IF over THEN <<[type |-> "over", game |-> game']>> ELSE <<>>))
  /\ Changes({"game"}, HoldsGame)
  /\ UNCHANGED <<pause, log, said, hearts, click, clientVars, socket, joined, calls, rest, heartsCrossed, unheard>>

(* Somebody goes or returns, a vote opens, the players wait on: the record
   changes and the room is told. *)
PauseChanges ==
  /\ Happens("play")
  /\ ~game.over
  /\ \/ /\ pause' = (IF pause = "none" THEN "waiting" ELSE pause)
        /\ Told(<<[type |-> "paused"]>>)
     \/ /\ pause = "waiting" /\ pause' = "voting"
        /\ Told(<<[type |-> "voteStarted"]>>)
     \/ /\ pause = "voting" /\ pause' = "waiting"
        /\ Told(<<[type |-> "waitExtended"]>>)
     \/ /\ pause # "none" /\ pause' = "none"
        /\ Told(<<[type |-> "resumed"], [type |-> "state", game |-> game]>>)
  /\ IF pause' = pause \/ (pause' = "waiting" /\ ~HoldsPause)
     THEN UNCHANGED raced                      \* told as an addition to what is shown
     ELSE Changes({"pause"}, HoldsPause)
  /\ UNCHANGED <<game, log, said, hearts, click, clientVars, socket, joined, calls, rest, heartsCrossed, unheard>>

(* executeConcede: the vote ends the game; the notice comes after the result. *)
Concedes ==
  /\ Happens("play")
  /\ ~game.over /\ pause = "voting"
  /\ game' = [ver |-> game.ver + 1, over |-> TRUE]
  /\ pause' = "none"
  /\ Told(<<[type |-> "state", game |-> game'], [type |-> "over", game |-> game'],
            [type |-> "conceded"]>>)
  /\ Changes({"game", "pause"}, HoldsGame)
  /\ UNCHANGED <<log, said, hearts, click, clientVars, socket, joined, calls, rest, heartsCrossed, unheard>>

(* appendChatMessage: the message is appended, the list trimmed, the room told.
   A socket that is about to join, with the history read, never hears of it. *)
Says ==
  /\ Happens("talk")
  /\ said' = said + 1
  /\ log' = LastN(Append(log, said'), HistoryLimit)
  /\ Told(<<[type |-> "message", id |-> said']>>)
  /\ unheard' = IF ~joined /\ HoldsChat THEN unheard \cup {said'} ELSE unheard
  /\ UNCHANGED <<game, pause, hearts, click, clientVars, socket, joined, calls, rest, raced, heartsCrossed>>

(* reactToMessage: the stored emoji is read; the same one again, or none, takes
   it off.  Off is one write and then told; on is two, hset and expire, so that
   an off that follows at once is told before the on. *)
reactToMessage(m) ==
  /\ \/ /\ m \notin hearts /\ click = Nothing
        /\ Happens("talk")
        /\ hearts' = hearts \cup {m}
        /\ click' = m
        /\ ChangesHeart(m, HoldsChat)
        /\ UNCHANGED inbox
     \/ /\ m \in hearts
        /\ Happens("talk")
        /\ hearts' = hearts \ {m}
        /\ Told(<<[type |-> "reaction", id |-> m, on |-> FALSE]>>)
        /\ ChangesHeart(m, HoldsChat \/ click = m)
        /\ UNCHANGED click
     \/ /\ click = m
        /\ Told(<<[type |-> "reaction", id |-> m, on |-> TRUE]>>)
        /\ click' = Nothing
        /\ UNCHANGED <<hearts, left, heartsCrossed>>
  /\ UNCHANGED <<game, pause, log, said, clientVars, socket, joined, calls, rest, raced, unheard>>

(* A call just made: it knows nothing yet. *)
Made(step) == [step |-> step, game |-> Nothing, pause |-> Nothing, chat |-> <<>>, hearts |-> {}]

(* readChatHistory: the list, with the reactions merged in. *)
readChatHistory(s, step) == [s EXCEPT !.step = step, !.chat = log, !.hearts = hearts]

(* onSubscribe: the game is read, then the chat, then the socket joins the room,
   then the pause is read and the game sent as it was read, then the clock is
   read and everything goes back in the answer. *)
onSubscribe(h) ==
  LET s == calls[h]
      goes(to) == calls' = [calls EXCEPT ![h] = to]
  IN  /\ s # Nothing
      /\ \/ s.step = "asked" /\ goes([s EXCEPT !.step = "read", !.game = game])
            /\ UNCHANGED <<joined, inbox>>
         \/ s.step = "read" /\ goes(readChatHistory(s, "chat"))
            /\ UNCHANGED <<joined, inbox>>
         \/ s.step = "chat" /\ goes([s EXCEPT !.step = "joined"])
            /\ joined' = TRUE
            /\ UNCHANGED inbox
         \/ s.step = "joined" /\ goes([s EXCEPT !.step = "sent", !.pause = pause])
            /\ inbox' = Append(inbox, [type |-> "state", game |-> s.game])
            /\ UNCHANGED joined
         \/ s.step = "sent" /\ goes(Nothing)
            /\ inbox' = Append(inbox, [type |-> "ack", game |-> s.game, pause |-> s.pause,
                                      chat |-> s.chat, hearts |-> s.hearts])
            /\ UNCHANGED joined
      /\ UNCHANGED <<serverVars, clientVars, socket, rest, left, raced, heartsCrossed, unheard>>

(* onChatFetch: the history once more. *)
onChatFetch(h) ==
  LET s == calls[h]
  IN  /\ s # Nothing
      /\ \/ /\ s.step = "fetch"
            /\ calls' = [calls EXCEPT ![h] = readChatHistory(s, "fetched")]
            /\ UNCHANGED inbox
         \/ /\ s.step = "fetched"
            /\ calls' = [calls EXCEPT ![h] = Nothing]
            /\ inbox' = Append(inbox, [type |-> "history", chat |-> s.chat, hearts |-> s.hearts])
      /\ UNCHANGED <<serverVars, clientVars, socket, joined, rest, left, raced, heartsCrossed, unheard>>

(* GET /games/:id: the live snapshot, or, once the game is over, the record of a
   finished game as soon as there is one. *)
RestReads ==
  /\ rest # Nothing /\ rest.kind = "asked"
  /\ \/ /\ ~game.over
        /\ rest' = [kind |-> "live", game |-> game, pause |-> pause]
     \/ /\ game.over
        /\ rest' \in {[kind |-> "finished"], [kind |-> "error"]}
  /\ UNCHANGED <<serverVars, clientVars, socket, joined, inbox, calls, left, raced, heartsCrossed, unheard>>

-----------------------------------------------------------------------------
(* The client. *)

(* What of incoming is not there yet, in its order. *)
Lacking(existing, incoming) ==
  LET new == {i \in DOMAIN incoming : incoming[i] \notin Range(existing)}
      rank(i) == Cardinality({j \in new : j <= i})
  IN  [n \in 1..Cardinality(new) |-> incoming[CHOOSE i \in new : rank(i) = n]]

(* appendChat: what is not yet there goes to the end; the buffer keeps the end. *)
appendChat(existing, incoming) == LastN(existing \o Lacking(existing, incoming), BufferLimit)

(* applyReaction: a message in the buffer gets or loses its heart. *)
applyReaction(v, m, on) ==
  IF m \notin Range(v.chat) THEN v
  ELSE [v EXCEPT !.hearts = IF on THEN v.hearts \cup {m} ELSE v.hearts \ {m}]

(* useGame: the page shows the live copy unless the REST answer says finished,
   and then it does not listen any more. *)
Enabled == page /\ detail # [kind |-> "finished"]

(* A copy without a chat. *)
Blank(g, p) == [game |-> g, pause |-> p, chat |-> <<>>, hearts |-> {}]

(* The effect that seeds the live copy from a REST snapshot: the game is
   replaced, a pause is taken over only where none is shown. *)
Seeded(snapshot) ==
  IF snapshot.kind # "live" THEN view
  ELSE IF view = Nothing THEN Blank(snapshot.game, snapshot.pause)
  ELSE [view EXCEPT !.game = snapshot.game,
                    !.pause = IF view.pause = "none" THEN snapshot.pause ELSE view.pause]

(* Mutant: the pause of the answer is used only where none is shown. *)
Heard_PauseKept(v, m) ==
  IF m.type # "ack" \/ v = Nothing THEN v
  ELSE [v EXCEPT !.game = m.game, !.chat = appendChat(m.chat, v.chat)]

(* What the listeners and the answer to game:subscribe make of the copy.  The
   answer wins over what is there, but for messages it does not list; without a
   copy only it and a state make one. *)
Heard(v, m) ==
  IF v = Nothing /\ m.type \notin {"ack", "state", "over"} THEN v
  ELSE LET w == IF v = Nothing THEN Blank(m.game, "none") ELSE v
       IN  CASE m.type = "ack" -> [game |-> m.game, pause |-> m.pause, chat |-> appendChat(m.chat, w.chat),
                                   hearts |-> m.hearts \cup (w.hearts \ Range(m.chat))]
             [] m.type = "state" -> [w EXCEPT !.game = m.game]
             [] m.type = "over" -> [w EXCEPT !.game = m.game, !.pause = "none"]
             [] m.type = "paused" -> [w EXCEPT !.pause = IF w.pause = "voting" THEN "voting" ELSE "waiting"]
             [] m.type = "voteStarted" -> [w EXCEPT !.pause = "voting"]
             [] m.type = "waitExtended" -> [w EXCEPT !.pause = IF w.pause = "none" THEN "none" ELSE "waiting"]
             [] m.type \in {"resumed", "conceded"} -> [w EXCEPT !.pause = "none"]
             [] m.type = "message" -> [w EXCEPT !.chat = appendChat(w.chat, <<m.id>>)]
             [] m.type = "reaction" -> applyReaction(w, m.id, m.on)
             [] m.type = "history" -> [w EXCEPT !.chat = appendChat(m.chat, w.chat),
                                                !.hearts = m.hearts \cup (w.hearts \ Range(m.chat))]

Free(n) == {hs \in SUBSET {h \in Handlers : calls[h] = Nothing} : Cardinality(hs) = n}
Calls(n, step) ==
  \E hs \in Free(n) : calls' = [h \in Handlers |-> IF h \in hs THEN Made(step) ELSE calls[h]]

(* GameChatPanel: the effect that marks everything read and asks for the history
   runs when the panel opens, and again whenever the messages change. *)
Refreshes(old, new) == panel /\ page /\ old # Nothing /\ <<old.chat, old.hearts>> # <<new.chat, new.hearts>>

(* An event reaches the socket.  Listeners are attached while the page listens;
   an answer finds its promise also after that. *)
Hears ==
  /\ inbox # <<>>
  /\ LET m == Head(inbox)
     IN  /\ view' = IF Enabled \/ m.type \in {"ack", "history"} THEN Heard(view, m) ELSE view
         /\ unheard' = CASE m.type = "message" /\ view = Nothing -> unheard \cup {m.id}
                         [] m.type = "ack" \/ (m.type = "history" /\ view # Nothing) ->
                              unheard \ Range(m.chat)
                         [] OTHER -> unheard
  /\ inbox' = Tail(inbox)
  /\ IF Refreshes(view, view') THEN Calls(1, "fetch") ELSE UNCHANGED calls
  /\ UNCHANGED <<serverVars, page, panel, detail, socket, joined, rest, left, raced, heartsCrossed>>

(* The REST answer arrives; an equal one changes nothing, an error keeps what
   is there. *)
RestArrives ==
  /\ rest # Nothing /\ rest.kind # "asked"
  /\ detail' = IF rest.kind = "error" THEN detail ELSE rest
  /\ view' = IF detail' # detail /\ page THEN Seeded(rest) ELSE view
  /\ rest' = Nothing
  /\ UNCHANGED <<serverVars, page, panel, socket, joined, inbox, calls, left, raced, heartsCrossed, unheard>>

AsksRest == rest' = IF rest = Nothing THEN [kind |-> "asked"] ELSE rest

(* The page is opened: the cached REST answer seeds the copy, a fresh one is
   fetched unless it is seconds old, and a connected socket subscribes. *)
Mounts ==
  /\ ~page
  /\ Happens("visit")
  /\ page' = TRUE
  /\ view' = IF detail # Nothing THEN Seeded(detail) ELSE view
  /\ IF detail # [kind |-> "finished"] /\ socket = "up" THEN Calls(1, "asked") ELSE UNCHANGED calls
  /\ AsksRest \/ (detail # Nothing /\ UNCHANGED rest)
  /\ UNCHANGED <<serverVars, panel, detail, socket, joined, inbox, raced, heartsCrossed, unheard>>

(* And closed, for another page of the site: the socket stays, and no room is
   left.  The caches are dropped when nobody has looked at them for a while. *)
Unmounts ==
  /\ page
  /\ Happens("visit")
  /\ page' = FALSE /\ panel' = FALSE
  /\ \/ UNCHANGED <<detail, view>>
     \/ detail' = Nothing /\ view' = Nothing
  /\ UNCHANGED <<serverVars, wireVars, raced, heartsCrossed, unheard>>

(* The chat panel is opened, or closed. *)
TogglesChat ==
  /\ Enabled /\ socket = "up"
  /\ Happens("visit")
  /\ panel' = ~panel
  /\ IF panel' THEN Calls(1, "fetch") ELSE UNCHANGED calls
  /\ UNCHANGED <<serverVars, page, detail, view, socket, joined, inbox, rest, raced, heartsCrossed, unheard>>

(* The socket connects: the page subscribes, twice if it was opened before the
   first connection. *)
Connects ==
  /\ socket = "down"
  /\ socket' = "up"
  /\ IF Enabled THEN Calls(1, "asked") \/ (detail = Nothing /\ Calls(2, "asked")) ELSE UNCHANGED calls
  /\ AsksRest \/ UNCHANGED rest
  /\ UNCHANGED <<serverVars, clientVars, joined, inbox, left, raced, heartsCrossed, unheard>>

(* The connection drops: what was on its way is gone, with the answers. *)
Drops ==
  /\ socket = "up"
  /\ Happens("visit")
  /\ socket' = "down"
  /\ joined' = FALSE
  /\ inbox' = <<>>
  /\ calls' = [h \in Handlers |-> Nothing]
  /\ UNCHANGED <<serverVars, page, panel, detail, view, rest, raced, heartsCrossed, unheard>>

-----------------------------------------------------------------------------
RoomInit ==
  /\ game = [ver |-> 0, over |-> FALSE]
  /\ pause = "none"
  /\ log = <<>> /\ said = 0 /\ hearts = {} /\ click = Nothing
  /\ socket = "down" /\ joined = FALSE /\ inbox = <<>>
  /\ calls = [h \in Handlers |-> Nothing]
  /\ rest = [kind |-> "asked"]
  /\ page = TRUE /\ panel = FALSE
  /\ detail = Nothing /\ view = Nothing
  /\ left \in Budgets
  /\ raced = {} /\ heartsCrossed = {} /\ unheard = {}

RoomNext ==
  \/ Moves \/ PauseChanges \/ Concedes \/ Says
  \/ \E m \in Range(log) : reactToMessage(m)
  \/ \E h \in Handlers : onSubscribe(h) \/ onChatFetch(h)
  \/ RestReads \/ RestArrives
  \/ Hears
  \/ Mounts \/ Unmounts \/ TogglesChat
  \/ Connects \/ Drops

RoomSpec == RoomInit /\ [][RoomNext]_roomVars

-----------------------------------------------------------------------------
(* Nothing is on its way to the page. *)
Quiet ==
  /\ Enabled /\ view # Nothing
  /\ socket = "up" /\ joined
  /\ inbox = <<>> /\ rest = Nothing
  /\ \A h \in Handlers : calls[h] = Nothing

(* When nothing is on its way, the page shows the game and the pause as they
   are, whatever was missed in a drop or while another page was open, unless an
   older copy was under way when they last changed. *)
CopyFresh ==
  Quiet => /\ "game" \in raced \/ view.game = game
           /\ "pause" \in raced \/ view.pause = pause

(* Message numbers in the order in which they were said, none twice. *)
Ascending(s) == \A i, j \in DOMAIN s : i < j => s[i] < s[j]

(* As long as the server still has every message, the page shows them once each
   and in the order in which they were said, however the history, the broadcasts
   and the buffer were merged; the only ones missing were said between a
   subscriber's reading and joining, or came before there was a copy. *)
ChatInOrder ==
  Quiet /\ said <= HistoryLimit =>
    /\ Ascending(view.chat)
    /\ Range(view.chat) \subseteq Range(log) /\ Range(log) \subseteq Range(view.chat) \cup unheard

(* The hearts the page shows are the stored ones, unless an older copy was under
   way or two clicks crossed. *)
ReactionsAgree ==
  Quiet /\ click = Nothing =>
    \A m \in (Range(log) \cap Range(view.chat)) \ heartsCrossed : (m \in view.hearts) = (m \in hearts)

(* The three together: once nothing is under way, the page (useGameState and the
   chat of games/hooks.ts) shows the game, the chat and the reactions as they are
   stored. *)
RoomAgrees == CopyFresh /\ ChatInOrder /\ ReactionsAgree
=============================================================================
