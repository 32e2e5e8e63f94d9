------------------------- MODULE MatchmakingProofs -------------------------
(***************************************************************************)
(* What lobbies and rematches promise each other's users, for every set of *)
(* users, lobbies, calls, requests and crashes: nobody is dealt into a     *)
(* game without a yes, no accept deals two, and who is led                 *)
(* to a lobby has a seat there and sees it as it is.                       *)
(***************************************************************************)
EXTENDS Matchmaking, FiniteSetTheorems, TLAPS

(* Games are drawn in order, and each is a record. *)
GamesDrawn ==
  /\ \E n \in Nat : Dealt = 1..n
  /\ \A g \in Dealt : game[g] = [players |-> game[g].players, over |-> game[g].over]

-----------------------------------------------------------------------------
(* Lobbies. *)

(* The fields of a call. *)
Shaped(r) == r = [op |-> r.op, user |-> r.user, lobby |-> r.lobby, arg |-> r.arg, step |-> r.step]

LobbyShapes ==
  /\ DOMAIN call = Slots /\ DOMAIN lock = Lobbies /\ DOMAIN stale = Lobbies
  /\ Drawn \subseteq Lobbies
  /\ \A c \in Slots : call[c] # Idle => Shaped(call[c])

(* The calls that are between two writes to a lobby. *)
Holds(r) == r.op \in {"join", "start"} \/ r.step = "clear"

CallsHoldLocks ==
  \A c \in Slots : call[c] # Idle /\ Holds(call[c]) =>
    \A l \in Lobbies : call[c].lobby = l => lock[l] = c

(* What a start has read is still so when it deals. *)
StartsReady ==
  \A c \in Slots : call[c] # Idle /\ call[c].op = "start" =>
    /\ call[c].lobby \in Drawn
    /\ call[c].step = "deal" =>
         \A p \in Players(call[c].lobby) : lobby[call[c].lobby].ready[p]

NobodyStale == \A l \in Lobbies : stale[l] = {}

LobbyInv == LobbyShapes /\ CallsHoldLocks /\ StartsReady /\ NobodyStale

-----------------------------------------------------------------------------
(* Rematches. *)

(* The fields of a request. *)
Asked(r) == r \in Request

SessionShapes ==
  /\ DOMAIN session = Games /\ DOMAIN rlock = Games /\ DOMAIN req = RematchSlots
  /\ DOMAIN agreed = Games /\ DOMAIN spent = Games
  /\ \A c \in RematchSlots : req[c] # Quiet =>
       /\ Asked(req[c])
       /\ req[c].op = "initiate" => req[c].game \in Dealt

(* Whom a session counts has agreed, and has not yet been dealt for it; only a
   complete one may be left from a game that was dealt. *)
Sound(g) ==
  Live(g) =>
    /\ g \in Dealt /\ session[g] \in Session
    /\ session[g].accepted \subseteq agreed[g]
    /\ up => g \in timer \cup stray
    /\ g \notin overtaken => \/ session[g].accepted \cap spent[g] = {}
                             \/ session[g].accepted = game[g].players

SessionsSound == \A g \in Games : Sound(g)

(* A request that writes what it has read without the lock does so after the
   session was ended under its deal; one that is about to deal has the lock of
   a session all have accepted, unless it was. *)
Going(c) ==
  LET g == req[c].game
  IN  /\ req[c].step = "write" =>
           g \in overtaken /\ g \in Dealt /\ req[c].saw \in SUBSET Users /\ req[c].saw \subseteq agreed[g]
      /\ req[c].step = "deal" =>
           /\ g \in Dealt /\ game[g].players \subseteq agreed[g]
           /\ g \notin overtaken => /\ rlock[g] = c /\ Live(g)
                                    /\ session[g].accepted = game[g].players
                                    /\ game[g].players \cap spent[g] = {}

RequestsGo == \A c \in RematchSlots : req[c] # Quiet => Going(c)

(* A lock that is held between two steps is held by a request that deals. *)
Deal(c, g) == req[c] # Quiet /\ req[c].step = "deal" /\ req[c].game = g

LocksDeal == \A g \in Games : Held(g) => \E c \in RematchSlots : rlock[g] = c /\ Deal(c, g)

(* While the process is down no request is under way. *)
NoneWhileDown == ~up => \A c \in RematchSlots : req[c] = Quiet

RematchInv == SessionShapes /\ SessionsSound /\ RequestsGo /\ LocksDeal /\ NoneWhileDown

(* The types of events and screens. *)
Message == [type : {"invited", "updated", "started", "cancelled"}, game : Games]

RematchType ==
  /\ timer \subseteq Games
  /\ modal \in [Users -> Games \cup {NoGame}]
  /\ inbox \in [Users -> Seq(Message)]

MatchInv == GamesDrawn /\ LobbyInv /\ RematchInv

-----------------------------------------------------------------------------
(* The next game gets a new id, and leaves those dealt before it as they are. *)
LEMMA DealsNewGame ==
  ASSUME GamesDrawn, NEW g \in Games, NEW S, CreateFromComposition(g, S)
  PROVE  /\ GamesDrawn' /\ g \notin Dealt /\ Dealt' = Dealt \cup {g}
         /\ Cardinality(Dealt') = g
         /\ game'[g].players = S
         /\ \A h \in Dealt : h \in Dealt' /\ game'[h] = game[h]
<1>1. PICK n \in Nat : Dealt = 1..n
  BY DEF GamesDrawn
<1>2. Cardinality(Dealt) = n
  BY <1>1, FS_Interval
<1>3. g = n + 1 /\ Dealt' = 1..(n + 1) /\ g \notin Dealt /\ Dealt' = Dealt \cup {g}
  BY <1>1, <1>2 DEF CreateFromComposition, Dealt
<1>4. Cardinality(Dealt') = n + 1
  BY <1>3, FS_Interval
<1>5. /\ game'[g] = [players |-> S, over |-> FALSE]
      /\ \A h \in Dealt : h \in Dealt' /\ game'[h] = game[h]
  BY <1>3 DEF CreateFromComposition, Dealt
<1>6. \A h \in Dealt' : game'[h] = [players |-> game'[h].players, over |-> game'[h].over]
  BY <1>3, <1>5 DEF GamesDrawn
<1>7. n + 1 \in Nat
  OBVIOUS
<1> QED BY <1>3, <1>4, <1>5, <1>6, <1>7 DEF GamesDrawn

LEMMA GameEndsKeeps ==
  ASSUME GamesDrawn, NEW g, GameEnds(g)
  PROVE  /\ GamesDrawn' /\ Dealt' = Dealt
         /\ \A h \in Dealt : game'[h].players = game[h].players
<1>1. Dealt' = Dealt
  BY DEF GameEnds, Dealt
<1>2. ASSUME NEW h \in Dealt
      PROVE  /\ game'[h].players = game[h].players
             /\ game'[h] = [players |-> game'[h].players, over |-> game'[h].over]
  <2>1. game[h] = [players |-> game[h].players, over |-> game[h].over]
    BY DEF GamesDrawn
  <2>2. game'[h] = IF h = g THEN [game[h] EXCEPT !.over = TRUE] ELSE game[h]
    BY DEF GameEnds, Dealt
  <2>3. CASE h = g
    <3>1. game'[h] = [players |-> game[h].players, over |-> TRUE]
      BY <2>1, <2>2, <2>3
    <3> QED BY <3>1
  <2> QED BY <2>1, <2>2, <2>3
<1> QED BY <1>1, <1>2 DEF GamesDrawn

(* The games dealt so far stay, with their players. *)
GamesStay ==
  /\ GamesDrawn' /\ Dealt \subseteq Dealt'
  /\ \A h \in Dealt : game'[h].players = game[h].players

LEMMA DealKeeps ==
  ASSUME GamesDrawn, game' = game \/ \E g \in Games : \E S : CreateFromComposition(g, S)
  PROVE  GamesStay
<1>1. CASE game' = game
  BY <1>1 DEF GamesStay, GamesDrawn, Dealt
<1>2. CASE \E g \in Games : \E S : CreateFromComposition(g, S)
  BY <1>2, DealsNewGame DEF GamesStay
<1> QED BY <1>1, <1>2

-----------------------------------------------------------------------------
(* Of the operations on a lobby only a start deals. *)
LEMMA OnlyStartsDeal ==
  ASSUME LobbiesNext
  PROVE  UNCHANGED seatingVars \/ \E c \in Slots : StartWrites(c)
<1>1. CASE \E c \in Slots : \/ \E u \in Users : CreateReads(c, u) \/ LeaveCurrent(c, u)
                            \/ \E u \in Users, l \in Drawn : JoinReads(c, u, l)
                            \/ \E l \in Drawn : \E u \in rooms[l] : StartReads(c, u, l)
                            \/ CreateWrites(c) \/ JoinWrites(c)
  BY <1>1 DEF CreateReads, CreateWrites, JoinReads, JoinWrites, LeaveCurrent, StartReads
<1>2. CASE \E c \in Slots : Leave(c)
  BY ZenonT(30), <1>2 DEF Leave, LeaveStray, LeaveSeat, LeaveClears
<1> QED BY <1>1, <1>2 DEF LobbiesNext, UpdateSettings, SetReady, List, HalfHour

LEMMA LobbiesDeal ==
  ASSUME LobbiesNext
  PROVE  up' = up /\ (game' = game \/ \E g \in Games : \E S : CreateFromComposition(g, S))
BY OnlyStartsDeal DEF StartWrites, seatingVars

(* A step of call c touches only what is unlocked or locked by c; the rest is  *)
(* what c itself has to keep.                                                 *)
OthersKeep(c) ==
  /\ DOMAIN call' = Slots /\ \A d \in Slots \ {c} : call'[d] = call[d]
  /\ DOMAIN lock' = Lobbies /\ \A l \in Lobbies : lock'[l] = lock[l] \/ lock[l] \in {Nobody, c}
  /\ Drawn \subseteq Drawn' /\ Drawn' \subseteq Lobbies
  /\ \A l \in Drawn : lobby'[l] = lobby[l] \/ lock[l] \in {Nobody, c}
  /\ DOMAIN stale' = Lobbies /\ \A l \in Lobbies : stale'[l] = {}

OwnKept(c) ==
  call'[c] # Idle =>
    /\ Shaped(call'[c])
    /\ Holds(call'[c]) => \A l \in Lobbies : call'[c].lobby = l => lock'[l] = c
    /\ call'[c].op = "start" =>
         /\ call'[c].lobby \in Drawn'
         /\ call'[c].step = "deal" =>
              \A p \in DOMAIN lobby'[call'[c].lobby].ready : lobby'[call'[c].lobby].ready[p]

LEMMA CallSteps ==
  ASSUME LobbyInv, NEW c, OthersKeep(c), c \in Slots => OwnKept(c)
  PROVE  LobbyInv'
<1> USE DEF LobbyInv
<1>1. LobbyShapes'
  BY DEF LobbyShapes, OthersKeep, OwnKept, Shaped, Idle
<1>2. CallsHoldLocks'
  <2> SUFFICES ASSUME NEW d \in Slots, call'[d] # Idle, Holds(call'[d]), NEW l \in Lobbies, call'[d].lobby = l
               PROVE  lock'[l] = d
    BY DEF CallsHoldLocks, Idle
  <2>1. CASE d = c
    BY <2>1 DEF OwnKept
  <2>2. CASE d # c
    BY <2>2, LobbiesAssumption DEF CallsHoldLocks, OthersKeep
  <2> QED BY <2>1, <2>2
<1>3. StartsReady'
  <2> SUFFICES ASSUME NEW d \in Slots, call'[d] # Idle, call'[d].op = "start"
               PROVE  /\ call'[d].lobby \in Drawn'
                      /\ call'[d].step = "deal" =>
                           \A p \in DOMAIN lobby'[call'[d].lobby].ready : lobby'[call'[d].lobby].ready[p]
    BY DEF StartsReady, Players, Idle
  <2>1. CASE d = c
    BY <2>1 DEF OwnKept
  <2>2. CASE d # c
    <3> DEFINE l == call[d].lobby
    <3>1. call'[d] = call[d] /\ l \in Drawn /\ l \in Lobbies
      BY <2>2 DEF OthersKeep, StartsReady, LobbyShapes
    <3>2. lock[l] = d
      BY <3>1 DEF CallsHoldLocks, Holds
    <3>3. lobby'[l] = lobby[l]
      BY <2>2, <3>1, <3>2, LobbiesAssumption DEF OthersKeep
    <3> QED BY <3>1, <3>3 DEF StartsReady, Players, OthersKeep
  <2> QED BY <2>1, <2>2
<1>4. NobodyStale'
  BY DEF NobodyStale, OthersKeep
<1> QED BY <1>1, <1>2, <1>3, <1>4

(* What a step leaves alone. *)
LEMMA Unchanged ==
  ASSUME LobbyInv, NEW c
  PROVE  /\ call' = call => DOMAIN call' = Slots /\ \A d \in Slots \ {c} : call'[d] = call[d]
         /\ lock' = lock => DOMAIN lock' = Lobbies /\ \A l \in Lobbies : lock'[l] = lock[l]
         /\ lobby' = lobby => Drawn' = Drawn /\ Drawn' \subseteq Lobbies
         /\ stale' = stale => DOMAIN stale' = Lobbies /\ \A l \in Lobbies : stale'[l] = {}
BY DEF LobbyInv, LobbyShapes, NobodyStale, Drawn

(* A call begins or goes on, the lobbies as they were. *)
LEMMA CallBegins ==
  ASSUME LobbyInv, NEW c \in Slots, NEW op, NEW u, NEW l, NEW arg, NEW step,
         Starts(c, op, u, l, arg, step), stale' = stale, lobby' = lobby,
         \/ op \in {"create", "leaveCurrent"} /\ step # "clear" /\ lock' = lock
         \/ Locks(c, l) /\ l \in Drawn,
         op = "start" => l \in Drawn /\ \A p \in Players(l) : lobby[l].ready[p]
  PROVE  OthersKeep(c) /\ OwnKept(c)
<1> DEFINE r == [op |-> op, user |-> u, lobby |-> l, arg |-> arg, step |-> step]
<1>1. call'[c] = r /\ (\A d \in Slots \ {c} : call'[d] = call[d]) /\ DOMAIN call' = Slots
  BY DEF Starts, LobbyInv, LobbyShapes
<1>2. OthersKeep(c)
  BY <1>1, Unchanged DEF OthersKeep, Locks, LobbyInv, LobbyShapes
<1>3. OwnKept(c)
  <2>1. Shaped(call'[c])
    BY <1>1 DEF Shaped
  <2>2. Holds(call'[c]) => lock'[l] = c
    BY <1>1 DEF Holds, Locks, LobbyInv, LobbyShapes
  <2> QED BY <1>1, <2>1, <2>2, Unchanged DEF OwnKept, Players
<1> QED BY <1>2, <1>3

(* A call ends: it lets go of its locks and of no others. *)
LEMMA CallEnds ==
  ASSUME LobbyInv, NEW c \in Slots, Ends(c), stale' = stale,
         Drawn \subseteq Drawn', Drawn' \subseteq Lobbies,
         \A l \in Drawn : lobby'[l] = lobby[l] \/ lock[l] \in {Nobody, c}
  PROVE  OthersKeep(c) /\ OwnKept(c)
<1>1. OthersKeep(c)
  BY Unchanged DEF Ends, OthersKeep, LobbyInv, LobbyShapes
<1>2. OwnKept(c)
  BY DEF Ends, OwnKept, LobbyInv, LobbyShapes, Idle
<1> QED BY <1>1, <1>2

(* The step of a call, as LobbiesNext has it. *)
CallNext(c) ==
  \/ \E u \in Users : CreateReads(c, u) \/ LeaveCurrent(c, u)
  \/ \E u \in Users, l \in Drawn : JoinReads(c, u, l)
  \/ \E l \in Drawn : \E u \in rooms[l] : StartReads(c, u, l)
  \/ CreateWrites(c)
  \/ JoinWrites(c)
  \/ Leave(c)
  \/ StartWrites(c)

(* Every step of a call leaves the others their due, and does its own. *)
LEMMA CallFrame ==
  ASSUME LobbyInv, NEW c \in Slots, CallNext(c)
  PROVE  OthersKeep(c) /\ OwnKept(c)
<1>1. ASSUME NEW u \in Users, CreateReads(c, u) \/ LeaveCurrent(c, u)
      PROVE  OthersKeep(c) /\ OwnKept(c)
  <2>1. CASE CreateReads(c, u)
    <3>1. PICK p \in Patches : Starts(c, "create", u, NoLobby, p, "write")
      BY <2>1 DEF CreateReads
    <3> QED BY <2>1, <3>1, CallBegins DEF CreateReads
  <2>2. CASE LeaveCurrent(c, u)
    BY <2>2, CallBegins DEF LeaveCurrent
  <2> QED BY <1>1, <2>1, <2>2
<1>2. ASSUME NEW u \in Users, NEW l \in Drawn, JoinReads(c, u, l)
      PROVE  OthersKeep(c) /\ OwnKept(c)
  <2>1. CASE Locks(c, l) /\ Starts(c, "join", u, l, Null, "write")
    BY <1>2, <2>1, CallBegins DEF JoinReads
  <2>2. CASE UNCHANGED <<lock, call>>
    BY <1>2, <2>2, Unchanged DEF JoinReads, OthersKeep, OwnKept, LobbyInv, LobbyShapes, CallsHoldLocks, StartsReady, Players
  <2> QED BY <1>2, <2>1, <2>2 DEF JoinReads
<1>3. ASSUME NEW l \in Drawn, NEW u \in rooms[l], StartReads(c, u, l)
      PROVE  OthersKeep(c) /\ OwnKept(c)
  BY <1>3, CallBegins DEF StartReads
<1>4. ASSUME CreateWrites(c)
      PROVE  OthersKeep(c) /\ OwnKept(c)
  <2>1. PICK l \in Lobbies \ Drawn :
          Drawn' = Drawn \cup {l} /\ \A k \in Drawn : lobby'[k] = lobby[k]
    BY <1>4 DEF CreateWrites, Drawn
  <2> QED BY <1>4, <2>1, CallEnds DEF CreateWrites, LobbyInv, LobbyShapes
<1>5. ASSUME JoinWrites(c)
      PROVE  OthersKeep(c) /\ OwnKept(c)
  <2>1. \A l \in Lobbies : call[c].lobby = l => lock[l] = c
    BY <1>5 DEF JoinWrites, Serves, Holds, LobbyInv, CallsHoldLocks
  <2>2. Drawn' = Drawn /\ \A l \in Drawn : l # call[c].lobby => lobby'[l] = lobby[l]
    BY <1>5 DEF JoinWrites, Persist, Drawn
  <2> QED BY <1>5, <2>1, <2>2, CallEnds DEF JoinWrites, LobbyInv, LobbyShapes
<1>6. ASSUME NEW u, NEW l, NEW ofSocket, LeaveStray(c, u, l, ofSocket)
      PROVE  OthersKeep(c) /\ OwnKept(c)
  <2>1. OthersKeep(c) /\ OwnKept(c)
    BY <1>6, Unchanged DEF LeaveStray, OthersKeep, OwnKept, LobbyInv, LobbyShapes
  <2> QED BY <2>1
<1>7. ASSUME NEW u, NEW l, NEW op, op # "start", LeaveSeat(c, u, l, op)
      PROVE  OthersKeep(c) /\ OwnKept(c)
  <2> DEFINE r == [op |-> op, user |-> u, lobby |-> l, arg |-> Null, step |-> "clear"]
  <2>1. l \in Drawn /\ l \in Lobbies /\ Locks(c, l)
    BY <1>7 DEF LeaveSeat, Seated, Alive, LobbyInv, LobbyShapes
  <2>2. Drawn' = Drawn /\ \A k \in Drawn : k # l => lobby'[k] = lobby[k]
    BY <1>7 DEF LeaveSeat, Persist, Drawn
  <2>3. DOMAIN stale' = Lobbies /\ \A k \in Lobbies : stale'[k] = {}
    BY <1>7 DEF LeaveSeat, LobbyInv, LobbyShapes, NobodyStale
  <2>4. call'[c] = r /\ (\A d \in Slots \ {c} : call'[d] = call[d]) /\ DOMAIN call' = Slots
    BY <1>7 DEF LeaveSeat, LobbyInv, LobbyShapes
  <2>5. OthersKeep(c)
    BY <2>1, <2>2, <2>3, <2>4 DEF OthersKeep, Locks, LobbyInv, LobbyShapes
  <2>6. Shaped(call'[c])
    BY <2>4 DEF Shaped
  <2>7. OwnKept(c)
    BY <1>7, <2>1, <2>4, <2>6 DEF OwnKept, Locks, LobbyInv, LobbyShapes
  <2> QED BY <2>5, <2>7
<1>8. ASSUME LeaveClears(c)
      PROVE  OthersKeep(c) /\ OwnKept(c)
  BY <1>8, CallEnds, Unchanged DEF LeaveClears
<1>9. ASSUME Leave(c)
      PROVE  OthersKeep(c) /\ OwnKept(c)
  BY <1>6, <1>7, <1>8, <1>9 DEF Leave
<1>10. ASSUME StartWrites(c)
       PROVE  OthersKeep(c) /\ OwnKept(c)
  <2> DEFINE l == call[c].lobby
  <2>1. /\ l \in Drawn /\ l \in Lobbies /\ lock[l] = c
        /\ call[c] # Idle /\ call[c].op = "start" /\ Shaped(call[c])
    BY <1>10 DEF StartWrites, Serves, Holds, LobbyInv, LobbyShapes, CallsHoldLocks, StartsReady
  <2>2. CASE Ends(c)
    <3>1. Drawn' = Drawn /\ \A k \in Drawn : k # l => lobby'[k] = lobby[k]
      BY <1>10 DEF StartWrites, Drawn
    <3> QED BY <1>10, <2>1, <2>2, <3>1, CallEnds DEF StartWrites, LobbyInv, LobbyShapes
  <2>3. CASE \E step \in {"unlist", "drop"} : Goes(c, step) /\ UNCHANGED <<lock, lobby>>
    <3>1. PICK step \in {"unlist", "drop"} : Goes(c, step) /\ UNCHANGED <<lock, lobby>>
      BY <2>3
    <3>2. /\ call'[c] = [call[c] EXCEPT !.step = step]
          /\ (\A d \in Slots \ {c} : call'[d] = call[d]) /\ DOMAIN call' = Slots
      BY <3>1 DEF Goes, LobbyInv, LobbyShapes
    <3>3. Shaped(call'[c]) /\ call'[c].op = "start" /\ call'[c].lobby = l /\ call'[c].step = step
      BY <2>1, <3>2 DEF Shaped
    <3>4. OthersKeep(c)
      BY <1>10, <3>1, <3>2, Unchanged DEF OthersKeep, StartWrites
    <3>5. OwnKept(c)
      BY <2>1, <3>1, <3>3, <3>4 DEF OwnKept, OthersKeep
    <3> QED BY <3>4, <3>5
  <2> QED BY <1>10, <2>2, <2>3 DEF StartWrites
<1> QED BY <1>1, <1>2, <1>3, <1>4, <1>5, <1>9, <1>10 DEF CallNext

(* What happens outside of calls waits for the lock, and leaves the calls alone. *)
LEMMA PlainFrame ==
  ASSUME LobbyInv,
         \/ \E l \in Drawn : \E u \in rooms[l] :
              (\E p \in Patches : UpdateSettings(u, l, p)) \/ (\E r \in BOOLEAN : SetReady(u, l, r))
         \/ List
         \/ HalfHour
  PROVE  OthersKeep(Nobody)
<1>1. ASSUME NEW l \in Drawn, NEW u \in rooms[l],
              (\E p \in Patches : UpdateSettings(u, l, p)) \/ (\E r \in BOOLEAN : SetReady(u, l, r))
       PROVE  OthersKeep(Nobody)
  <2>1. lock[l] = Nobody /\ call' = call /\ lock' = lock
    BY <1>1 DEF UpdateSettings, SetReady, Unlocked
  <2>2. Drawn' = Drawn /\ \A k \in Drawn : k # l => lobby'[k] = lobby[k]
    BY <1>1 DEF UpdateSettings, SetReady, Persist, Drawn
  <2>3. DOMAIN stale' = Lobbies /\ \A k \in Lobbies : stale'[k] = {}
    <3>1. CASE \E p \in Patches : UpdateSettings(u, l, p)
      <4>1. PICK p \in Patches : UpdateSettings(u, l, p)
        BY <3>1
      <4>2. lobby'[l].ready = [q \in Players(l) |-> FALSE]
        BY <4>1 DEF UpdateSettings, Persist, Drawn
      <4>3. stale'[l] = {}
        BY <4>1, <4>2 DEF UpdateSettings, LobbyInv, LobbyShapes
      <4> QED BY <4>1, <4>3 DEF UpdateSettings, LobbyInv, LobbyShapes, NobodyStale
    <3>2. CASE \E r \in BOOLEAN : SetReady(u, l, r)
      BY <3>2 DEF SetReady, LobbyInv, LobbyShapes, NobodyStale
    <3> QED BY <1>1, <3>1, <3>2
  <2> QED BY <2>1, <2>2, <2>3, Unchanged DEF OthersKeep, LobbyInv, LobbyShapes
<1>2. CASE List
  BY <1>2, Unchanged DEF List, OthersKeep
<1>3. CASE HalfHour
  <2>1. Drawn' = Drawn
    BY <1>3 DEF HalfHour, Drawn
  <2> QED BY <1>3, <2>1, Unchanged DEF HalfHour, OthersKeep, LobbyInv, LobbyShapes
<1> QED BY <1>1, <1>2, <1>3

(* Every operation on a lobby keeps the invariant. *)
LEMMA LobbyStep ==
  ASSUME LobbyInv, LobbiesNext
  PROVE  LobbyInv'
<1>1. ASSUME NEW c \in Slots, CallNext(c) PROVE LobbyInv'
  BY <1>1, CallFrame, CallSteps
<1>2. CASE \E l \in Drawn : \E u \in rooms[l] :
             (\E p \in Patches : UpdateSettings(u, l, p)) \/ (\E r \in BOOLEAN : SetReady(u, l, r))
  BY <1>2, PlainFrame, CallSteps, LobbiesAssumption
<1>3. CASE List \/ HalfHour
  BY <1>3, PlainFrame, CallSteps, LobbiesAssumption
<1> QED BY <1>1, <1>2, <1>3 DEF LobbiesNext, CallNext

-----------------------------------------------------------------------------
(* A step of the rematch service deals at most a new game. *)
LEMMA RematchDeals ==
  ASSUME RematchNext
  PROVE  up' = up /\ (game' = game \/ \E g \in Games : \E S : CreateFromComposition(g, S))
<1>1. CASE UNCHANGED seatingVars
  BY <1>1 DEF seatingVars
<1>2. CASE \E c \in RematchSlots : Accept(c)
  BY <1>2 DEF Accept
<1> QED
  BY <1>1, <1>2 DEF RematchNext, Press, InitiateOrAccept, Cancel, Responds, TimerFires, KeyExpires, Hears

(* Where nothing happens to the sessions, new games change nothing for them. *)
LEMMA RematchKept ==
  ASSUME RematchInv, GamesStay, UNCHANGED <<session, timer, rlock, req, agreed, spent, overtaken, stray>>, up' = up
  PROVE  RematchInv'
<1>1. SessionShapes'
  BY DEF RematchInv, SessionShapes, GamesStay, Quiet
<1>2. SessionsSound'
  BY DEF RematchInv, SessionsSound, Sound, GamesStay, Live, NoSession
<1>3. RequestsGo'
  BY DEF RematchInv, RequestsGo, Going, GamesStay, Live, NoSession, Quiet
<1>4. LocksDeal'
  BY DEF RematchInv, LocksDeal, Deal, Held, Free, Quiet
<1>5. NoneWhileDown'
  BY DEF RematchInv, NoneWhileDown, Quiet
<1> QED BY <1>1, <1>2, <1>3, <1>4, <1>5 DEF RematchInv

(* A request c goes on: the others keep theirs, a lock they hold, and, unless   *)
(* it was overtaken, the session they deal.                                     *)
Frame(c) ==
  /\ DOMAIN session' = Games /\ DOMAIN rlock' = Games /\ DOMAIN req' = RematchSlots
  /\ DOMAIN agreed' = Games /\ DOMAIN spent' = Games
  /\ (\A d \in RematchSlots \ {c} : req'[d] = req[d]) /\ NoneWhileDown'
  /\ overtaken \subseteq overtaken'
  /\ \A g \in Games :
       /\ agreed[g] \subseteq agreed'[g]
       /\ rlock'[g] = rlock[g] \/ rlock'[g] \in {c, Free}
       /\ \A d \in RematchSlots \ {c} : rlock[g] = d =>
            /\ rlock'[g] = d
            /\ g \notin overtaken' => /\ session'[g] = session[g]
                                      /\ spent'[g] \cap game[g].players \subseteq spent[g]

Own(c) ==
  /\ req'[c] # Quiet =>
       /\ Asked(req'[c])
       /\ req'[c].op = "initiate" => req'[c].game \in Dealt'
       /\ Going(c)'
  /\ \A g \in Games : rlock'[g] = c => Deal(c, g)'

LEMMA RequestSteps ==
  ASSUME RematchInv, GamesStay, NEW c, Frame(c), SessionsSound', c \in RematchSlots => Own(c),
         c \notin RematchSlots => c = Free
  PROVE  RematchInv'
<1>1. SessionShapes'
  BY DEF RematchInv, SessionShapes, Frame, Own, GamesStay, Quiet
<1>2. ASSUME NEW d \in RematchSlots, req'[d] # Quiet
      PROVE  Going(d)'
  <2>1. CASE d = c
    BY <1>2, <2>1 DEF Own
  <2>2. CASE d # c
    <3>1. req'[d] = req[d] /\ req[d] # Quiet /\ Going(d) /\ Asked(req[d]) /\ req[d].game \in Games
      BY <1>2, <2>2 DEF RematchInv, RequestsGo, SessionShapes, Frame, Quiet, Asked, Request
    <3>2. PICK g \in Games : g = req[d].game
      BY <3>1
    <3>3. g \in Dealt => g \in Dealt' /\ game'[g].players = game[g].players
      BY DEF GamesStay
    <3>4. overtaken \subseteq overtaken' /\ agreed[g] \subseteq agreed'[g]
      BY DEF Frame
    <3>5. CASE req[d].step = "deal"
      <4>1. g \in Dealt /\ game[g].players \subseteq agreed[g]
        BY <3>1, <3>2, <3>5 DEF Going
      <4>2. ASSUME g \notin overtaken'
            PROVE  /\ rlock'[g] = d /\ session'[g] # NoSession
                   /\ session'[g].accepted = game'[g].players
                   /\ game'[g].players \cap spent'[g] = {}
        <5>1. /\ rlock[g] = d /\ session[g] # NoSession
              /\ session[g].accepted = game[g].players /\ game[g].players \cap spent[g] = {}
          BY <3>1, <3>2, <3>4, <3>5, <4>2 DEF Going, Live
        <5>2. /\ rlock'[g] = d /\ session'[g] = session[g]
              /\ spent'[g] \cap game[g].players \subseteq spent[g]
          BY <2>2, <4>2, <5>1 DEF Frame
        <5> QED BY <3>3, <4>1, <5>1, <5>2
      <4>3. /\ req'[d].step = "deal" /\ req'[d].game = g /\ g \in Dealt'
            /\ game'[g].players \subseteq agreed'[g]
        BY <3>1, <3>2, <3>3, <3>4, <3>5, <4>1
      <4> QED BY <4>2, <4>3 DEF Going, Live
    <3>6. CASE req[d].step # "deal"
      BY <3>1, <3>2, <3>3, <3>4, <3>6 DEF Going
    <3> QED BY <3>5, <3>6
  <2> QED BY <2>1, <2>2
<1>3. RequestsGo'
  BY <1>2 DEF RequestsGo, Quiet
<1>4. LocksDeal'
  <2> SUFFICES ASSUME NEW g \in Games, rlock'[g] # Free
               PROVE  \E d \in RematchSlots : rlock'[g] = d /\ Deal(d, g)'
    BY DEF LocksDeal, Held, Free
  <2>1. CASE rlock'[g] = c
    BY <2>1 DEF Own
  <2>2. CASE rlock'[g] # c
    <3>1. rlock'[g] = rlock[g]
      BY <2>2 DEF Frame
    <3>2. PICK d \in RematchSlots : rlock[g] = d /\ Deal(d, g)
      BY <3>1 DEF RematchInv, LocksDeal, Held
    <3>3. req'[d] = req[d]
      BY <2>2, <3>1, <3>2 DEF Frame
    <3> QED BY <3>1, <3>2, <3>3 DEF Deal, Quiet
  <2> QED BY <2>1, <2>2
<1> QED BY <1>1, <1>3, <1>4 DEF RematchInv, Frame

(* What a step of a request makes of it. *)
LEMMA Moves ==
  ASSUME RematchInv, NEW c \in RematchSlots, req[c] # Quiet
  PROVE  /\ Asked(req[c]) /\ req[c].game \in Games /\ req[c].user \in Users
         /\ \A step \in Steps : Step(c, step) =>
              /\ DOMAIN req' = RematchSlots /\ \A d \in RematchSlots \ {c} : req'[d] = req[d]
              /\ Asked(req'[c]) /\ req'[c] # Quiet
              /\ req'[c].op = req[c].op /\ req'[c].game = req[c].game /\ req'[c].step = step
         /\ \A answer \in Replies : Answers(c, answer) =>
              /\ DOMAIN req' = RematchSlots /\ \A d \in RematchSlots \ {c} : req'[d] = req[d]
              /\ Asked(req'[c]) /\ req'[c] # Quiet
              /\ req'[c].op = req[c].op /\ req'[c].game = req[c].game /\ req'[c].step = "answered"
         /\ \A users \in SUBSET Users : Reads(c, users) =>
              /\ DOMAIN req' = RematchSlots /\ \A d \in RematchSlots \ {c} : req'[d] = req[d]
              /\ Asked(req'[c]) /\ req'[c] # Quiet
              /\ req'[c].op = req[c].op /\ req'[c].game = req[c].game
              /\ req'[c].step = "write" /\ req'[c].saw = users
<1>1. DOMAIN req = RematchSlots /\ req[c] \in Request
  BY DEF RematchInv, SessionShapes, Asked
<1>2. \A r \in Request : r # Quiet
  BY RematchAssumption DEF Quiet
<1>3. Asked(req[c]) /\ req[c].game \in Games /\ req[c].user \in Users
  BY <1>1 DEF Asked, Request
<1>4. ASSUME NEW step \in Steps, Step(c, step)
      PROVE  /\ DOMAIN req' = RematchSlots /\ \A d \in RematchSlots \ {c} : req'[d] = req[d]
             /\ Asked(req'[c]) /\ req'[c] # Quiet
             /\ req'[c].op = req[c].op /\ req'[c].game = req[c].game /\ req'[c].step = step
  <2>1. req'[c] = [req[c] EXCEPT !.step = step]
    BY <1>1, <1>4 DEF Step
  <2>2. req'[c] \in Request /\ req'[c].op = req[c].op /\ req'[c].game = req[c].game /\ req'[c].step = step
    BY <1>1, <2>1 DEF Request, Steps, Replies
  <2> QED BY <1>1, <1>2, <1>4, <2>2 DEF Asked, Step
<1>5. ASSUME NEW answer \in Replies, Answers(c, answer)
      PROVE  /\ DOMAIN req' = RematchSlots /\ \A d \in RematchSlots \ {c} : req'[d] = req[d]
             /\ Asked(req'[c]) /\ req'[c] # Quiet
             /\ req'[c].op = req[c].op /\ req'[c].game = req[c].game /\ req'[c].step = "answered"
  <2>1. req'[c] = [req[c] EXCEPT !.step = "answered", !.answer = answer]
    BY <1>1, <1>5 DEF Answers
  <2>2. req'[c] \in Request /\ req'[c].op = req[c].op /\ req'[c].game = req[c].game /\ req'[c].step = "answered"
    BY <1>1, <2>1 DEF Request, Steps, Replies
  <2> QED BY <1>1, <1>2, <1>5, <2>2 DEF Asked, Answers
<1>6. ASSUME NEW users \in SUBSET Users, Reads(c, users)
      PROVE  /\ DOMAIN req' = RematchSlots /\ \A d \in RematchSlots \ {c} : req'[d] = req[d]
             /\ Asked(req'[c]) /\ req'[c] # Quiet
             /\ req'[c].op = req[c].op /\ req'[c].game = req[c].game
             /\ req'[c].step = "write" /\ req'[c].saw = users
  <2>1. req'[c] = [req[c] EXCEPT !.step = "write", !.saw = users]
    BY <1>1, <1>6 DEF Reads
  <2>2. /\ req'[c] \in Request /\ req'[c].op = req[c].op /\ req'[c].game = req[c].game
        /\ req'[c].step = "write" /\ req'[c].saw = users
    BY <1>1, <2>1 DEF Request, Steps, Replies
  <2> QED BY <1>1, <1>2, <1>6, <2>2 DEF Asked, Reads
<1> QED BY <1>3, <1>4, <1>5, <1>6

(* A session nobody touched. *)
LEMMA SoundKept ==
  ASSUME NEW g \in Games, Sound(g), GamesStay, session'[g] = session[g], up' = up,
         agreed[g] \subseteq agreed'[g], spent'[g] \subseteq spent[g], overtaken \subseteq overtaken',
         g \in timer \cup stray => g \in timer' \cup stray'
  PROVE  Sound(g)'
<1> SUFFICES ASSUME session[g] # NoSession PROVE Sound(g)'
  BY DEF Sound, Live
<1>1. /\ g \in Dealt /\ session[g] \in Session /\ session[g].accepted \subseteq agreed[g]
      /\ up => g \in timer \cup stray
      /\ g \notin overtaken => \/ session[g].accepted \cap spent[g] = {}
                               \/ session[g].accepted = game[g].players
  BY DEF Sound, Live
<1>2. g \in Dealt' /\ game'[g].players = game[g].players
  BY <1>1 DEF GamesStay
<1>3. session'[g].accepted \subseteq agreed'[g]
  BY <1>1
<1>4. g \notin overtaken' => \/ session'[g].accepted \cap spent'[g] = {}
                             \/ session'[g].accepted = game'[g].players
  BY <1>1, <1>2
<1> QED BY <1>1, <1>2, <1>3, <1>4 DEF Sound

(* While a request c does not deal, it holds no lock. *)
LEMMA HoldsNone ==
  ASSUME RematchInv, NEW c, req[c] = Quiet \/ req[c].step # "deal", NEW g \in Games
  PROVE  c \in RematchSlots => rlock[g] # c
<1> SUFFICES ASSUME c \in RematchSlots, rlock[g] = c PROVE FALSE
  OBVIOUS
<1>1. Held(g)
  BY RematchAssumption DEF Held, Free
<1> QED BY <1>1 DEF RematchInv, LocksDeal, Deal

(* A request goes on, and the sessions are as they were. *)
LEMMA RequestAlone ==
  ASSUME RematchInv, GamesStay, NEW c \in RematchSlots, req[c] = Quiet \/ req[c].step # "deal",
         UNCHANGED <<session, rlock, timer, agreed, spent, overtaken, stray, up>>, up \/ req'[c] = Quiet,
         DOMAIN req' = RematchSlots, \A d \in RematchSlots \ {c} : req'[d] = req[d],
         req'[c] # Quiet =>
           /\ Asked(req'[c])
           /\ req'[c].op = "initiate" => req'[c].game \in Dealt'
           /\ Going(c)'
  PROVE  RematchInv'
<1>1. NoneWhileDown'
  BY DEF RematchInv, NoneWhileDown, Quiet
<1>2. Frame(c)
  BY <1>1 DEF RematchInv, SessionShapes, Frame
<1>3. SessionsSound'
  BY SoundKept DEF RematchInv, SessionsSound
<1>4. \A g \in Games : rlock'[g] # c
  BY HoldsNone
<1>5. Own(c)
  BY <1>4 DEF Own
<1> QED BY <1>2, <1>3, <1>5, RequestSteps

(* A session ends: it is gone, or a DEL that failed leaves it as it was. *)
LEMMA DeleteKeeps ==
  ASSUME RematchInv, GamesStay, NEW g \in Games, DeletesSession(g), timer' = timer \ {g},
         \A h \in Games : agreed[h] \subseteq agreed'[h],
         \A h \in Games \ {g} : spent'[h] = spent[h],
         spent'[g] = spent[g] \/ g \in overtaken' \/ session[g].accepted = game[g].players,
         overtaken \subseteq overtaken', up' = up
  PROVE  DOMAIN session' = Games /\ SessionsSound'
<1>0. DOMAIN session = Games
  BY DEF RematchInv, SessionShapes
<1>1. ASSUME NEW h \in Games, h # g PROVE Sound(h)'
  <2>1. session'[h] = session[h] /\ Sound(h) /\ (h \in timer \cup stray => h \in timer' \cup stray')
    BY <1>0, <1>1 DEF DeletesSession, RematchInv, SessionsSound
  <2> QED BY <1>1, <2>1, SoundKept
<1>2. Sound(g)'
  <2>1. CASE session' = [session EXCEPT ![g] = NoSession]
    BY <1>0, <2>1 DEF Sound, Live
  <2>2. CASE Live(g) /\ stray' = stray \cup {g} /\ UNCHANGED session
    <3>1. /\ g \in Dealt /\ session[g] \in Session /\ session[g].accepted \subseteq agreed[g]
          /\ g \notin overtaken => \/ session[g].accepted \cap spent[g] = {}
                                   \/ session[g].accepted = game[g].players
      BY <2>2 DEF RematchInv, SessionsSound, Sound
    <3>2. g \in Dealt' /\ game'[g].players = game[g].players /\ session'[g] = session[g] /\ g \in stray'
      BY <2>2, <3>1 DEF GamesStay
    <3>3. session'[g].accepted \subseteq agreed'[g]
      BY <3>1, <3>2
    <3>4. g \notin overtaken' => \/ session'[g].accepted \cap spent'[g] = {}
                                 \/ session'[g].accepted = game'[g].players
      BY <3>1, <3>2
    <3> QED BY <3>1, <3>2, <3>3, <3>4 DEF Sound
  <2> QED BY <2>1, <2>2 DEF DeletesSession
<1> QED BY <1>0, <1>1, <1>2 DEF DeletesSession, SessionsSound

(* Whoever ends a session under a deal marks the game. *)
LEMMA MarkKeeps ==
  ASSUME RematchInv, NEW g \in Games, Live(g), DeletesSession(g) \/ session' = [session EXCEPT ![g] = NoSession],
         EndsUnderDeal(g)
  PROVE  /\ overtaken \subseteq overtaken'
         /\ \A h \in Games : Held(h) /\ h \notin overtaken' => session'[h] = session[h]
<1>1. \A h \in Games \ {g} : session'[h] = session[h]
  BY DEF DeletesSession, RematchInv, SessionShapes
<1> QED BY <1>1 DEF EndsUnderDeal

(* An accept writes the session as it was read. *)
LEMMA JoinStep ==
  ASSUME GamesDrawn, RematchInv, NEW c \in RematchSlots, req[c] # Quiet, up, up' = up, game' = game, timer' = timer,
         NEW g \in Games, g = req[c].game, NEW read \in SUBSET Users, read \subseteq agreed[g], NEW locked \in BOOLEAN,
         Joins(c, read, locked), UNCHANGED overtaken, g \in Dealt, req[c].step # "deal",
         locked => /\ Live(g) /\ ~Held(g) /\ stray' = stray /\ read = session[g].accepted
                   /\ req[c].user \in game[g].players \ read,
         ~locked => g \in overtaken /\ stray' = IF Live(g) THEN stray ELSE stray \cup {g}
  PROVE  RematchInv'
<1>0. PICK u \in Users : u = req[c].user
  BY Moves
<1> DEFINE accepted == read \cup {u}
           written == [accepted |-> accepted, outlives |-> TRUE]
<1>1. GamesStay
  BY DealKeeps
<1>2. session' = [session EXCEPT ![g] = written] /\ written \in Session /\ written.accepted = accepted
  BY <1>0 DEF Joins, Accepted, Session
<1>3. /\ agreed' = [agreed EXCEPT ![g] = @ \cup {u}] /\ spent' = [spent EXCEPT ![g] = @ \ {u}]
  BY <1>0 DEF Joins, Agrees
<1>4. \/ accepted = game[g].players /\ rlock' = (IF locked THEN [rlock EXCEPT ![g] = c] ELSE rlock) /\ Step(c, "deal")
      \/ rlock' = rlock /\ Answers(c, "session")
  BY <1>0 DEF Joins
<1> HIDE DEF written, accepted
<1>5. /\ DOMAIN session = Games /\ DOMAIN rlock = Games /\ DOMAIN agreed = Games /\ DOMAIN spent = Games
  BY DEF RematchInv, SessionShapes
<1>6. session'[g] = written /\ session'[g] # NoSession /\ session'[g].accepted = accepted
  BY <1>2, <1>5, RematchAssumption DEF NoSession
<1>7. /\ DOMAIN req' = RematchSlots /\ \A d \in RematchSlots \ {c} : req'[d] = req[d]
      /\ Asked(req'[c]) /\ req'[c] # Quiet /\ req'[c].op = req[c].op /\ req'[c].game = g
      /\ \/ /\ req'[c].step = "deal" /\ accepted = game[g].players
            /\ locked => rlock' = [rlock EXCEPT ![g] = c]
            /\ ~locked => rlock' = rlock
         \/ req'[c].step = "answered" /\ rlock' = rlock
  <2>1. CASE Step(c, "deal") /\ accepted = game[g].players /\ rlock' = (IF locked THEN [rlock EXCEPT ![g] = c] ELSE rlock)
    <3>1. "deal" \in Steps
      BY DEF Steps, Replies
    <3> QED BY <2>1, <3>1, Moves
  <2>2. CASE Answers(c, "session") /\ rlock' = rlock
    <3>1. "session" \in Replies
      BY DEF Steps, Replies
    <3> QED BY <2>2, <3>1, Moves
  <2> QED BY <1>4, <2>1, <2>2
<1>8. agreed'[g] = agreed[g] \cup {u} /\ spent'[g] = spent[g] \ {u} /\ accepted \subseteq agreed'[g]
  BY <1>3, <1>5 DEF accepted
<1>9. ASSUME NEW h \in Games PROVE Sound(h)'
  <2>1. CASE h # g
    <3>1. session'[h] = session[h] /\ agreed'[h] = agreed[h] /\ spent'[h] = spent[h] /\ Sound(h)
          /\ (h \in timer \cup stray => h \in timer' \cup stray')
      BY <1>2, <1>3, <1>5, <2>1 DEF RematchInv, SessionsSound
    <3> QED BY <1>1, <3>1, SoundKept
  <2>2. CASE h = g
    <3>1. ASSUME locked
          PROVE  /\ g \notin overtaken => accepted \cap spent'[g] = {}
                 /\ g \in timer' \cup stray'
      <4>1. /\ session[g].accepted \cap spent[g] = {} \/ session[g].accepted = game[g].players \/ g \in overtaken
            /\ g \in timer \cup stray
        BY <3>1 DEF RematchInv, SessionsSound, Sound
      <4>2. read = session[g].accepted /\ read # game[g].players /\ stray' = stray
        BY <1>0, <3>1
      <4>3. g \notin overtaken => read \cap spent[g] = {}
        BY <4>1, <4>2
      <4> QED BY <1>8, <4>1, <4>2, <4>3 DEF accepted
    <3>2. ASSUME ~locked
          PROVE  g \in overtaken' /\ g \in timer' \cup stray'
      BY <3>2 DEF RematchInv, SessionsSound, Sound
    <3>3. g \in Dealt' /\ session'[g] \in Session
      BY <1>1, <1>2, <1>6 DEF GamesStay
    <3> QED BY <1>6, <1>8, <2>2, <3>1, <3>2, <3>3 DEF Sound
  <2> QED BY <2>1, <2>2
<1>10. SessionsSound'
  BY <1>9 DEF SessionsSound
<1>11. \A h \in Games : rlock[h] # c
  BY HoldsNone
<1>12. Frame(c)
  <2>1. NoneWhileDown'
    BY DEF NoneWhileDown
  <2>2. DOMAIN session' = Games /\ DOMAIN rlock' = Games /\ DOMAIN agreed' = Games /\ DOMAIN spent' = Games
    BY <1>2, <1>3, <1>5, <1>7
  <2>3. ASSUME NEW h \in Games
        PROVE  rlock'[h] = rlock[h] \/ rlock'[h] \in {c, Free}
    BY <1>5, <1>7
  <2>4. ASSUME NEW h \in Games, NEW d \in RematchSlots \ {c}, rlock[h] = d
        PROVE  /\ rlock'[h] = d
               /\ h \notin overtaken' => session'[h] = session[h] /\ spent'[h] \cap game[h].players \subseteq spent[h]
    <3>1. h = g => ~locked
      BY <2>4, RematchAssumption DEF Held, Free
    <3>2. rlock'[h] = d
      BY <1>5, <1>7, <2>4, <3>1
    <3> QED BY <1>2, <1>3, <1>5, <3>1, <3>2
  <2>5. ASSUME NEW h \in Games
        PROVE  agreed[h] \subseteq agreed'[h]
    BY <1>3, <1>5
  <2> QED BY <1>7, <2>1, <2>2, <2>3, <2>4, <2>5 DEF Frame
<1>13. Own(c)
  <2>1. req'[c].op = "initiate" => req'[c].game \in Dealt'
    BY <1>1, <1>7 DEF GamesStay
  <2>2. Going(c)'
    <3>1. CASE req'[c].step = "answered"
      BY <3>1 DEF Going
    <3>2. CASE req'[c].step = "deal" /\ (locked => rlock' = [rlock EXCEPT ![g] = c]) /\ accepted = game[g].players
      <4>1. g \in Dealt' /\ game'[g].players \subseteq agreed'[g]
        BY <1>1, <1>8, <3>2 DEF GamesStay
      <4>2. ASSUME g \notin overtaken'
            PROVE  /\ rlock'[g] = c /\ session'[g] # NoSession /\ session'[g].accepted = game'[g].players
                   /\ game'[g].players \cap spent'[g] = {}
        <5>1. locked /\ rlock'[g] = c
          BY <1>5, <3>2, <4>2
        <5>2. session[g].accepted \cap spent[g] = {}
          BY <4>2, <5>1 DEF RematchInv, SessionsSound, Sound
        <5> QED BY <1>6, <1>8, <3>2, <5>1, <5>2 DEF accepted
      <4> QED BY <1>7, <3>2, <4>1, <4>2 DEF Going, Live
    <3> QED BY <1>7, <3>1, <3>2
  <2>3. ASSUME NEW h \in Games, rlock'[h] = c PROVE Deal(c, h)'
    <3>1. h = g /\ req'[c].step = "deal"
      BY <1>5, <1>7, <1>11, <2>3
    <3> QED BY <1>7, <3>1 DEF Deal, Quiet
  <2> QED BY <1>7, <2>1, <2>2, <2>3 DEF Own
<1> QED BY <1>1, <1>10, <1>12, <1>13, RequestSteps

(* A deal ends, well or badly. *)
LEMMA DealStep ==
  ASSUME GamesDrawn, RematchInv, GamesStay, NEW c \in RematchSlots, req[c] # Quiet, req[c].step = "deal", up, up' = up,
         NEW type, NEW answer \in Replies, DealEnds(c, type, answer), UNCHANGED <<agreed, overtaken>>,
         NEW g \in Games, g = req[c].game,
         spent' = spent \/ spent' = [spent EXCEPT ![g] = @ \cup game[g].players]
  PROVE  RematchInv'
<1>1. /\ DOMAIN session = Games /\ DOMAIN rlock = Games /\ DOMAIN agreed = Games /\ DOMAIN spent = Games
  BY DEF RematchInv, SessionShapes
<1>2. /\ DeletesSession(g) /\ timer' = timer \ {g} /\ Answers(c, answer)
      /\ rlock' = [rlock EXCEPT ![g] = IF @ = c THEN Free ELSE @]
  BY DEF DealEnds
<1>3. g \notin overtaken => rlock[g] = c /\ session[g].accepted = game[g].players
  BY DEF RematchInv, RequestsGo, Going
<1>4. DOMAIN session' = Games /\ SessionsSound'
  <2>1. \A h \in Games \ {g} : spent'[h] = spent[h]
    BY <1>1
  <2>2. g \in overtaken' \/ session[g].accepted = game[g].players
    BY <1>3
  <2>3. overtaken \subseteq overtaken' /\ \A h \in Games : agreed[h] \subseteq agreed'[h]
    OBVIOUS
  <2> QED BY <1>2, <2>1, <2>2, <2>3, DeleteKeeps
<1>5. /\ DOMAIN req' = RematchSlots /\ \A d \in RematchSlots \ {c} : req'[d] = req[d]
      /\ Asked(req'[c]) /\ req'[c] # Quiet
      /\ req'[c].op = req[c].op /\ req'[c].game = req[c].game /\ req'[c].step = "answered"
  BY <1>2, Moves
<1>6. ASSUME NEW h \in Games PROVE rlock'[h] # c
  <2>1. CASE h = g
    BY <1>1, <1>2, <2>1, RematchAssumption DEF Free
  <2>2. CASE h # g
    <3>1. rlock[h] = c => Held(h)
      BY RematchAssumption DEF Held, Free
    <3>2. rlock[h] = c => Deal(c, h)
      BY <3>1 DEF RematchInv, LocksDeal
    <3> QED BY <1>1, <1>2, <2>2, <3>2 DEF Deal
  <2> QED BY <2>1, <2>2
<1>7. Frame(c)
  <2>1. NoneWhileDown' /\ DOMAIN rlock' = Games /\ DOMAIN agreed' = Games /\ DOMAIN spent' = Games
    BY <1>1, <1>2 DEF NoneWhileDown
  <2>2. ASSUME NEW h \in Games
        PROVE  rlock'[h] = rlock[h] \/ rlock'[h] \in {c, Free}
    BY <1>1, <1>2
  <2>3. ASSUME NEW h \in Games, NEW d \in RematchSlots \ {c}, rlock[h] = d
        PROVE  /\ rlock'[h] = d
               /\ h \notin overtaken' => session'[h] = session[h] /\ spent'[h] \cap game[h].players \subseteq spent[h]
    <3>1. rlock'[h] = d
      BY <1>1, <1>2, <2>3
    <3>2. h \notin overtaken' => h # g
      BY <1>3, <2>3
    <3>3. h # g => session'[h] = session[h] /\ spent'[h] = spent[h]
      BY <1>1, <1>2 DEF DeletesSession
    <3> QED BY <3>1, <3>2, <3>3
  <2> QED BY <1>4, <1>5, <2>1, <2>2, <2>3 DEF Frame
<1>8. Own(c)
  <2>1. req'[c].op = "initiate" => req'[c].game \in Dealt'
    BY <1>5 DEF RematchInv, SessionShapes, GamesStay
  <2>2. Going(c)'
    BY <1>5 DEF Going
  <2> QED BY <1>5, <1>6, <2>1, <2>2 DEF Own
<1> QED BY <1>4, <1>7, <1>8, RequestSteps

(* A session is created for a game that had none. *)
LEMMA CreateStep ==
  ASSUME RematchInv, GamesStay, NEW c \in RematchSlots, req[c] # Quiet, req[c].step = "create", up, up' = up,
         NEW g \in Games, g = req[c].game, g \in Dealt, ~Live(g), NEW u \in Users, u = req[c].user,
         session' = [session EXCEPT ![g] = Accepted({u}, FALSE)], Agrees(g, u), stray' = stray \ {g},
         timer' = timer \cup {g}, Answers(c, "session"), rlock' = rlock, UNCHANGED overtaken
  PROVE  RematchInv'
<1>1. /\ DOMAIN session = Games /\ DOMAIN rlock = Games /\ DOMAIN agreed = Games /\ DOMAIN spent = Games
  BY DEF RematchInv, SessionShapes
<1>2. "session" \in Replies
  BY DEF Steps, Replies
<1>3. /\ DOMAIN req' = RematchSlots /\ \A d \in RematchSlots \ {c} : req'[d] = req[d]
      /\ Asked(req'[c]) /\ req'[c] # Quiet
      /\ req'[c].op = req[c].op /\ req'[c].game = req[c].game /\ req'[c].step = "answered"
  BY <1>2, Moves
<1>4. /\ session'[g] = [accepted |-> {u}, outlives |-> FALSE]
      /\ agreed' = [agreed EXCEPT ![g] = @ \cup {u}] /\ spent' = [spent EXCEPT ![g] = @ \ {u}]
  BY <1>1 DEF Accepted, Agrees
<1>5. ASSUME NEW h \in Games PROVE Sound(h)'
  <2>1. CASE h # g
    <3>1. session'[h] = session[h] /\ agreed'[h] = agreed[h] /\ spent'[h] = spent[h] /\ Sound(h)
          /\ (h \in timer \cup stray => h \in timer' \cup stray')
      BY <1>1, <1>4, <2>1 DEF RematchInv, SessionsSound
    <3> QED BY <3>1, SoundKept
  <2>2. CASE h = g
    <3>1. session'[g] \in Session /\ session'[g].accepted = {u}
      <4>1. {u} \in SUBSET Users /\ FALSE \in BOOLEAN
        OBVIOUS
      <4>2. PICK users \in SUBSET Users : users = {u}
        BY <4>1
      <4>3. PICK fresh : fresh = [accepted |-> users, outlives |-> FALSE]
        OBVIOUS
      <4>4. fresh \in Session /\ fresh.accepted = users
        BY <4>3 DEF Session
      <4>5. session'[g] = fresh
        BY <1>4, <4>2, <4>3
      <4> QED BY <4>2, <4>4, <4>5
    <3>2. u \in agreed'[g] /\ u \notin spent'[g] /\ g \in timer' /\ g \in Dealt'
      BY <1>1, <1>4 DEF GamesStay
    <3>3. session'[g].accepted \subseteq agreed'[g] /\ session'[g].accepted \cap spent'[g] = {}
      BY <3>1, <3>2
    <3> QED BY <2>2, <3>1, <3>2, <3>3 DEF Sound
  <2> QED BY <2>1, <2>2
<1>6. SessionsSound'
  BY <1>5 DEF SessionsSound
<1>7. \A h \in Games : rlock'[h] # c
  BY HoldsNone
<1>8. Frame(c)
  <2>1. NoneWhileDown' /\ DOMAIN session' = Games /\ DOMAIN agreed' = Games /\ DOMAIN spent' = Games
    BY <1>1, <1>4 DEF NoneWhileDown
  <2>2. \A h \in Games : agreed[h] \subseteq agreed'[h]
    BY <1>1, <1>4
  <2>3. ASSUME NEW h \in Games, NEW d \in RematchSlots \ {c}, rlock[h] = d, h \notin overtaken'
        PROVE  session'[h] = session[h] /\ spent'[h] \cap game[h].players \subseteq spent[h]
    <3>1. Held(h)
      BY <2>3, RematchAssumption DEF Held, Free
    <3>2. Deal(d, h)
      BY <2>3, <3>1 DEF RematchInv, LocksDeal
    <3>3. Live(h)
      BY <2>3, <3>2 DEF Deal, RematchInv, RequestsGo, Going
    <3> QED BY <1>1, <1>4, <3>3
  <2> QED BY <1>1, <1>3, <2>1, <2>2, <2>3 DEF Frame
<1>9. Own(c)
  <2>1. req'[c].op = "initiate" => req'[c].game \in Dealt'
    BY <1>3 DEF GamesStay
  <2>2. Going(c)'
    BY <1>3 DEF Going
  <2> QED BY <1>3, <1>7, <2>1, <2>2 DEF Own
<1> QED BY <1>6, <1>8, <1>9, RequestSteps

(* A cancel, the timer or the TTL ends a session. *)
LEMMA EndStep ==
  ASSUME RematchInv, GamesStay, NEW c, NEW g \in Games, Live(g),
         \/ DeletesSession(g) /\ timer' = timer \ {g}
         \/ session' = [session EXCEPT ![g] = NoSession] /\ UNCHANGED <<timer, stray>>,
         EndsUnderDeal(g), UNCHANGED <<rlock, agreed, spent, up>>, up \/ req' = req,
         \/ c = Free /\ req' = req
         \/ c \in RematchSlots /\ req[c] # Quiet /\ req[c].step # "deal" /\ Answers(c, "done")
  PROVE  RematchInv'
<1>1. /\ DOMAIN session = Games /\ DOMAIN rlock = Games /\ DOMAIN agreed = Games /\ DOMAIN spent = Games
      /\ DOMAIN req = RematchSlots
  BY DEF RematchInv, SessionShapes
<1>2. /\ overtaken \subseteq overtaken'
      /\ \A h \in Games : Held(h) /\ h \notin overtaken' => session'[h] = session[h]
  BY MarkKeeps
<1>3. DOMAIN session' = Games /\ SessionsSound'
  <2>1. CASE DeletesSession(g) /\ timer' = timer \ {g}
    BY <1>2, <2>1, DeleteKeeps
  <2>2. CASE session' = [session EXCEPT ![g] = NoSession] /\ UNCHANGED <<timer, stray>>
    <3>1. ASSUME NEW h \in Games PROVE Sound(h)'
      <4>1. CASE h = g
        BY <1>1, <2>2, <4>1 DEF Sound, Live
      <4>2. CASE h # g
        <5>1. session'[h] = session[h] /\ Sound(h)
          BY <1>1, <2>2, <4>2 DEF RematchInv, SessionsSound
        <5> QED BY <1>2, <2>2, <5>1, SoundKept
      <4> QED BY <4>1, <4>2
    <3> QED BY <1>1, <2>2, <3>1 DEF SessionsSound
  <2> QED BY <2>1, <2>2
<1>4. DOMAIN req' = RematchSlots /\ \A d \in RematchSlots \ {c} : req'[d] = req[d]
  <2>1. "done" \in Replies
    BY DEF Steps, Replies
  <2> QED BY <1>1, <2>1, Moves
<1>5. \A h \in Games : rlock[h] # Free => Held(h)
  BY DEF Held
<1>6. Frame(c)
  <2>1. NoneWhileDown'
    BY DEF NoneWhileDown, RematchInv, Quiet
  <2>2. ASSUME NEW h \in Games, NEW d \in RematchSlots \ {c}, rlock[h] = d, h \notin overtaken'
        PROVE  session'[h] = session[h]
    BY <1>2, <1>5, <2>2, RematchAssumption DEF Free
  <2> QED BY <1>1, <1>2, <1>3, <1>4, <2>1, <2>2 DEF Frame
<1>7. CASE c = Free /\ req' = req
  <2>1. c \notin RematchSlots
    BY <1>7, RematchAssumption DEF Free
  <2> QED BY <1>3, <1>6, <1>7, <2>1, RequestSteps
<1>8. CASE c \in RematchSlots /\ req[c] # Quiet /\ req[c].step # "deal" /\ Answers(c, "done")
  <2>1. "done" \in Replies
    BY DEF Steps, Replies
  <2>2. /\ Asked(req'[c]) /\ req'[c].op = req[c].op /\ req'[c].game = req[c].game /\ req'[c].step = "answered"
    BY <1>8, <2>1, Moves
  <2>3. req'[c].op = "initiate" => req'[c].game \in Dealt'
    BY <1>8, <2>2 DEF RematchInv, SessionShapes, GamesStay
  <2>4. Going(c)'
    BY <2>2 DEF Going
  <2>5. \A h \in Games : rlock'[h] # c
    BY <1>8, HoldsNone
  <2>6. Own(c)
    BY <2>2, <2>3, <2>4, <2>5 DEF Own
  <2> QED BY <1>3, <1>6, <1>8, <2>6, RequestSteps
<1> QED BY <1>7, <1>8

(* Only the session is asked whether it is there. *)
LEMMA TimerEnds ==
  ASSUME RematchInv, GamesStay, NEW g, ~Live(g), timer' = timer \ {g},
         UNCHANGED <<session, rlock, req, agreed, spent, overtaken, stray, up>>
  PROVE  RematchInv'
<1>1. Frame(Free)
  BY DEF Frame, RematchInv, SessionShapes, NoneWhileDown, Quiet
<1>2. ASSUME NEW h \in Games PROVE Sound(h)'
  <2>1. CASE h = g
    BY <2>1 DEF Sound, Live, NoSession
  <2>2. CASE h # g
    BY <2>2, SoundKept DEF RematchInv, SessionsSound
  <2> QED BY <2>1, <2>2
<1>3. SessionsSound'
  BY <1>2 DEF SessionsSound
<1>4. Free \notin RematchSlots
  BY RematchAssumption DEF Free
<1> QED BY <1>1, <1>3, <1>4, RequestSteps

LEMMA RematchStep ==
  ASSUME GamesDrawn, RematchInv, SeatingTypeOK, RematchType, RematchNext
  PROVE  RematchInv'
<1>0. up' = up /\ GamesStay
  BY RematchDeals, DealKeeps
<1>1. ASSUME NEW c \in RematchSlots, NEW u \in Users, Press(c, u)
      PROVE  RematchInv'
  <2>1. PICK op \in {"initiate", "accept", "cancel"}, g \in Games, step \in Steps :
          /\ req' = [req EXCEPT ![c] = [op |-> op, user |-> u, game |-> g, answer |-> "", saw |-> {}, step |-> step]]
          /\ step \in {"lock", "read"} /\ (op = "initiate" => g \in Dealt)
    <3>1. CASE \E g \in Dealt : req' = [req EXCEPT ![c] = [op |-> "initiate", user |-> u, game |-> g, answer |-> "",
                                          saw |-> {}, step |-> IF "initiate" = "cancel" THEN "lock" ELSE "read"]]
      <4>1. PICK g \in Dealt : req' = [req EXCEPT ![c] = [op |-> "initiate", user |-> u, game |-> g, answer |-> "",
                                                            saw |-> {}, step |-> "read"]]
        BY <3>1
      <4>2. g \in Games /\ "initiate" \in {"initiate", "accept", "cancel"} /\ "read" \in Steps
        BY DEF SeatingTypeOK, Steps
      <4> QED BY <4>1, <4>2
    <3>2. CASE /\ modal[u] # NoGame
               /\ \E op \in {"accept", "cancel"} :
                    req' = [req EXCEPT ![c] = [op |-> op, user |-> u, game |-> modal[u], answer |-> "",
                                          saw |-> {}, step |-> IF op = "cancel" THEN "lock" ELSE "read"]]
      <4>1. modal[u] \in Games
        BY <3>2 DEF RematchType
      <4>2. PICK op \in {"accept", "cancel"} :
              req' = [req EXCEPT ![c] = [op |-> op, user |-> u, game |-> modal[u], answer |-> "",
                                         saw |-> {}, step |-> IF op = "cancel" THEN "lock" ELSE "read"]]
        BY <3>2
      <4>3. PICK step \in {"lock", "read"} : step = IF op = "cancel" THEN "lock" ELSE "read"
        OBVIOUS
      <4>4. step \in Steps /\ op \in {"initiate", "accept", "cancel"} /\ op # "initiate"
        BY DEF Steps
      <4>5. req' = [req EXCEPT ![c] = [op |-> op, user |-> u, game |-> modal[u], answer |-> "",
                                       saw |-> {}, step |-> step]]
        BY <4>2, <4>3
      <4> QED BY <4>1, <4>4, <4>5
    <3> QED BY <1>1, <3>1, <3>2 DEF Press
  <2>2. PICK r : r = [op |-> op, user |-> u, game |-> g, answer |-> "", saw |-> {}, step |-> step]
    OBVIOUS
  <2>3. r \in Request /\ r.op = op /\ r.game = g /\ r.step = step
    BY <2>2 DEF Request, Steps, Replies
  <2>4. req'[c] = r /\ DOMAIN req' = RematchSlots /\ \A d \in RematchSlots \ {c} : req'[d] = req[d]
    BY <2>1, <2>2 DEF RematchInv, SessionShapes
  <2>5. Going(c)'
    BY <2>1, <2>3, <2>4 DEF Going
  <2>6. req'[c].op = "initiate" => req'[c].game \in Dealt'
    BY <1>0, <2>1, <2>3, <2>4 DEF GamesStay
  <2>7. Asked(req'[c])
    BY <2>3, <2>4 DEF Asked
  <2>8. req[c] = Quiet /\ up /\ UNCHANGED <<session, rlock, timer, agreed, spent, overtaken, stray, up>>
    BY <1>0, <1>1 DEF Press, historyVars
  <2> QED BY <1>0, <2>4, <2>5, <2>6, <2>7, <2>8, RequestAlone
<1>2. ASSUME NEW c \in RematchSlots, req[c] # Quiet, up, req[c].step # "deal",
             UNCHANGED <<session, rlock, timer, agreed, spent, overtaken, stray>>,
             (\E step \in Steps : step \notin {"deal", "write"} /\ Step(c, step)) \/ (\E answer \in Replies : Answers(c, answer))
      PROVE  RematchInv'
  <2>1. /\ DOMAIN req' = RematchSlots /\ \A d \in RematchSlots \ {c} : req'[d] = req[d]
        /\ Asked(req'[c]) /\ req'[c] # Quiet
        /\ req'[c].op = req[c].op /\ req'[c].game = req[c].game /\ req'[c].step \notin {"deal", "write"}
    BY <1>2, Moves
  <2>2. Going(c)'
    BY <2>1 DEF Going
  <2>3. req'[c].op = "initiate" => req'[c].game \in Dealt'
    BY <1>0, <1>2, <2>1 DEF RematchInv, SessionShapes, GamesStay
  <2> QED BY <1>0, <1>2, <2>1, <2>2, <2>3, RequestAlone
<1>3. ASSUME NEW c \in RematchSlots, InitiateOrAccept(c)
      PROVE  RematchInv'
  <2>0. PICK g : g = req[c].game
    OBVIOUS
  <2>1. req[c] # Quiet /\ up /\ req[c].step # "deal" /\ UNCHANGED <<rlock, overtaken>>
    BY <1>3 DEF InitiateOrAccept
  <2>2. g \in Games /\ g \in Dealt /\ req[c].user \in Users
    BY <1>3, <2>0, <2>1, Moves DEF InitiateOrAccept, RematchInv, SessionShapes
  <2>3. CASE /\ UNCHANGED <<session, timer, agreed, spent, stray>>
             /\ \/ \E step \in {"lock", "create", "reread"} : Step(c, step)
                \/ Answers(c, "error")
    <3>1. "error" \in Replies /\ \A step \in {"lock", "create", "reread"} : step \in Steps /\ step \notin {"deal", "write"}
      BY DEF Steps, Replies
    <3> QED BY <1>2, <2>1, <2>3, <3>1
  <2>4. CASE /\ req[c].step = "create" /\ ~Live(g)
             /\ session' = [session EXCEPT ![g] = Accepted({req[c].user}, FALSE)]
             /\ Agrees(g, req[c].user) /\ stray' = stray \ {g} /\ timer' = timer \cup {g} /\ Answers(c, "session")
    BY <1>0, <2>0, <2>1, <2>2, <2>4, CreateStep
  <2> QED BY <1>3, <2>0, <2>3, <2>4 DEF InitiateOrAccept
<1>4. ASSUME NEW c \in RematchSlots, Accept(c)
      PROVE  RematchInv'
  <2>0. PICK g : g = req[c].game
    OBVIOUS
  <2>1. req[c] # Quiet /\ up /\ UNCHANGED overtaken /\ g \in Games /\ req[c].user \in Users
    BY <1>4, <2>0, Moves DEF Accept
  <2>2. CASE /\ UNCHANGED <<session, timer, rlock, agreed, spent, stray>> /\ req[c].step # "deal"
             /\ Step(c, "lock") \/ Answers(c, "error") \/ Answers(c, "session")
    <3>1. "error" \in Replies /\ "session" \in Replies /\ "lock" \in Steps
      BY DEF Steps, Replies
    <3> QED BY <1>2, <2>1, <2>2, <3>1
  <2>3. CASE /\ UNCHANGED <<session, timer, rlock, agreed, spent, stray>> /\ req[c].step = "lock"
             /\ ~Barred(c) /\ ~Counted(c) /\ Held(g) /\ Reads(c, session[g].accepted)
    <3>1. /\ session[g] \in Session /\ session[g].accepted \subseteq agreed[g] /\ g \in Dealt
          /\ req[c].user \in game[g].players \ session[g].accepted
      BY <2>0, <2>1, <2>3 DEF Barred, Counted, RematchInv, SessionsSound, Sound
    <3>2. session[g].accepted \in SUBSET Users
      BY <3>1 DEF Session
    <3>3. PICK d \in RematchSlots : rlock[g] = d /\ Deal(d, g)
      BY <2>1, <2>3 DEF RematchInv, LocksDeal
    <3>4. g \in overtaken
      BY <3>1, <3>3 DEF Deal, RematchInv, RequestsGo, Going
    <3>5. /\ DOMAIN req' = RematchSlots /\ \A e \in RematchSlots \ {c} : req'[e] = req[e]
          /\ Asked(req'[c]) /\ req'[c].op = req[c].op /\ req'[c].game = g
          /\ req'[c].step = "write" /\ req'[c].saw = session[g].accepted
      BY <2>0, <2>1, <2>3, <3>2, Moves
    <3>6. Going(c)'
      BY <1>0, <2>1, <2>3, <3>1, <3>2, <3>4, <3>5 DEF Going, GamesStay
    <3>7. req'[c].op = "initiate" => req'[c].game \in Dealt'
      BY <1>0, <3>1, <3>5 DEF GamesStay
    <3> QED BY <1>0, <2>1, <2>3, <3>5, <3>6, <3>7, RequestAlone
  <2>4. CASE /\ UNCHANGED <<timer, stray, game>> /\ req[c].step = "lock"
             /\ ~Barred(c) /\ ~Counted(c) /\ ~Held(g) /\ Joins(c, session[g].accepted, TRUE)
    <3>1. /\ session[g] \in Session /\ session[g].accepted \subseteq agreed[g] /\ g \in Dealt /\ Live(g)
          /\ req[c].user \in game[g].players \ session[g].accepted
      BY <2>0, <2>1, <2>4 DEF Barred, Counted, RematchInv, SessionsSound, Sound
    <3>2. session[g].accepted \in SUBSET Users
      BY <3>1 DEF Session
    <3> QED BY <1>0, <2>0, <2>1, <2>4, <3>1, <3>2, JoinStep
  <2>5. CASE /\ req[c].step = "write" /\ Joins(c, req[c].saw, FALSE)
             /\ stray' = (IF Live(g) THEN stray ELSE stray \cup {g})
             /\ UNCHANGED <<timer, game>>
    <3>1. g \in overtaken /\ g \in Dealt /\ req[c].saw \in SUBSET Users /\ req[c].saw \subseteq agreed[g]
      BY <2>0, <2>1, <2>5 DEF RematchInv, RequestsGo, Going
    <3> QED BY <1>0, <2>0, <2>1, <2>5, <3>1, JoinStep
  <2>6. CASE /\ req[c].step = "deal" /\ agreed' = agreed
             /\ spent' = spent \/ spent' = [spent EXCEPT ![g] = @ \cup game[g].players]
             /\ DealEnds(c, "started", "session") \/ DealEnds(c, "cancelled", "error")
    <3>1. "error" \in Replies /\ "session" \in Replies
      BY DEF Steps, Replies
    <3> QED BY <1>0, <2>0, <2>1, <2>6, <3>1, DealStep
  <2> QED BY <1>4, <2>0, <2>2, <2>3, <2>4, <2>5, <2>6 DEF Accept
<1>5. ASSUME NEW c \in RematchSlots, Cancel(c)
      PROVE  RematchInv'
  <2>1. req[c] # Quiet /\ up /\ req[c].step # "deal" /\ Answers(c, "done") /\ req[c].game \in Games
        /\ UNCHANGED <<rlock, agreed, spent>>
    BY <1>5, Moves DEF Cancel
  <2>2. CASE Live(req[c].game)
    BY <1>0, <1>5, <2>1, <2>2, EndStep DEF Cancel
  <2>3. CASE ~Live(req[c].game)
    <3>1. UNCHANGED <<session, timer, overtaken, stray>> /\ "done" \in Replies
      BY <1>5, <2>3 DEF Cancel, Replies
    <3> QED BY <1>2, <2>1, <3>1
  <2> QED BY <2>2, <2>3
<1>6. ASSUME NEW c \in RematchSlots, Responds(c)
      PROVE  RematchInv'
  <2>1. req'[c] = Quiet /\ DOMAIN req' = RematchSlots /\ \A d \in RematchSlots \ {c} : req'[d] = req[d]
    BY <1>6 DEF Responds, RematchInv, SessionShapes
  <2>2. req[c].step # "deal" /\ UNCHANGED <<session, rlock, timer, agreed, spent, overtaken, stray>>
    BY <1>6 DEF Responds, historyVars
  <2> QED BY <1>0, <2>1, <2>2, RequestAlone
<1>7. ASSUME NEW g \in Games, TimerFires(g)
      PROVE  RematchInv'
  <2>1. CASE Live(g)
    BY <1>0, <1>7, <2>1, EndStep DEF TimerFires
  <2>2. CASE ~Live(g)
    BY <1>0, <1>7, <2>2, TimerEnds DEF TimerFires
  <2> QED BY <2>1, <2>2
<1>8. ASSUME NEW g \in Games, KeyExpires(g)
      PROVE  RematchInv'
  BY <1>0, <1>8, EndStep DEF KeyExpires
<1>9. ASSUME NEW u \in Users, Hears(u)
      PROVE  RematchInv'
  BY <1>0, <1>9, RematchKept DEF Hears, historyVars
<1> QED BY <1>1, <1>3, <1>4, <1>5, <1>6, <1>7, <1>8, <1>9 DEF RematchNext

-----------------------------------------------------------------------------
LEMMA MatchInit ==
  ASSUME Init
  PROVE  MatchInv
<1>1. Dealt = 1..1 /\ game[1] = [players |-> Users, over |-> TRUE] /\ 1 \in Nat
  BY DEF Init, Dealt
<1>2. GamesDrawn
  BY <1>1 DEF GamesDrawn
<1>3. LobbyInv
  BY DEF Init, LobbiesInit, LobbyInv, LobbyShapes, CallsHoldLocks, StartsReady, NobodyStale, Drawn, Idle
<1>4. RematchInv
  BY DEF Init, RematchInit, RematchInv, SessionShapes, SessionsSound, Sound, RequestsGo, LocksDeal,
         NoneWhileDown, Live, Held, Free, Quiet, NoSession
<1> QED BY <1>2, <1>3, <1>4 DEF MatchInv

(* Where no call of a lobby moves, its invariant holds on. *)
LEMMA LobbyKept ==
  ASSUME LobbyInv, UNCHANGED lobbyVars
  PROVE  LobbyInv'
BY DEF LobbyInv, lobbyVars, LobbyShapes, CallsHoldLocks, StartsReady, NobodyStale, Drawn, Players, Idle

LEMMA MatchStep ==
  ASSUME MatchInv, SeatingTypeOK, RematchType, [Next]_vars
  PROVE  MatchInv'
<1> USE DEF MatchInv
<1>1. CASE LobbiesNext /\ UNCHANGED rematchVars
  <2>1. up' = up /\ GamesStay
    BY <1>1, LobbiesDeal, DealKeeps
  <2> QED BY <1>1, <2>1, LobbyStep, RematchKept DEF GamesStay, rematchVars, historyVars
<1>2. CASE RematchNext /\ UNCHANGED lobbyVars
  <2>1. GamesStay
    BY <1>2, RematchDeals, DealKeeps
  <2> QED BY <1>2, <2>1, LobbyKept, RematchStep DEF GamesStay
<1>3. CASE GameOver
  <2>1. PICK g \in Games : GameEnds(g) /\ UNCHANGED <<lobbyVars, rematchVars>>
    BY <1>3 DEF GameOver
  <2>2. GamesStay /\ up' = up
    BY <2>1, GameEndsKeeps DEF GamesStay, GameEnds
  <2> QED BY <2>1, <2>2, LobbyKept, RematchKept DEF GamesStay, rematchVars, historyVars
<1>4. CASE Crash
  <2>1. GamesStay /\ up' = FALSE
    BY <1>4, DealKeeps DEF Crash
  <2>2. LobbyInv'
    BY <1>4 DEF Crash, LobbiesCrash, LobbyInv, LobbyShapes, CallsHoldLocks, StartsReady, NobodyStale, Drawn, Idle
  <2>3. SessionShapes' /\ RequestsGo' /\ LocksDeal' /\ NoneWhileDown'
    BY <1>4, <2>1 DEF Crash, RematchCrash, RematchInv, SessionShapes, RequestsGo, LocksDeal, NoneWhileDown,
                      Held, Free, Quiet, historyVars
  <2>4. SessionsSound'
    <3> SUFFICES ASSUME NEW g \in Games PROVE Sound(g)'
      BY DEF SessionsSound
    <3>1. Sound(g) /\ UNCHANGED <<session, historyVars>> /\ ~up'
      BY <1>4 DEF Crash, RematchCrash, RematchInv, SessionsSound
    <3> QED BY <2>1, <3>1 DEF Sound, Live, NoSession, GamesStay, historyVars
  <2> QED BY <2>1, <2>2, <2>3, <2>4 DEF GamesStay, RematchInv
<1>5. CASE Restart
  <2>1. GamesStay /\ LobbyInv'
    BY <1>5, DealKeeps, LobbyKept DEF Restart
  <2>2. \A c \in RematchSlots : req[c] = Quiet /\ req'[c] = Quiet
    BY <1>5 DEF Restart, ResumeTimers, RematchInv, NoneWhileDown
  <2>3. SessionShapes' /\ RequestsGo' /\ NoneWhileDown'
    BY <1>5, <2>2 DEF Restart, ResumeTimers, RematchInv, SessionShapes, RequestsGo, NoneWhileDown, Quiet
  <2>4. LocksDeal'
    BY <1>5, <2>2 DEF Restart, ResumeTimers, RematchInv, LocksDeal, Deal, Held, Free
  <2>5. ASSUME NEW g \in Games
        PROVE  Sound(g)'
    <3>1. session'[g] = IF Live(g) THEN [session[g] EXCEPT !.outlives = TRUE] ELSE NoSession
      BY <1>5 DEF Restart, ResumeTimers
    <3>2. CASE ~Live(g)
      BY <3>1, <3>2 DEF Sound, Live
    <3>3. CASE Live(g)
      <4>1. Sound(g) /\ session[g] \in Session
        BY <3>3 DEF RematchInv, SessionsSound, Sound
      <4>2. session'[g] \in Session /\ session'[g].accepted = session[g].accepted
        BY <3>1, <3>3, <4>1 DEF Session
      <4>3. g \in timer' /\ agreed' = agreed /\ spent' = spent /\ overtaken' = overtaken
        BY <1>5, <3>3 DEF Restart, ResumeTimers
      <4> QED BY <2>1, <3>3, <4>1, <4>2, <4>3 DEF Sound, GamesStay
    <3> QED BY <3>2, <3>3
  <2>6. SessionsSound'
    BY <2>5 DEF SessionsSound
  <2> QED BY <2>1, <2>3, <2>4, <2>6 DEF GamesStay, RematchInv
<1>6. CASE UNCHANGED vars
  <2>1. GamesStay
    BY <1>6, DealKeeps DEF vars, seatingVars
  <2> QED BY <1>6, <2>1, LobbyKept, RematchKept DEF GamesStay, vars, rematchVars, historyVars, seatingVars
<1> QED BY <1>1, <1>2, <1>3, <1>4, <1>5, <1>6 DEF Next

-----------------------------------------------------------------------------
(* A lobby as it is stored: somebody sits in it, there is room for all who do,  *)
(* and its settings are settings.                                               *)
Table(rec) ==
  /\ rec = [settings |-> rec.settings, ready |-> rec.ready]
  /\ DOMAIN rec.ready \in (SUBSET Users) \ {{}}
  /\ IsFiniteSet(DOMAIN rec.ready)
  /\ rec.ready \in [DOMAIN rec.ready -> BOOLEAN]
  /\ \A k \in DOMAIN SettingValues : rec.settings[k] \in SettingValues[k]
  /\ Cardinality(DOMAIN rec.ready) <= rec.settings.maxPlayers

LobbyType ==
  /\ \A l \in Drawn : Alive(l) => Table(lobby[l])
  /\ member \in [Users -> Drawn \cup {NoLobby}]
  /\ age \in [Keys -> 0..1]
  /\ index \subseteq Drawn
  /\ lock \in [Lobbies -> Slots \cup {Nobody}]
  /\ rooms \in [Lobbies -> SUBSET Users]
  /\ informed \in [Lobbies -> SUBSET Users]
  /\ crashes \in Nat

(* What a call has read of its lobby still holds when it writes. *)
Fits(r) ==
  /\ r \in Call
  /\ r.op = "create" => r.step = "write" /\ mergeAndValidateSettings(DefaultSettings, r.arg) # Refused
  /\ r.op # "create" => r.lobby \in Lobbies
  /\ r.op = "join" => /\ r.step = "write" /\ Alive(r.lobby)
                      /\ Cardinality(Players(r.lobby)) < lobby[r.lobby].settings.maxPlayers
  /\ r.op = "start" => Alive(r.lobby)
  /\ r.step = "clear" => r.op \in {"leave", "leaveCurrent"}

CallsFit == \A c \in Slots : call[c] # Idle => Fits(call[c])

(* Who has a lock is between two writes to the lobby. *)
HeldBy(l, r) == r # Idle /\ Holds(r) /\ r.lobby = l

LocksHeld == \A l \in Lobbies : lock[l] # Nobody => HeldBy(l, call[lock[l]])

(* A leave has taken a seat of l, and the pointer and the broadcast are to come. *)
Clearing(l) == lock[l] # Nobody /\ call[lock[l]].step = "clear"

Told(l) == rooms[l] \subseteq informed[l] \/ Clearing(l)

Pointed(l) ==
  crashes = 0 =>
    \A u \in Users : member[u] = l /\ Alive(l) =>
      Seated(u, l) \/ (Clearing(l) /\ call[lock[l]].user = u)

ServedInv ==
  LobbyType /\ CallsFit /\ LocksHeld /\ \A l \in Lobbies : Told(l) /\ Pointed(l)

-----------------------------------------------------------------------------
(* What merging gives back, when it gives settings back. *)
LEMMA Merged ==
  ASSUME NEW base, NEW patch, NEW s, s = mergeAndValidateSettings(base, patch), s # Refused
  PROVE  \A k \in DOMAIN SettingValues : s[k] \in SettingValues[k]
BY DEF mergeAndValidateSettings, Refused

(* A table in its fields. *)
LEMMA TableMade ==
  ASSUME NEW s, NEW S \in SUBSET Users, S # {}, IsFiniteSet(S), NEW f \in [S -> BOOLEAN],
         \A k \in DOMAIN SettingValues : s[k] \in SettingValues[k], Cardinality(S) <= s.maxPlayers
  PROVE  Table([settings |-> s, ready |-> f])
<1> DEFINE r == [settings |-> s, ready |-> f]
<1>1. r.settings = s /\ r.ready = f /\ r = [settings |-> r.settings, ready |-> r.ready] /\ DOMAIN f = S
  OBVIOUS
<1>2. DOMAIN r.ready = S /\ r.ready \in [S -> BOOLEAN]
  BY <1>1
<1>3. \A k \in DOMAIN SettingValues : r.settings[k] \in SettingValues[k]
  BY <1>1
<1>4. Cardinality(DOMAIN r.ready) <= r.settings.maxPlayers
  BY <1>1, <1>2
<1> HIDE DEF r
<1>5. Table(r)
  BY <1>1, <1>2, <1>3, <1>4 DEF Table
<1> QED BY <1>5 DEF r

(* A call that does not hold the lobby any more, or never did, is idle or reads. *)
LEMMA FitsStep ==
  ASSUME LobbyInv, CallsFit, NEW c, OthersKeep(c),
         c \in Slots => \A r : call'[c] = r /\ r # Idle => Fits(r)'
  PROVE  CallsFit'
<1> SUFFICES ASSUME NEW d \in Slots, NEW r, call'[d] = r, r # Idle
             PROVE  Fits(r)'
  BY DEF CallsFit, Idle
<1>1. CASE d = c
  BY <1>1
<1>2. CASE d # c
  <2>1. call[d] = r /\ Fits(r)
    BY <1>2 DEF OthersKeep, CallsFit
  <2>2. CASE r.op \in {"join", "start"}
    <3> DEFINE l == r.lobby
    <3>1. l \in Lobbies /\ Alive(l) /\ lock[l] = d
      BY <2>1, <2>2 DEF Fits, LobbyInv, CallsHoldLocks, Holds
    <3>2. l \in Drawn' /\ lobby'[l] = lobby[l]
      BY <1>2, <3>1, LobbiesAssumption DEF OthersKeep, Alive
    <3> QED BY <2>1, <2>2, <3>1, <3>2 DEF Fits, Alive, Players, Gone
  <2>3. CASE r.op \notin {"join", "start"}
    BY <2>1, <2>3 DEF Fits
  <2> QED BY <2>2, <2>3
<1> QED BY <1>1, <1>2

LEMMA LocksStep ==
  ASSUME LobbyType, LocksHeld, NEW c, OthersKeep(c),
         \A l \in Lobbies : lock'[l] \in {lock[l], Nobody, c},
         c # Nobody => \A l \in Lobbies : lock'[l] = c => HeldBy(l, call'[c])
  PROVE  LocksHeld'
<1> SUFFICES ASSUME NEW l \in Lobbies, lock'[l] # Nobody
             PROVE  HeldBy(l, call'[lock'[l]])
  BY DEF LocksHeld, HeldBy, Holds, Idle
<1>1. CASE lock'[l] = c
  BY <1>1
<1>2. CASE lock'[l] # c
  BY <1>2 DEF LocksHeld, OthersKeep, LobbyType
<1> QED BY <1>1, <1>2

(* The step of c leaves lobby l aside. *)
Spared(l, c) == lock'[l] = lock[l] /\ (lock[l] = Nobody \/ lock[l] # c)

LEMMA SparedClearing ==
  ASSUME LobbyType, NEW c, OthersKeep(c), NEW l \in Lobbies, Spared(l, c)
  PROVE  Clearing(l)' <=> Clearing(l)
BY DEF LobbyType, OthersKeep, Spared, Clearing

LEMMA SparedTold ==
  ASSUME LobbyType, NEW c, OthersKeep(c), NEW l \in Lobbies, Spared(l, c),
         Told(l), rooms'[l] = rooms[l], informed'[l] = informed[l]
  PROVE  Told(l)'
BY SparedClearing DEF Told

LEMMA SparedPointed ==
  ASSUME LobbyType, NEW c, OthersKeep(c), NEW l \in Lobbies, Spared(l, c),
         Pointed(l), crashes' = crashes,
         \A u \in Users : member'[u] = l => member[u] = l,
         Alive(l)' => Alive(l) /\ Players(l)' = Players(l)
  PROVE  Pointed(l)'
<1> SUFFICES ASSUME crashes = 0, NEW u \in Users, member[u] = l, Alive(l), Alive(l)'
             PROVE  Seated(u, l)' \/ (Clearing(l)' /\ call'[lock'[l]].user = u)
  BY DEF Pointed
<1>1. CASE Seated(u, l)
  BY <1>1 DEF Seated
<1>2. CASE Clearing(l) /\ call[lock[l]].user = u
  BY <1>2, SparedClearing DEF Clearing, Spared, LobbyType, OthersKeep
<1> QED BY <1>1, <1>2 DEF Pointed

(* The lobby a call is about is the only one it can have locked. *)
LEMMA OneLock ==
  ASSUME LocksHeld, NEW c, c # Nobody, NEW l \in Lobbies, lock[l] = c
  PROVE  call[c] # Idle /\ Holds(call[c]) /\ call[c].lobby = l
BY DEF LocksHeld, HeldBy

LEMMA EndsSpares ==
  ASSUME LocksHeld, NEW c \in Slots, Ends(c), NEW l \in Lobbies,
         ~Holds(call[c]) \/ call[c].lobby # l
  PROVE  Spared(l, c)
BY OneLock, LobbiesAssumption DEF Ends, Spared

LEMMA EndsLocks ==
  ASSUME LobbyType, LocksHeld, NEW c \in Slots, Ends(c), OthersKeep(c)
  PROVE  LocksHeld' /\ lock' \in [Lobbies -> Slots \cup {Nobody}]
<1>1. \A l \in Lobbies : lock'[l] \in {lock[l], Nobody} /\ lock'[l] # c
  BY LobbiesAssumption DEF Ends
<1>2. lock' \in [Lobbies -> Slots \cup {Nobody}]
  BY DEF Ends, LobbyType
<1> QED BY <1>1, <1>2, LocksStep

-----------------------------------------------------------------------------
(* Steps that leave all lobbies and pointers alone. *)
LobbiesAside == UNCHANGED <<lobby, member, age, index, rooms, informed, crashes>>

LEMMA AsideType ==
  ASSUME LobbyType, LobbiesAside, lock' \in [Lobbies -> Slots \cup {Nobody}]
  PROVE  LobbyType'
BY DEF LobbyType, LobbiesAside, Drawn, Alive, Gone, Table

(* A lobby nobody had locked, before or after a call takes it. *)
LEMMA FreeTold ==
  ASSUME NEW l \in Lobbies, lock[l] = Nobody, Told(l), rooms[l] = rooms'[l], informed[l] = informed'[l]
  PROVE  Told(l)'
BY DEF Told, Clearing

LEMMA FreePointed ==
  ASSUME NEW l \in Lobbies, lock[l] = Nobody, Pointed(l), crashes' = crashes,
         \A u \in Users : member'[u] = l => member[u] = l,
         Alive(l)' => Alive(l) /\ Players(l)' = Players(l)
  PROVE  Pointed(l)'
BY DEF Pointed, Clearing, Seated

(* A call begins. *)
LEMMA ServedBegins ==
  ASSUME LobbyInv, ServedInv, NEW c \in Slots, NEW op, NEW u \in Users, NEW l, NEW arg, NEW step,
         Starts(c, op, u, l, arg, step), LobbiesAside,
         OthersKeep(c),
         \/ op \in {"create", "leaveCurrent"} /\ step # "clear" /\ lock' = lock
         \/ Locks(c, l) /\ l \in Lobbies /\ op \in {"join", "start"},
         Fits([op |-> op, user |-> u, lobby |-> l, arg |-> arg, step |-> step])
  PROVE  ServedInv'
<1> DEFINE r == [op |-> op, user |-> u, lobby |-> l, arg |-> arg, step |-> step]
<1>1. call[c] = Idle /\ call'[c] = r
  BY DEF Starts, LobbyInv, LobbyShapes
<1>2. r.op = op /\ r.step = step /\ r.lobby = l /\ Fits(r)
  OBVIOUS
<1> HIDE DEF r
<1>3. r # Idle
  BY <1>2, LobbiesAssumption DEF Fits, Idle
<1>4. CallsFit'
  <2>1. Fits(r)'
    BY <1>2 DEF Fits, LobbiesAside, Alive, Players, Drawn, Gone
  <2> QED BY <1>1, <2>1, FitsStep DEF ServedInv
<1>5. \A k \in Lobbies : lock[k] # c
  BY <1>1, OneLock, LobbiesAssumption DEF ServedInv
<1>6. /\ lock' \in [Lobbies -> Slots \cup {Nobody}]
      /\ \A k \in Lobbies : Spared(k, c) \/ (lock[k] = Nobody /\ lock'[k] = c /\ l = k /\ op \in {"join", "start"})
  BY <1>5 DEF ServedInv, LobbyType, Locks, Spared
<1>7. LobbyType'
  BY <1>6, AsideType DEF ServedInv
<1>8. LocksHeld'
  <2>1. \A k \in Lobbies : lock'[k] = c => HeldBy(k, call'[c])
    BY <1>1, <1>2, <1>3, <1>5, <1>6 DEF HeldBy, Holds, Spared
  <2>2. \A k \in Lobbies : lock'[k] \in {lock[k], Nobody, c}
    BY <1>6 DEF Spared
  <2> QED BY <2>1, <2>2, LocksStep DEF ServedInv
<1>9. ASSUME NEW k \in Lobbies PROVE Told(k)' /\ Pointed(k)'
  <2>1. /\ rooms'[k] = rooms[k] /\ informed'[k] = informed[k] /\ crashes' = crashes
        /\ \A v \in Users : member'[v] = k => member[v] = k
        /\ Alive(k)' => Alive(k) /\ Players(k)' = Players(k)
    BY DEF LobbiesAside, Alive, Players, Drawn, Gone
  <2> QED BY <1>6, <2>1, SparedTold, SparedPointed, FreeTold, FreePointed DEF ServedInv
<1> QED BY <1>4, <1>7, <1>8, <1>9 DEF ServedInv

(* The operations that begin a call. *)
LEMMA ServedReads ==
  ASSUME LobbyInv, ServedInv, NEW c \in Slots, NEW u \in Users, OthersKeep(c),
         \/ CreateReads(c, u)
         \/ LeaveCurrent(c, u)
         \/ \E l \in Drawn : (JoinReads(c, u, l) /\ Locks(c, l)) \/ StartReads(c, u, l)
  PROVE  ServedInv'
<1>1. CASE CreateReads(c, u)
  <2>1. PICK p \in Patches : /\ mergeAndValidateSettings(DefaultSettings, p) # Refused
                             /\ Starts(c, "create", u, NoLobby, p, "write")
    BY <1>1 DEF CreateReads
  <2>2. Fits([op |-> "create", user |-> u, lobby |-> NoLobby, arg |-> p, step |-> "write"])
    BY <2>1 DEF Fits, Call
  <2>3. LobbiesAside /\ lock' = lock
    BY <1>1 DEF CreateReads, LobbiesAside
  <2> QED BY <2>1, <2>2, <2>3, ServedBegins
<1>2. CASE LeaveCurrent(c, u)
  <2>1. member[u] \in Lobbies
    BY <1>2 DEF LeaveCurrent, ServedInv, LobbyType, LobbyInv, LobbyShapes
  <2>2. Fits([op |-> "leaveCurrent", user |-> u, lobby |-> member[u], arg |-> Null, step |-> "wait"])
    BY <2>1 DEF Fits, Call
  <2>3. LobbiesAside /\ lock' = lock
    BY <1>2 DEF LeaveCurrent, LobbiesAside
  <2> QED BY <1>2, <2>2, <2>3, ServedBegins DEF LeaveCurrent
<1>3. ASSUME NEW l \in Drawn, JoinReads(c, u, l), Locks(c, l)
      PROVE  ServedInv'
  <2>1. l \in Lobbies /\ lock[l] = Nobody /\ lock' # lock
    BY <1>3, LobbiesAssumption DEF LobbyInv, LobbyShapes, Locks
  <2>2. /\ LobbiesAside /\ Starts(c, "join", u, l, Null, "write")
        /\ Alive(l) /\ Cardinality(Players(l)) < lobby[l].settings.maxPlayers
    BY <1>3, <2>1 DEF JoinReads, LobbiesAside
  <2>3. Fits([op |-> "join", user |-> u, lobby |-> l, arg |-> Null, step |-> "write"])
    BY <2>1, <2>2 DEF Fits, Call
  <2> QED BY <1>3, <2>1, <2>2, <2>3, ServedBegins
<1>4. ASSUME NEW l \in Drawn, StartReads(c, u, l)
      PROVE  ServedInv'
  <2>1. l \in Lobbies /\ Alive(l) /\ LobbiesAside
    BY <1>4 DEF StartReads, Seated, LobbyInv, LobbyShapes, LobbiesAside
  <2>2. Fits([op |-> "start", user |-> u, lobby |-> l, arg |-> Null, step |-> "deal"])
    BY <2>1 DEF Fits, Call
  <2> QED BY <1>4, <2>1, <2>2, ServedBegins DEF StartReads
<1> QED BY <1>1, <1>2, <1>3, <1>4

(* What a call that ends, or a step outside of calls, owes: the types, and what *)
(* it owes to the lobby l it is about.                                          *)
LEMMA ServedEnds ==
  ASSUME LobbyInv, ServedInv, NEW c \in Slots, Ends(c), OthersKeep(c), crashes' = crashes,
         NEW l, call[c].lobby = l \/ ~Holds(call[c]),
         \A k \in Drawn : k # l => lobby'[k] = lobby[k], Drawn' \subseteq Drawn \cup {l},
         \A k \in Lobbies : k # l => rooms'[k] = rooms[k] /\ informed'[k] = informed[k],
         \A u \in Users : member'[u] \in {member[u], NoLobby, l},
         lock' \in [Lobbies -> Slots \cup {Nobody}] => LobbyType',
         l \in Lobbies => Told(l)' /\ Pointed(l)'
  PROVE  ServedInv'
<1>1. LocksHeld' /\ LobbyType'
  BY EndsLocks DEF ServedInv
<1>2. CallsFit'
  <2>1. call'[c] = Idle
    BY DEF Ends, LobbyInv, LobbyShapes
  <2> QED BY <2>1, FitsStep DEF ServedInv
<1>3. ASSUME NEW k \in Lobbies, k # l PROVE Told(k)' /\ Pointed(k)'
  <2>1. Spared(k, c)
    BY <1>3, EndsSpares DEF ServedInv
  <2>2. Alive(k)' => Alive(k) /\ Players(k)' = Players(k)
    BY <1>3 DEF Alive, Players, Gone
  <2>3. \A u \in Users : member'[u] = k => member[u] = k
    BY <1>3, LobbiesAssumption
  <2> QED BY <1>3, <2>1, <2>2, <2>3, SparedTold, SparedPointed DEF ServedInv
<1> QED BY <1>1, <1>2, <1>3 DEF ServedInv

(* The same outside of calls, and where a call ends that had no lock. *)
LEMMA ServedPlain ==
  ASSUME LobbyInv, ServedInv, NEW c, OthersKeep(c), crashes' = crashes, lock' = lock,
         c \in Slots => call'[c] = Idle,
         \A k \in Lobbies : lock[k] = c => c = Nobody,
         NEW l, l \in Lobbies => lock[l] = Nobody,
         \A k \in Drawn : k # l => lobby'[k] = lobby[k] \/ lobby'[k] = Gone, Drawn' = Drawn,
         \A k \in Lobbies : k # l => rooms'[k] = rooms[k] /\ informed'[k] = informed[k],
         \A u \in Users : member'[u] \in {member[u], NoLobby},
         LobbyType',
         l \in Lobbies => Told(l)' /\ Pointed(l)'
  PROVE  ServedInv'
<1>1. LocksHeld'
  <2>1. \A k \in Lobbies : lock'[k] \in {lock[k], Nobody, c}
    OBVIOUS
  <2>2. c # Nobody => \A k \in Lobbies : lock'[k] = c => HeldBy(k, call'[c])
    OBVIOUS
  <2> QED BY <2>1, <2>2, LocksStep DEF ServedInv
<1>2. CallsFit'
  BY FitsStep DEF ServedInv
<1>3. ASSUME NEW k \in Lobbies, k # l PROVE Told(k)' /\ Pointed(k)'
  <2>1. Spared(k, c)
    BY DEF Spared
  <2>2. Alive(k)' => Alive(k) /\ Players(k)' = Players(k)
    BY <1>3 DEF Alive, Players, Gone
  <2>3. \A u \in Users : member'[u] = k => member[u] = k
    BY <1>3, LobbiesAssumption
  <2> QED BY <1>3, <2>1, <2>2, <2>3, SparedTold, SparedPointed DEF ServedInv
<1> QED BY <1>1, <1>2, <1>3 DEF ServedInv

LEMMA PersistType ==
  ASSUME LobbyType, Drawn \subseteq Lobbies, NEW l \in Drawn, NEW rec, Table(rec), NEW J \in SUBSET Users, Persist(l, rec, J)
  PROVE  /\ Drawn' = Drawn /\ lobby'[l] = rec /\ \A k \in Drawn : k # l => lobby'[k] = lobby[k]
         /\ \A k \in Drawn' : Alive(k)' => Table(lobby'[k])
         /\ member' \in [Users -> Drawn' \cup {NoLobby}]
         /\ age' \in [Keys -> 0..1]
         /\ Players(l)' = DOMAIN rec.ready
         /\ \A u \in Users : member'[u] = IF u \in J THEN l ELSE member[u]
<1>1. Drawn' = Drawn /\ lobby'[l] = rec /\ \A k \in Drawn : k # l => lobby'[k] = lobby[k]
  BY DEF Persist, Drawn
<1>2. ASSUME NEW k \in Drawn', Alive(k)' PROVE Table(lobby'[k])
  BY <1>1, <1>2 DEF LobbyType, Alive, Gone
<1>3. member' \in [Users -> Drawn' \cup {NoLobby}]
  BY <1>1 DEF Persist, LobbyType
<1>4. age' \in [Keys -> 0..1]
  BY DEF Persist, LobbyType
<1> QED BY <1>1, <1>2, <1>3, <1>4 DEF Persist, Players

(* A table in its parts. *)
LEMMA TableParts ==
  ASSUME LobbyType, NEW l, Alive(l)
  PROVE  /\ Table(lobby[l]) /\ l \in Drawn
         /\ lobby[l] = [settings |-> lobby[l].settings, ready |-> lobby[l].ready]
         /\ Players(l) \in SUBSET Users /\ Players(l) # {} /\ IsFiniteSet(Players(l))
         /\ lobby[l].ready \in [Players(l) -> BOOLEAN]
         /\ \A k \in DOMAIN SettingValues : lobby[l].settings[k] \in SettingValues[k]
         /\ Cardinality(Players(l)) \in Nat
         /\ lobby[l].settings.maxPlayers \in Nat
         /\ Cardinality(Players(l)) <= lobby[l].settings.maxPlayers
<1>1. Table(lobby[l]) /\ l \in Drawn
  BY DEF LobbyType, Alive
<1>2. /\ Players(l) \in SUBSET Users /\ Players(l) # {} /\ IsFiniteSet(Players(l))
      /\ lobby[l].ready \in [Players(l) -> BOOLEAN]
      /\ \A k \in DOMAIN SettingValues : lobby[l].settings[k] \in SettingValues[k]
      /\ Cardinality(Players(l)) <= lobby[l].settings.maxPlayers
      /\ lobby[l] = [settings |-> lobby[l].settings, ready |-> lobby[l].ready]
  BY <1>1 DEF Table, Players
<1>3. Cardinality(Players(l)) \in Nat
  BY <1>2, FS_CardinalityType
<1>4. lobby[l].settings.maxPlayers \in Nat
  BY <1>2, LobbiesAssumption
<1> QED BY <1>1, <1>2, <1>3, <1>4

(* A record of a lobby with other ready flags. *)
LEMMA ReadySet ==
  ASSUME NEW rec, rec = [settings |-> rec.settings, ready |-> rec.ready], NEW f
  PROVE  [rec EXCEPT !.ready = f] = [settings |-> rec.settings, ready |-> f]
OBVIOUS

LEMMA ServedCreate ==
  ASSUME LobbyInv, ServedInv, NEW c \in Slots, OthersKeep(c), CreateWrites(c)
  PROVE  ServedInv'
<1> DEFINE u == call[c].user
           s == mergeAndValidateSettings(DefaultSettings, call[c].arg)
<1>1. u \in Users /\ ~Holds(call[c]) /\ s # Refused
  BY DEF CreateWrites, Serves, ServedInv, CallsFit, Fits, Call, Holds
<1> DEFINE f == [p \in {u} |-> FALSE]
<1>2. PICK l \in Lobbies \ Drawn :
        /\ lobby' = [k \in Drawn \cup {l} |-> IF k # l THEN lobby[k] ELSE [settings |-> s, ready |-> f]]
        /\ member' = [member EXCEPT ![u] = l]
        /\ age' = [age EXCEPT ![l] = 0, ![u] = 0]
        /\ index' = index \cup {l}
  BY DEF CreateWrites
<1>3. Ends(c) /\ UNCHANGED <<rooms, informed, stale, crashes>>
  BY DEF CreateWrites
<1>4. \A k \in DOMAIN SettingValues : s[k] \in SettingValues[k]
  BY <1>1, Merged
<1> HIDE DEF s
<1>5. Table([settings |-> s, ready |-> f])
  <2>1. IsFiniteSet({u}) /\ Cardinality({u}) = 1
    BY FS_Singleton
  <2>2. 1 <= s.maxPlayers
    BY <1>4, LobbiesAssumption
  <2>3. f \in [{u} -> BOOLEAN]
    OBVIOUS
  <2> HIDE DEF f
  <2> QED BY <1>1, <1>4, <2>1, <2>2, <2>3, TableMade
<1>6. /\ Drawn' = Drawn \cup {l} /\ lobby'[l] = [settings |-> s, ready |-> f]
      /\ \A k \in Drawn : lobby'[k] = lobby[k]
  BY <1>2 DEF Drawn
<1>7. /\ \A v \in Users : member'[v] = IF v = u THEN l ELSE member[v]
      /\ member' \in [Users -> Drawn' \cup {NoLobby}]
  BY <1>2, <1>6 DEF ServedInv, LobbyType
<1>8. lock' \in [Lobbies -> Slots \cup {Nobody}] => LobbyType'
  <2>1. ASSUME NEW k \in Drawn', Alive(k)' PROVE Table(lobby'[k])
    BY <1>5, <1>6, <2>1 DEF ServedInv, LobbyType, Alive, Gone
  <2>2. age' \in [Keys -> 0..1]
    <3>1. age \in [Keys -> 0..1] /\ age' = [[age EXCEPT ![l] = 0] EXCEPT ![u] = 0] /\ 0 \in 0..1
      BY <1>2 DEF ServedInv, LobbyType
    <3> QED BY <3>1
  <2>3. index' \subseteq Drawn'
    BY <1>2, <1>6 DEF ServedInv, LobbyType
  <2> QED BY <1>3, <2>3, <1>7, <2>1, <2>2 DEF ServedInv, LobbyType
<1>9. Told(l)' /\ Pointed(l)'
  <2>1. Spared(l, c)
    BY <1>1, <1>3, EndsSpares DEF ServedInv
  <2>2. Told(l)'
    BY <1>3, <2>1, SparedTold DEF ServedInv
  <2>3. \A v \in Users : member'[v] = l => v = u
    BY <1>2, <1>7, LobbiesAssumption DEF ServedInv, LobbyType
  <2>4. Players(l)' = {u}
    BY <1>6 DEF Players
  <2>5. \A v \in Users : member'[v] = l /\ Alive(l)' => Seated(v, l)'
    BY <2>3, <2>4 DEF Seated
  <2> QED BY <2>2, <2>5 DEF Pointed
<1> QED BY <1>1, <1>3, <1>6, <1>7, <1>8, <1>9, ServedEnds

LEMMA ServedJoin ==
  ASSUME LobbyInv, ServedInv, NEW c \in Slots, OthersKeep(c), JoinWrites(c)
  PROVE  ServedInv'
<1>0. PICK u, l : u = call[c].user /\ l = call[c].lobby
  OBVIOUS
<1> DEFINE S == Players(l) \cup {u}
           f == [p \in S |-> IF p = u THEN FALSE ELSE lobby[l].ready[p]]
<1>1. /\ u \in Users /\ l \in Lobbies /\ Alive(l)
      /\ Cardinality(Players(l)) < lobby[l].settings.maxPlayers
      /\ lock[l] = c /\ call[c].step = "write" /\ call[c].lobby = l
  BY <1>0 DEF JoinWrites, Serves, ServedInv, CallsFit, Fits, Call, LobbyInv, CallsHoldLocks, Holds
<1>2. /\ Persist(l, [settings |-> lobby[l].settings, ready |-> f], {u})
      /\ rooms' = [rooms EXCEPT ![l] = @ \cup {u}]
      /\ informed' = [informed EXCEPT ![l] = rooms[l] \cup {u}]
      /\ Ends(c) /\ UNCHANGED <<index, crashes>>
  <2>1. [lobby[l] EXCEPT !.ready = f] = [settings |-> lobby[l].settings, ready |-> f]
    <3> HIDE DEF f
    <3> QED BY <1>1, TableParts, ReadySet DEF ServedInv
  <2> QED BY <1>0, <2>1 DEF JoinWrites
<1>3. /\ LobbyType /\ Drawn \subseteq Lobbies /\ Players(l) \in SUBSET Users
      /\ IsFiniteSet(Players(l)) /\ lobby[l].ready \in [Players(l) -> BOOLEAN] /\ l \in Drawn
      /\ lobby[l].settings.maxPlayers \in Nat
      /\ \A k \in DOMAIN SettingValues : lobby[l].settings[k] \in SettingValues[k]
  BY <1>1, TableParts DEF ServedInv, LobbyInv, LobbyShapes
<1>4. S \in SUBSET Users /\ S # {} /\ f \in [S -> BOOLEAN] /\ DOMAIN f = S
  BY <1>1, <1>3
<1>5. IsFiniteSet(S) /\ Cardinality(S) <= lobby[l].settings.maxPlayers
  <2>1. IsFiniteSet(S) /\ Cardinality(S) \in {Cardinality(Players(l)), Cardinality(Players(l)) + 1}
    BY <1>3, FS_AddElement
  <2>2. Cardinality(Players(l)) \in Nat
    BY <1>3, FS_CardinalityType
  <2> QED BY <1>1, <1>3, <2>1, <2>2
<1>6. S = Players(l) \cup {u}
  OBVIOUS
<1> HIDE DEF f, S
<1>7. Table([settings |-> lobby[l].settings, ready |-> f])
  BY <1>3, <1>4, <1>5, TableMade
<1>8. /\ Drawn' = Drawn /\ \A k \in Drawn : k # l => lobby'[k] = lobby[k]
      /\ \A k \in Drawn' : Alive(k)' => Table(lobby'[k])
      /\ member' \in [Users -> Drawn' \cup {NoLobby}]
      /\ age' \in [Keys -> 0..1]
      /\ Players(l)' = S
      /\ \A v \in Users : member'[v] = IF v \in {u} THEN l ELSE member[v]
  <2>1. {u} \in SUBSET Users
    BY <1>1
  <2> DEFINE rec == [settings |-> lobby[l].settings, ready |-> f]
  <2>3. rec.ready = f
    OBVIOUS
  <2>4. Table(rec) /\ Persist(l, rec, {u})
    BY <1>2, <1>7
  <2> HIDE DEF rec
  <2>5. PICK r : r = rec
    OBVIOUS
  <2> QED BY <1>3, <1>4, <2>1, <2>3, <2>4, <2>5, PersistType
<1>9. rooms' \in [Lobbies -> SUBSET Users] /\ informed' \in [Lobbies -> SUBSET Users]
  BY <1>1, <1>2 DEF ServedInv, LobbyType
<1>10. lock' \in [Lobbies -> Slots \cup {Nobody}] => LobbyType'
  BY <1>2, <1>8, <1>9, <1>3 DEF LobbyType
<1>11. Told(l)' /\ Pointed(l)'
  <2>1. rooms'[l] = informed'[l]
    BY <1>1, <1>2, <1>3 DEF LobbyType
  <2>2. ~Clearing(l)
    BY <1>1 DEF Clearing
  <2>3. \A v \in Users : crashes = 0 /\ member[v] = l => v \in Players(l)
    BY <1>1, <2>2 DEF ServedInv, Pointed, Seated
  <2>4. \A v \in Users : crashes = 0 /\ member'[v] = l => v \in Players(l)'
    BY <1>6, <1>8, <2>3
  <2>5. Pointed(l)'
    BY <1>2, <2>4 DEF Pointed, Seated
  <2> QED BY <2>1, <2>5 DEF Told
<1>12. \A v \in Users : member'[v] \in {member[v], NoLobby, l}
  BY <1>8
<1>13. \A k \in Lobbies : k # l => rooms'[k] = rooms[k] /\ informed'[k] = informed[k]
  BY <1>2, <1>3 DEF LobbyType
<1> QED BY <1>1, <1>2, <1>8, <1>10, <1>11, <1>12, <1>13, ServedEnds

(* Who has a seat already is told again (join). *)
LEMMA ServedAgain ==
  ASSUME LobbyInv, ServedInv, NEW c \in Slots, NEW u \in Users, NEW l \in Drawn, OthersKeep(Nobody),
         JoinReads(c, u, l), ~Locks(c, l)
  PROVE  ServedInv'
<1>1. /\ l \in Lobbies /\ lock[l] = Nobody /\ UNCHANGED <<lobby, member, index, lock, call, crashes>>
      /\ age' = [[age EXCEPT ![l] = 0] EXCEPT ![u] = 0]
      /\ rooms' = [rooms EXCEPT ![l] = @ \cup {u}] /\ informed' = [informed EXCEPT ![l] = @ \cup {u}]
  BY DEF JoinReads, Unlocked, LobbyInv, LobbyShapes
<1>2. age' \in [Keys -> 0..1]
  <2>1. age \in [Keys -> 0..1] /\ 0 \in 0..1
    BY DEF ServedInv, LobbyType
  <2> QED BY <1>1, <2>1
<1>3. rooms' \in [Lobbies -> SUBSET Users] /\ informed' \in [Lobbies -> SUBSET Users]
  BY <1>1 DEF ServedInv, LobbyType
<1>4. LobbyType'
  BY <1>1, <1>2, <1>3 DEF ServedInv, LobbyType, Drawn, Alive, Gone, Table
<1>5. Told(l)'
  BY <1>1 DEF ServedInv, Told, Clearing, LobbyType
<1>6. Pointed(l)'
  BY <1>1, FreePointed DEF ServedInv, Alive, Players, Drawn, Gone
<1>7. \A k \in Lobbies : k # l => rooms'[k] = rooms[k] /\ informed'[k] = informed[k]
  BY <1>1 DEF ServedInv, LobbyType
<1>8. Drawn' = Drawn /\ Nobody \notin Slots
  BY <1>1, LobbiesAssumption DEF Drawn
<1> QED BY <1>1, <1>4, <1>5, <1>6, <1>7, <1>8, ServedPlain

LEMMA ServedStray ==
  ASSUME LobbyInv, ServedInv, NEW c \in Slots, NEW u \in Users, NEW l \in Lobbies, NEW ofSocket, OthersKeep(c),
         LeaveStray(c, u, l, ofSocket), call[c] = Idle \/ (call[c].step = "wait" /\ call[c].op = "leaveCurrent")
  PROVE  ServedInv'
<1>1. /\ lock[l] = Nobody /\ ~Seated(u, l) /\ UNCHANGED <<lobby, age, index, lock, crashes>>
      /\ member' = [member EXCEPT ![u] = IF @ = l THEN NoLobby ELSE @]
      /\ rooms' = [rooms EXCEPT ![l] = IF ofSocket THEN @ \ {u} ELSE @]
      /\ informed' = [informed EXCEPT ![l] = @ \cap rooms'[l]]
      /\ call'[c] = Idle
  BY DEF LeaveStray, Unlocked, ClearMembership, LobbyInv, LobbyShapes
<1>2. \A v \in Users : member'[v] \in {member[v], NoLobby}
  BY <1>1 DEF ServedInv, LobbyType
<1>3. LobbyType'
  <2>1. member' \in [Users -> Drawn \cup {NoLobby}]
    BY <1>1 DEF ServedInv, LobbyType
  <2>2. rooms' \in [Lobbies -> SUBSET Users] /\ informed' \in [Lobbies -> SUBSET Users]
    BY <1>1 DEF ServedInv, LobbyType
  <2> QED BY <1>1, <2>1, <2>2 DEF ServedInv, LobbyType, Drawn, Alive, Gone, Table
<1>4. Told(l)'
  BY <1>1 DEF ServedInv, Told, Clearing, LobbyType
<1>5. Pointed(l)'
  BY <1>1, <1>2, LobbiesAssumption, FreePointed DEF ServedInv, Alive, Players, Drawn, Gone
<1>6. \A k \in Lobbies : k # l => rooms'[k] = rooms[k] /\ informed'[k] = informed[k]
  BY <1>1 DEF ServedInv, LobbyType
<1>7. \A k \in Lobbies : lock[k] # c
  BY OneLock, LobbiesAssumption DEF ServedInv, Holds
<1>8. Drawn' = Drawn
  BY <1>1 DEF Drawn
<1> QED BY <1>1, <1>2, <1>3, <1>4, <1>5, <1>6, <1>7, <1>8, ServedPlain

LEMMA ServedSeat ==
  ASSUME LobbyInv, ServedInv, NEW c \in Slots, NEW u \in Users, NEW l \in Lobbies, NEW op \in {"leave", "leaveCurrent"},
         OthersKeep(c), LeaveSeat(c, u, l, op), call[c] = Idle \/ (call[c].step = "wait" /\ call[c].op = "leaveCurrent")
  PROVE  ServedInv'
<1> DEFINE r == [op |-> op, user |-> u, lobby |-> l, arg |-> Null, step |-> "clear"]
           rest == Players(l) \ {u}
           f == [p \in rest |-> lobby[l].ready[p]]
<1>1. /\ Alive(l) /\ lock[l] = Nobody /\ lock' = [lock EXCEPT ![l] = c] /\ UNCHANGED <<rooms, crashes>>
      /\ informed' = [informed EXCEPT ![l] = {}]
      /\ call'[c] = r
  BY DEF LeaveSeat, Seated, Locks, LobbyInv, LobbyShapes
<1>2. r \in Call /\ r.step = "clear" /\ r.op = op /\ r.lobby = l /\ r.user = u
  BY DEF Call
<1> HIDE DEF r
<1>3. r # Idle
  BY <1>2, LobbiesAssumption DEF Idle
<1>4. /\ LobbyType /\ Drawn \subseteq Lobbies /\ Players(l) \in SUBSET Users
      /\ IsFiniteSet(Players(l)) /\ lobby[l].ready \in [Players(l) -> BOOLEAN] /\ l \in Drawn
      /\ lobby[l].settings.maxPlayers \in Nat
      /\ Cardinality(Players(l)) <= lobby[l].settings.maxPlayers
      /\ \A k \in DOMAIN SettingValues : lobby[l].settings[k] \in SettingValues[k]
      /\ Cardinality(Players(l)) \in Nat
  BY <1>1, TableParts DEF ServedInv, LobbyInv, LobbyShapes
<1>5. /\ Drawn' = Drawn /\ \A k \in Drawn : k # l => lobby'[k] = lobby[k]
      /\ \A k \in Drawn' : Alive(k)' => Table(lobby'[k])
      /\ member' \in [Users -> Drawn' \cup {NoLobby}]
      /\ age' \in [Keys -> 0..1]
      /\ index' \subseteq Drawn'
      /\ Alive(l)' => Players(l)' = rest
      /\ \A v \in Users : member'[v] = member[v]
  <2>1. CASE rest = {}
    <3>1. lobby' = [lobby EXCEPT ![l] = Gone] /\ index' = index \ {l} /\ UNCHANGED <<member, age>>
      BY <2>1 DEF LeaveSeat
    <3>2. Drawn' = Drawn /\ lobby'[l] = Gone /\ \A k \in Drawn : k # l => lobby'[k] = lobby[k]
      BY <1>4, <3>1 DEF Drawn
    <3> QED BY <1>4, <3>1, <3>2 DEF LobbyType, Alive, Gone
  <2>2. CASE rest # {}
    <3>1. [lobby[l] EXCEPT !.ready = f] = [settings |-> lobby[l].settings, ready |-> f]
      <4> HIDE DEF f
      <4> QED BY <1>1, TableParts, ReadySet DEF ServedInv
    <3>2. Persist(l, [settings |-> lobby[l].settings, ready |-> f], {}) /\ index' = index
      BY <2>2, <3>1 DEF LeaveSeat
    <3>3. rest \in SUBSET Users /\ f \in [rest -> BOOLEAN] /\ DOMAIN f = rest
      BY <1>4
    <3>4. IsFiniteSet(rest) /\ Cardinality(rest) <= lobby[l].settings.maxPlayers
      <4>1. rest \subseteq Players(l)
        OBVIOUS
      <4>2. IsFiniteSet(rest) /\ Cardinality(rest) <= Cardinality(Players(l))
        BY <1>4, <4>1, FS_Subset
      <4>3. Cardinality(rest) \in Nat
        BY <4>2, FS_CardinalityType
      <4> QED BY <1>4, <4>2, <4>3
    <3> HIDE DEF f, rest
    <3>5. PICK rec : rec = [settings |-> lobby[l].settings, ready |-> f]
      OBVIOUS
    <3>6. Table(rec) /\ DOMAIN rec.ready = rest /\ Persist(l, rec, {})
      BY <1>4, <2>2, <3>2, <3>3, <3>4, <3>5, TableMade
    <3> QED BY <1>4, <3>2, <3>6, PersistType DEF LobbyType
  <2> QED BY <2>1, <2>2
<1>6. LobbyType'
  <2>1. informed' \in [Lobbies -> SUBSET Users] /\ lock' \in [Lobbies -> Slots \cup {Nobody}]
    BY <1>1, <1>4 DEF LobbyType
  <2> QED BY <1>1, <1>4, <1>5, <2>1 DEF LobbyType
<1>7. \A k \in Lobbies : lock[k] # c
  BY OneLock, LobbiesAssumption DEF ServedInv, Holds
<1>8. LocksHeld'
  <2>1. \A k \in Lobbies : lock'[k] \in {lock[k], Nobody, c}
    BY <1>1, <1>4 DEF LobbyType
  <2>2. \A k \in Lobbies : lock'[k] = c => HeldBy(k, call'[c])
    BY <1>1, <1>2, <1>3, <1>4, <1>7 DEF HeldBy, Holds, LobbyType
  <2> QED BY <2>1, <2>2, LocksStep DEF ServedInv
<1>9. CallsFit'
  <2>1. Fits(r)'
    BY <1>2 DEF Fits
  <2> QED BY <1>1, <2>1, FitsStep DEF ServedInv
<1>10. Told(l)' /\ Pointed(l)'
  <2>1. Clearing(l)' /\ call'[lock'[l]].user = u
    BY <1>1, <1>2, <1>4, LobbiesAssumption DEF Clearing, LobbyType
  <2>2. ~Clearing(l)
    BY <1>1 DEF Clearing
  <2>3. ASSUME crashes' = 0, NEW v \in Users, member'[v] = l, Alive(l)', v # u
        PROVE  Seated(v, l)'
    BY <1>1, <1>5, <2>2, <2>3 DEF ServedInv, Pointed, Seated
  <2> QED BY <2>1, <2>3 DEF Told, Pointed
<1>11. ASSUME NEW k \in Lobbies, k # l PROVE Told(k)' /\ Pointed(k)'
  <2>1. Spared(k, c) /\ rooms'[k] = rooms[k] /\ informed'[k] = informed[k]
    BY <1>1, <1>4, <1>7, <1>11 DEF Spared, LobbyType
  <2>2. Alive(k)' => Alive(k) /\ Players(k)' = Players(k)
    BY <1>5, <1>11 DEF Alive, Players, Gone
  <2> QED BY <1>1, <1>5, <2>1, <2>2, SparedTold, SparedPointed DEF ServedInv
<1> QED BY <1>6, <1>8, <1>9, <1>10, <1>11 DEF ServedInv

LEMMA ServedClears ==
  ASSUME LobbyInv, ServedInv, NEW c \in Slots, OthersKeep(c), LeaveClears(c)
  PROVE  ServedInv'
<1>0. PICK u, l : u = call[c].user /\ l = call[c].lobby
  OBVIOUS
<1>1. /\ u \in Users /\ l \in Lobbies /\ call[c].lobby = l
      /\ call[c] # Idle /\ call[c].step = "clear" /\ lock[l] = c
  BY <1>0 DEF LeaveClears, Serves, ServedInv, CallsFit, Fits, Call, LobbyInv, CallsHoldLocks, Holds
<1>2. /\ rooms' = [rooms EXCEPT ![l] = @ \ {u}] \/ rooms' = rooms
      /\ member' = [member EXCEPT ![u] = IF @ = l THEN NoLobby ELSE @]
      /\ informed' = [informed EXCEPT ![l] = rooms'[l]]
      /\ Ends(c) /\ UNCHANGED <<lobby, age, index, crashes>>
  BY <1>0 DEF LeaveClears, ClearMembership
<1>3. \A v \in Users : member'[v] = IF v = u /\ member[v] = l THEN NoLobby ELSE member[v]
  BY <1>2 DEF ServedInv, LobbyType
<1>4. lock' \in [Lobbies -> Slots \cup {Nobody}] => LobbyType'
  <2>1. member' \in [Users -> Drawn \cup {NoLobby}]
    BY <1>2 DEF ServedInv, LobbyType
  <2>2. rooms' \in [Lobbies -> SUBSET Users]
    BY <1>2 DEF ServedInv, LobbyType
  <2>3. informed' \in [Lobbies -> SUBSET Users]
    BY <1>1, <1>2, <2>2 DEF ServedInv, LobbyType
  <2> QED BY <1>2, <2>1, <2>2, <2>3 DEF ServedInv, LobbyType, Drawn, Alive, Gone, Table
<1>5. Told(l)'
  BY <1>1, <1>2 DEF Told, ServedInv, LobbyType
<1>6. Pointed(l)'
  <2>1. ASSUME crashes = 0, NEW v \in Users, member'[v] = l, Alive(l)
        PROVE  Seated(v, l)
    <3>1. v # u /\ member[v] = l
      BY <1>3, <2>1, <1>1, LobbiesAssumption
    <3> QED BY <1>0, <1>1, <2>1, <3>1 DEF ServedInv, Pointed
  <2> QED BY <1>2, <2>1 DEF Pointed, Seated, Alive, Players, Drawn, Gone
<1>7. \A k \in Lobbies : k # l => rooms'[k] = rooms[k] /\ informed'[k] = informed[k]
  BY <1>2 DEF ServedInv, LobbyType
<1>8. Drawn' = Drawn
  BY <1>2 DEF Drawn
<1>9. \A v \in Users : member'[v] \in {member[v], NoLobby, l}
  BY <1>3
<1> QED BY <1>1, <1>2, <1>4, <1>5, <1>6, <1>7, <1>8, <1>9, ServedEnds

(* What a member asks of the lobby, in one write. *)
LEMMA ServedWrite ==
  ASSUME LobbyInv, ServedInv, OthersKeep(Nobody), NEW l \in Drawn, NEW rec, Table(rec), DOMAIN rec.ready = Players(l),
         Alive(l), Unlocked(l), Persist(l, rec, {}), informed' = [informed EXCEPT ![l] = rooms[l]],
         UNCHANGED <<index, lock, rooms, crashes>>
  PROVE  ServedInv'
<1>1. l \in Lobbies /\ Drawn \subseteq Lobbies /\ lock[l] = Nobody
  BY DEF LobbyInv, LobbyShapes, Unlocked
<1>2. /\ Drawn' = Drawn /\ \A k \in Drawn : k # l => lobby'[k] = lobby[k]
      /\ \A k \in Drawn' : Alive(k)' => Table(lobby'[k])
      /\ member' \in [Users -> Drawn' \cup {NoLobby}]
      /\ age' \in [Keys -> 0..1]
      /\ Players(l)' = Players(l)
      /\ \A v \in Users : member'[v] = member[v]
  BY <1>1, PersistType DEF ServedInv
<1>3. LobbyType'
  BY <1>1, <1>2 DEF ServedInv, LobbyType
<1>4. Told(l)'
  BY <1>1 DEF Told, ServedInv, LobbyType
<1>5. Pointed(l)'
  BY <1>1, <1>2, FreePointed DEF ServedInv
<1>6. \A k \in Lobbies : k # l => rooms'[k] = rooms[k] /\ informed'[k] = informed[k]
  BY DEF ServedInv, LobbyType
<1> QED BY <1>1, <1>2, <1>3, <1>4, <1>5, <1>6, LobbiesAssumption, ServedPlain

LEMMA ServedSettings ==
  ASSUME LobbyInv, ServedInv, OthersKeep(Nobody), NEW l \in Drawn, NEW u, NEW p, UpdateSettings(u, l, p)
  PROVE  ServedInv'
<1>1. PICK merged : merged = mergeAndValidateSettings(lobby[l].settings, p)
  OBVIOUS
<1> DEFINE f == [q \in Players(l) |-> FALSE]
<1>2. /\ Alive(l) /\ Unlocked(l) /\ merged # Refused /\ merged.maxPlayers >= Cardinality(Players(l))
      /\ Persist(l, [settings |-> merged, ready |-> f], {})
      /\ informed' = [informed EXCEPT ![l] = rooms[l]]
      /\ UNCHANGED <<index, lock, rooms, crashes>>
  BY <1>1 DEF UpdateSettings, Seated
<1>3. /\ Players(l) \in SUBSET Users /\ Players(l) # {} /\ IsFiniteSet(Players(l))
      /\ Cardinality(Players(l)) \in Nat
  BY <1>2, TableParts DEF ServedInv
<1>4. \A k \in DOMAIN SettingValues : merged[k] \in SettingValues[k]
  BY <1>1, <1>2, Merged
<1>5. Cardinality(Players(l)) <= merged.maxPlayers
  BY <1>2, <1>3, <1>4, LobbiesAssumption
<1>6. f \in [Players(l) -> BOOLEAN] /\ DOMAIN f = Players(l)
  OBVIOUS
<1> HIDE DEF f
<1>7. PICK rec : rec = [settings |-> merged, ready |-> f]
  OBVIOUS
<1>8. Table(rec) /\ DOMAIN rec.ready = Players(l)
  BY <1>3, <1>4, <1>5, <1>6, <1>7, TableMade
<1> QED BY <1>2, <1>7, <1>8, ServedWrite

LEMMA ServedReady ==
  ASSUME LobbyInv, ServedInv, OthersKeep(Nobody), NEW l \in Drawn, NEW u, NEW b \in BOOLEAN, SetReady(u, l, b)
  PROVE  ServedInv'
<1> DEFINE f == [lobby[l].ready EXCEPT ![u] = b]
<1>1. Alive(l)
  BY DEF SetReady, Seated
<1>2. [lobby[l] EXCEPT !.ready = f] = [settings |-> lobby[l].settings, ready |-> f]
  <2> HIDE DEF f
  <2> QED BY <1>1, TableParts, ReadySet DEF ServedInv
<1>3. [lobby[l] EXCEPT !.ready[u] = b] = [lobby[l] EXCEPT !.ready = f]
  OBVIOUS
<1>4. /\ Unlocked(l)
      /\ Persist(l, [settings |-> lobby[l].settings, ready |-> f], {})
      /\ informed' = [informed EXCEPT ![l] = rooms[l]]
      /\ UNCHANGED <<index, lock, rooms, crashes>>
  BY <1>2, <1>3 DEF SetReady
<1>5. /\ Players(l) \in SUBSET Users /\ Players(l) # {} /\ IsFiniteSet(Players(l))
      /\ lobby[l].ready \in [Players(l) -> BOOLEAN]
      /\ \A k \in DOMAIN SettingValues : lobby[l].settings[k] \in SettingValues[k]
      /\ Cardinality(Players(l)) <= lobby[l].settings.maxPlayers
  BY <1>1, TableParts DEF ServedInv
<1>6. f \in [Players(l) -> BOOLEAN] /\ DOMAIN f = Players(l)
  BY <1>5
<1> HIDE DEF f
<1>7. PICK rec : rec = [settings |-> lobby[l].settings, ready |-> f]
  OBVIOUS
<1>8. Table(rec) /\ DOMAIN rec.ready = Players(l)
  BY <1>5, <1>6, <1>7, TableMade
<1> QED BY <1>1, <1>4, <1>7, <1>8, ServedWrite

LEMMA ServedStart ==
  ASSUME LobbyInv, ServedInv, NEW c \in Slots, OthersKeep(c), StartWrites(c)
  PROVE  ServedInv'
<1>0. PICK l : l = call[c].lobby
  OBVIOUS
<1>1. /\ l \in Lobbies /\ call[c].lobby = l /\ Alive(l) /\ l \in Drawn
      /\ call[c] # Idle /\ call[c].step # "clear" /\ call[c].op = "start" /\ lock[l] = c /\ call[c] \in Call
  BY <1>0 DEF StartWrites, Serves, ServedInv, CallsFit, Fits, Call, Alive, LobbyInv, CallsHoldLocks, Holds
<1>2. ~Clearing(l)
  BY <1>1 DEF Clearing
<1>3. UNCHANGED <<age, crashes>>
  BY DEF StartWrites
<1>4. CASE Ends(c) /\ UNCHANGED <<lobby, member, index, rooms, informed>>
  <2>1. lock' \in [Lobbies -> Slots \cup {Nobody}] => LobbyType'
    BY <1>3, <1>4, AsideType DEF ServedInv, LobbiesAside
  <2>2. Told(l)' /\ Pointed(l)'
    BY <1>1, <1>2, <1>3, <1>4 DEF ServedInv, Told, Pointed, Seated, Alive, Players, Drawn, Gone
  <2>3. Drawn' = Drawn
    BY <1>4 DEF Drawn
  <2> QED BY <1>1, <1>3, <1>4, <2>1, <2>2, <2>3, ServedEnds
<1>5. CASE \E step \in {"unlist", "drop"} :
             Goes(c, step) /\ UNCHANGED <<lobby, member, lock, rooms, informed>> /\ index' \in {index, index \ {l}}
  <2>1. PICK step \in {"unlist", "drop"} :
             Goes(c, step) /\ UNCHANGED <<lobby, member, lock, rooms, informed>> /\ index' \in {index, index \ {l}}
    BY <1>5
  <2>2. PICK r : r = [op |-> "start", user |-> call[c].user, lobby |-> l, arg |-> call[c].arg, step |-> step]
    OBVIOUS
  <2>3. call'[c] = r
    <3>1. call[c] = [op |-> "start", user |-> call[c].user, lobby |-> l, arg |-> call[c].arg, step |-> call[c].step]
      BY <1>1 DEF LobbyInv, LobbyShapes, Shaped
    <3>2. call'[c] = [call[c] EXCEPT !.step = step]
      BY <2>1 DEF Goes, LobbyInv, LobbyShapes
    <3> QED BY <2>2, <3>1, <3>2
  <2>4. r \in Call /\ r.op = "start" /\ r.lobby = l /\ r.step # "clear" /\ Holds(r)
    BY <1>1, <2>1, <2>2 DEF Call, Holds
  <2>5. r # Idle
    BY <2>4, LobbiesAssumption DEF Idle
  <2>6. LobbyType'
    BY <1>3, <2>1 DEF ServedInv, LobbyType, Drawn, Alive, Gone, Table
  <2>7. CallsFit'
    <3>1. Fits(r)'
      BY <1>1, <2>1, <2>4 DEF Fits, Alive, Drawn, Gone
    <3> QED BY <2>3, <3>1, FitsStep DEF ServedInv
  <2>8. LocksHeld'
    <3>1. \A k \in Lobbies : lock'[k] = c => k = l
      BY <1>1, <2>1, OneLock, LobbiesAssumption DEF ServedInv
    <3>2. \A k \in Lobbies : lock'[k] = c => HeldBy(k, call'[c])
      BY <2>3, <2>4, <2>5, <3>1 DEF HeldBy
    <3> QED BY <2>1, <3>2, LocksStep DEF ServedInv
  <2>9. ASSUME NEW k \in Lobbies PROVE Told(k)' /\ Pointed(k)'
    <3>1. /\ rooms'[k] = rooms[k] /\ informed'[k] = informed[k] /\ crashes' = crashes
          /\ \A v \in Users : member'[v] = k => member[v] = k
          /\ Alive(k)' => Alive(k) /\ Players(k)' = Players(k)
      BY <1>3, <2>1 DEF Alive, Players, Drawn, Gone
    <3>2. CASE k # l
      <4>1. Spared(k, c)
        BY <1>1, <2>1, <3>2, OneLock, LobbiesAssumption DEF ServedInv, Spared
      <4> QED BY <3>1, <4>1, SparedTold, SparedPointed DEF ServedInv
    <3>3. CASE k = l
      BY <1>2, <2>1, <3>1, <3>3 DEF ServedInv, Told, Pointed, Seated
    <3> QED BY <3>2, <3>3
  <2> QED BY <2>6, <2>7, <2>8, <2>9 DEF ServedInv
<1>6. CASE /\ member' = [p \in Users |-> IF p \in Players(l) THEN NoLobby ELSE member[p]]
           /\ lobby' = [lobby EXCEPT ![l] = Gone]
           /\ rooms' = [rooms EXCEPT ![l] = {}]
           /\ informed' = [informed EXCEPT ![l] = {}]
           /\ Ends(c) /\ index' = index
  <2>1. Drawn' = Drawn /\ lobby'[l] = Gone /\ \A k \in Drawn : k # l => lobby'[k] = lobby[k]
    BY <1>1, <1>6 DEF Drawn
  <2>2. lock' \in [Lobbies -> Slots \cup {Nobody}] => LobbyType'
    <3>1. member' \in [Users -> Drawn' \cup {NoLobby}]
      BY <1>6, <2>1 DEF ServedInv, LobbyType
    <3>2. rooms' \in [Lobbies -> SUBSET Users] /\ informed' \in [Lobbies -> SUBSET Users]
      BY <1>6 DEF ServedInv, LobbyType
    <3>3. \A k \in Drawn' : Alive(k)' => Table(lobby'[k])
      BY <2>1 DEF ServedInv, LobbyType, Alive, Gone
    <3> QED BY <1>3, <1>6, <2>1, <3>1, <3>2, <3>3 DEF ServedInv, LobbyType
  <2>3. Told(l)'
    BY <1>1, <1>6 DEF ServedInv, Told, LobbyType
  <2>4. ~Alive(l)'
    BY <2>1 DEF Alive, Gone
  <2>5. Pointed(l)'
    BY <2>4 DEF Pointed
  <2>6. \A k \in Lobbies : k # l => rooms'[k] = rooms[k] /\ informed'[k] = informed[k]
    BY <1>6 DEF ServedInv, LobbyType
  <2>7. \A v \in Users : member'[v] \in {member[v], NoLobby, l}
    BY <1>6
  <2> QED BY <1>1, <1>3, <1>6, <2>1, <2>2, <2>3, <2>5, <2>6, <2>7, ServedEnds
<1> QED BY <1>0, <1>4, <1>5, <1>6 DEF StartWrites

(* Sweeping the index, and time. *)
LEMMA ServedTime ==
  ASSUME LobbyInv, ServedInv, OthersKeep(Nobody), List \/ HalfHour
  PROVE  ServedInv'
<1>1. CASE List
  <2>1. LobbyType'
    BY <1>1 DEF List, ServedInv, LobbyType, Drawn, Alive, Gone, Table
  <2>2. Drawn' = Drawn
    BY <1>1 DEF List, Drawn
  <2>3. PICK l : l \notin Lobbies
    BY LobbiesAssumption
  <2> QED BY <1>1, <2>1, <2>2, <2>3, LobbiesAssumption, ServedPlain DEF List
<1>2. CASE HalfHour
  <2>1. Drawn' = Drawn /\ Drawn \subseteq Lobbies
    BY <1>2 DEF HalfHour, Drawn, LobbyInv, LobbyShapes
  <2>2. LobbyType'
    <3>1. member' \in [Users -> Drawn' \cup {NoLobby}] /\ age' \in [Keys -> 0..1]
      BY <1>2, <2>1 DEF HalfHour, ServedInv, LobbyType
    <3>2. \A k \in Drawn' : Alive(k)' => Table(lobby'[k])
      BY <1>2, <2>1 DEF HalfHour, ServedInv, LobbyType, Alive, Gone
    <3> QED BY <1>2, <2>1, <3>1, <3>2 DEF HalfHour, ServedInv, LobbyType
  <2>3. PICK l : l \notin Lobbies
    BY LobbiesAssumption
  <2>4. \A k \in Drawn : lobby'[k] = lobby[k] \/ lobby'[k] = Gone
    BY <1>2 DEF HalfHour
  <2>5. \A u \in Users : member'[u] \in {member[u], NoLobby}
    BY <1>2 DEF HalfHour
  <2> QED BY <1>2, <2>1, <2>2, <2>3, <2>4, <2>5, LobbiesAssumption, ServedPlain DEF HalfHour
<1> QED BY <1>1, <1>2

LEMMA ServedStep ==
  ASSUME LobbyInv, ServedInv, LobbiesNext
  PROVE  ServedInv'
<1>1. ASSUME NEW c \in Slots, CallNext(c) PROVE ServedInv'
  <2>1. OthersKeep(c)
    BY <1>1, CallFrame
  <2>2. ASSUME NEW u \in Users, NEW l \in Drawn, JoinReads(c, u, l) PROVE ServedInv'
    <3>1. CASE Locks(c, l)
      BY <2>1, <2>2, <3>1, ServedReads
    <3>2. CASE ~Locks(c, l)
      <4>1. OthersKeep(Nobody)
        BY <2>2, <3>2, Unchanged DEF JoinReads, OthersKeep, LobbyInv, LobbyShapes
      <4> QED BY <2>2, <3>2, <4>1, ServedAgain
    <3> QED BY <3>1, <3>2
  <2>3. ASSUME NEW l \in Drawn, NEW u \in rooms[l], StartReads(c, u, l) PROVE ServedInv'
    <3>1. u \in Users
      BY DEF ServedInv, LobbyType, LobbyInv, LobbyShapes
    <3> QED BY <2>1, <2>3, <3>1, ServedReads
  <2>4. ASSUME Leave(c) PROVE ServedInv'
    <3>1. ASSUME NEW u \in Users, NEW l \in Drawn, call[c] = Idle,
                 LeaveStray(c, u, l, TRUE) \/ LeaveSeat(c, u, l, "leave")
          PROVE  ServedInv'
      <4>0. call[c] = Idle \/ (call[c].step = "wait" /\ call[c].op = "leaveCurrent")
        BY <3>1
      <4>1. l \in Lobbies
        BY DEF LobbyInv, LobbyShapes
      <4>2. CASE LeaveStray(c, u, l, TRUE)
        BY <2>1, <4>0, <4>1, <4>2, ServedStray
      <4>3. CASE LeaveSeat(c, u, l, "leave")
        BY <2>1, <4>0, <4>1, <4>3, ServedSeat
      <4> QED BY <3>1, <4>2, <4>3
    <3>2. ASSUME Serves(c, "leaveCurrent", "wait"),
                 LeaveStray(c, call[c].user, call[c].lobby, FALSE) \/ LeaveSeat(c, call[c].user, call[c].lobby, "leaveCurrent")
          PROVE  ServedInv'
      <4>1. PICK u, l : u = call[c].user /\ l = call[c].lobby
        OBVIOUS
      <4>2. u \in Users /\ l \in Lobbies
        BY <3>2, <4>1 DEF Serves, ServedInv, CallsFit, Fits, Call
      <4>3. LeaveStray(c, u, l, FALSE) \/ LeaveSeat(c, u, l, "leaveCurrent")
        BY <3>2, <4>1
      <4> QED BY <2>1, <3>2, <4>2, <4>3, ServedStray, ServedSeat DEF Serves
    <3> QED BY <2>1, <2>4, <3>1, <3>2, ServedClears DEF Leave
  <2> QED BY <1>1, <2>1, <2>2, <2>3, <2>4, ServedReads, ServedCreate, ServedJoin, ServedStart DEF CallNext
<1>2. ASSUME NEW l \in Drawn, NEW u \in rooms[l],
             (\E p \in Patches : UpdateSettings(u, l, p)) \/ (\E r \in BOOLEAN : SetReady(u, l, r))
      PROVE  ServedInv'
  BY <1>2, PlainFrame, ServedSettings, ServedReady
<1>3. CASE List \/ HalfHour
  BY <1>3, PlainFrame, ServedTime
<1> QED BY <1>1, <1>2, <1>3 DEF LobbiesNext, CallNext

LEMMA ServedKept ==
  ASSUME ServedInv, UNCHANGED lobbyVars
  PROVE  ServedInv'
<1> USE DEF lobbyVars
<1>1. LobbyType'
  BY DEF ServedInv, LobbyType, Drawn, Alive, Gone, Table
<1>2. CallsFit'
  BY DEF ServedInv, CallsFit, Fits, Alive, Players, Drawn, Gone, Idle
<1>3. LocksHeld'
  BY DEF ServedInv, LocksHeld, HeldBy, Holds, Idle
<1>4. ASSUME NEW l \in Lobbies PROVE Told(l)' /\ Pointed(l)'
  BY DEF ServedInv, Told, Pointed, Clearing, Seated, Alive, Players, Drawn, Gone
<1> QED BY <1>1, <1>2, <1>3, <1>4 DEF ServedInv

LEMMA ServedCrash ==
  ASSUME ServedInv, LobbiesCrash
  PROVE  ServedInv'
<1>1. crashes' = crashes + 1 /\ crashes' # 0
  BY DEF LobbiesCrash, ServedInv, LobbyType
<1>2. LobbyType'
  BY <1>1 DEF LobbiesCrash, ServedInv, LobbyType, Drawn, Alive, Gone, Table
<1>3. CallsFit' /\ LocksHeld'
  BY DEF LobbiesCrash, CallsFit, LocksHeld, Idle
<1>4. \A l \in Lobbies : Told(l)' /\ Pointed(l)'
  BY <1>1 DEF LobbiesCrash, Told, Pointed
<1> QED BY <1>2, <1>3, <1>4 DEF ServedInv

LEMMA ServedInit ==
  ASSUME Init
  PROVE  ServedInv
<1> USE DEF Init, LobbiesInit
<1>1. LobbyType
  BY DEF LobbyType, Drawn
<1>2. CallsFit /\ LocksHeld
  BY DEF CallsFit, LocksHeld, Idle
<1>3. \A l \in Lobbies : Told(l) /\ Pointed(l)
  BY DEF Told, Pointed, Alive, Drawn
<1> QED BY <1>1, <1>2, <1>3 DEF ServedInv

-----------------------------------------------------------------------------
(* The types of games, sessions and screens. *)
LEMMA DealType ==
  ASSUME SeatingTypeOK, NEW g \in Games, NEW S \in SUBSET Users, CreateFromComposition(g, S), up' = up
  PROVE  SeatingTypeOK'
<1>1. /\ Dealt' = Dealt \cup {g} /\ inGame' \in [Users -> Games \cup {NoGame}]
      /\ \A h \in Dealt' : game'[h] = IF h = g THEN [players |-> S, over |-> FALSE] ELSE game[h]
  BY DEF CreateFromComposition, Dealt, SeatingTypeOK
<1>2. \A h \in Dealt' : game'[h] \in [players : SUBSET Users, over : BOOLEAN]
  <2>1. [players |-> S, over |-> FALSE] \in [players : SUBSET Users, over : BOOLEAN]
    OBVIOUS
  <2> QED BY <1>1, <2>1 DEF SeatingTypeOK
<1> QED BY <1>1, <1>2 DEF SeatingTypeOK

LEMMA EndType ==
  ASSUME SeatingTypeOK, NEW g, GameEnds(g)
  PROVE  SeatingTypeOK'
<1>1. Dealt' = Dealt /\ inGame' \in [Users -> Games \cup {NoGame}] /\ up' = up
  BY DEF GameEnds, Dealt, SeatingTypeOK
<1>2. ASSUME NEW h \in Dealt PROVE game'[h] \in [players : SUBSET Users, over : BOOLEAN]
  BY DEF GameEnds, Dealt, SeatingTypeOK
<1> QED BY <1>1, <1>2 DEF SeatingTypeOK

LEMMA SeatingKept ==
  ASSUME SeatingTypeOK, game' = game, inGame' = inGame, up' \in BOOLEAN
  PROVE  SeatingTypeOK'
BY DEF SeatingTypeOK, Dealt

(* A start deals for the players of its lobby. *)
LEMMA LobbiesType ==
  ASSUME LobbyInv, ServedInv, SeatingTypeOK, LobbiesNext
  PROVE  SeatingTypeOK'
<1>1. CASE UNCHANGED seatingVars
  BY <1>1, SeatingKept DEF seatingVars, SeatingTypeOK
<1>2. ASSUME NEW c \in Slots, StartWrites(c) PROVE SeatingTypeOK'
  <2>1. CASE game' = game /\ inGame' = inGame
    BY <1>2, <2>1, SeatingKept DEF StartWrites, SeatingTypeOK
  <2>2. CASE Serves(c, "start", "deal") /\ \E g \in Games : CreateFromComposition(g, Players(call[c].lobby))
    <3>1. Players(call[c].lobby) \in SUBSET Users
      BY <2>2, TableParts DEF Serves, ServedInv, CallsFit, Fits
    <3> QED BY <1>2, <2>2, <3>1, DealType DEF StartWrites
  <2> QED BY <1>2, <2>1, <2>2 DEF StartWrites
<1> QED BY <1>1, <1>2, OnlyStartsDeal

LEMMA Telling ==
  ASSUME RematchType, NEW S, NEW type \in {"invited", "updated", "started", "cancelled"}, NEW g \in Games,
         Tell(S, [type |-> type, game |-> g])
  PROVE  inbox' \in [Users -> Seq(Message)]
<1>1. PICK m : m = [type |-> type, game |-> g]
  OBVIOUS
<1>2. m \in Message
  BY <1>1 DEF Message
<1>3. \A u \in Users : inbox[u] \in Seq(Message) /\ Append(inbox[u], m) \in Seq(Message)
  BY <1>2 DEF RematchType
<1> QED BY <1>1, <1>3 DEF Tell

(* How the lobbies and games look is nothing to the sessions. *)
LEMMA RematchTypeKept ==
  ASSUME RematchType, UNCHANGED <<timer, modal, inbox>>
  PROVE  RematchType'
BY DEF RematchType

LEMMA RematchTypeStep ==
  ASSUME GamesDrawn, RematchInv, SeatingTypeOK, RematchType, RematchNext
  PROVE  RematchType' /\ SeatingTypeOK'
<1>1. ASSUME NEW c \in RematchSlots, NEW u \in Users, Press(c, u)
      PROVE  RematchType' /\ SeatingTypeOK'
  BY <1>1, SeatingKept DEF Press, RematchType, seatingVars, SeatingTypeOK
<1>2. ASSUME NEW c \in RematchSlots, InitiateOrAccept(c)
      PROVE  RematchType' /\ SeatingTypeOK'
  <2>0. PICK g : g = req[c].game
    OBVIOUS
  <2>1. g \in Games
    BY <1>2, <2>0, Moves DEF InitiateOrAccept
  <2>2. inbox' \in [Users -> Seq(Message)]
    <3>1. CASE Tell(game[g].players \ {req[c].user}, [type |-> "invited", game |-> g])
      BY <2>1, <3>1, Telling
    <3>2. CASE inbox' = inbox
      BY <3>2 DEF RematchType
    <3> QED BY <1>2, <2>0, <3>1, <3>2 DEF InitiateOrAccept
  <2>3. timer' \subseteq Games
    BY <1>2, <2>0, <2>1 DEF InitiateOrAccept, RematchType
  <2> QED BY <1>2, <2>2, <2>3, SeatingKept DEF InitiateOrAccept, RematchType, seatingVars, SeatingTypeOK
<1>3. ASSUME NEW c \in RematchSlots, Accept(c)
      PROVE  RematchType' /\ SeatingTypeOK'
  <2>0. PICK g : g = req[c].game
    OBVIOUS
  <2>1. g \in Games /\ req[c] # Quiet /\ up' = up
    BY <1>3, <2>0, Moves DEF Accept
  <2>2. inbox' \in [Users -> Seq(Message)]
    <3>1. CASE \E type \in {"updated", "started", "cancelled"} : Tell(game[g].players, [type |-> type, game |-> g])
      BY <2>1, <3>1, Telling
    <3>2. CASE inbox' = inbox
      BY <3>2 DEF RematchType
    <3> QED BY <1>3, <2>0, <3>1, <3>2 DEF Accept, Joins, DealEnds
  <2>3. timer' \subseteq Games /\ modal' = modal
    BY <1>3 DEF Accept, DealEnds, RematchType
  <2>4. SeatingTypeOK'
    <3>1. CASE game' = game /\ inGame' = inGame
      BY <2>1, <3>1, SeatingKept DEF SeatingTypeOK
    <3>2. CASE req[c].step = "deal" /\ \E n \in Games : CreateFromComposition(n, game[g].players)
      <4>1. g \in Dealt
        BY <2>0, <2>1, <3>2 DEF RematchInv, RequestsGo, Going
      <4>2. game[g].players \in SUBSET Users
        BY <4>1 DEF SeatingTypeOK
      <4> QED BY <2>1, <3>2, <4>2, DealType
    <3> QED BY <1>3, <2>0, <3>1, <3>2 DEF Accept
  <2> QED BY <2>2, <2>3, <2>4 DEF RematchType
<1>4. ASSUME NEW c \in RematchSlots, Cancel(c)
      PROVE  RematchType' /\ SeatingTypeOK'
  <2>0. PICK g : g = req[c].game
    OBVIOUS
  <2>1. g \in Games /\ modal' = modal /\ timer' \subseteq Games
    BY <1>4, <2>0, Moves DEF Cancel, RematchType
  <2>2. inbox' \in [Users -> Seq(Message)]
    <3>1. CASE Tell(game[g].players, [type |-> "cancelled", game |-> g])
      BY <2>1, <3>1, Telling
    <3>2. CASE inbox' = inbox
      BY <3>2 DEF RematchType
    <3> QED BY <1>4, <2>0, <3>1, <3>2 DEF Cancel
  <2> QED BY <1>4, <2>1, <2>2, SeatingKept DEF Cancel, RematchType, seatingVars, SeatingTypeOK
<1>5. ASSUME NEW c \in RematchSlots, Responds(c)
      PROVE  RematchType' /\ SeatingTypeOK'
  <2>1. req[c].game \in Games
    BY <1>5, Moves DEF Responds
  <2>2. modal' \in [Users -> Games \cup {NoGame}]
    BY <1>5, <2>1 DEF Responds, RematchType
  <2> QED BY <1>5, <2>2, SeatingKept DEF Responds, RematchType, seatingVars, SeatingTypeOK
<1>6. ASSUME NEW g \in Games, TimerFires(g) \/ KeyExpires(g)
      PROVE  RematchType' /\ SeatingTypeOK'
  <2>1. inbox' \in [Users -> Seq(Message)]
    <3>1. CASE Tell(game[g].players, [type |-> "cancelled", game |-> g])
      BY <3>1, Telling
    <3>2. CASE inbox' = inbox
      BY <3>2 DEF RematchType
    <3> QED BY <1>6, <3>1, <3>2 DEF TimerFires, KeyExpires
  <2>2. timer' \subseteq Games
    BY <1>6 DEF TimerFires, KeyExpires, RematchType
  <2> QED BY <1>6, <2>1, <2>2, SeatingKept DEF TimerFires, KeyExpires, RematchType, seatingVars, SeatingTypeOK
<1>7. ASSUME NEW u \in Users, Hears(u)
      PROVE  RematchType' /\ SeatingTypeOK'
  <2>1. inbox[u] \in Seq(Message) /\ inbox[u] # <<>>
    BY <1>7 DEF Hears, RematchType
  <2>2. Head(inbox[u]) \in Message /\ Tail(inbox[u]) \in Seq(Message)
    BY <2>1
  <2>3. Head(inbox[u]).game \in Games
    BY <2>2 DEF Message
  <2>4. modal' \in [Users -> Games \cup {NoGame}]
    BY <1>7, <2>3 DEF Hears, RematchType
  <2>5. inbox' \in [Users -> Seq(Message)]
    BY <1>7, <2>2 DEF Hears, RematchType
  <2> QED BY <1>7, <2>4, <2>5, SeatingKept DEF Hears, RematchType, seatingVars, SeatingTypeOK
<1> QED BY <1>1, <1>2, <1>3, <1>4, <1>5, <1>6, <1>7 DEF RematchNext

-----------------------------------------------------------------------------
(* Lobbies, games and sessions together. *)
TableInv == MatchInv /\ ServedInv /\ SeatingTypeOK /\ RematchType

LEMMA TablesInit ==
  ASSUME Init
  PROVE  TableInv
<1>1. SeatingTypeOK
  <2>1. Dealt = 1..1 /\ game[1] = [players |-> Users, over |-> TRUE]
    BY DEF Init, Dealt
  <2>2. [players |-> Users, over |-> TRUE] \in [players : SUBSET Users, over : BOOLEAN]
    OBVIOUS
  <2>3. \A g \in Dealt : g = 1
    BY <2>1
  <2> QED BY <2>1, <2>2, <2>3, GamesAssumption DEF Init, SeatingTypeOK
<1>2. RematchType
  BY DEF Init, RematchInit, RematchType
<1> QED BY <1>1, <1>2, MatchInit, ServedInit DEF TableInv

LEMMA TablesStep ==
  ASSUME TableInv, [Next]_vars
  PROVE  TableInv'
<1> USE DEF TableInv
<1>0. MatchInv' /\ LobbyInv /\ RematchInv /\ GamesDrawn
  BY MatchStep DEF MatchInv
<1>1. CASE LobbiesNext /\ UNCHANGED rematchVars
  BY <1>0, <1>1, ServedStep, LobbiesType, RematchTypeKept DEF rematchVars
<1>2. CASE RematchNext /\ UNCHANGED lobbyVars
  BY <1>0, <1>2, ServedKept, RematchTypeStep
<1>3. CASE GameOver
  BY <1>0, <1>3, ServedKept, EndType, RematchTypeKept DEF GameOver, rematchVars
<1>4. CASE Crash
  <2>1. RematchType'
    BY <1>4 DEF Crash, RematchCrash, RematchType
  <2> QED BY <1>0, <1>4, <2>1, ServedCrash, SeatingKept DEF Crash
<1>5. CASE Restart
  <2>1. RematchType'
    BY <1>5 DEF Restart, ResumeTimers, RematchType, Quiet
  <2> QED BY <1>0, <1>5, <2>1, ServedKept, SeatingKept DEF Restart
<1>6. CASE UNCHANGED vars
  BY <1>0, <1>6, ServedKept, SeatingKept, RematchTypeKept DEF vars, rematchVars, seatingVars, SeatingTypeOK
<1> QED BY <1>1, <1>2, <1>3, <1>4, <1>5, <1>6 DEF Next

(* The rest of the inductive invariant: what a call has read of its lobby is    *)
(* still so when it writes, a lock is held by a call that is between two writes *)
(* to that lobby, and only a leave between its two writes may keep a pointer    *)
(* without a seat or a room that was not told (lobbies.service.ts:396-422).     *)
THEOREM TableInvariant == Spec => []TableInv
BY TablesInit, TablesStep, PTL DEF Spec

(* The inductive invariant of lobbies and rematches: who is between two writes *)
(* has the lock, and what a start or a deal has read is still so when it acts  *)
(* (lobbies.service.ts, rematch.service.ts).                                   *)
THEOREM MatchInvariant == Spec => []MatchInv
<1>1. TableInv => MatchInv
  BY DEF TableInv
<1> QED BY <1>1, TableInvariant, PTL

(* While the process runs every session has its timer, also one that was found *)
(* after a restart; what a failed DEL left or a late write made has its TTL     *)
(* (RematchService.resumeTimers, armExpiryTimer, deleteUnlocked).               *)
THEOREM SessionsWatched == Spec => []SessionWatched
<1>1. MatchInv => SessionWatched
  BY DEF MatchInv, RematchInv, SessionsSound, Sound, SessionWatched
<1> QED BY <1>1, MatchInvariant, PTL

(* A lobby deals to its players as they are, all of them ready under the        *)
(* settings in force (LobbiesService.start).                                    *)
LEMMA LobbyDealsReady ==
  ASSUME MatchInv, [Next]_vars, NEW c \in Slots,
         call[c] # Idle, call[c].op = "start", game' # game, call'[c] # call[c]
  PROVE  LET l == call[c].lobby
         IN  /\ game'[Cardinality(DOMAIN game')].players = Players(l)
             /\ \A p \in Players(l) : lobby[l].ready[p]
             /\ stale[l] = {}
<1> DEFINE l == call[c].lobby
<1>1. CASE LobbiesNext
  <2>1. PICK d \in Slots : StartWrites(d)
    BY <1>1, OnlyStartsDeal DEF seatingVars
  <2>2. d = c
    BY <2>1 DEF StartWrites, Goes, Ends, MatchInv, LobbyInv, LobbyShapes
  <2>3. call[c].step = "deal" /\ \E g \in Games : CreateFromComposition(g, Players(l))
    BY <2>1, <2>2 DEF StartWrites, Serves
  <2>4. PICK g \in Games : CreateFromComposition(g, Players(l))
    BY <2>3
  <2>5. Cardinality(DOMAIN game') = g /\ game'[g].players = Players(l)
    BY <2>4, DealsNewGame DEF MatchInv, Dealt
  <2>6. l \in Lobbies /\ \A p \in Players(l) : lobby[l].ready[p]
    BY <2>3 DEF MatchInv, LobbyInv, LobbyShapes, StartsReady
  <2> QED BY <2>5, <2>6 DEF MatchInv, LobbyInv, NobodyStale
<1>2. CASE UNCHANGED lobbyVars \/ UNCHANGED vars
  BY <1>2 DEF lobbyVars, vars
<1>3. CASE Crash \/ Restart
  BY <1>3 DEF Crash, Restart
<1> QED BY <1>1, <1>2, <1>3 DEF Next, GameOver

(* Nobody is dealt into a game from a lobby without a yes to its settings       *)
(* (LobbiesService.updateSettings, setReady, start).                            *)
THEOREM LobbyStartsAgreed == Spec => LobbyAgreed
<1>1. MatchInv /\ [Next]_vars =>
        \A c \in Slots :
          (call[c] # Idle /\ call[c].op = "start" /\ game' # game /\ call'[c] # call[c])
          => LET l == call[c].lobby
             IN  /\ game'[Cardinality(DOMAIN game')].players = Players(l)
                 /\ \A p \in Players(l) : lobby[l].ready[p]
                 /\ stale[l] = {}
  BY LobbyDealsReady
<1> QED BY <1>1, MatchInvariant, PTL DEF Spec, LobbyAgreed

(* A rematch is dealt by a request whose session every player of the old game   *)
(* accepted, unless it was ended under the deal.                                *)
LEMMA RematchDealsAccepted ==
  ASSUME TableInv, [Next]_vars, NEW c \in RematchSlots, Deals(c)
  PROVE  LET g == req[c].game
         IN  /\ game[g].players \subseteq agreed[g]
             /\ g \notin overtaken => /\ Live(g) /\ session[g].accepted = game[g].players
                                      /\ game[g].players \cap spent[g] = {}
<1>0. req[c] # Quiet /\ game' # game /\ req'[c] # req[c] /\ RematchInv
  BY DEF Deals, TableInv, MatchInv
<1>1. CASE RematchNext
  <2>1. ~UNCHANGED seatingVars
    BY <1>0 DEF seatingVars
  <2>2. PICK d \in RematchSlots : Accept(d)
    BY <1>1, <2>1 DEF RematchNext, Press, InitiateOrAccept, Cancel, Responds, TimerFires, KeyExpires, Hears
  <2>3. req[d] # Quiet /\ req[d].step = "deal" /\ \E answer \in Replies : Answers(d, answer)
    <3>1. CASE req[d].step = "deal" /\ DealEnds(d, "started", "session")
      BY <2>2, <3>1 DEF Accept, DealEnds, Replies
    <3>2. CASE game' = game
      BY <1>0, <3>2
    <3> QED BY <2>2, <3>1, <3>2 DEF Accept
  <2>4. d = c
    BY <1>0, <2>3, Moves
  <2> QED BY <1>0, <2>3, <2>4 DEF RematchInv, RequestsGo, Going
<1>2. CASE UNCHANGED rematchVars \/ UNCHANGED vars
  BY <1>0, <1>2 DEF rematchVars, vars
<1>3. CASE Crash \/ Restart
  BY <1>0, <1>3 DEF Crash, Restart
<1> QED BY <1>1, <1>2, <1>3 DEF Next, GameOver

(* Nobody is dealt the next game of a table who never accepted one; and unless  *)
(* somebody who no longer waited for the lock, or the TTL, ended the session    *)
(* under the deal, it is there then, accepted by every player                   *)
(* (RematchService.acceptInternal, withLock).                                   *)
THEOREM RematchByAll == Spec => RematchAgreed
<1>1. TableInv /\ [Next]_vars =>
        \A c \in RematchSlots : Deals(c) =>
          LET g == req[c].game
          IN  /\ game[g].players \subseteq agreed[g]
              /\ g \notin overtaken => Live(g) /\ session[g].accepted = game[g].players
  BY RematchDealsAccepted
<1> QED BY <1>1, TableInvariant, PTL DEF Spec, RematchAgreed

(* No accept deals two games, also where the DEL after the first one failed and *)
(* its session is still there (RematchService.acceptInternal, deleteUnlocked).  *)
THEOREM RematchOnce == Spec => DealtOnce
<1>1. TableInv /\ [Next]_vars =>
        \A c \in RematchSlots : Deals(c) =>
          LET g == req[c].game IN g \notin overtaken => game[g].players \cap spent[g] = {}
  BY RematchDealsAccepted
<1> QED BY <1>1, TableInvariant, PTL DEF Spec, DealtOnce

-----------------------------------------------------------------------------
(* Lobbies are never empty, never over-full and under settings the game knows;  *)
(* pointers, locks, rooms, sessions and screens are of the users, lobbies and   *)
(* games there are (mergeAndValidateSettings, join, leave, updateSettings).     *)
THEOREM MatchTyped == Spec => []TypeOK
<1>1. ASSUME TableInv PROVE TypeOK
  <2> USE <1>1 DEF TableInv
  <2>1. ASSUME NEW l \in Drawn, Alive(l)
        PROVE  /\ Players(l) \in (SUBSET Users) \ {{}}
               /\ lobby[l].ready \in [Players(l) -> BOOLEAN]
               /\ \A k \in DOMAIN SettingValues : lobby[l].settings[k] \in SettingValues[k]
               /\ Cardinality(Players(l)) <= lobby[l].settings.maxPlayers
    BY <2>1, TableParts DEF ServedInv
  <2>2. Drawn \subseteq Lobbies
    BY DEF MatchInv, LobbyInv, LobbyShapes
  <2>3. /\ member \in [Users -> Lobbies \cup {NoLobby}] /\ age \in [Keys -> 0..1]
        /\ index \subseteq Drawn /\ lock \in [Lobbies -> Slots \cup {Nobody}]
        /\ rooms \in [Lobbies -> SUBSET Users]
    BY <2>2 DEF ServedInv, LobbyType
  <2>4. \A g \in Games : Live(g) => session[g].accepted \subseteq Users
    BY DEF MatchInv, RematchInv, SessionsSound, Sound, Session
  <2> QED BY <2>1, <2>2, <2>3, <2>4 DEF TypeOK, RematchType
<1>2. TableInv => TypeOK
  BY <1>1
<1> QED BY <1>2, TableInvariant, PTL

(* A user who is led to a lobby has a seat there, and who is in its room has    *)
(* been sent the lobby as it is, whatever ran against what                      *)
(* (LobbiesService.join, leave, updateSettings, setReady and its gateway).      *)
THEOREM MembersAreServed == Spec => []MembersServed
<1>1. ASSUME TableInv PROVE MembersServed
  <2>1. PointerHonest
    <3> SUFFICES ASSUME crashes = 0, NEW u \in Users, NEW l, l = member[u], l # NoLobby, Alive(l), lock[l] = Nobody
                 PROVE  Seated(u, l)
      BY DEF PointerHonest
    <3>1. l \in Lobbies
      BY <1>1 DEF TableInv, MatchInv, LobbyInv, LobbyShapes, Alive
    <3> QED BY <1>1, <3>1 DEF TableInv, ServedInv, Pointed, Clearing
  <2>2. RoomInformed
    BY <1>1 DEF RoomInformed, TableInv, ServedInv, Told, Clearing
  <2> QED BY <2>1, <2>2 DEF MembersServed
<1>2. TableInv => MembersServed
  BY <1>1
<1> QED BY <1>2, TableInvariant, PTL

=============================================================================
