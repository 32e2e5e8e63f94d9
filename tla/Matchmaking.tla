----------------------------- MODULE Matchmaking -----------------------------
(***************************************************************************)
(* How people get to a table: Lobbies and Rematch side by side in one API  *)
(* process, both dealing games through createFromComposition.              *)
(***************************************************************************)
EXTENDS Lobbies, Rematch

vars == <<lobbyVars, rematchVars, seatingVars>>

(* Everybody has just finished a game together, and nobody is in a lobby. *)
Init ==
  /\ game = <<[players |-> Users, over |-> TRUE]>>
  /\ inGame = [u \in Users |-> NoGame]
  /\ up = TRUE
  /\ LobbiesInit
  /\ RematchInit

GameOver == \E g \in Games : GameEnds(g) /\ UNCHANGED <<lobbyVars, rematchVars>>

Crash ==
  /\ up
  /\ up' = FALSE
  /\ LobbiesCrash
  /\ RematchCrash
  /\ UNCHANGED <<game, inGame>>

(* onModuleInit of the two gateways. *)
Restart ==
  /\ ~up
  /\ up' = TRUE
  /\ ResumeTimers
  /\ UNCHANGED <<lobbyVars, game, inGame>>

Next ==
  \/ LobbiesNext /\ UNCHANGED rematchVars
  \/ RematchNext /\ UNCHANGED lobbyVars
  \/ GameOver
  \/ Crash
  \/ Restart

Spec == Init /\ [][Next]_vars

-----------------------------------------------------------------------------
TypeOK ==
  /\ SeatingTypeOK
  /\ Drawn \subseteq Lobbies
  /\ \A l \in Drawn : Alive(l) =>
       /\ Players(l) \in (SUBSET Users) \ {{}}
       /\ lobby[l].ready \in [Players(l) -> BOOLEAN]
       /\ \A k \in DOMAIN SettingValues : lobby[l].settings[k] \in SettingValues[k]
       /\ Cardinality(Players(l)) <= lobby[l].settings.maxPlayers
  /\ member \in [Users -> Lobbies \cup {NoLobby}]
  /\ age \in [Keys -> 0..1]
  /\ index \subseteq Drawn
  /\ lock \in [Lobbies -> Slots \cup {Nobody}]
  /\ rooms \in [Lobbies -> SUBSET Users]
  /\ \A g \in Games : Live(g) => session[g].accepted \subseteq Users
  /\ timer \subseteq Games
  /\ modal \in [Users -> Games \cup {NoGame}]

(* A pointer tells the truth: a user whose userInLobby names a lobby that
   exists has a seat there, whatever creations, joins, leaves and starts ran
   against one another; only a leave under way, or one that a crash cut, has
   taken the seat and not yet the pointer (lobbies.service.ts:396-422). *)
PointerHonest ==
  crashes = 0 =>
    \A u \in Users :
      LET l == member[u]
      IN  (l # NoLobby /\ Alive(l) /\ lock[l] = Nobody) => Seated(u, l)

(* Whoever is in the room of a lobby has been sent the lobby as it is, once no
   operation on it is under way (lobbies.gateway.ts:226-260). *)
RoomInformed ==
  \A l \in Lobbies : (Alive(l) /\ lock[l] = Nobody) => rooms[l] \subseteq informed[l]

(* The two together: a member is led to a seat, and sees the lobby as it is. *)
MembersServed == PointerHonest /\ RoomInformed

(* A request of the rematch service deals a game. *)
Deals(c) == req[c] # Quiet /\ game' # game /\ req'[c] # req[c]

(* Nobody is dealt into a game from a lobby without a yes: each of its players
   is ready, and got ready under the settings the game is played with; whoever
   joined, left or changed the settings meanwhile (lobbies.service.ts:424-509). *)
LobbyAgreed ==
  [][\A c \in Slots :
       (call[c] # Idle /\ call[c].op = "start" /\ game' # game /\ call'[c] # call[c])
       => LET l == call[c].lobby
          IN  /\ game'[Cardinality(DOMAIN game')].players = Players(l)
              /\ \A p \in Players(l) : lobby[l].ready[p]
              /\ stale[l] = {}
    ]_vars

(* The last accept of a rematch deals with the lock in hand, and everybody else
   stops respecting that lock after a second.  Nobody is dealt a game who never
   accepted one, however cancels, expiries and accepts overtake the deal; and
   unless the session was ended under it, it is there when the game is dealt,
   with the accept of every player (rematch.service.ts:304-395, 492-524). *)
RematchAgreed ==
  [][\A c \in RematchSlots : Deals(c) =>
       LET g == req[c].game
       IN  /\ game[g].players \subseteq agreed[g]
           /\ g \notin overtaken =>
                Live(g) /\ session[g].accepted = game[g].players
    ]_vars

(* No accept deals two games: also where the DEL after a deal failed and the
   session, complete, outlives the game it dealt, the players who press again
   are not dealt another one; a session ended under its deal is excepted
   (rematch.service.ts:331-334, 364-366, 431-433). *)
DealtOnce ==
  [][\A c \in RematchSlots : Deals(c) =>
       LET g == req[c].game
       IN  g \notin overtaken => game[g].players \cap spent[g] = {}
    ]_vars

(* A session that lives is watched: while the process runs there is a timer for
   it, also after a restart; only one that a failed DEL left behind, or that a
   late write made anew, has nothing but its TTL (rematch.service.ts:278-300,
   431-433). *)
SessionWatched ==
  up => \A g \in Games : Live(g) => g \in timer \cup stray

(* What shared-types says of the end of a session: the screens are cleared by
   a broadcast.  When nothing is on its way any more, a screen that shows a
   session shows one that lives. *)
ModalMeansSession ==
  (/\ \A u \in Users : inbox[u] = <<>>
   /\ \A c \in RematchSlots : req[c] = Quiet
   /\ crashes = 0)
  => \A u \in Users : modal[u] # NoGame => Live(modal[u])

(* userInLobby is "used to enforce single-membership": nobody has a seat in two
   lobbies. *)
SingleMembership ==
  \A u \in Users : \A k, l \in Lobbies : Seated(u, k) /\ Seated(u, l) => k = l

=============================================================================
