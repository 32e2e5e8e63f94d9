------------------------------- MODULE Lobbies -------------------------------
(***************************************************************************)
(* Lobbies: lobbies.service.ts behind lobbies.gateway.ts and               *)
(* lobbies.controller.ts.  A lobby lives in Redis with a TTL of an hour,   *)
(* next to one pointer `userInLobby:<userId>` per member and a public      *)
(* index of lobby ids.  Each operation on a lobby runs under a lock of its *)
(* own; creating a lobby takes no lock, and the pointers are shared by all *)
(* lobbies, so operations of one user on two lobbies do interleave.        *)
(*                                                                         *)
(* A call is a record in a slot; between two steps of a call the process   *)
(* awaits Redis or Postgres and the calls in the other slots may run.      *)
(***************************************************************************)
EXTENDS Seating

CONSTANTS Lobbies,      \* lobby ids; random in the code, never drawn twice
          NoLobby,      \* no pointer
          Slots,        \* calls that may be under way at once
          Nobody,       \* a lock that is free
          Patches,      \* settings patches a client may send
          DefaultSettings,
          SettingValues,  \* setting -> the values the validation accepts
          MaxCrashes    \* bound: crashes of the API process

(* What a call is, and where it stands. *)
Call ==
  [op : {"create", "join", "leave", "leaveCurrent", "start"}, user : Users,
   lobby : Lobbies \cup {NoLobby}, arg : Patches \cup {Null},
   step : {"write", "wait", "clear", "deal", "unlist", "drop"}]

(* LOBBY_PLAYER_COUNTS are positive numbers. *)
ASSUME LobbiesAssumption ==
  /\ NoLobby \notin Lobbies
  /\ Nobody \notin Slots
  /\ Null \notin Call
  /\ MaxCrashes \in Nat
  /\ DOMAIN DefaultSettings = DOMAIN SettingValues
  /\ "maxPlayers" \in DOMAIN DefaultSettings
  /\ SettingValues.maxPlayers \subseteq Nat \ {0}

VARIABLES lobby,    \* lobby:<id>, for the ids drawn so far
          member,   \* userInLobby:<userId>
          age,      \* half hours since the TTL of a key was refreshed
          index,    \* lobbies:index
          lock,     \* lobby-lock:<id>
          call,     \* the calls under way
          rooms,    \* users whose socket is in the room lobby:<id>
          informed, \* of these, the ones that saw the lobby as it is now
          stale,    \* history: ready flags given for other settings
          crashes   \* crashes so far

lobbyVars == <<lobby, member, age, index, lock, call, rooms, informed, stale, crashes>>

Gone == Null
Idle == Null
Refused == Null

Drawn == DOMAIN lobby
Alive(l) == l \in Drawn /\ lobby[l] # Gone
Players(l) == DOMAIN lobby[l].ready
Seated(u, l) == Alive(l) /\ u \in Players(l)

Keys == Lobbies \cup Users

-----------------------------------------------------------------------------
(* Settings. *)

(* The record with the settings of the patch in it. *)
Patched(base, patch) ==
  [k \in DOMAIN base |-> IF k \in DOMAIN patch THEN patch[k] ELSE base[k]]

(* Mutant: only the names of a patch are validated. *)
mergeAndValidateSettings_NamesOnly(base, patch) ==
  IF DOMAIN patch \subseteq DOMAIN DefaultSettings THEN Patched(base, patch) ELSE Refused

(* mergeAndValidateSettings: a patch may name only settings that exist, and
   every setting of the merged record must be one the game knows. *)
mergeAndValidateSettings(base, patch) ==
  LET merged == Patched(base, patch)
  IN  IF /\ DOMAIN patch \subseteq DOMAIN DefaultSettings
         /\ \A k \in DOMAIN SettingValues : merged[k] \in SettingValues[k]
      THEN merged
      ELSE Refused

-----------------------------------------------------------------------------
(* Calls and locks.  withLock retries SET NX every 20 ms and deletes the key by
   a compare-and-delete; a call enters a step below once it has the lock.  One
   that waits longer than a second, because a process died with the lock, fails
   with LobbyBusyError and changes nothing. *)

Serves(c, op, step) == up /\ call[c] # Idle /\ call[c].op = op /\ call[c].step = step

Starts(c, op, u, l, arg, step) ==
  /\ up
  /\ call[c] = Idle
  /\ call' = [call EXCEPT ![c] =
                [op |-> op, user |-> u, lobby |-> l, arg |-> arg, step |-> step]]

Goes(c, step) == call' = [call EXCEPT ![c].step = step]

Ends(c) ==
  /\ call' = [call EXCEPT ![c] = Idle]
  /\ lock' = [l \in Lobbies |-> IF lock[l] = c THEN Nobody ELSE lock[l]]

Locks(c, l) ==
  /\ lock[l] = Nobody
  /\ lock' = [lock EXCEPT ![l] = c]

Unlocked(l) == up /\ lock[l] = Nobody

(* Mutant: a pointer is kept when the seat goes. *)
ClearMembership_Kept(u, l) == UNCHANGED member

(* clearUserMembership: the pointer goes only while it names this lobby. *)
ClearMembership(u, l) ==
  member' = [member EXCEPT ![u] = IF @ = l THEN NoLobby ELSE @]

(* persist: the TTL of the lobby and of its players' pointers starts again; a
   joiner gets a pointer. *)
Persist(l, rec, joiners) ==
  /\ lobby' = [lobby EXCEPT ![l] = rec]
  /\ member' = [u \in Users |-> IF u \in joiners THEN l ELSE member[u]]
  /\ age' = [k \in Keys |-> IF k = l \/ k \in DOMAIN rec.ready THEN 0 ELSE age[k]]

-----------------------------------------------------------------------------
(* The operations. *)

(* create: the pointer is read, the settings checked and the profile fetched;
   then one multi writes lobby, pointer and index entry. *)
CreateReads(c, u) ==
  /\ member[u] = NoLobby
  /\ \E p \in Patches :
       /\ mergeAndValidateSettings(DefaultSettings, p) # Refused
       /\ Starts(c, "create", u, NoLobby, p, "write")
  /\ UNCHANGED <<lobby, member, age, index, lock, rooms, informed, stale, crashes, seatingVars>>

CreateWrites(c) ==
  LET u == call[c].user
  IN  /\ Serves(c, "create", "write")
      /\ \E l \in Lobbies \ Drawn :
           /\ lobby' = [k \in Drawn \cup {l} |->
                IF k # l THEN lobby[k]
                ELSE [settings |-> mergeAndValidateSettings(DefaultSettings, call[c].arg),
                      ready |-> [p \in {u} |-> FALSE]]]
           /\ member' = [member EXCEPT ![u] = l]
           /\ age' = [age EXCEPT ![l] = 0, ![u] = 0]
           /\ index' = index \cup {l}
      /\ Ends(c)
      /\ UNCHANGED <<rooms, informed, stale, crashes, seatingVars>>

(* join: refused while the pointer names another lobby or the lobby is full;
   who has a seat already gets the TTLs refreshed (touch) and the lobby; the
   others are written in.  The pointer is checked under the lock of this lobby
   only.  Afterwards the gateway puts the socket in the room. *)
JoinReads(c, u, l) ==
  /\ Alive(l)
  /\ Unlocked(l)
  /\ member[u] \in {NoLobby, l}
  /\ \/ /\ Seated(u, l)
        /\ age' = [age EXCEPT ![l] = 0, ![u] = 0]
        /\ rooms' = [rooms EXCEPT ![l] = @ \cup {u}]
        /\ informed' = [informed EXCEPT ![l] = @ \cup {u}]
        /\ UNCHANGED <<lock, call>>
     \/ /\ ~Seated(u, l)
        /\ Cardinality(Players(l)) < lobby[l].settings.maxPlayers
        /\ Locks(c, l)
        /\ Starts(c, "join", u, l, Null, "write")
        /\ UNCHANGED <<age, rooms, informed>>
  /\ UNCHANGED <<lobby, member, index, stale, crashes, seatingVars>>

JoinWrites(c) ==
  LET u == call[c].user
      l == call[c].lobby
  IN  /\ Serves(c, "join", "write")
      /\ Persist(l, [lobby[l] EXCEPT !.ready =
                       [p \in Players(l) \cup {u} |-> IF p = u THEN FALSE ELSE @[p]]], {u})
      /\ rooms' = [rooms EXCEPT ![l] = @ \cup {u}]
      /\ informed' = [informed EXCEPT ![l] = rooms[l] \cup {u}]
      /\ Ends(c)
      /\ UNCHANGED <<index, stale, crashes, seatingVars>>

(* leaveCurrent, the way out over REST: the pointer is read before the lock of
   the lobby it names is taken. *)
LeaveCurrent(c, u) ==
  /\ member[u] # NoLobby
  /\ Starts(c, "leaveCurrent", u, member[u], Null, "wait")
  /\ UNCHANGED <<lobby, member, age, index, lock, rooms, informed, stale, crashes, seatingVars>>

(* leave without a seat: a stray pointer is cleared. *)
LeaveStray(c, u, l, ofSocket) ==
  /\ Unlocked(l)
  /\ ~Seated(u, l)
  /\ ClearMembership(u, l)
  /\ rooms' = [rooms EXCEPT ![l] = IF ofSocket THEN @ \ {u} ELSE @]
  /\ informed' = [informed EXCEPT ![l] = @ \cap rooms'[l]]
  /\ call' = [call EXCEPT ![c] = Idle]
  /\ UNCHANGED <<lobby, age, index, lock, stale, crashes, seatingVars>>

(* leave with a seat: the seat goes first, the pointer after it; the last one
   out takes the lobby along. *)
LeaveSeat(c, u, l, op) ==
  LET rest == Players(l) \ {u}
  IN  /\ Seated(u, l)
      /\ up
      /\ Locks(c, l)
      /\ IF rest = {}
         THEN /\ lobby' = [lobby EXCEPT ![l] = Gone]
              /\ index' = index \ {l}
              /\ UNCHANGED <<member, age>>
         ELSE /\ Persist(l, [lobby[l] EXCEPT !.ready = [p \in rest |-> @[p]]], {})
              /\ UNCHANGED index
      /\ informed' = [informed EXCEPT ![l] = {}]
      /\ stale' = [stale EXCEPT ![l] = @ \ {u}]
      /\ call' = [call EXCEPT ![c] = [op |-> op, user |-> u, lobby |-> l,
                                      arg |-> Null, step |-> "clear"]]
      /\ UNCHANGED <<rooms, crashes, seatingVars>>

LeaveClears(c) ==
  LET u == call[c].user
      l == call[c].lobby
  IN  /\ \/ Serves(c, "leave", "clear") /\ rooms' = [rooms EXCEPT ![l] = @ \ {u}]
         \/ Serves(c, "leaveCurrent", "clear") /\ UNCHANGED rooms
      /\ ClearMembership(u, l)
      /\ informed' = [informed EXCEPT ![l] = rooms'[l]]
      /\ Ends(c)
      /\ UNCHANGED <<lobby, age, index, stale, crashes, seatingVars>>

(* Over the socket, or the rest of leaveCurrent. *)
Leave(c) ==
  \/ \E u \in Users, l \in Drawn :
       /\ call[c] = Idle
       /\ u \in rooms[l]
       /\ LeaveStray(c, u, l, TRUE) \/ LeaveSeat(c, u, l, "leave")
  \/ /\ Serves(c, "leaveCurrent", "wait")
     /\ \/ LeaveStray(c, call[c].user, call[c].lobby, FALSE)
        \/ LeaveSeat(c, call[c].user, call[c].lobby, "leaveCurrent")
  \/ LeaveClears(c)

(* Mutant: the ready flags survive a change of settings. *)
UpdateSettings_ReadyKept(u, l, patch) ==
  LET merged == mergeAndValidateSettings(lobby[l].settings, patch)
  IN  /\ Seated(u, l)
      /\ Unlocked(l)
      /\ merged # Refused
      /\ merged.maxPlayers >= Cardinality(Players(l))
      /\ Persist(l, [lobby[l] EXCEPT !.settings = merged], {})
      /\ informed' = [informed EXCEPT ![l] = rooms[l]]
      /\ stale' = [stale EXCEPT ![l] =
                     {p \in Players(l) : lobby'[l].ready[p]
                                         /\ (p \in @ \/ merged # lobby[l].settings)}]
      /\ UNCHANGED <<index, lock, call, rooms, crashes, seatingVars>>

(* updateSettings: by any member, as long as everybody still has room; everybody
   has to get ready again.  What it reads and writes is under the lock. *)
UpdateSettings(u, l, patch) ==
  LET merged == mergeAndValidateSettings(lobby[l].settings, patch)
  IN  /\ Seated(u, l)
      /\ Unlocked(l)
      /\ merged # Refused
      /\ merged.maxPlayers >= Cardinality(Players(l))
      /\ Persist(l, [settings |-> merged, ready |-> [p \in Players(l) |-> FALSE]], {})
      /\ informed' = [informed EXCEPT ![l] = rooms[l]]
      /\ stale' = [stale EXCEPT ![l] =
                     {p \in Players(l) : lobby'[l].ready[p]
                                         /\ (p \in @ \/ merged # lobby[l].settings)}]
      /\ UNCHANGED <<index, lock, call, rooms, crashes, seatingVars>>

(* Mutant: a ready flag is written without a broadcast. *)
SetReady_Untold(u, l, ready) ==
  /\ Seated(u, l)
  /\ Unlocked(l)
  /\ lobby[l].ready[u] # ready
  /\ Persist(l, [lobby[l] EXCEPT !.ready[u] = ready], {})
  /\ informed' = [informed EXCEPT ![l] = {u}]
  /\ stale' = [stale EXCEPT ![l] = @ \ {u}]
  /\ UNCHANGED <<index, lock, call, rooms, crashes, seatingVars>>

(* setReady: the flag of the caller; nothing is written when it is as asked. *)
SetReady(u, l, ready) ==
  /\ Seated(u, l)
  /\ Unlocked(l)
  /\ lobby[l].ready[u] # ready
  /\ Persist(l, [lobby[l] EXCEPT !.ready[u] = ready], {})
  /\ informed' = [informed EXCEPT ![l] = rooms[l]]
  /\ stale' = [stale EXCEPT ![l] = @ \ {u}]
  /\ UNCHANGED <<index, lock, call, rooms, crashes, seatingVars>>

(* start: deal a game, take the lobby off the list, drop it together with the
   pointers of its players, tell the room.  Three writes, a crash between any
   two.  A deal that fails leaves the lobby as it was. *)
StartReads(c, u, l) ==
  /\ Seated(u, l)
  /\ Cardinality(Players(l)) >= 2
  /\ \A p \in Players(l) : lobby[l].ready[p]
  /\ Locks(c, l)
  /\ Starts(c, "start", u, l, Null, "deal")
  /\ UNCHANGED <<lobby, member, age, index, rooms, informed, stale, crashes, seatingVars>>

StartWrites(c) ==
  LET l == call[c].lobby
  IN  /\ \/ /\ Serves(c, "start", "deal")
            /\ \/ /\ \E g \in Games : CreateFromComposition(g, Players(l))
                  /\ Goes(c, "unlist")
                  /\ UNCHANGED lock
               \/ Ends(c) /\ UNCHANGED <<game, inGame>>
            /\ UNCHANGED <<lobby, member, index, rooms, informed>>
         \/ /\ Serves(c, "start", "unlist")
            /\ index' = index \ {l}
            /\ Goes(c, "drop")
            /\ UNCHANGED <<lobby, member, lock, rooms, informed, game, inGame>>
         \/ /\ Serves(c, "start", "drop")
            /\ member' = [p \in Users |-> IF p \in Players(l) THEN NoLobby
                                                              ELSE member[p]]
            /\ lobby' = [lobby EXCEPT ![l] = Gone]
            /\ rooms' = [rooms EXCEPT ![l] = {}]
            /\ informed' = [informed EXCEPT ![l] = {}]
            /\ Ends(c)
            /\ UNCHANGED <<index, game, inGame>>
      /\ UNCHANGED <<age, stale, crashes, up>>

(* list: ids whose lobby is gone are swept from the index. *)
List ==
  /\ up
  /\ \E l \in index : ~Alive(l)
  /\ index' = {l \in index : Alive(l)}
  /\ UNCHANGED <<lobby, member, age, lock, call, rooms, informed, stale,
                 crashes, seatingVars>>

-----------------------------------------------------------------------------
(* Time and faults. *)

(* Half an hour passes: keys that were not refreshed for two of these expire.
   A call takes milliseconds, so none is under way. *)
HalfHour ==
  /\ crashes = 0
  /\ \A c \in Slots : call[c] = Idle
  /\ \A l \in Lobbies : lock[l] = Nobody
  /\ lobby' = [l \in Drawn |-> IF age[l] = 1 THEN Gone ELSE lobby[l]]
  /\ member' = [u \in Users |-> IF age[u] = 1 THEN NoLobby ELSE member[u]]
  /\ age' = [k \in Keys |->
               IF age[k] = 0 /\ (IF k \in Users THEN member[k] # NoLobby
                                                ELSE Alive(k))
               THEN 1 ELSE 0]
  /\ UNCHANGED <<index, lock, call, rooms, informed, stale, crashes,
                 seatingVars>>

(* The process dies with its calls and sockets; the locks it held expire while
   it is down.  Bound: not after a half hour of silence. *)
LobbiesCrash ==
  /\ crashes < MaxCrashes
  /\ \A k \in Keys : age[k] = 0
  /\ crashes' = crashes + 1
  /\ call' = [c \in Slots |-> Idle]
  /\ lock' = [l \in Lobbies |-> Nobody]
  /\ rooms' = [l \in Lobbies |-> {}]
  /\ informed' = [l \in Lobbies |-> {}]
  /\ UNCHANGED <<lobby, member, age, index, stale>>

-----------------------------------------------------------------------------
LobbiesInit ==
  /\ lobby = <<>>
  /\ member = [u \in Users |-> NoLobby]
  /\ age = [k \in Keys |-> 0]
  /\ index = {}
  /\ lock = [l \in Lobbies |-> Nobody]
  /\ call = [c \in Slots |-> Idle]
  /\ rooms = [l \in Lobbies |-> {}]
  /\ informed = [l \in Lobbies |-> {}]
  /\ stale = [l \in Lobbies |-> {}]
  /\ crashes = 0

LobbiesNext ==
  \/ \E c \in Slots :
       \/ \E u \in Users : CreateReads(c, u) \/ LeaveCurrent(c, u)
       \/ \E u \in Users, l \in Drawn : JoinReads(c, u, l)
       \/ \E l \in Drawn : \E u \in rooms[l] : StartReads(c, u, l)
       \/ CreateWrites(c)
       \/ JoinWrites(c)
       \/ Leave(c)
       \/ StartWrites(c)
  \/ \E l \in Drawn : \E u \in rooms[l] :
       \/ \E p \in Patches : UpdateSettings(u, l, p)
       \/ \E r \in BOOLEAN : SetReady(u, l, r)
  \/ List
  \/ HalfHour

=============================================================================
