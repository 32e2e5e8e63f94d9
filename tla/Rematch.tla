------------------------------- MODULE Rematch -------------------------------
(***************************************************************************)
(* Playing again: rematch.service.ts with its controller, the fan-out of   *)
(* games.gateway.ts, and on the other side RematchListener.tsx,            *)
(* RematchModal.tsx and their hooks.  A session lives in Redis under       *)
(* `rematch:<sourceGameId>` with a TTL of 90 seconds, beside a timer in    *)
(* memory that is to end it aloud.  When the last player accepted, the     *)
(* service deals the next game under the session's lock.                   *)
(*                                                                         *)
(* A client hears of a session twice: over its socket, in the order the    *)
(* server emitted, and in the response to its own request, which travels   *)
(* on another connection.                                                  *)
(***************************************************************************)
EXTENDS Seating, Sequences

CONSTANTS RematchSlots,  \* requests that may be under way at once
          MaxPresses     \* bound: buttons pressed

Session == [accepted : SUBSET Users, outlives : BOOLEAN]

Steps == {"read", "create", "reread", "lock", "write", "deal", "answered"}

Replies == {"session", "done", "error"}

Request == [op : {"initiate", "accept", "cancel"}, user : Users, game : Games,
            answer : Replies \cup {""}, saw : SUBSET Users, step : Steps]

ASSUME RematchAssumption ==
  /\ MaxPresses \in Nat
  /\ Null \notin RematchSlots \cup Session \cup Request

VARIABLES session,   \* rematch:<sourceGameId>
          timer,     \* games with an expiry timer in memory
          rlock,     \* rematch-lock:<sourceGameId>
          req,       \* the requests under way
          inbox,     \* events on their way to a user's socket
          modal,     \* the session a user's screen shows
          presses,   \* buttons pressed so far
          agreed,    \* history: who accepted a session of the game, ever
          spent,     \* history: whose last accept has been dealt already
          overtaken, \* history: games whose session was ended while it dealt
          stray      \* history: games whose session may have lost its timer

historyVars == <<agreed, spent, overtaken, stray>>

rematchVars == <<session, timer, rlock, req, inbox, modal, presses, historyVars>>

NoSession == Null
Free == Null
Quiet == Null

Live(g) == session[g] # NoSession

Tell(users, message) ==
  inbox' = [u \in Users |-> IF u \in users THEN Append(inbox[u], message)
                                           ELSE inbox[u]]

Step(c, step) == req' = [req EXCEPT ![c].step = step]

(* The response to a request: "session" carries the session, "done" the end of
   a cancel, "error" anything the service threw. *)
Answers(c, answer) ==
  req' = [req EXCEPT ![c] = [@ EXCEPT !.step = "answered", !.answer = answer]]

(* What a request has read of the session, to write it in its next step. *)
Reads(c, users) ==
  req' = [req EXCEPT ![c] = [@ EXCEPT !.step = "write", !.saw = users]]

(* The TTL of a key written by SET NX runs out before its timer; that of one
   written by an accept, rounded up, after it. *)
Accepted(users, outlives) == [accepted |-> users, outlives |-> outlives]

Agrees(g, u) ==
  /\ agreed' = [agreed EXCEPT ![g] = @ \cup {u}]
  /\ spent' = [spent EXCEPT ![g] = @ \ {u}]

(* deleteUnlocked: a DEL that fails is swallowed, and the key stays. *)
DeletesSession(g) ==
  \/ session' = [session EXCEPT ![g] = NoSession] /\ UNCHANGED stray
  \/ Live(g) /\ stray' = stray \cup {g} /\ UNCHANGED session

(* withLock: who has tried for a second goes on without the lock.  Another call
   holds it for that long only while it deals: before, it reads and writes one
   key.  Who goes on after the lock's own TTL does no more than this one. *)
Held(g) == rlock[g] # Free

(* Somebody other than the call that deals ends the session. *)
EndsUnderDeal(g) ==
  overtaken' = IF Live(g) /\ Held(g) THEN overtaken \cup {g} ELSE overtaken

-----------------------------------------------------------------------------
(* A button is pressed: play again on the page of a finished game, accept or
   cancel on the modal.  Each is disabled while its own request is under way. *)
Press(c, u) ==
  LET request(op, g) ==
        /\ \A d \in RematchSlots : req[d] # Quiet => <<req[d].user, req[d].op>> # <<u, op>>
        /\ req' = [req EXCEPT ![c] = [op |-> op, user |-> u, game |-> g, answer |-> "", saw |-> {},
                                      step |-> IF op = "cancel" THEN "lock" ELSE "read"]]
  IN  /\ req[c] = Quiet
      /\ up /\ presses < MaxPresses
      /\ \/ \E g \in Dealt : Finished(g) /\ u \in game[g].players
                             /\ request("initiate", g)
         \/ /\ modal[u] # NoGame
            /\ \E op \in {"accept", "cancel"} : request(op, modal[u])
      /\ presses' = presses + 1
      /\ UNCHANGED <<session, timer, rlock, inbox, modal, historyVars, seatingVars>>

(* initiateOrAccept: an existing session is accepted; else the source game is
   looked up, the session made with SET NX, the timer armed and the other
   players invited.  Who loses the race accepts the winner's session. *)
InitiateOrAccept(c) ==
  LET g == req[c].game
      u == req[c].user
      others == game[g].players \ {u}
  IN  /\ up /\ req[c] # Quiet /\ req[c].op = "initiate"
      /\ \/ /\ req[c].step = "read"
            /\ Step(c, IF Live(g) THEN "lock" ELSE "create")
            /\ UNCHANGED <<session, timer, inbox, agreed, spent, stray>>
         \/ /\ req[c].step = "create" /\ ~Live(g)
            /\ session' = [session EXCEPT ![g] = Accepted({u}, FALSE)]
            /\ Agrees(g, u)
            /\ stray' = stray \ {g}
            /\ timer' = timer \cup {g}
            /\ Tell(others, [type |-> "invited", game |-> g])
            /\ Answers(c, "session")
         \/ /\ req[c].step = "create" /\ Live(g)
            /\ Step(c, "reread")
            /\ UNCHANGED <<session, timer, inbox, agreed, spent, stray>>
         \/ /\ req[c].step = "create"      \* the window of 30 minutes closed
            /\ Answers(c, "error")
            /\ UNCHANGED <<session, timer, inbox, agreed, spent, stray>>
         \/ /\ req[c].step = "reread"
            /\ IF Live(g) THEN Step(c, "lock") ELSE Answers(c, "error")
            /\ UNCHANGED <<session, timer, inbox, agreed, spent, stray>>
      /\ UNCHANGED <<rlock, modal, presses, overtaken, seatingVars>>

(* Mutant: the deal is moved out of the lock. *)
Joins_DealUnlocked(c, read, locked) ==
  LET g == req[c].game
      accepted == read \cup {req[c].user}
  IN  /\ session' = [session EXCEPT ![g] = Accepted(accepted, TRUE)]
      /\ Agrees(g, req[c].user)
      /\ IF accepted = game[g].players
         THEN Step(c, "deal") /\ UNCHANGED inbox
         ELSE /\ Tell(game[g].players, [type |-> "updated", game |-> g])
              /\ Answers(c, "session")
      /\ UNCHANGED rlock

(* The caller joins those who accepted, as they were read, and the session is
   written with what is left of its time.  The last one to accept goes on to
   deal, under the lock if it has got it; the others tell everybody. *)
Joins(c, read, locked) ==
  LET g == req[c].game
      accepted == read \cup {req[c].user}
  IN  /\ session' = [session EXCEPT ![g] = Accepted(accepted, TRUE)]
      /\ Agrees(g, req[c].user)
      /\ IF accepted = game[g].players
         THEN /\ rlock' = IF locked THEN [rlock EXCEPT ![g] = c] ELSE rlock
              /\ Step(c, "deal")
              /\ UNCHANGED inbox
         ELSE /\ Tell(game[g].players, [type |-> "updated", game |-> g])
              /\ Answers(c, "session")
              /\ UNCHANGED rlock

(* The end of a deal, well or badly: the session goes, whichever it is by now,
   with its timer, and the lock if it is still the caller's. *)
DealEnds(c, type, answer) ==
  LET g == req[c].game
  IN  /\ DeletesSession(g)
      /\ timer' = timer \ {g}
      /\ rlock' = [rlock EXCEPT ![g] = IF @ = c THEN Free ELSE @]
      /\ Tell(game[g].players, [type |-> type, game |-> g])
      /\ Answers(c, answer)

(* REMATCH_EXPIRED, NOT_A_PARTICIPANT. *)
Barred(c) ==
  LET g == req[c].game IN ~Live(g) \/ req[c].user \notin game[g].players

(* Mutant: there is no short-circuit for who accepted already. *)
Counted_Never(c) == FALSE

(* Idempotent: who accepted already is answered with the session. *)
Counted(c) == req[c].user \in session[req[c].game].accepted

(* accept and acceptInternal: under the lock, or after a second without it, the
   session is read again and written; without it others come in between. *)
Accept(c) ==
  LET g == req[c].game
      u == req[c].user
  IN  /\ up /\ req[c] # Quiet /\ req[c].op \in {"initiate", "accept"}
      /\ \/ /\ req[c].op = "accept" /\ req[c].step = "read"
            /\ IF Live(g) THEN Step(c, "lock") ELSE Answers(c, "error")
            /\ UNCHANGED <<session, timer, rlock, inbox, agreed, spent, stray, game, inGame>>
         \/ /\ req[c].step = "lock"
            /\ IF Barred(c)
               THEN /\ Answers(c, "error")
                    /\ UNCHANGED <<session, rlock, inbox, agreed, spent>>
               ELSE IF Counted(c)
               THEN /\ Answers(c, "session")
                    /\ UNCHANGED <<session, rlock, inbox, agreed, spent>>
               ELSE IF Held(g)
               THEN /\ Reads(c, session[g].accepted)
                    /\ UNCHANGED <<session, rlock, inbox, agreed, spent>>
               ELSE Joins(c, session[g].accepted, TRUE)
            /\ UNCHANGED <<timer, stray, game, inGame>>
         \/ /\ req[c].step = "write"
            /\ Joins(c, req[c].saw, FALSE)
            /\ stray' = IF Live(g) THEN stray ELSE stray \cup {g}
            /\ UNCHANGED <<timer, game, inGame>>
         \/ /\ req[c].step = "deal"
            /\ \E n \in Games : CreateFromComposition(n, game[g].players)
            /\ DealEnds(c, "started", "session")
            /\ spent' = [spent EXCEPT ![g] = @ \cup game[g].players]
            /\ UNCHANGED agreed
         \/ /\ req[c].step = "deal"        \* the deal failed: spawn_failed
            /\ DealEnds(c, "cancelled", "error")
            /\ UNCHANGED <<agreed, spent, game, inGame>>
      /\ UNCHANGED <<modal, presses, overtaken, up>>

(* cancel: any player ends the session, for everybody; after a second also in
   the middle of a deal, which goes on. *)
Cancel(c) ==
  LET g == req[c].game
  IN  /\ up /\ req[c] # Quiet /\ req[c].op = "cancel"
      /\ req[c].step = "lock"
      /\ IF Live(g)
         THEN /\ DeletesSession(g)
              /\ EndsUnderDeal(g)
              /\ timer' = timer \ {g}
              /\ Tell(game[g].players, [type |-> "cancelled", game |-> g])
         ELSE UNCHANGED <<session, timer, inbox, overtaken, stray>>
      /\ Answers(c, "done")
      /\ UNCHANGED <<rlock, modal, presses, agreed, spent, seatingVars>>

(* handleExpiry: the timer goes off and ends the session aloud, if the key is
   still there.  A key written by SET NX was given the same 90 seconds before
   the timer was, so it has expired by then; one that an accept wrote, or whose
   timer was armed again from its deadline, is there for a moment longer.  Its
   wait for the lock is part of the step. *)
TimerFires(g) ==
  /\ up /\ g \in timer
  /\ Live(g) => session[g].outlives
  /\ timer' = timer \ {g}
  /\ IF Live(g)
     THEN /\ DeletesSession(g)
          /\ EndsUnderDeal(g)
          /\ Tell(game[g].players, [type |-> "cancelled", game |-> g])
     ELSE UNCHANGED <<session, inbox, overtaken, stray>>
  /\ UNCHANGED <<rlock, req, modal, presses, agreed, spent, seatingVars>>

(* Every SET of the key, by tryCreate and by write, gives it a TTL.  It runs
   out in silence, whatever the timer and the process do. *)
KeyExpires(g) ==
  /\ Live(g)
  /\ session' = [session EXCEPT ![g] = NoSession]
  /\ EndsUnderDeal(g)
  /\ UNCHANGED <<timer, rlock, req, inbox, modal, presses, agreed, spent, stray, seatingVars>>

-----------------------------------------------------------------------------
(* The client. *)

(* RematchListener: each event replaces what the screen shows; an invitation or
   an update is for the players of the source game only. *)
Hears(u) ==
  /\ inbox[u] # <<>>
  /\ inbox' = [inbox EXCEPT ![u] = Tail(@)]
  /\ LET message == Head(inbox[u])
     IN  modal' = [modal EXCEPT ![u] =
                     CASE message.type \in {"invited", "updated"} ->
                            IF u \in game[message.game].players THEN message.game ELSE @
                       [] OTHER -> NoGame]
  /\ UNCHANGED <<session, timer, rlock, req, presses, historyVars, seatingVars>>

(* useRematch, useAcceptRematch, useCancelRematch: a response with a session is
   put on the screen, the end of a cancel clears it, an error leaves it. *)
Responds(c) ==
  /\ req[c] # Quiet /\ req[c].step = "answered"
  /\ modal' = [modal EXCEPT ![req[c].user] =
                 CASE req[c].answer = "session" -> req[c].game
                   [] req[c].answer = "done" -> NoGame
                   [] OTHER -> @]
  /\ req' = [req EXCEPT ![c] = Quiet]
  /\ UNCHANGED <<session, timer, rlock, inbox, presses, historyVars, seatingVars>>

-----------------------------------------------------------------------------
(* The process dies: its timers, its requests and the sockets go; a browser
   keeps what it shows.  The lock key expires by itself. *)
RematchCrash ==
  /\ timer' = {}
  /\ req' = [c \in RematchSlots |-> Quiet]
  /\ inbox' = [u \in Users |-> <<>>]
  /\ rlock' = [g \in Games |-> Free]
  /\ UNCHANGED <<session, modal, presses, historyVars>>

(* Mutant: the sessions in Redis are forgotten on boot. *)
ResumeTimers_Never ==
  /\ timer' = {}
  /\ stray' = {}
  /\ UNCHANGED <<session, rlock, req, inbox, modal, presses, agreed, spent, overtaken>>

(* resumeTimers, on boot: every live key gets a timer for what is left until its
   deadline, which is a moment before its TTL. *)
ResumeTimers ==
  /\ timer' = {g \in Games : Live(g)}
  /\ session' = [g \in Games |-> IF Live(g) THEN [session[g] EXCEPT !.outlives = TRUE]
                                            ELSE NoSession]
  /\ stray' = {}
  /\ UNCHANGED <<rlock, req, inbox, modal, presses, agreed, spent, overtaken>>

RematchInit ==
  /\ session = [g \in Games |-> NoSession]
  /\ timer = {}
  /\ rlock = [g \in Games |-> Free]
  /\ req = [c \in RematchSlots |-> Quiet]
  /\ inbox = [u \in Users |-> <<>>]
  /\ modal = [u \in Users |-> NoGame]
  /\ presses = 0
  /\ agreed = [g \in Games |-> {}]
  /\ spent = [g \in Games |-> {}]
  /\ overtaken = {}
  /\ stray = {}

RematchNext ==
  \/ \E c \in RematchSlots : \/ \E u \in Users : Press(c, u)
                             \/ InitiateOrAccept(c)
                             \/ Accept(c)
                             \/ Cancel(c)
                             \/ Responds(c)
  \/ \E g \in Games : TimerFires(g) \/ KeyExpires(g)
  \/ \E u \in Users : Hears(u)

=============================================================================
