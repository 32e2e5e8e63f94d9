------------------------------- MODULE Shell --------------------------------
(***************************************************************************)
(* One tab of the site and who it believes is signed in.  The cookie names *)
(* a session of the server; the answer of GET /auth/me is cached by the    *)
(* query client (me), copied into a store by an effect of App.tsx, and the *)
(* router decides by the store which page is shown.  Mutations write the   *)
(* user they get back straight into the cache.  Requests overlap, and an   *)
(* answer may come after that of a later request, or never.                *)
(*                                                                         *)
(* A fetch of the query client replaces what is cached when it ends, even  *)
(* if the cache was written meanwhile; clear() drops the query with its    *)
(* fetch, and App, rendered again by the store's reset, fetches anew.      *)
(***************************************************************************)
EXTENDS Naturals, Sequences

CONSTANTS Persons,
          Nix,          \* nobody, nothing under way
          Trips         \* bound: calls, faults, reloads, and other events
                        \* (revoked sessions, ended games) of a behaviour

EditKinds == {"nick", "pic"}
Kinds == {"me", "profile", "login", "logout", "password", "setup"} \cup EditKinds

(* An account, what the server says of it, what the profile page shows of it. *)
AccountRow == [nick : Nat, pic : Nat, must : BOOLEAN]
Row == [who : Persons, nick : Nat, pic : Nat, must : BOOLEAN, game : BOOLEAN]
Face == [nick : Nat, pic : Nat]
Request == [carries : Nat, who : Persons \cup {Nix}, step : {"sent", "done"}, ok : BOOLEAN,
            row : Row \cup {Nix}, session : Nat]

ASSUME ShellAssumption ==
  /\ Nix \notin Persons /\ Nix \notin Row /\ Nix \notin Face /\ Nix \notin Request
  /\ Trips \subseteq [calls : Nat, faults : Nat, loads : Nat, events : Nat]

VARIABLES
  account,    \* row of a person: [nick, pic, must], versions of what they may edit
  playing,    \* userInGame
  sessions,   \* owners of the sessions, by number
  alive,      \* numbers of the sessions that are in Redis
  setupDone,  \* there is an admin
  cookie,     \* number of the session in the browser's cookie, 0: none
  me,         \* the query of /auth/me: [status, data]
  store,      \* auth.store.ts: [user, status]
  screen,       \* the page shown
  profile,    \* the query of the profile page: [who, data, fresh]
  flight,     \* requests under way, by kind
  order,      \* of two answers on their way, which was given first: pairs of kinds
  overtaken,  \* history: those that a later answer has overtaken
  behind,     \* history: the last answer came late or from another session, or
              \* one was lost
  stalePage,  \* history: the last answer about the profile came late
  missed,     \* history: persons whose game ended while nobody listened, or was over
              \* when a fetch failed
  trips       \* what is left of the bound

server == <<account, playing, sessions, alive, setupDone>>
client == <<me, store, screen, profile>>
wire == <<flight, order, overtaken>>
history == <<behind, stalePage, missed>>
shellVars == <<server, cookie, client, wire, history, trips>>

-----------------------------------------------------------------------------
(* toPublicUser, once the request is carried out. *)
RowAfter(p) == [who |-> p, nick |-> account'[p].nick, pic |-> account'[p].pic, must |-> account'[p].must,
                game |-> p \in playing']
Owner(s) == IF s = 0 THEN Nix ELSE sessions[s]
SignedIn == store.status = "authenticated" /\ store.user # Nix
Sent(key, who) == [carries |-> key, who |-> who, step |-> "sent", ok |-> FALSE, row |-> Nix, session |-> 0]
Replied == {k \in Kinds : flight[k] # Nix /\ flight[k].step = "done"}
NotYet == [status |-> "pending", data |-> Nix]

-----------------------------------------------------------------------------
(* The effect of App.tsx that copies the query into the store. *)
Synced(query, user) ==
  IF query.status = "pending" THEN [user |-> user, status |-> "loading"]
  ELSE IF query.status = "error" THEN [user |-> Nix, status |-> "anonymous"]
  ELSE [user |-> query.data, status |-> "authenticated"]

(* ProtectedRoute. *)
Protected(p, s) == IF s.status # "loading" /\ (s.status = "anonymous" \/ s.user = Nix) THEN "login" ELSE p

(* Where the router and the redirects of App.tsx and LoginPage.tsx lead. *)
Landed(p, s) ==
  IF s.user # Nix /\ s.user.must THEN "password"
  ELSE IF p = "login" /\ s.status = "authenticated" /\ s.user # Nix THEN "home"
  ELSE IF p \in {"login", "setup"} THEN p
  ELSE Protected(p, s)

(* What the page has become once a handler left the query, the user and the page
   as given: LoginPage mounts a query of its own, which fetches when nothing is
   cached, and may when what is cached is half a minute old. *)
Settles(query, user, p, requests) ==
  LET lands == Landed(p, Synced(query, user))
      mounts == "login" \in {p, lands} /\ screen # "login"
  IN  \E again \in BOOLEAN :
        LET now == IF again /\ query.data = Nix THEN NotYet ELSE query
        IN  /\ again => mounts /\ requests["me"] = Nix
            /\ mounts /\ requests["me"] = Nix /\ query.data = Nix => again
            /\ me' = now
            /\ store' = Synced(now, IF now = query THEN user ELSE Nix)
            /\ screen' = Landed(p, store')
            /\ flight' = IF again THEN [requests EXCEPT !["me"] = Sent(cookie, Nix)] ELSE requests
-----------------------------------------------------------------------------
(* What the user does.  A second call of a kind waits for the first one: its
   button is disabled meanwhile. *)
Busy(k) == flight[k] # Nix

Submits(k, who) ==
  /\ trips.calls > 0 /\ trips' = [trips EXCEPT !.calls = @ - 1]
  /\ ~Busy(k)
  /\ flight' = [flight EXCEPT ![k] = Sent(cookie, who)]
  /\ UNCHANGED <<server, cookie, client, order, overtaken, history>>

(* The form of LoginPage is not there while the query is pending. *)
LogIn(p) == setupDone /\ screen = "login" /\ me.status # "pending" /\ Submits("login", p)
Setup(p) == screen = "setup" /\ Submits("setup", p)
LogOut == screen \in {"home", "profile"} /\ SignedIn /\ Submits("logout", store.user.who)
ChangePassword == screen = "password" /\ SignedIn /\ Submits("password", store.user.who)

(* OwnSettings is on one's own profile, once that is loaded: what PATCH /me
   changes, and the pictures. *)
OwnSettings == screen = "profile" /\ SignedIn /\ profile.data # Nix /\ profile.who = store.user.who
EditAccount == OwnSettings /\ Submits("nick", profile.who)
EditPicture == OwnSettings /\ Submits("pic", profile.who)

(* Answers that are not waited for any more. *)
StillOrdered ==
  /\ order' = order \cap (Replied' \X Replied')
  /\ overtaken' = overtaken \cap Replied'

(* Links.  The profile is fetched when nothing of it is cached, or what is may
   be out of date. *)
OpenProfile ==
  /\ screen = "home" /\ SignedIn
  /\ LET who == store.user.who
         known == IF profile.who = who THEN profile ELSE [who |-> who, data |-> Nix, fresh |-> FALSE]
         requests == IF profile.who = who THEN flight ELSE [flight EXCEPT !["profile"] = Nix]
     IN  /\ screen' = "profile" /\ profile' = known
         /\ \/ flight' = IF requests["profile"] = Nix
                         THEN [requests EXCEPT !["profile"] = Sent(cookie, who)] ELSE requests
            \/ known.data # Nix /\ known.fresh /\ flight' = requests
  /\ StillOrdered
  /\ UNCHANGED <<server, cookie, me, store, history, trips>>

Opens(p) ==
  /\ screen # p /\ screen \in {"home", "profile", "password"} /\ SignedIn
  /\ screen' = Landed(p, store) /\ screen' # screen
  /\ UNCHANGED <<server, cookie, me, store, profile, wire, history, trips>>

-----------------------------------------------------------------------------
(* The server answers a request: AuthController, MeController and their guard. *)
Opened(p) == sessions' = Append(sessions, p) /\ alive' = alive \cup {Len(sessions) + 1}

Does(k, r) ==
  \/ k \in {"me", "profile"} /\ UNCHANGED server
  \/ k = "login" /\ Opened(r.who) /\ UNCHANGED <<account, playing, setupDone>>
  \/ k = "setup" /\ Opened(r.who) /\ setupDone' = TRUE /\ UNCHANGED <<account, playing>>
  \/ k = "logout" /\ alive' = alive \ {r.carries} /\ UNCHANGED <<account, playing, sessions, setupDone>>
  \/ /\ k = "password"
     /\ account' = [account EXCEPT ![Owner(r.carries)].must = FALSE]
     /\ alive' = {s \in alive : s = r.carries \/ Owner(s) # Owner(r.carries)}
     /\ UNCHANGED <<playing, sessions, setupDone>>
  \/ /\ k = "nick" /\ account' = [account EXCEPT ![Owner(r.carries)].nick = @ + 1]
     /\ UNCHANGED <<playing, sessions, alive, setupDone>>
  \/ /\ k = "pic" /\ account' = [account EXCEPT ![Owner(r.carries)].pic = @ + 1]
     /\ UNCHANGED <<playing, sessions, alive, setupDone>>

(* Only what needs a session is refused without one; the setup a second time. *)
Allowed(k, r) ==
  IF k = "setup" THEN ~setupDone ELSE k \in {"profile", "login", "logout"} \/ r.carries \in alive

(* Whose row the answer carries. *)
About(k, r) == IF k \in {"profile", "login", "setup"} THEN r.who ELSE Owner(r.carries)

Handles(k) ==
  /\ flight[k] # Nix /\ flight[k].step = "sent"
  /\ LET r == flight[k]
     IN  /\ IF Allowed(k, r) THEN Does(k, r) ELSE UNCHANGED server
         /\ flight' = [flight EXCEPT ![k] =
              [carries |-> r.carries, who |-> r.who, step |-> "done", ok |-> Allowed(k, r),
               row |-> IF About(k, r) = Nix THEN Nix ELSE RowAfter(About(k, r)), session |-> Len(sessions')]]
  /\ order' = order \cup (Replied \X {k})
  /\ UNCHANGED <<cookie, client, overtaken, history, trips>>

-----------------------------------------------------------------------------
(* A request is over: the answers before this one's that are still on their way
   have been overtaken. *)
Over(k) ==
  /\ order' = order \cap (Replied' \X Replied')
  /\ overtaken' = {x \in Replied' : x \in overtaken \/ (k # "profile" /\ <<x, k>> \in order)}

Without(k) == [flight EXCEPT ![k] = Nix]

(* The caches are cleared, and with them the fetches under way; App, rendered
   again by the reset of the store, asks who is signed in. *)
Cleared(k) ==
  /\ me' = NotYet /\ store' = Synced(NotYet, Nix)
  /\ profile' = [who |-> profile.who, data |-> Nix, fresh |-> FALSE]
  /\ flight' = [flight EXCEPT ![k] = Nix, !["profile"] = Nix, !["me"] = Sent(cookie', Nix)]

(* setQueryData and the store, by a mutation that succeeds. *)
Applies(row, p, requests) == Settles([status |-> "success", data |-> row], row, p, requests)

(* The interceptor of lib/api.ts, which lets some paths be, and its handler in
   router.tsx. *)
Redirects(k) == k \in EditKinds \cup {"password"}
Unauthorized(k) == UNCHANGED cookie /\ Cleared(k) /\ screen' = "login"

(* The answer of a request of the query client. *)
MeAnswered(ok, row) ==
  /\ Settles(IF ok THEN [status |-> "success", data |-> row] ELSE [status |-> "error", data |-> me.data],
             store.user, screen, Without("me"))
  /\ UNCHANGED <<cookie, profile>>

ProfileAnswered(r) ==
  /\ profile' = [who |-> profile.who, data |-> [nick |-> r.row.nick, pic |-> r.row.pic], fresh |-> TRUE]
  /\ flight' = Without("profile")
  /\ UNCHANGED <<cookie, me, store, screen>>

(* useLogout clears the caches and the store, whatever came of the request, and the
   page leaves for the login: ProtectedRoute leads there as soon as the store is reset. *)
LogoutAnswered(ok) ==
  /\ cookie' = IF ok THEN 0 ELSE cookie
  /\ Cleared("logout")
  /\ screen' = "login"

(* Mutant: the profile page is not told of an edit. *)
EditAnswered_Untold(k, r) ==
  Applies(r.row, screen, Without(k)) /\ UNCHANGED <<cookie, profile>>

(* useApplyUser: the user, and the profile page asks again; a fetch of it that is
   under way starts over, unless it is the first one. *)
EditAnswered(k, r) ==
  LET own == profile.who = r.row.who
      asks == own /\ screen = "profile" /\ (profile.data # Nix \/ flight["profile"] = Nix)
      requests == IF asks THEN [Without(k) EXCEPT !["profile"] = Sent(cookie, r.row.who)] ELSE Without(k)
  IN  /\ Applies(r.row, screen, requests)
      /\ profile' = [who |-> profile.who, data |-> profile.data, fresh |-> profile.fresh /\ ~own]
      /\ UNCHANGED cookie

(* useLogin, useChangePassword and the setup: the user, then the home page. *)
EntryAnswered(k, r) ==
  /\ cookie' = IF k \in {"login", "setup"} THEN r.session ELSE cookie
  /\ Applies(r.row, "home", Without(k))
  /\ UNCHANGED profile

(* The request was made before the cookie it would be made with now. *)
Foreign(k) == k \in EditKinds \cup {"me", "password"} /\ flight[k].carries # cookie

(* An answer that says nothing yet of a game's end. *)
Unaware(row) == row.game /\ row.who \notin playing

Arrives(k) ==
  /\ k \in Replied
  /\ LET r == flight[k]
     IN  /\ \/ k = "me" /\ MeAnswered(r.ok, r.row)
            \/ k = "profile" /\ ProfileAnswered(r)
            \/ k = "logout" /\ LogoutAnswered(TRUE)
            \/ k = "setup" /\ ~r.ok /\ flight' = Without(k) /\ UNCHANGED <<cookie, client>>
            \/ Redirects(k) /\ ~r.ok /\ Unauthorized(k)
            \/ k \in EditKinds /\ r.ok /\ EditAnswered(k, r)
            \/ k \in {"login", "setup", "password"} /\ r.ok /\ EntryAnswered(k, r)
         /\ missed' = IF k = "profile" \/ r.row = Nix \/ Unaware(r.row) THEN missed ELSE missed \ {r.row.who}
  /\ behind' = IF k = "profile" THEN behind ELSE k \in overtaken \/ Foreign(k)
  /\ stalePage' = IF k = "profile" THEN k \in overtaken ELSE stalePage
  /\ Over(k)
  /\ UNCHANGED <<server, trips>>

(* The network loses a request, or its answer: the form shows an error. *)
Breaks(k) ==
  /\ trips.faults > 0 /\ trips' = [trips EXCEPT !.faults = @ - 1]
  /\ flight[k] # Nix /\ k # "profile"
  /\ \/ k = "me" /\ MeAnswered(FALSE, Nix)
     \/ k = "logout" /\ LogoutAnswered(FALSE)
     \/ k \notin {"me", "logout"} /\ flight' = Without(k) /\ UNCHANGED <<cookie, client>>
  /\ behind' = (behind \/ k = "me" \/ flight[k].step = "done")
  /\ stalePage' = (stalePage \/ (k \in EditKinds /\ flight[k].step = "done"))
  /\ missed' = IF k = "me" THEN missed \cup (Persons \ playing) ELSE missed
  /\ Over(k)
  /\ UNCHANGED server
-----------------------------------------------------------------------------
(* What happens to the session and the game elsewhere. *)
Elsewhere == trips.events > 0 /\ trips' = [trips EXCEPT !.events = @ - 1]

SessionEnds(n) ==
  /\ Elsewhere /\ n \in alive
  /\ alive' = alive \ {n}
  /\ UNCHANGED <<account, playing, sessions, setupDone, cookie, client, wire, history>>

(* An administrator resets the password. *)
PasswordReset(p) ==
  /\ Elsewhere /\ setupDone
  /\ account' = [account EXCEPT ![p].must = TRUE]
  /\ alive' = {n \in alive : sessions[n] # p}
  /\ UNCHANGED <<playing, sessions, setupDone, cookie, client, wire, history>>

(* game:over_public: the home page asks again who is signed in; a fetch under way
   starts over. *)
GameIsOver(p) ==
  /\ Elsewhere /\ p \in playing
  /\ playing' = playing \ {p}
  /\ LET listens == screen = "home" /\ SignedIn
     IN  /\ flight' = IF listens THEN [flight EXCEPT !["me"] = Sent(cookie, Nix)] ELSE flight
         /\ missed' = IF listens THEN missed ELSE missed \cup {p}
  /\ StillOrdered
  /\ UNCHANGED <<account, sessions, alive, setupDone, cookie, client, behind, stalePage>>

(* The lobby socket is refused: the store is reset, the cache is not. *)
LobbyRefused ==
  /\ screen = "home" /\ SignedIn /\ cookie \notin alive
  /\ Settles(me, Nix, "login", flight)
  /\ UNCHANGED <<server, cookie, profile, order, overtaken, history, trips>>

(* The page is loaded again.  Requests under way are given up; what the server
   has already done stays done. *)
Reload ==
  /\ trips.loads > 0 /\ trips' = [trips EXCEPT !.loads = @ - 1]
  /\ me' = NotYet /\ store' = [user |-> Nix, status |-> "loading"]
  /\ screen' \in IF setupDone THEN {"home"} ELSE {"home", "setup"}
  /\ profile' = [who |-> Nix, data |-> Nix, fresh |-> FALSE]
  /\ flight' = [k \in Kinds |-> IF k = "me" THEN Sent(cookie, Nix) ELSE Nix]
  /\ order' = {} /\ overtaken' = {} /\ behind' = FALSE /\ stalePage' = FALSE /\ missed' = {}
  /\ UNCHANGED <<server, cookie>>

-----------------------------------------------------------------------------
ShellInit ==
  /\ account = [p \in Persons |-> [nick |-> 0, pic |-> 0, must |-> FALSE]]
  /\ playing \in SUBSET Persons /\ setupDone \in BOOLEAN
  /\ sessions \in {<<>>} \cup {<<p>> : p \in Persons} /\ (sessions # <<>> \/ playing # {} => setupDone)
  /\ alive = 1..Len(sessions) /\ cookie = Len(sessions)
  /\ me = NotYet /\ store = [user |-> Nix, status |-> "loading"]
  /\ screen = IF setupDone THEN "home" ELSE "setup"
  /\ profile = [who |-> Nix, data |-> Nix, fresh |-> FALSE]
  /\ flight = [k \in Kinds |-> IF k = "me" THEN Sent(cookie, Nix) ELSE Nix]
  /\ order = {} /\ overtaken = {} /\ behind = FALSE /\ stalePage = FALSE /\ missed = {}
  /\ trips \in Trips

ShellNext ==
  \/ \E p \in Persons : LogIn(p) \/ Setup(p) \/ PasswordReset(p) \/ GameIsOver(p)
  \/ LogOut \/ ChangePassword \/ OpenProfile \/ LobbyRefused \/ Reload
  \/ EditAccount \/ EditPicture
  \/ \E p \in {"home", "password"} : Opens(p)
  \/ \E k \in Kinds : Handles(k) \/ Arrives(k) \/ Breaks(k)
  \/ \E n \in alive : SessionEnds(n)

ShellSpec == ShellInit /\ [][ShellNext]_shellVars

-----------------------------------------------------------------------------
AsOnServer(row) ==
  row.nick = account[row.who].nick /\ row.pic = account[row.who].pic /\ row.must = account[row.who].must

AllAnswered == \A k \in Kinds : flight[k] = Nix

(* When all is answered (App.tsx, auth/hooks.ts), nobody is shown as somebody
   else, and what is shown of a live session's account is what the server has on
   it, unless the last answer came late or was lost. *)
RightPerson ==
  AllAnswered /\ me.status = "success" /\ ~behind =>
    /\ me.data.who = Owner(cookie)
    /\ cookie \in alive => AsOnServer(me.data)

(* The banner under the header. *)
ActiveGameBanner == me.status = "success" /\ me.data.game

(* Nobody whose session is alive is left at the login, or waits before a blank page. *)
LetIn ==
  AllAnswered =>
    /\ me.status # "pending"
    /\ screen = "login" /\ ~behind => cookie \notin alive

(* What a profile page shows of its owner's edits is the last of them, in whatever
   order the answers came. *)
EditsShown ==
  AllAnswered /\ screen = "profile" /\ profile.data # Nix /\ ~stalePage =>
    profile.data = [nick |-> account[profile.who].nick, pic |-> account[profile.who].pic]

(* The banner of a game that is over is gone, if the page could hear of the end. *)
BannerGone ==
  AllAnswered /\ ActiveGameBanner /\ ~behind => me.data.who \in missed \cup playing

(* The four together: the caches of the site agree with the server about who is
   signed in, once every request is answered. *)
ShellAgrees == RightPerson /\ LetIn /\ EditsShown /\ BannerGone
=============================================================================
