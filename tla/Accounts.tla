------------------------------ MODULE Accounts ------------------------------
(***************************************************************************)
(* Accounts and their sessions: admin-users.service.ts, admin-setup,       *)
(* auth.service.ts and session.service.ts.  The account is a row of        *)
(* Postgres.  A session is a key of Redis that carries its own copy of two *)
(* of the account's flags, and a row that says which sessions an account   *)
(* has.  Every request is a chain of awaits and holds no lock: it checks,  *)
(* writes the account, then brings the sessions in line.                   *)
(***************************************************************************)
EXTENDS Naturals, FiniteSets

CONSTANTS Users, Sessions,
          Requests,      \* requests that may be under way at once
          None,          \* no row, no key, no request
          MaxRequests    \* bound: requests of a behaviour

(* Rows of accounts, keys of sessions, requests under way. *)
Account == [admin : BOOLEAN, disabled : BOOLEAN, must : BOOLEAN]
SessionKey == [user : Users, admin : BOOLEAN, must : BOOLEAN]
Patches == [admin : {TRUE, FALSE, None}, disabled : {TRUE, FALSE, None}] \ {[admin |-> None, disabled |-> None]}
Update == [what : {"update"}, id : Users, step : {"checked", "flags", "destroy"}, patch : Patches,
           session : {None}, loses : BOOLEAN]
Password == [what : {"password"}, id : Users, session : Sessions \cup {None}, loses : {FALSE},
             step : {"keep", "destroy"}]
Removal == [what : {"remove"}, id : Users, step : {"destroy", "delete"}, session : {None}, loses : {TRUE}]
Login == [what : {"login"}, id : Users, step : {"read", "row"}, session : Sessions, loses : {FALSE},
          copy : SessionKey]

ASSUME AccountsAssumption ==
  /\ IsFiniteSet(Users) /\ None \notin Users \cup Sessions \cup BOOLEAN
  /\ None \notin Account \cup SessionKey
  /\ None \notin Update /\ None \notin Password /\ None \notin Removal /\ None \notin Login
  /\ MaxRequests \in Nat

VARIABLES
  user,       \* row: [admin, disabled, must], must: mustChangePassword
  listed,     \* row of a session: whose it is
  sess,       \* key of a session: [user, admin, must]
  request,    \* under way: [what, id, step, ...]
  requests,   \* requests left
  overtook,   \* history: an admin was lost between another one's check and write
  crossed     \* history: users two requests were about at the same time

accountVars == <<user, listed, sess, request, requests, overtook, crossed>>

-----------------------------------------------------------------------------
Exists(u) == user[u] # None
ActiveAdmin(u) == Exists(u) /\ user[u].admin /\ ~user[u].disabled
SessionsOf(u) == {s \in Sessions : listed[s] = u}

(* Mutant: the other admins are counted whether or not they are disabled. *)
OtherAdmins_Disabled(u) == {v \in Users \ {u} : Exists(v) /\ user[v].admin}

OtherAdmins(u) == {v \in Users \ {u} : ActiveAdmin(v)}

Underway == {request[r] : r \in Requests} \ {None}

Takes(r, what) ==
  /\ request[r] = None /\ requests > 0
  /\ requests' = requests - 1
  /\ request' = [request EXCEPT ![r] = what]
  /\ crossed' = crossed \cup ({what.id} \cap {q.id : q \in Underway})
  /\ UNCHANGED <<user, listed, sess, overtook>>

Goes(r, step) == request' = [request EXCEPT ![r].step = step]
Ends(r) == request' = [request EXCEPT ![r] = None]

(* Requests that may take an admin away, between their check and their write. *)
Pending == {q \in Underway : q.loses /\ (q.what = "remove" \/ q.step = "checked")}
Loses(r) == overtook' = (overtook \/ Pending \ {request[r]} # {})

(* AdminGuard: the session says its bearer is an admin. *)
ByAdmin(s) == sess[s] # None /\ sess[s].admin

-----------------------------------------------------------------------------
(* update: what the patch takes away is checked first; with no other active
   admin it is refused. *)
UpdateChecks(r, id, patch) ==
  LET demotes == patch.admin = FALSE /\ user[id].admin
      disables == patch.disabled = TRUE /\ ActiveAdmin(id)
  IN  /\ Exists(id) /\ \E s \in Sessions : ByAdmin(s)
      /\ demotes \/ disables => OtherAdmins(id) # {}
      /\ Takes(r, [what |-> "update", id |-> id, step |-> "checked", patch |-> patch,
                   session |-> None,
                   loses |-> patch.admin = FALSE \/ patch.disabled = TRUE])

(* Then the row is written with what the patch names. *)
UpdateWrites(r) ==
  LET q == request[r]
      id == q.id
      set(old, new) == IF new = None THEN old ELSE new
  IN  /\ q # None /\ q.what = "update" /\ q.step = "checked"
      /\ IF Exists(id)
         THEN /\ user' = [user EXCEPT ![id].admin = set(@, q.patch.admin),
                                      ![id].disabled = set(@, q.patch.disabled)]
              /\ IF q.patch.disabled # TRUE /\ q.patch.admin = None THEN Ends(r)
                 ELSE Goes(r, IF q.patch.disabled = TRUE THEN "destroy" ELSE "flags")
              /\ IF q.loses THEN Loses(r) ELSE UNCHANGED overtook
         ELSE Ends(r) /\ UNCHANGED <<user, overtook>>
      /\ UNCHANGED <<listed, sess, requests, crossed>>

(* And the sessions that are listed take the flag over, if they still exist. *)
UpdateFlags(r) ==
  LET q == request[r]
  IN  /\ q # None /\ q.step = "flags"
      /\ sess' = [s \in Sessions |-> IF s \in SessionsOf(q.id) /\ sess[s] # None
                                     THEN [sess[s] EXCEPT !.admin = q.patch.admin] ELSE sess[s]]
      /\ Ends(r)
      /\ UNCHANGED <<user, listed, requests, overtook, crossed>>

(* resetPassword, changePassword: the row is written; a new password that the
   owner chose needs no change, and the session it was given in stays. *)
PasswordWrites(r, id, keep) ==
  /\ Exists(id)
  /\ keep # None => sess[keep] # None /\ sess[keep].user = id
  /\ keep = None => \E s \in Sessions : ByAdmin(s)
  /\ request[r] = None /\ requests > 0
  /\ requests' = requests - 1
  /\ user' = [user EXCEPT ![id].must = (keep = None)]
  /\ request' = [request EXCEPT ![r] = [what |-> "password", id |-> id, session |-> keep, loses |-> FALSE,
                                        step |-> IF keep = None THEN "destroy" ELSE "keep"]]
  /\ crossed' = crossed \cup ({id} \cap {q.id : q \in Underway})
  /\ UNCHANGED <<listed, sess, overtook>>

(* The session of the caller is told that nothing need be changed any more. *)
PasswordKeeps(r) ==
  LET q == request[r]
  IN  /\ q # None /\ q.step = "keep"
      /\ sess' = [sess EXCEPT ![q.session] = IF @ = None THEN None ELSE [@ EXCEPT !.must = FALSE]]
      /\ Goes(r, "destroy")
      /\ UNCHANGED <<user, listed, requests, overtook, crossed>>

(* destroyAllForUser, destroyAllForUserExcept: the listed sessions lose their
   keys, then their rows. *)
DestroyAll(r) ==
  LET q == request[r]
      gone == SessionsOf(q.id) \ (IF q.what = "password" THEN {q.session} ELSE {})
  IN  /\ q # None /\ q.step = "destroy"
      /\ sess' = [s \in Sessions |-> IF s \in gone THEN None ELSE sess[s]]
      /\ listed' = [s \in Sessions |-> IF s \in gone THEN None ELSE listed[s]]
      /\ IF q.what = "remove" THEN Goes(r, "delete") ELSE Ends(r)
      /\ UNCHANGED <<user, requests, overtook, crossed>>

(* remove: never oneself, never the last active admin; the sessions go first. *)
RemoveChecks(r, id, actor) ==
  /\ Exists(id) /\ ByAdmin(actor) /\ sess[actor].user # id
  /\ user[id].admin => OtherAdmins(id) # {}
  /\ Takes(r, [what |-> "remove", id |-> id, step |-> "destroy", session |-> None,
               loses |-> TRUE])

(* The row is deleted with the rows of its sessions; a player with games on
   record is protected by the foreign keys, and the request fails. *)
RemoveDeletes(r) ==
  LET q == request[r]
  IN  /\ q # None /\ q.step = "delete"
      /\ \/ /\ user' = [user EXCEPT ![q.id] = None]
            /\ listed' = [s \in Sessions |-> IF listed[s] = q.id THEN None ELSE listed[s]]
            /\ IF q.loses THEN Loses(r) ELSE UNCHANGED overtook
         \/ UNCHANGED <<user, listed, overtook>>
      /\ Ends(r)
      /\ UNCHANGED <<sess, requests, crossed>>

(* create: an admin adds an account. *)
Create(id, admin) ==
  /\ ~Exists(id) /\ requests > 0
  /\ \E s \in Sessions : ByAdmin(s)
  /\ user' = [user EXCEPT ![id] = [admin |-> admin, disabled |-> FALSE, must |-> TRUE]]
  /\ requests' = requests - 1
  /\ UNCHANGED <<listed, sess, request, overtook, crossed>>

(* createFirstAdmin: while no account is an admin's, disabled ones counted too,
   whoever comes first gets one. *)
createFirstAdmin(id) ==
  /\ ~Exists(id) /\ requests > 0
  /\ \A v \in Users : ~(Exists(v) /\ user[v].admin)
  /\ user' = [user EXCEPT ![id] = [admin |-> TRUE, disabled |-> FALSE, must |-> FALSE]]
  /\ requests' = requests - 1
  /\ UNCHANGED <<listed, sess, request, overtook, crossed>>

(* login: the account is read and the password verified; a disabled one is
   refused. *)
LoginReads(r, id, s) ==
  /\ Exists(id) /\ ~user[id].disabled
  /\ sess[s] = None /\ listed[s] = None
  /\ \A q \in Underway : q.session # s      \* an id is 32 random bytes
  /\ Takes(r, [what |-> "login", id |-> id, step |-> "read", session |-> s, loses |-> FALSE,
               copy |-> [user |-> id, admin |-> user[id].admin, must |-> user[id].must]])

(* create of the session: the key with the flags that were read, then the row;
   without the row, whatever the reason, the session is as good. *)
LoginCreates(r) ==
  LET q == request[r]
  IN  /\ q # None /\ q.what = "login"
      /\ \/ /\ q.step = "read"
            /\ sess' = [sess EXCEPT ![q.session] = q.copy]
            /\ Goes(r, "row")
            /\ UNCHANGED listed
         \/ /\ q.step = "row"
            /\ \/ Exists(q.id) /\ listed' = [listed EXCEPT ![q.session] = q.id]
               \/ UNCHANGED listed
            /\ Ends(r)
            /\ UNCHANGED sess
      /\ UNCHANGED <<user, requests, overtook, crossed>>

(* logout, and the end of a session's time. *)
Logout(s) ==
  /\ sess[s] # None
  /\ sess' = [sess EXCEPT ![s] = None]
  /\ listed' \in {listed, [listed EXCEPT ![s] = None]}
  /\ UNCHANGED <<user, request, requests, overtook, crossed>>

-----------------------------------------------------------------------------
AccountsInit ==
  /\ user = [u \in Users |-> None]
  /\ listed = [s \in Sessions |-> None] /\ sess = [s \in Sessions |-> None]
  /\ request = [r \in Requests |-> None] /\ requests = MaxRequests
  /\ overtook = FALSE /\ crossed = {}

AccountsNext ==
  \/ \E r \in Requests, id \in Users :
       \/ \E patch \in Patches : UpdateChecks(r, id, patch)
       \/ \E keep \in Sessions \cup {None} : PasswordWrites(r, id, keep)
       \/ \E s \in Sessions : RemoveChecks(r, id, s) \/ LoginReads(r, id, s)
  \/ \E r \in Requests : \/ UpdateWrites(r) \/ UpdateFlags(r) \/ PasswordKeeps(r)
                         \/ DestroyAll(r) \/ RemoveDeletes(r) \/ LoginCreates(r)
  \/ \E id \in Users, admin \in BOOLEAN : Create(id, admin)
  \/ \E id \in Users : createFirstAdmin(id)
  \/ \E s \in Sessions : Logout(s)

AccountsSpec == AccountsInit /\ [][AccountsNext]_accountVars
-----------------------------------------------------------------------------
(* The rule LAST_ADMIN: while there are accounts there is an active admin,
   whoever demotes, disables or removes whom, unless one admin was lost between
   another request's count and its write. *)
AdminRemains == (\E u \in Users : Exists(u)) => overtook \/ \E u \in Users : ActiveAdmin(u)

(* When no request is under way, a session that is listed carries its account's
   flags, and none is left of a disabled one, unless two requests about the
   account went on at the same time. *)
SessionsFollow ==
  (\A r \in Requests : request[r] = None) =>
    \A s \in Sessions : LET u == listed[s] IN
      u # None /\ u \notin crossed /\ sess[s] # None =>
        /\ ~user[u].disabled
        /\ sess[s] = [user |-> u, admin |-> user[u].admin, must |-> user[u].must]

(* The two together: whatever requests of admin-users.service.ts and
   auth.service.ts overlap, accounts and sessions agree when they are done. *)
AccountsAgree == AdminRemains /\ SessionsFollow
=============================================================================
