----------------------------- MODULE SiteProofs ------------------------------
(***************************************************************************)
(* What accounts, pictures and the records of games promise, for every set *)
(* of users, sessions, requests, players and games.  Each part is proved   *)
(* from an invariant of its own.                                           *)
(***************************************************************************)
EXTENDS Accounts, Uploads, Records, FiniteSetTheorems, TLAPS

(***************************************************************************)
(* Accounts and their sessions.                                            *)
(***************************************************************************)

(* A request may lose an admin by what it sets; it brings the copies of a flag *)
(* in line only if it set that flag.                                           *)
UpdateCall == {q \in Update : /\ q.loses <=> q.patch.admin = FALSE \/ q.patch.disabled = TRUE
                              /\ q.step = "flags" => q.patch.admin # None}
AccountCall == UpdateCall \cup Password \cup Removal \cup Login

AccountsType ==
  /\ user \in [Users -> Account \cup {None}]
  /\ listed \in [Sessions -> Users \cup {None}]
  /\ sess \in [Sessions -> SessionKey \cup {None}]
  /\ request \in [Requests -> AccountCall \cup {None}]
  /\ requests \in Nat /\ overtook \in BOOLEAN /\ crossed \in SUBSET Users

(* With no admin overtaken: a request that may take one away leaves another,  *)
(* and whoever could act, by an account, a session or a request, there is an  *)
(* active admin.  AdminRemains asks for accounts only: but an admin's session *)
(* that outlives its account could add one that is none.                      *)
AdminsIn(table) == {u \in Users : table[u] # None /\ table[u].admin /\ ~table[u].disabled}
SomebodyActs == (\E u \in Users : Exists(u)) \/ (\E s \in Sessions : sess[s] # None) \/ Underway # {}

AdminsLeft ==
  ~overtook => /\ SomebodyActs => AdminsIn(user) # {}
               /\ \A q \in Pending : AdminsIn(user) \ {q.id} # {}

(* Whose a session is: a session that is listed has an account, and its key is *)
(* that account's; the session a request holds on to is nobody else's.         *)
Owned == \A s \in Sessions : listed[s] # None =>
  Exists(listed[s]) /\ (sess[s] # None => sess[s].user = listed[s])

HeldBy(q) ==
  q.session # None =>
    /\ sess[q.session] # None => sess[q.session].user = q.id
    /\ listed[q.session] \in {None, q.id}
    /\ q.what = "login" =>
         /\ listed[q.session] = None /\ q.copy.user = q.id
         /\ q.step = "read" => sess[q.session] = None

Held == \A r \in Requests : request[r] # None => HeldBy(request[r])

JustRead(q) == q.what = "login" /\ q.step = "read"

NotShared(q1, q2) ==
  q1.session # None /\ q1.session = q2.session =>
    /\ q1.id = q2.id /\ ~JustRead(q1) /\ ~JustRead(q2)
    /\ ~(q1.what = "login" /\ q2.what = "login")

HeldApart == \A r1, r2 \in Requests : r1 # r2 /\ request[r1] # None /\ request[r2] # None =>
  NotShared(request[r1], request[r2])

SessionsOwned == Owned /\ Held /\ HeldApart

(* How far a request has brought the sessions of its account in line. *)
KeyOf(u) == [user |-> u, admin |-> user[u].admin, must |-> user[u].must]
InSync(u, s) == sess[s] # None => ~user[u].disabled /\ sess[s] = KeyOf(u)

FollowsUp(q) ==
  LET u == q.id
  IN  /\ Exists(u)
      /\ q.what = "login" => /\ ~user[u].disabled /\ q.copy = KeyOf(u)
                             /\ q.step = "row" => sess[q.session] \in {None, q.copy}
      /\ q.what = "login" \/ q.step = "checked" => \A s \in SessionsOf(u) : InSync(u, s)
      /\ q.step = "flags" => \A s \in SessionsOf(u) : sess[s] # None =>
                               ~user[u].disabled /\ user[u].admin = q.patch.admin /\ sess[s].must = user[u].must
      /\ q.step = "keep" => /\ ~user[u].must /\ q.session # None
                            /\ \A s \in SessionsOf(u) : sess[s] # None =>
                                 ~user[u].disabled /\ sess[s].admin = user[u].admin
      /\ q.what = "password" /\ q.step = "destroy" =>
           \A s \in SessionsOf(u) : s = q.session => InSync(u, s)
      /\ q.step = "delete" => SessionsOf(u) = {}

Concerns(r, u) == request[r] # None /\ request[r].id = u

Aligned(u) ==
  /\ \A r1, r2 \in Requests : Concerns(r1, u) /\ Concerns(r2, u) => r1 = r2
  /\ \A r \in Requests : Concerns(r, u) => FollowsUp(request[r])
  /\ (\A r \in Requests : ~Concerns(r, u)) => \A s \in SessionsOf(u) : InSync(u, s)

InLine == \A u \in Users \ crossed : Aligned(u)


LEMMA CallKinds ==
  ASSUME NEW q \in AccountCall
  PROVE  /\ q # None /\ q.id \in Users /\ q.session \in Sessions \cup {None} /\ q.loses \in BOOLEAN
         /\ q.what = "update" => q \in Update /\ (q.loses <=> q.patch.admin = FALSE \/ q.patch.disabled = TRUE)
         /\ q.what = "password" => q \in Password
         /\ q.what = "remove" => q \in Removal
         /\ q.what = "login" => q \in Login
         /\ q.what \in {"update", "password", "remove", "login"}
         /\ q.step = "flags" => q \in Update /\ q.patch.admin \in BOOLEAN
         /\ q.step = "keep" => q \in Password
         /\ q.step = "checked" => q \in Update
         /\ q.step = "delete" => q \in Removal
         /\ q.step = "destroy" => q.what \in {"update", "password", "remove"}
         /\ q.what = "login" => q.step \in {"read", "row"}
BY AccountsAssumption DEF AccountCall, UpdateCall, Update, Password, Removal, Login, Patches

LEMMA StepKinds ==
  ASSUME NEW q \in AccountCall, NEW step,
         \/ q.what = "update" /\ step \in {"flags", "destroy"} /\ (step = "flags" => q.patch.admin # None)
         \/ q.what = "password" /\ step = "destroy"
         \/ q.what = "remove" /\ step = "delete"
         \/ q.what = "login" /\ step = "row"
  PROVE  LET q1 == [q EXCEPT !.step = step]
         IN  /\ q1 \in AccountCall /\ q1.what = q.what /\ q1.id = q.id /\ q1.step = step
             /\ q1.session = q.session /\ q1.loses = q.loses
             /\ q.what = "update" => q1.patch = q.patch
             /\ q.what = "login" => q1.copy = q.copy
<1>1. CASE q.what = "update"
  BY <1>1, CallKinds DEF AccountCall, UpdateCall, Update
<1>2. CASE q.what = "password"
  BY <1>2, CallKinds DEF AccountCall, Password
<1>3. CASE q.what = "remove"
  BY <1>3, CallKinds DEF AccountCall, Removal
<1>4. CASE q.what = "login"
  BY <1>4, CallKinds DEF AccountCall, Login
<1> QED BY <1>1, <1>2, <1>3, <1>4

(* Every step of a request: it goes on, or it is over. *)
LEMMA GoesStep ==
  ASSUME AccountsType, NEW r \in Requests, request[r] # None, NEW step, Goes(r, step),
         \/ /\ request[r].what = "update" /\ step \in {"flags", "destroy"}
            /\ step = "flags" => request[r].patch.admin # None
         \/ request[r].what = "password" /\ step = "destroy"
         \/ request[r].what = "remove" /\ step = "delete"
         \/ request[r].what = "login" /\ step = "row"
  PROVE  LET q == request[r]
             q1 == request'[r]
         IN  /\ request' \in [Requests -> AccountCall \cup {None}]
             /\ \A x \in Requests : x # r => request'[x] = request[x]
             /\ q1 \in AccountCall /\ q1 # None /\ q1.what = q.what /\ q1.id = q.id /\ q1.step = step
             /\ q1.session = q.session /\ q1.loses = q.loses
             /\ q.what = "update" => q1.patch = q.patch
             /\ q.what = "login" => q1.copy = q.copy
<1>1. request \in [Requests -> AccountCall \cup {None}] /\ request[r] \in AccountCall
  BY DEF AccountsType
<1>2. /\ request'[r] = [request[r] EXCEPT !.step = step]
      /\ \A x \in Requests : x # r => request'[x] = request[x]
      /\ request' = [request EXCEPT ![r] = [request[r] EXCEPT !.step = step]]
  BY <1>1 DEF Goes
<1> DEFINE q1 == [request[r] EXCEPT !.step = step]
<1>3. /\ q1 \in AccountCall /\ q1.what = request[r].what /\ q1.id = request[r].id /\ q1.step = step
      /\ q1.session = request[r].session /\ q1.loses = request[r].loses
      /\ request[r].what = "update" => q1.patch = request[r].patch
      /\ request[r].what = "login" => q1.copy = request[r].copy
  BY <1>1, StepKinds
<1> HIDE DEF q1
<1>4. request'[r] = q1
  BY <1>2 DEF q1
<1>5. request' \in [Requests -> AccountCall \cup {None}]
  BY <1>1, <1>2, <1>3 DEF q1
<1> QED BY ZenonT(30), <1>2, <1>3, <1>4, <1>5, CallKinds

LEMMA EndsStep ==
  ASSUME AccountsType, NEW r \in Requests, Ends(r)
  PROVE  /\ request' \in [Requests -> AccountCall \cup {None}]
         /\ request'[r] = None /\ \A x \in Requests : x # r => request'[x] = request[x]
BY DEF AccountsType, Ends

LEMMA TakesStep ==
  ASSUME AccountsType, NEW r \in Requests, NEW call \in AccountCall,
         request' = [request EXCEPT ![r] = call]
  PROVE  /\ request' \in [Requests -> AccountCall \cup {None}]
         /\ request'[r] = call /\ call # None
         /\ \A x \in Requests : x # r => request'[x] = request[x]
BY CallKinds DEF AccountsType

LEMMA CallsMade ==
  ASSUME NEW id \in Users
  PROVE  /\ \A patch \in Patches :
              [what |-> "update", id |-> id, step |-> "checked", patch |-> patch, session |-> None,
               loses |-> patch.admin = FALSE \/ patch.disabled = TRUE] \in AccountCall
         /\ \A s \in Sessions \cup {None}, step \in {"keep", "destroy"} :
              [what |-> "password", id |-> id, session |-> s, loses |-> FALSE, step |-> step] \in AccountCall
         /\ [what |-> "remove", id |-> id, step |-> "destroy", session |-> None, loses |-> TRUE] \in AccountCall
         /\ \A s \in Sessions, rowKey \in SessionKey :
              [what |-> "login", id |-> id, step |-> "read", session |-> s, loses |-> FALSE, copy |-> rowKey] \in AccountCall
BY DEF AccountCall, UpdateCall, Update, Password, Removal, Login

LEMMA PatchType ==
  ASSUME NEW patch \in Patches
  PROVE  patch.admin \in BOOLEAN \cup {None} /\ patch.disabled \in BOOLEAN \cup {None}
BY DEF Patches

LEMMA AccountsKeepType ==
  ASSUME AccountsType, AccountsNext
  PROVE  AccountsType'
<1>0. /\ user \in [Users -> Account \cup {None}] /\ listed \in [Sessions -> Users \cup {None}]
      /\ sess \in [Sessions -> SessionKey \cup {None}] /\ request \in [Requests -> AccountCall \cup {None}]
      /\ requests \in Nat /\ overtook \in BOOLEAN /\ crossed \in SUBSET Users
  BY DEF AccountsType
<1>1. ASSUME NEW r \in Requests, NEW id \in Users, NEW patch \in Patches, UpdateChecks(r, id, patch)
      PROVE  AccountsType'
  <2> DEFINE call == [what |-> "update", id |-> id, step |-> "checked", patch |-> patch, session |-> None,
                      loses |-> patch.admin = FALSE \/ patch.disabled = TRUE]
  <2>1. call \in AccountCall /\ call.id = id
    BY CallsMade
  <2>2. Takes(r, call)
    BY <1>1 DEF UpdateChecks
  <2> HIDE DEF call
  <2>3. request' \in [Requests -> AccountCall \cup {None}]
    BY <2>1, <2>2, TakesStep DEF Takes
  <2> QED BY <1>0, <2>1, <2>2, <2>3 DEF Takes, AccountsType
<1>2. ASSUME NEW r \in Requests, NEW id \in Users, NEW keep \in Sessions \cup {None}, PasswordWrites(r, id, keep)
      PROVE  AccountsType'
  <2> DEFINE call == [what |-> "password", id |-> id, session |-> keep, loses |-> FALSE,
                      step |-> IF keep = None THEN "destroy" ELSE "keep"]
  <2>1. call \in AccountCall
    BY CallsMade
  <2> HIDE DEF call
  <2>2. request' \in [Requests -> AccountCall \cup {None}]
    BY <1>2, <2>1, TakesStep DEF PasswordWrites, call
  <2>3. user' \in [Users -> Account \cup {None}]
    <3>1. user[id] \in Account
      BY <1>0, <1>2 DEF PasswordWrites, Exists
    <3>2. [user[id] EXCEPT !.must = (keep = None)] \in Account
      BY <3>1 DEF Account
    <3> QED BY <1>0, <1>2, <3>2 DEF PasswordWrites
  <2> QED BY <1>0, <1>2, <2>2, <2>3 DEF PasswordWrites, AccountsType
<1>3. ASSUME NEW r \in Requests, NEW id \in Users, NEW s \in Sessions, RemoveChecks(r, id, s)
      PROVE  AccountsType'
  <2> DEFINE call == [what |-> "remove", id |-> id, step |-> "destroy", session |-> None, loses |-> TRUE]
  <2>1. call \in AccountCall /\ call.id = id
    BY CallsMade
  <2>2. Takes(r, call)
    BY <1>3 DEF RemoveChecks
  <2> HIDE DEF call
  <2>3. request' \in [Requests -> AccountCall \cup {None}]
    BY <2>1, <2>2, TakesStep DEF Takes
  <2> QED BY <1>0, <2>1, <2>2, <2>3 DEF Takes, AccountsType
<1>4. ASSUME NEW r \in Requests, NEW id \in Users, NEW s \in Sessions, LoginReads(r, id, s)
      PROVE  AccountsType'
  <2> DEFINE rowKey == [user |-> id, admin |-> user[id].admin, must |-> user[id].must]
             call == [what |-> "login", id |-> id, step |-> "read", session |-> s, loses |-> FALSE, copy |-> rowKey]
  <2>0. rowKey \in SessionKey
    BY <1>0, <1>4 DEF LoginReads, Exists, Account, SessionKey
  <2>1. call \in AccountCall /\ call.id = id
    BY <2>0, CallsMade
  <2>2. Takes(r, call)
    BY <1>4 DEF LoginReads
  <2> HIDE DEF call
  <2>3. request' \in [Requests -> AccountCall \cup {None}]
    BY <2>1, <2>2, TakesStep DEF Takes
  <2> QED BY <1>0, <2>1, <2>2, <2>3 DEF Takes, AccountsType
<1>5. ASSUME NEW r \in Requests, UpdateWrites(r) PROVE AccountsType'
  <2>1. request[r] \in Update /\ request[r].what = "update"
    BY <1>0, <1>5, CallKinds DEF UpdateWrites
  <2>2. request' \in [Requests -> AccountCall \cup {None}]
    BY <1>5, <2>1, EndsStep, GoesStep DEF UpdateWrites
  <2>3. user' \in [Users -> Account \cup {None}]
    <3> DEFINE id == request[r].id
               patch == request[r].patch
    <3>1. id \in Users /\ patch \in Patches
      BY <2>1 DEF Update
    <3>2. CASE ~Exists(id)
      BY <1>0, <1>5, <3>2 DEF UpdateWrites
    <3>3. CASE Exists(id)
      <4> DEFINE a == IF patch.admin = None THEN user[id].admin ELSE patch.admin
                 d == IF patch.disabled = None THEN user[id].disabled ELSE patch.disabled
      <4>1. user[id] \in Account
        BY <1>0, <3>1, <3>3 DEF Exists
      <4>2. a \in BOOLEAN /\ d \in BOOLEAN
        BY <3>1, <4>1, PatchType DEF Account
      <4>3. user' = [user EXCEPT ![id].admin = a, ![id].disabled = d]
        BY <1>5, <3>3 DEF UpdateWrites
      <4> HIDE DEF a, d, id, patch
      <4>4. [[user[id] EXCEPT !.admin = a] EXCEPT !.disabled = d] \in Account
        BY <4>1, <4>2 DEF Account
      <4> QED BY <1>0, <3>1, <4>3, <4>4
    <3> QED BY <3>2, <3>3
  <2> QED BY <1>0, <1>5, <2>2, <2>3 DEF UpdateWrites, Loses, AccountsType
<1>6. ASSUME NEW r \in Requests, UpdateFlags(r) PROVE AccountsType'
  <2>1. request[r] \in Update
    BY <1>0, <1>6, CallKinds DEF UpdateFlags
  <2>2. request' \in [Requests -> AccountCall \cup {None}]
    BY <1>6, EndsStep DEF UpdateFlags
  <2>3. sess' \in [Sessions -> SessionKey \cup {None}]
    <3>1. request[r].patch.admin \in BOOLEAN
      BY <1>0, <1>6, CallKinds DEF UpdateFlags
    <3> QED BY <1>0, <1>6, <3>1 DEF UpdateFlags, SessionKey
  <2> QED BY <1>0, <1>6, <2>2, <2>3 DEF UpdateFlags, AccountsType
<1>7. ASSUME NEW r \in Requests, PasswordKeeps(r) PROVE AccountsType'
  <2>1. request[r] \in Password /\ request[r].what = "password"
    BY <1>0, <1>7, CallKinds DEF PasswordKeeps, Password
  <2>2. request' \in [Requests -> AccountCall \cup {None}]
    BY <1>7, <2>1, GoesStep DEF PasswordKeeps
  <2>3. sess' \in [Sessions -> SessionKey \cup {None}]
    BY <1>0, <1>7 DEF PasswordKeeps, SessionKey
  <2> QED BY <1>0, <1>7, <2>2, <2>3 DEF PasswordKeeps, AccountsType
<1>8. ASSUME NEW r \in Requests, DestroyAll(r) PROVE AccountsType'
  <2>1. request[r] \in AccountCall
    BY <1>0, <1>8 DEF DestroyAll
  <2>2. request' \in [Requests -> AccountCall \cup {None}]
    BY <1>8, <2>1, CallKinds, GoesStep, EndsStep DEF DestroyAll
  <2> QED BY <1>0, <1>8, <2>2 DEF DestroyAll, AccountsType
<1>9. ASSUME NEW r \in Requests, RemoveDeletes(r) PROVE AccountsType'
  <2>1. request[r] \in AccountCall
    BY <1>0, <1>9 DEF RemoveDeletes
  <2>2. request' \in [Requests -> AccountCall \cup {None}]
    BY <1>9, EndsStep DEF RemoveDeletes
  <2>3. request[r].id \in Users /\ request[r].loses \in BOOLEAN
    BY <2>1, CallKinds
  <2>4. user' \in [Users -> Account \cup {None}] /\ listed' \in [Sessions -> Users \cup {None}]
    BY <1>0, <1>9, <2>3 DEF RemoveDeletes
  <2>5. overtook' \in BOOLEAN
    BY <1>0, <1>9, <2>3 DEF RemoveDeletes, Loses
  <2> QED BY <1>0, <1>9, <2>2, <2>4, <2>5 DEF RemoveDeletes, AccountsType
<1>10. ASSUME NEW r \in Requests, LoginCreates(r) PROVE AccountsType'
  <2>1. request[r] \in Login
    BY <1>0, <1>10, CallKinds DEF LoginCreates
  <2>2. request' \in [Requests -> AccountCall \cup {None}]
    BY <1>10, <2>1, GoesStep, EndsStep DEF LoginCreates
  <2> QED BY <1>0, <1>10, <2>1, <2>2 DEF LoginCreates, Login, AccountsType
<1>11. ASSUME NEW id \in Users, NEW admin \in BOOLEAN, Create(id, admin) PROVE AccountsType'
  BY <1>0, <1>11 DEF Create, Account, AccountsType
<1>12. ASSUME NEW id \in Users, createFirstAdmin(id) PROVE AccountsType'
  BY <1>0, <1>12 DEF createFirstAdmin, Account, AccountsType
<1>13. ASSUME NEW s \in Sessions, Logout(s) PROVE AccountsType'
  BY <1>0, <1>13 DEF Logout, AccountsType
<1> QED BY <1>1, <1>2, <1>3, <1>4, <1>5, <1>6, <1>7, <1>8, <1>9, <1>10, <1>11, <1>12, <1>13 DEF AccountsNext


-----------------------------------------------------------------------------
(* The active admins. *)
LEMMA AdminsWere ==
  /\ \A u \in Users : ActiveAdmin(u) <=> u \in AdminsIn(user)
  /\ \A u \in Users : OtherAdmins(u) = AdminsIn(user) \ {u}
BY DEF ActiveAdmin, Exists, OtherAdmins, AdminsIn

(* A step in which no admin goes, and nobody is threatened who was not. *)
LEMMA AdminsStay ==
  ASSUME AdminsLeft, ~overtook, AdminsIn(user) \subseteq AdminsIn(user'),
         SomebodyActs' => SomebodyActs \/ AdminsIn(user') # {},
         \A q \in Pending' : (\E p \in Pending : p.id = q.id) \/ AdminsIn(user') \ {q.id} # {}
  PROVE  AdminsLeft'
BY DEF AdminsLeft

(* A request goes on or ends, and becomes no threat. *)
LEMMA GoesOn ==
  ASSUME AccountsType, NEW r \in Requests, request[r] # None,
         \A x \in Requests : x # r => request'[x] = request[x],
         request'[r] # None =>
           /\ request'[r].what = request[r].what /\ request'[r].id = request[r].id
           /\ request'[r].loses = request[r].loses /\ request'[r].step # "checked"
  PROVE  /\ \A q \in Pending' : \E p \in Pending : p.id = q.id
         /\ Underway # {}
BY DEF Pending, Underway

(* A request that is new. *)
LEMMA BeginsOn ==
  ASSUME NEW r \in Requests, NEW call,
         \A x \in Requests : x # r => request'[x] = request[x], request'[r] = call
  PROVE  \A q \in Pending' : q = call \/ q \in Pending
BY DEF Pending, Underway

(* The row an update writes: what the patch names, the rest as it was. *)
LEMMA UpdatedRow ==
  ASSUME AccountsType, NEW r \in Requests, UpdateWrites(r), Exists(request[r].id)
  PROVE  LET id == request[r].id
             patch == request[r].patch
         IN  /\ user'[id] \in Account /\ user'[id] # None
             /\ user'[id].admin = IF patch.admin = None THEN user[id].admin ELSE patch.admin
             /\ user'[id].disabled = IF patch.disabled = None THEN user[id].disabled ELSE patch.disabled
             /\ user'[id].must = user[id].must
             /\ \A u \in Users : u # id => user'[u] = user[u]
<1> DEFINE id == request[r].id
           patch == request[r].patch
           a == IF patch.admin = None THEN user[id].admin ELSE patch.admin
           d == IF patch.disabled = None THEN user[id].disabled ELSE patch.disabled
           row == [[user[id] EXCEPT !.admin = a] EXCEPT !.disabled = d]
<1>0. request[r] \in AccountCall /\ request[r].what = "update" /\ user \in [Users -> Account \cup {None}]
  BY DEF UpdateWrites, AccountsType
<1>1. id \in Users /\ patch \in Patches
  BY <1>0, CallKinds DEF Update
<1>2. user[id] \in Account
  BY <1>0, <1>1 DEF Exists
<1>3. a \in BOOLEAN /\ d \in BOOLEAN
  BY <1>1, <1>2, PatchType DEF Account
<1>4. user' = [user EXCEPT ![id].admin = a, ![id].disabled = d]
  BY DEF UpdateWrites
<1> HIDE DEF a, d
<1>5. row \in Account /\ row.admin = a /\ row.disabled = d /\ row.must = user[id].must
  BY <1>2, <1>3 DEF Account
<1> HIDE DEF id
<1>6. user'[id] = row /\ \A u \in Users : u # id => user'[u] = user[u]
  BY <1>0, <1>1, <1>4
<1> HIDE DEF row
<1>7. row # None
  BY <1>5, AccountsAssumption
<1> QED BY <1>5, <1>6, <1>7 DEF a, d, id

LEMMA AdminsKept ==
  ASSUME AccountsType, AdminsLeft, AccountsNext
  PROVE  AdminsLeft'
<1>0. /\ user \in [Users -> Account \cup {None}]
      /\ sess \in [Sessions -> SessionKey \cup {None}] /\ request \in [Requests -> AccountCall \cup {None}]
      /\ overtook \in BOOLEAN
  BY DEF AccountsType
<1>1. ASSUME NEW r \in Requests, NEW id \in Users, NEW patch \in Patches, UpdateChecks(r, id, patch)
      PROVE  AdminsLeft'
  <2> DEFINE call == [what |-> "update", id |-> id, step |-> "checked", patch |-> patch, session |-> None,
                      loses |-> patch.admin = FALSE \/ patch.disabled = TRUE]
  <2>1. call \in AccountCall /\ call.id = id /\ (call.loses <=> patch.admin = FALSE \/ patch.disabled = TRUE)
    BY CallsMade
  <2>2. Takes(r, call)
    BY <1>1 DEF UpdateChecks
  <2> HIDE DEF call
  <2>3. \A q \in Pending' : q = call \/ q \in Pending
    BY <2>1, <2>2, TakesStep, BeginsOn DEF Takes
  <2>4. Exists(id) /\ SomebodyActs /\ user' = user /\ overtook' = overtook
    BY <1>1, <2>2 DEF UpdateChecks, Takes, SomebodyActs
  <2>5. CASE ~overtook
    <3>1. AdminsIn(user) # {}
      BY <2>4, <2>5 DEF AdminsLeft
    <3>2. ASSUME call \in Pending' PROVE AdminsIn(user) \ {id} # {}
      <4>1. patch.admin = FALSE \/ patch.disabled = TRUE
        BY <2>1, <3>2 DEF Pending
      <4>2. CASE id \notin AdminsIn(user)
        BY <3>1, <4>2
      <4>3. CASE id \in AdminsIn(user)
        <5>1. OtherAdmins(id) # {}
          BY <1>1, <4>1, <4>3, AdminsWere DEF UpdateChecks, AdminsIn
        <5> QED BY <5>1, AdminsWere
      <4> QED BY <4>2, <4>3
    <3> QED BY <2>1, <2>3, <2>4, <2>5, <3>1, <3>2, AdminsStay
  <2> QED BY <2>4, <2>5 DEF AdminsLeft
<1>2. ASSUME NEW r \in Requests, NEW id \in Users, NEW keep \in Sessions \cup {None}, PasswordWrites(r, id, keep)
      PROVE  AdminsLeft'
  <2> DEFINE call == [what |-> "password", id |-> id, session |-> keep, loses |-> FALSE,
                      step |-> IF keep = None THEN "destroy" ELSE "keep"]
  <2>1. call \in AccountCall /\ ~call.loses
    BY CallsMade
  <2>2. request' = [request EXCEPT ![r] = call]
    BY <1>2 DEF PasswordWrites
  <2> HIDE DEF call
  <2>3. \A q \in Pending' : q = call \/ q \in Pending
    BY <2>1, <2>2, TakesStep, BeginsOn
  <2>4. call \notin Pending'
    BY <2>1 DEF Pending
  <2>5. Exists(id) /\ SomebodyActs /\ overtook' = overtook
    BY <1>2 DEF PasswordWrites, SomebodyActs
  <2>6. AdminsIn(user) \subseteq AdminsIn(user')
    <3>1. user[id] \in Account
      BY <1>0, <2>5 DEF Exists
    <3>2. /\ user' = [user EXCEPT ![id] = [user[id] EXCEPT !.must = (keep = None)]]
      BY <1>2 DEF PasswordWrites
    <3>3. [user[id] EXCEPT !.must = (keep = None)] \in Account
          /\ [user[id] EXCEPT !.must = (keep = None)].admin = user[id].admin
          /\ [user[id] EXCEPT !.must = (keep = None)].disabled = user[id].disabled
      BY <3>1 DEF Account
    <3> QED BY <1>0, <3>2, <3>3, AccountsAssumption DEF AdminsIn
  <2> QED BY <2>3, <2>4, <2>5, <2>6, AdminsStay DEF AdminsLeft
<1>3. ASSUME NEW r \in Requests, NEW id \in Users, NEW s \in Sessions, RemoveChecks(r, id, s)
      PROVE  AdminsLeft'
  <2> DEFINE call == [what |-> "remove", id |-> id, step |-> "destroy", session |-> None, loses |-> TRUE]
  <2>1. call \in AccountCall /\ call.id = id
    BY CallsMade
  <2>2. Takes(r, call)
    BY <1>3 DEF RemoveChecks
  <2> HIDE DEF call
  <2>3. \A q \in Pending' : q = call \/ q \in Pending
    BY <2>1, <2>2, TakesStep, BeginsOn DEF Takes
  <2>4. Exists(id) /\ SomebodyActs /\ user' = user /\ overtook' = overtook
    BY <1>3, <2>2 DEF RemoveChecks, Takes, SomebodyActs
  <2>5. CASE ~overtook
    <3>1. AdminsIn(user) # {}
      BY <2>4, <2>5 DEF AdminsLeft
    <3>2. AdminsIn(user) \ {id} # {}
      <4>1. CASE id \notin AdminsIn(user)
        BY <3>1, <4>1
      <4>2. CASE id \in AdminsIn(user)
        BY <1>3, <4>2, AdminsWere DEF RemoveChecks, AdminsIn
      <4> QED BY <4>1, <4>2
    <3> QED BY <2>1, <2>3, <2>4, <2>5, <3>1, <3>2, AdminsStay
  <2> QED BY <2>4, <2>5 DEF AdminsLeft
<1>4. ASSUME NEW r \in Requests, NEW id \in Users, NEW s \in Sessions, LoginReads(r, id, s)
      PROVE  AdminsLeft'
  <2> DEFINE rowKey == [user |-> id, admin |-> user[id].admin, must |-> user[id].must]
             call == [what |-> "login", id |-> id, step |-> "read", session |-> s, loses |-> FALSE, copy |-> rowKey]
  <2>0. rowKey \in SessionKey
    BY <1>0, <1>4 DEF LoginReads, Exists, Account, SessionKey
  <2>1. call \in AccountCall /\ ~call.loses
    BY <2>0, CallsMade
  <2>2. Takes(r, call)
    BY <1>4 DEF LoginReads
  <2> HIDE DEF call
  <2>3. \A q \in Pending' : q = call \/ q \in Pending
    BY <2>1, <2>2, TakesStep, BeginsOn DEF Takes
  <2>4. call \notin Pending'
    BY <2>1 DEF Pending
  <2>5. SomebodyActs /\ user' = user /\ overtook' = overtook
    BY <1>4, <2>2 DEF LoginReads, Takes, SomebodyActs
  <2> QED BY <2>3, <2>4, <2>5, AdminsStay DEF AdminsLeft
<1>5. ASSUME NEW r \in Requests, UpdateWrites(r) PROVE AdminsLeft'
  <2> DEFINE q == request[r]
             id == q.id
  <2>1. /\ q \in Update /\ q.what = "update" /\ q # None /\ q.step = "checked"
        /\ q.loses <=> q.patch.admin = FALSE \/ q.patch.disabled = TRUE
        /\ id \in Users /\ q.patch \in Patches /\ q.loses \in BOOLEAN
    BY <1>0, <1>5, CallKinds DEF UpdateWrites, Update
  <2>2. /\ \A x \in Requests : x # r => request'[x] = request[x]
        /\ request'[r] # None => /\ request'[r].what = "update" /\ request'[r].id = id
                                 /\ request'[r].loses = q.loses /\ request'[r].step # "checked"
    <3>1. CASE Ends(r)
      BY <2>1, <3>1, EndsStep
    <3>2. CASE Goes(r, "destroy")
      BY <2>1, <3>2, GoesStep
    <3>3. CASE Goes(r, "flags") /\ q.patch.admin # None
      BY <2>1, <3>3, GoesStep
    <3>4. Ends(r) \/ Goes(r, "destroy") \/ (Goes(r, "flags") /\ q.patch.admin # None)
      BY <1>5 DEF UpdateWrites
    <3> QED BY <3>1, <3>2, <3>3, <3>4
  <2>3. \A p \in Pending' : \E p0 \in Pending : p0.id = p.id
    BY <2>1, <2>2, GoesOn
  <2>4. SomebodyActs
    BY <2>1, <2>2, GoesOn DEF SomebodyActs
  <2>5. CASE ~Exists(id)
    BY <1>5, <2>3, <2>4, <2>5, AdminsStay DEF UpdateWrites, AdminsLeft
  <2>6. CASE Exists(id)
    <3>4. /\ user'[id].admin = IF q.patch.admin = None THEN user[id].admin ELSE q.patch.admin
          /\ user'[id].disabled = IF q.patch.disabled = None THEN user[id].disabled ELSE q.patch.disabled
          /\ user'[id] # None /\ \A u \in Users : u # id => user'[u] = user[u]
      BY <1>5, <2>6, UpdatedRow
    <3>5. ~q.loses => AdminsIn(user) \subseteq AdminsIn(user')
      <4> SUFFICES ASSUME ~q.loses, NEW u \in AdminsIn(user) PROVE u \in AdminsIn(user')
        OBVIOUS
      <4>1. CASE u # id
        BY <3>4, <4>1 DEF AdminsIn
      <4>2. CASE u = id
        <5>1. user[id].admin /\ ~user[id].disabled
          BY <4>2 DEF AdminsIn
        <5>2. q.patch.admin # FALSE /\ q.patch.disabled # TRUE
          BY <2>1
        <5>3. user'[id].admin /\ ~user'[id].disabled
          BY <2>1, <3>4, <5>1, <5>2, PatchType
        <5> QED BY <3>4, <4>2, <5>3 DEF AdminsIn
      <4> QED BY <4>1, <4>2
    <3>6. AdminsIn(user') \ {id} = AdminsIn(user) \ {id}
      <4> HIDE DEF id
      <4> QED BY <3>4 DEF AdminsIn
    <3>7. CASE ~q.loses
      <4>1. overtook' = overtook
        BY <1>5, <2>6, <3>7 DEF UpdateWrites
      <4> QED BY <2>3, <2>4, <3>5, <3>7, <4>1, AdminsStay DEF AdminsLeft
    <3>8. CASE q.loses /\ ~overtook'
      <4>1. ~overtook /\ Pending \ {q} = {}
        BY <1>0, <1>5, <2>6, <3>8 DEF UpdateWrites, Loses
      <4>2. q \in Pending
        BY <2>1, <3>8 DEF Pending, Underway
      <4>3. AdminsIn(user) \ {id} # {}
        BY <4>1, <4>2 DEF AdminsLeft
      <4>4. \A p \in Pending' : p.id = id
        BY <2>3, <4>1
      <4> QED BY <3>6, <4>3, <4>4 DEF AdminsLeft
    <3> QED BY <2>1, <3>7, <3>8 DEF AdminsLeft
  <2> QED BY <2>5, <2>6
<1>6. ASSUME NEW r \in Requests, UpdateFlags(r) \/ PasswordKeeps(r) \/ DestroyAll(r) \/ LoginCreates(r)
      PROVE  AdminsLeft'
  <2>1. request[r] # None /\ request[r] \in AccountCall
    BY <1>0, <1>6 DEF UpdateFlags, PasswordKeeps, DestroyAll, LoginCreates
  <2>2. CASE Ends(r)
    BY <1>6, <2>1, <2>2, EndsStep, GoesOn, AdminsStay
       DEF UpdateFlags, PasswordKeeps, DestroyAll, LoginCreates, AdminsLeft, SomebodyActs
  <2>3. CASE Goes(r, "destroy") /\ PasswordKeeps(r)
    <3>1. request[r].what = "password"
      BY <2>1, <2>3, CallKinds DEF PasswordKeeps, Password
    <3> QED BY <2>1, <2>3, <3>1, GoesStep, GoesOn, AdminsStay DEF PasswordKeeps, AdminsLeft, SomebodyActs
  <2>4. CASE Goes(r, "delete") /\ DestroyAll(r) /\ request[r].what = "remove"
    BY <2>1, <2>4, GoesStep, GoesOn, AdminsStay DEF DestroyAll, AdminsLeft, SomebodyActs
  <2>5. CASE Goes(r, "row") /\ LoginCreates(r)
    BY <2>1, <2>5, GoesStep, GoesOn, AdminsStay DEF LoginCreates, AdminsLeft, SomebodyActs
  <2> QED BY <1>6, <2>2, <2>3, <2>4, <2>5 DEF UpdateFlags, PasswordKeeps, DestroyAll, LoginCreates
<1>7. ASSUME NEW r \in Requests, RemoveDeletes(r) PROVE AdminsLeft'
  <2> DEFINE q == request[r]
             id == q.id
  <2>1. /\ q \in Removal /\ q.what = "remove" /\ q # None /\ q.loses /\ id \in Users /\ Ends(r)
    BY <1>0, <1>7, CallKinds DEF RemoveDeletes, Removal
  <2>2. request'[r] = None /\ \A x \in Requests : x # r => request'[x] = request[x]
    BY <2>1, EndsStep
  <2>3. (\A p \in Pending' : \E p0 \in Pending : p0.id = p.id) /\ SomebodyActs
    BY <2>1, <2>2, GoesOn DEF SomebodyActs
  <2>4. CASE UNCHANGED <<user, overtook>>
    BY <2>3, <2>4, AdminsStay DEF AdminsLeft
  <2>5. CASE user' = [user EXCEPT ![id] = None] /\ Loses(r) /\ ~overtook'
    <3>1. ~overtook /\ Pending \ {q} = {}
      BY <1>0, <2>5 DEF Loses
    <3>2. q \in Pending
      BY <2>1 DEF Pending, Underway
    <3>3. AdminsIn(user) \ {id} # {}
      BY <3>1, <3>2 DEF AdminsLeft
    <3>4. \A p \in Pending' : p.id = id
      BY <2>3, <3>1
    <3>5. AdminsIn(user') \ {id} = AdminsIn(user) \ {id}
      <4> HIDE DEF id
      <4> QED BY <1>0, <2>5 DEF AdminsIn
    <3> QED BY <3>3, <3>4, <3>5 DEF AdminsLeft
  <2> QED BY <1>7, <2>1, <2>4, <2>5 DEF RemoveDeletes, AdminsLeft
<1>8. ASSUME NEW id \in Users, NEW admin \in BOOLEAN, Create(id, admin) PROVE AdminsLeft'
  <2>1. AdminsIn(user) \subseteq AdminsIn(user') /\ Pending' = Pending /\ overtook' = overtook /\ SomebodyActs
    BY <1>0, <1>8 DEF Create, AdminsIn, Exists, Pending, Underway, SomebodyActs, ByAdmin
  <2> QED BY <2>1, AdminsStay DEF AdminsLeft
<1>9. ASSUME NEW id \in Users, createFirstAdmin(id) PROVE AdminsLeft'
  <2> DEFINE row == [admin |-> TRUE, disabled |-> FALSE, must |-> FALSE]
  <2>0. row \in Account /\ row.admin /\ ~row.disabled
    BY DEF Account
  <2>2. user' = [user EXCEPT ![id] = row]
    BY <1>9 DEF createFirstAdmin
  <2> HIDE DEF row
  <2>1. row # None
    BY <2>0, AccountsAssumption
  <2>3. id \in AdminsIn(user') /\ AdminsIn(user) \subseteq AdminsIn(user')
    BY <1>0, <1>9, <2>0, <2>1, <2>2 DEF AdminsIn, createFirstAdmin, Exists
  <2>4. Pending' = Pending /\ overtook' = overtook
    BY <1>9 DEF createFirstAdmin, Pending, Underway
  <2> QED BY <2>3, <2>4, AdminsStay DEF AdminsLeft
<1>10. ASSUME NEW s \in Sessions, Logout(s) PROVE AdminsLeft'
  <2>1. user' = user /\ Pending' = Pending /\ overtook' = overtook /\ SomebodyActs
    BY <1>10 DEF Logout, Pending, Underway, SomebodyActs
  <2> QED BY <2>1, AdminsStay DEF AdminsLeft
<1> QED BY <1>1, <1>2, <1>3, <1>4, <1>5, <1>6, <1>7, <1>8, <1>9, <1>10 DEF AccountsNext


-----------------------------------------------------------------------------
(* The sessions that requests hold on to, when keys and table of sessions only  *)
(* go, and a request goes on or ends.                                          *)
LEMMA HeldOn ==
  ASSUME AccountsType, Held, HeldApart, NEW r \in Requests, request[r] # None,
         \A x \in Requests : x # r => request'[x] = request[x],
         request'[r] # None =>
           /\ request'[r].what = request[r].what /\ request'[r].id = request[r].id
           /\ request'[r].session = request[r].session /\ request'[r].step # "read"
           /\ request'[r].what = "login" => request'[r].copy = request[r].copy,
         \A s \in Sessions : /\ sess'[s] # None => sess[s] # None /\ sess'[s].user = sess[s].user
                             /\ listed'[s] \in {None, listed[s]}
  PROVE  Held' /\ HeldApart'
<1>0. \A x \in Requests : request[x] # None => request[x].session \in Sessions \cup {None}
  BY CallKinds DEF AccountsType
<1>1. Held'
  <2> SUFFICES ASSUME NEW x \in Requests, request'[x] # None PROVE HeldBy(request[x])'
    BY DEF Held
  <2>1. CASE x = r
    <3>1. HeldBy(request[r]) /\ request[r].session \in Sessions \cup {None}
      BY <1>0 DEF Held
    <3> QED BY <2>1, <3>1 DEF HeldBy
  <2>2. CASE x # r
    <3>1. HeldBy(request[x]) /\ request[x].session \in Sessions \cup {None} /\ request'[x] = request[x]
      BY <1>0, <2>2 DEF Held
    <3> QED BY <3>1 DEF HeldBy
  <2> QED BY <2>1, <2>2
<1>2. HeldApart'
  BY DEF HeldApart, NotShared, JustRead
<1> QED BY <1>1, <1>2

LEMMA HeldNothing ==
  ASSUME Held, HeldApart, NEW r \in Requests, NEW call, call.session = None,
         \A x \in Requests : x # r => request'[x] = request[x], request'[r] = call,
         sess' = sess, listed' = listed
  PROVE  Held' /\ HeldApart'
BY DEF Held, HeldBy, HeldApart, NotShared, JustRead

(* Accounts stay accounts, and sessions with their owners. *)
LEMMA OwnersStay ==
  ASSUME Owned,
         \A u \in Users : user[u] # None => user'[u] # None,
         \A s \in Sessions : listed'[s] \in Users \cup {None},
         \A s \in Sessions : /\ sess'[s] # None => sess[s] # None /\ sess'[s].user = sess[s].user
                             /\ listed'[s] \in {None, listed[s]}
  PROVE  Owned'
BY DEF Owned, Exists

LEMMA SessionsStayOwned ==
  ASSUME AccountsType, AccountsType', SessionsOwned, AccountsNext
  PROVE  SessionsOwned'
<1>0. /\ user \in [Users -> Account \cup {None}] /\ listed \in [Sessions -> Users \cup {None}]
      /\ sess \in [Sessions -> SessionKey \cup {None}] /\ request \in [Requests -> AccountCall \cup {None}]
      /\ listed' \in [Sessions -> Users \cup {None}] /\ user' \in [Users -> Account \cup {None}]
      /\ sess' \in [Sessions -> SessionKey \cup {None}]
      /\ Owned /\ Held /\ HeldApart
  BY DEF AccountsType, SessionsOwned
<1>a. ASSUME NEW call \in AccountCall, NEW r \in Requests, Takes(r, call), call.session = None
      PROVE  SessionsOwned'
  <2>1. Owned'
    BY <1>0, <1>a, OwnersStay DEF Takes
  <2> QED BY <1>0, <1>a, <2>1, TakesStep, HeldNothing DEF Takes, SessionsOwned
<1>1. ASSUME NEW r \in Requests, NEW id \in Users, NEW patch \in Patches, UpdateChecks(r, id, patch)
      PROVE  SessionsOwned'
  BY <1>1, <1>a, CallsMade DEF UpdateChecks
<1>2. ASSUME NEW r \in Requests, NEW id \in Users, NEW keep \in Sessions \cup {None}, PasswordWrites(r, id, keep)
      PROVE  SessionsOwned'
  <2> DEFINE call == [what |-> "password", id |-> id, session |-> keep, loses |-> FALSE,
                      step |-> IF keep = None THEN "destroy" ELSE "keep"]
  <2>1. call \in AccountCall /\ call.what = "password" /\ call.session = keep /\ call.id = id
    BY CallsMade
  <2>2. request' = [request EXCEPT ![r] = call]
    BY <1>2 DEF PasswordWrites
  <2>3. request[r] = None /\ sess' = sess /\ listed' = listed
        /\ (keep # None => keep \in Sessions /\ sess[keep] # None /\ sess[keep].user = id)
    BY <1>2 DEF PasswordWrites
  <2> HIDE DEF call
  <2>4. request'[r] = call /\ \A x \in Requests : x # r => request'[x] = request[x]
    BY <2>1, <2>2, TakesStep
  <2>5. Owned'
    <3>1. user[id] \in Account /\ user' = [user EXCEPT ![id] = [user[id] EXCEPT !.must = (keep = None)]]
      BY <1>0, <1>2 DEF PasswordWrites, Exists
    <3>2. [user[id] EXCEPT !.must = (keep = None)] \in Account
      BY <3>1 DEF Account
    <3>3. \A u \in Users : user[u] # None => user'[u] # None
      BY <1>0, <3>1, <3>2, AccountsAssumption
    <3> QED BY <1>0, <2>3, <3>3, OwnersStay
  <2>6. CASE keep = None
    BY <1>0, <2>1, <2>3, <2>4, <2>5, <2>6, HeldNothing DEF SessionsOwned
  <2>7. CASE keep # None
    <3>1. listed[keep] \in {None, id}
      BY <1>0, <2>3, <2>7 DEF Owned
    <3>2. Held'
      BY <1>0, <2>1, <2>3, <2>4, <3>1 DEF Held, HeldBy
    <3>3. \A x \in Requests : x # r /\ request[x] # None /\ request[x].session = keep =>
            request[x].id = id /\ ~JustRead(request[x])
      BY <1>0, <2>3, <2>7 DEF Held, HeldBy, JustRead
    <3>4. HeldApart'
      <4>1. \A x \in Requests : x # r /\ request[x] # None =>
              NotShared(request[x], call) /\ NotShared(call, request[x])
        BY <2>1, <3>3 DEF NotShared, JustRead
      <4> QED BY <1>0, <2>4, <4>1 DEF HeldApart
    <3> QED BY <2>5, <3>2, <3>4 DEF SessionsOwned
  <2> QED BY <2>6, <2>7
<1>3. ASSUME NEW r \in Requests, NEW id \in Users, NEW s \in Sessions, RemoveChecks(r, id, s)
      PROVE  SessionsOwned'
  BY <1>3, <1>a, CallsMade DEF RemoveChecks
<1>4. ASSUME NEW r \in Requests, NEW id \in Users, NEW s \in Sessions, LoginReads(r, id, s)
      PROVE  SessionsOwned'
  <2> DEFINE rowKey == [user |-> id, admin |-> user[id].admin, must |-> user[id].must]
             call == [what |-> "login", id |-> id, step |-> "read", session |-> s, loses |-> FALSE, copy |-> rowKey]
  <2>0. rowKey \in SessionKey
    BY <1>0, <1>4 DEF LoginReads, Exists, Account, SessionKey
  <2>1. call \in AccountCall /\ call.session = s /\ call.id = id /\ call.copy.user = id
    BY <2>0, CallsMade
  <2>2. Takes(r, call)
    BY <1>4 DEF LoginReads
  <2>3. sess[s] = None /\ listed[s] = None /\ \A x \in Requests : request[x] # None => request[x].session # s
    BY <1>4 DEF LoginReads, Underway
  <2> HIDE DEF call
  <2>4. request'[r] = call /\ \A x \in Requests : x # r => request'[x] = request[x]
    BY <2>1, <2>2, TakesStep DEF Takes
  <2>5. sess' = sess /\ listed' = listed /\ user' = user
    BY <2>2 DEF Takes
  <2>6. Held'
    BY <1>0, <2>1, <2>3, <2>4, <2>5 DEF Held, HeldBy
  <2>7. HeldApart'
    BY <1>0, <2>1, <2>3, <2>4 DEF HeldApart, NotShared
  <2> QED BY <1>0, <2>5, <2>6, <2>7, OwnersStay DEF SessionsOwned
<1>5. ASSUME NEW r \in Requests, UpdateWrites(r) PROVE SessionsOwned'
  <2>1. request[r] \in AccountCall /\ request[r].what = "update" /\ request[r] # None /\ sess' = sess /\ listed' = listed
    BY <1>0, <1>5 DEF UpdateWrites
  <2>2. \/ Ends(r) \/ Goes(r, "destroy") \/ (Goes(r, "flags") /\ request[r].patch.admin # None)
    BY <1>5 DEF UpdateWrites
  <2>3. \A x \in Requests : x # r => request'[x] = request[x]
    BY <2>1, <2>2, EndsStep, GoesStep
  <2>4. request'[r] # None =>
          /\ request'[r].what = "update" /\ request'[r].id = request[r].id
          /\ request'[r].session = request[r].session /\ request'[r].step # "read"
    <3>1. CASE Ends(r)
      BY <2>1, <3>1, EndsStep
    <3>2. CASE Goes(r, "destroy")
      BY <2>1, <3>2, GoesStep
    <3>3. CASE Goes(r, "flags") /\ request[r].patch.admin # None
      BY <2>1, <3>3, GoesStep
    <3> QED BY <2>2, <3>1, <3>2, <3>3
  <2>5. Held' /\ HeldApart'
    BY <1>0, <2>1, <2>3, <2>4, HeldOn
  <2>6. \A u \in Users : user[u] # None => user'[u] # None
    <3>1. CASE user' = user
      BY <3>1
    <3>2. CASE Exists(request[r].id)
      <4> DEFINE id == request[r].id
                 a == user'[id].admin
      <4>1. id \in Users
        BY <2>1, CallKinds
      <4>2. \A u \in Users : u # id => user'[u] = user[u]
        BY <1>0, <1>5, <3>2 DEF UpdateWrites
      <4>3. user'[id] # None
        BY <1>0, <1>5, <3>2, <4>1, UpdatedRow
      <4> QED BY <4>2, <4>3
    <3> QED BY <1>5, <3>1, <3>2 DEF UpdateWrites
  <2>7. Owned'
    BY <1>0, <2>1, <2>6, OwnersStay
  <2> QED BY <2>5, <2>7 DEF SessionsOwned
<1>6. ASSUME NEW r \in Requests, UpdateFlags(r) PROVE SessionsOwned'
  <2>1. request[r] \in AccountCall /\ request[r] # None /\ user' = user /\ listed' = listed /\ Ends(r)
    BY <1>0, <1>6 DEF UpdateFlags
  <2>2. \A s \in Sessions : sess'[s] # None => sess[s] # None /\ sess'[s].user = sess[s].user
    BY <1>0, <1>6 DEF UpdateFlags, SessionKey
  <2>3. Held' /\ HeldApart'
    BY <1>0, <2>1, <2>2, EndsStep, HeldOn
  <2>4. Owned'
    BY <1>0, <2>1, <2>2, OwnersStay
  <2> QED BY <2>3, <2>4 DEF SessionsOwned
<1>7. ASSUME NEW r \in Requests, PasswordKeeps(r) PROVE SessionsOwned'
  <2>1. request[r] \in AccountCall /\ request[r] # None /\ user' = user /\ listed' = listed /\ Goes(r, "destroy")
        /\ request[r].what = "password"
    BY <1>0, <1>7, CallKinds DEF PasswordKeeps, Password
  <2>2. \A s \in Sessions : sess'[s] # None => sess[s] # None /\ sess'[s].user = sess[s].user
    BY <1>0, <1>7 DEF PasswordKeeps, SessionKey
  <2>3. Held' /\ HeldApart'
    BY <1>0, <2>1, <2>2, GoesStep, HeldOn
  <2>4. Owned'
    BY <1>0, <2>1, <2>2, OwnersStay
  <2> QED BY <2>3, <2>4 DEF SessionsOwned
<1>8. ASSUME NEW r \in Requests, DestroyAll(r) PROVE SessionsOwned'
  <2>1. request[r] \in AccountCall /\ request[r] # None /\ user' = user
        /\ (Ends(r) \/ (Goes(r, "delete") /\ request[r].what = "remove"))
    BY <1>0, <1>8 DEF DestroyAll
  <2>2. \A s \in Sessions : /\ sess'[s] # None => sess[s] # None /\ sess'[s].user = sess[s].user
                            /\ listed'[s] \in {None, listed[s]}
    BY <1>0, <1>8 DEF DestroyAll
  <2>3. ASSUME Ends(r) PROVE Held' /\ HeldApart'
    <3>1. request'[r] = None /\ \A x \in Requests : x # r => request'[x] = request[x]
      BY <2>1, <2>3, EndsStep
    <3> QED BY <1>0, <2>1, <2>2, <3>1, HeldOn
  <2>4. ASSUME Goes(r, "delete"), request[r].what = "remove" PROVE Held' /\ HeldApart'
    <3>1. /\ \A x \in Requests : x # r => request'[x] = request[x]
          /\ request'[r].what = request[r].what /\ request'[r].id = request[r].id
          /\ request'[r].session = request[r].session /\ request'[r].step # "read"
      BY <2>1, <2>4, GoesStep
    <3> QED BY <1>0, <2>1, <2>2, <2>4, <3>1, HeldOn
  <2>5. Owned'
    BY <1>0, <2>1, <2>2, OwnersStay
  <2> QED BY <2>1, <2>3, <2>4, <2>5 DEF SessionsOwned
<1>9. ASSUME NEW r \in Requests, RemoveDeletes(r) PROVE SessionsOwned'
  <2>1. request[r] \in AccountCall /\ request[r] # None /\ sess' = sess /\ Ends(r) /\ request[r].id \in Users
    BY <1>0, <1>9, CallKinds DEF RemoveDeletes
  <2>2. \A s \in Sessions : listed'[s] \in {None, listed[s]}
    BY <1>0, <1>9 DEF RemoveDeletes
  <2>3. Held' /\ HeldApart'
    BY <1>0, <2>1, <2>2, EndsStep, HeldOn
  <2>4. Owned'
    BY <1>0, <1>9, <2>1 DEF RemoveDeletes, Owned, Exists
  <2> QED BY <2>3, <2>4 DEF SessionsOwned
<1>10. ASSUME NEW r \in Requests, LoginCreates(r) PROVE SessionsOwned'
  <2> DEFINE q == request[r]
             s == q.session
  <2>1. q \in AccountCall /\ q \in Login /\ q # None /\ q.what = "login" /\ s \in Sessions /\ user' = user
    <3>1. q \in AccountCall /\ q # None /\ q.what = "login" /\ user' = user
      BY <1>0, <1>10 DEF LoginCreates
    <3>2. q \in Login
      BY <3>1, CallKinds
    <3> HIDE DEF q
    <3> QED BY <3>1, <3>2 DEF Login
  <2>2. s # None
    BY <2>1, AccountsAssumption
  <2>3. HeldBy(q) /\ listed[s] = None /\ q.copy.user = q.id
    BY <1>0, <2>1, <2>2 DEF Held, HeldBy
  <2>4. \A x \in Requests : x # r /\ request[x] # None /\ request[x].session = s =>
          request[x].id = q.id /\ ~JustRead(request[x]) /\ request[x].what # "login"
    BY <1>0, <2>1, <2>2 DEF HeldApart, NotShared
  <2>5. CASE q.step = "read"
    <3>1. sess' = [sess EXCEPT ![s] = q.copy] /\ Goes(r, "row") /\ listed' = listed
      BY <1>10, <2>5 DEF LoginCreates
    <3>2. /\ \A x \in Requests : x # r => request'[x] = request[x]
          /\ request'[r].what = "login" /\ request'[r].id = q.id /\ request'[r].session = s
          /\ request'[r].copy = q.copy /\ request'[r].step = "row"
      BY <2>1, <3>1, GoesStep
    <3> HIDE DEF q, s
    <3>3. Owned'
      BY <1>0, <2>1, <2>3, <3>1 DEF Owned, Exists
    <3>4. Held'
      <4>1. ASSUME NEW x \in Requests, request'[x] # None, x # r PROVE HeldBy(request[x])'
        <5>1. request'[x] = request[x] /\ HeldBy(request[x]) /\ request[x].session \in Sessions \cup {None}
          BY <1>0, <3>2, <4>1, CallKinds DEF Held
        <5>2. CASE request[x].session = s
          BY <1>0, <2>1, <2>3, <2>4, <3>1, <4>1, <5>1, <5>2 DEF HeldBy
        <5>3. CASE request[x].session # s
          BY <1>0, <2>1, <3>1, <5>1, <5>3 DEF HeldBy
        <5> QED BY <5>2, <5>3
      <4>2. HeldBy(request[r])'
        BY <1>0, <2>1, <2>3, <3>1, <3>2 DEF HeldBy
      <4> QED BY <4>1, <4>2 DEF Held
    <3>5. HeldApart'
      BY <1>0, <2>1, <2>4, <3>2 DEF HeldApart, NotShared, JustRead
    <3> QED BY <3>3, <3>4, <3>5 DEF SessionsOwned
  <2>6. CASE q.step = "row" /\ listed' = listed
    <3>1. sess' = sess /\ Ends(r)
      BY <1>10, <2>6 DEF LoginCreates
    <3> QED BY <1>0, <2>1, <2>6, <3>1, EndsStep, HeldOn, OwnersStay DEF SessionsOwned
  <2>7. CASE q.step = "row" /\ Exists(q.id) /\ listed' = [listed EXCEPT ![s] = q.id]
    <3>1. sess' = sess /\ Ends(r)
      BY <1>10, <2>7 DEF LoginCreates
    <3>2. request'[r] = None /\ \A x \in Requests : x # r => request'[x] = request[x]
      BY <2>1, <3>1, EndsStep
    <3>3. sess[s] # None => sess[s].user = q.id
      BY <2>2, <2>3 DEF HeldBy
    <3> HIDE DEF q, s
    <3>4. Owned'
      BY <1>0, <2>1, <2>7, <3>1, <3>3 DEF Owned, Exists
    <3>5. Held'
      BY <1>0, <2>1, <2>4, <2>7, <3>1, <3>2 DEF Held, HeldBy
    <3>6. HeldApart'
      BY <1>0, <3>2 DEF HeldApart
    <3> QED BY <3>4, <3>5, <3>6 DEF SessionsOwned
  <2> QED BY <1>10, <2>5, <2>6, <2>7 DEF LoginCreates
<1>b. ASSUME NEW id \in Users, user[id] = None, \A u \in Users : u # id => user'[u] = user[u],
             UNCHANGED <<listed, sess, request>>
      PROVE  SessionsOwned'
  <2>1. Owned'
    BY <1>0, <1>b, OwnersStay
  <2> QED BY <1>0, <1>b, <2>1 DEF SessionsOwned, Held, HeldBy, HeldApart
<1>11. ASSUME NEW id \in Users, NEW admin \in BOOLEAN, Create(id, admin) PROVE SessionsOwned'
  BY <1>0, <1>11, <1>b DEF Create, Exists
<1>12. ASSUME NEW id \in Users, createFirstAdmin(id) PROVE SessionsOwned'
  BY <1>0, <1>12, <1>b DEF createFirstAdmin, Exists
<1>13. ASSUME NEW s \in Sessions, Logout(s) PROVE SessionsOwned'
  <2>1. /\ request' = request /\ user' = user
        /\ \A x \in Sessions : /\ sess'[x] # None => sess[x] # None /\ sess'[x].user = sess[x].user
                               /\ listed'[x] \in {None, listed[x]}
    BY <1>0, <1>13 DEF Logout
  <2>2. Held'
    <3> SUFFICES ASSUME NEW x \in Requests, request[x] # None PROVE HeldBy(request[x])'
      BY <2>1 DEF Held
    <3>1. HeldBy(request[x]) /\ request[x].session \in Sessions \cup {None}
      BY ZenonT(30), <1>0, CallKinds DEF Held
    <3> QED BY <2>1, <3>1 DEF HeldBy
  <2> QED BY <1>0, <2>1, <2>2, OwnersStay DEF SessionsOwned, HeldApart
<1> QED BY <1>1, <1>2, <1>3, <1>4, <1>5, <1>6, <1>7, <1>8, <1>9, <1>10, <1>11, <1>12, <1>13 DEF AccountsNext


-----------------------------------------------------------------------------
(* An account that a step is not about. *)
LEMMA Aside ==
  ASSUME NEW u \in Users, Aligned(u), user'[u] = user[u],
         \A x \in Requests : Concerns(x, u) \/ Concerns(x, u)' => request'[x] = request[x],
         \A s \in Sessions : listed'[s] = u => listed[s] = u /\ sess'[s] \in {None, sess[s]},
         \A x \in Requests : Concerns(x, u) /\ request[x].what = "login" /\ request[x].step = "row" =>
           sess'[request[x].session] \in {None, sess[request[x].session]}
  PROVE  Aligned(u)'
<1>1. \A x \in Requests : Concerns(x, u)' <=> Concerns(x, u)
  BY DEF Concerns
<1>2. \A s \in Sessions : s \in SessionsOf(u)' => s \in SessionsOf(u) /\ (InSync(u, s) => InSync(u, s)')
  BY DEF SessionsOf, InSync, KeyOf
<1>3. ASSUME NEW x \in Requests, Concerns(x, u)' PROVE FollowsUp(request[x])'
  <2>1. FollowsUp(request[x]) /\ request'[x] = request[x] /\ request[x].id = u
    BY <1>1, <1>3 DEF Aligned, Concerns
  <2>2. Exists(u)' /\ KeyOf(u)' = KeyOf(u)
    BY <2>1 DEF FollowsUp, Exists, KeyOf
  <2>3. SessionsOf(u)' \subseteq SessionsOf(u) /\ SessionsOf(u) \subseteq Sessions
    BY DEF SessionsOf
  <2>4. \A s \in SessionsOf(u)' : sess'[s] \in {None, sess[s]}
    BY DEF SessionsOf
  <2> DEFINE q == request[x]
             q1 == request'[x]
  <2>5. q1 = q /\ q.id = u
    BY <2>1
  <2>6. q.what = "login" => /\ ~user'[u].disabled /\ q.copy = KeyOf(u)'
                            /\ q.step = "row" => sess'[q.session] \in {None, q.copy}
    BY <1>1, <1>3, <2>1, <2>2 DEF FollowsUp
  <2>7. q.what = "login" \/ q.step = "checked" => \A s \in SessionsOf(u)' : InSync(u, s)'
    BY <1>2, <2>1, <2>3 DEF FollowsUp
  <2>8. q.step = "flags" => \A s \in SessionsOf(u)' : sess'[s] # None =>
                               ~user'[u].disabled /\ user'[u].admin = q.patch.admin /\ sess'[s].must = user'[u].must
    BY <2>1, <2>3, <2>4 DEF FollowsUp
  <2>9. q.step = "keep" => /\ ~user'[u].must /\ q.session # None
                           /\ \A s \in SessionsOf(u)' : sess'[s] # None =>
                                ~user'[u].disabled /\ sess'[s].admin = user'[u].admin
    BY <2>1, <2>3, <2>4 DEF FollowsUp
  <2>10. q.what = "password" /\ q.step = "destroy" =>
           \A s \in SessionsOf(u)' : s = q.session => InSync(u, s)'
    BY <1>2, <2>1, <2>3 DEF FollowsUp
  <2>11. q.step = "delete" => SessionsOf(u)' = {}
    BY <2>1, <2>3 DEF FollowsUp
  <2> QED BY <2>2, <2>5, <2>6, <2>7, <2>8, <2>9, <2>10, <2>11 DEF FollowsUp
<1>4. ASSUME \A x \in Requests : ~Concerns(x, u)', NEW s \in SessionsOf(u)' PROVE InSync(u, s)'
  BY <1>1, <1>2, <1>4 DEF Aligned, SessionsOf
<1>5. \A r1, r2 \in Requests : Concerns(r1, u)' /\ Concerns(r2, u)' => r1 = r2
  BY <1>1 DEF Aligned
<1> QED BY <1>3, <1>4, <1>5 DEF Aligned

(* The request about an account goes on. *)
LEMMA Going ==
  ASSUME NEW u \in Users, NEW r \in Requests, request'[r] # None, request'[r].id = u,
         \A x \in Requests : x # r => request'[x] = request[x] /\ ~Concerns(x, u),
         FollowsUp(request[r])'
  PROVE  Aligned(u)'
<1>1. \A x \in Requests : Concerns(x, u)' => x = r
  BY DEF Concerns
<1>2. Concerns(r, u)'
  BY DEF Concerns
<1>3. ASSUME NEW x \in Requests, Concerns(x, u)' PROVE FollowsUp(request[x])'
  <2>1. x = r
    BY <1>1, <1>3
  <2> QED BY <2>1
<1> QED BY <1>1, <1>2, <1>3 DEF Aligned

(* The request about an account is over. *)
LEMMA Done ==
  ASSUME NEW u \in Users, NEW r \in Requests, request'[r] = None,
         \A x \in Requests : x # r => request'[x] = request[x] /\ ~Concerns(x, u),
         \A s \in SessionsOf(u)' : InSync(u, s)'
  PROVE  Aligned(u)'
<1>1. \A x \in Requests : ~Concerns(x, u)'
  BY DEF Concerns
<1> QED BY <1>1 DEF Aligned

(* A request about another account comes, goes on or ends. *)
LEMMA AboutAnother ==
  ASSUME NEW u \in Users, NEW r \in Requests,
         request[r] # None => request[r].id # u, request'[r] # None => request'[r].id # u,
         \A x \in Requests : x # r => request'[x] = request[x]
  PROVE  \A x \in Requests : Concerns(x, u) \/ Concerns(x, u)' => request'[x] = request[x] /\ x # r
BY DEF Concerns

(* A request comes that is about an account no other one is about. *)
LEMMA Alone ==
  ASSUME NEW u \in Users, u \notin crossed', Aligned(u), NEW id,
         crossed' = crossed \cup ({id} \cap {q.id : q \in Underway}), id = u
  PROVE  /\ \A x \in Requests : ~Concerns(x, u)
         /\ \A s \in SessionsOf(u) : InSync(u, s)
<1>1. \A x \in Requests : ~Concerns(x, u)
  BY DEF Concerns, Underway
<1> QED BY <1>1 DEF Aligned

(* A session of an account has its key. *)
LEMMA KeysFit ==
  ASSUME AccountsType, Owned, NEW u \in Users, NEW s \in SessionsOf(u), sess[s] # None
  PROVE  s \in Sessions /\ sess[s] \in SessionKey /\ sess[s].user = u /\ Exists(u) /\ user[u] \in Account
BY AccountsAssumption DEF AccountsType, SessionsOf, Owned, Exists

LEMMA KeyMade ==
  ASSUME NEW k \in SessionKey, NEW u \in Users
  PROVE  k = KeyOf(u) <=> k.user = u /\ k.admin = user[u].admin /\ k.must = user[u].must
BY DEF SessionKey, KeyOf


(* One step, one account that no two requests were about at a time. *)
LEMMA AccountsStayAligned ==
  ASSUME AccountsType, AccountsType', SessionsOwned, AccountsNext,
         NEW u \in Users, u \notin crossed', u \in crossed \/ Aligned(u)
  PROVE  Aligned(u)'
<1>0. /\ user \in [Users -> Account \cup {None}] /\ listed \in [Sessions -> Users \cup {None}]
      /\ sess \in [Sessions -> SessionKey \cup {None}] /\ request \in [Requests -> AccountCall \cup {None}]
      /\ request' \in [Requests -> AccountCall \cup {None}]
      /\ Owned /\ Held /\ HeldApart
  BY DEF AccountsType, SessionsOwned
<1>1. crossed \subseteq crossed'
  <2>1. ASSUME NEW r \in Requests, NEW id \in Users, NEW patch \in Patches, UpdateChecks(r, id, patch) PROVE crossed \subseteq crossed'
    BY <2>1 DEF UpdateChecks, Takes
  <2>2. ASSUME NEW r \in Requests, NEW id \in Users, NEW keep \in Sessions \cup {None}, PasswordWrites(r, id, keep)
        PROVE  crossed \subseteq crossed'
    BY <2>2 DEF PasswordWrites
  <2>3. ASSUME NEW r \in Requests, NEW id \in Users, NEW s \in Sessions, RemoveChecks(r, id, s) \/ LoginReads(r, id, s)
        PROVE  crossed \subseteq crossed'
    BY <2>3 DEF RemoveChecks, LoginReads, Takes
  <2>4. ASSUME NEW r \in Requests, \/ UpdateWrites(r) \/ UpdateFlags(r) \/ PasswordKeeps(r)
                                   \/ DestroyAll(r) \/ RemoveDeletes(r) \/ LoginCreates(r)
        PROVE  crossed \subseteq crossed'
    BY <2>4 DEF UpdateWrites, UpdateFlags, PasswordKeeps, DestroyAll, RemoveDeletes, LoginCreates
  <2>5. ASSUME NEW id \in Users, \/ createFirstAdmin(id) \/ \E admin \in BOOLEAN : Create(id, admin)
        PROVE  crossed \subseteq crossed'
    BY <2>5 DEF createFirstAdmin, Create
  <2>6. ASSUME NEW s \in Sessions, Logout(s) PROVE crossed \subseteq crossed'
    BY <2>6 DEF Logout
  <2> QED BY <2>1, <2>2, <2>3, <2>4, <2>5, <2>6 DEF AccountsNext
<1>2. Aligned(u)
  BY <1>1
<1>a. ASSUME NEW r \in Requests, NEW id \in Users, request[r] = None, request'[r] # None, request'[r].id = id,
             \A x \in Requests : x # r => request'[x] = request[x], id # u,
             user'[u] = user[u], UNCHANGED <<listed, sess>>
      PROVE  Aligned(u)'
  <2>1. \A x \in Requests : Concerns(x, u) \/ Concerns(x, u)' => request'[x] = request[x]
    BY <1>a, AboutAnother
  <2> QED BY <1>2, <1>a, <2>1, Aside
<1>b. ASSUME NEW r \in Requests, request[r] # None, request[r].id = u
      PROVE  /\ \A x \in Requests : x # r => ~Concerns(x, u)
             /\ FollowsUp(request[r]) /\ Exists(u) /\ user[u] \in Account
  <2>1. Concerns(r, u)
    BY <1>b DEF Concerns
  <2>2. FollowsUp(request[r]) /\ \A x \in Requests : x # r => ~Concerns(x, u)
    BY <1>2, <2>1 DEF Aligned
  <2>3. Exists(u)
    BY <1>b, <2>2 DEF FollowsUp
  <2> QED BY <1>0, <2>2, <2>3 DEF Exists
<1>c. SessionsOf(u) = {s \in Sessions : listed[s] = u} /\ u # None
  BY AccountsAssumption DEF SessionsOf
<1>d. ASSUME NEW x \in Requests, Concerns(x, u), request[x].what = "login"
      PROVE  request[x].session \in Sessions /\ listed[request[x].session] = None
  <2>1. HeldBy(request[x]) /\ request[x] \in AccountCall
    BY <1>0, <1>d DEF Concerns, Held
  <2>2. request[x].session \in Sessions
    BY <1>d, <2>1, CallKinds DEF Login
  <2> QED BY <1>d, <2>1, <2>2, AccountsAssumption DEF HeldBy
<1>3. ASSUME NEW r \in Requests, NEW id \in Users, NEW patch \in Patches, UpdateChecks(r, id, patch)
      PROVE  Aligned(u)'
  <2> DEFINE call == [what |-> "update", id |-> id, step |-> "checked", patch |-> patch, session |-> None,
                      loses |-> patch.admin = FALSE \/ patch.disabled = TRUE]
  <2>1. call \in AccountCall /\ call.id = id /\ call.what = "update" /\ call.step = "checked"
    BY CallsMade
  <2>2. Takes(r, call) /\ Exists(id)
    BY <1>3 DEF UpdateChecks
  <2> HIDE DEF call
  <2>3. request'[r] = call /\ call # None /\ \A x \in Requests : x # r => request'[x] = request[x]
    BY <2>1, <2>2, TakesStep DEF Takes
  <2>4. CASE id # u
    BY <1>a, <2>1, <2>2, <2>3, <2>4 DEF Takes
  <2>5. CASE id = u
    <3>1. (\A x \in Requests : ~Concerns(x, u)) /\ \A s \in SessionsOf(u) : InSync(u, s)
      BY <1>2, <2>1, <2>2, <2>5, Alone DEF Takes
    <3>2. FollowsUp(request[r])'
      BY <2>1, <2>2, <2>3, <2>5, <3>1 DEF FollowsUp, Takes, Exists, SessionsOf, InSync, KeyOf
    <3> QED BY <2>1, <2>3, <2>5, <3>1, <3>2, Going
  <2> QED BY <2>4, <2>5
<1>4. ASSUME NEW r \in Requests, NEW id \in Users, NEW keep \in Sessions \cup {None}, PasswordWrites(r, id, keep)
      PROVE  Aligned(u)'
  <2> DEFINE call == [what |-> "password", id |-> id, session |-> keep, loses |-> FALSE,
                      step |-> IF keep = None THEN "destroy" ELSE "keep"]
  <2>1. /\ call \in AccountCall /\ call.id = id /\ call.what = "password" /\ call.session = keep
        /\ call.step = IF keep = None THEN "destroy" ELSE "keep"
    BY CallsMade
  <2>2. request' = [request EXCEPT ![r] = call]
    BY <1>4 DEF PasswordWrites
  <2> HIDE DEF call
  <2>3. request'[r] = call /\ call # None /\ \A x \in Requests : x # r => request'[x] = request[x]
    BY <2>1, <2>2, TakesStep
  <2>4. request[r] = None /\ listed' = listed /\ sess' = sess /\ user' = [user EXCEPT ![id].must = (keep = None)]
    BY <1>4 DEF PasswordWrites
  <2>5. CASE id # u
    BY <1>0, <1>a, <2>1, <2>3, <2>4, <2>5
  <2>6. CASE id = u
    <3>1. (\A x \in Requests : ~Concerns(x, u)) /\ \A s \in SessionsOf(u) : InSync(u, s)
      BY <1>2, <1>4, <2>6, Alone DEF PasswordWrites
    <3>2. user[u] \in Account
      BY <1>0, <1>4, <2>6 DEF PasswordWrites, Exists
    <3>3. /\ user'[u] \in Account /\ user'[u].admin = user[u].admin /\ user'[u].disabled = user[u].disabled
          /\ user'[u].must = (keep = None)
      BY <1>0, <2>4, <2>6, <3>2 DEF Account
    <3>4. user'[u] # None
      BY <3>3, AccountsAssumption
    <3>5. \A s \in SessionsOf(u) : sess[s] # None => ~user[u].disabled /\ sess[s].admin = user[u].admin
      BY <3>1 DEF InSync, KeyOf
    <3>6. FollowsUp(request[r])'
      <4>1. CASE keep = None
        BY <2>1, <2>3, <2>6, <3>4, <4>1, AccountsAssumption DEF FollowsUp, Exists, SessionsOf
      <4>2. CASE keep # None
        BY ZenonT(30), <2>1, <2>3, <2>4, <2>6, <3>3, <3>4, <3>5, <4>2 DEF FollowsUp, Exists, SessionsOf
      <4> QED BY <4>1, <4>2
    <3> QED BY <2>1, <2>3, <2>6, <3>1, <3>6, Going
  <2> QED BY <2>5, <2>6
<1>5. ASSUME NEW r \in Requests, NEW id \in Users, NEW s \in Sessions, RemoveChecks(r, id, s)
      PROVE  Aligned(u)'
  <2> DEFINE call == [what |-> "remove", id |-> id, step |-> "destroy", session |-> None, loses |-> TRUE]
  <2>1. call \in AccountCall /\ call.id = id /\ call.what = "remove" /\ call.step = "destroy"
    BY CallsMade
  <2>2. Takes(r, call) /\ Exists(id)
    BY <1>5 DEF RemoveChecks
  <2> HIDE DEF call
  <2>3. request'[r] = call /\ call # None /\ \A x \in Requests : x # r => request'[x] = request[x]
    BY <2>1, <2>2, TakesStep DEF Takes
  <2>4. CASE id # u
    BY <1>a, <2>1, <2>2, <2>3, <2>4 DEF Takes
  <2>5. CASE id = u
    <3>1. \A x \in Requests : ~Concerns(x, u)
      BY <1>2, <2>1, <2>2, <2>5, Alone DEF Takes
    <3>2. FollowsUp(request[r])'
      BY <2>1, <2>2, <2>3, <2>5 DEF FollowsUp, Takes, Exists
    <3> QED BY <2>1, <2>3, <2>5, <3>1, <3>2, Going
  <2> QED BY <2>4, <2>5
<1>6. ASSUME NEW r \in Requests, NEW id \in Users, NEW s \in Sessions, LoginReads(r, id, s)
      PROVE  Aligned(u)'
  <2> DEFINE rowKey == [user |-> id, admin |-> user[id].admin, must |-> user[id].must]
             call == [what |-> "login", id |-> id, step |-> "read", session |-> s, loses |-> FALSE, copy |-> rowKey]
  <2>0. rowKey \in SessionKey
    BY <1>0, <1>6 DEF LoginReads, Exists, Account, SessionKey
  <2>1. call \in AccountCall /\ call.id = id /\ call.what = "login" /\ call.step = "read" /\ call.copy = KeyOf(id)
    BY <2>0, CallsMade DEF KeyOf
  <2>2. Takes(r, call) /\ Exists(id) /\ ~user[id].disabled
    BY <1>6 DEF LoginReads
  <2> HIDE DEF call
  <2>3. request'[r] = call /\ call # None /\ \A x \in Requests : x # r => request'[x] = request[x]
    BY <2>1, <2>2, TakesStep DEF Takes
  <2>4. CASE id # u
    BY <1>a, <2>1, <2>2, <2>3, <2>4 DEF Takes
  <2>5. CASE id = u
    <3>1. (\A x \in Requests : ~Concerns(x, u)) /\ \A x \in SessionsOf(u) : InSync(u, x)
      BY <1>2, <2>1, <2>2, <2>5, Alone DEF Takes
    <3>2. FollowsUp(request[r])'
      BY <2>1, <2>2, <2>3, <2>5, <3>1 DEF FollowsUp, Takes, Exists, SessionsOf, InSync, KeyOf
    <3> QED BY <2>1, <2>3, <2>5, <3>1, <3>2, Going
  <2> QED BY <2>4, <2>5
<1>7. ASSUME NEW r \in Requests, UpdateWrites(r) PROVE Aligned(u)'
  <2> DEFINE q == request[r]
  <2>1. q \in AccountCall /\ q # None /\ q.what = "update" /\ q.step = "checked" /\ sess' = sess /\ listed' = listed
    BY <1>0, <1>7 DEF UpdateWrites
  <2>2. q.patch \in Patches /\ q.id \in Users
    BY <2>1, CallKinds DEF Update
  <2>3. \/ Ends(r) \/ Goes(r, "destroy") \/ (Goes(r, "flags") /\ q.patch.admin # None)
    BY <1>7 DEF UpdateWrites
  <2>4. \A x \in Requests : x # r => request'[x] = request[x]
    BY <2>1, <2>3, EndsStep, GoesStep
  <2>5. CASE q.id # u
    <3>1. request'[r] # None => request'[r].id = q.id
      <4>1. CASE Ends(r)
        BY <2>1, <4>1, EndsStep
      <4>2. CASE Goes(r, "destroy")
        BY <2>1, <4>2, GoesStep
      <4>3. CASE Goes(r, "flags") /\ q.patch.admin # None
        BY <2>1, <4>3, GoesStep
      <4> QED BY <2>3, <4>1, <4>2, <4>3
    <3>2. user'[u] = user[u]
      BY <1>7, <2>5, UpdatedRow DEF UpdateWrites
    <3>3. \A x \in Requests : Concerns(x, u) \/ Concerns(x, u)' => request'[x] = request[x]
      BY <2>4, <2>5, <3>1, AboutAnother
    <3> QED BY <1>2, <2>1, <3>2, <3>3, Aside
  <2>6. CASE q.id = u
    <3>1. Exists(u) /\ user[u] \in Account /\ FollowsUp(q) /\ \A x \in Requests : x # r => ~Concerns(x, u)
      BY <1>b, <2>1, <2>6
    <3>2. \A s \in SessionsOf(u) : InSync(u, s)
      BY <2>1, <2>6, <3>1 DEF FollowsUp
    <3>3. /\ user'[u] # None
          /\ user'[u].admin = IF q.patch.admin = None THEN user[u].admin ELSE q.patch.admin
          /\ user'[u].disabled = IF q.patch.disabled = None THEN user[u].disabled ELSE q.patch.disabled
          /\ user'[u].must = user[u].must
      BY <1>7, <2>6, <3>1, UpdatedRow
    <3>4. \A s \in SessionsOf(u) : sess[s] # None =>
            /\ ~user[u].disabled /\ sess[s] \in SessionKey /\ sess[s].user = u
            /\ sess[s].admin = user[u].admin /\ sess[s].must = user[u].must
      BY <1>0, <3>2, KeysFit DEF InSync, KeyOf
    <3>5. SessionsOf(u)' = SessionsOf(u)
      BY <2>1 DEF SessionsOf
    <3>6. q.patch.disabled \in {TRUE, FALSE, None}
      BY <2>2 DEF Patches
    <3>7. CASE q.patch.disabled = TRUE
      <4>1. Goes(r, "destroy")
        BY <1>7, <2>6, <3>1, <3>7 DEF UpdateWrites
      <4>2. request'[r] # None /\ request'[r].id = u /\ request'[r].what = "update" /\ request'[r].step = "destroy"
        BY <2>1, <2>6, <4>1, GoesStep
      <4>3. FollowsUp(request[r])'
        BY <3>3, <4>2 DEF FollowsUp, Exists
      <4> QED BY <2>4, <3>1, <4>2, <4>3, Going
    <3>8. CASE q.patch.disabled # TRUE /\ q.patch.admin = None
      <4>1. Ends(r)
        BY <1>7, <2>6, <3>1, <3>8 DEF UpdateWrites
      <4>2. request'[r] = None
        BY <2>1, <4>1, EndsStep
      <4>3. ASSUME NEW s \in SessionsOf(u)' PROVE InSync(u, s)'
        <5> HIDE DEF q
        <5>1. sess'[s] # None => ~user'[u].disabled /\ sess'[s] = [user |-> u, admin |-> user'[u].admin, must |-> user'[u].must]
          BY <2>1, <3>3, <3>4, <3>5, <3>6, <3>8 DEF SessionKey
        <5> QED BY <5>1 DEF InSync, KeyOf
      <4> QED BY <2>4, <3>1, <4>2, <4>3, Done
    <3>9. CASE q.patch.disabled # TRUE /\ q.patch.admin # None
      <4>1. Goes(r, "flags")
        BY <1>7, <2>6, <3>1, <3>9 DEF UpdateWrites
      <4>2. /\ request'[r] # None /\ request'[r].id = u /\ request'[r].what = "update" /\ request'[r].step = "flags"
            /\ request'[r].patch = q.patch
        BY <2>1, <2>6, <3>9, <4>1, GoesStep
      <4>3. FollowsUp(request[r])'
        <5>1. \A s \in SessionsOf(u)' : sess'[s] # None =>
                ~user'[u].disabled /\ user'[u].admin = q.patch.admin /\ sess'[s].must = user'[u].must
          <6> HIDE DEF q
          <6> QED BY <2>1, <3>3, <3>4, <3>5, <3>6, <3>9
        <5> QED BY <3>3, <4>2, <5>1 DEF FollowsUp, Exists
      <4> QED BY <2>4, <3>1, <4>2, <4>3, Going
    <3> QED BY <3>7, <3>8, <3>9
  <2> QED BY <2>5, <2>6
<1>8. ASSUME NEW r \in Requests, UpdateFlags(r) PROVE Aligned(u)'
  <2> DEFINE q == request[r]
  <2>1. q \in AccountCall /\ q # None /\ q.step = "flags" /\ user' = user /\ listed' = listed /\ Ends(r)
    BY <1>0, <1>8 DEF UpdateFlags
  <2>2. request'[r] = None /\ \A x \in Requests : x # r => request'[x] = request[x]
    BY <2>1, EndsStep
  <2>3. sess' = [s \in Sessions |-> IF s \in SessionsOf(q.id) /\ sess[s] # None
                                    THEN [sess[s] EXCEPT !.admin = q.patch.admin] ELSE sess[s]]
    BY <1>8 DEF UpdateFlags
  <2>4. CASE q.id # u
    <3>1. \A s \in Sessions : listed[s] # q.id => sess'[s] = sess[s]
      BY <2>3 DEF SessionsOf
    <3>2. \A x \in Requests : Concerns(x, u) \/ Concerns(x, u)' => request'[x] = request[x]
      BY <2>2, <2>4, AboutAnother
    <3>4. q.id # None
      BY <2>1, CallKinds, AccountsAssumption
    <3> QED BY <1>2, <1>d, <2>1, <2>4, <3>1, <3>2, <3>4, Aside
  <2>5. CASE q.id = u
    <3>1. Exists(u) /\ user[u] \in Account /\ FollowsUp(q) /\ \A x \in Requests : x # r => ~Concerns(x, u)
      BY <1>b, <2>1, <2>5
    <3>2. ASSUME NEW s \in SessionsOf(u)' PROVE InSync(u, s)'
      <4>1. s \in SessionsOf(u) /\ s \in Sessions
        BY <2>1 DEF SessionsOf
      <4>2. CASE sess[s] = None
        BY <2>3, <4>1, <4>2 DEF InSync
      <4>3. CASE sess[s] # None
        <5>1. sess[s] \in SessionKey /\ sess[s].user = u
          BY <1>0, <4>1, <4>3, KeysFit
        <5>2. ~user[u].disabled /\ user[u].admin = q.patch.admin /\ sess[s].must = user[u].must
          BY <2>1, <2>5, <3>1, <4>1, <4>3 DEF FollowsUp
        <5>3. sess'[s] = [sess[s] EXCEPT !.admin = q.patch.admin]
          BY <2>3, <2>5, <4>1, <4>3
        <5> HIDE DEF q
        <5>4. sess'[s] = [user |-> u, admin |-> user[u].admin, must |-> user[u].must]
          BY <5>1, <5>2, <5>3 DEF SessionKey
        <5> QED BY <2>1, <5>2, <5>4 DEF InSync, KeyOf
      <4> QED BY <4>2, <4>3
    <3> QED BY <2>2, <3>1, <3>2, Done
  <2> QED BY <2>4, <2>5
<1>9. ASSUME NEW r \in Requests, PasswordKeeps(r) PROVE Aligned(u)'
  <2> DEFINE q == request[r]
             k == q.session
  <2>1. /\ q \in AccountCall /\ q # None /\ q.what = "password" /\ q.step = "keep"
        /\ user' = user /\ listed' = listed /\ Goes(r, "destroy")
    BY <1>0, <1>9, CallKinds DEF PasswordKeeps, Password
  <2>2. /\ request'[r] # None /\ request'[r].what = "password" /\ request'[r].id = q.id
        /\ request'[r].step = "destroy" /\ request'[r].session = k
        /\ \A x \in Requests : x # r => request'[x] = request[x]
    BY <2>1, GoesStep
  <2>3. sess' = [sess EXCEPT ![k] = IF sess[k] = None THEN None ELSE [sess[k] EXCEPT !.must = FALSE]]
    BY <1>9 DEF PasswordKeeps
  <2>4. q.id \in Users /\ q.id # None
    BY <2>1, CallKinds, AccountsAssumption
  <2>5. CASE q.id # u
    <3>1. k # None => listed[k] \in {None, q.id}
      BY <1>0, <2>1 DEF Held, HeldBy
    <3>2. k \in Sessions => k # None
      BY AccountsAssumption
    <3>3. \A s \in Sessions : s # k => sess'[s] = sess[s]
      BY <1>0, <2>3
    <3>4. \A x \in Requests : Concerns(x, u) \/ Concerns(x, u)' => request'[x] = request[x] /\ x # r
      BY <2>1, <2>2, <2>5, AboutAnother
    <3>5. \A x \in Requests : Concerns(x, u) /\ x # r /\ k # None => request[x].session # k
      BY <1>0, <2>1, <2>5 DEF Concerns, HeldApart, NotShared
    <3>6. \A s \in Sessions : listed'[s] = u => listed[s] = u /\ sess'[s] \in {None, sess[s]}
      BY <1>c, <2>1, <2>5, <3>1, <3>2, <3>3
    <3>7. \A x \in Requests : Concerns(x, u) /\ request[x].what = "login" =>
            sess'[request[x].session] = sess[request[x].session]
      BY <1>d, <3>2, <3>3, <3>4, <3>5
    <3> QED BY <1>2, <2>1, <3>4, <3>6, <3>7, Aside
  <2>6. CASE q.id = u
    <3>1. Exists(u) /\ user[u] \in Account /\ FollowsUp(q) /\ \A x \in Requests : x # r => ~Concerns(x, u)
      BY <1>b, <2>1, <2>6
    <3>2. ~user[u].must /\ \A s \in SessionsOf(u) : sess[s] # None => ~user[u].disabled /\ sess[s].admin = user[u].admin
      BY <2>1, <2>6, <3>1 DEF FollowsUp
    <3>3. ASSUME NEW s \in SessionsOf(u), s = k PROVE InSync(u, s)'
      <4> SUFFICES ASSUME sess'[s] # None PROVE InSync(u, s)'
        BY DEF InSync
      <4>1. s \in Sessions /\ sess[s] # None /\ sess'[s] = [sess[s] EXCEPT !.must = FALSE]
        BY <1>0, <2>3, <3>3 DEF SessionsOf
      <4>2. sess[s] \in SessionKey /\ sess[s].user = u
        BY <1>0, <4>1, KeysFit
      <4>3. ~user[u].disabled /\ sess[s].admin = user[u].admin
        BY <3>2, <4>1
      <4> HIDE DEF k, q
      <4>4. sess'[s] = [user |-> u, admin |-> user[u].admin, must |-> user[u].must]
        BY <3>1, <3>2, <4>1, <4>2, <4>3 DEF SessionKey, Account
      <4> QED BY <2>1, <4>3, <4>4 DEF InSync, KeyOf
    <3>4. SessionsOf(u)' = SessionsOf(u)
      BY <2>1 DEF SessionsOf
    <3>5. FollowsUp(request[r])'
      <4> HIDE DEF k, q
      <4>1. \A s \in SessionsOf(u)' : s = k => InSync(u, s)'
        BY <3>3, <3>4
      <4> QED BY <2>1, <2>2, <2>6, <3>1, <4>1 DEF FollowsUp, Exists
    <3> QED BY <2>2, <2>6, <3>1, <3>5, Going
  <2> QED BY <2>5, <2>6
<1>10. ASSUME NEW r \in Requests, DestroyAll(r) PROVE Aligned(u)'
  <2> DEFINE q == request[r]
             gone == SessionsOf(q.id) \ (IF q.what = "password" THEN {q.session} ELSE {})
  <2>1. /\ q \in AccountCall /\ q # None /\ q.step = "destroy" /\ user' = user
        /\ IF q.what = "remove" THEN Goes(r, "delete") ELSE Ends(r)
    BY <1>0, <1>10 DEF DestroyAll
  <2>2. q.what \in {"update", "password", "remove"} /\ q.id \in Users /\ q.id # None
    BY <2>1, CallKinds, AccountsAssumption
  <2>3. /\ \A x \in Requests : x # r => request'[x] = request[x]
        /\ q.what = "remove" => /\ request'[r] # None /\ request'[r].id = q.id /\ request'[r].what = "remove"
                                /\ request'[r].step = "delete"
        /\ q.what # "remove" => request'[r] = None
    <3>1. CASE q.what = "remove"
      BY <2>1, <3>1, GoesStep
    <3>2. CASE q.what # "remove"
      BY <2>1, <3>2, EndsStep
    <3> QED BY <3>1, <3>2
  <2>4. \A s \in Sessions : IF s \in gone THEN sess'[s] = None /\ listed'[s] = None
                                          ELSE sess'[s] = sess[s] /\ listed'[s] = listed[s]
    BY <1>10 DEF DestroyAll
  <2>5. CASE q.id # u
    <3>1. \A x \in Requests : Concerns(x, u) \/ Concerns(x, u)' => request'[x] = request[x]
      BY <2>1, <2>3, <2>5, AboutAnother
    <3>2. \A s \in Sessions : listed'[s] = u => listed[s] = u /\ sess'[s] \in {None, sess[s]}
      BY <1>c, <2>4
    <3>3. \A s \in Sessions : sess'[s] \in {None, sess[s]}
      BY <2>4
    <3> HIDE DEF gone
    <3> QED BY <1>2, <1>d, <2>1, <3>1, <3>2, <3>3, Aside
  <2>6. CASE q.id = u
    <3>1. Exists(u) /\ user[u] \in Account /\ FollowsUp(q) /\ \A x \in Requests : x # r => ~Concerns(x, u)
      BY <1>b, <2>1, <2>6
    <3>2. CASE q.what = "password"
      <4>1. ASSUME NEW s \in SessionsOf(u)' PROVE InSync(u, s)'
        <5>1. s \in Sessions /\ s \notin gone /\ listed'[s] = u
          BY <1>c, <2>4 DEF SessionsOf
        <5>2. sess'[s] = sess[s] /\ s \in SessionsOf(u)
          BY <2>4, <5>1 DEF SessionsOf
        <5>3. s = q.session
          BY <2>6, <3>2, <5>1, <5>2
        <5>4. InSync(u, s)
          BY <2>1, <2>6, <3>1, <3>2, <5>2, <5>3 DEF FollowsUp
        <5> QED BY <2>1, <5>2, <5>4 DEF InSync, KeyOf
      <4> QED BY <2>3, <3>1, <3>2, <4>1, Done
    <3>3. CASE q.what # "password"
      <4>1. SessionsOf(u)' = {}
        BY <1>c, <2>4, <2>6, <3>3 DEF SessionsOf
      <4>2. CASE q.what = "remove"
        <5>1. FollowsUp(request[r])'
          BY <2>1, <2>3, <2>6, <3>1, <4>1, <4>2 DEF FollowsUp, Exists
        <5> QED BY <2>3, <2>6, <3>1, <4>2, <5>1, Going
      <4>3. CASE q.what # "remove"
        BY <2>3, <3>1, <4>1, <4>3, Done
      <4> QED BY <4>2, <4>3
    <3> QED BY <3>2, <3>3
  <2> QED BY <2>5, <2>6
<1>11. ASSUME NEW r \in Requests, RemoveDeletes(r) PROVE Aligned(u)'
  <2> DEFINE q == request[r]
  <2>1. q \in AccountCall /\ q # None /\ q.step = "delete" /\ sess' = sess /\ Ends(r)
    BY <1>0, <1>11 DEF RemoveDeletes
  <2>2. request'[r] = None /\ \A x \in Requests : x # r => request'[x] = request[x]
    BY <2>1, EndsStep
  <2>3. q.id \in Users
    BY <2>1, CallKinds
  <2>4. \A s \in Sessions : listed'[s] \in {None, listed[s]}
    BY <1>11 DEF RemoveDeletes
  <2>5. CASE q.id # u
    <3>1. \A x \in Requests : Concerns(x, u) \/ Concerns(x, u)' => request'[x] = request[x]
      BY <2>1, <2>2, <2>5, AboutAnother
    <3>2. user'[u] = user[u]
      BY <1>0, <1>11, <2>5 DEF RemoveDeletes
    <3> QED BY <1>2, <1>c, <2>1, <2>4, <3>1, <3>2, Aside
  <2>6. CASE q.id = u
    <3>1. FollowsUp(q) /\ \A x \in Requests : x # r => ~Concerns(x, u)
      BY <1>b, <2>1, <2>6
    <3>2. SessionsOf(u) = {}
      BY <2>1, <2>6, <3>1 DEF FollowsUp
    <3>3. SessionsOf(u)' = {}
      BY <1>c, <2>4, <3>2 DEF SessionsOf
    <3> QED BY <2>2, <3>1, <3>3, Done
  <2> QED BY <2>5, <2>6
<1>12. ASSUME NEW r \in Requests, LoginCreates(r) PROVE Aligned(u)'
  <2> DEFINE q == request[r]
             k == q.session
  <2>1. q \in AccountCall /\ q # None /\ q.what = "login" /\ user' = user
    BY <1>0, <1>12 DEF LoginCreates
  <2>2. q \in Login /\ q.id \in Users
    BY <2>1, CallKinds
  <2>3. k \in Sessions /\ k # None /\ q.copy \in SessionKey
    BY <2>2, AccountsAssumption DEF Login
  <2>4. listed[k] = None /\ q.copy.user = q.id
    BY <1>0, <2>1, <2>3 DEF Held, HeldBy
  <2>5. CASE q.step = "read"
    <3>1. sess' = [sess EXCEPT ![k] = q.copy] /\ listed' = listed /\ Goes(r, "row")
      BY <1>12, <2>5 DEF LoginCreates
    <3>2. /\ request'[r] # None /\ request'[r].what = "login" /\ request'[r].id = q.id /\ request'[r].session = k
          /\ request'[r].copy = q.copy /\ request'[r].step = "row"
          /\ \A x \in Requests : x # r => request'[x] = request[x]
      BY <2>1, <3>1, GoesStep
    <3>3. sess'[k] = q.copy /\ \A s \in Sessions : s # k => sess'[s] = sess[s]
      BY <1>0, <2>3, <3>1
    <3>4. CASE q.id # u
      <4>1. \A x \in Requests : Concerns(x, u) \/ Concerns(x, u)' => request'[x] = request[x] /\ x # r
        BY <2>1, <3>2, <3>4, AboutAnother
      <4>2. \A x \in Requests : Concerns(x, u) /\ x # r => request[x].session # k
        BY <1>0, <2>1, <2>3, <3>4 DEF Concerns, HeldApart, NotShared
      <4>3. \A s \in Sessions : listed'[s] = u => listed[s] = u /\ sess'[s] \in {None, sess[s]}
        BY <1>c, <2>4, <3>1, <3>3
      <4>4. \A x \in Requests : Concerns(x, u) /\ request[x].what = "login" =>
              sess'[request[x].session] = sess[request[x].session]
        BY <1>d, <3>3, <4>1, <4>2
      <4> HIDE DEF q, k
      <4> QED BY <1>2, <2>1, <4>1, <4>3, <4>4, Aside
    <3>5. CASE q.id = u
      <4>1. Exists(u) /\ FollowsUp(q) /\ \A x \in Requests : x # r => ~Concerns(x, u)
        BY <1>b, <2>1, <3>5
      <4>2. SessionsOf(u)' = SessionsOf(u) /\ k \notin SessionsOf(u)
        BY <1>c, <2>4, <3>1 DEF SessionsOf
      <4>3. \A s \in SessionsOf(u)' : InSync(u, s)'
        <5>1. \A s \in SessionsOf(u) : InSync(u, s) /\ sess'[s] = sess[s]
          BY <2>1, <3>3, <3>5, <4>1, <4>2 DEF FollowsUp, SessionsOf
        <5> QED BY <2>1, <4>2, <5>1 DEF InSync, KeyOf
      <4>4. ~user[u].disabled /\ q.copy = KeyOf(u)
        BY <2>1, <3>5, <4>1 DEF FollowsUp
      <4>5. KeyOf(u)' = KeyOf(u)
        BY <2>1 DEF KeyOf
      <4>6. FollowsUp(request[r])'
        <5> HIDE DEF k, q
        <5> QED BY <2>1, <3>2, <3>3, <3>5, <4>1, <4>3, <4>4, <4>5 DEF FollowsUp, Exists
      <4> QED BY <3>2, <3>5, <4>1, <4>6, Going
    <3> QED BY <3>4, <3>5
  <2>6. CASE q.step = "row"
    <3>1. sess' = sess /\ Ends(r) /\ (listed' = listed \/ listed' = [listed EXCEPT ![k] = q.id])
      BY <1>12, <2>6 DEF LoginCreates
    <3>2. request'[r] = None /\ \A x \in Requests : x # r => request'[x] = request[x]
      BY <2>1, <3>1, EndsStep
    <3>3. \A s \in Sessions : listed'[s] = listed[s] \/ (s = k /\ listed'[s] = q.id)
      BY <1>0, <2>3, <3>1
    <3>4. CASE q.id # u
      <4>1. \A x \in Requests : Concerns(x, u) \/ Concerns(x, u)' => request'[x] = request[x] /\ x # r
        BY <2>1, <3>2, <3>4, AboutAnother
      <4>2. \A s \in Sessions : listed'[s] = u => listed[s] = u
        BY <3>3, <3>4
      <4> QED BY <1>2, <2>1, <3>1, <4>1, <4>2, Aside
    <3>5. CASE q.id = u
      <4>1. FollowsUp(q) /\ \A x \in Requests : x # r => ~Concerns(x, u)
        BY <1>b, <2>1, <3>5
      <4>2. /\ ~user[u].disabled /\ q.copy = KeyOf(u) /\ sess[k] \in {None, q.copy}
            /\ \A s \in SessionsOf(u) : InSync(u, s)
        BY <2>1, <2>6, <3>5, <4>1 DEF FollowsUp
      <4>3. ASSUME NEW s \in SessionsOf(u)' PROVE InSync(u, s)'
        <5>1. s \in Sessions /\ (s \in SessionsOf(u) \/ s = k)
          BY <3>3 DEF SessionsOf
        <5>2. InSync(u, s)
          BY <4>2, <5>1 DEF InSync
        <5> QED BY <2>1, <3>1, <5>2 DEF InSync, KeyOf
      <4> QED BY <3>2, <4>1, <4>3, Done
    <3> QED BY <3>4, <3>5
  <2> QED BY <1>12, <2>5, <2>6 DEF LoginCreates
<1>e. ASSUME NEW id \in Users, ~Exists(id), \A v \in Users : v # id => user'[v] = user[v],
             UNCHANGED <<listed, sess, request>>
      PROVE  Aligned(u)'
  <2>1. CASE id # u
    <3>1. \A x \in Requests : Concerns(x, u) \/ Concerns(x, u)' => request'[x] = request[x]
      BY <1>e
    <3> QED BY <1>2, <1>e, <2>1, <3>1, Aside
  <2>2. CASE id = u
    <3>1. \A x \in Requests : ~Concerns(x, u)
      BY <1>2, <1>e, <2>2 DEF Aligned, Concerns, FollowsUp
    <3>2. SessionsOf(u)' = {}
      BY <1>0, <1>c, <1>e, <2>2 DEF Owned, SessionsOf
    <3>3. \A x \in Requests : ~Concerns(x, u)'
      BY <1>e, <3>1 DEF Concerns
    <3> QED BY <3>2, <3>3 DEF Aligned
  <2> QED BY <2>1, <2>2
<1>13. ASSUME NEW id \in Users, NEW admin \in BOOLEAN, Create(id, admin) PROVE Aligned(u)'
  BY <1>0, <1>13, <1>e DEF Create
<1>14. ASSUME NEW id \in Users, createFirstAdmin(id) PROVE Aligned(u)'
  BY <1>0, <1>14, <1>e DEF createFirstAdmin
<1>15. ASSUME NEW s \in Sessions, Logout(s) PROVE Aligned(u)'
  <2>1. /\ request' = request /\ user' = user
        /\ \A x \in Sessions : sess'[x] \in {None, sess[x]} /\ listed'[x] \in {None, listed[x]}
    BY <1>0, <1>15 DEF Logout
  <2>2. \A x \in Requests : Concerns(x, u) \/ Concerns(x, u)' => request'[x] = request[x]
    BY <2>1
  <2>3. \A x \in Sessions : listed'[x] = u => listed[x] = u /\ sess'[x] \in {None, sess[x]}
    BY <1>c, <2>1
  <2> QED BY <1>2, <1>d, <2>1, <2>2, <2>3, Aside
<1> QED BY <1>3, <1>4, <1>5, <1>6, <1>7, <1>8, <1>9, <1>10, <1>11, <1>12, <1>13, <1>14, <1>15 DEF AccountsNext

(* The accounts' inductive invariant. *)
AccountsInv == AccountsType /\ AdminsLeft /\ SessionsOwned /\ InLine

LEMMA AccountsStart == AccountsInit => AccountsInv
<1> SUFFICES ASSUME AccountsInit PROVE AccountsInv
  OBVIOUS
<1>1. AccountsType
  BY AccountsAssumption DEF AccountsInit, AccountsType
<1>2. \A r \in Requests : request[r] = None
  BY DEF AccountsInit
<1>3. Underway = {} /\ Pending = {}
  BY <1>2 DEF Underway, Pending
<1>4. AdminsLeft
  BY <1>3 DEF AdminsLeft, SomebodyActs, AccountsInit, Exists
<1>5. SessionsOwned
  BY <1>2 DEF AccountsInit, SessionsOwned, Owned, Held, HeldApart
<1>6. InLine
  BY <1>2 DEF AccountsInit, InLine, Aligned, Concerns, InSync, SessionsOf
<1> QED BY <1>1, <1>4, <1>5, <1>6 DEF AccountsInv

LEMMA AccountsStep == AccountsInv /\ [AccountsNext]_accountVars => AccountsInv'
<1> SUFFICES ASSUME AccountsInv, [AccountsNext]_accountVars PROVE AccountsInv'
  OBVIOUS
<1>1. CASE AccountsNext
  <2>0. AccountsType /\ AdminsLeft /\ SessionsOwned /\ InLine
    BY DEF AccountsInv
  <2>1. AccountsType'
    BY <1>1, <2>0, AccountsKeepType
  <2>2. AdminsLeft'
    BY <1>1, <2>0, AdminsKept
  <2>3. SessionsOwned'
    BY <1>1, <2>0, <2>1, SessionsStayOwned
  <2>4. ASSUME NEW u \in Users, u \notin crossed' PROVE Aligned(u)'
    <3>1. u \in crossed \/ Aligned(u)
      BY <2>0, <2>4 DEF InLine
    <3> QED BY <1>1, <2>0, <2>1, <2>4, <3>1, AccountsStayAligned
  <2>5. InLine'
    BY <2>4 DEF InLine
  <2> QED BY <2>1, <2>2, <2>3, <2>5 DEF AccountsInv
<1>2. CASE UNCHANGED accountVars
  BY SMTT(15), <1>2 DEF accountVars, AccountsInv, AccountsType, AdminsLeft, SomebodyActs, Pending, Underway, Exists, AdminsIn,
              SessionsOwned, Owned, Held, HeldBy, HeldApart, InLine, Aligned, Concerns, FollowsUp, SessionsOf, InSync, KeyOf
<1> QED BY <1>1, <1>2

(* While there are accounts there is an active admin, and the sessions of an   *)
(* account carry its flags once the requests are done, whatever overlaps: save *)
(* for the two races that the history variables name.                          *)
THEOREM AccountsHold == AccountsSpec => []AccountsAgree
<1>1. AccountsInv => AccountsAgree
  <2> SUFFICES ASSUME AccountsInv PROVE AccountsAgree
    OBVIOUS
  <2>1. AdminRemains
    BY AdminsWere DEF AccountsInv, AccountsType, AdminsLeft, SomebodyActs, AdminRemains, AdminsIn
  <2>2. ASSUME \A r \in Requests : request[r] = None, NEW s \in Sessions,
               listed[s] # None, listed[s] \notin crossed, sess[s] # None
        PROVE  /\ ~user[listed[s]].disabled
               /\ sess[s] = [user |-> listed[s], admin |-> user[listed[s]].admin, must |-> user[listed[s]].must]
    <3>1. listed[s] \in Users /\ s \in SessionsOf(listed[s])
      BY <2>2 DEF AccountsInv, AccountsType, SessionsOf
    <3>2. InSync(listed[s], s)
      BY <2>2, <3>1 DEF AccountsInv, InLine, Aligned, Concerns
    <3> QED BY <2>2, <3>2 DEF InSync, KeyOf
  <2> QED BY <2>1, <2>2 DEF AccountsAgree, SessionsFollow
<1> QED BY <1>1, AccountsStart, AccountsStep, PTL DEF AccountsSpec


(***************************************************************************)
(* Uploaded pictures.                                                      *)
(***************************************************************************)

(* Only a removal of a card back reads the choice. *)
EditCall == {q \in Upload \cup PictureRemoval \cup Choice :
               /\ q.step = "clear" => q.pic # "back"
               /\ q.step \in {"read", "reset", "keep"} => q.pic = "back"}

UploadsType ==
  /\ file \in [Pictures -> Nat \cup {NoFile}] /\ link \in [Pictures -> Nat \cup {NoFile}]
  /\ chosen \in {"classic", "custom"} /\ edit \in [Edits -> EditCall \cup {NoFile}]
  /\ uploads \in Nat /\ copy \in GameCopy \cup {NoFile} /\ late \in BOOLEAN

About(r, pic) == edit[r] # NoFile /\ edit[r].pic = pic

(* File and row say the same. *)
Agreed(pic) ==
  /\ (link[pic] = NoFile) <=> (file[pic] = NoFile)
  /\ <<pic, "uploads">> \in mixed \/ link[pic] = file[pic]

(* How far a request has brought a picture: a removal is alone with it, and    *)
(* uploads that meet leave a file.                                             *)
CarriesOn(r, pic) ==
  /\ edit[r].what = "remove" /\ edit[r].step = "unlink" => Agreed(pic)
  /\ edit[r].what = "remove" /\ edit[r].step # "unlink" => file[pic] = NoFile
  /\ edit[r].what = "upload" => /\ file[pic] # NoFile
                                /\ <<pic, "uploads">> \in mixed \/ file[pic] = edit[r].num

PictureKept(pic) ==
  /\ \A q, r \in Edits : q # r /\ About(q, pic) /\ About(r, pic) =>
       edit[q].what = "upload" /\ edit[r].what = "upload" /\ <<pic, "uploads">> \in mixed
  /\ \A r \in Edits : About(r, pic) => CarriesOn(r, pic)
  /\ (\A r \in Edits : ~About(r, pic)) => Agreed(pic)

Spared(pic) == pic \notin broken /\ <<pic, "removal">> \notin mixed

(* Whoever is about to choose the custom back finds one, and whoever is about *)
(* to remove one that is not chosen finds it not chosen.                      *)
ChoiceKept ==
  ~late => /\ \A r \in Edits : edit[r] # NoFile /\ edit[r].what = "choose" => link["back"] # NoFile
           /\ \A r \in Edits : edit[r] # NoFile /\ edit[r].what = "remove" /\ edit[r].step = "keep" => chosen # "custom"
           /\ chosen = "custom" => link["back"] # NoFile
           /\ copy # NoFile /\ copy.back = "custom" => copy.link # NoFile

PicturesKept == \A pic \in Pictures : Spared(pic) => PictureKept(pic)

UploadsInv == UploadsType /\ PicturesKept /\ ChoiceKept


-----------------------------------------------------------------------------
LEMMA EditShapes ==
  ASSUME NEW q \in EditCall
  PROVE  /\ q # NoFile /\ q.what \in {"upload", "remove", "choose"}
         /\ q.what = "upload" => q \in Upload /\ q.pic \in Pictures /\ q.step = "save" /\ q.num \in Nat \ {0}
         /\ q.what = "remove" => q \in PictureRemoval /\ q.pic \in Pictures
                                 /\ q.step \in {"unlink", "clear", "read", "reset", "keep"}
         /\ q.what = "choose" => q \in Choice /\ q.pic = "choice" /\ q.step = "write"
         /\ q.step = "clear" => q.pic # "back"
         /\ q.step \in {"read", "reset", "keep"} => q.pic = "back"
BY UploadsAssumption DEF EditCall, Upload, PictureRemoval, Choice

LEMMA EditsMade ==
  /\ \A pic \in Pictures, num \in Nat \ {0} : [what |-> "upload", pic |-> pic, step |-> "save", num |-> num] \in EditCall
  /\ \A pic \in Pictures : [what |-> "remove", pic |-> pic, step |-> "unlink", num |-> 0] \in EditCall
  /\ [what |-> "choose", pic |-> "choice", step |-> "write", num |-> 0] \in EditCall
BY DEF EditCall, Upload, PictureRemoval, Choice

(* A request begins, goes on, ends. *)
LEMMA BeginsEdit ==
  ASSUME UploadsType, NEW r \in Edits, NEW call \in EditCall, Begins(r, call)
  PROVE  /\ edit' \in [Edits -> EditCall \cup {NoFile}] /\ edit[r] = NoFile /\ edits' = edits - 1
         /\ edit'[r] = call /\ call # NoFile /\ \A x \in Edits : x # r => edit'[x] = edit[x]
         /\ mixed \subseteq mixed'
         /\ \A x \in Edits : About(x, call.pic) =>
              <<call.pic, IF edit[x].what = call.what /\ edit[x].what = "upload" THEN "uploads" ELSE "removal">> \in mixed'
<1>1. /\ edit' \in [Edits -> EditCall \cup {NoFile}] /\ edit[r] = NoFile /\ edits' = edits - 1
      /\ edit'[r] = call /\ call # NoFile /\ \A x \in Edits : x # r => edit'[x] = edit[x]
  BY EditShapes DEF UploadsType, Begins
<1>2. mixed \subseteq mixed'
  BY DEF Begins
<1>3. ASSUME NEW x \in Edits, About(x, call.pic)
      PROVE  <<call.pic, IF edit[x].what = call.what /\ edit[x].what = "upload" THEN "uploads" ELSE "removal">> \in mixed'
  <2>1. edit[x] \in {a \in Active : a.pic = call.pic}
    BY <1>3 DEF About, Active
  <2> QED BY <1>3, <2>1 DEF Begins, About
<1> QED BY <1>1, <1>2, <1>3

LEMMA ProceedsEdit ==
  ASSUME UploadsType, NEW r \in Edits, NEW step, Proceeds(r, step), edit[r] # NoFile, edit[r].what = "remove",
         \/ step = "clear" /\ edit[r].pic # "back"
         \/ step \in {"read", "reset", "keep"} /\ edit[r].pic = "back"
  PROVE  /\ edit' \in [Edits -> EditCall \cup {NoFile}] /\ edit'[r] # NoFile
         /\ edit'[r].what = "remove" /\ edit'[r].pic = edit[r].pic /\ edit'[r].step = step
         /\ \A x \in Edits : x # r => edit'[x] = edit[x]
<1>1. edit[r] \in PictureRemoval /\ edit \in [Edits -> EditCall \cup {NoFile}]
  BY EditShapes DEF UploadsType
<1> DEFINE q == [edit[r] EXCEPT !.step = step]
<1>2. q \in PictureRemoval /\ q.what = "remove" /\ q.pic = edit[r].pic /\ q.step = step
  BY <1>1 DEF PictureRemoval
<1> HIDE DEF q
<1>3. q \in EditCall
  BY <1>2 DEF EditCall
<1>4. edit' = [edit EXCEPT ![r] = q]
  BY DEF Proceeds, q
<1> QED BY <1>1, <1>2, <1>3, <1>4, EditShapes

LEMMA FinishesEdit ==
  ASSUME UploadsType, NEW r \in Edits, Finishes(r)
  PROVE  /\ edit' \in [Edits -> EditCall \cup {NoFile}]
         /\ edit'[r] = NoFile /\ \A x \in Edits : x # r => edit'[x] = edit[x]
BY DEF UploadsType, Finishes

-----------------------------------------------------------------------------
LEMMA UploadsKeepType ==
  ASSUME UploadsType, UploadsNext
  PROVE  UploadsType'
<1>0. /\ file \in [Pictures -> Nat \cup {NoFile}] /\ link \in [Pictures -> Nat \cup {NoFile}]
      /\ chosen \in {"classic", "custom"} /\ edit \in [Edits -> EditCall \cup {NoFile}]
      /\ uploads \in Nat /\ copy \in GameCopy \cup {NoFile} /\ late \in BOOLEAN
  BY DEF UploadsType
<1>1. ASSUME NEW r \in Edits, NEW pic \in Pictures, processAndStore(r, pic) PROVE UploadsType'
  <2> DEFINE call == [what |-> "upload", pic |-> pic, step |-> "save", num |-> uploads + 1]
  <2>1. call \in EditCall
    BY <1>0, EditsMade
  <2>2. Begins(r, call)
    BY <1>1 DEF processAndStore
  <2> HIDE DEF call
  <2>3. edit' \in [Edits -> EditCall \cup {NoFile}]
    BY <2>1, <2>2, BeginsEdit
  <2> QED BY <1>0, <1>1, <2>3 DEF processAndStore, UploadsType
<1>2. ASSUME NEW r \in Edits, NEW pic \in Pictures, Saves(r, pic) PROVE UploadsType'
  <2>1. edit[r].num \in Nat /\ edit' \in [Edits -> EditCall \cup {NoFile}]
    BY <1>0, <1>2, FinishesEdit, EditShapes DEF Saves, At, RowFails
  <2> QED BY <1>0, <1>2, <2>1 DEF Saves, RowFails, UploadsType
<1>3. ASSUME NEW r \in Edits, NEW pic \in Pictures, RemovalBegins(r, pic) \/ (pic = "face" /\ FaceChecks(r))
      PROVE  UploadsType'
  <2> DEFINE call == [what |-> "remove", pic |-> pic, step |-> "unlink", num |-> 0]
  <2>1. call \in EditCall
    BY EditsMade
  <2>2. Begins(r, call) /\ UNCHANGED <<file, link, chosen, uploads, copy, broken, late>>
    BY <1>3 DEF RemovalBegins, FaceChecks
  <2> HIDE DEF call
  <2> QED BY <1>0, <2>1, <2>2, BeginsEdit DEF UploadsType
<1>4. ASSUME NEW r \in Edits, Unlinks(r) PROVE UploadsType'
  <2>1. edit' \in [Edits -> EditCall \cup {NoFile}]
    BY <1>0, <1>4, ProceedsEdit DEF Unlinks, At
  <2> QED BY <1>0, <1>4, <2>1 DEF Unlinks, UploadsType
<1>5. ASSUME NEW r \in Edits, Clears(r) PROVE UploadsType'
  <2>1. edit' \in [Edits -> EditCall \cup {NoFile}]
    BY <1>0, <1>5, FinishesEdit DEF Clears, RowFails
  <2> QED BY <1>0, <1>5, <2>1 DEF Clears, RowFails, UploadsType
<1>6. ASSUME NEW r \in Edits, BackReads(r) PROVE UploadsType'
  <2>1. edit' \in [Edits -> EditCall \cup {NoFile}]
    BY <1>0, <1>6, ProceedsEdit, EditShapes DEF BackReads, At
  <2> QED BY <1>0, <1>6, <2>1 DEF BackReads, UploadsType
<1>7. ASSUME NEW r \in Edits, BackClears(r) PROVE UploadsType'
  <2>1. edit' \in [Edits -> EditCall \cup {NoFile}]
    BY <1>0, <1>7, FinishesEdit DEF BackClears, RowFails
  <2>2. late' \in BOOLEAN
    BY <1>0, <1>7 DEF BackClears, RowFails
  <2> QED BY <1>0, <1>7, <2>1, <2>2 DEF BackClears, RowFails, UploadsType
<1>8. ASSUME NEW r \in Edits, ChooseChecks(r) PROVE UploadsType'
  <2> DEFINE call == [what |-> "choose", pic |-> "choice", step |-> "write", num |-> 0]
  <2>1. call \in EditCall
    BY EditsMade
  <2>2. Begins(r, call) /\ UNCHANGED <<file, link, chosen, uploads, copy, broken, late>>
    BY <1>8 DEF ChooseChecks
  <2> HIDE DEF call
  <2> QED BY <1>0, <2>1, <2>2, BeginsEdit DEF UploadsType
<1>9. ASSUME NEW r \in Edits, ChooseWrites(r) PROVE UploadsType'
  <2>1. edit' \in [Edits -> EditCall \cup {NoFile}] /\ late' \in BOOLEAN
    BY <1>0, <1>9, FinishesEdit DEF ChooseWrites
  <2> QED BY <1>0, <1>9, <2>1 DEF ChooseWrites, UploadsType
<1>10. CASE ChoosesClassic \/ GameGone
  BY <1>0, <1>10 DEF ChoosesClassic, GameGone, UploadsType
<1>11. CASE loadProfilesForIds
  <2>1. copy' \in GameCopy
    BY <1>0, <1>11 DEF loadProfilesForIds, GameCopy, Pictures
  <2> QED BY <1>0, <1>11, <2>1 DEF loadProfilesForIds, UploadsType
<1>12. "avatar" \in Pictures /\ "back" \in Pictures /\ "face" \in Pictures
  BY DEF Pictures
<1> QED BY <1>1, <1>2, <1>3, <1>4, <1>5, <1>6, <1>7, <1>8, <1>9, <1>10, <1>11, <1>12
        DEF UploadsNext, AvatarStores, BackStores, FaceStores

-----------------------------------------------------------------------------
(* A picture a step is not about. *)
LEMMA PictureAside ==
  ASSUME NEW pic \in Pictures, PictureKept(pic), file'[pic] = file[pic], link'[pic] = link[pic],
         mixed \subseteq mixed',
         \A x \in Edits : About(x, pic) \/ About(x, pic)' => edit'[x] = edit[x]
  PROVE  PictureKept(pic)'
<1>1. \A x \in Edits : About(x, pic)' <=> About(x, pic)
  BY DEF About
<1>2. Agreed(pic) => Agreed(pic)'
  BY DEF Agreed
<1>3. ASSUME NEW x \in Edits, About(x, pic)' PROVE CarriesOn(x, pic)'
  BY <1>1, <1>2, <1>3 DEF PictureKept, CarriesOn
<1>4. \A q, r \in Edits : q # r /\ About(q, pic)' /\ About(r, pic)' =>
        edit'[q].what = "upload" /\ edit'[r].what = "upload" /\ <<pic, "uploads">> \in mixed'
  BY <1>1 DEF PictureKept
<1> QED BY <1>1, <1>2, <1>3, <1>4 DEF PictureKept

(* A request about another picture, or about none. *)
LEMMA EditElsewhere ==
  ASSUME NEW pic \in Pictures, NEW r \in Edits, \A x \in Edits : x # r => edit'[x] = edit[x],
         edit[r] # NoFile => edit[r].pic # pic, edit'[r] # NoFile => edit'[r].pic # pic
  PROVE  \A x \in Edits : About(x, pic) \/ About(x, pic)' => edit'[x] = edit[x]
BY DEF About

(* A removal is alone with its picture. *)
LEMMA RemovalAlone ==
  ASSUME NEW pic \in Pictures, PictureKept(pic), NEW r \in Edits, About(r, pic), edit[r].what = "remove"
  PROVE  \A x \in Edits : x # r => ~About(x, pic)
BY DEF PictureKept

LEMMA PictureStays ==
  ASSUME UploadsType, UploadsNext, NEW pic \in Pictures, Spared(pic)', Spared(pic) => PictureKept(pic)
  PROVE  PictureKept(pic)'
<1>0. /\ file \in [Pictures -> Nat \cup {NoFile}] /\ link \in [Pictures -> Nat \cup {NoFile}]
      /\ edit \in [Edits -> EditCall \cup {NoFile}] /\ uploads \in Nat
      /\ \A x \in Edits : edit[x] # NoFile => edit[x] \in EditCall
  BY DEF UploadsType
<1>a. ASSUME NEW r \in Edits, edit[r] # NoFile, edit[r].pic # pic, Finishes(r), mixed' = mixed, broken \subseteq broken',
             file'[pic] = file[pic], link'[pic] = link[pic]
      PROVE  PictureKept(pic)'
  <2>1. PictureKept(pic)
    BY <1>a DEF Spared
  <2>2. \A x \in Edits : About(x, pic) \/ About(x, pic)' => edit'[x] = edit[x]
    BY <1>a, FinishesEdit, EditElsewhere
  <2> QED BY <1>a, <2>1, <2>2, PictureAside
<1>1. ASSUME NEW r \in Edits, NEW p \in Pictures, processAndStore(r, p) PROVE PictureKept(pic)'
  <2> DEFINE call == [what |-> "upload", pic |-> p, step |-> "save", num |-> uploads + 1]
  <2>1. call \in EditCall /\ call.pic = p /\ call.what = "upload" /\ call.num = uploads + 1 /\ uploads + 1 # NoFile
    BY <1>0, EditsMade, UploadsAssumption
  <2>2. Begins(r, call) /\ file' = [file EXCEPT ![p] = uploads + 1] /\ link' = link /\ broken' = broken
    BY <1>1 DEF processAndStore
  <2> HIDE DEF call
  <2>3. /\ edit[r] = NoFile /\ edit'[r] = call /\ call # NoFile /\ mixed \subseteq mixed'
        /\ \A x \in Edits : x # r => edit'[x] = edit[x]
        /\ \A x \in Edits : About(x, p) =>
             <<p, IF edit[x].what = "upload" THEN "uploads" ELSE "removal">> \in mixed'
    BY <2>1, <2>2, BeginsEdit
  <2>4. PictureKept(pic)
    BY <2>2, <2>3 DEF Spared
  <2>5. CASE p # pic
    <3>1. \A x \in Edits : About(x, pic) \/ About(x, pic)' => edit'[x] = edit[x]
      BY <2>1, <2>3, <2>5, EditElsewhere
    <3> QED BY <1>0, <2>2, <2>3, <2>4, <2>5, <3>1, PictureAside
  <2>6. CASE p = pic
    <3>1. \A x \in Edits : About(x, pic) => edit[x].what = "upload" /\ <<pic, "uploads">> \in mixed'
      BY <2>3, <2>6 DEF Spared
    <3>2. file'[pic] = uploads + 1
      BY <1>0, <2>2, <2>6
    <3>3. \A x \in Edits : About(x, pic)' => /\ edit'[x].what = "upload"
                                             /\ x = r \/ (About(x, pic) /\ <<pic, "uploads">> \in mixed')
      BY <2>1, <2>3, <3>1 DEF About
    <3>4. About(r, pic)'
      BY <2>1, <2>3, <2>6 DEF About
    <3> QED BY <2>1, <2>3, <3>2, <3>3, <3>4 DEF PictureKept, CarriesOn
  <2> QED BY <2>5, <2>6
<1>2. ASSUME NEW r \in Edits, NEW p \in Pictures, Saves(r, p) PROVE PictureKept(pic)'
  <2>1. /\ edit[r] # NoFile /\ edit[r].what = "upload" /\ edit[r].pic = p /\ edit[r].num \in Nat /\ edit[r].num # NoFile
        /\ file' = file /\ mixed' = mixed /\ Finishes(r)
    BY <1>0, <1>2, EditShapes, UploadsAssumption DEF Saves, At, RowFails
  <2>2. edit'[r] = NoFile /\ \A x \in Edits : x # r => edit'[x] = edit[x]
    BY <2>1, FinishesEdit
  <2>3. CASE p # pic
    BY <1>0, <1>2, <1>a, <2>1, <2>3 DEF Saves, RowFails
  <2>4. CASE p = pic
    <3>1. broken' = broken /\ link' = [link EXCEPT ![pic] = edit[r].num]
      BY <1>2, <2>1, <2>4 DEF Saves, RowFails, Spared
    <3>2. PictureKept(pic) /\ About(r, pic)
      BY <2>1, <2>4, <3>1 DEF Spared, About
    <3>3. /\ \A x \in Edits : x # r /\ About(x, pic) => edit[x].what = "upload" /\ <<pic, "uploads">> \in mixed
          /\ file[pic] # NoFile /\ (<<pic, "uploads">> \in mixed \/ file[pic] = edit[r].num)
      BY <2>1, <3>2 DEF PictureKept, CarriesOn
    <3>4. Agreed(pic)'
      BY <1>0, <2>1, <3>1, <3>3 DEF Agreed
    <3>5. \A x \in Edits : About(x, pic)' => x # r /\ About(x, pic) /\ edit'[x].what = "upload" /\ <<pic, "uploads">> \in mixed
      BY <2>2, <3>3 DEF About
    <3> QED BY <2>1, <3>3, <3>4, <3>5 DEF PictureKept, CarriesOn
  <2> QED BY <2>3, <2>4
<1>3. ASSUME NEW r \in Edits, NEW p \in Pictures, RemovalBegins(r, p) \/ (p = "face" /\ FaceChecks(r))
      PROVE  PictureKept(pic)'
  <2> DEFINE call == [what |-> "remove", pic |-> p, step |-> "unlink", num |-> 0]
  <2>1. call \in EditCall /\ call.pic = p /\ call.what = "remove" /\ call.step = "unlink"
    BY EditsMade
  <2>2. Begins(r, call) /\ file' = file /\ link' = link /\ broken' = broken
    BY <1>3 DEF RemovalBegins, FaceChecks
  <2> HIDE DEF call
  <2>3. /\ edit[r] = NoFile /\ edit'[r] = call /\ call # NoFile /\ mixed \subseteq mixed'
        /\ \A x \in Edits : x # r => edit'[x] = edit[x]
        /\ \A x \in Edits : About(x, p) => <<p, "removal">> \in mixed'
    BY <2>1, <2>2, BeginsEdit
  <2>4. PictureKept(pic)
    BY <2>2, <2>3 DEF Spared
  <2>5. CASE p # pic
    <3>1. \A x \in Edits : About(x, pic) \/ About(x, pic)' => edit'[x] = edit[x]
      BY <2>1, <2>3, <2>5, EditElsewhere
    <3> QED BY <2>2, <2>3, <2>4, <3>1, PictureAside
  <2>6. CASE p = pic
    <3>1. \A x \in Edits : ~About(x, pic)
      BY <2>3, <2>6 DEF Spared
    <3>2. Agreed(pic)'
      BY <2>2, <2>3, <2>4, <3>1 DEF PictureKept, Agreed
    <3>3. \A x \in Edits : About(x, pic)' <=> x = r
      BY <2>1, <2>3, <2>6, <3>1 DEF About
    <3> QED BY <2>1, <2>3, <3>2, <3>3 DEF PictureKept, CarriesOn
  <2> QED BY <2>5, <2>6
<1>4. ASSUME NEW r \in Edits, Unlinks(r) PROVE PictureKept(pic)'
  <2> DEFINE p == edit[r].pic
  <2>1. /\ edit[r] # NoFile /\ edit[r].what = "remove" /\ edit[r].step = "unlink" /\ p \in Pictures
        /\ link' = link /\ mixed' = mixed /\ broken \subseteq broken' /\ \A x \in Pictures : x # p => file'[x] = file[x]
    BY <1>0, <1>4, EditShapes DEF Unlinks, At
  <2>2. /\ edit'[r] # NoFile /\ edit'[r].what = "remove" /\ edit'[r].pic = p /\ edit'[r].step # "unlink"
        /\ \A x \in Edits : x # r => edit'[x] = edit[x]
    BY <1>4, <2>1, ProceedsEdit DEF Unlinks
  <2>3. PictureKept(pic)
    BY <2>1 DEF Spared
  <2>4. CASE p # pic
    <3>1. \A x \in Edits : About(x, pic) \/ About(x, pic)' => edit'[x] = edit[x]
      BY <2>1, <2>2, <2>4, EditElsewhere
    <3> QED BY <2>1, <2>3, <2>4, <3>1, PictureAside
  <2>5. CASE p = pic
    <3>1. \A x \in Edits : x # r => ~About(x, pic)
      BY <2>1, <2>3, <2>5, RemovalAlone DEF About
    <3>2. file'[pic] = NoFile
      BY <1>0, <1>4, <2>5 DEF Unlinks, Spared
    <3>3. \A x \in Edits : About(x, pic)' <=> x = r
      BY <2>2, <2>5, <3>1 DEF About
    <3> QED BY <2>2, <3>2, <3>3 DEF PictureKept, CarriesOn
  <2> QED BY <2>4, <2>5
<1>b. ASSUME NEW r \in Edits, NEW p \in Pictures, edit[r] # NoFile, edit[r].what = "remove", edit[r].step # "unlink", edit[r].pic = p,
             file' = file, mixed' = mixed, link' = [link EXCEPT ![p] = NoFile], broken' = broken, Finishes(r)
      PROVE  PictureKept(pic)'
  <2>1. CASE p # pic
    BY <1>0, <1>a, <1>b, <2>1
  <2>2. CASE p = pic
    <3>1. PictureKept(pic) /\ About(r, pic)
      BY <1>b, <2>2 DEF Spared, About
    <3>2. file[pic] = NoFile /\ \A x \in Edits : x # r => ~About(x, pic)
      BY <1>b, <3>1, RemovalAlone DEF PictureKept, CarriesOn
    <3>3. \A x \in Edits : ~About(x, pic)'
      BY <1>b, <3>2, FinishesEdit DEF About
    <3>4. Agreed(pic)'
      BY <1>0, <1>b, <2>2, <3>2 DEF Agreed
    <3> QED BY <3>3, <3>4 DEF PictureKept
  <2> QED BY <2>1, <2>2
<1>c. ASSUME NEW r \in Edits, edit[r] # NoFile, RowFails(r), file' = file, mixed' = mixed PROVE PictureKept(pic)'
  <2>1. edit[r].pic # pic
    BY <1>c DEF RowFails, Spared
  <2> QED BY <1>a, <1>c, <2>1 DEF RowFails
<1>5. ASSUME NEW r \in Edits, Clears(r) PROVE PictureKept(pic)'
  <2>1. edit[r] # NoFile /\ edit[r].what = "remove" /\ edit[r].step = "clear" /\ edit[r].pic \in Pictures
    BY <1>0, <1>5, EditShapes DEF Clears, At
  <2> QED BY <1>5, <1>b, <1>c, <2>1 DEF Clears
<1>6. ASSUME NEW r \in Edits, BackReads(r) PROVE PictureKept(pic)'
  <2>1. /\ edit[r] # NoFile /\ edit[r].what = "remove" /\ edit[r].step = "read" /\ edit[r].pic = "back"
        /\ UNCHANGED <<file, link, mixed, broken>>
    BY <1>0, <1>6, EditShapes DEF BackReads, At
  <2>2. /\ edit'[r] # NoFile /\ edit'[r].what = "remove" /\ edit'[r].pic = "back" /\ edit'[r].step # "unlink"
        /\ \A x \in Edits : x # r => edit'[x] = edit[x]
    BY <1>6, <2>1, ProceedsEdit DEF BackReads
  <2>3. PictureKept(pic)
    BY <2>1 DEF Spared
  <2>4. CASE pic # "back"
    <3>1. \A x \in Edits : About(x, pic) \/ About(x, pic)' => edit'[x] = edit[x]
      BY <2>1, <2>2, <2>4, EditElsewhere
    <3> QED BY <2>1, <2>3, <3>1, PictureAside
  <2>5. CASE pic = "back"
    <3>1. (\A x \in Edits : x # r => ~About(x, pic)) /\ file[pic] = NoFile
      BY <2>1, <2>3, <2>5, RemovalAlone DEF About, PictureKept, CarriesOn
    <3>2. \A x \in Edits : About(x, pic)' <=> x = r
      BY <2>2, <2>5, <3>1 DEF About
    <3> QED BY <2>1, <2>2, <3>1, <3>2 DEF PictureKept, CarriesOn
  <2> QED BY <2>4, <2>5
<1>7. ASSUME NEW r \in Edits, BackClears(r) PROVE PictureKept(pic)'
  <2>1. edit[r] # NoFile /\ edit[r].what = "remove" /\ edit[r].step # "unlink" /\ edit[r].pic = "back" /\ "back" \in Pictures
    BY <1>0, <1>7, EditShapes DEF BackClears, At, Pictures
  <2> QED BY <1>7, <1>b, <1>c, <2>1 DEF BackClears
<1>8. ASSUME NEW r \in Edits, ChooseChecks(r) PROVE PictureKept(pic)'
  <2> DEFINE call == [what |-> "choose", pic |-> "choice", step |-> "write", num |-> 0]
  <2>1. call \in EditCall /\ call.pic = "choice" /\ pic # "choice"
    BY EditsMade DEF Pictures
  <2>2. Begins(r, call) /\ UNCHANGED <<file, link, broken>>
    BY <1>8 DEF ChooseChecks
  <2> HIDE DEF call
  <2>3. /\ edit[r] = NoFile /\ edit'[r] = call /\ mixed \subseteq mixed'
        /\ \A x \in Edits : x # r => edit'[x] = edit[x]
    BY <2>1, <2>2, BeginsEdit
  <2>4. \A x \in Edits : About(x, pic) \/ About(x, pic)' => edit'[x] = edit[x]
    BY <2>1, <2>3, EditElsewhere
  <2>5. PictureKept(pic)
    BY <2>2, <2>3 DEF Spared
  <2> QED BY <2>2, <2>3, <2>4, <2>5, PictureAside
<1>9. ASSUME NEW r \in Edits, ChooseWrites(r) PROVE PictureKept(pic)'
  <2>1. edit[r] # NoFile /\ edit[r].pic = "choice" /\ pic # "choice"
    BY <1>0, <1>9, EditShapes DEF ChooseWrites, At, Pictures
  <2> QED BY <1>9, <1>a, <2>1 DEF ChooseWrites
<1>10. CASE ChoosesClassic \/ GameGone \/ loadProfilesForIds
  <2>1. UNCHANGED <<file, link, edit, mixed, broken>>
    BY <1>10 DEF ChoosesClassic, GameGone, loadProfilesForIds
  <2>2. PictureKept(pic)
    BY <2>1 DEF Spared
  <2> QED BY <2>1, <2>2, PictureAside
<1>11. "avatar" \in Pictures /\ "back" \in Pictures /\ "face" \in Pictures
  BY DEF Pictures
<1> QED BY <1>1, <1>2, <1>3, <1>4, <1>5, <1>6, <1>7, <1>8, <1>9, <1>10, <1>11
        DEF UploadsNext, AvatarStores, BackStores, FaceStores


(* The choice of a card back. *)
LEMMA ChoiceStays ==
  ASSUME UploadsType, UploadsNext, ChoiceKept
  PROVE  ChoiceKept'
<1>0. /\ link \in [Pictures -> Nat \cup {NoFile}] /\ "back" \in Pictures
      /\ edit \in [Edits -> EditCall \cup {NoFile}] /\ uploads \in Nat /\ late \in BOOLEAN
      /\ \A x \in Edits : edit[x] # NoFile => edit[x] \in EditCall
  BY DEF UploadsType, Pictures
<1>a. ASSUME NEW r \in Edits, \A x \in Edits : x # r => edit'[x] = edit[x],
             edit'[r] # NoFile => edit'[r].what # "choose" /\ ~(edit'[r].what = "remove" /\ edit'[r].step = "keep"),
             link["back"] # NoFile => link'["back"] # NoFile, chosen' = chosen, late' = late, copy' = copy
      PROVE  ChoiceKept'
  BY <1>a DEF ChoiceKept
<1>1. ASSUME NEW r \in Edits, NEW p \in Pictures, processAndStore(r, p) PROVE ChoiceKept'
  <2> DEFINE call == [what |-> "upload", pic |-> p, step |-> "save", num |-> uploads + 1]
  <2>1. call \in EditCall /\ call.what = "upload"
    BY <1>0, EditsMade
  <2>2. Begins(r, call) /\ UNCHANGED <<link, chosen, copy, late>>
    BY <1>1 DEF processAndStore
  <2> HIDE DEF call
  <2> QED BY <1>a, <2>1, <2>2, BeginsEdit
<1>2. ASSUME NEW r \in Edits, NEW p \in Pictures, Saves(r, p) PROVE ChoiceKept'
  <2>1. edit[r].num # NoFile /\ Finishes(r) /\ UNCHANGED <<chosen, copy, late>>
    BY <1>0, <1>2, EditShapes, UploadsAssumption DEF Saves, At, RowFails
  <2>2. link["back"] # NoFile => link'["back"] # NoFile
    BY <1>0, <1>2, <2>1 DEF Saves, RowFails
  <2> QED BY <1>a, <2>1, <2>2, FinishesEdit
<1>3. ASSUME NEW r \in Edits, NEW p \in Pictures, RemovalBegins(r, p) \/ (p = "face" /\ FaceChecks(r))
      PROVE  ChoiceKept'
  <2> DEFINE call == [what |-> "remove", pic |-> p, step |-> "unlink", num |-> 0]
  <2>1. call \in EditCall /\ call.what = "remove" /\ call.step = "unlink"
    BY EditsMade
  <2>2. Begins(r, call) /\ UNCHANGED <<link, chosen, copy, late>>
    BY <1>3 DEF RemovalBegins, FaceChecks
  <2> HIDE DEF call
  <2> QED BY <1>a, <2>1, <2>2, BeginsEdit
<1>4. ASSUME NEW r \in Edits, Unlinks(r) PROVE ChoiceKept'
  <2>1. edit[r] # NoFile /\ edit[r].what = "remove" /\ UNCHANGED <<link, chosen, copy, late>>
    BY <1>4 DEF Unlinks, At
  <2>2. /\ edit'[r].what = "remove" /\ edit'[r].step # "keep"
        /\ \A x \in Edits : x # r => edit'[x] = edit[x]
    BY <1>4, <2>1, ProceedsEdit DEF Unlinks
  <2> QED BY <1>a, <2>1, <2>2
<1>b. ASSUME NEW r \in Edits, RowFails(r), copy' = copy PROVE ChoiceKept'
  BY <1>a, <1>b, FinishesEdit DEF RowFails
<1>5. ASSUME NEW r \in Edits, Clears(r) PROVE ChoiceKept'
  <2>1. edit[r].pic # "back" /\ copy' = copy
    BY <1>0, <1>5, EditShapes DEF Clears, At
  <2>2. CASE RowFails(r)
    BY <1>b, <2>1, <2>2
  <2>3. CASE ~RowFails(r)
    <3>1. link' = [link EXCEPT ![edit[r].pic] = NoFile] /\ Finishes(r) /\ UNCHANGED <<chosen, late>>
      BY <1>5, <2>3 DEF Clears
    <3>2. link'["back"] = link["back"]
      BY <1>0, <2>1, <3>1
    <3> QED BY <1>a, <2>1, <3>1, <3>2, FinishesEdit
  <2> QED BY <2>2, <2>3
<1>6. ASSUME NEW r \in Edits, BackReads(r) PROVE ChoiceKept'
  <2>1. edit[r] # NoFile /\ edit[r].what = "remove" /\ edit[r].pic = "back" /\ UNCHANGED <<link, chosen, copy, late>>
    BY <1>0, <1>6, EditShapes DEF BackReads, At
  <2>2. /\ edit'[r].what = "remove" /\ (edit'[r].step = "keep" => chosen # "custom")
        /\ \A x \in Edits : x # r => edit'[x] = edit[x]
    BY <1>6, <2>1, ProceedsEdit DEF BackReads
  <2> QED BY <2>1, <2>2 DEF ChoiceKept
<1>7. ASSUME NEW r \in Edits, BackClears(r) PROVE ChoiceKept'
  <2>1. CASE RowFails(r)
    BY <1>7, <1>b, <2>1 DEF BackClears
  <2>2. CASE ~RowFails(r)
    <3>1. /\ edit[r] # NoFile /\ edit[r].what = "remove" /\ edit[r].step \in {"reset", "keep"}
          /\ chosen' = IF edit[r].step = "reset" THEN "classic" ELSE chosen
          /\ Finishes(r) /\ copy' = copy
          /\ late' = (late \/ \E q \in Active : q.what = "choose")
      BY <1>7, <2>2 DEF BackClears, At
    <3>2. edit'[r] = NoFile /\ \A x \in Edits : x # r => edit'[x] = edit[x]
      BY <3>1, FinishesEdit
    <3>3. ASSUME ~late' PROVE ~late /\ \A x \in Edits : ~(edit[x] # NoFile /\ edit[x].what = "choose")
      BY <1>0, <3>1, <3>3 DEF Active
    <3>4. ~late' => chosen' # "custom"
      BY <3>1, <3>3 DEF ChoiceKept
    <3> QED BY <3>1, <3>2, <3>3, <3>4 DEF ChoiceKept
  <2> QED BY <2>1, <2>2
<1>8. ASSUME NEW r \in Edits, ChooseChecks(r) PROVE ChoiceKept'
  <2> DEFINE call == [what |-> "choose", pic |-> "choice", step |-> "write", num |-> 0]
  <2>1. call \in EditCall /\ call.what = "choose"
    BY EditsMade
  <2>2. Begins(r, call) /\ link["back"] # NoFile /\ UNCHANGED <<link, chosen, copy, late>>
    BY <1>8 DEF ChooseChecks
  <2> HIDE DEF call
  <2>3. edit'[r] = call /\ \A x \in Edits : x # r => edit'[x] = edit[x]
    BY <2>1, <2>2, BeginsEdit
  <2> QED BY <2>1, <2>2, <2>3 DEF ChoiceKept
<1>9. ASSUME NEW r \in Edits, ChooseWrites(r) PROVE ChoiceKept'
  <2>1. /\ edit[r] # NoFile /\ edit[r].what = "choose" /\ Finishes(r) /\ chosen' = "custom" /\ UNCHANGED <<link, copy>>
        /\ late' = (late \/ \E q \in Active : q.what = "remove" /\ q.step = "keep")
    BY <1>9 DEF ChooseWrites, At
  <2>2. edit'[r] = NoFile /\ \A x \in Edits : x # r => edit'[x] = edit[x]
    BY <2>1, FinishesEdit
  <2>3. ASSUME ~late'
        PROVE  ~late /\ \A x \in Edits : ~(edit[x] # NoFile /\ edit[x].what = "remove" /\ edit[x].step = "keep")
    BY <1>0, <2>1, <2>3 DEF Active
  <2> QED BY <2>1, <2>2, <2>3 DEF ChoiceKept
<1>10. CASE ChoosesClassic
  BY <1>10 DEF ChoosesClassic, ChoiceKept
<1>11. CASE GameGone
  BY <1>11 DEF GameGone, ChoiceKept
<1>12. CASE loadProfilesForIds
  BY <1>12 DEF loadProfilesForIds, ChoiceKept
<1>13. "avatar" \in Pictures /\ "back" \in Pictures /\ "face" \in Pictures
  BY DEF Pictures
<1> QED BY <1>1, <1>2, <1>3, <1>4, <1>5, <1>6, <1>7, <1>8, <1>9, <1>10, <1>11, <1>12, <1>13
        DEF UploadsNext, AvatarStores, BackStores, FaceStores

(* No row points to a picture that is gone, and the custom back is chosen, or  *)
(* kept by a game, only where there is one: save for requests that met or      *)
(* failed half way, which the history variables name.                          *)
THEOREM PicturesHold == UploadsSpec => []FilesKept
<1>1. UploadsInit => UploadsInv
  <2> SUFFICES ASSUME UploadsInit PROVE UploadsInv
    OBVIOUS
  <2>1. UploadsType
    BY UploadsAssumption DEF UploadsInit, UploadsType
  <2>2. \A r \in Edits : edit[r] = NoFile
    BY DEF UploadsInit
  <2>3. PicturesKept
    BY <2>2 DEF UploadsInit, PicturesKept, PictureKept, About, Agreed
  <2>4. ChoiceKept
    BY <2>2 DEF UploadsInit, ChoiceKept
  <2> QED BY <2>1, <2>3, <2>4 DEF UploadsInv
<1>2. UploadsInv /\ [UploadsNext]_uploadVars => UploadsInv'
  <2> SUFFICES ASSUME UploadsInv, [UploadsNext]_uploadVars PROVE UploadsInv'
    OBVIOUS
  <2>0. UploadsType /\ PicturesKept /\ ChoiceKept
    BY DEF UploadsInv
  <2>1. CASE UploadsNext
    <3>1. ASSUME NEW pic \in Pictures, Spared(pic)' PROVE PictureKept(pic)'
      BY <2>0, <2>1, <3>1, PictureStays DEF PicturesKept
    <3>2. PicturesKept'
      BY <3>1 DEF PicturesKept
    <3> QED BY <2>0, <2>1, <3>2, UploadsKeepType, ChoiceStays DEF UploadsInv
  <2>2. CASE UNCHANGED uploadVars
    BY <2>0, <2>2 DEF uploadVars, UploadsInv, UploadsType, PicturesKept, PictureKept, Spared, About, CarriesOn, Agreed, ChoiceKept
  <2> QED BY <2>1, <2>2
<1>3. UploadsInv => FilesKept
  <2> SUFFICES ASSUME UploadsInv PROVE FilesKept
    OBVIOUS
  <2>1. LinksHold
    <3> SUFFICES ASSUME NEW pic \in Pictures, Untouched(pic), Spared(pic) PROVE Agreed(pic)
      BY DEF LinksHold, Spared, Agreed
    <3>1. \A r \in Edits : ~About(r, pic)
      BY DEF Untouched, Active, About
    <3> QED BY <3>1 DEF UploadsInv, PicturesKept, PictureKept
  <2>2. CustomThere
    BY DEF UploadsInv, UploadsType, ChoiceKept, CustomThere
  <2> QED BY <2>1, <2>2 DEF FilesKept
<1> QED BY <1>1, <1>2, <1>3, PTL DEF UploadsSpec

(***************************************************************************)
(* Results on record                                                       *)
(***************************************************************************)
(* What finalizeGame writes: a record of the game with a row for each participant. *)
Lines == UNION {[S -> [before : Seq(Games), after : Seq(Games), place : Nat]] : S \in SUBSET Players}
GameRecord == [game : Games, stamp : Nat, loser : Players \cup {Nobody}, metrics : BOOLEAN, rows : Lines]

RecordsType ==
  /\ acct \in [Players -> Standing \cup {Nobody}]
  /\ written \in Seq(GameRecord)
  /\ fin \in [Games -> Finishing \cup {Nobody}]
  /\ metrics \subseteq Games /\ now \in Nat /\ failedList \subseteq Games /\ stale \subseteq Players
  /\ reading \in Page \cup {Nobody}
  /\ cache \in NoLossList \cup {Nobody}

(* The records so far name each game once.  Their rows are of the game's own
   players, of each who has an account, and of nobody who has none. *)
RowsFit ==
  /\ \A i, j \in 1..Len(written) : written[i].game = written[j].game => i = j
  /\ \A i \in 1..Len(written) :
       /\ written[i].metrics
       /\ written[i].stamp <= now
       /\ DOMAIN written[i].rows \subseteq PlayersOf[written[i].game]
       /\ \A p \in DOMAIN written[i].rows : HasAccount(p)
       /\ \A p \in PlayersOf[written[i].game] : HasAccount(p) => p \in DOMAIN written[i].rows

RatedGames(p) == {written[i].game : i \in {k \in RowsOf(p, written) : Rated(k)}}

(* An account counts its records, has the rating of the last of them, and the
   rating is made of the rated games, if it was never written from an old copy. *)
StandingsFit ==
  \A p \in Players : HasAccount(p) =>
    /\ acct[p].played = Cardinality(RowsOf(p, written))
    /\ RowsOf(p, written) # {} => acct[p].rating = LastRow(p, written).after
    /\ ToSet(acct[p].rating) \subseteq Recorded
    /\ p \in stale \/ ToSet(acct[p].rating) = RatedGames(p)

(* A finalisation about to write knows every player who still has an account.
   The games its copy of a rating is made of are on record and were stamped
   before it took its own stamp. *)
CopyFits(f, p) ==
  /\ ToSet(f.copy[p]) \subseteq Recorded
  /\ \A i \in 1..Len(written) : written[i].game \in ToSet(f.copy[p]) => written[i].stamp < f.stamp
FinishFits(g) ==
  /\ fin[g].loser \in PlayersOf[g] \cup {Nobody}
  /\ fin[g].finished \in SetToSeqs(PlayersOf[g] \ {fin[g].loser})
  /\ fin[g].step \in {"read", "write", "clean"} => g \in metrics
  /\ fin[g].step = "write" =>
       /\ fin[g].copy \in RatingCopies
       /\ DOMAIN fin[g].copy \subseteq PlayersOf[g]
       /\ \A p \in PlayersOf[g] : HasAccount(p) => p \in DOMAIN fin[g].copy
       /\ fin[g].stamp <= now
       /\ \A p \in DOMAIN fin[g].copy : CopyFits(fin[g], p)
  /\ fin[g].step = "clean" => g \in Recorded
  /\ fin[g].step = "done" => g \in Recorded \/ \A p \in PlayersOf[g] : ~HasAccount(p)
  /\ fin[g].step = "failed" => g \in failedList
FinishesFit == \A g \in Games : fin[g] # Nobody => FinishFits(g)

(* The rated games of a player were stamped in the order of their records, unless
   an old copy was written: a copy that is still true knows all of them. *)
InOrder ==
  \A p \in Players \ stale : \A i, j \in RowsOf(p, written) :
    i < j /\ Rated(i) /\ Rated(j) => written[i].stamp < written[j].stamp

(* A page has seen no fewer records than there were when it was opened; the list
   without a loss holds nobody who lost one of those. *)
PagesFit ==
  /\ reading # Nobody =>
       /\ reading.base <= Len(written)
       /\ reading.what = "profile" => reading.who \in Players
       /\ \A q \in DOMAIN reading.saw : reading.saw[q] \in reading.base..Len(written)
  /\ cache # Nobody => cache.base <= Len(written)

RecordsInv == RecordsType /\ RowsFit /\ StandingsFit /\ FinishesFit /\ InOrder /\ PagesFit /\ NoLossHonest

LEMMA MaxOfNumbers ==
  ASSUME NEW n \in Nat, NEW S, S \subseteq 1..n, S # {}
  PROVE  Max(S) \in S /\ \A y \in S : y <= Max(S)
<1> DEFINE up(x) == {y \in S : y > x}
           U == {up(x) : x \in S}
<1>0. IsFiniteSet(1..n)
  BY FS_Interval
<1>1. IsFiniteSet(S)
  BY <1>0, FS_Subset
<1>2. U \subseteq FiniteSubsetsOf(S)
  BY <1>1, FS_Subset DEF FiniteSubsetsOf
<1>3. PICK T \in U : \A V \in U : ~(<<V, T>> \in StrictSubsetOrdering(S))
  <2>1. U # {}
    OBVIOUS
  <2> HIDE DEF U
  <2> QED BY <1>2, <2>1, FS_StrictSubsetOrderingWellFounded, WFMin
<1>4. PICK x \in S : T = up(x)
  OBVIOUS
<1>5. \A y \in S : y <= x
  <2> SUFFICES ASSUME NEW y \in S, y > x PROVE FALSE
    OBVIOUS
  <2>0. S \subseteq Int
    OBVIOUS
  <2>1. up(y) \subseteq T /\ y \in T /\ y \notin up(y) /\ up(y) \in U
    <3>1. up(y) \in U
      OBVIOUS
    <3>2. up(y) \subseteq up(x) /\ y \in up(x) /\ y \notin up(y)
      <4>1. ASSUME NEW z \in S, z > y PROVE z > x
        <5>1. z \in Int /\ y \in Int /\ x \in Int
          BY <2>0
        <5> QED BY <4>1, <5>1
      <4>2. ~(y > y)
        BY <2>0
      <4> QED BY <4>1, <4>2
    <3> QED BY <1>4, <3>1, <3>2
  <2>2. <<up(y), T>> \in StrictSubsetOrdering(S)
    BY <2>1, <1>4 DEF StrictSubsetOrdering
  <2> QED BY <1>3, <2>1, <2>2
<1>6. \E z \in S : \A y \in S : z >= y
  BY <1>5
<1> QED BY <1>6 DEF Max

(* The numbers of a player's records, one record later and up to some record. *)
LEMMA OneRecordMore ==
  ASSUME NEW w \in Seq(GameRecord), NEW r, NEW p
  PROVE  /\ Len(Append(w, r)) = Len(w) + 1
         /\ \A i \in 1..Len(w) : Append(w, r)[i] = w[i]
         /\ Append(w, r)[Len(w) + 1] = r
         /\ RowsOf(p, Append(w, r)) = RowsOf(p, w) \cup (IF p \in DOMAIN r.rows THEN {Len(w) + 1} ELSE {})
         /\ Lost(p, Append(w, r)) = Lost(p, w) \cup (IF r.loser = p THEN {Len(w) + 1} ELSE {})
<1>1. /\ Len(Append(w, r)) = Len(w) + 1
      /\ \A i \in 1..Len(w) : Append(w, r)[i] = w[i]
      /\ Append(w, r)[Len(w) + 1] = r
  OBVIOUS
<1>2. 1..(Len(w) + 1) = 1..Len(w) \cup {Len(w) + 1}
  OBVIOUS
<1> HIDE DEF Append
<1>3. RowsOf(p, Append(w, r)) = RowsOf(p, w) \cup (IF p \in DOMAIN r.rows THEN {Len(w) + 1} ELSE {})
  BY <1>1, <1>2 DEF RowsOf
<1>4. Lost(p, Append(w, r)) = Lost(p, w) \cup (IF r.loser = p THEN {Len(w) + 1} ELSE {})
  BY <1>1, <1>2 DEF Lost
<1> QED BY <1>1, <1>3, <1>4

LEMMA UpToRecord ==
  ASSUME NEW w \in Seq(GameRecord), NEW k \in 0..Len(w), NEW p
  PROVE  /\ Len(SubSeq(w, 1, k)) = k
         /\ \A i \in 1..k : SubSeq(w, 1, k)[i] = w[i]
         /\ RowsOf(p, SubSeq(w, 1, k)) = {i \in RowsOf(p, w) : i <= k}
         /\ Lost(p, SubSeq(w, 1, k)) = {i \in Lost(p, w) : i <= k}
<1>1. Len(SubSeq(w, 1, k)) = k /\ \A i \in 1..k : SubSeq(w, 1, k)[i] = w[i]
  OBVIOUS
<1>2. 1..k = {i \in 1..Len(w) : i <= k}
  OBVIOUS
<1>3. RowsOf(p, SubSeq(w, 1, k)) = {i \in RowsOf(p, w) : i <= k}
  BY <1>1, <1>2 DEF RowsOf
<1>4. Lost(p, SubSeq(w, 1, k)) = {i \in Lost(p, w) : i <= k}
  BY <1>1, <1>2 DEF Lost
<1> QED BY <1>1, <1>3, <1>4

LEMMA RowsFinite ==
  ASSUME NEW w \in Seq(GameRecord), NEW p
  PROVE  /\ RowsOf(p, w) \subseteq 1..Len(w) /\ IsFiniteSet(RowsOf(p, w)) /\ Cardinality(RowsOf(p, w)) \in Nat
         /\ RowsOf(p, w) # {} => Max(RowsOf(p, w)) \in RowsOf(p, w)
                                 /\ \A i \in RowsOf(p, w) : i <= Max(RowsOf(p, w))
<1>1. RowsOf(p, w) \subseteq 1..Len(w) /\ Len(w) \in Nat
  BY DEF RowsOf
<1>2. IsFiniteSet(RowsOf(p, w)) /\ Cardinality(RowsOf(p, w)) \in Nat
  <2>1. IsFiniteSet(1..Len(w))
    BY <1>1, FS_Interval
  <2>2. IsFiniteSet(RowsOf(p, w))
    BY <1>1, <2>1, FS_Subset
  <2> QED BY <2>2, FS_CardinalityType
<1> QED BY <1>1, <1>2, MaxOfNumbers

(* A sequence of all members of a finite set has each of them somewhere. *)
LEMMA AllInLine ==
  ASSUME NEW S, IsFiniteSet(S), NEW f \in SetToSeqs(S)
  PROVE  f \in Seq(S) /\ \A x \in S : \E i \in 1..Len(f) : f[i] = x
<1> DEFINE n == Cardinality(S)
<1>1. n \in Nat
  BY FS_CardinalityType
<1>2. f \in [1..n -> S] /\ \A i, j \in 1..n : i # j => f[i] # f[j]
  BY DEF SetToSeqs
<1>3. f \in Injection(1..n, S)
  BY <1>2 DEF Injection, IsInjective
<1>4. Cardinality(1..n) = n
  BY <1>1, FS_Interval
<1>5. f \in Surjection(1..n, S)
  BY <1>3, <1>4, FS_Injection
<1>6. f \in Seq(S) /\ Len(f) = n
  BY <1>1, <1>2
<1> QED BY <1>5, <1>6 DEF Surjection

LEMMA PlaceType ==
  ASSUME RecordsAssumption, NEW g \in Games, NEW p \in PlayersOf[g], NEW f, f.loser \in PlayersOf[g] \cup {Nobody},
         f.finished \in SetToSeqs(PlayersOf[g] \ {f.loser})
  PROVE  place(f, p) \in Nat
<1>1. CASE f.loser = Nobody
  BY <1>1 DEF place
<1>2. CASE f.loser # Nobody
  <2> DEFINE S == PlayersOf[g] \ {f.loser}
             s == f.finished
  <2>1. IsFiniteSet(S)
    BY RecordsAssumption, FS_Subset DEF RecordsAssumption
  <2> s \in SetToSeqs(S)
    OBVIOUS
  <2> HIDE DEF s, S
  <2>2. s \in Seq(S) /\ \A x \in S : \E i \in 1..Len(s) : s[i] = x
    BY <2>1, AllInLine
  <2>3. PICK i \in 1..Len(s) + 1 : Append(s, f.loser)[i] = p
    <3>1. CASE p = f.loser
      <4>1. Len(s) + 1 \in 1..Len(s) + 1 /\ Append(s, f.loser)[Len(s) + 1] = p
        BY <2>2, <3>1
      <4> QED BY <4>1
    <3>2. CASE p # f.loser
      <4>1. PICK i \in 1..Len(s) : s[i] = p
        BY <2>2, <3>2 DEF S
      <4>2. i \in 1..Len(s) + 1 /\ Append(s, f.loser)[i] = p
        BY <2>2, <4>1
      <4> QED BY <4>2
    <3> QED BY <3>1, <3>2
  <2>4. place(f, p) \in 1..Len(s) + 1
    BY <1>2, <2>3 DEF place, s
  <2> QED BY <2>2, <2>4
<1> QED BY <1>1, <1>2

LEMMA FinishingShape ==
  ASSUME NEW f \in Finishing
  PROVE  /\ f.step \in {"read", "write", "clean", "done", "failed"} /\ f.attempt \in Nat /\ f.stamp \in Nat
         /\ f.loser \in Players \cup {Nobody} /\ f.copy \in RatingCopies \cup {Nobody}
BY DEF Finishing

(* The record a transaction writes has the shape of one. *)
LEMMA RecordShape ==
  ASSUME RecordsAssumption, RecordsType, FinishesFit, NEW g \in Games, fin[g] # Nobody, fin[g].step = "write"
  PROVE  /\ Record(g) \in GameRecord
         /\ Record(g).game = g /\ Record(g).stamp = fin[g].stamp /\ Record(g).metrics = (g \in metrics)
         /\ DOMAIN Record(g).rows = DOMAIN fin[g].copy
         /\ \A p \in DOMAIN fin[g].copy :
              /\ Record(g).rows[p].before = fin[g].copy[p]
              /\ Record(g).rows[p].after = IF Cardinality(DOMAIN fin[g].copy) >= 2 THEN Append(fin[g].copy[p], g)
                                           ELSE fin[g].copy[p]
              /\ Record(g).rows[p].after \in Seq(Games)
<1> DEFINE c == fin[g].copy
           S == DOMAIN c
           after == updateRatings(g, c)
           rows == [p \in S |-> [before |-> c[p], after |-> after[p], place |-> place(fin[g], p)]]
<1>1. FinishFits(g) /\ fin[g] \in Finishing
  BY DEF RecordsType, FinishesFit
<1>2. /\ c \in RatingCopies /\ S \subseteq PlayersOf[g] /\ fin[g].loser \in PlayersOf[g] \cup {Nobody}
      /\ fin[g].finished \in SetToSeqs(PlayersOf[g] \ {fin[g].loser})
  BY <1>1 DEF FinishFits
<1>3. S \subseteq Players /\ \A p \in S : c[p] \in Seq(Games)
  BY <1>2 DEF RatingCopies
<1>4. \A p \in S : after[p] = (IF Cardinality(S) >= 2 THEN Append(c[p], g) ELSE c[p])
  BY DEF updateRatings
<1>6. \A p \in S : place(fin[g], p) \in Nat
  BY <1>2, PlaceType
<1>7. fin[g].stamp \in Nat /\ fin[g].loser \in Players \cup {Nobody}
  BY <1>1, FinishingShape
<1> HIDE DEF c, S, after
<1>5. \A p \in S : after[p] \in Seq(Games)
  <2> TAKE p \in S
  <2>1. Append(c[p], g) \in Seq(Games)
    BY <1>3
  <2> QED BY <1>3, <1>4, <2>1
<1>8. rows \in [S -> [before : Seq(Games), after : Seq(Games), place : Nat]]
  BY <1>3, <1>5, <1>6
<1>9. rows \in Lines
  BY <1>3, <1>8 DEF Lines
<1>10. Record(g) = [game |-> g, stamp |-> fin[g].stamp, loser |-> fin[g].loser, metrics |-> g \in metrics, rows |-> rows]
  BY DEF Record, c, S, after
<1>11. rows = rows /\ DOMAIN rows = S /\ \A p \in S : rows[p].before = c[p] /\ rows[p].after = after[p]
  OBVIOUS
<1>14. (g \in metrics) \in BOOLEAN
  OBVIOUS
<1> HIDE DEF rows
<1>12. Record(g) \in GameRecord
  BY <1>7, <1>9, <1>10, <1>14 DEF GameRecord
<1>13. Record(g).game = g /\ Record(g).stamp = fin[g].stamp /\ Record(g).metrics = (g \in metrics) /\ Record(g).rows = rows
  BY <1>10
<1> QED BY <1>4, <1>5, <1>11, <1>12, <1>13 DEF c, S

(* A finalisation goes on: what changes of it. *)
LEMMA FinishingMoves ==
  ASSUME NEW F \in [Games -> Finishing \cup {Nobody}], NEW g \in Games, F[g] \in Finishing,
         NEW s \in {"read", "write", "clean", "done", "failed"}, NEW n \in Nat, NEW c \in RatingCopies \cup {Nobody}, NEW t \in Nat
  PROVE  /\ [F[g] EXCEPT !.step = s] \in Finishing
         /\ [F[g] EXCEPT !.step = s, !.attempt = n, !.copy = Nobody] \in Finishing
         /\ [F[g] EXCEPT !.step = s, !.stamp = t, !.copy = c] \in Finishing
         /\ [F EXCEPT ![g].step = s] = [F EXCEPT ![g] = [F[g] EXCEPT !.step = s]]
         /\ [F EXCEPT ![g].step = s, ![g].attempt = @ + 1, ![g].copy = Nobody] =
              [F EXCEPT ![g] = [F[g] EXCEPT !.step = s, !.attempt = F[g].attempt + 1, !.copy = Nobody]]
         /\ [F EXCEPT ![g].step = s, ![g].stamp = t, ![g].copy = c] =
              [F EXCEPT ![g] = [F[g] EXCEPT !.step = s, !.stamp = t, !.copy = c]]
<1>1. [F[g] EXCEPT !.step = s] \in Finishing
  BY DEF Finishing
<1>2. [F[g] EXCEPT !.step = s, !.attempt = n, !.copy = Nobody] \in Finishing
  BY DEF Finishing
<1>3. [F[g] EXCEPT !.step = s, !.stamp = t, !.copy = c] \in Finishing
  BY DEF Finishing
<1>4. [F EXCEPT ![g].step = s] = [F EXCEPT ![g] = [F[g] EXCEPT !.step = s]]
  OBVIOUS
<1>5. [F EXCEPT ![g].step = s, ![g].attempt = @ + 1, ![g].copy = Nobody] =
        [F EXCEPT ![g] = [F[g] EXCEPT !.step = s, !.attempt = F[g].attempt + 1, !.copy = Nobody]]
  BY DEF Finishing
<1>6. [F EXCEPT ![g].step = s, ![g].stamp = t, ![g].copy = c] =
        [F EXCEPT ![g] = [F[g] EXCEPT !.step = s, !.stamp = t, !.copy = c]]
  BY DEF Finishing
<1> QED BY <1>1, <1>2, <1>3, <1>4, <1>5, <1>6

(* The records grow at the end, by games that were not on record; accounts only
   leave; marks and stamps stay. *)
Grows ==
  /\ written' \in Seq(GameRecord) /\ Recorded \subseteq Recorded'
  /\ Len(written) <= Len(written') /\ \A i \in 1..Len(written) : written'[i] = written[i]
  /\ \A i \in 1..Len(written') : i > Len(written) => written'[i].game \notin Recorded
  /\ \A p \in Players : HasAccount(p)' => HasAccount(p)
  /\ now <= now' /\ failedList \subseteq failedList'

LEMMA SameGrows ==
  ASSUME RecordsType, UNCHANGED written, \A p \in Players : acct'[p] # Nobody => acct[p] # Nobody,
         now' >= now, failedList \subseteq failedList'
  PROVE  Grows
<1>1. written \in Seq(GameRecord) /\ now \in Nat
  BY DEF RecordsType
<1> QED BY <1>1 DEF Grows, Recorded, HasAccount

(* Another finalisation is left as it was. *)
LEMMA OthersFit ==
  ASSUME RecordsAssumption, RecordsType, RecordsType', Grows, NEW g \in Games, fin'[g] = fin[g], fin[g] # Nobody,
         FinishFits(g), g \in metrics => g \in metrics'
  PROVE  FinishFits(g)'
<1>1. PlayersOf[g] \subseteq Players
  BY DEF RecordsAssumption
<1>2. \A p \in PlayersOf[g] : HasAccount(p)' => HasAccount(p)
  BY <1>1 DEF Grows
<1>3. g \in Recorded => g \in Recorded'
  BY DEF Grows
<1>4. now \in Nat /\ now' \in Nat /\ now <= now' /\ fin[g] \in Finishing /\ written \in Seq(GameRecord)
  BY DEF RecordsType, Grows
<1>5. ASSUME fin[g].step = "write", NEW p \in DOMAIN fin[g].copy PROVE CopyFits(fin[g], p)'
  <2>1. CopyFits(fin[g], p)
    BY <1>5 DEF FinishFits
  <2>2. ToSet(fin[g].copy[p]) \subseteq Recorded'
    BY <2>1 DEF CopyFits, Grows
  <2>3. ASSUME NEW i \in 1..Len(written'), written'[i].game \in ToSet(fin[g].copy[p])
        PROVE  written'[i].stamp < fin[g].stamp
    <3>1. i \in 1..Len(written) /\ written'[i] = written[i]
      <4>1. written'[i].game \in Recorded
        BY <2>1, <2>3 DEF CopyFits
      <4>2. ~(i > Len(written))
        BY <4>1 DEF Grows
      <4>3. i \in 1..Len(written)
        BY <1>4, <4>2 DEF Grows
      <4> QED BY <4>3 DEF Grows
    <3> QED BY <2>1, <2>3, <3>1 DEF CopyFits
  <2> QED BY <2>2, <2>3 DEF CopyFits
<1>6. fin[g].stamp \in Nat
  BY <1>4, FinishingShape
<1>7. fin[g].step = "write" => fin[g].stamp <= now'
  BY <1>4, <1>6 DEF FinishFits
<1> QED BY <1>2, <1>3, <1>5, <1>7 DEF FinishFits, Grows

(* As long as nothing is recorded, what the rows and accounts say stays true. *)
LEMMA RowsKept ==
  ASSUME RecordsType, RowsFit, StandingsFit, InOrder, UNCHANGED <<written, stale, acct>>, now' \in Nat, now' >= now
  PROVE  RowsFit' /\ StandingsFit' /\ InOrder'
<1>1. RowsFit'
  <2>1. \A i \in 1..Len(written) : written[i].stamp <= now'
    <3> TAKE i \in 1..Len(written)
    <3>1. written[i] \in GameRecord
      BY DEF RecordsType
    <3>2. written[i].stamp \in Nat /\ now \in Nat
      BY <3>1 DEF GameRecord, RecordsType
    <3> QED BY <3>2 DEF RowsFit
  <2> QED BY <2>1 DEF RowsFit, HasAccount
<1>2. StandingsFit'
  BY DEF StandingsFit, HasAccount, RatedGames, Recorded, Rated, LastRow, RowsOf
<1>3. InOrder'
  BY DEF InOrder, Rated, RowsOf
<1> QED BY <1>1, <1>2, <1>3

(* What a page or the highlights said of the first records stays said of them. *)
LEMMA ListKept ==
  ASSUME RecordsType, Grows, NoLossHonest, PagesFit, UNCHANGED cache
  PROVE  NoLossHonest' /\ (cache' # Nobody => cache'.base <= Len(written'))
<1> SUFFICES ASSUME cache # Nobody PROVE NoLossHonest' /\ cache.base <= Len(written')
  BY DEF NoLossHonest
<1>0. cache \in NoLossList
  BY DEF RecordsType
<1>1. cache.base \in 0..Len(written) /\ cache.base \in 0..Len(written') /\ written \in Seq(GameRecord)
      /\ written' \in Seq(GameRecord)
  BY <1>0 DEF PagesFit, NoLossList, RecordsType, Grows
<1>2. ASSUME NEW p PROVE Lost(p, SubSeq(written', 1, cache.base)) = Lost(p, SubSeq(written, 1, cache.base))
  <2>1. Lost(p, SubSeq(written, 1, cache.base)) = {i \in Lost(p, written) : i <= cache.base}
    BY <1>1, UpToRecord
  <2>2. Lost(p, SubSeq(written', 1, cache.base)) = {i \in Lost(p, written') : i <= cache.base}
    BY <1>1, UpToRecord
  <2>3. {i \in Lost(p, written) : i <= cache.base} = {i \in Lost(p, written') : i <= cache.base}
    <3>1. \A i \in 1..Len(written') : i <= cache.base => i \in 1..Len(written)
      BY <1>1
    <3>2. \A i \in 1..Len(written) : i \in 1..Len(written')
      BY <1>1 DEF Grows
    <3> QED BY <3>1, <3>2 DEF Lost, Grows
  <2> QED BY <2>1, <2>2, <2>3
<1>3. NoLossHonest'
  BY <1>2 DEF NoLossHonest
<1> QED BY <1>1, <1>3

LEMMA PageKept ==
  ASSUME RecordsType, Grows, NoLossHonest, PagesFit, UNCHANGED <<reading, cache>>
  PROVE  NoLossHonest' /\ PagesFit'
<1>1. NoLossHonest' /\ (cache' # Nobody => cache'.base <= Len(written'))
  BY ListKept
<1>2. ASSUME reading # Nobody
      PROVE  reading.base <= Len(written') /\ \A q \in DOMAIN reading.saw : reading.saw[q] \in reading.base..Len(written')
  <2>1. reading.base \in Nat /\ Len(written) \in Nat /\ Len(written') \in Nat /\ Len(written) <= Len(written')
    BY <1>2 DEF RecordsType, Page, Grows
  <2> QED BY <1>2, <2>1 DEF PagesFit
<1> QED BY <1>1, <1>2 DEF PagesFit

LEMMA EndKeeps ==
  ASSUME RecordsAssumption, RecordsInv, NEW g \in Games, NEW loser \in PlayersOf[g] \cup {Nobody},
         NEW finished \in SetToSeqs(PlayersOf[g] \ {loser}), GameEnds(g, finished, loser)
  PROVE  RecordsInv'
<1> DEFINE f == [step |-> "read", attempt |-> 1, finished |-> finished, loser |-> loser, copy |-> Nobody, stamp |-> 0]
<1> USE DEF RecordsInv
<1>1. f \in Finishing /\ f.step = "read" /\ f.loser = loser /\ f.finished = finished
  BY DEF Finishing, RecordsAssumption
<1>2. fin' = [fin EXCEPT ![g] = f]
  BY DEF GameEnds
<1> HIDE DEF f
<1>3. RecordsType'
  BY <1>1, <1>2 DEF RecordsType, GameEnds
<1>4. Grows /\ now' \in Nat /\ now' >= now /\ UNCHANGED <<written, stale, acct, reading, cache>>
  BY SameGrows DEF GameEnds, RecordsType
<1>5. FinishesFit'
  <2> SUFFICES ASSUME NEW h \in Games, fin'[h] # Nobody PROVE FinishFits(h)'
    BY DEF FinishesFit
  <2>1. CASE h = g
    <3>1. fin'[g] = f /\ g \in metrics'
      BY <1>2 DEF GameEnds, RecordsType
    <3> QED BY <1>1, <2>1, <3>1 DEF FinishFits
  <2>2. CASE h # g
    <3>1. fin'[h] = fin[h] /\ FinishFits(h) /\ (h \in metrics => h \in metrics')
      BY <1>2, <2>2 DEF FinishesFit, RecordsType, GameEnds
    <3> QED BY <1>3, <1>4, <2>2, <3>1, OthersFit
  <2> QED BY <2>1, <2>2
<1> QED BY <1>3, <1>4, <1>5, RowsKept, PageKept

LEMMA ReadKeeps ==
  ASSUME RecordsAssumption, RecordsInv, NEW g \in Games, FinalizeReads(g)
  PROVE  RecordsInv'
<1> USE DEF RecordsInv
<1> DEFINE ratable == {p \in PlayersOf[g] : HasAccount(p)}
           c == [p \in ratable |-> acct[p].rating]
<1>1. /\ fin[g] # Nobody /\ fin[g].step = "read" /\ UNCHANGED <<acct, written, metrics, failedList, reading, cache, stale>>
      /\ \/ ratable = {} /\ fin' = [fin EXCEPT ![g].step = "done"] /\ now' = now
         \/ now' = now + 1 /\ fin' = [fin EXCEPT ![g].step = "write", ![g].stamp = now + 1, ![g].copy = c]
  BY DEF FinalizeReads
<1>2. fin[g] \in Finishing /\ FinishFits(g) /\ g \in metrics /\ now \in Nat /\ fin \in [Games -> Finishing \cup {Nobody}]
  BY <1>1 DEF FinishesFit, FinishFits, RecordsType
<1>3. ratable \subseteq Players /\ ratable \subseteq PlayersOf[g] /\ \A p \in ratable : acct[p] \in Standing
  BY DEF RecordsAssumption, RecordsType, HasAccount
<1>4. c \in [ratable -> Seq(Games)]
  BY <1>3 DEF Standing
<1>5. c \in RatingCopies
  BY <1>3, <1>4 DEF RatingCopies
<1>6. DOMAIN c = ratable /\ \A p \in ratable : c[p] = acct[p].rating
  OBVIOUS
<1>7. \A p \in PlayersOf[g] : HasAccount(p) => p \in ratable
  OBVIOUS
<1>8. ratable = {} => \A p \in PlayersOf[g] : ~HasAccount(p)
  BY <1>7
<1>9. \A p \in ratable : p \in Players /\ HasAccount(p)
  BY <1>3
<1> HIDE DEF ratable, c
<1>10. PICK s \in {"write", "done"}, t \in Nat, d \in RatingCopies \cup {Nobody} :
         /\ fin' = [fin EXCEPT ![g] = [fin[g] EXCEPT !.step = s, !.stamp = t, !.copy = d]]
         /\ now' \in Nat /\ now' >= now
         /\ \/ s = "done" /\ ratable = {}
            \/ s = "write" /\ t = now + 1 /\ now' = now + 1 /\ d = c
  <2>1. CASE ratable = {} /\ fin' = [fin EXCEPT ![g].step = "done"] /\ now' = now
    <3>1. fin[g] = [fin[g] EXCEPT !.stamp = fin[g].stamp, !.copy = fin[g].copy]
      BY <1>2 DEF Finishing
    <3>2. [fin[g] EXCEPT !.step = "done"] = [fin[g] EXCEPT !.step = "done", !.stamp = fin[g].stamp, !.copy = fin[g].copy]
      BY <1>2 DEF Finishing
    <3> fin[g].stamp \in Nat /\ fin[g].copy \in RatingCopies \cup {Nobody}
      BY <1>2, FinishingShape
    <3>4. fin' = [fin EXCEPT ![g] = [fin[g] EXCEPT !.step = "done"]]
      BY <1>2, <2>1
    <3>5. fin' = [fin EXCEPT ![g] = [fin[g] EXCEPT !.step = "done", !.stamp = fin[g].stamp, !.copy = fin[g].copy]]
      BY <3>2, <3>4
    <3>6. /\ now' \in Nat /\ now' >= now /\ ratable = {}
      BY <1>2, <2>1
    <3> WITNESS "done" \in {"write", "done"}, fin[g].stamp \in Nat, fin[g].copy \in RatingCopies \cup {Nobody}
    <3> QED BY <3>5, <3>6
  <2>2. CASE now' = now + 1 /\ fin' = [fin EXCEPT ![g].step = "write", ![g].stamp = now + 1, ![g].copy = c]
    <3>1. fin' = [fin EXCEPT ![g] = [fin[g] EXCEPT !.step = "write", !.stamp = now + 1, !.copy = c]]
      BY <1>2, <2>2
    <3>2. now' \in Nat /\ now' >= now /\ now' = now + 1
      BY <1>2, <2>2
    <3> now + 1 \in Nat /\ c \in RatingCopies \cup {Nobody}
      BY <1>2, <1>5
    <3> WITNESS "write" \in {"write", "done"}, now + 1 \in Nat, c \in RatingCopies \cup {Nobody}
    <3> QED BY <3>1, <3>2
  <2> QED BY <1>1, <2>1, <2>2
<1> DEFINE f == [fin[g] EXCEPT !.step = s, !.stamp = t, !.copy = d]
<1>11. /\ f \in Finishing /\ f.step = s /\ f.stamp = t /\ f.copy = d /\ f.loser = fin[g].loser
       /\ f.finished = fin[g].finished
  BY <1>2, <1>10 DEF Finishing
<1>12. fin' = [fin EXCEPT ![g] = f]
  BY <1>10
<1> HIDE DEF f
<1>13. RecordsType'
  BY <1>1, <1>10, <1>11, <1>12 DEF RecordsType
<1>14. Grows
  BY <1>1, <1>10, SameGrows
<1>15. FinishesFit'
  <2> SUFFICES ASSUME NEW h \in Games, fin'[h] # Nobody PROVE FinishFits(h)'
    BY DEF FinishesFit
  <2>1. CASE h = g
    <3>1. fin'[g] = f /\ g \in metrics'
      BY <1>1, <1>2, <1>12 DEF RecordsType
    <3>2. CASE s = "done"
      <4>1. \A p \in PlayersOf[g] : ~HasAccount(p)'
        BY <1>1, <1>8, <1>10, <3>2 DEF HasAccount
      <4> QED BY <1>2, <1>11, <2>1, <3>1, <3>2, <4>1 DEF FinishFits
    <3>3. CASE s = "write"
      <4>1. s = "write" /\ t = now + 1 /\ now' = now + 1 /\ d = c
        BY <1>10, <3>3
      <4>2. ASSUME NEW p \in ratable PROVE CopyFits(fin[g], p)'
        <5>1. fin'[g].copy[p] = acct[p].rating /\ ToSet(acct[p].rating) \subseteq Recorded
          BY <1>6, <1>9, <1>11, <3>1, <4>1, <4>2 DEF StandingsFit
        <5>2. \A i \in 1..Len(written) : written[i].stamp < t
          <6> TAKE i \in 1..Len(written)
          <6>1. written[i] \in GameRecord
            BY DEF RecordsType
          <6>2. written[i].stamp \in Nat /\ written[i].stamp <= now
            BY <6>1 DEF GameRecord, RowsFit
          <6> QED BY <1>2, <4>1, <6>2
        <5> QED BY <1>1, <1>11, <3>1, <5>1, <5>2 DEF CopyFits, Recorded
      <4>3. \A p \in DOMAIN fin'[g].copy : CopyFits(fin[g], p)'
        BY <1>6, <1>11, <3>1, <4>1, <4>2
      <4>4. fin'[g].copy \in RatingCopies /\ DOMAIN fin'[g].copy \subseteq PlayersOf[g] /\ fin'[g].stamp <= now'
        BY <1>2, <3>1, <1>3, <1>5, <1>6, <1>11, <4>1
      <4>5. \A p \in PlayersOf[g] : HasAccount(p)' => p \in DOMAIN fin'[g].copy
        BY <1>1, <3>1, <1>6, <1>7, <1>11, <4>1 DEF HasAccount
      <4> QED BY <1>2, <1>11, <2>1, <3>1, <4>1, <4>3, <4>4, <4>5 DEF FinishFits
    <3> QED BY <1>10, <3>2, <3>3
  <2>2. CASE h # g
    <3>1. fin'[h] = fin[h] /\ FinishFits(h) /\ (h \in metrics => h \in metrics')
      BY <1>1, <1>2, <1>12, <2>2 DEF FinishesFit, RecordsType
    <3> QED BY <1>13, <1>14, <2>2, <3>1, OthersFit
  <2> QED BY <2>1, <2>2
<1> QED BY <1>1, <1>10, <1>13, <1>14, <1>15, RowsKept, PageKept

(* What an attempt to write leaves behind: done but for the counters, another
   attempt, or the list of failures. *)
LEMMA AttemptEnds ==
  ASSUME RecordsAssumption, RecordsInv, NEW g \in Games, fin[g] # Nobody, Succeeds(g) \/ Fails(g)
  PROVE  \E f \in Finishing :
           /\ fin' = [fin EXCEPT ![g] = f] /\ f.loser = fin[g].loser /\ f.finished = fin[g].finished
           /\ (f.step = "clean" /\ Succeeds(g)) \/ f.step = "read" \/ (f.step = "failed" /\ g \in failedList')
           /\ failedList \subseteq failedList' /\ failedList' \subseteq Games
<1>1. fin[g] \in Finishing /\ failedList \subseteq Games /\ fin \in [Games -> Finishing \cup {Nobody}]
  BY DEF RecordsInv, RecordsType
<1>2. CASE Succeeds(g)
  <2> DEFINE f == [fin[g] EXCEPT !.step = "clean"]
  <2>1. f \in Finishing /\ f.loser = fin[g].loser /\ f.finished = fin[g].finished /\ f.step = "clean"
    BY <1>1 DEF Finishing
  <2>2. fin' = [fin EXCEPT ![g] = f] /\ failedList' = failedList
    BY <1>1, <1>2 DEF Succeeds
  <2> HIDE DEF f
  <2> QED BY <1>1, <1>2, <2>1, <2>2
<1>3. CASE Fails(g) /\ fin[g].attempt < MaxAttempts
  <2> DEFINE f == [fin[g] EXCEPT !.step = "read", !.attempt = fin[g].attempt + 1, !.copy = Nobody]
  <2>1. fin[g].attempt + 1 \in Nat
    BY <1>1, FinishingShape
  <2>2. f \in Finishing /\ f.loser = fin[g].loser /\ f.finished = fin[g].finished /\ f.step = "read"
    BY <1>1, <2>1 DEF Finishing
  <2>3. fin' = [fin EXCEPT ![g].step = "read", ![g].attempt = @ + 1, ![g].copy = Nobody] /\ failedList' = failedList
    BY <1>3 DEF Fails
  <2>4. fin' = [fin EXCEPT ![g] = f]
    BY <1>1, <2>3 DEF Finishing
  <2> HIDE DEF f
  <2> QED BY <1>1, <2>2, <2>3, <2>4
<1>4. CASE Fails(g) /\ ~(fin[g].attempt < MaxAttempts)
  <2> DEFINE f == [fin[g] EXCEPT !.step = "failed"]
  <2>1. f \in Finishing /\ f.loser = fin[g].loser /\ f.finished = fin[g].finished /\ f.step = "failed"
    BY <1>1 DEF Finishing
  <2>2. fin' = [fin EXCEPT ![g] = f] /\ failedList' = failedList \cup {g}
    BY <1>1, <1>4 DEF Fails
  <2> HIDE DEF f
  <2> QED BY <1>1, <2>1, <2>2
<1> QED BY <1>2, <1>3, <1>4

(* The transaction of a game that is not on record yet. *)
LEMMA CommitKeeps ==
  ASSUME RecordsAssumption, RecordsInv, NEW g \in Games, fin[g] # Nobody, fin[g].step = "write", g \notin Recorded,
         ~Refused(g), Commits(g), now' = now, failedList \subseteq failedList'
  PROVE  /\ acct' \in [Players -> Standing \cup {Nobody}] /\ written' \in Seq(GameRecord) /\ stale' \subseteq Players
         /\ Grows /\ g \in Recorded' /\ RowsFit' /\ StandingsFit' /\ InOrder'
<1> DEFINE r == Record(g)
           c == fin[g].copy
           S == DOMAIN c
           lone == ~(Cardinality(S) >= 2)
<1> USE DEF RecordsInv
<1>0. PICK n : n = Len(written)
  OBVIOUS
<1>1. /\ written' = Append(written, r)
      /\ acct' = [p \in Players |-> IF p \in DOMAIN r.rows
                    THEN [rating |-> r.rows[p].after, played |-> acct[p].played + 1] ELSE acct[p]]
      /\ stale' = stale \cup {p \in DOMAIN r.rows : acct[p].rating # r.rows[p].before}
  BY DEF Commits
<1>2. /\ r \in GameRecord /\ r.game = g /\ r.stamp = fin[g].stamp /\ r.metrics = (g \in metrics) /\ DOMAIN r.rows = S
      /\ \A p \in S : /\ r.rows[p].before = c[p] /\ r.rows[p].after \in Seq(Games)
                      /\ r.rows[p].after = IF lone THEN c[p] ELSE Append(c[p], g)
  BY RecordShape
<1>3. /\ FinishFits(g) /\ c \in RatingCopies /\ S \subseteq PlayersOf[g] /\ g \in metrics /\ fin[g].stamp <= now
      /\ \A p \in PlayersOf[g] : HasAccount(p) => p \in S
      /\ \A p \in S : CopyFits(fin[g], p)
  BY DEF FinishesFit, FinishFits
<1>4. \A p \in S : p \in Players /\ HasAccount(p) /\ c[p] \in Seq(Games)
  BY <1>3 DEF Refused, RatingCopies
<1>5. /\ written \in Seq(GameRecord) /\ n \in Nat /\ fin[g].stamp \in Nat /\ now \in Nat
      /\ acct \in [Players -> Standing \cup {Nobody}] /\ stale \subseteq Players
  BY <1>0, FinishingShape DEF RecordsType
<1>6. \A p \in Players : HasAccount(p) => acct[p] \in Standing /\ acct[p].played \in Nat /\ acct[p].rating \in Seq(Games)
  BY <1>5 DEF HasAccount, Standing
<1> HIDE DEF r, c, S, lone
<1>7. written' \in Seq(GameRecord)
  BY <1>1, <1>2, <1>5
<1>8. /\ Len(written') = n + 1 /\ (\A i \in 1..n : written'[i] = written[i]) /\ written'[n + 1] = r
      /\ 1..Len(written') = 1..n \cup {n + 1}
  BY <1>0, <1>1, <1>5, OneRecordMore
<1>9. ASSUME NEW p PROVE RowsOf(p, written') = RowsOf(p, written) \cup (IF p \in S THEN {n + 1} ELSE {})
  BY <1>0, <1>1, <1>2, <1>5, OneRecordMore
<1>10. stale' \subseteq Players
  BY <1>1, <1>2, <1>4, <1>5
<1>11. \A p \in S : acct'[p] = [rating |-> r.rows[p].after, played |-> acct[p].played + 1]
  BY <1>1, <1>2, <1>4
<1>12. \A p \in S : acct'[p] \in Standing /\ acct'[p].rating = r.rows[p].after /\ acct'[p].played = acct[p].played + 1
  <2> TAKE p \in S
  <2>1. r.rows[p].after \in Seq(Games) /\ acct[p].played + 1 \in Nat
    BY <1>2, <1>4, <1>6
  <2> DEFINE s == [rating |-> r.rows[p].after, played |-> acct[p].played + 1]
  <2>2. s \in Standing /\ s.rating = r.rows[p].after /\ s.played = acct[p].played + 1
    BY <2>1 DEF Standing
  <2>3. acct'[p] = s
    BY <1>11
  <2> HIDE DEF s
  <2> QED BY <2>2, <2>3
<1>13. \A p \in Players : p \notin S => acct'[p] = acct[p]
  BY <1>1, <1>2
<1>14. acct' \in [Players -> Standing \cup {Nobody}]
  <2>1. acct' = [p \in Players |-> acct'[p]]
    BY <1>1
  <2>2. \A p \in Players : acct'[p] \in Standing \cup {Nobody}
    BY <1>5, <1>12, <1>13
  <2> QED BY <2>1, <2>2
<1>15. \A p \in Players : HasAccount(p)' <=> HasAccount(p)
  BY <1>4, <1>12, <1>13, RecordsAssumption DEF HasAccount, RecordsAssumption
<1>16. Recorded' = Recorded \cup {g}
  <2>1. Recorded = {written[i].game : i \in 1..n}
    BY <1>0 DEF Recorded
  <2>2. Recorded' = {written'[i].game : i \in 1..n \cup {n + 1}}
    BY <1>8 DEF Recorded
  <2> QED BY <1>2, <1>8, <2>1, <2>2
<1>17. Grows
  <2>1. \A i \in 1..Len(written') : i > Len(written) => written'[i].game \notin Recorded
    <3>1. \A i \in 1..n \cup {n + 1} : i > n => i = n + 1
      BY <1>5
    <3> QED BY <1>0, <1>2, <1>8, <3>1
  <2> QED BY <1>0, <1>5, <1>7, <1>8, <1>15, <1>16, <2>1 DEF Grows
<1>18. RowsFit'
  <2>1. \A i, j \in 1..Len(written') : written'[i].game = written'[j].game => i = j
    <3>1. \A i \in 1..n : written[i].game # g
      BY <1>0 DEF Recorded
    <3> QED BY <1>0, <1>2, <1>8, <3>1 DEF RowsFit
  <2>2. ASSUME NEW i \in 1..Len(written')
        PROVE  /\ written'[i].metrics /\ written'[i].stamp <= now'
               /\ DOMAIN written'[i].rows \subseteq PlayersOf[written'[i].game]
               /\ \A p \in DOMAIN written'[i].rows : HasAccount(p)'
               /\ \A p \in PlayersOf[written'[i].game] : HasAccount(p)' => p \in DOMAIN written'[i].rows
    <3>1. CASE i \in 1..n
      <4>1. written'[i] = written[i] /\ written[i] \in GameRecord /\ i \in 1..Len(written)
        BY <1>0, <1>5, <1>8, <3>1
      <4>2. PlayersOf[written[i].game] \subseteq Players
        BY <4>1, RecordsAssumption DEF GameRecord, RecordsAssumption
      <4> QED BY <1>15, <4>1, <4>2 DEF RowsFit
    <3>2. CASE i = n + 1
      <4>1. PlayersOf[g] \subseteq Players
        BY RecordsAssumption DEF RecordsAssumption
      <4> QED BY <1>2, <1>3, <1>4, <1>8, <1>15, <3>2, <4>1
    <3> QED BY <1>8, <2>2, <3>1, <3>2
  <2> QED BY <2>1, <2>2 DEF RowsFit
<1>19. \A i \in 1..n : Rated(i)' = Rated(i)
  BY <1>8 DEF Rated
<1>20. Rated(n + 1)' = ~lone
  BY <1>2, <1>8 DEF Rated, lone
<1>21. ASSUME NEW p \in Players, p \notin S PROVE RowsOf(p, written') = RowsOf(p, written) /\ RatedGames(p)' = RatedGames(p)
  <2>1. RowsOf(p, written') = RowsOf(p, written) /\ RowsOf(p, written) \subseteq 1..n
    BY <1>0, <1>9, <1>21 DEF RowsOf
  <2> QED BY <1>8, <1>19, <2>1 DEF RatedGames
<1>22. ASSUME NEW p \in S PROVE RatedGames(p)' = RatedGames(p) \cup (IF lone THEN {} ELSE {g})
  <2>1. RowsOf(p, written') = RowsOf(p, written) \cup {n + 1} /\ RowsOf(p, written) \subseteq 1..n
    BY <1>0, <1>9, <1>22 DEF RowsOf
  <2>2. {k \in RowsOf(p, written') : Rated(k)'} =
          {k \in RowsOf(p, written) : Rated(k)} \cup (IF lone THEN {} ELSE {n + 1})
    <3>1. \A k \in RowsOf(p, written) : Rated(k)' = Rated(k)
      BY <1>19, <2>1
    <3> QED BY <1>20, <2>1, <3>1
  <2>3. RatedGames(p)' = {written'[i].game : i \in {k \in RowsOf(p, written') : Rated(k)'}}
    BY DEF RatedGames
  <2> QED BY <1>2, <1>8, <2>1, <2>2, <2>3 DEF RatedGames
<1>23. ASSUME NEW p \in S, p \notin stale'
       PROVE  p \notin stale /\ c[p] = acct[p].rating /\ ToSet(c[p]) = RatedGames(p)
  <2>1. p \notin stale /\ c[p] = acct[p].rating
    BY <1>1, <1>2, <1>23
  <2> QED BY <1>4, <2>1 DEF StandingsFit
<1>24. ASSUME NEW p \in S PROVE ToSet(r.rows[p].after) = ToSet(c[p]) \cup (IF lone THEN {} ELSE {g})
  <2>1. c[p] \in Seq(Games)
    BY <1>4
  <2>2. ASSUME NEW s \in Seq(Games) PROVE ToSet(Append(s, g)) = ToSet(s) \cup {g}
    <3>1. /\ DOMAIN s = 1..Len(s) /\ DOMAIN Append(s, g) = 1..Len(s) \cup {Len(s) + 1}
          /\ \A i \in 1..Len(s) : Append(s, g)[i] = s[i]
          /\ Append(s, g)[Len(s) + 1] = g
      OBVIOUS
    <3> HIDE DEF Append
    <3> QED BY <3>1 DEF ToSet
  <2> QED BY <1>2, <2>1, <2>2
<1>25. StandingsFit'
  <2> SUFFICES ASSUME NEW p \in Players, HasAccount(p)'
               PROVE  /\ acct'[p].played = Cardinality(RowsOf(p, written'))
                      /\ RowsOf(p, written') # {} => acct'[p].rating = LastRow(p, written').after
                      /\ ToSet(acct'[p].rating) \subseteq Recorded'
                      /\ p \in stale' \/ ToSet(acct'[p].rating) = RatedGames(p)'
    BY DEF StandingsFit
  <2>0. HasAccount(p)
    BY <1>15
  <2>1. CASE p \notin S
    <3>1. acct'[p] = acct[p] /\ RowsOf(p, written') = RowsOf(p, written) /\ RatedGames(p)' = RatedGames(p)
      BY <1>13, <1>21, <2>1
    <3>2. RowsOf(p, written) # {} => LastRow(p, written').after = LastRow(p, written).after
      <4> SUFFICES ASSUME RowsOf(p, written) # {} PROVE LastRow(p, written').after = LastRow(p, written).after
        OBVIOUS
      <4>1. Max(RowsOf(p, written)) \in 1..n
        BY <1>0, <1>5, RowsFinite
      <4> QED BY <1>8, <3>1, <4>1 DEF LastRow
    <3> QED BY <1>1, <1>16, <2>0, <3>1, <3>2 DEF StandingsFit
  <2>2. CASE p \in S
    <3>1. acct'[p].played = Cardinality(RowsOf(p, written'))
      <4>1. RowsOf(p, written) \subseteq 1..n /\ IsFiniteSet(RowsOf(p, written))
        BY <1>0, <1>5, RowsFinite
      <4>2. n + 1 \notin RowsOf(p, written)
        BY <1>5, <4>1
      <4>3. Cardinality(RowsOf(p, written) \cup {n + 1}) = Cardinality(RowsOf(p, written)) + 1
        BY <4>1, <4>2, FS_AddElement
      <4> QED BY <1>9, <1>12, <2>0, <2>2, <4>3 DEF StandingsFit
    <3>2. acct'[p].rating = LastRow(p, written').after
      <4>1. n + 1 \in RowsOf(p, written') /\ \A i \in RowsOf(p, written') : i <= n + 1
        BY <1>0, <1>5, <1>8, <1>9, <2>2 DEF RowsOf
      <4>2. Max(RowsOf(p, written')) \in RowsOf(p, written') /\ \A i \in RowsOf(p, written') : i <= Max(RowsOf(p, written'))
        BY <1>7, <4>1, RowsFinite
      <4>3. Max(RowsOf(p, written')) \in Int
        BY <4>2 DEF RowsOf
      <4>4. Max(RowsOf(p, written')) = n + 1
        BY <1>5, <4>1, <4>2, <4>3
      <4> QED BY <1>8, <1>12, <2>2, <4>4 DEF LastRow
    <3>3. ToSet(acct'[p].rating) \subseteq Recorded'
      BY <1>3, <1>12, <1>16, <1>24, <2>2 DEF CopyFits, c
    <3>4. p \in stale' \/ ToSet(acct'[p].rating) = RatedGames(p)'
      BY <1>12, <1>22, <1>23, <1>24, <2>2
    <3> QED BY <3>1, <3>2, <3>3, <3>4
  <2> QED BY <2>1, <2>2
<1>26. InOrder'
  <2> SUFFICES ASSUME NEW p \in Players, p \notin stale', NEW i \in RowsOf(p, written'), NEW j \in RowsOf(p, written'),
                      i < j, Rated(i)', Rated(j)'
               PROVE  written'[i].stamp < written'[j].stamp
    BY DEF InOrder
  <2>1. p \in Players \ stale
    BY <1>1
  <2>2. RowsOf(p, written) \subseteq 1..n
    BY <1>0 DEF RowsOf
  <2>3. CASE i \in RowsOf(p, written) /\ j \in RowsOf(p, written)
    <3>1. Rated(i) /\ Rated(j) /\ written'[i] = written[i] /\ written'[j] = written[j]
      BY <1>8, <1>19, <2>2, <2>3
    <3> QED BY <2>1, <2>3, <3>1 DEF InOrder
  <2>4. CASE ~(i \in RowsOf(p, written) /\ j \in RowsOf(p, written))
    <3>1. p \in S /\ j = n + 1 /\ i \in RowsOf(p, written)
      BY <1>5, <1>9, <2>2, <2>4
    <3>2. i \in 1..n /\ Rated(i) /\ written'[i] = written[i] /\ written'[j] = r
      BY <1>8, <1>19, <2>2, <3>1
    <3>3. written[i].game \in ToSet(c[p])
      BY <1>23, <3>1, <3>2 DEF RatedGames
    <3>4. written[i].stamp < fin[g].stamp
      BY <1>0, <1>3, <3>1, <3>2, <3>3 DEF CopyFits, c
    <3> QED BY <1>2, <3>2, <3>4
  <2> QED BY <2>3, <2>4
<1> QED BY <1>7, <1>10, <1>14, <1>16, <1>17, <1>18, <1>25, <1>26

LEMMA WriteKeeps ==
  ASSUME RecordsAssumption, RecordsInv, NEW g \in Games, FinalizeWrites(g)
  PROVE  RecordsInv'
<1> USE DEF RecordsInv
<1>1. /\ fin[g] # Nobody /\ fin[g].step = "write" /\ UNCHANGED <<metrics, now, reading, cache>>
      /\ Succeeds(g) \/ Fails(g)
      /\ \/ g \notin Recorded /\ ~Refused(g) /\ Commits(g)
         \/ UNCHANGED <<acct, written, stale>> /\ (Succeeds(g) => g \in Recorded)
  <2>1. fin[g] # Nobody /\ fin[g].step = "write" /\ UNCHANGED <<metrics, now, reading, cache>>
    BY DEF FinalizeWrites
  <2>2. CASE g \in Recorded
    BY <2>1, <2>2 DEF FinalizeWrites
  <2>3. CASE g \notin Recorded
    <3>1. CASE ~Refused(g) /\ Commits(g) /\ Succeeds(g)
      BY <2>1, <2>3, <3>1
    <3>2. CASE ~Refused(g) /\ Commits(g) /\ Fails(g)
      BY <2>1, <2>3, <3>2
    <3>3. CASE Fails(g) /\ UNCHANGED <<acct, written, stale>>
      <4>1. ~Succeeds(g)
        <5> SUFFICES ASSUME Succeeds(g) PROVE FALSE
          OBVIOUS
        <5>1. fin[g] \in Finishing /\ fin \in [Games -> Finishing \cup {Nobody}]
          BY <2>1 DEF RecordsType
        <5>2. fin'[g].step = "clean"
          BY <5>1 DEF Succeeds, Finishing
        <5>3. fin'[g].step \in {"read", "failed"}
          BY <3>3, <5>1 DEF Fails, Finishing
        <5> QED BY <5>2, <5>3
      <4> QED BY <2>1, <3>3, <4>1
    <3> QED BY <2>3, <3>1, <3>2, <3>3 DEF FinalizeWrites
  <2> QED BY <2>2, <2>3
<1>2. PICK f \in Finishing :
        /\ fin' = [fin EXCEPT ![g] = f] /\ f.loser = fin[g].loser /\ f.finished = fin[g].finished
        /\ (f.step = "clean" /\ Succeeds(g)) \/ f.step = "read" \/ (f.step = "failed" /\ g \in failedList')
        /\ failedList \subseteq failedList' /\ failedList' \subseteq Games
  BY <1>1, AttemptEnds
<1>3. now' = now /\ now \in Nat /\ g \in metrics
  BY <1>1 DEF RecordsType, FinishesFit, FinishFits
<1>4. /\ acct' \in [Players -> Standing \cup {Nobody}] /\ written' \in Seq(GameRecord) /\ stale' \subseteq Players
      /\ Grows /\ RowsFit' /\ StandingsFit' /\ InOrder' /\ (Succeeds(g) => g \in Recorded')
  <2>1. CASE g \notin Recorded /\ ~Refused(g) /\ Commits(g)
    BY <1>1, <1>2, <1>3, <2>1, CommitKeeps
  <2>2. CASE UNCHANGED <<acct, written, stale>> /\ (Succeeds(g) => g \in Recorded)
    <3>1. Grows
      BY <1>2, <1>3, <2>2, SameGrows
    <3>2. RowsFit' /\ StandingsFit' /\ InOrder'
      BY <1>3, <2>2, RowsKept
    <3> QED BY <2>2, <3>1, <3>2 DEF RecordsType, Recorded
  <2> QED BY <1>1, <2>1, <2>2
<1>5. RecordsType'
  <2>1. fin' \in [Games -> Finishing \cup {Nobody}]
    BY <1>2 DEF RecordsType
  <2> QED BY <1>1, <1>2, <1>4, <2>1 DEF RecordsType
<1>6. FinishesFit'
  <2> SUFFICES ASSUME NEW h \in Games, fin'[h] # Nobody PROVE FinishFits(h)'
    BY DEF FinishesFit
  <2>1. CASE h = g
    <3>1. fin'[g] = f /\ g \in metrics'
      BY <1>1, <1>2, <1>3 DEF RecordsType
    <3>2. f.loser \in PlayersOf[g] \cup {Nobody} /\ f.finished \in SetToSeqs(PlayersOf[g] \ {f.loser})
      BY <1>1, <1>2 DEF FinishesFit, FinishFits
    <3> QED BY <1>2, <1>4, <2>1, <3>1, <3>2 DEF FinishFits
  <2>2. CASE h # g
    <3>1. fin'[h] = fin[h] /\ FinishFits(h) /\ (h \in metrics => h \in metrics')
      BY <1>1, <1>2, <2>2 DEF FinishesFit, RecordsType
    <3> QED BY <1>4, <1>5, <2>2, <3>1, OthersFit
  <2> QED BY <2>1, <2>2
<1> QED BY <1>1, <1>4, <1>5, <1>6, PageKept

LEMMA CleanKeeps ==
  ASSUME RecordsAssumption, RecordsInv, NEW g \in Games, FinalizeCleans(g)
  PROVE  RecordsInv'
<1> USE DEF RecordsInv
<1> DEFINE f == [fin[g] EXCEPT !.step = "done"]
<1>1. /\ fin[g] # Nobody /\ fin[g].step = "clean" /\ fin' = [fin EXCEPT ![g].step = "done"] /\ metrics' = metrics \ {g}
      /\ UNCHANGED <<acct, written, now, failedList, reading, cache, stale>>
  BY DEF FinalizeCleans
<1>2. fin[g] \in Finishing /\ FinishFits(g) /\ fin \in [Games -> Finishing \cup {Nobody}] /\ now \in Nat
  BY <1>1 DEF RecordsType, FinishesFit
<1>3. f \in Finishing /\ f.step = "done" /\ f.loser = fin[g].loser /\ f.finished = fin[g].finished
  BY <1>2 DEF Finishing
<1>4. fin' = [fin EXCEPT ![g] = f]
  BY <1>1, <1>2
<1> HIDE DEF f
<1>5. RecordsType'
  BY <1>1, <1>3, <1>4 DEF RecordsType
<1>6. Grows
  BY <1>1, <1>2, SameGrows
<1>7. FinishesFit'
  <2> SUFFICES ASSUME NEW h \in Games, fin'[h] # Nobody PROVE FinishFits(h)'
    BY DEF FinishesFit
  <2>1. CASE h = g
    <3>1. fin'[g] = f
      BY <1>2, <1>4
    <3>2. g \in Recorded'
      BY <1>1, <1>2 DEF FinishFits, Recorded
    <3> QED BY <1>2, <1>3, <2>1, <3>1, <3>2 DEF FinishFits
  <2>2. CASE h # g
    <3>1. fin'[h] = fin[h] /\ FinishFits(h) /\ (h \in metrics => h \in metrics')
      BY <1>1, <1>2, <1>4, <2>2 DEF FinishesFit
    <3> QED BY <1>5, <1>6, <2>2, <3>1, OthersFit
  <2> QED BY <2>1, <2>2
<1> QED BY <1>1, <1>2, <1>5, <1>6, <1>7, RowsKept, PageKept

LEMMA AccountKeeps ==
  ASSUME RecordsAssumption, RecordsInv, NEW p \in Players, AccountGoes(p)
  PROVE  RecordsInv'
<1> USE DEF RecordsInv
<1>1. /\ RowsOf(p, written) = {} /\ acct' = [acct EXCEPT ![p] = Nobody]
      /\ UNCHANGED <<written, fin, metrics, now, failedList, reading, cache, stale>>
  BY DEF AccountGoes
<1>2. acct \in [Players -> Standing \cup {Nobody}] /\ now \in Nat /\ written \in Seq(GameRecord)
  BY DEF RecordsType
<1>3. \A q \in Players : acct'[q] = IF q = p THEN Nobody ELSE acct[q]
  BY <1>1, <1>2
<1>4. RecordsType'
  BY <1>1 DEF RecordsType
<1>5. \A q \in Players : HasAccount(q)' <=> HasAccount(q) /\ q # p
  BY <1>3 DEF HasAccount
<1>6. Grows
  BY <1>1, <1>2, <1>3, SameGrows
<1>7. RowsFit'
  <2>1. ASSUME NEW i \in 1..Len(written)
        PROVE  /\ \A q \in DOMAIN written[i].rows : HasAccount(q)'
               /\ \A q \in PlayersOf[written[i].game] : HasAccount(q)' => q \in DOMAIN written[i].rows
    <3>1. written[i] \in GameRecord
      BY <1>2
    <3>2. PlayersOf[written[i].game] \subseteq Players /\ DOMAIN written[i].rows \subseteq Players
      BY <3>1, RecordsAssumption DEF GameRecord, Lines, RecordsAssumption
    <3>3. p \notin DOMAIN written[i].rows
      BY <1>1 DEF RowsOf
    <3> QED BY <1>5, <3>2, <3>3 DEF RowsFit
  <2> QED BY <1>1, <2>1 DEF RowsFit
<1>8. StandingsFit'
  <2>1. ASSUME NEW q PROVE RatedGames(q)' = RatedGames(q)
    BY <1>1 DEF RatedGames, Rated
  <2>2. Recorded' = Recorded /\ stale' = stale
    BY <1>1 DEF Recorded
  <2>3. ASSUME NEW q \in Players, HasAccount(q)'
        PROVE  /\ acct'[q].played = Cardinality(RowsOf(q, written'))
               /\ RowsOf(q, written') # {} => acct'[q].rating = LastRow(q, written').after
               /\ ToSet(acct'[q].rating) \subseteq Recorded
               /\ q \in stale \/ ToSet(acct'[q].rating) = RatedGames(q)
    <3>1. HasAccount(q) /\ acct'[q] = acct[q] /\ written' = written
      BY <1>1, <1>3, <1>5, <2>3
    <3> QED BY <3>1 DEF StandingsFit
  <2> QED BY <2>1, <2>2, <2>3 DEF StandingsFit
<1>9. FinishesFit'
  <2> SUFFICES ASSUME NEW h \in Games, fin'[h] # Nobody PROVE FinishFits(h)'
    BY DEF FinishesFit
  <2>1. fin'[h] = fin[h] /\ FinishFits(h) /\ (h \in metrics => h \in metrics') /\ fin[h] # Nobody
    BY <1>1 DEF FinishesFit
  <2> QED BY <1>4, <1>6, <2>1, OthersFit
<1>10. InOrder'
  BY <1>1 DEF InOrder, RowsOf, Rated
<1> QED BY <1>1, <1>4, <1>6, <1>7, <1>8, <1>9, <1>10, PageKept

(* The pages change nothing but themselves. *)
LEMMA PageMoves ==
  ASSUME RecordsAssumption, RecordsInv, UNCHANGED <<acct, written, fin, metrics, now, failedList, stale>>,
         reading' \in Page \cup {Nobody}, cache' \in NoLossList \cup {Nobody}
  PROVE  /\ RecordsType' /\ RowsFit' /\ StandingsFit' /\ FinishesFit' /\ InOrder'
         /\ NoLossHonest' /\ PagesFit' => RecordsInv'
<1> USE DEF RecordsInv
<1>1. RecordsType'
  BY DEF RecordsType
<1>2. Grows /\ now' \in Nat /\ now' >= now
  BY SameGrows DEF RecordsType
<1>3. FinishesFit'
  <2> SUFFICES ASSUME NEW h \in Games, fin'[h] # Nobody PROVE FinishFits(h)'
    BY DEF FinishesFit
  <2>1. fin'[h] = fin[h] /\ FinishFits(h) /\ (h \in metrics => h \in metrics')
    BY DEF FinishesFit
  <2> QED BY <1>1, <1>2, <2>1, OthersFit
<1> QED BY <1>1, <1>2, <1>3, RowsKept

LEMMA OpenKeeps ==
  ASSUME RecordsAssumption, RecordsInv, NEW what \in {"profile", "highlights"}, NEW who \in Players \cup {Nobody},
         what = "profile" => who \in Players, PageOpens(what, who)
  PROVE  RecordsInv'
<1> USE DEF RecordsInv
<1> DEFINE saw == IF what = "profile" THEN [q \in {"user"} |-> Len(written)] ELSE [q \in {} |-> 0]
           r == [what |-> what, who |-> who, base |-> Len(written), saw |-> saw]
<1>1. reading' = r /\ UNCHANGED <<acct, written, fin, metrics, now, failedList, cache, stale>>
  BY DEF PageOpens
<1>2. Len(written) \in Nat
  BY DEF RecordsType
<1>3. saw \in UNION {[S -> Nat] : S \in SUBSET {"user", "total", "wins", "games", "totals", "losses"}}
      /\ \A q \in DOMAIN saw : saw[q] = Len(written)
  <2>1. CASE what = "profile"
    <3>1. saw \in [{"user"} -> Nat] /\ \A q \in DOMAIN saw : saw[q] = Len(written)
      BY <1>2, <2>1
    <3>2. {"user"} \in SUBSET {"user", "total", "wins", "games", "totals", "losses"}
      OBVIOUS
    <3> HIDE DEF saw
    <3> QED BY <3>1, <3>2
  <2>2. CASE what # "profile"
    <3>1. saw \in [{} -> Nat] /\ \A q \in DOMAIN saw : saw[q] = Len(written)
      BY <2>2
    <3>2. {} \in SUBSET {"user", "total", "wins", "games", "totals", "losses"}
      OBVIOUS
    <3> HIDE DEF saw
    <3> QED BY <3>1, <3>2
  <2> QED BY <2>1, <2>2
<1> HIDE DEF saw
<1>4. r \in Page /\ r.base = Len(written) /\ r.saw = saw /\ r.what = what /\ r.who = who
  BY <1>2, <1>3 DEF Page
<1> HIDE DEF r
<1>5. PagesFit'
  BY <1>1, <1>2, <1>3, <1>4 DEF PagesFit
<1>6. NoLossHonest'
  BY <1>1 DEF NoLossHonest
<1> QED BY <1>1, <1>4, <1>5, <1>6, PageMoves DEF RecordsType

LEMMA QueryKeeps ==
  ASSUME RecordsAssumption, RecordsInv, NEW q \in {"total", "wins", "games", "totals", "losses"}, PageReads(q)
  PROVE  RecordsInv'
<1> USE DEF RecordsInv
<1>0. PICK r \in Page : r = reading
  BY DEF PageReads, RecordsType
<1> DEFINE D == DOMAIN r.saw \cup {q}
           saw == [x \in D |-> IF x = q THEN Len(written) ELSE r.saw[x]]
           s == [r EXCEPT !.saw = saw]
<1>1. reading' = s /\ UNCHANGED <<acct, written, fin, metrics, now, failedList, cache, stale>>
  BY <1>0 DEF PageReads
<1>2. Len(written) \in Nat /\ r.base \in Nat /\ r.base <= Len(written) /\ (r.what = "profile" => r.who \in Players)
      /\ \A x \in DOMAIN r.saw : r.saw[x] \in r.base..Len(written)
  BY <1>0, RecordsAssumption DEF RecordsType, PagesFit, Page, RecordsAssumption
<1>3. D \in SUBSET {"user", "total", "wins", "games", "totals", "losses"}
  <2>0. r.saw \in UNION {[S -> Nat] : S \in SUBSET {"user", "total", "wins", "games", "totals", "losses"}}
    BY <1>0 DEF Page
  <2>1. PICK S \in SUBSET {"user", "total", "wins", "games", "totals", "losses"} : r.saw \in [S -> Nat]
    BY <2>0
  <2>2. DOMAIN r.saw = S
    BY <2>1
  <2> QED BY <2>2
<1>4. \A x \in D : saw[x] \in r.base..Len(written)
  BY <1>2
<1>5. saw \in [D -> Nat] /\ DOMAIN saw = D
  BY <1>2
<1> HIDE DEF D, saw
<1>6. s \in Page /\ s.base = r.base /\ s.saw = saw /\ s.what = r.what /\ s.who = r.who
  BY <1>0, <1>3, <1>5 DEF Page
<1> HIDE DEF s
<1>7. PagesFit'
  BY <1>1, <1>2, <1>4, <1>5, <1>6 DEF PagesFit
<1>8. NoLossHonest'
  BY <1>1 DEF NoLossHonest
<1> QED BY <1>1, <1>6, <1>7, <1>8, PageMoves DEF RecordsType

LEMMA ShowKeeps ==
  ASSUME RecordsAssumption, RecordsInv, PageShows
  PROVE  RecordsInv'
<1> USE DEF RecordsInv
<1>0. PICK r \in Page : r = reading
  BY DEF PageShows, Answered, RecordsType
<1>1. /\ DOMAIN r.saw = Queries(r.what) /\ reading' = Nobody /\ UNCHANGED <<acct, written, fin, metrics, now, failedList, stale>>
      /\ cache' = IF r.what = "highlights" THEN [names |-> topNoLoss, base |-> r.base] ELSE cache
  BY <1>0 DEF PageShows, Answered
<1>2. CASE r.what # "highlights"
  <2>1. PagesFit' /\ NoLossHonest'
    BY <1>1, <1>2 DEF PagesFit, NoLossHonest
  <2> QED BY <1>1, <1>2, <2>1, PageMoves DEF RecordsType
<1>3. CASE r.what = "highlights"
  <2> DEFINE l == [names |-> topNoLoss, base |-> r.base]
  <2>1. /\ r.base \in Nat /\ r.base <= Len(written) /\ written \in Seq(GameRecord) /\ r # Nobody
        /\ r.saw["losses"] \in r.base..Len(written)
    BY <1>0, <1>1, <1>3, RecordsAssumption DEF RecordsType, PagesFit, Page, Queries, RecordsAssumption
  <2>2. l \in NoLossList /\ l.names = topNoLoss /\ l.base = r.base /\ cache' = l
    BY <1>1, <1>3, <2>1 DEF NoLossList, topNoLoss
  <2> HIDE DEF l
  <2>3. ASSUME NEW p \in topNoLoss PROVE Lost(p, SubSeq(written, 1, r.base)) = {}
    <3>1. Lost(p, SubSeq(written, 1, r.saw["losses"])) = {}
      BY <1>0, <2>3 DEF topNoLoss, Seen
    <3>2. r.base \in 0..Len(written) /\ r.saw["losses"] \in 0..Len(written)
      BY <2>1
    <3>3. /\ Lost(p, SubSeq(written, 1, r.base)) = {i \in Lost(p, written) : i <= r.base}
          /\ Lost(p, SubSeq(written, 1, r.saw["losses"])) = {i \in Lost(p, written) : i <= r.saw["losses"]}
      BY <2>1, <3>2, UpToRecord
    <3>4. \A i \in Lost(p, written) : i \in Nat
      BY DEF Lost
    <3>5. \A i \in Lost(p, written) : ~(i <= r.saw["losses"])
      BY <3>1, <3>3
    <3>6. \A i \in Lost(p, written) : ~(i <= r.base)
      BY <2>1, <3>2, <3>4, <3>5
    <3> QED BY <3>3, <3>6
  <2>4. NoLossHonest'
    BY <1>1, <2>2, <2>3 DEF NoLossHonest
  <2>5. PagesFit'
    BY <1>1, <2>1, <2>2 DEF PagesFit
  <2> QED BY <1>1, <2>2, <2>4, <2>5, PageMoves DEF RecordsType
<1> QED BY <1>2, <1>3

LEMMA ExpiryKeeps ==
  ASSUME RecordsAssumption, RecordsInv, CacheExpires
  PROVE  RecordsInv'
<1>1. cache' = Nobody /\ UNCHANGED <<acct, written, fin, metrics, now, failedList, reading, stale>>
  BY DEF CacheExpires
<1>2. PagesFit' /\ NoLossHonest'
  BY <1>1 DEF RecordsInv, PagesFit, NoLossHonest
<1> QED BY <1>1, <1>2, PageMoves DEF RecordsInv, RecordsType

LEMMA RecordsStep ==
  ASSUME RecordsAssumption, RecordsInv, [RecordsNext]_recordVars
  PROVE  RecordsInv'
<1>1. CASE UNCHANGED recordVars
  <2>1. PagesFit' /\ NoLossHonest'
    BY <1>1 DEF recordVars, RecordsInv, PagesFit, NoLossHonest
  <2> QED BY <1>1, <2>1, PageMoves DEF recordVars, RecordsInv, RecordsType
<1>2. ASSUME NEW g \in Games, NEW loser \in PlayersOf[g] \cup {Nobody},
             NEW finished \in SetToSeqs(PlayersOf[g] \ {loser}), GameEnds(g, finished, loser)
      PROVE  RecordsInv'
  BY <1>2, EndKeeps
<1>3. ASSUME NEW g \in Games, FinalizeReads(g) \/ FinalizeWrites(g) \/ FinalizeCleans(g)
      PROVE  RecordsInv'
  BY <1>3, ReadKeeps, WriteKeeps, CleanKeeps
<1>4. ASSUME NEW p \in Players, AccountGoes(p) PROVE RecordsInv'
  BY <1>4, AccountKeeps
<1>5. ASSUME NEW p \in Players, PageOpens("profile", p) PROVE RecordsInv'
  BY <1>5, OpenKeeps
<1>6. CASE PageOpens("highlights", Nobody)
  BY <1>6, OpenKeeps
<1>7. ASSUME NEW q \in {"total", "wins", "games", "totals", "losses"}, PageReads(q) PROVE RecordsInv'
  BY <1>7, QueryKeeps
<1>8. CASE PageShows
  BY <1>8, ShowKeeps
<1>9. CASE CacheExpires
  BY <1>9, ExpiryKeeps
<1> QED BY <1>1, <1>2, <1>3, <1>4, <1>5, <1>6, <1>7, <1>8, <1>9 DEF RecordsNext

LEMMA RecordsStart ==
  ASSUME RecordsAssumption, RecordsInit
  PROVE  RecordsInv
<1> DEFINE a == [rating |-> <<>>, played |-> 0]
<1>1. /\ acct = [p \in Players |-> a] /\ written = <<>> /\ fin = [g \in Games |-> Nobody] /\ metrics = {} /\ now = 0
      /\ failedList = {} /\ reading = Nobody /\ cache = Nobody /\ stale = {}
  BY DEF RecordsInit
<1>2. a \in Standing /\ a.rating = <<>> /\ a.played = 0
  BY DEF Standing
<1> HIDE DEF a
<1>3. RecordsType
  BY <1>1, <1>2 DEF RecordsType
<1>4. Len(written) = 0 /\ \A i : i \notin 1..Len(written)
  BY <1>1
<1>5. \A p : RowsOf(p, written) = {}
  BY <1>4 DEF RowsOf
<1>6. RowsFit /\ InOrder
  BY <1>4, <1>5 DEF RowsFit, InOrder
<1>7. StandingsFit
  <2>1. ToSet(<<>>) = {}
    BY DEF ToSet
  <2>2. ASSUME NEW p \in Players
        PROVE  acct[p].played = 0 /\ Cardinality(RowsOf(p, written)) = 0 /\ ToSet(acct[p].rating) = {} /\ RatedGames(p) = {}
    BY <1>1, <1>2, <1>5, <2>1, FS_EmptySet DEF RatedGames
  <2> QED BY <1>5, <2>2 DEF StandingsFit
<1>8. FinishesFit /\ PagesFit /\ NoLossHonest
  BY <1>1 DEF FinishesFit, PagesFit, NoLossHonest
<1> QED BY <1>3, <1>6, <1>7, <1>8 DEF RecordsInv

LEMMA ProfileAgrees ==
  ASSUME RecordsAssumption, RecordsInv
  PROVE  ProfileCoherent /\ ShareHonest
<1> SUFFICES ASSUME Answered, reading.what = "profile" PROVE ProfileCoherent /\ ShareHonest
  BY DEF ProfileCoherent, ShareHonest
<1>0. PICK r \in Page : r = reading
  BY DEF Answered, RecordsInv, RecordsType
<1>1. /\ r.who \in Players /\ written \in Seq(GameRecord) /\ Len(written) \in Nat
      /\ DOMAIN r.saw = {"user", "total", "wins", "games"}
      /\ r.base \in Nat /\ \A q \in DOMAIN r.saw : r.saw[q] \in r.base..Len(written)
  <2>1. r # Nobody
    BY <1>0 DEF Answered
  <2>2. r.who \in Players /\ \A q \in DOMAIN r.saw : r.saw[q] \in r.base..Len(written)
    BY <1>0, <2>1 DEF RecordsInv, PagesFit
  <2>3. DOMAIN r.saw = {"user", "total", "wins", "games"}
    BY <1>0 DEF Answered, Queries
  <2>4. r.base \in Nat /\ written \in Seq(GameRecord) /\ Len(written) \in Nat
    BY <1>0 DEF Page, RecordsInv, RecordsType
  <2> QED BY <2>2, <2>3, <2>4
<1>2. \A q \in DOMAIN r.saw : r.saw[q] \in 0..Len(written)
  BY <1>1
<1> DEFINE p == r.who
           mine(q) == {i \in RowsOf(p, written) : i <= r.saw[q]}
<1>3. ASSUME NEW q \in DOMAIN r.saw
      PROVE  /\ Seen(q) \in Seq(GameRecord) /\ RowsOf(p, Seen(q)) = mine(q)
             /\ \A i \in mine(q) : Seen(q)[i] = written[i] /\ i \in 1..Len(written)
  <2>1. Seen(q) = SubSeq(written, 1, r.saw[q])
    BY <1>0 DEF Seen
  <2>2. RowsOf(p, SubSeq(written, 1, r.saw[q])) = mine(q) /\ \A i \in 1..r.saw[q] : SubSeq(written, 1, r.saw[q])[i] = written[i]
    BY <1>1, <1>2, UpToRecord
  <2>3. \A i \in mine(q) : i \in 1..r.saw[q] /\ i \in 1..Len(written)
    BY <1>2 DEF RowsOf
  <2>4. SubSeq(written, 1, r.saw[q]) \in Seq(GameRecord)
    BY <1>1, <1>2
  <2> QED BY <2>1, <2>2, <2>3, <2>4
<1>4. ProfileCoherent
  <2> DEFINE M == mine("games")
             s == Seen("games")
  <2> SUFFICES ASSUME M # {}, p \notin stale, \A i \in M : Rated(i) PROVE LastGame(p, s).rows[p].after = LastRow(p, s).after
    <3>1. "games" \in DOMAIN r.saw
      BY <1>1
    <3>2. RowsOf(p, Seen("games")) = mine("games")
      BY <1>3, <3>1
    <3> QED BY <1>0, <3>2 DEF ProfileCoherent
  <2>1. s \in Seq(GameRecord) /\ RowsOf(p, s) = M /\ \A i \in M : s[i] = written[i] /\ i \in 1..Len(written) /\ i \in RowsOf(p, written)
    BY <1>1, <1>3
  <2> HIDE DEF M, s
  <2>2. Max(M) \in M /\ \A i \in M : i <= Max(M)
    BY <2>1, RowsFinite
  <2>3. \A i \in M : i < Max(M) => s[i].stamp < s[Max(M)].stamp
    BY SMTT(15), <1>1, <2>1, <2>2 DEF RecordsInv, InOrder
  <2>4. \A i \in M : s[i].stamp \in Nat /\ i \in Int
    <3> TAKE i \in M
    <3>1. s[i] \in GameRecord
      BY <1>1, <2>1
    <3> QED BY <2>1, <3>1 DEF GameRecord
  <2>5. \A j \in M : s[j].stamp <= s[Max(M)].stamp
    BY <2>2, <2>3, <2>4
  <2> DEFINE l == CHOOSE i \in M : \A j \in M : s[j].stamp <= s[i].stamp
  <2>6. l \in M /\ s[Max(M)].stamp <= s[l].stamp
    BY <2>2, <2>5
  <2> HIDE DEF l
  <2>7. l = Max(M)
    BY <2>2, <2>3, <2>4, <2>6
  <2>8. LastGame(p, s) = s[l]
    BY <2>1 DEF LastGame, l
  <2> QED BY <2>1, <2>7, <2>8 DEF LastRow
<1>5. ShareHonest
  <2> SUFFICES ASSUME r.saw["wins"] <= r.saw["total"]
               PROVE  Cardinality(Won(p, Seen("wins"))) <= Cardinality(RowsOf(p, Seen("total")))
    BY <1>0 DEF ShareHonest
  <2>1. Won(p, Seen("wins")) \subseteq mine("wins") /\ RowsOf(p, Seen("total")) = mine("total") /\ Seen("total") \in Seq(GameRecord)
    BY <1>1, <1>3 DEF Won
  <2>2. mine("wins") \subseteq mine("total")
    <3>1. r.saw["wins"] \in Nat /\ r.saw["total"] \in Nat /\ \A i \in RowsOf(p, written) : i \in Nat
      BY <1>1, <1>2 DEF RowsOf
    <3> QED BY <3>1
  <2>3. IsFiniteSet(RowsOf(p, Seen("total")))
    BY <2>1, RowsFinite
  <2>4. Won(p, Seen("wins")) \in SUBSET RowsOf(p, Seen("total"))
    BY <2>1, <2>2
  <2> QED BY <2>3, <2>4, FS_Subset
<1> QED BY <1>4, <1>5

LEMMA CompositionAgrees ==
  ASSUME RecordsAssumption, RecordsInv
  PROVE  CompositionKept
<1> SUFFICES ASSUME NEW g \in Recorded, NEW h \in Recorded, g # h, PlayersOf[g] = PlayersOf[h],
                    \A p \in PlayersOf[g] : HasAccount(p)
             PROVE  h \in SameComposition(g, written)
  BY DEF CompositionKept
<1>1. PICK i \in 1..Len(written), j \in 1..Len(written) : written[i].game = g /\ written[j].game = h
  BY DEF Recorded
<1>2. DOMAIN written[i].rows = PlayersOf[g] /\ DOMAIN written[j].rows = PlayersOf[g]
  BY <1>1 DEF RecordsInv, RowsFit
<1>3. written[i] \in ToSet(written) /\ written[j] \in ToSet(written)
  BY DEF ToSet, RecordsInv, RecordsType
<1> QED BY <1>1, <1>2, <1>3 DEF SameComposition

LEMMA RecordsSafe ==
  ASSUME RecordsAssumption, RecordsInv
  PROVE  RecordsAgree
<1>1. PlayedOnce
  BY DEF PlayedOnce, RecordsInv, RowsFit, StandingsFit
<1>2. RatingExplained
  BY DEF RatingExplained, RecordsInv, StandingsFit, RatedGames
<1>3. NothingLost
  <2>1. \A r \in ToSet(written) : r.metrics
    BY DEF ToSet, RecordsInv, RecordsType, RowsFit
  <2> QED BY <2>1 DEF NothingLost, RecordsInv, FinishesFit, FinishFits
<1> QED BY <1>1, <1>2, <1>3, ProfileAgrees, CompositionAgrees DEF RecordsAgree, RecordsInv

(* Results on record: finalizeGame, its retries and the pages that read them. *)
THEOREM ResultsHold == RecordsSpec => []RecordsInv
<1>1. RecordsInit => RecordsInv
  BY RecordsAssumption, RecordsStart
<1>2. RecordsInv /\ [RecordsNext]_recordVars => RecordsInv'
  BY RecordsAssumption, RecordsStep
<1> QED BY <1>1, <1>2, PTL DEF RecordsSpec

(* A finished game is on record once and whole, with ratings, histories and lists
   that agree with it, whatever fails and whoever leaves or reads meanwhile. *)
THEOREM ResultsAgree == RecordsSpec => []RecordsAgree
<1>1. RecordsInv => RecordsAgree
  BY RecordsAssumption, RecordsSafe
<1> QED BY <1>1, ResultsHold, PTL

=============================================================================
