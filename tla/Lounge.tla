------------------------------- MODULE Lounge -------------------------------
(***************************************************************************)
(* The lobby pages of the web client (hooks.ts and LobbyRoomPage.tsx) and  *)
(* what lobbies.gateway.ts sends them.  In the room everybody edits the    *)
(* same settings: the page keeps a draft, pushes what differs from the     *)
(* settings it was last told, and takes over what it is told.  The list of *)
(* open lobbies is a snapshot that deltas are merged into.  Both are also  *)
(* fetched by REST, and nothing carries a version.                         *)
(***************************************************************************)
EXTENDS Naturals, SequencesExt

CONSTANTS Guests,      \* who opens the page of one lobby, its members and newcomers
          Rows,        \* lobbies of the list
          Absent,      \* nothing known, nothing under way
          Outings      \* bound: [edit, visit, open] how many events a behaviour has

Fields == {"knob", "attempts", "exclusive"}

(* The settings; a push; what a socket is sent. *)
Settings == [Fields -> {0, 1}]
Push == [who : Guests, patch : UNION {[fields -> {0, 1}] : fields \in SUBSET Fields}, orphan : BOOLEAN]
Message == [type : {"state"}, copy : Settings] \cup [type : {"answer"}, push : Push]

(* A list of lobbies with their versions, and what its watcher is sent. *)
Lists == UNION {[ids -> Nat] : ids \in SUBSET Rows}
News == [type : {"list"}, list : Lists] \cup [type : {"added", "updated"}, id : Rows, ver : Nat]
        \cup [type : {"removed"}, id : Rows]

(* A request that has not been served, and one that has entered the list's room. *)
Asked == [step |-> "asked"]
Entered == [step |-> "in"]

ASSUME LoungeAssumption ==
  /\ Absent \notin Settings /\ Absent \notin {Asked, Entered}
  /\ \A ids \in SUBSET Rows : Absent \notin [ids -> Nat] /\ Absent \notin [list : [ids -> Nat]]
  /\ Outings \subseteq [{"edit", "visit", "open"} -> Nat]

VARIABLES
  setting,   \* the lobby's settings; a knob stands for every setting but
             \* cheatAttempts and exclusiveThrowIn
  attending, \* guests the lobby has as players
  wired,     \* guests whose socket is connected
  inroom,    \* guests whose socket is in the room of the lobby
  mail,      \* on its way to each socket, in order
  asking,    \* lobby:join of a guest: "asked", or the settings it has read
  fetch,     \* GET /lobbies/:id of a guest: the same
  early,     \* guests whose GET under way was read before they had joined
  shown,     \* the query cache of a guest: the settings last told, and
  member,    \* isParticipant: the guest was among the players told
  known,     \* lastServerRef
  draft,     \* the values in the editor
  debounced, \* useDebouncedValue of the number of attempts
  pushes,    \* update_settings under way: [who, patch, orphan]
  pending,   \* isPending of the last of them: the push, Absent when answered
  outdated,  \* history: guests a copy was under way to at the last change
  adrift,    \* history: guests with an edit that was not taken, or a change that was
             \* not shown, and nothing came since
  picked,    \* history: what guests have chosen, <<guest, field, value>>
  carried,   \* history: what the page of a newcomer has pushed back, likewise
  open,      \* open lobbies, with a version
  tuned,     \* the watcher of the list: its socket is in the list's room
  feed,      \* what is on its way to it
  tuning,    \* lobby:subscribe of it, and
  polled,    \* GET /lobbies
  rows,      \* the list it shows
  outrun,    \* history: lobbies that changed while an older list was under way
  outing     \* events left

roomSide == <<setting, wired, inroom, mail, asking, fetch, shown, known, draft, debounced, pushes,
              pending, outdated, adrift, attending, early, member, picked, carried>>
seats == <<attending, early, member>>
listSide == <<open, tuned, feed, tuning, polled, rows, outrun>>
loungeVars == <<roomSide, listSide, outing>>

Spends(kind) == outing[kind] > 0 /\ outing' = [outing EXCEPT ![kind] = @ - 1]
IsCopy(x) == x \notin {Absent, Asked, Entered}

-----------------------------------------------------------------------------
(* The room. *)

(* useLobbyRoom and RoomContent: the page is opened, fetches the lobby, and joins
   it when the socket is connected, or once, when it first connects.  What the
   query cache still has of it is shown meanwhile.  Who is no player becomes one
   by that. *)
useLobbyRoom(g) ==
  /\ Spends("visit")
  /\ fetch' = [fetch EXCEPT ![g] = Asked]
  /\ asking' = [asking EXCEPT ![g] = Asked]
  /\ \/ UNCHANGED <<shown, member>>
     \/ shown' = [shown EXCEPT ![g] = Absent] /\ member' = member \ {g}
  /\ draft' = [draft EXCEPT ![g] = shown'[g]]
  /\ known' = [known EXCEPT ![g] = shown'[g]]
  /\ debounced' = [debounced EXCEPT ![g] = IF shown'[g] = Absent THEN Absent ELSE shown'[g]["attempts"]]
  /\ pending' = [pending EXCEPT ![g] = Absent]
  /\ adrift' = adrift \ {g}
  /\ UNCHANGED <<setting, wired, inroom, mail, pushes, outdated, attending, early, picked, carried, listSide>>

(* onJoin: a guest who is no player becomes one and whoever is in the room is told;
   the lobby as read then is sent to the guest once the socket has entered the room. *)
onJoin(g) ==
  /\ asking[g] # Absent /\ g \in wired
  /\ IF asking[g] = Asked
     THEN /\ asking' = [asking EXCEPT ![g] = setting]
          /\ attending' = attending \cup {g}
          /\ mail' = IF g \in attending THEN mail
                     ELSE [h \in Guests |-> IF h \in inroom THEN Append(mail[h], [type |-> "state", copy |-> setting])
                                            ELSE mail[h]]
          /\ UNCHANGED inroom
     ELSE /\ inroom' = inroom \cup {g}
          /\ mail' = [mail EXCEPT ![g] = Append(@, [type |-> "state", copy |-> asking[g]])]
          /\ asking' = [asking EXCEPT ![g] = Absent]
          /\ UNCHANGED attending
  /\ UNCHANGED <<setting, wired, fetch, shown, known, draft, debounced, pushes, pending, outdated, adrift,
                 early, member, picked, carried, listSide, outing>>

(* The settings the page compares: it leaves out exclusiveThrowIn. *)
shallowEqualSettings(a, b) == a["knob"] = b["knob"] /\ a["attempts"] = b["attempts"]

Differs(g, copy) == known[g] = Absent \/ ~shallowEqualSettings(known[g], copy)

(* History: what is told shows in the editor, or nothing but exclusiveThrowIn
   has changed and the editor shows it as it was. *)
Follows(g, copy) ==
  adrift' = IF Differs(g, copy) THEN adrift \ {g}
            ELSE IF draft[g]["exclusive"] # copy["exclusive"] THEN adrift \cup {g} ELSE adrift

(* Mutant: what the server says is kept from the editor. *)
Learns_Kept(g, copy) ==
  /\ shown' = [shown EXCEPT ![g] = copy]
  /\ known' = IF Differs(g, copy) THEN [known EXCEPT ![g] = copy] ELSE known
  /\ IF draft[g] = Absent
     THEN draft' = [draft EXCEPT ![g] = copy] /\ debounced' = [debounced EXCEPT ![g] = copy["attempts"]]
     ELSE UNCHANGED <<draft, debounced>>
  /\ Follows(g, copy)

(* The lobby in the cache is replaced; if its settings differ from those last
   seen the draft is too, with what was being typed. *)
Learns(g, copy) ==
  /\ shown' = [shown EXCEPT ![g] = copy]
  /\ known' = IF Differs(g, copy) THEN [known EXCEPT ![g] = copy] ELSE known
  /\ draft' = IF Differs(g, copy) THEN [draft EXCEPT ![g] = copy] ELSE draft
  /\ debounced' = IF known[g] = Absent THEN [debounced EXCEPT ![g] = copy["attempts"]] ELSE debounced
  /\ Follows(g, copy)

(* Both push effects also run when the guest is told to be a player: what the editor
   shows then, and the number as last left alone, is pushed where it differs from
   the settings that are told in the same breath, though nobody has edited it. *)
PushesBack(g, copy) ==
  LET old == [draft[g] EXCEPT !["attempts"] = debounced[g]]
      stale(fields) == {f \in fields : old[f] # copy[f]}
      push(fields) == [who |-> g, patch |-> [f \in fields |-> old[f]], orphan |-> FALSE]
      parts == {stale({"knob", "exclusive"}), stale({"attempts"})} \ {{}}
  IN  /\ pushes' = pushes \cup {push(fields) : fields \in parts}
      /\ pending' = IF parts = {} THEN pending
                    ELSE [pending EXCEPT ![g] = push(IF {"attempts"} \in parts THEN {"attempts"}
                                                     ELSE stale({"knob", "exclusive"}))]
      /\ carried' = carried \cup {<<g, f, old[f]>> : f \in stale({"knob", "attempts"})}

LearnsSeat(g, copy, seated) ==
  /\ member' = IF seated THEN member \cup {g} ELSE member \ {g}
  /\ IF seated /\ g \notin member /\ draft[g] # Absent
     THEN PushesBack(g, copy)
     ELSE UNCHANGED <<pushes, pending, carried>>

(* REST reads, and answers, in its own time. *)
LobbyFetched(g) ==
  /\ fetch[g] # Absent
  /\ IF fetch[g] = Asked
     THEN /\ fetch' = [fetch EXCEPT ![g] = setting]
          /\ early' = IF g \in attending THEN early \ {g} ELSE early \cup {g}
          /\ UNCHANGED <<shown, known, draft, debounced, adrift, member, pushes, pending, carried>>
     ELSE /\ fetch' = [fetch EXCEPT ![g] = Absent]
          /\ Learns(g, fetch[g])
          /\ LearnsSeat(g, fetch[g], g \notin early)
          /\ UNCHANGED early
  /\ UNCHANGED <<setting, wired, inroom, mail, asking, outdated, attending, picked, listSide, outing>>

(* Events and answers come in order; the answer to a push only ends the waiting
   for it, if it is the last one sent. *)
Delivered(g) ==
  /\ mail[g] # <<>>
  /\ LET m == Head(mail[g])
     IN  IF m.type = "state"
         THEN Learns(g, m.copy) /\ LearnsSeat(g, m.copy, TRUE)
         ELSE /\ pending' = [pending EXCEPT ![g] = IF @ = m.push THEN Absent ELSE @]
              /\ UNCHANGED <<shown, known, draft, debounced, adrift, member, pushes, carried>>
  /\ mail' = [mail EXCEPT ![g] = Tail(@)]
  /\ UNCHANGED <<setting, wired, inroom, asking, fetch, outdated, attending, early, picked, listSide, outing>>

(* What the editor shows is pushed where it differs from what the server said. *)
Pushes(g, edited, fields) ==
  LET changed == {f \in fields : edited[f] # shown[g][f]}
      push == [who |-> g, patch |-> [f \in changed |-> edited[f]], orphan |-> FALSE]
  IN  IF changed = {}
      THEN UNCHANGED <<pushes, pending>>
      ELSE /\ pushes' = pushes \cup {push}
           /\ pending' = [pending EXCEPT ![g] = push]

(* The editor, a player's, disabled while the last push is unanswered: a knob is pushed at
   once; the number only once it has been left alone, and only if it is not what
   it was when last left alone; exclusiveThrowIn only along with a knob. *)
EditsSetting(g, what) ==
  /\ Spends("edit")
  /\ draft[g] # Absent /\ pending[g] = Absent /\ g \in member
  /\ LET val == 1 - draft[g][what]
         edited == [draft[g] EXCEPT ![what] = val]
     IN  /\ draft' = [draft EXCEPT ![g] = edited]
         /\ IF what = "knob" THEN Pushes(g, edited, {"knob", "exclusive"}) ELSE UNCHANGED <<pushes, pending>>
         /\ adrift' = IF val # shown[g][what] /\ (what = "exclusive" \/ (what = "attempts" /\ val = debounced[g]))
                      THEN adrift \cup {g} ELSE adrift
         /\ picked' = picked \cup {<<g, what, val>>}
  /\ UNCHANGED <<setting, wired, inroom, mail, asking, fetch, shown, known, debounced, outdated, seats, carried,
                 listSide>>

(* The number has been left alone; the page of a guest told to be no player any more
   does not push it. *)
useDebouncedValue(g) ==
  /\ draft[g] # Absent /\ draft[g]["attempts"] # debounced[g]
  /\ debounced' = [debounced EXCEPT ![g] = draft[g]["attempts"]]
  /\ \/ g \in member /\ Pushes(g, draft[g], {"attempts"}) /\ UNCHANGED adrift
     \/ /\ g \notin member
        /\ adrift' = IF draft[g]["attempts"] # shown[g]["attempts"] THEN adrift \cup {g} ELSE adrift
        /\ UNCHANGED <<pushes, pending>>
  /\ UNCHANGED <<setting, wired, inroom, mail, asking, fetch, shown, known, draft, outdated,
                 seats, picked, carried, listSide, outing>>

(* broadcastLobbyState to whoever is in the room, then the answer to the caller. *)
Answers(p, changed) ==
  mail' = [g \in Guests |->
    LET told == IF changed /\ g \in inroom THEN Append(mail[g], [type |-> "state", copy |-> setting']) ELSE mail[g]
    IN  IF g = p.who /\ ~p.orphan THEN Append(told, [type |-> "answer", push |-> p]) ELSE told]

Patched(patch) == [f \in Fields |-> IF f \in DOMAIN patch THEN patch[f] ELSE setting[f]]

(* onUpdateSettings: applied, or refused with the lobby as it was.  A guest who is
   not in the room, because the join is still under way, is not told of the change. *)
onUpdateSettings(p) ==
  /\ p \in pushes
  /\ p.orphan \/ p.who \in wired
  /\ pushes' = pushes \ {p}
  /\ \/ /\ setting' = Patched(p.patch)
        /\ Answers(p, TRUE)
        /\ outdated' = {g \in Guests : IsCopy(asking[g]) \/ IsCopy(fetch[g])}
        /\ adrift' = IF p.orphan \/ p.who \in inroom THEN adrift ELSE adrift \cup {p.who}
     \/ /\ Answers(p, FALSE)
        /\ adrift' = adrift \cup {p.who}
        /\ UNCHANGED <<setting, outdated>>
  /\ UNCHANGED <<wired, inroom, asking, fetch, shown, known, draft, debounced, pending, seats, picked, carried,
                 listSide, outing>>

(* The connection drops: a push that has reached the server is served, its answer
   is lost with everything else on the way, and nobody joins again. *)
GuestDrops(g) ==
  /\ Spends("visit")
  /\ g \in wired
  /\ wired' = wired \ {g} /\ inroom' = inroom \ {g}
  /\ mail' = [mail EXCEPT ![g] = <<>>]
  /\ asking' = [asking EXCEPT ![g] = Absent]
  /\ LET mine == {p \in pushes : p.who = g}
     IN  \E kept \in SUBSET mine :
           /\ pushes' = (pushes \ mine) \cup {[p EXCEPT !.orphan = TRUE] : p \in kept}
           /\ adrift' = IF mine # {} THEN adrift \cup {g} ELSE adrift
  /\ UNCHANGED <<setting, fetch, shown, known, draft, debounced, pending, outdated, seats, picked, carried,
                 listSide>>

Reconnects(g) ==
  /\ g \notin wired
  /\ wired' = wired \cup {g}
  /\ UNCHANGED <<setting, inroom, mail, asking, fetch, shown, known, draft, debounced, pushes, pending, outdated,
                 adrift, seats, picked, carried, listSide, outing>>

-----------------------------------------------------------------------------
(* The list. *)
Feeds(message) == feed' = IF tuned THEN Append(feed, message) ELSE feed
Outrun(l) == outrun' = IF IsCopy(tuning) \/ IsCopy(polled) THEN outrun \cup {l} ELSE outrun

(* A lobby is created, changes, or goes: the list's room is told. *)
broadcastList(l) ==
  /\ Spends("open")
  /\ \/ /\ l \notin DOMAIN open
        /\ open' = [k \in DOMAIN open \cup {l} |-> IF k = l THEN outing["open"] ELSE open[k]]
        /\ Feeds([type |-> "added", id |-> l, ver |-> open'[l]])
     \/ /\ l \in DOMAIN open
        /\ open' = [open EXCEPT ![l] = outing["open"]]
        /\ Feeds([type |-> "updated", id |-> l, ver |-> open'[l]])
     \/ /\ l \in DOMAIN open
        /\ open' = [k \in DOMAIN open \ {l} |-> open[k]]
        /\ Feeds([type |-> "removed", id |-> l])
  /\ Outrun(l)
  /\ UNCHANGED <<roomSide, tuned, tuning, polled, rows>>

(* useLobbyList: the list is fetched, and subscribed to. *)
useLobbyList ==
  /\ Spends("visit")
  /\ polled' = Asked
  /\ tuning' = Asked
  /\ UNCHANGED <<roomSide, open, tuned, feed, rows, outrun>>

(* onSubscribe: the socket enters the room, the list is read and sent. *)
onSubscribeList ==
  /\ tuning # Absent
  /\ IF ~IsCopy(tuning)
     THEN /\ \/ tuning = Asked /\ tuned' = TRUE /\ tuning' = Entered
             \/ tuning = Entered /\ tuning' = [list |-> open] /\ UNCHANGED tuned
          /\ UNCHANGED feed
     ELSE /\ feed' = Append(feed, [type |-> "list", list |-> tuning.list])
          /\ tuning' = Absent
          /\ UNCHANGED tuned
  /\ UNCHANGED <<roomSide, open, polled, rows, outrun, outing>>

ListFetched ==
  /\ polled # Absent
  /\ IF IsCopy(polled)
     THEN rows' = polled.list /\ polled' = Absent
     ELSE polled' = [list |-> open] /\ UNCHANGED rows
  /\ UNCHANGED <<roomSide, open, tuned, feed, tuning, outrun, outing>>

(* The four listeners: a new lobby is put in, a changed one replaced if it is
   there, one that is gone taken out. *)
Merged(m) ==
  LET prev == IF rows = Absent THEN [k \in {} |-> 0] ELSE rows
  IN  CASE m.type = "list" -> m.list
        [] m.type = "added" -> [k \in DOMAIN prev \cup {m.id} |-> IF k = m.id THEN m.ver ELSE prev[k]]
        [] m.type = "updated" -> [k \in DOMAIN prev |-> IF k = m.id THEN m.ver ELSE prev[k]]
        [] m.type = "removed" -> [k \in DOMAIN prev \ {m.id} |-> prev[k]]

ListHears ==
  /\ feed # <<>>
  /\ rows' = Merged(Head(feed))
  /\ feed' = Tail(feed)
  /\ UNCHANGED <<roomSide, open, tuned, tuning, polled, outrun, outing>>

(* The watcher's connection drops; a reconnected socket does not subscribe again. *)
ListDrops ==
  /\ Spends("visit")
  /\ tuned' = FALSE /\ feed' = <<>> /\ tuning' = Absent
  /\ UNCHANGED <<roomSide, open, polled, rows, outrun>>

-----------------------------------------------------------------------------
LoungeInit ==
  /\ setting = [f \in Fields |-> 0]
  /\ attending \in SUBSET Guests
  /\ wired = Guests /\ inroom = attending /\ mail = [g \in Guests |-> <<>>]
  /\ asking = [g \in Guests |-> Absent] /\ fetch = asking
  /\ shown = [g \in Guests |-> IF g \in attending THEN setting ELSE Absent]
  /\ known = shown /\ draft = shown /\ member = attending /\ early = {}
  /\ debounced = [g \in Guests |-> IF g \in attending THEN 0 ELSE Absent]
  /\ picked = {} /\ carried = {}
  /\ pushes = {} /\ pending = fetch /\ outdated = {} /\ adrift = {}
  /\ open = [k \in {} |-> 0] /\ tuned = FALSE /\ feed = <<>>
  /\ tuning = Asked /\ polled = Asked
  /\ rows = Absent /\ outrun = {}
  /\ outing \in Outings

RoomSideNext ==
  \/ \E g \in Guests : \/ useLobbyRoom(g) \/ onJoin(g) \/ LobbyFetched(g) \/ Delivered(g)
                       \/ useDebouncedValue(g) \/ GuestDrops(g) \/ Reconnects(g)
  \/ \E g \in Guests, what \in {"knob", "attempts", "exclusive"} : EditsSetting(g, what)
  \/ \E p \in pushes : onUpdateSettings(p)

ListSideNext ==
  \/ \E l \in Rows : broadcastList(l)
  \/ useLobbyList \/ onSubscribeList \/ ListFetched \/ ListHears \/ ListDrops

LoungeSpec == LoungeInit /\ [][RoomSideNext \/ ListSideNext]_loungeVars
-----------------------------------------------------------------------------
(* Nothing of a guest is under way. *)
Settled(g) ==
  /\ g \in inroom /\ mail[g] = <<>> /\ asking[g] = Absent /\ fetch[g] = Absent
  /\ shown[g] # Absent /\ draft[g]["attempts"] = debounced[g]
  /\ \A p \in pushes : p.who # g

(* Whoever edits what at the same time, when nothing is under way every page
   shows the settings as they are, unless an older copy was under way to it, and
   the editor shows them too, unless an edit of the guest's was refused, lost,
   not pushed, served before the guest was in the room, or taken back to where
   the debounced value still was, or nothing but exclusiveThrowIn has changed. *)
DraftsSettle ==
  \A g \in Guests : Settled(g) /\ g \notin outdated =>
    /\ shown[g] = setting
    /\ draft[g] = setting \/ g \in adrift

(* A page pushes only what its guest has chosen: what others have set is not sent
   back.  The exceptions: what the page of a newcomer pushes back, and
   exclusiveThrowIn, which goes along with a knob as the editor still shows it. *)
OnlyChosen ==
  \A p \in pushes : \A f \in DOMAIN p.patch \ {"exclusive"} :
    <<p.who, f, p.patch[f]>> \in picked \cup carried

(* A list that is subscribed shows the open lobbies, each as it is, except those
   that changed while an older list was under way. *)
ListFollows ==
  tuned /\ feed = <<>> /\ tuning = Absent /\ polled = Absent /\ rows # Absent =>
    \A l \in Rows \ outrun :
      /\ l \in DOMAIN rows <=> l \in DOMAIN open
      /\ l \in DOMAIN rows /\ l \in DOMAIN open => rows[l] = open[l]

(* The three together: drafts and list of the lobby pages (LobbyRoomPage.tsx,
   useLobbyList) end up as the server has them, and pages push what was chosen. *)
LoungeAgrees == DraftsSettle /\ OnlyChosen /\ ListFollows
=============================================================================
