----------------------------- MODULE RoomProofs -----------------------------
(***************************************************************************)
(* RoomAgrees for every number of handlers, messages and events, and every *)
(* length of the histories that server and page keep.  The invariant says  *)
(* what the page will show once it has heard all that is on its way to it. *)
(***************************************************************************)
EXTENDS Room, FiniteSetTheorems, TLAPS

(* What may be on its way to the socket. *)
Message ==
  [type : {"ack"}, game : Game, pause : Pauses, chat : Seq(Nat), hearts : SUBSET Nat]
    \cup [type : {"state", "over"}, game : Game]
    \cup [type : {"paused", "voteStarted", "waitExtended", "resumed", "conceded"}]
    \cup [type : {"message"}, id : Nat] \cup [type : {"reaction"}, id : Nat, on : BOOLEAN]
    \cup [type : {"history"}, chat : Seq(Nat), hearts : SUBSET Nat]

(* Handlers that have read the game, the chat; a subscription that has read the chat. *)
HasGame == {"read", "chat", "joined", "sent"}
HasChat == {"chat", "joined", "sent", "fetched"}
Informed == {"chat", "joined", "sent"}
Doing(h, steps) == calls[h] # Nothing /\ calls[h].step \in steps
LiveRest == rest # Nothing /\ rest.kind = "live"

RoomType ==
  /\ game \in Game /\ pause \in Pauses
  /\ log \in Seq(Nat) /\ said \in Nat /\ hearts \subseteq Nat /\ click \in Nat \cup {Nothing}
  /\ socket \in {"up", "down"} /\ joined \in BOOLEAN /\ inbox \in Seq(Message)
  /\ calls \in [Handlers -> Call \cup {Nothing}]
  /\ rest \in Rest \cup {Nothing} /\ detail \in Rest \cup {Nothing} /\ view \in View \cup {Nothing}
  /\ page \in BOOLEAN /\ panel \in BOOLEAN

(* A handler has what it has read, and a finished game stays finished. *)
WireFits ==
  /\ socket = "down" => ~joined /\ inbox = <<>> /\ \A h \in Handlers : calls[h] = Nothing
  /\ \A h \in Handlers :
       /\ Doing(h, HasGame) => calls[h].game \in Game
       /\ Doing(h, {"sent"}) => calls[h].pause \in Pauses
       /\ Doing(h, {"joined", "sent"}) => joined
  /\ detail # Nothing => detail.kind \in {"live", "finished"}
  /\ (rest # Nothing /\ rest.kind = "finished") \/ (detail # Nothing /\ detail.kind = "finished") => game.over
  /\ detail # Nothing /\ detail.kind = "finished" => ~LiveRest

(* A copy on its way is as the server has it, unless it was overtaken by a change. *)
CopiesFit ==
  /\ "game" \notin raced => /\ \A h \in Handlers : Doing(h, HasGame) => calls[h].game = game
                            /\ LiveRest => rest.game = game
  /\ "pause" \notin raced => /\ \A h \in Handlers : Doing(h, {"sent"}) => calls[h].pause = pause
                             /\ LiveRest => rest.pause = pause

(* The chat on the server.  While nothing was trimmed it holds all that was said. *)
Said(k) == [i \in 1..k |-> i]
LogFits ==
  /\ \A m \in Range(log) \cup hearts : m \in 1..said
  /\ click = Nothing \/ click \in 1..said
  /\ said <= HistoryLimit => log = Said(said)
  /\ \A m \in Range(log) \ heartsCrossed : click = m => m \in hearts

(* A copy of it, on its way or in a handler. *)
HistoryFits(chat, hs) ==
  /\ \A m \in Range(chat) \cup hs : m \in 1..said
  /\ \A m \in Range(log) \cap hs : m \in Range(chat)
  /\ said <= HistoryLimit => \E k \in 0..said : chat = Said(k)
HeldFits ==
  \A h \in Handlers : Doing(h, HasChat) =>
    /\ HistoryFits(calls[h].chat, calls[h].hearts)
    /\ \A m \in Range(log) \ heartsCrossed :
         /\ m \in Range(calls[h].chat) => (m \in calls[h].hearts <=> m \in hearts)
         /\ click = m => m \in Range(calls[h].chat)

(* A message on its way is newer than all the page has and than all that comes before. *)
Tells(x) == x.type \in {"ack", "history"}
Older(x, n) ==
  /\ x.type \in {"message", "reaction"} => x.id < n
  /\ Tells(x) => \A m \in Range(x.chat) \cup x.hearts : m < n
QueueFits(q, v) ==
  \A i \in 1..Len(q) :
    /\ q[i].type \in {"message", "reaction"} => q[i].id \in 1..said
    /\ Tells(q[i]) => HistoryFits(q[i].chat, q[i].hearts)
    /\ q[i].type = "message" =>
         /\ v # Nothing => \A m \in Range(v.chat) \cup v.hearts : m < q[i].id
         /\ \A j \in 1..(i - 1) : Older(q[j], q[i].id)
ViewFits(v) ==
  v # Nothing => /\ \A m \in Range(v.chat) \cup v.hearts : m \in 1..said
                 /\ said <= HistoryLimit => Ascending(v.chat)

(* What a page with copy v will show once it has heard the queue q: the game g. *)
HasState(x) == x.type \in {"ack", "state", "over"}
GameWillBe(q, v, g) ==
  \/ \E i \in 1..Len(q) : HasState(q[i]) /\ q[i].game = g /\ \A j \in (i + 1)..Len(q) : ~HasState(q[j])
  \/ (\A i \in 1..Len(q) : ~HasState(q[i])) /\ v # Nothing /\ v.game = g

(* The pause p: the last message that says which one it is decides, with those that
   add to it. *)
Decides(x) == x.type \in {"ack", "over", "resumed", "conceded", "voteStarted"}
Verdict(x) == IF x.type = "ack" THEN x.pause ELSE IF x.type = "voteStarted" THEN "voting" ELSE "none"
Then(q, i, p) ==
  IF p = "none" THEN IF \E j \in (i + 1)..Len(q) : q[j].type = "paused" THEN "waiting" ELSE "none"
  ELSE IF p = "voting" THEN IF \E j \in (i + 1)..Len(q) : q[j].type = "waitExtended" THEN "waiting" ELSE "voting"
  ELSE "waiting"
PauseWillBe(q, v, p) ==
  \/ \E i \in 1..Len(q) : /\ Decides(q[i]) /\ \A j \in (i + 1)..Len(q) : ~Decides(q[j])
                          /\ Then(q, i, Verdict(q[i])) = p
  \/ (\A i \in 1..Len(q) : ~Decides(q[i])) /\ v # Nothing /\ Then(q, 0, v.pause) = p

(* The heart of message m on or off, if the page will have the message. *)
Sets(x, m) == (x.type = "reaction" /\ x.id = m) \/ (Tells(x) /\ m \in Range(x.chat))
IsOn(x, m) == IF x.type = "reaction" THEN x.on ELSE m \in x.hearts
WillHave(q, v, m) ==
  \/ v # Nothing /\ m \in Range(v.chat)
  \/ \E i \in 1..Len(q) : q[i].type = "message" /\ q[i].id = m
HeartWillBe(q, v, m, on) ==
  \/ \E i \in 1..Len(q) : /\ Sets(q[i], m) /\ (IsOn(q[i], m) <=> on)
                          /\ \A j \in (i + 1)..Len(q) : ~Sets(q[j], m)
  \/ /\ \A i \in 1..Len(q) : ~Sets(q[i], m)
     /\ WillHave(q, v, m) => (on <=> v # Nothing /\ m \in v.hearts)

(* Every message is in S, or was not told, or the page has it or will hear of it; and
   will show its heart as it is, unless that is in S or still to be told. *)
Comes(q, v, m) ==
  \/ v # Nothing /\ m \in Range(v.chat)
  \/ \E i \in 1..Len(q) : \/ q[i].type = "message" /\ q[i].id = m
                          \/ q[i].type = "ack" /\ m \in Range(q[i].chat)
Reaches(q, v, S) ==
  /\ said <= HistoryLimit => \A m \in 1..said : m \in S \cup unheard \/ Comes(q, v, m)
  /\ \A m \in Range(log) \ (S \cup heartsCrossed) : click # m => HeartWillBe(q, v, m, m \in hearts)

(* A page that listens has called and waits for the server to read the chat, or for an
   answer that covers what the page will not have, or will have it all. *)
Awaited == \E h \in Handlers : Doing(h, {"asked", "read"})
Covered == \E h \in Handlers : Doing(h, Informed) /\ Reaches(inbox, view, Range(calls[h].chat))
Follows(q, v) ==
  /\ Reaches(q, v, {})
  /\ v # Nothing \/ \E i \in 1..Len(q) : q[i].type = "ack"
  /\ "game" \notin raced => GameWillBe(q, v, game)
  /\ "pause" \notin raced => PauseWillBe(q, v, pause)
PageFollows == Enabled /\ socket = "up" => Awaited \/ Covered \/ (joined /\ Follows(inbox, view))

RoomInv ==
  /\ RoomType /\ WireFits /\ CopiesFit /\ LogFits /\ HeldFits /\ QueueFits(inbox, view) /\ ViewFits(view)
  /\ PageFollows

-----------------------------------------------------------------------------
(* The end of a sequence. *)
LEMMA LastOnes ==
  ASSUME NEW S, NEW s \in Seq(S), NEW n \in Nat
  PROVE  /\ LastN(s, n) \in Seq(S) /\ Range(LastN(s, n)) \subseteq Range(s)
         /\ Len(s) <= n => LastN(s, n) = s
<1>1. CASE Len(s) <= n
  BY <1>1 DEF LastN
<1>2. CASE ~(Len(s) <= n)
  <2> DEFINE first == Len(s) - n + 1
  <2>1. first \in 1..(Len(s) + 1) /\ LastN(s, n) = SubSeq(s, first, Len(s))
    BY <1>2 DEF LastN
  <2>2. SubSeq(s, first, Len(s)) \in Seq(S)
    BY <2>1
  <2>3. /\ DOMAIN SubSeq(s, first, Len(s)) = 1..(Len(s) - first + 1)
        /\ \A i \in 1..(Len(s) - first + 1) : SubSeq(s, first, Len(s))[i] = s[first + i - 1] /\ first + i - 1 \in DOMAIN s
    BY <2>1
  <2>4. Range(SubSeq(s, first, Len(s))) \subseteq Range(s)
    BY <2>3 DEF Range
  <2> QED BY <1>2, <2>1, <2>2, <2>4
<1> QED BY <1>1, <1>2

(* How many numbers of a finite set come up to one of them: a bijection. *)
Rank(new, i) == Cardinality({j \in new : j <= i})

LEMMA Ranks ==
  ASSUME NEW new \in SUBSET Nat, IsFiniteSet(new)
  PROVE  /\ Cardinality(new) \in Nat
         /\ \A i \in new : Rank(new, i) \in 1..Cardinality(new)
         /\ \A i, k \in new : i < k => Rank(new, i) < Rank(new, k)
         /\ \A n \in 1..Cardinality(new) : \E i \in new : Rank(new, i) = n
<1>1. Cardinality(new) \in Nat
  BY FS_CardinalityType
<1>2. ASSUME NEW i \in new PROVE Rank(new, i) \in 1..Cardinality(new)
  <2>1. {j \in new : j <= i} \in SUBSET new
    OBVIOUS
  <2>2. IsFiniteSet({j \in new : j <= i}) /\ Cardinality({j \in new : j <= i}) <= Cardinality(new)
    BY <2>1, FS_Subset
  <2>3. Cardinality({j \in new : j <= i}) \in Nat
    BY <2>2, FS_CardinalityType
  <2>4. i \in {j \in new : j <= i}
    OBVIOUS
  <2>5. Cardinality({j \in new : j <= i}) # 0
    BY <2>2, <2>4, FS_EmptySet
  <2> QED BY <1>1, <2>2, <2>3, <2>5 DEF Rank
<1>3. ASSUME NEW i \in new, NEW k \in new, i < k PROVE Rank(new, i) < Rank(new, k)
  <2>1. {j \in new : j <= i} \in SUBSET {j \in new : j <= k}
    <3>1. i \in Nat /\ k \in Nat /\ \A j \in new : j \in Nat
      OBVIOUS
    <3>2. \A j \in new : j <= i => j <= k
      BY <1>3, <3>1
    <3> QED BY <3>2
  <2>2. {j \in new : j <= k} \in SUBSET new
    OBVIOUS
  <2>3. IsFiniteSet({j \in new : j <= k})
    BY <2>2, FS_Subset
  <2>4. /\ Cardinality({j \in new : j <= i}) <= Cardinality({j \in new : j <= k})
        /\ Cardinality({j \in new : j <= k}) = Cardinality({j \in new : j <= i}) => {j \in new : j <= k} = {j \in new : j <= i}
    BY <2>1, <2>3, FS_Subset
  <2>5. k \in {j \in new : j <= k} /\ k \notin {j \in new : j <= i}
    BY <1>3
  <2>6. Rank(new, i) \in Nat /\ Rank(new, k) \in Nat
    BY <1>1, <1>2
  <2> QED BY <2>4, <2>5, <2>6 DEF Rank
<1>4. \A n \in 1..Cardinality(new) : \E i \in new : Rank(new, i) = n
  <2> DEFINE f == [i \in new |-> Rank(new, i)]
  <2>1. f \in [new -> 1..Cardinality(new)]
    BY <1>2
  <2>2. \A a, b \in new : f[a] = f[b] => a = b
    <3> TAKE a, b \in new
    <3>1. f[a] \in Nat /\ f[b] \in Nat
      BY <1>1, <1>2
    <3>2. a < b \/ b < a \/ a = b
      OBVIOUS
    <3> QED BY <1>3, <3>1, <3>2
  <2>3. f \in Injection(new, 1..Cardinality(new))
    BY <2>1, <2>2 DEF Injection, IsInjective
  <2>4. IsFiniteSet(1..Cardinality(new)) /\ Cardinality(1..Cardinality(new)) = Cardinality(new)
    BY <1>1, FS_Interval
  <2>5. f \in Surjection(new, 1..Cardinality(new))
    BY <2>3, <2>4, FS_Injection
  <2> QED BY <2>1, <2>5 DEF Surjection
<1> QED BY <1>1, <1>2, <1>3, <1>4

(* The filter of appendChat keeps what is not there yet, in its order. *)
LEMMA LackingFits ==
  ASSUME NEW e, NEW s \in Seq(Nat)
  PROVE  /\ Lacking(e, s) \in Seq(Nat)
         /\ Range(Lacking(e, s)) = Range(s) \ Range(e)
         /\ Ascending(s) => Ascending(Lacking(e, s))
<1> DEFINE new == {i \in DOMAIN s : s[i] \notin Range(e)}
           at(n) == CHOOSE i \in new : Rank(new, i) = n
<1>1. new \in SUBSET Nat /\ IsFiniteSet(new) /\ new \subseteq 1..Len(s) /\ DOMAIN s = 1..Len(s)
  <2>1. new \in SUBSET (1..Len(s)) /\ IsFiniteSet(1..Len(s))
    BY FS_Interval
  <2> QED BY <2>1, FS_Subset
<1>2. Lacking(e, s) = [n \in 1..Cardinality(new) |-> s[at(n)]]
  BY DEF Lacking, Rank
<1>3. Cardinality(new) \in Nat
  BY <1>1, Ranks
<1>4. \A n \in 1..Cardinality(new) : at(n) \in new /\ Rank(new, at(n)) = n
  <2> TAKE n \in 1..Cardinality(new)
  <2>1. \E i \in new : Rank(new, i) = n
    BY <1>1, Ranks
  <2> QED BY <2>1
<1> HIDE DEF at
<1>5. \A i \in new : i = at(Rank(new, i)) /\ Rank(new, i) \in 1..Cardinality(new)
  <2> TAKE i \in new
  <2>1. Rank(new, i) \in 1..Cardinality(new)
    BY <1>1, Ranks
  <2>2. at(Rank(new, i)) \in new /\ Rank(new, at(Rank(new, i))) = Rank(new, i)
    BY <1>4, <2>1
  <2>3. ~(i < at(Rank(new, i))) /\ ~(at(Rank(new, i)) < i)
    <3>1. \A j, k \in new : j < k => Rank(new, j) < Rank(new, k)
      BY <1>1, Ranks
    <3>2. Rank(new, i) \in Nat
      BY <1>3, <2>1
    <3> QED BY <2>2, <3>1, <3>2
  <2>4. i \in Nat /\ at(Rank(new, i)) \in Nat
    BY <1>1, <2>2
  <2> QED BY <2>1, <2>3, <2>4
<1> HIDE DEF new
<1>6. \A n \in 1..Cardinality(new) : s[at(n)] \in Nat
  <2> TAKE n \in 1..Cardinality(new)
  <2>1. at(n) \in 1..Len(s)
    BY <1>1, <1>4
  <2> QED BY <2>1
<1>7. Lacking(e, s) \in Seq(Nat) /\ DOMAIN Lacking(e, s) = 1..Cardinality(new)
  BY <1>2, <1>3, <1>6
<1>8. Range(Lacking(e, s)) = {s[i] : i \in new}
  <2>1. \A n \in 1..Cardinality(new) : Lacking(e, s)[n] \in {s[i] : i \in new}
    BY <1>2, <1>4
  <2>2. \A i \in new : s[i] \in Range(Lacking(e, s))
    BY <1>2, <1>5, <1>7 DEF Range
  <2> QED BY <1>7, <2>1, <2>2 DEF Range
<1>9. {s[i] : i \in new} = Range(s) \ Range(e)
  BY DEF new, Range
<1>10. ASSUME Ascending(s) PROVE Ascending(Lacking(e, s))
  <2> SUFFICES ASSUME NEW n \in 1..Cardinality(new), NEW m \in 1..Cardinality(new), n < m
               PROVE  Lacking(e, s)[n] < Lacking(e, s)[m]
    BY <1>7 DEF Ascending
  <2>1. at(n) \in new /\ at(m) \in new /\ Rank(new, at(n)) = n /\ Rank(new, at(m)) = m
    BY <1>4
  <2>2. ~(at(m) < at(n)) /\ at(n) # at(m)
    <3>1. \A j, k \in new : j < k => Rank(new, j) < Rank(new, k)
      BY <1>1, Ranks
    <3>2. n \in Nat /\ m \in Nat
      BY <1>3
    <3> QED BY <2>1, <3>1, <3>2
  <2>3. at(n) \in DOMAIN s /\ at(m) \in DOMAIN s /\ at(n) < at(m)
    <3>1. at(n) \in 1..Len(s) /\ at(m) \in 1..Len(s)
      BY <1>1, <2>1
    <3>2. at(n) \in Nat /\ at(m) \in Nat
      BY <3>1
    <3> QED BY <2>2, <3>1, <3>2
  <2> QED BY <1>2, <1>10, <2>3 DEF Ascending
<1> QED BY <1>7, <1>8, <1>9, <1>10

(* Numbers in ascending order are not more than the greatest of them. *)
LEMMA AscendingIsShort ==
  ASSUME NEW s \in Seq(Nat), Ascending(s), NEW n \in Nat, \A m \in Range(s) : m \in 1..n
  PROVE  Len(s) <= n
<1>1. s \in [1..Len(s) -> 1..n]
  BY DEF Range
<1>2. \A a, b \in 1..Len(s) : s[a] = s[b] => a = b
  <2> TAKE a, b \in 1..Len(s)
  <2>1. a < b => s[a] < s[b]
    BY DEF Ascending
  <2>2. b < a => s[b] < s[a]
    BY DEF Ascending
  <2>3. s[a] \in Nat /\ s[b] \in Nat /\ a \in Nat /\ b \in Nat
    OBVIOUS
  <2> QED BY <2>1, <2>2, <2>3
<1>3. s \in Injection(1..Len(s), 1..n)
  BY <1>1, <1>2 DEF Injection, IsInjective
<1>4. \A k \in Nat : IsFiniteSet(1..k) /\ Cardinality(1..k) = k
  <2> TAKE k \in Nat
  <2>1. IsFiniteSet(1..k) /\ Cardinality(1..k) = IF 1 > k THEN 0 ELSE k - 1 + 1
    BY FS_Interval
  <2> QED BY <2>1
<1>5. Cardinality(1..Len(s)) <= Cardinality(1..n)
  BY <1>3, <1>4, FS_Injection
<1> QED BY <1>4, <1>5

(* appendChat adds what is new; in order, and all of it, if what is new comes later
   and the buffer has room. *)
LEMMA AppendedChat ==
  ASSUME RoomAssumption, NEW e \in Seq(Nat), NEW s \in Seq(Nat)
  PROVE  /\ appendChat(e, s) \in Seq(Nat)
         /\ Range(appendChat(e, s)) \subseteq Range(e) \cup Range(s)
         /\ \A n \in Nat :
              /\ n <= BufferLimit /\ Ascending(e) /\ Ascending(s)
              /\ \A m \in Range(e) \cup Range(s) : m \in 1..n
              /\ \A m \in Range(s) \ Range(e) : \A k \in Range(e) : k < m
              => Ascending(appendChat(e, s)) /\ Range(appendChat(e, s)) = Range(e) \cup Range(s)
<1>1. PICK l \in Seq(Nat) : /\ l = Lacking(e, s) /\ Range(l) = Range(s) \ Range(e)
                            /\ (Ascending(s) => Ascending(l))
  BY LackingFits
<1>2. PICK c \in Seq(Nat) : /\ c = e \o l /\ Len(c) = Len(e) + Len(l)
                            /\ \A i \in 1..Len(e) : c[i] = e[i]
                            /\ \A i \in 1..Len(l) : c[Len(e) + i] = l[i]
  <2>1. e \o l \in Seq(Nat) /\ Len(e \o l) = Len(e) + Len(l)
    OBVIOUS
  <2>2. \A i \in 1..Len(e) : (e \o l)[i] = e[i]
    OBVIOUS
  <2>3. \A i \in 1..Len(l) : (e \o l)[Len(e) + i] = l[i]
    OBVIOUS
  <2> QED BY <2>1, <2>2, <2>3
<1>0. /\ DOMAIN e = 1..Len(e) /\ DOMAIN l = 1..Len(l) /\ DOMAIN c = 1..Len(c)
      /\ Len(e) \in Nat /\ Len(l) \in Nat /\ Len(c) \in Nat
  OBVIOUS
<1>3. Range(c) = Range(e) \cup Range(l)
  <2>1. \A m : /\ m \in Range(e) <=> \E i \in 1..Len(e) : m = e[i]
               /\ m \in Range(l) <=> \E i \in 1..Len(l) : m = l[i]
               /\ m \in Range(c) <=> \E i \in 1..Len(c) : m = c[i]
    BY <1>0 DEF Range
  <2>2. \A i \in 1..Len(e) : i \in 1..Len(c) /\ c[i] = e[i]
    BY <1>0, <1>2
  <2>3. \A i \in 1..Len(l) : Len(e) + i \in 1..Len(c) /\ c[Len(e) + i] = l[i]
    BY <1>0, <1>2
  <2>4. \A i \in 1..Len(c) : i \in 1..Len(e) \/ \E j \in 1..Len(l) : c[i] = l[j]
    <3> TAKE i \in 1..Len(c)
    <3> SUFFICES ASSUME i \notin 1..Len(e) PROVE \E j \in 1..Len(l) : c[i] = l[j]
      OBVIOUS
    <3>1. PICK j \in 1..Len(l) : i = Len(e) + j
      <4>1. i - Len(e) \in 1..Len(l) /\ i = Len(e) + (i - Len(e))
        BY <1>0, <1>2
      <4> QED BY <4>1
    <3> QED BY <2>3, <3>1
  <2>5. ASSUME NEW m \in Range(c) PROVE m \in Range(e) \cup Range(l)
    BY <2>1, <2>2, <2>4
  <2>6. ASSUME NEW m \in Range(e) PROVE m \in Range(c)
    BY <2>1, <2>2
  <2>7. ASSUME NEW m \in Range(l) PROVE m \in Range(c)
    BY <2>1, <2>3
  <2> QED BY <2>5, <2>6, <2>7
<1>4. appendChat(e, s) = LastN(c, BufferLimit) /\ BufferLimit \in Nat
  BY <1>1, <1>2 DEF appendChat, RoomAssumption
<1>5. appendChat(e, s) \in Seq(Nat) /\ Range(appendChat(e, s)) \subseteq Range(c)
  <2>1. c \in Seq(Nat) /\ BufferLimit \in Nat
    BY <1>2, <1>4
  <2>2. LastN(c, BufferLimit) \in Seq(Nat) /\ Range(LastN(c, BufferLimit)) \subseteq Range(c)
    BY <2>1, LastOnes
  <2> QED BY <1>4, <2>2
<1>6. ASSUME NEW n \in Nat, n <= BufferLimit, \A m \in Range(e) \cup Range(s) : m \in 1..n,
             Ascending(e), Ascending(s), \A m \in Range(s) \ Range(e) : \A k \in Range(e) : k < m
      PROVE  Ascending(appendChat(e, s)) /\ Range(appendChat(e, s)) = Range(e) \cup Range(s)
  <2>1. Ascending(c)
    <3> SUFFICES ASSUME NEW i \in 1..Len(c), NEW j \in 1..Len(c), i < j PROVE c[i] < c[j]
      BY <1>0 DEF Ascending
    <3>1. CASE j <= Len(e)
      <4>1. i \in 1..Len(e) /\ j \in 1..Len(e)
        BY <1>0, <3>1
      <4>2. e[i] < e[j]
        BY <1>0, <1>6, <4>1 DEF Ascending
      <4> QED BY <1>2, <4>1, <4>2
    <3>2. CASE i <= Len(e) /\ Len(e) < j
      <4>1. j - Len(e) \in 1..Len(l) /\ j = Len(e) + (j - Len(e)) /\ i \in 1..Len(e)
        BY <1>0, <1>2, <3>2
      <4>2. c[j] = l[j - Len(e)] /\ c[i] = e[i]
        BY <1>2, <4>1
      <4>3. c[j] \in Range(l) /\ c[i] \in Range(e)
        BY <1>0, <4>1, <4>2 DEF Range
      <4> QED BY <1>1, <1>6, <4>3
    <3>3. CASE Len(e) < i
      <4>1. i - Len(e) \in DOMAIN l /\ j - Len(e) \in DOMAIN l /\ i - Len(e) < j - Len(e)
            /\ i = Len(e) + (i - Len(e)) /\ j = Len(e) + (j - Len(e))
        BY <1>0, <1>2, <3>3
      <4>2. l[i - Len(e)] < l[j - Len(e)]
        BY <1>1, <1>6, <4>1 DEF Ascending
      <4>3. c[i] = l[i - Len(e)] /\ c[j] = l[j - Len(e)]
        BY <1>0, <1>2, <4>1
      <4> QED BY <4>2, <4>3
    <3>4. i \in Nat /\ j \in Nat /\ Len(e) \in Nat
      BY <1>2
    <3> QED BY <3>1, <3>2, <3>3, <3>4
  <2>2. \A m \in Range(c) : m \in 1..n
    BY <1>1, <1>3, <1>6
  <2>3. Len(c) <= n
    BY <1>2, <2>1, <2>2, AscendingIsShort
  <2>4. Len(c) <= BufferLimit
    BY <1>2, <1>4, <1>6, <2>3
  <2>5. appendChat(e, s) = c
    BY <1>2, <1>4, <2>4, LastOnes
  <2> QED BY <1>1, <1>3, <2>1, <2>5
<1> QED BY <1>1, <1>3, <1>5, <1>6

-----------------------------------------------------------------------------
(* What a message carries. *)
LEMMA MessageFields ==
  ASSUME NEW x \in Message
  PROVE  /\ x.type \in {"ack", "state", "over", "paused", "voteStarted", "waitExtended", "resumed", "conceded",
                        "message", "reaction", "history"}
         /\ HasState(x) => x.game \in Game
         /\ x.type = "ack" => x.pause \in Pauses
         /\ Tells(x) => x.chat \in Seq(Nat) /\ x.hearts \subseteq Nat
         /\ x.type \in {"message", "reaction"} => x.id \in Nat
         /\ x.type = "reaction" => x.on \in BOOLEAN
BY DEF Message, HasState, Tells

LEMMA MessagesMade ==
  /\ \A g \in Game, p \in Pauses, c \in Seq(Nat), hs \in SUBSET Nat :
       [type |-> "ack", game |-> g, pause |-> p, chat |-> c, hearts |-> hs] \in Message
  /\ \A g \in Game : [type |-> "state", game |-> g] \in Message /\ [type |-> "over", game |-> g] \in Message
  /\ \A t \in {"paused", "voteStarted", "waitExtended", "resumed", "conceded"} : [type |-> t] \in Message
  /\ \A m \in Nat, on \in BOOLEAN :
       [type |-> "message", id |-> m] \in Message /\ [type |-> "reaction", id |-> m, on |-> on] \in Message
  /\ \A c \in Seq(Nat), hs \in SUBSET Nat : [type |-> "history", chat |-> c, hearts |-> hs] \in Message
<1>1. \A g \in Game, p \in Pauses, c \in Seq(Nat), hs \in SUBSET Nat :
        [type |-> "ack", game |-> g, pause |-> p, chat |-> c, hearts |-> hs] \in Message
  BY DEF Message
<1>2. \A g \in Game : [type |-> "state", game |-> g] \in Message /\ [type |-> "over", game |-> g] \in Message
  BY DEF Message
<1>3. \A t \in {"paused", "voteStarted", "waitExtended", "resumed", "conceded"} : [type |-> t] \in Message
  BY DEF Message
<1>4. \A m \in Nat, on \in BOOLEAN :
        [type |-> "message", id |-> m] \in Message /\ [type |-> "reaction", id |-> m, on |-> on] \in Message
  BY DEF Message
<1>5. \A c \in Seq(Nat), hs \in SUBSET Nat : [type |-> "history", chat |-> c, hearts |-> hs] \in Message
  BY DEF Message
<1> QED BY <1>1, <1>2, <1>3, <1>4, <1>5

(* The pause after a message that adds to it. *)
Adds(x, p) ==
  IF x.type = "paused" THEN IF p = "voting" THEN "voting" ELSE "waiting"
  ELSE IF x.type = "waitExtended" THEN IF p = "none" THEN "none" ELSE "waiting"
  ELSE p

(* What a copy has become when the page has heard a message. *)
ChatOf(v) == IF v = Nothing THEN <<>> ELSE v.chat
HeartsOf(v) == IF v = Nothing THEN {} ELSE v.hearts

LEMMA Hearing ==
  ASSUME RoomAssumption, NEW x \in Message, NEW v \in View \cup {Nothing}
  PROVE  LET u == Heard(v, x)
         IN  /\ u \in View \cup {Nothing}
             /\ u = Nothing <=> v = Nothing /\ ~HasState(x)
             /\ HasState(x) => u.game = x.game
             /\ v # Nothing /\ ~HasState(x) => u.game = v.game
             /\ x.type = "ack" \/ (v # Nothing /\ Decides(x)) => u.pause = Verdict(x)
             /\ v # Nothing /\ ~Decides(x) => u.pause = Adds(x, v.pause)
             /\ u # Nothing => u.chat = IF Tells(x) THEN appendChat(x.chat, ChatOf(v))
                                        ELSE IF x.type = "message" THEN appendChat(ChatOf(v), <<x.id>>)
                                        ELSE ChatOf(v)
             /\ u # Nothing => u.hearts = IF Tells(x) THEN x.hearts \cup (HeartsOf(v) \ Range(x.chat))
                                          ELSE IF x.type = "reaction" /\ x.id \in Range(ChatOf(v))
                                               THEN IF x.on THEN HeartsOf(v) \cup {x.id} ELSE HeartsOf(v) \ {x.id}
                                          ELSE HeartsOf(v)
<1> DEFINE u == Heard(v, x)
<1>0. Nothing \notin View
  BY DEF RoomAssumption
<1>1. CASE v = Nothing /\ ~HasState(x)
  BY <1>0, <1>1, MessageFields DEF Heard, HasState
<1>2. CASE ~(v = Nothing /\ ~HasState(x))
  <2> DEFINE w == IF v = Nothing THEN Blank(x.game, "none") ELSE v
  <2>1. w \in View
    <3>1. v = Nothing => x.game \in Game
      BY <1>2, MessageFields
    <3> QED BY <3>1 DEF Blank, View, Pauses
  <2>2. w.chat = ChatOf(v) /\ w.hearts = HeartsOf(v) /\ (v # Nothing => w = v)
    BY DEF Blank, ChatOf, HeartsOf
  <2>3. w.chat \in Seq(Nat) /\ w.hearts \subseteq Nat /\ w.game \in Game /\ w.pause \in Pauses
    BY <2>1 DEF View
  <2>4. v = Nothing => x.type \in {"ack", "state", "over"}
    BY <1>2 DEF HasState
  <2>5. u = CASE x.type = "ack" -> [game |-> x.game, pause |-> x.pause, chat |-> appendChat(x.chat, w.chat),
                                   hearts |-> x.hearts \cup (w.hearts \ Range(x.chat))]
             [] x.type = "state" -> [w EXCEPT !.game = x.game]
             [] x.type = "over" -> [w EXCEPT !.game = x.game, !.pause = "none"]
             [] x.type = "paused" -> [w EXCEPT !.pause = IF w.pause = "voting" THEN "voting" ELSE "waiting"]
             [] x.type = "voteStarted" -> [w EXCEPT !.pause = "voting"]
             [] x.type = "waitExtended" -> [w EXCEPT !.pause = IF w.pause = "none" THEN "none" ELSE "waiting"]
             [] x.type \in {"resumed", "conceded"} -> [w EXCEPT !.pause = "none"]
             [] x.type = "message" -> [w EXCEPT !.chat = appendChat(w.chat, <<x.id>>)]
             [] x.type = "reaction" -> applyReaction(w, x.id, x.on)
             [] x.type = "history" -> [w EXCEPT !.chat = appendChat(x.chat, w.chat),
                                                !.hearts = x.hearts \cup (w.hearts \ Range(x.chat))]
    BY <2>4 DEF Heard
  <2> HIDE DEF w, u
  <2>6. CASE x.type = "ack"
    <3>1. u = [game |-> x.game, pause |-> x.pause, chat |-> appendChat(x.chat, w.chat),
               hearts |-> x.hearts \cup (w.hearts \ Range(x.chat))]
      BY <2>5, <2>6
    <3>2. appendChat(x.chat, w.chat) \in Seq(Nat) /\ x.game \in Game /\ x.pause \in Pauses /\ x.hearts \subseteq Nat
      BY <2>3, <2>6, MessageFields, AppendedChat DEF HasState, Tells
    <3>3. u \in View
      BY <2>3, <3>1, <3>2 DEF View
    <3>4. /\ u.game = x.game /\ u.pause = x.pause /\ u.chat = appendChat(x.chat, w.chat)
          /\ u.hearts = x.hearts \cup (w.hearts \ Range(x.chat))
      BY <3>1
    <3>5. HasState(x) /\ Tells(x) /\ Decides(x) /\ Verdict(x) = x.pause
      BY <2>6 DEF HasState, Tells, Decides, Verdict
    <3> QED BY <1>0, <2>2, <2>6, <3>3, <3>4, <3>5 DEF u
  <2>7. CASE x.type \in {"state", "over"}
    <3>1. u = [w EXCEPT !.game = x.game, !.pause = IF x.type = "over" THEN "none" ELSE w.pause]
      <4>1. w = [game |-> w.game, pause |-> w.pause, chat |-> w.chat, hearts |-> w.hearts]
        BY <2>1 DEF View
      <4>2. x.type = "state" => u = [w EXCEPT !.game = x.game]
        BY <2>5
      <4>3. x.type = "over" => u = [w EXCEPT !.game = x.game, !.pause = "none"]
        BY <2>5
      <4> QED BY <2>7, <4>1, <4>2, <4>3
    <3>2. x.game \in Game
      BY <2>7, MessageFields DEF HasState
    <3>3. u \in View /\ u.game = x.game /\ u.chat = w.chat /\ u.hearts = w.hearts
          /\ u.pause = IF x.type = "over" THEN "none" ELSE w.pause
      BY <2>1, <2>3, <3>1, <3>2 DEF View, Pauses
    <3> QED BY <1>0, <2>2, <2>7, <3>3 DEF u, HasState, Tells, Decides, Verdict, Adds
  <2>8. CASE x.type \in {"paused", "voteStarted", "waitExtended", "resumed", "conceded"}
    <3>1. v # Nothing /\ w = v
      BY <2>2, <2>4, <2>8
    <3>2. u = [w EXCEPT !.pause = IF Decides(x) THEN Verdict(x) ELSE Adds(x, w.pause)]
      BY <2>5, <2>8 DEF Decides, Verdict, Adds
    <3>3. (IF Decides(x) THEN Verdict(x) ELSE Adds(x, w.pause)) \in Pauses
      BY <2>3, <2>8 DEF Decides, Verdict, Adds, Pauses
    <3>4. u \in View /\ u.game = w.game /\ u.chat = w.chat /\ u.hearts = w.hearts
          /\ u.pause = IF Decides(x) THEN Verdict(x) ELSE Adds(x, w.pause)
      BY <2>1, <3>2, <3>3 DEF View
    <3> QED BY <1>0, <2>2, <2>8, <3>1, <3>4 DEF u, HasState, Tells
  <2>9. CASE x.type = "message"
    <3>1. v # Nothing /\ w = v
      BY <2>2, <2>4, <2>9
    <3>2. u = [w EXCEPT !.chat = appendChat(w.chat, <<x.id>>)]
      BY <2>5, <2>9
    <3>3. appendChat(w.chat, <<x.id>>) \in Seq(Nat)
      <4>1. <<x.id>> \in Seq(Nat)
        BY <2>9, MessageFields
      <4> QED BY <2>3, <4>1, AppendedChat
    <3>4. u \in View /\ u.game = w.game /\ u.pause = w.pause /\ u.hearts = w.hearts /\ u.chat = appendChat(w.chat, <<x.id>>)
      BY <2>1, <3>2, <3>3 DEF View
    <3> QED BY <1>0, <2>2, <2>9, <3>1, <3>4 DEF u, HasState, Tells, Decides, Adds
  <2>10. CASE x.type = "reaction"
    <3>1. v # Nothing /\ w = v
      BY <2>2, <2>4, <2>10
    <3>2. u = IF x.id \notin Range(w.chat) THEN w
              ELSE [w EXCEPT !.hearts = IF x.on THEN w.hearts \cup {x.id} ELSE w.hearts \ {x.id}]
      BY <2>5, <2>10 DEF applyReaction
    <3>3. x.id \in Nat
      BY <2>10, MessageFields
    <3>4. u \in View /\ u.game = w.game /\ u.pause = w.pause /\ u.chat = w.chat
          /\ u.hearts = IF x.id \in Range(w.chat) THEN IF x.on THEN w.hearts \cup {x.id} ELSE w.hearts \ {x.id}
                        ELSE w.hearts
      BY <2>1, <2>3, <3>2, <3>3 DEF View
    <3> QED BY <1>0, <2>2, <2>10, <3>1, <3>4 DEF u, HasState, Tells, Decides, Adds
  <2>11. CASE x.type = "history"
    <3>1. v # Nothing /\ w = v
      BY <2>2, <2>4, <2>11
    <3>2. u = [w EXCEPT !.chat = appendChat(x.chat, w.chat), !.hearts = x.hearts \cup (w.hearts \ Range(x.chat))]
      BY <2>5, <2>11
    <3>3. appendChat(x.chat, w.chat) \in Seq(Nat) /\ x.hearts \subseteq Nat
      BY <2>3, <2>11, MessageFields, AppendedChat DEF Tells
    <3>4. u \in View /\ u.game = w.game /\ u.pause = w.pause /\ u.chat = appendChat(x.chat, w.chat)
          /\ u.hearts = x.hearts \cup (w.hearts \ Range(x.chat))
      BY <2>1, <2>3, <3>2, <3>3 DEF View
    <3> QED BY <1>0, <2>2, <2>11, <3>1, <3>4 DEF u, HasState, Tells, Decides, Adds
  <2> QED BY <2>6, <2>7, <2>8, <2>9, <2>10, <2>11, MessageFields
<1> QED BY <1>1, <1>2

(* A queue with one message more, and one less. *)
LEMMA QueueGrows ==
  ASSUME NEW q \in Seq(Message), NEW x \in Message
  PROVE  /\ Append(q, x) \in Seq(Message) /\ Len(q) \in Nat /\ Len(Append(q, x)) = Len(q) + 1
         /\ \A i \in 1..Len(q) : Append(q, x)[i] = q[i] /\ i \in 1..(Len(q) + 1) /\ i # Len(q) + 1
         /\ Append(q, x)[Len(q) + 1] = x /\ 1..(Len(q) + 1) = 1..Len(q) \cup {Len(q) + 1}
OBVIOUS

LEMMA QueueShrinks ==
  ASSUME NEW q \in Seq(Message), q # <<>>
  PROVE  /\ Tail(q) \in Seq(Message) /\ Len(q) \in Nat /\ Len(q) >= 1 /\ Len(Tail(q)) = Len(q) - 1
         /\ \A i \in 1..(Len(q) - 1) : Tail(q)[i] = q[i + 1] /\ i + 1 \in 1..Len(q)
         /\ \A i \in 1..Len(q) : i = 1 \/ (i - 1 \in 1..(Len(q) - 1) /\ Tail(q)[i - 1] = q[i])
         /\ Head(q) = q[1] /\ Head(q) \in Message /\ 1 \in 1..Len(q)
OBVIOUS

(* What the page will show of the game, after a message more and after the first is heard. *)
LEMMA GameAppended ==
  ASSUME NEW q \in Seq(Message), NEW x \in Message, NEW v, NEW g,
         IF HasState(x) THEN x.game = g ELSE GameWillBe(q, v, g)
  PROVE  GameWillBe(Append(q, x), v, g)
<1> DEFINE r == Append(q, x)
           n == Len(q) + 1
<1>1. /\ Len(q) \in Nat /\ Len(r) = n /\ \A i \in 1..Len(q) : r[i] = q[i] /\ i \in 1..n /\ i # n
      /\ r[n] = x /\ 1..n = 1..Len(q) \cup {n}
  BY QueueGrows
<1> HIDE DEF r
<1>2. CASE HasState(x)
  <2>1. n \in 1..Len(r) /\ (n + 1)..Len(r) = {}
    BY <1>1
  <2> QED BY <1>1, <1>2, <2>1 DEF GameWillBe, r
<1>3. CASE ~HasState(x)
  <2>1. CASE \E i \in 1..Len(q) : HasState(q[i]) /\ q[i].game = g /\ \A j \in (i + 1)..Len(q) : ~HasState(q[j])
    <3>1. PICK i \in 1..Len(q) : HasState(q[i]) /\ q[i].game = g /\ \A j \in (i + 1)..Len(q) : ~HasState(q[j])
      BY <2>1
    <3>2. \A j \in (i + 1)..n : j = n \/ (j \in (i + 1)..Len(q) /\ j \in 1..Len(q))
      BY <1>1
    <3>3. i \in 1..Len(r) /\ HasState(r[i]) /\ r[i].game = g /\ \A j \in (i + 1)..Len(r) : ~HasState(r[j])
      BY <1>1, <1>3, <3>1, <3>2
    <3> QED BY <3>3 DEF GameWillBe, r
  <2>2. CASE (\A i \in 1..Len(q) : ~HasState(q[i])) /\ v # Nothing /\ v.game = g
    <3>1. \A i \in 1..Len(r) : ~HasState(r[i])
      BY <1>1, <1>3, <2>2
    <3> QED BY <2>2, <3>1 DEF GameWillBe, r
  <2> QED BY <1>3, <2>1, <2>2 DEF GameWillBe
<1> QED BY <1>2, <1>3

LEMMA GameHeard ==
  ASSUME RoomAssumption, NEW q \in Seq(Message), q # <<>>, NEW v \in View \cup {Nothing}, NEW g, GameWillBe(q, v, g)
  PROVE  GameWillBe(Tail(q), Heard(v, Head(q)), g)
<1> DEFINE t == Tail(q)
           u == Heard(v, Head(q))
<1>1. /\ Len(q) \in Nat /\ Len(t) = Len(q) - 1
      /\ \A i \in 1..Len(t) : t[i] = q[i + 1] /\ i + 1 \in 1..Len(q)
      /\ \A i \in 1..Len(q) : i = 1 \/ (i - 1 \in 1..Len(t) /\ t[i - 1] = q[i])
      /\ Head(q) = q[1] /\ Head(q) \in Message
  BY QueueShrinks
<1>2. /\ u = Nothing <=> v = Nothing /\ ~HasState(q[1])
      /\ HasState(q[1]) => u.game = q[1].game
      /\ v # Nothing /\ ~HasState(q[1]) => u.game = v.game
  <2>1. PICK x \in Message : x = q[1] /\ x = Head(q)
    BY <1>1
  <2>2. /\ Heard(v, x) = Nothing <=> v = Nothing /\ ~HasState(x)
        /\ HasState(x) => Heard(v, x).game = x.game
        /\ v # Nothing /\ ~HasState(x) => Heard(v, x).game = v.game
    BY Hearing
  <2> QED BY <2>1, <2>2
<1> HIDE DEF t, u
<1>3. CASE \E i \in 1..Len(q) : HasState(q[i]) /\ q[i].game = g /\ \A j \in (i + 1)..Len(q) : ~HasState(q[j])
  <2>1. PICK i \in 1..Len(q) : HasState(q[i]) /\ q[i].game = g /\ \A j \in (i + 1)..Len(q) : ~HasState(q[j])
    BY <1>3
  <2>2. CASE i = 1
    <3>1. \A j \in 1..Len(t) : ~HasState(t[j])
      <4> TAKE j \in 1..Len(t)
      <4>1. j + 1 \in (i + 1)..Len(q)
        BY <1>1, <2>2
      <4> QED BY <1>1, <2>1, <4>1
    <3> QED BY <1>2, <2>1, <2>2, <3>1 DEF GameWillBe, t, u
  <2>3. CASE i # 1
    <3>1. i - 1 \in 1..Len(t) /\ t[i - 1] = q[i]
      BY <1>1, <2>3
    <3>2. \A j \in (i - 1 + 1)..Len(t) : ~HasState(t[j])
      <4> TAKE j \in (i - 1 + 1)..Len(t)
      <4>1. j + 1 \in (i + 1)..Len(q) /\ j \in 1..Len(t)
        BY <1>1
      <4> QED BY <1>1, <2>1, <4>1
    <3> QED BY <2>1, <3>1, <3>2 DEF GameWillBe, t
  <2> QED BY <2>2, <2>3
<1>4. CASE (\A i \in 1..Len(q) : ~HasState(q[i])) /\ v # Nothing /\ v.game = g
  <2>1. \A j \in 1..Len(t) : ~HasState(t[j])
    BY <1>1, <1>4
  <2>2. ~HasState(q[1])
    BY <1>4, QueueShrinks
  <2> QED BY <1>2, <1>4, <2>1, <2>2 DEF GameWillBe, t, u
<1> QED BY <1>3, <1>4 DEF GameWillBe

(* Of the pause: what comes of it through the messages after place i. *)
LEMMA ThenGrows ==
  ASSUME NEW q \in Seq(Message), NEW x \in Message, NEW i \in 0..Len(q), NEW p \in Pauses
  PROVE  Then(Append(q, x), i, p) = Adds(x, Then(q, i, p))
<1> DEFINE r == Append(q, x)
           n == Len(q) + 1
<1>1. /\ Len(q) \in Nat /\ Len(r) = n /\ \A j \in 1..Len(q) : r[j] = q[j]
      /\ r[n] = x /\ 1..n = 1..Len(q) \cup {n}
  BY QueueGrows
<1> HIDE DEF r
<1>2. (i + 1)..n = (i + 1)..Len(q) \cup {n} /\ (i + 1)..Len(q) \subseteq 1..Len(q)
  BY <1>1
<1>3. \A type \in {"paused", "waitExtended"} :
        (\E j \in (i + 1)..Len(r) : r[j].type = type) <=> x.type = type \/ \E j \in (i + 1)..Len(q) : q[j].type = type
  BY <1>1, <1>2
<1> QED BY <1>3 DEF Then, Adds, Pauses, r

LEMMA ThenHeard ==
  ASSUME NEW q \in Seq(Message), q # <<>>, NEW p \in Pauses
  PROVE  /\ Then(Tail(q), 0, p) = Then(q, 1, p)
         /\ Then(Tail(q), 0, Adds(q[1], p)) = Then(q, 0, p)
         /\ \A i \in 2..Len(q) : Then(Tail(q), i - 1, p) = Then(q, i, p)
<1> DEFINE t == Tail(q)
<1>1. /\ Len(q) \in Nat /\ Len(t) = Len(q) - 1 /\ Len(q) >= 1
      /\ \A i \in 1..Len(t) : t[i] = q[i + 1] /\ i + 1 \in 1..Len(q)
  BY QueueShrinks
<1> HIDE DEF t
<1>2. ASSUME NEW i \in 1..Len(q), NEW type
      PROVE  (\E j \in (i - 1 + 1)..Len(t) : t[j].type = type) <=> \E j \in (i + 1)..Len(q) : q[j].type = type
  <2>1. ASSUME NEW j \in (i - 1 + 1)..Len(t), t[j].type = type PROVE \E k \in (i + 1)..Len(q) : q[k].type = type
    <3>1. j + 1 \in (i + 1)..Len(q) /\ q[j + 1] = t[j]
      BY <1>1
    <3> QED BY <2>1, <3>1
  <2>2. ASSUME NEW j \in (i + 1)..Len(q), q[j].type = type PROVE \E k \in (i - 1 + 1)..Len(t) : t[k].type = type
    <3>1. j - 1 \in (i - 1 + 1)..Len(t) /\ t[j - 1] = q[j]
      BY <1>1
    <3> QED BY <2>2, <3>1
  <2> QED BY <2>1, <2>2
<1>3. \A i \in 1..Len(q) : Then(t, i - 1, p) = Then(q, i, p)
  <2> TAKE i \in 1..Len(q)
  <2>1. (\E j \in (i - 1 + 1)..Len(t) : t[j].type = "paused") <=> \E j \in (i + 1)..Len(q) : q[j].type = "paused"
    BY <1>2
  <2>2. (\E j \in (i - 1 + 1)..Len(t) : t[j].type = "waitExtended") <=> \E j \in (i + 1)..Len(q) : q[j].type = "waitExtended"
    BY <1>2
  <2> QED BY <2>1, <2>2 DEF Then
<1>4. 1 \in 1..Len(q) /\ 1 - 1 = 0 /\ 2..Len(q) \subseteq 1..Len(q)
  BY <1>1
<1>5. \A type : (\E j \in 1..Len(q) : q[j].type = type) <=> q[1].type = type \/ \E j \in 1..Len(t) : t[j].type = type
  <2> TAKE type
  <2>1. 1..Len(q) = {1} \cup 2..Len(q)
    BY <1>1
  <2>2. (\E j \in 1..Len(t) : t[j].type = type) <=> \E j \in 2..Len(q) : q[j].type = type
    <3>1. (\E j \in (1 - 1 + 1)..Len(t) : t[j].type = type) <=> \E j \in (1 + 1)..Len(q) : q[j].type = type
      BY <1>2, <1>4
    <3> QED BY <3>1
  <2> QED BY <2>1, <2>2
<1>6. Then(t, 0, Adds(q[1], p)) = Then(q, 0, p)
  <2>1. (\E j \in (0 + 1)..Len(q) : q[j].type = "paused") <=> q[1].type = "paused" \/ \E j \in (0 + 1)..Len(t) : t[j].type = "paused"
    <3>1. (\E j \in 1..Len(q) : q[j].type = "paused") <=> q[1].type = "paused" \/ \E j \in 1..Len(t) : t[j].type = "paused"
      BY <1>5
    <3>2. 0 + 1 = 1
      OBVIOUS
    <3> QED BY <3>1, <3>2
  <2>2. (\E j \in (0 + 1)..Len(q) : q[j].type = "waitExtended") <=> q[1].type = "waitExtended" \/ \E j \in (0 + 1)..Len(t) : t[j].type = "waitExtended"
    <3>1. (\E j \in 1..Len(q) : q[j].type = "waitExtended") <=> q[1].type = "waitExtended" \/ \E j \in 1..Len(t) : t[j].type = "waitExtended"
      BY <1>5
    <3>2. 0 + 1 = 1
      OBVIOUS
    <3> QED BY <3>1, <3>2
  <2>3. p = "none" \/ p = "waiting" \/ p = "voting"
    BY DEF Pauses
  <2>4. "paused" # "waitExtended" /\ "none" # "waiting" /\ "voting" # "waiting" /\ "none" # "voting"
    OBVIOUS
  <2>5. CASE q[1].type = "paused"
    BY <2>1, <2>2, <2>3, <2>4, <2>5 DEF Then, Adds
  <2>6. CASE q[1].type = "waitExtended"
    BY <2>1, <2>2, <2>3, <2>4, <2>6 DEF Then, Adds
  <2>7. CASE q[1].type # "paused" /\ q[1].type # "waitExtended"
    BY <2>1, <2>2, <2>3, <2>4, <2>7 DEF Then, Adds
  <2> QED BY <2>5, <2>6, <2>7
<1> QED BY <1>3, <1>4, <1>6 DEF t

LEMMA PauseAppended ==
  ASSUME NEW q \in Seq(Message), NEW x \in Message, NEW v \in View \cup {Nothing}, NEW p, NEW o,
         IF Decides(x) THEN Verdict(x) = p ELSE PauseWillBe(q, v, o) /\ p = Adds(x, o)
  PROVE  PauseWillBe(Append(q, x), v, p)
<1> DEFINE r == Append(q, x)
           n == Len(q) + 1
<1>1. /\ Len(q) \in Nat /\ Len(r) = n /\ \A i \in 1..Len(q) : r[i] = q[i] /\ i \in 1..n /\ i # n /\ q[i] \in Message
      /\ r[n] = x /\ 1..n = 1..Len(q) \cup {n}
  BY QueueGrows
<1>2. \A i \in 0..Len(q), c \in Pauses : Then(r, i, c) = Adds(x, Then(q, i, c))
  BY ThenGrows
<1>3. \A y \in Message : Decides(y) => Verdict(y) \in Pauses
  BY MessageFields DEF Decides, Verdict, Pauses
<1> HIDE DEF r
<1>4. CASE Decides(x)
  <2>1. n \in 1..Len(r) /\ (n + 1)..Len(r) = {}
    BY <1>1
  <2>2. Then(r, n, p) = p
    BY <1>3, <1>4, <2>1 DEF Then, Pauses
  <2> QED BY <1>1, <1>4, <2>1, <2>2 DEF PauseWillBe, r
<1>5. CASE ~Decides(x)
  <2>1. CASE \E i \in 1..Len(q) : /\ Decides(q[i]) /\ \A j \in (i + 1)..Len(q) : ~Decides(q[j])
                                  /\ Then(q, i, Verdict(q[i])) = o
    <3>1. PICK i \in 1..Len(q) : /\ Decides(q[i]) /\ \A j \in (i + 1)..Len(q) : ~Decides(q[j])
                                 /\ Then(q, i, Verdict(q[i])) = o
      BY <2>1
    <3>2. \A j \in (i + 1)..n : j = n \/ (j \in (i + 1)..Len(q) /\ j \in 1..Len(q))
      BY <1>1
    <3>3. i \in 1..Len(r) /\ Decides(r[i]) /\ r[i] = q[i] /\ \A j \in (i + 1)..Len(r) : ~Decides(r[j])
      BY <1>1, <1>5, <3>1, <3>2
    <3>4. Then(r, i, Verdict(q[i])) = p
      <4>1. i \in 0..Len(q) /\ Verdict(q[i]) \in Pauses
        BY <1>1, <1>3, <3>1
      <4>2. PICK c \in Pauses : c = Verdict(q[i])
        BY <4>1
      <4>3. Then(q, i, c) = o
        BY <3>1, <4>2
      <4>4. Then(r, i, c) = Adds(x, o)
        BY <1>2, <4>1, <4>3
      <4>5. p = Adds(x, o)
        BY <1>5
      <4> QED BY <4>2, <4>4, <4>5
    <3> QED BY <3>3, <3>4 DEF PauseWillBe, r
  <2>2. CASE (\A i \in 1..Len(q) : ~Decides(q[i])) /\ v # Nothing /\ Then(q, 0, v.pause) = o
    <3>1. \A i \in 1..Len(r) : ~Decides(r[i])
      BY <1>1, <1>5, <2>2
    <3>2. v.pause \in Pauses
      BY <2>2 DEF View
    <3>3. Then(r, 0, v.pause) = p
      <4>1. 0 \in 0..Len(q)
        BY <1>1
      <4>2. Then(r, 0, v.pause) = Adds(x, Then(q, 0, v.pause))
        BY <1>2, <3>2, <4>1
      <4>3. p = Adds(x, o)
        BY <1>5
      <4> QED BY <2>2, <4>2, <4>3
    <3> QED BY <2>2, <3>1, <3>3 DEF PauseWillBe, r
  <2> QED BY <1>5, <2>1, <2>2 DEF PauseWillBe
<1> QED BY <1>4, <1>5

LEMMA PauseHeard ==
  ASSUME RoomAssumption, NEW q \in Seq(Message), q # <<>>, NEW v \in View \cup {Nothing}, NEW p, PauseWillBe(q, v, p),
         v # Nothing \/ \E i \in 1..Len(q) : q[i].type = "ack"
  PROVE  PauseWillBe(Tail(q), Heard(v, Head(q)), p)
<1> DEFINE t == Tail(q)
           u == Heard(v, Head(q))
<1>1. /\ Len(q) \in Nat /\ Len(t) = Len(q) - 1 /\ 1 \in 1..Len(q)
      /\ \A i \in 1..Len(t) : t[i] = q[i + 1] /\ i + 1 \in 1..Len(q)
      /\ \A i \in 1..Len(q) : i = 1 \/ (i - 1 \in 1..Len(t) /\ t[i - 1] = q[i])
      /\ Head(q) = q[1] /\ \A i \in 1..Len(q) : q[i] \in Message
  BY QueueShrinks
<1>2. /\ u = Nothing <=> v = Nothing /\ ~HasState(q[1])
      /\ q[1].type = "ack" \/ (v # Nothing /\ Decides(q[1])) => u.pause = Verdict(q[1])
      /\ v # Nothing /\ ~Decides(q[1]) => u.pause = Adds(q[1], v.pause)
  <2>1. Head(q) \in Message /\ Head(q) = q[1]
    BY <1>1
  <2>2. PICK x \in Message : x = Head(q) /\ x = q[1]
    BY <2>1
  <2>3. /\ Heard(v, x) = Nothing <=> v = Nothing /\ ~HasState(x)
        /\ x.type = "ack" \/ (v # Nothing /\ Decides(x)) => Heard(v, x).pause = Verdict(x)
        /\ v # Nothing /\ ~Decides(x) => Heard(v, x).pause = Adds(x, v.pause)
    BY Hearing
  <2> QED BY <2>2, <2>3
<1>3. \A c \in Pauses : /\ Then(t, 0, c) = Then(q, 1, c) /\ Then(t, 0, Adds(q[1], c)) = Then(q, 0, c)
                        /\ \A i \in 2..Len(q) : Then(t, i - 1, c) = Then(q, i, c)
  BY ThenHeard
<1>4. \A y \in Message : Decides(y) => Verdict(y) \in Pauses
  BY MessageFields DEF Decides, Verdict, Pauses
<1> HIDE DEF t, u
<1>5. CASE \E i \in 1..Len(q) : /\ Decides(q[i]) /\ \A j \in (i + 1)..Len(q) : ~Decides(q[j])
                                /\ Then(q, i, Verdict(q[i])) = p
  <2>1. PICK i \in 1..Len(q) : /\ Decides(q[i]) /\ \A j \in (i + 1)..Len(q) : ~Decides(q[j])
                               /\ Then(q, i, Verdict(q[i])) = p
    BY <1>5
  <2>2. Verdict(q[i]) \in Pauses
    BY <1>1, <1>4, <2>1
  <2>3. CASE i = 1
    <3>1. \A j \in 1..Len(t) : ~Decides(t[j])
      <4> TAKE j \in 1..Len(t)
      <4>1. j + 1 \in (i + 1)..Len(q)
        BY <1>1, <2>3
      <4> QED BY <1>1, <2>1, <4>1
    <3>2. v # Nothing \/ q[1].type = "ack"
      <4>1. SUFFICES ASSUME NEW k \in 1..Len(q), q[k].type = "ack" PROVE q[1].type = "ack"
        OBVIOUS
      <4>2. Decides(q[k])
        BY <4>1 DEF Decides
      <4>3. k \notin (i + 1)..Len(q)
        BY <2>1, <4>2
      <4> QED BY <2>3, <4>1, <4>3
    <3>3. u # Nothing /\ u.pause = Verdict(q[1])
      BY <1>2, <2>1, <2>3, <3>2 DEF HasState
    <3> QED BY <1>3, <2>1, <2>2, <2>3, <3>1, <3>3 DEF PauseWillBe, t, u
  <2>4. CASE i # 1
    <3>1. i - 1 \in 1..Len(t) /\ t[i - 1] = q[i] /\ i \in 2..Len(q)
      BY <1>1, <2>4
    <3>2. \A j \in (i - 1 + 1)..Len(t) : ~Decides(t[j])
      <4> TAKE j \in (i - 1 + 1)..Len(t)
      <4>1. j + 1 \in (i + 1)..Len(q) /\ j \in 1..Len(t)
        BY <1>1
      <4> QED BY <1>1, <2>1, <4>1
    <3>3. Then(t, i - 1, Verdict(t[i - 1])) = p
      <4>1. PICK c \in Pauses : c = Verdict(q[i])
        BY <2>2
      <4>2. Then(q, i, c) = p
        BY <2>1, <4>1
      <4>3. Then(t, i - 1, c) = p
        BY <1>3, <3>1, <4>2
      <4> QED BY <3>1, <4>1, <4>3
    <3> QED BY <2>1, <3>1, <3>2, <3>3 DEF PauseWillBe, t
  <2> QED BY <2>3, <2>4
<1>6. CASE (\A i \in 1..Len(q) : ~Decides(q[i])) /\ v # Nothing /\ Then(q, 0, v.pause) = p
  <2>1. \A j \in 1..Len(t) : ~Decides(t[j])
    BY <1>1, <1>6
  <2>2. u # Nothing /\ u.pause = Adds(q[1], v.pause)
    BY <1>1, <1>2, <1>6
  <2>3. v.pause \in Pauses
    BY <1>6 DEF View
  <2>4. Then(t, 0, u.pause) = p
    BY <1>3, <1>6, <2>2, <2>3
  <2> QED BY <2>1, <2>2, <2>4 DEF PauseWillBe, t, u
<1> QED BY <1>5, <1>6 DEF PauseWillBe

(* A pause taken over from a REST answer, as it is, ends as it is. *)
LEMMA PauseTakenOver ==
  ASSUME RoomAssumption, NEW q \in Seq(Message), NEW v \in View, NEW u \in View, NEW p \in Pauses, PauseWillBe(q, v, p),
         u.pause \in {v.pause, p}
  PROVE  PauseWillBe(q, u, p)
<1>1. CASE u.pause = v.pause
  BY <1>1 DEF PauseWillBe, View
<1>2. CASE u.pause = p
  <2>1. v.pause \in Pauses
    BY DEF View
  <2>2. Then(q, 0, v.pause) = p => Then(q, 0, p) = p
    BY <2>1 DEF Then, Pauses
  <2>3. u # Nothing \/ \E i \in 1..Len(q) : Decides(q[i])
    BY DEF RoomAssumption
  <2> QED BY <1>2, <2>2, <2>3 DEF PauseWillBe
<1> QED BY <1>1, <1>2

(* All that was said, in its order. *)
LEMMA AllSaid ==
  ASSUME NEW k \in Nat
  PROVE  Said(k) \in Seq(Nat) /\ Range(Said(k)) = 1..k /\ Ascending(Said(k))
<1>1. Said(k) \in Seq(Nat) /\ Len(Said(k)) = k /\ DOMAIN Said(k) = 1..k /\ \A i \in 1..k : Said(k)[i] = i
  BY DEF Said
<1> QED BY <1>1 DEF Range, Ascending

(* The hearts, after a message more. *)
LEMMA HeartOff ==
  ASSUME NEW q \in Seq(Message), NEW v, NEW m, \A i \in 1..Len(q) : ~Sets(q[i], m), v # Nothing => m \notin v.hearts
  PROVE  HeartWillBe(q, v, m, FALSE)
BY DEF HeartWillBe

LEMMA HeartAppended ==
  ASSUME NEW q \in Seq(Message), NEW x \in Message, NEW v, NEW m, NEW on \in BOOLEAN,
         IF Sets(x, m) THEN IsOn(x, m) <=> on ELSE HeartWillBe(q, v, m, on),
         ~(x.type = "message" /\ x.id = m)
  PROVE  HeartWillBe(Append(q, x), v, m, on)
<1> DEFINE r == Append(q, x)
           n == Len(q) + 1
<1>1. /\ Len(q) \in Nat /\ Len(r) = n /\ \A i \in 1..Len(q) : r[i] = q[i] /\ i \in 1..n /\ i # n
      /\ r[n] = x /\ 1..n = 1..Len(q) \cup {n}
  BY QueueGrows
<1> HIDE DEF r
<1>2. CASE Sets(x, m)
  <2>1. n \in 1..Len(r) /\ (n + 1)..Len(r) = {}
    BY <1>1
  <2> QED BY <1>1, <1>2, <2>1 DEF HeartWillBe, r
<1>3. CASE ~Sets(x, m)
  <2>1. CASE \E i \in 1..Len(q) : /\ Sets(q[i], m) /\ (IsOn(q[i], m) <=> on)
                                  /\ \A j \in (i + 1)..Len(q) : ~Sets(q[j], m)
    <3>1. PICK i \in 1..Len(q) : /\ Sets(q[i], m) /\ (IsOn(q[i], m) <=> on)
                                 /\ \A j \in (i + 1)..Len(q) : ~Sets(q[j], m)
      BY <2>1
    <3>2. \A j \in (i + 1)..n : j = n \/ (j \in (i + 1)..Len(q) /\ j \in 1..Len(q))
      BY <1>1
    <3>3. i \in 1..Len(r) /\ Sets(r[i], m) /\ (IsOn(r[i], m) <=> on) /\ \A j \in (i + 1)..Len(r) : ~Sets(r[j], m)
      BY <1>1, <1>3, <3>1, <3>2
    <3> QED BY <3>3 DEF HeartWillBe, r
  <2>2. CASE /\ \A i \in 1..Len(q) : ~Sets(q[i], m)
             /\ WillHave(q, v, m) => (on <=> v # Nothing /\ m \in v.hearts)
    <3>1. \A i \in 1..Len(r) : ~Sets(r[i], m)
      BY <1>1, <1>3, <2>2
    <3>2. WillHave(r, v, m) => WillHave(q, v, m)
      BY <1>1 DEF WillHave
    <3> QED BY <2>2, <3>1, <3>2 DEF HeartWillBe, r
  <2> QED BY <1>3, <2>1, <2>2 DEF HeartWillBe
<1> QED BY <1>2, <1>3

(* And after the first is heard. *)
LEMMA HeartHeard ==
  ASSUME RoomAssumption, NEW q \in Seq(Message), q # <<>>, NEW v \in View \cup {Nothing}, QueueFits(q, v),
         NEW m \in Range(log), NEW on \in BOOLEAN, HeartWillBe(q, v, m, on), m \in Nat
  PROVE  HeartWillBe(Tail(q), Heard(v, Head(q)), m, on)
<1> DEFINE t == Tail(q)
           u == Heard(v, Head(q))
<1>1. /\ Len(q) \in Nat /\ Len(t) = Len(q) - 1 /\ 1 \in 1..Len(q)
      /\ \A i \in 1..Len(t) : t[i] = q[i + 1] /\ i + 1 \in 1..Len(q)
      /\ \A i \in 1..Len(q) : i = 1 \/ (i - 1 \in 1..Len(t) /\ t[i - 1] = q[i])
      /\ Head(q) = q[1] /\ Head(q) \in Message
  BY QueueShrinks
<1>2. PICK x \in Message : x = Head(q) /\ x = q[1]
  BY <1>1
<1>3. /\ u = Nothing <=> v = Nothing /\ ~HasState(x)
      /\ u # Nothing => u.chat = IF Tells(x) THEN appendChat(x.chat, ChatOf(v))
                                 ELSE IF x.type = "message" THEN appendChat(ChatOf(v), <<x.id>>)
                                 ELSE ChatOf(v)
      /\ u # Nothing => u.hearts = IF Tells(x) THEN x.hearts \cup (HeartsOf(v) \ Range(x.chat))
                                   ELSE IF x.type = "reaction" /\ x.id \in Range(ChatOf(v))
                                        THEN IF x.on THEN HeartsOf(v) \cup {x.id} ELSE HeartsOf(v) \ {x.id}
                                   ELSE HeartsOf(v)
  <2>1. /\ Heard(v, x) = Nothing <=> v = Nothing /\ ~HasState(x)
        /\ Heard(v, x) # Nothing => Heard(v, x).chat = IF Tells(x) THEN appendChat(x.chat, ChatOf(v))
                                   ELSE IF x.type = "message" THEN appendChat(ChatOf(v), <<x.id>>)
                                   ELSE ChatOf(v)
        /\ Heard(v, x) # Nothing => Heard(v, x).hearts = IF Tells(x) THEN x.hearts \cup (HeartsOf(v) \ Range(x.chat))
                                     ELSE IF x.type = "reaction" /\ x.id \in Range(ChatOf(v))
                                          THEN IF x.on THEN HeartsOf(v) \cup {x.id} ELSE HeartsOf(v) \ {x.id}
                                     ELSE HeartsOf(v)
    BY Hearing
  <2> QED BY <1>2, <2>1
<1>4. /\ Tells(x) /\ m \in x.hearts => m \in Range(x.chat)
      /\ \A i \in 1..Len(t) : t[i].type = "message" => Older(x, t[i].id)
  <2>1. Tells(x) => HistoryFits(x.chat, x.hearts)
    BY <1>1, <1>2 DEF QueueFits
  <2>2. ASSUME NEW i \in 1..Len(t), t[i].type = "message" PROVE Older(x, t[i].id)
    <3>1. i + 1 \in 1..Len(q) /\ q[i + 1] = t[i] /\ 1 \in 1..(i + 1 - 1)
      BY <1>1
    <3> QED BY <1>2, <2>2, <3>1 DEF QueueFits
  <2> QED BY <2>1, <2>2 DEF HistoryFits
<1>5. Range(appendChat(x.chat, ChatOf(v))) \subseteq Range(x.chat) \cup Range(ChatOf(v)) \/ ~Tells(x)
  <2>1. Tells(x) => x.chat \in Seq(Nat)
    BY MessageFields
  <2>2. ChatOf(v) \in Seq(Nat)
    BY DEF ChatOf, View
  <2> QED BY <2>1, <2>2, AppendedChat
<1>6. Range(appendChat(ChatOf(v), <<x.id>>)) \subseteq Range(ChatOf(v)) \cup {x.id} \/ x.type # "message"
  <2>1. x.type = "message" => <<x.id>> \in Seq(Nat) /\ Range(<<x.id>>) = {x.id}
    BY MessageFields DEF Range
  <2>2. ChatOf(v) \in Seq(Nat)
    BY DEF ChatOf, View
  <2> QED BY <2>1, <2>2, AppendedChat
<1>7. Range(ChatOf(Nothing)) = {} /\ HeartsOf(Nothing) = {} /\ (v # Nothing => ChatOf(v) = v.chat /\ HeartsOf(v) = v.hearts)
  BY DEF ChatOf, HeartsOf, Range
<1> HIDE DEF t, u
<1>8. CASE \E i \in 1..Len(q) : /\ Sets(q[i], m) /\ (IsOn(q[i], m) <=> on)
                                /\ \A j \in (i + 1)..Len(q) : ~Sets(q[j], m)
  <2>1. PICK i \in 1..Len(q) : /\ Sets(q[i], m) /\ (IsOn(q[i], m) <=> on)
                               /\ \A j \in (i + 1)..Len(q) : ~Sets(q[j], m)
    BY <1>8
  <2>2. CASE i = 1
    <3>1. \A j \in 1..Len(t) : ~Sets(t[j], m)
      <4> TAKE j \in 1..Len(t)
      <4>1. j + 1 \in (i + 1)..Len(q)
        BY <1>1, <2>2
      <4> QED BY <1>1, <2>1, <4>1
    <3>2. Sets(x, m) /\ (IsOn(x, m) <=> on)
      BY <1>2, <2>1, <2>2
    <3>3. \A j \in 1..Len(t) : ~(t[j].type = "message" /\ t[j].id = m)
      <4> SUFFICES ASSUME NEW j \in 1..Len(t), t[j].type = "message", t[j].id = m PROVE FALSE
        OBVIOUS
      <4>1. Older(x, m)
        BY <1>4
      <4>2. m < m
        BY <3>2, <4>1 DEF Older, Sets
      <4> QED BY <4>2
    <3>4. u # Nothing /\ m \in Range(u.chat) => (on <=> m \in u.hearts)
      <4>1. CASE Tells(x)
        <5>1. m \in Range(x.chat) /\ (m \in x.hearts <=> on)
          BY <3>2, <4>1 DEF Sets, IsOn, Tells
        <5> QED BY <1>3, <4>1, <5>1
      <4>2. CASE ~Tells(x)
        <5>1. x.type = "reaction" /\ x.id = m /\ (x.on <=> on)
          BY <3>2, <4>2 DEF Sets, IsOn
        <5> QED BY <1>3, <4>2, <5>1
      <4> QED BY <4>1, <4>2
    <3> QED BY <3>1, <3>3, <3>4 DEF HeartWillBe, WillHave, t, u
  <2>3. CASE i # 1
    <3>1. i - 1 \in 1..Len(t) /\ t[i - 1] = q[i]
      BY <1>1, <2>3
    <3>2. \A j \in (i - 1 + 1)..Len(t) : ~Sets(t[j], m)
      <4> TAKE j \in (i - 1 + 1)..Len(t)
      <4>1. j + 1 \in (i + 1)..Len(q) /\ j \in 1..Len(t)
        BY <1>1
      <4> QED BY <1>1, <2>1, <4>1
    <3> QED BY <2>1, <3>1, <3>2 DEF HeartWillBe, t
  <2> QED BY <2>2, <2>3
<1>9. CASE /\ \A i \in 1..Len(q) : ~Sets(q[i], m)
           /\ WillHave(q, v, m) => (on <=> v # Nothing /\ m \in v.hearts)
  <2>1. \A j \in 1..Len(t) : ~Sets(t[j], m)
    BY <1>1, <1>9
  <2>2. ~Sets(x, m)
    BY <1>1, <1>2, <1>9
  <2>3. u # Nothing => (m \in u.hearts <=> v # Nothing /\ m \in v.hearts)
    BY <1>3, <1>4, <1>7, <2>2 DEF Sets
  <2>4. u # Nothing /\ m \in Range(u.chat) => WillHave(q, v, m)
    <3>1. CASE Tells(x)
      BY <1>3, <1>5, <1>7, <2>2, <3>1 DEF Sets, WillHave
    <3>2. CASE x.type = "message"
      <4>1. ~Tells(x) /\ q[1].type = "message" /\ q[1].id = x.id
        BY <1>2, <3>2 DEF Tells
      <4> QED BY <1>1, <1>3, <1>6, <1>7, <3>2, <4>1 DEF WillHave
    <3>3. CASE ~Tells(x) /\ x.type # "message"
      BY <1>3, <1>7, <3>3 DEF WillHave
    <3> QED BY <3>1, <3>2, <3>3
  <2>5. (\E j \in 1..Len(t) : t[j].type = "message" /\ t[j].id = m) => WillHave(q, v, m)
    BY <1>1 DEF WillHave
  <2>6. u = Nothing => v = Nothing
    BY <1>3
  <2>7. WillHave(t, u, m) => (on <=> u # Nothing /\ m \in u.hearts)
    BY <1>9, <2>3, <2>4, <2>5, <2>6 DEF WillHave
  <2> QED BY <2>1, <2>7 DEF HeartWillBe, t, u
<1> QED BY <1>8, <1>9 DEF HeartWillBe

(* The chat, after the first message of the queue is heard: nothing is lost, and the
   order is kept, while the server has trimmed nothing. *)
LEMMA ChatHeard ==
  ASSUME RoomAssumption, said \in Nat, NEW q \in Seq(Message), q # <<>>, NEW v \in View \cup {Nothing},
         QueueFits(q, v), ViewFits(v)
  PROVE  LET u == Heard(v, Head(q))
         IN  /\ u # Nothing =>
                  Range(u.chat) \cup u.hearts \subseteq Range(ChatOf(v)) \cup HeartsOf(v)
                    \cup (IF Tells(q[1]) THEN Range(q[1].chat) \cup q[1].hearts
                          ELSE IF q[1].type \in {"message", "reaction"} THEN {q[1].id} ELSE {})
             /\ u # Nothing /\ said <= HistoryLimit =>
                  /\ Ascending(u.chat)
                  /\ Range(u.chat) = Range(ChatOf(v)) \cup (IF Tells(q[1]) THEN Range(q[1].chat)
                                                            ELSE IF q[1].type = "message" THEN {q[1].id} ELSE {})
<1> DEFINE u == Heard(v, Head(q))
<1>1. Head(q) \in Message /\ Head(q) = q[1] /\ 1 \in 1..Len(q)
  BY QueueShrinks
<1>2. PICK x \in Message : x = Head(q) /\ x = q[1]
  BY <1>1
<1>3. u # Nothing =>
        /\ u.chat = IF Tells(x) THEN appendChat(x.chat, ChatOf(v))
                    ELSE IF x.type = "message" THEN appendChat(ChatOf(v), <<x.id>>)
                    ELSE ChatOf(v)
        /\ u.hearts = IF Tells(x) THEN x.hearts \cup (HeartsOf(v) \ Range(x.chat))
                      ELSE IF x.type = "reaction" /\ x.id \in Range(ChatOf(v))
                           THEN IF x.on THEN HeartsOf(v) \cup {x.id} ELSE HeartsOf(v) \ {x.id}
                      ELSE HeartsOf(v)
  <2>1. Heard(v, x) # Nothing =>
        /\ Heard(v, x).chat = IF Tells(x) THEN appendChat(x.chat, ChatOf(v))
                    ELSE IF x.type = "message" THEN appendChat(ChatOf(v), <<x.id>>)
                    ELSE ChatOf(v)
        /\ Heard(v, x).hearts = IF Tells(x) THEN x.hearts \cup (HeartsOf(v) \ Range(x.chat))
                      ELSE IF x.type = "reaction" /\ x.id \in Range(ChatOf(v))
                           THEN IF x.on THEN HeartsOf(v) \cup {x.id} ELSE HeartsOf(v) \ {x.id}
                      ELSE HeartsOf(v)
    BY Hearing
  <2> QED BY <1>2, <2>1
<1> HIDE DEF u
<1> DEFINE c == ChatOf(v)
<1>4. /\ c \in Seq(Nat) /\ \A m \in Range(c) : m \in 1..said
      /\ said <= HistoryLimit => Ascending(c)
  <2>1. Range(<<>>) = {} /\ Ascending(<<>>)
    BY DEF Range, Ascending
  <2> QED BY <2>1 DEF ChatOf, View, ViewFits
<1>5. HistoryLimit <= BufferLimit /\ HistoryLimit \in Nat /\ BufferLimit \in Nat
  BY DEF RoomAssumption
<1>6. /\ Tells(x) => x.chat \in Seq(Nat) /\ HistoryFits(x.chat, x.hearts)
      /\ x.type \in {"message", "reaction"} => x.id \in 1..said
      /\ x.type = "message" /\ v # Nothing => \A m \in Range(v.chat) : m < x.id
  BY <1>1, <1>2, MessageFields DEF QueueFits
<1> HIDE DEF c
<1>7. CASE Tells(x)
  <2>1. x.chat \in Seq(Nat) /\ \A m \in Range(x.chat) : m \in 1..said
    BY <1>6, <1>7 DEF HistoryFits
  <2>2. Range(appendChat(x.chat, c)) \subseteq Range(x.chat) \cup Range(c)
    BY <1>4, <2>1, AppendedChat
  <2>3. ASSUME said <= HistoryLimit
        PROVE  Ascending(appendChat(x.chat, c)) /\ Range(appendChat(x.chat, c)) = Range(x.chat) \cup Range(c)
    <3>1. PICK k \in 0..said : x.chat = Said(k)
      BY <1>6, <1>7, <2>3 DEF HistoryFits
    <3>2. k \in Nat /\ Range(x.chat) = 1..k /\ Ascending(x.chat)
      BY <3>1, AllSaid
    <3>3. \A m \in Range(c) \ Range(x.chat) : \A j \in Range(x.chat) : j < m
      BY <1>4, <3>2
    <3>4. \A m \in Range(x.chat) \cup Range(c) : m \in 1..said
      BY <1>4, <2>1
    <3>5. said <= BufferLimit
      BY <1>5, <2>3
    <3> QED BY <1>4, <2>1, <2>3, <3>2, <3>3, <3>4, <3>5, AppendedChat
  <2> QED BY <1>2, <1>3, <1>7, <2>2, <2>3 DEF c, u
<1>8. CASE x.type = "message"
  <2>1. ~Tells(x) /\ <<x.id>> \in Seq(Nat) /\ Range(<<x.id>>) = {x.id} /\ x.id \in 1..said
    BY <1>6, <1>8 DEF Tells, Range
  <2>2. Range(appendChat(c, <<x.id>>)) \subseteq Range(c) \cup {x.id}
    BY <1>4, <2>1, AppendedChat
  <2>3. ASSUME said <= HistoryLimit
        PROVE  Ascending(appendChat(c, <<x.id>>)) /\ Range(appendChat(c, <<x.id>>)) = Range(c) \cup {x.id}
    <3>1. \A m \in Range(<<x.id>>) \ Range(c) : \A j \in Range(c) : j < m
      <4>1. \A j \in Range(c) : j < x.id
        <5>1. v = Nothing => Range(c) = {}
          BY DEF c, ChatOf, Range
        <5>2. v # Nothing => c = v.chat
          BY DEF c, ChatOf
        <5> QED BY <1>6, <1>8, <5>1, <5>2
      <4> QED BY <2>1, <4>1
    <3>2. Ascending(<<x.id>>)
      BY DEF Ascending
    <3>3. \A m \in Range(c) \cup Range(<<x.id>>) : m \in 1..said
      BY <1>4, <2>1
    <3>4. said <= BufferLimit
      BY <1>5, <2>3
    <3>5. Ascending(c)
      BY <1>4, <2>3
    <3> QED BY <1>4, <2>1, <3>1, <3>2, <3>3, <3>4, <3>5, AppendedChat
  <2> QED BY <1>2, <1>3, <1>8, <2>1, <2>2, <2>3 DEF c, u
<1>9. CASE ~Tells(x) /\ x.type # "message"
  BY <1>2, <1>3, <1>4, <1>9 DEF c, u
<1> QED BY <1>7, <1>8, <1>9

(* A message more, not of the chat itself, and a message fewer: all that is on its way
   still fits, and so does the copy. *)
LEMMA FitsAppended ==
  ASSUME NEW q \in Seq(Message), NEW x \in Message, NEW v, QueueFits(q, v), x.type # "message",
         x.type = "reaction" => x.id \in 1..said, Tells(x) => HistoryFits(x.chat, x.hearts)
  PROVE  QueueFits(Append(q, x), v)
<1> DEFINE r == Append(q, x)
           n == Len(q) + 1
<1>1. /\ Len(q) \in Nat /\ Len(r) = n /\ \A i \in 1..Len(q) : r[i] = q[i] /\ i \in 1..n /\ i # n
      /\ r[n] = x /\ 1..n = 1..Len(q) \cup {n}
  BY QueueGrows
<1> HIDE DEF r
<1> SUFFICES ASSUME NEW i \in 1..Len(r)
             PROVE  /\ r[i].type \in {"message", "reaction"} => r[i].id \in 1..said
                    /\ Tells(r[i]) => HistoryFits(r[i].chat, r[i].hearts)
                    /\ r[i].type = "message" =>
                         /\ v # Nothing => \A m \in Range(v.chat) \cup v.hearts : m < r[i].id
                         /\ \A j \in 1..(i - 1) : Older(r[j], r[i].id)
  BY DEF QueueFits, r
<1>2. CASE i = n
  BY <1>1, <1>2
<1>3. CASE i \in 1..Len(q)
  <2>1. r[i] = q[i] /\ \A j \in 1..(i - 1) : r[j] = q[j]
    BY <1>1, <1>3
  <2>2. /\ q[i].type \in {"message", "reaction"} => q[i].id \in 1..said
        /\ Tells(q[i]) => HistoryFits(q[i].chat, q[i].hearts)
        /\ q[i].type = "message" =>
             /\ v # Nothing => \A m \in Range(v.chat) \cup v.hearts : m < q[i].id
             /\ \A j \in 1..(i - 1) : Older(q[j], q[i].id)
    BY <1>3 DEF QueueFits
  <2> QED BY <2>1, <2>2
<1> QED BY <1>1, <1>2, <1>3

LEMMA FitsHeard ==
  ASSUME RoomAssumption, said \in Nat, NEW q \in Seq(Message), q # <<>>, NEW v \in View \cup {Nothing},
         QueueFits(q, v), ViewFits(v)
  PROVE  /\ QueueFits(Tail(q), v)
         /\ QueueFits(Tail(q), Heard(v, Head(q))) /\ ViewFits(Heard(v, Head(q)))
<1> DEFINE t == Tail(q)
           u == Heard(v, Head(q))
           x == q[1]
           from == Range(ChatOf(v)) \cup HeartsOf(v) \cup (IF Tells(q[1]) THEN Range(q[1].chat) \cup q[1].hearts
                     ELSE IF q[1].type \in {"message", "reaction"} THEN {q[1].id} ELSE {})
<1>1. /\ Len(q) \in Nat /\ Len(t) = Len(q) - 1 /\ 1 \in 1..Len(q)
      /\ \A i \in 1..Len(t) : t[i] = q[i + 1] /\ i + 1 \in 1..Len(q)
      /\ Head(q) = q[1] /\ Head(q) \in Message
  BY QueueShrinks
<1>2. /\ u # Nothing => Range(u.chat) \cup u.hearts \subseteq from
      /\ u # Nothing /\ said <= HistoryLimit => Ascending(u.chat)
  BY ChatHeard
<1>3. /\ ChatOf(Nothing) = <<>> /\ Range(ChatOf(Nothing)) = {} /\ HeartsOf(Nothing) = {}
      /\ v # Nothing => ChatOf(v) = v.chat /\ HeartsOf(v) = v.hearts
  BY DEF ChatOf, HeartsOf, Range
<1>4. \A m \in from : m \in 1..said
  <2>1. \A m \in Range(ChatOf(v)) \cup HeartsOf(v) : m \in 1..said
    BY <1>3 DEF ViewFits
  <2>2. /\ q[1].type \in {"message", "reaction"} => q[1].id \in 1..said
        /\ Tells(q[1]) => \A m \in Range(q[1].chat) \cup q[1].hearts : m \in 1..said
    BY <1>1 DEF QueueFits, HistoryFits
  <2> QED BY <2>1, <2>2
<1>5. ASSUME NEW i \in 1..Len(t)
      PROVE  /\ t[i].type \in {"message", "reaction"} => t[i].id \in 1..said
             /\ Tells(t[i]) => HistoryFits(t[i].chat, t[i].hearts)
             /\ t[i].type = "message" => /\ \A m \in from : m < t[i].id
                                         /\ v # Nothing => \A m \in Range(v.chat) \cup v.hearts : m < t[i].id
                                         /\ \A j \in 1..(i - 1) : Older(t[j], t[i].id)
  <2>1. i + 1 \in 1..Len(q) /\ q[i + 1] = t[i] /\ 1 \in 1..(i + 1 - 1)
    BY <1>1
  <2>2. /\ q[i + 1].type \in {"message", "reaction"} => q[i + 1].id \in 1..said
        /\ Tells(q[i + 1]) => HistoryFits(q[i + 1].chat, q[i + 1].hearts)
        /\ q[i + 1].type = "message" =>
             /\ v # Nothing => \A m \in Range(v.chat) \cup v.hearts : m < q[i + 1].id
             /\ \A j \in 1..(i + 1 - 1) : Older(q[j], q[i + 1].id)
    BY <2>1 DEF QueueFits
  <2>3. ASSUME t[i].type = "message"
        PROVE  /\ \A m \in from : m < t[i].id
               /\ v # Nothing => \A m \in Range(v.chat) \cup v.hearts : m < t[i].id
               /\ \A j \in 1..(i - 1) : Older(t[j], t[i].id)
    <3>1. /\ v # Nothing => \A m \in Range(v.chat) \cup v.hearts : m < t[i].id
          /\ \A j \in 1..(i + 1 - 1) : Older(q[j], t[i].id)
      BY <2>1, <2>2, <2>3
    <3>2. Older(q[1], t[i].id)
      BY <2>1, <3>1
    <3>3. \A m \in from : m < t[i].id
      BY <1>3, <3>1, <3>2 DEF Older
    <3>4. \A j \in 1..(i - 1) : Older(t[j], t[i].id)
      <4> TAKE j \in 1..(i - 1)
      <4>1. j + 1 \in 1..(i + 1 - 1) /\ j \in 1..Len(t)
        BY <1>1
      <4>2. Older(q[j + 1], t[i].id)
        BY <3>1, <4>1
      <4> QED BY <1>1, <4>1, <4>2
    <3> QED BY <3>1, <3>3, <3>4
  <2> QED BY <2>1, <2>2, <2>3
<1> HIDE DEF t, u, from
<1>6. QueueFits(t, v)
  BY <1>5 DEF QueueFits
<1>7. QueueFits(t, u)
  BY <1>2, <1>5 DEF QueueFits
<1>8. ViewFits(u)
  BY <1>2, <1>4 DEF ViewFits
<1> QED BY <1>6, <1>7, <1>8 DEF t, u

(* A copy with the same chat fits as well. *)
LEMMA FitsAsWell ==
  ASSUME NEW q, NEW v, NEW u, u # Nothing => u.chat = ChatOf(v) /\ u.hearts = HeartsOf(v), QueueFits(q, v), ViewFits(v)
  PROVE  QueueFits(q, u) /\ ViewFits(u)
<1>1. /\ Range(ChatOf(Nothing)) = {} /\ HeartsOf(Nothing) = {} /\ Ascending(ChatOf(Nothing))
      /\ v # Nothing => ChatOf(v) = v.chat /\ HeartsOf(v) = v.hearts
  BY DEF ChatOf, HeartsOf, Range, Ascending
<1>2. \A m : u # Nothing /\ m \in Range(u.chat) \cup u.hearts => v # Nothing /\ m \in Range(v.chat) \cup v.hearts
  BY <1>1
<1>3. QueueFits(q, u)
  BY <1>2 DEF QueueFits
<1>4. ViewFits(u)
  BY <1>1, <1>2 DEF ViewFits
<1> QED BY <1>3, <1>4

(* What the page will have of the chat and the hearts, after a message more: an answer
   covers its own messages. *)
LEMMA ReachesAppended ==
  ASSUME NEW q \in Seq(Message), NEW x \in Message, NEW v, NEW S, NEW T, Reaches(q, v, S), x.type # "message",
         \A m \in S : m \in T \/ (x.type = "ack" /\ m \in Range(x.chat)),
         \A m \in Range(log) \ heartsCrossed : click # m /\ Sets(x, m) => (IsOn(x, m) <=> m \in hearts)
  PROVE  Reaches(Append(q, x), v, T)
<1> DEFINE r == Append(q, x)
           n == Len(q) + 1
<1>1. /\ Len(q) \in Nat /\ Len(r) = n /\ \A i \in 1..Len(q) : r[i] = q[i] /\ i \in 1..n /\ i # n
      /\ r[n] = x /\ 1..n = 1..Len(q) \cup {n}
  BY QueueGrows
<1>2. \A m : Comes(q, v, m) \/ (x.type = "ack" /\ m \in Range(x.chat)) => Comes(r, v, m)
  <2> HIDE DEF r
  <2> QED BY <1>1 DEF Comes
<1>3. ASSUME NEW m \in Range(log) \ (T \cup heartsCrossed), click # m PROVE HeartWillBe(r, v, m, m \in hearts)
  <2>1. PICK on \in BOOLEAN : on <=> m \in hearts
    OBVIOUS
  <2>2. Sets(x, m) => (IsOn(x, m) <=> on)
    BY <1>3, <2>1
  <2>3. ~Sets(x, m) => HeartWillBe(q, v, m, on)
    <3>1. ASSUME ~Sets(x, m) PROVE m \notin S
      BY <1>3, <3>1 DEF Sets, Tells
    <3>2. m \notin S => HeartWillBe(q, v, m, m \in hearts)
      BY <1>3 DEF Reaches
    <3>3. HeartWillBe(q, v, m, m \in hearts) => HeartWillBe(q, v, m, on)
      BY <2>1 DEF HeartWillBe
    <3> QED BY <3>1, <3>2, <3>3
  <2>4. HeartWillBe(r, v, m, on)
    BY <2>2, <2>3, HeartAppended
  <2> QED BY <2>1, <2>4 DEF HeartWillBe
<1>4. ASSUME said <= HistoryLimit, NEW m \in 1..said PROVE m \in T \cup unheard \/ Comes(r, v, m)
  BY <1>2, <1>4 DEF Reaches
<1> QED BY <1>3, <1>4 DEF Reaches

(* And after the first is heard, with w for what the page was not told. *)
LEMMA ReachesHeard ==
  ASSUME RoomAssumption, said \in Nat, NEW q \in Seq(Message), q # <<>>, NEW v \in View \cup {Nothing},
         QueueFits(q, v), ViewFits(v), LogFits, NEW S, Reaches(q, v, S), NEW w,
         q[1].type = "message" /\ v = Nothing => q[1].id \in w,
         \A m \in unheard : m \in w \/ q[1].type = "ack" \/ (q[1].type = "history" /\ v # Nothing),
         \A m \in unheard \ w : m \in Range(q[1].chat)
  PROVE  /\ said <= HistoryLimit => \A m \in 1..said : m \in S \cup w \/ Comes(Tail(q), Heard(v, Head(q)), m)
         /\ \A m \in Range(log) \ (S \cup heartsCrossed) :
              click # m => HeartWillBe(Tail(q), Heard(v, Head(q)), m, m \in hearts)
<1> DEFINE t == Tail(q)
           u == Heard(v, Head(q))
<1>1. /\ Len(q) \in Nat /\ Len(t) = Len(q) - 1 /\ 1 \in 1..Len(q)
      /\ \A i \in 1..Len(t) : t[i] = q[i + 1] /\ i + 1 \in 1..Len(q)
      /\ \A i \in 1..Len(q) : i = 1 \/ (i - 1 \in 1..Len(t) /\ t[i - 1] = q[i])
      /\ Head(q) = q[1] /\ Head(q) \in Message
  BY QueueShrinks
<1>2. u = Nothing <=> v = Nothing /\ ~HasState(q[1])
  <2>1. PICK x \in Message : x = Head(q) /\ x = q[1]
    BY <1>1
  <2>2. Heard(v, x) = Nothing <=> v = Nothing /\ ~HasState(x)
    BY Hearing
  <2> QED BY <2>1, <2>2
<1>3. u # Nothing /\ said <= HistoryLimit =>
        Range(u.chat) = Range(ChatOf(v)) \cup (IF Tells(q[1]) THEN Range(q[1].chat)
                                               ELSE IF q[1].type = "message" THEN {q[1].id} ELSE {})
  BY ChatHeard
<1>4. v # Nothing => ChatOf(v) = v.chat
  BY DEF ChatOf
<1>5. ASSUME NEW m \in Range(log) \ (S \cup heartsCrossed), click # m PROVE HeartWillBe(t, u, m, m \in hearts)
  <2>1. PICK on \in BOOLEAN : on <=> m \in hearts
    OBVIOUS
  <2>2. HeartWillBe(q, v, m, m \in hearts)
    BY <1>5 DEF Reaches
  <2>3. HeartWillBe(q, v, m, on)
    BY <2>1, <2>2 DEF HeartWillBe
  <2>4. m \in Range(log) /\ m \in Nat
    BY DEF LogFits
  <2>5. HeartWillBe(t, u, m, on)
    BY <2>3, <2>4, HeartHeard
  <2> HIDE DEF t, u
  <2> QED BY <2>1, <2>5 DEF HeartWillBe
<1> HIDE DEF t, u
<1>6. ASSUME said <= HistoryLimit, NEW m \in 1..said PROVE m \in S \cup w \/ Comes(t, u, m)
  <2>1. m \in S \cup unheard \/ Comes(q, v, m)
    BY <1>6 DEF Reaches
  <2>2. CASE m \in unheard \ w
    <3>1. q[1].type = "ack" \/ (q[1].type = "history" /\ v # Nothing)
      BY <2>2
    <3>2. Tells(q[1]) /\ u # Nothing /\ m \in Range(q[1].chat)
      BY <1>2, <2>2, <3>1 DEF Tells, HasState
    <3> QED BY <1>3, <1>6, <3>2 DEF Comes
  <2>3. CASE v # Nothing /\ m \in Range(v.chat)
    BY <1>2, <1>3, <1>4, <1>6, <2>3 DEF Comes
  <2>4. CASE \E i \in 1..Len(q) : \/ q[i].type = "message" /\ q[i].id = m
                                  \/ q[i].type = "ack" /\ m \in Range(q[i].chat)
    <3>1. PICK i \in 1..Len(q) : \/ q[i].type = "message" /\ q[i].id = m
                                 \/ q[i].type = "ack" /\ m \in Range(q[i].chat)
      BY <2>4
    <3>2. CASE i # 1
      <4>1. i - 1 \in 1..Len(t) /\ t[i - 1] = q[i]
        BY <1>1, <3>2
      <4> QED BY <3>1, <4>1 DEF Comes
    <3>3. CASE i = 1 /\ q[1].type = "message"
      <4>1. q[1].id = m /\ ~Tells(q[1]) /\ ~HasState(q[1])
        BY <3>1, <3>3 DEF Tells, HasState
      <4>2. v = Nothing => m \in w
        BY <3>3, <4>1
      <4>3. v # Nothing => u # Nothing /\ m \in Range(u.chat)
        BY <1>2, <1>3, <1>6, <3>3, <4>1
      <4> QED BY <4>2, <4>3 DEF Comes
    <3>4. CASE i = 1 /\ q[1].type = "ack"
      <4>1. Tells(q[1]) /\ u # Nothing /\ m \in Range(q[1].chat)
        BY <1>2, <3>1, <3>4 DEF Tells, HasState
      <4> QED BY <1>3, <1>6, <4>1 DEF Comes
    <3> QED BY <3>1, <3>2, <3>3, <3>4
  <2> QED BY <2>1, <2>2, <2>3, <2>4 DEF Comes
<1> QED BY <1>5, <1>6 DEF t, u

(* A copy made, or its game and pause replaced: what it will have of the chat stays. *)
LEMMA ReachesAsWell ==
  ASSUME RoomAssumption, NEW q, NEW v, NEW u, u # Nothing, u.chat = ChatOf(v), u.hearts = HeartsOf(v),
         NEW S, Reaches(q, v, S)
  PROVE  Reaches(q, u, S)
<1>1. /\ Range(ChatOf(Nothing)) = {} /\ HeartsOf(Nothing) = {}
      /\ v # Nothing => ChatOf(v) = v.chat /\ HeartsOf(v) = v.hearts
  BY DEF ChatOf, HeartsOf, Range
<1>2. \A m : /\ (u # Nothing /\ m \in Range(u.chat)) <=> (v # Nothing /\ m \in Range(v.chat))
             /\ (u # Nothing /\ m \in u.hearts) <=> (v # Nothing /\ m \in v.hearts)
  BY <1>1
<1>3. \A m : Comes(q, v, m) <=> Comes(q, u, m)
  BY <1>2 DEF Comes
<1>4. \A m : WillHave(q, v, m) <=> WillHave(q, u, m)
  BY <1>2 DEF WillHave
<1>5. \A m, on : HeartWillBe(q, v, m, on) <=> HeartWillBe(q, u, m, on)
  BY <1>2, <1>4 DEF HeartWillBe
<1> QED BY <1>3, <1>5 DEF Reaches

(* The game and the pause of a page that follows: a message more, the first one heard, a
   copy seeded. *)
LEMMA FollowsAppended ==
  ASSUME NEW q \in Seq(Message), NEW x \in Message, NEW v \in View \cup {Nothing}, Follows(q, v), x.type # "message",
         \A m \in Range(log) \ heartsCrossed : click # m /\ Sets(x, m) => (IsOn(x, m) <=> m \in hearts),
         "game" \notin raced /\ HasState(x) => x.game = game,
         "pause" \notin raced => IF Decides(x) THEN Verdict(x) = pause ELSE Adds(x, pause) = pause
  PROVE  Follows(Append(q, x), v)
<1>1. Reaches(Append(q, x), v, {})
  <2>1. Reaches(q, v, {})
    BY DEF Follows
  <2> QED BY <2>1, ReachesAppended
<1>2. v # Nothing \/ \E i \in 1..Len(Append(q, x)) : Append(q, x)[i].type = "ack"
  <2>1. v # Nothing \/ \E i \in 1..Len(q) : q[i].type = "ack"
    BY DEF Follows
  <2>2. \A i \in 1..Len(q) : Append(q, x)[i] = q[i] /\ i \in 1..Len(Append(q, x))
    BY QueueGrows
  <2> QED BY <2>1, <2>2
<1>3. "game" \notin raced => GameWillBe(Append(q, x), v, game)
  <2>1. "game" \notin raced => GameWillBe(q, v, game)
    BY DEF Follows
  <2>2. PICK g : g = game
    OBVIOUS
  <2> QED BY <2>1, <2>2, GameAppended
<1>4. "pause" \notin raced => PauseWillBe(Append(q, x), v, pause)
  <2>1. PICK p : p = pause
    OBVIOUS
  <2>2. "pause" \notin raced => PauseWillBe(q, v, p)
    BY <2>1 DEF Follows
  <2> QED BY <2>1, <2>2, PauseAppended
<1> QED BY <1>1, <1>2, <1>3, <1>4 DEF Follows

LEMMA FollowsHeard ==
  ASSUME RoomAssumption, said \in Nat, NEW q \in Seq(Message), q # <<>>, NEW v \in View \cup {Nothing}, Follows(q, v)
  PROVE  /\ Heard(v, Head(q)) # Nothing \/ \E i \in 1..Len(Tail(q)) : Tail(q)[i].type = "ack"
         /\ "game" \notin raced => GameWillBe(Tail(q), Heard(v, Head(q)), game)
         /\ "pause" \notin raced => PauseWillBe(Tail(q), Heard(v, Head(q)), pause)
<1>1. v # Nothing \/ \E i \in 1..Len(q) : q[i].type = "ack"
  BY DEF Follows
<1>2. /\ \A i \in 1..Len(q) : i = 1 \/ (i - 1 \in 1..Len(Tail(q)) /\ Tail(q)[i - 1] = q[i])
      /\ Head(q) = q[1] /\ Head(q) \in Message
  BY QueueShrinks
<1>3. Heard(v, Head(q)) = Nothing <=> v = Nothing /\ ~HasState(q[1])
  <2>1. PICK x \in Message : x = Head(q) /\ x = q[1]
    BY <1>2
  <2>2. Heard(v, x) = Nothing <=> v = Nothing /\ ~HasState(x)
    BY Hearing
  <2> QED BY <2>1, <2>2
<1>4. Heard(v, Head(q)) # Nothing \/ \E i \in 1..Len(Tail(q)) : Tail(q)[i].type = "ack"
  BY <1>1, <1>2, <1>3 DEF HasState
<1>5. PICK g, p : g = game /\ p = pause
  OBVIOUS
<1>6. "game" \notin raced => GameWillBe(Tail(q), Heard(v, Head(q)), g)
  BY <1>5, GameHeard DEF Follows
<1>7. "pause" \notin raced => PauseWillBe(Tail(q), Heard(v, Head(q)), p)
  BY <1>1, <1>5, PauseHeard DEF Follows
<1> QED BY <1>4, <1>5, <1>6, <1>7

LEMMA FollowsSeeded ==
  ASSUME RoomAssumption, NEW q \in Seq(Message), NEW v \in View \cup {Nothing}, Follows(q, v), NEW u \in View,
         u.chat = ChatOf(v), u.hearts = HeartsOf(v), game \in Game, pause \in Pauses,
         "game" \notin raced => u.game = game,
         "pause" \notin raced => u.pause = pause \/ (v # Nothing /\ u.pause = v.pause)
  PROVE  Follows(q, u)
<1>1. u # Nothing
  BY DEF RoomAssumption
<1>2. Reaches(q, u, {})
  BY <1>1, ReachesAsWell DEF Follows
<1>3. "game" \notin raced => GameWillBe(q, u, game)
  BY <1>1 DEF Follows, GameWillBe
<1>4. ASSUME "pause" \notin raced PROVE PauseWillBe(q, u, pause)
  <2>1. PICK p \in Pauses : p = pause
    OBVIOUS
  <2>2. PauseWillBe(q, v, p)
    BY <1>4, <2>1 DEF Follows
  <2>3. CASE v # Nothing
    BY <1>4, <2>1, <2>2, <2>3, PauseTakenOver
  <2>4. CASE v = Nothing
    BY <2>1, <2>2, <2>4 DEF PauseWillBe
  <2> QED BY <2>3, <2>4
<1> QED BY <1>1, <1>2, <1>3, <1>4 DEF Follows

-----------------------------------------------------------------------------
(* What a call just made knows, and what the handlers hold after others were made. *)
Steady(h) == calls'[h] \in {calls[h], Nothing, Made("asked"), Made("fetch")}

LEMMA CallsMade ==
  ASSUME RoomAssumption, RoomType, NEW n \in {1, 2}, NEW step \in {"asked", "fetch"}, Calls(n, step)
  PROVE  /\ calls' \in [Handlers -> Call \cup {Nothing}]
         /\ \A h \in Handlers : calls'[h] = calls[h] \/ (calls[h] = Nothing /\ calls'[h] = Made(step))
         /\ \A h \in Handlers : Steady(h)
         /\ \E h \in Handlers : calls'[h] = Made(step)
<1>1. PICK hs \in SUBSET {h \in Handlers : calls[h] = Nothing} :
        Cardinality(hs) = n /\ calls' = [h \in Handlers |-> IF h \in hs THEN Made(step) ELSE calls[h]]
  BY DEF Calls, Free
<1>2. hs # {}
  BY <1>1, FS_EmptySet
<1>3. Made(step) \in Call
  BY DEF Made, Call
<1>4. calls \in [Handlers -> Call \cup {Nothing}]
  BY DEF RoomType
<1> QED BY <1>1, <1>2, <1>3, <1>4 DEF Steady

LEMMA StillDoing ==
  ASSUME RoomAssumption, NEW h \in Handlers, Steady(h)
  PROVE  /\ Doing(h, HasGame)' => Doing(h, HasGame) /\ calls'[h] = calls[h]
         /\ Doing(h, {"sent"})' => Doing(h, {"sent"}) /\ calls'[h] = calls[h]
         /\ Doing(h, {"joined", "sent"})' => Doing(h, {"joined", "sent"}) /\ calls'[h] = calls[h]
         /\ Doing(h, HasChat)' => Doing(h, HasChat) /\ calls'[h] = calls[h]
BY DEF Steady, Doing, Made, HasGame, HasChat

(* The server's chat, and what is on its way of it, as it was. *)
LEMMA FitsStill ==
  ASSUME UNCHANGED <<said, log>>, NEW q, NEW v, inbox' = q, view' = v, QueueFits(q, v), ViewFits(v)
  PROVE  QueueFits(inbox, view)' /\ ViewFits(view)'
BY DEF QueueFits, ViewFits, HistoryFits, Older, Tells, Ascending, Said

LEMMA ReachesStill ==
  ASSUME UNCHANGED <<said, unheard, log, heartsCrossed, click, hearts>>, NEW q, NEW v, NEW S,
         inbox' = q, view' = v, Reaches(q, v, S)
  PROVE  Reaches(inbox, view, S)'
BY DEF Reaches, Comes, HeartWillBe, WillHave, Sets, IsOn

LEMMA FollowsStill ==
  ASSUME UNCHANGED <<said, unheard, log, heartsCrossed, click, hearts, game, pause, raced>>, NEW q, NEW v,
         inbox' = q, view' = v, Follows(q, v)
  PROVE  Follows(inbox, view)'
<1>1. Reaches(inbox, view, {})'
  BY ReachesStill DEF Follows
<1>2. (v # Nothing \/ \E i \in 1..Len(q) : q[i].type = "ack")
  BY DEF Follows
<1>3. ("game" \notin raced => GameWillBe(inbox, view, game))'
  BY DEF Follows, GameWillBe
<1>4. ("pause" \notin raced => PauseWillBe(inbox, view, pause))'
  BY DEF Follows, PauseWillBe, Then, Decides, Verdict
<1> QED BY <1>1, <1>2, <1>3, <1>4 DEF Follows

LEMMA ChatStill ==
  ASSUME RoomAssumption, LogFits, HeldFits, UNCHANGED <<said, log, hearts, click, heartsCrossed>>,
         \A h \in Handlers : Steady(h)
  PROVE  LogFits' /\ HeldFits'
<1>1. LogFits'
  BY DEF LogFits, Said
<1>2. ASSUME NEW h \in Handlers, Doing(h, HasChat)'
      PROVE  /\ HistoryFits(calls[h].chat, calls[h].hearts)'
             /\ (\A m \in Range(log) \ heartsCrossed :
                   /\ m \in Range(calls[h].chat) => (m \in calls[h].hearts <=> m \in hearts)
                   /\ click = m => m \in Range(calls[h].chat))'
  <2>1. Doing(h, HasChat) /\ calls'[h] = calls[h]
    BY <1>2, StillDoing
  <2>2. /\ HistoryFits(calls[h].chat, calls[h].hearts)
        /\ \A m \in Range(log) \ heartsCrossed :
             /\ m \in Range(calls[h].chat) => (m \in calls[h].hearts <=> m \in hearts)
             /\ click = m => m \in Range(calls[h].chat)
    BY <2>1 DEF HeldFits
  <2>3. HistoryFits(calls[h].chat, calls[h].hearts)'
    BY <2>1, <2>2 DEF HistoryFits, Said
  <2> QED BY <2>1, <2>2, <2>3
<1>3. HeldFits'
  BY <1>2 DEF HeldFits
<1> QED BY <1>1, <1>3

(* Messages about the game and the pause leave the chat alone. *)
AboutGame == {"state", "over", "paused", "voteStarted", "waitExtended", "resumed", "conceded"}

LEMMA GameTold ==
  ASSUME NEW q \in Seq(Message), NEW x \in Message, x.type \in AboutGame, NEW v
  PROVE  /\ Append(q, x) \in Seq(Message)
         /\ QueueFits(q, v) => QueueFits(Append(q, x), v)
         /\ \A S : Reaches(q, v, S) => Reaches(Append(q, x), v, S)
         /\ (\E i \in 1..Len(q) : q[i].type = "ack") => \E i \in 1..Len(Append(q, x)) : Append(q, x)[i].type = "ack"
<1>1. x.type \notin {"message", "reaction"} /\ ~Tells(x) /\ \A m : ~Sets(x, m)
  BY DEF AboutGame, Tells, Sets
<1>2. QueueFits(q, v) => QueueFits(Append(q, x), v)
  BY <1>1, FitsAppended
<1>3. \A S : Reaches(q, v, S) => Reaches(Append(q, x), v, S)
  BY <1>1, ReachesAppended
<1>4. Append(q, x) \in Seq(Message) /\ \A i \in 1..Len(q) : Append(q, x)[i] = q[i] /\ i \in 1..Len(Append(q, x))
  BY QueueGrows
<1> QED BY <1>2, <1>3, <1>4

LEMMA SameSequence ==
  ASSUME NEW S, NEW s \in Seq(S), NEW r \in Seq(S), Len(s) = Len(r), \A i \in 1..Len(s) : s[i] = r[i]
  PROVE  s = r
<1>1. s = [i \in 1..Len(s) |-> s[i]] /\ r = [i \in 1..Len(r) |-> r[i]]
  OBVIOUS
<1> QED BY <1>1

LEMMA ConcatAppended ==
  ASSUME NEW s \in Seq(Message), NEW r \in Seq(Message), NEW x \in Message
  PROVE  s \o Append(r, x) = Append(s \o r, x)
<1> DEFINE l == s \o Append(r, x)
           k == Append(s \o r, x)
           n == Len(s) + Len(r) + 1
<1>1. l \in Seq(Message) /\ k \in Seq(Message) /\ s \o r \in Seq(Message)
  OBVIOUS
<1>2. Len(l) = n /\ Len(k) = n /\ n \in Nat /\ Len(s \o r) = Len(s) + Len(r)
  OBVIOUS
<1>3. \A i \in 1..n : l[i] = k[i]
  <2> TAKE i \in 1..n
  <2>1. CASE i \in 1..Len(s)
    BY <2>1
  <2>2. CASE i \in (Len(s) + 1)..(Len(s) + Len(r))
    BY <2>2
  <2>3. CASE i = n
    BY <2>3
  <2> QED BY <2>1, <2>2, <2>3
<1> HIDE DEF l, k
<1>4. l = k
  BY <1>1, <1>2, <1>3, SameSequence
<1> QED BY <1>4 DEF l, k

(* What the room is told reaches the socket if it is in the room. *)
LEMMA ToldThem ==
  ASSUME inbox \in Seq(Message), joined \in BOOLEAN, NEW a \in Message, NEW b \in Message, NEW c \in Message
  PROVE  /\ Told(<<a>>) \/ Told(<<a>> \o <<>>) => inbox' = IF joined THEN Append(inbox, a) ELSE inbox
         /\ Told(<<a, b>>) \/ Told(<<a>> \o <<b>>) => inbox' = IF joined THEN Append(Append(inbox, a), b) ELSE inbox
         /\ Told(<<a, b, c>>) => inbox' = IF joined THEN Append(Append(Append(inbox, a), b), c) ELSE inbox
<1>1. inbox \o <<a>> = Append(inbox, a)
  OBVIOUS
<1>2. <<a>> \o <<>> = <<a>> /\ <<a>> \o <<b>> = Append(<<a>>, b)
  OBVIOUS
<1>5. Append(<<a>>, b) = <<a, b>>
  <2>1. /\ Append(<<a>>, b) \in Seq(Message) /\ <<a, b>> \in Seq(Message)
        /\ Len(Append(<<a>>, b)) = 2 /\ Len(<<a, b>>) = 2
    OBVIOUS
  <2>2. \A i \in 1..2 : Append(<<a>>, b)[i] = <<a, b>>[i]
    OBVIOUS
  <2> QED BY <2>1, <2>2, SameSequence
<1>6. Append(<<a, b>>, c) = <<a, b, c>>
  <2>1. /\ Append(<<a, b>>, c) \in Seq(Message) /\ <<a, b, c>> \in Seq(Message)
        /\ Len(Append(<<a, b>>, c)) = 3 /\ Len(<<a, b, c>>) = 3
    OBVIOUS
  <2>2. \A i \in 1..3 : Append(<<a, b>>, c)[i] = <<a, b, c>>[i]
    OBVIOUS
  <2> QED BY <2>1, <2>2, SameSequence
<1>3. inbox \o <<a, b>> = Append(Append(inbox, a), b)
  <2>1. <<a>> \in Seq(Message)
    OBVIOUS
  <2> QED BY <1>1, <1>5, <2>1, ConcatAppended
<1>4. inbox \o <<a, b, c>> = Append(Append(Append(inbox, a), b), c)
  <2>1. <<a, b>> \in Seq(Message)
    OBVIOUS
  <2> QED BY <1>3, <1>6, <2>1, ConcatAppended
<1> QED BY <1>1, <1>2, <1>3, <1>4, <1>5 DEF Told

-----------------------------------------------------------------------------
(* The parts of the invariant when the server acts, the page, its calls and its REST
   request being as they were. *)
LEMMA ServerWire ==
  ASSUME WireFits, UNCHANGED <<calls, rest, detail, socket, joined>>, game.over => game'.over, joined \/ inbox' = inbox
  PROVE  WireFits'
BY DEF WireFits, Doing, LiveRest

LEMMA ServerCopies ==
  ASSUME CopiesFit, UNCHANGED <<calls, rest>>,
         "game" \notin raced' => ~HoldsGame \/ ("game" \notin raced /\ game' = game),
         "pause" \notin raced' => ~HoldsPause \/ ("pause" \notin raced /\ pause' = pause)
  PROVE  CopiesFit'
BY DEF CopiesFit, HoldsGame, HoldsPause, Holding, Doing, HasGame, LiveRest

LEMMA ServerPage ==
  ASSUME PageFollows, UNCHANGED <<clientVars, socket, joined, calls>>,
         \A h \in Handlers : Doing(h, Informed) /\ Reaches(inbox, view, Range(calls[h].chat))
                               => Reaches(inbox, view, Range(calls[h].chat))',
         joined /\ Follows(inbox, view) => Follows(inbox, view)'
  PROVE  PageFollows'
<1>1. (Enabled /\ socket = "up")' <=> Enabled /\ socket = "up"
  BY DEF Enabled, clientVars
<1>2. Awaited => Awaited'
  BY DEF Awaited, Doing
<1>3. Covered => Covered'
  <2> SUFFICES ASSUME NEW h \in Handlers, Doing(h, Informed), Reaches(inbox, view, Range(calls[h].chat))
               PROVE  Covered'
    BY DEF Covered
  <2>1. Doing(h, Informed)' /\ Reaches(inbox, view, Range(calls[h].chat))'
    BY DEF Doing
  <2> QED BY <2>1 DEF Covered
<1> QED BY <1>1, <1>2, <1>3 DEF PageFollows

LEMMA FollowsThen ==
  ASSUME NEW q, NEW v, NEW g, NEW p, inbox' = q, view' = v, game' = g, pause' = p, Reaches(inbox, view, {})',
         v # Nothing \/ \E i \in 1..Len(q) : q[i].type = "ack",
         "game" \notin raced' => GameWillBe(q, v, g), "pause" \notin raced' => PauseWillBe(q, v, p)
  PROVE  Follows(inbox, view)'
<1>1. ("game" \notin raced => GameWillBe(inbox, view, game))'
  BY DEF GameWillBe
<1>2. ("pause" \notin raced => PauseWillBe(inbox, view, pause))'
  BY DEF PauseWillBe, Then, Decides, Verdict
<1> QED BY <1>1, <1>2 DEF Follows

(* What each action keeps of the server's chat and of the page's, when only the game and
   the pause change and the room is told of them. *)
LEMMA GameActs ==
  ASSUME RoomAssumption, RoomInv, UNCHANGED <<log, said, hearts, click, clientVars, socket, joined, calls, rest,
                                              heartsCrossed, unheard>>,
         game' \in Game, pause' \in Pauses, game.over => game'.over,
         NEW q \in Seq(Message), inbox' = q, ~joined => q = inbox,
         QueueFits(q, view), \A S : Reaches(inbox, view, S) => Reaches(q, view, S),
         (\E i \in 1..Len(inbox) : inbox[i].type = "ack") => \E i \in 1..Len(q) : q[i].type = "ack",
         "game" \notin raced' => ~HoldsGame \/ ("game" \notin raced /\ game' = game),
         "pause" \notin raced' => ~HoldsPause \/ ("pause" \notin raced /\ pause' = pause),
         joined /\ "game" \notin raced' => GameWillBe(q, view, game') \/ ("game" \notin raced /\ ~GameWillBe(inbox, view, game)),
         joined /\ "pause" \notin raced' => PauseWillBe(q, view, pause') \/ ("pause" \notin raced /\ ~PauseWillBe(inbox, view, pause))
  PROVE  RoomInv'
<1>1. RoomType'
  BY DEF RoomInv, RoomType, clientVars
<1>2. WireFits'
  BY ServerWire DEF RoomInv, clientVars
<1>3. CopiesFit'
  BY ServerCopies DEF RoomInv
<1>4. LogFits' /\ HeldFits'
  <2>1. \A h \in Handlers : Steady(h)
    BY DEF Steady
  <2> QED BY <2>1, ChatStill DEF RoomInv
<1>5. PICK v : v = view' /\ v = view
  BY DEF clientVars
<1>6. QueueFits(inbox, view)' /\ ViewFits(view)'
  BY <1>5, FitsStill DEF RoomInv
<1>7. \A S : Reaches(inbox, view, S) => Reaches(inbox, view, S)'
  <2> TAKE S
  <2> HAVE Reaches(inbox, view, S)
  <2>1. Reaches(q, v, S)
    BY <1>5
  <2> QED BY <1>5, <2>1, ReachesStill
<1>8. ASSUME NEW h \in Handlers, Reaches(inbox, view, Range(calls[h].chat))
      PROVE  Reaches(inbox, view, Range(calls[h].chat))'
  <2>1. PICK S : S = Range(calls[h].chat) /\ S = Range(calls'[h].chat)
    OBVIOUS
  <2>2. Reaches(inbox, view, S)'
    BY <1>7, <1>8, <2>1
  <2> QED BY <2>1, <2>2 DEF Reaches
<1>9. ASSUME joined, Follows(inbox, view) PROVE Follows(inbox, view)'
  <2>1. PICK g, p : g = game' /\ p = pause'
    OBVIOUS
  <2>2. Reaches(inbox, view, {})'
    BY <1>7, <1>9 DEF Follows
  <2>3. v # Nothing \/ \E i \in 1..Len(q) : q[i].type = "ack"
    BY <1>5, <1>9 DEF Follows
  <2>4. "game" \notin raced' => GameWillBe(q, v, g)
    BY <1>5, <1>9, <2>1 DEF Follows
  <2>5. "pause" \notin raced' => PauseWillBe(q, v, p)
    BY <1>5, <1>9, <2>1 DEF Follows
  <2> QED BY <1>5, <2>1, <2>2, <2>3, <2>4, <2>5, FollowsThen
<1>10. PageFollows'
  BY <1>8, <1>9, ServerPage DEF RoomInv
<1> QED BY <1>1, <1>2, <1>3, <1>4, <1>6, <1>10 DEF RoomInv

(* A move. *)
LEMMA MovesKeeps ==
  ASSUME RoomAssumption, RoomInv, Moves
  PROVE  RoomInv'
<1> USE DEF RoomInv
<1>1. PICK over \in BOOLEAN :
        /\ game' = [ver |-> game.ver + 1, over |-> over]
        /\ Told(<<[type |-> "state", game |-> game']>> \o
                (IF over THEN <<[type |-> "over", game |-> game']>> ELSE <<>>))
  BY DEF Moves
<1>2. game \in Game /\ inbox \in Seq(Message) /\ joined \in BOOLEAN /\ QueueFits(inbox, view) /\ view \in View \cup {Nothing}
  BY DEF RoomType
<1>3. PICK g \in Game : g = game'
  BY <1>1, <1>2 DEF Game
<1> DEFINE a == [type |-> "state", game |-> g]
           b == [type |-> "over", game |-> g]
<1>4. a \in Message /\ b \in Message /\ a.type \in AboutGame /\ b.type \in AboutGame
  BY MessagesMade DEF AboutGame
<1>5. HasState(a) /\ HasState(b) /\ a.game = g /\ b.game = g /\ ~Decides(a) /\ Decides(b) /\ Verdict(b) = "none" /\ Adds(a, "none") = "none"
  BY DEF HasState, Decides, Verdict, Adds
<1>6. inbox' = IF joined THEN IF over THEN Append(Append(inbox, a), b) ELSE Append(inbox, a) ELSE inbox
  <2>1. Told(<<a>> \o (IF over THEN <<b>> ELSE <<>>))
    BY <1>1, <1>3
  <2>2. CASE over
    <3>1. Told(<<a>> \o <<b>>)
      BY <2>1, <2>2
    <3> HIDE DEF a, b
    <3> QED BY <1>2, <1>4, <2>2, <3>1, ToldThem
  <2>3. CASE ~over
    <3>1. Told(<<a>> \o <<>>)
      BY <2>1, <2>3
    <3> HIDE DEF a, b
    <3> QED BY <1>2, <1>4, <2>3, <3>1, ToldThem
  <2> QED BY <2>2, <2>3
<1> HIDE DEF a, b
<1>7. PICK one \in Seq(Message) : one = Append(inbox, a)
  <2>1. Append(inbox, a) \in Seq(Message)
    BY <1>2, <1>4, QueueGrows
  <2> QED BY <2>1
<1>8. PICK two \in Seq(Message) : two = Append(one, b)
  <2>1. Append(one, b) \in Seq(Message)
    BY <1>4, QueueGrows
  <2> QED BY <2>1
<1>9. /\ QueueFits(one, view) /\ QueueFits(two, view)
      /\ \A S : Reaches(inbox, view, S) => Reaches(one, view, S) /\ Reaches(two, view, S)
      /\ (\E i \in 1..Len(inbox) : inbox[i].type = "ack")
           => (\E i \in 1..Len(one) : one[i].type = "ack") /\ (\E i \in 1..Len(two) : two[i].type = "ack")
  <2>1. /\ QueueFits(one, view) /\ \A S : Reaches(inbox, view, S) => Reaches(one, view, S)
        /\ (\E i \in 1..Len(inbox) : inbox[i].type = "ack") => \E i \in 1..Len(one) : one[i].type = "ack"
    BY <1>2, <1>4, <1>7, GameTold
  <2>2. /\ QueueFits(two, view) /\ \A S : Reaches(one, view, S) => Reaches(two, view, S)
        /\ (\E i \in 1..Len(one) : one[i].type = "ack") => \E i \in 1..Len(two) : two[i].type = "ack"
    BY <1>4, <1>8, <2>1, GameTold
  <2> QED BY <2>1, <2>2
<1>10. GameWillBe(one, view, g) /\ GameWillBe(two, view, g)
  BY <1>2, <1>4, <1>5, <1>7, <1>8, GameAppended
<1>11. PauseWillBe(inbox, view, "none") => PauseWillBe(one, view, "none") /\ PauseWillBe(two, view, "none")
  BY <1>2, <1>4, <1>5, <1>7, <1>8, PauseAppended
<1>12. PICK q \in Seq(Message) : q = inbox' /\ (~joined => q = inbox) /\ (joined => q = one \/ q = two)
  BY <1>2, <1>6, <1>7, <1>8
<1>13. /\ UNCHANGED <<pause, log, said, hearts, click, clientVars, socket, joined, calls, rest, heartsCrossed, unheard>>
       /\ ~game.over /\ pause = "none" /\ Changes({"game"}, HoldsGame)
  BY DEF Moves
<1>14. /\ "game" \notin raced' => ~HoldsGame
       /\ "pause" \notin raced' => "pause" \notin raced
  BY <1>13 DEF Changes
<1>15. QueueFits(q, view) /\ \A S : Reaches(inbox, view, S) => Reaches(q, view, S)
  BY <1>2, <1>9, <1>12
<1>16. (\E i \in 1..Len(inbox) : inbox[i].type = "ack") => \E i \in 1..Len(q) : q[i].type = "ack"
  BY <1>9, <1>12
<1>17. pause' \in Pauses
  BY <1>13 DEF Pauses
<1>18. joined => GameWillBe(q, view, game')
  BY <1>3, <1>10, <1>12
<1>19. joined /\ "pause" \notin raced' => PauseWillBe(q, view, pause') \/ ~PauseWillBe(inbox, view, pause)
  BY <1>11, <1>12, <1>13
<1> QED BY <1>3, <1>12, <1>13, <1>14, <1>15, <1>16, <1>17, <1>18, <1>19, GameActs

-----------------------------------------------------------------------------
(* A change of the pause. *)
LEMMA PauseChangesKeeps ==
  ASSUME RoomAssumption, RoomInv, PauseChanges
  PROVE  RoomInv'
<1> USE DEF RoomInv
<1>1. /\ game \in Game /\ inbox \in Seq(Message) /\ joined \in BOOLEAN /\ QueueFits(inbox, view)
      /\ view \in View \cup {Nothing} /\ pause \in Pauses
  BY DEF RoomType
<1>2. /\ UNCHANGED <<game, log, said, hearts, click, clientVars, socket, joined, calls, rest, heartsCrossed, unheard>>
      /\ IF pause' = pause \/ (pause' = "waiting" /\ ~HoldsPause)
         THEN UNCHANGED raced ELSE Changes({"pause"}, HoldsPause)
  BY DEF PauseChanges
<1>3. /\ "game" \notin raced' => "game" \notin raced
      /\ "pause" \notin raced' => ~HoldsPause \/ ("pause" \notin raced /\ pause' = pause)
      /\ "pause" \notin raced' => "pause" \notin raced \/ ~(pause' = pause \/ pause' = "waiting")
  BY <1>2 DEF Changes
<1>4. PICK p : p = pause'
  OBVIOUS
<1>5. PICK g : g = game /\ g = game' /\ g \in Game
  BY <1>1, <1>2
<1>6. ASSUME NEW x \in Message, x.type \in AboutGame, ~HasState(x), Told(<<x>>), p \in Pauses,
             (Decides(x) /\ Verdict(x) = p) \/ (p \in {pause, "waiting"} /\ p = Adds(x, pause) /\ ~Decides(x))
      PROVE  RoomInv'
  <2>1. inbox' = IF joined THEN Append(inbox, x) ELSE inbox
    BY <1>1, <1>6, ToldThem
  <2>2. PICK one \in Seq(Message) : one = Append(inbox, x)
    <3>1. Append(inbox, x) \in Seq(Message)
      BY <1>1, QueueGrows
    <3> QED BY <3>1
  <2>3. /\ QueueFits(one, view) /\ \A S : Reaches(inbox, view, S) => Reaches(one, view, S)
        /\ (\E i \in 1..Len(inbox) : inbox[i].type = "ack") => \E i \in 1..Len(one) : one[i].type = "ack"
    BY <1>1, <1>6, <2>2, GameTold
  <2>4. GameWillBe(inbox, view, g) => GameWillBe(one, view, g)
    BY <1>1, <1>6, <2>2, GameAppended
  <2>5. PICK o : o = pause
    OBVIOUS
  <2>6. "pause" \notin raced' /\ PauseWillBe(inbox, view, o) => PauseWillBe(one, view, p) \/ "pause" \in raced
    BY <1>1, <1>6, <2>2, <2>5, PauseAppended
  <2>7. "pause" \notin raced' /\ "pause" \in raced => PauseWillBe(one, view, p)
    <3>1. "pause" \notin raced' /\ "pause" \in raced => Decides(x) /\ Verdict(x) = p
      BY <1>3, <1>4, <1>6
    <3> QED BY <1>1, <2>2, <3>1, PauseAppended
  <2>8. PICK q \in Seq(Message) : q = inbox' /\ (~joined => q = inbox) /\ (joined => q = one)
    BY <1>1, <2>1, <2>2
  <2>9. QueueFits(q, view) /\ \A S : Reaches(inbox, view, S) => Reaches(q, view, S)
    BY <1>1, <2>3, <2>8
  <2>10. (\E i \in 1..Len(inbox) : inbox[i].type = "ack") => \E i \in 1..Len(q) : q[i].type = "ack"
    BY <2>3, <2>8
  <2>11. joined /\ "game" \notin raced' =>
           GameWillBe(q, view, game') \/ ("game" \notin raced /\ ~GameWillBe(inbox, view, game))
    BY <1>3, <1>5, <2>4, <2>8
  <2>12. joined /\ "pause" \notin raced' =>
           PauseWillBe(q, view, pause') \/ ("pause" \notin raced /\ ~PauseWillBe(inbox, view, pause))
    BY <1>4, <2>5, <2>6, <2>7, <2>8
  <2>13. "game" \notin raced' => ~HoldsGame \/ ("game" \notin raced /\ game' = game)
    BY <1>2, <1>3
  <2>14. game' \in Game /\ pause' \in Pauses /\ (game.over => game'.over)
    BY <1>4, <1>5, <1>6
  <2> QED BY <1>2, <1>3, <2>8, <2>9, <2>10, <2>11, <2>12, <2>13, <2>14, GameActs
<1>7. CASE pause' = (IF pause = "none" THEN "waiting" ELSE pause) /\ Told(<<[type |-> "paused"]>>)
  <2>1. PICK x \in Message : x = [type |-> "paused"] /\ x.type = "paused"
    BY MessagesMade
  <2>2. x.type \in AboutGame /\ ~HasState(x) /\ ~Decides(x) /\ p \in {pause, "waiting"} /\ p = Adds(x, pause) /\ p \in Pauses
    BY <1>1, <1>4, <1>7, <2>1 DEF AboutGame, HasState, Decides, Adds, Pauses
  <2> QED BY <1>6, <1>7, <2>1, <2>2
<1>8. CASE pause = "waiting" /\ pause' = "voting" /\ Told(<<[type |-> "voteStarted"]>>)
  <2>1. PICK x \in Message : x = [type |-> "voteStarted"] /\ x.type = "voteStarted"
    BY MessagesMade
  <2>2. x.type \in AboutGame /\ ~HasState(x) /\ Decides(x) /\ Verdict(x) = p /\ p \in Pauses
    BY <1>4, <1>8, <2>1 DEF AboutGame, HasState, Decides, Verdict, Pauses
  <2> QED BY <1>6, <1>8, <2>1, <2>2
<1>9. CASE pause = "voting" /\ pause' = "waiting" /\ Told(<<[type |-> "waitExtended"]>>)
  <2>1. PICK x \in Message : x = [type |-> "waitExtended"] /\ x.type = "waitExtended"
    BY MessagesMade
  <2>2. x.type \in AboutGame /\ ~HasState(x) /\ ~Decides(x) /\ p \in {pause, "waiting"} /\ p = Adds(x, pause) /\ p \in Pauses
    BY <1>4, <1>9, <2>1 DEF AboutGame, HasState, Decides, Adds, Pauses
  <2> QED BY <1>6, <1>9, <2>1, <2>2
<1>10. CASE pause # "none" /\ pause' = "none" /\ Told(<<[type |-> "resumed"], [type |-> "state", game |-> game]>>)
  <2>1. PICK x \in Message, y \in Message : /\ x = [type |-> "resumed"] /\ y = [type |-> "state", game |-> game]
                                            /\ x.type = "resumed" /\ y.type = "state" /\ y.game = g
    BY <1>1, <1>5, MessagesMade
  <2>2. x.type \in AboutGame /\ y.type \in AboutGame /\ HasState(y) /\ Decides(x) /\ Verdict(x) = "none" /\ ~Decides(y)
        /\ Adds(y, "none") = "none"
    BY <2>1 DEF AboutGame, HasState, Decides, Verdict, Adds
  <2>3. inbox' = IF joined THEN Append(Append(inbox, x), y) ELSE inbox
    BY <1>1, <1>10, <2>1, ToldThem
  <2>4. PICK one \in Seq(Message) : one = Append(inbox, x)
    <3>1. Append(inbox, x) \in Seq(Message)
      BY <1>1, QueueGrows
    <3> QED BY <3>1
  <2>5. PICK two \in Seq(Message) : two = Append(one, y)
    <3>1. Append(one, y) \in Seq(Message)
      BY QueueGrows
    <3> QED BY <3>1
  <2>6. /\ QueueFits(one, view) /\ \A S : Reaches(inbox, view, S) => Reaches(one, view, S)
        /\ (\E i \in 1..Len(inbox) : inbox[i].type = "ack") => \E i \in 1..Len(one) : one[i].type = "ack"
    BY <1>1, <2>2, <2>4, GameTold
  <2>7. /\ QueueFits(two, view) /\ \A S : Reaches(one, view, S) => Reaches(two, view, S)
        /\ (\E i \in 1..Len(one) : one[i].type = "ack") => \E i \in 1..Len(two) : two[i].type = "ack"
    BY <2>2, <2>5, <2>6, GameTold
  <2>8. GameWillBe(two, view, g)
    BY <2>1, <2>2, <2>5, GameAppended
  <2>9. PauseWillBe(one, view, "none")
    BY <1>1, <2>2, <2>4, PauseAppended
  <2>10. PauseWillBe(two, view, "none")
    BY <1>1, <2>2, <2>5, <2>9, PauseAppended
  <2>11. PICK q \in Seq(Message) : q = inbox' /\ (~joined => q = inbox) /\ (joined => q = two)
    BY <1>1, <2>3, <2>4, <2>5
  <2>12. QueueFits(q, view) /\ \A S : Reaches(inbox, view, S) => Reaches(q, view, S)
    BY <1>1, <2>6, <2>7, <2>11
  <2>13. (\E i \in 1..Len(inbox) : inbox[i].type = "ack") => \E i \in 1..Len(q) : q[i].type = "ack"
    BY <2>6, <2>7, <2>11
  <2>14. joined => GameWillBe(q, view, game')
    BY <1>5, <2>8, <2>11
  <2>15. joined => PauseWillBe(q, view, pause')
    BY <1>10, <2>10, <2>11
  <2>16. game' \in Game /\ pause' \in Pauses /\ (game.over => game'.over)
    BY <1>2, <1>5, <1>10 DEF Pauses
  <2>17. "game" \notin raced' => ~HoldsGame \/ ("game" \notin raced /\ game' = game)
    BY <1>2, <1>3
  <2> QED BY <1>2, <1>3, <2>11, <2>12, <2>13, <2>14, <2>15, <2>16, <2>17, GameActs
<1> QED BY <1>7, <1>8, <1>9, <1>10 DEF PauseChanges

(* A game conceded. *)
LEMMA ConcedesKeeps ==
  ASSUME RoomAssumption, RoomInv, Concedes
  PROVE  RoomInv'
<1> USE DEF RoomInv
<1>1. /\ game \in Game /\ inbox \in Seq(Message) /\ joined \in BOOLEAN /\ QueueFits(inbox, view)
      /\ view \in View \cup {Nothing} /\ pause \in Pauses
  BY DEF RoomType
<1>2. /\ UNCHANGED <<log, said, hearts, click, clientVars, socket, joined, calls, rest, heartsCrossed, unheard>>
      /\ Changes({"game", "pause"}, HoldsGame) /\ ~game.over
      /\ game' = [ver |-> game.ver + 1, over |-> TRUE] /\ pause' = "none"
      /\ Told(<<[type |-> "state", game |-> game'], [type |-> "over", game |-> game'], [type |-> "conceded"]>>)
  BY DEF Concedes
<1>3. ~HoldsGame => ~HoldsPause
  BY DEF HoldsGame, HoldsPause, Holding
<1>4. "game" \notin raced' \/ "pause" \notin raced' => ~HoldsGame /\ ~HoldsPause
  BY <1>2, <1>3 DEF Changes
<1>5. PICK g \in Game : g = game'
  <2>1. PICK n \in Nat : n = game.ver + 1
    BY <1>1 DEF Game
  <2>2. [ver |-> n, over |-> TRUE] \in Game
    BY DEF Game
  <2> QED BY <1>2, <2>1, <2>2
<1>6. PICK x \in Message, y \in Message, z \in Message :
        /\ x = [type |-> "state", game |-> g] /\ y = [type |-> "over", game |-> g] /\ z = [type |-> "conceded"]
        /\ x.type = "state" /\ y.type = "over" /\ z.type = "conceded" /\ y.game = g
  BY MessagesMade
<1>7. /\ x.type \in AboutGame /\ y.type \in AboutGame /\ z.type \in AboutGame
      /\ HasState(y) /\ ~HasState(z) /\ Decides(z) /\ Verdict(z) = "none"
  BY <1>6 DEF AboutGame, HasState, Decides, Verdict
<1>8. inbox' = IF joined THEN Append(Append(Append(inbox, x), y), z) ELSE inbox
  <2>1. Told(<<x, y, z>>)
    BY <1>2, <1>5, <1>6
  <2> QED BY <1>1, <2>1, ToldThem
<1>9. PICK one \in Seq(Message) : one = Append(inbox, x)
  <2>1. Append(inbox, x) \in Seq(Message)
    BY <1>1, QueueGrows
  <2> QED BY <2>1
<1>10. PICK two \in Seq(Message) : two = Append(one, y)
  <2>1. Append(one, y) \in Seq(Message)
    BY QueueGrows
  <2> QED BY <2>1
<1>11. PICK three \in Seq(Message) : three = Append(two, z)
  <2>1. Append(two, z) \in Seq(Message)
    BY QueueGrows
  <2> QED BY <2>1
<1>12. /\ QueueFits(three, view) /\ \A S : Reaches(inbox, view, S) => Reaches(three, view, S)
       /\ (\E i \in 1..Len(inbox) : inbox[i].type = "ack") => \E i \in 1..Len(three) : three[i].type = "ack"
  <2>1. /\ QueueFits(one, view) /\ \A S : Reaches(inbox, view, S) => Reaches(one, view, S)
        /\ (\E i \in 1..Len(inbox) : inbox[i].type = "ack") => \E i \in 1..Len(one) : one[i].type = "ack"
    BY <1>1, <1>7, <1>9, GameTold
  <2>2. /\ QueueFits(two, view) /\ \A S : Reaches(one, view, S) => Reaches(two, view, S)
        /\ (\E i \in 1..Len(one) : one[i].type = "ack") => \E i \in 1..Len(two) : two[i].type = "ack"
    BY <1>7, <1>10, <2>1, GameTold
  <2>3. /\ QueueFits(three, view) /\ \A S : Reaches(two, view, S) => Reaches(three, view, S)
        /\ (\E i \in 1..Len(two) : two[i].type = "ack") => \E i \in 1..Len(three) : three[i].type = "ack"
    BY <1>7, <1>11, <2>2, GameTold
  <2> QED BY <2>1, <2>2, <2>3
<1>13. GameWillBe(three, view, g)
  <2>1. GameWillBe(two, view, g)
    BY <1>6, <1>7, <1>10, GameAppended
  <2> QED BY <1>7, <1>11, <2>1, GameAppended
<1>14. PauseWillBe(three, view, "none")
  BY <1>1, <1>7, <1>11, PauseAppended
<1>15. PICK q \in Seq(Message) : q = inbox' /\ (~joined => q = inbox) /\ (joined => q = three)
  BY <1>1, <1>8, <1>9, <1>10, <1>11
<1>16. QueueFits(q, view) /\ \A S : Reaches(inbox, view, S) => Reaches(q, view, S)
  BY <1>1, <1>12, <1>15
<1>17. (\E i \in 1..Len(inbox) : inbox[i].type = "ack") => \E i \in 1..Len(q) : q[i].type = "ack"
  BY <1>12, <1>15
<1>18. joined => GameWillBe(q, view, game') /\ PauseWillBe(q, view, pause')
  BY <1>2, <1>5, <1>13, <1>14, <1>15
<1>19. game' \in Game /\ pause' \in Pauses /\ (game.over => game'.over)
  BY <1>2, <1>5 DEF Pauses
<1> QED BY <1>2, <1>4, <1>15, <1>16, <1>17, <1>18, <1>19, GameActs

-----------------------------------------------------------------------------
(* What each action keeps, when the chat or its reactions change. *)
LEMMA ChatActs ==
  ASSUME RoomAssumption, RoomInv, UNCHANGED <<game, pause, clientVars, socket, joined, calls, rest, raced>>,
         log' \in Seq(Nat), said' \in Nat, hearts' \subseteq Nat, click' \in Nat \cup {Nothing}, LogFits', HeldFits',
         NEW q \in Seq(Message), inbox' = q, NEW x \in Message, x.type \in {"message", "reaction"},
         q = inbox \/ (joined /\ q = Append(inbox, x)), QueueFits(inbox, view)', ViewFits(view)',
         \A h \in Handlers : Doing(h, Informed) /\ Reaches(inbox, view, Range(calls[h].chat))
                               => Reaches(inbox, view, Range(calls[h].chat))',
         joined /\ Reaches(inbox, view, {}) => Reaches(inbox, view, {})'
  PROVE  RoomInv'
<1> USE DEF RoomInv
<1>1. RoomType'
  BY DEF RoomType, clientVars
<1>2. WireFits'
  BY ServerWire DEF clientVars
<1>3. CopiesFit'
  BY ServerCopies
<1>4. ASSUME joined, Follows(inbox, view) PROVE Follows(inbox, view)'
  <2>1. PICK g, p, v : g = game' /\ p = pause' /\ g = game /\ p = pause /\ v = view' /\ v = view
    BY DEF clientVars
  <2>2. Reaches(inbox, view, {})'
    BY <1>4 DEF Follows
  <2>3. ~HasState(x) /\ ~Decides(x) /\ Adds(x, p) = p
    BY DEF HasState, Decides, Adds
  <2>4. inbox \in Seq(Message) /\ view \in View \cup {Nothing}
    BY DEF RoomType
  <2>5. GameWillBe(inbox, v, g) => GameWillBe(q, v, g)
    <3>1. GameWillBe(inbox, v, g) => GameWillBe(Append(inbox, x), v, g)
      BY <2>3, <2>4, GameAppended
    <3> QED BY <3>1
  <2>6. PauseWillBe(inbox, v, p) => PauseWillBe(q, v, p)
    <3>1. PauseWillBe(inbox, v, p) => PauseWillBe(Append(inbox, x), v, p)
      BY <2>1, <2>3, <2>4, PauseAppended
    <3> QED BY <3>1
  <2>7. v # Nothing \/ \E i \in 1..Len(q) : q[i].type = "ack"
    <3>1. v # Nothing \/ \E i \in 1..Len(inbox) : inbox[i].type = "ack"
      BY <1>4, <2>1 DEF Follows
    <3>2. \A i \in 1..Len(inbox) : q[i] = inbox[i] /\ i \in 1..Len(q)
      <4>1. CASE q = inbox
        BY <4>1
      <4>2. CASE q = Append(inbox, x)
        BY <2>4, <4>2, QueueGrows
      <4> QED BY <4>1, <4>2
    <3> QED BY <3>1, <3>2
  <2>8. ("game" \notin raced' => GameWillBe(q, v, g)) /\ ("pause" \notin raced' => PauseWillBe(q, v, p))
    BY <1>4, <2>1, <2>5, <2>6 DEF Follows
  <2> QED BY <2>1, <2>2, <2>7, <2>8, FollowsThen
<1>5. PageFollows'
  BY <1>4, ServerPage
<1> QED BY <1>1, <1>2, <1>3, <1>5

(* A message said: newer than all there is. *)
LEMMA HistoryGrows ==
  ASSUME said \in Nat, said' = said + 1, Range(log') \subseteq Range(log) \cup {said'}, NEW c, NEW hs, HistoryFits(c, hs)
  PROVE  HistoryFits(c, hs)'
<1>1. \A m \in Range(c) \cup hs : m \in 1..said' /\ m # said'
  BY DEF HistoryFits
<1>2. \A m \in Range(log') \cap hs : m \in Range(c)
  BY <1>1 DEF HistoryFits
<1>3. said' <= HistoryLimit => \E k \in 0..said' : c = Said(k)
  <2> HAVE said' <= HistoryLimit
  <2>1. ~(said <= HistoryLimit) => FALSE
    BY RoomAssumption DEF RoomAssumption
  <2>2. PICK k \in 0..said : c = Said(k)
    BY <2>1 DEF HistoryFits
  <2>3. k \in 0..said'
    OBVIOUS
  <2> QED BY <2>2, <2>3
<1> QED BY <1>1, <1>2, <1>3 DEF HistoryFits, Said

LEMMA ReachesMore ==
  ASSUME RoomAssumption, said \in Nat, said' = said + 1, Range(log') \subseteq Range(log) \cup {said'}, LogFits,
         UNCHANGED <<hearts, click, heartsCrossed>>, NEW q \in Seq(Message), NEW v, QueueFits(q, v), ViewFits(v),
         NEW S, Reaches(q, v, S), NEW x \in Message, x.type = "message", x.id = said', NEW r \in Seq(Message),
         (r = q /\ unheard' = unheard \cup {said'}) \/ (r = Append(q, x) /\ unheard' = unheard),
         inbox' = r, view' = v
  PROVE  Reaches(inbox, view, S)'
<1>1. PICK n : n = said' /\ n \in Nat /\ n \notin 1..said /\ 1..n = 1..said \cup {n}
  OBVIOUS
<1>2. /\ \A i \in 1..Len(q) : r[i] = q[i] /\ i \in 1..Len(r)
      /\ r = Append(q, x) => Len(r) \in 1..Len(r) /\ r[Len(r)] = x
      /\ \A i \in 1..Len(r) : (i \in 1..Len(q) /\ r[i] = q[i]) \/ r[i] = x
  BY QueueGrows
<1>3. \A m : Comes(q, v, m) => Comes(r, v, m)
  BY <1>2 DEF Comes
<1>4. r = Append(q, x) => Comes(r, v, n)
  BY <1>1, <1>2 DEF Comes
<1>5. ASSUME said' <= HistoryLimit, NEW m \in 1..said' PROVE m \in S \cup unheard' \/ Comes(r, v, m)
  <2>1. CASE m = n
    BY <1>1, <1>4, <2>1
  <2>2. CASE m \in 1..said
    <3>1. said <= HistoryLimit
      BY <1>5 DEF RoomAssumption
    <3>2. m \in S \cup unheard \/ Comes(q, v, m)
      BY <2>2, <3>1 DEF Reaches
    <3> QED BY <1>3, <3>2
  <2> QED BY <1>1, <1>5, <2>1, <2>2
<1>6. ASSUME NEW m \in Range(log') \ (S \cup heartsCrossed), click # m PROVE HeartWillBe(r, v, m, m \in hearts)
  <2>1. CASE m = n
    <3>1. \A i \in 1..Len(q) : ~Sets(q[i], n)
      BY <1>1 DEF QueueFits, HistoryFits, Sets
    <3>2. ~Sets(x, n)
      BY DEF Sets, Tells
    <3>3. \A i \in 1..Len(r) : ~Sets(r[i], n)
      BY <1>2, <3>1, <3>2
    <3>4. v # Nothing => n \notin v.hearts
      BY <1>1 DEF ViewFits
    <3>5. n \notin hearts
      BY <1>1 DEF LogFits
    <3> QED BY <2>1, <3>3, <3>4, <3>5 DEF HeartWillBe
  <2>2. CASE m # n
    <3>1. m \in Range(log) \ (S \cup heartsCrossed)
      BY <1>1, <1>6, <2>2
    <3>2. PICK on \in BOOLEAN : on <=> m \in hearts
      OBVIOUS
    <3>3. HeartWillBe(q, v, m, m \in hearts)
      BY <1>6, <3>1 DEF Reaches
    <3>4. HeartWillBe(q, v, m, on)
      BY <3>2, <3>3 DEF HeartWillBe
    <3>5. ~Sets(x, m) /\ ~(x.type = "message" /\ x.id = m)
      BY <1>1, <2>2 DEF Sets, Tells
    <3>6. HeartWillBe(r, v, m, on)
      <4>1. HeartWillBe(Append(q, x), v, m, on)
        BY <3>4, <3>5, HeartAppended
      <4> QED BY <3>4, <4>1
    <3> QED BY <3>2, <3>6 DEF HeartWillBe
  <2> QED BY <2>1, <2>2
<1>7. PICK H, C, K : H = hearts' /\ C = heartsCrossed' /\ K = click' /\ H = hearts /\ C = heartsCrossed /\ K = click
  OBVIOUS
<1>8. \A m \in Range(log') \ (S \cup C) : K # m => HeartWillBe(r, v, m, m \in H)
  BY <1>6, <1>7
<1> QED BY <1>5, <1>7, <1>8 DEF Reaches, Comes, HeartWillBe, WillHave, Sets, IsOn

LEMMA SaysKeeps ==
  ASSUME RoomAssumption, RoomInv, Says
  PROVE  RoomInv'
<1> USE DEF RoomInv
<1>1. /\ said' = said + 1 /\ log' = LastN(Append(log, said'), HistoryLimit)
      /\ Told(<<[type |-> "message", id |-> said']>>)
      /\ unheard' = IF ~joined /\ HoldsChat THEN unheard \cup {said'} ELSE unheard
      /\ UNCHANGED <<game, pause, hearts, click, clientVars, socket, joined, calls, rest, raced, heartsCrossed>>
  BY DEF Says
<1>2. /\ inbox \in Seq(Message) /\ said \in Nat /\ said' \in Nat /\ log \in Seq(Nat) /\ joined \in BOOLEAN
      /\ HistoryLimit \in Nat /\ hearts \subseteq Nat /\ click \in Nat \cup {Nothing}
  BY <1>1 DEF RoomType, RoomAssumption
<1>3. PICK n \in Nat : n = said' /\ n = said + 1 /\ n \notin 1..said
  BY <1>1, <1>2
<1>4. PICK x \in Message : x = [type |-> "message", id |-> n] /\ x.type = "message" /\ x.id = n
  BY MessagesMade
<1>5. inbox' = IF joined THEN Append(inbox, x) ELSE inbox
  <2>1. Told(<<x>>)
    BY <1>1, <1>3, <1>4
  <2> QED BY <1>2, <2>1, ToldThem
<1>6. PICK l \in Seq(Nat) : /\ l = Append(log, n) /\ Range(l) \subseteq Range(log) \cup {n} /\ Len(l) = Len(log) + 1
                            /\ \A i \in 1..Len(log) : l[i] = log[i]
                            /\ l[Len(log) + 1] = n
  <2>1. Append(log, n) \in Seq(Nat) /\ Len(Append(log, n)) = Len(log) + 1
    BY <1>2
  <2>2. \A i \in 1..(Len(log) + 1) : Append(log, n)[i] = IF i = Len(log) + 1 THEN n ELSE log[i]
    BY <1>2
  <2>3. Range(Append(log, n)) \subseteq Range(log) \cup {n}
    BY <1>2, <2>1, <2>2 DEF Range
  <2>4. \A i \in 1..Len(log) : i \in 1..(Len(log) + 1) /\ i # Len(log) + 1
    BY <1>2
  <2>5. Len(log) + 1 \in 1..(Len(log) + 1)
    BY <1>2
  <2>6. PICK l : l = Append(log, n)
    OBVIOUS
  <2>7. l \in Seq(Nat) /\ Range(l) \subseteq Range(log) \cup {n} /\ Len(l) = Len(log) + 1
    BY <2>1, <2>3, <2>6
  <2>8. (\A i \in 1..Len(log) : l[i] = log[i]) /\ l[Len(log) + 1] = n
    BY <2>2, <2>4, <2>5, <2>6
  <2> QED BY <2>6, <2>7, <2>8
<1>7. log' \in Seq(Nat) /\ Range(log') \subseteq Range(log) \cup {n} /\ (Len(l) <= HistoryLimit => log' = l)
  <2>1. log' = LastN(l, HistoryLimit)
    BY <1>1, <1>3, <1>6
  <2> QED BY <1>2, <1>6, <2>1, LastOnes
<1>8. LogFits'
  <2>1. \A m \in Range(log') \cup hearts' : m \in 1..said'
    <3>1. \A m \in Range(log) \cup hearts : m \in 1..said
      BY DEF LogFits
    <3>2. 1..said \subseteq 1..n /\ n \in 1..n
      BY <1>2, <1>3
    <3>3. hearts' = hearts /\ said' = n
      BY <1>1, <1>3
    <3> QED BY <1>7, <3>1, <3>2, <3>3
  <2>2. ASSUME said' <= HistoryLimit PROVE log' = Said(n)
    <3>1. said <= HistoryLimit /\ log = Said(said)
      BY <1>1, <1>2, <2>2 DEF LogFits
    <3>2. Len(log) = said /\ \A i \in 1..said : log[i] = i
      BY <1>2, <3>1 DEF Said
    <3>3. Len(l) = n /\ \A i \in 1..n : l[i] = i
      BY <1>2, <1>3, <1>6, <3>2
    <3>4. l = Said(n)
      <4>1. Said(n) \in Seq(Nat) /\ Len(Said(n)) = n /\ \A i \in 1..n : Said(n)[i] = i
        BY DEF Said
      <4> QED BY <1>6, <3>3, <4>1, SameSequence
    <3> QED BY <1>3, <1>7, <2>2, <3>3, <3>4
  <2>3. \A m \in Range(log') \ heartsCrossed' : click' = m => m \in hearts'
    BY <1>1, <1>2, <1>3, <1>7 DEF LogFits, RoomAssumption
  <2>4. click' = Nothing \/ click' \in 1..said'
    BY <1>1, <1>2 DEF LogFits
  <2> QED BY <1>3, <2>1, <2>2, <2>3, <2>4 DEF LogFits, Said
<1>9. HeldFits'
  <2> SUFFICES ASSUME NEW h \in Handlers, Doing(h, HasChat)'
               PROVE  /\ HistoryFits(calls[h].chat, calls[h].hearts)'
                      /\ (\A m \in Range(log) \ heartsCrossed :
                           /\ m \in Range(calls[h].chat) => (m \in calls[h].hearts <=> m \in hearts)
                           /\ click = m => m \in Range(calls[h].chat))'
    BY DEF HeldFits
  <2>1. PICK c, hs : c = calls[h].chat /\ hs = calls[h].hearts /\ c = calls'[h].chat /\ hs = calls'[h].hearts
    BY <1>1
  <2>2. /\ HistoryFits(c, hs)
        /\ \A m \in Range(log) \ heartsCrossed :
             /\ m \in Range(c) => (m \in hs <=> m \in hearts)
             /\ click = m => m \in Range(c)
    BY <1>1, <2>1 DEF HeldFits, Doing
  <2>3. HistoryFits(c, hs)'
    BY <1>1, <1>2, <1>3, <1>7, <2>2, HistoryGrows
  <2>4. n \notin Range(c) /\ click # n
    BY <1>2, <1>3, <2>2 DEF HistoryFits, LogFits, RoomAssumption
  <2> QED BY <1>1, <1>7, <2>1, <2>2, <2>3, <2>4 DEF HistoryFits, Said
<1>10. PICK q \in Seq(Message) : q = inbox' /\ ((q = inbox /\ ~joined) \/ (joined /\ q = Append(inbox, x)))
  <2>1. Append(inbox, x) \in Seq(Message)
    BY <1>2, QueueGrows
  <2> QED BY <1>2, <1>5, <2>1
<1>11. PICK v : v = view /\ v = view'
  BY <1>1 DEF clientVars
<1>12. /\ \A i \in 1..Len(inbox) : q[i] = inbox[i]
       /\ \A i \in 1..Len(q) : (i \in 1..Len(inbox) /\ q[i] = inbox[i]) \/ (q[i] = x /\ i = Len(inbox) + 1)
  <2>1. CASE q = inbox
    BY <2>1
  <2>2. CASE q = Append(inbox, x)
    <3>1. /\ Len(q) = Len(inbox) + 1 /\ \A i \in 1..Len(inbox) : q[i] = inbox[i]
          /\ q[Len(inbox) + 1] = x /\ 1..(Len(inbox) + 1) = 1..Len(inbox) \cup {Len(inbox) + 1}
      BY <1>2, <2>2, QueueGrows
    <3> QED BY <3>1
  <2> QED BY <1>10, <2>1, <2>2
<1>13. QueueFits(inbox, view)' /\ ViewFits(view)'
  <2>1. ASSUME NEW i \in 1..Len(q)
        PROVE  /\ q[i].type \in {"message", "reaction"} => q[i].id \in 1..n
               /\ Tells(q[i]) => HistoryFits(q[i].chat, q[i].hearts)'
               /\ q[i].type = "message" =>
                    /\ v # Nothing => \A m \in Range(v.chat) \cup v.hearts : m < q[i].id
                    /\ \A j \in 1..(i - 1) : Older(q[j], q[i].id)
    <3>1. CASE i \in 1..Len(inbox)
      <4>1. PICK y : y = inbox[i] /\ y = q[i]
        BY <1>12, <3>1
      <4>2. /\ y.type \in {"message", "reaction"} => y.id \in 1..said
            /\ Tells(y) => HistoryFits(y.chat, y.hearts)
            /\ y.type = "message" =>
                 /\ v # Nothing => \A m \in Range(v.chat) \cup v.hearts : m < y.id
                 /\ \A j \in 1..(i - 1) : Older(inbox[j], y.id)
        BY <1>11, <3>1, <4>1 DEF QueueFits
      <4>3. Tells(y) => HistoryFits(y.chat, y.hearts)'
        BY <1>1, <1>2, <1>3, <1>7, <4>2, HistoryGrows
      <4>4. y.type \in {"message", "reaction"} => y.id \in 1..n
        BY <1>2, <1>3, <4>2
      <4>5. \A j \in 1..(i - 1) : q[j] = inbox[j]
        <5> TAKE j \in 1..(i - 1)
        <5>1. j \in 1..Len(inbox)
          BY <1>2, <3>1
        <5> QED BY <1>12, <5>1
      <4> QED BY <4>1, <4>2, <4>3, <4>4, <4>5 DEF HistoryFits, Said
    <3>2. CASE q[i] = x /\ i = Len(inbox) + 1
      <4>1. x.id \in 1..n /\ ~Tells(x)
        BY <1>2, <1>3, <1>4 DEF Tells
      <4>2. v # Nothing => \A m \in Range(v.chat) \cup v.hearts : m < n
        BY <1>2, <1>3, <1>11 DEF ViewFits
      <4>3. \A j \in 1..(i - 1) : Older(q[j], n)
        <5> TAKE j \in 1..(i - 1)
        <5>1. j \in 1..Len(inbox) /\ q[j] = inbox[j]
          BY <1>2, <1>12, <3>2
        <5>2. PICK y : y = inbox[j] /\ y = q[j]
          BY <5>1
        <5>3. /\ y.type \in {"message", "reaction"} => y.id \in 1..said
              /\ Tells(y) => \A m \in Range(y.chat) \cup y.hearts : m \in 1..said
          BY <1>11, <5>1, <5>2 DEF QueueFits, HistoryFits
        <5>4. \A m \in 1..said : m < n
          BY <1>2, <1>3
        <5> QED BY <5>2, <5>3, <5>4 DEF Older
      <4> QED BY <1>4, <3>2, <4>1, <4>2, <4>3
    <3> QED BY <1>12, <3>1, <3>2
  <2>2. /\ v # Nothing => \A m \in Range(v.chat) \cup v.hearts : m \in 1..n
        /\ v # Nothing /\ n <= HistoryLimit => Ascending(v.chat)
    BY <1>2, <1>3, <1>11 DEF ViewFits
  <2>3. QueueFits(inbox, view)'
    BY <1>3, <1>10, <1>11, <2>1 DEF QueueFits, HistoryFits, Older, Tells, Said
  <2>4. ViewFits(view)'
    BY <1>3, <1>11, <2>2 DEF ViewFits, Ascending
  <2> QED BY <2>3, <2>4
<1>14. ASSUME NEW S, Reaches(inbox, view, S), joined \/ HoldsChat PROVE Reaches(inbox, view, S)'
  <2>1. (q = inbox /\ unheard' = unheard \cup {said'}) \/ (q = Append(inbox, x) /\ unheard' = unheard)
    BY <1>1, <1>10, <1>14
  <2> QED BY <1>1, <1>2, <1>3, <1>4, <1>7, <1>10, <1>11, <1>14, <2>1, ReachesMore
<1>15. ASSUME NEW h \in Handlers, Doing(h, Informed), Reaches(inbox, view, Range(calls[h].chat))
       PROVE  Reaches(inbox, view, Range(calls[h].chat))'
  <2>1. HoldsChat
    BY <1>15 DEF HoldsChat, Holding, Doing, Informed
  <2>2. PICK S : S = Range(calls[h].chat) /\ S = Range(calls'[h].chat)
    BY <1>1
  <2>3. Reaches(inbox, view, S)'
    BY <1>14, <1>15, <2>1, <2>2
  <2> QED BY <2>2, <2>3 DEF Reaches
<1>16. x.type \in {"message", "reaction"}
  BY <1>4
<1> QED BY <1>1, <1>2, <1>7, <1>8, <1>9, <1>10, <1>13, <1>14, <1>15, <1>16, ChatActs

(* A reaction to message k: of the others nothing changes. *)
LEMMA ReachesReaction ==
  ASSUME RoomAssumption, UNCHANGED <<said, log, unheard>>, NEW k \in Nat, NEW q, NEW r, NEW v, NEW S, Reaches(q, v, S),
         \A m : Comes(q, v, m) => Comes(r, v, m),
         \A m \in Range(log) \ {k} : /\ m \in hearts' <=> m \in hearts
                                     /\ m \in heartsCrossed' <=> m \in heartsCrossed
                                     /\ click = m <=> click' = m,
         \A m \in Range(log) \ {k}, on \in BOOLEAN : HeartWillBe(q, v, m, on) => HeartWillBe(r, v, m, on),
         k \in S \/ k \in heartsCrossed' \/ click' = k \/ HeartWillBe(r, v, k, k \in hearts'),
         inbox' = r, view' = v
  PROVE  Reaches(inbox, view, S)'
<1>1. PICK H, C, K : H = hearts' /\ C = heartsCrossed' /\ K = click'
  OBVIOUS
<1>2. said' <= HistoryLimit => \A m \in 1..said' : m \in S \cup unheard' \/ Comes(r, v, m)
  BY DEF Reaches
<1>3. ASSUME NEW m \in Range(log) \ (S \cup C), K # m PROVE HeartWillBe(r, v, m, m \in H)
  <2>1. CASE m = k
    BY <1>1, <1>3, <2>1
  <2>2. CASE m # k
    <3>1. m \in Range(log) \ (S \cup heartsCrossed) /\ click # m
      BY <1>1, <1>3, <2>2
    <3>2. PICK on \in BOOLEAN : on <=> m \in hearts
      OBVIOUS
    <3>3. HeartWillBe(q, v, m, m \in hearts)
      BY <3>1 DEF Reaches
    <3>4. HeartWillBe(q, v, m, on)
      BY <3>2, <3>3 DEF HeartWillBe
    <3>5. HeartWillBe(r, v, m, on) /\ (on <=> m \in H)
      BY <1>1, <2>2, <3>1, <3>2, <3>4
    <3> QED BY <3>5 DEF HeartWillBe
  <2> QED BY <2>1, <2>2
<1> QED BY <1>1, <1>2, <1>3 DEF Reaches, Comes, HeartWillBe, WillHave, Sets, IsOn

LEMMA ReactKeeps ==
  ASSUME RoomAssumption, RoomInv, NEW k \in Range(log), reactToMessage(k)
  PROVE  RoomInv'
<1> USE DEF RoomInv
<1>1. UNCHANGED <<game, pause, log, said, clientVars, socket, joined, calls, rest, raced, unheard>>
  BY DEF reactToMessage
<1>2. /\ inbox \in Seq(Message) /\ said \in Nat /\ log \in Seq(Nat) /\ joined \in BOOLEAN /\ view \in View \cup {Nothing}
      /\ hearts \subseteq Nat /\ click \in Nat \cup {Nothing} /\ Nothing \notin Nat
  BY DEF RoomType, RoomAssumption
<1>3. k \in 1..said /\ k \in Nat /\ k # Nothing /\ \A m \in Range(log) : m \in Nat /\ m # Nothing
  BY <1>2 DEF LogFits
<1>4. PICK v : v = view /\ v = view' /\ v \in View \cup {Nothing}
  BY <1>1, <1>2 DEF clientVars
<1>5. ASSUME hearts' \subseteq hearts \cup {k}, click' \in {click, Nothing, k},
             \A m \in Range(log) \ {k} : /\ m \in hearts' <=> m \in hearts
                                         /\ m \in heartsCrossed' <=> m \in heartsCrossed
                                         /\ click' = m <=> click = m,
             k \in heartsCrossed' \/ (click' = k => k \in hearts'),
             k \in heartsCrossed' \/ ~HoldsChat \/ (k \notin heartsCrossed /\ hearts' = hearts /\ (click' = k => click = k)),
             NEW q \in Seq(Message), inbox' = q, NEW x \in Message, x.type = "reaction", x.id = k,
             q = inbox \/ (joined /\ q = Append(inbox, x)),
             (k \in heartsCrossed' \/ click' = k) \/ (joined /\ q = Append(inbox, x) /\ (x.on <=> k \in hearts'))
               \/ (~joined /\ (\A h \in Handlers : Doing(h, Informed) => k \in Range(calls[h].chat)))
      PROVE  RoomInv'
  <2>1. LogFits'
    <3>1. \A m \in Range(log') \cup hearts' : m \in 1..said'
      BY <1>1, <1>3, <1>5 DEF LogFits
    <3>2. click' = Nothing \/ click' \in 1..said'
      BY <1>1, <1>3, <1>5 DEF LogFits
    <3>3. \A m \in Range(log) \ heartsCrossed' : click' = m => m \in hearts'
      <4> SUFFICES ASSUME NEW m \in Range(log) \ heartsCrossed', click' = m PROVE m \in hearts'
        OBVIOUS
      <4>1. CASE m = k
        BY <1>5, <4>1
      <4>2. CASE m # k
        <5>1. m \in Range(log) \ heartsCrossed /\ click = m
          BY <1>5, <4>2
        <5>2. m \in hearts
          BY <5>1 DEF LogFits
        <5> QED BY <1>5, <4>2, <5>2
      <4> QED BY <4>1, <4>2
    <3> QED BY <1>1, <3>1, <3>2, <3>3 DEF LogFits, Said
  <2>2. HeldFits'
    <3> SUFFICES ASSUME NEW h \in Handlers, Doing(h, HasChat)'
                 PROVE  /\ HistoryFits(calls[h].chat, calls[h].hearts)'
                        /\ (\A m \in Range(log) \ heartsCrossed :
                             /\ m \in Range(calls[h].chat) => (m \in calls[h].hearts <=> m \in hearts)
                             /\ click = m => m \in Range(calls[h].chat))'
      BY DEF HeldFits
    <3>1. PICK c, hs : c = calls[h].chat /\ hs = calls[h].hearts /\ c = calls'[h].chat /\ hs = calls'[h].hearts
      BY <1>1
    <3>2. /\ HistoryFits(c, hs)
          /\ \A m \in Range(log) \ heartsCrossed :
               /\ m \in Range(c) => (m \in hs <=> m \in hearts)
               /\ click = m => m \in Range(c)
      BY <1>1, <3>1 DEF HeldFits, Doing
    <3>3. HoldsChat
      BY <1>1 DEF HoldsChat, Holding, Doing, HasChat
    <3>4. ASSUME NEW m \in Range(log) \ heartsCrossed'
          PROVE  (m \in Range(c) => (m \in hs <=> m \in hearts')) /\ (click' = m => m \in Range(c))
      <4>1. CASE m = k
        BY <1>5, <3>2, <3>3, <4>1
      <4>2. CASE m # k
        BY <1>5, <3>2, <4>2
      <4> QED BY <4>1, <4>2
    <3>5. HistoryFits(calls[h].chat, calls[h].hearts)'
      BY <1>1, <3>1, <3>2 DEF HistoryFits, Said
    <3>6. PICK H, C, K : H = hearts' /\ C = heartsCrossed' /\ K = click'
      OBVIOUS
    <3>7. \A m \in Range(log) \ C : (m \in Range(c) => (m \in hs <=> m \in H)) /\ (K = m => m \in Range(c))
      BY <3>4, <3>6
    <3> QED BY <1>1, <3>1, <3>5, <3>6, <3>7
  <2>3. QueueFits(q, v) /\ ViewFits(v)
    <3>1. x.type # "message" /\ ~Tells(x)
      BY <1>5 DEF Tells
    <3>2. QueueFits(Append(inbox, x), view)
      BY <1>2, <1>3, <1>5, <3>1, FitsAppended
    <3> QED BY <1>4, <1>5, <3>2
  <2>4. QueueFits(inbox, view)' /\ ViewFits(view)'
    BY <1>1, <1>4, <1>5, <2>3, FitsStill
  <2>5. /\ \A i \in 1..Len(inbox) : q[i] = inbox[i] /\ i \in 1..Len(q)
    <3>1. CASE q = inbox
      BY <3>1
    <3>2. CASE q = Append(inbox, x)
      <4>1. /\ Len(q) = Len(inbox) + 1 /\ \A i \in 1..Len(inbox) : q[i] = inbox[i]
            /\ 1..(Len(inbox) + 1) = 1..Len(inbox) \cup {Len(inbox) + 1}
        BY <1>2, <3>2, QueueGrows
      <4> QED BY <4>1
    <3> QED BY <1>5, <3>1, <3>2
  <2>6. \A m : Comes(inbox, v, m) => Comes(q, v, m)
    BY <2>5 DEF Comes
  <2>7. \A m \in Range(log) \ {k}, on \in BOOLEAN : HeartWillBe(inbox, v, m, on) => HeartWillBe(q, v, m, on)
    <3> TAKE m \in Range(log) \ {k}, on \in BOOLEAN
    <3> HAVE HeartWillBe(inbox, v, m, on)
    <3>1. ~Sets(x, m) /\ x.type # "message"
      BY <1>5 DEF Sets, Tells
    <3>2. HeartWillBe(Append(inbox, x), v, m, on)
      BY <1>2, <3>1, HeartAppended
    <3> QED BY <1>5, <3>2
  <2>8. ASSUME NEW S, Reaches(inbox, view, S), joined \/ k \in S \/ k \in heartsCrossed' \/ click' = k
        PROVE  Reaches(inbox, view, S)'
    <3>1. k \in S \/ k \in heartsCrossed' \/ click' = k \/ HeartWillBe(q, v, k, k \in hearts')
      <4>1. CASE joined /\ q = Append(inbox, x) /\ (x.on <=> k \in hearts')
        <5>1. PICK on \in BOOLEAN : on <=> k \in hearts'
          OBVIOUS
        <5>2. Sets(x, k) /\ (IsOn(x, k) <=> on) /\ x.type # "message"
          BY <1>5, <4>1, <5>1 DEF Sets, IsOn
        <5>3. HeartWillBe(q, v, k, on)
          BY <1>2, <4>1, <5>2, HeartAppended
        <5> QED BY <5>1, <5>3 DEF HeartWillBe
      <4> QED BY <1>5, <2>8, <4>1
    <3>2. PICK i : i = inbox
      OBVIOUS
    <3>3. Reaches(i, v, S) /\ (\A m : Comes(i, v, m) => Comes(q, v, m))
          /\ \A m \in Range(log) \ {k}, on \in BOOLEAN : HeartWillBe(i, v, m, on) => HeartWillBe(q, v, m, on)
      BY <1>4, <2>6, <2>7, <2>8, <3>2
    <3> QED BY <1>1, <1>3, <1>4, <1>5, <3>1, <3>3, ReachesReaction
  <2>9. ASSUME NEW h \in Handlers, Doing(h, Informed), Reaches(inbox, view, Range(calls[h].chat))
        PROVE  Reaches(inbox, view, Range(calls[h].chat))'
    <3>1. PICK S : S = Range(calls[h].chat) /\ S = Range(calls'[h].chat)
      BY <1>1
    <3>2. joined \/ k \in S \/ k \in heartsCrossed' \/ click' = k
      BY <1>5, <2>9, <3>1
    <3>3. Reaches(inbox, view, S)'
      BY <2>8, <2>9, <3>1, <3>2
    <3> QED BY <3>1, <3>3 DEF Reaches
  <2>10. hearts' \subseteq Nat /\ click' \in Nat \cup {Nothing} /\ log' \in Seq(Nat) /\ said' \in Nat
    BY <1>1, <1>2, <1>3, <1>5
  <2>11. UNCHANGED <<game, pause, clientVars, socket, joined, calls, rest, raced>>
    BY <1>1
  <2> QED BY <1>5, <2>1, <2>2, <2>4, <2>8, <2>9, <2>10, <2>11, ChatActs
<1>6. \A on \in BOOLEAN : \E x \in Message : x = [type |-> "reaction", id |-> k, on |-> on] /\ x.type = "reaction" /\ x.id = k /\ x.on = on
  BY <1>3, MessagesMade
<1>7. ~HoldsChat => \A h \in Handlers : ~Doing(h, Informed)
  BY DEF HoldsChat, Holding, Doing, Informed
<1>8. ASSUME NEW on \in BOOLEAN, Told(<<[type |-> "reaction", id |-> k, on |-> on]>>)
      PROVE  \E x \in Message, q \in Seq(Message) :
               /\ q = inbox' /\ x.type = "reaction" /\ x.id = k /\ x.on = on
               /\ (~joined /\ q = inbox) \/ (joined /\ q = Append(inbox, x))
  <2>1. PICK x \in Message : x = [type |-> "reaction", id |-> k, on |-> on] /\ x.type = "reaction" /\ x.id = k /\ x.on = on
    BY <1>6
  <2>2. inbox' = IF joined THEN Append(inbox, x) ELSE inbox
    BY <1>2, <1>8, <2>1, ToldThem
  <2>3. Append(inbox, x) \in Seq(Message)
    BY <1>2, QueueGrows
  <2> QED BY <1>2, <2>1, <2>2, <2>3
<1>9. CASE /\ k \notin hearts /\ click = Nothing /\ hearts' = hearts \cup {k} /\ click' = k
           /\ ChangesHeart(k, HoldsChat) /\ UNCHANGED inbox
  <2>1. PICK x \in Message : x.type = "reaction" /\ x.id = k
    BY <1>6
  <2>2. PICK q \in Seq(Message) : q = inbox' /\ q = inbox
    BY <1>2, <1>9
  <2>3. /\ \A m \in Range(log) \ {k} : m \in heartsCrossed' <=> m \in heartsCrossed
        /\ k \in heartsCrossed' \/ ~HoldsChat
    BY <1>9 DEF ChangesHeart
  <2>4. \A m \in Range(log) \ {k} : (m \in hearts' <=> m \in hearts) /\ (click' = m <=> click = m)
    BY <1>3, <1>9
  <2> QED BY <1>5, <1>9, <2>1, <2>2, <2>3, <2>4
<1>10. CASE /\ k \in hearts /\ hearts' = hearts \ {k} /\ Told(<<[type |-> "reaction", id |-> k, on |-> FALSE]>>)
            /\ ChangesHeart(k, HoldsChat \/ click = k) /\ UNCHANGED click
  <2>1. PICK x \in Message, q \in Seq(Message) :
          /\ q = inbox' /\ x.type = "reaction" /\ x.id = k /\ x.on = FALSE
          /\ (~joined /\ q = inbox) \/ (joined /\ q = Append(inbox, x))
    BY <1>8, <1>10
  <2>2. /\ \A m \in Range(log) \ {k} : m \in heartsCrossed' <=> m \in heartsCrossed
        /\ k \in heartsCrossed' \/ (~HoldsChat /\ click # k)
    BY <1>10 DEF ChangesHeart
  <2>3. \A m \in Range(log) \ {k} : (m \in hearts' <=> m \in hearts) /\ (click' = m <=> click = m)
    BY <1>3, <1>10
  <2>4. k \notin hearts' /\ click' = click
    BY <1>10
  <2>5. k \in heartsCrossed' \/ \A h \in Handlers : ~Doing(h, Informed)
    BY <1>7, <2>2
  <2> QED BY <1>5, <1>10, <2>1, <2>2, <2>3, <2>4, <2>5
<1>11. CASE /\ click = k /\ Told(<<[type |-> "reaction", id |-> k, on |-> TRUE]>>) /\ click' = Nothing
            /\ UNCHANGED <<hearts, heartsCrossed>>
  <2>1. PICK x \in Message, q \in Seq(Message) :
          /\ q = inbox' /\ x.type = "reaction" /\ x.id = k /\ x.on = TRUE
          /\ (~joined /\ q = inbox) \/ (joined /\ q = Append(inbox, x))
    BY <1>8, <1>11
  <2>2. k \in heartsCrossed \/ k \in hearts
    BY <1>11 DEF LogFits
  <2>3. k \in heartsCrossed \/ \A h \in Handlers : Doing(h, Informed) => k \in Range(calls[h].chat)
    BY <1>11 DEF HeldFits, Doing, Informed, HasChat
  <2>4. \A m \in Range(log) \ {k} : click' = m <=> click = m
    BY <1>3, <1>11
  <2>5. click' # k
    BY <1>3, <1>11
  <2> QED BY <1>5, <1>11, <2>1, <2>2, <2>3, <2>4, <2>5
<1> QED BY <1>9, <1>10, <1>11 DEF reactToMessage

(* A handler goes on: what its call has become, and what it says. *)
LEMMA HandlerActs ==
  ASSUME RoomAssumption, RoomInv, NEW h \in Handlers, calls[h] # Nothing, NEW to \in Call \cup {Nothing},
         calls' = [calls EXCEPT ![h] = to],
         UNCHANGED <<serverVars, clientVars, socket, rest, raced, heartsCrossed, unheard>>,
         joined' \in BOOLEAN, joined => joined', NEW q \in Seq(Message), inbox' = q, QueueFits(q, view),
         to # Nothing /\ to.step \in HasGame => to.game \in Game /\ ("game" \notin raced => to.game = game),
         to # Nothing /\ to.step = "sent" => to.pause \in Pauses /\ ("pause" \notin raced => to.pause = pause),
         to # Nothing /\ to.step \in {"joined", "sent"} => joined',
         to # Nothing /\ to.step \in HasChat =>
           /\ HistoryFits(to.chat, to.hearts)
           /\ \A m \in Range(log) \ heartsCrossed :
                /\ m \in Range(to.chat) => (m \in to.hearts <=> m \in hearts)
                /\ click = m => m \in Range(to.chat),
         \A S : Reaches(inbox, view, S) => Reaches(q, view, S),
         Follows(inbox, view) => Follows(q, view),
         Doing(h, {"asked", "read"}) =>
           to # Nothing /\ (to.step \in {"asked", "read"} \/ (to.step \in Informed /\ Reaches(q, view, Range(to.chat)))),
         Doing(h, Informed) /\ Reaches(inbox, view, Range(calls[h].chat)) =>
           \/ to # Nothing /\ to.step \in Informed /\ Reaches(q, view, Range(to.chat))
           \/ joined' /\ Follows(q, view)
  PROVE  RoomInv'
<1> USE DEF RoomInv
<1>1. calls \in [Handlers -> Call \cup {Nothing}] /\ inbox \in Seq(Message)
  BY DEF RoomType
<1>2. calls'[h] = to /\ \A o \in Handlers \ {h} : calls'[o] = calls[o]
  BY <1>1
<1>3. RoomType'
  <2>1. calls' \in [Handlers -> Call \cup {Nothing}]
    BY <1>1
  <2> QED BY <2>1 DEF RoomType, serverVars, clientVars
<1>4. WireFits'
  <2>1. socket = "up" /\ socket' = "up"
    BY DEF WireFits, RoomType
  <2>2. ASSUME NEW o \in Handlers
        PROVE  /\ Doing(o, HasGame)' => calls'[o].game \in Game
               /\ Doing(o, {"sent"})' => calls'[o].pause \in Pauses
               /\ Doing(o, {"joined", "sent"})' => joined'
    <3>1. CASE o = h
      BY <1>2, <3>1 DEF Doing
    <3>2. CASE o # h
      BY <1>2, <3>2 DEF Doing, WireFits
    <3> QED BY <3>1, <3>2
  <2> QED BY <2>1, <2>2 DEF WireFits, serverVars, clientVars, LiveRest
<1>5. CopiesFit'
  <2>1. ASSUME NEW o \in Handlers
        PROVE  /\ "game" \notin raced /\ Doing(o, HasGame)' => calls'[o].game = game
               /\ "pause" \notin raced /\ Doing(o, {"sent"})' => calls'[o].pause = pause
    <3>1. CASE o = h
      BY <1>2, <3>1 DEF Doing
    <3>2. CASE o # h
      BY <1>2, <3>2 DEF Doing, CopiesFit
    <3> QED BY <3>1, <3>2
  <2> QED BY <2>1 DEF CopiesFit, serverVars, LiveRest
<1>6. LogFits'
  BY DEF LogFits, Said, serverVars
<1>7. HeldFits'
  <2> SUFFICES ASSUME NEW o \in Handlers, Doing(o, HasChat)'
               PROVE  /\ HistoryFits(calls[o].chat, calls[o].hearts)'
                      /\ (\A m \in Range(log) \ heartsCrossed :
                           /\ m \in Range(calls[o].chat) => (m \in calls[o].hearts <=> m \in hearts)
                           /\ click = m => m \in Range(calls[o].chat))'
    BY DEF HeldFits
  <2>1. PICK c, hs : c = calls'[o].chat /\ hs = calls'[o].hearts
    OBVIOUS
  <2>2. /\ HistoryFits(c, hs)
        /\ \A m \in Range(log) \ heartsCrossed :
             /\ m \in Range(c) => (m \in hs <=> m \in hearts)
             /\ click = m => m \in Range(c)
    <3>1. CASE o = h
      BY <1>2, <2>1, <3>1 DEF Doing
    <3>2. CASE o # h
      BY <1>2, <2>1, <3>2 DEF HeldFits, Doing
    <3> QED BY <3>1, <3>2
  <2> QED BY <2>1, <2>2 DEF HistoryFits, Said, serverVars
<1>8. PICK v : v = view /\ v = view'
  BY DEF clientVars
<1>9. QueueFits(inbox, view)' /\ ViewFits(view)'
  BY <1>8, FitsStill DEF serverVars
<1>10. ASSUME NEW S, Reaches(q, view, S) PROVE Reaches(inbox, view, S)'
  BY <1>8, <1>10, ReachesStill DEF serverVars
<1>11. Follows(q, view) => Follows(inbox, view)'
  BY <1>8, FollowsStill DEF serverVars
<1>12. ASSUME NEW o \in Handlers, calls'[o] # Nothing, calls'[o].step \in Informed, Reaches(q, view, Range(calls'[o].chat))
       PROVE  Covered'
  <2>1. PICK S : S = Range(calls'[o].chat)
    OBVIOUS
  <2>2. Reaches(inbox, view, S)'
    BY <1>10, <1>12, <2>1
  <2>3. Reaches(inbox, view, Range(calls[o].chat))'
    BY <2>1, <2>2 DEF Reaches
  <2> QED BY <1>12, <2>3 DEF Covered, Doing
<1>13. PageFollows'
  <2>1. (Enabled /\ socket = "up")' <=> Enabled /\ socket = "up"
    BY DEF Enabled, clientVars
  <2>2. CASE Awaited
    <3>1. PICK o \in Handlers : Doing(o, {"asked", "read"})
      BY <2>2 DEF Awaited
    <3>2. CASE o # h
      BY <1>2, <3>1, <3>2 DEF Awaited, Doing, PageFollows
    <3>3. CASE o = h
      <4>1. CASE to # Nothing /\ to.step \in {"asked", "read"}
        BY <1>2, <4>1 DEF Awaited, Doing, PageFollows
      <4>2. CASE to # Nothing /\ to.step \in Informed /\ Reaches(q, view, Range(to.chat))
        BY <1>2, <1>12, <4>2 DEF PageFollows
      <4> QED BY <3>1, <3>3, <4>1, <4>2
    <3> QED BY <3>2, <3>3
  <2>3. CASE Covered
    <3>1. PICK o \in Handlers : Doing(o, Informed) /\ Reaches(inbox, view, Range(calls[o].chat))
      BY <2>3 DEF Covered
    <3>2. CASE o # h
      <4>1. Reaches(q, view, Range(calls[o].chat))
        BY <3>1
      <4> QED BY <1>2, <1>12, <3>1, <3>2, <4>1 DEF Doing, PageFollows
    <3>3. CASE o = h
      <4>1. CASE to # Nothing /\ to.step \in Informed /\ Reaches(q, view, Range(to.chat))
        BY <1>2, <1>12, <4>1 DEF PageFollows
      <4>2. CASE joined' /\ Follows(q, view)
        BY <1>11, <4>2 DEF PageFollows
      <4> QED BY <3>1, <3>3, <4>1, <4>2
    <3> QED BY <3>2, <3>3
  <2>4. CASE joined /\ Follows(inbox, view)
    BY <1>11, <2>4 DEF PageFollows
  <2> QED BY <2>1, <2>2, <2>3, <2>4 DEF PageFollows
<1> QED BY <1>3, <1>4, <1>5, <1>6, <1>7, <1>9, <1>13

(* What a copy of the chat just read is. *)
LEMMA ChatRead ==
  ASSUME said \in Nat, LogFits
  PROVE  /\ HistoryFits(log, hearts)
         /\ \A q, v : Reaches(q, v, Range(log))
<1>1. HistoryFits(log, hearts)
  <2>1. said <= HistoryLimit => \E k \in 0..said : log = Said(k)
    BY DEF LogFits
  <2> QED BY <2>1 DEF LogFits, HistoryFits
<1>2. said <= HistoryLimit => \A m \in 1..said : m \in Range(log)
  BY AllSaid DEF LogFits
<1> QED BY <1>1, <1>2 DEF Reaches

(* A call that goes on is still a call. *)
LEMMA CallGoesOn ==
  ASSUME NEW s \in Call, NEW step \in {"asked", "read", "chat", "joined", "sent", "fetch", "fetched"},
         NEW g \in Game, NEW p \in Pauses, NEW c \in Seq(Nat), NEW hs \in SUBSET Nat
  PROVE  /\ [s EXCEPT !.step = step] \in Call
         /\ [s EXCEPT !.step = step, !.game = g] \in Call
         /\ [s EXCEPT !.step = step, !.pause = p] \in Call
         /\ [s EXCEPT !.step = step, !.chat = c, !.hearts = hs] \in Call
<1>1. [s EXCEPT !.step = step] \in Call
  BY DEF Call
<1>2. [s EXCEPT !.step = step, !.game = g] \in Call
  BY DEF Call
<1>3. [s EXCEPT !.step = step, !.pause = p] \in Call
  BY DEF Call
<1>4. [s EXCEPT !.step = step, !.chat = c, !.hearts = hs] \in Call
  BY DEF Call
<1> QED BY <1>1, <1>2, <1>3, <1>4

LEMMA SubscribeKeeps ==
  ASSUME RoomAssumption, RoomInv, NEW h \in Handlers, onSubscribe(h)
  PROVE  RoomInv'
<1> USE DEF RoomInv
<1>1. PICK s \in Call : s = calls[h] /\ calls[h] # Nothing
  BY DEF onSubscribe, RoomType
<1>2. UNCHANGED <<serverVars, clientVars, socket, rest, raced, heartsCrossed, unheard>>
  BY DEF onSubscribe
<1>3. /\ inbox \in Seq(Message) /\ joined \in BOOLEAN /\ QueueFits(inbox, view) /\ view \in View \cup {Nothing}
      /\ game \in Game /\ pause \in Pauses /\ log \in Seq(Nat) /\ hearts \subseteq Nat /\ said \in Nat
  BY DEF RoomType
<1>4. /\ s.step \in HasGame => s.game \in Game /\ ("game" \notin raced => s.game = game)
      /\ s.step = "sent" => s.pause \in Pauses /\ ("pause" \notin raced => s.pause = pause)
      /\ s.step \in {"joined", "sent"} => joined
      /\ s.step \in HasChat =>
           /\ HistoryFits(s.chat, s.hearts)
           /\ \A m \in Range(log) \ heartsCrossed :
                /\ m \in Range(s.chat) => (m \in s.hearts <=> m \in hearts)
                /\ click = m => m \in Range(s.chat)
  <2>1. \A steps : Doing(h, steps) <=> s.step \in steps
    BY <1>1 DEF Doing
  <2>2. s.step \in HasGame => s.game \in Game /\ ("game" \notin raced => s.game = game)
    BY <1>1, <2>1 DEF WireFits, CopiesFit
  <2>3. s.step = "sent" => s.pause \in Pauses /\ ("pause" \notin raced => s.pause = pause)
    BY <1>1, <2>1 DEF WireFits, CopiesFit
  <2>4. s.step \in {"joined", "sent"} => joined
    BY <2>1 DEF WireFits
  <2> QED BY <1>1, <2>1, <2>2, <2>3, <2>4 DEF HeldFits
<1>5. /\ s.chat \in Seq(Nat) /\ s.hearts \subseteq Nat /\ s.game \in Game \cup {Nothing} /\ s.pause \in Pauses \cup {Nothing}
      /\ s = [step |-> s.step, game |-> s.game, pause |-> s.pause, chat |-> s.chat, hearts |-> s.hearts]
  BY DEF Call
<1>6. \A steps : Doing(h, steps) <=> s.step \in steps
  BY <1>1 DEF Doing
<1>7. CASE s.step = "asked" /\ calls' = [calls EXCEPT ![h] = [s EXCEPT !.step = "read", !.game = game]]
           /\ UNCHANGED <<joined, inbox>>
  <2>1. PICK to \in Call : to = [s EXCEPT !.step = "read", !.game = game]
                           /\ to.step = "read" /\ to.game = game
    <3>1. [s EXCEPT !.step = "read", !.game = game] \in Call
      BY <1>3, CallGoesOn
    <3>2. /\ [s EXCEPT !.step = "read", !.game = game].step = "read"
          /\ [s EXCEPT !.step = "read", !.game = game].game = game
      BY <1>5
    <3> QED BY <3>1, <3>2
  <2>2. to # Nothing /\ to.step \notin HasChat
    BY <2>1 DEF RoomAssumption, HasChat
  <2>3. ~Doing(h, Informed)
    BY <1>6, <1>7 DEF Informed
  <2>4. /\ to.step \in {"asked", "read"} /\ to.step # "sent" /\ to.step \notin {"joined", "sent"}
        /\ to.game \in Game /\ to.game = game
    BY <1>3, <2>1
  <2>5. PICK q \in Seq(Message) : q = inbox /\ q = inbox'
    BY <1>3, <1>7
  <2>6. calls' = [calls EXCEPT ![h] = to] /\ joined' = joined
    BY <1>7, <2>1
  <2>7. QueueFits(q, view) /\ (\A S : Reaches(inbox, view, S) => Reaches(q, view, S)) /\ (Follows(inbox, view) => Follows(q, view))
    BY <1>3, <2>5
  <2> QED BY <1>1, <1>2, <1>3, <2>2, <2>3, <2>4, <2>5, <2>6, <2>7, HandlerActs
<1>8. CASE s.step = "read" /\ calls' = [calls EXCEPT ![h] = readChatHistory(s, "chat")] /\ UNCHANGED <<joined, inbox>>
  <2>1. PICK to \in Call : to = readChatHistory(s, "chat")
                           /\ to.step = "chat" /\ to.game = s.game /\ to.chat = log /\ to.hearts = hearts
    <3>1. readChatHistory(s, "chat") \in Call
      BY <1>3, CallGoesOn DEF readChatHistory
    <3>2. PICK to : to = readChatHistory(s, "chat")
      OBVIOUS
    <3>3. to.step = "chat" /\ to.game = s.game /\ to.chat = log /\ to.hearts = hearts
      BY <1>5, <3>2 DEF readChatHistory
    <3> QED BY <3>1, <3>2, <3>3
  <2>2. to # Nothing /\ HistoryFits(to.chat, to.hearts) /\ Reaches(inbox, view, Range(to.chat))
    BY <1>3, <2>1, ChatRead DEF RoomAssumption
  <2>3. s.step \in HasGame /\ to.step \in Informed /\ s.step \notin Informed
    BY <1>8, <2>1 DEF HasGame, Informed
  <2> QED BY <1>1, <1>2, <1>3, <1>4, <1>6, <1>8, <2>1, <2>2, <2>3, HandlerActs
<1>9. CASE s.step = "chat" /\ calls' = [calls EXCEPT ![h] = [s EXCEPT !.step = "joined"]] /\ joined' = TRUE /\ UNCHANGED inbox
  <2>1. PICK to \in Call : to = [s EXCEPT !.step = "joined"]
                           /\ to.step = "joined" /\ to.game = s.game /\ to.chat = s.chat /\ to.hearts = s.hearts
    <3>1. [s EXCEPT !.step = "joined"] \in Call
      BY <1>3, CallGoesOn
    <3>2. PICK to : to = [s EXCEPT !.step = "joined"]
      OBVIOUS
    <3>3. to.step = "joined" /\ to.game = s.game /\ to.chat = s.chat /\ to.hearts = s.hearts
      BY <1>5, <3>2
    <3> QED BY <3>1, <3>2, <3>3
  <2>2. to # Nothing /\ s.step \in HasGame /\ s.step \in HasChat /\ to.step \in Informed
    BY <1>9, <2>1 DEF RoomAssumption, HasGame, HasChat, Informed
  <2> QED BY <1>1, <1>2, <1>3, <1>4, <1>6, <1>9, <2>1, <2>2, HandlerActs
<1>10. CASE s.step = "joined" /\ calls' = [calls EXCEPT ![h] = [s EXCEPT !.step = "sent", !.pause = pause]]
            /\ inbox' = Append(inbox, [type |-> "state", game |-> s.game]) /\ UNCHANGED joined
  <2>1. PICK to \in Call : to = [s EXCEPT !.step = "sent", !.pause = pause]
                           /\ to.step = "sent" /\ to.game = s.game /\ to.pause = pause /\ to.chat = s.chat /\ to.hearts = s.hearts
    <3>1. [s EXCEPT !.step = "sent", !.pause = pause] \in Call
      BY <1>3, CallGoesOn
    <3>2. PICK to : to = [s EXCEPT !.step = "sent", !.pause = pause]
      OBVIOUS
    <3>3. to.step = "sent" /\ to.game = s.game /\ to.pause = pause /\ to.chat = s.chat /\ to.hearts = s.hearts
      BY <1>5, <3>2
    <3> QED BY <3>1, <3>2, <3>3
  <2>2. to # Nothing /\ s.step \in HasGame /\ s.step \in HasChat /\ to.step \in Informed
    BY <1>10, <2>1 DEF RoomAssumption, HasGame, HasChat, Informed
  <2>3. PICK x \in Message : x = [type |-> "state", game |-> s.game] /\ x.type = "state" /\ x.game = s.game
    BY <1>4, <2>2, MessagesMade
  <2>4. x.type \in AboutGame /\ HasState(x) /\ ~Decides(x) /\ Adds(x, pause) = pause /\ x.type # "message" /\ \A m : ~Sets(x, m)
    BY <2>3 DEF AboutGame, HasState, Decides, Adds, Sets, Tells
  <2>5. PICK q \in Seq(Message) : q = inbox' /\ q = Append(inbox, x)
    <3>1. Append(inbox, x) \in Seq(Message)
      BY <1>3, QueueGrows
    <3> QED BY <1>10, <2>3, <3>1
  <2>6. QueueFits(q, view) /\ \A S : Reaches(inbox, view, S) => Reaches(q, view, S)
    BY <1>3, <2>4, <2>5, GameTold
  <2>7. Follows(inbox, view) => Follows(q, view)
    BY <1>3, <1>4, <2>2, <2>3, <2>4, <2>5, FollowsAppended
  <2>8. joined' \in BOOLEAN /\ (joined => joined') /\ joined'
    BY <1>3, <1>4, <1>10
  <2>9. to.step \in HasGame => to.game \in Game /\ ("game" \notin raced => to.game = game)
    BY <1>4, <2>1, <2>2
  <2>10. to.step \in HasChat =>
           /\ HistoryFits(to.chat, to.hearts)
           /\ \A m \in Range(log) \ heartsCrossed :
                /\ m \in Range(to.chat) => (m \in to.hearts <=> m \in hearts)
                /\ click = m => m \in Range(to.chat)
    BY <1>4, <2>1, <2>2
  <2>11. Reaches(inbox, view, Range(calls[h].chat)) => Reaches(q, view, Range(to.chat))
    BY <1>1, <2>1, <2>6
  <2>12. ~Doing(h, {"asked", "read"})
    BY <1>6, <1>10
  <2>13. calls' = [calls EXCEPT ![h] = to]
    BY <1>10, <2>1
  <2> QED BY <1>1, <1>2, <1>3, <2>1, <2>2, <2>5, <2>6, <2>7, <2>8, <2>9, <2>10, <2>11, <2>12, <2>13, HandlerActs
<1>11. CASE s.step = "sent" /\ calls' = [calls EXCEPT ![h] = Nothing]
            /\ inbox' = Append(inbox, [type |-> "ack", game |-> s.game, pause |-> s.pause, chat |-> s.chat, hearts |-> s.hearts])
            /\ UNCHANGED joined
  <2>1. s.step \in HasGame /\ s.step \in HasChat /\ s.step \in {"joined", "sent"} /\ s.step \notin {"asked", "read"}
    BY <1>11 DEF HasGame, HasChat
  <2>2. PICK x \in Message : /\ x = [type |-> "ack", game |-> s.game, pause |-> s.pause, chat |-> s.chat, hearts |-> s.hearts]
                             /\ x.type = "ack" /\ x.game = s.game /\ x.pause = s.pause /\ x.chat = s.chat /\ x.hearts = s.hearts
    <3>1. s.game \in Game /\ s.pause \in Pauses /\ s.chat \in Seq(Nat) /\ s.hearts \in SUBSET Nat
      BY <1>4, <1>5, <1>11, <2>1
    <3>2. [type |-> "ack", game |-> s.game, pause |-> s.pause, chat |-> s.chat, hearts |-> s.hearts] \in Message
      BY <3>1, MessagesMade
    <3> QED BY <3>2
  <2>3. x.type # "message" /\ x.type # "reaction" /\ Tells(x) /\ HasState(x) /\ Decides(x) /\ Verdict(x) = s.pause
    BY <2>2 DEF Tells, HasState, Decides, Verdict
  <2>4. \A m \in Range(log) \ heartsCrossed : click # m /\ Sets(x, m) => (IsOn(x, m) <=> m \in hearts)
    BY <1>4, <2>1, <2>2, <2>3 DEF Sets, IsOn
  <2>5. PICK q \in Seq(Message) : q = inbox' /\ q = Append(inbox, x)
    <3>1. Append(inbox, x) \in Seq(Message)
      BY <1>3, QueueGrows
    <3> QED BY <1>11, <2>2, <3>1
  <2>6. QueueFits(q, view)
    BY <1>3, <1>4, <2>1, <2>2, <2>3, <2>5, FitsAppended
  <2>7. /\ \A S : Reaches(inbox, view, S) => Reaches(q, view, S)
        /\ Reaches(inbox, view, Range(s.chat)) => Reaches(q, view, {})
    <3>1. ASSUME NEW S, NEW T, Reaches(inbox, view, S), \A m \in S : m \in T \/ (x.type = "ack" /\ m \in Range(x.chat))
          PROVE  Reaches(Append(inbox, x), view, T)
      BY <1>3, <2>3, <2>4, <3>1, ReachesAppended
    <3>2. \A S : Reaches(inbox, view, S) => Reaches(Append(inbox, x), view, S)
      BY <3>1
    <3>3. \A m \in Range(s.chat) : x.type = "ack" /\ m \in Range(x.chat)
      BY <2>2
    <3>4. Reaches(inbox, view, Range(s.chat)) => Reaches(Append(inbox, x), view, {})
      BY <3>1, <3>3
    <3> QED BY <2>5, <3>2, <3>4
  <2>8. /\ "game" \notin raced => x.game = game
        /\ "pause" \notin raced => Verdict(x) = pause
    BY <1>4, <1>11, <2>1, <2>2, <2>3
  <2>9. Follows(inbox, view) => Follows(q, view)
    BY <1>3, <2>3, <2>4, <2>5, <2>8, FollowsAppended
  <2>10. Reaches(inbox, view, Range(s.chat)) => Follows(q, view)
    <3> HAVE Reaches(inbox, view, Range(s.chat))
    <3>1. \E i \in 1..Len(q) : q[i].type = "ack"
      <4>1. Len(inbox) + 1 \in 1..Len(q) /\ q[Len(inbox) + 1] = x
        BY <1>3, <2>5, QueueGrows
      <4> QED BY <2>2, <4>1
    <3>2. PICK g, p : g = game /\ p = pause
      OBVIOUS
    <3>3. "game" \notin raced => GameWillBe(q, view, g)
      BY <1>3, <2>3, <2>5, <2>8, <3>2, GameAppended
    <3>4. "pause" \notin raced => PauseWillBe(q, view, p)
      <4> HAVE "pause" \notin raced
      <4>1. Decides(x) /\ Verdict(x) = p
        BY <2>3, <2>8, <3>2
      <4>2. PICK v : v = view /\ v \in View \cup {Nothing}
        BY <1>3
      <4>3. PauseWillBe(Append(inbox, x), v, p)
        BY <1>3, <4>1, <4>2, PauseAppended
      <4> QED BY <2>5, <4>2, <4>3
    <3> QED BY <2>7, <3>1, <3>2, <3>3, <3>4 DEF Follows
  <2>11. joined' \in BOOLEAN /\ (joined => joined') /\ joined'
    BY <1>3, <1>4, <1>11
  <2> QED BY <1>1, <1>2, <1>6, <1>11, <2>1, <2>5, <2>6, <2>7, <2>9, <2>10, <2>11, HandlerActs
<1> QED BY <1>1, <1>7, <1>8, <1>9, <1>10, <1>11 DEF onSubscribe

LEMMA FetchKeeps ==
  ASSUME RoomAssumption, RoomInv, NEW h \in Handlers, onChatFetch(h)
  PROVE  RoomInv'
<1> USE DEF RoomInv
<1>1. PICK s \in Call : s = calls[h] /\ calls[h] # Nothing
  BY DEF onChatFetch, RoomType
<1>2. UNCHANGED <<serverVars, clientVars, socket, joined, rest, raced, heartsCrossed, unheard>>
  BY DEF onChatFetch
<1>3. /\ inbox \in Seq(Message) /\ joined \in BOOLEAN /\ QueueFits(inbox, view) /\ view \in View \cup {Nothing}
      /\ game \in Game /\ pause \in Pauses /\ log \in Seq(Nat) /\ hearts \subseteq Nat /\ said \in Nat
  BY DEF RoomType
<1>4. \A steps : Doing(h, steps) <=> s.step \in steps
  BY <1>1 DEF Doing
<1>5. s.step \in HasChat =>
        /\ HistoryFits(s.chat, s.hearts)
        /\ \A m \in Range(log) \ heartsCrossed : m \in Range(s.chat) => (m \in s.hearts <=> m \in hearts)
  BY <1>1, <1>4 DEF HeldFits
<1>6. /\ s.chat \in Seq(Nat) /\ s.hearts \subseteq Nat /\ s.game \in Game \cup {Nothing} /\ s.pause \in Pauses \cup {Nothing}
      /\ s = [step |-> s.step, game |-> s.game, pause |-> s.pause, chat |-> s.chat, hearts |-> s.hearts]
  BY DEF Call
<1>7. CASE s.step = "fetch" /\ calls' = [calls EXCEPT ![h] = readChatHistory(s, "fetched")] /\ UNCHANGED inbox
  <2>1. PICK to \in Call : to = readChatHistory(s, "fetched") /\ to.step = "fetched" /\ to.chat = log /\ to.hearts = hearts
    <3>1. readChatHistory(s, "fetched") \in Call
      BY <1>3, CallGoesOn DEF readChatHistory
    <3>2. PICK to : to = readChatHistory(s, "fetched")
      OBVIOUS
    <3>3. to.step = "fetched" /\ to.chat = log /\ to.hearts = hearts
      BY <1>6, <3>2 DEF readChatHistory
    <3> QED BY <3>1, <3>2, <3>3
  <2>2. HistoryFits(to.chat, to.hearts) /\ to.step \notin HasGame /\ s.step \notin Informed
    BY <1>3, <1>7, <2>1, ChatRead DEF HasGame, Informed
  <2> QED BY <1>1, <1>2, <1>3, <1>4, <1>7, <2>1, <2>2, HandlerActs
<1>8. CASE s.step = "fetched" /\ calls' = [calls EXCEPT ![h] = Nothing]
           /\ inbox' = Append(inbox, [type |-> "history", chat |-> s.chat, hearts |-> s.hearts])
  <2>1. s.step \in HasChat /\ s.step \notin Informed /\ s.step \notin {"asked", "read"}
    BY <1>8 DEF HasChat, Informed
  <2>2. PICK x \in Message : /\ x = [type |-> "history", chat |-> s.chat, hearts |-> s.hearts]
                             /\ x.type = "history" /\ x.chat = s.chat /\ x.hearts = s.hearts
    <3>1. s.chat \in Seq(Nat) /\ s.hearts \in SUBSET Nat
      BY <1>6
    <3>2. [type |-> "history", chat |-> s.chat, hearts |-> s.hearts] \in Message
      BY <3>1, MessagesMade
    <3> QED BY <3>2
  <2>3. x.type # "message" /\ x.type # "reaction" /\ x.type # "ack" /\ Tells(x) /\ ~HasState(x) /\ ~Decides(x) /\ Adds(x, pause) = pause
    BY <2>2 DEF Tells, HasState, Decides, Adds
  <2>4. \A m \in Range(log) \ heartsCrossed : click # m /\ Sets(x, m) => (IsOn(x, m) <=> m \in hearts)
    BY <1>5, <2>1, <2>2, <2>3 DEF Sets, IsOn
  <2>5. PICK q \in Seq(Message) : q = inbox' /\ q = Append(inbox, x)
    <3>1. Append(inbox, x) \in Seq(Message)
      BY <1>3, QueueGrows
    <3> QED BY <1>8, <2>2, <3>1
  <2>6. QueueFits(q, view)
    BY <1>3, <1>5, <2>1, <2>2, <2>3, <2>5, FitsAppended
  <2>7. \A S : Reaches(inbox, view, S) => Reaches(q, view, S)
    BY <1>3, <2>3, <2>4, <2>5, ReachesAppended
  <2>8. Follows(inbox, view) => Follows(q, view)
    BY <1>3, <2>3, <2>4, <2>5, FollowsAppended
  <2> QED BY <1>1, <1>2, <1>3, <1>4, <1>8, <2>1, <2>5, <2>6, <2>7, <2>8, HandlerActs
<1> QED BY <1>1, <1>7, <1>8 DEF onChatFetch

-----------------------------------------------------------------------------
(* The parts of the invariant when the page acts, the server's being as they were. *)
RestFits ==
  /\ detail # Nothing => detail.kind \in {"live", "finished"}
  /\ (rest # Nothing /\ rest.kind = "finished") \/ (detail # Nothing /\ detail.kind = "finished") => game.over
  /\ detail # Nothing /\ detail.kind = "finished" => ~LiveRest

LEMMA PageWire ==
  ASSUME RoomAssumption, WireFits, \A h \in Handlers : Steady(h), RestFits',
         socket' = "down" => ~joined' /\ inbox' = <<>> /\ \A h \in Handlers : calls'[h] = Nothing,
         joined' = joined \/ \A h \in Handlers : calls'[h] = Nothing
  PROVE  WireFits'
<1>1. ASSUME NEW h \in Handlers
      PROVE  /\ Doing(h, HasGame)' => calls'[h].game \in Game
             /\ Doing(h, {"sent"})' => calls'[h].pause \in Pauses
             /\ Doing(h, {"joined", "sent"})' => joined'
  <2>1. Doing(h, HasGame)' => calls'[h].game \in Game
    BY StillDoing DEF WireFits
  <2>2. Doing(h, {"sent"})' => calls'[h].pause \in Pauses
    BY StillDoing DEF WireFits
  <2>3. Doing(h, {"joined", "sent"})' => joined'
    <3>1. Doing(h, {"joined", "sent"})' => joined
      BY StillDoing DEF WireFits
    <3>2. Doing(h, {"joined", "sent"})' => calls'[h] # Nothing
      BY DEF Doing
    <3>3. CASE joined' = joined
      BY <3>1, <3>3
    <3>4. CASE \A i \in Handlers : calls'[i] = Nothing
      BY <3>2, <3>4
    <3> QED BY <3>3, <3>4
  <2> QED BY <2>1, <2>2, <2>3
<1> QED BY <1>1 DEF WireFits, RestFits

LEMMA PageCopies ==
  ASSUME RoomAssumption, CopiesFit, UNCHANGED <<game, pause, raced>>, \A h \in Handlers : Steady(h),
         LiveRest' => (LiveRest /\ rest' = rest) \/ (rest'.game = game /\ rest'.pause = pause)
  PROVE  CopiesFit'
<1>1. ASSUME NEW h \in Handlers
      PROVE  /\ "game" \notin raced /\ Doing(h, HasGame)' => calls'[h].game = game
             /\ "pause" \notin raced /\ Doing(h, {"sent"})' => calls'[h].pause = pause
  BY StillDoing DEF CopiesFit
<1>2. "game" \notin raced' /\ LiveRest' => rest'.game = game'
  BY DEF CopiesFit
<1>3. "pause" \notin raced' /\ LiveRest' => rest'.pause = pause'
  BY DEF CopiesFit
<1> QED BY <1>1, <1>2, <1>3 DEF CopiesFit

LEMMA SameCopy ==
  ASSUME RoomAssumption, \A h \in Handlers : calls[h] # Nothing => calls'[h] = calls[h],
         UNCHANGED <<serverVars, view, inbox, raced, heartsCrossed, unheard>>
  PROVE  (Awaited => Awaited') /\ (Covered => Covered') /\ (Follows(inbox, view) => Follows(inbox, view)')
<1>1. PICK q, v : q = inbox /\ v = view /\ q = inbox' /\ v = view'
  OBVIOUS
<1>2. Awaited => Awaited'
  BY DEF Awaited, Doing
<1>3. Covered => Covered'
  <2> SUFFICES ASSUME NEW h \in Handlers, Doing(h, Informed), Reaches(inbox, view, Range(calls[h].chat))
               PROVE  Covered'
    BY DEF Covered
  <2>1. PICK S : S = Range(calls[h].chat) /\ S = Range(calls'[h].chat)
    BY DEF Doing
  <2>2. Reaches(inbox, view, S)'
    BY <1>1, <2>1, ReachesStill DEF serverVars
  <2>3. Doing(h, Informed)' /\ Reaches(inbox, view, Range(calls[h].chat))'
    BY <2>1, <2>2 DEF Doing, Reaches
  <2> QED BY <2>3 DEF Covered
<1>4. Follows(inbox, view) => Follows(inbox, view)'
  BY <1>1, FollowsStill DEF serverVars
<1> QED BY <1>2, <1>3, <1>4

LEMMA SamePage ==
  ASSUME RoomAssumption, PageFollows, QueueFits(inbox, view), ViewFits(view),
         \A h \in Handlers : calls[h] # Nothing => calls'[h] = calls[h],
         UNCHANGED <<serverVars, page, detail, view, socket, joined, inbox, raced, heartsCrossed, unheard>>
  PROVE  PageFollows' /\ QueueFits(inbox, view)' /\ ViewFits(view)'
<1>1. PICK q, v : q = inbox /\ v = view /\ q = inbox' /\ v = view'
  OBVIOUS
<1>2. QueueFits(inbox, view)' /\ ViewFits(view)'
  BY <1>1, FitsStill DEF serverVars
<1>3. (Enabled /\ socket = "up")' <=> Enabled /\ socket = "up"
  BY DEF Enabled
<1> QED BY <1>2, <1>3, SameCopy DEF PageFollows

LEMMA RestKinds ==
  ASSUME NEW r \in Rest
  PROVE  /\ r.kind \in {"asked", "finished", "error", "live"}
         /\ r.kind = "live" => r.game \in Game /\ r.pause \in Pauses
         /\ r.kind # "live" => r = [kind |-> r.kind]
         /\ r = [kind |-> "finished"] <=> r.kind = "finished"
BY DEF Rest

LEMMA RestMade ==
  /\ \A k \in {"asked", "finished", "error"} : [kind |-> k] \in Rest
  /\ \A g \in Game, p \in Pauses : [kind |-> "live", game |-> g, pause |-> p] \in Rest
<1>1. \A k \in {"asked", "finished", "error"} : [kind |-> k] \in Rest
  BY DEF Rest
<1>2. \A g \in Game, p \in Pauses : [kind |-> "live", game |-> g, pause |-> p] \in Rest
  BY DEF Rest
<1> QED BY <1>1, <1>2

(* A copy seeded from a REST answer has the chat it had. *)
LEMMA Seeding ==
  ASSUME RoomAssumption, NEW r \in Rest, view \in View \cup {Nothing}
  PROVE  /\ Seeded(r) \in View \cup {Nothing}
         /\ r.kind # "live" => Seeded(r) = view
         /\ r.kind = "live" => /\ Seeded(r) \in View /\ Seeded(r).game = r.game
                               /\ Seeded(r).pause = r.pause \/ (view # Nothing /\ Seeded(r).pause = view.pause)
         /\ Seeded(r) # Nothing => Seeded(r).chat = ChatOf(view) /\ Seeded(r).hearts = HeartsOf(view)
<1>1. CASE r.kind # "live"
  BY <1>1 DEF Seeded, ChatOf, HeartsOf
<1>2. CASE r.kind = "live" /\ view = Nothing
  <2>1. r.game \in Game /\ r.pause \in Pauses
    BY <1>2, RestKinds
  <2>2. Seeded(r) = [game |-> r.game, pause |-> r.pause, chat |-> <<>>, hearts |-> {}]
    BY <1>2 DEF Seeded, Blank
  <2>3. Seeded(r) \in View
    BY <2>1, <2>2 DEF View
  <2> QED BY <1>2, <2>2, <2>3 DEF ChatOf, HeartsOf
<1>3. CASE r.kind = "live" /\ view # Nothing
  <2>1. r.game \in Game /\ r.pause \in Pauses
    BY <1>3, RestKinds
  <2>2. PICK v \in View : v = view
    BY <1>3
  <2>3. Seeded(r) = [v EXCEPT !.game = r.game, !.pause = IF v.pause = "none" THEN r.pause ELSE v.pause]
    BY <1>3, <2>2 DEF Seeded
  <2>4. PICK p \in Pauses : p = IF v.pause = "none" THEN r.pause ELSE v.pause
    BY <2>1 DEF View
  <2>5. v = [game |-> v.game, pause |-> v.pause, chat |-> v.chat, hearts |-> v.hearts] /\ v.chat \in Seq(Nat) /\ v.hearts \subseteq Nat
    BY DEF View
  <2>6. Seeded(r) = [game |-> r.game, pause |-> p, chat |-> v.chat, hearts |-> v.hearts]
    BY <2>3, <2>4, <2>5
  <2>7. Seeded(r) \in View
    BY <2>1, <2>5, <2>6 DEF View
  <2> QED BY <1>3, <2>2, <2>4, <2>6, <2>7 DEF ChatOf, HeartsOf
<1> QED BY <1>1, <1>2, <1>3

LEMMA RestReadsKeeps ==
  ASSUME RoomAssumption, RoomInv, RestReads
  PROVE  RoomInv'
<1> USE DEF RoomInv
<1>1. /\ rest # Nothing /\ rest.kind = "asked"
      /\ \/ ~game.over /\ rest' = [kind |-> "live", game |-> game, pause |-> pause]
         \/ game.over /\ rest' \in {[kind |-> "finished"], [kind |-> "error"]}
      /\ UNCHANGED <<serverVars, clientVars, socket, joined, inbox, calls, raced, heartsCrossed, unheard>>
  BY DEF RestReads
<1>2. game \in Game /\ pause \in Pauses
  BY DEF RoomType
<1>3. rest' \in Rest
  BY <1>1, <1>2, RestMade
<1>4. \A h \in Handlers : Steady(h)
  BY <1>1 DEF Steady
<1>5. RoomType'
  BY <1>1, <1>3 DEF RoomType, serverVars, clientVars
<1>6. RestFits'
  <2>1. CASE ~game.over /\ rest' = [kind |-> "live", game |-> game, pause |-> pause]
    BY <1>1, <2>1 DEF WireFits, RestFits, clientVars, serverVars
  <2>2. CASE game.over /\ rest' \in {[kind |-> "finished"], [kind |-> "error"]}
    BY <1>1, <2>2 DEF WireFits, RestFits, LiveRest, clientVars, serverVars
  <2> QED BY <1>1, <2>1, <2>2
<1>7. WireFits'
  BY <1>1, <1>4, <1>6, PageWire DEF WireFits
<1>8. CopiesFit'
  <2>1. LiveRest' => rest'.game = game /\ rest'.pause = pause
    BY <1>1 DEF LiveRest
  <2> QED BY <1>1, <1>4, <2>1, PageCopies DEF serverVars
<1>9. LogFits' /\ HeldFits'
  BY <1>1, <1>4, ChatStill DEF serverVars
<1>10. PageFollows' /\ QueueFits(inbox, view)' /\ ViewFits(view)'
  BY <1>1, SamePage DEF clientVars
<1> QED BY <1>5, <1>7, <1>8, <1>9, <1>10

LEMMA RestArrivesKeeps ==
  ASSUME RoomAssumption, RoomInv, RestArrives
  PROVE  RoomInv'
<1> USE DEF RoomInv
<1>1. /\ rest # Nothing /\ rest.kind # "asked" /\ rest' = Nothing
      /\ detail' = IF rest.kind = "error" THEN detail ELSE rest
      /\ view' = IF detail' # detail /\ page THEN Seeded(rest) ELSE view
      /\ UNCHANGED <<serverVars, page, panel, socket, joined, inbox, calls, raced, heartsCrossed, unheard>>
  BY DEF RestArrives
<1>2. /\ game \in Game /\ pause \in Pauses /\ rest \in Rest /\ view \in View \cup {Nothing} /\ inbox \in Seq(Message)
      /\ detail \in Rest \cup {Nothing}
  BY <1>1 DEF RoomType
<1>3. PICK r \in Rest : r = rest
  BY <1>2
<1>4. PICK v, u, q : v = view /\ u = view' /\ q = inbox /\ q = inbox'
  BY <1>1
<1>5. u = v \/ u = Seeded(r)
  BY <1>1, <1>3, <1>4
<1>6. /\ u \in View \cup {Nothing}
      /\ u # Nothing => u.chat = ChatOf(v) /\ u.hearts = HeartsOf(v)
  BY <1>2, <1>4, <1>5, Seeding DEF ChatOf, HeartsOf
<1>7. \A h \in Handlers : Steady(h)
  BY <1>1 DEF Steady
<1>8. RoomType'
  BY <1>1, <1>2, <1>4, <1>6 DEF RoomType, serverVars
<1>9. RestFits'
  <2>1. rest.kind \in {"finished", "error", "live"}
    BY <1>1, <1>2, RestKinds
  <2> QED BY <1>1, <2>1 DEF WireFits, RestFits, LiveRest, serverVars
<1>10. WireFits'
  BY <1>1, <1>7, <1>9, PageWire DEF WireFits
<1>11. CopiesFit'
  BY <1>1, <1>7, PageCopies DEF LiveRest, serverVars
<1>12. LogFits' /\ HeldFits'
  BY <1>1, <1>7, ChatStill DEF serverVars
<1>13. QueueFits(q, u) /\ ViewFits(u)
  BY <1>4, <1>6, FitsAsWell
<1>14. QueueFits(inbox, view)' /\ ViewFits(view)'
  BY <1>1, <1>4, <1>13, FitsStill DEF serverVars
<1>15. PageFollows'
  <2> SUFFICES ASSUME Enabled', socket' = "up" PROVE Awaited' \/ Covered' \/ (joined' /\ Follows(inbox, view)')
    BY DEF PageFollows
  <2>1. page /\ detail' # [kind |-> "finished"]
    BY <1>1 DEF Enabled
  <2>2. rest.kind # "finished"
    BY <1>1, <1>2, <2>1, RestKinds
  <2>3. (rest.kind = "error" /\ u = v) \/ LiveRest
    <3>1. rest.kind \in {"error", "live"}
      BY <1>1, <1>2, <2>2, RestKinds
    <3> QED BY <1>1, <1>4, <3>1 DEF LiveRest
  <2>4. Enabled /\ socket = "up"
    <3>1. CASE rest.kind = "error"
      BY <1>1, <2>1, <3>1 DEF Enabled
    <3>2. CASE LiveRest
      <4>1. detail # [kind |-> "finished"]
        <5>1. detail # Nothing => detail.kind # "finished"
          BY <3>2 DEF WireFits
        <5>2. [kind |-> "finished"] \in Rest /\ [kind |-> "finished"].kind = "finished"
          BY RestMade
        <5>3. [kind |-> "finished"] # Nothing
          BY <5>2 DEF RoomAssumption
        <5> QED BY <5>1, <5>2, <5>3
      <4> QED BY <1>1, <2>1, <4>1 DEF Enabled
    <3> QED BY <2>3, <3>1, <3>2
  <2>5. CASE u = v
    <3>1. UNCHANGED view
      BY <1>4, <2>5
    <3> QED BY <1>1, <2>4, <3>1, SameCopy DEF PageFollows
  <2>6. CASE LiveRest /\ u # v
    <3>1. u = Seeded(r) /\ r.kind = "live"
      BY <1>3, <1>5, <2>6 DEF LiveRest
    <3>2. /\ u \in View /\ u # Nothing /\ u.game = r.game
          /\ u.pause = r.pause \/ (v # Nothing /\ u.pause = v.pause)
      BY <1>2, <1>4, <3>1, Seeding DEF RoomAssumption
    <3>3. ("game" \notin raced => u.game = game) /\ ("pause" \notin raced => r.pause = pause)
      BY <1>3, <2>6, <3>2 DEF CopiesFit
    <3>4. u.chat = ChatOf(v) /\ u.hearts = HeartsOf(v)
      BY <1>6, <3>2
    <3>5. \A S : Reaches(q, v, S) => Reaches(q, u, S)
      BY <3>2, <3>4, ReachesAsWell
    <3>6. Follows(q, v) => Follows(q, u)
      BY <1>2, <1>4, <3>2, <3>3, <3>4, FollowsSeeded
    <3>7. Awaited => Awaited'
      BY <1>1 DEF Awaited, Doing
    <3>8. Covered => Covered'
      <4> SUFFICES ASSUME NEW h \in Handlers, Doing(h, Informed), Reaches(inbox, view, Range(calls[h].chat))
                   PROVE  Covered'
        BY DEF Covered
      <4>1. PICK S : S = Range(calls[h].chat) /\ S = Range(calls'[h].chat)
        BY <1>1
      <4>2. Reaches(q, u, S)
        BY <1>4, <3>5, <4>1
      <4>3. Reaches(inbox, view, S)'
        BY <1>1, <1>4, <4>2, ReachesStill DEF serverVars
      <4>4. Doing(h, Informed)' /\ Reaches(inbox, view, Range(calls[h].chat))'
        BY <1>1, <4>1, <4>3 DEF Doing, Reaches
      <4> QED BY <4>4 DEF Covered
    <3>9. Follows(inbox, view) => Follows(inbox, view)'
      BY <1>1, <1>4, <3>6, FollowsStill DEF serverVars
    <3> QED BY <1>1, <2>4, <3>7, <3>8, <3>9 DEF PageFollows
  <2> QED BY <2>3, <2>5, <2>6
<1> QED BY <1>8, <1>10, <1>11, <1>12, <1>14, <1>15

-----------------------------------------------------------------------------
(* The page hears a message. *)
LEMMA HearsKeeps ==
  ASSUME RoomAssumption, RoomInv, Hears
  PROVE  RoomInv'
<1> USE DEF RoomInv
<1>1. /\ inbox # <<>> /\ inbox' = Tail(inbox)
      /\ view' = IF Enabled \/ Head(inbox).type \in {"ack", "history"} THEN Heard(view, Head(inbox)) ELSE view
      /\ unheard' = CASE Head(inbox).type = "message" /\ view = Nothing -> unheard \cup {Head(inbox).id}
                      [] Head(inbox).type = "ack" \/ (Head(inbox).type = "history" /\ view # Nothing) ->
                           unheard \ Range(Head(inbox).chat)
                      [] OTHER -> unheard
      /\ Calls(1, "fetch") \/ UNCHANGED calls
      /\ UNCHANGED <<serverVars, page, panel, detail, socket, joined, rest, raced, heartsCrossed>>
  BY DEF Hears
<1>2. /\ said \in Nat /\ game \in Game /\ pause \in Pauses /\ inbox \in Seq(Message) /\ view \in View \cup {Nothing}
      /\ calls \in [Handlers -> Call \cup {Nothing}]
  BY DEF RoomType
<1>3. PICK q \in Seq(Message) : q = inbox
  BY <1>2
<1>4. PICK v \in View \cup {Nothing} : v = view
  BY <1>2
<1>5. PICK u, r, w : u = view' /\ r = inbox' /\ w = unheard'
  OBVIOUS
<1>6. q # <<>> /\ r = Tail(q) /\ r \in Seq(Message) /\ Head(q) = q[1] /\ q[1] \in Message
  BY <1>1, <1>3, <1>5, QueueShrinks
<1>7. u = Heard(v, Head(q)) \/ (u = v /\ ~Enabled)
  BY <1>1, <1>3, <1>4, <1>5
<1>8. u \in View \cup {Nothing}
  <2>1. Head(q) \in Message
    BY <1>6
  <2>2. Heard(v, Head(q)) \in View \cup {Nothing}
    BY <2>1, Hearing
  <2> QED BY <1>7, <2>2
<1>9. /\ calls' \in [Handlers -> Call \cup {Nothing}]
      /\ \A h \in Handlers : Steady(h)
      /\ \A h \in Handlers : calls[h] # Nothing => calls'[h] = calls[h]
  <2>1. CASE Calls(1, "fetch")
    BY <2>1, CallsMade
  <2>2. CASE UNCHANGED calls
    BY <1>2, <2>2 DEF Steady
  <2> QED BY <1>1, <2>1, <2>2
<1>10. RoomType'
  BY <1>1, <1>5, <1>6, <1>8, <1>9 DEF RoomType, serverVars
<1>11. WireFits'
  <2>1. RestFits'
    BY <1>1 DEF RestFits, WireFits, LiveRest, serverVars
  <2>2. socket = "up" /\ socket' = "up"
    BY <1>1 DEF WireFits, RoomType
  <2> QED BY <1>1, <1>9, <2>1, <2>2, PageWire
<1>12. CopiesFit'
  BY <1>1, <1>9, PageCopies DEF LiveRest, serverVars
<1>13. LogFits' /\ HeldFits'
  BY <1>1, <1>9, ChatStill DEF serverVars
<1>14. QueueFits(r, u) /\ ViewFits(u)
  BY <1>2, <1>3, <1>4, <1>6, <1>7, FitsHeard
<1>15. QueueFits(inbox, view)' /\ ViewFits(view)'
  BY <1>1, <1>5, <1>14, FitsStill DEF serverVars
<1>16. PageFollows'
  <2> SUFFICES ASSUME Enabled', socket' = "up" PROVE Awaited' \/ Covered' \/ (joined' /\ Follows(inbox, view)')
    BY DEF PageFollows
  <2>1. Enabled /\ socket = "up"
    BY <1>1 DEF Enabled
  <2>2. u = Heard(v, Head(q))
    BY <1>7, <2>1
  <2>3. /\ q[1].type = "message" /\ v = Nothing => q[1].id \in w
        /\ \A m \in unheard : m \in w \/ q[1].type = "ack" \/ (q[1].type = "history" /\ v # Nothing)
        /\ \A m \in unheard \ w : m \in Range(q[1].chat)
    <3>1. PICK x : x = q[1]
      OBVIOUS
    <3>2. w = CASE x.type = "message" /\ v = Nothing -> unheard \cup {x.id}
                [] x.type = "ack" \/ (x.type = "history" /\ v # Nothing) -> unheard \ Range(x.chat)
                [] OTHER -> unheard
      BY <1>1, <1>3, <1>4, <1>5, <1>6, <3>1
    <3> QED BY <3>1, <3>2
  <2>4. ASSUME NEW S, Reaches(q, v, S) PROVE Reaches(inbox, view, S)'
    <3>1. /\ said <= HistoryLimit => \A m \in 1..said : m \in S \cup w \/ Comes(r, u, m)
          /\ \A m \in Range(log) \ (S \cup heartsCrossed) : click # m => HeartWillBe(r, u, m, m \in hearts)
      BY <1>2, <1>3, <1>4, <1>6, <2>2, <2>3, <2>4, ReachesHeard
    <3> QED BY <1>1, <1>5, <3>1 DEF Reaches, Comes, HeartWillBe, WillHave, Sets, IsOn, Tells, serverVars
  <2>5. Awaited => Awaited'
    BY <1>9 DEF Awaited, Doing
  <2>6. Covered => Covered'
    <3> SUFFICES ASSUME NEW h \in Handlers, Doing(h, Informed), Reaches(inbox, view, Range(calls[h].chat))
                 PROVE  Covered'
      BY DEF Covered
    <3>1. PICK S : S = Range(calls[h].chat) /\ S = Range(calls'[h].chat)
      BY <1>9 DEF Doing
    <3>2. Reaches(inbox, view, S)'
      BY <1>3, <1>4, <2>4, <3>1
    <3>3. Doing(h, Informed)' /\ Reaches(inbox, view, Range(calls[h].chat))'
      BY <1>9, <3>1, <3>2 DEF Doing, Reaches
    <3> QED BY <3>3 DEF Covered
  <2>7. ASSUME Follows(inbox, view) PROVE Follows(inbox, view)'
    <3>1. Follows(q, v)
      BY <1>3, <1>4, <2>7
    <3>2. Reaches(q, v, {})
      BY <3>1 DEF Follows
    <3>3. Reaches(inbox, view, {})'
      BY <2>4, <3>2
    <3>4. PICK g, p : g = game' /\ p = pause' /\ g = game /\ p = pause
      BY <1>1 DEF serverVars
    <3>5. /\ u # Nothing \/ \E i \in 1..Len(r) : r[i].type = "ack"
          /\ "game" \notin raced' => GameWillBe(r, u, g)
          /\ "pause" \notin raced' => PauseWillBe(r, u, p)
      BY <1>1, <1>2, <1>6, <2>2, <3>1, <3>4, FollowsHeard
    <3> QED BY <1>5, <3>3, <3>4, <3>5, FollowsThen
  <2> QED BY <1>1, <2>1, <2>5, <2>6, <2>7 DEF PageFollows
<1> QED BY <1>10, <1>11, <1>12, <1>13, <1>15, <1>16

(* A page that listens and has called is followed. *)
LEMMA CallsFollow ==
  ASSUME RoomAssumption, RoomType, NEW n \in {1, 2}, Calls(n, "asked")
  PROVE  PageFollows'
<1>1. PICK h \in Handlers : calls'[h] = Made("asked")
  BY CallsMade
<1>2. PICK s : s = Made("asked") /\ s = calls'[h]
  BY <1>1
<1>3. s \in Call /\ s.step = "asked"
  <2>1. s = [step |-> "asked", game |-> Nothing, pause |-> Nothing, chat |-> <<>>, hearts |-> {}]
    BY <1>2 DEF Made
  <2> QED BY <2>1 DEF Call
<1>4. s # Nothing
  BY <1>3 DEF RoomAssumption
<1> QED BY <1>2, <1>3, <1>4 DEF PageFollows, Awaited, Doing

(* The page is opened. *)
LEMMA MountsKeeps ==
  ASSUME RoomAssumption, RoomInv, Mounts
  PROVE  RoomInv'
<1> USE DEF RoomInv
<1>1. /\ page' = TRUE
      /\ view' = IF detail # Nothing THEN Seeded(detail) ELSE view
      /\ IF detail # [kind |-> "finished"] /\ socket = "up" THEN Calls(1, "asked") ELSE UNCHANGED calls
      /\ rest' = rest \/ rest' = [kind |-> "asked"]
      /\ UNCHANGED <<serverVars, panel, detail, socket, joined, inbox, raced, heartsCrossed, unheard>>
  BY DEF Mounts, AsksRest
<1>2. /\ inbox \in Seq(Message) /\ view \in View \cup {Nothing} /\ detail \in Rest \cup {Nothing} /\ rest \in Rest \cup {Nothing}
      /\ calls \in [Handlers -> Call \cup {Nothing}]
  BY DEF RoomType
<1>3. PICK v, u, q : v = view /\ u = view' /\ q = inbox /\ q = inbox'
  BY <1>1
<1>4. /\ u \in View \cup {Nothing}
      /\ u # Nothing => u.chat = ChatOf(v) /\ u.hearts = HeartsOf(v)
  <2>1. CASE detail # Nothing
    <3>1. PICK r \in Rest : r = detail
      BY <1>2, <2>1
    <3>2. u = Seeded(r)
      BY <1>1, <1>3, <2>1, <3>1
    <3> QED BY <1>2, <1>3, <3>2, Seeding
  <2>2. CASE detail = Nothing
    BY <1>1, <1>2, <1>3, <2>2 DEF ChatOf, HeartsOf
  <2> QED BY <2>1, <2>2
<1>5. /\ calls' \in [Handlers -> Call \cup {Nothing}]
      /\ \A h \in Handlers : Steady(h)
  <2>1. CASE Calls(1, "asked")
    BY <2>1, CallsMade
  <2>2. CASE UNCHANGED calls
    BY <1>2, <2>2 DEF Steady
  <2> QED BY <1>1, <2>1, <2>2
<1>6. rest' \in Rest \cup {Nothing} /\ (rest' = rest \/ (rest' # Nothing /\ rest'.kind = "asked"))
  BY <1>1, <1>2, RestMade DEF RoomAssumption
<1>7. RoomType'
  BY <1>1, <1>3, <1>4, <1>5, <1>6 DEF RoomType, serverVars
<1>8. WireFits'
  <2>1. RestFits'
    BY <1>1, <1>6 DEF RestFits, WireFits, LiveRest, serverVars
  <2>2. socket' = "down" => ~joined' /\ inbox' = <<>> /\ \A h \in Handlers : calls'[h] = Nothing
    <3>1. socket' = "down" => UNCHANGED calls
      BY <1>1
    <3> QED BY <1>1, <3>1 DEF WireFits
  <2> QED BY <1>1, <1>5, <2>1, <2>2, PageWire
<1>9. CopiesFit'
  BY <1>1, <1>5, <1>6, PageCopies DEF LiveRest, serverVars
<1>10. LogFits' /\ HeldFits'
  BY <1>1, <1>5, ChatStill DEF serverVars
<1>11. QueueFits(q, u) /\ ViewFits(u)
  BY <1>3, <1>4, FitsAsWell
<1>12. QueueFits(inbox, view)' /\ ViewFits(view)'
  BY <1>1, <1>3, <1>11, FitsStill DEF serverVars
<1>13. PageFollows'
  <2>1. CASE detail # [kind |-> "finished"] /\ socket = "up"
    BY <1>1, <2>1, CallsFollow
  <2>2. CASE ~(detail # [kind |-> "finished"] /\ socket = "up")
    BY <1>1, <2>2 DEF PageFollows, Enabled
  <2> QED BY <2>1, <2>2
<1> QED BY <1>7, <1>8, <1>9, <1>10, <1>12, <1>13

(* It is closed, and its caches kept or dropped. *)
LEMMA UnmountsKeeps ==
  ASSUME RoomAssumption, RoomInv, Unmounts
  PROVE  RoomInv'
<1> USE DEF RoomInv
<1>1. /\ page' = FALSE /\ panel' = FALSE
      /\ UNCHANGED <<detail, view>> \/ (detail' = Nothing /\ view' = Nothing)
      /\ UNCHANGED <<serverVars, socket, joined, inbox, calls, rest, raced, heartsCrossed, unheard>>
  BY DEF Unmounts, wireVars
<1>2. view \in View \cup {Nothing} /\ detail \in Rest \cup {Nothing}
  BY DEF RoomType
<1>3. PICK v, u, q : v = view /\ u = view' /\ q = inbox /\ q = inbox'
  BY <1>1
<1>4. \A h \in Handlers : Steady(h)
  BY <1>1 DEF Steady
<1>5. RoomType'
  BY <1>1, <1>2 DEF RoomType, serverVars
<1>6. WireFits'
  <2>1. RestFits'
    BY <1>1 DEF RestFits, WireFits, LiveRest, serverVars
  <2>2. socket' = "down" => ~joined' /\ inbox' = <<>> /\ \A h \in Handlers : calls'[h] = Nothing
    BY <1>1 DEF WireFits
  <2> QED BY <1>1, <1>4, <2>1, <2>2, PageWire
<1>7. CopiesFit'
  BY <1>1, <1>4, PageCopies DEF LiveRest, serverVars
<1>8. LogFits' /\ HeldFits'
  BY <1>1, <1>4, ChatStill DEF serverVars
<1>9. QueueFits(q, u) /\ ViewFits(u)
  <2>1. u # Nothing => u.chat = ChatOf(v) /\ u.hearts = HeartsOf(v)
    BY <1>1, <1>3 DEF ChatOf, HeartsOf
  <2> QED BY <1>3, <2>1, FitsAsWell
<1>10. QueueFits(inbox, view)' /\ ViewFits(view)'
  BY <1>1, <1>3, <1>9, FitsStill DEF serverVars
<1>11. PageFollows'
  BY <1>1 DEF PageFollows, Enabled
<1> QED BY <1>5, <1>6, <1>7, <1>8, <1>10, <1>11

(* The chat panel is opened, or closed. *)
LEMMA TogglesChatKeeps ==
  ASSUME RoomAssumption, RoomInv, TogglesChat
  PROVE  RoomInv'
<1> USE DEF RoomInv
<1>1. /\ socket = "up" /\ panel' = ~panel
      /\ Calls(1, "fetch") \/ UNCHANGED calls
      /\ UNCHANGED <<serverVars, page, detail, view, socket, joined, inbox, rest, raced, heartsCrossed, unheard>>
  BY DEF TogglesChat
<1>2. /\ calls' \in [Handlers -> Call \cup {Nothing}]
      /\ \A h \in Handlers : Steady(h)
      /\ \A h \in Handlers : calls[h] # Nothing => calls'[h] = calls[h]
  <2>1. CASE Calls(1, "fetch")
    BY <2>1, CallsMade
  <2>2. CASE UNCHANGED calls
    BY <2>2 DEF Steady, RoomType
  <2> QED BY <1>1, <2>1, <2>2
<1>3. RoomType'
  BY <1>1, <1>2 DEF RoomType, serverVars
<1>4. WireFits'
  <2>1. RestFits'
    BY <1>1 DEF RestFits, WireFits, LiveRest, serverVars
  <2> QED BY <1>1, <1>2, <2>1, PageWire
<1>5. CopiesFit'
  BY <1>1, <1>2, PageCopies DEF LiveRest, serverVars
<1>6. LogFits' /\ HeldFits'
  BY <1>1, <1>2, ChatStill DEF serverVars
<1>7. PageFollows' /\ QueueFits(inbox, view)' /\ ViewFits(view)'
  BY <1>1, <1>2, SamePage
<1> QED BY <1>3, <1>4, <1>5, <1>6, <1>7

(* The socket connects. *)
LEMMA ConnectsKeeps ==
  ASSUME RoomAssumption, RoomInv, Connects
  PROVE  RoomInv'
<1> USE DEF RoomInv
<1>1. /\ socket' = "up"
      /\ IF Enabled THEN \E n \in {1, 2} : Calls(n, "asked") ELSE UNCHANGED calls
      /\ rest' = rest \/ rest' = [kind |-> "asked"]
      /\ UNCHANGED <<serverVars, page, panel, detail, view, joined, inbox, raced, heartsCrossed, unheard>>
  BY DEF Connects, AsksRest, clientVars
<1>2. /\ rest \in Rest \cup {Nothing} /\ calls \in [Handlers -> Call \cup {Nothing}]
  BY DEF RoomType
<1>3. PICK v, q : v = view /\ v = view' /\ q = inbox /\ q = inbox'
  BY <1>1
<1>4. /\ calls' \in [Handlers -> Call \cup {Nothing}]
      /\ \A h \in Handlers : Steady(h)
  <2>1. CASE \E n \in {1, 2} : Calls(n, "asked")
    BY <2>1, CallsMade
  <2>2. CASE UNCHANGED calls
    BY <1>2, <2>2 DEF Steady
  <2> QED BY <1>1, <2>1, <2>2
<1>5. rest' \in Rest \cup {Nothing} /\ (rest' = rest \/ (rest' # Nothing /\ rest'.kind = "asked"))
  BY <1>1, <1>2, RestMade DEF RoomAssumption
<1>6. RoomType'
  BY <1>1, <1>4, <1>5 DEF RoomType, serverVars
<1>7. WireFits'
  <2>1. RestFits'
    BY <1>1, <1>5 DEF RestFits, WireFits, LiveRest, serverVars
  <2> QED BY <1>1, <1>4, <2>1, PageWire
<1>8. CopiesFit'
  BY <1>1, <1>4, <1>5, PageCopies DEF LiveRest, serverVars
<1>9. LogFits' /\ HeldFits'
  BY <1>1, <1>4, ChatStill DEF serverVars
<1>10. QueueFits(inbox, view)' /\ ViewFits(view)'
  BY <1>1, <1>3, FitsStill DEF serverVars
<1>11. PageFollows'
  <2>1. CASE Enabled
    BY <1>1, <2>1, CallsFollow
  <2>2. CASE ~Enabled
    BY <1>1, <2>2 DEF PageFollows, Enabled
  <2> QED BY <2>1, <2>2
<1> QED BY <1>6, <1>7, <1>8, <1>9, <1>10, <1>11

(* The connection drops. *)
LEMMA DropsKeeps ==
  ASSUME RoomAssumption, RoomInv, Drops
  PROVE  RoomInv'
<1> USE DEF RoomInv
<1>1. /\ socket' = "down" /\ joined' = FALSE /\ inbox' = <<>>
      /\ calls' = [h \in Handlers |-> Nothing]
      /\ UNCHANGED <<serverVars, page, panel, detail, view, rest, raced, heartsCrossed, unheard>>
  BY DEF Drops
<1>2. \A h \in Handlers : calls'[h] = Nothing /\ Steady(h)
  BY <1>1 DEF Steady
<1>3. RoomType'
  <2>1. calls' \in [Handlers -> Call \cup {Nothing}] /\ inbox' \in Seq(Message)
    BY <1>1
  <2> QED BY <1>1, <2>1 DEF RoomType, serverVars
<1>4. WireFits'
  <2>1. RestFits'
    BY <1>1 DEF RestFits, WireFits, LiveRest, serverVars
  <2> QED BY <1>1, <1>2, <2>1, PageWire
<1>5. CopiesFit'
  BY <1>1, <1>2, PageCopies DEF LiveRest, serverVars
<1>6. LogFits' /\ HeldFits'
  BY <1>1, <1>2, ChatStill DEF serverVars
<1>7. QueueFits(inbox, view)' /\ ViewFits(view)'
  <2>1. PICK v, q : v = view /\ v = view' /\ q = inbox' /\ q = <<>>
    BY <1>1
  <2>2. QueueFits(q, v) /\ ViewFits(v)
    BY <2>1 DEF QueueFits
  <2> QED BY <1>1, <2>1, <2>2, FitsStill DEF serverVars
<1>8. PageFollows'
  BY <1>1 DEF PageFollows
<1> QED BY <1>3, <1>4, <1>5, <1>6, <1>7, <1>8

-----------------------------------------------------------------------------
(* The invariant holds at the start, and through a step that changes nothing. *)
LEMMA RoomStarts ==
  ASSUME RoomAssumption, RoomInit
  PROVE  RoomInv
<1> USE DEF RoomInit
<1>1. RoomType
  <2>1. game \in Game
    BY DEF Game
  <2>2. pause \in Pauses
    BY DEF Pauses
  <2>3. rest \in Rest
    BY RestMade
  <2>4. calls \in [Handlers -> Call \cup {Nothing}] /\ log \in Seq(Nat) /\ inbox \in Seq(Message)
    OBVIOUS
  <2> QED BY <2>1, <2>2, <2>3, <2>4 DEF RoomType
<1>2. \A h \in Handlers : calls[h] = Nothing
  OBVIOUS
<1>3. WireFits
  BY <1>2 DEF WireFits, Doing
<1>4. CopiesFit
  BY <1>2 DEF CopiesFit, Doing, LiveRest
<1>5. LogFits
  <2>1. Range(log) = {}
    BY DEF Range
  <2>2. log = Said(said)
    BY DEF Said
  <2> QED BY <2>1, <2>2 DEF LogFits
<1>6. HeldFits
  BY <1>2 DEF HeldFits, Doing
<1>7. QueueFits(inbox, view) /\ ViewFits(view)
  BY DEF QueueFits, ViewFits
<1>8. PageFollows
  BY DEF PageFollows
<1> QED BY <1>1, <1>3, <1>4, <1>5, <1>6, <1>7, <1>8 DEF RoomInv

LEMMA RoomStands ==
  ASSUME RoomAssumption, RoomInv, UNCHANGED roomVars
  PROVE  RoomInv'
<1> USE DEF RoomInv, roomVars
<1>1. \A h \in Handlers : Steady(h)
  BY DEF wireVars, Steady
<1>2. RoomType'
  BY DEF RoomType, serverVars, clientVars, wireVars
<1>3. WireFits'
  BY ServerWire DEF serverVars, clientVars, wireVars
<1>4. CopiesFit'
  <2>1. LiveRest' => LiveRest /\ rest' = rest
    BY DEF LiveRest, wireVars
  <2> QED BY <1>1, <2>1, PageCopies DEF serverVars
<1>5. LogFits' /\ HeldFits'
  BY <1>1, ChatStill DEF serverVars
<1>6. PageFollows' /\ QueueFits(inbox, view)' /\ ViewFits(view)'
  BY SamePage DEF clientVars, wireVars
<1> QED BY <1>2, <1>3, <1>4, <1>5, <1>6

(* When nothing is on its way, what the page will show is what it shows. *)
LEMMA RoomInvAgrees ==
  ASSUME RoomAssumption, RoomInv
  PROVE  RoomAgrees
<1> SUFFICES ASSUME Quiet PROVE RoomAgrees
  BY DEF RoomAgrees, CopyFresh, ChatInOrder, ReactionsAgree
<1>1. /\ Follows(inbox, view) /\ inbox = <<>> /\ Len(inbox) = 0
      /\ view # Nothing /\ view \in View
  <2>1. \A h \in Handlers : calls[h] = Nothing
    BY DEF Quiet
  <2>2. ~Awaited /\ ~Covered
    BY <2>1 DEF Awaited, Covered, Doing
  <2> QED BY <2>2 DEF Quiet, RoomInv, PageFollows, RoomType
<1>2. \A i \in 1..Len(inbox) : FALSE
  BY <1>1
<1>3. said \in Nat /\ click \in Nat \cup {Nothing} /\ pause \in Pauses
  BY DEF RoomInv, RoomType
<1>4. CopyFresh
  <2>1. "game" \notin raced => view.game = game
    BY <1>1, <1>2 DEF Follows, GameWillBe
  <2>2. "pause" \notin raced => Then(inbox, 0, view.pause) = pause
    BY <1>1, <1>2 DEF Follows, PauseWillBe
  <2>3. Then(inbox, 0, view.pause) = view.pause
    <3>1. view.pause \in Pauses
      BY <1>1 DEF View
    <3>2. ~\E j \in (0 + 1)..Len(inbox) : inbox[j].type \in {"paused", "waitExtended"}
      BY <1>2
    <3> QED BY <3>1, <3>2 DEF Then, Pauses
  <2> QED BY <2>1, <2>2, <2>3 DEF CopyFresh
<1>5. \A m \in Range(log) : m \in 1..said
  BY DEF RoomInv, LogFits
<1>6. Reaches(inbox, view, {})
  BY <1>1 DEF Follows
<1>7. ChatInOrder
  <2> SUFFICES ASSUME said <= HistoryLimit
               PROVE  /\ Ascending(view.chat)
                      /\ Range(view.chat) \subseteq Range(log) /\ Range(log) \subseteq Range(view.chat) \cup unheard
    BY DEF ChatInOrder
  <2>1. Range(log) = 1..said
    BY <1>3, AllSaid DEF RoomInv, LogFits
  <2>2. Ascending(view.chat) /\ \A m \in Range(view.chat) : m \in 1..said
    BY <1>1 DEF RoomInv, ViewFits
  <2>3. \A m \in 1..said : m \in unheard \/ Comes(inbox, view, m)
    BY <1>6 DEF Reaches
  <2>4. \A m \in 1..said : Comes(inbox, view, m) => m \in Range(view.chat)
    BY <1>2 DEF Comes
  <2> QED BY <2>1, <2>2, <2>3, <2>4
<1>8. ReactionsAgree
  <2> SUFFICES ASSUME click = Nothing, NEW m \in (Range(log) \cap Range(view.chat)) \ heartsCrossed
               PROVE  (m \in view.hearts) = (m \in hearts)
    BY DEF ReactionsAgree
  <2>1. click # m
    BY <1>3, <1>5 DEF RoomAssumption
  <2>2. HeartWillBe(inbox, view, m, m \in hearts)
    BY <1>6, <2>1 DEF Reaches
  <2>3. WillHave(inbox, view, m)
    BY <1>1 DEF WillHave
  <2>4. m \in hearts <=> view # Nothing /\ m \in view.hearts
    BY <1>2, <2>2, <2>3 DEF HeartWillBe
  <2> QED BY <1>1, <2>4
<1> QED BY <1>4, <1>7, <1>8 DEF RoomAgrees

(* And through every action. *)
LEMMA RoomSteps ==
  ASSUME RoomAssumption, RoomInv, [RoomNext]_roomVars
  PROVE  RoomInv'
<1>1. CASE Moves \/ PauseChanges \/ Concedes \/ Says \/ \E m \in Range(log) : reactToMessage(m)
  BY <1>1, MovesKeeps, PauseChangesKeeps, ConcedesKeeps, SaysKeeps, ReactKeeps
<1>2. CASE (\E h \in Handlers : onSubscribe(h) \/ onChatFetch(h)) \/ RestReads \/ RestArrives \/ Hears
  BY <1>2, SubscribeKeeps, FetchKeeps, RestReadsKeeps, RestArrivesKeeps, HearsKeeps
<1>3. CASE Mounts \/ Unmounts \/ TogglesChat \/ Connects \/ Drops
  BY <1>3, MountsKeeps, UnmountsKeeps, TogglesChatKeeps, ConnectsKeeps, DropsKeeps
<1>4. CASE UNCHANGED roomVars
  BY <1>4, RoomStands
<1> QED BY <1>1, <1>2, <1>3, <1>4 DEF RoomNext

(* Whatever the chat keeps and however the broadcasts, the answers to the calls and the
   REST snapshot are interleaved with drops and with visits to other pages: once nothing is
   under way, the page (useGame and the chat of games/hooks.ts) shows the game, the pause,
   the messages and the hearts as games.service.ts stores them, but for the copies that a
   change overtook and the messages that this page was not told. *)
THEOREM RoomHolds == RoomSpec => []RoomAgrees
<1>1. RoomInit => RoomInv
  BY RoomAssumption, RoomStarts
<1>2. RoomInv /\ [RoomNext]_roomVars => RoomInv'
  BY RoomAssumption, RoomSteps
<1>3. RoomInv => RoomAgrees
  BY RoomAssumption, RoomInvAgrees
<1> QED BY <1>1, <1>2, <1>3, PTL DEF RoomSpec
=============================================================================
