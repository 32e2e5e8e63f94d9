-------------------------------- MODULE Desk --------------------------------
(***************************************************************************)
(* The lists an administrator or a player edits, and the query client's    *)
(* copies of them: preset phrases and court cards have one copy for the    *)
(* administrator's page (desk) and one for the pickers of the game page    *)
(* (table); own phrases, users and the rating's parameters have one, desk. *)
(* A mutation writes its answer into the copies, or has them fetched       *)
(* again.  A behaviour is about one of the lists, its subject.             *)
(***************************************************************************)
EXTENDS Naturals, Sequences

CONSTANTS Entries,       \* rows of a list, or fields of the parameters
          NoEntry,       \* no row, no copy, nothing under way
          DeskBounds     \* bounds: writes, visits, strokes of a behaviour

Subjects == {"phrases", "cards", "mine", "users", "rating"}
Copies == {"desk", "table"}

(* A row's version, and whether it is enabled or uploaded; a list; what is typed. *)
Entry == [v : Nat, on : BOOLEAN]
Sheet == [Entries -> Entry \cup {NoEntry}]
Filled == [Entries -> Nat]
Change == [kind : {"create", "update", "delete"}, entry : Entries, fields : Filled \cup {NoEntry},
           step : {"sent", "done", "over"}, ok : BOOLEAN, seen : Sheet \cup {NoEntry}, here : BOOLEAN]

ASSUME DeskAssumption ==
  /\ NoEntry \notin Entry \cup Filled
  /\ NoEntry \notin Sheet
  /\ DeskBounds \subseteq [writes : Nat, visits : Nat, strokes : Nat]

VARIABLES
  subject,
  listRows,  \* the rows on the server
  copies,    \* a copy's query: [data, fresh]
  fetches,   \* its fetch: [step, data]
  where,     \* the page that is open: desk, table (the game page), away
  changes,   \* the mutations begun, in order: [kind, entry, fields, step, ok, seen, here];
              \* here: the page that began it is still open
  form,      \* the fields of the parameters' page, NoEntry before they are known
  typed,     \* history: what was typed into a field and has not been saved since
  hasty,     \* history: fields last typed into while a save was under way
  tangled,   \* history: copies that a fetch and a mutation wrote in a wrong order
  bound      \* what is left of the bounds

deskVars == <<subject, listRows, copies, fetches, where, changes, form, typed, hasty, tangled, bound>>

Idle == [step |-> "idle", data |-> NoEntry]

(* The page that shows a copy: the grid of court cards draws them from the
   players' copy too. *)
Mounted(c, p) ==
  CASE subject = "mine"  -> c = "desk" /\ p # "away"
    [] subject = "cards" -> p # "away" /\ (c = "desk" => p = "desk")
    [] subject = "phrases" -> p = c
    [] OTHER -> c = "desk" /\ p = "desk"

(* What a fetch of the copy returns: the pickers get the enabled phrases. *)
Visible(c, all) ==
  IF subject = "phrases" /\ c = "table"
  THEN [e \in Entries |-> IF all[e] # NoEntry /\ all[e].on THEN all[e] ELSE NoEntry]
  ELSE all

-----------------------------------------------------------------------------
(* Fetches. *)
Fetch(c) == [step |-> "sent", data |-> NoEntry]

(* A page that opens mounts its queries: what is unknown or out of date is
   fetched, and what is fresh may have become old.  The form is filled with what
   is known; mutations under way no longer concern the page. *)
Visits(p) ==
  /\ bound.visits > 0 /\ bound' = [bound EXCEPT !.visits = @ - 1]
  /\ p # where /\ where' = p
  /\ \E wanted \in SUBSET {c \in Copies : Mounted(c, p)} :
       /\ \A c \in Copies : Mounted(c, p) /\ (copies[c].data = NoEntry \/ ~copies[c].fresh) => c \in wanted
       /\ fetches' = [c \in Copies |-> IF c \in wanted /\ fetches[c] = Idle THEN Fetch(c) ELSE fetches[c]]
       /\ tangled' = {c \in tangled : fetches'[c] = fetches[c]}
  /\ changes' = [n \in DOMAIN changes |-> [changes[n] EXCEPT !.here = FALSE]]
  /\ form' = IF subject = "rating" /\ p = "desk" /\ copies.desk.data # NoEntry
             THEN [e \in Entries |-> copies.desk.data[e].v] ELSE NoEntry
  /\ typed' = [e \in Entries |-> NoEntry] /\ hasty' = {}
  /\ UNCHANGED <<subject, listRows, copies>>

FetchRead(c) ==
  /\ fetches[c].step = "sent"
  /\ fetches' = [fetches EXCEPT ![c] = [step |-> "read", data |-> Visible(c, listRows)]]
  /\ UNCHANGED <<subject, listRows, copies, where, changes, form, typed, hasty, tangled, bound>>

(* Mutant: the form is filled whenever the parameters are loaded. *)
Seeds_Again(data) ==
  form' = IF subject = "rating" /\ where = "desk" THEN [e \in Entries |-> data[e].v] ELSE form

(* The parameters' form is filled once. *)
Seeds(data) ==
  form' = IF subject = "rating" /\ where = "desk" /\ form = NoEntry
          THEN [e \in Entries |-> data[e].v] ELSE form

FetchLoaded(c) ==
  /\ fetches[c].step = "read"
  /\ copies' = [copies EXCEPT ![c] = [data |-> fetches[c].data, fresh |-> TRUE]]
  /\ fetches' = [fetches EXCEPT ![c] = Idle]
  /\ Seeds(fetches[c].data)
  /\ UNCHANGED <<subject, listRows, where, changes, typed, hasty, tangled, bound>>

-----------------------------------------------------------------------------
(* Mutations: which buttons are there, and which of them are disabled. *)
UnderWay(n) == changes[n].here /\ changes[n].step # "over"
Under(kinds) == \E n \in DOMAIN changes : UnderWay(n) /\ changes[n].kind \in kinds

(* The parameters on show are typed over, also while they are being saved. *)
Types(e) ==
  /\ bound.strokes > 0 /\ bound' = [bound EXCEPT !.strokes = @ - 1]
  /\ subject = "rating" /\ where = "desk" /\ form # NoEntry
  /\ form' = [form EXCEPT ![e] = 10 + bound.strokes]
  /\ typed' = [typed EXCEPT ![e] = 10 + bound.strokes]
  /\ hasty' = IF Under({"update"}) THEN hasty \cup {e} ELSE hasty \ {e}
  /\ UNCHANGED <<subject, listRows, copies, fetches, where, changes, tangled>>

(* The last mutation of a kind is all that its hook tells of. *)
SlotBusy(kind, e) ==
  \E n \in DOMAIN changes :
    /\ UnderWay(n) /\ changes[n].kind = kind /\ changes[n].entry = e
    /\ \A k \in DOMAIN changes : k > n => changes[k].kind # kind

Loaded == copies.desk.data # NoEntry
Known(e) == Loaded /\ copies.desk.data[e] # NoEntry

(* A new row is asked for also while the list is still being loaded.  A phrase's row opens the dialogs; a dialog is not submitted while the last
   mutation of its kind is pending, whatever row that was about. *)
PhraseRow(e) == Known(e)
PhraseOffers(kind, e) == ~Under({kind}) /\ IF kind = "create" THEN listRows[e] = NoEntry ELSE PhraseRow(e)

(* The dialog for a new user, and a user's row: only a disabled user is deleted. *)
UserCreates(e) == listRows[e] = NoEntry /\ ~Under({"create"})
UserRow(kind, e) ==
  /\ kind # "create" /\ Known(e) /\ ~Under({"update", "delete"})
  /\ kind = "delete" => ~copies.desk.data[e].on
UserOffers(kind, e) == (kind = "create" /\ UserCreates(e)) \/ UserRow(kind, e)

MineOffers(kind, e) ==
  /\ ~Under({"create", "delete"})
  /\ IF kind = "create" THEN listRows[e] = NoEntry ELSE kind = "delete" /\ Known(e)

SlotOffers(kind, e) ==
  /\ ~SlotBusy("update", e) /\ ~SlotBusy("delete", e)
  /\ Loaded
  /\ kind = "update" \/ (kind = "delete" /\ Known(e) /\ copies.desk.data[e].on)

FormOffers(kind) ==
  /\ kind = "update" /\ ~Under({"update"}) /\ form # NoEntry
  /\ \E e \in Entries : form[e] # copies.desk.data[e].v

Offers(kind, e) ==
  CASE subject = "phrases" -> PhraseOffers(kind, e)
    [] subject = "users"   -> UserOffers(kind, e)
    [] subject = "mine"    -> MineOffers(kind, e)
    [] subject = "cards"   -> SlotOffers(kind, e)
    [] subject = "rating"  -> FormOffers(kind)

(* All fields of the form are sent, also those nobody typed over. *)
Mutates(kind, e) ==
  /\ bound.writes > 0 /\ bound' = [bound EXCEPT !.writes = @ - 1]
  /\ where = "desk" /\ Offers(kind, e)
  /\ changes' = Append(changes, [kind |-> kind, entry |-> e, fields |-> form, step |-> "sent",
                                 ok |-> FALSE, seen |-> NoEntry, here |-> TRUE])
  /\ UNCHANGED <<subject, listRows, copies, fetches, where, form, typed, hasty, tangled>>

(* The server carries it out, or finds no such row. *)
Written(m, n) ==
  CASE subject = "rating" -> [e \in Entries |-> [v |-> m.fields[e], on |-> TRUE]]
    [] m.kind = "delete" /\ subject = "cards" -> [listRows EXCEPT ![m.entry] = [v |-> n, on |-> FALSE]]
    [] m.kind = "delete" /\ subject # "cards" -> [listRows EXCEPT ![m.entry] = NoEntry]
    [] m.kind = "create" -> [listRows EXCEPT ![m.entry] = [v |-> n, on |-> TRUE]]
    [] m.kind = "update" /\ subject = "cards" -> [listRows EXCEPT ![m.entry] = [v |-> n, on |-> TRUE]]
    [] m.kind = "update" /\ subject \in {"phrases", "users"} ->
         [listRows EXCEPT ![m.entry] = [v |-> n, on |-> ~@.on]]

Carries(n) ==
  LET m == changes[n]
      found == m.kind = "create" \/ listRows[m.entry] # NoEntry
  IN  /\ m.step = "sent"
      /\ listRows' = IF found THEN Written(m, n) ELSE listRows
      /\ changes' = [changes EXCEPT ![n] = [m EXCEPT !.step = "done", !.ok = found, !.seen = listRows']]
      /\ UNCHANGED <<subject, copies, fetches, where, form, typed, hasty, tangled, bound>>

-----------------------------------------------------------------------------
(* What the answer does to the copies.  Writing a copy leaves its fetch alone,
   whose data will replace it; a copy nobody had becomes the one row. *)
RowMerged(c, e, row) ==
  LET data == copies[c].data
  IN  [data |-> IF data = NoEntry THEN [x \in Entries |-> IF x = e THEN row ELSE NoEntry]
                ELSE [data EXCEPT ![e] = row],
       fresh |-> TRUE]

(* Fetched again where it is shown, later where it is not; a fetch under way
   starts over, unless it is the first. *)
Restarted(c) ==
  IF Mounted(c, where) /\ (fetches[c] = Idle \/ copies[c].data # NoEntry) THEN Fetch(c) ELSE fetches[c]

Writes(m) ==
  IF subject = "cards" THEN Copies
  ELSE IF subject = "phrases" /\ m.kind = "delete" THEN Copies
  ELSE IF subject \in {"phrases", "rating"} THEN {"desk"}
  ELSE {}

Invalidates(m) ==
  CASE subject = "phrases" -> IF m.kind = "delete" THEN {} ELSE {"table"}
    [] subject \in {"mine", "users"} -> {"desk"}
    [] OTHER -> {}

Answer(m, c) ==
  IF c \in Writes(m)
  THEN IF subject = "rating" THEN [data |-> m.seen, fresh |-> TRUE] ELSE RowMerged(c, m.entry, m.seen[m.entry])
  ELSE IF c \in Invalidates(m) THEN [copies[c] EXCEPT !.fresh = FALSE] ELSE copies[c]

(* The wrong orders: a copy written while it is fetched, or before it was ever
   fetched, or while it waits to be fetched again (a written copy counts as
   fresh), or with a row that has changed since; an invalidation that a fetch
   under way will end. *)
Crosses(m, c) ==
  \/ /\ c \in Writes(m)
     /\ \/ fetches[c] # Idle \/ ~copies[c].fresh
        \/ \E e \in Entries : (e = m.entry \/ subject = "rating") /\ listRows[e] # m.seen[e]
  \/ c \in Invalidates(m) /\ fetches[c] # Idle /\ Restarted(c) = fetches[c]

AnswerComes(n) ==
  LET m == changes[n]
  IN  /\ m.step = "done"
      /\ changes' = [changes EXCEPT ![n].step = "over"]
      /\ IF m.ok
         THEN /\ copies' = [c \in Copies |-> Answer(m, c)]
              /\ fetches' = [c \in Copies |-> IF c \in Invalidates(m) THEN Restarted(c) ELSE fetches[c]]
              /\ tangled' = {c \in Copies : Crosses(m, c) \/ (c \in tangled /\ fetches'[c] = fetches[c])}
              /\ IF subject = "rating" /\ m.here
                 THEN /\ form' = [e \in Entries |-> m.seen[e].v]
                      /\ typed' = [e \in Entries |-> IF typed[e] = m.fields[e] THEN NoEntry ELSE typed[e]]
                 ELSE UNCHANGED <<form, typed>>
         ELSE UNCHANGED <<copies, fetches, tangled, form, typed>>
      /\ UNCHANGED <<subject, listRows, where, hasty, bound>>

-----------------------------------------------------------------------------
DeskInit ==
  /\ subject \in Subjects
  /\ listRows \in [Entries -> {NoEntry, [v |-> 0, on |-> TRUE]}]
  /\ subject \in {"cards", "rating"} => \A e \in Entries : listRows[e] # NoEntry
  /\ copies = [c \in Copies |-> [data |-> NoEntry, fresh |-> FALSE]]
  /\ fetches = [c \in Copies |-> Idle]
  /\ where = "away" /\ changes = <<>>
  /\ form = NoEntry /\ typed = [e \in Entries |-> NoEntry] /\ hasty = {}
  /\ tangled = {} /\ bound \in DeskBounds

DeskNext ==
  \/ \E p \in {"desk", "table", "away"} : Visits(p)
  \/ \E c \in Copies : FetchRead(c) \/ FetchLoaded(c)
  \/ \E e \in Entries : Types(e) \/ \E kind \in {"create", "update", "delete"} : Mutates(kind, e)
  \/ \E n \in DOMAIN changes : Carries(n) \/ AnswerComes(n)

DeskSpec == DeskInit /\ [][DeskNext]_deskVars
-----------------------------------------------------------------------------
NoFetch == \A c \in Copies : fetches[c] = Idle
NoneLeft == \A n \in DOMAIN changes : changes[n].step = "over"

(* With nothing under way, a page (textReactionsHooks.ts, faceCardsHooks.ts,
   admin/hooks.ts) shows the rows the server has, unless a fetch and a mutation
   crossed; in that case until the copy is fetched anew. *)
ListsShown ==
  NoFetch /\ NoneLeft =>
    \A c \in Copies : Mounted(c, where) /\ copies[c].data # NoEntry /\ c \notin tangled =>
      copies[c].data = Visible(c, listRows)

(* What an administrator types over the rating's parameters stays in the form
   until the server has taken it, whatever is fetched or answered meanwhile; what
   is typed while a save is under way does not: the answer replaces it. *)
FormKept ==
  form # NoEntry => \A e \in Entries \ hasty : typed[e] # NoEntry => form[e] = typed[e]

(* The two together: the lists shown and the form filled agree with what was
   written. *)
DeskAgrees == ListsShown /\ FormKept
=============================================================================
