CONSTANTS
  u1 = u1
  u2 = u2
  x1 = x1
  x2 = x2
  r1 = r1
  r2 = r2
  Handlers = {x1, x2}
  HistoryLimit = 2
  BufferLimit = 3
  Nothing = Nothing
  Budgets <- MCBudgets
  Users = {u1, u2}
  Sessions = {x1, x2}
  Requests = {r1, r2}
  None = None
  MaxRequests = 5
  Players = {u1, u2}
  Games = {x1, x2}
  PlayersOf <- MCPlayersOf
  Nobody = Nobody
  MaxAttempts = 2
  MinGames = 1
  Chances <- MCChances
  Edits = {r1, r2}
  NoFile = NoFile
  MaxEdits = 3
  Speakers = {u1, u2}
  Speeches = {r1, r2}
  Seats = {u1, u2}
  Cap = 1
  Nil = Nil
  Shows <- MCShows
  Guests = {u1, u2}
  Rows = {x1, x2}
  Absent = Absent
  Outings <- MCOutings
  Persons = {u1, u2}
  Nix = Nix
  Trips <- MCTrips
  Entries = {r1, r2}
  NoEntry = NoEntry
  DeskBounds <- MCDeskBounds
SPECIFICATION Spec
INVARIANTS RoomAgrees AccountsAgree RecordsAgree FilesKept EffectsAgree LoungeAgrees ShellAgrees DeskAgrees
SYMMETRY Symmetry
\* The events of a behaviour are bounded: when they are used up nothing happens.
CHECK_DEADLOCK FALSE
