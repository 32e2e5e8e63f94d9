SPECIFICATION Spec
CONSTANTS
  A = A
  B = B
  C = C
  L1 = L1
  L2 = L2
  c1 = c1
  c2 = c2
  Users = {A, B}
  Games <- MCThreeGames
  NoGame = NoGame
  Null = Null
  Lobbies = {L1}
  NoLobby = NoLobby
  Slots = {}
  Nobody = Nobody
  Patches <- MCPatches
  DefaultSettings <- MCDefaults
  SettingValues <- MCValues
  MaxCrashes = 1
  RematchSlots = {c1, c2}
  MaxPresses = 4
SYMMETRY Symmetric
INVARIANTS SessionWatched
PROPERTIES RematchAgreed DealtOnce
CHECK_DEADLOCK FALSE
