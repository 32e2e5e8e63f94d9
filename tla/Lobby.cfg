SPECIFICATION Spec
CONSTANTS
  A = A
  B = B
  C = C
  L1 = L1
  L2 = L2
  c1 = c1
  c2 = c2
  Users = {A, B}
  Games <- MCGames
  NoGame = NoGame
  Null = Null
  Lobbies = {L1, L2}
  NoLobby = NoLobby
  Slots = {c1, c2}
  Nobody = Nobody
  Patches <- MCPatches
  DefaultSettings <- MCDefaults
  SettingValues <- MCValues
  MaxCrashes = 0
  RematchSlots = {}
  MaxPresses = 0
SYMMETRY Symmetric
INVARIANTS TypeOK MembersServed
PROPERTIES LobbyAgreed
CHECK_DEADLOCK FALSE
