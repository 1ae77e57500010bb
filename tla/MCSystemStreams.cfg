CONSTANTS
  c1 = c1
  c2 = c2
  c3 = c3
  Players = {c1, c2, c3}
  NoPlayer = NoPlayer
  TileIndices <- MCTiles
  Clients = {c1, c2, c3}
  MaxClients = 2
  MaxDepartures = 2
  Cursors <- TwoCells
  MaxClicks = 1
  MaxRestarts = 1
SPECIFICATION StreamsSpec
SYMMETRY ClientsAlike
INVARIANTS
  StreamIsLog
  ViewsConverge
  AbandonedGamesEnd
  PairFollowsSlots
  PiecesShowBoard
  StatusIsCurrent
