CONSTANTS
  Players = {1, 2, 3}
  NoPlayer = 0
  TileIndices <- MCTiles
  Clients = {1, 2, 3}
  MaxClients = 2
  MaxDepartures = 2
  Cursors <- TwoCells
  MaxClicks = 1
  MaxRestarts = 0
SPECIFICATION Spec
INVARIANTS
  PairNamesBothPlayers
