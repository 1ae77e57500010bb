CONSTANTS
  Players = {1, 2, 3}
  NoPlayer = 0
  TileIndices <- MCTiles
  Clients = {1, 2}
  MaxClients = 2
  MaxDepartures = 2
  Cursors <- ContestedCell
  MaxClicks = 2
  MaxRestarts = 0
SPECIFICATION FairSpec
INVARIANTS
  ExactCopies
  SingleClicksCount
PROPERTIES
  ClicksBecomeMoves
  DeparturesAreSeen
  TurnsAreAnnounced
