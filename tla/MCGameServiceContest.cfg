CONSTANTS
  Players <- MCPlayers
  NoPlayer = 0
  TileIndices <- MCTiles
  GameId <- MCGame
  Envelopes <- MCEnvelopes
  MaxLog = 14
  MaxLeft = 1
  MaxLost = 1
SPECIFICATION ContestSpec
INVARIANTS
  TypeOK
  HistoryIsLegal
  EndIsJustified
  AppliedOnce
  OutputsFollowLog
