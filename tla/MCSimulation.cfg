CONSTANTS
  Players = {1, 2}
  NoPlayer = 0
  TileIndices <- MCTiles
  Commands <- MCCommands
  Logs <- Recorded
  MaxIndex = 14
SPECIFICATION Spec
INVARIANTS
  StateIsReplay
  BranchIsHistory
