CONSTANTS
  Players = {p1, p2, p3}
  NoPlayer = p0
  TileIndices <- MCTileIndices
SPECIFICATION Spec
INVARIANTS
  TurnFollowsBoard
  InGameIsUndecided
  AtMostOneSideHasALine
  SlotsAreSound
PROPERTIES
  NothingIsTakenBack
  HopelessStaysHopeless
  ImplementsGame
