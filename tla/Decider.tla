------------------------------ MODULE Decider ------------------------------
(***************************************************************************)
(* store/src/decider.rs with the types it works on (state.rs, commands.rs, *)
(* events.rs, errors.rs): the pure core of the game.  decide validates a   *)
(* command against a state and returns the events it produces; evolve      *)
(* applies one event.  Player names carry no rule and are left out.        *)
(***************************************************************************)
EXTENDS Board, Sequences

CONSTANTS
  Players,    \* the player ids in use, all different from PlayerId(0)
  NoPlayer,   \* PlayerId(0), the sentinel of an empty slot
  TileIndices \* the values of PlaceTile.at the commands carry

ASSUME SentinelIsNoPlayer == NoPlayer \notin Players
ASSUME IndicesAreNaturals == TileIndices \subseteq Nat

\* PlayerId is a plain u64: a command may carry the sentinel too.
PlayerId == Players \cup {NoPlayer}

Stage == {"Lobby", "InGame", "Ended"}

GameState ==
  [ stage            : Stage,
    board            : [Positions -> Tile],
    active_player_id : PlayerId,
    players          : [0..1 -> PlayerId] ]

\* GameState::default()
DefaultState ==
  [ stage            |-> "Lobby",
    board            |-> [i \in Positions |-> Empty],
    active_player_id |-> NoPlayer,
    players          |-> [i \in 0..1 |-> NoPlayer] ]

GameCommand ==
       [type : {"JoinGame"},  player_id : PlayerId]
  \cup [type : {"PlaceTile"}, player_id : PlayerId, at : TileIndices]
  \cup [type : {"LeaveGame"}, player_id : PlayerId]

\* The events, and EndGameReason as the last argument of GameEnded.
PlayerJoined(p) == [type |-> "PlayerJoined", player_id |-> p]
GameStarted(p)  == [type |-> "GameStarted", goes_first |-> p]
TilePlaced(p, i) == [type |-> "TilePlaced", player_id |-> p, at |-> i]
PlayerLeft(p)   == [type |-> "PlayerLeft", player_id |-> p]
GameEnded(reason, p) == [type |-> "GameEnded", reason |-> reason, player_id |-> p]

GameEvent ==
       [type : {"PlayerJoined", "PlayerLeft"}, player_id : PlayerId]
  \cup [type : {"GameStarted"}, goes_first : PlayerId]
  \cup [type : {"TilePlaced"}, player_id : PlayerId, at : TileIndices]
  \cup [type : {"GameEnded"}, reason : {"PlayerWon", "Draw", "PlayerLeft"}, player_id : PlayerId]

\* Result<Vec<GameEvent>, TicTacTussleError>
Ok(events) == [error |-> "None", events |-> events]
Err(error) == [error |-> error, events |-> << >>]

-----------------------------------------------------------------------------
(* evolve: one operator per event it matches on.                           *)

\* Fill the first empty slot; a third joiner would overwrite the second.
EvolveJoined(s, p) ==
  [s EXCEPT !.players[IF s.players[0] = NoPlayer THEN 0 ELSE 1] = p]

EvolveStarted(s, p) ==
  [s EXCEPT !.stage = "InGame", !.active_player_id = p]

\* Mutant: the turn is not rotated.
EvolvePlaced_KeepsTurn(s, p, i) ==
  [s EXCEPT !.board[i] = IF s.players[0] = p THEN "X" ELSE "O"]

\* Whoever is not players[0] plays O and hands the turn to players[0].
EvolvePlaced(s, p, i) ==
  LET isX == s.players[0] = p
  IN  [s EXCEPT !.board[i] = IF isX THEN "X" ELSE "O",
                !.active_player_id = IF isX THEN s.players[1] ELSE s.players[0]]

EvolveEnded(s) == [s EXCEPT !.stage = "Ended"]

evolve(s, event) ==
  CASE event.type = "PlayerJoined" -> EvolveJoined(s, event.player_id)
    [] event.type = "GameStarted"  -> EvolveStarted(s, event.goes_first)
    [] event.type = "TilePlaced"   -> EvolvePlaced(s, event.player_id, event.at)
    [] event.type = "PlayerLeft"   -> s
    [] event.type = "GameEnded"    -> EvolveEnded(s)

\* The fold of evolve over events, and hydrate: all of a log from the start.
Replay(s, events) ==
  LET after[n \in 0..Len(events)] ==
        IF n = 0 THEN s ELSE evolve(after[n - 1], events[n])
  IN  after[Len(events)]

hydrate(events) == Replay(DefaultState, events)

-----------------------------------------------------------------------------
(* decide: validations in the order of their early returns, then events.   *)

\* Joining with a next state at hand, and what the second join starts.
JoinAndStart(join, next) ==
  Ok(IF next.players[1] # NoPlayer
     THEN <<join, GameStarted(next.players[0])>>
     ELSE <<join>>)

\* Mutant: a player already seated may join again.
DecideJoin_Twice(s, p) ==
  IF s.stage # "Lobby" THEN Err("WrongStage")
  ELSE JoinAndStart(PlayerJoined(p), evolve(s, PlayerJoined(p)))

\* Mutant: a running game may be joined.
DecideJoin_AnyStage(s, p) ==
  IF p \in {s.players[0], s.players[1]} THEN Err("AlreadyJoined")
  ELSE JoinAndStart(PlayerJoined(p), evolve(s, PlayerJoined(p)))

DecideJoin(s, p) ==
  LET join == PlayerJoined(p)
  IN  IF s.stage # "Lobby" THEN Err("WrongStage")
      ELSE IF p \in {s.players[0], s.players[1]} THEN Err("AlreadyJoined")
      ELSE JoinAndStart(join, evolve(s, join))

\* Mutant: a full board is not noticed.
PlaceAndJudge_NoDraw(place, board) ==
  IF winning_symbol(board) # NoSymbol
  THEN <<place, GameEnded("PlayerWon", place.player_id)>>
  ELSE <<place>>

\* Mutant: the full board is looked for first, so that a win with the last tile
\* is a draw.
PlaceAndJudge_DrawFirst(place, board) ==
  IF is_full(board)
  THEN <<place, GameEnded("Draw", NoPlayer)>>
  ELSE IF winning_symbol(board) # NoSymbol
  THEN <<place, GameEnded("PlayerWon", place.player_id)>>
  ELSE <<place>>

\* The placement, and the end of the game its speculative evolve shows.
PlaceAndJudge(place, board) ==
  IF winning_symbol(board) # NoSymbol
  THEN <<place, GameEnded("PlayerWon", place.player_id)>>
  ELSE IF is_full(board)
  THEN <<place, GameEnded("Draw", NoPlayer)>>
  ELSE <<place>>

\* Mutant: the board judged is the one before the placement.
DecidePlace_JudgesOld(s, p, i) ==
  IF s.stage # "InGame" THEN Err("WrongStage")
  ELSE IF s.active_player_id # p THEN Err("NotYourTurn")
  ELSE IF i > 8 THEN Err("TileOutOfRange")
  ELSE IF s.board[i] # Empty THEN Err("TileOccupied")
  ELSE Ok(PlaceAndJudge(TilePlaced(p, i), s.board))

\* Mutant: a taken tile may be played again.
DecidePlace_OnTaken(s, p, i) ==
  IF s.stage # "InGame" THEN Err("WrongStage")
  ELSE IF s.active_player_id # p THEN Err("NotYourTurn")
  ELSE IF i > 8 THEN Err("TileOutOfRange")
  ELSE Ok(PlaceAndJudge(TilePlaced(p, i), evolve(s, TilePlaced(p, i)).board))

\* Mutant: an index off the board is taken for a free tile (board.get(at) in
\* place of the two checks).
DecidePlace_OffBoard(s, p, i) ==
  LET place == TilePlaced(p, i)
  IN  IF s.stage # "InGame" THEN Err("WrongStage")
      ELSE IF s.active_player_id # p THEN Err("NotYourTurn")
      ELSE IF i \in Positions /\ s.board[i] # Empty THEN Err("TileOccupied")
      ELSE Ok(PlaceAndJudge(place, evolve(s, place).board))

DecidePlace(s, p, i) ==
  LET place == TilePlaced(p, i)
  IN  IF s.stage # "InGame" THEN Err("WrongStage")
      ELSE IF s.active_player_id # p THEN Err("NotYourTurn")
      ELSE IF i > 8 THEN Err("TileOutOfRange")
      ELSE IF s.board[i] # Empty THEN Err("TileOccupied")
      ELSE Ok(PlaceAndJudge(place, evolve(s, place).board))

\* No validation at all: any id may leave, in any stage.
DecideLeave(s, p) ==
  Ok(IF s.stage = "InGame"
     THEN <<PlayerLeft(p), GameEnded("PlayerLeft", p)>>
     ELSE <<PlayerLeft(p)>>)

decide(s, cmd) ==
  CASE cmd.type = "JoinGame"  -> DecideJoin(s, cmd.player_id)
    [] cmd.type = "PlaceTile" -> DecidePlace(s, cmd.player_id, cmd.at)
    [] cmd.type = "LeaveGame" -> DecideLeave(s, cmd.player_id)
=============================================================================
