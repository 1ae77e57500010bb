----------------------------- MODULE WriteModel -----------------------------
(***************************************************************************)
(* The write model of one game session: the state the server rebuilds for  *)
(* every command, as the commands it accepts move it.  A command may come  *)
(* from anyone, at any time and any number of times: the network, the      *)
(* broker and its redeliveries put no order on them.                       *)
(***************************************************************************)
EXTENDS Decider, FiniteSets

VARIABLE state

\* fold of evolve over the events of one decision; decide returns 1 or 2.
ApplyBatch(s, events) ==
  CASE Len(events) = 0 -> s
    [] Len(events) = 1 -> evolve(s, events[1])
    [] Len(events) = 2 -> evolve(evolve(s, events[1]), events[2])

Init == state = DefaultState

\* A rejected command leaves the state alone, so only accepted ones step.
Accept(cmd) ==
  LET decision == decide(state, cmd)
  IN  /\ decision.error = "None"
      /\ state' = ApplyBatch(state, decision.events)

JoinGame  == \E p \in PlayerId : Accept([type |-> "JoinGame", player_id |-> p])
PlaceTile == \E p \in PlayerId, i \in TileIndices :
               Accept([type |-> "PlaceTile", player_id |-> p, at |-> i])
LeaveGame == \E p \in PlayerId : Accept([type |-> "LeaveGame", player_id |-> p])

Next == JoinGame \/ PlaceTile \/ LeaveGame

Spec == Init /\ [][Next]_state

-----------------------------------------------------------------------------

TypeOK == state \in GameState

CellsOf(symbol) == {i \in Positions : state.board[i] = symbol}

NumberOf(symbol) == Cardinality(CellsOf(symbol))

(* The player whose turn it is and the tiles on the board are two records  *)
(* of the same thing, kept by two assignments of evolve: the active player *)
(* is players[0] exactly when both symbols are on as many tiles, players[1]*)
(* exactly when X is one ahead.  A move lost, doubled or credited to the   *)
(* wrong symbol separates them.                                            *)
TurnFollowsBoard ==
  LET lead == NumberOf("X") - NumberOf("O")
  IN  /\ lead \in {0, 1}
      /\ state.stage = "InGame" =>
           state.active_player_id = state.players[lead]

(* decide looks for a win or a full board only on the placement it is      *)
(* about to accept: a game still InGame must have neither, whatever was    *)
(* played before, or it would never end.                                   *)
InGameIsUndecided ==
  state.stage = "InGame" =>
    winning_symbol(state.board) = NoSymbol /\ ~ is_full(state.board)

(* winning_symbol returns the first pattern that matches and GameEnded     *)
(* names the player of the last move: both name the same side only if no   *)
(* reachable board holds a line of each symbol.                            *)
AtMostOneSideHasALine ==
  ~ \E i, j \in 1..8 :
      /\ Matches(state.board, WIN_PATTERNS[i])
      /\ Matches(state.board, WIN_PATTERNS[j])
      /\ state.board[WIN_PATTERNS[i][1]] # state.board[WIN_PATTERNS[j][1]]

(* PlayerId(0) marks an empty slot but is an ordinary u64 a command may    *)
(* carry: slots fill from the left, the two players differ, nobody plays   *)
(* as the sentinel, and the lobby is left exactly when both slots are      *)
(* taken, so that evolve never overwrites a seated player.                 *)
SlotsAreSound ==
  LET x == state.players[0]
      o == state.players[1]
  IN  /\ x = NoPlayer => o = NoPlayer
      /\ x = o => x = NoPlayer
      /\ state.stage = "Lobby" <=> o = NoPlayer
      /\ state.stage = "Lobby" => \A i \in Positions : state.board[i] = Empty

(* What a step may never do: touch anything of a game that has ended,      *)
(* reseat a player, turn the stage back, or repaint or clear a tile.       *)
NothingIsTakenBack ==
  [][ /\ state.stage = "Ended" => UNCHANGED state
      /\ state'.stage = "Lobby" => state.stage = "Lobby"
      /\ \A k \in 0..1 : state.players[k] # NoPlayer =>
           state'.players[k] = state.players[k]
      /\ \A i \in Positions : state.board[i] # Empty =>
           state'.board[i] = state.board[i] ]_state

\* The commands no later state will accept: a join once seated or once the
\* lobby is closed, a placement off the board, on a taken tile or too late.
Hopeless(s, cmd) ==
  \/ cmd.type = "JoinGame" /\ s.stage # "Lobby"
  \/ cmd.type = "JoinGame" /\ cmd.player_id \in {s.players[0], s.players[1]}
  \/ cmd.type = "PlaceTile" /\ s.stage = "Ended"
  \/ cmd.type = "PlaceTile" /\ cmd.at > 8
  \/ cmd.type = "PlaceTile" /\ cmd.at \in Positions /\ s.board[cmd.at] # Empty

(* A retry of a hopeless command is rejected whatever has been accepted in *)
(* between, so it is safe to redeliver and safe to drop.  The rejections   *)
(* left out (NotYourTurn and WrongStage in the lobby, of a tile still      *)
(* free) are verdicts on the moment only.                                  *)
HopelessStaysHopeless ==
  [][ \A cmd \in GameCommand :
        Hopeless(state, cmd) => /\ Hopeless(state', cmd)
                                /\ decide(state', cmd).error # "None" ]_state

-----------------------------------------------------------------------------
(* The write model implements the game.                                    *)

Game == INSTANCE TicTacTussle WITH
  stage <- state.stage,
  seats <- IF state.players[0] = NoPlayer THEN << >>
           ELSE IF state.players[1] = NoPlayer THEN <<state.players[0]>>
           ELSE <<state.players[0], state.players[1]>>,
  marks <- [s \in Symbol |-> CellsOf(s)]

(* Every accepted command is a move of the game or changes nothing: taking *)
(* a free seat, marking a free cell for the side whose turn it is, or      *)
(* abandoning a game in progress.                                          *)
ImplementsGame == Game!Spec
=============================================================================
