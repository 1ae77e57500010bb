--------------------------- MODULE WriteModelProofs ---------------------------
(***************************************************************************)
(* The safety properties of the write model, and that it implements the    *)
(* game, proved for any set of players and any tile indices the commands   *)
(* may carry.                                                              *)
(***************************************************************************)
EXTENDS WriteModel, DeciderProofs

-----------------------------------------------------------------------------
(* What an accepted command does to the state, free of events and batches. *)

\* An accepted JoinGame found a free slot, and starts the game if it was the
\* second one (decide and evolve of decider.rs:35-64).
LEMMA JoinEffect ==
  ASSUME TypeOK, NEW p \in PlayerId,
         Accept([type |-> "JoinGame", player_id |-> p])
  PROVE  /\ state.stage = "Lobby"
         /\ p \notin {state.players[0], state.players[1]}
         /\ LET next == EvolveJoined(state, p)
            IN  state' = IF next.players[1] # NoPlayer
                         THEN EvolveStarted(next, next.players[0])
                         ELSE next
<1> DEFINE join == PlayerJoined(p)
           next == EvolveJoined(state, p)
<1>1. DecideJoin(state, p).error = "None"
      /\ state' = ApplyBatch(state, DecideJoin(state, p).events)
  BY DEF Accept, decide
<1>2. evolve(state, join) = next
  BY DEF evolve, PlayerJoined
<1>3. state.stage = "Lobby" /\ p \notin {state.players[0], state.players[1]}
  BY <1>1 DEF DecideJoin, Err, Ok
<1>4. CASE next.players[1] # NoPlayer
  <2>1. DecideJoin(state, p).events = <<join, GameStarted(next.players[0])>>
    BY <1>2, <1>3, <1>4 DEF DecideJoin, JoinAndStart, Ok
  <2>2. state' = evolve(next, GameStarted(next.players[0]))
    BY <1>1, <1>2, <2>1 DEF ApplyBatch
  <2> QED
    BY <1>3, <1>4, <2>2 DEF evolve, GameStarted
<1>5. CASE next.players[1] = NoPlayer
  <2>1. DecideJoin(state, p).events = <<join>>
    BY <1>2, <1>3, <1>5 DEF DecideJoin, JoinAndStart, Ok
  <2>2. state' = next
    BY <1>1, <1>2, <2>1 DEF ApplyBatch
  <2> QED
    BY <1>3, <1>5, <2>2
<1> QED
  BY <1>4, <1>5

\* An accepted PlaceTile was on a free tile by the active player, and ends the
\* game exactly when the board it leaves is won or full (decider.rs:65-100).
LEMMA PlaceEffect ==
  ASSUME TypeOK, NEW p \in PlayerId, NEW i \in TileIndices,
         Accept([type |-> "PlaceTile", player_id |-> p, at |-> i])
  PROVE  /\ state.stage = "InGame"
         /\ state.active_player_id = p
         /\ i \in Positions
         /\ state.board[i] = Empty
         /\ LET next == EvolvePlaced(state, p, i)
            IN  state' = IF winning_symbol(next.board) # NoSymbol \/ is_full(next.board)
                         THEN EvolveEnded(next)
                         ELSE next
<1> DEFINE place == TilePlaced(p, i)
           next == EvolvePlaced(state, p, i)
<1>1. DecidePlace(state, p, i).error = "None"
      /\ state' = ApplyBatch(state, DecidePlace(state, p, i).events)
  BY DEF Accept, decide
<1>2. evolve(state, place) = next
  BY DEF evolve, TilePlaced
<1>3. /\ state.stage = "InGame"
      /\ state.active_player_id = p
      /\ ~ i > 8
      /\ state.board[i] = Empty
  BY <1>1 DEF DecidePlace, Err
<1>4. i \in Positions
  BY <1>3, IndicesAreNaturals DEF Positions
<1>5. DecidePlace(state, p, i).events = PlaceAndJudge(place, next.board)
  BY <1>2, <1>3 DEF DecidePlace, Ok
<1>6. CASE winning_symbol(next.board) # NoSymbol \/ is_full(next.board)
  <2>1. PICK reason, q : PlaceAndJudge(place, next.board) = <<place, GameEnded(reason, q)>>
    BY <1>6 DEF PlaceAndJudge
  <2>2. state' = evolve(next, GameEnded(reason, q))
    BY <1>1, <1>2, <1>5, <2>1 DEF ApplyBatch
  <2> QED
    BY <1>3, <1>4, <1>6, <2>2 DEF evolve, GameEnded
<1>7. CASE ~ (winning_symbol(next.board) # NoSymbol \/ is_full(next.board))
  <2>1. PlaceAndJudge(place, next.board) = <<place>>
    BY <1>7 DEF PlaceAndJudge
  <2>2. state' = next
    BY <1>1, <1>2, <1>5, <2>1 DEF ApplyBatch
  <2> QED
    BY <1>3, <1>4, <1>7, <2>2
<1> QED
  BY <1>6, <1>7

\* LeaveGame ends a game in progress and is recorded otherwise, whoever sends
\* it (decider.rs:101-114).
LEMMA LeaveEffect ==
  ASSUME NEW p \in PlayerId,
         Accept([type |-> "LeaveGame", player_id |-> p])
  PROVE  state' = IF state.stage = "InGame" THEN EvolveEnded(state) ELSE state
<1> DEFINE left == PlayerLeft(p)
           end == GameEnded("PlayerLeft", p)
<1>1. state' = ApplyBatch(state, DecideLeave(state, p).events)
  BY DEF Accept, decide
<1>2. evolve(state, left) = state /\ evolve(state, end) = EvolveEnded(state)
  BY DEF evolve, PlayerLeft, GameEnded
<1>3. CASE state.stage = "InGame"
  <2>1. DecideLeave(state, p).events = <<left, end>>
    BY <1>3 DEF DecideLeave, Ok
  <2> QED
    BY <1>1, <1>2, <1>3, <2>1 DEF ApplyBatch
<1>4. CASE state.stage # "InGame"
  <2>1. DecideLeave(state, p).events = <<left>>
    BY <1>4 DEF DecideLeave, Ok
  <2> QED
    BY <1>1, <1>2, <1>4, <2>1 DEF ApplyBatch
<1> QED
  BY <1>3, <1>4

-----------------------------------------------------------------------------
(* The inductive invariant: the five invariants of WriteModel together.    *)
(* SlotsAreSound is what makes players[0] and players[1] two people in a   *)
(* game, without which TurnFollowsBoard is not preserved; a board on which *)
(* nothing is decided yet is what makes the next line the first one.       *)
IInv ==
  /\ TypeOK
  /\ SlotsAreSound
  /\ TurnFollowsBoard
  /\ InGameIsUndecided
  /\ AtMostOneSideHasALine

(* A step under sound slots is one of five moves of the fields: the first  *)
(* or the second player is seated, a tile is marked for the active player, *)
(* the game is abandoned, or nothing changes.                              *)
SeatFirst(p) ==
  /\ state.stage = "Lobby" /\ state'.stage = "Lobby"
  /\ state.players[0] = NoPlayer /\ p # NoPlayer
  /\ state'.players = [state.players EXCEPT ![0] = p]
  /\ state'.board = state.board
  /\ state'.active_player_id = state.active_player_id

SeatSecond(p) ==
  /\ state.stage = "Lobby" /\ state'.stage = "InGame"
  /\ state.players[0] # NoPlayer /\ p \notin {state.players[0], NoPlayer}
  /\ state'.players = [state.players EXCEPT ![1] = p]
  /\ state'.board = state.board
  /\ state'.active_player_id = state.players[0]

MarkTile(i, lead) ==
  /\ state.stage = "InGame"
  /\ state.active_player_id = state.players[lead]
  /\ state.board[i] = Empty
  /\ state'.players = state.players
  /\ state'.board = [state.board EXCEPT ![i] = IF lead = 0 THEN "X" ELSE "O"]
  /\ state'.active_player_id = state.players[1 - lead]
  /\ state'.stage = IF winning_symbol(state'.board) # NoSymbol \/ is_full(state'.board)
                    THEN "Ended" ELSE "InGame"

Abandoned ==
  /\ state.stage = "InGame" /\ state'.stage = "Ended"
  /\ state'.players = state.players
  /\ state'.board = state.board
  /\ state'.active_player_id = state.active_player_id

\* Every step of the write model is one of those moves, and keeps the types.
LEMMA StepIsAMove ==
  ASSUME TypeOK, SlotsAreSound, TurnFollowsBoard, Next
  PROVE  /\ TypeOK'
         /\ \/ \E p \in PlayerId : SeatFirst(p) \/ SeatSecond(p)
            \/ \E i \in Positions, lead \in {0, 1} : MarkTile(i, lead)
            \/ Abandoned
            \/ UNCHANGED state
<1>1. CASE JoinGame
  <2>1. PICK p \in PlayerId : Accept([type |-> "JoinGame", player_id |-> p])
    BY <1>1 DEF JoinGame
  <2> DEFINE next == EvolveJoined(state, p)
  <2>2. /\ state.stage = "Lobby"
        /\ state.players[1] = NoPlayer
        /\ p # NoPlayer
        /\ p # state.players[0]
        /\ state' = IF next.players[1] # NoPlayer
                    THEN EvolveStarted(next, next.players[0]) ELSE next
    BY <2>1, JoinEffect DEF SlotsAreSound
  <2>3. CASE state.players[0] = NoPlayer
    <3>1. next.players = [state.players EXCEPT ![0] = p]
      BY <2>3, JoinedFields DEF TypeOK
    <3>2. state' = next
      BY <2>2, <3>1 DEF TypeOK, GameState
    <3>3. TypeOK' /\ SeatFirst(p)
      BY <2>2, <2>3, <3>1, <3>2, JoinedFields DEF TypeOK, SeatFirst
    <3> QED
      BY <3>3
  <2>4. CASE state.players[0] # NoPlayer
    <3>1. next.players = [state.players EXCEPT ![1] = p]
      BY <2>4, JoinedFields DEF TypeOK
    <3>2. next.players[0] = state.players[0] /\ next.players[1] = p
      BY <3>1 DEF TypeOK, GameState
    <3>3. state' = EvolveStarted(next, state.players[0])
      BY <2>2, <3>2
    <3>4. next \in GameState /\ next.board = state.board
      BY JoinedFields DEF TypeOK
    <3>5. state.players[0] \in PlayerId
      BY DEF TypeOK, GameState
    <3>6. TypeOK' /\ SeatSecond(p)
      BY <2>2, <2>4, <3>1, <3>3, <3>4, <3>5, StartedFields DEF TypeOK, SeatSecond
    <3> QED
      BY <3>6
  <2> QED
    BY <2>3, <2>4
<1>2. CASE PlaceTile
  <2>1. PICK p \in PlayerId, i \in TileIndices :
          Accept([type |-> "PlaceTile", player_id |-> p, at |-> i])
    BY <1>2 DEF PlaceTile
  <2> DEFINE next == EvolvePlaced(state, p, i)
             isX == state.players[0] = p
  <2>2. /\ state.stage = "InGame"
        /\ state.active_player_id = p
        /\ i \in Positions
        /\ state.board[i] = Empty
        /\ state' = IF winning_symbol(next.board) # NoSymbol \/ is_full(next.board)
                    THEN EvolveEnded(next) ELSE next
    BY <2>1, PlaceEffect
  <2>3. /\ next \in GameState
        /\ next.players = state.players
        /\ next.stage = "InGame"
        /\ next.board = [state.board EXCEPT ![i] = IF isX THEN "X" ELSE "O"]
        /\ next.active_player_id = IF isX THEN state.players[1] ELSE state.players[0]
    BY <2>2, PlacedFields DEF TypeOK
  <2> HIDE DEF next
  <2>4. /\ TypeOK'
        /\ state'.players = next.players
        /\ state'.board = next.board
        /\ state'.active_player_id = next.active_player_id
        /\ state'.stage = IF winning_symbol(next.board) # NoSymbol \/ is_full(next.board)
                          THEN "Ended" ELSE "InGame"
    BY <2>2, <2>3, EndedFields DEF TypeOK
  <2>5. PICK lead \in {0, 1} : p = state.players[lead]
    BY <2>2 DEF TurnFollowsBoard
  <2>6. isX <=> lead = 0
    BY <2>2, <2>5 DEF SlotsAreSound
  <2>7. MarkTile(i, lead)
    BY <2>2, <2>3, <2>4, <2>5, <2>6 DEF MarkTile
  <2> QED
    BY <2>2, <2>4, <2>7
<1>3. CASE LeaveGame
  <2>1. PICK p \in PlayerId : Accept([type |-> "LeaveGame", player_id |-> p])
    BY <1>3 DEF LeaveGame
  <2>2. state' = IF state.stage = "InGame" THEN EvolveEnded(state) ELSE state
    BY <2>1, LeaveEffect
  <2> QED
    BY <2>2, EndedFields DEF TypeOK, Abandoned
<1> QED
  BY <1>1, <1>2, <1>3 DEF Next

-----------------------------------------------------------------------------
(* Each part of the invariant, under the moves.                            *)

\* A move keeps the slots sound: they fill from the left with two people.
LEMMA SlotsPreserved ==
  ASSUME IInv, Next
  PROVE  SlotsAreSound'
<1>1. TypeOK /\ SlotsAreSound /\ TurnFollowsBoard
  BY DEF IInv
<1>2. ASSUME NEW p \in PlayerId, SeatFirst(p) PROVE SlotsAreSound'
  <2>1. state'.players[0] = p /\ state'.players[1] = NoPlayer
    BY <1>1, <1>2 DEF SeatFirst, SlotsAreSound, TypeOK, GameState
  <2> QED
    BY <1>1, <1>2, <2>1 DEF SeatFirst, SlotsAreSound
<1>3. ASSUME NEW p \in PlayerId, SeatSecond(p) PROVE SlotsAreSound'
  <2>1. state'.players[0] = state.players[0] /\ state'.players[1] = p
    BY <1>1, <1>3 DEF SeatSecond, TypeOK, GameState
  <2> QED
    BY <1>1, <1>3, <2>1 DEF SeatSecond, SlotsAreSound
<1>4. ASSUME NEW i \in Positions, NEW lead \in {0, 1}, MarkTile(i, lead)
      PROVE  SlotsAreSound'
  BY <1>1, <1>4 DEF MarkTile, SlotsAreSound
<1>5. CASE Abandoned
  BY <1>1, <1>5 DEF Abandoned, SlotsAreSound
<1>6. CASE UNCHANGED state
  BY <1>1, <1>6 DEF SlotsAreSound
<1> QED
  BY <1>1, <1>2, <1>3, <1>4, <1>5, <1>6, StepIsAMove

\* The tiles of a symbol are finitely many, so counting them makes sense.
LEMMA CountsAreNaturals ==
  ASSUME NEW symbol
  PROVE  IsFiniteSet(CellsOf(symbol)) /\ NumberOf(symbol) \in Nat
<1>1. IsFiniteSet(Positions)
  <2>1. 0 \in Int /\ 8 \in Int
    OBVIOUS
  <2>2. IsFiniteSet(0..8)
    BY <2>1, FS_Interval
  <2> QED
    BY <2>2 DEF Positions
<1>2. CellsOf(symbol) \subseteq Positions
  BY DEF CellsOf
<1>3. IsFiniteSet(CellsOf(symbol))
  BY <1>1, <1>2, FS_Subset
<1> QED
  BY <1>3, FS_CardinalityType DEF NumberOf

\* Marking a free tile adds one to its symbol and leaves the other alone.
LEMMA MarkCounts ==
  ASSUME TypeOK, NEW i \in Positions, NEW lead \in {0, 1}, MarkTile(i, lead)
  PROVE  /\ NumberOf("X")' = IF lead = 0 THEN NumberOf("X") + 1 ELSE NumberOf("X")
         /\ NumberOf("O")' = IF lead = 0 THEN NumberOf("O") ELSE NumberOf("O") + 1
<1> DEFINE mine == IF lead = 0 THEN "X" ELSE "O"
           other == IF lead = 0 THEN "O" ELSE "X"
<1>1. /\ state.board \in [Positions -> Tile]
      /\ state.board[i] = Empty
      /\ state'.board = [state.board EXCEPT ![i] = mine]
  BY DEF TypeOK, GameState, MarkTile
<1>2. CellsOf(mine)' = CellsOf(mine) \cup {i} /\ i \notin CellsOf(mine)
  BY <1>1 DEF CellsOf, Empty
<1>3. CellsOf(other)' = CellsOf(other)
  BY <1>1 DEF CellsOf, Empty
<1>4. NumberOf(mine)' = NumberOf(mine) + 1
  BY <1>2, CountsAreNaturals, FS_AddElement DEF NumberOf
<1>5. NumberOf(other)' = NumberOf(other)
  BY <1>3 DEF NumberOf
<1> QED
  BY <1>4, <1>5

\* A move keeps the turn and the counts of tiles in step.
LEMMA TurnPreserved ==
  ASSUME IInv, Next
  PROVE  TurnFollowsBoard'
<1>1. TypeOK /\ SlotsAreSound /\ TurnFollowsBoard
  BY DEF IInv
<1>2. NumberOf("X") \in Nat /\ NumberOf("O") \in Nat
  BY CountsAreNaturals
<1>3. state'.board = state.board =>
        NumberOf("X")' = NumberOf("X") /\ NumberOf("O")' = NumberOf("O")
  BY DEF NumberOf, CellsOf
<1>4. ASSUME NEW p \in PlayerId, SeatFirst(p) PROVE TurnFollowsBoard'
  BY <1>1, <1>3, <1>4 DEF SeatFirst, TurnFollowsBoard
<1>5. ASSUME NEW p \in PlayerId, SeatSecond(p) PROVE TurnFollowsBoard'
  <2>1. \A i \in Positions : state.board[i] = Empty
    BY <1>1, <1>5 DEF SeatSecond, SlotsAreSound
  <2>2. CellsOf("X") = {} /\ CellsOf("O") = {}
    BY <2>1 DEF CellsOf, Empty
  <2>3. NumberOf("X") = 0 /\ NumberOf("O") = 0
    BY <2>2, FS_EmptySet DEF NumberOf
  <2>4. state'.active_player_id = state'.players[0]
    BY <1>1, <1>5 DEF SeatSecond, TypeOK, GameState
  <2> QED
    BY <1>3, <1>5, <2>3, <2>4 DEF SeatSecond, TurnFollowsBoard
<1>6. ASSUME NEW i \in Positions, NEW lead \in {0, 1}, MarkTile(i, lead)
      PROVE  TurnFollowsBoard'
  <2> DEFINE behind == NumberOf("X") - NumberOf("O")
  <2>1. /\ behind \in {0, 1}
        /\ state.players[behind] = state.players[lead]
        /\ state.players[0] # state.players[1]
    BY <1>1, <1>6 DEF TurnFollowsBoard, MarkTile, SlotsAreSound
  <2>2. behind = lead
    BY <2>1
  <2>3. NumberOf("X")' - NumberOf("O")' = 1 - lead
    BY <1>1, <1>2, <1>6, <2>2, MarkCounts
  <2>4. state'.active_player_id = state'.players[1 - lead]
    BY <1>6 DEF MarkTile
  <2> QED
    BY <2>3, <2>4 DEF TurnFollowsBoard
<1>7. CASE Abandoned
  BY <1>1, <1>3, <1>7 DEF Abandoned, TurnFollowsBoard
<1>8. CASE UNCHANGED state
  BY <1>1, <1>3, <1>8 DEF TurnFollowsBoard
<1> QED
  BY <1>1, <1>4, <1>5, <1>6, <1>7, <1>8, StepIsAMove

\* A move leaves a game in progress undecided, and adds lines of one side only.
LEMMA LinesPreserved ==
  ASSUME IInv, Next
  PROVE  InGameIsUndecided' /\ AtMostOneSideHasALine'
<1>1. /\ TypeOK /\ SlotsAreSound /\ TurnFollowsBoard
      /\ InGameIsUndecided /\ AtMostOneSideHasALine
  BY DEF IInv
<1>2. TypeOK'
  BY <1>1, StepIsAMove
<1>3. state'.board = state.board => AtMostOneSideHasALine'
  BY <1>1 DEF AtMostOneSideHasALine
<1>4. ASSUME NEW p \in PlayerId, SeatFirst(p)
      PROVE  InGameIsUndecided' /\ AtMostOneSideHasALine'
  BY <1>3, <1>4 DEF SeatFirst, InGameIsUndecided
<1>5. ASSUME NEW p \in PlayerId, SeatSecond(p)
      PROVE  InGameIsUndecided' /\ AtMostOneSideHasALine'
  <2>1. /\ state.board \in Boards
        /\ \A i \in Positions : state.board[i] = Empty
        /\ state'.board = state.board
    BY <1>1, <1>5 DEF SeatSecond, SlotsAreSound, TypeOK, GameState, Boards
  <2>2. \A k \in 1..8 : ~ Won(state.board, k)
    BY <2>1, PatternsOnBoard DEF Won, Matches
  <2>3. winning_symbol(state.board) = NoSymbol
    BY <2>1, <2>2, WinnerFound
  <2>4. ~ is_full(state.board)
    BY <2>1 DEF is_full, Positions
  <2> QED
    BY <1>3, <2>1, <2>3, <2>4 DEF InGameIsUndecided
<1>6. ASSUME NEW i \in Positions, NEW lead \in {0, 1}, MarkTile(i, lead)
      PROVE  InGameIsUndecided' /\ AtMostOneSideHasALine'
  <2> DEFINE mark == IF lead = 0 THEN "X" ELSE "O"
  <2>1. /\ state.board \in Boards
        /\ state.stage = "InGame"
        /\ state'.board = [state.board EXCEPT ![i] = mark]
        /\ state'.stage = IF winning_symbol(state'.board) # NoSymbol \/ is_full(state'.board)
                          THEN "Ended" ELSE "InGame"
    BY <1>1, <1>6 DEF MarkTile, TypeOK, GameState, Boards
  <2>2. InGameIsUndecided'
    BY <2>1 DEF InGameIsUndecided
  <2>3. \A k \in 1..8 : ~ Won(state.board, k)
    BY <1>1, <2>1, WinnerFound DEF InGameIsUndecided
  <2>4. mark \in Symbol
    BY DEF Symbol
  <2>5. \A k \in 1..8 : Won(state'.board, k) => state'.board[WIN_PATTERNS[k][1]] = mark
    BY <2>1, <2>3, <2>4, NewLinesAreTheMovers
  <2>6. AtMostOneSideHasALine'
    BY <2>5 DEF AtMostOneSideHasALine, Won
  <2> QED
    BY <2>2, <2>6
<1>7. CASE Abandoned
  BY <1>3, <1>7 DEF Abandoned, InGameIsUndecided
<1>8. CASE UNCHANGED state
  BY <1>1, <1>3, <1>8 DEF InGameIsUndecided
<1> QED
  BY <1>1, <1>4, <1>5, <1>6, <1>7, <1>8, StepIsAMove

\* The default state of a new session has the invariant.
LEMMA InitInvariant == Init => IInv
<1> SUFFICES ASSUME Init PROVE IInv
  OBVIOUS
<1>1. /\ state.stage = "Lobby"
      /\ \A i \in Positions : state.board[i] = Empty
      /\ state.active_player_id = NoPlayer
      /\ state.players[0] = NoPlayer /\ state.players[1] = NoPlayer
  BY DEF Init, DefaultState
<1>2. TypeOK
  BY DEF Init, DefaultState, TypeOK, GameState, Stage, Tile, PlayerId
<1>3. SlotsAreSound
  BY <1>1 DEF SlotsAreSound
<1>4. TurnFollowsBoard
  <2>1. CellsOf("X") = {} /\ CellsOf("O") = {}
    BY <1>1 DEF CellsOf, Empty
  <2>2. NumberOf("X") = 0 /\ NumberOf("O") = 0
    BY <2>1, FS_EmptySet DEF NumberOf
  <2> QED
    BY <1>1, <2>2 DEF TurnFollowsBoard
<1>5. InGameIsUndecided
  BY <1>1 DEF InGameIsUndecided
<1>6. AtMostOneSideHasALine
  BY <1>1, PatternsOnBoard DEF AtMostOneSideHasALine, Matches
<1> QED
  BY <1>2, <1>3, <1>4, <1>5, <1>6 DEF IInv

\* Every step keeps the invariant.
LEMMA StepInvariant == IInv /\ [Next]_state => IInv'
<1>1. ASSUME IInv, Next PROVE IInv'
  <2>1. TypeOK'
    BY <1>1, StepIsAMove DEF IInv
  <2> QED
    BY <1>1, <2>1, SlotsPreserved, TurnPreserved, LinesPreserved DEF IInv
<1>2. ASSUME IInv, UNCHANGED state PROVE IInv'
  BY <1>2 DEF IInv, TypeOK, SlotsAreSound, TurnFollowsBoard, NumberOf, CellsOf,
              InGameIsUndecided, AtMostOneSideHasALine
<1> QED
  BY <1>1, <1>2

-----------------------------------------------------------------------------
(* The theorems.                                                           *)

\* The inductive invariant holds of every state any sequence of commands
\* reaches.
THEOREM Invariance == Spec => []IInv
  BY InitInvariant, StepInvariant, PTL DEF Spec

\* The state is always a well-typed GameState: no slot, tile or turn outside
\* the ranges the Rust types leave open (a u64 and a usize).
THEOREM TypeCorrect == Spec => []TypeOK
<1>1. IInv => TypeOK
  BY DEF IInv
<1> QED
  BY <1>1, Invariance, PTL

\* The turn and the board always tell the same story (decider.rs:137-151).
THEOREM TurnSafety == Spec => []TurnFollowsBoard
<1>1. IInv => TurnFollowsBoard
  BY DEF IInv
<1> QED
  BY <1>1, Invariance, PTL

\* A game in progress is never already won or drawn (decider.rs:86-98).
THEOREM OutcomeSafety == Spec => []InGameIsUndecided
<1>1. IInv => InGameIsUndecided
  BY DEF IInv
<1> QED
  BY <1>1, Invariance, PTL

\* No board ever shows a line of each symbol, so that the one winning_symbol
\* finds first is the only one (board.rs:25-34).
THEOREM OneSideWins == Spec => []AtMostOneSideHasALine
<1>1. IInv => AtMostOneSideHasALine
  BY DEF IInv
<1> QED
  BY <1>1, Invariance, PTL

\* The two slots always hold nobody, one player, or two different players of
\* a game that has left the lobby (decider.rs:35-64, 125-136).
THEOREM SlotSafety == Spec => []SlotsAreSound
<1>1. IInv => SlotsAreSound
  BY DEF IInv
<1> QED
  BY <1>1, Invariance, PTL

\* No accepted command reopens an ended game, reseats a player or repaints a
\* tile (decider.rs:30-157).
THEOREM NothingTakenBack == Spec => NothingIsTakenBack
<1> DEFINE Kept ==
      /\ state.stage = "Ended" => UNCHANGED state
      /\ state'.stage = "Lobby" => state.stage = "Lobby"
      /\ \A k \in 0..1 : state.players[k] # NoPlayer =>
           state'.players[k] = state.players[k]
      /\ \A i \in Positions : state.board[i] # Empty =>
           state'.board[i] = state.board[i]
<1>1. ASSUME IInv, Next PROVE Kept
  <2>1. TypeOK /\ SlotsAreSound /\ TurnFollowsBoard
    BY <1>1 DEF IInv
  <2>2. state.players \in [0..1 -> PlayerId] /\ state.board \in [Positions -> Tile]
    BY <2>1 DEF TypeOK, GameState
  <2>3. ASSUME NEW p \in PlayerId, SeatFirst(p) PROVE Kept
    BY <2>2, <2>3 DEF SeatFirst
  <2>4. ASSUME NEW p \in PlayerId, SeatSecond(p) PROVE Kept
    <3>1. state.players[1] = NoPlayer
      BY <2>1, <2>4 DEF SeatSecond, SlotsAreSound
    <3> QED
      BY <2>2, <2>4, <3>1 DEF SeatSecond
  <2>5. ASSUME NEW i \in Positions, NEW lead \in {0, 1}, MarkTile(i, lead) PROVE Kept
    BY <2>2, <2>5 DEF MarkTile
  <2>6. CASE Abandoned
    BY <2>6 DEF Abandoned
  <2>7. CASE UNCHANGED state
    BY <2>7
  <2> QED
    BY <1>1, <2>1, <2>3, <2>4, <2>5, <2>6, <2>7, StepIsAMove
<1>2. IInv /\ [Next]_state => [Kept]_state
  BY <1>1
<1> QED
  BY <1>2, Invariance, PTL DEF Spec, NothingIsTakenBack

\* decide rejects a hopeless command, by whichever of its checks comes first.
LEMMA HopelessRejected ==
  ASSUME NEW s, NEW cmd \in GameCommand, Hopeless(s, cmd)
  PROVE  decide(s, cmd).error # "None"
<1>1. CASE cmd.type = "JoinGame"
  BY <1>1 DEF Hopeless, decide, DecideJoin, Err
<1>2. CASE cmd.type = "PlaceTile"
  <2>1. s.stage = "Ended" \/ cmd.at > 8 \/ s.board[cmd.at] # Empty
    BY <1>2 DEF Hopeless
  <2> QED
    BY <1>2, <2>1 DEF decide, DecidePlace, Err
<1> QED
  BY <1>1, <1>2 DEF Hopeless

\* A command that has become hopeless is rejected for ever after, so dropping
\* it or retrying it are the same (decider.rs:35-80, main.rs:218-223).
THEOREM HopelessForever == Spec => HopelessStaysHopeless
<1> DEFINE Final == \A cmd \in GameCommand :
      Hopeless(state, cmd) => /\ Hopeless(state', cmd)
                              /\ decide(state', cmd).error # "None"
<1>1. ASSUME IInv, Next, NEW cmd \in GameCommand, Hopeless(state, cmd)
      PROVE  Hopeless(state', cmd)
  <2>1. TypeOK /\ SlotsAreSound /\ TurnFollowsBoard
    BY <1>1 DEF IInv
  <2>2. state.players \in [0..1 -> PlayerId] /\ state.board \in [Positions -> Tile]
    BY <2>1 DEF TypeOK, GameState
  <2>3. ASSUME NEW p \in PlayerId, SeatFirst(p) PROVE Hopeless(state', cmd)
    <3>1. state.players[1] = NoPlayer
      BY <2>1, <2>3 DEF SeatFirst, SlotsAreSound
    <3> QED
      BY <1>1, <2>2, <2>3, <3>1 DEF SeatFirst, Hopeless
  <2>4. ASSUME NEW p \in PlayerId, SeatSecond(p) PROVE Hopeless(state', cmd)
    BY <1>1, <2>2, <2>4 DEF SeatSecond, Hopeless
  <2>5. ASSUME NEW i \in Positions, NEW lead \in {0, 1}, MarkTile(i, lead)
        PROVE  Hopeless(state', cmd)
    <3>1. \A j \in Positions : state.board[j] # Empty => state'.board[j] # Empty
      BY <2>2, <2>5 DEF MarkTile
    <3> QED
      BY <1>1, <2>5, <3>1 DEF MarkTile, Hopeless
  <2>6. CASE Abandoned
    BY <1>1, <2>6 DEF Abandoned, Hopeless
  <2>7. CASE UNCHANGED state
    BY <1>1, <2>7 DEF Hopeless
  <2> QED
    BY <1>1, <2>1, <2>3, <2>4, <2>5, <2>6, <2>7, StepIsAMove
<1>2. IInv /\ [Next]_state => [Final]_state
  BY <1>1, HopelessRejected
<1> QED
  BY <1>2, Invariance, PTL DEF Spec, HopelessStaysHopeless

-----------------------------------------------------------------------------
(* The write model implements TicTacTussle, for any set of players: every  *)
(* accepted command is a move of the game, or leaves its picture alone.    *)

Pattern(k) == {WIN_PATTERNS[k][1], WIN_PATTERNS[k][2], WIN_PATTERNS[k][3]}

\* The table of board.rs lists exactly the lines of the grid.
LEMMA PatternsAreTheLines == Game!Lines = {Pattern(k) : k \in 1..8}
<1>1. {{3*row + col : col \in 0..2} : row \in 0..2} = {Pattern(1), Pattern(2), Pattern(3)}
  <2>1. \A row \in 0..2 : {3*row + col : col \in 0..2} = {3*row, 3*row + 1, 3*row + 2}
    OBVIOUS
  <2>2. 0..2 = {0, 1, 2}
    OBVIOUS
  <2>3. /\ {3*0 + col : col \in 0..2} = Pattern(1)
        /\ {3*1 + col : col \in 0..2} = Pattern(2)
        /\ {3*2 + col : col \in 0..2} = Pattern(3)
    BY <2>1 DEF Pattern, WIN_PATTERNS
  <2> QED
    BY <2>2, <2>3
<1>2. {{3*row + col : row \in 0..2} : col \in 0..2} = {Pattern(4), Pattern(5), Pattern(6)}
  <2>1. \A col \in 0..2 : {3*row + col : row \in 0..2} = {col, 3 + col, 6 + col}
    OBVIOUS
  <2>2. 0..2 = {0, 1, 2}
    OBVIOUS
  <2>3. /\ {3*row + 0 : row \in 0..2} = Pattern(4)
        /\ {3*row + 1 : row \in 0..2} = Pattern(5)
        /\ {3*row + 2 : row \in 0..2} = Pattern(6)
    BY <2>1 DEF Pattern, WIN_PATTERNS
  <2> QED
    BY <2>2, <2>3
<1>3. {4*k : k \in 0..2} = Pattern(7) /\ {2*k : k \in 1..3} = Pattern(8)
  BY DEF Pattern, WIN_PATTERNS
<1>4. 1..8 = {1, 2, 3, 4, 5, 6, 7, 8}
  OBVIOUS
<1>5. {Pattern(k) : k \in 1..8} =
        {Pattern(1), Pattern(2), Pattern(3)} \cup {Pattern(4), Pattern(5), Pattern(6)}
        \cup {Pattern(7), Pattern(8)}
  BY <1>4
<1> QED
  BY <1>1, <1>2, <1>3, <1>5 DEF Game!Lines

-----------------------------------------------------------------------------
(* The picture of a state: what WriteModel substitutes for the variables   *)
(* of the game.                                                            *)

CellsOn(board, s) == {i \in Positions : board[i] = s}

Seats(players) ==
  IF players[0] = NoPlayer THEN << >>
  ELSE IF players[1] = NoPlayer THEN <<players[0]>>
  ELSE <<players[0], players[1]>>

\* A symbol has a line of the grid exactly when a pattern matches with it.
LEMMA LineIffPattern ==
  ASSUME NEW board \in Boards, NEW s \in Symbol
  PROVE  Game!HasLine(CellsOn(board, s)) <=>
           \E k \in 1..8 : Won(board, k) /\ board[WIN_PATTERNS[k][1]] = s
<1>1. \A k \in 1..8 : Pattern(k) \subseteq CellsOn(board, s) <=>
                       Won(board, k) /\ board[WIN_PATTERNS[k][1]] = s
  <2> SUFFICES ASSUME NEW k \in 1..8
               PROVE  Pattern(k) \subseteq CellsOn(board, s) <=>
                        Won(board, k) /\ board[WIN_PATTERNS[k][1]] = s
    OBVIOUS
  <2> DEFINE a == WIN_PATTERNS[k][1]
             b == WIN_PATTERNS[k][2]
             c == WIN_PATTERNS[k][3]
  <2>1. a \in Positions /\ b \in Positions /\ c \in Positions
    BY PatternsOnBoard
  <2>2. s # Empty
    BY DEF Symbol, Empty
  <2>3. Won(board, k) <=> board[a] # Empty /\ board[b] = board[a] /\ board[c] = board[a]
    BY DEF Won, Matches
  <2>4. Pattern(k) = {a, b, c}
    BY DEF Pattern
  <2> HIDE DEF a, b, c
  <2>5. {a, b, c} \subseteq CellsOn(board, s) <=>
          board[a] = s /\ board[b] = s /\ board[c] = s
    BY <2>1 DEF CellsOn
  <2>6. Pattern(k) \subseteq CellsOn(board, s) <=> Won(board, k) /\ board[a] = s
    BY <2>2, <2>3, <2>4, <2>5
  <2> QED
    BY <2>6 DEF a
<1> QED
  BY <1>1, PatternsAreTheLines DEF Game!HasLine

\* Whether decide ends the game is whether the game's own rule does.
LEMMA JudgedAlike ==
  ASSUME NEW board \in Boards
  PROVE  (winning_symbol(board) # NoSymbol \/ is_full(board)) <=>
           \/ Game!HasLine(CellsOn(board, "X"))
           \/ Game!HasLine(CellsOn(board, "O"))
           \/ CellsOn(board, "X") \cup CellsOn(board, "O") = Game!Cells
<1>1. \A k \in 1..8 : Won(board, k) => board[WIN_PATTERNS[k][1]] \in {"X", "O"}
  BY PatternsOnBoard DEF Won, Matches, Boards, Tile, Symbol
<1>2. "X" \in Symbol /\ "O" \in Symbol
  BY DEF Symbol
<1>3. winning_symbol(board) # NoSymbol <=>
        Game!HasLine(CellsOn(board, "X")) \/ Game!HasLine(CellsOn(board, "O"))
  BY <1>1, <1>2, WinnerFound, LineIffPattern
<1>4. is_full(board) <=> CellsOn(board, "X") \cup CellsOn(board, "O") = Game!Cells
  <2>1. \A i \in Positions : board[i] # Empty <=> board[i] \in {"X", "O"}
    BY DEF Boards, Tile, Symbol, Empty
  <2>2. Game!Cells = Positions
    BY DEF Game!Cells, Positions
  <2> QED
    BY <2>1, <2>2 DEF is_full, CellsOn
<1> QED
  BY <1>3, <1>4

(* WIN_PATTERNS is a table typed by hand, searched in its order: on every  *)
(* board, winning_symbol (board.rs:22) finds a winner exactly when some     *)
(* symbol has three cells in line on the grid, and names one that has.     *)
THEOREM WinnerIsGeometric ==
  ASSUME NEW board \in Boards
  PROVE  \/ /\ winning_symbol(board) = NoSymbol
            /\ \A s \in Symbol : ~ Game!HasLine(CellsOn(board, s))
         \/ /\ winning_symbol(board) \in Symbol
            /\ Game!HasLine(CellsOn(board, winning_symbol(board)))
<1>1. CASE \E k \in 1..8 : Won(board, k)
  <2>1. PICK k \in 1..8 : Won(board, k) /\ winning_symbol(board) = board[WIN_PATTERNS[k][1]]
    BY <1>1, WinnerFound
  <2>2. winning_symbol(board) \in Symbol
    BY <2>1, PatternsOnBoard DEF Won, Matches, Boards, Tile
  <2> QED
    BY <2>1, <2>2, LineIffPattern
<1>2. CASE ~ \E k \in 1..8 : Won(board, k)
  BY <1>2, WinnerFound, LineIffPattern
<1> QED
  BY <1>1, <1>2

\* Appending to a sequence of one.
LEMMA AppendToOne ==
  ASSUME NEW a, NEW b
  PROVE  Append(<<a>>, b) = <<a, b>>
<1> DEFINE S == {a, b}
           s == <<a>>
           t == <<a, b>>
<1>1. s \in Seq(S) /\ Len(s) = 1 /\ s[1] = a
  OBVIOUS
<1>2. t \in Seq(S) /\ Len(t) = 2 /\ t[1] = a /\ t[2] = b
  OBVIOUS
<1>3. b \in S
  OBVIOUS
<1> HIDE DEF S, s, t
<1>4. /\ Append(s, b) \in Seq(S)
      /\ Len(Append(s, b)) = Len(s) + 1
      /\ Append(s, b)[Len(s) + 1] = b
      /\ \A i \in 1..Len(s) : Append(s, b)[i] = s[i]
  BY <1>1, <1>3, AppendProperties, ZenonT(60)
<1>5. Len(Append(s, b)) = 2 /\ Append(s, b)[1] = a /\ Append(s, b)[2] = b
  <2>1. Len(s) = 1 /\ 1 \in 1..1 /\ 1 + 1 = 2
    BY <1>1
  <2>2. \A i \in 1..1 : Append(s, b)[i] = s[i]
    BY <1>4, <2>1, Zenon
  <2> QED
    BY <1>1, <1>4, <2>1, <2>2, Zenon
<1>6. Append(s, b) = t
  <2>1. \A i \in 1..2 : Append(s, b)[i] = t[i]
    BY <1>2, <1>5
  <2>2. /\ Len(Append(s, b)) = Len(t)
        /\ \A i \in 1..Len(Append(s, b)) : Append(s, b)[i] = t[i]
    BY <1>2, <1>5, <2>1
  <2> QED
    BY <1>2, <1>4, <2>2, SeqEqual, Zenon
<1> QED
  BY <1>6, Zenon DEF s, t

-----------------------------------------------------------------------------
(* The moves of the write model are moves of the game.                     *)

\* The first player to be seated takes a seat, and the lobby stays open.
LEMMA SeatFirstSits ==
  ASSUME IInv, NEW p \in PlayerId, SeatFirst(p)
  PROVE  Game!Next
<1>1. /\ state.players \in [0..1 -> PlayerId]
      /\ state.players[1] = NoPlayer
  BY DEF IInv, TypeOK, GameState, SlotsAreSound, SeatFirst
<1>2. state'.players[0] = p /\ state'.players[1] = NoPlayer /\ p # NoPlayer
  BY <1>1 DEF SeatFirst
<1>3. Seats(state.players) = << >> /\ Seats(state'.players) = <<p>>
  BY <1>2 DEF Seats, SeatFirst
<1>4. Append(<< >>, p) = <<p>> /\ Len(<<p>>) = 1 /\ Len(<< >>) = 0
  OBVIOUS
<1>5. p \in Players
  BY <1>2 DEF PlayerId
<1>6. ~ \E k \in 1..Len(Seats(state.players)) : Seats(state.players)[k] = p
  BY <1>3, <1>4
<1>7. Seats(state'.players) = Append(Seats(state.players), p)
      /\ Len(Seats(state'.players)) = 1
  BY <1>3, <1>4
<1>8. Game!Sit(p)
  BY <1>6, <1>7 DEF Game!Sit, Game!Seated, Seats, SeatFirst, CellsOf
<1> QED
  BY <1>5, <1>8 DEF Game!Next

\* The second player to be seated takes the other seat and starts the game.
LEMMA SeatSecondSits ==
  ASSUME IInv, NEW p \in PlayerId, SeatSecond(p)
  PROVE  Game!Next
<1> DEFINE x == state.players[0]
<1>1. /\ state.players \in [0..1 -> PlayerId]
      /\ state.players[1] = NoPlayer
      /\ x # NoPlayer /\ p # NoPlayer /\ p # x
  BY DEF IInv, TypeOK, GameState, SlotsAreSound, SeatSecond
<1>2. state'.players[0] = x /\ state'.players[1] = p
  BY <1>1 DEF SeatSecond
<1>3. Seats(state.players) = <<x>> /\ Seats(state'.players) = <<x, p>>
  BY <1>1, <1>2 DEF Seats
<1> HIDE DEF x
<1>4. Len(<<x, p>>) = 2 /\ Len(<<x>>) = 1 /\ <<x>>[1] = x
  OBVIOUS
<1>5. p \in Players
  BY <1>1 DEF PlayerId
<1>6. ~ \E k \in 1..Len(Seats(state.players)) : Seats(state.players)[k] = p
  BY <1>1, <1>3, <1>4
<1>7. Seats(state'.players) = Append(Seats(state.players), p)
      /\ Len(Seats(state'.players)) = 2
  BY <1>3, <1>4, AppendToOne
<1>8. Game!Sit(p)
  BY <1>6, <1>7 DEF Game!Sit, Game!Seated, Seats, SeatSecond, CellsOf
<1> QED
  BY <1>5, <1>8 DEF Game!Next

\* A tile marked is a cell marked for the side whose turn it is, with the same
\* verdict on the board.
LEMMA MarkTileMarks ==
  ASSUME IInv, NEW i \in Positions, NEW lead \in {0, 1}, MarkTile(i, lead)
  PROVE  Game!Next
<1> DEFINE mine == IF lead = 0 THEN "X" ELSE "O"
           other == IF lead = 0 THEN "O" ELSE "X"
<1>1. /\ state.board \in Boards /\ state.board[i] = Empty
      /\ state.stage = "InGame"
      /\ state'.board = [state.board EXCEPT ![i] = mine]
      /\ state'.players = state.players
      /\ state'.stage = IF winning_symbol(state'.board) # NoSymbol \/ is_full(state'.board)
                        THEN "Ended" ELSE "InGame"
  BY DEF IInv, TypeOK, GameState, MarkTile, Boards
<1>2. state'.board \in Boards
  BY <1>1 DEF Boards, Tile, Symbol
<1>3. NumberOf("X") \in Nat /\ NumberOf("O") \in Nat
  BY CountsAreNaturals
<1>4. NumberOf("X") - NumberOf("O") = lead
  <2> DEFINE behind == NumberOf("X") - NumberOf("O")
  <2>1. /\ behind \in {0, 1}
        /\ state.players[behind] = state.players[lead]
        /\ state.players[0] # state.players[1]
    BY DEF IInv, TurnFollowsBoard, MarkTile, SlotsAreSound
  <2> QED
    BY <2>1
<1>5. Game!Turn = mine
  <2>1. Game!Turn = IF NumberOf("X") = NumberOf("O") THEN "X" ELSE "O"
    <3>1. /\ [s \in Symbol |-> CellsOf(s)]["X"] = CellsOf("X")
          /\ [s \in Symbol |-> CellsOf(s)]["O"] = CellsOf("O")
      BY DEF Symbol
    <3> QED
      BY <3>1, Zenon DEF Game!Turn, NumberOf, Game!Cardinality, Cardinality
  <2>2. NumberOf("X") = NumberOf("O") <=> lead = 0
    BY <1>3, <1>4
  <2> QED
    BY <2>1, <2>2
<1>6. /\ CellsOf(mine)' = CellsOf(mine) \cup {i}
      /\ CellsOf(other)' = CellsOf(other)
      /\ i \notin CellsOf("X") /\ i \notin CellsOf("O")
  BY <1>1 DEF CellsOf, Empty, Boards
<1> DEFINE before == [s \in Symbol |-> CellsOf(s)]
           after == [s \in Symbol |-> CellsOf(s)']
<1>7. after = [before EXCEPT ![mine] = @ \cup {i}]
  BY <1>6 DEF Symbol
<1>8. /\ after["X"] = CellsOn(state'.board, "X")
      /\ after["O"] = CellsOn(state'.board, "O")
  BY DEF CellsOf, CellsOn, Symbol
<1>9. state'.stage = IF \/ Game!HasLine(after["X"]) \/ Game!HasLine(after["O"])
                        \/ after["X"] \cup after["O"] = Game!Cells
                     THEN "Ended" ELSE "InGame"
  BY <1>1, <1>2, <1>8, JudgedAlike
<1>10. i \in Game!Cells /\ i \notin before["X"] \cup before["O"]
  BY <1>6 DEF Game!Cells, Positions, Symbol
<1>11. Game!Mark(i)
  BY <1>1, <1>5, <1>7, <1>9, <1>10 DEF Game!Mark
<1> QED
  BY <1>10, <1>11 DEF Game!Next

\* A game abandoned is a game abandoned.
LEMMA AbandonedAbandons ==
  ASSUME Abandoned
  PROVE  Game!Next
<1>1. Game!Abandon
  BY DEF Abandoned, Game!Abandon, CellsOf
<1> QED
  BY <1>1 DEF Game!Next

\* A session's default state is the start of a game.
LEMMA InitIsInit == Init => Game!Init
<1> SUFFICES ASSUME Init PROVE Game!Init
  OBVIOUS
<1>1. /\ state.stage = "Lobby"
      /\ state.players[0] = NoPlayer
      /\ \A i \in Positions : state.board[i] = Empty
  BY DEF Init, DefaultState
<1>2. CellsOf("X") = {} /\ CellsOf("O") = {}
  BY <1>1 DEF CellsOf, Empty
<1> QED
  BY <1>1, <1>2 DEF Game!Init, Symbol

-----------------------------------------------------------------------------

\* Every behaviour of the write model is, through its picture, a behaviour of
\* the game (decider.rs:30-158 implements what its rules promise).
THEOREM Refinement == Spec => ImplementsGame
<1>1. IInv /\ [Next]_state => [Game!Next]_(Game!vars)
  <2>1. ASSUME IInv, Next PROVE [Game!Next]_(Game!vars)
    <3>1. TypeOK /\ SlotsAreSound /\ TurnFollowsBoard
      BY <2>1 DEF IInv
    <3>2. \/ Game!Next
          \/ UNCHANGED state
      BY <2>1, <3>1, StepIsAMove, SeatFirstSits, SeatSecondSits, MarkTileMarks,
         AbandonedAbandons
    <3> QED
      BY <3>2 DEF Game!vars, CellsOf
  <2>2. CASE UNCHANGED state
    BY <2>2 DEF Game!vars, CellsOf
  <2> QED
    BY <2>1, <2>2
<1> QED
  BY <1>1, InitIsInit, Invariance, PTL DEF Spec, ImplementsGame, Game!Spec
=============================================================================
