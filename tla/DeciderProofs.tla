---------------------------- MODULE DeciderProofs ----------------------------
(***************************************************************************)
(* Facts about the operators the other modules are built from: the table   *)
(* of the board, evolve field by field, what a replay is, and what holds   *)
(* of a log that was written one decision at a time.  The state of a       *)
(* session is the replay of its log, and what is appended to the one is    *)
(* applied to the other.                                                   *)
(***************************************************************************)
EXTENDS Decider, SequenceTheorems, FiniteSetTheorems, TLAPS

-----------------------------------------------------------------------------
(* The two functions of board.rs, for every board.                         *)

Boards == [Positions -> Tile]

Won(board, k) == Matches(board, WIN_PATTERNS[k])

\* Every entry of the table is a position, so no lookup of winning_symbol
\* indexes outside the array.
LEMMA PatternsOnBoard ==
  \A k \in 1..8, j \in 1..3 : WIN_PATTERNS[k][j] \in Positions
<1> SUFFICES ASSUME NEW k \in 1..8, NEW j \in 1..3
             PROVE  WIN_PATTERNS[k][j] \in Positions
  OBVIOUS
<1>1. k \in {1, 2, 3, 4, 5, 6, 7, 8} /\ j \in {1, 2, 3}
  OBVIOUS
<1> QED
  BY <1>1 DEF WIN_PATTERNS, Positions

\* A search of eight patterns that finds one finds a first one.
LEMMA FirstMatch ==
  ASSUME NEW board, \E k \in 1..8 : Won(board, k)
  PROVE  \E k \in 1..8 : Won(board, k) /\ \A j \in 1..(k-1) : ~ Won(board, j)
<1> DEFINE first(n) == \A j \in 1..(n-1) : ~ Won(board, j)
<1>1. SUFFICES ASSUME \A k \in 1..8 : Won(board, k) => ~ first(k)
               PROVE  FALSE
  OBVIOUS
<1>2. ~ Won(board, 1)
  BY <1>1
<1>3. ~ Won(board, 2)
  BY <1>1, <1>2
<1>4. ~ Won(board, 3)
  BY <1>1, <1>2, <1>3
<1>5. ~ Won(board, 4)
  BY <1>1, <1>2, <1>3, <1>4
<1>6. ~ Won(board, 5)
  BY <1>1, <1>2, <1>3, <1>4, <1>5
<1>7. ~ Won(board, 6)
  BY <1>1, <1>2, <1>3, <1>4, <1>5, <1>6
<1>8. ~ Won(board, 7)
  BY <1>1, <1>2, <1>3, <1>4, <1>5, <1>6, <1>7
<1>9. ~ Won(board, 8)
  BY <1>1, <1>2, <1>3, <1>4, <1>5, <1>6, <1>7, <1>8
<1> QED
  BY <1>2, <1>3, <1>4, <1>5, <1>6, <1>7, <1>8, <1>9

\* winning_symbol finds a winner exactly when some pattern holds a line, and
\* names a symbol that has one.
LEMMA WinnerFound ==
  ASSUME NEW board \in Boards
  PROVE  /\ winning_symbol(board) # NoSymbol <=> \E k \in 1..8 : Won(board, k)
         /\ winning_symbol(board) # NoSymbol =>
              \E k \in 1..8 : /\ Won(board, k)
                              /\ winning_symbol(board) = board[WIN_PATTERNS[k][1]]
<1>1. CASE \E k \in 1..8 : Won(board, k)
  <2> DEFINE first == CHOOSE k \in 1..8 :
                        /\ Matches(board, WIN_PATTERNS[k])
                        /\ \A j \in 1..(k-1) : ~ Matches(board, WIN_PATTERNS[j])
  <2>1. first \in 1..8 /\ Won(board, first)
    BY <1>1, FirstMatch DEF Won
  <2>2. winning_symbol(board) = board[WIN_PATTERNS[first][1]]
    BY <1>1 DEF winning_symbol, Won
  <2> HIDE DEF first
  <2>3. board[WIN_PATTERNS[first][1]] \in Symbol
    BY <2>1, PatternsOnBoard DEF Won, Matches, Boards, Tile
  <2>4. winning_symbol(board) # NoSymbol
    BY <2>2, <2>3 DEF Symbol, NoSymbol
  <2> QED
    BY <1>1, <2>1, <2>2, <2>4
<1>2. CASE ~ \E k \in 1..8 : Won(board, k)
  BY <1>2 DEF winning_symbol, Won
<1> QED
  BY <1>1, <1>2

\* Marking a free tile of a board without a line makes only lines through that
\* tile, so all of them are of the symbol just placed.
LEMMA NewLinesAreTheMovers ==
  ASSUME NEW board \in Boards, NEW i \in Positions, NEW s \in Symbol,
         \A k \in 1..8 : ~ Won(board, k),
         NEW k \in 1..8, Won([board EXCEPT ![i] = s], k)
  PROVE  [board EXCEPT ![i] = s][WIN_PATTERNS[k][1]] = s
<1> DEFINE next == [board EXCEPT ![i] = s]
           a == WIN_PATTERNS[k][1]
           b == WIN_PATTERNS[k][2]
           c == WIN_PATTERNS[k][3]
<1>1. a \in Positions /\ b \in Positions /\ c \in Positions
  BY PatternsOnBoard
<1>2. next[a] # Empty /\ next[b] = next[a] /\ next[c] = next[a]
  BY DEF Won, Matches
<1>3. ~ (board[a] # Empty /\ board[b] = board[a] /\ board[c] = board[a])
  BY DEF Won, Matches
<1> HIDE DEF a, b, c
<1>4. i \in {a, b, c}
  BY <1>1, <1>2, <1>3 DEF Boards
<1>5. next[i] = s
  BY DEF Boards
<1>6. next[a] = s
  BY <1>2, <1>4, <1>5
<1> QED
  BY <1>6 DEF a

-----------------------------------------------------------------------------
(* evolve, field by field.                                                 *)

\* A PlayerJoined fills the first empty slot, or the second, and nothing else.
LEMMA JoinedFields ==
  ASSUME NEW s \in GameState, NEW p \in PlayerId
  PROVE  LET n == EvolveJoined(s, p)
             slot == IF s.players[0] = NoPlayer THEN 0 ELSE 1
         IN  /\ n \in GameState
             /\ n.players = [s.players EXCEPT ![slot] = p]
             /\ n.stage = s.stage
             /\ n.board = s.board
             /\ n.active_player_id = s.active_player_id
  BY DEF GameState, EvolveJoined

\* A GameStarted opens the game and names the first player to move.
LEMMA StartedFields ==
  ASSUME NEW s \in GameState, NEW p \in PlayerId
  PROVE  LET n == EvolveStarted(s, p)
         IN  /\ n \in GameState
             /\ n.players = s.players
             /\ n.stage = "InGame"
             /\ n.board = s.board
             /\ n.active_player_id = p
  BY DEF GameState, EvolveStarted, Stage

\* A TilePlaced marks one tile for its player's symbol and passes the turn.
LEMMA PlacedFields ==
  ASSUME NEW s \in GameState, NEW p \in PlayerId, NEW i \in Positions
  PROVE  LET n == EvolvePlaced(s, p, i)
             isX == s.players[0] = p
         IN  /\ n \in GameState
             /\ n.players = s.players
             /\ n.stage = s.stage
             /\ n.board = [s.board EXCEPT ![i] = IF isX THEN "X" ELSE "O"]
             /\ n.active_player_id = IF isX THEN s.players[1] ELSE s.players[0]
<1> DEFINE mark == IF s.players[0] = p THEN "X" ELSE "O"
           turn == IF s.players[0] = p THEN s.players[1] ELSE s.players[0]
<1>1. mark \in Tile
  BY DEF Tile, Symbol
<1>2. turn \in PlayerId
  BY DEF GameState
<1>3. EvolvePlaced(s, p, i) = [s EXCEPT !.board[i] = mark, !.active_player_id = turn]
  BY DEF EvolvePlaced
<1> HIDE DEF mark, turn
<1>4. EvolvePlaced(s, p, i) \in GameState
  BY <1>1, <1>2, <1>3 DEF GameState
<1> USE DEF mark, turn
<1> QED
  BY <1>4 DEF GameState, EvolvePlaced

\* A placement alone changes neither stage nor players.
LEMMA PlacedKeeps ==
  ASSUME NEW s \in GameState, NEW p \in PlayerId, NEW i \in Positions
  PROVE  LET n == EvolvePlaced(s, p, i)
         IN  n \in GameState /\ n.stage = s.stage /\ n.players = s.players
<1> DEFINE n == EvolvePlaced(s, p, i)
           board == [s.board EXCEPT ![i] = IF s.players[0] = p THEN "X" ELSE "O"]
<1>1. n \in GameState /\ n.players = s.players /\ n.stage = s.stage /\ n.board = board
  BY PlacedFields
<1> QED
  BY <1>1

\* A GameEnded closes the game and nothing else.
LEMMA EndedFields ==
  ASSUME NEW s \in GameState
  PROVE  LET n == EvolveEnded(s)
         IN  /\ n \in GameState
             /\ n.players = s.players
             /\ n.stage = "Ended"
             /\ n.board = s.board
             /\ n.active_player_id = s.active_player_id
  BY DEF GameState, EvolveEnded, Stage

\* Whatever the event, evolve keeps the types; an index off the board leaves
\* the board alone.
LEMMA EvolveTyped ==
  ASSUME NEW s \in GameState, NEW event \in GameEvent
  PROVE  evolve(s, event) \in GameState
<1>1. CASE event.type = "PlayerJoined"
  <2>1. event.player_id \in PlayerId
    BY <1>1 DEF GameEvent
  <2> QED
    BY <1>1, <2>1, JoinedFields DEF evolve
<1>2. CASE event.type = "GameStarted"
  <2>1. event.goes_first \in PlayerId
    BY <1>2 DEF GameEvent
  <2> QED
    BY <1>2, <2>1, StartedFields DEF evolve
<1>3. CASE event.type = "TilePlaced"
  <2>1. event.player_id \in PlayerId
    BY <1>3 DEF GameEvent
  <2> DEFINE mark == IF s.players[0] = event.player_id THEN "X" ELSE "O"
             turn == IF s.players[0] = event.player_id THEN s.players[1] ELSE s.players[0]
  <2>2. mark \in Tile /\ turn \in PlayerId
    BY DEF Tile, Symbol, GameState
  <2>3. evolve(s, event) = [s EXCEPT !.board[event.at] = mark, !.active_player_id = turn]
    BY <1>3 DEF evolve, EvolvePlaced
  <2> HIDE DEF mark, turn
  <2> QED
    BY <2>2, <2>3 DEF GameState
<1>4. CASE event.type = "PlayerLeft"
  BY <1>4 DEF evolve
<1>5. CASE event.type = "GameEnded"
  BY <1>5, EndedFields DEF evolve
<1> QED
  BY <1>1, <1>2, <1>3, <1>4, <1>5 DEF GameEvent

\* GameState::default() is a GameState.
LEMMA DefaultTyped == DefaultState \in GameState
BY DEF DefaultState, GameState, Stage, Tile, PlayerId

-----------------------------------------------------------------------------
(* decide.                                                                 *)

\* The lengths a decision may have.
LEMMA ShortSeq ==
  ASSUME NEW S, NEW first \in S, NEW second \in S
  PROVE  << >> \in Seq(S) /\ <<first>> \in Seq(S) /\ <<first, second>> \in Seq(S)
OBVIOUS

\* Commands of any kind decide on events, and on nothing when refused.
LEMMA DecidesEvents ==
  ASSUME NEW s \in GameState, NEW cmd \in GameCommand
  PROVE  decide(s, cmd).events \in Seq(GameEvent)
<1> PICK p \in PlayerId : p = cmd.player_id
  BY DEF GameCommand
<1> NoPlayer \in PlayerId
  BY DEF PlayerId
<1>1. CASE cmd.type = "JoinGame"
  <2> DEFINE join == PlayerJoined(p)
             next == EvolveJoined(s, p)
             start == GameStarted(next.players[0])
  <2>1. decide(s, cmd) = DecideJoin(s, p) /\ evolve(s, join) = next
    BY <1>1 DEF decide, evolve, PlayerJoined
  <2>2. next.players[0] \in PlayerId
    <3>1. next \in GameState
      BY JoinedFields
    <3> HIDE DEF next
    <3> QED
      BY <3>1 DEF GameState
  <2>3. join \in GameEvent /\ start \in GameEvent
    BY <2>2 DEF PlayerJoined, GameStarted, GameEvent
  <2> HIDE DEF next, join
  <2>4. decide(s, cmd).events \in {<< >>, <<join>>, <<join, start>>}
    BY <2>1 DEF DecideJoin, JoinAndStart, Ok, Err, join
  <2> HIDE DEF start
  <2> QED
    BY <2>3, <2>4, ShortSeq
<1>2. CASE cmd.type = "PlaceTile"
  <2> PICK i \in TileIndices : i = cmd.at
    BY <1>2 DEF GameCommand
  <2> DEFINE place == TilePlaced(p, i)
             won == GameEnded("PlayerWon", p)
             draw == GameEnded("Draw", NoPlayer)
  <2>1. decide(s, cmd) = DecidePlace(s, p, i) /\ place.player_id = p
    BY <1>2 DEF decide, TilePlaced
  <2>2. place \in GameEvent /\ won \in GameEvent /\ draw \in GameEvent
    BY DEF TilePlaced, GameEnded, GameEvent
  <2>3. decide(s, cmd).events \in {<< >>, <<place>>, <<place, won>>, <<place, draw>>}
    BY <2>1 DEF DecidePlace, PlaceAndJudge, Ok, Err
  <2> HIDE DEF place, won, draw
  <2> QED
    BY <2>2, <2>3, ShortSeq
<1>3. CASE cmd.type = "LeaveGame"
  <2> DEFINE left == PlayerLeft(p)
             end == GameEnded("PlayerLeft", p)
  <2>1. decide(s, cmd) = DecideLeave(s, p)
    BY <1>3 DEF decide
  <2>2. left \in GameEvent /\ end \in GameEvent
    BY DEF PlayerLeft, GameEnded, GameEvent
  <2>3. decide(s, cmd).events \in {<<left>>, <<left, end>>}
    BY <2>1 DEF DecideLeave, Ok
  <2> HIDE DEF left, end
  <2> QED
    BY <2>2, <2>3, ShortSeq
<1> QED
  BY <1>1, <1>2, <1>3 DEF GameCommand

-----------------------------------------------------------------------------
(* Induction, as a fact about a set.  NaturalsInduction states it of an    *)
(* operator, which no step below can name; the pigeonhole principle says   *)
(* the same in terms of sets.                                              *)

LEMMA SetInduction ==
  ASSUME NEW T, 0 \in T, \A k \in Nat : k \in T => k + 1 \in T
  PROVE  Nat \subseteq T
<1> SUFFICES ASSUME NEW n \in Nat, n \notin T PROVE FALSE
  OBVIOUS
<1> DEFINE U == {k \in 0..n : k \in T}
           f == [k \in U |-> k + 1]
<1>1. IsFiniteSet(U) /\ Cardinality(U) \in Nat
  <2>1. IsFiniteSet(0..n)
    BY FS_Interval
  <2>2. U \in SUBSET (0..n)
    OBVIOUS
  <2>3. IsFiniteSet(U)
    BY <2>1, <2>2, FS_Subset
  <2> QED
    BY <2>3, FS_CardinalityType
<1>2. 0 \in U
  OBVIOUS
<1>3. f \in Injection(U, U \ {0})
  <2>1. ASSUME NEW k \in U PROVE k + 1 \in U \ {0}
    <3>1. k \in Nat /\ k + 1 \in T /\ k # n
      OBVIOUS
    <3> QED
      BY <3>1
  <2> QED
    BY <2>1 DEF Injection, IsInjective
<1>4. IsFiniteSet(U \ {0}) /\ Cardinality(U \ {0}) = Cardinality(U) - 1
  BY <1>1, <1>2, FS_RemoveElement
<1> HIDE DEF U, f
<1>5. Cardinality(U) <= Cardinality(U \ {0})
  BY <1>3, <1>4, FS_Injection
<1> QED
  BY <1>1, <1>4, <1>5

-----------------------------------------------------------------------------

\* A replay step by step.
Steps(after, s, events, len) ==
  after = [n \in 0..len |-> IF n = 0 THEN s ELSE evolve(after[n - 1], events[n])]

\* There is such a sequence of states, for any number of events.
LEMMA StepsExist ==
  ASSUME NEW s, NEW events
  PROVE  \A len \in Nat : \E after : Steps(after, s, events, len)
<1> DEFINE T == {len \in Nat : \E after : Steps(after, s, events, len)}
<1>1. 0 \in T
  <2>1. Steps([n \in 0..0 |-> s], s, events, 0)
    BY DEF Steps
  <2> QED
    BY <2>1
<1>2. ASSUME NEW k \in Nat, k \in T PROVE k + 1 \in T
  <2>1. PICK f : Steps(f, s, events, k)
    BY <1>2
  <2> DEFINE g == [n \in 0..(k + 1) |-> IF n = k + 1 THEN evolve(f[k], events[k + 1]) ELSE f[n]]
  <2>2. ASSUME NEW n \in 0..(k + 1)
        PROVE  g[n] = IF n = 0 THEN s ELSE evolve(g[n - 1], events[n])
    <3>1. CASE n = k + 1
      <4>1. n # 0 /\ n - 1 = k /\ k \in 0..(k + 1) /\ k # k + 1
        BY <3>1
      <4>2. g[n - 1] = f[k] /\ g[n] = evolve(f[k], events[k + 1])
        BY <3>1, <4>1
      <4> QED
        BY <3>1, <4>1, <4>2
    <3>2. CASE n # k + 1
      <4>1. n \in 0..k
        BY <3>2
      <4>2. g[n] = f[n]
        BY <3>2
      <4>3. f[n] = IF n = 0 THEN s ELSE evolve(f[n - 1], events[n])
        BY <2>1, <4>1 DEF Steps
      <4>4. n # 0 => g[n - 1] = f[n - 1]
        BY <4>1
      <4> QED
        BY <4>2, <4>3, <4>4
    <3> QED
      BY <3>1, <3>2
  <2>3. Steps(g, s, events, k + 1)
    BY <2>2 DEF Steps
  <2> QED
    BY <2>3
<1>3. Nat \subseteq T
  <2> HIDE DEF T
  <2> QED
    BY <1>1, <1>2, SetInduction
<1> QED
  BY <1>3

\* Two of them agree as long as their events do.
LEMMA StepsAgree ==
  ASSUME NEW s, NEW events, NEW other, NEW f, NEW g, NEW m \in Nat, NEW len \in Nat, m <= len,
         Steps(f, s, events, m), Steps(g, s, other, len),
         \A n \in 1..m : events[n] = other[n]
  PROVE  \A n \in 0..m : f[n] = g[n]
<1> DEFINE T == {n \in Nat : n <= m => f[n] = g[n]}
<1>1. 0 \in T
  BY DEF Steps
<1>2. ASSUME NEW k \in Nat, k \in T PROVE k + 1 \in T
  <2>1. CASE k + 1 <= m
    <3>1. f[k + 1] = evolve(f[k], events[k + 1])
      BY <2>1 DEF Steps
    <3>2. g[k + 1] = evolve(g[k], other[k + 1])
      BY <2>1 DEF Steps
    <3>3. f[k] = g[k] /\ events[k + 1] = other[k + 1]
      BY <1>2, <2>1
    <3> QED
      BY <3>1, <3>2, <3>3
  <2> QED
    BY <2>1
<1>3. Nat \subseteq T
  <2> HIDE DEF T
  <2> QED
    BY <1>1, <1>2, SetInduction
<1> QED
  BY <1>3

\* Replay is where it ends.
LEMMA ReplayIsSteps ==
  ASSUME NEW s, NEW events, Len(events) \in Nat
  PROVE  \E after : Steps(after, s, events, Len(events)) /\ Replay(s, events) = after[Len(events)]
<1> DEFINE after == CHOOSE f : Steps(f, s, events, Len(events))
<1>1. Steps(after, s, events, Len(events))
  BY StepsExist
<1>2. Replay(s, events) = after[Len(events)]
  BY DEF Replay, Steps
<1> QED
  BY <1>1, <1>2

\* A replay of nothing.
LEMMA ReplayNothing ==
  ASSUME NEW s
  PROVE  Replay(s, << >>) = s
<1>1. PICK f : Steps(f, s, << >>, 0) /\ Replay(s, << >>) = f[0]
  BY ReplayIsSteps
<1> QED
  BY <1>1 DEF Steps

\* A replay of one event more.
LEMMA ReplayAppend ==
  ASSUME NEW S, NEW s, NEW events \in Seq(S), NEW event \in S
  PROVE  Replay(s, Append(events, event)) = evolve(Replay(s, events), event)
<1>1. PICK len \in Nat : len = Len(events)
  OBVIOUS
<1> DEFINE longer == Append(events, event)
<1>2. /\ longer \in Seq(S) /\ Len(longer) = len + 1 /\ longer[len + 1] = event
      /\ \A n \in 1..len : events[n] = longer[n]
  BY <1>1, AppendProperties
<1> HIDE DEF longer
<1>3. PICK f : Steps(f, s, events, len) /\ Replay(s, events) = f[len]
  BY <1>1, ReplayIsSteps
<1>4. PICK g : Steps(g, s, longer, len + 1) /\ Replay(s, longer) = g[len + 1]
  BY <1>2, ReplayIsSteps
<1>5. f[len] = g[len]
  <2>1. \A n \in 0..len : f[n] = g[n]
    BY <1>2, <1>3, <1>4, StepsAgree
  <2> QED
    BY <2>1
<1>6. g[len + 1] = evolve(g[len], longer[len + 1])
  BY <1>4 DEF Steps
<1> QED
  BY <1>2, <1>3, <1>4, <1>5, <1>6 DEF longer

\* The elements of a concatenation, by the part they come from.
InParts(s, t, whole) ==
  /\ Len(s) \in Nat /\ Len(t) \in Nat /\ Len(whole) = Len(s) + Len(t)
  /\ \A k \in 1..Len(s) : whole[k] = s[k]
  /\ \A k \in 1..Len(t) : whole[Len(s) + k] = t[k]
  /\ \A k \in 1..Len(whole) :
       k \in 1..Len(s) \/ (k - Len(s) \in 1..Len(t) /\ Len(s) + (k - Len(s)) = k)

\* That is all there is to it.
LEMMA ConcatParts ==
  ASSUME NEW S, NEW s \in Seq(S), NEW t \in Seq(S)
  PROVE  s \o t \in Seq(S) /\ InParts(s, t, s \o t)
<1>1. /\ s \o t \in Seq(S) /\ Len(s) \in Nat /\ Len(t) \in Nat
      /\ Len(s \o t) = Len(s) + Len(t)
  BY ConcatProperties
<1>2. \A k \in 1..(Len(s) + Len(t)) :
        (s \o t)[k] = IF k <= Len(s) THEN s[k] ELSE t[k - Len(s)]
  BY ConcatProperties
<1>3. ASSUME NEW k \in 1..Len(s) PROVE (s \o t)[k] = s[k]
  BY <1>1, <1>2
<1>4. ASSUME NEW k \in 1..Len(t) PROVE (s \o t)[Len(s) + k] = t[k]
  <2>1. Len(s) + k \in 1..(Len(s) + Len(t)) /\ ~ Len(s) + k <= Len(s) /\ (Len(s) + k) - Len(s) = k
    BY <1>1
  <2>2. (s \o t)[Len(s) + k] = t[(Len(s) + k) - Len(s)]
    BY <1>2, <2>1
  <2> QED
    BY <2>1, <2>2
<1> QED
  BY <1>1, <1>3, <1>4 DEF InParts

\* A sequence with an element is one element more than another.
LEMMA LastSplit ==
  ASSUME NEW S, NEW s \in Seq(S), NEW k \in Nat, Len(s) = k + 1
  PROVE  \E front \in Seq(S), last \in S : s = Append(front, last) /\ Len(front) = k
<1>1. /\ SubSeq(s, 1, k) \in Seq(S) /\ Len(SubSeq(s, 1, k)) = k
      /\ s[k + 1] \in S
  BY SubSeqProperties
<1>2. s = Append(SubSeq(s, 1, k), s[k + 1])
  BY <1>1, SubSeqProperties, AppendProperties, SeqEqual
<1> QED
  BY <1>1, <1>2

\* Two stretches are replayed one after the other.
LEMMA ReplayConcat ==
  ASSUME NEW S, NEW s, NEW first \in Seq(S)
  PROVE  \A second \in Seq(S) : Replay(s, first \o second) = Replay(Replay(s, first), second)
<1> DEFINE Fine(second) == Replay(s, first \o second) = Replay(Replay(s, first), second)
           T == {n \in Nat : \A second \in Seq(S) : Len(second) = n => Fine(second)}
<1>1. 0 \in T
  <2> SUFFICES ASSUME NEW second \in Seq(S), Len(second) = 0 PROVE Fine(second)
    OBVIOUS
  <2>1. second = << >> /\ first \o second = first
    BY EmptySeq, ConcatEmptySeq
  <2> QED
    BY <2>1, ReplayNothing
<1>2. ASSUME NEW k \in Nat, k \in T PROVE k + 1 \in T
  <2> SUFFICES ASSUME NEW second \in Seq(S), Len(second) = k + 1 PROVE Fine(second)
    OBVIOUS
  <2>1. PICK front \in Seq(S), last \in S : second = Append(front, last) /\ Len(front) = k
    BY LastSplit
  <2>2. first \o front \in Seq(S) /\ first \o second = Append(first \o front, last)
    BY <2>1
  <2>3. Replay(s, first \o second) = evolve(Replay(s, first \o front), last)
    <3>1. \A whole \in Seq(S) :
            Replay(s, Append(whole, last)) = evolve(Replay(s, whole), last)
      BY <2>1, ReplayAppend
    <3> QED
      BY <2>2, <3>1
  <2>4. Replay(s, first \o front) = Replay(Replay(s, first), front)
    BY <1>2, <2>1
  <2>5. Replay(Replay(s, first), second) = evolve(Replay(Replay(s, first), front), last)
    BY <2>1, ReplayAppend
  <2> QED
    BY <2>3, <2>4, <2>5
<1>3. Nat \subseteq T
  <2> HIDE DEF T
  <2> QED
    BY <1>1, <1>2, SetInduction
<1> QED
  BY <1>3

\* Of one event.
LEMMA ReplayOne ==
  ASSUME NEW s, NEW first
  PROVE  Replay(s, <<first>>) = evolve(s, first)
<1>1. PICK S : first \in S
  <2>1. first \in {first}
    OBVIOUS
  <2> QED
    BY <2>1
<1>2. << >> \in Seq(S) /\ Append(<< >>, first) = <<first>>
  BY <1>1
<1>3. Replay(s, Append(<< >>, first)) = evolve(Replay(s, << >>), first)
  <2>1. \A events \in Seq(S), event \in S :
          Replay(s, Append(events, event)) = evolve(Replay(s, events), event)
    BY ReplayAppend
  <2> QED
    BY <1>1, <1>2, <2>1
<1> QED
  BY <1>2, <1>3, ReplayNothing

\* Of two.
LEMMA ReplayTwo ==
  ASSUME NEW s, NEW first, NEW second
  PROVE  Replay(s, <<first, second>>) = evolve(evolve(s, first), second)
<1>1. PICK S : first \in S /\ second \in S
  <2>1. first \in {first, second} /\ second \in {first, second}
    OBVIOUS
  <2> QED
    BY <2>1
<1>2. << >> \in Seq(S) /\ <<first>> \in Seq(S)
  BY <1>1
<1>3. Replay(s, Append(<<first>>, second)) = evolve(Replay(s, <<first>>), second)
  <2>1. \A events \in Seq(S), event \in S :
          Replay(s, Append(events, event)) = evolve(Replay(s, events), event)
    BY ReplayAppend
  <2> QED
    BY <1>1, <1>2, <2>1
<1>4. Append(<<first>>, second) = <<first, second>>
  <2>1. <<first, second>> \in Seq(S) /\ Append(<<first>>, second) \in Seq(S)
    BY <1>1, <1>2
  <2>2. Len(Append(<<first>>, second)) = 2 /\ Len(<<first, second>>) = 2
    BY <1>1, <1>2, AppendProperties
  <2>3. \A n \in 1..2 : Append(<<first>>, second)[n] = <<first, second>>[n]
    BY <1>1, <1>2, AppendProperties
  <2> QED
    BY <2>1, <2>2, <2>3, SeqEqual
<1> QED
  BY <1>3, <1>4, ReplayOne

\* A replay of events keeps the types.
LEMMA ReplayTyped ==
  ASSUME NEW s \in GameState
  PROVE  \A events \in Seq(GameEvent) : Replay(s, events) \in GameState
<1> DEFINE T == {n \in Nat : \A events \in Seq(GameEvent) :
                               Len(events) = n => Replay(s, events) \in GameState}
<1>1. 0 \in T
  BY EmptySeq, ReplayNothing
<1>2. ASSUME NEW k \in Nat, k \in T PROVE k + 1 \in T
  <2> SUFFICES ASSUME NEW events \in Seq(GameEvent), Len(events) = k + 1
               PROVE  Replay(s, events) \in GameState
    OBVIOUS
  <2>1. PICK front \in Seq(GameEvent), last \in GameEvent :
          events = Append(front, last) /\ Len(front) = k
    BY LastSplit
  <2>2. Replay(s, events) = evolve(Replay(s, front), last)
    BY <2>1, ReplayAppend
  <2> QED
    BY <1>2, <2>1, <2>2, EvolveTyped
<1>3. Nat \subseteq T
  <2> HIDE DEF T
  <2> QED
    BY <1>1, <1>2, SetInduction
<1> QED
  BY <1>3

-----------------------------------------------------------------------------
(* Histories.  The state after the first n events of a log, and what is    *)
(* true of the events of a log that was written one decision at a time.    *)

At(L, n) == hydrate(SubSeq(L, 1, n))

\* Before the first event, after each of them, and after the last.
LEMMA AtStart ==
  ASSUME NEW S, NEW L \in Seq(S)
  PROVE  At(L, 0) = DefaultState
<1>1. SubSeq(L, 1, 0) = << >>
  BY SubSeqProperties, EmptySeq
<1> QED
  BY <1>1, ReplayNothing DEF At, hydrate

LEMMA AtNext ==
  ASSUME NEW S, NEW L \in Seq(S), NEW n \in 1..Len(L)
  PROVE  At(L, n) = evolve(At(L, n - 1), L[n])
<1>1. PICK m \in Nat : m = n - 1 /\ n = m + 1 /\ n <= Len(L)
  OBVIOUS
<1>2. /\ SubSeq(L, 1, m) \in Seq(S) /\ Len(SubSeq(L, 1, m)) = m
      /\ \A k \in 1..m : SubSeq(L, 1, m)[k] = L[k]
  BY <1>1, SubSeqProperties
<1>3. /\ SubSeq(L, 1, n) \in Seq(S) /\ Len(SubSeq(L, 1, n)) = m + 1
      /\ \A k \in 1..(m + 1) : SubSeq(L, 1, n)[k] = L[k]
  BY <1>1, SubSeqProperties
<1>4. L[n] \in S
  OBVIOUS
<1> DEFINE front == SubSeq(L, 1, m)
           whole == SubSeq(L, 1, n)
<1> HIDE DEF front, whole
<1> DEFINE longer == Append(front, L[n])
<1>5. /\ longer \in Seq(S) /\ Len(longer) = m + 1 /\ longer[m + 1] = L[n]
      /\ \A k \in 1..m : longer[k] = L[k]
  BY <1>2, <1>4, AppendProperties DEF front
<1> HIDE DEF longer
<1>6. /\ whole \in Seq(S) /\ Len(whole) = m + 1
      /\ \A k \in 1..(m + 1) : whole[k] = longer[k]
  <2>1. \A k \in 1..(m + 1) : k \in 1..m \/ k = m + 1
    BY <1>1
  <2> QED
    BY <1>1, <1>3, <1>5, <2>1 DEF whole
<1>7. whole = longer
  BY <1>5, <1>6, SeqEqual
<1>8. Replay(DefaultState, Append(front, L[n])) = evolve(Replay(DefaultState, front), L[n])
  <2>1. \A events \in Seq(S), event \in S :
          Replay(DefaultState, Append(events, event)) = evolve(Replay(DefaultState, events), event)
    BY ReplayAppend
  <2>2. front \in Seq(S)
    BY <1>2 DEF front
  <2> QED
    BY <1>4, <2>1, <2>2
<1> QED
  BY <1>1, <1>7, <1>8 DEF At, hydrate, front, whole, longer

LEMMA AtEnd ==
  ASSUME NEW S, NEW L \in Seq(S)
  PROVE  At(L, Len(L)) = hydrate(L)
<1>1. SubSeq(L, 1, Len(L)) = L
  BY SubSeqProperties, SeqEqual
<1> QED
  BY <1>1 DEF At

\* What is appended does not show in what was.
LEMMA AtPrefix ==
  ASSUME NEW S, NEW L \in Seq(S), NEW M \in Seq(S), NEW n \in 0..Len(L)
  PROVE  At(L \o M, n) = At(L, n)
<1>1. L \o M \in Seq(S) /\ InParts(L, M, L \o M)
  BY ConcatParts
<1>2. /\ Len(L) \in Nat /\ Len(M) \in Nat /\ Len(L \o M) = Len(L) + Len(M)
      /\ \A k \in 1..Len(L) : (L \o M)[k] = L[k]
  BY <1>1 DEF InParts
<1> DEFINE whole == L \o M
<1> HIDE DEF whole
<1>3. n \in 0..Len(whole)
  BY <1>2 DEF whole
<1>4. /\ SubSeq(L, 1, n) \in Seq(S) /\ Len(SubSeq(L, 1, n)) = n
      /\ \A k \in 1..n : SubSeq(L, 1, n)[k] = L[k]
  BY SubSeqProperties
<1>5. /\ SubSeq(whole, 1, n) \in Seq(S) /\ Len(SubSeq(whole, 1, n)) = n
      /\ \A k \in 1..n : SubSeq(whole, 1, n)[k] = whole[k]
  BY <1>1, <1>3, SubSeqProperties DEF whole
<1>6. \A k \in 1..n : whole[k] = L[k]
  BY <1>2 DEF whole
<1>7. SubSeq(whole, 1, n) = SubSeq(L, 1, n)
  BY <1>4, <1>5, <1>6, SeqEqual
<1> QED
  BY <1>7 DEF At, whole

LEMMA AtTyped ==
  ASSUME NEW L \in Seq(GameEvent), NEW n \in 0..Len(L)
  PROVE  At(L, n) \in GameState
<1>1. SubSeq(L, 1, n) \in Seq(GameEvent)
  BY SubSeqProperties
<1> QED
  BY <1>1, DefaultTyped, ReplayTyped DEF At, hydrate


\* An event applied, field by field.
Fields(s, event, n) ==
  /\ event.type = "PlayerJoined" =>
       /\ event.player_id \in PlayerId
       /\ n.players = [s.players EXCEPT ![IF s.players[0] = NoPlayer THEN 0 ELSE 1]
                                          = event.player_id]
       /\ n.stage = s.stage /\ n.board = s.board
       /\ n.active_player_id = s.active_player_id
  /\ event.type = "GameStarted" =>
       /\ event.goes_first \in PlayerId
       /\ n.players = s.players /\ n.stage = "InGame" /\ n.board = s.board
       /\ n.active_player_id = event.goes_first
  /\ event.type = "TilePlaced" /\ event.at \in Positions =>
       /\ event.player_id \in PlayerId
       /\ n.players = s.players /\ n.stage = s.stage
       /\ n.board = [s.board EXCEPT ![event.at] =
                       IF s.players[0] = event.player_id THEN "X" ELSE "O"]
       /\ n.active_player_id = IF s.players[0] = event.player_id
                               THEN s.players[1] ELSE s.players[0]
  /\ event.type = "PlayerLeft" => n = s
  /\ event.type = "GameEnded" =>
       /\ n.players = s.players /\ n.stage = "Ended" /\ n.board = s.board
       /\ n.active_player_id = s.active_player_id

\* That is what evolve does (decider.rs:122-158).
LEMMA EventFields ==
  ASSUME NEW s \in GameState, NEW event \in GameEvent
  PROVE  evolve(s, event) \in GameState /\ Fields(s, event, evolve(s, event))
<1> DEFINE n == evolve(s, event)
<1>1. n \in GameState
  BY EvolveTyped
<1>2. CASE event.type = "PlayerJoined"
  <2>1. event.player_id \in PlayerId /\ n = EvolveJoined(s, event.player_id)
    BY <1>2 DEF GameEvent, evolve
  <2> HIDE DEF n
  <2> QED
    BY <1>1, <1>2, <2>1, JoinedFields DEF n, Fields
<1>3. CASE event.type = "GameStarted"
  <2>1. event.goes_first \in PlayerId /\ n = EvolveStarted(s, event.goes_first)
    BY <1>3 DEF GameEvent, evolve
  <2> HIDE DEF n
  <2> QED
    BY <1>1, <1>3, <2>1, StartedFields DEF n, Fields
<1>4. CASE event.type = "TilePlaced"
  <2>1. event.player_id \in PlayerId /\ n = EvolvePlaced(s, event.player_id, event.at)
    BY <1>4 DEF GameEvent, evolve
  <2>2. ASSUME event.at \in Positions
        PROVE  /\ n.players = s.players /\ n.stage = s.stage
               /\ n.board = [s.board EXCEPT ![event.at] =
                               IF s.players[0] = event.player_id THEN "X" ELSE "O"]
               /\ n.active_player_id = IF s.players[0] = event.player_id
                                       THEN s.players[1] ELSE s.players[0]
    BY <2>1, <2>2, PlacedFields
  <2> HIDE DEF n
  <2> QED
    BY <1>1, <1>4, <2>1, <2>2 DEF n, Fields
<1>5. CASE event.type = "PlayerLeft"
  BY <1>1, <1>5 DEF evolve, Fields
<1>6. CASE event.type = "GameEnded"
  <2>1. n = EvolveEnded(s)
    BY <1>6 DEF evolve
  <2> HIDE DEF n
  <2> QED
    BY <1>1, <1>6, <2>1, EndedFields DEF n, Fields
<1> QED
  BY <1>2, <1>3, <1>4, <1>5, <1>6 DEF GameEvent

\* A state between two decisions: the lobby has room, and a game that has not
\* ended is neither won nor full.
Calm(s) ==
  /\ s.stage = "Lobby" => s.players[1] = NoPlayer
  /\ s.stage # "Ended" => winning_symbol(s.board) = NoSymbol /\ ~ is_full(s.board)

\* An event in its place: behind the event last, in a state that calls for it.
InPlace(s, last, event) ==
  /\ event.type = "PlayerJoined" =>
       /\ s.stage = "Lobby" /\ Calm(s)
       /\ event.player_id \notin {s.players[0], s.players[1]}
  /\ event.type = "GameStarted" =>
       /\ s.stage = "Lobby" /\ s.players[1] # NoPlayer
       /\ event.goes_first = s.players[0]
  /\ event.type = "TilePlaced" =>
       /\ s.stage = "InGame" /\ Calm(s)
       /\ event.player_id = s.active_player_id
       /\ event.at \in Positions /\ s.board[event.at] = Empty
  /\ event.type = "PlayerLeft" => Calm(s)
  /\ event.type = "GameEnded" =>
       /\ s.stage = "InGame"
       /\ event.reason = "PlayerWon" => /\ winning_symbol(s.board) # NoSymbol
                                        /\ last.type = "TilePlaced"
                                        /\ last.player_id = event.player_id
       /\ event.reason = "Draw" => /\ winning_symbol(s.board) = NoSymbol
                                   /\ is_full(s.board)
                                   /\ last.type = "TilePlaced"
                                   /\ event.player_id = NoPlayer
       /\ event.reason = "PlayerLeft" => /\ winning_symbol(s.board) = NoSymbol
                                         /\ ~ is_full(s.board)
                                         /\ last = PlayerLeft(event.player_id)

Orderly(L) == \A k \in 1..Len(L) : InPlace(At(L, k - 1), L[k - 1], L[k])

Settled(L) == Calm(hydrate(L))

\* One event in its place, or two, and a calm state behind them.
Decision(s, last, decided) ==
  \E first \in GameEvent :
    /\ InPlace(s, last, first)
    /\ \/ decided = <<first>> /\ Calm(evolve(s, first))
       \/ \E second \in GameEvent :
            /\ InPlace(evolve(s, first), first, second)
            /\ decided = <<first, second>>
            /\ Calm(evolve(evolve(s, first), second))

\* An accepted command decides so (decider.rs:35-116).
LEMMA DecidesInPlace ==
  ASSUME NEW s \in GameState, Calm(s), NEW last,
         NEW cmd \in GameCommand, decide(s, cmd).error = "None"
  PROVE  Decision(s, last, decide(s, cmd).events)
<1> PICK p \in PlayerId : p = cmd.player_id
  BY DEF GameCommand
<1> NoPlayer \in PlayerId
  BY DEF PlayerId
<1>1. CASE cmd.type = "JoinGame"
  <2> DEFINE join == PlayerJoined(p)
             next == EvolveJoined(s, p)
             start == GameStarted(next.players[0])
  <2>1. decide(s, cmd) = DecideJoin(s, p) /\ evolve(s, join) = next /\ join \in GameEvent
        /\ join.type = "PlayerJoined" /\ join.player_id = p
    BY <1>1 DEF decide, evolve, PlayerJoined, GameEvent
  <2>2. s.stage = "Lobby" /\ p \notin {s.players[0], s.players[1]}
    BY <2>1 DEF DecideJoin, Err
  <2>3. InPlace(s, last, join)
    BY <2>1, <2>2 DEF InPlace
  <2>4. next \in GameState /\ next.stage = "Lobby" /\ next.board = s.board
    BY <2>2, JoinedFields
  <2> HIDE DEF next, join
  <2>5. decide(s, cmd).events = IF next.players[1] # NoPlayer THEN <<join, start>> ELSE <<join>>
    BY <2>1, <2>2 DEF DecideJoin, JoinAndStart, Ok, join
  <2>6. CASE next.players[1] # NoPlayer
    <3>1. /\ next.players[0] \in PlayerId
          /\ start \in GameEvent /\ start.type = "GameStarted" /\ start.goes_first = next.players[0]
      BY <2>4 DEF GameState, GameStarted, GameEvent
    <3>2. evolve(next, start).stage = "InGame" /\ evolve(next, start).board = next.board
      BY <2>4, <3>1, EventFields DEF Fields
    <3>3. winning_symbol(next.board) = NoSymbol /\ ~ is_full(next.board)
      BY <2>2, <2>4 DEF Calm
    <3>4. InPlace(next, join, start)
      BY <2>4, <2>6, <3>1 DEF InPlace
    <3>5. decide(s, cmd).events = <<join, start>>
      BY <2>5, <2>6
    <3> HIDE DEF start
    <3> QED
      BY <2>1, <2>3, <3>1, <3>2, <3>3, <3>4, <3>5 DEF Decision, Calm
  <2>7. CASE next.players[1] = NoPlayer
    <3>1. Calm(next)
      BY <2>2, <2>4, <2>7 DEF Calm
    <3> QED
      BY <2>1, <2>3, <2>5, <2>7, <3>1 DEF Decision
  <2> QED
    BY <2>6, <2>7
<1>2. CASE cmd.type = "PlaceTile"
  <2> PICK i \in TileIndices : i = cmd.at
    BY <1>2 DEF GameCommand
  <2> DEFINE place == TilePlaced(p, i)
             next == EvolvePlaced(s, p, i)
             won == GameEnded("PlayerWon", p)
             draw == GameEnded("Draw", NoPlayer)
  <2>1. decide(s, cmd) = DecidePlace(s, p, i) /\ evolve(s, place) = next /\ place \in GameEvent
        /\ place.type = "TilePlaced" /\ place.player_id = p /\ place.at = i
    BY <1>2 DEF decide, evolve, TilePlaced, GameEvent
  <2>2. /\ s.stage = "InGame" /\ s.active_player_id = p
        /\ i \in Positions /\ s.board[i] = Empty
        /\ decide(s, cmd).events = PlaceAndJudge(place, next.board)
    BY <2>1, IndicesAreNaturals DEF DecidePlace, Ok, Err, Positions
  <2>3. InPlace(s, last, place)
    BY <2>1, <2>2 DEF InPlace
  <2>4. next \in GameState /\ next.stage = "InGame"
    <3>1. i \in Positions /\ s.stage = "InGame"
      BY <2>2
    <3> HIDE DEF place, won, draw
    <3> QED
      BY <3>1, PlacedKeeps
  <2>5. /\ won \in GameEvent /\ won.type = "GameEnded" /\ won.reason = "PlayerWon"
        /\ won.player_id = p
        /\ draw \in GameEvent /\ draw.type = "GameEnded" /\ draw.reason = "Draw"
        /\ draw.player_id = NoPlayer
    BY DEF GameEnded, GameEvent
  <2>6. decide(s, cmd).events = IF winning_symbol(next.board) # NoSymbol THEN <<place, won>>
                                ELSE IF is_full(next.board) THEN <<place, draw>>
                                ELSE <<place>>
    BY <2>1, <2>2 DEF PlaceAndJudge
  <2> HIDE DEF place, next, won, draw
  <2>7. ASSUME NEW end \in {won, draw} PROVE Calm(evolve(next, end))
    <3>1. evolve(next, end) = EvolveEnded(next)
      BY <2>5 DEF evolve
    <3>2. evolve(next, end).stage = "Ended"
      BY <2>4, <3>1, EndedFields
    <3> QED
      BY <3>2 DEF Calm
  <2>8. CASE winning_symbol(next.board) # NoSymbol
    <3>1. InPlace(next, place, won)
      BY <2>1, <2>4, <2>5, <2>8 DEF InPlace
    <3> QED
      BY <2>1, <2>3, <2>5, <2>6, <2>7, <2>8, <3>1 DEF Decision
  <2>9. CASE winning_symbol(next.board) = NoSymbol /\ is_full(next.board)
    <3>1. InPlace(next, place, draw)
      BY <2>1, <2>4, <2>5, <2>9 DEF InPlace
    <3> QED
      BY <2>1, <2>3, <2>5, <2>6, <2>7, <2>9, <3>1 DEF Decision
  <2>10. CASE winning_symbol(next.board) = NoSymbol /\ ~ is_full(next.board)
    <3>1. Calm(next)
      BY <2>4, <2>10 DEF Calm
    <3> QED
      BY <2>1, <2>3, <2>6, <2>10, <3>1 DEF Decision
  <2> QED
    BY <2>8, <2>9, <2>10
<1>3. CASE cmd.type = "LeaveGame"
  <2> DEFINE left == PlayerLeft(p)
             end == GameEnded("PlayerLeft", p)
  <2>1. decide(s, cmd) = DecideLeave(s, p) /\ evolve(s, left) = s /\ left \in GameEvent
        /\ left.type = "PlayerLeft"
    BY <1>3 DEF decide, evolve, PlayerLeft, GameEvent
  <2>2. evolve(s, end) = EvolveEnded(s) /\ end \in GameEvent /\ end.type = "GameEnded"
        /\ end.reason = "PlayerLeft" /\ end.player_id = p
    BY DEF evolve, GameEnded, GameEvent
  <2>3. InPlace(s, last, left)
    BY <2>1 DEF InPlace
  <2>4. decide(s, cmd).events = IF s.stage = "InGame" THEN <<left, end>> ELSE <<left>>
    BY <2>1 DEF DecideLeave, Ok
  <2>5. left = PlayerLeft(end.player_id)
    BY <2>2
  <2> HIDE DEF left, end
  <2>6. CASE s.stage = "InGame"
    <3>1. InPlace(s, left, end)
      BY <2>2, <2>5, <2>6 DEF InPlace, Calm
    <3>2. evolve(s, end).stage = "Ended"
      BY <2>2, EndedFields
    <3> QED
      BY <2>1, <2>2, <2>3, <2>4, <2>6, <3>1, <3>2 DEF Decision, Calm
  <2>7. CASE s.stage # "InGame"
    BY <2>1, <2>3, <2>4, <2>7 DEF Decision
  <2> QED
    BY <2>6, <2>7
<1> QED
  BY <1>1, <1>2, <1>3 DEF GameCommand

\* What is first has nothing before it.
LEMMA FirstInPlace ==
  ASSUME NEW last, NEW other, NEW event, InPlace(DefaultState, last, event)
  PROVE  InPlace(DefaultState, other, event)
<1>1. DefaultState.stage = "Lobby"
  BY DEF DefaultState
<1> QED
  BY <1>1 DEF InPlace

\* One event more, in its place.
LEMMA OrderlyAppend ==
  ASSUME NEW L \in Seq(GameEvent), Orderly(L), NEW event \in GameEvent,
         InPlace(hydrate(L), L[Len(L)], event)
  PROVE  /\ Append(L, event) \in Seq(GameEvent) /\ Orderly(Append(L, event))
         /\ Append(L, event)[Len(Append(L, event))] = event
         /\ hydrate(Append(L, event)) = evolve(hydrate(L), event)
<1> DEFINE M == Append(L, event)
<1>1. PICK len \in Nat : len = Len(L)
  OBVIOUS
<1>2. /\ M \in Seq(GameEvent) /\ Len(M) = len + 1 /\ M[len + 1] = event
      /\ \A k \in 1..len : M[k] = L[k]
  BY <1>1, AppendProperties
<1>3. M = L \o <<event>> /\ <<event>> \in Seq(GameEvent)
  OBVIOUS
<1>4. ASSUME NEW n \in 0..len PROVE At(M, n) = At(L, n)
  BY <1>1, <1>3, AtPrefix
<1>5. hydrate(M) = evolve(hydrate(L), event)
  BY ReplayAppend DEF hydrate
<1>8. At(M, 0) = DefaultState /\ At(L, 0) = DefaultState
  BY <1>2, AtStart
<1>9. len = 0 => hydrate(L) = DefaultState
  BY <1>1, <1>8, AtEnd
<1> HIDE DEF M
<1>10. ASSUME NEW k \in 1..(len + 1) PROVE InPlace(At(M, k - 1), M[k - 1], M[k])
  <2>1. CASE k = 1 /\ len # 0
    <3>1. InPlace(At(L, 0), L[0], L[1])
      BY <1>1, <2>1 DEF Orderly
    <3>2. M[1] = L[1]
      BY <1>2, <2>1
    <3> QED
      BY <1>8, <2>1, <3>1, <3>2, FirstInPlace
  <2>2. CASE k \in 2..len
    <3>1. InPlace(At(L, k - 1), L[k - 1], L[k])
      BY <1>1, <2>2 DEF Orderly
    <3>2. At(M, k - 1) = At(L, k - 1) /\ M[k] = L[k] /\ M[k - 1] = L[k - 1]
      BY <1>2, <1>4, <2>2
    <3> QED
      BY <3>1, <3>2
  <2>3. CASE k = len + 1
    <3>1. At(M, len) = hydrate(L)
      BY <1>1, <1>4, AtEnd
    <3>2. CASE len = 0
      BY <1>1, <1>2, <1>8, <1>9, <2>3, <3>2, FirstInPlace
    <3>3. CASE len # 0
      <4>1. M[len] = L[len]
        BY <1>2, <3>3
      <4> QED
        BY <1>1, <1>2, <2>3, <3>1, <4>1
    <3> QED
      BY <3>2, <3>3
  <2> QED
    BY <1>1, <2>1, <2>2, <2>3
<1>7. Orderly(M)
  BY <1>2, <1>10 DEF Orderly
<1> QED
  BY <1>2, <1>5, <1>7 DEF M

\* A decision keeps a log in order.
LEMMA OrderlyStep ==
  ASSUME NEW L \in Seq(GameEvent), Orderly(L), Settled(L),
         NEW cmd \in GameCommand, decide(hydrate(L), cmd).error = "None"
  PROVE  LET M == L \o decide(hydrate(L), cmd).events
         IN  M \in Seq(GameEvent) /\ Orderly(M) /\ Settled(M)
<1> DEFINE s == hydrate(L)
           decided == decide(s, cmd).events
<1>1. s \in GameState
  BY DefaultTyped, ReplayTyped DEF hydrate
<1>2. Decision(s, L[Len(L)], decided)
  BY <1>1, DecidesInPlace DEF Settled
<1> HIDE DEF decided, s
<1>3. PICK first \in GameEvent :
        /\ InPlace(s, L[Len(L)], first)
        /\ \/ decided = <<first>> /\ Calm(evolve(s, first))
           \/ \E second \in GameEvent :
                /\ InPlace(evolve(s, first), first, second)
                /\ decided = <<first, second>>
                /\ Calm(evolve(evolve(s, first), second))
  BY <1>2 DEF Decision
<1> DEFINE M == Append(L, first)
<1>4. /\ M \in Seq(GameEvent) /\ Orderly(M) /\ M[Len(M)] = first
      /\ hydrate(M) = evolve(s, first)
  BY <1>3, OrderlyAppend DEF s
<1>5. CASE decided = <<first>> /\ Calm(evolve(s, first))
  <2>1. L \o decided = M
    BY <1>5
  <2> QED
    BY <1>4, <1>5, <2>1 DEF Settled, decided, s
<1>6. ASSUME NEW second \in GameEvent,
             InPlace(evolve(s, first), first, second),
             decided = <<first, second>>,
             Calm(evolve(evolve(s, first), second))
      PROVE  L \o decided \in Seq(GameEvent) /\ Orderly(L \o decided) /\ Settled(L \o decided)
  <2> DEFINE N == Append(M, second)
  <2>1. L \o decided = N
    <3>1. L \o <<first, second>> = Append(Append(L, first), second)
      OBVIOUS
    <3> QED
      BY <1>6, <3>1
  <2> HIDE DEF M
  <2>2. N \in Seq(GameEvent) /\ Orderly(N) /\ hydrate(N) = evolve(evolve(s, first), second)
    BY <1>4, <1>6, OrderlyAppend
  <2> HIDE DEF N
  <2> QED
    BY <1>6, <2>1, <2>2 DEF Settled
<1> QED
  BY <1>3, <1>5, <1>6 DEF decided, s

\* No event, no disorder.
LEMMA OrderlyStart == << >> \in Seq(GameEvent) /\ Orderly(<< >>) /\ Settled(<< >>)
<1>1. hydrate(<< >>) = DefaultState
  BY ReplayNothing DEF hydrate
<1>2. winning_symbol(DefaultState.board) = NoSymbol
  <2>1. DefaultState.board \in Boards /\ \A i \in Positions : DefaultState.board[i] = Empty
    BY DEF DefaultState, Boards, Tile
  <2>2. ASSUME NEW k \in 1..8 PROVE ~ Won(DefaultState.board, k)
    <3>1. WIN_PATTERNS[k][1] \in Positions
      BY PatternsOnBoard
    <3> QED
      BY <2>1, <3>1 DEF Won, Matches
  <2> QED
    BY <2>1, <2>2, WinnerFound
<1>3. ~ is_full(DefaultState.board)
  <2>1. 0 \in Positions /\ DefaultState.board[0] = Empty
    BY DEF DefaultState, Positions
  <2> QED
    BY <2>1 DEF is_full
<1>4. Calm(DefaultState)
  <2>1. DefaultState.stage = "Lobby" /\ DefaultState.players[1] = NoPlayer
    BY DEF DefaultState
  <2> QED
    BY <1>2, <1>3, <2>1 DEF Calm
<1> QED
  BY <1>1, <1>4 DEF Orderly, Settled

-----------------------------------------------------------------------------
(* What an orderly log says, and what the state says of it.  Each is shown *)
(* for every stretch of the log from its start, by induction on its length.*)

\* The positions, among the first n, of the events of a type.
Of(L, type, n) == {k \in 1..n : L[k].type = type}

\* One event more.
LEMMA OfNext ==
  ASSUME NEW L, NEW type, NEW n \in Nat
  PROVE  /\ Of(L, type, n) \subseteq 1..n
         /\ Of(L, type, n + 1) = IF L[n + 1].type = type THEN Of(L, type, n) \cup {n + 1}
                                 ELSE Of(L, type, n)
BY DEF Of

\* Of a log nobody has written to.
LEMMA OfNone ==
  ASSUME NEW L, NEW type
  PROVE  Of(L, type, 0) = {}
BY DEF Of

\* Who sits where is who joined first and second, and the game is started
\* right behind the second join.
Seated(L, n) ==
  LET s == At(L, n)
      x == s.players[0]
      o == s.players[1]
      joins == Of(L, "PlayerJoined", n)
      starts == Of(L, "GameStarted", n)
  IN  \/ /\ s.stage = "Lobby" /\ x = NoPlayer /\ o = NoPlayer
         /\ joins = {} /\ starts = {}
      \/ /\ s.stage = "Lobby" /\ x # NoPlayer /\ o = NoPlayer
         /\ starts = {}
         /\ \E i \in 1..n : joins = {i} /\ L[i].player_id = x
      \/ /\ x # NoPlayer /\ o # NoPlayer /\ x # o
         /\ \E i \in 1..n, j \in 1..n :
              /\ i < j /\ joins = {i, j}
              /\ L[i].player_id = x /\ L[j].player_id = o
              /\ \/ s.stage = "Lobby" /\ j = n /\ starts = {}
                 \/ /\ s.stage # "Lobby" /\ j + 1 \in 1..n /\ starts = {j + 1}
                    /\ L[j + 1].goes_first = x

\* The step of the induction: the state, the event, and the state behind it.
LEMMA Onward ==
  ASSUME NEW L \in Seq(GameEvent), Orderly(L), NEW n \in Nat, n < Len(L)
  PROVE  /\ L[n + 1] \in GameEvent
         /\ At(L, n) \in GameState /\ At(L, n + 1) \in GameState
         /\ At(L, n + 1) = evolve(At(L, n), L[n + 1])
         /\ InPlace(At(L, n), L[n], L[n + 1])
         /\ Fields(At(L, n), L[n + 1], At(L, n + 1))
<1>1. n + 1 \in 1..Len(L) /\ n \in 0..Len(L) /\ (n + 1) - 1 = n
  OBVIOUS
<1>2. L[n + 1] \in GameEvent
  BY <1>1
<1>3. At(L, n) \in GameState /\ At(L, n + 1) = evolve(At(L, n), L[n + 1])
  BY <1>1, AtTyped, AtNext
<1>4. InPlace(At(L, n), L[n], L[n + 1])
  BY <1>1 DEF Orderly
<1> QED
  BY <1>2, <1>3, <1>4, EventFields

LEMMA SeatedStep ==
  ASSUME NEW L \in Seq(GameEvent), Orderly(L), NEW n \in Nat, n < Len(L), Seated(L, n)
  PROVE  Seated(L, n + 1)
<1> DEFINE s == At(L, n)
           t == At(L, n + 1)
           event == L[n + 1]
           joins == Of(L, "PlayerJoined", n)
           starts == Of(L, "GameStarted", n)
<1>1. event \in GameEvent /\ s \in GameState /\ InPlace(s, L[n], event) /\ Fields(s, event, t)
  BY Onward
<1>2. /\ joins \subseteq 1..n /\ starts \subseteq 1..n
      /\ Of(L, "PlayerJoined", n + 1) =
           IF event.type = "PlayerJoined" THEN joins \cup {n + 1} ELSE joins
      /\ Of(L, "GameStarted", n + 1) =
           IF event.type = "GameStarted" THEN starts \cup {n + 1} ELSE starts
  BY OfNext
<1>3. \/ /\ s.stage = "Lobby" /\ s.players[0] = NoPlayer /\ s.players[1] = NoPlayer
         /\ joins = {} /\ starts = {}
      \/ /\ s.stage = "Lobby" /\ s.players[0] # NoPlayer /\ s.players[1] = NoPlayer
         /\ starts = {}
         /\ \E i \in 1..n : joins = {i} /\ L[i].player_id = s.players[0]
      \/ /\ s.players[0] # NoPlayer /\ s.players[1] # NoPlayer /\ s.players[0] # s.players[1]
         /\ \E i \in 1..n, j \in 1..n :
              /\ i < j /\ joins = {i, j}
              /\ L[i].player_id = s.players[0] /\ L[j].player_id = s.players[1]
              /\ \/ s.stage = "Lobby" /\ j = n /\ starts = {}
                 \/ /\ s.stage # "Lobby" /\ j + 1 \in 1..n /\ starts = {j + 1}
                    /\ L[j + 1].goes_first = s.players[0]
  BY DEF Seated
<1>4. s.players \in [0..1 -> PlayerId]
  BY <1>1 DEF GameState
<1> HIDE DEF s, t, event, joins, starts
<1>5. CASE event.type = "PlayerJoined"
  <2>1. /\ t.players = [s.players EXCEPT ![IF s.players[0] = NoPlayer THEN 0 ELSE 1]
                                           = event.player_id]
        /\ t.stage = s.stage
    BY <1>1, <1>5 DEF Fields
  <2>2. /\ s.stage = "Lobby" /\ s.players[1] = NoPlayer
        /\ event.player_id # s.players[0] /\ event.player_id # NoPlayer
    BY <1>1, <1>5 DEF InPlace, Calm
  <2>3. Of(L, "PlayerJoined", n + 1) = joins \cup {n + 1} /\ Of(L, "GameStarted", n + 1) = starts
    BY <1>2, <1>5
  <2>4. n + 1 \in 1..(n + 1) /\ \A k \in 1..n : k \in 1..(n + 1) /\ k < n + 1
    OBVIOUS
  <2>5. L[n + 1].player_id = event.player_id
    BY DEF event
  <2>6. CASE s.players[0] = NoPlayer
    <3>1. t.players[0] = event.player_id /\ t.players[1] = NoPlayer
      BY <1>4, <2>1, <2>2, <2>6
    <3>2. joins = {} /\ starts = {}
      BY <1>3, <2>2, <2>6
    <3> QED
      BY <2>1, <2>2, <2>3, <2>4, <2>5, <3>1, <3>2 DEF Seated, t
  <2>7. CASE s.players[0] # NoPlayer
    <3>1. t.players[0] = s.players[0] /\ t.players[1] = event.player_id
      BY <1>4, <2>1, <2>2, <2>7
    <3>2. PICK i \in 1..n : joins = {i} /\ L[i].player_id = s.players[0]
      BY <1>3, <2>2, <2>7
    <3>3. Of(L, "PlayerJoined", n + 1) = {i, n + 1} /\ i \in 1..(n + 1) /\ i < n + 1
      BY <2>3, <2>4, <3>2
    <3>4. starts = {}
      BY <1>3, <2>2
    <3> QED
      BY <2>1, <2>2, <2>3, <2>4, <2>5, <2>7, <3>1, <3>2, <3>3, <3>4 DEF Seated, t
  <2> QED
    BY <2>6, <2>7
<1>6. CASE event.type = "GameStarted"
  <2>1. t.players = s.players /\ t.stage = "InGame"
    BY <1>1, <1>6 DEF Fields
  <2>2. /\ s.stage = "Lobby" /\ s.players[1] # NoPlayer
        /\ event.goes_first = s.players[0]
    BY <1>1, <1>6 DEF InPlace
  <2>3. PICK i \in 1..n, j \in 1..n :
              /\ i < j /\ joins = {i, j}
              /\ L[i].player_id = s.players[0] /\ L[j].player_id = s.players[1]
              /\ j = n /\ starts = {}
    BY <1>3, <2>2
  <2>4. /\ Of(L, "PlayerJoined", n + 1) = {i, j}
        /\ Of(L, "GameStarted", n + 1) = {j + 1}
        /\ i \in 1..(n + 1) /\ j \in 1..(n + 1) /\ j + 1 \in 1..(n + 1)
        /\ L[j + 1].goes_first = s.players[0]
    BY <1>2, <1>6, <2>2, <2>3 DEF event
  <2>5. s.players[0] # NoPlayer /\ s.players[0] # s.players[1]
    BY <1>3, <2>2
  <2> QED
    BY <2>1, <2>2, <2>3, <2>4, <2>5 DEF Seated, t
<1>7. CASE event.type \notin {"PlayerJoined", "GameStarted"}
  <2>1. t.players = s.players
    <3>1. event.type = "TilePlaced" => event.at \in Positions
      BY <1>1 DEF InPlace
    <3> QED
      BY <1>1, <1>7, <3>1 DEF Fields, GameEvent
  <2>2. /\ s.stage = "Lobby" => s.players[1] = NoPlayer
        /\ s.stage = "Lobby" <=> t.stage = "Lobby"
    <3>1. event.type = "TilePlaced" => event.at \in Positions
      BY <1>1 DEF InPlace
    <3>2. CASE event.type = "PlayerLeft"
      <4>1. t = s
        BY <1>1, <3>2 DEF Fields
      <4> QED
        BY <1>1, <3>2, <4>1 DEF InPlace, Calm
    <3>3. CASE event.type = "TilePlaced"
      <4>1. t.stage = s.stage
        BY <1>1, <3>1, <3>3 DEF Fields
      <4> QED
        BY <1>1, <3>3, <4>1 DEF InPlace, Calm
    <3>4. CASE event.type = "GameEnded"
      <4>1. t.stage = "Ended"
        BY <1>1, <3>4 DEF Fields
      <4> QED
        BY <1>1, <3>4, <4>1 DEF InPlace
    <3> QED
      BY <1>1, <1>7, <3>2, <3>3, <3>4 DEF GameEvent
  <2>3. Of(L, "PlayerJoined", n + 1) = joins /\ Of(L, "GameStarted", n + 1) = starts
    BY <1>2, <1>7
  <2>4. \A k \in 1..n : k \in 1..(n + 1)
    OBVIOUS
  <2>7. n + 1 \in Nat /\ 1..n \subseteq 1..(n + 1)
    OBVIOUS
  <2>5. CASE s.players[1] = NoPlayer
    <3>1. CASE s.players[0] = NoPlayer
      <4>1. s.stage = "Lobby" /\ joins = {} /\ starts = {}
        BY <1>3, <2>5, <3>1
      <4> QED
        BY <2>1, <2>2, <2>3, <2>5, <3>1, <4>1 DEF Seated, t
    <3>2. CASE s.players[0] # NoPlayer
      <4>1. PICK i \in 1..n : joins = {i} /\ L[i].player_id = s.players[0]
        BY <1>3, <2>5, <3>2
      <4>2. s.stage = "Lobby" /\ starts = {}
        BY <1>3, <2>5, <3>2
      <4> QED
        BY <2>1, <2>2, <2>3, <2>5, <2>7, <3>2, <4>1, <4>2 DEF Seated, t
    <3> QED
      BY <3>1, <3>2
  <2>6. CASE s.players[1] # NoPlayer
    <3>1. PICK i \in 1..n, j \in 1..n :
              /\ i < j /\ joins = {i, j}
              /\ L[i].player_id = s.players[0] /\ L[j].player_id = s.players[1]
              /\ s.stage # "Lobby" /\ j + 1 \in 1..n /\ starts = {j + 1}
              /\ L[j + 1].goes_first = s.players[0]
      BY <1>3, <2>2, <2>6
    <3>2. s.players[0] # NoPlayer /\ s.players[0] # s.players[1]
      BY <1>3, <2>6
    <3>3. i \in 1..(n + 1) /\ j \in 1..(n + 1) /\ j + 1 \in 1..(n + 1)
      BY <2>7, <3>1
    <3> QED
      BY <2>1, <2>2, <2>3, <2>6, <3>1, <3>2, <3>3 DEF Seated, t
  <2> QED
    BY <2>5, <2>6
<1> QED
  BY <1>5, <1>6, <1>7

LEMMA LogSeats ==
  ASSUME NEW L \in Seq(GameEvent), Orderly(L), NEW n \in 0..Len(L)
  PROVE  Seated(L, n)
<1> DEFINE T == {m \in Nat : m <= Len(L) => Seated(L, m)}
<1>1. 0 \in T
  <2>1. At(L, 0).stage = "Lobby" /\ At(L, 0).players[0] = NoPlayer /\ At(L, 0).players[1] = NoPlayer
    BY AtStart DEF DefaultState
  <2> QED
    BY <2>1, OfNone DEF Seated
<1>2. ASSUME NEW k \in Nat, k \in T PROVE k + 1 \in T
  <2>1. CASE k + 1 <= Len(L)
    <3>1. k < Len(L) /\ Seated(L, k)
      BY <1>2, <2>1
    <3> QED
      BY <3>1, SeatedStep
  <2> QED
    BY <2>1
<1>3. Nat \subseteq T
  <2> HIDE DEF T
  <2> QED
    BY <1>1, <1>2, SetInduction
<1> QED
  BY <1>3

\* The sides the moves are on: the first and every other one X's, the rest O's.
Side(s, count) == IF count % 2 = 1 THEN s.players[0] ELSE s.players[1]

\* The moves, each on a tile of its own, are what is on the board; the sides
\* have made them in turn, and the one to move is the one whose turn it is.
Moved(L, n) ==
  LET s == At(L, n)
      moves == Of(L, "TilePlaced", n)
  IN  /\ \A m \in moves :
           /\ L[m].at \in Positions
           /\ s.board[L[m].at] = IF s.players[0] = L[m].player_id THEN "X" ELSE "O"
           /\ L[m].player_id = Side(s, Cardinality({k \in moves : k <= m}))
           /\ \A k \in moves : L[m].at = L[k].at => m = k
           /\ \A g \in Of(L, "GameStarted", n) : g < m
      /\ \A i \in Positions : s.board[i] # Empty => \E m \in moves : L[m].at = i
      /\ s.stage = "Lobby" => moves = {}
      /\ s.stage = "InGame" => s.active_player_id = Side(s, Cardinality(moves) + 1)

\* Stretches of positions are finite sets.
LEMMA OfFinite ==
  ASSUME NEW L, NEW type, NEW n \in Nat
  PROVE  /\ IsFiniteSet(Of(L, type, n)) /\ Cardinality(Of(L, type, n)) \in Nat
         /\ Cardinality(Of(L, type, n) \cup {n + 1}) = Cardinality(Of(L, type, n)) + 1
<1>1. IsFiniteSet(1..n) /\ Of(L, type, n) \subseteq 1..n
  BY FS_Interval DEF Of
<1>2. IsFiniteSet(Of(L, type, n))
  BY <1>1, FS_Subset
<1>3. n + 1 \notin Of(L, type, n)
  BY <1>1
<1> QED
  BY <1>2, <1>3, FS_CardinalityType, FS_AddElement

LEMMA MovedStep ==
  ASSUME NEW L \in Seq(GameEvent), Orderly(L), NEW n \in Nat, n < Len(L), Moved(L, n)
  PROVE  Moved(L, n + 1)
<1> DEFINE s == At(L, n)
           t == At(L, n + 1)
           event == L[n + 1]
           moves == Of(L, "TilePlaced", n)
           starts == Of(L, "GameStarted", n)
<1>1. event \in GameEvent /\ s \in GameState /\ InPlace(s, L[n], event) /\ Fields(s, event, t)
  BY Onward
<1>2. /\ moves \subseteq 1..n /\ starts \subseteq 1..n
      /\ Of(L, "TilePlaced", n + 1) =
           IF event.type = "TilePlaced" THEN moves \cup {n + 1} ELSE moves
      /\ Of(L, "GameStarted", n + 1) =
           IF event.type = "GameStarted" THEN starts \cup {n + 1} ELSE starts
  BY OfNext
<1>3. /\ \A m \in moves :
           /\ L[m].at \in Positions
           /\ s.board[L[m].at] = IF s.players[0] = L[m].player_id THEN "X" ELSE "O"
           /\ L[m].player_id = Side(s, Cardinality({k \in moves : k <= m}))
           /\ \A k \in moves : L[m].at = L[k].at => m = k
           /\ \A g \in starts : g < m
      /\ \A i \in Positions : s.board[i] # Empty => \E m \in moves : L[m].at = i
      /\ s.stage = "Lobby" => moves = {}
      /\ s.stage = "InGame" => s.active_player_id = Side(s, Cardinality(moves) + 1)
  BY DEF Moved
<1>4. s.players \in [0..1 -> PlayerId] /\ s.board \in [Positions -> Tile]
  BY <1>1 DEF GameState
<1>5. Cardinality(moves) \in Nat /\ Cardinality(moves \cup {n + 1}) = Cardinality(moves) + 1
  BY OfFinite
<1>6. Cardinality({}) = 0
  BY FS_EmptySet
<1>7. s.stage = "InGame" => s.players[0] # s.players[1]
  <2>1. Seated(L, n)
    BY LogSeats
  <2> QED
    BY <2>1 DEF Seated
<1>8. event.type \notin {"PlayerJoined", "TilePlaced"} => t.players = s.players /\ t.board = s.board
  BY <1>1 DEF Fields, GameEvent
<1> HIDE DEF s, t, event, moves, starts
<1>9. CASE event.type = "PlayerJoined"
  <2>1. /\ s.stage = "Lobby" /\ t.stage = "Lobby" /\ t.board = s.board
        /\ Of(L, "TilePlaced", n + 1) = {}
    BY <1>1, <1>2, <1>3, <1>9 DEF InPlace, Fields
  <2> QED
    BY <1>3, <2>1 DEF Moved, t
<1>10. CASE event.type = "GameStarted"
  <2>1. /\ s.stage = "Lobby" /\ t.stage = "InGame" /\ t.board = s.board /\ t.players = s.players
        /\ t.active_player_id = s.players[0]
        /\ moves = {} /\ Of(L, "TilePlaced", n + 1) = {}
    BY <1>1, <1>2, <1>3, <1>10 DEF InPlace, Fields
  <2>2. Side(t, Cardinality({}) + 1) = s.players[0]
    BY <1>6, <2>1 DEF Side
  <2> QED
    BY <1>3, <2>1, <2>2 DEF Moved, t
<1>11. CASE event.type = "TilePlaced"
  <2> DEFINE p == event.player_id
             i == event.at
             mark == IF s.players[0] = p THEN "X" ELSE "O"
             next == moves \cup {n + 1}
  <2>1. /\ s.stage = "InGame" /\ p = s.active_player_id /\ i \in Positions /\ s.board[i] = Empty
    BY <1>1, <1>11 DEF InPlace
  <2>2. /\ t.stage = "InGame" /\ t.players = s.players /\ t.board = [s.board EXCEPT ![i] = mark]
        /\ t.active_player_id = IF s.players[0] = p THEN s.players[1] ELSE s.players[0]
    BY <1>1, <1>11, <2>1 DEF Fields
  <2>3. Of(L, "TilePlaced", n + 1) = next /\ Of(L, "GameStarted", n + 1) = starts
    BY <1>2, <1>11
  <2>4. L[n + 1].at = i /\ L[n + 1].player_id = p
    BY DEF event
  <2>5. p = Side(s, Cardinality(moves) + 1)
    BY <1>3, <2>1
  <2>6. \A c : Side(t, c) = Side(s, c)
    BY <2>2 DEF Side
  <2> HIDE DEF p, i, mark, next
  <2>7. t.active_player_id = Side(s, Cardinality(next) + 1)
    <3>2. PICK c \in Nat : c = Cardinality(moves) /\ Cardinality(next) = c + 1
      BY <1>5 DEF next
    <3>3. (c + 1) % 2 = 1 <=> ((c + 1) + 1) % 2 # 1
      OBVIOUS
    <3>1. (Cardinality(moves) + 1) % 2 = 1 <=> (Cardinality(next) + 1) % 2 # 1
      BY <3>2, <3>3
    <3> QED
      BY <1>7, <2>1, <2>2, <2>5, <3>1 DEF Side
  <2>8. mark # Empty
    BY DEF mark, Empty
  <2>9. ASSUME NEW m \in moves
        PROVE  /\ t.board[L[m].at] = s.board[L[m].at] /\ L[m].at # i
               /\ {k \in next : k <= m} = {k \in moves : k <= m}
    <3>1. s.board[L[m].at] # Empty /\ L[m].at \in Positions
      BY <1>3 DEF Empty
    <3>2. m <= n /\ m \in Nat
      BY <1>2
    <3>3. ~ n + 1 <= m
      BY <3>2
    <3> QED
      BY <1>4, <2>1, <2>2, <3>1, <3>3 DEF next
  <2>10. {k \in next : k <= n + 1} = next
    <3>1. \A k \in moves : k <= n + 1
      BY <1>2
    <3> QED
      BY <3>1 DEF next
  <2>11. ASSUME NEW m \in next
         PROVE  /\ L[m].at \in Positions
                /\ t.board[L[m].at] = IF t.players[0] = L[m].player_id THEN "X" ELSE "O"
                /\ L[m].player_id = Side(t, Cardinality({k \in next : k <= m}))
                /\ \A k \in next : L[m].at = L[k].at => m = k
                /\ \A g \in starts : g < m
    <3>1. CASE m \in moves
      <4>5. /\ L[m].at \in Positions
            /\ s.board[L[m].at] = IF s.players[0] = L[m].player_id THEN "X" ELSE "O"
            /\ L[m].player_id = Side(s, Cardinality({k \in moves : k <= m}))
        BY <1>3, <3>1
      <4>6. /\ t.board[L[m].at] = s.board[L[m].at]
            /\ {k \in next : k <= m} = {k \in moves : k <= m}
        BY <2>9, <3>1
      <4>1. /\ L[m].at \in Positions
            /\ t.board[L[m].at] = IF t.players[0] = L[m].player_id THEN "X" ELSE "O"
        BY <2>2, <4>5, <4>6
      <4>2. L[m].player_id = Side(t, Cardinality({k \in next : k <= m}))
        BY <2>6, <4>5, <4>6
      <4>3. \A k \in next : L[m].at = L[k].at => m = k
        BY <1>3, <2>4, <2>9, <3>1 DEF next
      <4>4. \A g \in starts : g < m
        BY <1>3, <3>1
      <4> QED
        BY <4>1, <4>2, <4>3, <4>4
    <3>2. CASE m = n + 1
      <4>1. \A g \in starts : g < m
        BY <1>2, <3>2
      <4>2. t.board[i] = mark
        BY <1>4, <2>1, <2>2
      <4>3. Cardinality(next) = Cardinality(moves) + 1
        BY <1>5 DEF next
      <4>4. \A k \in next : L[m].at = L[k].at => m = k
        BY <2>4, <2>9, <3>2 DEF next
      <4>5. L[m].player_id = Side(t, Cardinality({k \in next : k <= m}))
        <5>1. Side(t, Cardinality(next)) = Side(s, Cardinality(moves) + 1)
          BY <2>6, <4>3
        <5> QED
          BY <2>4, <2>5, <2>10, <3>2, <5>1, Zenon
      <4> QED
        BY <2>1, <2>2, <2>4, <3>2, <4>1, <4>2, <4>4, <4>5 DEF mark
    <3> QED
      BY <3>1, <3>2 DEF next
  <2>12. ASSUME NEW j \in Positions, t.board[j] # Empty PROVE \E m \in next : L[m].at = j
    <3>1. CASE j = i
      BY <2>4, <3>1 DEF next
    <3>2. CASE j # i
      <4>1. s.board[j] # Empty
        BY <1>4, <2>1, <2>2, <2>12, <3>2
      <4> QED
        BY <1>3, <4>1 DEF next
    <3> QED
      BY <3>1, <3>2
  <2>13. t.active_player_id = Side(t, Cardinality(next) + 1)
    BY <2>6, <2>7
  <2>14. t.stage # "Lobby"
    BY <2>2
  <2> QED
    BY <2>3, <2>11, <2>12, <2>13, <2>14, Zenon DEF Moved, t
<1>12. CASE event.type \in {"PlayerLeft", "GameEnded"}
  <2>1. /\ t.players = s.players /\ t.board = s.board
        /\ t.stage = "Lobby" => s.stage = "Lobby"
        /\ t.stage = "InGame" => s.stage = "InGame" /\ t.active_player_id = s.active_player_id
    BY <1>1, <1>12 DEF Fields
  <2>2. Of(L, "TilePlaced", n + 1) = moves /\ Of(L, "GameStarted", n + 1) = starts
    BY <1>2, <1>12
  <2>3. \A c : Side(t, c) = Side(s, c)
    BY <2>1 DEF Side
  <2>4. ASSUME NEW m \in moves
        PROVE  /\ t.board[L[m].at] = IF t.players[0] = L[m].player_id THEN "X" ELSE "O"
               /\ L[m].player_id = Side(t, Cardinality({k \in moves : k <= m}))
    BY <1>3, <2>1, <2>3
  <2>5. t.stage = "InGame" => t.active_player_id = Side(t, Cardinality(moves) + 1)
    BY <1>3, <2>1, <2>3
  <2> QED
    BY <1>3, <2>1, <2>2, <2>4, <2>5 DEF Moved, t
<1> QED
  BY <1>1, <1>9, <1>10, <1>11, <1>12 DEF GameEvent

LEMMA LogMoves ==
  ASSUME NEW L \in Seq(GameEvent), Orderly(L), NEW n \in 0..Len(L)
  PROVE  Moved(L, n)
<1> DEFINE T == {m \in Nat : m <= Len(L) => Moved(L, m)}
<1>1. 0 \in T
  <2>1. At(L, 0).stage = "Lobby" /\ \A i \in Positions : At(L, 0).board[i] = Empty
    BY AtStart DEF DefaultState
  <2> QED
    BY <2>1, OfNone DEF Moved
<1>2. ASSUME NEW k \in Nat, k \in T PROVE k + 1 \in T
  <2>1. CASE k + 1 <= Len(L)
    <3>1. k < Len(L) /\ Moved(L, k)
      BY <1>2, <2>1
    <3> QED
      BY <3>1, MovedStep
  <2> QED
    BY <2>1
<1>3. Nat \subseteq T
  <2> HIDE DEF T
  <2> QED
    BY <1>1, <1>2, SetInduction
<1> QED
  BY <1>3

\* The game is over as soon as the log says so, once, and then people leave.
Finished(L, n) ==
  LET ends == Of(L, "GameEnded", n)
  IN  /\ At(L, n).stage = "Ended" <=> ends # {}
      /\ \A e \in ends, k \in 1..n : k > e => L[k].type = "PlayerLeft"

LEMMA FinishedStep ==
  ASSUME NEW L \in Seq(GameEvent), Orderly(L), NEW n \in Nat, n < Len(L), Finished(L, n)
  PROVE  Finished(L, n + 1)
<1> DEFINE s == At(L, n)
           t == At(L, n + 1)
           event == L[n + 1]
           ends == Of(L, "GameEnded", n)
<1>1. event \in GameEvent /\ InPlace(s, L[n], event) /\ Fields(s, event, t)
  BY Onward
<1>2. /\ ends \subseteq 1..n
      /\ Of(L, "GameEnded", n + 1) = IF event.type = "GameEnded" THEN ends \cup {n + 1} ELSE ends
  BY OfNext
<1>3. /\ s.stage = "Ended" <=> ends # {}
      /\ \A e \in ends, k \in 1..n : k > e => L[k].type = "PlayerLeft"
  BY DEF Finished
<1> HIDE DEF s, t, ends
<1>4. t.stage = "Ended" <=> Of(L, "GameEnded", n + 1) # {}
  <2>1. CASE event.type = "GameEnded"
    BY <1>1, <1>2, <2>1 DEF Fields
  <2>2. CASE event.type # "GameEnded"
    <3>1. event.type = "TilePlaced" => event.at \in Positions
      BY <1>1 DEF InPlace
    <3>2. t.stage = "Ended" <=> s.stage = "Ended"
      BY <1>1, <2>2, <3>1 DEF Fields, InPlace, GameEvent
    <3> QED
      BY <1>2, <1>3, <2>2, <3>2
  <2> QED
    BY <2>1, <2>2
<1>5. ASSUME NEW e \in Of(L, "GameEnded", n + 1), NEW k \in 1..(n + 1), k > e
      PROVE  L[k].type = "PlayerLeft"
  <2>1. e \in ends
    BY <1>2, <1>5
  <2>2. CASE k \in 1..n
    BY <1>3, <1>5, <2>1, <2>2
  <2>3. CASE k = n + 1
    <3>1. s.stage = "Ended"
      BY <1>3, <2>1
    <3> QED
      BY <1>1, <2>3, <3>1 DEF InPlace, GameEvent
  <2> QED
    BY <2>2, <2>3
<1> QED
  BY <1>4, <1>5 DEF Finished, t

LEMMA LogFinishes ==
  ASSUME NEW L \in Seq(GameEvent), Orderly(L), NEW n \in 0..Len(L)
  PROVE  Finished(L, n)
<1> DEFINE T == {m \in Nat : m <= Len(L) => Finished(L, m)}
<1>1. 0 \in T
  <2>1. At(L, 0).stage = "Lobby"
    BY AtStart DEF DefaultState
  <2> QED
    BY <2>1, OfNone DEF Finished
<1>2. ASSUME NEW k \in Nat, k \in T PROVE k + 1 \in T
  <2>1. CASE k + 1 <= Len(L)
    <3>1. k < Len(L) /\ Finished(L, k)
      BY <1>2, <2>1
    <3> QED
      BY <3>1, FinishedStep
  <2> QED
    BY <2>1
<1>3. Nat \subseteq T
  <2> HIDE DEF T
  <2> QED
    BY <1>1, <1>2, SetInduction
<1> QED
  BY <1>3

-----------------------------------------------------------------------------
(* What a copy makes of events, sent to it whole or behind others.         *)

\* The events a log may hold: nobody joins without an id, no move is off the
\* board.
SoundEvent ==
  {event \in GameEvent :
     /\ event.type = "PlayerJoined" => event.player_id # NoPlayer
     /\ event.type = "TilePlaced" => event.at \in Positions}

LEMMA OrderlySound ==
  ASSUME NEW L \in Seq(GameEvent), Orderly(L)
  PROVE  \A k \in 1..Len(L) : L[k] \in SoundEvent
<1> SUFFICES ASSUME NEW k \in 1..Len(L) PROVE L[k] \in SoundEvent
  OBVIOUS
<1>1. L[k] \in GameEvent /\ InPlace(At(L, k - 1), L[k - 1], L[k])
  BY DEF Orderly
<1>2. L[k].type = "PlayerJoined" => L[k].player_id # NoPlayer
  BY <1>1 DEF InPlace, Calm
<1>3. L[k].type = "TilePlaced" => L[k].at \in Positions
  BY <1>1 DEF InPlace
<1> QED
  BY <1>1, <1>2, <1>3 DEF SoundEvent

\* One sound event more, in any order.
LEMMA SoundOnward ==
  ASSUME NEW M \in Seq(GameEvent), \A k \in 1..Len(M) : M[k] \in SoundEvent,
         NEW n \in Nat, n < Len(M)
  PROVE  /\ M[n + 1] \in SoundEvent /\ M[n + 1] \in GameEvent
         /\ At(M, n) \in GameState /\ At(M, n + 1) \in GameState
         /\ Fields(At(M, n), M[n + 1], At(M, n + 1))
<1>1. n + 1 \in 1..Len(M) /\ n \in 0..Len(M) /\ (n + 1) - 1 = n
  OBVIOUS
<1>2. M[n + 1] \in GameEvent /\ M[n + 1] \in SoundEvent
  BY <1>1
<1>3. At(M, n) \in GameState /\ At(M, n + 1) = evolve(At(M, n), M[n + 1])
  BY <1>1, AtTyped, AtNext
<1> QED
  BY <1>2, <1>3, EventFields

\* Whatever is not told in a stretch of events stays as it is.
Stays(M, m, n) ==
  LET Quiet(types) == \A k \in (m + 1)..n : M[k].type \notin types
      s == At(M, m)
      t == At(M, n)
  IN  /\ Quiet({"GameStarted", "GameEnded"}) => t.stage = s.stage
      /\ Quiet({"GameStarted", "TilePlaced"}) => t.active_player_id = s.active_player_id
      /\ Quiet({"TilePlaced"}) => t.board = s.board
      /\ t.stage = "Lobby" => s.stage = "Lobby"
      /\ Quiet({"GameEnded"}) => (t.stage = "Ended" => s.stage = "Ended")

LEMMA StretchStays ==
  ASSUME NEW M \in Seq(GameEvent), \A k \in 1..Len(M) : M[k] \in SoundEvent,
         NEW m \in 0..Len(M), NEW n \in m..Len(M)
  PROVE  Stays(M, m, n)
<1> DEFINE T == {d \in Nat : m + d <= Len(M) => Stays(M, m, m + d)}
<1>1. 0 \in T
  BY DEF Stays
<1>2. ASSUME NEW d \in Nat, d \in T, m + (d + 1) <= Len(M) PROVE Stays(M, m, m + (d + 1))
  <2> DEFINE i == m + d
             s == At(M, m)
             r == At(M, i)
             t == At(M, i + 1)
             event == M[i + 1]
  <2>1. i \in Nat /\ i < Len(M) /\ i + 1 = m + (d + 1) /\ Stays(M, m, i)
    BY <1>2
  <2>2. event \in SoundEvent /\ event \in GameEvent /\ Fields(r, event, t)
    BY <2>1, SoundOnward
  <2>3. /\ event.type \notin {"GameStarted", "GameEnded"} => t.stage = r.stage
        /\ event.type \notin {"GameStarted", "TilePlaced"} =>
             t.active_player_id = r.active_player_id
        /\ event.type # "TilePlaced" => t.board = r.board
        /\ t.stage = "Lobby" => r.stage = "Lobby"
        /\ event.type # "GameEnded" => (t.stage = "Ended" => r.stage = "Ended")
    <3> HIDE DEF event, r, t
    <3> QED
      BY <2>2 DEF Fields, SoundEvent, GameEvent
  <2>4. i + 1 \in (m + 1)..(i + 1) /\ \A k \in (m + 1)..i : k \in (m + 1)..(i + 1)
    BY <2>1
  <2>5. Stays(M, m, i + 1)
    <3>1. /\ (\A k \in (m + 1)..i : M[k].type \notin {"GameStarted", "GameEnded"}) =>
               r.stage = s.stage
          /\ (\A k \in (m + 1)..i : M[k].type \notin {"GameStarted", "TilePlaced"}) =>
               r.active_player_id = s.active_player_id
          /\ (\A k \in (m + 1)..i : M[k].type \notin {"TilePlaced"}) => r.board = s.board
          /\ r.stage = "Lobby" => s.stage = "Lobby"
          /\ (\A k \in (m + 1)..i : M[k].type \notin {"GameEnded"}) =>
               (r.stage = "Ended" => s.stage = "Ended")
      BY <2>1 DEF Stays
    <3> HIDE DEF i, r, s
    <3> QED
      BY <2>3, <2>4, <3>1 DEF Stays, r, s
  <2> QED
    BY <2>1, <2>5
<1>3. ASSUME NEW d \in Nat, d \in T PROVE d + 1 \in T
  BY <1>2, <1>3
<1>4. Nat \subseteq T
  <2> HIDE DEF T
  <2> QED
    BY <1>1, <1>3, SetInduction
<1>5. n - m \in Nat /\ m + (n - m) = n
  OBVIOUS
<1> QED
  BY <1>4, <1>5

\* Whoever joins first sits first, whatever a copy is told besides.
FirstSits(M, n) ==
  LET s == At(M, n)
      joins == Of(M, "PlayerJoined", n)
  IN  \/ joins = {} /\ s.players[0] = NoPlayer /\ s.players[1] = NoPlayer
      \/ /\ s.players[0] # NoPlayer
         /\ \E i \in joins : (\A k \in joins : i <= k) /\ s.players[0] = M[i].player_id

LEMMA FirstSitsFirst ==
  ASSUME NEW M \in Seq(GameEvent), \A k \in 1..Len(M) : M[k] \in SoundEvent,
         NEW n \in 0..Len(M)
  PROVE  FirstSits(M, n)
<1> DEFINE T == {m \in Nat : m <= Len(M) => FirstSits(M, m)}
<1>1. 0 \in T
  <2>1. At(M, 0).players[0] = NoPlayer /\ At(M, 0).players[1] = NoPlayer
    BY AtStart DEF DefaultState
  <2> QED
    BY <2>1, OfNone DEF FirstSits
<1>2. ASSUME NEW m \in Nat, m < Len(M), FirstSits(M, m) PROVE FirstSits(M, m + 1)
  <2> DEFINE s == At(M, m)
             t == At(M, m + 1)
             event == M[m + 1]
             joins == Of(M, "PlayerJoined", m)
  <2>1. /\ event \in SoundEvent /\ event \in GameEvent /\ Fields(s, event, t)
        /\ s \in GameState
    BY <1>2, SoundOnward
  <2>2. /\ joins \subseteq 1..m
        /\ Of(M, "PlayerJoined", m + 1) =
             IF event.type = "PlayerJoined" THEN joins \cup {m + 1} ELSE joins
    BY OfNext
  <2>3. \/ joins = {} /\ s.players[0] = NoPlayer /\ s.players[1] = NoPlayer
        \/ /\ s.players[0] # NoPlayer
           /\ \E i \in joins : (\A k \in joins : i <= k) /\ s.players[0] = M[i].player_id
    BY <1>2 DEF FirstSits
  <2>4. s.players \in [0..1 -> PlayerId] /\ event.player_id = M[m + 1].player_id
    BY <2>1 DEF GameState
  <2> HIDE DEF s, t, event, joins
  <2>5. CASE event.type = "PlayerJoined"
    <3>1. /\ event.player_id # NoPlayer
          /\ t.players = [s.players EXCEPT ![IF s.players[0] = NoPlayer THEN 0 ELSE 1]
                                             = event.player_id]
      BY <2>1, <2>5 DEF Fields, SoundEvent
    <3>2. CASE joins = {} /\ s.players[0] = NoPlayer /\ s.players[1] = NoPlayer
      <4>1. t.players[0] = event.player_id
        BY <2>4, <3>1, <3>2
      <4>2. Of(M, "PlayerJoined", m + 1) = {m + 1} /\ m + 1 <= m + 1
        BY <2>2, <2>5, <3>2
      <4> QED
        BY <2>4, <3>1, <4>1, <4>2 DEF FirstSits, t
    <3>3. CASE s.players[0] # NoPlayer
      <4>1. t.players[0] = s.players[0]
        BY <2>4, <3>1, <3>3
      <4>2. PICK i \in joins : (\A k \in joins : i <= k) /\ s.players[0] = M[i].player_id
        BY <2>3, <3>3
      <4>3. i \in 1..m /\ i <= m + 1
        BY <2>2
      <4>4. i \in joins \cup {m + 1} /\ \A k \in joins \cup {m + 1} : i <= k
        BY <4>2, <4>3
      <4> QED
        BY <2>2, <2>5, <3>3, <4>1, <4>2, <4>4 DEF FirstSits, t
    <3> QED
      BY <2>3, <3>2, <3>3
  <2>6. CASE event.type # "PlayerJoined"
    <3>1. t.players = s.players
      BY <2>1, <2>6 DEF Fields, SoundEvent, GameEvent
    <3> QED
      BY <2>2, <2>3, <2>6, <3>1 DEF FirstSits, t
  <2> QED
    BY <2>5, <2>6
<1>3. ASSUME NEW m \in Nat, m \in T PROVE m + 1 \in T
  BY <1>2, <1>3
<1>4. Nat \subseteq T
  <2> HIDE DEF T
  <2> QED
    BY <1>1, <1>3, SetInduction
<1> QED
  BY <1>4

(* A log retold to a copy that has been told other events before: stage    *)
(* and, from the second join on, the second slot are the log's again.  The *)
(* first slot is whoever the copy had there; if that is not somebody else, *)
(* or nobody has moved, turn and board are the log's as well.              *)
Retold(D, L, n) ==
  LET first == hydrate(D).players[0]
      v == At(D \o L, Len(D) + n)
      s == At(L, n)
  IN  /\ s.stage # "Lobby" => v.stage = s.stage
      /\ s.stage = "Lobby" => v.board = s.board
      /\ first = NoPlayer => v.players = s.players
      /\ first # NoPlayer =>
           v.players[0] = first /\ (s.players[1] # NoPlayer => v.players[1] = s.players[1])
      /\ s.stage # "Lobby" /\ (first \in {NoPlayer, s.players[0]} \/ s.board = DefaultState.board) =>
           v.board = s.board /\ v.active_player_id = s.active_player_id

LEMMA RetoldStep ==
  ASSUME NEW D \in Seq(GameEvent), NEW L \in Seq(GameEvent), Orderly(L),
         \A k \in 1..Len(D) : D[k] \in SoundEvent,
         NEW n \in Nat, n < Len(L), Retold(D, L, n)
  PROVE  Retold(D, L, n + 1)
<1> DEFINE first == hydrate(D).players[0]
           M == D \o L
           i == Len(D) + n
           s == At(L, n)
           t == At(L, n + 1)
           v == At(M, i)
           w == At(M, i + 1)
           event == L[n + 1]
<1>1. /\ event \in GameEvent /\ InPlace(s, L[n], event) /\ Fields(s, event, t)
      /\ s \in GameState
  BY Onward
<1>2. M \in Seq(GameEvent) /\ InParts(D, L, M)
  BY ConcatParts
<1> HIDE DEF M
<1>3. /\ i \in Nat /\ i < Len(M) /\ i + 1 = Len(D) + (n + 1) /\ M[i + 1] = event
  <2>1. n + 1 \in 1..Len(L)
    OBVIOUS
  <2> QED
    BY <1>2, <2>1 DEF InParts
<1>4. \A k \in 1..Len(M) : M[k] \in SoundEvent
  <2>1. \A k \in 1..Len(L) : L[k] \in SoundEvent
    BY OrderlySound
  <2> QED
    BY <1>2, <2>1 DEF InParts
<1>5. v \in GameState /\ Fields(v, event, w)
  <2> HIDE DEF i
  <2> QED
    BY <1>2, <1>3, <1>4, SoundOnward
<1>6. /\ s.stage # "Lobby" => v.stage = s.stage
      /\ s.stage = "Lobby" => v.board = s.board
      /\ first = NoPlayer => v.players = s.players
      /\ first # NoPlayer =>
           v.players[0] = first /\ (s.players[1] # NoPlayer => v.players[1] = s.players[1])
      /\ s.stage # "Lobby" /\ (first \in {NoPlayer, s.players[0]} \/ s.board = DefaultState.board) =>
           v.board = s.board /\ v.active_player_id = s.active_player_id
  BY DEF Retold, M
<1>7. s.stage # "Lobby" => s.players[1] # NoPlayer
  <2>1. n \in 0..Len(L)
    OBVIOUS
  <2>2. Seated(L, n)
    BY <2>1, LogSeats
  <2> QED
    BY <2>2 DEF Seated
<1>8. s.players \in [0..1 -> PlayerId] /\ v.players \in [0..1 -> PlayerId]
      /\ s.board \in [Positions -> Tile]
  BY <1>1, <1>5 DEF GameState
<1> SUFFICES
      /\ t.stage # "Lobby" => w.stage = t.stage
      /\ t.stage = "Lobby" => w.board = t.board
      /\ first = NoPlayer => w.players = t.players
      /\ first # NoPlayer =>
           w.players[0] = first /\ (t.players[1] # NoPlayer => w.players[1] = t.players[1])
      /\ t.stage # "Lobby" /\ (first \in {NoPlayer, t.players[0]} \/ t.board = DefaultState.board) =>
           w.board = t.board /\ w.active_player_id = t.active_player_id
  BY <1>3 DEF Retold, M
<1> HIDE DEF first, i, s, t, v, w, event
<1>9. CASE event.type = "PlayerJoined"
  <2>1. /\ s.stage = "Lobby" /\ t.stage = "Lobby" /\ t.board = s.board /\ w.board = v.board
        /\ s.players[1] = NoPlayer
        /\ t.players = [s.players EXCEPT ![IF s.players[0] = NoPlayer THEN 0 ELSE 1]
                                           = event.player_id]
        /\ w.players = [v.players EXCEPT ![IF v.players[0] = NoPlayer THEN 0 ELSE 1]
                                           = event.player_id]
    BY <1>1, <1>5, <1>9 DEF Fields, InPlace, Calm
  <2> QED
    BY <1>6, <1>8, <2>1
<1>10. CASE event.type = "GameStarted"
  <2>1. /\ s.stage = "Lobby"
        /\ t.players = s.players /\ t.stage = "InGame" /\ t.board = s.board
        /\ t.active_player_id = event.goes_first
        /\ w.players = v.players /\ w.stage = "InGame" /\ w.board = v.board
        /\ w.active_player_id = event.goes_first
    BY <1>1, <1>5, <1>10 DEF Fields, InPlace
  <2> QED
    BY <1>6, <2>1
<1>11. CASE event.type = "TilePlaced"
  <2>1. /\ s.stage = "InGame" /\ event.player_id = s.active_player_id /\ event.at \in Positions
    BY <1>1, <1>11 DEF InPlace
  <2>2. /\ t.players = s.players /\ t.stage = s.stage
        /\ t.board = [s.board EXCEPT ![event.at] =
                        IF s.players[0] = event.player_id THEN "X" ELSE "O"]
        /\ t.active_player_id = IF s.players[0] = event.player_id
                                THEN s.players[1] ELSE s.players[0]
        /\ w.players = v.players /\ w.stage = v.stage
        /\ w.board = [v.board EXCEPT ![event.at] =
                        IF v.players[0] = event.player_id THEN "X" ELSE "O"]
        /\ w.active_player_id = IF v.players[0] = event.player_id
                                THEN v.players[1] ELSE v.players[0]
    BY <1>1, <1>5, <1>11, <2>1 DEF Fields
  <2>3. t.board # DefaultState.board
    <3>1. t.board[event.at] \in {"X", "O"} /\ DefaultState.board[event.at] = Empty
      BY <1>8, <2>1, <2>2 DEF DefaultState
    <3> QED
      BY <3>1 DEF Empty
  <2>4. first \in {NoPlayer, s.players[0]} =>
          v.players[0] = s.players[0] /\ v.players[1] = s.players[1]
    BY <1>6, <1>7, <2>1
  <2> QED
    BY <1>6, <1>7, <2>1, <2>2, <2>3, <2>4
<1>12. CASE event.type \in {"PlayerLeft", "GameEnded"}
  <2>1. /\ t.players = s.players /\ w.players = v.players /\ t.board = s.board /\ w.board = v.board
        /\ t.active_player_id = s.active_player_id /\ w.active_player_id = v.active_player_id
    BY <1>1, <1>5, <1>12 DEF Fields
  <2>2. \/ t.stage = s.stage /\ w.stage = v.stage
        \/ s.stage = "InGame" /\ t.stage = "Ended" /\ w.stage = "Ended"
    BY <1>1, <1>5, <1>12 DEF Fields, InPlace
  <2> QED
    BY <1>6, <2>1, <2>2
<1> QED
  BY <1>1, <1>9, <1>10, <1>11, <1>12 DEF GameEvent

LEMMA LogRetold ==
  ASSUME NEW D \in Seq(GameEvent), NEW L \in Seq(GameEvent), Orderly(L),
         \A k \in 1..Len(D) : D[k] \in SoundEvent /\ D[k].type # "TilePlaced",
         NEW n \in 0..Len(L)
  PROVE  Retold(D, L, n)
<1> DEFINE T == {m \in Nat : m <= Len(L) => Retold(D, L, m)}
<1>1. 0 \in T
  <2>1. Len(D) \in Nat /\ Len(D) \in 0..Len(D) /\ Len(D) + 0 = Len(D) /\ 0 \in 0..Len(D)
    OBVIOUS
  <2>2. At(D \o L, Len(D)) = At(D, Len(D)) /\ At(D, Len(D)) = hydrate(D)
    BY <2>1, AtPrefix, AtEnd
  <2>3. At(L, 0) = DefaultState /\ At(D, 0) = DefaultState
    BY AtStart
  <2>4. Stays(D, 0, Len(D)) /\ FirstSits(D, Len(D))
    <3>1. \A k \in 1..Len(D) : D[k] \in SoundEvent
      OBVIOUS
    <3> QED
      BY <2>1, <3>1, StretchStays, FirstSitsFirst
  <2>5. hydrate(D).board = DefaultState.board
    BY <2>1, <2>2, <2>3, <2>4 DEF Stays
  <2>6. hydrate(D).players[0] = NoPlayer => hydrate(D).players[1] = NoPlayer
    BY <2>2, <2>4 DEF FirstSits
  <2>7. hydrate(D).players \in [0..1 -> PlayerId]
    BY <2>1, <2>2, AtTyped DEF GameState
  <2>8. /\ DefaultState.stage = "Lobby" /\ DefaultState.players = [k \in 0..1 |-> NoPlayer]
    BY DEF DefaultState
  <2>9. hydrate(D).players[0] = NoPlayer => hydrate(D).players = DefaultState.players
    BY <2>6, <2>7, <2>8
  <2> QED
    BY <2>1, <2>2, <2>3, <2>5, <2>8, <2>9 DEF Retold
<1>2. ASSUME NEW m \in Nat, m \in T PROVE m + 1 \in T
  <2>1. CASE m + 1 <= Len(L)
    <3>1. m < Len(L) /\ Retold(D, L, m)
      BY <1>2, <2>1
    <3>2. \A k \in 1..Len(D) : D[k] \in SoundEvent
      OBVIOUS
    <3> QED
      BY <3>1, <3>2, RetoldStep
  <2> QED
    BY <2>1
<1>3. Nat \subseteq T
  <2> HIDE DEF T
  <2> QED
    BY <1>1, <1>2, SetInduction
<1> QED
  BY <1>3
=============================================================================
