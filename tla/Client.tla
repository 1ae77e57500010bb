------------------------------ MODULE Client ------------------------------
(***************************************************************************)
(* client/src/main.rs, every running client at once: the state it folds    *)
(* out of the events it receives, the pair of players it derives from      *)
(* them, the pieces and the status line it shows, and the clicks its       *)
(* guards let through.                                                     *)
(***************************************************************************)
EXTENDS Decider, Renet, Pointer, FiniteSetsExt

CONSTANTS
  Cursors,  \* of each client: the places in its window it clicks at
  MaxClicks \* bound: moves one client sends

ASSUME ClientBounds ==
  /\ Cursors \in [Clients -> SUBSET (Int \X Int)]
  /\ Positions \subseteq TileIndices
  /\ MaxClicks \in Nat

VARIABLES
  view,   \* of each client: its BevyGameState
  read,   \* of each client: how much of its downlink is in its ReceivedEvents
  pair,   \* of each client: its MaybePair, << >> or the ids of X and O
  pieces, \* of each client: the Pieces spawned, <<k, cell, symbol drawn>> for
          \* the placement that was the k-th event it received
  status, \* of each client: its StatusText
  clicks  \* of each client: <<cell, tiles on the board it saw>> of its moves

client == <<view, read, pair, pieces, status, clicks>>

\* A status text, and the player it names: NoPlayer stands for "Opponent".
Text(text, who) == [text |-> text, who |-> who]
Waiting == Text("Waiting", NoPlayer)

ClientInit ==
  /\ view = [c \in Clients |-> DefaultState]
  /\ read = [c \in Clients |-> 0]
  /\ pair = [c \in Clients |-> << >>]
  /\ pieces = [c \in Clients |-> {}]
  /\ status = [c \in Clients |-> Waiting]
  /\ clicks = [c \in Clients |-> << >>]

\* set_local_player_id sends the client's own JoinGame in its first frame.
Greeting(c) == << [type |-> "JoinGame", player_id |-> c] >>

\* The processes of some clients end: who is cut off never connects again.
Quit(cut) ==
  /\ view' = [c \in Clients |-> IF c \in cut THEN DefaultState ELSE view[c]]
  /\ read' = [c \in Clients |-> IF c \in cut THEN 0 ELSE read[c]]
  /\ pair' = [c \in Clients |-> IF c \in cut THEN << >> ELSE pair[c]]
  /\ pieces' = [c \in Clients |-> IF c \in cut THEN {} ELSE pieces[c]]
  /\ status' = [c \in Clients |-> IF c \in cut THEN Waiting ELSE status[c]]
  /\ clicks' = [c \in Clients |-> IF c \in cut THEN << >> ELSE clicks[c]]

-----------------------------------------------------------------------------
(* What a frame does with the events that have arrived.                    *)

\* Mutant: only the last event of the frame is applied.
receive_server_events_LastOnly(c, events) ==
  /\ view' = [view EXCEPT ![c] = evolve(@, events[Len(events)])]
  /\ read' = [read EXCEPT ![c] = @ + Len(events)]

\* receive_server_events: the channel is drained, each event applied.
receive_server_events(c, events) ==
  /\ view' = [view EXCEPT ![c] = Replay(@, events)]
  /\ read' = [read EXCEPT ![c] = @ + Len(events)]

\* The PlayerJoined among the first events received, and who is in them.
Joins(c, received) == {k \in 1..received : downlink[c][k].type = "PlayerJoined"}
Joiner(c, k) == downlink[c][k].player_id

\* Mutant: the pair is built from the first joins, without waiting for two.
update_pair_Early(c) ==
  LET joins == Joins(c, read'[c])
  IN  pair' = [pair EXCEPT ![c] = IF @ = << >> /\ joins # {}
                                  THEN <<Joiner(c, Min(joins)), Joiner(c, Max(joins))>> ELSE @]

\* update_pair: once set it stays; it is set at exactly two joins received.
update_pair(c) ==
  LET joins == Joins(c, read'[c])
  IN  pair' = [pair EXCEPT ![c] = IF @ = << >> /\ Cardinality(joins) = 2
                                  THEN <<Joiner(c, Min(joins)), Joiner(c, Max(joins))>> ELSE @]

\* Mutant: O is looked at first.
symbol_of_OFirst(names, p) ==
  IF names = << >> THEN "?" ELSE IF names[2] = p THEN "O" ELSE "X"

\* PlayerPair::symbol_of, and "?" without a pair: not X is O.
symbol_of(names, p) ==
  IF names = << >> THEN "?" ELSE IF names[1] = p THEN "X" ELSE "O"

\* PlayerPair::name_of, and "Opponent" for whom the pair does not know.
name_of(names, p) == IF \E k \in 1..Len(names) : names[k] = p THEN p ELSE NoPlayer

\* The events of a frame: what has been read now and had not been before.
New(c) == (read[c] + 1)..read'[c]

\* render_pieces: one more Piece for every placement, none is ever removed.
render_pieces(c, names) ==
  LET placed == {k \in New(c) : downlink[c][k].type = "TilePlaced"}
      Piece(k) == <<k, downlink[c][k].at, symbol_of(names, downlink[c][k].player_id)>>
  IN  pieces' = [pieces EXCEPT ![c] = @ \cup {Piece(k) : k \in placed}]

\* The text of the arms GameStarted and TilePlaced, and of the arm GameEnded.
TurnText(c, s, names) ==
  IF s.active_player_id = c THEN Text("YourTurn", NoPlayer)
  ELSE Text("Turn", name_of(names, s.active_player_id))

EndText(c, event, names) ==
  CASE event.reason = "Draw" -> Text("Draw", NoPlayer)
    [] event.reason = "PlayerLeft" -> Text("OpponentLeft", NoPlayer)
    [] event.reason = "PlayerWon" ->
         IF event.player_id = c THEN Text("YouWin", NoPlayer)
         ELSE Text("Wins", name_of(names, event.player_id))

\* The new events that have an arm of their own, for a copy in a stage: turns
\* are told in a running game only.
Telling(c, turns, stage) ==
  {k \in New(c) : \/ downlink[c][k].type \in turns /\ stage = "InGame"
                  \/ downlink[c][k].type = "GameEnded"}

\* What the last of these events has the player read.
Tell(c, s, names, telling) ==
  IF telling = {} THEN UNCHANGED status
  ELSE LET last == downlink[c][Max(telling)]
       IN  status' = [status EXCEPT ![c] =
             IF last.type = "GameEnded" THEN EndText(c, last, names)
             ELSE TurnText(c, s, names)]

\* Mutant: they are judged by the copy before the first of them.
update_status_OldCopy(c, names) ==
  Tell(c, view[c], names, Telling(c, {"GameStarted", "TilePlaced"}, view[c].stage))

\* Mutant: a move is no news.
update_status_IgnoresMoves(c, names) ==
  Tell(c, view'[c], names, Telling(c, {"GameStarted"}, view'[c].stage))

\* update_status: all events are judged by the copy after the last of them,
\* and the last that matters is what the player reads.
update_status(c, names) ==
  Tell(c, view'[c], names, Telling(c, {"GameStarted", "TilePlaced"}, view'[c].stage))

\* The PostUpdate of a frame that finds events, and the Update of the next one,
\* which reads them.  Nothing orders the systems of Update: the pair may be
\* the old or the new one, for each of those that use it.
Frame(c, arrived) ==
  /\ c \in connected
  /\ LET events == SubSeq(downlink[c], read[c] + 1, read[c] + arrived)
     IN  /\ receive_server_events(c, events)
         /\ update_pair(c)
         /\ \E names \in {pair[c], pair'[c]} : render_pieces(c, names)
         /\ \E names \in {pair[c], pair'[c]} : update_status(c, names)
  /\ UNCHANGED <<renet, clicks>>

-----------------------------------------------------------------------------

PlaceTile(c, at) == [type |-> "PlaceTile", player_id |-> c, at |-> at]

TilesOn(board) == Cardinality({i \in Positions : board[i] # Empty})

\* Mutant: the turn is not looked at.
MayClick_AnyTurn(c, at) ==
  /\ view[c].stage = "InGame"
  /\ view[c].board[at] = Empty

\* The guards of handle_input, all on the client's own copy of the game.
MayClick(c, at) ==
  /\ view[c].stage = "InGame"
  /\ view[c].active_player_id = c
  /\ view[c].board[at] = Empty

\* handle_input sees the button pressed: the copy is left as it is.
Click(c, cursor) ==
  /\ c \in connected /\ Len(clicks[c]) < MaxClicks
  /\ LET at == CellAt(cursor)
     IN  /\ at # Nowhere
         /\ MayClick(c, at)
         /\ clicks' = [clicks EXCEPT ![c] = Append(@, <<at, TilesOn(view[c].board)>>)]
         /\ uplink' = [uplink EXCEPT ![c] = Append(@, PlaceTile(c, at))]
  /\ UNCHANGED <<connected, gone, serverEvents, downlink, view, read, pair, pieces, status>>

Unread(c) == 1..(Len(downlink[c]) - read[c])

ClientNext(c) ==
  \/ \E arrived \in Unread(c) : Frame(c, arrived)
  \/ \E cursor \in Cursors[c] : Click(c, cursor)
=============================================================================
