------------------------------ MODULE System ------------------------------
(***************************************************************************)
(* The game as it is played: the server's loop, the clients, and the       *)
(* network between them that lets clients come and go.  Commands also come *)
(* back from the topic.  Clients act between two ticks, which is all the   *)
(* server can see of when they act: it receives in the update only, and    *)
(* its packets leave at the end of the tick.                               *)
(***************************************************************************)
EXTENDS Server, Client

CONSTANT MaxRestarts \* bound: restarts of the server
ASSUME RestartsBounded == MaxRestarts \in Nat

VARIABLE restarts \* how many there were

vars == <<renet, server, client, restarts>>

Init == RenetInit /\ ServerInit /\ ClientInit /\ restarts = 0

Enter(c) ==
  /\ step = "update"
  /\ Connect(c, Greeting(c))
  /\ UNCHANGED <<server, client, restarts>>

Leave(c) ==
  /\ step = "update"
  /\ Disconnect(c)
  /\ Quit({c})
  /\ UNCHANGED <<server, restarts>>

Play(c) ==
  /\ step = "update"
  /\ ClientNext(c)
  /\ UNCHANGED <<server, restarts>>

Serve == ServerNext /\ UNCHANGED <<client, restarts>>

\* What is lost with the process: the connections and every client's session.
CutOff ==
  /\ connected' = {} /\ gone' = gone \cup connected
  /\ serverEvents' = << >>
  /\ uplink' = [c \in Clients |-> << >>]
  /\ downlink' = [c \in Clients |-> << >>]
  /\ Quit(Clients)

\* Mutant: the game id is the same after a restart.
Restart_SameGame ==
  /\ restarts < MaxRestarts
  /\ restarts' = restarts + 1
  /\ step' = "update" /\ polled' = {} /\ messages' = << >>
  /\ log' = << >> /\ state' = DefaultState
  /\ CutOff
  /\ UNCHANGED topic

\* The process ends and starts again with an empty store and a new game id, so
\* that what is in the topic is for another game.
Restart ==
  /\ restarts < MaxRestarts
  /\ restarts' = restarts + 1
  /\ step' = "update" /\ polled' = {} /\ messages' = << >>
  /\ topic' = {} /\ log' = << >> /\ state' = DefaultState
  /\ CutOff

Next ==
  \/ \E c \in Clients : Enter(c) \/ Leave(c) \/ Play(c)
  \/ Serve
  \/ Restart

Spec == Init /\ [][Next]_vars

\* A frame between two ticks that finds something to read.
Receive(c) ==
  /\ step = "update"
  /\ \E arrived \in Unread(c) : Frame(c, arrived)
  /\ UNCHANGED <<server, restarts>>

\* A turn of the drain for a client of whom something has arrived.
Deliver(c) ==
  /\ c \in connected
  /\ \E arrived \in 1..Len(uplink[c]) : Poll(c, arrived)
  /\ UNCHANGED <<client, restarts>>

\* The loop goes on while the process runs, and the channels are reliable: of
\* what is sent again and again to who stays, something arrives, either way.
\* Nobody has to click, to come or to go.
FairSpec ==
  /\ Spec
  /\ WF_vars(Serve)
  /\ \A c \in Clients : SF_vars(Receive(c)) /\ SF_vars(Deliver(c))

-----------------------------------------------------------------------------

TypeOK ==
  /\ step \in {"update", "tick"} /\ polled \subseteq connected
  /\ state \in GameState
  /\ topic \subseteq GameCommand
  /\ connected \subseteq Clients /\ gone \subseteq Clients \ connected
  /\ Cardinality(connected) <= MaxClients
  /\ view \in [Clients -> GameState]
  /\ \A c \in Clients :
       /\ read[c] \in 0..Len(downlink[c])
       /\ uplink[c] \in Seq(GameCommand)
       /\ Len(pair[c]) \in {0, 2}

\* The loop has handled the notice of this client's connection.
Greeted(c) ==
  /\ c \in connected
  /\ \A k \in 1..Len(serverEvents) : serverEvents[k] # ClientConnected(c)

(* What a client is sent is the whole log in order, behind nothing or a    *)
(* stretch of it: the events handled between its connection and its        *)
(* catch-up reach it twice, and nothing is missing or out of order.        *)
StreamIsLog ==
  \A c \in Clients :
    Greeted(c) =>
      \E a \in 1..(Len(log) + 1), b \in 0..Len(log) :
        downlink[c] = SubSeq(log, a, b) \o log

\* A client that has been caught up and has read all it was sent.
UpToDate(c) == Greeted(c) /\ read[c] = Len(downlink[c])

(* A client that has received all it was sent sees the server's game:      *)
(* stage, board and turn, although evolve was not made for the duplicates  *)
(* of a catch-up and may seat the players elsewhere in the client's copy.  *)
ViewsConverge ==
  \A c \in Clients :
    UpToDate(c) =>
      /\ view[c].stage = state.stage
      /\ view[c].board = state.board
      /\ view[c].active_player_id = state.active_player_id

(* The server replays its log for every command, a client folds in what    *)
(* each frame brings: an up-to-date client that was sent the log once has  *)
(* the server's very state, slots included.                                *)
ExactCopies ==
  \A c \in Clients : UpToDate(c) /\ downlink[c] = log => view[c] = state

(* Pieces are spawned one by one and never looked at again: an up-to-date  *)
(* client has drawn one for each tile taken, none twice, and the symbol it *)
(* took from its pair (right, wrong or unset) is the one evolve took from  *)
(* the slots, unless it is a question mark.                                *)
PiecesShowBoard ==
  \A c \in Clients :
    UpToDate(c) =>
      /\ {piece[2] : piece \in pieces[c]} = {i \in Positions : state.board[i] # Empty}
      /\ Cardinality(pieces[c]) = TilesOn(state.board)
      /\ \A piece \in pieces[c] : piece[3] \in {state.board[piece[2]], "?"}

(* The status line changes on some events only and keeps its text on all   *)
(* others: an up-to-date client still reads there whose turn it is, or how *)
(* the game ended, in its own view of winner and loser.                    *)
StatusIsCurrent ==
  \A c \in Clients :
    UpToDate(c) =>
      LET text == status[c].text
          Names(p) == status[c].who \in {p, NoPlayer}
          Ended(reason, p) == \E k \in 1..Len(log) : log[k] = GameEnded(reason, p)
      IN  CASE state.stage = "Lobby" -> text = "Waiting"
            [] state.stage = "InGame" ->
                 IF state.active_player_id = c THEN text = "YourTurn"
                 ELSE text = "Turn" /\ Names(state.active_player_id)
            [] state.stage = "Ended" ->
                 \/ text = "YouWin" /\ Ended("PlayerWon", c)
                 \/ text = "Draw" /\ Ended("Draw", NoPlayer)
                 \/ \E p \in Players \ {c} :
                      text = "Wins" /\ Names(p) /\ Ended("PlayerWon", p)
                 \/ \E p \in Players : text = "OpponentLeft" /\ Ended("PlayerLeft", p)

\* A client that has clicked again on a board it had clicked on before.
Hasty(c) ==
  \E j, k \in 1..Len(clicks[c]) : j # k /\ clicks[c][j][2] = clicks[c][k][2]

(* The turn is checked in a copy that may be behind, and the server checks *)
(* it again.  A client that clicks once for each turn it sees never loses  *)
(* a move: what it sent is accepted, unless the game has ended meanwhile.  *)
SingleClicksCount ==
  \A c \in connected :
    ~ Hasty(c)
    => \A at \in Positions :
         (\/ \E k \in 1..Len(uplink[c]) : uplink[c][k] = PlaceTile(c, at)
          \/ \E k \in 1..Len(messages) : messages[k] = PlaceTile(c, at))
         => state.stage = "Ended" \/ decide(state, PlaceTile(c, at)).error = "None"

DepartureNoticed(c) ==
  \E k \in 1..Len(serverEvents) : serverEvents[k] = ClientDisconnected(c)

(* A game does not go on without a player: one who is not there has a      *)
(* notice pending that will end it, or had left before it began (and kept  *)
(* the slot: leaving in the lobby frees none).                             *)
AbandonedGamesEnd ==
  state.stage = "InGame" =>
    \A k \in 0..1 :
      LET p == state.players[k]
      IN  \/ p \in connected \/ DepartureNoticed(p)
          \/ \E i, j \in 1..Len(log) :
               i < j /\ log[i] = PlayerLeft(p) /\ log[j].type = "GameStarted"

(* A client whose stream came without duplicates has the pair of players   *)
(* the server has, X first, as soon as it has read that both are seated;   *)
(* names and colours of the pieces hang on it.                             *)
PairFollowsSlots ==
  \A c \in connected :
    Greeted(c) /\ downlink[c] = log =>
      /\ pair[c] # << >> => pair[c] = <<state.players[0], state.players[1]>>
      /\ UpToDate(c) /\ state.players[1] # NoPlayer => pair[c] # << >>

(* Such a click does become a move, unless the game ends or the player     *)
(* goes: what is sent to the server reaches its log, whoever else is       *)
(* polled in the same tick and whatever the topic brings back before it.   *)
ClicksBecomeMoves ==
  \A c \in Clients : \A cursor \in Cursors[c] :
    LET at == CellAt(cursor)
        sent == \E k \in 1..Len(uplink[c]) : uplink[c][k] = PlaceTile(c, at)
        played == \E k \in 1..Len(log) : log[k] = TilePlaced(c, at)
    IN  sent ~> (played \/ Hasty(c) \/ state.stage = "Ended" \/ c \notin connected)

(* When a player of a running game goes, the game ends and the other one   *)
(* reads it in the status line, unless it goes as well.                    *)
DeparturesAreSeen ==
  \A c \in Clients : \A d \in Clients \ {c} :
    (state.stage = "InGame" /\ DepartureNoticed(c) /\ d \in connected)
      ~> (d \notin connected \/ status[d].text = "OpponentLeft")

ToMove(c) == state.stage = "InGame" /\ state.active_player_id = c /\ c \in connected

(* A player whose turn it is gets told so, or the turn is over some other  *)
(* way (an echo of an earlier click may play it): no two players wait for  *)
(* each other, one of them misled by the status line.                      *)
TurnsAreAnnounced ==
  \A c \in Clients :
    ToMove(c) ~> (status[c].text = "YourTurn" \/ ~ ToMove(c))

-----------------------------------------------------------------------------
(* What the repository says of the system, and the code does not do.       *)

(* README.md:64: "The server auto-starts the game the moment both clients  *)
(* connect".  Not with one of them: who has left, and is known to have     *)
(* left, is not counted.                                                   *)
StartsWithBothConnected ==
  [][ state.stage = "Lobby" /\ state'.stage = "InGame" =>
        \A k \in 0..1 : \/ state'.players[k] \in connected
                        \/ DepartureNoticed(state'.players[k]) ]_vars

(* server/src/main.rs:219 of a rejected broker command: "Domain rule       *)
(* violation - retrying will never succeed".  A second click, sent before  *)
(* the first was answered, is rejected at once and accepted when it comes  *)
(* back from the topic after the opponent's move.                          *)
RetryingNeverSucceeds ==
  [][ \A cmd \in topic :
        decide(state, cmd).error # "None" => decide(state', cmd).error # "None" ]_vars

(* client/src/main.rs:231 of update_pair: "Build PlayerPair once both      *)
(* PlayerJoined events are in the log".                                    *)
PairNamesBothPlayers ==
  \A c \in Clients : pair[c] # << >> => pair[c][1] # pair[c][2]
=============================================================================
