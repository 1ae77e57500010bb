---------------------------- MODULE SystemProofs ----------------------------
(***************************************************************************)
(* The pointer and the sprites agree about the tile a click asks for, and  *)
(* all that ever reaches handle is a command of the game naming a client.  *)
(***************************************************************************)
EXTENDS System, TLAPS

-----------------------------------------------------------------------------
(* The pointer and the sprites agree about where a tile is.                *)

\* The square around the centre of tile i, the right and lower edges excluded.
InSquare(cursor, i) ==
  LET world == InWorld(cursor)
      centre == cell_pos(i)
  IN  /\ centre[1] - CELL \div 2 <= world[1] /\ world[1] < centre[1] + CELL \div 2
      /\ centre[2] - CELL \div 2 < world[2] /\ world[2] <= centre[2] + CELL \div 2

(* The tile a click asks for (client main.rs:281-290) is the one whose     *)
(* piece and highlight are drawn around the pointer (main.rs:443-449),     *)
(* although one formula goes from the window's axes to an index and the    *)
(* other from an index to the world's, with y the other way round.         *)
THEOREM ClickHitsTheTileShown ==
  ASSUME NEW x \in Int, NEW y \in Int, NEW i \in 0..8
  PROVE  CellAt(<<x, y>>) = i <=> InSquare(<<x, y>>, i)
<1> DEFINE col == ((x - 240) + 240) \div 160
           row == (240 - (270 - y)) \div 160
<1>1. CellAt(<<x, y>>) = IF col \in 0..2 /\ row \in 0..2 THEN 3 * row + col ELSE -1
  BY DEF CellAt, InWorld, Width, Height, BOARD, CELL, Nowhere
<1>2. /\ col \in Int /\ 160 * col <= x /\ x < 160 * col + 160
      /\ row \in Int /\ 160 * row <= y - 30 /\ y - 30 < 160 * row + 160
  OBVIOUS
<1>3. InSquare(<<x, y>>, i) <=>
        /\ 160 * (i % 3) <= x /\ x < 160 * (i % 3) + 160
        /\ 160 * (i \div 3) <= y - 30 /\ y - 30 < 160 * (i \div 3) + 160
  BY DEF InSquare, InWorld, cell_pos, Width, Height, BOARD, CELL
<1> HIDE DEF col, row
<1>4. i = 3 * (i \div 3) + (i % 3) /\ i % 3 \in 0..2 /\ i \div 3 \in 0..2
  OBVIOUS
<1>5. CellAt(<<x, y>>) = i <=> col = i % 3 /\ row = i \div 3
  BY <1>1, <1>2, <1>4
<1> QED
  BY <1>2, <1>3, <1>4, <1>5

\* What a click asks for is an index of the board.
LEMMA CellOnBoard ==
  ASSUME NEW cursor, CellAt(cursor) # Nowhere
  PROVE  CellAt(cursor) \in 0..8
<1> DEFINE col == (InWorld(cursor)[1] + BOARD \div 2) \div CELL
           row == (BOARD \div 2 - InWorld(cursor)[2]) \div CELL
<1>1. col \in 0..2 /\ row \in 0..2 /\ CellAt(cursor) = 3 * row + col
  BY DEF CellAt
<1> HIDE DEF col, row
<1> QED
  BY <1>1

-----------------------------------------------------------------------------
(* What reaches handle.                                                    *)

Notice == [type : {"ClientConnected", "ClientDisconnected"}, client_id : Clients]

\* The commands of the game that name a client.
Commands == {cmd \in GameCommand : cmd.player_id \in Clients}

(* What is on its way to handle is always such a command: in the topic, in *)
(* the channels, among the messages read, or behind a notice of a client.  *)
OnlyCommands ==
  /\ topic \subseteq Commands
  /\ uplink \in [Clients -> Seq(Commands)]
  /\ messages \in Seq(Commands)
  /\ serverEvents \in Seq(Notice)
  /\ connected \subseteq Clients

(* WriteModel brings its own copy of evolve along; both say the same.      *)
LEMMA SameEvolve ==
  ASSUME NEW s, NEW event
  PROVE  Write!evolve(s, event) = evolve(s, event)
BY DEF evolve, EvolveJoined, EvolveStarted, EvolvePlaced, EvolveEnded,
       Write!evolve, Write!EvolveJoined, Write!EvolveStarted,
       Write!EvolvePlaced, Write!EvolveEnded

\* The commands the server and the clients make up themselves.
LEMMA OwnCommands ==
  ASSUME NEW c \in Clients
  PROVE  /\ JoinGame(c) \in Commands
         /\ LeaveGame(c) \in Commands
         /\ \A at \in Positions : PlaceTile(c, at) \in Commands
<1>1. c \in PlayerId
  BY ClientsArePlayers DEF PlayerId
<1>2. Positions \subseteq TileIndices
  BY ClientBounds
<1> QED
  BY <1>1, <1>2 DEF JoinGame, LeaveGame, PlaceTile, GameCommand, Commands

\* A rejection of decide carries no events (decider.rs:30-116).
LEMMA ErrorsAreEmpty ==
  ASSUME NEW cmd \in GameCommand, decide(state, cmd).error # "None"
  PROVE  decide(state, cmd).events = << >>
<1>1. CASE cmd.type = "JoinGame"
  <2>1. decide(state, cmd) = DecideJoin(state, cmd.player_id)
    BY <1>1 DEF decide
  <2> QED
    BY <2>1 DEF DecideJoin, JoinAndStart, Ok, Err
<1>2. CASE cmd.type = "PlaceTile"
  <2>1. decide(state, cmd) = DecidePlace(state, cmd.player_id, cmd.at)
    BY <1>2 DEF decide
  <2> QED
    BY <2>1 DEF DecidePlace, Ok, Err
<1>3. CASE cmd.type = "LeaveGame"
  <2>1. decide(state, cmd) = DecideLeave(state, cmd.player_id)
    BY <1>3 DEF decide
  <2> QED
    BY <2>1 DEF DecideLeave, Ok
<1> QED
  BY <1>1, <1>2, <1>3 DEF GameCommand

\* The head of the queue of notices names a client, and the rest are notices.
LEMMA HeadNotice ==
  ASSUME OnlyCommands, serverEvents # << >>
  PROVE  /\ Head(serverEvents).client_id \in Clients
         /\ Tail(serverEvents) \in Seq(Notice)
<1>1. Head(serverEvents) \in Notice /\ Tail(serverEvents) \in Seq(Notice)
  BY DEF OnlyCommands
<1> QED
  BY <1>1 DEF Notice

-----------------------------------------------------------------------------
(* One lemma for each group of actions that keeps it so.                   *)

\* Clients coming, going and playing, between two ticks.
LEMMA ClientsKeepOut ==
  ASSUME OnlyCommands, NEW c \in Clients, Enter(c) \/ Leave(c) \/ Play(c)
  PROVE  OnlyCommands' /\ state' = state
<1>1. CASE Enter(c)
  <2>1. Greeting(c) \in Seq(Commands)
    BY OwnCommands DEF Greeting, JoinGame
  <2>2. ClientConnected(c) \in Notice
    BY DEF ClientConnected, Notice
  <2>3. uplink' \in [Clients -> Seq(Commands)] /\ serverEvents' \in Seq(Notice)
    BY <1>1, <2>1, <2>2 DEF Enter, Connect, OnlyCommands
  <2> QED
    BY <1>1, <2>3 DEF Enter, Connect, OnlyCommands, server
<1>2. CASE Leave(c)
  <2>1. ClientDisconnected(c) \in Notice
    BY DEF ClientDisconnected, Notice
  <2>2. uplink' \in [Clients -> Seq(Commands)] /\ serverEvents' \in Seq(Notice)
    BY <1>2, <2>1 DEF Leave, Disconnect, OnlyCommands
  <2> QED
    BY <1>2, <2>2 DEF Leave, Disconnect, OnlyCommands, server
<1>3. CASE Play(c)
  <2>1. ASSUME NEW arrived \in Unread(c), Frame(c, arrived)
        PROVE  OnlyCommands' /\ state' = state
    BY <1>3, <2>1 DEF Play, Frame, OnlyCommands, server, renet
  <2>2. ASSUME NEW cursor \in Cursors[c], Click(c, cursor)
        PROVE  OnlyCommands' /\ state' = state
    <3>1. PlaceTile(c, CellAt(cursor)) \in Commands
      BY <2>2, OwnCommands, CellOnBoard DEF Click, Positions
    <3>2. uplink' \in [Clients -> Seq(Commands)]
      BY <2>2, <3>1 DEF Click, OnlyCommands
    <3> QED
      BY <1>3, <2>2, <3>2 DEF Play, Click, OnlyCommands, server
  <2> QED
    BY <1>3, <2>1, <2>2 DEF Play, ClientNext
<1> QED
  BY <1>1, <1>2, <1>3

\* The loop: connections, messages and the broker's commands all reach handle.
LEMMA LoopHandlesCommands ==
  ASSUME OnlyCommands, Serve
  PROVE  OnlyCommands'
<1> USE DEF Serve
<1>1. CASE BeginTick \/ EndTick
  BY <1>1 DEF BeginTick, EndTick, OnlyCommands, renet
<1>2. CASE HandleConnected
  <2> DEFINE c == Head(serverEvents).client_id
  <2>1. JoinGame(c) \in Commands /\ Tail(serverEvents) \in Seq(Notice)
    BY <1>2, HeadNotice, OwnCommands DEF HandleConnected
  <2>2. handle(JoinGame(c), catch_up(c)) /\ topic' = topic \cup {JoinGame(c)}
    BY <1>2 DEF HandleConnected, PublishAndHandle
  <2> QED
    BY <1>2, <2>1, <2>2 DEF HandleConnected, OnlyCommands
<1>3. CASE HandleDisconnected
  <2> DEFINE c == Head(serverEvents).client_id
  <2>1. LeaveGame(c) \in Commands /\ Tail(serverEvents) \in Seq(Notice)
    BY <1>3, HeadNotice, OwnCommands DEF HandleDisconnected
  <2>2. handle(LeaveGame(c), downlink) /\ topic' = topic \cup {LeaveGame(c)}
    BY <1>3 DEF HandleDisconnected, PublishAndHandle
  <2> QED
    BY <1>3, <2>1, <2>2 DEF HandleDisconnected, OnlyCommands
<1>4. ASSUME NEW c \in connected, NEW arrived \in 0..Len(uplink[c]), Poll(c, arrived)
      PROVE  OnlyCommands'
  <2>1. uplink[c] \in Seq(Commands) /\ c \in Clients
    BY DEF OnlyCommands
  <2>2. Len(uplink[c]) \in Nat /\ arrived \in Nat /\ arrived <= Len(uplink[c])
    BY <2>1
  <2>3. SubSeq(uplink[c], 1, arrived) \in Seq(Commands)
    BY <2>1, <2>2
  <2>4. SubSeq(uplink[c], arrived + 1, Len(uplink[c])) \in Seq(Commands)
    BY <2>1, <2>2
  <2>5. messages' \in Seq(Commands)
    BY <1>4, <2>3 DEF Poll, OnlyCommands
  <2>6. uplink' \in [Clients -> Seq(Commands)]
    BY <1>4, <2>1, <2>4 DEF Poll, OnlyCommands
  <2> QED
    BY <1>4, <2>5, <2>6 DEF Poll, OnlyCommands
<1>5. CASE HandleMessage
  <2>1. Head(messages) \in Commands /\ Tail(messages) \in Seq(Commands)
    BY <1>5 DEF HandleMessage, OnlyCommands
  <2>2. handle(Head(messages), downlink) /\ topic' = topic \cup {Head(messages)}
    BY <1>5 DEF HandleMessage, PublishAndHandle
  <2> QED
    BY <1>5, <2>1, <2>2 DEF HandleMessage, OnlyCommands
<1>6. ASSUME NEW cmd \in topic, HandleBrokerCommand(cmd)
      PROVE  OnlyCommands'
  BY <1>6 DEF HandleBrokerCommand, OnlyCommands
<1> QED
  BY <1>1, <1>2, <1>3, <1>4, <1>5, <1>6 DEF ServerNext

=============================================================================
