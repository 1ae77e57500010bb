---------------------------- MODULE SessionProofs ----------------------------
(***************************************************************************)
(* What a session promises the clients of it, for any clients and any      *)
(* number of restarts: the stream each is sent is the log, and a game does *)
(* not go on without one of its players.                                   *)
(***************************************************************************)
EXTENDS SystemProofs, DeciderProofs

\* The part of the type invariant that the arguments below rest on.
SessionTypes ==
  /\ state \in GameState
  /\ log \in Seq(GameEvent)
  /\ downlink \in [Clients -> Seq(GameEvent)]

-----------------------------------------------------------------------------
(* What handle does to the session, for each command.                      *)

\* One event, or two, applied by either copy of evolve.
LEMMA Applied ==
  ASSUME NEW s, NEW events, NEW first, NEW second
  PROVE  /\ events = << >> => Write!ApplyBatch(s, events) = s
         /\ events = <<first>> => Write!ApplyBatch(s, events) = evolve(s, first)
         /\ events = <<first, second>> =>
              Write!ApplyBatch(s, events) = evolve(evolve(s, first), second)
BY SameEvolve DEF Write!ApplyBatch

(* Seen from outside, a command keeps stage and players, ends the game, or *)
(* seats its player, with GameStarted the last event if that starts it.    *)
Keeps == state'.stage = state.stage /\ state'.players = state.players

\* p is seated in the lobby; a second player starts the game.
Seats(p, events) ==
  /\ state.stage = "Lobby"
  /\ \E slot \in 0..1 : state'.players = [state.players EXCEPT ![slot] = p]
  /\ \/ state'.stage = "Lobby"
     \/ /\ state'.stage = "InGame"
        /\ NoPlayer \notin {state'.players[0], state'.players[1]}
        /\ Len(events) \in Nat \ {0} /\ events[Len(events)].type = "GameStarted"

\* The whole of it: what a command did, and what its events tell.
Effect(cmd, events) ==
  /\ events \in Seq(GameEvent)
  /\ state' \in GameState
  /\ Keeps \/ state'.stage = "Ended" \/ (cmd.type = "JoinGame" /\ Seats(cmd.player_id, events))
  /\ cmd.type = "LeaveGame" =>
       /\ state'.stage # "InGame"
       /\ \E k \in 1..Len(events) : events[k] = PlayerLeft(cmd.player_id)

\* A JoinGame is rejected, seats its player, or starts the game (decider.rs:35-64).
LEMMA JoinHandled ==
  ASSUME state \in GameState, NEW p \in Clients,
         NEW cmd, cmd.type = "JoinGame", cmd.player_id = p,
         state' = Write!ApplyBatch(state, decide(state, cmd).events)
  PROVE  Effect(cmd, decide(state, cmd).events)
<1> DEFINE next == EvolveJoined(state, p)
           events == decide(state, cmd).events
<1>1. p \in PlayerId /\ p # NoPlayer
  BY ClientsArePlayers, SentinelIsNoPlayer DEF PlayerId
<1>2. decide(state, cmd) = DecideJoin(state, p)
  BY DEF decide
<1>3. evolve(state, PlayerJoined(p)) = next
  BY DEF evolve, PlayerJoined
<1>4. /\ next \in GameState /\ next.stage = state.stage
      /\ next.players = [state.players EXCEPT ![IF state.players[0] = NoPlayer THEN 0 ELSE 1] = p]
      /\ next.players[0] \in PlayerId /\ next.players[0] # NoPlayer
  <2>1. state.players \in [0..1 -> PlayerId]
    BY DEF GameState
  <2> HIDE DEF next
  <2>2. /\ next \in GameState /\ next.stage = state.stage
        /\ next.players = [state.players EXCEPT ![IF state.players[0] = NoPlayer THEN 0 ELSE 1] = p]
    BY <1>1, JoinedFields DEF next
  <2> QED
    BY <1>1, <2>1, <2>2
<1>5. PlayerJoined(p) \in GameEvent /\ GameStarted(next.players[0]) \in GameEvent
  BY <1>1, <1>4 DEF PlayerJoined, GameStarted, GameEvent
<1> HIDE DEF next
<1>6. CASE state.stage # "Lobby" \/ p \in {state.players[0], state.players[1]}
  <2>1. events = << >>
    BY <1>2, <1>6 DEF DecideJoin, Err
  <2>2. state' = state
    BY <2>1, Applied
  <2> QED
    BY <2>1, <2>2 DEF Effect, Keeps
<1>7. CASE ~ (state.stage # "Lobby" \/ p \in {state.players[0], state.players[1]})
  <2>1. CASE next.players[1] # NoPlayer
    <3>1. events = <<PlayerJoined(p), GameStarted(next.players[0])>>
      BY <1>2, <1>3, <1>7, <2>1 DEF DecideJoin, JoinAndStart, Ok
    <3> DEFINE join == PlayerJoined(p)
               start == GameStarted(next.players[0])
    <3>2. evolve(next, start) = EvolveStarted(next, next.players[0])
      BY DEF evolve, GameStarted
    <3> HIDE DEF join, start, events
    <3>3. events = <<join, start>> /\ evolve(state, join) = next
      BY <1>3, <3>1 DEF join, start
    <3>4. Write!ApplyBatch(state, events) = evolve(evolve(state, join), start)
      BY <3>3, Applied
    <3>5. state' = EvolveStarted(next, next.players[0])
      BY <3>2, <3>3, <3>4 DEF events
    <3>6. state' \in GameState /\ state'.stage = "InGame" /\ state'.players = next.players
      <4>1. \A q \in PlayerId : LET n == EvolveStarted(next, q)
               IN  n \in GameState /\ n.stage = "InGame" /\ n.players = next.players
        BY <1>4, StartedFields
      <4> QED
        BY <1>4, <3>5, <4>1
    <3>7. join \in GameEvent /\ start \in GameEvent /\ start.type = "GameStarted"
      BY <1>5 DEF join, start, GameStarted
    <3>8. events \in Seq(GameEvent) /\ Len(events) = 2 /\ events[2].type = "GameStarted"
      BY <3>3, <3>7
    <3>9. Seats(p, events)
      BY <1>4, <1>7, <2>1, <3>6, <3>8 DEF Seats
    <3> QED
      BY <3>6, <3>8, <3>9 DEF Effect, events
  <2>2. CASE next.players[1] = NoPlayer
    <3>1. events = <<PlayerJoined(p)>>
      BY <1>2, <1>3, <1>7, <2>2 DEF DecideJoin, JoinAndStart, Ok
    <3>2. Write!ApplyBatch(state, events) = evolve(state, PlayerJoined(p))
      BY <3>1, Applied
    <3>3. state' = next
      BY <1>3, <3>2
    <3>4. Seats(p, events)
      BY <1>4, <1>7, <3>3 DEF Seats
    <3> QED
      BY <1>4, <1>5, <3>1, <3>3, <3>4 DEF Effect
  <2> QED
    BY <2>1, <2>2
<1> QED
  BY <1>6, <1>7

\* A PlaceTile keeps the players, and the stage unless it ends the game.
LEMMA PlaceHandled ==
  ASSUME state \in GameState, NEW p \in PlayerId, NEW i \in TileIndices,
         NEW cmd, cmd.type = "PlaceTile", cmd.player_id = p, cmd.at = i,
         state' = Write!ApplyBatch(state, decide(state, cmd).events)
  PROVE  Effect(cmd, decide(state, cmd).events)
<1> DEFINE next == EvolvePlaced(state, p, i)
           place == TilePlaced(p, i)
           events == decide(state, cmd).events
<1>1. decide(state, cmd) = DecidePlace(state, p, i)
  BY DEF decide
<1>2. evolve(state, place) = next
  BY DEF evolve, TilePlaced
<1>3. CASE DecidePlace(state, p, i).error # "None"
  <2>1. events = << >>
    BY <1>1, <1>3 DEF DecidePlace, Ok, Err
  <2>2. state' = state
    BY <2>1, Applied
  <2> QED
    BY <2>1, <2>2 DEF Effect, Keeps
<1>4. CASE DecidePlace(state, p, i).error = "None"
  <2>1. i \in Positions /\ events = PlaceAndJudge(place, next.board)
    BY <1>1, <1>2, <1>4, IndicesAreNaturals DEF DecidePlace, Err, Ok, Positions
  <2>2. next \in GameState /\ next.stage = state.stage /\ next.players = state.players
    <3>1. i \in Positions
      BY <2>1
    <3> HIDE DEF place, events
    <3> QED
      BY <3>1, PlacedKeeps
  <2>3. place \in GameEvent
    BY DEF TilePlaced, GameEvent
  <2> HIDE DEF next
  <2>4. CASE events = <<place>>
    <3>1. Write!ApplyBatch(state, events) = evolve(state, place)
      BY <2>4, Applied
    <3>2. state' = next
      BY <1>2, <3>1
    <3> QED
      BY <2>2, <2>3, <2>4, <3>2 DEF Effect, Keeps
  <2>5. ASSUME NEW reason \in {"PlayerWon", "Draw"}, NEW q \in PlayerId,
               events = <<place, GameEnded(reason, q)>>
        PROVE  Effect(cmd, events)
    <3> DEFINE end == GameEnded(reason, q)
    <3>1. evolve(next, end) = EvolveEnded(next) /\ end \in GameEvent
      BY DEF evolve, GameEnded, GameEvent
    <3> HIDE DEF place, end, events
    <3>2. Write!ApplyBatch(state, events) = evolve(evolve(state, place), end)
      BY <2>5, Applied DEF end
    <3>3. state' = EvolveEnded(next)
      BY <1>2, <3>1, <3>2 DEF events
    <3>4. state' \in GameState /\ state'.stage = "Ended"
      BY <2>2, <3>3, EndedFields
    <3>5. events = <<place, end>> /\ end \in GameEvent
      BY <2>5, <3>1 DEF end
    <3>6. events \in Seq(GameEvent)
      BY <2>3, <3>5
    <3> QED
      BY <3>4, <3>6 DEF Effect, events
  <2>6. NoPlayer \in PlayerId /\ place.player_id = p
    BY DEF PlayerId, TilePlaced
  <2> QED
    BY <2>1, <2>4, <2>5, <2>6 DEF PlaceAndJudge
<1> QED
  BY <1>3, <1>4

\* A LeaveGame is always recorded, and leaves no game running.
LEMMA LeaveHandled ==
  ASSUME state \in GameState, NEW p \in PlayerId,
         NEW cmd, cmd.type = "LeaveGame", cmd.player_id = p,
         state' = Write!ApplyBatch(state, decide(state, cmd).events)
  PROVE  Effect(cmd, decide(state, cmd).events)
<1> DEFINE left == PlayerLeft(p)
           end == GameEnded("PlayerLeft", p)
           events == decide(state, cmd).events
<1>1. decide(state, cmd) = DecideLeave(state, p)
  BY DEF decide
<1>2. left \in GameEvent /\ end \in GameEvent
  BY DEF PlayerLeft, GameEnded, GameEvent
<1>3. evolve(state, left) = state /\ evolve(state, end) = EvolveEnded(state)
  BY DEF evolve, PlayerLeft, GameEnded
<1>4. CASE state.stage = "InGame"
  <2>1. events = <<left, end>>
    BY <1>1, <1>4 DEF DecideLeave, Ok
  <2> HIDE DEF left, end, events
  <2>2. Write!ApplyBatch(state, events) = evolve(evolve(state, left), end)
    BY <2>1, Applied
  <2>3. state' = EvolveEnded(state)
    BY <1>3, <2>2 DEF events
  <2>4. state' \in GameState /\ state'.stage = "Ended"
    BY <2>3, EndedFields
  <2>5. events \in Seq(GameEvent) /\ \E k \in 1..Len(events) : events[k] = left
    BY <1>2, <2>1
  <2> QED
    BY <2>4, <2>5 DEF Effect, left, events
<1>5. CASE state.stage # "InGame"
  <2>1. events = <<left>>
    BY <1>1, <1>5 DEF DecideLeave, Ok
  <2>2. state' = state
    BY <1>3, <2>1, Applied
  <2> QED
    BY <1>2, <1>5, <2>1, <2>2 DEF Effect, Keeps
<1> QED
  BY <1>4, <1>5

\* Whatever command it is handed, handle adds its events to the log.
LEMMA HandleEffect ==
  ASSUME SessionTypes, NEW cmd \in Commands, NEW streams, handle(cmd, streams)
  PROVE  \E events \in Seq(GameEvent) :
           /\ log' = log \o events
           /\ downlink' = broadcast(streams, events)
           /\ Effect(cmd, events)
<1> DEFINE events == decide(state, cmd).events
<1>1. /\ log' = log \o events /\ downlink' = broadcast(streams, events)
      /\ state' = Write!ApplyBatch(state, events)
  BY DEF handle
<1>2. state \in GameState
  BY DEF SessionTypes
<1>3. cmd \in GameCommand /\ cmd.player_id \in Clients /\ cmd.player_id \in PlayerId
  BY ClientsArePlayers DEF Commands, PlayerId
<1>4. CASE cmd.type = "JoinGame"
  <2>1. Effect(cmd, events)
    BY <1>1, <1>2, <1>3, <1>4, JoinHandled
  <2> QED
    BY <1>1, <2>1 DEF Effect
<1>5. CASE cmd.type = "PlaceTile"
  <2>1. cmd.at \in TileIndices
    BY <1>3, <1>5 DEF GameCommand
  <2>2. Effect(cmd, events)
    BY <1>1, <1>2, <1>3, <1>5, <2>1, PlaceHandled
  <2> QED
    BY <1>1, <2>2 DEF Effect
<1>6. CASE cmd.type = "LeaveGame"
  <2>1. Effect(cmd, events)
    BY <1>1, <1>2, <1>3, <1>6, LeaveHandled
  <2> QED
    BY <1>1, <2>1 DEF Effect
<1> QED
  BY <1>3, <1>4, <1>5, <1>6 DEF GameCommand

-----------------------------------------------------------------------------
(* The notices of connections.                                             *)

\* The loop has not taken the notice of this connection yet.
Announced(c) == \E k \in 1..Len(serverEvents) : serverEvents[k] = ClientConnected(c)

(* A client connects once, so that it is greeted once.                     *)
AnnouncedOnce(c) ==
  /\ \A j, k \in 1..Len(serverEvents) :
       serverEvents[j] = ClientConnected(c) /\ serverEvents[k] = ClientConnected(c) => j = k
  /\ Announced(c) => c \in connected \cup gone

\* The two kinds of notices, and notices of two clients, are different.
LEMMA NoticesDiffer ==
  ASSUME NEW c, NEW d
  PROVE  /\ ClientConnected(c) # ClientDisconnected(d)
         /\ c # d => ClientConnected(c) # ClientConnected(d)
         /\ c # d => ClientDisconnected(c) # ClientDisconnected(d)
<1>1. /\ ClientConnected(c).type # ClientDisconnected(d).type
      /\ ClientConnected(c).client_id = c /\ ClientConnected(d).client_id = d
      /\ ClientDisconnected(c).client_id = c /\ ClientDisconnected(d).client_id = d
  BY DEF ClientConnected, ClientDisconnected
<1> QED
  BY <1>1

\* A notice is either of the two, of one client.
LEMMA NoticeKinds ==
  ASSUME NEW notice \in Notice
  PROVE  notice \in {ClientConnected(notice.client_id), ClientDisconnected(notice.client_id)}
BY DEF Notice, ClientConnected, ClientDisconnected

\* The oldest notice taken, the others are as they were.
LEMMA NoticeTaken ==
  ASSUME OnlyCommands, serverEvents # << >>, serverEvents' = Tail(serverEvents)
  PROVE  /\ Len(serverEvents) \in Nat \ {0} /\ Len(serverEvents') = Len(serverEvents) - 1
         /\ Head(serverEvents) = serverEvents[1] /\ serverEvents[1] \in Notice
         /\ \A k \in 1..Len(serverEvents') :
              k + 1 \in 1..Len(serverEvents) /\ serverEvents'[k] = serverEvents[k + 1]
         /\ \A k \in 1..Len(serverEvents) :
              k # 1 => k - 1 \in 1..Len(serverEvents') /\ serverEvents'[k - 1] = serverEvents[k]
<1>1. serverEvents \in Seq(Notice)
  BY DEF OnlyCommands
<1>2. Len(serverEvents) \in Nat \ {0}
  BY <1>1, EmptySeq
<1>3. /\ Len(serverEvents') = Len(serverEvents) - 1
      /\ \A k \in 1..(Len(serverEvents) - 1) : serverEvents'[k] = serverEvents[k + 1]
  BY <1>1, HeadTailProperties
<1>4. ASSUME NEW k \in 1..Len(serverEvents), k # 1
      PROVE  k - 1 \in 1..Len(serverEvents') /\ serverEvents'[k - 1] = serverEvents[k]
  <2>1. k - 1 \in 1..(Len(serverEvents) - 1) /\ (k - 1) + 1 = k
    BY <1>2, <1>4
  <2> QED
    BY <1>3, <2>1
<1> QED
  BY <1>1, <1>2, <1>3, <1>4

\* What that does to a client's announcement: it goes with its own notice.
LEMMA AnnouncementTaken ==
  ASSUME OnlyCommands, serverEvents # << >>, serverEvents' = Tail(serverEvents),
         UNCHANGED <<connected, gone>>,
         NEW c \in Clients, AnnouncedOnce(c)
  PROVE  /\ AnnouncedOnce(c)'
         /\ Announced(c)' <=> Announced(c) /\ Head(serverEvents) # ClientConnected(c)
<1> USE DEF Announced, AnnouncedOnce
<1>1. ASSUME Announced(c)'
      PROVE  Announced(c) /\ Head(serverEvents) # ClientConnected(c)
  <2>1. PICK k \in 1..Len(serverEvents') : serverEvents'[k] = ClientConnected(c)
    BY <1>1 DEF ClientConnected
  <2>2. /\ k + 1 \in 1..Len(serverEvents) /\ serverEvents[k + 1] = ClientConnected(c)
        /\ 1 \in 1..Len(serverEvents) /\ k + 1 # 1
    BY <2>1, NoticeTaken
  <2> QED
    BY <2>2, NoticeTaken
<1>2. ASSUME Announced(c), Head(serverEvents) # ClientConnected(c)
      PROVE  Announced(c)'
  <2>1. PICK k \in 1..Len(serverEvents) : serverEvents[k] = ClientConnected(c)
    BY <1>2
  <2>2. k # 1
    BY <1>2, <2>1, NoticeTaken
  <2> QED
    BY <2>1, <2>2, NoticeTaken DEF ClientConnected
<1>3. ASSUME NEW j \in 1..Len(serverEvents'), NEW k \in 1..Len(serverEvents'),
             serverEvents'[j] = ClientConnected(c), serverEvents'[k] = ClientConnected(c)
      PROVE  j = k
  <2>1. j + 1 = k + 1
    BY <1>3, NoticeTaken
  <2> QED
    BY <2>1
<1> QED
  BY <1>1, <1>2, <1>3 DEF ClientConnected

\* A notice added is the last one.
LEMMA NoticeAdded ==
  ASSUME OnlyCommands, NEW notice \in Notice, serverEvents' = Append(serverEvents, notice)
  PROVE  /\ Len(serverEvents) \in Nat /\ Len(serverEvents') = Len(serverEvents) + 1
         /\ \A k \in 1..Len(serverEvents) : serverEvents'[k] = serverEvents[k]
         /\ serverEvents'[Len(serverEvents) + 1] = notice
BY AppendProperties DEF OnlyCommands

-----------------------------------------------------------------------------
(* The streams.                                                            *)

(* Until its catch-up, what a client has been sent is the end of the log;  *)
(* after it, a stretch of the log followed by all of it.                   *)
SentSoFar(c) ==
  IF c \notin connected THEN downlink[c] = << >>
  ELSE IF Announced(c)
  THEN \E before \in Seq(GameEvent) : log = before \o downlink[c]
  ELSE \E before, again, after \in Seq(GameEvent) :
         log = (before \o again) \o after /\ downlink[c] = again \o log

\* ConcatAssociative, for events.
LEMMA Associative ==
  \A s, t, u \in Seq(GameEvent) : (s \o t) \o u = s \o (t \o u)
BY ConcatAssociative

\* Nothing happens to the stream or the log.
LEMMA StreamStays ==
  ASSUME NEW c \in Clients, SentSoFar(c), log' = log, downlink'[c] = downlink[c],
         c \in connected' <=> c \in connected,
         Announced(c)' <=> Announced(c)
  PROVE  SentSoFar(c)'
BY DEF SentSoFar

\* Events are added to the log and broadcast.
LEMMA StreamGrows ==
  ASSUME SessionTypes, NEW c \in Clients, SentSoFar(c),
         NEW events \in Seq(GameEvent), log' = log \o events,
         downlink'[c] = IF c \in connected THEN downlink[c] \o events ELSE downlink[c],
         c \in connected' <=> c \in connected,
         Announced(c)' <=> Announced(c)
  PROVE  SentSoFar(c)'
<1>1. log \in Seq(GameEvent) /\ downlink[c] \in Seq(GameEvent)
  BY DEF SessionTypes
<1>2. CASE c \notin connected
  BY <1>2 DEF SentSoFar
<1>3. CASE c \in connected /\ Announced(c)
  <2>1. PICK before \in Seq(GameEvent) : log = before \o downlink[c]
    BY <1>3 DEF SentSoFar
  <2>2. (before \o downlink[c]) \o events = before \o (downlink[c] \o events)
    BY <1>1, Associative
  <2>3. log' = before \o downlink'[c]
    BY <1>3, <2>1, <2>2
  <2> QED
    BY <1>3, <2>3 DEF SentSoFar
<1>4. CASE c \in connected /\ ~ Announced(c)
  <2>1. PICK before \in Seq(GameEvent), again \in Seq(GameEvent), after \in Seq(GameEvent) :
          log = (before \o again) \o after /\ downlink[c] = again \o log
    BY <1>4 DEF SentSoFar
  <2>2. before \o again \in Seq(GameEvent) /\ after \o events \in Seq(GameEvent)
    BY <2>1, ConcatProperties
  <2>3. log' = (before \o again) \o (after \o events)
    <3>1. ((before \o again) \o after) \o events = (before \o again) \o (after \o events)
      BY <2>2, Associative
    <3> QED
      BY <2>1, <3>1
  <2>4. downlink'[c] = again \o log'
    <3>1. (again \o log) \o events = again \o (log \o events)
      BY <1>1, Associative
    <3> QED
      BY <1>4, <2>1, <3>1
  <2> QED
    BY <1>4, <2>2, <2>3, <2>4 DEF SentSoFar
<1> QED
  BY <1>2, <1>3, <1>4

\* The catch-up, and the events that greet the client.
LEMMA StreamCaughtUp ==
  ASSUME SessionTypes, NEW c \in Clients, SentSoFar(c),
         NEW events \in Seq(GameEvent), log' = log \o events,
         c \in connected, c \in connected', Announced(c), ~ Announced(c)',
         downlink'[c] = (downlink[c] \o log) \o events
  PROVE  SentSoFar(c)'
<1>1. log \in Seq(GameEvent) /\ downlink[c] \in Seq(GameEvent)
  BY DEF SessionTypes
<1>2. PICK before \in Seq(GameEvent) : log = before \o downlink[c]
  BY DEF SentSoFar
<1>3. log' = (before \o downlink[c]) \o events
  BY <1>2
<1>4. downlink'[c] = downlink[c] \o log'
  <2>1. (downlink[c] \o log) \o events = downlink[c] \o (log \o events)
    BY <1>1, Associative
  <2> QED
    BY <2>1
<1> QED
  BY <1>1, <1>3, <1>4 DEF SentSoFar

-----------------------------------------------------------------------------
(* Every step keeps the types, the commands and the streams.               *)

\* A restart forgets all that was on its way.
LEMMA RestartForgets ==
  ASSUME OnlyCommands, SessionTypes, Restart
  PROVE  /\ OnlyCommands' /\ SessionTypes'
         /\ connected' = {} /\ log' = << >> /\ topic' = {} /\ state' = DefaultState
         /\ messages' = << >> /\ serverEvents' = << >>
         /\ \A c \in Clients : uplink'[c] = << >> /\ downlink'[c] = << >>
<1>1. /\ connected' = {} /\ log' = << >> /\ topic' = {} /\ state' = DefaultState
      /\ messages' = << >> /\ serverEvents' = << >>
      /\ uplink' = [c \in Clients |-> << >>] /\ downlink' = [c \in Clients |-> << >>]
  BY DEF Restart, CutOff
<1> QED
  BY <1>1, DefaultTyped DEF OnlyCommands, SessionTypes

\* What handle leaves is typed again, and broadcast on top of the streams.
LEMMA HandleTypes ==
  ASSUME SessionTypes, NEW cmd \in Commands, NEW streams \in [Clients -> Seq(GameEvent)],
         handle(cmd, streams)
  PROVE  /\ SessionTypes'
         /\ \E events \in Seq(GameEvent) :
              /\ log' = log \o events
              /\ \A c \in Clients : downlink'[c] =
                   IF c \in connected THEN streams[c] \o events ELSE streams[c]
              /\ Effect(cmd, events)
<1>1. PICK events \in Seq(GameEvent) :
        log' = log \o events /\ downlink' = broadcast(streams, events) /\ Effect(cmd, events)
  BY HandleEffect
<1>2. \A c \in Clients : downlink'[c] =
        IF c \in connected THEN streams[c] \o events ELSE streams[c]
  BY <1>1 DEF broadcast
<1>3. downlink' \in [Clients -> Seq(GameEvent)]
  <2>1. \A c \in Clients : streams[c] \in Seq(GameEvent) /\ streams[c] \o events \in Seq(GameEvent)
    BY ConcatProperties
  <2> QED
    BY <1>1, <2>1 DEF broadcast
<1>4. log' \in Seq(GameEvent)
  BY <1>1, ConcatProperties DEF SessionTypes
<1> QED
  BY <1>1, <1>2, <1>3, <1>4 DEF SessionTypes, Effect

\* handle on top of the streams as they are.
LEMMA HandleStreams ==
  ASSUME SessionTypes, NEW cmd \in Commands, handle(cmd, downlink), connected' = connected,
         NEW c \in Clients, SentSoFar(c), Announced(c)' <=> Announced(c)
  PROVE  SentSoFar(c)'
<1>1. downlink \in [Clients -> Seq(GameEvent)]
  BY DEF SessionTypes
<1>2. PICK events \in Seq(GameEvent) :
        /\ log' = log \o events
        /\ \A d \in Clients : downlink'[d] =
             IF d \in connected THEN downlink[d] \o events ELSE downlink[d]
  BY <1>1, HandleTypes
<1> QED
  BY <1>2, StreamGrows

\* The arm ClientConnected: the client's stream is caught up, the others' grow.
LEMMA GreetingStreams ==
  ASSUME OnlyCommands, SessionTypes, HandleConnected,
         NEW c \in Clients, AnnouncedOnce(c), SentSoFar(c)
  PROVE  SessionTypes' /\ AnnouncedOnce(c)' /\ SentSoFar(c)'
<1> DEFINE new == Head(serverEvents).client_id
           streams == catch_up(new)
<1>1. /\ serverEvents # << >> /\ serverEvents' = Tail(serverEvents)
      /\ Head(serverEvents).type = "ClientConnected"
      /\ handle(JoinGame(new), streams) /\ UNCHANGED <<connected, gone>>
  BY DEF HandleConnected, PublishAndHandle
<1>2. new \in Clients /\ Head(serverEvents) = ClientConnected(new)
  BY <1>1, HeadNotice, NoticeTaken, NoticeKinds DEF ClientDisconnected
<1>3. JoinGame(new) \in Commands
  BY <1>2, OwnCommands
<1>4. downlink \in [Clients -> Seq(GameEvent)] /\ log \in Seq(GameEvent)
  BY DEF SessionTypes
<1>5. /\ streams \in [Clients -> Seq(GameEvent)]
      /\ streams[c] = IF c = new /\ c \in connected THEN downlink[c] \o log ELSE downlink[c]
  <2>1. downlink[new] \o log \in Seq(GameEvent)
    BY <1>2, <1>4, ConcatProperties
  <2> QED
    BY <1>2, <1>4, <2>1 DEF catch_up, send_to
<1> HIDE DEF streams
<1>6. SessionTypes' /\ \E events \in Seq(GameEvent) :
        /\ log' = log \o events
        /\ downlink'[c] = IF c \in connected THEN streams[c] \o events ELSE streams[c]
  BY <1>1, <1>3, <1>5, HandleTypes
<1>7. PICK events \in Seq(GameEvent) :
        /\ log' = log \o events
        /\ downlink'[c] = IF c \in connected THEN streams[c] \o events ELSE streams[c]
  BY <1>6
<1>8. AnnouncedOnce(c)' /\ (Announced(c)' <=> Announced(c) /\ c # new)
  BY <1>1, <1>2, AnnouncementTaken, NoticesDiffer
<1>9. CASE c = new
  <2>1. Announced(c) /\ ~ Announced(c)'
    BY <1>1, <1>2, <1>8, <1>9, NoticeTaken DEF Announced
  <2>2. CASE c \in connected
    <3>1. downlink'[c] = (downlink[c] \o log) \o events /\ c \in connected'
      BY <1>1, <1>5, <1>7, <1>9, <2>2
    <3> QED
      BY <1>6, <1>7, <1>8, <2>1, <2>2, <3>1, StreamCaughtUp
  <2>3. CASE c \notin connected
    <3>1. downlink'[c] = downlink[c] /\ c \notin connected'
      BY <1>1, <1>5, <1>7, <2>3
    <3> QED
      BY <1>6, <1>8, <2>3, <3>1 DEF SentSoFar
  <2> QED
    BY <2>2, <2>3
<1>10. CASE c # new
  BY <1>1, <1>5, <1>6, <1>7, <1>8, <1>10, StreamGrows
<1> QED
  BY <1>9, <1>10

\* The invariant of the streams: what is on its way, its types, and what was sent.
SInv ==
  /\ OnlyCommands /\ SessionTypes
  /\ \A c \in Clients : AnnouncedOnce(c) /\ SentSoFar(c)

\* It holds of a server without clients.
LEMMA InitStreams == Init => SInv
<1> SUFFICES ASSUME Init PROVE SInv
  OBVIOUS
<1>1. OnlyCommands
  BY DEF Init, RenetInit, ServerInit, OnlyCommands
<1>2. SessionTypes
  BY DefaultTyped DEF Init, RenetInit, ServerInit, SessionTypes
<1>3. ASSUME NEW c \in Clients PROVE AnnouncedOnce(c) /\ SentSoFar(c)
  BY DEF Init, RenetInit, AnnouncedOnce, Announced, SentSoFar
<1> QED
  BY <1>1, <1>2, <1>3 DEF SInv

\* Clients coming, going and playing.
LEMMA ClientStreams ==
  ASSUME SInv, NEW d \in Clients, Enter(d) \/ Leave(d) \/ Play(d)
  PROVE  SInv'
<1> USE DEF SInv
<1>1. OnlyCommands' /\ state' = state
  BY ClientsKeepOut
<1>2. log' = log
  BY DEF Enter, Leave, Play, server
<1>3. downlink \in [Clients -> Seq(GameEvent)]
  BY DEF SessionTypes
<1>4. CASE Enter(d)
  <2>1. /\ d \notin connected \cup gone /\ connected' = connected \cup {d} /\ gone' = gone
        /\ serverEvents' = Append(serverEvents, ClientConnected(d)) /\ downlink' = downlink
    BY <1>4 DEF Enter, Connect
  <2>2. ClientConnected(d) \in Notice
    BY DEF ClientConnected, Notice
  <2>3. ASSUME NEW c \in Clients, c # d
        PROVE  AnnouncedOnce(c)' /\ SentSoFar(c)'
    <3>1. Announced(c)' <=> Announced(c)
      BY <2>1, <2>2, <2>3, NoticeAdded, NoticesDiffer DEF Announced, ClientConnected
    <3>2. AnnouncedOnce(c)'
      BY <2>1, <2>2, <2>3, <3>1, NoticeAdded, NoticesDiffer DEF AnnouncedOnce, ClientConnected
    <3> QED
      BY <1>2, <2>1, <2>3, <3>1, <3>2, StreamStays
  <2>4. AnnouncedOnce(d)' /\ SentSoFar(d)'
    <3>1. ~ Announced(d) /\ Announced(d)'
      BY <2>1, <2>2, NoticeAdded DEF AnnouncedOnce, Announced
    <3>2. AnnouncedOnce(d)'
      BY <2>1, <2>2, <3>1, NoticeAdded DEF AnnouncedOnce, Announced
    <3>3. downlink'[d] = << >>
      BY <2>1 DEF SentSoFar
    <3>4. log' = log \o downlink'[d]
      BY <1>2, <3>3, ConcatEmptySeq DEF SessionTypes
    <3> QED
      BY <1>2, <2>1, <3>1, <3>2, <3>4 DEF SentSoFar, SessionTypes
  <2> QED
    BY <1>1, <1>2, <2>1, <2>3, <2>4 DEF SessionTypes
<1>5. CASE Leave(d)
  <2>1. /\ connected' = connected \ {d} /\ gone' = gone \cup {d} /\ d \in connected
        /\ serverEvents' = Append(serverEvents, ClientDisconnected(d))
        /\ downlink' = [downlink EXCEPT ![d] = << >>]
    BY <1>5 DEF Leave, Disconnect
  <2>2. ClientDisconnected(d) \in Notice
    BY DEF ClientDisconnected, Notice
  <2>3. ASSUME NEW c \in Clients
        PROVE  AnnouncedOnce(c)' /\ SentSoFar(c)'
    <3>1. Announced(c)' <=> Announced(c)
      BY <2>1, <2>2, NoticeAdded, NoticesDiffer DEF Announced
    <3>2. AnnouncedOnce(c)'
      BY <2>1, <2>2, <3>1, NoticeAdded, NoticesDiffer DEF AnnouncedOnce
    <3>3. CASE c = d
      BY <1>3, <2>1, <3>2, <3>3 DEF SentSoFar
    <3>4. CASE c # d
      BY <1>2, <1>3, <2>1, <3>1, <3>2, <3>4, StreamStays
    <3> QED
      BY <3>3, <3>4
  <2>4. downlink' \in [Clients -> Seq(GameEvent)]
    BY <1>3, <2>1
  <2> QED
    BY <1>1, <1>2, <2>3, <2>4 DEF SessionTypes
<1>6. CASE Play(d)
  <2>1. UNCHANGED <<connected, gone, serverEvents, downlink>>
    BY <1>6 DEF Play, ClientNext, Frame, Click, renet
  <2>2. ASSUME NEW c \in Clients PROVE AnnouncedOnce(c)' /\ SentSoFar(c)'
    BY <1>2, <2>1, StreamStays DEF AnnouncedOnce, Announced
  <2> QED
    BY <1>1, <1>2, <2>1, <2>2 DEF SessionTypes
<1> QED
  BY <1>4, <1>5, <1>6

\* The loop.
LEMMA LoopStreams ==
  ASSUME SInv, Serve
  PROVE  SInv'
<1> USE DEF SInv
<1>1. OnlyCommands'
  BY LoopHandlesCommands
<1>2. downlink \in [Clients -> Seq(GameEvent)]
  BY DEF SessionTypes
<1>3. CASE BeginTick \/ EndTick \/ \E c \in connected : \E n \in 0..Len(uplink[c]) : Poll(c, n)
  <2>1. UNCHANGED <<connected, gone, serverEvents, downlink, log, state>>
    BY <1>3 DEF BeginTick, EndTick, Poll, renet
  <2>2. ASSUME NEW c \in Clients PROVE AnnouncedOnce(c)' /\ SentSoFar(c)'
    BY <2>1, StreamStays DEF AnnouncedOnce, Announced
  <2> QED
    BY <1>1, <2>1, <2>2 DEF SessionTypes
<1>4. CASE HandleConnected
  <2>1. Head(serverEvents).client_id \in Clients
    BY <1>4, HeadNotice DEF HandleConnected
  <2>2. ASSUME NEW c \in Clients
        PROVE  SessionTypes' /\ AnnouncedOnce(c)' /\ SentSoFar(c)'
    BY <1>4, GreetingStreams
  <2> QED
    BY <1>1, <2>1, <2>2
<1>5. CASE HandleDisconnected
  <2> DEFINE d == Head(serverEvents).client_id
  <2>1. /\ serverEvents # << >> /\ serverEvents' = Tail(serverEvents)
        /\ Head(serverEvents).type = "ClientDisconnected"
        /\ handle(LeaveGame(d), downlink) /\ UNCHANGED <<connected, gone>>
    BY <1>5 DEF HandleDisconnected, PublishAndHandle
  <2>2. d \in Clients /\ Head(serverEvents) = ClientDisconnected(d)
    BY <2>1, HeadNotice, NoticeTaken, NoticeKinds DEF ClientConnected
  <2>3. LeaveGame(d) \in Commands
    BY <2>2, OwnCommands
  <2>4. SessionTypes'
    BY <1>2, <2>1, <2>3, HandleTypes
  <2>5. ASSUME NEW c \in Clients PROVE AnnouncedOnce(c)' /\ SentSoFar(c)'
    <3>1. AnnouncedOnce(c)' /\ (Announced(c)' <=> Announced(c))
      BY <2>1, <2>2, AnnouncementTaken, NoticesDiffer
    <3>2. SentSoFar(c)'
      BY <2>1, <2>3, <3>1, HandleStreams
    <3> QED
      BY <3>1, <3>2
  <2> QED
    BY <1>1, <2>4, <2>5
<1>6. ASSUME NEW cmd \in Commands, handle(cmd, downlink),
             UNCHANGED <<connected, gone, serverEvents>>
      PROVE  SInv'
  <2>1. SessionTypes'
    BY <1>2, <1>6, HandleTypes
  <2>2. ASSUME NEW c \in Clients PROVE AnnouncedOnce(c)' /\ SentSoFar(c)'
    <3>1. AnnouncedOnce(c)' /\ (Announced(c)' <=> Announced(c))
      BY <1>6 DEF AnnouncedOnce, Announced
    <3>2. SentSoFar(c)'
      BY <1>6, <3>1, HandleStreams
    <3> QED
      BY <3>1, <3>2
  <2> QED
    BY <1>1, <2>1, <2>2
<1>7. CASE HandleMessage
  <2>1. Head(messages) \in Commands
    BY <1>7 DEF HandleMessage, OnlyCommands
  <2>2. handle(Head(messages), downlink) /\ UNCHANGED <<connected, gone, serverEvents>>
    BY <1>7 DEF HandleMessage, PublishAndHandle
  <2> QED
    BY <1>6, <2>1, <2>2
<1>8. ASSUME NEW cmd \in topic, HandleBrokerCommand(cmd)
      PROVE  SInv'
  <2>1. cmd \in Commands
    BY DEF OnlyCommands
  <2>2. handle(cmd, downlink) /\ UNCHANGED <<connected, gone, serverEvents>>
    BY <1>8 DEF HandleBrokerCommand
  <2> QED
    BY <1>6, <2>1, <2>2
<1> QED
  BY <1>3, <1>4, <1>5, <1>7, <1>8 DEF Serve, ServerNext

\* Every step keeps it.
LEMMA StepStreams ==
  ASSUME SInv, [Next]_vars
  PROVE  SInv'
<1>1. CASE Restart
  <2>1. OnlyCommands' /\ SessionTypes'
    BY <1>1, RestartForgets DEF SInv
  <2>2. ASSUME NEW c \in Clients PROVE AnnouncedOnce(c)' /\ SentSoFar(c)'
    BY <1>1, RestartForgets DEF SInv, AnnouncedOnce, Announced, SentSoFar
  <2> QED
    BY <2>1, <2>2 DEF SInv
<1>2. CASE UNCHANGED vars
  <2>1. ASSUME NEW c \in Clients PROVE AnnouncedOnce(c)' /\ SentSoFar(c)'
    BY <1>2, StreamStays DEF SInv, AnnouncedOnce, Announced, vars, renet, server
  <2> QED
    BY <1>2, <2>1 DEF SInv, OnlyCommands, SessionTypes, vars, renet, server
<1> QED
  BY <1>1, <1>2, ClientStreams, LoopStreams DEF Next

(* What a client is sent is the whole log in order, behind nothing or a    *)
(* stretch of it, whatever is handled between its connection and its       *)
(* catch-up and whatever is broadcast after (server/src/main.rs:129-237).   *)
THEOREM StreamsAreLogs == Spec => []StreamIsLog
<1>1. SInv => StreamIsLog
  <2> SUFFICES ASSUME SInv, NEW c \in Clients, Greeted(c)
               PROVE  \E a \in 1..(Len(log) + 1), b \in 0..Len(log) :
                        downlink[c] = SubSeq(log, a, b) \o log
    BY DEF StreamIsLog
  <2>1. PICK before \in Seq(GameEvent), again \in Seq(GameEvent), after \in Seq(GameEvent) :
          log = (before \o again) \o after /\ downlink[c] = again \o log
    BY DEF SInv, SentSoFar, Greeted, Announced
  <2> DEFINE a == Len(before) + 1
             b == Len(before) + Len(again)
  <2>2. /\ log \in Seq(GameEvent) /\ before \o again \in Seq(GameEvent)
        /\ Len(before) \in Nat /\ Len(again) \in Nat /\ Len(after) \in Nat
        /\ Len(log) = b + Len(after)
    BY <2>1, ConcatProperties DEF SInv, SessionTypes
  <2>3. a \in 1..(Len(log) + 1) /\ b \in 0..Len(log)
    BY <2>2
  <2>4. again = SubSeq(log, a, b)
    <3>1. ASSUME NEW i \in 1..Len(again) PROVE again[i] = log[a + i - 1]
      <4>1. (before \o again)[Len(before) + i] = again[i]
        BY <2>2, ConcatProperties
      <4>2. log[Len(before) + i] = (before \o again)[Len(before) + i]
        BY <2>1, <2>2, ConcatProperties
      <4>3. a + i - 1 = Len(before) + i
        BY <2>2
      <4> QED
        BY <4>1, <4>2, <4>3
    <3>2. \A i \in a..b : log[i] \in GameEvent
      BY <2>2
    <3>3. /\ SubSeq(log, a, b) \in Seq(GameEvent) /\ Len(SubSeq(log, a, b)) = Len(again)
          /\ \A i \in 1..Len(again) : SubSeq(log, a, b)[i] = log[a + i - 1]
      BY <2>2, <3>2, SubSeqProperties
    <3> QED
      BY <3>1, <3>3, SeqEqual
  <2> QED
    BY <2>1, <2>3, <2>4
<1> QED
  BY <1>1, InitStreams, StepStreams, PTL DEF Spec

-----------------------------------------------------------------------------
(* Nobody plays against a player who is not there.                         *)

\* A player is there, or is about to be missed; one that is known to have left.
Present(p) == p \in connected \/ DepartureNoticed(p)
HasLeft(p) == \E i \in 1..Len(log) : log[i] = PlayerLeft(p)

\* A player that is seated, or may be by a command on its way.
OnTheWay(p) ==
  \/ \E cmd \in topic : cmd.player_id = p
  \/ \E k \in 1..Len(messages) : messages[k].player_id = p
  \/ \E c \in Clients : \E k \in 1..Len(uplink[c]) : uplink[c][k].player_id = p
  \/ Announced(p)

\* A player that is, or may still be, one of the two of the game.
Involved(p) == OnTheWay(p) \/ (p # NoPlayer /\ p \in {state.players[0], state.players[1]})

(* Whoever may still be seated is there, or is about to be missed, or is   *)
(* known to have left: so that a game which starts with a player who is    *)
(* not there starts behind the record of the departure.                    *)
LobbyExcused ==
  state.stage = "Lobby" => \A p \in PlayerId : Involved(p) => Present(p) \/ HasLeft(p)

\* The invariant: an abandoned game ends because the lobby is excused.
AInv == SInv /\ LobbyExcused /\ AbandonedGamesEnd

\* Entries of the log keep their places.
LEMMA EntriesStay ==
  ASSUME SessionTypes, NEW events \in Seq(GameEvent), log' = log \o events
  PROVE  /\ Len(log) \in Nat /\ Len(events) \in Nat /\ Len(log') = Len(log) + Len(events)
         /\ \A i \in 1..Len(log) : i \in 1..Len(log') /\ log'[i] = log[i]
         /\ \A i \in 1..Len(events) :
              Len(log) + i \in 1..Len(log') /\ log'[Len(log) + i] = events[i]
<1>1. log \in Seq(GameEvent)
  BY DEF SessionTypes
<1>2. /\ Len(log) \in Nat /\ Len(events) \in Nat /\ Len(log') = Len(log) + Len(events)
      /\ \A i \in 1..(Len(log) + Len(events)) :
           log'[i] = IF i <= Len(log) THEN log[i] ELSE events[i - Len(log)]
  BY <1>1, ConcatProperties
<1>3. ASSUME NEW i \in 1..Len(events)
      PROVE  Len(log) + i \in 1..Len(log') /\ log'[Len(log) + i] = events[i]
  <2>1. /\ Len(log) + i \in 1..(Len(log) + Len(events))
        /\ ~ (Len(log) + i <= Len(log)) /\ (Len(log) + i) - Len(log) = i
    BY <1>2
  <2> QED
    BY <1>2, <2>1
<1> QED
  BY <1>2, <1>3

\* A command handled, for whoever was present or involved.
LEMMA HandleKeepsPlayers ==
  ASSUME AInv, NEW cmd \in Commands, NEW streams \in [Clients -> Seq(GameEvent)],
         handle(cmd, streams),
         cmd.type = "JoinGame" => Involved(cmd.player_id),
         \A p \in PlayerId : Present(p) =>
           Present(p)' \/ (cmd.type = "LeaveGame" /\ cmd.player_id = p)
  PROVE  /\ AbandonedGamesEnd'
         /\ \A p \in PlayerId : Present(p) \/ HasLeft(p) => Present(p)' \/ HasLeft(p)'
         /\ cmd.type = "LeaveGame" => HasLeft(cmd.player_id)'
         /\ state'.stage = "Lobby" =>
              /\ state.stage = "Lobby"
              /\ \A p \in PlayerId :
                   p # NoPlayer /\ p \in {state'.players[0], state'.players[1]} => Involved(p)
<1> USE DEF AInv, SInv
<1>1. PICK events \in Seq(GameEvent) : log' = log \o events /\ Effect(cmd, events)
  BY HandleTypes
<1>2. \A p : HasLeft(p) => HasLeft(p)'
  BY <1>1, EntriesStay DEF HasLeft, PlayerLeft
<1>3. ASSUME cmd.type = "LeaveGame"
      PROVE  state'.stage # "InGame" /\ HasLeft(cmd.player_id)'
  <2>1. /\ state'.stage # "InGame"
        /\ \E k \in 1..Len(events) : events[k] = PlayerLeft(cmd.player_id)
    BY <1>1, <1>3 DEF Effect
  <2>2. PICK k \in 1..Len(events) : events[k] = PlayerLeft(cmd.player_id)
    BY <2>1
  <2>3. Len(log) + k \in 1..Len(log') /\ log'[Len(log) + k] = PlayerLeft(cmd.player_id)
    BY <1>1, <2>2, EntriesStay
  <2> QED
    BY <2>1, <2>3 DEF HasLeft
<1>4. \A p \in PlayerId : Present(p) \/ HasLeft(p) => Present(p)' \/ HasLeft(p)'
  BY <1>2, <1>3
<1>5. /\ state.players \in [0..1 -> PlayerId] /\ state'.players \in [0..1 -> PlayerId]
      /\ cmd.player_id \in PlayerId
  BY <1>1, ClientsArePlayers DEF SessionTypes, Effect, GameState, Commands, PlayerId
<1>6. CASE Keeps
  <2>1. ASSUME state'.stage = "InGame", NEW k \in 0..1
        PROVE  \/ Present(state.players[k])'
               \/ \E i, j \in 1..Len(log') :
                    i < j /\ log'[i] = PlayerLeft(state.players[k]) /\ log'[j].type = "GameStarted"
    <3>1. PICK p \in PlayerId : p = state.players[k]
      BY <1>5
    <3>2. \/ Present(p)
          \/ \E i, j \in 1..Len(log) : i < j /\ log[i] = PlayerLeft(p) /\ log[j].type = "GameStarted"
      BY <1>6, <2>1, <3>1 DEF AbandonedGamesEnd, Keeps, Present
    <3>3. Present(p) => Present(p)'
      BY <1>3, <2>1
    <3>4. \A i \in 1..Len(log) : i \in 1..Len(log') /\ log'[i] = log[i]
      BY <1>1, EntriesStay
    <3>5. \/ Present(p)'
          \/ \E i, j \in 1..Len(log') : i < j /\ log'[i] = PlayerLeft(p) /\ log'[j].type = "GameStarted"
      BY <3>2, <3>3, <3>4
    <3>6. state'.players[k] = p
      BY <1>6, <3>1 DEF Keeps
    <3> QED
      BY <1>6, <3>1, <3>5, <3>6 DEF Keeps, Present, DepartureNoticed
  <2>2. AbandonedGamesEnd'
    BY <1>6, <2>1 DEF AbandonedGamesEnd, Present, Keeps, DepartureNoticed
  <2> QED
    BY <1>3, <1>4, <1>6, <2>2 DEF Keeps, Involved
<1>7. CASE state'.stage = "Ended"
  BY <1>3, <1>4, <1>7 DEF AbandonedGamesEnd
<1>8. CASE cmd.type = "JoinGame" /\ Seats(cmd.player_id, events)
  <2>1. PICK slot \in 0..1 : state'.players = [state.players EXCEPT ![slot] = cmd.player_id]
    BY <1>8 DEF Seats
  <2>2. ASSUME NEW p \in PlayerId, NEW k \in 0..1, p = state'.players[k], p # NoPlayer
        PROVE  Involved(p)
    BY <1>5, <1>8, <2>1, <2>2 DEF Involved
  <2>3. ASSUME state'.stage = "InGame", NEW p \in PlayerId, NEW k \in 0..1, p = state'.players[k]
        PROVE  \/ Present(p)'
               \/ \E i, j \in 1..Len(log') :
                    i < j /\ log'[i] = PlayerLeft(p) /\ log'[j].type = "GameStarted"
    <3>1. /\ p # NoPlayer /\ state.stage = "Lobby"
          /\ Len(events) \in Nat \ {0} /\ events[Len(events)].type = "GameStarted"
      BY <1>8, <2>3 DEF Seats
    <3>2. Present(p) \/ HasLeft(p)
      BY <2>2, <2>3, <3>1 DEF LobbyExcused
    <3>3. CASE Present(p)
      BY <1>3, <2>3, <3>3
    <3>4. ASSUME NEW i \in 1..Len(log), log[i] = PlayerLeft(p)
          PROVE  \E j \in 1..Len(log') :
                    i < j /\ log'[i] = PlayerLeft(p) /\ log'[j].type = "GameStarted"
      <4> DEFINE last == Len(log) + Len(events)
      <4>1. last \in 1..Len(log') /\ log'[last].type = "GameStarted" /\ i < last
        BY <1>1, <3>1, EntriesStay
      <4>2. log'[i] = PlayerLeft(p)
        BY <1>1, <3>4, EntriesStay
      <4> HIDE DEF last
      <4> QED
        BY <4>1, <4>2
    <3>5. \A i \in 1..Len(log) : i \in 1..Len(log')
      BY <1>1, EntriesStay
    <3> QED
      BY <3>2, <3>3, <3>4, <3>5 DEF HasLeft
  <2>4. AbandonedGamesEnd'
    <3>1. ASSUME state'.stage = "InGame", NEW p \in PlayerId, NEW k \in 0..1, p = state'.players[k]
          PROVE  \/ p \in connected'
                 \/ \E m \in 1..Len(serverEvents') : serverEvents'[m] = ClientDisconnected(p)
                 \/ \E i, j \in 1..Len(log') :
                      i < j /\ log'[i] = PlayerLeft(p) /\ log'[j].type = "GameStarted"
      BY <2>3, <3>1 DEF Present, DepartureNoticed
    <3>2. \A k \in 0..1 : state'.players[k] \in PlayerId
      BY <1>5
    <3> QED
      BY <3>1, <3>2 DEF AbandonedGamesEnd, DepartureNoticed
  <2>5. state.stage = "Lobby"
    BY <1>8 DEF Seats
  <2> QED
    BY <1>3, <1>4, <2>2, <2>4, <2>5
<1> QED
  BY <1>1, <1>6, <1>7, <1>8 DEF Effect

\* The lobby of the next state, given who is on the way there.
LEMMA HandleKeepsLobby ==
  ASSUME AInv, NEW cmd \in Commands, NEW streams \in [Clients -> Seq(GameEvent)],
         handle(cmd, streams),
         cmd.type = "JoinGame" => Involved(cmd.player_id),
         \A p \in PlayerId : Present(p) =>
           Present(p)' \/ (cmd.type = "LeaveGame" /\ cmd.player_id = p),
         \A p \in PlayerId : OnTheWay(p)' =>
           Involved(p) \/ (cmd.type = "LeaveGame" /\ cmd.player_id = p)
  PROVE  LobbyExcused' /\ AbandonedGamesEnd'
<1>1. /\ AbandonedGamesEnd'
      /\ \A p \in PlayerId : Present(p) \/ HasLeft(p) => Present(p)' \/ HasLeft(p)'
      /\ cmd.type = "LeaveGame" => HasLeft(cmd.player_id)'
      /\ state'.stage = "Lobby" =>
           /\ state.stage = "Lobby"
           /\ \A p \in PlayerId :
                p # NoPlayer /\ p \in {state'.players[0], state'.players[1]} => Involved(p)
  BY HandleKeepsPlayers
<1>2. ASSUME state'.stage = "Lobby", NEW p \in PlayerId, Involved(p)'
      PROVE  Present(p)' \/ HasLeft(p)'
  <2>1. Involved(p) \/ (cmd.type = "LeaveGame" /\ cmd.player_id = p)
    BY <1>1, <1>2 DEF Involved
  <2>2. Involved(p) => Present(p) \/ HasLeft(p)
    BY <1>1, <1>2 DEF AInv, LobbyExcused
  <2> QED
    BY <1>1, <2>1, <2>2
<1> QED
  BY <1>1, <1>2 DEF LobbyExcused

\* Steps that leave the session alone.
LEMMA QuietKeepsPlayers ==
  ASSUME AInv, log' = log, state' = state,
         \A p \in PlayerId : Present(p) => Present(p)',
         \A p \in PlayerId : OnTheWay(p)' => Involved(p) \/ Present(p)'
  PROVE  LobbyExcused' /\ AbandonedGamesEnd'
<1>1. \A p : HasLeft(p)' <=> HasLeft(p)
  BY DEF HasLeft
<1>2. ASSUME state.stage = "Lobby", NEW p \in PlayerId, Involved(p)'
      PROVE  Present(p)' \/ HasLeft(p)'
  <2>1. Involved(p) \/ Present(p)'
    BY <1>2 DEF Involved
  <2> QED
    BY <1>1, <1>2, <2>1 DEF AInv, LobbyExcused
<1>3. LobbyExcused'
  BY <1>2 DEF LobbyExcused
<1>4. ASSUME state.stage = "InGame", NEW k \in 0..1, NEW p \in PlayerId, p = state.players[k]
      PROVE  \/ p \in connected'
             \/ \E m \in 1..Len(serverEvents') : serverEvents'[m] = ClientDisconnected(p)
             \/ \E i, j \in 1..Len(log') :
                  i < j /\ log'[i] = PlayerLeft(p) /\ log'[j].type = "GameStarted"
  BY <1>4 DEF AInv, AbandonedGamesEnd, Present, DepartureNoticed
<1>5. \A k \in 0..1 : state.players[k] \in PlayerId
  BY DEF AInv, SInv, SessionTypes, GameState
<1>6. AbandonedGamesEnd'
  BY <1>4, <1>5 DEF AbandonedGamesEnd, DepartureNoticed
<1> QED
  BY <1>3, <1>6

\* Clients coming, going and playing.
LEMMA ClientPlayers ==
  ASSUME AInv, NEW d \in Clients, Enter(d) \/ Leave(d) \/ Play(d)
  PROVE  LobbyExcused' /\ AbandonedGamesEnd'
<1> USE DEF AInv, SInv
<1>1. log' = log /\ state' = state /\ topic' = topic /\ messages' = messages
  BY DEF Enter, Leave, Play, server
<1>2. uplink \in [Clients -> Seq(Commands)]
  BY DEF OnlyCommands
<1>3. CASE Enter(d)
  <2>1. /\ connected' = connected \cup {d} /\ uplink' = [uplink EXCEPT ![d] = Greeting(d)]
        /\ serverEvents' = Append(serverEvents, ClientConnected(d))
    BY <1>3 DEF Enter, Connect
  <2>2. ClientConnected(d) \in Notice
    BY DEF ClientConnected, Notice
  <2>3. ASSUME NEW p \in PlayerId, Present(p) PROVE Present(p)'
    BY <2>1, <2>2, <2>3, NoticeAdded DEF Present, DepartureNoticed
  <2>4. ASSUME NEW p \in PlayerId, OnTheWay(p)' PROVE Involved(p) \/ Present(p)'
    <3>1. CASE p = d
      BY <2>1, <3>1 DEF Present
    <3>2. CASE p # d
      <4>1. Announced(p)' => Announced(p)
        BY <2>1, <2>2, <3>2, NoticeAdded, NoticesDiffer DEF Announced, ClientConnected
      <4>2. ASSUME NEW c \in Clients, NEW k \in 1..Len(uplink'[c]), uplink'[c][k].player_id = p
            PROVE  Involved(p)
        BY <1>2, <2>1, <3>2, <4>2 DEF Greeting, Involved, OnTheWay
      <4> QED
        BY <1>1, <2>4, <4>1, <4>2 DEF OnTheWay, Involved
    <3> QED
      BY <3>1, <3>2
  <2> QED
    BY <1>1, <2>3, <2>4, QuietKeepsPlayers
<1>4. CASE Leave(d)
  <2>1. /\ connected' = connected \ {d} /\ uplink' = [uplink EXCEPT ![d] = << >>]
        /\ serverEvents' = Append(serverEvents, ClientDisconnected(d))
    BY <1>4 DEF Leave, Disconnect
  <2>2. ClientDisconnected(d) \in Notice
    BY DEF ClientDisconnected, Notice
  <2>3. ASSUME NEW p \in PlayerId, Present(p) PROVE Present(p)'
    BY <2>1, <2>2, <2>3, NoticeAdded DEF Present, DepartureNoticed
  <2>4. ASSUME NEW p \in PlayerId, OnTheWay(p)' PROVE Involved(p) \/ Present(p)'
    <3>1. Announced(p)' => Announced(p)
      BY <2>1, <2>2, NoticeAdded, NoticesDiffer DEF Announced
    <3>2. ASSUME NEW c \in Clients, NEW k \in 1..Len(uplink'[c]), uplink'[c][k].player_id = p
          PROVE  Involved(p)
      BY <1>2, <2>1, <3>2 DEF Involved, OnTheWay
    <3> QED
      BY <1>1, <2>4, <3>1, <3>2 DEF OnTheWay, Involved
  <2> QED
    BY <1>1, <2>3, <2>4, QuietKeepsPlayers
<1>5. CASE Play(d)
  <2>1. UNCHANGED <<connected, serverEvents>>
    BY <1>5 DEF Play, ClientNext, Frame, Click, renet
  <2>2. \A p \in PlayerId : Present(p) => Present(p)'
    BY <2>1 DEF Present, DepartureNoticed
  <2>3. ASSUME NEW p \in PlayerId, NEW c \in Clients, NEW k \in 1..Len(uplink'[c]),
               uplink'[c][k].player_id = p
        PROVE  Involved(p) \/ Present(p)'
    <3>1. CASE uplink' = uplink
      BY <2>3, <3>1 DEF Involved, OnTheWay
    <3>2. CASE uplink' # uplink
      <4>1. PICK cursor \in Cursors[d] : Click(d, cursor)
        BY <1>5, <3>2 DEF Play, ClientNext, Frame, renet
      <4> DEFINE move == PlaceTile(d, CellAt(cursor))
      <4>2. d \in connected /\ uplink' = [uplink EXCEPT ![d] = Append(@, move)]
        BY <4>1 DEF Click
      <4>3. move \in Commands /\ move.player_id = d
        BY <4>1, OwnCommands, CellOnBoard DEF Click, Positions, PlaceTile
      <4> HIDE DEF move
      <4>4. CASE c # d
        BY <1>2, <2>3, <4>2, <4>4 DEF Involved, OnTheWay
      <4>5. CASE c = d
        <5>1. /\ uplink[c] \in Seq(Commands) /\ Len(uplink[c]) \in Nat
              /\ uplink'[c] = Append(uplink[c], move)
          BY <1>2, <4>2, <4>5
        <5>2. /\ Len(uplink'[c]) = Len(uplink[c]) + 1
              /\ \A i \in 1..Len(uplink[c]) : uplink'[c][i] = uplink[c][i]
              /\ uplink'[c][Len(uplink[c]) + 1] = move
          BY <4>3, <5>1, AppendProperties
        <5>3. CASE k \in 1..Len(uplink[c])
          BY <2>3, <5>2, <5>3 DEF Involved, OnTheWay
        <5>4. CASE k = Len(uplink[c]) + 1
          BY <2>1, <2>3, <4>2, <4>3, <5>2, <5>4 DEF Present
        <5> QED
          BY <5>1, <5>2, <5>3, <5>4
      <4> QED
        BY <4>4, <4>5
    <3> QED
      BY <3>1, <3>2
  <2>4. ASSUME NEW p \in PlayerId, OnTheWay(p)' PROVE Involved(p) \/ Present(p)'
    BY <1>1, <2>1, <2>3, <2>4 DEF OnTheWay, Involved, Announced
  <2> QED
    BY <1>1, <2>2, <2>4, QuietKeepsPlayers
<1> QED
  BY <1>3, <1>4, <1>5

\* A notice taken: whoever was there still is, or was the one it is about.
LEMMA PresenceTaken ==
  ASSUME OnlyCommands, serverEvents # << >>, serverEvents' = Tail(serverEvents),
         connected' = connected, NEW p
  PROVE  /\ Present(p) /\ Head(serverEvents) # ClientDisconnected(p) => Present(p)'
         /\ Announced(p)' => Announced(p)
<1>1. ASSUME NEW k \in 1..Len(serverEvents), serverEvents[k] = ClientDisconnected(p),
             Head(serverEvents) # ClientDisconnected(p)
      PROVE  \E m \in 1..Len(serverEvents') : serverEvents'[m] = ClientDisconnected(p)
  <2>1. k # 1
    BY <1>1, NoticeTaken
  <2> QED
    BY <1>1, <2>1, NoticeTaken
<1>2. ASSUME NEW k \in 1..Len(serverEvents'), serverEvents'[k] = ClientConnected(p)
      PROVE  Announced(p)
  BY <1>2, NoticeTaken DEF Announced
<1>3. Announced(p)' => Announced(p)
  BY <1>2 DEF Announced, ClientConnected
<1>4. Present(p) /\ Head(serverEvents) # ClientDisconnected(p) => Present(p)'
  BY <1>1 DEF Present, DepartureNoticed, ClientDisconnected
<1> QED
  BY <1>3, <1>4

\* The two arms of handle_connections.
LEMMA ConnectionPlayers ==
  ASSUME AInv, HandleConnected \/ HandleDisconnected
  PROVE  LobbyExcused' /\ AbandonedGamesEnd'
<1> USE DEF AInv, SInv
<1>1. PICK who : who = Head(serverEvents).client_id
  OBVIOUS
<1>2. /\ serverEvents # << >> /\ serverEvents' = Tail(serverEvents)
      /\ UNCHANGED <<connected, uplink, messages>>
  BY DEF HandleConnected, HandleDisconnected
<1>3. who \in Clients /\ who \in PlayerId
  BY <1>1, <1>2, HeadNotice, ClientsArePlayers DEF PlayerId
<1>4. downlink \in [Clients -> Seq(GameEvent)] /\ log \in Seq(GameEvent)
  BY DEF SessionTypes
<1>5. CASE HandleConnected
  <2> DEFINE cmd == JoinGame(who)
             streams == catch_up(who)
  <2>1. /\ Head(serverEvents).type = "ClientConnected"
        /\ topic' = topic \cup {cmd} /\ handle(cmd, streams)
    BY <1>1, <1>5 DEF HandleConnected, PublishAndHandle
  <2>2. Head(serverEvents) = ClientConnected(who)
    BY <1>1, <1>2, <2>1, NoticeTaken, NoticeKinds DEF ClientDisconnected
  <2>3. Announced(who)
    BY <1>2, <2>2, NoticeTaken DEF Announced
  <2>4. cmd \in Commands /\ cmd.type = "JoinGame" /\ cmd.player_id = who
    BY <1>3, OwnCommands DEF JoinGame
  <2>5. streams \in [Clients -> Seq(GameEvent)]
    <3>1. downlink[who] \o log \in Seq(GameEvent)
      BY <1>3, <1>4, ConcatProperties
    <3> QED
      BY <1>3, <1>4, <3>1 DEF catch_up, send_to
  <2> HIDE DEF cmd, streams
  <2>6. \A p \in PlayerId : Present(p) => Present(p)'
    BY <1>2, <2>2, PresenceTaken, NoticesDiffer
  <2>7. Involved(cmd.player_id)
    BY <2>3, <2>4 DEF Involved, OnTheWay
  <2>8. ASSUME NEW p \in PlayerId, OnTheWay(p)' PROVE Involved(p)
    <3>1. Announced(p)' => Announced(p)
      BY <1>2, PresenceTaken
    <3>2. ASSUME NEW other \in topic', other.player_id = p PROVE Involved(p)
      BY <2>1, <2>7, <3>2 DEF Involved, OnTheWay
    <3> QED
      BY <1>2, <2>8, <3>1, <3>2 DEF OnTheWay, Involved
  <2> QED
    BY <2>1, <2>4, <2>5, <2>6, <2>7, <2>8, HandleKeepsLobby
<1>6. CASE HandleDisconnected
  <2> DEFINE cmd == LeaveGame(who)
  <2>1. /\ Head(serverEvents).type = "ClientDisconnected"
        /\ topic' = topic \cup {cmd} /\ handle(cmd, downlink)
    BY <1>1, <1>6 DEF HandleDisconnected, PublishAndHandle
  <2>2. Head(serverEvents) = ClientDisconnected(who)
    BY <1>1, <1>2, <2>1, NoticeTaken, NoticeKinds DEF ClientConnected
  <2>3. cmd \in Commands /\ cmd.type = "LeaveGame" /\ cmd.player_id = who
    BY <1>3, OwnCommands DEF LeaveGame
  <2> HIDE DEF cmd
  <2>4. \A p \in PlayerId : Present(p) =>
          Present(p)' \/ (cmd.type = "LeaveGame" /\ cmd.player_id = p)
    BY <1>2, <2>2, <2>3, PresenceTaken, NoticesDiffer
  <2>5. ASSUME NEW p \in PlayerId, OnTheWay(p)'
        PROVE  Involved(p) \/ (cmd.type = "LeaveGame" /\ cmd.player_id = p)
    <3>1. Announced(p)' => Announced(p)
      BY <1>2, PresenceTaken
    <3>2. ASSUME NEW other \in topic', other.player_id = p
          PROVE  Involved(p) \/ (cmd.type = "LeaveGame" /\ cmd.player_id = p)
      BY <2>1, <2>3, <3>2 DEF Involved, OnTheWay
    <3> QED
      BY <1>2, <2>5, <3>1, <3>2 DEF OnTheWay, Involved
  <2>6. cmd.type # "JoinGame"
    BY <2>3
  <2> QED
    BY <1>4, <2>1, <2>3, <2>4, <2>5, <2>6, HandleKeepsLobby
<1> QED
  BY <1>5, <1>6

\* The messages of one client are read.
LEMMA PollPlayers ==
  ASSUME AInv, NEW c \in connected, NEW arrived \in 0..Len(uplink[c]), Poll(c, arrived)
  PROVE  LobbyExcused' /\ AbandonedGamesEnd'
<1> USE DEF AInv, SInv
<1>1. PICK queue : queue = uplink[c]
  OBVIOUS
<1>2. c \in Clients /\ queue \in Seq(Commands) /\ uplink \in [Clients -> Seq(Commands)]
      /\ messages \in Seq(Commands)
  BY <1>1 DEF OnlyCommands
<1>3. Len(queue) \in Nat /\ arrived \in 0..Len(queue)
  BY <1>1, <1>2
<1>4. /\ messages' = messages \o SubSeq(queue, 1, arrived)
      /\ uplink' = [uplink EXCEPT ![c] = SubSeq(queue, arrived + 1, Len(queue))]
      /\ UNCHANGED <<log, state, topic, connected, serverEvents>>
  BY <1>1 DEF Poll
<1>5. \A k \in 1..Len(queue) : queue[k] \in Commands
  BY <1>2
<1>6. PICK taken : taken = SubSeq(queue, 1, arrived)
  OBVIOUS
<1>7. /\ taken \in Seq(Commands) /\ Len(taken) = arrived
      /\ \A k \in 1..arrived : taken[k] = queue[k]
  BY <1>3, <1>5, <1>6, SubSeqProperties
<1>8. PICK rest : rest = SubSeq(queue, arrived + 1, Len(queue))
  OBVIOUS
<1>9. /\ rest \in Seq(Commands) /\ Len(rest) = Len(queue) - arrived
      /\ \A k \in 1..Len(rest) : rest[k] = queue[arrived + k]
  BY <1>3, <1>5, <1>8, SubSeqProperties
<1>10. ASSUME NEW p, NEW k \in 1..Len(messages'), messages'[k].player_id = p
       PROVE  OnTheWay(p)
  <2>1. /\ messages' = messages \o taken /\ Len(messages) \in Nat
        /\ Len(messages') = Len(messages) + Len(taken)
        /\ messages'[k] = IF k <= Len(messages) THEN messages[k] ELSE taken[k - Len(messages)]
    BY <1>2, <1>4, <1>6, <1>7, ConcatProperties
  <2>2. CASE k <= Len(messages)
    BY <1>10, <2>1, <2>2 DEF OnTheWay
  <2>3. CASE k > Len(messages)
    <3>1. PICK m : m = k - Len(messages)
      OBVIOUS
    <3>2. m \in 1..arrived /\ messages'[k] = taken[m]
      BY <1>3, <1>7, <2>1, <2>3, <3>1
    <3>3. m \in 1..Len(uplink[c]) /\ uplink[c][m].player_id = p
      BY <1>1, <1>3, <1>7, <1>10, <3>2
    <3> QED
      BY <1>2, <3>3 DEF OnTheWay
  <2> QED
    BY <1>2, <1>10, <2>1, <2>2, <2>3
<1>11. ASSUME NEW p, NEW d \in Clients, NEW k \in 1..Len(uplink'[d]),
              uplink'[d][k].player_id = p
       PROVE  OnTheWay(p)
  <2>1. CASE d = c
    <3>1. uplink'[d] = rest
      BY <1>2, <1>4, <1>8, <2>1
    <3>2. k \in 1..Len(rest) /\ rest[k].player_id = p
      BY <1>11, <3>1
    <3>3. arrived + k \in 1..Len(queue) /\ queue[arrived + k].player_id = p
      BY <1>3, <1>9, <3>2
    <3> QED
      BY <1>1, <1>2, <3>3 DEF OnTheWay
  <2>2. CASE d # c
    BY <1>2, <1>4, <1>11, <2>2 DEF OnTheWay
  <2> QED
    BY <2>1, <2>2
<1>12. \A p \in PlayerId : OnTheWay(p)' => Involved(p) \/ Present(p)'
  <2>1. \A p : Announced(p)' => Announced(p)
    BY <1>4 DEF Announced
  <2> QED
    BY <1>4, <1>10, <1>11, <2>1 DEF OnTheWay, Involved
<1>13. \A p \in PlayerId : Present(p) => Present(p)'
  BY <1>4 DEF Present, DepartureNoticed
<1> QED
  BY <1>4, <1>12, <1>13, QuietKeepsPlayers

\* The loop.
LEMMA LoopPlayers ==
  ASSUME AInv, Serve
  PROVE  LobbyExcused' /\ AbandonedGamesEnd'
<1> USE DEF AInv, SInv
<1>1. downlink \in [Clients -> Seq(GameEvent)]
  BY DEF SessionTypes
<1>2. CASE BeginTick \/ EndTick
  <2>1. UNCHANGED <<renet, messages, topic, log, state>>
    BY <1>2 DEF BeginTick, EndTick
  <2>2. \A p \in PlayerId : (Present(p) => Present(p)') /\ (OnTheWay(p)' => OnTheWay(p))
    BY <2>1 DEF renet, Present, DepartureNoticed, OnTheWay, Announced
  <2> QED
    BY <2>1, <2>2, QuietKeepsPlayers DEF Involved
<1>3. CASE HandleConnected \/ HandleDisconnected
  BY <1>3, ConnectionPlayers
<1>4. ASSUME NEW c \in connected, NEW arrived \in 0..Len(uplink[c]), Poll(c, arrived)
      PROVE  LobbyExcused' /\ AbandonedGamesEnd'
  BY <1>4, PollPlayers
<1>5. CASE HandleMessage
  <2>1. PICK cmd : cmd = Head(messages)
    OBVIOUS
  <2>2. /\ messages # << >> /\ messages' = Tail(messages) /\ messages \in Seq(Commands)
        /\ topic' = topic \cup {cmd} /\ handle(cmd, downlink)
        /\ UNCHANGED <<connected, serverEvents, uplink>>
    BY <1>5, <2>1 DEF HandleMessage, PublishAndHandle, OnlyCommands
  <2>3. /\ Len(messages) \in Nat \ {0} /\ cmd = messages[1] /\ cmd \in Commands
        /\ Len(messages') = Len(messages) - 1
        /\ \A k \in 1..(Len(messages) - 1) : messages'[k] = messages[k + 1]
    BY <2>1, <2>2, HeadTailProperties, EmptySeq
  <2>4. Involved(cmd.player_id)
    BY <2>3 DEF Involved, OnTheWay
  <2>5. ASSUME NEW p, NEW k \in 1..Len(messages'), messages'[k].player_id = p
        PROVE  Involved(p)
    <3>1. k + 1 \in 1..Len(messages) /\ messages[k + 1].player_id = p
      BY <2>3, <2>5
    <3> QED
      BY <3>1 DEF Involved, OnTheWay
  <2>6. \A p \in PlayerId : OnTheWay(p)' => Involved(p)
    <3>1. \A p : Announced(p)' => Announced(p)
      BY <2>2 DEF Announced
    <3>2. \A p : (\E other \in topic' : other.player_id = p) => Involved(p)
      BY <2>2, <2>4 DEF Involved, OnTheWay
    <3> QED
      BY <2>2, <2>5, <3>1, <3>2 DEF OnTheWay, Involved
  <2>7. \A p \in PlayerId : Present(p) => Present(p)'
    BY <2>2 DEF Present, DepartureNoticed
  <2> QED
    BY <1>1, <2>2, <2>3, <2>4, <2>6, <2>7, HandleKeepsLobby
<1>6. ASSUME NEW cmd \in topic, HandleBrokerCommand(cmd)
      PROVE  LobbyExcused' /\ AbandonedGamesEnd'
  <2>1. /\ handle(cmd, downlink) /\ cmd \in Commands
        /\ UNCHANGED <<connected, serverEvents, uplink, messages, topic>>
    BY <1>6 DEF HandleBrokerCommand, OnlyCommands
  <2>2. Involved(cmd.player_id)
    BY DEF Involved, OnTheWay
  <2>3. \A p \in PlayerId : (Present(p) => Present(p)') /\ (OnTheWay(p)' => Involved(p))
    BY <2>1 DEF Present, DepartureNoticed, OnTheWay, Announced, Involved
  <2> QED
    BY <1>1, <2>1, <2>2, <2>3, HandleKeepsLobby
<1> QED
  BY <1>2, <1>3, <1>4, <1>5, <1>6 DEF Serve, ServerNext

\* Of nothing, nobody is on the way.
LEMMA EmptyLobby ==
  ASSUME state = DefaultState, topic = {}, messages = << >>, serverEvents = << >>,
         \A c \in Clients : uplink[c] = << >>
  PROVE  LobbyExcused /\ AbandonedGamesEnd
<1>1. state.stage = "Lobby" /\ state.players[0] = NoPlayer /\ state.players[1] = NoPlayer
  BY DEF DefaultState
<1>2. \A p : ~ Involved(p)
  BY <1>1 DEF Involved, OnTheWay, Announced
<1> QED
  BY <1>1, <1>2 DEF LobbyExcused, AbandonedGamesEnd

\* Every step keeps the invariant.
LEMMA StepPlayers == AInv /\ [Next]_vars => AInv'
<1> SUFFICES ASSUME AInv, [Next]_vars PROVE LobbyExcused' /\ AbandonedGamesEnd'
  BY StepStreams DEF AInv
<1>1. ASSUME NEW c \in Clients, Enter(c) \/ Leave(c) \/ Play(c)
      PROVE  LobbyExcused' /\ AbandonedGamesEnd'
  BY <1>1, ClientPlayers
<1>2. CASE Serve
  BY <1>2, LoopPlayers
<1>3. CASE Restart
  <2>1. /\ topic' = {} /\ state' = DefaultState /\ messages' = << >> /\ serverEvents' = << >>
        /\ \A c \in Clients : uplink'[c] = << >>
    BY <1>3, RestartForgets DEF AInv, SInv
  <2>2. /\ state'.stage = "Lobby" /\ state'.players[0] = NoPlayer
        /\ state'.players[1] = NoPlayer
    BY <2>1 DEF DefaultState
  <2>3. \A p : ~ Involved(p)'
    BY <2>1, <2>2 DEF Involved, OnTheWay, Announced
  <2> QED
    BY <2>2, <2>3 DEF LobbyExcused, AbandonedGamesEnd
<1>4. CASE UNCHANGED vars
  <2>1. UNCHANGED <<topic, state, log, messages, serverEvents, uplink, connected>>
    BY <1>4 DEF vars, renet, server
  <2>2. \A p \in PlayerId : (Present(p) => Present(p)') /\ (OnTheWay(p)' => Involved(p))
    BY <2>1 DEF Present, DepartureNoticed, OnTheWay, Announced, Involved
  <2> QED
    BY <2>1, <2>2, QuietKeepsPlayers
<1> QED
  BY <1>1, <1>2, <1>3, <1>4 DEF Next

(* A game does not go on without a player: whatever clients come and go,   *)
(* whatever echoes come back from the topic and however often the server   *)
(* restarts, a player of a running game is connected, or its departure is  *)
(* still to be handled, or it was known to have left before the game began *)
(* (server/src/main.rs:129-237, decider.rs:101-116).                                   *)
THEOREM AbandonedGamesAreEnded == Spec => []AbandonedGamesEnd
<1>1. Init => AInv
  <2>1. Init => LobbyExcused /\ AbandonedGamesEnd
    BY EmptyLobby DEF Init, RenetInit, ServerInit
  <2> QED
    BY <2>1, InitStreams DEF AInv
<1>2. AInv => AbandonedGamesEnd
  BY DEF AInv
<1> QED
  BY <1>1, <1>2, StepPlayers, PTL DEF Spec

-----------------------------------------------------------------------------
(* The server's state and every client's copy are replays.                 *)

\* What handle applies are no events, one, or two, which is their replay.
LEMMA BatchReplayed ==
  ASSUME NEW s, NEW cmd \in GameCommand
  PROVE  Write!ApplyBatch(s, decide(s, cmd).events) = Replay(s, decide(s, cmd).events)
<1> DEFINE batch == decide(s, cmd).events
<1>1. batch = << >> \/ (\E first : batch = <<first>>) \/ \E first, second : batch = <<first, second>>
  <2>1. \A first, board : \/ \E e : PlaceAndJudge(first, board) = <<e>>
                          \/ \E e, f : PlaceAndJudge(first, board) = <<e, f>>
    BY DEF PlaceAndJudge
  <2>2. \A first, next : \/ \E e : JoinAndStart(first, next).events = <<e>>
                         \/ \E e, f : JoinAndStart(first, next).events = <<e, f>>
    BY DEF JoinAndStart, Ok
  <2>3. CASE cmd.type = "JoinGame"
    BY <2>2, <2>3 DEF decide, DecideJoin, Ok, Err
  <2>4. CASE cmd.type = "PlaceTile"
    BY <2>1, <2>4 DEF decide, DecidePlace, Ok, Err
  <2>5. CASE cmd.type = "LeaveGame"
    BY <2>5 DEF decide, DecideLeave, Ok, Err
  <2> QED
    BY <2>3, <2>4, <2>5 DEF GameCommand
<1> HIDE DEF batch
<1>2. CASE batch = << >>
  <2>1. Write!ApplyBatch(s, << >>) = s
    BY Applied
  <2>2. Replay(s, << >>) = s
    BY ReplayNothing
  <2> QED
    BY <1>2, <2>1, <2>2 DEF batch
<1>3. ASSUME NEW first, batch = <<first>>
      PROVE  Write!ApplyBatch(s, batch) = Replay(s, batch)
  BY <1>3, Applied, ReplayOne
<1>4. ASSUME NEW first, NEW second, batch = <<first, second>>
      PROVE  Write!ApplyBatch(s, batch) = Replay(s, batch)
  BY <1>4, Applied, ReplayTwo
<1> QED
  BY <1>1, <1>2, <1>3, <1>4 DEF batch

\* The state kept from one command to the next is the one hydrate would make.
LogReplayed == state = hydrate(log)

(* What a client has read of its stream, and what it made of it; nothing   *)
(* yet, or not any more, without a connection.                             *)
CopyIsReplay(c) ==
  IF c \in connected
  THEN \E done, rest \in Seq(GameEvent) :
         downlink[c] = done \o rest /\ read[c] = Len(done) /\ view[c] = hydrate(done)
  ELSE read[c] = 0 /\ view[c] = DefaultState

Folded ==
  /\ SInv /\ LogReplayed
  /\ view \in [Clients -> GameState] /\ read \in [Clients -> Nat]
  /\ \A c \in Clients : CopyIsReplay(c)

\* handle applies to the state what it appends to the log.
LEMMA HandleReplays ==
  ASSUME SessionTypes, LogReplayed, NEW cmd \in Commands, NEW streams, handle(cmd, streams)
  PROVE  LogReplayed'
<1> DEFINE batch == decide(state, cmd).events
<1>1. cmd \in GameCommand /\ state \in GameState /\ log \in Seq(GameEvent)
  BY DEF Commands, SessionTypes
<1>2. log' = log \o batch /\ state' = Write!ApplyBatch(state, batch)
  BY DEF handle
<1>3. batch \in Seq(GameEvent)
  BY <1>1, DecidesEvents
<1>4. state' = Replay(state, batch)
  BY <1>1, <1>2, BatchReplayed
<1> HIDE DEF batch
<1>5. Replay(DefaultState, log \o batch) = Replay(Replay(DefaultState, log), batch)
  BY <1>1, <1>3, ReplayConcat
<1> QED
  BY <1>2, <1>4, <1>5 DEF LogReplayed, hydrate

\* The loop keeps the log replayed, and takes nothing back from a stream.
LEMMA LoopReplays ==
  ASSUME SInv, LogReplayed, Serve
  PROVE  /\ LogReplayed' /\ connected' = connected
         /\ \A c \in Clients : \E more \in Seq(GameEvent) : downlink'[c] = downlink[c] \o more
<1>1. SessionTypes /\ OnlyCommands
  BY DEF SInv
<1>2. downlink \in [Clients -> Seq(GameEvent)] /\ log \in Seq(GameEvent)
  BY <1>1 DEF SessionTypes
<1>3. CASE BeginTick \/ EndTick \/ \E c \in connected : \E n \in 0..Len(uplink[c]) : Poll(c, n)
  <2>1. UNCHANGED <<connected, downlink, log, state>>
    BY <1>3 DEF BeginTick, EndTick, Poll, renet
  <2>2. \A c \in Clients : downlink[c] = downlink[c] \o << >> /\ << >> \in Seq(GameEvent)
    BY <1>2, ConcatEmptySeq
  <2> QED
    BY <2>1, <2>2 DEF LogReplayed
<1>4. ASSUME NEW cmd \in Commands, NEW streams \in [Clients -> Seq(GameEvent)],
             handle(cmd, streams), UNCHANGED connected,
             \A c \in Clients : \E more \in Seq(GameEvent) : streams[c] = downlink[c] \o more
      PROVE  /\ LogReplayed' /\ connected' = connected
             /\ \A c \in Clients : \E more \in Seq(GameEvent) : downlink'[c] = downlink[c] \o more
  <2>1. LogReplayed'
    BY <1>1, <1>4, HandleReplays
  <2>2. PICK events \in Seq(GameEvent) :
          \A c \in Clients : downlink'[c] =
            IF c \in connected THEN streams[c] \o events ELSE streams[c]
    BY <1>1, <1>4, HandleTypes
  <2>3. ASSUME NEW c \in Clients
        PROVE  \E more \in Seq(GameEvent) : downlink'[c] = downlink[c] \o more
    <3>1. PICK more \in Seq(GameEvent) : streams[c] = downlink[c] \o more
      BY <1>4
    <3>2. downlink[c] \in Seq(GameEvent)
      BY <1>2
    <3>3. (downlink[c] \o more) \o events = downlink[c] \o (more \o events)
      BY <3>1, <3>2, Associative
    <3>4. more \o events \in Seq(GameEvent)
      BY <3>1, ConcatProperties
    <3> QED
      BY <2>2, <3>1, <3>3, <3>4
  <2> QED
    BY <1>4, <2>1, <2>3
<1>5. \A c \in Clients : \E more \in Seq(GameEvent) : downlink[c] = downlink[c] \o more
  <2>1. \A c \in Clients : downlink[c] = downlink[c] \o << >> /\ << >> \in Seq(GameEvent)
    BY <1>2, ConcatEmptySeq
  <2> QED
    BY <2>1
<1>6. CASE HandleConnected
  <2> DEFINE new == Head(serverEvents).client_id
             streams == catch_up(new)
  <2>1. handle(JoinGame(new), streams) /\ UNCHANGED connected
    BY <1>6 DEF HandleConnected, PublishAndHandle
  <2>2. new \in Clients /\ JoinGame(new) \in Commands
    BY <1>1, <1>6, HeadNotice, OwnCommands DEF HandleConnected
  <2>3. downlink[new] \o log \in Seq(GameEvent)
    BY <1>2, <2>2, ConcatProperties
  <2>4. /\ streams \in [Clients -> Seq(GameEvent)]
        /\ \A c \in Clients :
             streams[c] = IF c = new /\ c \in connected THEN downlink[c] \o log ELSE downlink[c]
    BY <1>2, <2>2, <2>3 DEF catch_up, send_to
  <2>5. \A c \in Clients : \E more \in Seq(GameEvent) : streams[c] = downlink[c] \o more
    BY <1>2, <1>5, <2>4
  <2> QED
    BY <1>4, <2>1, <2>2, <2>4, <2>5
<1>7. CASE HandleDisconnected
  <2> DEFINE d == Head(serverEvents).client_id
  <2>1. handle(LeaveGame(d), downlink) /\ UNCHANGED connected
    BY <1>7 DEF HandleDisconnected, PublishAndHandle
  <2>2. LeaveGame(d) \in Commands
    BY <1>1, <1>7, HeadNotice, OwnCommands DEF HandleDisconnected
  <2> QED
    BY <1>2, <1>4, <1>5, <2>1, <2>2
<1>8. CASE HandleMessage
  <2>1. Head(messages) \in Commands
    BY <1>1, <1>8 DEF HandleMessage, OnlyCommands
  <2>2. handle(Head(messages), downlink) /\ UNCHANGED connected
    BY <1>8 DEF HandleMessage, PublishAndHandle
  <2> QED
    BY <1>2, <1>4, <1>5, <2>1, <2>2
<1>9. ASSUME NEW cmd \in topic, HandleBrokerCommand(cmd)
      PROVE  /\ LogReplayed' /\ connected' = connected
             /\ \A c \in Clients : \E more \in Seq(GameEvent) : downlink'[c] = downlink[c] \o more
  <2>1. cmd \in Commands
    BY <1>1 DEF OnlyCommands
  <2>2. handle(cmd, downlink) /\ UNCHANGED connected
    BY <1>9 DEF HandleBrokerCommand
  <2> QED
    BY <1>2, <1>4, <1>5, <2>1, <2>2
<1> QED
  BY <1>3, <1>6, <1>7, <1>8, <1>9 DEF Serve, ServerNext

\* The first n of a sequence, and the others.
LEMMA Split ==
  ASSUME NEW s \in Seq(GameEvent), NEW n \in 0..Len(s)
  PROVE  /\ SubSeq(s, 1, n) \in Seq(GameEvent) /\ Len(SubSeq(s, 1, n)) = n
         /\ SubSeq(s, n + 1, Len(s)) \in Seq(GameEvent)
         /\ s = SubSeq(s, 1, n) \o SubSeq(s, n + 1, Len(s))
<1> DEFINE front == SubSeq(s, 1, n)
           back == SubSeq(s, n + 1, Len(s))
<1>1. front \in Seq(GameEvent) /\ Len(front) = n /\ \A k \in 1..n : front[k] = s[k]
  BY SubSeqProperties
<1>2. /\ back \in Seq(GameEvent) /\ Len(back) = Len(s) - n
      /\ \A k \in 1..(Len(s) - n) : back[k] = s[n + k]
  BY SubSeqProperties
<1> HIDE DEF front, back
<1>3. /\ front \o back \in Seq(GameEvent) /\ Len(front \o back) = Len(s)
      /\ \A k \in 1..Len(s) : (front \o back)[k] = IF k <= n THEN front[k] ELSE back[k - n]
  BY <1>1, <1>2, ConcatProperties
<1>4. ASSUME NEW k \in 1..Len(s) PROVE (front \o back)[k] = s[k]
  <2>1. CASE k <= n
    BY <1>1, <1>3, <2>1
  <2>2. CASE ~ k <= n
    <3>1. k - n \in 1..(Len(s) - n) /\ n + (k - n) = k
      BY <2>2
    <3>2. back[k - n] = s[n + (k - n)]
      BY <1>2, <3>1
    <3> QED
      BY <1>3, <2>2, <3>1, <3>2
  <2> QED
    BY <2>1, <2>2
<1>5. s = front \o back
  BY <1>3, <1>4, SeqEqual
<1> QED
  BY <1>1, <1>2, <1>5 DEF front, back

\* A stretch of what is left of a stream, counted from its start.
LEMMA StretchOfRest ==
  ASSUME NEW done \in Seq(GameEvent), NEW rest \in Seq(GameEvent), NEW n \in 1..Len(rest)
  PROVE  SubSeq(done \o rest, Len(done) + 1, Len(done) + n) = SubSeq(rest, 1, n)
<1> DEFINE whole == done \o rest
<1>1. /\ whole \in Seq(GameEvent) /\ Len(done) \in Nat /\ Len(rest) \in Nat
      /\ Len(whole) = Len(done) + Len(rest)
      /\ \A k \in 1..Len(rest) : whole[Len(done) + k] = rest[k]
  BY ConcatProperties
<1> HIDE DEF whole
<1>2. \A i \in (Len(done) + 1)..(Len(done) + n) : whole[i] \in GameEvent
  BY <1>1
<1>3. /\ SubSeq(whole, Len(done) + 1, Len(done) + n) \in Seq(GameEvent)
      /\ Len(SubSeq(whole, Len(done) + 1, Len(done) + n)) = n
      /\ \A k \in 1..n :
           SubSeq(whole, Len(done) + 1, Len(done) + n)[k] = whole[Len(done) + k]
  BY <1>1, <1>2, SubSeqProperties
<1>4. /\ SubSeq(rest, 1, n) \in Seq(GameEvent) /\ Len(SubSeq(rest, 1, n)) = n
      /\ \A k \in 1..n : SubSeq(rest, 1, n)[k] = rest[k]
  BY SubSeqProperties
<1>5. SubSeq(whole, Len(done) + 1, Len(done) + n) = SubSeq(rest, 1, n)
  <2> DEFINE taken == SubSeq(whole, Len(done) + 1, Len(done) + n)
             front == SubSeq(rest, 1, n)
  <2>1. \A k \in 1..n : taken[k] = front[k]
    BY <1>1, <1>3, <1>4
  <2>2. taken \in Seq(GameEvent) /\ front \in Seq(GameEvent) /\ Len(taken) = n /\ Len(front) = n
    BY <1>3, <1>4
  <2> HIDE DEF taken, front
  <2>3. taken = front
    BY <2>1, <2>2, SeqEqual
  <2> QED
    BY <2>3 DEF taken, front
<1> QED
  BY <1>5 DEF whole

\* A frame folds what it takes off the stream into the copy.
LEMMA FrameReplays ==
  ASSUME Folded, NEW c \in Clients, NEW arrived \in Unread(c), Frame(c, arrived)
  PROVE  /\ CopyIsReplay(c)'
         /\ view' \in [Clients -> GameState] /\ read' \in [Clients -> Nat]
         /\ \A d \in Clients : d # c => view'[d] = view[d] /\ read'[d] = read[d]
<1> DEFINE events == SubSeq(downlink[c], read[c] + 1, read[c] + arrived)
<1>1. /\ c \in connected /\ connected' = connected /\ downlink' = downlink
      /\ view' = [view EXCEPT ![c] = Replay(@, events)]
      /\ read' = [read EXCEPT ![c] = @ + Len(events)]
  BY DEF Frame, receive_server_events, renet
<1>2. view \in [Clients -> GameState] /\ read \in [Clients -> Nat]
  BY DEF Folded
<1>3. PICK done \in Seq(GameEvent), rest \in Seq(GameEvent) :
        downlink[c] = done \o rest /\ read[c] = Len(done) /\ view[c] = hydrate(done)
  BY <1>1 DEF Folded, CopyIsReplay
<1>4. arrived \in 1..Len(rest)
  <2>1. Len(downlink[c]) = Len(done) + Len(rest) /\ Len(done) \in Nat /\ Len(rest) \in Nat
    BY <1>3, ConcatProperties
  <2> QED
    BY <1>3, <2>1 DEF Unread
<1>5. events = SubSeq(rest, 1, arrived)
  BY <1>3, <1>4, StretchOfRest
<1> DEFINE left == SubSeq(rest, arrived + 1, Len(rest))
<1>6. /\ events \in Seq(GameEvent) /\ left \in Seq(GameEvent) /\ rest = events \o left
      /\ Len(events) \in Nat
  <2> HIDE DEF events
  <2>1. arrived \in 0..Len(rest)
    BY <1>4
  <2>2. /\ SubSeq(rest, 1, arrived) \in Seq(GameEvent) /\ left \in Seq(GameEvent)
        /\ rest = SubSeq(rest, 1, arrived) \o left /\ Len(SubSeq(rest, 1, arrived)) = arrived
    BY <2>1, Split
  <2> QED
    BY <1>4, <1>5, <2>2
<1> HIDE DEF events, left
<1>7. /\ done \o events \in Seq(GameEvent) /\ Len(done \o events) = Len(done) + Len(events)
      /\ done \o (events \o left) = (done \o events) \o left
  BY <1>6, ConcatProperties, Associative
<1>8. view'[c] = hydrate(done \o events)
  <2>1. Replay(DefaultState, done \o events) = Replay(Replay(DefaultState, done), events)
    BY <1>6, ReplayConcat
  <2> QED
    BY <1>1, <1>2, <1>3, <2>1 DEF hydrate
<1>9. CopyIsReplay(c)'
  <2>1. downlink'[c] = (done \o events) \o left /\ read'[c] = Len(done \o events)
    BY <1>1, <1>2, <1>3, <1>6, <1>7
  <2> QED
    BY <1>1, <1>6, <1>7, <1>8, <2>1 DEF CopyIsReplay
<1>10. view'[c] \in GameState /\ read'[c] \in Nat
  BY <1>1, <1>2, <1>6, ReplayTyped
<1> QED
  BY <1>1, <1>2, <1>9, <1>10

\* Nothing happens to a client's copy; its stream may grow.
LEMMA CopyStays ==
  ASSUME NEW c \in Clients, CopyIsReplay(c), view'[c] = view[c], read'[c] = read[c],
         c \in connected' <=> c \in connected,
         c \in connected => \E more \in Seq(GameEvent) : downlink'[c] = downlink[c] \o more
  PROVE  CopyIsReplay(c)'
<1>1. CASE c \notin connected
  BY <1>1 DEF CopyIsReplay
<1>2. CASE c \in connected
  <2>1. PICK done \in Seq(GameEvent), rest \in Seq(GameEvent) :
          downlink[c] = done \o rest /\ read[c] = Len(done) /\ view[c] = hydrate(done)
    BY <1>2 DEF CopyIsReplay
  <2>2. PICK more \in Seq(GameEvent) : downlink'[c] = downlink[c] \o more
    BY <1>2
  <2>3. (done \o rest) \o more = done \o (rest \o more) /\ rest \o more \in Seq(GameEvent)
    BY <2>1, <2>2, Associative, ConcatProperties
  <2>4. downlink'[c] = done \o (rest \o more)
    BY <2>1, <2>2, <2>3
  <2> QED
    BY <1>2, <2>1, <2>3, <2>4 DEF CopyIsReplay
<1> QED
  BY <1>1, <1>2

\* It holds of a server without clients.
LEMMA InitFolded == Init => Folded
<1> SUFFICES ASSUME Init PROVE Folded
  OBVIOUS
<1>1. LogReplayed
  BY ReplayNothing DEF Init, ServerInit, LogReplayed, hydrate
<1>2. view \in [Clients -> GameState] /\ read \in [Clients -> Nat]
  BY DefaultTyped DEF Init, ClientInit
<1>3. \A c \in Clients : CopyIsReplay(c)
  BY DEF Init, RenetInit, ClientInit, CopyIsReplay
<1> QED
  BY <1>1, <1>2, <1>3, InitStreams DEF Folded

\* Clients coming, going and playing.
LEMMA ClientsFold ==
  ASSUME Folded, NEW d \in Clients, Enter(d) \/ Leave(d) \/ Play(d)
  PROVE  Folded'
<1>1. SInv' /\ LogReplayed'
  <2>1. UNCHANGED <<log, state>>
    BY DEF Enter, Leave, Play, server
  <2> QED
    BY <2>1, ClientStreams DEF Folded, LogReplayed
<1>2. /\ downlink \in [Clients -> Seq(GameEvent)]
      /\ view \in [Clients -> GameState] /\ read \in [Clients -> Nat]
      /\ \A c \in Clients : CopyIsReplay(c) /\ SentSoFar(c)
  BY DEF Folded, SInv, SessionTypes
<1>3. << >> \in Seq(GameEvent) /\ Len(<< >>) = 0
  BY EmptySeq
<1>4. \A c \in Clients : downlink[c] = downlink[c] \o << >>
  BY <1>2, ConcatEmptySeq
<1>5. CASE Enter(d)
  <2>1. /\ connected' = connected \cup {d} /\ d \notin connected
        /\ UNCHANGED <<downlink, view, read>>
    BY <1>5 DEF Enter, Connect, client
  <2>2. CopyIsReplay(d)'
    <3>1. downlink'[d] = << >> \o << >> /\ read'[d] = 0 /\ view'[d] = DefaultState
      BY <1>2, <1>4, <2>1 DEF SentSoFar, CopyIsReplay
    <3>2. hydrate(<< >>) = DefaultState
      BY ReplayNothing DEF hydrate
    <3> QED
      BY <1>3, <2>1, <3>1, <3>2 DEF CopyIsReplay
  <2>3. ASSUME NEW c \in Clients, c # d PROVE CopyIsReplay(c)'
    BY <1>2, <1>3, <1>4, <2>1, <2>3, CopyStays
  <2> QED
    BY <1>1, <1>2, <2>1, <2>2, <2>3 DEF Folded
<1>6. CASE Leave(d)
  <2>1. /\ connected' = connected \ {d}
        /\ downlink' = [downlink EXCEPT ![d] = << >>]
        /\ view' = [c \in Clients |-> IF c = d THEN DefaultState ELSE view[c]]
        /\ read' = [c \in Clients |-> IF c = d THEN 0 ELSE read[c]]
    BY <1>6 DEF Leave, Disconnect, Quit
  <2>2. CopyIsReplay(d)'
    BY <2>1 DEF CopyIsReplay
  <2>3. ASSUME NEW c \in Clients, c # d PROVE CopyIsReplay(c)'
    <3>1. downlink'[c] = downlink[c] \o << >>
      BY <1>2, <1>4, <2>1, <2>3
    <3> QED
      BY <1>2, <1>3, <2>1, <2>3, <3>1, CopyStays
  <2>4. view' \in [Clients -> GameState] /\ read' \in [Clients -> Nat]
    BY <1>2, <2>1, DefaultTyped
  <2> QED
    BY <1>1, <2>2, <2>3, <2>4 DEF Folded
<1>7. ASSUME NEW arrived \in Unread(d), Frame(d, arrived) PROVE Folded'
  <2>1. connected' = connected /\ downlink' = downlink
    BY <1>7 DEF Frame, renet
  <2>2. /\ CopyIsReplay(d)'
        /\ view' \in [Clients -> GameState] /\ read' \in [Clients -> Nat]
        /\ \A c \in Clients : c # d => view'[c] = view[c] /\ read'[c] = read[c]
    BY <1>7, FrameReplays
  <2>3. ASSUME NEW c \in Clients, c # d PROVE CopyIsReplay(c)'
    BY <1>2, <1>3, <1>4, <2>1, <2>2, <2>3, CopyStays
  <2> QED
    BY <1>1, <2>2, <2>3 DEF Folded
<1>8. ASSUME NEW cursor \in Cursors[d], Click(d, cursor) PROVE Folded'
  <2>1. UNCHANGED <<connected, downlink, view, read>>
    BY <1>8 DEF Click
  <2> QED
    BY <1>1, <1>2, <2>1 DEF Folded, CopyIsReplay
<1> QED
  BY <1>5, <1>6, <1>7, <1>8 DEF Play, ClientNext

\* Every step keeps it.
LEMMA StepFolded ==
  ASSUME Folded, [Next]_vars
  PROVE  Folded'
<1>1. SInv'
  BY StepStreams DEF Folded
<1>2. CASE Serve
  <2>1. /\ LogReplayed' /\ connected' = connected
        /\ \A c \in Clients : \E more \in Seq(GameEvent) : downlink'[c] = downlink[c] \o more
    BY <1>2, LoopReplays DEF Folded
  <2>2. UNCHANGED <<view, read>>
    BY <1>2 DEF Serve, client
  <2>3. ASSUME NEW c \in Clients PROVE CopyIsReplay(c)'
    BY <2>1, <2>2, CopyStays DEF Folded
  <2> QED
    BY <1>1, <2>1, <2>2, <2>3 DEF Folded
<1>3. CASE Restart
  <2>1. connected' = {} /\ log' = << >> /\ state' = DefaultState
    BY <1>3, RestartForgets DEF Folded, SInv
  <2>2. view' = [c \in Clients |-> DefaultState] /\ read' = [c \in Clients |-> 0]
    BY <1>3 DEF Restart, CutOff, Quit
  <2>3. LogReplayed'
    BY <2>1, ReplayNothing DEF LogReplayed, hydrate
  <2>4. \A c \in Clients : CopyIsReplay(c)'
    BY <2>1, <2>2 DEF CopyIsReplay
  <2> QED
    BY <1>1, <2>2, <2>3, <2>4, DefaultTyped DEF Folded
<1>4. CASE UNCHANGED vars
  BY <1>1, <1>4 DEF vars, renet, server, client, Folded, LogReplayed, CopyIsReplay
<1> QED
  BY <1>2, <1>3, <1>4, ClientsFold DEF Next

(* Copy and state are replays of one log, however the events were cut into *)
(* frames and whoever came, went or restarted in between: a client without *)
(* duplicates has the server's very state when it has read all             *)
(* (client/src/main.rs:212-229, server/src/game_service.rs:51).            *)
THEOREM CopiesAreExact == Spec => []ExactCopies
<1>1. Folded => ExactCopies
  <2> SUFFICES ASSUME Folded, NEW c \in Clients, UpToDate(c), downlink[c] = log
               PROVE  view[c] = state
    BY DEF ExactCopies
  <2>1. PICK done \in Seq(GameEvent), rest \in Seq(GameEvent) :
          downlink[c] = done \o rest /\ read[c] = Len(done) /\ view[c] = hydrate(done)
    BY DEF Folded, CopyIsReplay, UpToDate, Greeted
  <2>2. Len(done \o rest) = Len(done) + Len(rest) /\ Len(done) \in Nat /\ Len(rest) \in Nat
    BY ConcatProperties
  <2>3. Len(rest) = 0
    BY <2>1, <2>2 DEF UpToDate
  <2>4. rest = << >>
    BY <2>3, EmptySeq
  <2>5. done = log
    BY <2>1, <2>4, ConcatEmptySeq
  <2> QED
    BY <2>1, <2>5 DEF Folded, LogReplayed
<1> QED
  BY <1>1, InitFolded, StepFolded, PTL DEF Spec

-----------------------------------------------------------------------------
(* What is left of the types: who is connected and who has been polled.    *)

Connections ==
  /\ step \in {"update", "tick"} /\ polled \subseteq connected
  /\ step = "update" => polled = {}
  /\ connected \subseteq Clients /\ gone \subseteq Clients \ connected
  /\ IsFiniteSet(connected) /\ Cardinality(connected) <= MaxClients
  /\ DOMAIN pair = Clients /\ \A c \in Clients : Len(pair[c]) \in {0, 2}

\* A frame sets a client's pair to two joins, or leaves it.
LEMMA PairSet ==
  ASSUME Connections, NEW c \in Clients, update_pair(c)
  PROVE  DOMAIN pair' = Clients /\ \A d \in Clients : Len(pair'[d]) \in {0, 2}
<1>1. \/ pair' = [pair EXCEPT ![c] = @]
      \/ \E x, o : pair' = [pair EXCEPT ![c] = <<x, o>>]
  <2> DEFINE joins == Joins(c, read'[c])
  <2> HIDE DEF joins
  <2>1. pair' = [pair EXCEPT ![c] = IF @ = << >> /\ Cardinality(joins) = 2
                                    THEN <<Joiner(c, Min(joins)), Joiner(c, Max(joins))>> ELSE @]
    BY DEF update_pair, joins
  <2> QED
    BY <2>1 DEF Connections
<1> QED
  BY <1>1 DEF Connections

\* It holds of a server without clients.
LEMMA InitConnections == Init => Connections
<1> SUFFICES ASSUME Init PROVE Connections
  OBVIOUS
<1>1. connected = {} /\ gone = {} /\ step = "update" /\ polled = {}
  BY DEF Init, RenetInit, ServerInit
<1>2. DOMAIN pair = Clients /\ \A c \in Clients : pair[c] = << >>
  BY DEF Init, ClientInit
<1> QED
  BY <1>1, <1>2, FS_EmptySet, CapacityIsNatural DEF Connections

\* Every step keeps it.
LEMMA StepConnections ==
  ASSUME Connections, [Next]_vars
  PROVE  Connections'
<1> USE DEF Connections
<1>1. ASSUME NEW c \in Clients, Enter(c) PROVE Connections'
  <2>1. /\ c \notin connected \cup gone /\ Cardinality(connected) < MaxClients
        /\ connected' = connected \cup {c} /\ step = "update"
        /\ UNCHANGED <<gone, step, polled, pair>>
    BY <1>1 DEF Enter, Connect, server, client
  <2>2. IsFiniteSet(connected') /\ Cardinality(connected') = Cardinality(connected) + 1
    BY <2>1, FS_AddElement
  <2>3. Cardinality(connected) \in Nat
    BY FS_CardinalityType
  <2> QED
    BY <2>1, <2>2, <2>3, CapacityIsNatural
<1>2. ASSUME NEW c \in Clients, Leave(c) PROVE Connections'
  <2>1. /\ c \in connected /\ connected' = connected \ {c} /\ gone' = gone \cup {c}
        /\ step = "update" /\ UNCHANGED <<step, polled>>
        /\ pair' = [d \in Clients |-> IF d \in {c} THEN << >> ELSE pair[d]]
    BY <1>2 DEF Leave, Disconnect, Quit, server
  <2>2. IsFiniteSet(connected') /\ Cardinality(connected') = Cardinality(connected) - 1
    BY <2>1, FS_RemoveElement
  <2>3. Cardinality(connected) \in Nat
    BY FS_CardinalityType
  <2>4. DOMAIN pair' = Clients /\ \A d \in Clients : Len(pair'[d]) \in {0, 2}
    BY <2>1
  <2>5. gone' \subseteq Clients \ connected' /\ polled' \subseteq connected'
    BY <1>2, <2>1
  <2> QED
    BY <2>1, <2>2, <2>3, <2>4, <2>5, CapacityIsNatural
<1>3. ASSUME NEW c \in Clients, Play(c) PROVE Connections'
  <2>1. UNCHANGED <<connected, gone, step, polled>>
    BY <1>3 DEF Play, ClientNext, Frame, Click, renet, server
  <2>2. update_pair(c) \/ pair' = pair
    BY <1>3 DEF Play, ClientNext, Frame, Click
  <2> QED
    BY <2>1, <2>2, PairSet
<1>4. CASE Serve
  <2>1. UNCHANGED <<connected, gone, pair>>
    BY <1>4 DEF Serve, ServerNext, BeginTick, EndTick, HandleConnected, HandleDisconnected,
                Poll, HandleMessage, HandleBrokerCommand, renet, client
  <2>2. /\ step' \in {"update", "tick"} /\ polled' \subseteq connected
        /\ step' = "update" => polled' = {}
    BY <1>4 DEF Serve, ServerNext, BeginTick, EndTick, HandleConnected, HandleDisconnected,
                Poll, HandleMessage, HandleBrokerCommand
  <2> QED
    BY <2>1, <2>2
<1>5. CASE Restart
  <2>1. /\ connected' = {} /\ gone' = gone \cup connected /\ step' = "update" /\ polled' = {}
        /\ pair' = [c \in Clients |-> IF c \in Clients THEN << >> ELSE pair[c]]
    BY <1>5 DEF Restart, CutOff, Quit
  <2> QED
    BY <2>1, FS_EmptySet, CapacityIsNatural
<1>6. CASE UNCHANGED vars
  BY <1>6 DEF vars, renet, server, client
<1> QED
  BY <1>1, <1>2, <1>3, <1>4, <1>5, <1>6 DEF Next

(* Everything has its type, and nobody has read more than was sent or is   *)
(* counted among more clients than the server takes (main.rs:60-72).       *)
THEOREM SystemTypes == Spec => []TypeOK
<1>1. Folded /\ Connections => TypeOK
  <2> SUFFICES ASSUME Folded, Connections PROVE TypeOK
    OBVIOUS
  <2>1. state \in GameState /\ view \in [Clients -> GameState] /\ topic \subseteq GameCommand
    BY DEF Folded, SInv, SessionTypes, OnlyCommands, Commands
  <2>2. ASSUME NEW c \in Clients PROVE uplink[c] \in Seq(GameCommand)
    BY DEF Folded, SInv, OnlyCommands, Commands
  <2>3. ASSUME NEW c \in Clients PROVE read[c] \in 0..Len(downlink[c])
    <3>1. Len(downlink[c]) \in Nat
      BY DEF Folded, SInv, SessionTypes
    <3>2. CASE c \notin connected
      BY <3>1, <3>2 DEF Folded, CopyIsReplay
    <3>3. CASE c \in connected
      <4>1. PICK done \in Seq(GameEvent), rest \in Seq(GameEvent) :
              downlink[c] = done \o rest /\ read[c] = Len(done)
        BY <3>3 DEF Folded, CopyIsReplay
      <4>2. Len(done \o rest) = Len(done) + Len(rest) /\ Len(done) \in Nat /\ Len(rest) \in Nat
        BY ConcatProperties
      <4> QED
        BY <4>1, <4>2
    <3> QED
      BY <3>2, <3>3
  <2>4. connected \subseteq Clients
    BY DEF Folded, SInv, OnlyCommands
  <2> QED
    BY <2>1, <2>2, <2>3, <2>4 DEF Connections, TypeOK
<1> QED
  BY <1>1, InitFolded, StepFolded, InitConnections, StepConnections, PTL DEF Spec
=============================================================================
