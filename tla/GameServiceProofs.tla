------------------------- MODULE GameServiceProofs -------------------------
(***************************************************************************)
(* The session of the server, for any envelopes: how often they come does  *)
(* not show in it, what leaves it agrees with it, and the state replayed   *)
(* from it moves as the write model's.                                     *)
(***************************************************************************)
EXTENDS GameService, DeciderProofs

Write == INSTANCE WriteModel WITH state <- CurrentState

(* The state replayed for the next command moves by one accepted command   *)
(* at a time, however the commands were repeated and whatever was lost on  *)
(* the way to the topic.                                                   *)
ImplementsWriteModel == Write!Spec

-----------------------------------------------------------------------------
(* Traces of events.  The state shows which have happened; an event that   *)
(* decide allows has not, and none of them undoes another's trace.         *)

\* The trace that an event, not being a departure, leaves in a state.
Shows(s, event) ==
  CASE event.type = "PlayerJoined" ->
         event.player_id # NoPlayer /\ event.player_id \in {s.players[0], s.players[1]}
    [] event.type = "GameStarted" -> s.stage # "Lobby"
    [] event.type = "TilePlaced" -> event.at \in Positions /\ s.board[event.at] # Empty
    [] event.type = "GameEnded" -> s.stage = "Ended"

\* What decide has checked before it returns an event.
Allowed(s, event) ==
  /\ event.type = "PlayerJoined" =>
       /\ s.stage = "Lobby" /\ s.players[1] = NoPlayer
       /\ event.player_id \notin {s.players[0], s.players[1]}
  /\ event.type = "GameStarted" => s.stage = "Lobby"
  /\ event.type = "TilePlaced" => event.at \in Positions /\ s.board[event.at] = Empty
  /\ event.type = "GameEnded" => s.stage = "InGame"

\* A command and the events it may have caused.
CausedBy(event, cmd) ==
  /\ event.type = "PlayerJoined" => cmd.type = "JoinGame" /\ event.player_id = cmd.player_id
  /\ event.type = "TilePlaced" => cmd.type = "PlaceTile" /\ event.at = cmd.at

\* The second slot is taken by the join that starts the game.
HasRoom(s) == s.stage = "Lobby" => s.players[1] = NoPlayer

Lasting == {event \in GameEvent : event.type # "PlayerLeft"}

\* An allowed event has left no trace, leaves its own, and wipes out none.
LEMMA TraceLeft ==
  ASSUME NEW s \in GameState, NEW event \in GameEvent, Allowed(s, event)
  PROVE  /\ evolve(s, event) \in GameState
         /\ event \in Lasting => ~ Shows(s, event) /\ Shows(evolve(s, event), event)
         /\ \A other \in Lasting : Shows(s, other) => Shows(evolve(s, event), other)
<1> DEFINE n == evolve(s, event)
<1>1. n \in GameState
  BY EvolveTyped
<1>2. CASE event.type = "PlayerJoined"
  <2> DEFINE p == event.player_id
             slot == IF s.players[0] = NoPlayer THEN 0 ELSE 1
  <2>1. p \in PlayerId /\ n = EvolveJoined(s, p)
    BY <1>2 DEF GameEvent, evolve
  <2>2. /\ n.players = [s.players EXCEPT ![slot] = p]
        /\ n.stage = s.stage /\ n.board = s.board
    BY <2>1, JoinedFields
  <2>3. s.players \in [0..1 -> PlayerId]
    BY DEF GameState
  <2>4. p # NoPlayer /\ p # s.players[0] /\ s.players[1] = NoPlayer
    BY <1>2 DEF Allowed
  <2> HIDE DEF p, n
  <2>5. /\ p \in {n.players[0], n.players[1]}
        /\ \A q : q # NoPlayer /\ q \in {s.players[0], s.players[1]}
                  => q \in {n.players[0], n.players[1]}
    BY <2>2, <2>3, <2>4
  <2>6. ~ Shows(s, event) /\ Shows(n, event)
    BY <1>2, <2>4, <2>5 DEF Shows, p
  <2>7. ASSUME NEW other \in Lasting, Shows(s, other) PROVE Shows(n, other)
    BY <2>2, <2>5, <2>7 DEF Shows, Lasting, GameEvent
  <2> QED
    BY <1>1, <2>6, <2>7 DEF n
<1>3. CASE event.type = "GameStarted"
  <2>1. event.goes_first \in PlayerId /\ n = EvolveStarted(s, event.goes_first)
    BY <1>3 DEF GameEvent, evolve
  <2>2. n.players = s.players /\ n.stage = "InGame" /\ n.board = s.board /\ s.stage = "Lobby"
    BY <1>3, <2>1, StartedFields DEF Allowed
  <2> HIDE DEF n
  <2>3. ~ Shows(s, event) /\ Shows(n, event)
    BY <1>3, <2>2 DEF Shows
  <2>4. ASSUME NEW other \in Lasting, Shows(s, other) PROVE Shows(n, other)
    BY <2>2, <2>4 DEF Shows, Lasting, GameEvent
  <2> QED
    BY <1>1, <2>3, <2>4 DEF n
<1>4. CASE event.type = "TilePlaced"
  <2> DEFINE mark == IF s.players[0] = event.player_id THEN "X" ELSE "O"
  <2>1. /\ event.player_id \in PlayerId /\ event.at \in Positions /\ s.board[event.at] = Empty
        /\ n = EvolvePlaced(s, event.player_id, event.at)
    BY <1>4 DEF GameEvent, evolve, Allowed
  <2>2. n.players = s.players /\ n.stage = s.stage /\ n.board = [s.board EXCEPT ![event.at] = mark]
    BY <2>1, PlacedFields
  <2>3. s.board \in [Positions -> Tile] /\ mark # Empty
    BY DEF GameState, Empty
  <2> HIDE DEF n, mark
  <2>4. /\ n.board[event.at] # Empty
        /\ \A i \in Positions : s.board[i] # Empty => n.board[i] # Empty
    BY <2>1, <2>2, <2>3
  <2>5. ~ Shows(s, event) /\ Shows(n, event)
    BY <1>4, <2>1, <2>4 DEF Shows
  <2>6. ASSUME NEW other \in Lasting, Shows(s, other) PROVE Shows(n, other)
    BY <2>2, <2>4, <2>6 DEF Shows, Lasting, GameEvent
  <2> QED
    BY <1>1, <2>5, <2>6 DEF n
<1>5. CASE event.type = "PlayerLeft"
  BY <1>1, <1>5 DEF evolve, Lasting
<1>6. CASE event.type = "GameEnded"
  <2>1. n = EvolveEnded(s)
    BY <1>6 DEF evolve
  <2>2. n.players = s.players /\ n.stage = "Ended" /\ n.board = s.board /\ s.stage = "InGame"
    BY <1>6, <2>1, EndedFields DEF Allowed
  <2> HIDE DEF n
  <2>3. ~ Shows(s, event) /\ Shows(n, event)
    BY <1>6, <2>2 DEF Shows
  <2>4. ASSUME NEW other \in Lasting, Shows(s, other) PROVE Shows(n, other)
    BY <2>2, <2>4 DEF Shows, Lasting, GameEvent
  <2> QED
    BY <1>1, <2>3, <2>4 DEF n
<1> QED
  BY <1>2, <1>3, <1>4, <1>5, <1>6 DEF GameEvent

-----------------------------------------------------------------------------
(* What decide returns, as a chain of allowed events.                      *)

\* One event, or two of different kinds, each allowed where it is applied.
Chain(s, cmd, decided) ==
  \E first \in GameEvent :
    /\ Allowed(s, first) /\ CausedBy(first, cmd)
    /\ \/ decided = <<first>> /\ HasRoom(evolve(s, first))
       \/ \E second \in GameEvent :
            /\ Allowed(evolve(s, first), second) /\ CausedBy(second, cmd)
            /\ first.type # second.type
            /\ decided = <<first, second>>
            /\ HasRoom(evolve(evolve(s, first), second))

\* A command accepted is such a chain (decider.rs:35-116).
LEMMA DecidesChains ==
  ASSUME NEW s \in GameState, HasRoom(s), NEW cmd \in GameCommand, decide(s, cmd).error = "None"
  PROVE  Chain(s, cmd, decide(s, cmd).events)
<1> PICK p \in PlayerId : p = cmd.player_id
  BY DEF GameCommand
<1> NoPlayer \in PlayerId
  BY DEF PlayerId
<1>1. CASE cmd.type = "JoinGame"
  <2> DEFINE join == PlayerJoined(p)
             next == EvolveJoined(s, p)
             start == GameStarted(next.players[0])
  <2>1. decide(s, cmd) = DecideJoin(s, p) /\ evolve(s, join) = next /\ join \in GameEvent
        /\ join.type = "PlayerJoined" /\ join.player_id = p
    BY <1>1 DEF decide, evolve, PlayerJoined, GameEvent
  <2>2. s.stage = "Lobby" /\ p \notin {s.players[0], s.players[1]}
    BY <2>1 DEF DecideJoin, Err
  <2>3. Allowed(s, join) /\ CausedBy(join, cmd)
    BY <1>1, <2>1, <2>2 DEF Allowed, CausedBy, HasRoom
  <2>4. next \in GameState /\ next.stage = "Lobby"
    BY <2>2, JoinedFields
  <2> HIDE DEF next, join
  <2>5. decide(s, cmd).events = IF next.players[1] # NoPlayer THEN <<join, start>> ELSE <<join>>
    BY <2>1, <2>2 DEF DecideJoin, JoinAndStart, Ok, join
  <2>6. CASE next.players[1] # NoPlayer
    <3>1. /\ next.players[0] \in PlayerId
          /\ start \in GameEvent /\ start.type = "GameStarted" /\ start.goes_first = next.players[0]
      BY <2>4 DEF GameState, GameStarted, GameEvent
    <3>2. evolve(next, start).stage = "InGame"
      <4>1. evolve(next, start) = EvolveStarted(next, next.players[0])
        BY <3>1 DEF evolve
      <4> QED
        BY <2>4, <3>1, <4>1, StartedFields
    <3>3. Allowed(next, start) /\ CausedBy(start, cmd)
      BY <2>4, <3>1 DEF Allowed, CausedBy
    <3>4. decide(s, cmd).events = <<join, start>>
      BY <2>5, <2>6
    <3> HIDE DEF start
    <3> QED
      BY <2>1, <2>3, <3>1, <3>2, <3>3, <3>4 DEF Chain, HasRoom
  <2>7. CASE next.players[1] = NoPlayer
    BY <2>1, <2>3, <2>5, <2>7 DEF Chain, HasRoom
  <2> QED
    BY <2>6, <2>7
<1>2. CASE cmd.type = "PlaceTile"
  <2> PICK i \in TileIndices : i = cmd.at
    BY <1>2 DEF GameCommand
  <2> DEFINE place == TilePlaced(p, i)
             next == EvolvePlaced(s, p, i)
             won == GameEnded("PlayerWon", p)
             draw == GameEnded("Draw", NoPlayer)
  <2>1. decide(s, cmd) = DecidePlace(s, p, i) /\ evolve(s, place) = next /\ place \in GameEvent
        /\ place.type = "TilePlaced" /\ place.player_id = p /\ place.at = i
    BY <1>2 DEF decide, evolve, TilePlaced, GameEvent
  <2>2. /\ s.stage = "InGame" /\ i \in Positions /\ s.board[i] = Empty
        /\ decide(s, cmd).events = PlaceAndJudge(place, next.board)
    BY <2>1, IndicesAreNaturals DEF DecidePlace, Ok, Err, Positions
  <2>3. Allowed(s, place) /\ CausedBy(place, cmd)
    BY <1>2, <2>1, <2>2 DEF Allowed, CausedBy
  <2>4. next \in GameState /\ next.stage = "InGame"
    <3>1. i \in Positions /\ s.stage = "InGame"
      BY <2>2
    <3> HIDE DEF place, won, draw
    <3> QED
      BY <3>1, PlacedKeeps
  <2>5. /\ won \in GameEvent /\ won.type = "GameEnded"
        /\ draw \in GameEvent /\ draw.type = "GameEnded"
    BY DEF GameEnded, GameEvent
  <2>6. decide(s, cmd).events \in {<<place>>, <<place, won>>, <<place, draw>>}
    BY <2>1, <2>2 DEF PlaceAndJudge
  <2> HIDE DEF place, next, won, draw
  <2>7. ASSUME NEW end \in {won, draw}
        PROVE  /\ end \in GameEvent /\ end.type # place.type /\ Allowed(next, end) /\ CausedBy(end, cmd)
               /\ HasRoom(evolve(next, end))
    <3>1. evolve(next, end) = EvolveEnded(next)
      BY <2>5 DEF evolve
    <3>2. evolve(next, end).stage = "Ended"
      BY <2>4, <3>1, EndedFields
    <3> QED
      BY <2>1, <2>4, <2>5, <3>2 DEF Allowed, CausedBy, HasRoom
  <2>8. CASE decide(s, cmd).events = <<place>>
    BY <2>1, <2>3, <2>4, <2>8 DEF Chain, HasRoom
  <2>9. ASSUME NEW end \in {won, draw}, decide(s, cmd).events = <<place, end>>
        PROVE  Chain(s, cmd, decide(s, cmd).events)
    BY <2>1, <2>3, <2>7, <2>9 DEF Chain
  <2> QED
    BY <2>6, <2>8, <2>9
<1>3. CASE cmd.type = "LeaveGame"
  <2> DEFINE left == PlayerLeft(p)
             end == GameEnded("PlayerLeft", p)
  <2>1. decide(s, cmd) = DecideLeave(s, p) /\ evolve(s, left) = s /\ left \in GameEvent
        /\ left.type = "PlayerLeft"
    BY <1>3 DEF decide, evolve, PlayerLeft, GameEvent
  <2>2. evolve(s, end) = EvolveEnded(s) /\ end \in GameEvent /\ end.type = "GameEnded"
    BY DEF evolve, GameEnded, GameEvent
  <2>3. Allowed(s, left) /\ CausedBy(left, cmd) /\ CausedBy(end, cmd)
    BY <2>1, <2>2 DEF Allowed, CausedBy
  <2>4. decide(s, cmd).events = IF s.stage = "InGame" THEN <<left, end>> ELSE <<left>>
    BY <2>1 DEF DecideLeave, Ok
  <2> HIDE DEF left, end
  <2>5. CASE s.stage = "InGame"
    <3>1. Allowed(s, end) /\ evolve(s, end).stage = "Ended"
      BY <2>2, <2>5, EndedFields DEF Allowed
    <3> QED
      BY <2>1, <2>2, <2>3, <2>4, <2>5, <3>1 DEF Chain, HasRoom
  <2>6. CASE s.stage # "InGame"
    BY <2>1, <2>3, <2>4, <2>6 DEF Chain
  <2> QED
    BY <2>5, <2>6
<1> QED
  BY <1>1, <1>2, <1>3 DEF GameCommand

\* What follows for the state behind it: every event of the batch is news to
\* the state before and shows in the one after, and nothing else is forgotten.
LEMMA AcceptedIsNews ==
  ASSUME NEW s \in GameState, NEW cmd, NEW decided, Chain(s, cmd, decided)
  PROVE  LET n == Replay(s, decided)
         IN  /\ decided \in Seq(GameEvent) /\ Len(decided) \in 1..2
             /\ n \in GameState /\ HasRoom(n)
             /\ \A other \in Lasting : Shows(s, other) => Shows(n, other)
             /\ \A k \in 1..Len(decided) :
                  /\ CausedBy(decided[k], cmd)
                  /\ decided[k] \in Lasting => ~ Shows(s, decided[k]) /\ Shows(n, decided[k])
             /\ \A j, k \in 1..Len(decided) : j # k => decided[j].type # decided[k].type
<1>1. PICK first \in GameEvent :
        /\ Allowed(s, first) /\ CausedBy(first, cmd)
        /\ \/ decided = <<first>> /\ HasRoom(evolve(s, first))
           \/ \E second \in GameEvent :
                /\ Allowed(evolve(s, first), second) /\ CausedBy(second, cmd)
                /\ first.type # second.type
                /\ decided = <<first, second>>
                /\ HasRoom(evolve(evolve(s, first), second))
  BY DEF Chain
<1> DEFINE mid == evolve(s, first)
<1>2. /\ mid \in GameState
      /\ first \in Lasting => ~ Shows(s, first) /\ Shows(mid, first)
      /\ \A other \in Lasting : Shows(s, other) => Shows(mid, other)
  BY <1>1, TraceLeft
<1>3. CASE decided = <<first>> /\ HasRoom(mid)
  <2>1. Replay(s, decided) = mid
    BY <1>3, ReplayOne, ReplayTwo
  <2>2. decided \in Seq(GameEvent) /\ Len(decided) = 1 /\ decided[1] = first
    BY <1>3
  <2> HIDE DEF mid
  <2> QED
    BY <1>1, <1>2, <1>3, <2>1, <2>2
<1>4. ASSUME NEW second \in GameEvent,
             Allowed(mid, second), CausedBy(second, cmd), first.type # second.type,
             decided = <<first, second>>, HasRoom(evolve(mid, second))
      PROVE  LET n == Replay(s, decided)
             IN  /\ decided \in Seq(GameEvent) /\ Len(decided) \in 1..2
                 /\ n \in GameState /\ HasRoom(n)
                 /\ \A other \in Lasting : Shows(s, other) => Shows(n, other)
                 /\ \A k \in 1..Len(decided) :
                      /\ CausedBy(decided[k], cmd)
                      /\ decided[k] \in Lasting => ~ Shows(s, decided[k]) /\ Shows(n, decided[k])
                 /\ \A j, k \in 1..Len(decided) : j # k => decided[j].type # decided[k].type
  <2>1. Replay(s, decided) = evolve(mid, second)
    <3>1. Replay(s, <<first, second>>) = evolve(evolve(s, first), second)
      BY ReplayOne, ReplayTwo
    <3> QED
      BY <1>4, <3>1
  <2> HIDE DEF mid
  <2>2. /\ evolve(mid, second) \in GameState
        /\ second \in Lasting => ~ Shows(mid, second) /\ Shows(evolve(mid, second), second)
        /\ \A other \in Lasting : Shows(mid, other) => Shows(evolve(mid, second), other)
    BY <1>2, <1>4, TraceLeft
  <2>3. /\ decided \in Seq(GameEvent) /\ Len(decided) = 2
        /\ decided[1] = first /\ decided[2] = second
    BY <1>4
  <2>4. second \in Lasting => ~ Shows(s, second)
    BY <1>2, <2>2
  <2>5. \A k \in 1..Len(decided) : k \in {1, 2}
    BY <2>3
  <2> QED
    BY <1>1, <1>2, <1>4, <2>1, <2>2, <2>3, <2>4, <2>5
<1> QED
  BY <1>1, <1>3, <1>4

-----------------------------------------------------------------------------
(* What handle does to the log.                                            *)

Ids == {env.id : env \in Envelopes}

Record == [sequence : Nat, command_id : Ids, event : GameEvent]

\* The shapes of the three outputs.
Shapes ==
  /\ log \in Seq(Record) /\ published \in Seq(Record)
  /\ broadcast \in Seq(GameEvent)
  /\ CurrentState \in GameState

\* A batch has one record per event, numbered on from the log.
LEMMA Batch ==
  ASSUME Shapes, NEW decided \in Seq(GameEvent), NEW id \in Ids
  PROVE  /\ Envelop(decided, id) \in Seq(Record)
         /\ Len(Envelop(decided, id)) = Len(decided)
         /\ \A k \in 1..Len(decided) :
              /\ Envelop(decided, id)[k].sequence = Len(log) + k - 1
              /\ Envelop(decided, id)[k].command_id = id
              /\ Envelop(decided, id)[k].event = decided[k]
<1>1. Len(log) \in Nat /\ Len(decided) \in Nat
  BY DEF Shapes
<1>2. Envelop(decided, id) =
        [k \in 1..Len(decided) |->
           [sequence |-> Len(log) + k - 1, command_id |-> id, event |-> decided[k]]]
  BY DEF Envelop, GameEventEnvelope
<1>3. \A k \in 1..Len(decided) :
        [sequence |-> Len(log) + k - 1, command_id |-> id, event |-> decided[k]] \in Record
  BY <1>1 DEF Record
<1> QED
  BY <1>1, <1>2, <1>3

\* Events of a log, and of a log with a batch behind it.
LEMMA EventsOf ==
  ASSUME NEW entries \in Seq(Record)
  PROVE  /\ events(entries) \in Seq(GameEvent) /\ Len(events(entries)) = Len(entries)
         /\ \A k \in 1..Len(entries) : events(entries)[k] = entries[k].event
<1>1. ASSUME NEW k \in 1..Len(entries) PROVE entries[k].event \in GameEvent
  <2>1. entries[k] \in Record
    BY ElementOfSeq
  <2> QED
    BY <2>1 DEF Record
<1>2. Len(entries) \in Nat
  BY LenProperties
<1> QED
  BY <1>1, <1>2 DEF events

\* The whole effect: the batch is appended, and replayed behind what was there.
LEMMA Appended ==
  ASSUME Shapes, NEW decided \in Seq(GameEvent), NEW id \in Ids,
         log' = log \o Envelop(decided, id)
  PROVE  /\ log' \in Seq(Record) /\ Len(log) \in Nat /\ Len(log') = Len(log) + Len(decided)
         /\ \A k \in 1..Len(log) : log'[k] = log[k]
         /\ \A k \in 1..Len(decided) :
              /\ log'[Len(log) + k].sequence = Len(log) + k - 1
              /\ log'[Len(log) + k].command_id = id
              /\ log'[Len(log) + k].event = decided[k]
              /\ log'[Len(log) + k] = Envelop(decided, id)[k]
         /\ events(log') = events(log) \o decided
         /\ CurrentState' = Replay(CurrentState, decided)
<1> DEFINE batch == Envelop(decided, id)
<1>1. /\ batch \in Seq(Record) /\ Len(batch) = Len(decided)
      /\ \A k \in 1..Len(decided) : /\ batch[k].sequence = Len(log) + k - 1
                                    /\ batch[k].command_id = id
                                    /\ batch[k].event = decided[k]
  BY Batch
<1>2. log' = log \o batch
  OBVIOUS
<1>3. log \in Seq(Record)
  BY DEF Shapes
<1> HIDE DEF batch
<1>4. /\ log' \in Seq(Record) /\ Len(log) \in Nat /\ Len(log') = Len(log) + Len(decided)
      /\ \A k \in 1..Len(log) : log'[k] = log[k]
      /\ \A k \in 1..Len(decided) : log'[Len(log) + k] = batch[k]
      /\ \A k \in 1..Len(log') :
           k \in 1..Len(log) \/ (k - Len(log) \in 1..Len(decided) /\ Len(log) + (k - Len(log)) = k)
  <2>1. log \o batch \in Seq(Record) /\ InParts(log, batch, log \o batch)
    BY <1>1, <1>3, ConcatParts
  <2> QED
    BY <1>1, <1>2, <2>1 DEF InParts
<1>5. events(log') = events(log) \o decided
  <2>1. /\ events(log) \in Seq(GameEvent) /\ Len(events(log)) = Len(log)
        /\ \A k \in 1..Len(log) : events(log)[k] = log[k].event
    BY <1>3, EventsOf
  <2>2. \A entries \in Seq(Record) :
          /\ events(entries) \in Seq(GameEvent) /\ Len(events(entries)) = Len(entries)
          /\ \A k \in 1..Len(entries) : events(entries)[k] = entries[k].event
    BY EventsOf
  <2>3. /\ events(log') \in Seq(GameEvent) /\ Len(events(log')) = Len(log) + Len(decided)
        /\ \A k \in 1..(Len(log) + Len(decided)) : events(log')[k] = log'[k].event
    BY <1>4, <2>2
  <2>4. /\ events(log) \o decided \in Seq(GameEvent)
        /\ Len(events(log) \o decided) = Len(log) + Len(decided)
        /\ \A k \in 1..Len(log) : (events(log) \o decided)[k] = events(log)[k]
        /\ \A k \in 1..Len(decided) : (events(log) \o decided)[Len(log) + k] = decided[k]
    <3>1. events(log) \o decided \in Seq(GameEvent) /\ InParts(events(log), decided, events(log) \o decided)
      BY <2>1, ConcatParts
    <3> QED
      BY <2>1, <3>1 DEF InParts
  <2>5. ASSUME NEW k \in 1..Len(log')
        PROVE  events(log')[k] = (events(log) \o decided)[k]
    <3>1. CASE k \in 1..Len(log)
      BY <1>4, <2>1, <2>3, <2>4, <3>1
    <3>2. CASE k - Len(log) \in 1..Len(decided) /\ Len(log) + (k - Len(log)) = k
      <4>1. log'[Len(log) + (k - Len(log))].event = decided[k - Len(log)]
        BY <1>1, <1>4, <3>2
      <4>2. (events(log) \o decided)[Len(log) + (k - Len(log))] = decided[k - Len(log)]
        BY <2>4, <3>2
      <4> QED
        BY <1>4, <2>3, <3>2, <4>1, <4>2
    <3> QED
      BY <1>4, <3>1, <3>2
  <2> QED
    BY <1>4, <2>3, <2>4, <2>5, SeqEqual
<1>6. Replay(DefaultState, events(log) \o decided) = Replay(Replay(DefaultState, events(log)), decided)
  <2>1. events(log) \in Seq(GameEvent)
    BY <1>3, EventsOf
  <2>2. \A first, second \in Seq(GameEvent) :
          Replay(DefaultState, first \o second) = Replay(Replay(DefaultState, first), second)
    BY ReplayConcat
  <2> QED
    BY <2>1, <2>2
<1>7. CurrentState' = Replay(CurrentState, decided)
  BY <1>5, <1>6 DEF CurrentState, hydrate
<1> QED
  BY <1>1, <1>4, <1>5, <1>7 DEF batch

-----------------------------------------------------------------------------
(* The invariant.                                                          *)

\* Every event that lasts shows in the state, and comes of the command whose
\* id it carries.
Remembered ==
  \A k \in 1..Len(log) :
    /\ Event(k) \in Lasting => Shows(CurrentState, Event(k))
    /\ \E env \in Envelopes : env.id = log[k].command_id /\ CausedBy(Event(k), env.command)

IInv ==
  /\ Shapes /\ TypeOK /\ HasRoom(CurrentState)
  /\ Remembered /\ AppliedOnce /\ OutputsFollowLog

\* Two events of one kind of one command leave one trace.
LEMMA OneTrace ==
  ASSUME NEW s, NEW cmd, NEW event \in Lasting, NEW other \in Lasting,
         event.type = other.type, CausedBy(event, cmd), CausedBy(other, cmd), Shows(s, event)
  PROVE  Shows(s, other)
BY DEF Shows, CausedBy, Lasting, GameEvent

\* A command accepted again could only repeat what the state does not show.
LEMMA HandleApplies ==
  ASSUME IInv, NEW env \in Envelopes, handle(env)
  PROVE  /\ log' \in Seq(Record) /\ CurrentState' \in GameState
         /\ TypeOK' /\ HasRoom(CurrentState)' /\ Remembered' /\ AppliedOnce'
<1> DEFINE decided == decide(CurrentState, env.command).events
           old == Len(log)
           n == CurrentState'
<1>1. /\ Shapes /\ TypeOK /\ HasRoom(CurrentState) /\ Remembered /\ AppliedOnce
      /\ CurrentState \in GameState
  BY DEF IInv, Shapes
<1>2. env.command \in GameCommand /\ env.id \in Ids
  BY EnvelopesCarryCommands DEF Ids
<1>3. decide(CurrentState, env.command).error = "None" /\ log' = log \o Envelop(decided, env.id)
  BY DEF handle, HandleError
<1>4. Chain(CurrentState, env.command, decided)
  BY <1>1, <1>2, <1>3, DecidesChains
<1> HIDE DEF decided
<1>5. /\ decided \in Seq(GameEvent) /\ Len(decided) \in 1..2
      /\ Replay(CurrentState, decided) \in GameState /\ HasRoom(Replay(CurrentState, decided))
      /\ \A other \in Lasting : Shows(CurrentState, other) => Shows(Replay(CurrentState, decided), other)
      /\ \A k \in 1..Len(decided) :
           /\ CausedBy(decided[k], env.command)
           /\ decided[k] \in Lasting => /\ ~ Shows(CurrentState, decided[k])
                                        /\ Shows(Replay(CurrentState, decided), decided[k])
      /\ \A j, k \in 1..Len(decided) : j # k => decided[j].type # decided[k].type
  BY <1>1, <1>4, AcceptedIsNews
<1>6. /\ log' \in Seq(Record) /\ old \in Nat /\ Len(log') = old + Len(decided)
      /\ \A k \in 1..old : log'[k] = log[k]
      /\ \A k \in 1..Len(decided) :
           /\ log'[old + k].sequence = old + k - 1
           /\ log'[old + k].command_id = env.id
           /\ log'[old + k].event = decided[k]
      /\ n = Replay(CurrentState, decided)
  BY <1>1, <1>2, <1>3, <1>5, Appended
<1>7. /\ n \in GameState /\ HasRoom(n)
      /\ \A other \in Lasting : Shows(CurrentState, other) => Shows(n, other)
      /\ \A k \in 1..Len(decided) :
           decided[k] \in Lasting => ~ Shows(CurrentState, decided[k]) /\ Shows(n, decided[k])
  BY <1>5, <1>6
<1> HIDE DEF n
<1>8. \A k \in 1..Len(log') :
        k \in 1..old \/ (k - old \in 1..Len(decided) /\ old + (k - old) = k)
  BY <1>5, <1>6
<1>9. \A k \in 1..Len(log) : log[k] \in Record
  BY <1>1 DEF Shapes
<1>10. ASSUME NEW k \in 1..Len(log')
       PROVE  /\ log'[k].command_id \in Ids
              /\ log'[k].sequence = k - 1
              /\ log'[k].event \in Lasting => Shows(n, log'[k].event)
              /\ \E e \in Envelopes : e.id = log'[k].command_id /\ CausedBy(log'[k].event, e.command)
  <2>1. CASE k \in 1..old
    <3>1. log'[k] = log[k] /\ log[k] \in Record
      BY <1>6, <1>9, <2>1
    <3>2. /\ log[k].sequence = k - 1
          /\ log[k].event \in Lasting => Shows(CurrentState, log[k].event)
          /\ \E e \in Envelopes : e.id = log[k].command_id /\ CausedBy(log[k].event, e.command)
      BY <1>1, <2>1 DEF TypeOK, Remembered, Event
    <3> QED
      BY <1>7, <3>1, <3>2 DEF Record
  <2>2. CASE k - old \in 1..Len(decided) /\ old + (k - old) = k
    <3>1. /\ log'[k].sequence = k - 1 /\ log'[k].command_id = env.id
          /\ log'[k].event = decided[k - old]
      BY <1>6, <2>2
    <3> QED
      BY <1>2, <1>5, <1>7, <2>2, <3>1
  <2> QED
    BY <1>8, <2>1, <2>2
<1>11. ASSUME NEW j \in 1..Len(log'), NEW k \in 1..Len(log'), j # k,
              log'[j].command_id = log'[k].command_id,
              log'[j].event.type = log'[k].event.type,
              log'[j].event.type # "PlayerLeft"
       PROVE  FALSE
  <2>1. ASSUME NEW a \in 1..Len(log'), NEW b \in 1..Len(log'),
               a \in 1..old, b - old \in 1..Len(decided), old + (b - old) = b,
               log'[a].command_id = log'[b].command_id,
               log'[a].event.type = log'[b].event.type,
               log'[a].event.type # "PlayerLeft"
        PROVE  FALSE
    <3>1. log'[a] = log[a] /\ log[a] \in Record /\ log[a].event \in GameEvent
      BY <1>6, <1>9, <2>1 DEF Record
    <3>2. PICK e \in Envelopes : e.id = log[a].command_id /\ CausedBy(log[a].event, e.command)
      BY <1>1, <2>1 DEF Remembered, Event
    <3>3. log'[b].command_id = env.id /\ log'[b].event = decided[b - old]
      BY <1>6, <2>1
    <3>4. e = env
      BY <2>1, <3>1, <3>2, <3>3, EnvelopesAreKnownByIds
    <3>5. decided[b - old] \in GameEvent
      BY <1>5, <2>1
    <3>6. log[a].event \in Lasting /\ decided[b - old] \in Lasting
          /\ log[a].event.type = decided[b - old].type
      BY <2>1, <3>1, <3>3, <3>5 DEF Lasting
    <3>7. Shows(CurrentState, log[a].event)
      BY <1>1, <2>1, <3>6 DEF Remembered, Event
    <3>8. CausedBy(log[a].event, env.command) /\ CausedBy(decided[b - old], env.command)
      BY <1>5, <2>1, <3>2, <3>4
    <3>9. Shows(CurrentState, decided[b - old])
      BY <3>6, <3>7, <3>8, OneTrace
    <3> QED
      BY <1>7, <2>1, <3>6, <3>9
  <2>2. CASE j \in 1..old /\ k \in 1..old
    BY <1>1, <1>6, <1>11, <2>2 DEF AppliedOnce, Event
  <2>3. CASE j - old \in 1..Len(decided) /\ k - old \in 1..Len(decided)
             /\ old + (j - old) = j /\ old + (k - old) = k
    <3>1. log'[j].event = decided[j - old] /\ log'[k].event = decided[k - old] /\ j - old # k - old
      BY <1>6, <1>11, <2>3
    <3> QED
      BY <1>5, <1>11, <2>3, <3>1
  <2> QED
    BY <1>8, <1>11, <2>1, <2>2, <2>3
<1>12. TypeOK'
  BY <1>7, <1>10 DEF TypeOK, Ids, n
<1>13. Remembered'
  BY <1>10 DEF Remembered, Event, n
<1>14. AppliedOnce'
  BY <1>11 DEF AppliedOnce, Event
<1> QED
  BY <1>6, <1>7, <1>12, <1>13, <1>14 DEF n

\* Records lost or not, the topic goes on in the order of the log, and the
\* broadcast with all of it.
LEMMA HandlePublishes ==
  ASSUME IInv, NEW env \in Envelopes, handle(env)
  PROVE  published' \in Seq(Record) /\ broadcast' \in Seq(GameEvent) /\ OutputsFollowLog'
<1> DEFINE decided == decide(CurrentState, env.command).events
           batch == Envelop(decided, env.id)
           old == Len(log)
<1>1. /\ Shapes /\ OutputsFollowLog /\ HasRoom(CurrentState) /\ CurrentState \in GameState
      /\ published \in Seq(Record) /\ broadcast \in Seq(GameEvent)
  BY DEF IInv, Shapes
<1>2. env.command \in GameCommand /\ env.id \in Ids
  BY EnvelopesCarryCommands DEF Ids
<1>3. /\ decide(CurrentState, env.command).error = "None"
      /\ log' = log \o batch /\ Publish(batch) /\ broadcast' = broadcast \o decided
  BY DEF handle, HandleError
<1>4. Chain(CurrentState, env.command, decided)
  BY <1>1, <1>2, <1>3, DecidesChains
<1> HIDE DEF decided
<1>5. decided \in Seq(GameEvent) /\ Len(decided) \in 1..2
  BY <1>1, <1>4, AcceptedIsNews
<1>6. /\ old \in Nat /\ Len(log') = old + Len(decided)
      /\ \A k \in 1..old : log'[k] = log[k]
      /\ \A k \in 1..Len(decided) :
           log'[old + k].sequence = old + k - 1 /\ log'[old + k] = batch[k]
      /\ events(log') = events(log) \o decided
  BY <1>1, <1>2, <1>3, <1>5, Appended
<1>7. batch \in Seq(Record) /\ Len(batch) = Len(decided)
  BY <1>1, <1>2, <1>5, Batch
<1> HIDE DEF batch
<1>8. broadcast' = events(log') /\ broadcast' \in Seq(GameEvent)
  <2>1. broadcast = events(log)
    BY <1>1 DEF OutputsFollowLog
  <2>2. broadcast \o decided \in Seq(GameEvent)
    BY <1>1, <1>5
  <2> QED
    BY <1>3, <1>6, <2>1, <2>2
<1>9. PICK m \in 0..Len(batch) : \E sent \in [1..m -> 1..Len(batch)] :
        /\ \A j, k \in 1..m : j < k => sent[j] < sent[k]
        /\ published' = published \o [k \in 1..m |-> batch[sent[k]]]
  BY <1>3 DEF Publish
<1>10. PICK sent \in [1..m -> 1..Len(batch)] :
        /\ \A j, k \in 1..m : j < k => sent[j] < sent[k]
        /\ published' = published \o [k \in 1..m |-> batch[sent[k]]]
  BY <1>9
<1> DEFINE kept == [k \in 1..m |-> batch[sent[k]]]
<1>11. /\ m \in Nat /\ kept \in Seq(Record) /\ Len(kept) = m
       /\ \A k \in 1..m : kept[k] = batch[sent[k]] /\ sent[k] \in 1..Len(decided)
  <2>1. m \in Nat
    BY <1>7, <1>9
  <2>2. ASSUME NEW k \in 1..m PROVE sent[k] \in 1..Len(decided) /\ batch[sent[k]] \in Record
    BY <1>7, <1>10, ElementOfSeq
  <2> QED
    BY <2>1, <2>2
<1>12. published' = published \o kept
  BY <1>10
<1> HIDE DEF kept
<1>13. published \o kept \in Seq(Record) /\ InParts(published, kept, published \o kept)
  BY <1>1, <1>11, ConcatParts
<1> DEFINE before == Len(published)
<1>14. /\ published' \in Seq(Record) /\ before \in Nat /\ Len(published') = before + m
       /\ \A k \in 1..before : published'[k] = published[k]
       /\ \A k \in 1..m : published'[before + k] = kept[k]
       /\ \A k \in 1..Len(published') :
            k \in 1..before \/ (k - before \in 1..m /\ before + (k - before) = k)
  BY <1>11, <1>12, <1>13 DEF InParts
<1>15. /\ \A k \in 1..before : /\ published[k].sequence + 1 \in 1..old
                               /\ published[k] = log[published[k].sequence + 1]
       /\ \A j, k \in 1..before : j < k => published[j].sequence < published[k].sequence
  BY <1>1 DEF OutputsFollowLog
<1>16. ASSUME NEW k \in 1..before
       PROVE  /\ published'[k].sequence + 1 \in 1..old
              /\ published'[k] = log'[published'[k].sequence + 1]
  <2>1. published'[k] = published[k]
    BY <1>14
  <2>2. published[k].sequence + 1 \in 1..old /\ published[k] = log[published[k].sequence + 1]
    BY <1>15
  <2>3. log'[published[k].sequence + 1] = log[published[k].sequence + 1]
    BY <1>6, <2>2
  <2> QED
    BY <2>1, <2>2, <2>3
<1>17. ASSUME NEW k \in 1..m
       PROVE  /\ published'[before + k].sequence = old + sent[k] - 1
              /\ published'[before + k].sequence + 1 \in (old + 1)..Len(log')
              /\ published'[before + k] = log'[published'[before + k].sequence + 1]
  <2>1. sent[k] \in 1..Len(decided) /\ published'[before + k] = log'[old + sent[k]]
    BY <1>6, <1>11, <1>14
  <2>2. published'[before + k].sequence = old + sent[k] - 1
    BY <1>6, <2>1
  <2>3. Len(decided) \in Nat /\ (old + sent[k] - 1) + 1 = old + sent[k]
    BY <1>5, <1>6, <2>1
  <2> QED
    BY <1>6, <2>1, <2>2, <2>3
<1>18. ASSUME NEW k \in 1..Len(published')
       PROVE  /\ published'[k].sequence + 1 \in 1..Len(log')
              /\ published'[k] = log'[published'[k].sequence + 1]
  <2>1. CASE k \in 1..before
    BY <1>5, <1>6, <1>16, <2>1
  <2>2. CASE k - before \in 1..m /\ before + (k - before) = k
    <3>1. PICK i \in 1..m : before + i = k
      BY <2>2
    <3>2. /\ published'[k].sequence + 1 \in (old + 1)..Len(log')
          /\ published'[k] = log'[published'[k].sequence + 1]
      BY <1>17, <3>1
    <3>3. (old + 1)..Len(log') \subseteq 1..Len(log')
      BY <1>6
    <3> QED
      BY <3>2, <3>3
  <2> QED
    BY <1>14, <2>1, <2>2
<1>19. ASSUME NEW j \in 1..Len(published'), NEW k \in 1..Len(published'), j < k
       PROVE  published'[j].sequence < published'[k].sequence
  <2>1. CASE k \in 1..before
    <3>1. j \in 1..before
      BY <1>14, <1>19, <2>1
    <3> QED
      BY <1>14, <1>15, <1>19, <2>1, <3>1
  <2>2. CASE k - before \in 1..m /\ before + (k - before) = k
    <3>1. PICK b \in Nat : b = sent[k - before] /\ 1 <= b /\ published'[k].sequence = old + b - 1
      <4>1. PICK i \in 1..m : i = k - before /\ before + i = k
        BY <2>2
      <4>2. sent[i] \in Nat /\ 1 <= sent[i]
        BY <1>5, <1>11
      <4> QED
        BY <1>17, <4>1, <4>2
    <3>2. CASE j \in 1..before
      <4>1. published[j].sequence + 1 \in 1..old /\ published'[j] = published[j]
        BY <1>14, <1>15, <3>2
      <4>2. published[j].sequence \in Nat
        <5>1. published[j] \in Record
          BY <1>1, <3>2, ElementOfSeq
        <5> QED
          BY <5>1 DEF Record
      <4>3. \A a, c \in Nat : a + 1 \in 1..old /\ 1 <= c => a < old + c - 1
        BY <1>6
      <4> QED
        BY <3>1, <4>1, <4>2, <4>3
    <3>3. CASE j - before \in 1..m /\ before + (j - before) = j
      <4>1. PICK i \in 1..m : i = j - before /\ before + i = j
        BY <3>3
      <4>2. sent[i] \in Nat /\ published'[j].sequence = old + sent[i] - 1
        BY <1>5, <1>11, <1>17, <4>1
      <4>3. sent[i] < b
        BY <1>10, <1>14, <1>19, <2>2, <3>1, <4>1
      <4> QED
        BY <1>6, <3>1, <4>2, <4>3
    <3> QED
      BY <1>14, <3>2, <3>3
  <2> QED
    BY <1>14, <2>1, <2>2
<1> QED
  BY <1>8, <1>14, <1>18, <1>19 DEF OutputsFollowLog

\* The invariant holds of an empty session, and of whatever handle makes of it.
LEMMA InitInvariant == Init => IInv
<1> SUFFICES ASSUME Init PROVE IInv
  OBVIOUS
<1>1. log = << >> /\ published = << >> /\ broadcast = << >> /\ Len(log) = 0
  BY DEF Init
<1>2. events(log) = << >>
  BY <1>1 DEF events
<1>3. CurrentState = DefaultState
  BY <1>2, ReplayNothing DEF CurrentState, hydrate
<1>4. Shapes
  BY <1>1, <1>3, DefaultTyped, EmptySeq DEF Shapes
<1>5. HasRoom(CurrentState)
  BY <1>3 DEF HasRoom, DefaultState
<1> QED
  BY <1>1, <1>2, <1>3, <1>4, <1>5, DefaultTyped
     DEF IInv, TypeOK, Remembered, AppliedOnce, OutputsFollowLog

LEMMA StepInvariant == IInv /\ [Next]_vars => IInv'
<1>1. ASSUME IInv, NEW env \in Envelopes, handle(env) PROVE IInv'
  BY <1>1, HandleApplies, HandlePublishes DEF IInv, Shapes
<1>2. ASSUME IInv, UNCHANGED vars PROVE IInv'
  <2>1. CurrentState' = CurrentState /\ (\A k : Event(k)' = Event(k))
    BY <1>2 DEF vars, CurrentState, Event
  <2>2. UNCHANGED <<log, published, broadcast>>
    BY <1>2 DEF vars
  <2> QED
    BY <1>2, <2>1, <2>2 DEF IInv, Shapes, TypeOK, Remembered, AppliedOnce, OutputsFollowLog
<1> QED
  BY <1>1, <1>2 DEF Next, Reject

LEMMA Invariance == Spec => []IInv
  BY InitInvariant, StepInvariant, PTL DEF Spec

(* Sequence numbers run on over batches, command ids are those handled     *)
(* (store.rs), and the state replayed is a GameState.                      *)
THEOREM SessionTypes == Spec => []TypeOK
<1>1. IInv => TypeOK
  BY DEF IInv
<1> QED
  BY <1>1, Invariance, PTL

(* A command that is handled again, from any of its ways to the service,   *)
(* adds nothing but departures (game_service.rs:43-72).                    *)
THEOREM CommandsApplyOnce == Spec => []AppliedOnce
<1>1. IInv => AppliedOnce
  BY DEF IInv
<1> QED
  BY <1>1, Invariance, PTL

(* Whichever records the publisher loses, the topic is a part of the log   *)
(* in order, and the clients are told all of it (game_service.rs:56-72).   *)
THEOREM OutputsAgree == Spec => []OutputsFollowLog
<1>1. IInv => OutputsFollowLog
  BY DEF IInv
<1> QED
  BY <1>1, Invariance, PTL

-----------------------------------------------------------------------------
(* The write model.  It brings its own copy of the operators of Decider    *)
(* along; both copies say the same.                                        *)

LEMMA SameEvolve ==
  ASSUME NEW s, NEW event
  PROVE  Write!evolve(s, event) = evolve(s, event)
BY DEF evolve, EvolveJoined, EvolveStarted, EvolvePlaced, EvolveEnded,
       Write!evolve, Write!EvolveJoined, Write!EvolveStarted,
       Write!EvolvePlaced, Write!EvolveEnded

LEMMA SameDecide ==
  ASSUME NEW s, NEW cmd
  PROVE  Write!decide(s, cmd) = decide(s, cmd)
<1>1. Write!DecideJoin(s, cmd.player_id) = DecideJoin(s, cmd.player_id)
  BY SameEvolve
     DEF DecideJoin, JoinAndStart, PlayerJoined, GameStarted, Ok, Err,
         Write!DecideJoin, Write!JoinAndStart, Write!PlayerJoined,
         Write!GameStarted, Write!Ok, Write!Err
<1>2. Write!DecidePlace(s, cmd.player_id, cmd.at) = DecidePlace(s, cmd.player_id, cmd.at)
  <2>1. \A board : Write!winning_symbol(board) = winning_symbol(board)
    BY DEF winning_symbol, Write!winning_symbol, Matches, Write!Matches,
           WIN_PATTERNS, Write!WIN_PATTERNS, NoSymbol, Write!NoSymbol, Empty, Write!Empty
  <2>2. \A board : Write!is_full(board) = is_full(board)
    BY DEF is_full, Write!is_full, Positions, Write!Positions, Empty, Write!Empty
  <2> QED
    BY <2>1, <2>2, SameEvolve
       DEF DecidePlace, PlaceAndJudge, TilePlaced, GameEnded, Ok, Err, NoSymbol, Empty,
           Write!DecidePlace, Write!PlaceAndJudge, Write!TilePlaced, Write!GameEnded,
           Write!Ok, Write!Err, Write!NoSymbol, Write!Empty
<1>3. Write!DecideLeave(s, cmd.player_id) = DecideLeave(s, cmd.player_id)
  BY DEF DecideLeave, PlayerLeft, GameEnded, Ok,
         Write!DecideLeave, Write!PlayerLeft, Write!GameEnded, Write!Ok
<1> QED
  BY <1>1, <1>2, <1>3 DEF decide, Write!decide

\* The replay of one decision is what the write model applies.
LEMMA BatchReplayed ==
  ASSUME NEW s, NEW cmd, NEW decided, Chain(s, cmd, decided)
  PROVE  Write!ApplyBatch(s, decided) = Replay(s, decided)
<1>a. \A x, y : Replay(s, <<x, y>>) = evolve(evolve(s, x), y)
  <2> SUFFICES ASSUME NEW x, NEW y
               PROVE  Replay(s, <<x, y>>) = evolve(evolve(s, x), y)
    OBVIOUS
  <2> QED
    BY ReplayTwo
<1>1. CASE \E first \in GameEvent : decided = <<first>>
  <2>1. PICK first \in GameEvent : decided = <<first>>
    BY <1>1
  <2>2. Len(decided) = 1 /\ decided[1] = first
    BY <2>1
  <2>3. Replay(s, <<first>>) = evolve(s, first)
    BY ReplayOne
  <2> QED
    BY <2>1, <2>2, <2>3, SameEvolve DEF Write!ApplyBatch
<1>2. CASE \E first, second \in GameEvent : decided = <<first, second>>
  <2>1. PICK first \in GameEvent, second \in GameEvent : decided = <<first, second>>
    BY <1>2
  <2>2. Len(decided) = 2 /\ decided[1] = first /\ decided[2] = second
    BY <2>1
  <2>3. Replay(s, <<first, second>>) = evolve(evolve(s, first), second)
    BY <1>a
  <2> QED
    BY <2>1, <2>2, <2>3, SameEvolve DEF Write!ApplyBatch
<1> QED
  BY <1>1, <1>2 DEF Chain

(* What TLC shows of the log, event by event, follows from the rules for   *)
(* one command: the session is a behaviour of the write model, so that     *)
(* the theorems of WriteModelProofs hold of the state replayed from it.    *)
THEOREM SessionImplementsWriteModel == Spec => ImplementsWriteModel
<1>1. Init => Write!Init
  <2> SUFFICES ASSUME Init PROVE Write!Init
    OBVIOUS
  <2>1. events(log) = << >>
    BY DEF Init, events
  <2>2. CurrentState = DefaultState
    BY <2>1, ReplayNothing DEF CurrentState, hydrate
  <2>3. DefaultState = Write!DefaultState
    BY DEF DefaultState, Positions, Empty,
           Write!DefaultState, Write!Positions, Write!Empty
  <2> QED
    BY <2>2, <2>3 DEF Write!Init
<1>2. IInv /\ [Next]_vars => [Write!Next]_CurrentState
  <2>1. ASSUME IInv, NEW env \in Envelopes, handle(env) PROVE Write!Next
    <3> DEFINE cmd == env.command
               decided == decide(CurrentState, cmd).events
    <3>1. /\ Shapes /\ HasRoom(CurrentState) /\ CurrentState \in GameState
          /\ cmd \in GameCommand /\ env.id \in Ids
      BY <2>1, EnvelopesCarryCommands DEF IInv, Shapes, Ids
    <3>2. decide(CurrentState, cmd).error = "None" /\ log' = log \o Envelop(decided, env.id)
      BY <2>1 DEF handle, HandleError
    <3>3. Chain(CurrentState, cmd, decided)
      BY <3>1, <3>2, DecidesChains
    <3> HIDE DEF decided
    <3>4. decided \in Seq(GameEvent)
      BY <3>1, <3>3, AcceptedIsNews
    <3>5. CurrentState' = Replay(CurrentState, decided)
      BY <3>1, <3>2, <3>4, Appended
    <3>6. CurrentState' = Write!ApplyBatch(CurrentState, decided)
      BY <3>3, <3>5, BatchReplayed
    <3>7. Write!Accept(cmd)
      BY <3>2, <3>6, SameDecide DEF Write!Accept, decided
    <3> HIDE DEF cmd
    <3>8. CASE cmd.type = "JoinGame"
      <4>1. PICK p \in PlayerId : cmd = [type |-> "JoinGame", player_id |-> p]
        BY <3>1, <3>8 DEF GameCommand
      <4> QED
        BY <3>7, <4>1 DEF Write!Next, Write!JoinGame, PlayerId, Write!PlayerId
    <3>9. CASE cmd.type = "PlaceTile"
      <4>1. PICK p \in PlayerId, i \in TileIndices :
              cmd = [type |-> "PlaceTile", player_id |-> p, at |-> i]
        BY <3>1, <3>9 DEF GameCommand
      <4> QED
        BY <3>7, <4>1 DEF Write!Next, Write!PlaceTile, PlayerId, Write!PlayerId
    <3>10. CASE cmd.type = "LeaveGame"
      <4>1. PICK p \in PlayerId : cmd = [type |-> "LeaveGame", player_id |-> p]
        BY <3>1, <3>10 DEF GameCommand
      <4> QED
        BY <3>7, <4>1 DEF Write!Next, Write!LeaveGame, PlayerId, Write!PlayerId
    <3> QED
      BY <3>1, <3>8, <3>9, <3>10 DEF GameCommand
  <2>2. ASSUME UNCHANGED vars PROVE CurrentState' = CurrentState
    BY <2>2 DEF vars, CurrentState
  <2> QED
    BY <2>1, <2>2 DEF Next, Reject
<1> QED
  BY <1>1, <1>2, Invariance, PTL DEF Spec, ImplementsWriteModel, Write!Spec

-----------------------------------------------------------------------------
(* The log as a history.                                                   *)

History == Orderly(events(log)) /\ Settled(events(log))

\* The first and the second of one or two positions.
LEMMA NthOfOne ==
  ASSUME NEW i \in Int
  PROVE  Cardinality({i}) = 1 /\ Nth({i}, 1) = i
<1>1. Cardinality({i}) = 1
  BY FS_Singleton
<1>2. {j \in {i} : j <= i} = {i}
  OBVIOUS
<1>3. \E k \in {i} : Cardinality({j \in {i} : j <= k}) = 1
  BY <1>1, <1>2
<1> QED
  BY <1>1, <1>3 DEF Nth

LEMMA NthOfTwo ==
  ASSUME NEW i \in Int, NEW j \in Int, i < j
  PROVE  Cardinality({i, j}) = 2 /\ Nth({i, j}, 1) = i /\ Nth({i, j}, 2) = j
<1>1. Cardinality({i}) = 1 /\ IsFiniteSet({i})
  BY FS_Singleton
<1>2. {i, j} = {i} \cup {j} /\ j \notin {i}
  OBVIOUS
<1>3. Cardinality({i, j}) = 2
  BY <1>1, <1>2, FS_AddElement
<1> DEFINE upto(k) == {h \in {i, j} : h <= k}
<1>4. upto(i) = {i} /\ upto(j) = {i, j}
  OBVIOUS
<1> HIDE DEF upto
<1>5. Nth({i, j}, 1) = i
  <2>1. \A k \in {i, j} : Cardinality(upto(k)) = 1 <=> k = i
    BY <1>1, <1>3, <1>4
  <2> QED
    BY <2>1 DEF Nth, upto
<1>6. Nth({i, j}, 2) = j
  <2>1. \A k \in {i, j} : Cardinality(upto(k)) = 2 <=> k = j
    BY <1>1, <1>3, <1>4
  <2> QED
    BY <2>1 DEF Nth, upto
<1> QED
  BY <1>3, <1>5, <1>6

\* What the lemmas about histories say of this log.
LEMMA HistoryOfLog ==
  ASSUME Shapes, History
  PROVE  LET L == events(log)
         IN  /\ L \in Seq(GameEvent) /\ Len(L) = Len(log) /\ Len(log) \in Nat
             /\ \A k \in 1..Len(log) : Event(k) = L[k] /\ Event(k) \in GameEvent
             /\ \A type : OfType(type) = Of(L, type, Len(log))
             /\ At(L, Len(log)) = CurrentState
             /\ Orderly(L) /\ Settled(L)
<1> DEFINE L == events(log)
<1>1. /\ L \in Seq(GameEvent) /\ Len(L) = Len(log) /\ Len(log) \in Nat
      /\ \A k \in 1..Len(log) : L[k] = log[k].event
  BY EventsOf DEF Shapes
<1>2. At(L, Len(log)) = CurrentState
  BY <1>1, AtEnd DEF CurrentState
<1> HIDE DEF L
<1>3. \A k \in 1..Len(log) : Event(k) = L[k] /\ Event(k) \in GameEvent
  BY <1>1 DEF Event
<1>4. ASSUME NEW type PROVE OfType(type) = Of(L, type, Len(log))
  BY <1>3 DEF OfType, Of
<1> QED
  BY <1>1, <1>2, <1>3, <1>4 DEF History, L

LEMMA LegalHistory ==
  ASSUME Shapes, History
  PROVE  HistoryIsLegal
<1> DEFINE L == events(log)
           len == Len(log)
           s == At(L, len)
           joins == OfType("PlayerJoined")
           starts == OfType("GameStarted")
           moves == OfType("TilePlaced")
           ends == OfType("GameEnded")
           joiner(n) == Event(Nth(joins, n)).player_id
<1>1. /\ L \in Seq(GameEvent) /\ Len(L) = len /\ len \in Nat
      /\ \A k \in 1..len : Event(k) = L[k]
      /\ \A type : OfType(type) = Of(L, type, len)
      /\ Orderly(L)
  BY HistoryOfLog
<1>2. joins \subseteq 1..len /\ starts \subseteq 1..len /\ moves \subseteq 1..len
      /\ ends \subseteq 1..len
  BY DEF OfType
<1> HIDE DEF L, len
<1>3. Seated(L, len) /\ Moved(L, len) /\ Finished(L, len)
  BY <1>1, LogSeats, LogMoves, LogFinishes
<1>4. /\ joins = Of(L, "PlayerJoined", len) /\ starts = Of(L, "GameStarted", len)
      /\ moves = Of(L, "TilePlaced", len) /\ ends = Of(L, "GameEnded", len)
  BY <1>1
<1> HIDE DEF s, joins, starts, moves, ends
<1>5. \/ /\ s.stage = "Lobby" /\ joins = {} /\ starts = {}
      \/ /\ s.stage = "Lobby" /\ starts = {}
         /\ \E i \in 1..len : joins = {i} /\ L[i].player_id = s.players[0]
      \/ /\ s.players[1] # NoPlayer /\ s.players[0] # s.players[1]
         /\ \E i \in 1..len, j \in 1..len :
              /\ i < j /\ joins = {i, j}
              /\ L[i].player_id = s.players[0] /\ L[j].player_id = s.players[1]
              /\ \/ s.stage = "Lobby" /\ j = len /\ starts = {}
                 \/ /\ s.stage # "Lobby" /\ j + 1 \in 1..len /\ starts = {j + 1}
                    /\ L[j + 1].goes_first = s.players[0]
  BY <1>3, <1>4 DEF Seated, s
<1>6. /\ \A m \in moves :
           /\ L[m].at \in Positions
           /\ L[m].player_id = Side(s, Cardinality({k \in moves : k <= m}))
           /\ \A k \in moves : L[m].at = L[k].at => m = k
           /\ \A g \in starts : g < m
      /\ s.stage = "Lobby" => moves = {}
  BY <1>3, <1>4 DEF Moved, s
<1>7. \A e \in ends, k \in 1..len : k > e => L[k].type = "PlayerLeft"
  BY <1>3, <1>4 DEF Finished
<1>8. Cardinality(ends) <= 1
  <2>1. ASSUME NEW e \in ends, NEW f \in ends PROVE e = f
    <3>1. \A k \in ends : k \in 1..len /\ L[k].type = "GameEnded"
      BY <1>4 DEF Of
    <3>2. e \in Int /\ f \in Int
      BY <1>1, <3>1
    <3> QED
      BY <1>7, <3>1, <3>2
  <2>2. CASE ends = {}
    BY <2>2, FS_EmptySet
  <2>3. CASE ends # {}
    <3>1. PICK e : ends = {e}
      BY <2>1, <2>3
    <3>2. Cardinality({e}) = 1
      BY FS_Singleton
    <3> QED
      BY <3>1, <3>2
  <2> QED
    BY <2>2, <2>3
<1>9. \A e \in ends, k \in 1..len : k > e => Event(k).type = "PlayerLeft"
  BY <1>1, <1>7
<1>10. ASSUME NEW m \in moves, NEW n \in moves, Event(m).at = Event(n).at PROVE m = n
  <2>1. Event(m) = L[m] /\ Event(n) = L[n]
    BY <1>1, <1>2
  <2> QED
    BY <1>6, <1>10, <2>1
<1>11. CASE joins = {} /\ starts = {} /\ moves = {}
  <2>1. Cardinality(joins) = 0
    BY <1>11, FS_EmptySet
  <2> QED
    BY <1>8, <1>9, <1>11, <2>1 DEF HistoryIsLegal, joins, starts, moves, ends, len
<1>12. CASE starts = {} /\ moves = {} /\ \E i \in 1..len : joins = {i}
  <2>1. Cardinality(joins) = 1
    BY <1>12, FS_Singleton
  <2> QED
    BY <1>8, <1>9, <1>12, <2>1 DEF HistoryIsLegal, joins, starts, moves, ends, len
<1>13. ASSUME NEW i \in 1..len, NEW j \in 1..len,
              s.players[0] # s.players[1], i < j, joins = {i, j},
              L[i].player_id = s.players[0], L[j].player_id = s.players[1],
              j + 1 \in 1..len, starts = {j + 1}, L[j + 1].goes_first = s.players[0]
       PROVE  HistoryIsLegal
  <2>1. i \in Int /\ j \in Int
    BY <1>1
  <2>2. Cardinality(joins) = 2 /\ Nth(joins, 1) = i /\ Nth(joins, 2) = j
    BY <1>13, <2>1, NthOfTwo
  <2>3. joiner(1) = s.players[0] /\ joiner(2) = s.players[1]
    BY <1>1, <1>13, <2>2
  <2>4. starts = {Nth(joins, 2) + 1} /\ \A g \in starts : Event(g).goes_first = joiner(1)
    BY <1>1, <1>13, <2>2, <2>3
  <2>5. ASSUME NEW m \in moves
        PROVE  /\ \E g \in starts : g < m
               /\ Event(m).player_id =
                    joiner(IF Cardinality({n \in moves : n <= m}) % 2 = 1 THEN 1 ELSE 2)
               /\ Event(m).at \in Positions
    <3>1. j + 1 < m
      BY <1>6, <1>13
    <3>2. Event(m).player_id = Side(s, Cardinality({n \in moves : n <= m}))
      BY <1>1, <1>2, <1>6
    <3>3. Event(m).at \in Positions
      BY <1>1, <1>2, <1>6
    <3> QED
      BY <1>13, <2>3, <3>1, <3>2, <3>3 DEF Side
  <2> HIDE DEF joiner
  <2>6. joiner(1) # joiner(2)
    BY <1>13, <2>3
  <2> QED
    BY <1>8, <1>9, <1>10, <2>2, <2>4, <2>5, <2>6
    DEF HistoryIsLegal, joiner, joins, starts, moves, ends, len
<1>14. ~ (s.stage = "Lobby" /\ s.players[1] # NoPlayer)
  <2>1. Calm(CurrentState) /\ s = CurrentState
    BY HistoryOfLog DEF Settled, s, L, len, CurrentState
  <2> QED
    BY <2>1 DEF Calm
<1> QED
  BY <1>5, <1>6, <1>11, <1>12, <1>13, <1>14

\* The tiles a player has taken are those the board shows marked for it, at any
\* stretch that holds all the moves.
LEMMA TilesMarked ==
  ASSUME Shapes, History, NEW n \in 0..Len(log),
         Of(events(log), "TilePlaced", n) = OfType("TilePlaced")
  PROVE  LET s == At(events(log), n)
             mark(p) == IF s.players[0] = p THEN "X" ELSE "O"
         IN  /\ \A p, i : i \in TilesOf(p) => i \in Positions /\ s.board[i] = mark(p)
             /\ s.stage # "Lobby" => \A k \in {0, 1} : \A i \in Positions :
                  s.board[i] = mark(s.players[k]) => i \in TilesOf(s.players[k])
<1> DEFINE L == events(log)
           s == At(L, n)
           mark(p) == IF s.players[0] = p THEN "X" ELSE "O"
           moves == OfType("TilePlaced")
<1>1. /\ L \in Seq(GameEvent) /\ Len(L) = Len(log) /\ Len(log) \in Nat
      /\ \A k \in 1..Len(log) : Event(k) = L[k]
      /\ Orderly(L)
  BY HistoryOfLog
<1>2. \A m \in moves : Event(m) = L[m]
  BY <1>1 DEF OfType
<1> HIDE DEF L
<1>3. Seated(L, n) /\ Moved(L, n) /\ Of(L, "TilePlaced", n) = moves
  BY <1>1, LogSeats, LogMoves DEF L
<1>4. \A p : TilesOf(p) = {L[m].at : m \in {k \in moves : L[k].player_id = p}}
  BY <1>2 DEF TilesOf
<1> HIDE DEF s, moves
<1>5. /\ \A m \in moves :
           /\ L[m].at \in Positions
           /\ s.board[L[m].at] = mark(L[m].player_id)
           /\ L[m].player_id = Side(s, Cardinality({k \in moves : k <= m}))
      /\ \A i \in Positions : s.board[i] # Empty => \E m \in moves : L[m].at = i
  BY <1>3 DEF Moved, s
<1>6. \A m \in moves : L[m].player_id \in {s.players[0], s.players[1]}
  BY <1>5 DEF Side
<1>7. s.stage # "Lobby" => s.players[0] # s.players[1]
  BY <1>3 DEF Seated, s
<1> HIDE DEF mark
<1>8. ASSUME NEW p, NEW i \in TilesOf(p) PROVE i \in Positions /\ s.board[i] = mark(p)
  BY <1>4, <1>5
<1>9. ASSUME s.stage # "Lobby", NEW k \in {0, 1}, NEW i \in Positions,
             s.board[i] = mark(s.players[k])
      PROVE  i \in TilesOf(s.players[k])
  <2>1. mark(s.players[k]) # Empty
    BY DEF mark, Empty
  <2>2. PICK m \in moves : L[m].at = i
    BY <1>5, <1>9, <2>1
  <2>3. mark(L[m].player_id) = mark(s.players[k])
    BY <1>5, <1>9, <2>2
  <2>4. L[m].player_id = s.players[k]
    BY <1>6, <1>7, <1>9, <2>3 DEF mark
  <2> QED
    BY <1>4, <2>2, <2>4
<1> QED
  BY <1>8, <1>9 DEF mark, s, L

\* A tile is taken when the board shows a mark on it.
LEMMA TakenIsFull ==
  ASSUME Shapes, History, NEW n \in 0..Len(log),
         Of(events(log), "TilePlaced", n) = OfType("TilePlaced")
  PROVE  is_full(At(events(log), n).board) <=> TilesTaken = Positions
<1> DEFINE L == events(log)
           board == At(L, n).board
           moves == OfType("TilePlaced")
<1>1. /\ L \in Seq(GameEvent) /\ Len(L) = Len(log) /\ Len(log) \in Nat
      /\ \A k \in 1..Len(log) : Event(k) = L[k]
      /\ Orderly(L)
  BY HistoryOfLog
<1>2. \A m \in moves : Event(m) = L[m]
  BY <1>1 DEF OfType
<1> HIDE DEF L
<1>3. Moved(L, n) /\ Of(L, "TilePlaced", n) = moves
  BY <1>1, LogMoves DEF L
<1>4. TilesTaken = {L[m].at : m \in moves}
  BY <1>2 DEF TilesTaken
<1> HIDE DEF board, moves
<1>5. /\ \A m \in moves : L[m].at \in Positions /\ board[L[m].at] # Empty
      /\ \A i \in Positions : board[i] # Empty => \E m \in moves : L[m].at = i
  BY <1>3 DEF Moved, board, Empty
<1>6. /\ TilesTaken \subseteq Positions
      /\ \A i \in Positions : i \in TilesTaken <=> board[i] # Empty
  BY <1>4, <1>5
<1> QED
  BY <1>6 DEF is_full, board, L

\* A line of a player's tiles is a line on the board.
LEMMA LinesAreWon ==
  ASSUME Shapes, History, NEW n \in 0..Len(log),
         Of(events(log), "TilePlaced", n) = OfType("TilePlaced"),
         winning_symbol(At(events(log), n).board) = NoSymbol
  PROVE  \A p : LinesOf(p) = {}
<1> DEFINE s == At(events(log), n)
<1>1. \A p, i : i \in TilesOf(p) =>
        i \in Positions /\ s.board[i] = IF s.players[0] = p THEN "X" ELSE "O"
  BY TilesMarked
<1>2. s.board \in Boards
  <2>1. events(log) \in Seq(GameEvent) /\ Len(events(log)) = Len(log)
    BY HistoryOfLog
  <2>2. s \in GameState
    BY <2>1, AtTyped
  <2> HIDE DEF s
  <2> QED
    BY <2>2 DEF GameState, Boards
<1> HIDE DEF s
<1>3. ASSUME NEW p, NEW k \in LinesOf(p) PROVE FALSE
  <2>1. k \in 1..8 /\ \A j \in 1..3 : WIN_PATTERNS[k][j] \in TilesOf(p)
    BY <1>3 DEF LinesOf
  <2>2. /\ WIN_PATTERNS[k][1] \in TilesOf(p)
        /\ WIN_PATTERNS[k][2] \in TilesOf(p)
        /\ WIN_PATTERNS[k][3] \in TilesOf(p)
    BY <2>1
  <2>3. Won(s.board, k)
    BY <1>1, <2>2 DEF Won, Matches, Empty
  <2> QED
    BY <1>2, <2>1, <2>3, WinnerFound DEF s
<1> QED
  BY <1>3

LEMMA JustifiedEnd ==
  ASSUME Shapes, History
  PROVE  EndIsJustified
<1> DEFINE L == events(log)
           len == Len(log)
<1>1. /\ L \in Seq(GameEvent) /\ Len(L) = len /\ len \in Nat
      /\ \A k \in 1..len : Event(k) = L[k] /\ Event(k) \in GameEvent
      /\ \A type : OfType(type) = Of(L, type, len)
      /\ At(L, len) = CurrentState
      /\ Orderly(L) /\ Settled(L)
  BY HistoryOfLog
<1> HIDE DEF L, len
<1>2. Finished(L, len) /\ Calm(CurrentState)
  BY <1>1, LogFinishes DEF Settled, CurrentState, L
<1>3. ASSUME OfType("GameEnded") = {}
      PROVE  (\A p : LinesOf(p) = {}) /\ TilesTaken # Positions
  <2>1. CurrentState.stage # "Ended"
    BY <1>1, <1>2, <1>3 DEF Finished
  <2>2. winning_symbol(At(L, len).board) = NoSymbol /\ ~ is_full(At(L, len).board)
    BY <1>1, <1>2, <2>1 DEF Calm
  <2>3. len \in 0..len /\ Of(L, "TilePlaced", len) = OfType("TilePlaced")
    BY <1>1
  <2> QED
    BY <2>2, <2>3, LinesAreWon, TakenIsFull DEF L, len
<1>4. ASSUME NEW e \in OfType("GameEnded")
      PROVE  /\ Event(e).reason = "PlayerWon" =>
                  /\ LinesOf(Event(e).player_id) # {}
                  /\ Event(e - 1).type = "TilePlaced"
                  /\ Event(e - 1).player_id = Event(e).player_id
             /\ Event(e).reason = "Draw" =>
                  /\ TilesTaken = Positions
                  /\ \A p : LinesOf(p) = {}
                  /\ Event(e - 1).type = "TilePlaced"
             /\ Event(e).reason = "PlayerLeft" =>
                  /\ TilesTaken # Positions
                  /\ \A p : LinesOf(p) = {}
                  /\ Event(e - 1) = PlayerLeft(Event(e).player_id)
  <2>1. e \in Nat /\ e \in 1..len /\ L[e].type = "GameEnded" /\ Event(e) = L[e]
    BY <1>1 DEF OfType, len
  <2> DEFINE s == At(L, e - 1)
  <2>2. InPlace(s, L[e - 1], L[e])
    BY <1>1, <2>1 DEF Orderly
  <2>3. s.stage = "InGame"
    BY <2>1, <2>2 DEF InPlace
  <2>4. e # 1
    BY <1>1, <2>3, AtStart DEF DefaultState
  <2>5. PICK n \in Nat : e = n + 2
    <3>1. e - 2 \in Nat /\ e = (e - 2) + 2
      BY <2>1, <2>4
    <3> QED
      BY <3>1
  <2>6. e - 1 = n + 1 /\ n + 1 \in 1..len /\ n + 1 \in 0..len /\ n < len
    BY <1>1, <2>1, <2>5
  <2>7. Event(e - 1) = L[n + 1] /\ s = At(L, n + 1)
    BY <1>1, <2>6
  <2> HIDE DEF s
  <2>8. Of(L, "TilePlaced", n + 1) = OfType("TilePlaced")
    <3>1. \A k \in 1..len : k > e => L[k].type = "PlayerLeft"
      BY <1>1, <1>2 DEF Finished
    <3>2. ASSUME NEW k \in 1..len, L[k].type = "TilePlaced" PROVE k \in 1..(n + 1)
      <4>1. k # e /\ ~ k > e
        BY <2>1, <3>1, <3>2
      <4> QED
        BY <1>1, <2>5, <4>1
    <3>3. OfType("TilePlaced") = Of(L, "TilePlaced", len)
      BY <1>1
    <3>4. 1..(n + 1) \subseteq 1..len
      BY <1>1, <2>6
    <3> QED
      BY <3>2, <3>3, <3>4 DEF Of
  <2>9. CASE L[e].reason = "PlayerLeft"
    <3>1. /\ winning_symbol(s.board) = NoSymbol /\ ~ is_full(s.board)
          /\ L[n + 1] = PlayerLeft(L[e].player_id)
      BY <2>1, <2>2, <2>6, <2>9 DEF InPlace
    <3>2. (\A p : LinesOf(p) = {}) /\ TilesTaken # Positions
      BY <2>6, <2>7, <2>8, <3>1, LinesAreWon, TakenIsFull DEF L, len
    <3> QED
      BY <2>1, <2>7, <2>9, <3>1, <3>2
  <2>10. CASE L[e].reason = "PlayerWon"
    <3> DEFINE move == L[n + 1]
               p == move.player_id
               mark == IF s.players[0] = p THEN "X" ELSE "O"
               old == At(L, n)
    <3>1. /\ winning_symbol(s.board) # NoSymbol
          /\ move.type = "TilePlaced" /\ p = L[e].player_id
      BY <2>1, <2>2, <2>6, <2>10 DEF InPlace
    <3>2. /\ old \in GameState /\ s \in GameState /\ InPlace(old, L[n], move)
          /\ Fields(old, move, s)
      BY <1>1, <2>6, <2>7, Onward
    <3> HIDE DEF old, move
    <3>3. /\ move.at \in Positions /\ winning_symbol(old.board) = NoSymbol
          /\ s.players = old.players /\ s.board = [old.board EXCEPT ![move.at] = mark]
      BY <3>1, <3>2 DEF InPlace, Calm, Fields
    <3>4. old.board \in Boards /\ s.board \in Boards /\ mark \in Symbol
      BY <3>2 DEF GameState, Boards, Symbol
    <3> HIDE DEF mark
    <3>5. PICK k \in 1..8 : Won(s.board, k)
      BY <3>1, <3>4, WinnerFound
    <3>6. \A j \in 1..8 : ~ Won(old.board, j)
      BY <3>3, <3>4, WinnerFound
    <3>7. s.board[WIN_PATTERNS[k][1]] = mark
      BY <3>3, <3>4, <3>5, <3>6, NewLinesAreTheMovers
    <3>8. ASSUME NEW j \in 1..3 PROVE WIN_PATTERNS[k][j] \in Positions /\ s.board[WIN_PATTERNS[k][j]] = mark
      <4>1. j \in {1, 2, 3}
        OBVIOUS
      <4> QED
        BY <3>5, <3>7, <4>1, PatternsOnBoard DEF Won, Matches
    <3>9. /\ \E b \in {0, 1} : p = s.players[b]
          /\ \A b \in {0, 1} : \A i \in Positions :
               s.board[i] = (IF s.players[0] = s.players[b] THEN "X" ELSE "O")
               => i \in TilesOf(s.players[b])
      <4>1. Moved(L, n + 1) /\ n + 1 \in Of(L, "TilePlaced", n + 1)
        BY <1>1, <2>6, <3>1, LogMoves DEF Of, move
      <4>2. \E c : p = Side(s, c)
        BY <2>7, <4>1 DEF Moved, move
      <4>3. \E b \in {0, 1} : p = s.players[b]
        BY <4>2 DEF Side
      <4> QED
        BY <2>3, <2>6, <2>7, <2>8, <4>3, TilesMarked DEF L, len
    <3>10. PICK b \in {0, 1} : p = s.players[b]
      BY <3>9
    <3>11. \A j \in 1..3 : WIN_PATTERNS[k][j] \in TilesOf(p)
      BY <3>8, <3>9, <3>10 DEF mark
    <3>12. k \in LinesOf(p)
      BY <3>11 DEF LinesOf
    <3> QED
      BY <2>1, <2>7, <2>10, <3>1, <3>12 DEF move
  <2>11. CASE L[e].reason = "Draw"
    <3>1. /\ winning_symbol(s.board) = NoSymbol /\ is_full(s.board)
          /\ L[n + 1].type = "TilePlaced"
      BY <2>1, <2>2, <2>6, <2>11 DEF InPlace
    <3>2. (\A p : LinesOf(p) = {}) /\ TilesTaken = Positions
      BY <2>6, <2>7, <2>8, <3>1, LinesAreWon, TakenIsFull DEF L, len
    <3> QED
      BY <2>1, <2>7, <2>11, <3>1, <3>2
  <2>12. L[e] \in GameEvent
    BY <1>1, <2>1
  <2> QED
    BY <2>1, <2>9, <2>10, <2>11, <2>12 DEF GameEvent
<1> QED
  BY <1>3, <1>4 DEF EndIsJustified

-----------------------------------------------------------------------------

\* Every batch appended is a decision on the state replayed from the log.
LEMMA HistoryInvariance == Spec => []History
<1>1. Init => History
  <2> SUFFICES ASSUME Init PROVE History
    OBVIOUS
  <2>1. events(log) = << >>
    BY DEF Init, events
  <2> QED
    BY <2>1, OrderlyStart DEF History
<1>2. IInv /\ History /\ [Next]_vars => History'
  <2>1. ASSUME IInv, History, NEW env \in Envelopes, handle(env) PROVE History'
    <3> DEFINE L == events(log)
               decided == decide(CurrentState, env.command).events
    <3>1. Shapes /\ L \in Seq(GameEvent) /\ CurrentState = hydrate(L) /\ CurrentState \in GameState
      BY <2>1, EventsOf DEF IInv, Shapes, CurrentState
    <3>2. /\ env.command \in GameCommand /\ env.id \in Ids
          /\ decide(CurrentState, env.command).error = "None"
          /\ log' = log \o Envelop(decided, env.id)
      BY <2>1, EnvelopesCarryCommands DEF Ids, handle, HandleError
    <3>3. decided \in Seq(GameEvent)
      BY <3>1, <3>2, DecidesEvents
    <3>4. events(log') = L \o decided
      <4> HIDE DEF decided
      <4> QED
        BY <3>1, <3>2, <3>3, Appended
    <3>5. Orderly(L \o decided) /\ Settled(L \o decided)
      <4>1. Orderly(L) /\ Settled(L)
        BY <2>1 DEF History
      <4>2. decide(hydrate(L), env.command).error = "None"
        BY <3>1, <3>2
      <4>3. decided = decide(hydrate(L), env.command).events
        BY <3>1
      <4> HIDE DEF L, decided
      <4> QED
        BY <3>1, <3>2, <4>1, <4>2, <4>3, OrderlyStep
    <3> HIDE DEF L, decided
    <3> QED
      BY <3>4, <3>5 DEF History
  <2>2. ASSUME History, UNCHANGED vars PROVE History'
    BY <2>2 DEF History, events, vars
  <2> QED
    BY <2>1, <2>2 DEF Next, Reject
<1> QED
  BY <1>1, <1>2, Invariance, PTL DEF Spec

(* The log of a session is a legal history of one game (decider.rs:30-116, *)
(* store.rs:43-70), for any commands in any order, any number of times.    *)
THEOREM HistoriesAreLegal == Spec => []HistoryIsLegal
<1>1. IInv /\ History => HistoryIsLegal
  BY LegalHistory DEF IInv
<1> QED
  BY <1>1, Invariance, HistoryInvariance, PTL

(* A game ends for the reason its history bears out, a win, a full board   *)
(* without one or a departure, and a game with a line or a full board has  *)
(* ended (decider.rs:84-116).                                              *)
THEOREM EndsAreJustified == Spec => []EndIsJustified
<1>1. IInv /\ History => EndIsJustified
  BY JustifiedEnd DEF IInv
<1> QED
  BY <1>1, Invariance, HistoryInvariance, PTL
=============================================================================
