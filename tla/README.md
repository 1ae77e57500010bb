# Tic-Tac-Tussle in TLA+

Tic-Tac-Tussle is a two-player game served by an event-sourced Rust program: a pure decider
(`store/src/decider.rs`), an in-memory event log, a 20 Hz game loop that talks to two clients over
UDP (renet), and a Redpanda (Kafka) topic through which every command comes back to the server a
second and a third time. This directory holds TLA+ modules for it, the TLC configurations that check
them and the TLAPS proofs about them. Every definition of a component module is a translation of the
code named for it in `PROJECT.json` under `map`; paths below are relative to the repository.

    tlc -config MCWriteModel.cfg MCWriteModel      # one run
    tlapm WriteModelProofs.tla                     # one module's proofs

## 1. Inventory

| Part | Code | State it keeps | Operations | Talks to |
|---|---|---|---|---|
| Board rules | `store/src/board.rs` | none (pure) | `winning_symbol`, `is_full` | called by the decider |
| Decider | `store/src/decider.rs`, `state.rs`, `commands.rs`, `events.rs`, `errors.rs` | none (pure), over `GameState` | `decide`, `evolve`, `hydrate` | called by service, client, simulation |
| Event store | `store/src/store.rs` | the log of numbered envelopes, the game id | `append_batch`, `append`, `events`, `snapshot` | owned by the service |
| Game service | `server/src/game_service.rs` | the store, a publisher, a broadcaster | `handle`, `catch_up`, `publish` | called by the three steps of the tick; calls publisher and broadcaster |
| Redpanda adapter | `server/src/adapters/redpanda.rs` | per consumer group: read position, message in hand, waiting ack, commits under way | `publish`, `consumer_loop` | Redpanda; a bounded channel of 256 into the game loop; a oneshot back |
| Server tick loop | `server/src/main.rs`, `adapters/renet.rs` | renet's connections, inboxes and outboxes | `handle_connections`, `drain_client_commands`, `drain_broker_commands`, send | all of the above |
| Client | `client/src/main.rs` | folded `GameState`, the frame's received events, `PlayerPair`, local id, the pieces on the board, the status text | `set_local_player_id`, `receive_server_events`, `update_pair`, `render_pieces`, `update_status`, `handle_input` | the server, over one reliable ordered channel; a player, with pointer and button |
| Simulation harness | `store/src/simulation.rs` | a log, a cursor, the state there | `from_log_up_to`, `step_forward`, `rewind_to`, `run_to_end`, `branch_with_command` | the decider |
| Deployment | `docker-compose.yml`, `Dockerfile.server`, CI | none | none | not modelled |

How a command travels. A connection event or a client's message becomes a `CommandEnvelope`. The
server publishes it to the commands topic and handles it at once. Both consumer groups
(`game-server-loop`, `game-audit-log`) read the topic in the same process and put what they read
into the channel of the game loop, which handles it again. So a command is *normally* handled three
times, and in general any number of times, in any order relative to the others, also by a later
process with another game id. `handle` rebuilds the state from the log, asks `decide`, appends the
events, publishes them (failures are logged only) and broadcasts them.

### What is hard, and what makes each part correct

* **Board, decider.** A win or a draw is looked for on the last placement only; turn and board are
  separate records of one fact; `PlayerId(0)` is a sentinel in the type of ordinary ids; `evolve`
  indexes with an index from the network. Correct: turn agrees with the board, an undecided game is
  the only one in progress, slots never change once taken, each accepted command is a move of the
  game of noughts and crosses.
* **Service, store.** Commands repeat; the state is a replay; publication may fail in the middle of
  a batch. Correct: the log is a legal history and its end is justified, redelivery has no effect,
  the topic is the log with gaps and the broadcast is the log without any.
* **Broker consumers.** Two tasks and the game loop on one bounded channel, acks that race a
  timeout, asynchronous commits that may be lost, rebalances, restarts. Correct: a commit stands
  behind an acknowledged message, no stored offset passes an unhandled command, every command is
  handled in the end.
* **Tick loop.** Several connections in one tick; the catch-up of a client that is already in the
  broadcast set; departures in the lobby. Correct: what a client is sent is the whole log in order,
  with at worst a stretch of it twice; a running game ends when a player goes, and the other one
  sees it.
* **Client.** It checks turns in its own copy of the state, draws pieces once and never looks at
  them again, changes the status line on some events only, and derives names and symbols from a pair
  that may be unset or wrong; its systems run in an order nobody has fixed; the click is computed by
  one formula and the sprite placed by another. Correct: whoever has read everything sees the
  server's board, turn and outcome, in copy, pieces and status line alike; one click per turn is
  never lost; whoever is to move is told so; the tile clicked is the tile shown.
* **Simulation.** A position is reached by steps or by a replay from the start. Correct: the two
  agree, from wherever one comes.

The list of hazards with their lines, each with the properties about it, is in `PROJECT.json`.

## 2. Modules

| Module | What it is |
|---|---|
| `Board` | `board.rs` as operators; the table of patterns is kept as the table it is |
| `Decider` | `decide` and `evolve`, one operator per command and per event |
| `TicTacTussle` | the abstract game: seats, marked cells, a turn that follows from the counts; no ids, sentinel, events or table |
| `WriteModel` | one session as the commands it accepts move it; its invariants; the refinement mapping to `TicTacTussle` |
| `GameService` | `handle` over the log, the topic and the broadcast |
| `BrokerConsumer` | `consumer_loop` for each group, the channel, `drain_broker_commands`, commits, rebalances, restarts |
| `AtLeastOnce` | the abstract delivery: records, what of them is done, and an offset that never passes what is not |
| `Renet` | the transport as server and clients use it: connections, notices of them, a reliable ordered channel each way |
| `Server` | the tick of `main.rs`, step by step, over `Renet` |
| `Pointer` | from a place in the window to a tile, and from a tile to its place in the world |
| `Client` | every running client: its copy of the game, its pair, pieces, status line and clicks |
| `System` | `Server`, `Client`s and the network together |
| `Simulation` | the harness over a recorded log |
| `MCWriteModel`, `MCGameService`, `MCBrokerConsumer`, `MCSystem`, `MCSimulation` | instances for TLC |
| `DeciderProofs` | lemmas on the operators of `Board` and `Decider`: boards, replays, logs and retold logs |
| `WriteModelProofs`, `GameServiceProofs`, `BrokerProofs`, `SimulationProofs` | the theorems about the module of the name |
| `SystemProofs`, `SessionProofs`, `ClientProofs` | the theorems about `System`: what the server does, what it sends, what a client makes of it and what becomes of its clicks |

    TicTacTussle  <==  WriteModel  <==  GameService      (<== : is implemented by)
    AtLeastOnce   <==  BrokerConsumer (stands alone: it does not look into a command)
    System = Server + Client over Renet

    Decider, over Board, is what WriteModel, GameService, Server, Client and
    Simulation call; Pointer is what Client asks for the tile under a click.
    Server.handle applies the events of a command as WriteModel does (ApplyBatch).

### Board and Decider

`Tile::Occupied(s)` is written `s`; `find_map` is the first index whose pattern matches. `decide`
returns `Ok(events)` or `Err(error)` as a record, the checks in the order of the early returns, so
the *error* of a command that fails two checks is the code's. Both speculative `evolve`s of the code
(behind a join and a placement) are there. `Replay` is the fold of `evolve` that `hydrate` is, from
any state. Player names and the texts of errors are left out: no rule reads them.

### WriteModel

`state` is `GameState`. `Accept(cmd)` is decide followed by the fold of evolve over its one or two
events. A rejected command leaves the state alone, so it is a stutter and has no action. Commands
come from all of `GameCommand`, with the sentinel among the ids and any indices, because nothing
between the network and `decide` filters them.

### GameService

`log` is the store's vector of envelopes, with the sequence numbers `append_batch` gives;
`published` is the events topic and `broadcast` the calls of the broadcaster. `handle` is the whole
function: replay, decide, append, publish, broadcast. `Publish` lets any record of the batch be
missing (`sent` picks those that arrive): `RedpandaPublisher::publish` logs a failed send and tries
the next. `Reject` is an `Err` of
`handle`. The broadcaster's own error (an encoding failure of a plain enum) does not occur and is
left out. `Next` gives every envelope of a finite set to `handle` at any time and any number of
times: that is what the two groups, the direct path and redelivery amount to, and it is more than
`BrokerConsumer` lets through. `EnvelopesAreKnownByIds` says that an id names one command: the ids
are fresh uuids (`CommandEnvelope::new`), and a redelivery carries the same one.

### BrokerConsumer

One partition, so an offset is an index in `topic`. A record is the epoch of the server whose game
id its command carries, or `Garbage` (bytes `consumer_loop` cannot decode). A task is in `recv`,
`send` (blocked on the channel) or `wait` (`timeout(ACK_TIMEOUT, ack_rx)`). The oneshot is two
things: `heard` in the channel's entry (is the receiver still held?) and `signal` (what it got).
`Drain(error)` is one turn of the `try_recv` loop. What `handle` returns is a free choice but for
`WrongGame`, which is exactly a command of another epoch. `Acks` is the `match` as it really works:
see finding 3. `Restart` is a crash or a stop: channel, oneshots, positions and commits under way
vanish, the topic and the stored offsets stay, the game id is new. `Rebalance` takes a group back to
its stored offset; librdkafka's own rules (external code) are reduced to that. `handled` and `acked`
are history variables: what the properties are about.

### Renet, Server, Client, System

`Renet` keeps what the code sees of renet (external code): `clients_id`, the `ServerEvent`s that
`get_event` hands out, and two channels per client. `downlink` keeps all that was sent to a client
and `read` of `Client` says how far it has got, so that a property can compare the stream with the
log. A broadcast reaches whoever is *connected*, which `transport.update` decides, not whoever has
been caught up. Client ids are time stamps taken at the start of a client, so a client that is gone
does not return.

`Server` is one tick after the other. `step` is `"update"` while `transport.update` lets
connections, departures and messages in, and `"tick"` for what follows: `HandleConnected` and
`HandleDisconnected` until there are no notices left, then `Poll` for every connected client in any
order (a `HashMap`'s), then `HandleMessage` for each message read, then any number of
`HandleBrokerCommand`, then `EndTick`. The guards keep that order. The server looks at the network
in `update` only and its packets leave in `EndTick`, so that clients and network act between ticks
in the model: what they do meanwhile shows in the next `update` at the earliest. `Poll` may find any
number of the messages sent, the others being still on their way.

`topic` holds the commands published for the present game id. Each may come back in any tick after
it was published, any number of times and in any order: more than two groups and redelivery do, and
no echo has to come. `BrokerConsumer` has the order, and the fate of the acks. `log` and `state` are
the session: `state` is the replay of `log`, kept from one command to the next by applying the
events that are appended to it, which is what folding the whole log again gives.

`Client` is a function of the clients in each variable. `Frame` is what becomes of the events that
have arrived: `receive_server_events` drains the channel in `PostUpdate`, and the systems of the
next frame's `Update` read them. The two are one action, because nothing else happens to a client in
between but `handle_input` of that same `Update`: it reads the copy only, never the pair, the pieces
or the text, so that before or after its fellows it does what `Click` does behind the `Frame`.
Nothing orders the systems of `Update`, so that pieces and status line are each made from the pair
of before or after `update_pair`: that is the `\E names` of `Frame`. A pair is derived from the
joins among all events received, exactly when there are two. `render_pieces` adds a piece for every
placement it hears of and removes none (a piece is known by the number of its event, so that a
placement told twice would be two pieces); `update_status` judges every event of a frame by the copy
after the last one and keeps the text when none matters. Of a text only what it says is kept:
`YourTurn`, `Turn` of somebody, and so on.

`Click` is `handle_input` with the button pressed: the place in the window becomes a tile by
`CellAt` of `Pointer` (which knows that the board starts 30 pixels below the window's upper edge,
and that its last 30 pixels lie under the status bar), and stage, turn and tile are checked on the
client's copy, which is left as it is. `clicks` is a history variable: the cell clicked, and how many
tiles the copy showed, which tells one turn of a game from another. `Greeting` is the `JoinGame`
the client sends itself, beside the one the server makes up for it.

`System` adds who may come and go. `Restart` is the end of the process and its new start: empty log,
new game id (so that what the topic holds is rejected as `WrongGame`, and `topic` is emptied), no
connections; `CutOff` is what is lost with the process. The loop of `main` ends in two ways, and both
are this action: the process is killed, or `transport.update` fails and the `?` of `main.rs:98-100`
returns from `main`.

### AtLeastOnce, Simulation

`AtLeastOnce` says what `redpanda.rs:3` promises without saying how: records may be processed at any
time and any number of times, and the offset stored for a group never passes a readable record that
is not done. The offset may go *back*: after a rebalance a group commits again what it rereads, so
the abstract `Store` allows it (TLC refutes the version in which stored offsets only rise).
`BrokerConsumer` implements it with *handled* for done, not with *acked*: that is finding 2.

`Simulation` has an action per method that changes the harness. `from_log` and `rewind_to` clip an
index past the end as the code does, `run_to_end` folds on from where the harness is, and `branch`
is what the user holds of the last branch, to be compared when the harness has moved on.

## 3. Runs

| Run | Instance | Shows |
|---|---|---|
| `write_model` | 3 players and the sentinel, indices 0..9, whole games (60 k states) | all invariants of the write model, nothing taken back, hopeless commands stay hopeless, it implements `TicTacTussle` |
| `session_contest` | 2 players and a third, both able to win, a shared tile, index 9, a stale command, departures of a player and a stranger, a lost publication; sessions from the start, and games one tile from a draw or from a win that fills the board (165 k states) | the log is a legal history, a win, draw or departure ends the game when the moves say so and not otherwise, redelivery is harmless, outputs follow the log |
| `broker_recovery` | one group, 3 records, a rebalance, a restart, commits lost at will, fairness (58 k states) | commits follow acks and never pass an unhandled command; the consumer implements `AtLeastOnce`; every command is handled |
| `broker_sharing` | both groups, a channel of one, a restart or a rebalance, fairness (148 k states) | a waiting task is owed an answer; every command is handled for every group |
| `system_streams` | 3 clients for 2 places, one click each on 2 cells and beside the board, echoes that bring the departures recorded up to 2, a restart; sessions from the start, and games one or two moves from a win or a draw; the clients are alike (1.3 M states up to symmetry) | a client's stream is the log behind at most a stretch of it; its copy, its pieces and its status line agree with the server once it has read it; running games have their players; pairs are the slots |
| `system_clicks` | 2 clients, two clicks each on a shared cell and one of their own, fairness (99 k states) | a client that clicks once per turn loses no move, and the move is made in the end; one that was sent the log once has the server's very state; whoever is to move is told; the other player sees the end of an abandoned game |
| `simulation` | every log of up to 7 commands of two players, won, abandoned and never started (21 k states) | steps, jumps and branches agree with the replay of the log |
| `retry`, `broker_redelivery`, `broker_rejection`, `system_start`, `system_pair` | the smallest that shows it | the findings of section 5 |

**Bounds and why they are enough.** The board and the indices are not bounded at all: whole games
are explored, and index 9 stands for all above 8, which `decide` treats alike. Three players cover
"the first", "the second" and "anybody else". In `GameService` `MaxLog` is long enough for a whole
game of the envelopes given (two joins, the start, the moves, the end and a departure), `MaxLeft`
bounds the one command that is accepted without end, and `MaxLost` = 1 makes each record in turn the
missing one. Nine moves in every order of the log would be too many, so that `session_contest` also
begins in two games with one tile left (`LateInit` of `MCGameService`), where the last move draws or
fills board and line at once; what is appended to the log comes of the same few commands in both
kinds of session (`NewsFromContest`), and the moves already made come again as redeliveries.
`write_model` plays all games from start to end. In `BrokerConsumer` a
channel of 1 makes both tasks block on it; 2 lets an abandoned command and its redelivery be in it
together; three records allow a message given up on, one acked behind it, and one still to come; one
rebalance and one restart in either order take the position back twice. `broker_recovery` has both;
`broker_sharing`, with twice the tasks, one of them per run of the system (`MaxDisturbances`). In
`System` two clients fill
the server, and the third comes when one has left, or takes the place of one that left in the lobby;
restarted clients are new ids. The cells are few because whole games are `write_model`'s: two or
three tell a free cell from a taken one and a turn from the next. A win and a draw need more moves
than that, so `system_streams` also begins in games that went smoothly so far (`LateInit` of
`MCSystem`, a state the program reaches): four moves played and X a cell away from a line, or eight
played and one cell left. `MaxDepartures` bounds only the echoes of `LeaveGame`, the one command
accepted without end; with 2, the departure of one who left in the lobby can come back in the game
that follows. In `Simulation` seven commands are two joins and five moves, the shortest win; indices
run past the end of every log. Symmetry is sound in `system_streams`: it checks invariants only, and
neither steps nor invariants tell clients apart.

**Deadlock** is checked in all runs but the broker's, whose tasks rightly stop for good at the end
of the bounded topic; that they do not stop *before* is `EveryCommandIsHandled`. In the service
`Reject` is always possible, as it is in the program.

**Fairness** is assumed in three runs. In `broker_recovery` and `broker_sharing`: weak fairness of
each task's own steps and of draining. It is justified because the tasks run on a tokio runtime of
their own, and because every tick calls `drain_broker_commands`, which empties the channel
(`try_recv` until `Empty`) on the other thread, so a task blocked in `send` is released. Nothing is
assumed of what the code does not control: no commit needs to arrive, no timeout to fire or not to
fire, no restart to come. Rebalances and restarts are bounded, which is an assumption too: without
end they could starve a task. In `system_clicks`: weak fairness of `Serve`, because the loop of
`main` waits for nobody (each of its drains is a `try`) and goes on until the process ends, which is
a `Restart` (the run has none: it is about one life of the server); and strong fairness of `Receive`
and `Deliver`, a frame and a drain that find something: frames and ticks come on clocks of their
own and the channels are reliable, so that of what is sent to who stays something arrives, however
often it does not yet. No connection, click, departure or echo is assumed to happen.

## 4. Proofs

What TLC shows of three players and ten indices, `WriteModelProofs` proves for any set of players
and any set of indices, from the two assumptions of `Decider`: `SentinelIsNoPlayer` (`Players` are
the ids other than 0; commands may carry 0 all the same) and `IndicesAreNaturals` (`usize`).

* `DeciderProofs` holds what the others cite of `Board` and `Decider`. Of the table: a pattern that
  matches yields a winner (`FirstMatch`, `WinnerFound`), and a placement can complete lines of its
  own symbol only (`NewLinesAreTheMovers`). Of `evolve`: its type and its effect field by field. Of
  `Replay`, a recursive function of the length of the events: it exists (`ReplayIsSteps`), grows
  with the log by one `evolve` (`ReplayAppend`), and of two stretches it is the replay of the second
  from that of the first (`ReplayConcat`). Each is an induction over the length. The library's
  theorems of induction take an operator, which the provers at hand cannot instantiate, so that
  `SetInduction` states it of a *set* of numbers, and is proved by counting: a set that contains 0
  and the successors of its members, yet misses *n*, would have its members below *n* mapped one to
  one into fewer (`k |-> k + 1`).
* `WriteModelProofs`. The inductive invariant `IInv` joins `TypeOK`, `TurnFollowsBoard`,
  `InGameIsUndecided`, `AtMostOneSideHasALine` and `SlotsAreSound`. None but the last is inductive
  alone. That a move changes the right count needs the mover to be `players[lead]`, and this needs
  the two slots to differ and to be no sentinel, or `evolve`'s "is not `players[0]`" would credit
  the wrong symbol. That no board shows two winners needs the board before the move to show none,
  which is `InGameIsUndecided`. `StepIsAMove` reduces every accepted command to one of five changes
  of the state (a first join, a second join that starts the game, a move that continues or ends it,
  an abandonment, or none), so that each invariant has one step per change and none per command.
  From it: `TypeCorrect`, `TurnSafety`, `OutcomeSafety`, `OneSideWins`, `SlotSafety`, and the two
  action properties, `NothingTakenBack` and `HopelessForever`.
* The second half of `WriteModelProofs` proves `Spec => ImplementsGame` (`Refinement`). Each of these
  changes is a step of the abstract game or a stutter. The steps on moves rest on two lemmas: a set of cells is a line of the
  grid if and only if it is a pattern of the table (`LineIffPattern`), and therefore code and game
  judge a board alike (`JudgedAlike`). `WinnerIsGeometric` says the same of `winning_symbol` alone,
  on every board, reachable or not.
* `GameServiceProofs`, for any envelopes, repeated and interleaved at will. `Chain` is the shape of
  what `decide` accepts: one event or two of different kinds, each *allowed* where it is applied,
  that is, without a trace in the state so far (`Shows`: a seat, a started game, a tile, an end).
  `TraceLeft` is the heart: an allowed event leaves its trace and wipes out no other, so that what
  the state shows can never happen again. The inductive invariant `IInv` joins `Shapes` (records,
  numbered by their place), `HasRoom` (a lobby has a free slot), `Remembered` (every event of the
  log but a departure shows in the state replayed from it, and comes of the command whose id it
  carries) and the properties themselves. From it: `SessionTypes`, `CommandsApplyOnce` (two events of
  one kind by one command would be one trace left twice), `OutputsAgree`, and `SessionImplementsWriteModel`: `Spec => ImplementsWriteModel` with the
  *replayed* state for `state`, by `ReplayConcat`. All that `WriteModelProofs` says of the write
  model therefore holds of the state that `handle` rebuilds from its log.

  `HistoriesAreLegal` and `EndsAreJustified` count in the log what the state does not keep. The
  invariant is about each event and the state before it: `Orderly` says that every event of the log
  is *in its place* (`InPlace`: a join into a free seat of the lobby, a start of two seated players
  by the first, a move of the player to move on a free tile, an end whose reason the board or the
  departure right before it bears out: a line, a full board without one, or neither), `Settled` that
  no decision was left half made and a game still open is neither won nor full (`Calm`). `OrderlyStep`
  is the whole of `decide`, command by command; the rest is about logs alone, in `DeciderProofs`,
  and by induction along them: what the state at a position says of the joins and the start before
  it (`Seated`), of the moves, their order, sides and tiles (`Moved`), and of the end (`Finished`).
  `EndIsJustified` does not look at the board: `TilesMarked`, `LinesAreWon` and `TakenIsFull` say
  that lines and full boards are those of the moves in the log.
* `SimulationProofs`, for any log, commands and indices: `PositionsAreReplays` and
  `BranchesAreHistories`, by `ReplayAppend` for a step and `ReplayConcat` for a run to the end and a
  branch.
* `BrokerProofs`, for any groups, capacity, and bounds on topic, rebalances and restarts. The
  inductive invariant `IInv` joins `TypeOK`, `WithinTopic` (what a task holds is a record of the
  topic), `Owed` (an entry of the channel that is heard belongs to the task that waits, and is the
  only one: `WaitersAreOwed` without counting) and `InOrder`. The last is the heart: what lies below
  a task's position in the topic is garbage, handled, in the channel or in hand; what lies below an
  entry that is heard is garbage, handled, or *ahead* of it in the channel; what lies below a commit
  is garbage or handled. So when the game loop takes an entry, all that precedes it in the topic has
  left the channel, which is why a commit never passes an unhandled command although the task does
  not wait for those it gave up on. From it: `BrokerTypes`, `CommitsFollow`, `NothingIsPassed`,
  `WaitersGetAnswers`, and `KeepsThePromise`, the refinement of `AtLeastOnce`, in which sending,
  timing out and restarting are stutters, `Drain` is `Process`, and a commit that arrives is
  `Store`.
* `SystemProofs` has `ClickHitsTheTileShown`, for every place in the window and beyond it: a click
  asks for tile *i* exactly when it lies in the square drawn for tile *i* (sides right and below
  excluded). Its other lemmas serve the two modules behind it: `OnlyCommands` says that whatever is
  on its way to `handle`, in a channel, in the vector of messages, behind a notice or in the topic,
  is a command of the game that names a client, and `ErrorsAreEmpty` that a rejected one changes
  nothing.
* `SessionProofs`, for any clients, capacity, clicks and *any number of restarts*. `Effect` says
  what a command looks like from outside: it keeps stage and players, ends the game, or seats its
  player with `GameStarted` last if that starts the game, and a `LeaveGame` always leaves its record
  and never a running game. `StreamsAreLogs` rests on `SInv`: `SentSoFar` is a statement for each
  phase of a connection, and the middle one carries it: until its catch-up a client has been sent
  the *end* of the log, so that after it there is that end, then the whole. A client is greeted once
  (`AnnouncedOnce`) because ids do not return. `AbandonedGamesAreEnded` rests on `AInv`, which adds
  `LobbyExcused`: in the lobby, whoever is seated or may yet be by a command on its way (in the
  topic, a channel, the messages read, behind a notice) is connected, about to be missed, or
  recorded as having left. Without it a `JoinGame` that comes back from the topic could start a game
  for one whose departure nothing would ever tell; the record behind `GameStarted` is what
  `AbandonedGamesEnd` allows.

  `CopiesAreExact` rests on `Folded`: the state is `hydrate` of the log, although `Server` applies
  events as they come (`HandleReplays`), and a client's copy is `hydrate` of what it has read, a
  beginning of its stream however that was cut into frames (`FrameReplays`). It justifies keeping
  `state` as a variable of `Server` beside `log`. `SystemTypes` adds `Connections`, the part of the
  types that is about who is connected and polled.

* `ClientProofs`, for any clients, clicks, lags, echoes and restarts. `Recorded` joins `Folded`,
  `Connections` and the `Orderly` and `Settled` of the server's log, so that all that is known of
  logs can be used. `StepKinds` sorts the steps of `System` by what they are to the commands on
  their way (somebody comes, goes, is greeted or missed, a command is taken, nothing is handled),
  and `Outcome` says in full how `handle` can turn out; `Arrivals` adds that commands come from whom
  they name (`SendersKnown`) and no move is under way in the lobby (`LobbyIsQuiet`).

  *Copies* (`CopiesConverge`). A stream is a stretch of the log, then the whole log. `Stays`,
  `FirstSits` and `Retold` of `DeciderProofs` say what a log does to a copy that was told other
  events before: from the second join on, the second slot is the log's, and if the first slot is
  right, or nobody has moved, so are turn and board. That is `Told`: in what a client was sent ahead
  of its catch-up there is no move, and whoever sits first by it sits first in the game (`Prelude`),
  unless the game is `Barren`: nobody has moved in it and nobody will, because it has ended, or its
  first player has gone for good, or a departure is to be handled before the catch-up. It needs
  `MaxClients <= 2`, the `MAX_CLIENTS` of `server/src/main.rs:37`, which is the assumption of this
  theorem and the next two: with two places, if a client is in the broadcast set while another is
  greeted, there is no room for a third, so that a game which starts behind its back is without one
  of its players (`Missed`, `Crowded`).
  With `MaxClients = 3` TLC refutes `ViewsConverge`: a third client, connected while the second
  joins, is sent that join and the start before its catch-up, seats the second player in both slots
  of its copy, and colours the first player's tiles O. Whoever lets spectators in has to have
  `evolve` tell duplicates first.

  *Status lines* (`StatusesAreCurrent`). `Reads` says of a line what the last event that mattered
  to it said, by the copy after the frame that brought it (`FrameTells`); that no later event made
  it stale follows from what `Stays`, and that the end it tells of is in the log from `EndOnRecord`.

  *Pieces* (`PiecesAreTiles`). `Drawn`: there is one piece for each placement received, at its cell,
  in the symbol the pair gave then, or a question mark. With the copies right, a placement is
  received once (`MovesReceived`), and whoever the pair had first sat first (`PairSitsFirst`,
  `FirstAgrees`).

  *Pairs* (`PairsAreSlots`), for any capacity: a pair is taken at the second join received
  (`PairTaken`) and never later (`PairDue`), and of a stream that is the log these are the two of
  `Seated`.

  *Clicks* (`ClicksCount`), for any capacity. The inductive invariant `Clicked` says of each client
  that it is `Cautious`: if it never clicked twice at the same number of tiles, then every move it
  made is one it clicked for (`OwnMoves`), and while the game runs at most one of its moves waits in
  its channel or among the messages read (`Alone`), that one is in turn, on a free tile, and clicked
  for (`Promising`), and all it has in the topic are in vain, their tiles taken (`Spent`). The
  difficult step is the click, which looks at a copy that may be behind. `OwnTurnSeen`: a copy that
  shows its own client to move is a state the log went through, board included, because what was
  sent ahead of the catch-up is from before the client joined (`Behind`), and a client that has not
  heard of its own join is not to move in its copy. `NextMove`: from there on either turn and board
  are still so, or the next move of the log is the client's own on that very board. Then it had
  clicked at that number of tiles, and is clicking at it again.

The assumptions are those on the constants, each stated in the module that declares it: the two of
`Decider`; clients are players (`ClientsArePlayers`); the positions are among the indices and the
bounds are naturals; envelopes carry commands and are known by their ids; logs are finite sequences
of events. TLC evaluates all of them in the runs.

**Only model-checked.** Liveness (`EveryCommandIsHandled`, `ClicksBecomeMoves`, `DeparturesAreSeen`,
`TurnsAreAnnounced`), for which the prover has no rule here. Every other property of a passing run
is stated by a theorem. The counterexamples of section 5 are TLC's.

**Only proved.** The type invariants of `WriteModel` and `System` (`TypeCorrect`, `SystemTypes`).
They are parts of the inductive invariants; no slip that the types of Rust let pass would show in
them, so that no run spends time on them.

## 5. Where code and documentation differ

1. `retry`: `main.rs:219` says of a rejected broker command that "retrying will never succeed".
   `NotYourTurn`, and `WrongStage` in the lobby, are verdicts on the moment: the same command
   delivered again later is accepted. TLC's trace is over `System`, and every command in it is one
   that a client sends: a player clicks twice on two cells before the answer to the first; the
   second click is rejected at once, waits in the topic, and is a legal move when the opponent has
   moved. `HopelessStaysHopeless` says, and `HopelessForever` proves, for which commands the comment
   is right. (The branch under the comment is reached by `WrongGame` alone, because of 3.)
2. `broker_redelivery`: `redpanda.rs:10-11` promises that an unacknowledged message stays
   uncommitted and is redelivered. The task goes on to the next message, whose commit passes the one
   left behind. What does hold is weaker: `NothingPassedUnhandled`.
3. `broker_rejection`: `main.rs:207` says domain violations are acked. `handle` turns an error of
   `decide` into text (`game_service.rs:53`), so the `downcast_ref` finds `WrongGame` only; every
   other rejection drops its ack, and is logged as a transient failure.
4. `system_start`: `README.md:64` says that the server "auto-starts the game the moment both clients
   connect". Leaving in the lobby frees no slot, so the second join starts the game although the
   first player has gone, and waits for that player's move. `AbandonedGamesEnd` is what holds: only
   who left before the start may be missing.
5. `system_pair`: `client/src/main.rs:231` builds the pair "once both PlayerJoined events are in the
   log". Two clients that connect in the same tick are both connected while the first is handled, so
   that the second is sent the first's `PlayerJoined` by the broadcast and again by its catch-up,
   and two joins are two joins: its pair is the first player twice. `ViewsConverge` shows that board
   and turn do not suffer from the duplicate; `PairFollowsSlots` that without one the pair is right.

Two more, plain in the code and without a run: `errors.rs:25` has `UnknownPlayer` for "an action ...
by a player who is not in the game", but it is never constructed and `LeaveGame` from anyone ends
the game in progress; and `model/sequence_diagrams.md:59` rebuilds the state from the store after a
restart of the server, but the store is in memory and nothing reads the events topic, so the game is
lost (`Restart` of `System`).

## 6. Not modelled

* Encodings (bincode on the wire, JSON in the topic) but for their failure on a record; names and
  all wording; `render_hover`, colours, sprites and layout: no state that outlives the frame comes
  of them.
* Creation of topics, client configuration, the set-up of the transport: I/O before the first tick.
* The type-state builder of `GameService`, which the compiler checks; `EventStore::append`, which
  tests alone call; `EventStore`'s mutex, which one thread uses, and the panic on a poisoned lock.
* The deployment.

## 7. Plan

Done: every component above but the deployment, the abstract game, the abstract delivery, and the
proofs of section 4, which state every safety property the runs check. What is left:

1. `System` with the echo in the order of two groups (the positions of `BrokerConsumer`) instead of
   a set. The set allows more, so that nothing shown depends on it; the product of the two state
   spaces does not fit a run.
2. By proof, that the log of `System` is a legal history as that of `GameService` is: `Recorded` has
   it, in the form of `Orderly`; the counting would have to be stated of both modules.
