------------------------------ MODULE Server ------------------------------
(***************************************************************************)
(* The game loop of server/src/main.rs, one tick after the other: update   *)
(* the transport, handle_connections, drain_client_commands,               *)
(* drain_broker_commands, send the packets.  What clients and network do   *)
(* becomes visible in the update only, what the server sends at the end.   *)
(* The session is its log, as in GameService, and the state its replay.    *)
(***************************************************************************)
EXTENDS Decider, Renet

CONSTANT MaxDepartures \* bound: PlayerLeft events in the log when echoes add one

ASSUME ClientsArePlayers == Clients \subseteq Players
ASSUME ServerBounds == MaxDepartures \in Nat

VARIABLES
  step,     \* "update" of the transport, or the "tick" of the game behind it
  polled,   \* the clients drain_client_commands has read from in this tick
  messages, \* the Vec of messages it has read and not yet handled
  topic,    \* commands published for this game, read back by two groups
  log,      \* the events of the EventStore
  state     \* GameDecider::hydrate of the log

server == <<step, polled, messages, topic, log, state>>

Write == INSTANCE WriteModel

JoinGame(c) == [type |-> "JoinGame", player_id |-> c]
LeaveGame(c) == [type |-> "LeaveGame", player_id |-> c]

ServerInit ==
  /\ step = "update" /\ polled = {} /\ messages = << >>
  /\ topic = {} /\ log = << >> /\ state = DefaultState

-----------------------------------------------------------------------------

\* GameService::handle on top of what has been sent before it.
handle(cmd, streams) ==
  LET events == decide(state, cmd).events
  IN  /\ state' = Write!ApplyBatch(state, events)
      /\ log' = log \o events
      /\ downlink' = broadcast(streams, events)

\* A command of a connection or a client: published first, then handled.
PublishAndHandle(cmd, streams) ==
  /\ topic' = topic \cup {cmd}
  /\ handle(cmd, streams)

\* srv.update and transport.update are over.
BeginTick ==
  /\ step = "update"
  /\ step' = "tick"
  /\ UNCHANGED <<renet, polled, messages, topic, log, state>>

\* Mutant: a new client is sent only what is broadcast from now on.
catch_up_Nothing(c) == downlink

\* GameService::catch_up: the whole log, to one client.
catch_up(c) == send_to(downlink, c, log)

\* The arm ClientConnected: catch_up, then the server's own JoinGame.
HandleConnected ==
  /\ step = "tick" /\ serverEvents # << >>
  /\ LET notice == Head(serverEvents)
         c == notice.client_id
     IN  /\ notice.type = "ClientConnected"
         /\ PublishAndHandle(JoinGame(c), catch_up(c))
  /\ serverEvents' = Tail(serverEvents)
  /\ UNCHANGED <<connected, gone, uplink, step, polled, messages>>

\* Mutant: a departure is published and not handled.
HandleDisconnected_PublishOnly ==
  /\ step = "tick" /\ serverEvents # << >>
  /\ Head(serverEvents).type = "ClientDisconnected"
  /\ topic' = topic \cup {LeaveGame(Head(serverEvents).client_id)}
  /\ serverEvents' = Tail(serverEvents)
  /\ UNCHANGED <<connected, gone, uplink, downlink, step, polled, messages, log, state>>

\* The arm ClientDisconnected.
HandleDisconnected ==
  /\ step = "tick" /\ serverEvents # << >>
  /\ LET notice == Head(serverEvents)
     IN  /\ notice.type = "ClientDisconnected"
         /\ PublishAndHandle(LeaveGame(notice.client_id), downlink)
  /\ serverEvents' = Tail(serverEvents)
  /\ UNCHANGED <<connected, gone, uplink, step, polled, messages>>

\* Mutant: the Vec is a new one for every client, and the last one is handled.
Poll_NewVec(c, arrived) ==
  /\ step = "tick" /\ serverEvents = << >>
  /\ c \notin polled
  /\ polled' = polled \cup {c}
  /\ messages' = SubSeq(uplink[c], 1, arrived)
  /\ uplink' = [uplink EXCEPT ![c] = SubSeq(@, arrived + 1, Len(@))]
  /\ UNCHANGED <<connected, gone, serverEvents, downlink, step, topic, log, state>>

\* The first half of drain_client_commands: the messages of one client that
\* have arrived, one client after the other, in the order of a HashMap.
Poll(c, arrived) ==
  /\ step = "tick" /\ serverEvents = << >>
  /\ c \notin polled
  /\ polled' = polled \cup {c}
  /\ messages' = messages \o SubSeq(uplink[c], 1, arrived)
  /\ uplink' = [uplink EXCEPT ![c] = SubSeq(@, arrived + 1, Len(@))]
  /\ UNCHANGED <<connected, gone, serverEvents, downlink, step, topic, log, state>>

\* handle_connections is through, and every connected client has been polled.
Polled == step = "tick" /\ serverEvents = << >> /\ polled = connected

\* Its second half, for one message.
HandleMessage ==
  /\ Polled /\ messages # << >>
  /\ PublishAndHandle(Head(messages), downlink)
  /\ messages' = Tail(messages)
  /\ UNCHANGED <<connected, gone, serverEvents, uplink, step, polled>>

Departures(entries) == Cardinality({k \in 1..Len(entries) : entries[k].type = "PlayerLeft"})

\* One turn of drain_broker_commands: lost, late or twice, any command of the
\* topic may come now (BrokerConsumer has the order, and what is acked).
HandleBrokerCommand(cmd) ==
  /\ Polled /\ messages = << >>
  /\ cmd.type = "LeaveGame" => Departures(log) < MaxDepartures
  /\ handle(cmd, downlink)
  /\ UNCHANGED <<connected, gone, serverEvents, uplink, step, polled, messages, topic>>

\* The channel is empty; the packets go out and the loop sleeps.
EndTick ==
  /\ Polled /\ messages = << >>
  /\ step' = "update" /\ polled' = {}
  /\ UNCHANGED <<renet, messages, topic, log, state>>

ServerNext ==
  \/ BeginTick
  \/ HandleConnected
  \/ HandleDisconnected
  \/ \E c \in connected : \E arrived \in 0..Len(uplink[c]) : Poll(c, arrived)
  \/ HandleMessage
  \/ \E cmd \in topic : HandleBrokerCommand(cmd)
  \/ EndTick
=============================================================================
