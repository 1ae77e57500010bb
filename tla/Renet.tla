------------------------------- MODULE Renet -------------------------------
(***************************************************************************)
(* The transport between clients and server as server/src/main.rs and      *)
(* adapters/renet.rs use it: connections, the notices of them that         *)
(* get_event hands out, and one reliable, ordered channel each way.        *)
(***************************************************************************)
EXTENDS Integers, Sequences, FiniteSets

CONSTANTS
  Clients,   \* client ids, one for each start of a client (a time stamp)
  MaxClients \* ServerConfig::max_clients

ASSUME CapacityIsNatural == MaxClients \in Nat

VARIABLES
  connected,    \* RenetServer::clients_id
  gone,         \* client ids that have been connected and are not any more
  serverEvents, \* ServerEvents not yet taken by get_event, oldest first
  uplink,       \* of each client: messages sent and not yet received
  downlink      \* of each client: all that was sent to it, in order

renet == <<connected, gone, serverEvents, uplink, downlink>>

ClientConnected(c) == [type |-> "ClientConnected", client_id |-> c]
ClientDisconnected(c) == [type |-> "ClientDisconnected", client_id |-> c]

RenetInit ==
  /\ connected = {} /\ gone = {}
  /\ serverEvents = << >>
  /\ uplink = [c \in Clients |-> << >>]
  /\ downlink = [c \in Clients |-> << >>]

\* transport.update admits a client, whose first messages are under way.
Connect(c, greeting) ==
  /\ c \notin connected \cup gone
  /\ Cardinality(connected) < MaxClients
  /\ connected' = connected \cup {c}
  /\ serverEvents' = Append(serverEvents, ClientConnected(c))
  /\ uplink' = [uplink EXCEPT ![c] = greeting]
  /\ UNCHANGED <<gone, downlink>>

\* transport.update loses a client, and all that was under way either way.
Disconnect(c) ==
  /\ c \in connected
  /\ connected' = connected \ {c}
  /\ gone' = gone \cup {c}
  /\ serverEvents' = Append(serverEvents, ClientDisconnected(c))
  /\ uplink' = [uplink EXCEPT ![c] = << >>]
  /\ downlink' = [downlink EXCEPT ![c] = << >>]

\* RenetBroadcaster::send_to of several events: nobody hears who is not connected.
send_to(streams, c, events) ==
  IF c \in connected THEN [streams EXCEPT ![c] = @ \o events] ELSE streams

\* RenetBroadcaster::broadcast of several events, to whoever is connected now.
broadcast(streams, events) ==
  [c \in Clients |-> IF c \in connected THEN streams[c] \o events ELSE streams[c]]
=============================================================================
