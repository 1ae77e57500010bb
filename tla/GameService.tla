---------------------------- MODULE GameService ----------------------------
(***************************************************************************)
(* server/src/game_service.rs over the EventStore of store/src/store.rs:   *)
(* one game session as the server keeps it.  The session is its log; the   *)
(* state is rebuilt from it for every command, the events decided are      *)
(* appended in one batch, then handed to the publisher (which may lose     *)
(* any of them) and to the broadcaster.                                    *)
(***************************************************************************)
EXTENDS Decider, FiniteSets

CONSTANTS
  GameId,    \* EventStore::game_id, a fresh Uuid for every server start
  Envelopes, \* the CommandEnvelopes that reach handle: [id, game_id, command]
  MaxLog,    \* bound: events a session may hold
  MaxLeft,   \* bound: departures among them, which decide never refuses
  MaxLost    \* bound: events the publisher may lose

ASSUME EnvelopesCarryCommands == \A env \in Envelopes : env.command \in GameCommand
ASSUME EnvelopesAreKnownByIds == \A env, other \in Envelopes : env.id = other.id => env = other
ASSUME BoundsAreNaturals == {MaxLog, MaxLeft, MaxLost} \subseteq Nat

VARIABLES
  log,       \* Inner::log: GameEventEnvelopes, oldest first
  published, \* the events topic: the envelopes that were delivered to it
  broadcast  \* the events handed to NetworkBroadcaster::broadcast, in order

vars == <<log, published, broadcast>>

-----------------------------------------------------------------------------
(* The store and the state it stands for.                                  *)

events(entries) == [k \in 1..Len(entries) |-> entries[k].event]

Event(k) == log[k].event

OfType(type) == {k \in 1..Len(log) : Event(k).type = type}

\* One session, so the game id is left out, as are fresh ids and times.
GameEventEnvelope(sequence, event, command_id) ==
  [sequence |-> sequence, command_id |-> command_id, event |-> event]

\* Mutant: the length of the log is read once for the whole batch.
Envelop_SameNumber(evs, command_id) ==
  [k \in 1..Len(evs) |-> GameEventEnvelope(Len(log), evs[k], command_id)]

\* EventStore::append_batch: the envelopes, numbered on from the log's length.
Envelop(evs, command_id) ==
  [k \in 1..Len(evs) |-> GameEventEnvelope(Len(log) + k - 1, evs[k], command_id)]

CurrentState == hydrate(events(log))

-----------------------------------------------------------------------------
(* handle                                                                  *)

\* The error handle returns, or "None".
HandleError(env) ==
  IF env.game_id # GameId THEN "WrongGame"
  ELSE decide(CurrentState, env.command).error

\* RedpandaPublisher::publish sends one record per event; a send that fails is
\* logged and the next one tried, so any of them may be missing.
Publish(envelopes) ==
  \E n \in 0..Len(envelopes) : \E sent \in [1..n -> 1..Len(envelopes)] :
    /\ \A j, k \in 1..n : j < k => sent[j] < sent[k]
    /\ published' = published \o [k \in 1..n |-> envelopes[sent[k]]]

\* Mutant: a failed publish is returned as an error, before the broadcast.
handle_PublishFatal(env) ==
  LET decided == decide(CurrentState, env.command).events
      envelopes == Envelop(decided, env.id)
  IN  /\ HandleError(env) = "None"
      /\ log' = log \o envelopes
      /\ Publish(envelopes)
      /\ broadcast' = IF Len(published') - Len(published) = Len(envelopes)
                      THEN broadcast \o decided
                      ELSE broadcast

handle(env) ==
  LET decided == decide(CurrentState, env.command).events
      envelopes == Envelop(decided, env.id)
  IN  /\ HandleError(env) = "None"
      /\ log' = log \o envelopes
      /\ Publish(envelopes)
      /\ broadcast' = broadcast \o decided

\* An Err leaves store, topic and clients as they were.
Reject(env) == HandleError(env) # "None" /\ UNCHANGED vars

Init == log = << >> /\ published = << >> /\ broadcast = << >>

\* A session is handed any command any number of times: from connections,
\* from clients, and from both consumer groups of the broker.
Next ==
  \E env \in Envelopes :
    \/ /\ handle(env)
       /\ Len(log') <= MaxLog
       /\ Cardinality(OfType("PlayerLeft")') <= MaxLeft
       /\ Len(log') - Len(published') <= MaxLost
    \/ Reject(env)

Spec == Init /\ [][Next]_vars

-----------------------------------------------------------------------------

TypeOK ==
  /\ \A k \in 1..Len(log) :
       /\ log[k].command_id \in {env.id : env \in Envelopes}
       /\ log[k].sequence = k - 1
  /\ CurrentState \in GameState

\* The n-th of a set of log positions.
Nth(positions, n) ==
  CHOOSE k \in positions : Cardinality({j \in positions : j <= k}) = n

(* The log is a legal history of one game, read without replaying it: at   *)
(* most two joins, of different players; GameStarted right behind the      *)
(* second, naming the first; then moves on different tiles of the board    *)
(* (every replay indexes it with them) by the two in turn; at most one     *)
(* GameEnded; and behind it nothing but departures.                        *)
HistoryIsLegal ==
  LET joins == OfType("PlayerJoined")
      starts == OfType("GameStarted")
      moves == OfType("TilePlaced")
      ends == OfType("GameEnded")
      joiner(n) == Event(Nth(joins, n)).player_id
  IN  /\ Cardinality(joins) <= 2
      /\ Cardinality(joins) = 2 => joiner(1) # joiner(2)
      /\ starts = IF Cardinality(joins) = 2 THEN {Nth(joins, 2) + 1} ELSE {}
      /\ \A s \in starts : Event(s).goes_first = joiner(1)
      /\ \A m \in moves :
           /\ \E s \in starts : s < m
           /\ Event(m).player_id =
                joiner(IF Cardinality({n \in moves : n <= m}) % 2 = 1 THEN 1 ELSE 2)
           /\ Event(m).at \in Positions
           /\ \A n \in moves : Event(m).at = Event(n).at => m = n
      /\ Cardinality(ends) <= 1
      /\ \A e \in ends, k \in 1..Len(log) : k > e => Event(k).type = "PlayerLeft"

\* The tiles a player has taken, according to the log.
TilesOf(p) == {Event(m).at : m \in {n \in OfType("TilePlaced") : Event(n).player_id = p}}

LinesOf(p) == {k \in 1..8 : \A j \in 1..3 : WIN_PATTERNS[k][j] \in TilesOf(p)}

\* All tiles any player has taken.
TilesTaken == {Event(m).at : m \in OfType("TilePlaced")}

(* The reason a GameEnded carries is the one the history bears out, told   *)
(* from the moves alone: a winner has a line and made the last move, a     *)
(* draw follows the move that took the last tile and left nobody a line, a *)
(* departure ended a game neither won nor full.  A game with a line, or    *)
(* with no tile left, has ended.                                           *)
EndIsJustified ==
  LET ends == OfType("GameEnded")
      won(p) == LinesOf(p) # {}
      open == TilesTaken # Positions /\ \A p \in PlayerId : ~ won(p)
  IN  /\ ~ open => ends # {}
      /\ \A e \in ends :
           /\ Event(e).reason = "PlayerWon" =>
                /\ won(Event(e).player_id)
                /\ Event(e - 1).type = "TilePlaced"
                /\ Event(e - 1).player_id = Event(e).player_id
           /\ Event(e).reason = "Draw" =>
                /\ TilesTaken = Positions
                /\ \A p \in PlayerId : ~ won(p)
                /\ Event(e - 1).type = "TilePlaced"
           /\ Event(e).reason = "PlayerLeft" =>
                /\ open
                /\ Event(e - 1) = PlayerLeft(Event(e).player_id)

(* However often a command is redelivered, it is applied once: two events  *)
(* of one type with one command id are departures, the only command that   *)
(* decide accepts every time.                                              *)
AppliedOnce ==
  \A j, k \in 1..Len(log) :
    /\ j # k
    /\ log[j].command_id = log[k].command_id
    /\ Event(j).type = Event(k).type
    => Event(j).type = "PlayerLeft"

(* Clients are told all of the log and the topic may miss some of it: a    *)
(* failed publish is not fatal to the broadcast.  A reader of the topic    *)
(* can trust what it gets and see what it missed: records come in the      *)
(* order of the log, none twice, each the log's entry of its number.       *)
OutputsFollowLog ==
  /\ broadcast = events(log)
  /\ \A n \in 1..Len(published) :
       /\ published[n].sequence + 1 \in 1..Len(log)
       /\ published[n] = log[published[n].sequence + 1]
  /\ \A m, n \in 1..Len(published) :
       m < n => published[m].sequence < published[n].sequence
=============================================================================
