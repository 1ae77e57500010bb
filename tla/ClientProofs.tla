---------------------------- MODULE ClientProofs ----------------------------
(***************************************************************************)
(* What the players see, and what becomes of their clicks: the pair of     *)
(* players, the copy of the game, the status line and the pieces of every  *)
(* client agree with the server's state once the client has read what it   *)
(* was sent.                                                               *)
(***************************************************************************)
EXTENDS SessionProofs

-----------------------------------------------------------------------------
(* The log of a running server is written one decision at a time.          *)

\* A client that is not there shows nothing.
Idle(c) ==
  /\ read[c] = 0 /\ view[c] = DefaultState /\ pair[c] = << >> /\ pieces[c] = {}
  /\ status[c] = Waiting /\ clicks[c] = << >>

\* What the arguments below rest on: replays, order, and a row for each client.
Recorded ==
  /\ Folded /\ Connections /\ Orderly(log) /\ Settled(log)
  /\ DOMAIN pieces = Clients /\ DOMAIN status = Clients /\ DOMAIN clicks = Clients
  /\ \A c \in Clients : c \notin connected => Idle(c)

\* Whatever handle adds to the log is in its place there.
LEMMA HandleInOrder ==
  ASSUME SessionTypes, LogReplayed, Orderly(log), Settled(log),
         NEW cmd \in Commands, NEW streams, handle(cmd, streams)
  PROVE  Orderly(log)' /\ Settled(log)'
<1>1. cmd \in GameCommand /\ log \in Seq(GameEvent) /\ state = hydrate(log)
  BY DEF Commands, SessionTypes, LogReplayed
<1>2. log' = log \o decide(state, cmd).events
  BY DEF handle
<1>3. CASE decide(state, cmd).error # "None"
  <2>1. decide(state, cmd).events = << >>
    BY <1>1, <1>3, ErrorsAreEmpty
  <2>2. log \o << >> = log
    BY <1>1, ConcatEmptySeq
  <2>3. log' = log
    BY <1>2, <2>1, <2>2
  <2> QED
    BY <2>3
<1>4. CASE decide(state, cmd).error = "None"
  <2>1. \A L \in Seq(GameEvent) :
          Orderly(L) /\ Settled(L) /\ decide(hydrate(L), cmd).error = "None" =>
            /\ Orderly(L \o decide(hydrate(L), cmd).events)
            /\ Settled(L \o decide(hydrate(L), cmd).events)
    BY <1>1, OrderlyStep
  <2>2. Orderly(log \o decide(state, cmd).events) /\ Settled(log \o decide(state, cmd).events)
    BY <1>1, <1>4, <2>1
  <2> QED
    BY <1>2, <2>2
<1> QED
  BY <1>3, <1>4

\* What the loop does to the session: nothing, or it hands handle a command.
LEMMA LoopCommands ==
  ASSUME SInv, Serve
  PROVE  /\ connected' = connected /\ gone' = gone
         /\ \/ log' = log /\ state' = state
            \/ \E cmd \in Commands, streams \in [Clients -> Seq(GameEvent)] : handle(cmd, streams)
<1>1. OnlyCommands /\ downlink \in [Clients -> Seq(GameEvent)] /\ log \in Seq(GameEvent)
  BY DEF SInv, SessionTypes
<1>2. CASE BeginTick \/ EndTick \/ \E c \in connected : \E n \in 0..Len(uplink[c]) : Poll(c, n)
  BY <1>2 DEF BeginTick, EndTick, Poll, renet
<1>3. CASE HandleConnected
  <2> DEFINE new == Head(serverEvents).client_id
             streams == catch_up(new)
  <2>1. handle(JoinGame(new), streams) /\ UNCHANGED <<connected, gone>>
    BY <1>3 DEF HandleConnected, PublishAndHandle
  <2>2. new \in Clients /\ JoinGame(new) \in Commands
    BY <1>1, <1>3, HeadNotice, OwnCommands DEF HandleConnected
  <2>3. downlink[new] \o log \in Seq(GameEvent)
    BY <1>1, <2>2, ConcatProperties
  <2>4. streams \in [Clients -> Seq(GameEvent)]
    BY <1>1, <2>2, <2>3 DEF catch_up, send_to
  <2> QED
    BY <2>1, <2>2, <2>4
<1>4. CASE HandleDisconnected
  <2> DEFINE d == Head(serverEvents).client_id
  <2>1. handle(LeaveGame(d), downlink) /\ UNCHANGED <<connected, gone>>
    BY <1>4 DEF HandleDisconnected, PublishAndHandle
  <2>2. LeaveGame(d) \in Commands
    BY <1>1, <1>4, HeadNotice, OwnCommands DEF HandleDisconnected
  <2> QED
    BY <1>1, <2>1, <2>2
<1>5. CASE HandleMessage
  <2>1. Head(messages) \in Commands
    BY <1>1, <1>5 DEF HandleMessage, OnlyCommands
  <2>2. handle(Head(messages), downlink) /\ UNCHANGED <<connected, gone>>
    BY <1>5 DEF HandleMessage, PublishAndHandle
  <2> QED
    BY <1>1, <2>1, <2>2
<1>6. ASSUME NEW cmd \in topic, HandleBrokerCommand(cmd)
      PROVE  /\ connected' = connected /\ gone' = gone
             /\ \E other \in Commands, streams \in [Clients -> Seq(GameEvent)] :
                  handle(other, streams)
  <2>1. cmd \in Commands
    BY <1>1 DEF OnlyCommands
  <2>2. handle(cmd, downlink) /\ UNCHANGED <<connected, gone>>
    BY <1>6 DEF HandleBrokerCommand
  <2> QED
    BY <1>1, <2>1, <2>2
<1> QED
  BY <1>2, <1>3, <1>4, <1>5, <1>6 DEF Serve, ServerNext

\* What a step is to one client: it is not there or comes, it runs a frame, or
\* it shows what it did while more may have been sent to it.
Starts(c) == Idle(c)' /\ (c \in connected' => c \notin connected /\ downlink'[c] = << >>)

Runs(c) ==
  /\ c \in connected /\ c \in connected' /\ downlink' = downlink
  /\ UNCHANGED <<log, state, topic, messages, serverEvents, uplink>>
  /\ \E arrived \in Unread(c) : Frame(c, arrived)

Shows(c) ==
  /\ c \in connected /\ c \in connected'
  /\ UNCHANGED <<read[c], view[c], pair[c], pieces[c], status[c]>>
  /\ \E more \in Seq(GameEvent) : downlink'[c] = downlink[c] \o more

LEMMA ClientSteps ==
  ASSUME Recorded, [Next]_vars, NEW c \in Clients
  PROVE  Starts(c) \/ Runs(c) \/ Shows(c)
<1> USE DEF Recorded
<1>1. /\ SInv /\ LogReplayed /\ downlink \in [Clients -> Seq(GameEvent)]
      /\ view \in [Clients -> GameState] /\ read \in [Clients -> Nat]
      /\ DOMAIN pair = Clients
  BY DEF Folded, SInv, SessionTypes, Connections
<1>2. downlink[c] = downlink[c] \o << >> /\ << >> \in Seq(GameEvent)
  BY <1>1, ConcatEmptySeq
<1>3. c \notin connected => downlink[c] = << >>
  BY <1>1 DEF SInv, SentSoFar
<1>4. ASSUME NEW d \in Clients, Enter(d) PROVE Starts(c) \/ Shows(c)
  <2>1. /\ connected' = connected \cup {d} /\ d \notin connected /\ downlink' = downlink
        /\ UNCHANGED client
    BY <1>4 DEF Enter, Connect
  <2> QED
    BY <1>2, <1>3, <2>1 DEF Starts, Shows, Idle, client
<1>5. ASSUME NEW d \in Clients, Leave(d) PROVE Starts(c) \/ Shows(c)
  <2>1. /\ connected' = connected \ {d} /\ d \in connected
        /\ downlink' = [downlink EXCEPT ![d] = << >>] /\ Quit({d})
    BY <1>5 DEF Leave, Disconnect
  <2>2. CASE c = d \/ c \notin connected
    BY <2>1, <2>2 DEF Starts, Idle, Quit
  <2>3. CASE c # d /\ c \in connected
    BY <1>1, <1>2, <2>1, <2>3 DEF Shows, Quit
  <2> QED
    BY <2>2, <2>3
<1>6. ASSUME NEW d \in Clients, NEW arrived \in Unread(d), Frame(d, arrived), UNCHANGED server
      PROVE  Starts(c) \/ Runs(c) \/ Shows(c)
  <2>1. UNCHANGED renet /\ d \in connected
    BY <1>6 DEF Frame
  <2>2. CASE c = d
    BY <1>6, <2>1, <2>2 DEF Runs, renet, server
  <2>3. CASE c # d
    <3>1. \A e \in Clients : e # d => view'[e] = view[e] /\ read'[e] = read[e]
      BY <1>6, FrameReplays
    <3>2. pair'[c] = pair[c]
      BY <1>1, <1>6, <2>3 DEF Frame, update_pair
    <3>3. pieces'[c] = pieces[c]
      BY <1>6, <2>3 DEF Frame, render_pieces
    <3>4. status'[c] = status[c]
      BY <1>6, <2>3 DEF Frame, update_status, Tell
    <3>5. clicks' = clicks
      BY <1>6 DEF Frame
    <3> QED
      BY <1>2, <1>3, <2>1, <2>3, <3>1, <3>2, <3>3, <3>4, <3>5 DEF Starts, Shows, Idle, renet
  <2> QED
    BY <2>2, <2>3
<1>7. ASSUME NEW d \in Clients, NEW cursor \in Cursors[d], Click(d, cursor)
      PROVE  Starts(c) \/ Shows(c)
  <2>1. /\ UNCHANGED <<connected, downlink, view, read, pair, pieces, status>>
        /\ d \in connected /\ (c # d => clicks'[c] = clicks[c])
    BY <1>7 DEF Click
  <2> QED
    BY <1>2, <1>3, <2>1 DEF Starts, Shows, Idle
<1>8. CASE Serve
  <2>1. connected' = connected /\ \E more \in Seq(GameEvent) : downlink'[c] = downlink[c] \o more
    BY <1>1, <1>8, LoopReplays
  <2>2. UNCHANGED client
    BY <1>8 DEF Serve
  <2> QED
    BY <2>1, <2>2 DEF Starts, Shows, Idle, client
<1>9. CASE Restart
  <2>1. connected' = {} /\ Quit(Clients)
    BY <1>9 DEF Restart, CutOff
  <2> QED
    BY <2>1 DEF Starts, Idle, Quit
<1>10. CASE UNCHANGED vars
  BY <1>2, <1>3, <1>10 DEF vars, renet, client, Starts, Shows, Idle
<1> QED
  BY <1>4, <1>5, <1>6, <1>7, <1>8, <1>9, <1>10 DEF Next, Play, ClientNext

\* It holds of a server without clients.
LEMMA InitRecorded == Init => Recorded
<1> SUFFICES ASSUME Init PROVE Recorded
  OBVIOUS
<1>1. Folded /\ Connections
  BY InitFolded, InitConnections
<1>2. Orderly(log) /\ Settled(log)
  BY OrderlyStart DEF Init, ServerInit
<1>3. /\ DOMAIN pieces = Clients /\ DOMAIN status = Clients /\ DOMAIN clicks = Clients
      /\ \A c \in Clients : Idle(c)
  BY DEF Init, ClientInit, Idle
<1> QED
  BY <1>1, <1>2, <1>3 DEF Recorded

\* Every step keeps it.
LEMMA StepRecorded ==
  ASSUME Recorded, [Next]_vars
  PROVE  Recorded'
<1>1. Folded' /\ Connections'
  BY StepFolded, StepConnections DEF Recorded
<1>2. Orderly(log)' /\ Settled(log)'
  <2>1. CASE Serve
    <3>1. SInv /\ SessionTypes /\ LogReplayed /\ Orderly(log) /\ Settled(log)
      BY DEF Recorded, Folded, SInv
    <3>2. \/ log' = log /\ state' = state
          \/ \E cmd \in Commands, streams \in [Clients -> Seq(GameEvent)] : handle(cmd, streams)
      BY <2>1, <3>1, LoopCommands
    <3>3. CASE log' = log
      BY <3>1, <3>3
    <3> QED
      BY <3>1, <3>2, <3>3, HandleInOrder
  <2>2. CASE Restart
    <3>1. log' = << >>
      BY <2>2 DEF Restart
    <3> QED
      BY <3>1, OrderlyStart
  <2>3. ASSUME log' = log PROVE Orderly(log)' /\ Settled(log)'
    BY <2>3 DEF Recorded
  <2>4. ASSUME NEW c \in Clients, Enter(c) \/ Leave(c) \/ Play(c) PROVE log' = log
    BY <2>4 DEF Enter, Leave, Play, server
  <2>5. UNCHANGED vars => log' = log
    BY DEF vars, server
  <2> QED
    BY <2>1, <2>2, <2>3, <2>4, <2>5 DEF Next
<1>3. DOMAIN pieces' = Clients /\ DOMAIN status' = Clients /\ DOMAIN clicks' = Clients
  <2> USE DEF Recorded
  <2>1. ASSUME NEW c \in Clients, Enter(c) \/ Leave(c) \/ Play(c)
        PROVE  DOMAIN pieces' = Clients /\ DOMAIN status' = Clients /\ DOMAIN clicks' = Clients
    <3>1. CASE Enter(c)
      BY <3>1 DEF Enter, client
    <3>2. CASE Leave(c)
      BY <3>2 DEF Leave, Quit
    <3>3. ASSUME NEW arrived \in Unread(c), Frame(c, arrived)
          PROVE  DOMAIN pieces' = Clients /\ DOMAIN status' = Clients /\ DOMAIN clicks' = Clients
      <4>1. DOMAIN pieces' = Clients
        BY <3>3 DEF Frame, render_pieces
      <4>2. DOMAIN status' = Clients
        BY <3>3 DEF Frame, update_status, Tell
      <4> QED
        BY <3>3, <4>1, <4>2 DEF Frame
    <3>4. ASSUME NEW cursor \in Cursors[c], Click(c, cursor)
          PROVE  DOMAIN pieces' = Clients /\ DOMAIN status' = Clients /\ DOMAIN clicks' = Clients
      BY <3>4 DEF Click
    <3> QED
      BY <2>1, <3>1, <3>2, <3>3, <3>4 DEF Play, ClientNext
  <2>2. Serve \/ UNCHANGED vars => UNCHANGED client
    BY DEF Serve, vars
  <2>3. CASE Restart
    BY <2>3 DEF Restart, CutOff, Quit
  <2> QED
    BY <2>1, <2>2, <2>3 DEF Next, client
<1>4. ASSUME NEW c \in Clients, c \notin connected' PROVE Idle(c)'
  BY <1>4, ClientSteps DEF Starts, Runs, Shows
<1> QED
  BY <1>1, <1>2, <1>3, <1>4 DEF Recorded

-----------------------------------------------------------------------------
(* What is in a stream.                                                    *)

\* A client hears what is in the log and nothing else, in place of the whole
\* log once it has been greeted.
LEMMA HeardFromLog ==
  ASSUME Recorded, NEW c \in Clients
  PROVE  /\ downlink[c] \in Seq(GameEvent) /\ log \in Seq(GameEvent)
         /\ \A k \in 1..Len(downlink[c]) : \E m \in 1..Len(log) : downlink[c][k] = log[m]
         /\ \A k \in 1..Len(downlink[c]) : downlink[c][k] \in SoundEvent
<1>1. /\ downlink[c] \in Seq(GameEvent) /\ log \in Seq(GameEvent) /\ SentSoFar(c)
      /\ Orderly(log)
  BY DEF Recorded, Folded, SInv, SessionTypes
<1>2. \A k \in 1..Len(downlink[c]) : \E m \in 1..Len(log) : downlink[c][k] = log[m]
  <2>1. CASE c \notin connected
    BY <1>1, <2>1 DEF SentSoFar
  <2>2. CASE c \in connected /\ Announced(c)
    <3>1. PICK before \in Seq(GameEvent) : log = before \o downlink[c]
      BY <1>1, <2>2 DEF SentSoFar
    <3>2. InParts(before, downlink[c], log)
      BY <1>1, <3>1, ConcatParts
    <3> QED
      BY <3>2 DEF InParts
  <2>3. CASE c \in connected /\ ~ Announced(c)
    <3>1. PICK before \in Seq(GameEvent), again \in Seq(GameEvent), after \in Seq(GameEvent) :
            log = (before \o again) \o after /\ downlink[c] = again \o log
      BY <1>1, <2>3 DEF SentSoFar
    <3>2. before \o again \in Seq(GameEvent) /\ InParts(before, again, before \o again)
      BY <3>1, ConcatParts
    <3>3. InParts(before \o again, after, log) /\ InParts(again, log, downlink[c])
      BY <1>1, <3>1, <3>2, ConcatParts
    <3> DEFINE stretch == before \o again
    <3> HIDE DEF stretch
    <3>4. ASSUME NEW k \in 1..Len(again) PROVE \E m \in 1..Len(log) : again[k] = log[m]
      <4>1. Len(before) + k \in 1..Len(stretch) /\ stretch[Len(before) + k] = again[k]
        BY <3>2 DEF InParts, stretch
      <4>2. Len(before) + k \in 1..Len(log) /\ log[Len(before) + k] = stretch[Len(before) + k]
        BY <3>3, <4>1 DEF InParts, stretch
      <4> QED
        BY <4>1, <4>2
    <3>5. ASSUME NEW k \in 1..Len(downlink[c])
          PROVE  \E m \in 1..Len(log) : downlink[c][k] = log[m]
      <4>1. k \in 1..Len(again) \/ (k - Len(again) \in 1..Len(log) /\ downlink[c][k] = log[k - Len(again)])
        BY <3>3 DEF InParts
      <4>2. k \in 1..Len(again) => downlink[c][k] = again[k]
        BY <3>3 DEF InParts
      <4> QED
        BY <3>4, <4>1, <4>2
    <3> QED
      BY <3>5
  <2> QED
    BY <2>1, <2>2, <2>3
<1>3. \A m \in 1..Len(log) : log[m] \in SoundEvent
  BY <1>1, OrderlySound
<1> QED
  BY <1>1, <1>2, <1>3

\* What has been read of it, and the copy made of that.
LEMMA CopyAt ==
  ASSUME Recorded, NEW c \in Clients
  PROVE  read[c] \in 0..Len(downlink[c]) /\ view[c] = At(downlink[c], read[c])
<1>1. downlink[c] \in Seq(GameEvent) /\ SentSoFar(c) /\ CopyIsReplay(c)
  BY DEF Recorded, Folded, SInv, SessionTypes
<1>2. CASE c \notin connected
  <2>1. downlink[c] = << >> /\ read[c] = 0 /\ view[c] = DefaultState
    BY <1>1, <1>2 DEF SentSoFar, CopyIsReplay
  <2>2. At(downlink[c], 0) = DefaultState
    BY <1>1, AtStart
  <2> QED
    BY <1>1, <2>1, <2>2
<1>3. CASE c \in connected
  <2>1. PICK done \in Seq(GameEvent), rest \in Seq(GameEvent) :
          downlink[c] = done \o rest /\ read[c] = Len(done) /\ view[c] = hydrate(done)
    BY <1>1, <1>3 DEF CopyIsReplay
  <2>2. InParts(done, rest, downlink[c]) /\ Len(done) \in 0..Len(done)
    BY <2>1, ConcatParts
  <2>3. At(done \o rest, Len(done)) = At(done, Len(done)) /\ At(done, Len(done)) = hydrate(done)
    BY <2>2, AtPrefix, AtEnd
  <2> QED
    BY <2>1, <2>2, <2>3 DEF InParts
<1> QED
  BY <1>2, <1>3

-----------------------------------------------------------------------------
(* First and last of some positions.                                       *)

\* Of positions there is a last one, which is their maximum.
LEMMA LastPosition ==
  ASSUME NEW n \in Nat, NEW S \in SUBSET (1..n), S # {}
  PROVE  Max(S) \in S /\ \A k \in S : k <= Max(S)
<1> DEFINE HasLast(R) == \E x \in R : \A y \in R : x >= y
           T == {m \in Nat : \A R \in SUBSET (1..m) : R # {} => HasLast(R)}
<1>1. 0 \in T
  <2>1. ASSUME NEW R \in SUBSET (1..0) PROVE R = {}
    OBVIOUS
  <2> QED
    BY <2>1
<1>2. ASSUME NEW m \in Nat, m \in T PROVE m + 1 \in T
  <2> SUFFICES ASSUME NEW R \in SUBSET (1..(m + 1)), R # {} PROVE HasLast(R)
    OBVIOUS
  <2>1. CASE m + 1 \in R
    BY <2>1
  <2>2. CASE m + 1 \notin R
    <3>1. R \in SUBSET (1..m)
      BY <2>2
    <3> QED
      BY <1>2, <3>1
  <2> QED
    BY <2>1, <2>2
<1>3. Nat \subseteq T
  <2> HIDE DEF T
  <2> QED
    BY <1>1, <1>2, SetInduction
<1>4. \E x \in S : \A y \in S : x >= y
  BY <1>3
<1>5. Max(S) \in S /\ \A k \in S : Max(S) >= k
  BY <1>4 DEF Max
<1> QED
  BY <1>5

\* Two positions are a first and a second.
LEMMA TwoPositions ==
  ASSUME NEW n \in Nat, NEW S \in SUBSET (1..n), Cardinality(S) = 2
  PROVE  \E i, j \in S : i < j /\ S = {i, j} /\ Min(S) = i /\ Max(S) = j
<1>1. IsFiniteSet(S)
  <2>1. IsFiniteSet(1..n) /\ S \subseteq 1..n
    BY FS_Interval
  <2> QED
    BY <2>1, FS_Subset
<1>2. S # {}
  BY FS_EmptySet
<1>3. PICK a \in S : TRUE
  BY <1>2
<1>4. IsFiniteSet(S \ {a}) /\ Cardinality(S \ {a}) = 1
  BY <1>1, <1>3, FS_RemoveElement
<1>5. S \ {a} # {}
  BY <1>4, FS_EmptySet
<1>6. PICK b \in S \ {a} : TRUE
  BY <1>5
<1>7. IsFiniteSet((S \ {a}) \ {b}) /\ Cardinality((S \ {a}) \ {b}) = 0
  BY <1>4, <1>6, FS_RemoveElement
<1>8. (S \ {a}) \ {b} = {}
  BY <1>7, FS_EmptySet
<1>9. S = {a, b} /\ a # b /\ a \in Nat /\ b \in Nat
  <2>1. a \in S /\ b \in S /\ a # b
    BY <1>3, <1>6
  <2>2. \A x \in S : x = a \/ x = b
    BY <1>8
  <2>3. \A x \in 1..n : x \in Nat
    OBVIOUS
  <2>4. S = {a, b}
    BY <2>1, <2>2
  <2> QED
    BY <2>1, <2>3, <2>4
<1>10. PICK i \in S, j \in S : i < j /\ S = {i, j} /\ i \in Nat /\ j \in Nat
  <2>1. CASE a < b
    BY <1>9, <2>1
  <2>2. CASE b < a
    BY <1>9, <2>2
  <2> QED
    BY <1>9, <2>1, <2>2
<1>11. Max(S) = j
  <2>1. Max(S) \in S /\ \A k \in S : k <= Max(S)
    BY <1>2, LastPosition
  <2> QED
    BY <1>10, <2>1
<1>12. Min(S) = i
  <2>1. \E x \in S : \A y \in S : x =< y
    BY <1>10
  <2>2. Min(S) \in S /\ \A k \in S : Min(S) =< k
    BY <2>1 DEF Min
  <2> QED
    BY <1>10, <2>2
<1> QED
  BY <1>10, <1>11, <1>12

-----------------------------------------------------------------------------
(* The pair of players.                                                    *)

\* It is made of the first two joins a client has read of.
PairTaken(c) ==
  pair[c] # << >> =>
    \E n \in 0..read[c] : \E i, j \in 1..n :
      i < j /\ Joins(c, n) = {i, j} /\ pair[c] = <<Joiner(c, i), Joiner(c, j)>>

\* A pair that is due is not left out: it is missing only while a client has
\* read of fewer joins, or of more at once.
PairDue(c) == pair[c] = << >> => Cardinality(Joins(c, read[c])) # 2

\* A frame's update_pair (client/src/main.rs:232-254).
LEMMA FramePairs ==
  ASSUME Recorded, NEW c \in Clients, PairTaken(c),
         NEW arrived \in Unread(c), Frame(c, arrived)
  PROVE  /\ PairTaken(c)' /\ downlink' = downlink
         /\ read[c] \in 0..read'[c] /\ read'[c] \in 0..Len(downlink[c])
         /\ pair[c] # << >> => pair'[c] = pair[c]
<1>1. downlink' = downlink /\ update_pair(c) /\ read' = [read EXCEPT
        ![c] = @ + Len(SubSeq(downlink[c], read[c] + 1, read[c] + arrived))]
  BY DEF Frame, renet, receive_server_events
<1>2. /\ read[c] \in 0..Len(downlink[c]) /\ read \in [Clients -> Nat] /\ DOMAIN pair = Clients
      /\ downlink[c] \in Seq(GameEvent)
  BY CopyAt, HeardFromLog DEF Recorded, Folded, Connections
<1>3. read'[c] = read[c] + arrived /\ arrived \in Nat /\ read[c] + arrived <= Len(downlink[c])
  <2>1. /\ arrived \in Nat /\ read[c] + arrived <= Len(downlink[c])
        /\ read[c] \in Nat /\ Len(downlink[c]) \in Nat
    BY <1>2 DEF Unread
  <2>2. \A k \in (read[c] + 1)..(read[c] + arrived) : downlink[c][k] \in GameEvent
    BY <1>2, <2>1
  <2>3. Len(SubSeq(downlink[c], read[c] + 1, read[c] + arrived)) = arrived
    BY <1>2, <2>1, <2>2, SubSeqProperties
  <2> QED
    BY <1>1, <1>2, <2>1, <2>3
<1>4. read[c] \in 0..read'[c] /\ read'[c] \in 0..Len(downlink[c]) /\ read'[c] \in Nat
  BY <1>2, <1>3
<1> DEFINE joins == Joins(c, read'[c])
<1>5. pair' = [pair EXCEPT ![c] = IF @ = << >> /\ Cardinality(joins) = 2
                                  THEN <<Joiner(c, Min(joins)), Joiner(c, Max(joins))>> ELSE @]
  BY <1>1 DEF update_pair
<1>6. CASE pair[c] # << >>
  <2>1. pair'[c] = pair[c]
    BY <1>2, <1>5, <1>6
  <2>2. PICK n \in 0..read[c] : \E i, j \in 1..n :
          i < j /\ Joins(c, n) = {i, j} /\ pair[c] = <<Joiner(c, i), Joiner(c, j)>>
    BY <1>6 DEF PairTaken
  <2>3. n \in 0..read'[c]
    BY <1>2, <1>4
  <2>4. Joins(c, n)' = Joins(c, n) /\ \A k \in 1..n : Joiner(c, k)' = Joiner(c, k)
    BY <1>1 DEF Joins, Joiner
  <2>5. \E i, j \in 1..n : i < j /\ Joins(c, n)' = {i, j} /\ pair'[c] = <<Joiner(c, i)', Joiner(c, j)'>>
    BY <2>1, <2>2, <2>4
  <2>6. PairTaken(c)'
    BY <2>3, <2>5 DEF PairTaken
  <2> QED
    BY <1>1, <1>4, <2>1, <2>6
<1>7. CASE pair[c] = << >> /\ Cardinality(joins) = 2
  <2>1. joins \in SUBSET (1..read'[c])
    BY DEF Joins
  <2>2. PICK i \in joins, j \in joins : i < j /\ joins = {i, j} /\ Min(joins) = i /\ Max(joins) = j
    BY <1>4, <1>7, <2>1, TwoPositions
  <2> HIDE DEF joins
  <2>3. pair'[c] = <<Joiner(c, i), Joiner(c, j)>>
    BY <1>2, <1>5, <1>7, <2>2
  <2>4. i \in 1..read'[c] /\ j \in 1..read'[c] /\ read'[c] \in 0..read'[c]
    BY <1>4, <2>1
  <2>5. PICK m \in Nat : m = read'[c]
    BY <1>4
  <2>6. Joins(c, m) = {i, j}
    BY <2>2, <2>5 DEF joins
  <2>7. Joins(c, m)' = Joins(c, m) /\ Joiner(c, i)' = Joiner(c, i) /\ Joiner(c, j)' = Joiner(c, j)
    BY <1>1 DEF Joins, Joiner
  <2>8. \E k, l \in 1..m : k < l /\ Joins(c, m)' = {k, l} /\ pair'[c] = <<Joiner(c, k)', Joiner(c, l)'>>
    BY <2>2, <2>3, <2>4, <2>5, <2>6, <2>7
  <2>9. PairTaken(c)'
    BY <2>4, <2>5, <2>8 DEF PairTaken
  <2> QED
    BY <1>1, <1>4, <1>7, <2>9
<1>8. CASE pair[c] = << >> /\ Cardinality(joins) # 2
  <2>1. pair'[c] = << >>
    BY <1>2, <1>5, <1>8
  <2> QED
    BY <1>1, <1>4, <1>8, <2>1 DEF PairTaken
<1> QED
  BY <1>6, <1>7, <1>8

\* What was received first is received first when more comes.
LEMMA PairsStay ==
  ASSUME Recorded, NEW c \in Clients, PairTaken(c), Shows(c)
  PROVE  PairTaken(c)'
<1>1. PICK more \in Seq(GameEvent) : downlink'[c] = downlink[c] \o more
  BY DEF Shows
<1>2. /\ downlink[c] \in Seq(GameEvent) /\ read[c] \in 0..Len(downlink[c])
      /\ read'[c] = read[c] /\ pair'[c] = pair[c]
  BY HeardFromLog, CopyAt DEF Shows
<1>3. InParts(downlink[c], more, downlink'[c])
  BY <1>1, <1>2, ConcatParts
<1>4. ASSUME NEW n \in 0..read[c]
      PROVE  /\ Joins(c, n)' = Joins(c, n) /\ \A k \in 1..n : Joiner(c, k)' = Joiner(c, k)
  <2>1. \A k \in 1..n : k \in 1..Len(downlink[c])
    BY <1>2
  <2>2. \A k \in 1..n : downlink'[c][k] = downlink[c][k]
    BY <1>3, <2>1 DEF InParts
  <2> QED
    BY <2>2 DEF Joins, Joiner
<1> QED
  BY <1>2, <1>4 DEF PairTaken

LEMMA PairsDue ==
  ASSUME Recorded, [Next]_vars, NEW c \in Clients, PairDue(c)
  PROVE  PairDue(c)'
<1>1. CASE Starts(c)
  <2>1. read'[c] = 0
    BY <1>1 DEF Starts, Idle
  <2>2. Joins(c, 0)' = {} /\ Cardinality({}) # 2
    BY FS_EmptySet DEF Joins
  <2> QED
    BY <2>1, <2>2 DEF PairDue
<1>2. CASE Runs(c)
  <2>1. PICK arrived \in Unread(c) : Frame(c, arrived)
    BY <1>2 DEF Runs
  <2>2. update_pair(c) /\ downlink' = downlink
    BY <2>1 DEF Frame, renet
  <2>3. DOMAIN pair = Clients
    BY DEF Recorded, Folded, Connections
  <2>4. Joins(c, read'[c]) = Joins(c, read[c])'
    BY <2>2 DEF Joins
  <2> QED
    BY <2>2, <2>3, <2>4 DEF update_pair, PairDue
<1>3. CASE Shows(c)
  <2>1. PICK more \in Seq(GameEvent) : downlink'[c] = downlink[c] \o more
    BY <1>3 DEF Shows
  <2>2. /\ downlink[c] \in Seq(GameEvent) /\ read[c] \in 0..Len(downlink[c])
        /\ read'[c] = read[c] /\ pair'[c] = pair[c]
    BY <1>3, HeardFromLog, CopyAt DEF Shows
  <2>3. InParts(downlink[c], more, downlink'[c])
    BY <2>1, <2>2, ConcatParts
  <2>4. \A k \in 1..read[c] : k \in 1..Len(downlink[c])
    BY <2>2
  <2>5. \A k \in 1..read[c] : downlink'[c][k] = downlink[c][k]
    BY <2>3, <2>4 DEF InParts
  <2>6. Joins(c, read[c])' = Joins(c, read[c])
    BY <2>2, <2>5 DEF Joins
  <2> QED
    BY <2>2, <2>6 DEF PairDue
<1> QED
  BY <1>1, <1>2, <1>3, ClientSteps

LEMMA StepPairs ==
  ASSUME Recorded, [Next]_vars, NEW c \in Clients, PairTaken(c)
  PROVE  PairTaken(c)'
<1>1. CASE Starts(c)
  BY <1>1 DEF Starts, Idle, PairTaken
<1>2. CASE Runs(c)
  BY <1>2, FramePairs DEF Runs
<1>3. CASE Shows(c)
  BY <1>3, PairsStay
<1> QED
  BY <1>1, <1>2, <1>3, ClientSteps

\* It is the one the slots say.
LEMMA PairIsSlots ==
  ASSUME Recorded, NEW c \in connected, PairTaken(c), downlink[c] = log, pair[c] # << >>
  PROVE  pair[c] = <<state.players[0], state.players[1]>>
<1>1. c \in Clients /\ log \in Seq(GameEvent) /\ Orderly(log) /\ state = hydrate(log)
  BY DEF Recorded, Folded, SInv, SessionTypes, Connections, LogReplayed
<1>2. PICK n \in 0..read[c] : \E i, j \in 1..n :
        i < j /\ Joins(c, n) = {i, j} /\ pair[c] = <<Joiner(c, i), Joiner(c, j)>>
  BY <1>1 DEF PairTaken
<1>3. PICK i \in 1..n, j \in 1..n :
        i < j /\ Joins(c, n) = {i, j} /\ pair[c] = <<Joiner(c, i), Joiner(c, j)>>
  BY <1>2
<1>4. read[c] \in 0..Len(log) /\ Len(log) \in 0..Len(log)
  BY <1>1, CopyAt
<1>5. i \in Of(log, "PlayerJoined", Len(log)) /\ j \in Of(log, "PlayerJoined", Len(log))
  <2>1. i \in Joins(c, n) /\ j \in Joins(c, n)
    BY <1>3
  <2>2. i \in 1..Len(log) /\ j \in 1..Len(log)
    BY <1>4
  <2> QED
    BY <2>1, <2>2 DEF Joins, Of
<1>6. Seated(log, Len(log)) /\ At(log, Len(log)) = state
  BY <1>1, <1>4, LogSeats, AtEnd
<1>7. PICK a \in 1..Len(log), b \in 1..Len(log) :
        /\ a < b /\ Of(log, "PlayerJoined", Len(log)) = {a, b}
        /\ log[a].player_id = state.players[0] /\ log[b].player_id = state.players[1]
  BY <1>3, <1>5, <1>6 DEF Seated
<1>8. i = a /\ j = b
  BY <1>3, <1>5, <1>7
<1> QED
  BY <1>3, <1>7, <1>8 DEF Joiner

\* Two joins of the log, read of once each, are two joins read of.
LEMMA BothRead ==
  ASSUME Recorded, NEW c \in connected, downlink[c] = log, read[c] = Len(log),
         state.players[1] # NoPlayer
  PROVE  Cardinality(Joins(c, read[c])) = 2
<1>1. c \in Clients /\ log \in Seq(GameEvent) /\ Orderly(log) /\ state = hydrate(log)
  BY DEF Recorded, Folded, SInv, SessionTypes, Connections, LogReplayed
<1>2. Len(log) \in 0..Len(log)
  BY <1>1
<1>3. Seated(log, Len(log)) /\ At(log, Len(log)) = state
  BY <1>1, <1>2, LogSeats, AtEnd
<1>4. PICK a \in 1..Len(log), b \in 1..Len(log) :
        a < b /\ Of(log, "PlayerJoined", Len(log)) = {a, b}
  BY <1>3 DEF Seated
<1>5. Joins(c, read[c]) = {a, b}
  BY <1>4 DEF Joins, Of
<1>6. a # b /\ Cardinality({a, b}) = 2
  <2>1. a # b
    BY <1>4
  <2>2. IsFiniteSet({a}) /\ Cardinality({a}) = 1
    BY FS_Singleton
  <2>3. {a, b} = {a} \cup {b} /\ b \notin {a}
    BY <2>1
  <2>4. Cardinality({a} \cup {b}) = 1 + 1
    BY <2>2, <2>3, FS_AddElement
  <2>5. Cardinality({a, b}) = Cardinality({a} \cup {b})
    BY <2>3, Zenon
  <2> QED
    BY <2>1, <2>4, <2>5
<1> QED
  BY <1>5, <1>6

(* A client whose stream came without duplicates pairs the players as the  *)
(* server seated them, in the same order, and does so when it has read of  *)
(* both (client/src/main.rs:232-254, decider.rs:126-132).                  *)
THEOREM PairsAreSlots == Spec => []PairFollowsSlots
<1> DEFINE Inv == Recorded /\ \A c \in Clients : PairTaken(c) /\ PairDue(c)
<1>1. Init => Inv
  <2>1. \A c : Joins(c, 0) = {}
    BY DEF Joins
  <2>2. Cardinality({}) # 2
    BY FS_EmptySet
  <2> QED
    BY <2>1, <2>2, InitRecorded DEF Init, ClientInit, PairTaken, PairDue
<1>2. Inv /\ [Next]_vars => Inv'
  BY StepRecorded, StepPairs, PairsDue
<1>3. Inv => PairFollowsSlots
  <2> SUFFICES ASSUME Inv, NEW c \in connected, downlink[c] = log
               PROVE  /\ pair[c] # << >> => pair[c] = <<state.players[0], state.players[1]>>
                      /\ UpToDate(c) /\ state.players[1] # NoPlayer => pair[c] # << >>
    BY DEF PairFollowsSlots
  <2>1. c \in Clients
    BY DEF Recorded, Folded, SInv, SessionTypes, Connections
  <2>2. UpToDate(c) => read[c] = Len(log)
    BY DEF UpToDate
  <2> QED
    BY <2>1, <2>2, PairIsSlots, BothRead DEF PairDue
<1> QED
  BY <1>1, <1>2, <1>3, PTL DEF Spec

-----------------------------------------------------------------------------
(* What a step is to the commands on their way.                            *)

Sent(c, cmd) == \E k \in 1..Len(uplink[c]) : uplink[c][k] = cmd
Arrived(cmd) == \E k \in 1..Len(messages) : messages[k] = cmd

\* Everything ends, and begins anew.
Resets ==
  /\ connected' = {} /\ log' = << >> /\ state' = DefaultState /\ topic' = {}
  /\ messages' = << >> /\ serverEvents' = << >>
  /\ \A c \in Clients : uplink'[c] = << >> /\ downlink'[c] = << >>

\* A client comes, and greets; a client goes, with all it has under way.
Enters(d) ==
  /\ d \notin connected \cup gone /\ Cardinality(connected) < MaxClients
  /\ connected' = connected \cup {d} /\ gone' = gone
  /\ serverEvents' = Append(serverEvents, ClientConnected(d))
  /\ UNCHANGED <<downlink, log, state, topic, messages>>
  /\ \A c \in Clients, cmd \in Commands :
       Sent(c, cmd)' => Sent(c, cmd) \/ (c = d /\ cmd = JoinGame(d))

Leaves(d) ==
  /\ d \in connected /\ connected' = connected \ {d} /\ gone' = gone \cup {d}
  /\ serverEvents' = Append(serverEvents, ClientDisconnected(d))
  /\ UNCHANGED <<log, state, topic, messages>>
  /\ downlink' = [downlink EXCEPT ![d] = << >>]
  /\ \A c \in Clients, cmd \in Commands : Sent(c, cmd)' => c # d /\ Sent(c, cmd)

\* The loop takes a notice: it greets a client, or takes note of a departure.
Notes(d, notice, cmd, streams) ==
  /\ serverEvents # << >> /\ Head(serverEvents) = notice /\ serverEvents' = Tail(serverEvents)
  /\ UNCHANGED <<connected, gone, messages, uplink>>
  /\ topic' = topic \cup {cmd} /\ handle(cmd, streams)

Greets(d) == Notes(d, ClientConnected(d), JoinGame(d), catch_up(d))
Misses(d) == Notes(d, ClientDisconnected(d), LeaveGame(d), downlink)

\* The loop takes a command, that has arrived or comes from the topic.
Takes(cmd) ==
  /\ serverEvents = << >> /\ UNCHANGED <<connected, gone, serverEvents, uplink>>
  /\ handle(cmd, downlink)
  /\ \/ cmd \in topic /\ topic' = topic /\ messages' = messages
     \/ /\ messages # << >> /\ cmd = Head(messages) /\ messages' = Tail(messages)
        /\ topic' = topic \cup {cmd}
  /\ \A other \in Commands : Arrived(other)' => Arrived(other)
  /\ cmd \in topic \/ Arrived(cmd)

\* Nothing is handled: commands move on, and a client may add a move of its own.
Moves ==
  /\ UNCHANGED <<connected, gone, serverEvents, downlink, log, state, topic>>
  /\ \A cmd \in Commands : Arrived(cmd)' =>
       Arrived(cmd) \/ (serverEvents = << >> /\ \E c \in connected : Sent(c, cmd))
  /\ \A c \in Clients, cmd \in Commands : Sent(c, cmd)' =>
       \/ Sent(c, cmd)
       \/ /\ c \in connected /\ view[c].stage = "InGame"
          /\ \E at \in Positions : cmd = PlaceTile(c, at)

LEMMA PollMoves ==
  ASSUME OnlyCommands, NEW c \in connected, NEW arrived \in 0..Len(uplink[c]), Poll(c, arrived)
  PROVE  Moves
<1>1. PICK queue : queue = uplink[c]
  OBVIOUS
<1>2. /\ c \in Clients /\ queue \in Seq(Commands) /\ uplink \in [Clients -> Seq(Commands)]
      /\ messages \in Seq(Commands) /\ Len(queue) \in Nat
  BY <1>1 DEF OnlyCommands
<1>3. /\ messages' = messages \o SubSeq(queue, 1, arrived)
      /\ uplink' = [uplink EXCEPT ![c] = SubSeq(queue, arrived + 1, Len(queue))]
      /\ UNCHANGED <<connected, gone, serverEvents, downlink, log, state, topic>>
      /\ serverEvents = << >>
  BY <1>1 DEF Poll
<1>4. /\ arrived \in 0..Len(queue) /\ \A k \in 1..Len(queue) : queue[k] \in Commands
  BY <1>1, <1>2
<1>5. PICK taken : taken = SubSeq(queue, 1, arrived)
  OBVIOUS
<1>6. /\ taken \in Seq(Commands) /\ Len(taken) = arrived
      /\ \A k \in 1..arrived : taken[k] = queue[k] /\ k \in 1..Len(queue)
  BY <1>2, <1>4, <1>5, SubSeqProperties
<1>7. PICK rest : rest = SubSeq(queue, arrived + 1, Len(queue))
  OBVIOUS
<1>8. /\ rest \in Seq(Commands) /\ Len(rest) = Len(queue) - arrived
      /\ \A k \in 1..Len(rest) : rest[k] = queue[arrived + k] /\ arrived + k \in 1..Len(queue)
  BY <1>2, <1>4, <1>7, SubSeqProperties
<1>9. ASSUME NEW cmd, Arrived(cmd)' PROVE Arrived(cmd) \/ Sent(c, cmd)
  <2>1. InParts(messages, taken, messages')
    BY <1>2, <1>3, <1>5, <1>6, ConcatParts
  <2>2. PICK k \in 1..Len(messages') : messages'[k] = cmd
    BY <1>9 DEF Arrived
  <2>3. CASE k \in 1..Len(messages)
    BY <2>1, <2>2, <2>3 DEF Arrived, InParts
  <2>4. CASE k \notin 1..Len(messages)
    <3>1. PICK m \in 1..Len(taken) : Len(messages) + m = k
      BY <2>1, <2>4 DEF InParts
    <3>2. taken[m] = cmd
      BY <2>1, <2>2, <3>1 DEF InParts
    <3>3. m \in 1..Len(queue) /\ queue[m] = cmd
      BY <1>6, <3>1, <3>2
    <3> QED
      BY <1>1, <3>3 DEF Sent
  <2> QED
    BY <2>3, <2>4
<1>10. ASSUME NEW d \in Clients, NEW cmd, Sent(d, cmd)' PROVE Sent(d, cmd)
  <2>1. CASE d # c
    BY <1>2, <1>3, <1>10, <2>1 DEF Sent
  <2>2. CASE d = c
    <3>1. uplink'[c] = rest
      BY <1>2, <1>3, <1>7
    <3>2. PICK k \in 1..Len(rest) : rest[k] = cmd
      BY <1>10, <2>2, <3>1 DEF Sent
    <3>3. arrived + k \in 1..Len(queue) /\ queue[arrived + k] = cmd
      BY <1>8, <3>2
    <3> QED
      BY <1>1, <2>2, <3>3 DEF Sent
  <2> QED
    BY <2>1, <2>2
<1> QED
  BY <1>3, <1>9, <1>10 DEF Moves

LEMMA ClickMoves ==
  ASSUME OnlyCommands, NEW d \in Clients, NEW cursor \in Cursors[d], Click(d, cursor), UNCHANGED server
  PROVE  Moves
<1> DEFINE at == CellAt(cursor)
<1>1. /\ at # Nowhere /\ MayClick(d, at) /\ d \in connected
      /\ uplink' = [uplink EXCEPT ![d] = Append(@, PlaceTile(d, at))]
      /\ UNCHANGED <<connected, gone, serverEvents, downlink>>
      /\ UNCHANGED <<log, state, topic, messages>>
  BY DEF Click, server
<1>2. at \in Positions /\ PlaceTile(d, at) \in Commands
  BY <1>1, CellOnBoard, OwnCommands DEF Positions
<1>3. view[d].stage = "InGame"
  BY <1>1 DEF MayClick
<1> HIDE DEF at
<1>4. ASSUME NEW c \in Clients, NEW cmd, Sent(c, cmd)'
      PROVE  Sent(c, cmd) \/ (c = d /\ cmd = PlaceTile(d, at))
  <2>1. uplink \in [Clients -> Seq(Commands)]
    BY DEF OnlyCommands
  <2>2. CASE c # d
    BY <1>1, <1>4, <2>1, <2>2 DEF Sent
  <2>3. CASE c = d
    <3>1. /\ uplink'[d] = Append(uplink[d], PlaceTile(d, at)) /\ Len(uplink[d]) \in Nat
          /\ Len(uplink'[d]) = Len(uplink[d]) + 1
          /\ \A k \in 1..Len(uplink[d]) : uplink'[d][k] = uplink[d][k]
          /\ uplink'[d][Len(uplink[d]) + 1] = PlaceTile(d, at)
      BY <1>1, <1>2, <2>1, AppendProperties
    <3>2. PICK k \in 1..Len(uplink'[d]) : uplink'[d][k] = cmd
      BY <1>4, <2>3 DEF Sent
    <3>3. k \in 1..Len(uplink[d]) \/ k = Len(uplink[d]) + 1
      BY <3>1, <3>2
    <3> QED
      BY <2>3, <3>1, <3>2, <3>3 DEF Sent
  <2> QED
    BY <2>2, <2>3
<1>5. ASSUME NEW cmd, Arrived(cmd)' PROVE Arrived(cmd)
  BY <1>1, <1>5 DEF Arrived
<1> QED
  BY <1>1, <1>2, <1>3, <1>4, <1>5 DEF Moves

LEMMA StepKinds ==
  ASSUME Recorded, [Next]_vars
  PROVE  \/ Resets \/ Moves
         \/ \E d \in Clients : Enters(d) \/ Leaves(d) \/ Greets(d) \/ Misses(d)
         \/ \E cmd \in Commands : Takes(cmd)
<1>1. OnlyCommands /\ SessionTypes
  BY DEF Recorded, Folded, SInv
<1>2. ASSUME UNCHANGED <<renet, topic, messages, log, state>> PROVE Moves
  BY <1>2 DEF Moves, renet, Sent, Arrived
<1>3. ASSUME NEW d \in Clients, Enter(d) PROVE Enters(d)
  <2>1. /\ Connect(d, Greeting(d)) /\ UNCHANGED <<topic, messages, log, state>>
    BY <1>3 DEF Enter, server
  <2>2. uplink' = [uplink EXCEPT ![d] = <<JoinGame(d)>>] /\ DOMAIN uplink = Clients
    BY <1>1, <2>1 DEF Connect, Greeting, JoinGame, OnlyCommands
  <2>3. ASSUME NEW c \in Clients, NEW cmd, Sent(c, cmd)'
        PROVE  Sent(c, cmd) \/ (c = d /\ cmd = JoinGame(d))
    <3>1. CASE c # d
      BY <2>2, <2>3, <3>1 DEF Sent
    <3>2. CASE c = d
      BY <2>2, <2>3, <3>2 DEF Sent
    <3> QED
      BY <3>1, <3>2
  <2> QED
    BY <2>1, <2>3 DEF Enters, Connect
<1>4. ASSUME NEW d \in Clients, Leave(d) PROVE Leaves(d)
  <2>1. Disconnect(d) /\ UNCHANGED <<topic, messages, log, state>>
    BY <1>4 DEF Leave, server
  <2>2. uplink' = [uplink EXCEPT ![d] = << >>] /\ DOMAIN uplink = Clients
    BY <1>1, <2>1 DEF Disconnect, OnlyCommands
  <2>3. ASSUME NEW c \in Clients, NEW cmd, Sent(c, cmd)' PROVE c # d /\ Sent(c, cmd)
    <3>1. CASE c # d
      BY <2>2, <2>3, <3>1 DEF Sent
    <3>2. CASE c = d
      BY <2>2, <2>3, <3>2 DEF Sent
    <3> QED
      BY <3>1, <3>2
  <2> QED
    BY <2>1, <2>3 DEF Leaves, Disconnect
<1>5. ASSUME NEW d \in Clients, Play(d) PROVE Moves
  <2>1. ASSUME NEW arrived \in Unread(d), Frame(d, arrived) PROVE Moves
    BY <1>2, <1>5, <2>1 DEF Play, server, Frame
  <2>2. ASSUME NEW cursor \in Cursors[d], Click(d, cursor) PROVE Moves
    BY <1>1, <1>5, <2>2, ClickMoves DEF Play
  <2> QED
    BY <1>5, <2>1, <2>2 DEF Play, ClientNext
<1>6. CASE HandleConnected
  <2> DEFINE d == Head(serverEvents).client_id
  <2>1. d \in Clients /\ Head(serverEvents) = ClientConnected(d)
    BY <1>1, <1>6, HeadNotice, NoticeTaken, NoticeKinds DEF HandleConnected, ClientDisconnected
  <2>2. Greets(d)
    BY <1>6, <2>1 DEF HandleConnected, Greets, Notes, PublishAndHandle
  <2> QED
    BY <2>1, <2>2
<1>7. CASE HandleDisconnected
  <2> DEFINE d == Head(serverEvents).client_id
  <2>1. d \in Clients /\ Head(serverEvents) = ClientDisconnected(d)
    BY <1>1, <1>7, HeadNotice, NoticeTaken, NoticeKinds DEF HandleDisconnected, ClientConnected
  <2>2. Misses(d)
    BY <1>7, <2>1 DEF HandleDisconnected, Misses, Notes, PublishAndHandle
  <2> QED
    BY <2>1, <2>2
<1>8. CASE HandleMessage
  <2> DEFINE cmd == Head(messages)
  <2>1. /\ messages # << >> /\ messages' = Tail(messages) /\ serverEvents = << >>
        /\ topic' = topic \cup {cmd} /\ handle(cmd, downlink)
        /\ UNCHANGED <<connected, gone, serverEvents, uplink>>
    BY <1>8 DEF HandleMessage, Polled, PublishAndHandle
  <2>2. /\ messages \in Seq(Commands) /\ cmd \in Commands /\ cmd = messages[1]
        /\ Len(messages) \in Nat \ {0} /\ Len(messages') = Len(messages) - 1
        /\ \A k \in 1..Len(messages') : messages'[k] = messages[k + 1]
    BY <1>1, <2>1, HeadTailProperties DEF OnlyCommands
  <2>3. ASSUME NEW other, Arrived(other)' PROVE Arrived(other)
    <3>1. PICK k \in 1..Len(messages') : messages'[k] = other
      BY <2>3 DEF Arrived
    <3>2. k + 1 \in 1..Len(messages) /\ messages[k + 1] = other
      BY <2>2, <3>1
    <3> QED
      BY <3>2 DEF Arrived
  <2>4. Arrived(cmd)
    <3>1. 1 \in 1..Len(messages)
      BY <2>2
    <3> QED
      BY <2>2, <3>1 DEF Arrived
  <2>5. Takes(cmd)
    BY <2>1, <2>3, <2>4 DEF Takes
  <2> QED
    BY <2>2, <2>5
<1>9. ASSUME NEW cmd \in topic, HandleBrokerCommand(cmd) PROVE cmd \in Commands /\ Takes(cmd)
  <2>1. /\ serverEvents = << >> /\ handle(cmd, downlink)
        /\ UNCHANGED <<connected, gone, serverEvents, uplink, messages, topic>>
    BY <1>9 DEF HandleBrokerCommand, Polled
  <2> QED
    BY <1>1, <2>1 DEF Takes, Arrived, OnlyCommands
<1>10. CASE Serve
  BY <1>1, <1>2, <1>6, <1>7, <1>8, <1>9, <1>10, PollMoves
     DEF Serve, ServerNext, BeginTick, EndTick, renet
<1>11. CASE Restart
  BY <1>1, <1>11, RestartForgets DEF Resets
<1>12. CASE UNCHANGED vars
  BY <1>2, <1>12 DEF vars, server
<1> QED
  BY <1>3, <1>4, <1>5, <1>10, <1>11, <1>12 DEF Next

-----------------------------------------------------------------------------
(* What a command can do, in full: six ways a decision can turn out.       *)

\* Nothing comes of it.
Rejected(events) == events = << >> /\ state' = state

\* The first player sits down, or the second one and the game begins.
SitsDown(p, events) ==
  /\ state.stage = "Lobby" /\ state.players[0] = NoPlayer
  /\ events = <<PlayerJoined(p)>>
  /\ state'.stage = "Lobby" /\ state'.board = state.board
  /\ state'.players = [state.players EXCEPT ![0] = p]
  /\ state'.active_player_id = state.active_player_id

SetsOff(p, events) ==
  /\ state.stage = "Lobby" /\ state.players[0] # NoPlayer
  /\ events = <<PlayerJoined(p), GameStarted(state.players[0])>>
  /\ state'.stage = "InGame" /\ state'.board = state.board
  /\ state'.players = [state.players EXCEPT ![1] = p]
  /\ state'.active_player_id = state.players[0]

\* A move, which may end the game.
Plays(p, at, events) ==
  /\ state.stage = "InGame" /\ state.active_player_id = p
  /\ at \in Positions /\ state.board[at] = Empty
  /\ \/ events = <<TilePlaced(p, at)>> /\ state'.stage = "InGame"
     \/ /\ state'.stage = "Ended"
        /\ \E e \in GameEvent : e.type = "GameEnded" /\ events = <<TilePlaced(p, at), e>>
  /\ state'.players = state.players
  /\ state'.board = [state.board EXCEPT ![at] = IF state.players[0] = p THEN "X" ELSE "O"]
  /\ state'.active_player_id = IF state.players[0] = p THEN state.players[1] ELSE state.players[0]

\* A departure, which ends a running game.
Departs(p, events) ==
  \/ state.stage # "InGame" /\ events = <<PlayerLeft(p)>> /\ state' = state
  \/ /\ state.stage = "InGame" /\ events = <<PlayerLeft(p), GameEnded("PlayerLeft", p)>>
     /\ state'.stage = "Ended" /\ state'.board = state.board /\ state'.players = state.players
     /\ state'.active_player_id = state.active_player_id

Outcome(cmd, events) ==
  \/ Rejected(events)
  \/ cmd.type = "JoinGame" /\ (SitsDown(cmd.player_id, events) \/ SetsOff(cmd.player_id, events))
  \/ cmd.type = "PlaceTile" /\ Plays(cmd.player_id, cmd.at, events)
  \/ cmd.type = "LeaveGame" /\ Departs(cmd.player_id, events)

LEMMA JoinOutcome ==
  ASSUME state \in GameState, Calm(state), NEW p \in PlayerId, p # NoPlayer,
         NEW cmd, cmd.type = "JoinGame", cmd.player_id = p,
         state' = Write!ApplyBatch(state, decide(state, cmd).events)
  PROVE  Outcome(cmd, decide(state, cmd).events)
<1> DEFINE join == PlayerJoined(p)
           next == evolve(state, join)
           events == decide(state, cmd).events
<1>1. decide(state, cmd) = DecideJoin(state, p)
  BY DEF decide
<1>2. CASE state.stage # "Lobby" \/ p \in {state.players[0], state.players[1]}
  <2>1. events = << >>
    BY <1>1, <1>2 DEF DecideJoin, Err
  <2> QED
    BY <2>1, Applied DEF Outcome, Rejected
<1>3. CASE ~ (state.stage # "Lobby" \/ p \in {state.players[0], state.players[1]})
  <2>1. join \in GameEvent /\ join.type = "PlayerJoined" /\ join.player_id = p
    BY DEF PlayerJoined, GameEvent
  <2>2. next \in GameState /\ Fields(state, join, next)
    BY <2>1, EventFields
  <2>3. /\ events = IF next.players[1] # NoPlayer THEN <<join, GameStarted(next.players[0])>> ELSE <<join>>
    BY <1>1, <1>3 DEF DecideJoin, JoinAndStart, Ok
  <2>4. state.players[1] = NoPlayer /\ state.players \in [0..1 -> PlayerId]
    BY <1>3 DEF Calm, GameState
  <2> HIDE DEF next, join, events
  <2>5. /\ next.players = [state.players EXCEPT ![IF state.players[0] = NoPlayer THEN 0 ELSE 1] = p]
        /\ next.stage = "Lobby" /\ next.board = state.board
        /\ next.active_player_id = state.active_player_id
    BY <1>3, <2>1, <2>2 DEF Fields
  <2>6. CASE state.players[0] = NoPlayer
    <3>1. next.players[1] = NoPlayer /\ next.players = [state.players EXCEPT ![0] = p]
      BY <2>4, <2>5, <2>6
    <3>2. events = <<join>>
      BY <2>3, <3>1
    <3>3. state' = next
      BY <3>2, Applied DEF events, next
    <3> QED
      BY <1>3, <2>5, <2>6, <3>1, <3>2, <3>3 DEF Outcome, SitsDown, join, events
  <2>7. CASE state.players[0] # NoPlayer
    <3> DEFINE x == state.players[0]
               start == GameStarted(x)
    <3>1. next.players[1] = p /\ next.players[0] = x /\ next.players = [state.players EXCEPT ![1] = p]
      BY <2>4, <2>5, <2>7
    <3>2. events = <<join, start>>
      BY <2>3, <3>1
    <3>3. start \in GameEvent /\ start.type = "GameStarted" /\ start.goes_first = x
      BY <2>4 DEF GameStarted, GameEvent
    <3> HIDE DEF start
    <3>4. state' = evolve(next, start)
      BY <3>2, Applied DEF events, next
    <3>5. Fields(next, start, state')
      BY <2>2, <3>3, <3>4, EventFields
    <3>6. /\ state'.players = next.players /\ state'.stage = "InGame" /\ state'.board = next.board
          /\ state'.active_player_id = x
      BY <3>3, <3>5 DEF Fields
    <3> QED
      BY <1>3, <2>5, <2>7, <3>1, <3>2, <3>6 DEF Outcome, SetsOff, start, join, events
  <2> QED
    BY <2>6, <2>7
<1> QED
  BY <1>2, <1>3

LEMMA PlaceOutcome ==
  ASSUME state \in GameState, NEW p \in PlayerId, NEW i \in TileIndices,
         NEW cmd, cmd.type = "PlaceTile", cmd.player_id = p, cmd.at = i,
         state' = Write!ApplyBatch(state, decide(state, cmd).events)
  PROVE  Outcome(cmd, decide(state, cmd).events)
<1> DEFINE place == TilePlaced(p, i)
           next == evolve(state, place)
           events == decide(state, cmd).events
<1>1. decide(state, cmd) = DecidePlace(state, p, i)
  BY DEF decide
<1> DEFINE bad == state.stage # "InGame" \/ state.active_player_id # p \/ i > 8 \/ state.board[i] # Empty
<1>2. CASE bad
  <2>1. events = << >>
    BY <1>1, <1>2 DEF DecidePlace, Err
  <2> QED
    BY <2>1, Applied DEF Outcome, Rejected
<1>3. CASE ~ bad
  <2>1. i \in Positions
    BY <1>3, IndicesAreNaturals DEF Positions
  <2>2. place \in GameEvent /\ place.type = "TilePlaced" /\ place.player_id = p /\ place.at = i
    BY DEF TilePlaced, GameEvent
  <2>3. next \in GameState /\ Fields(state, place, next)
    BY <2>2, EventFields
  <2>4. events = PlaceAndJudge(place, next.board)
    BY <1>1, <1>3 DEF DecidePlace, Ok
  <2>5. \/ events = <<place>>
        \/ events = <<place, GameEnded("PlayerWon", p)>>
        \/ events = <<place, GameEnded("Draw", NoPlayer)>>
    BY <2>2, <2>4 DEF PlaceAndJudge
  <2> HIDE DEF next, place, events
  <2>6. /\ next.players = state.players /\ next.stage = "InGame"
        /\ next.board = [state.board EXCEPT ![i] = IF state.players[0] = p THEN "X" ELSE "O"]
        /\ next.active_player_id = IF state.players[0] = p THEN state.players[1] ELSE state.players[0]
    BY <1>3, <2>1, <2>2, <2>3 DEF Fields
  <2>7. CASE events = <<place>>
    <3>1. state' = next
      BY <2>7, Applied DEF events, next
    <3> QED
      BY <1>3, <2>1, <2>6, <2>7, <3>1 DEF Outcome, Plays, place, events
  <2>8. ASSUME NEW e \in GameEvent, e.type = "GameEnded", events = <<place, e>>
        PROVE  Outcome(cmd, decide(state, cmd).events)
    <3>1. state' = evolve(next, e)
      BY <2>8, Applied DEF events, next
    <3>2. Fields(next, e, state')
      BY <2>3, <2>8, <3>1, EventFields
    <3>3. /\ state'.players = next.players /\ state'.stage = "Ended" /\ state'.board = next.board
          /\ state'.active_player_id = next.active_player_id
      BY <2>8, <3>2 DEF Fields
    <3>4. \E end \in GameEvent : end.type = "GameEnded" /\ events = <<TilePlaced(p, i), end>>
      BY <2>8 DEF place
    <3> QED
      BY <1>3, <2>1, <2>6, <3>3, <3>4 DEF Outcome, Plays, events
  <2>9. /\ GameEnded("PlayerWon", p) \in GameEvent /\ GameEnded("PlayerWon", p).type = "GameEnded"
        /\ GameEnded("Draw", NoPlayer) \in GameEvent /\ GameEnded("Draw", NoPlayer).type = "GameEnded"
    BY DEF GameEnded, GameEvent, PlayerId
  <2> QED
    BY <2>5, <2>7, <2>8, <2>9
<1> QED
  BY <1>2, <1>3

LEMMA LeaveOutcome ==
  ASSUME state \in GameState, NEW p \in PlayerId,
         NEW cmd, cmd.type = "LeaveGame", cmd.player_id = p,
         state' = Write!ApplyBatch(state, decide(state, cmd).events)
  PROVE  Outcome(cmd, decide(state, cmd).events)
<1> DEFINE left == PlayerLeft(p)
           end == GameEnded("PlayerLeft", p)
           events == decide(state, cmd).events
<1>1. decide(state, cmd) = DecideLeave(state, p)
  BY DEF decide
<1>2. end \in GameEvent /\ end.type = "GameEnded" /\ evolve(state, left) = state
  BY DEF PlayerLeft, GameEnded, GameEvent, evolve
<1>3. CASE state.stage = "InGame"
  <2>1. events = <<left, end>>
    BY <1>1, <1>3 DEF DecideLeave, Ok
  <2> HIDE DEF left, end, events
  <2>2. state' = evolve(state, end)
    BY <1>2, <2>1, Applied DEF events
  <2>3. Fields(state, end, state')
    BY <1>2, <2>2, EventFields
  <2> QED
    BY <1>2, <1>3, <2>1, <2>3 DEF Fields, Outcome, Departs, left, end, events
<1>4. CASE state.stage # "InGame"
  <2>1. events = <<left>>
    BY <1>1, <1>4 DEF DecideLeave, Ok
  <2>2. state' = state
    BY <1>2, <2>1, Applied
  <2> QED
    BY <1>4, <2>1, <2>2 DEF Outcome, Departs
<1> QED
  BY <1>3, <1>4

\* Every command a client can cause turns out so (decider.rs:35-116).
LEMMA HandleOutcome ==
  ASSUME Recorded, NEW cmd \in Commands, NEW streams, handle(cmd, streams)
  PROVE  \E events \in Seq(GameEvent) :
           /\ log' = log \o events /\ downlink' = broadcast(streams, events)
           /\ Outcome(cmd, events)
<1> DEFINE events == decide(state, cmd).events
<1>1. /\ log' = log \o events /\ downlink' = broadcast(streams, events)
      /\ state' = Write!ApplyBatch(state, events)
  BY DEF handle
<1>2. /\ state \in GameState /\ cmd \in GameCommand /\ cmd.player_id \in PlayerId
      /\ cmd.player_id # NoPlayer /\ SessionTypes
  BY ClientsArePlayers, SentinelIsNoPlayer DEF Recorded, Folded, SInv, SessionTypes, Commands, PlayerId
<1>3. Calm(state)
  BY DEF Recorded, Folded, LogReplayed, Settled
<1>4. Outcome(cmd, events)
  <2>1. cmd.type \in {"JoinGame", "PlaceTile", "LeaveGame"} /\ (cmd.type = "PlaceTile" => cmd.at \in TileIndices)
    BY <1>2 DEF GameCommand
  <2> QED
    BY <1>1, <1>2, <1>3, <2>1, JoinOutcome, PlaceOutcome, LeaveOutcome
<1>5. events \in Seq(GameEvent)
  BY <1>2, DecidesEvents DEF Commands
<1> QED
  BY <1>1, <1>4, <1>5

-----------------------------------------------------------------------------
(* Where commands come from, and when.                                     *)

\* A player whose connection the loop has taken note of.
Known(p) == p \in connected \cup gone /\ ~ Announced(p)

\* Nobody sends for somebody else, or without a connection; what is on its way
\* to be handled, and who is seated, comes from players the loop knows of.
SendersKnown ==
  /\ \A c \in Clients, cmd \in Commands : Sent(c, cmd) => c \in connected /\ cmd.player_id = c
  /\ \A cmd \in Commands : Arrived(cmd) => Known(cmd.player_id)
  /\ \A cmd \in topic : cmd.type = "JoinGame" => Known(cmd.player_id)
  /\ \A k \in 0..1 : state.players[k] # NoPlayer => Known(state.players[k])

\* Nobody moves before the game has begun.
LobbyIsQuiet ==
  state.stage = "Lobby" =>
    /\ \A cmd \in topic : cmd.type # "PlaceTile"
    /\ \A cmd \in Commands : Arrived(cmd) => cmd.type # "PlaceTile"
    /\ \A c \in Clients, cmd \in Commands : Sent(c, cmd) => cmd.type # "PlaceTile"

Arrivals == SendersKnown /\ LobbyIsQuiet

\* A player once known stays known.
LEMMA KnownStays ==
  ASSUME Recorded, NEW p, Known(p),
         \/ Moves
         \/ \E d \in Clients : Enters(d) \/ Leaves(d) \/ Greets(d) \/ Misses(d)
         \/ \E cmd \in Commands : Takes(cmd)
  PROVE  Known(p)'
<1>1. OnlyCommands
  BY DEF Recorded, Folded, SInv
<1>2. CASE Moves \/ \E cmd \in Commands : Takes(cmd)
  BY <1>2 DEF Moves, Takes, Known, Announced
<1>3. ASSUME NEW d \in Clients, Enters(d) PROVE Known(p)'
  <2>1. p # d /\ ClientConnected(d) \in Notice /\ ClientConnected(p) # ClientConnected(d)
    BY <1>3, NoticesDiffer DEF Enters, Known, ClientConnected, Notice
  <2>2. ~ Announced(p)'
    BY <1>1, <1>3, <2>1, NoticeAdded DEF Enters, Known, Announced
  <2> QED
    BY <1>3, <2>2 DEF Enters, Known
<1>4. ASSUME NEW d \in Clients, Leaves(d) PROVE Known(p)'
  <2>1. ClientDisconnected(d) \in Notice /\ ClientConnected(p) # ClientDisconnected(d)
    BY NoticesDiffer DEF ClientDisconnected, Notice
  <2>2. ~ Announced(p)'
    BY <1>1, <1>4, <2>1, NoticeAdded DEF Leaves, Known, Announced
  <2> QED
    BY <1>4, <2>2 DEF Leaves, Known
<1>5. ASSUME NEW d \in Clients, Greets(d) \/ Misses(d) PROVE Known(p)'
  <2>1. /\ serverEvents # << >> /\ serverEvents' = Tail(serverEvents)
        /\ UNCHANGED <<connected, gone>>
    BY <1>5 DEF Greets, Misses, Notes
  <2>2. Announced(p)' => Announced(p)
    BY <1>1, <2>1, PresenceTaken
  <2> QED
    BY <2>1, <2>2 DEF Known
<1> QED
  BY <1>2, <1>3, <1>4, <1>5

\* Who is greeted is known from then on.
LEMMA GreetedKnown ==
  ASSUME Recorded, NEW d \in Clients, Greets(d)
  PROVE  Known(d)' /\ Announced(d)
<1>1. OnlyCommands /\ AnnouncedOnce(d)
  BY DEF Recorded, Folded, SInv
<1>2. /\ serverEvents # << >> /\ Head(serverEvents) = ClientConnected(d)
      /\ serverEvents' = Tail(serverEvents) /\ UNCHANGED <<connected, gone>>
  BY DEF Greets, Notes
<1>3. Announced(d)
  BY <1>1, <1>2, NoticeTaken DEF Announced
<1>4. ~ Announced(d)'
  BY <1>1, <1>2, AnnouncementTaken
<1> QED
  BY <1>1, <1>2, <1>3, <1>4 DEF AnnouncedOnce, Known

\* Whom handle seats.
LEMMA OutcomeSeats ==
  ASSUME NEW cmd, NEW events, Outcome(cmd, events), state \in GameState, NEW k \in 0..1
  PROVE  \/ state'.players[k] = state.players[k]
         \/ cmd.type = "JoinGame" /\ state'.players[k] = cmd.player_id
<1>1. state.players \in [0..1 -> PlayerId]
  BY DEF GameState
<1> QED
  BY <1>1 DEF Outcome, Rejected, SitsDown, SetsOff, Plays, Departs

\* The lobby stays empty of moves, and is not come back to.
LEMMA OutcomeLobby ==
  ASSUME NEW cmd, NEW events, Outcome(cmd, events), state'.stage = "Lobby"
  PROVE  state.stage = "Lobby"
BY DEF Outcome, Rejected, SitsDown, SetsOff, Plays, Departs

\* A client that sees a running game is told of one that has begun.
LEMMA SeenStarted ==
  ASSUME Recorded, NEW c \in Clients, view[c].stage = "InGame"
  PROVE  state.stage # "Lobby"
<1>1. /\ downlink[c] \in Seq(GameEvent) /\ log \in Seq(GameEvent) /\ Orderly(log)
      /\ \A k \in 1..Len(downlink[c]) : \E m \in 1..Len(log) : downlink[c][k] = log[m]
      /\ \A k \in 1..Len(downlink[c]) : downlink[c][k] \in SoundEvent
  BY HeardFromLog DEF Recorded
<1>2. read[c] \in 0..Len(downlink[c]) /\ view[c] = At(downlink[c], read[c])
  BY CopyAt
<1>3. 0 \in 0..Len(downlink[c]) /\ read[c] \in 0..Len(downlink[c]) /\ Len(log) \in 0..Len(log)
  BY <1>1, <1>2
<1>4. Stays(downlink[c], 0, read[c]) /\ At(downlink[c], 0) = DefaultState
  BY <1>1, <1>2, <1>3, StretchStays, AtStart
<1>5. DefaultState.stage = "Lobby"
  BY DEF DefaultState
<1>6. PICK k \in 1..read[c] : downlink[c][k].type \in {"GameStarted", "GameEnded"}
  <2>1. view[c].stage # DefaultState.stage
    BY <1>5
  <2>2. ~ \A k \in (0 + 1)..read[c] : downlink[c][k].type \notin {"GameStarted", "GameEnded"}
    BY <1>2, <1>4, <2>1 DEF Stays
  <2> QED
    BY <2>2
<1>7. PICK m \in 1..Len(log) : log[m].type \in {"GameStarted", "GameEnded"}
  <2>1. k \in 1..Len(downlink[c])
    BY <1>3
  <2> QED
    BY <1>1, <1>6, <2>1
<1>8. At(log, Len(log)) = state
  BY <1>1, AtEnd DEF Recorded, Folded, LogReplayed
<1>9. Seated(log, Len(log)) /\ Finished(log, Len(log))
  BY <1>1, <1>3, LogSeats, LogFinishes
<1>10. CASE log[m].type = "GameStarted"
  <2>1. m \in Of(log, "GameStarted", Len(log))
    BY <1>7, <1>10 DEF Of
  <2> QED
    BY <1>8, <1>9, <2>1 DEF Seated
<1>11. CASE log[m].type = "GameEnded"
  <2>1. m \in Of(log, "GameEnded", Len(log))
    BY <1>7, <1>11 DEF Of
  <2> QED
    BY <1>8, <1>9, <2>1 DEF Finished
<1> QED
  BY <1>7, <1>10, <1>11

LEMMA InitArrivals == Init => Arrivals
<1> SUFFICES ASSUME Init PROVE Arrivals
  OBVIOUS
<1>1. /\ topic = {} /\ messages = << >> /\ \A c \in Clients : uplink[c] = << >>
      /\ \A k \in 0..1 : state.players[k] = NoPlayer
  BY DEF Init, RenetInit, ServerInit, DefaultState
<1> QED
  BY <1>1 DEF Arrivals, SendersKnown, LobbyIsQuiet, Sent, Arrived

LEMMA StepArrivals ==
  ASSUME Recorded, Arrivals, [Next]_vars
  PROVE  Arrivals'
<1> USE DEF Arrivals
<1>1. OnlyCommands /\ SessionTypes /\ state \in GameState /\ topic \subseteq Commands
  BY DEF Recorded, Folded, SInv, SessionTypes, OnlyCommands
<1>2. CASE Resets
  <2>1. /\ topic' = {} /\ messages' = << >> /\ \A c \in Clients : uplink'[c] = << >>
        /\ \A k \in 0..1 : state'.players[k] = NoPlayer
    BY <1>2 DEF Resets, DefaultState
  <2> QED
    BY <2>1 DEF SendersKnown, LobbyIsQuiet, Sent, Arrived
<1>3. CASE Moves
  <2>1. \A p : Known(p) => Known(p)'
    BY <1>3, KnownStays
  <2>2. ASSUME NEW cmd \in Commands, Arrived(cmd)' PROVE Known(cmd.player_id)
    <3>1. CASE Arrived(cmd)
      BY <3>1 DEF SendersKnown
    <3>2. ASSUME serverEvents = << >>, NEW c \in connected, Sent(c, cmd) PROVE Known(cmd.player_id)
      <4>1. c \in Clients /\ ~ Announced(c)
        BY <1>1, <3>2 DEF OnlyCommands, Announced
      <4> QED
        BY <3>2, <4>1 DEF SendersKnown, Known
    <3> QED
      BY <1>3, <2>2, <3>1, <3>2 DEF Moves
  <2>3. ASSUME NEW c \in Clients, NEW cmd \in Commands, Sent(c, cmd)'
        PROVE  c \in connected /\ cmd.player_id = c
    BY <1>3, <2>3 DEF Moves, SendersKnown, PlaceTile
  <2>4. SendersKnown'
    BY <1>3, <2>1, <2>2, <2>3 DEF Moves, SendersKnown
  <2>5. ASSUME state.stage = "Lobby", NEW c \in Clients, NEW cmd \in Commands, Sent(c, cmd)'
        PROVE  cmd.type # "PlaceTile"
    <3>1. view[c].stage # "InGame"
      BY <2>5, SeenStarted
    <3>2. Sent(c, cmd)
      BY <1>3, <2>5, <3>1 DEF Moves
    <3> QED
      BY <2>5, <3>2 DEF LobbyIsQuiet
  <2>6. ASSUME state.stage = "Lobby", NEW cmd \in Commands, Arrived(cmd)'
        PROVE  cmd.type # "PlaceTile"
    BY <1>1, <1>3, <2>6 DEF Moves, LobbyIsQuiet, OnlyCommands
  <2>7. LobbyIsQuiet'
    BY <1>3, <2>5, <2>6 DEF LobbyIsQuiet, Moves
  <2> QED
    BY <2>4, <2>7
<1>4. ASSUME NEW d \in Clients, Enters(d) PROVE Arrivals'
  <2>1. \A p : Known(p) => Known(p)'
    BY <1>4, KnownStays
  <2>2. /\ connected' = connected \cup {d} /\ UNCHANGED <<state, topic, messages>>
        /\ \A c \in Clients, cmd \in Commands :
             Sent(c, cmd)' => Sent(c, cmd) \/ (c = d /\ cmd = JoinGame(d))
    BY <1>4 DEF Enters
  <2>3. \A cmd \in Commands : Arrived(cmd)' = Arrived(cmd)
    BY <2>2 DEF Arrived
  <2>4. JoinGame(d).player_id = d /\ JoinGame(d).type = "JoinGame"
    BY DEF JoinGame
  <2> QED
    BY <2>1, <2>2, <2>3, <2>4 DEF SendersKnown, LobbyIsQuiet
<1>5. ASSUME NEW d \in Clients, Leaves(d) PROVE Arrivals'
  <2>1. \A p : Known(p) => Known(p)'
    BY <1>5, KnownStays
  <2>2. /\ connected' = connected \ {d} /\ UNCHANGED <<state, topic, messages>>
        /\ \A c \in Clients, cmd \in Commands : Sent(c, cmd)' => c # d /\ Sent(c, cmd)
    BY <1>5 DEF Leaves
  <2>3. \A cmd \in Commands : Arrived(cmd)' = Arrived(cmd)
    BY <2>2 DEF Arrived
  <2> QED
    BY <2>1, <2>2, <2>3 DEF SendersKnown, LobbyIsQuiet
<1>6. ASSUME NEW cmd \in Commands, NEW streams, handle(cmd, streams),
             UNCHANGED <<connected, gone, uplink>>, topic' \subseteq topic \cup {cmd},
             \A other \in Commands : Arrived(other)' => Arrived(other),
             \A p : Known(p) => Known(p)',
             cmd.type = "JoinGame" => Known(cmd.player_id)',
             cmd.type = "PlaceTile" /\ state.stage = "Lobby" => FALSE
      PROVE  Arrivals'
  <2>1. PICK events \in Seq(GameEvent) : Outcome(cmd, events)
    BY <1>6, HandleOutcome
  <2>2. ASSUME NEW k \in 0..1, NEW p, p = state'.players[k], p # NoPlayer PROVE Known(p)'
    <3>1. p = state.players[k] \/ (cmd.type = "JoinGame" /\ p = cmd.player_id)
      BY <1>1, <2>1, <2>2, OutcomeSeats
    <3>2. CASE p = state.players[k]
      <4>1. Known(p)
        BY <2>2, <3>2 DEF SendersKnown
      <4> QED
        BY <1>6, <4>1
    <3>3. CASE cmd.type = "JoinGame" /\ p = cmd.player_id
      BY <1>6, <3>3
    <3> QED
      BY <3>1, <3>2, <3>3
  <2>3. \A c \in Clients, other \in Commands : Sent(c, other)' = Sent(c, other)
    BY <1>6 DEF Sent
  <2>4. SendersKnown'
    <3>1. \A k \in 0..1 : (state.players[k] # NoPlayer => Known(state.players[k]))'
      BY <2>2 DEF Known, Announced
    <3> QED
      BY <1>6, <2>3, <3>1 DEF SendersKnown
  <2>5. state'.stage = "Lobby" => state.stage = "Lobby"
    BY <2>1, OutcomeLobby
  <2>6. LobbyIsQuiet'
    BY <1>6, <2>3, <2>5 DEF LobbyIsQuiet
  <2> QED
    BY <2>4, <2>6
<1>7. ASSUME NEW d \in Clients, Greets(d) PROVE Arrivals'
  <2>1. /\ topic' = topic \cup {JoinGame(d)} /\ handle(JoinGame(d), catch_up(d))
        /\ UNCHANGED <<connected, gone, messages, uplink>>
    BY <1>7 DEF Greets, Notes
  <2>2. JoinGame(d) \in Commands /\ JoinGame(d).player_id = d /\ JoinGame(d).type = "JoinGame"
    BY OwnCommands DEF JoinGame
  <2>3. Known(d)' /\ \A p : Known(p) => Known(p)'
    BY <1>7, KnownStays, GreetedKnown
  <2>4. \A other \in Commands : Arrived(other)' => Arrived(other)
    BY <2>1 DEF Arrived
  <2> QED
    BY <1>6, <2>1, <2>2, <2>3, <2>4
<1>8. ASSUME NEW d \in Clients, Misses(d) PROVE Arrivals'
  <2>1. /\ topic' = topic \cup {LeaveGame(d)} /\ handle(LeaveGame(d), downlink)
        /\ UNCHANGED <<connected, gone, messages, uplink>>
    BY <1>8 DEF Misses, Notes
  <2>2. LeaveGame(d) \in Commands /\ LeaveGame(d).type = "LeaveGame"
    BY OwnCommands DEF LeaveGame
  <2>3. \A p : Known(p) => Known(p)'
    BY <1>8, KnownStays
  <2>4. \A other \in Commands : Arrived(other)' => Arrived(other)
    BY <2>1 DEF Arrived
  <2> QED
    BY <1>6, <2>1, <2>2, <2>3, <2>4
<1>9. ASSUME NEW cmd \in Commands, Takes(cmd) PROVE Arrivals'
  <2>1. /\ UNCHANGED <<connected, gone, uplink>> /\ topic' \subseteq topic \cup {cmd}
        /\ handle(cmd, downlink) /\ (cmd \in topic \/ Arrived(cmd))
        /\ \A other \in Commands : Arrived(other)' => Arrived(other)
    BY <1>9 DEF Takes
  <2>2. \A p : Known(p) => Known(p)'
    BY <1>9, KnownStays
  <2>3. cmd.type = "JoinGame" => Known(cmd.player_id)
    BY <2>1 DEF SendersKnown
  <2>4. ~ (cmd.type = "PlaceTile" /\ state.stage = "Lobby")
    BY <2>1 DEF LobbyIsQuiet
  <2> QED
    BY <1>6, <2>1, <2>2, <2>3, <2>4
<1> QED
  BY <1>2, <1>3, <1>4, <1>5, <1>7, <1>8, <1>9, StepKinds

-----------------------------------------------------------------------------
(* Two slots on the server: who else can be there when a client comes.     *)

\* A client that has gone is missed later than it was announced.
MissedIn(notices, there) ==
  \A i \in 1..Len(notices) : \A d \in Clients :
    notices[i] = ClientConnected(d) /\ d \notin there =>
      \E k \in 1..Len(notices) : k > i /\ notices[k] = ClientDisconnected(d)

\* Whoever is there, and is neither of two announced, is announced after both,
\* or a departure is noticed between the two.
CrowdedIn(notices, there) ==
  \A i, j \in 1..Len(notices) : \A d, c, p \in Clients :
    /\ i < j /\ notices[i] = ClientConnected(d) /\ notices[j] = ClientConnected(c)
    /\ c \in there /\ p \in there /\ p # c /\ p # d
    => \/ \E l \in 1..Len(notices) : l > j /\ notices[l] = ClientConnected(p)
       \/ \E k \in 1..Len(notices) : i < k /\ k < j /\ notices[k].type = "ClientDisconnected"

Missed == MissedIn(serverEvents, connected)
Crowded == CrowdedIn(serverEvents, connected)

\* With room for one more, one is there at most.
LEMMA RoomForOne ==
  ASSUME Connections, MaxClients <= 2, Cardinality(connected) < MaxClients,
         NEW a \in connected, NEW b \in connected
  PROVE  a = b
<1> SUFFICES ASSUME a # b PROVE FALSE
  OBVIOUS
<1>1. IsFiniteSet(connected) /\ Cardinality(connected) \in Nat /\ MaxClients \in Nat
  BY CapacityIsNatural, FS_CardinalityType DEF Connections
<1>2. IsFiniteSet(connected \ {a}) /\ Cardinality(connected \ {a}) = Cardinality(connected) - 1
  BY <1>1, FS_RemoveElement
<1>3. b \in connected \ {a}
  OBVIOUS
<1>4. /\ IsFiniteSet((connected \ {a}) \ {b})
      /\ Cardinality((connected \ {a}) \ {b}) = Cardinality(connected \ {a}) - 1
  BY <1>2, <1>3, FS_RemoveElement
<1>5. Cardinality((connected \ {a}) \ {b}) \in Nat
  BY <1>4, FS_CardinalityType
<1> QED
  BY <1>1, <1>2, <1>4, <1>5

\* A notice is taken from the front, or added behind.
Shifted(old, new) ==
  /\ Len(old) \in Nat \ {0} /\ Len(new) = Len(old) - 1
  /\ \A k \in 1..Len(new) : k + 1 \in 1..Len(old) /\ new[k] = old[k + 1]
  /\ \A k \in 1..Len(old) : k # 1 => k - 1 \in 1..Len(new) /\ new[k - 1] = old[k]

LEMMA CrowdShifts ==
  ASSUME NEW old, NEW new, NEW there, Shifted(old, new)
  PROVE  /\ MissedIn(old, there) => MissedIn(new, there)
         /\ CrowdedIn(old, there) => CrowdedIn(new, there)
<1>1. ASSUME MissedIn(old, there), NEW i \in 1..Len(new), NEW d \in Clients,
             new[i] = ClientConnected(d), d \notin there
      PROVE  \E k \in 1..Len(new) : k > i /\ new[k] = ClientDisconnected(d)
  <2>1. i + 1 \in 1..Len(old) /\ old[i + 1] = ClientConnected(d)
    BY <1>1 DEF Shifted
  <2>2. PICK k \in 1..Len(old) : k > i + 1 /\ old[k] = ClientDisconnected(d)
    BY <1>1, <2>1 DEF MissedIn
  <2>3. k # 1 /\ k - 1 > i
    BY <2>2
  <2>4. k - 1 \in 1..Len(new) /\ new[k - 1] = old[k]
    BY <2>3 DEF Shifted
  <2> QED
    BY <2>2, <2>3, <2>4
<1>2. ASSUME CrowdedIn(old, there), NEW i \in 1..Len(new), NEW j \in 1..Len(new), i < j,
             NEW d \in Clients, NEW c \in Clients, NEW p \in Clients,
             new[i] = ClientConnected(d), new[j] = ClientConnected(c),
             c \in there, p \in there, p # c, p # d
      PROVE  \/ \E l \in 1..Len(new) : l > j /\ new[l] = ClientConnected(p)
             \/ \E k \in 1..Len(new) : i < k /\ k < j /\ new[k].type = "ClientDisconnected"
  <2>1. /\ i + 1 \in 1..Len(old) /\ old[i + 1] = ClientConnected(d)
        /\ j + 1 \in 1..Len(old) /\ old[j + 1] = ClientConnected(c) /\ i + 1 < j + 1
    BY <1>2 DEF Shifted
  <2>2. \/ \E l \in 1..Len(old) : l > j + 1 /\ old[l] = ClientConnected(p)
        \/ \E k \in 1..Len(old) : i + 1 < k /\ k < j + 1 /\ old[k].type = "ClientDisconnected"
    BY <1>2, <2>1 DEF CrowdedIn
  <2>3. ASSUME NEW l \in 1..Len(old), l > j + 1, old[l] = ClientConnected(p)
        PROVE  \E m \in 1..Len(new) : m > j /\ new[m] = ClientConnected(p)
    <3>1. l # 1 /\ l - 1 > j
      BY <2>3 DEF Shifted
    <3>2. l - 1 \in 1..Len(new) /\ new[l - 1] = old[l]
      BY <3>1 DEF Shifted
    <3> QED
      BY <2>3, <3>1, <3>2
  <2>4. ASSUME NEW k \in 1..Len(old), i + 1 < k, k < j + 1, old[k].type = "ClientDisconnected"
        PROVE  \E m \in 1..Len(new) : i < m /\ m < j /\ new[m].type = "ClientDisconnected"
    <3>1. k # 1 /\ i < k - 1 /\ k - 1 < j
      BY <2>4
    <3>2. k - 1 \in 1..Len(new) /\ new[k - 1] = old[k]
      BY <3>1 DEF Shifted
    <3> QED
      BY <2>4, <3>1, <3>2
  <2> QED
    BY <2>2, <2>3, <2>4
<1> QED
  BY <1>1, <1>2 DEF MissedIn, CrowdedIn

LEMMA CrowdEnters ==
  ASSUME Recorded, MaxClients <= 2, NEW e \in Clients, Enters(e), Missed, Crowded
  PROVE  Missed' /\ Crowded'
<1> DEFINE n == Len(serverEvents)
<1>1. /\ connected' = connected \cup {e} /\ e \notin connected
      /\ serverEvents' = Append(serverEvents, ClientConnected(e))
      /\ \A a, b \in connected : a = b
  BY RoomForOne DEF Recorded, Enters
<1>2. /\ n \in Nat /\ Len(serverEvents') = n + 1
      /\ \A k \in 1..n : serverEvents'[k] = serverEvents[k]
      /\ serverEvents'[n + 1] = ClientConnected(e)
  <2>1. OnlyCommands /\ ClientConnected(e) \in Notice
    BY DEF Recorded, Folded, SInv, ClientConnected, Notice
  <2> QED
    BY <1>1, <2>1, NoticeAdded
<1>3. \A d : ClientConnected(d) = ClientConnected(e) => d = e
  BY NoticesDiffer
<1>4. \A k \in 1..(n + 1) : k \in 1..n \/ k = n + 1
  BY <1>2
<1>5. \A k \in 1..n : k \in 1..(n + 1) /\ k < n + 1
  BY <1>2
<1>6. ASSUME NEW i \in 1..(n + 1), NEW d \in Clients,
             serverEvents'[i] = ClientConnected(d), d \notin connected'
      PROVE  \E k \in 1..(n + 1) : k > i /\ serverEvents'[k] = ClientDisconnected(d)
  <2>1. i \in 1..n /\ serverEvents[i] = ClientConnected(d) /\ d \notin connected
    BY <1>1, <1>2, <1>3, <1>4, <1>6
  <2>2. PICK k \in 1..n : k > i /\ serverEvents[k] = ClientDisconnected(d)
    BY <2>1 DEF Missed, MissedIn
  <2> QED
    BY <1>2, <1>5, <2>2
<1>7. ASSUME NEW i \in 1..(n + 1), NEW j \in 1..(n + 1), i < j,
             NEW d \in Clients, NEW c \in Clients, NEW p \in Clients,
             serverEvents'[i] = ClientConnected(d), serverEvents'[j] = ClientConnected(c),
             c \in connected', p \in connected', p # c, p # d
      PROVE  \/ \E l \in 1..(n + 1) : l > j /\ serverEvents'[l] = ClientConnected(p)
             \/ \E k \in 1..(n + 1) :
                  i < k /\ k < j /\ serverEvents'[k].type = "ClientDisconnected"
  <2>1. i \in 1..n /\ serverEvents[i] = ClientConnected(d)
    <3>1. i # n + 1
      BY <1>2, <1>7
    <3> QED
      BY <1>2, <1>4, <3>1, <1>7
  <2>2. CASE j = n + 1
    <3>1. c = e /\ p \in connected
      BY <1>1, <1>2, <1>3, <1>7, <2>2
    <3>2. d \notin connected
      BY <1>1, <1>7, <3>1
    <3>3. PICK k \in 1..n : k > i /\ serverEvents[k] = ClientDisconnected(d)
      BY <2>1, <3>2 DEF Missed, MissedIn
    <3>4. serverEvents'[k].type = "ClientDisconnected" /\ k \in 1..(n + 1) /\ k < j
      BY <1>2, <1>5, <2>2, <3>3 DEF ClientDisconnected
    <3> QED
      BY <3>3, <3>4
  <2>3. CASE j \in 1..n /\ p = e
    BY <1>2, <1>5, <2>3
  <2>4. CASE j \in 1..n /\ p # e
    <3>1. p \in connected /\ serverEvents[j] = ClientConnected(c)
      BY <1>1, <1>2, <1>7, <2>4
    <3>2. CASE c \notin connected
      <4>1. c = e
        BY <1>1, <1>7, <3>2
      <4>2. Announced(e)
        BY <2>4, <3>1, <4>1 DEF Announced
      <4>3. e \in connected \cup gone
        BY <4>2 DEF Recorded, Folded, SInv, AnnouncedOnce
      <4> QED
        BY <4>3 DEF Enters
    <3>3. CASE c \in connected
      <4>1. \/ \E l \in 1..n : l > j /\ serverEvents[l] = ClientConnected(p)
            \/ \E k \in 1..n : i < k /\ k < j /\ serverEvents[k].type = "ClientDisconnected"
        BY <1>7, <2>1, <2>4, <3>1, <3>3 DEF Crowded, CrowdedIn
      <4> QED
        BY <1>2, <1>5, <4>1
    <3> QED
      BY <3>2, <3>3
  <2> QED
    BY <1>4, <2>2, <2>3, <2>4
<1> HIDE DEF n
<1>8. Missed'
  BY <1>2, <1>6 DEF Missed, MissedIn, ClientConnected, ClientDisconnected
<1>9. Crowded'
  BY <1>2, <1>7 DEF Crowded, CrowdedIn, ClientConnected
<1> QED
  BY <1>8, <1>9

LEMMA CrowdLeaves ==
  ASSUME Recorded, NEW e \in Clients, Leaves(e), Missed, Crowded
  PROVE  Missed' /\ Crowded'
<1> DEFINE n == Len(serverEvents)
<1>1. /\ connected' = connected \ {e}
      /\ serverEvents' = Append(serverEvents, ClientDisconnected(e))
  BY DEF Leaves
<1>2. /\ n \in Nat /\ Len(serverEvents') = n + 1
      /\ \A k \in 1..n : serverEvents'[k] = serverEvents[k]
      /\ serverEvents'[n + 1] = ClientDisconnected(e)
  <2>1. OnlyCommands /\ ClientDisconnected(e) \in Notice
    BY DEF Recorded, Folded, SInv, ClientDisconnected, Notice
  <2> QED
    BY <1>1, <2>1, NoticeAdded
<1>3. \A d : ClientConnected(d) # ClientDisconnected(e)
  BY NoticesDiffer
<1>4. \A k \in 1..(n + 1) : k \in 1..n \/ k = n + 1
  BY <1>2
<1>5. \A k \in 1..n : k \in 1..(n + 1) /\ k < n + 1
  BY <1>2
<1>6. ASSUME NEW i \in 1..(n + 1), NEW d \in Clients,
             serverEvents'[i] = ClientConnected(d), d \notin connected'
      PROVE  \E k \in 1..(n + 1) : k > i /\ serverEvents'[k] = ClientDisconnected(d)
  <2>1. i \in 1..n /\ serverEvents[i] = ClientConnected(d)
    BY <1>2, <1>3, <1>4, <1>6
  <2>2. CASE d = e
    BY <1>2, <1>5, <2>1, <2>2
  <2>3. CASE d # e
    <3>1. PICK k \in 1..n : k > i /\ serverEvents[k] = ClientDisconnected(d)
      BY <1>1, <1>6, <2>1, <2>3 DEF Missed, MissedIn
    <3> QED
      BY <1>2, <1>5, <3>1
  <2> QED
    BY <2>2, <2>3
<1>7. ASSUME NEW i \in 1..(n + 1), NEW j \in 1..(n + 1), i < j,
             NEW d \in Clients, NEW c \in Clients, NEW p \in Clients,
             serverEvents'[i] = ClientConnected(d), serverEvents'[j] = ClientConnected(c),
             c \in connected', p \in connected', p # c, p # d
      PROVE  \/ \E l \in 1..(n + 1) : l > j /\ serverEvents'[l] = ClientConnected(p)
             \/ \E k \in 1..(n + 1) :
                  i < k /\ k < j /\ serverEvents'[k].type = "ClientDisconnected"
  <2>1. /\ i \in 1..n /\ serverEvents[i] = ClientConnected(d)
        /\ j \in 1..n /\ serverEvents[j] = ClientConnected(c)
    BY <1>2, <1>3, <1>4, <1>7
  <2>2. \/ \E l \in 1..n : l > j /\ serverEvents[l] = ClientConnected(p)
        \/ \E k \in 1..n : i < k /\ k < j /\ serverEvents[k].type = "ClientDisconnected"
    BY <1>1, <1>7, <2>1 DEF Crowded, CrowdedIn
  <2> QED
    BY <1>2, <1>5, <2>2
<1> HIDE DEF n
<1>8. Missed'
  BY <1>2, <1>6 DEF Missed, MissedIn, ClientConnected, ClientDisconnected
<1>9. Crowded'
  BY <1>2, <1>7 DEF Crowded, CrowdedIn, ClientConnected
<1> QED
  BY <1>8, <1>9

LEMMA InitCrowd == Init => Missed /\ Crowded
BY DEF Init, RenetInit, Missed, Crowded, MissedIn, CrowdedIn

LEMMA StepCrowd ==
  ASSUME Recorded, MaxClients <= 2, Missed, Crowded, [Next]_vars
  PROVE  Missed' /\ Crowded'
<1>1. OnlyCommands
  BY DEF Recorded, Folded, SInv
<1>2. CASE Resets
  BY <1>2 DEF Resets, Missed, Crowded, MissedIn, CrowdedIn
<1>3. CASE Moves \/ \E cmd \in Commands : Takes(cmd)
  <2>1. UNCHANGED <<connected, serverEvents>>
    BY <1>3 DEF Moves, Takes
  <2> QED
    BY <2>1 DEF Missed, Crowded
<1>4. ASSUME NEW d \in Clients, Greets(d) \/ Misses(d) PROVE Missed' /\ Crowded'
  <2>1. /\ serverEvents # << >> /\ serverEvents' = Tail(serverEvents) /\ connected' = connected
    BY <1>4 DEF Greets, Misses, Notes
  <2>2. Shifted(serverEvents, serverEvents')
    BY <1>1, <2>1, NoticeTaken DEF Shifted
  <2>3. MissedIn(serverEvents', connected) /\ CrowdedIn(serverEvents', connected)
    BY <2>2, CrowdShifts DEF Missed, Crowded
  <2> QED
    BY <2>1, <2>3 DEF Missed, Crowded
<1> QED
  BY <1>2, <1>3, <1>4, CrowdEnters, CrowdLeaves, StepKinds

-----------------------------------------------------------------------------
(* What a client is told before its catch-up.                              *)

\* Who sits first after two stretches is who did so after one of them, unless
\* that was nobody.
LEMMA FirstOfTwo ==
  ASSUME NEW D \in Seq(GameEvent), NEW E \in Seq(GameEvent),
         \A k \in 1..Len(D) : D[k] \in SoundEvent,
         \A k \in 1..Len(E) : E[k] \in SoundEvent
  PROVE  LET before == hydrate(D).players[0]
             after == hydrate(D \o E).players[0]
         IN  /\ before # NoPlayer => after = before
             /\ (\A k \in 1..Len(E) : E[k].type # "PlayerJoined") => after = before
<1> DEFINE M == D \o E
<1>1. M \in Seq(GameEvent) /\ InParts(D, E, M)
  BY ConcatParts
<1> HIDE DEF M
<1>2. \A k \in 1..Len(M) : M[k] \in SoundEvent
  <2>1. ASSUME NEW k \in 1..Len(M) PROVE M[k] \in SoundEvent
    <3>1. CASE k \in 1..Len(D)
      BY <1>1, <3>1 DEF InParts
    <3>2. ASSUME NEW m \in 1..Len(E), Len(D) + m = k PROVE M[k] \in SoundEvent
      <4>1. M[Len(D) + m] = E[m]
        BY <1>1 DEF InParts
      <4> QED
        BY <3>2, <4>1
    <3> QED
      BY <1>1, <3>1, <3>2 DEF InParts
  <2> QED
    BY <2>1
<1>3. /\ FirstSits(D, Len(D)) /\ FirstSits(M, Len(M))
      /\ At(D, Len(D)) = hydrate(D) /\ At(M, Len(M)) = hydrate(M)
  BY <1>1, <1>2, FirstSitsFirst, AtEnd
<1> DEFINE joins == Of(D, "PlayerJoined", Len(D))
           all == Of(M, "PlayerJoined", Len(M))
<1>4. \A k \in joins : k \in all /\ M[k] = D[k] /\ k <= Len(D)
  BY <1>1 DEF Of, InParts
<1>5. \A k \in all : k \in joins \/ (k > Len(D) /\ \E m \in 1..Len(E) : E[m].type = "PlayerJoined")
  <2> SUFFICES ASSUME NEW k \in all
               PROVE  k \in joins \/ (k > Len(D) /\ \E m \in 1..Len(E) : E[m].type = "PlayerJoined")
    OBVIOUS
  <2>1. k \in 1..Len(M) /\ M[k].type = "PlayerJoined"
    BY DEF Of
  <2>2. CASE k \in 1..Len(D)
    BY <1>1, <2>1, <2>2 DEF Of, InParts
  <2>3. ASSUME NEW m \in 1..Len(E), Len(D) + m = k
        PROVE  k > Len(D) /\ E[m].type = "PlayerJoined"
    <3>1. M[Len(D) + m] = E[m] /\ Len(D) \in Nat
      BY <1>1 DEF InParts
    <3> QED
      BY <2>1, <2>3, <3>1
  <2> QED
    BY <1>1, <2>1, <2>2, <2>3 DEF InParts
<1>6. \A k \in all : k \in Nat
  BY <1>1 DEF Of, InParts
<1> HIDE DEF joins, all
<1>7. ASSUME hydrate(D).players[0] # NoPlayer
      PROVE  hydrate(M).players[0] = hydrate(D).players[0]
  <2>1. PICK i \in joins : (\A k \in joins : i <= k) /\ hydrate(D).players[0] = D[i].player_id
    BY <1>3, <1>7 DEF FirstSits, joins
  <2>2. all # {}
    BY <1>4, <2>1
  <2>3. PICK j \in all : (\A k \in all : j <= k) /\ hydrate(M).players[0] = M[j].player_id
    BY <1>3, <2>2 DEF FirstSits, all
  <2>4. i = j
    <3>1. i \in all /\ j <= i /\ i <= Len(D) /\ i \in Nat /\ j \in Nat
      BY <1>4, <1>6, <2>1, <2>3
    <3>2. j \in joins \/ j > Len(D)
      BY <1>5
    <3>3. Len(D) \in Nat
      BY <1>1 DEF InParts
    <3>4. j \in joins
      BY <3>1, <3>2, <3>3
    <3> QED
      BY <2>1, <3>1, <3>4
  <2> QED
    BY <1>4, <2>1, <2>3, <2>4
<1>8. ASSUME \A k \in 1..Len(E) : E[k].type # "PlayerJoined", hydrate(D).players[0] = NoPlayer
      PROVE  hydrate(M).players[0] = NoPlayer
  <2>1. joins = {}
    BY <1>3, <1>8 DEF FirstSits, joins
  <2>2. all = {}
    BY <1>5, <1>8, <2>1
  <2> QED
    BY <1>3, <2>2 DEF FirstSits, all
<1> QED
  BY <1>7, <1>8 DEF M

\* Or it is somebody who joined.
LEMMA FirstHasJoined ==
  ASSUME NEW D \in Seq(GameEvent), \A k \in 1..Len(D) : D[k] \in SoundEvent,
         hydrate(D).players[0] # NoPlayer
  PROVE  \E i \in 1..Len(D) :
           D[i].type = "PlayerJoined" /\ D[i].player_id = hydrate(D).players[0]
<1>1. Len(D) \in 0..Len(D)
  OBVIOUS
<1>2. FirstSits(D, Len(D)) /\ At(D, Len(D)) = hydrate(D)
  BY <1>1, FirstSitsFirst, AtEnd
<1> QED
  BY <1>2 DEF FirstSits, Of

\* The stretch a client is told, in the log.
LEMMA ToldFromLog ==
  ASSUME NEW before \in Seq(GameEvent), NEW again \in Seq(GameEvent),
         NEW after \in Seq(GameEvent), log = (before \o again) \o after
  PROVE  \A k \in 1..Len(again) : Len(before) + k \in 1..Len(log) /\ log[Len(before) + k] = again[k]
<1> DEFINE stretch == before \o again
<1>1. stretch \in Seq(GameEvent) /\ InParts(before, again, stretch)
  BY ConcatParts
<1> HIDE DEF stretch
<1>2. InParts(stretch, after, log)
  BY <1>1, ConcatParts DEF stretch
<1> QED
  BY <1>1, <1>2 DEF InParts

\* A game nobody plays: it has ended, or whose turn it is has gone, or a
\* departure will end it before the client is greeted.
Bare == state.board = DefaultState.board

Deserted ==
  LET p == state.players[0]
  IN  /\ state.stage = "InGame" /\ p \in gone /\ state.active_player_id = p
      /\ \A cmd \in topic : cmd.type = "PlaceTile" => cmd.player_id # p
      /\ \A cmd \in Commands : Arrived(cmd) /\ cmd.type = "PlaceTile" => cmd.player_id # p

Doomed(c) ==
  /\ state.stage = "InGame"
  /\ \E j, k \in 1..Len(serverEvents) :
       /\ k < j /\ serverEvents[j] = ClientConnected(c)
       /\ serverEvents[k].type = "ClientDisconnected"

Barren(c) == Bare /\ (state.stage = "Ended" \/ Deserted \/ Doomed(c))

(* Nobody moves before a client has had its catch-up, and the first player *)
(* it was told of is the first of the game, if it was told of any: or else *)
(* it is a game nobody plays.                                              *)
Prelude(c, before, again, after) ==
  /\ log = (before \o again) \o after
  /\ Announced(c) => after = << >>
  /\ downlink[c] = IF Announced(c) THEN again ELSE again \o log
  /\ \A k \in 1..Len(again) : again[k].type # "TilePlaced"
  /\ state.stage # "Lobby" =>
       hydrate(again).players[0] \in {NoPlayer, state.players[0]} \/ Barren(c)

Told(c) == \E before, again, after \in Seq(GameEvent) : Prelude(c, before, again, after)

\* A game nobody plays stays one.
LEMMA LateOutcome ==
  ASSUME NEW cmd, NEW events, Outcome(cmd, events), state.stage # "Lobby"
  PROVE  /\ state'.stage # "Lobby" /\ state'.players = state.players
         /\ cmd.type = "JoinGame" => state' = state
         /\ cmd.type # "PlaceTile" => state'.board = state.board
         /\ state.stage = "Ended" => state' = state
         /\ cmd.type = "LeaveGame" => state'.stage = "Ended" \/ state' = state
         /\ cmd.type = "PlaceTile" /\ cmd.player_id # state.active_player_id => state' = state
BY DEF Outcome, Rejected, SitsDown, SetsOff, Plays, Departs

LEMMA BarrenStays ==
  ASSUME Recorded, Arrivals, NEW c \in connected, Barren(c),
         \/ Moves
         \/ \E d \in Clients : Enters(d) \/ (Leaves(d) /\ d # c) \/ Greets(d) \/ Misses(d)
         \/ \E cmd \in Commands : Takes(cmd)
  PROVE  Barren(c)'
<1>1. /\ OnlyCommands /\ gone \cap connected = {} /\ connected \subseteq Clients
      /\ state.stage # "Lobby" /\ topic \subseteq Commands
  BY DEF Recorded, Folded, SInv, Connections, Barren, Deserted, Doomed, OnlyCommands
<1>2. ASSUME UNCHANGED <<state, topic>>, gone \subseteq gone',
             \A cmd \in Commands : Arrived(cmd)' /\ cmd.type = "PlaceTile" =>
               Arrived(cmd) \/ cmd.player_id \in connected,
             Doomed(c) => Doomed(c)'
      PROVE  Barren(c)'
  <2>1. Deserted => Deserted'
    BY <1>1, <1>2 DEF Deserted
  <2> QED
    BY <1>2, <2>1 DEF Barren, Bare
<1>3. CASE Moves
  <2>1. UNCHANGED <<state, topic, gone, serverEvents>>
    BY <1>3 DEF Moves
  <2>2. \A cmd \in Commands : Arrived(cmd)' => Arrived(cmd) \/ cmd.player_id \in connected
    BY <1>1, <1>3 DEF Moves, Arrivals, SendersKnown
  <2>3. Doomed(c) => Doomed(c)'
    BY <2>1 DEF Doomed
  <2> QED
    BY <1>2, <2>1, <2>2, <2>3
<1>4. ASSUME NEW d \in Clients, Enters(d) \/ Leaves(d) PROVE Barren(c)'
  <2>1. /\ UNCHANGED <<state, topic, messages>> /\ gone \subseteq gone'
        /\ \E notice \in Notice : serverEvents' = Append(serverEvents, notice)
    BY <1>4 DEF Enters, Leaves, Notice, ClientConnected, ClientDisconnected
  <2>2. /\ Len(serverEvents) \in Nat /\ Len(serverEvents') = Len(serverEvents) + 1
        /\ \A k \in 1..Len(serverEvents) : serverEvents'[k] = serverEvents[k]
    BY <1>1, <2>1, NoticeAdded
  <2>3. \A k \in 1..Len(serverEvents) : k \in 1..Len(serverEvents')
    BY <2>2
  <2>4. Doomed(c) => Doomed(c)'
    <3> SUFFICES ASSUME Doomed(c) PROVE Doomed(c)'
      OBVIOUS
    <3>1. PICK j \in 1..Len(serverEvents), k \in 1..Len(serverEvents) :
            /\ k < j /\ serverEvents[j] = ClientConnected(c)
            /\ serverEvents[k].type = "ClientDisconnected"
      BY DEF Doomed
    <3>2. /\ j \in 1..Len(serverEvents') /\ k \in 1..Len(serverEvents')
          /\ serverEvents'[j] = ClientConnected(c) /\ serverEvents'[k].type = "ClientDisconnected"
      BY <2>2, <2>3, <3>1
    <3>3. state'.stage = "InGame"
      BY <2>1 DEF Doomed
    <3> QED
      BY <3>1, <3>2, <3>3 DEF Doomed, ClientConnected
  <2>5. \A cmd \in Commands : Arrived(cmd)' => Arrived(cmd)
    BY <2>1 DEF Arrived
  <2> QED
    BY <1>2, <2>1, <2>4, <2>5
<1>5. ASSUME NEW d \in Clients, Greets(d) PROVE Barren(c)'
  <2>1. /\ topic' = topic \cup {JoinGame(d)} /\ handle(JoinGame(d), catch_up(d))
        /\ UNCHANGED <<gone, messages>> /\ Head(serverEvents) = ClientConnected(d)
        /\ serverEvents # << >> /\ serverEvents' = Tail(serverEvents)
    BY <1>5 DEF Greets, Notes
  <2>2. state' = state
    <3>1. JoinGame(d) \in Commands /\ JoinGame(d).type = "JoinGame"
      BY OwnCommands DEF JoinGame
    <3> QED
      BY <1>1, <2>1, <3>1, HandleOutcome, LateOutcome
  <2>3. Deserted => Deserted'
    BY <2>1, <2>2 DEF Deserted, JoinGame, Arrived
  <2>4. Doomed(c) => Doomed(c)'
    <3> SUFFICES ASSUME Doomed(c) PROVE Doomed(c)'
      OBVIOUS
    <3>1. PICK j \in 1..Len(serverEvents), k \in 1..Len(serverEvents) :
            /\ k < j /\ serverEvents[j] = ClientConnected(c)
            /\ serverEvents[k].type = "ClientDisconnected"
      BY DEF Doomed
    <3>2. k # 1
      BY <1>1, <2>1, <3>1, NoticeTaken DEF ClientConnected
    <3>3. j # 1 /\ k - 1 < j - 1
      BY <3>1, <3>2
    <3>4. /\ j - 1 \in 1..Len(serverEvents') /\ serverEvents'[j - 1] = serverEvents[j]
          /\ k - 1 \in 1..Len(serverEvents') /\ serverEvents'[k - 1] = serverEvents[k]
      BY <1>1, <2>1, <3>2, <3>3, NoticeTaken
    <3>5. state'.stage = "InGame"
      BY <2>2 DEF Doomed
    <3> QED
      BY <3>1, <3>3, <3>4, <3>5 DEF Doomed, ClientConnected
  <2> QED
    BY <2>2, <2>3, <2>4 DEF Barren, Bare
<1>6. ASSUME NEW d \in Clients, Misses(d) PROVE Barren(c)'
  <2>1. handle(LeaveGame(d), downlink)
    BY <1>6 DEF Misses, Notes
  <2>2. LeaveGame(d) \in Commands /\ LeaveGame(d).type = "LeaveGame"
    BY OwnCommands DEF LeaveGame
  <2>3. PICK events : Outcome(LeaveGame(d), events)
    BY <2>1, <2>2, HandleOutcome
  <2>4. state'.board = state.board
    BY <1>1, <2>2, <2>3, LateOutcome
  <2>5. state'.stage = "Ended"
    <3>1. /\ state \in GameState /\ LeaveGame(d).player_id = d /\ d \in PlayerId
          /\ state' = Write!ApplyBatch(state, decide(state, LeaveGame(d)).events)
      BY <2>1, ClientsArePlayers
         DEF Recorded, Folded, SInv, SessionTypes, handle, LeaveGame, PlayerId
    <3>2. Effect(LeaveGame(d), decide(state, LeaveGame(d)).events)
      BY <2>2, <3>1, LeaveHandled
    <3>3. state'.stage # "InGame" /\ state'.stage # "Lobby" /\ state' \in GameState
      BY <1>1, <2>2, <2>3, <3>2, LateOutcome DEF Effect
    <3> QED
      BY <3>3 DEF GameState, Stage
  <2> QED
    BY <2>4, <2>5 DEF Barren, Bare
<1>7. ASSUME NEW cmd \in Commands, Takes(cmd) PROVE Barren(c)'
  <2>1. /\ handle(cmd, downlink) /\ serverEvents = << >> /\ UNCHANGED gone
        /\ topic' \subseteq topic \cup {cmd} /\ (cmd \in topic \/ Arrived(cmd))
        /\ \A other \in Commands : Arrived(other)' => Arrived(other)
    BY <1>7 DEF Takes
  <2>2. PICK events : Outcome(cmd, events)
    BY <2>1, HandleOutcome
  <2>3. state.stage = "Ended" \/ Deserted
    BY <2>1 DEF Barren, Doomed
  <2>4. CASE state.stage = "Ended"
    BY <1>1, <2>2, <2>4, LateOutcome DEF Barren, Bare
  <2>5. CASE Deserted
    <3>1. cmd.type = "PlaceTile" => cmd.player_id # state.active_player_id
      BY <2>1, <2>5 DEF Deserted
    <3>2. state'.board = state.board /\ (state' = state \/ state'.stage = "Ended")
      BY <1>1, <2>2, <3>1, LateOutcome DEF Commands, GameCommand
    <3>3. ASSUME state' = state PROVE Deserted'
      BY <2>1, <2>5, <3>1, <3>3 DEF Deserted
    <3> QED
      BY <3>2, <3>3 DEF Barren, Bare
  <2> QED
    BY <2>3, <2>4, <2>5
<1> QED
  BY <1>3, <1>4, <1>5, <1>6, <1>7

\* In the lobby only one player has joined.
LEMMA LobbyJoins ==
  ASSUME Recorded, state.stage = "Lobby",
         NEW m \in 1..Len(log), log[m].type = "PlayerJoined"
  PROVE  log[m].player_id = state.players[0]
<1>1. log \in Seq(GameEvent) /\ Orderly(log) /\ state = hydrate(log) /\ state.players[1] = NoPlayer
  BY DEF Recorded, Folded, SInv, SessionTypes, LogReplayed, Settled, Calm
<1>2. Len(log) \in 0..Len(log) /\ m \in Of(log, "PlayerJoined", Len(log))
  BY <1>1 DEF Of
<1>3. Seated(log, Len(log)) /\ At(log, Len(log)) = state
  BY <1>1, <1>2, LogSeats, AtEnd
<1> QED
  BY <1>1, <1>2, <1>3 DEF Seated

\* Events handled while a client is told of them, or after.
LEMMA ToldHandled ==
  ASSUME Recorded, NEW c \in connected, Told(c), connected' = connected,
         NEW cmd \in Commands, NEW streams \in [Clients -> Seq(GameEvent)], handle(cmd, streams),
         Announced(c)' => Announced(c) /\ cmd.type # "PlaceTile",
         streams[c] = IF Announced(c) /\ ~ Announced(c)' THEN downlink[c] \o log ELSE downlink[c],
         Barren(c) => Barren(c)',
         Announced(c)' /\ state.stage = "Lobby" /\ state'.stage # "Lobby" => Barren(c)'
  PROVE  Told(c)'
<1>1. PICK events \in Seq(GameEvent) :
        /\ log' = log \o events /\ downlink' = broadcast(streams, events) /\ Outcome(cmd, events)
  BY HandleOutcome
<1>2. c \in Clients /\ downlink'[c] = streams[c] \o events /\ log \in Seq(GameEvent)
  BY <1>1 DEF broadcast, Recorded, Folded, SInv, SessionTypes, Connections
<1>3. PICK before \in Seq(GameEvent), again \in Seq(GameEvent), after \in Seq(GameEvent) :
        Prelude(c, before, again, after)
  BY DEF Told
<1>4. log = (before \o again) \o after
  BY <1>3 DEF Prelude
<1>5. \A k \in 1..Len(again) : Len(before) + k \in 1..Len(log) /\ log[Len(before) + k] = again[k]
  BY <1>4, ToldFromLog
<1>6. \A k \in 1..Len(again) : again[k] \in SoundEvent
  BY <1>2, <1>5, OrderlySound DEF Recorded
<1>7. state'.stage # "Lobby" /\ (hydrate(again).players[0] \in {NoPlayer, state.players[0]} \/ Barren(c))
        => hydrate(again).players[0] \in {NoPlayer, state'.players[0]} \/ Barren(c)'
  <2>1. state'.stage # "Lobby" => state'.players[0] = state.players[0]
    <3>1. state.players \in [0..1 -> PlayerId]
      BY DEF Recorded, Folded, SInv, SessionTypes, GameState
    <3> QED
      BY <1>1, <3>1 DEF Outcome, Rejected, SitsDown, SetsOff, Plays, Departs
  <2> QED
    BY <2>1
<1>8. state.stage = "Lobby" => hydrate(again).players[0] \in {NoPlayer, state.players[0]}
  <2> SUFFICES ASSUME state.stage = "Lobby", hydrate(again).players[0] # NoPlayer
               PROVE  hydrate(again).players[0] = state.players[0]
    OBVIOUS
  <2>1. PICK i \in 1..Len(again) :
          again[i].type = "PlayerJoined" /\ again[i].player_id = hydrate(again).players[0]
    BY <1>6, FirstHasJoined
  <2>2. Len(before) + i \in 1..Len(log) /\ log[Len(before) + i] = again[i]
    BY <1>5
  <2> QED
    BY <2>1, <2>2, LobbyJoins
<1>9. hydrate(again).players[0] \in {NoPlayer, state.players[0]} \/ Barren(c)
  BY <1>3, <1>8 DEF Prelude
<1>10. CASE ~ Announced(c)'
  <2>1. after \o events \in Seq(GameEvent) /\ log' = (before \o again) \o (after \o events)
    BY <1>1, <1>4, Associative, ConcatProperties
  <2>2. downlink[c] = IF Announced(c) THEN again ELSE again \o log
    BY <1>3 DEF Prelude
  <2>3. streams[c] = again \o log
    BY <1>10, <2>2
  <2>4. downlink'[c] = again \o log'
    <3>1. (again \o log) \o events = again \o (log \o events)
      BY <1>2, Associative
    <3>2. downlink'[c] = (again \o log) \o events /\ log' = log \o events
      BY <1>1, <1>2, <2>3
    <3> QED
      BY <3>1, <3>2
  <2>5. Prelude(c, before, again, after \o events)'
    BY <1>3, <1>7, <1>9, <1>10, <2>1, <2>4 DEF Prelude
  <2> QED
    BY <2>1, <2>5 DEF Told
<1>11. CASE Announced(c)'
  <2> DEFINE more == again \o events
  <2>1. Announced(c) /\ cmd.type # "PlaceTile"
    BY <1>11
  <2>2. after = << >> /\ downlink[c] = again
    BY <1>3, <2>1 DEF Prelude
  <2>3. more \in Seq(GameEvent) /\ InParts(again, events, more)
    BY ConcatParts
  <2>4. log' = (before \o more) \o << >> /\ << >> \in Seq(GameEvent)
    <3>1. before \o again \in Seq(GameEvent) /\ before \o more \in Seq(GameEvent)
      BY <2>3, ConcatProperties
    <3>2. log = before \o again
      BY <1>4, <2>2, <3>1, ConcatEmptySeq
    <3>3. log' = before \o more
      BY <1>1, <3>2, Associative
    <3> QED
      BY <3>1, <3>3, ConcatEmptySeq
  <2>5. downlink'[c] = more
    BY <1>2, <1>11, <2>1, <2>2
  <2>6. \A k \in 1..Len(events) : events[k].type # "TilePlaced"
    BY <1>1, <2>1 DEF Outcome, Rejected, SitsDown, SetsOff, Departs, PlayerJoined, GameStarted,
                      PlayerLeft, GameEnded
  <2>7. \A k \in 1..Len(more) : more[k].type # "TilePlaced"
    <3>1. \A k \in 1..Len(again) : again[k].type # "TilePlaced"
      BY <1>3 DEF Prelude
    <3> HIDE DEF more
    <3>2. ASSUME NEW k \in 1..Len(more) PROVE more[k].type # "TilePlaced"
      <4>1. CASE k \in 1..Len(again)
        BY <2>3, <3>1, <4>1 DEF InParts
      <4>2. ASSUME NEW m \in 1..Len(events), Len(again) + m = k PROVE more[k].type # "TilePlaced"
        <5>1. more[Len(again) + m] = events[m]
          BY <2>3 DEF InParts
        <5> QED
          BY <2>6, <4>2, <5>1
      <4> QED
        BY <2>3, <4>1, <4>2 DEF InParts
    <3> QED
      BY <3>2
  <2>8. state'.stage # "Lobby" =>
          hydrate(more).players[0] \in {NoPlayer, state'.players[0]} \/ Barren(c)'
    <3>1. CASE state.stage = "Lobby"
      BY <1>11, <3>1
    <3>2. CASE state.stage # "Lobby"
      <4>1. /\ \A k \in 1..Len(events) : events[k].type # "PlayerJoined"
            /\ \A k \in 1..Len(events) : events[k] \in SoundEvent
        <5>1. \/ events = << >> \/ events = <<PlayerLeft(cmd.player_id)>>
              \/ events = <<PlayerLeft(cmd.player_id), GameEnded("PlayerLeft", cmd.player_id)>>
          BY <1>1, <2>1, <3>2 DEF Outcome, Rejected, SitsDown, SetsOff, Departs
        <5>2. \A k \in 1..Len(events) : events[k].type \in {"PlayerLeft", "GameEnded"}
          BY <5>1 DEF PlayerLeft, GameEnded
        <5>3. \A k \in 1..Len(events) : events[k] \in GameEvent
          OBVIOUS
        <5> QED
          BY <5>2, <5>3 DEF SoundEvent
      <4>2. hydrate(more).players[0] = hydrate(again).players[0]
        BY <1>6, <4>1, FirstOfTwo
      <4> HIDE DEF more
      <4> QED
        BY <1>7, <1>9, <4>2
    <3> QED
      BY <3>1, <3>2
  <2> HIDE DEF more
  <2>9. Prelude(c, before, more, << >>)'
    BY <1>11, <2>4, <2>5, <2>7, <2>8 DEF Prelude
  <2> QED
    BY <2>3, <2>4, <2>9 DEF Told
<1> QED
  BY <1>10, <1>11

\* When the game is set off behind an announced client, nobody will play it.
LEMMA SetOffUnseen ==
  ASSUME Recorded, Arrivals, Crowded, NEW d \in Clients, Greets(d),
         NEW c \in connected, c # d, Announced(c),
         state.stage = "Lobby", state'.stage # "Lobby"
  PROVE  Barren(c)'
<1>1. /\ OnlyCommands /\ connected \subseteq Clients /\ log \in Seq(GameEvent) /\ Orderly(log)
      /\ state = hydrate(log) /\ state \in GameState /\ state.players[0] \in PlayerId
  BY DEF Recorded, Folded, SInv, SessionTypes, Connections, LogReplayed, GameState
<1>2. /\ topic' = topic \cup {JoinGame(d)} /\ handle(JoinGame(d), catch_up(d))
      /\ UNCHANGED <<connected, gone, messages>> /\ Head(serverEvents) = ClientConnected(d)
      /\ serverEvents # << >> /\ serverEvents' = Tail(serverEvents)
  BY DEF Greets, Notes
<1>3. JoinGame(d) \in Commands /\ JoinGame(d).type = "JoinGame" /\ JoinGame(d).player_id = d
  BY OwnCommands DEF JoinGame
<1>4. PICK events : Outcome(JoinGame(d), events)
  BY <1>2, <1>3, HandleOutcome
<1>5. SetsOff(d, events)
  BY <1>3, <1>4 DEF Outcome, Rejected, SitsDown
<1> DEFINE x == state.players[0]
<1>6. /\ x # NoPlayer /\ x \in Players /\ state'.stage = "InGame" /\ state'.board = state.board
      /\ state'.active_player_id = x /\ state'.players[0] = x
  BY <1>1, <1>5 DEF SetsOff, GameState, PlayerId
<1>7. Bare'
  <2>1. \A i \in Positions : state.board[i] = Empty
    <3>1. Len(log) \in 0..Len(log)
      BY <1>1
    <3>2. Moved(log, Len(log)) /\ At(log, Len(log)) = state
      BY <1>1, <3>1, LogMoves, AtEnd
    <3> QED
      BY <3>2 DEF Moved
  <2>2. state.board \in [Positions -> Tile]
    BY <1>1 DEF GameState
  <2> QED
    BY <1>6, <2>1, <2>2 DEF Bare, DefaultState
<1>8. x \in connected \cup gone /\ ~ Announced(x)
  BY <1>6 DEF Arrivals, SendersKnown, Known
<1>9. Announced(d)
  BY GreetedKnown
<1>10. x # c /\ x # d
  BY <1>8, <1>9
<1> HIDE DEF x
<1>11. CASE x \in connected
  <2>1. PICK j \in 1..Len(serverEvents) : serverEvents[j] = ClientConnected(c)
    BY DEF Announced
  <2>2. serverEvents[1] = ClientConnected(d) /\ 1 \in 1..Len(serverEvents)
    BY <1>1, <1>2, NoticeTaken
  <2>3. j # 1
    BY <2>1, <2>2, NoticesDiffer
  <2>4. 1 < j
    BY <2>1, <2>3
  <2>5. \/ \E l \in 1..Len(serverEvents) : l > j /\ serverEvents[l] = ClientConnected(x)
        \/ \E k \in 1..Len(serverEvents) :
             1 < k /\ k < j /\ serverEvents[k].type = "ClientDisconnected"
    BY <1>1, <1>10, <1>11, <2>1, <2>2, <2>4 DEF Crowded, CrowdedIn
  <2>6. PICK k \in 1..Len(serverEvents) :
          1 < k /\ k < j /\ serverEvents[k].type = "ClientDisconnected"
    BY <1>8, <2>5 DEF Announced
  <2>7. k # 1 /\ k - 1 < j - 1
    BY <2>6
  <2>8. /\ j - 1 \in 1..Len(serverEvents') /\ serverEvents'[j - 1] = serverEvents[j]
        /\ k - 1 \in 1..Len(serverEvents') /\ serverEvents'[k - 1] = serverEvents[k]
    BY <1>1, <1>2, <2>3, <2>7, NoticeTaken
  <2>9. Doomed(c)'
    BY <1>6, <2>1, <2>6, <2>7, <2>8 DEF Doomed, ClientConnected
  <2> QED
    BY <1>7, <2>9 DEF Barren
<1>12. CASE x \in gone
  <2>1. \A cmd \in topic' : cmd.type # "PlaceTile"
    BY <1>2 DEF Arrivals, LobbyIsQuiet, JoinGame
  <2>2. \A cmd \in Commands : Arrived(cmd)' => cmd.type # "PlaceTile"
    BY <1>2 DEF Arrivals, LobbyIsQuiet, Arrived
  <2>3. Deserted'
    BY <1>2, <1>6, <1>12, <2>1, <2>2 DEF Deserted
  <2> QED
    BY <1>7, <2>3 DEF Barren
<1> QED
  BY <1>8, <1>11, <1>12

LEMMA InitTold == Init => \A c \in connected : Told(c)
BY DEF Init, RenetInit

LEMMA StepTold ==
  ASSUME Recorded, Arrivals, Crowded, \A c \in connected : Told(c), [Next]_vars,
         NEW c \in connected'
  PROVE  Told(c)'
<1>1. /\ OnlyCommands /\ SessionTypes /\ log \in Seq(GameEvent) /\ connected \subseteq Clients
      /\ downlink \in [Clients -> Seq(GameEvent)] /\ \A d \in Clients : AnnouncedOnce(d)
  BY DEF Recorded, Folded, SInv, SessionTypes, Connections
<1>2. CASE Resets
  BY <1>2 DEF Resets
<1>3. ASSUME c \in connected, UNCHANGED <<log, state>>, downlink'[c] = downlink[c],
             Announced(c)' <=> Announced(c), Barren(c) => Barren(c)'
      PROVE  Told(c)'
  <2>1. PICK before \in Seq(GameEvent), again \in Seq(GameEvent), after \in Seq(GameEvent) :
          Prelude(c, before, again, after)
    BY <1>3 DEF Told
  <2>2. Prelude(c, before, again, after)'
    BY <1>3, <2>1 DEF Prelude
  <2> QED
    BY <2>2 DEF Told
<1>4. CASE Moves
  <2>1. /\ connected' = connected /\ UNCHANGED <<log, state, downlink, serverEvents>>
    BY <1>4 DEF Moves
  <2>2. Announced(c)' <=> Announced(c)
    BY <2>1 DEF Announced
  <2> QED
    BY <1>3, <1>4, <2>1, <2>2, BarrenStays
<1>5. ASSUME NEW d \in Clients, Enters(d) PROVE Told(c)'
  <2>1. /\ connected' = connected \cup {d} /\ UNCHANGED <<log, state, downlink>>
        /\ d \notin connected \cup gone
        /\ serverEvents' = Append(serverEvents, ClientConnected(d))
        /\ ClientConnected(d) \in Notice
    BY <1>5 DEF Enters, ClientConnected, Notice
  <2>2. CASE c # d
    <3>1. /\ Len(serverEvents) \in Nat /\ Len(serverEvents') = Len(serverEvents) + 1
          /\ \A k \in 1..Len(serverEvents) : serverEvents'[k] = serverEvents[k]
          /\ serverEvents'[Len(serverEvents) + 1] = ClientConnected(d)
      BY <1>1, <2>1, NoticeAdded
    <3>2. ClientConnected(c) # ClientConnected(d)
      BY <2>2, NoticesDiffer
    <3>3. Announced(c)' <=> Announced(c)
      BY <3>1, <3>2 DEF Announced, ClientConnected
    <3> QED
      BY <1>3, <1>5, <2>1, <2>2, <3>3, BarrenStays
  <2>3. CASE c = d
    <3>1. downlink[d] = << >>
      BY <2>1 DEF Recorded, Folded, SInv, SentSoFar
    <3>2. Announced(d)'
      BY <1>1, <2>1, NoticeAdded DEF Announced
    <3>3. << >> \in Seq(GameEvent) /\ log = (log \o << >>) \o << >>
      BY <1>1, ConcatEmptySeq
    <3>4. hydrate(<< >>).players[0] = NoPlayer
      <4>1. hydrate(<< >>) = DefaultState
        BY ReplayNothing DEF hydrate
      <4> QED
        BY <4>1 DEF DefaultState
    <3>5. Prelude(d, log, << >>, << >>)'
      BY <2>1, <3>1, <3>2, <3>3, <3>4 DEF Prelude
    <3>6. \E before, again, after \in Seq(GameEvent) : Prelude(d, before, again, after)'
      BY <1>1, <2>1, <3>3, <3>5 DEF Prelude
    <3> QED
      BY <2>3, <3>6 DEF Told
  <2> QED
    BY <2>2, <2>3
<1>6. ASSUME NEW d \in Clients, Leaves(d) PROVE Told(c)'
  <2>1. /\ connected' = connected \ {d} /\ UNCHANGED <<log, state>>
        /\ downlink' = [downlink EXCEPT ![d] = << >>]
        /\ serverEvents' = Append(serverEvents, ClientDisconnected(d))
        /\ ClientDisconnected(d) \in Notice
    BY <1>6 DEF Leaves, ClientDisconnected, Notice
  <2>2. c \in connected /\ c # d /\ downlink'[c] = downlink[c]
    BY <1>1, <2>1
  <2>3. Announced(c)' <=> Announced(c)
    BY <1>1, <2>1, NoticeAdded, NoticesDiffer DEF Announced
  <2> QED
    BY <1>3, <1>6, <2>1, <2>2, <2>3, BarrenStays
<1>7. ASSUME NEW d \in Clients, Greets(d) PROVE Told(c)'
  <2>1. /\ handle(JoinGame(d), catch_up(d)) /\ connected' = connected
        /\ serverEvents # << >> /\ serverEvents' = Tail(serverEvents)
        /\ Head(serverEvents) = ClientConnected(d) /\ UNCHANGED <<connected, gone>>
    BY <1>7 DEF Greets, Notes
  <2>2. JoinGame(d) \in Commands /\ JoinGame(d).type = "JoinGame"
    BY OwnCommands DEF JoinGame
  <2>3. c \in Clients /\ (Announced(c)' <=> Announced(c) /\ c # d)
    <3>1. c \in Clients /\ AnnouncedOnce(c)
      BY <1>1, <2>1
    <3>2. Announced(c)' <=> Announced(c) /\ ClientConnected(d) # ClientConnected(c)
      BY <1>1, <2>1, <3>1, AnnouncementTaken
    <3> QED
      BY <3>1, <3>2, NoticesDiffer
  <2>4. Announced(d)
    BY <1>7, GreetedKnown
  <2>5. catch_up(d) \in [Clients -> Seq(GameEvent)]
    <3>1. downlink[d] \o log \in Seq(GameEvent)
      BY <1>1, ConcatProperties
    <3> QED
      BY <1>1, <3>1 DEF catch_up, send_to
  <2>6. catch_up(d)[c] = IF c = d THEN downlink[c] \o log ELSE downlink[c]
    BY <1>1, <2>1, <2>3 DEF catch_up, send_to
  <2>7. catch_up(d)[c] = IF Announced(c) /\ ~ Announced(c)' THEN downlink[c] \o log ELSE downlink[c]
    BY <2>3, <2>4, <2>6
  <2>8. Barren(c) => Barren(c)'
    BY <1>7, <2>1, BarrenStays
  <2>9. Announced(c)' /\ state.stage = "Lobby" /\ state'.stage # "Lobby" => Barren(c)'
    BY <1>7, <2>1, <2>3, SetOffUnseen
  <2>10. Announced(c)' => Announced(c) /\ JoinGame(d).type # "PlaceTile"
    BY <2>2, <2>3
  <2> QED
    BY <2>1, <2>2, <2>5, <2>7, <2>8, <2>9, <2>10, ToldHandled
<1>8. ASSUME NEW d \in Clients, Misses(d) PROVE Told(c)'
  <2>1. /\ handle(LeaveGame(d), downlink) /\ connected' = connected
        /\ serverEvents # << >> /\ serverEvents' = Tail(serverEvents)
        /\ Head(serverEvents) = ClientDisconnected(d) /\ UNCHANGED <<connected, gone>>
    BY <1>8 DEF Misses, Notes
  <2>2. LeaveGame(d) \in Commands /\ LeaveGame(d).type = "LeaveGame"
    BY OwnCommands DEF LeaveGame
  <2>3. Announced(c)' <=> Announced(c)
    <3>1. c \in Clients /\ AnnouncedOnce(c)
      BY <1>1, <2>1
    <3>2. Announced(c)' <=> Announced(c) /\ ClientDisconnected(d) # ClientConnected(c)
      BY <1>1, <2>1, <3>1, AnnouncementTaken
    <3> QED
      BY <3>2, NoticesDiffer
  <2>4. Barren(c) => Barren(c)'
    BY <1>8, <2>1, BarrenStays
  <2>5. state.stage = "Lobby" => state'.stage = "Lobby"
    <3>1. PICK events : Outcome(LeaveGame(d), events)
      BY <2>1, <2>2, HandleOutcome
    <3> QED
      BY <2>2, <3>1 DEF Outcome, Rejected, Departs
  <2>6. Announced(c)' => Announced(c) /\ LeaveGame(d).type # "PlaceTile"
    BY <2>2, <2>3
  <2>7. Announced(c)' /\ state.stage = "Lobby" /\ state'.stage # "Lobby" => Barren(c)'
    BY <2>5
  <2>8. downlink[c] = IF Announced(c) /\ ~ Announced(c)' THEN downlink[c] \o log ELSE downlink[c]
    BY <2>3
  <2> QED
    BY <1>1, <2>1, <2>2, <2>4, <2>6, <2>7, <2>8, ToldHandled
<1>9. ASSUME NEW cmd \in Commands, Takes(cmd) PROVE Told(c)'
  <2>1. /\ handle(cmd, downlink) /\ connected' = connected /\ serverEvents = << >>
        /\ serverEvents' = serverEvents
    BY <1>9 DEF Takes
  <2>2. ~ Announced(c) /\ ~ Announced(c)'
    BY <2>1 DEF Announced
  <2>3. Barren(c) => Barren(c)'
    BY <1>9, <2>1, BarrenStays
  <2>4. Announced(c)' => Announced(c) /\ cmd.type # "PlaceTile"
    BY <2>2
  <2>5. Announced(c)' /\ state.stage = "Lobby" /\ state'.stage # "Lobby" => Barren(c)'
    BY <2>2
  <2>6. downlink[c] = IF Announced(c) /\ ~ Announced(c)' THEN downlink[c] \o log ELSE downlink[c]
    BY <2>2
  <2> QED
    BY <1>1, <2>1, <2>3, <2>4, <2>5, <2>6, ToldHandled
<1> QED
  BY <1>2, <1>4, <1>5, <1>6, <1>7, <1>8, <1>9, StepKinds

-----------------------------------------------------------------------------
(* The copies of the game.                                                 *)

\* The invariant of the clients: what the loop has recorded, what is on its way
\* to it, and what the clients have been told.
CInv ==
  /\ Recorded /\ Arrivals /\ Missed /\ Crowded
  /\ \A c \in connected : Told(c)

LEMMA InitCInv == Init => CInv
BY InitRecorded, InitArrivals, InitCrowd, InitTold DEF CInv

LEMMA StepCInv ==
  ASSUME MaxClients <= 2
  PROVE  CInv /\ [Next]_vars => CInv'
<1> SUFFICES ASSUME CInv, [Next]_vars PROVE CInv'
  OBVIOUS
<1>1. Recorded' /\ Arrivals'
  BY StepRecorded, StepArrivals DEF CInv
<1>2. Missed' /\ Crowded'
  BY StepCrowd DEF CInv
<1>3. \A c \in connected' : Told(c)'
  BY StepTold DEF CInv
<1> QED
  BY <1>1, <1>2, <1>3 DEF CInv

\* What a greeted client has been sent: the log, behind a stretch of it that
\* does not spoil what it makes of the log.
LEMMA StreamRetold ==
  ASSUME CInv, NEW c \in connected, ~ Announced(c)
  PROVE  \E again \in Seq(GameEvent) :
           /\ downlink[c] = again \o log
           /\ \A k \in 1..Len(again) : again[k] \in SoundEvent /\ again[k].type # "TilePlaced"
           /\ \A k \in 1..Len(again) : \E m \in 1..Len(log) : again[k] = log[m]
           /\ state.stage # "Lobby" =>
                hydrate(again).players[0] \in {NoPlayer, state.players[0]} \/ Bare
<1>1. PICK before \in Seq(GameEvent), again \in Seq(GameEvent), after \in Seq(GameEvent) :
        Prelude(c, before, again, after)
  BY DEF CInv, Told
<1>2. log = (before \o again) \o after /\ downlink[c] = again \o log
  BY <1>1 DEF Prelude
<1>3. \A k \in 1..Len(again) : \E m \in 1..Len(log) : again[k] = log[m]
  BY <1>2, ToldFromLog
<1>4. log \in Seq(GameEvent) /\ \A k \in 1..Len(log) : log[k] \in SoundEvent
  BY OrderlySound DEF CInv, Recorded, Folded, SInv, SessionTypes
<1>5. \A k \in 1..Len(again) : again[k] \in SoundEvent /\ again[k].type # "TilePlaced"
  BY <1>1, <1>3, <1>4 DEF Prelude
<1> QED
  BY <1>1, <1>2, <1>3, <1>5 DEF Prelude, Barren

\* What the log does not tell of, no client has read of.
LEMMA LobbySilent ==
  ASSUME Recorded, state.stage = "Lobby"
  PROVE  \A m \in 1..Len(log) : log[m].type \notin {"GameStarted", "GameEnded", "TilePlaced"}
<1>1. log \in Seq(GameEvent) /\ Orderly(log) /\ state = hydrate(log)
  BY DEF Recorded, Folded, SInv, SessionTypes, LogReplayed
<1>2. Len(log) \in 0..Len(log)
  BY <1>1
<1>3. /\ Seated(log, Len(log)) /\ Moved(log, Len(log)) /\ Finished(log, Len(log))
      /\ At(log, Len(log)) = state
  BY <1>1, <1>2, LogSeats, LogMoves, LogFinishes, AtEnd
<1>4. Of(log, "GameEnded", Len(log)) = {}
  BY <1>3 DEF Finished
<1>5. Of(log, "TilePlaced", Len(log)) = {}
  BY <1>3 DEF Moved
<1>6. Of(log, "GameStarted", Len(log)) = {}
  BY <1>3 DEF Seated
<1> QED
  BY <1>4, <1>5, <1>6 DEF Of

\* An up-to-date copy agrees with the server's state.
LEMMA CopyAgrees ==
  ASSUME CInv, NEW c \in Clients, UpToDate(c)
  PROVE  /\ view[c].stage = state.stage /\ view[c].board = state.board
         /\ view[c].active_player_id = state.active_player_id
<1>1. /\ Recorded /\ log \in Seq(GameEvent) /\ Orderly(log) /\ state = hydrate(log)
  BY DEF CInv, Recorded, Folded, SInv, SessionTypes, LogReplayed
<1>2. c \in connected /\ ~ Announced(c) /\ read[c] = Len(downlink[c])
  BY DEF UpToDate, Greeted, Announced
<1>3. PICK again \in Seq(GameEvent) :
        /\ downlink[c] = again \o log
        /\ \A k \in 1..Len(again) : again[k] \in SoundEvent /\ again[k].type # "TilePlaced"
        /\ \A k \in 1..Len(again) : \E m \in 1..Len(log) : again[k] = log[m]
        /\ state.stage # "Lobby" =>
             hydrate(again).players[0] \in {NoPlayer, state.players[0]} \/ Bare
  BY <1>2, StreamRetold
<1>4. Len(log) \in 0..Len(log) /\ Len(again) + Len(log) = Len(downlink[c])
  BY <1>1, <1>3, ConcatProperties
<1>5. view[c] = At(again \o log, Len(again) + Len(log)) /\ At(log, Len(log)) = state
  BY <1>1, <1>2, <1>3, <1>4, CopyAt, AtEnd
<1>6. Retold(again, log, Len(log))
  BY <1>1, <1>3, <1>4, LogRetold
<1>7. CASE state.stage # "Lobby"
  BY <1>3, <1>5, <1>6, <1>7 DEF Retold, Bare
<1>8. CASE state.stage = "Lobby"
  <2>1. \A m \in 1..Len(log) : log[m].type \notin {"GameStarted", "GameEnded", "TilePlaced"}
    BY <1>1, <1>8, LobbySilent
  <2>2. /\ \A k \in 1..Len(downlink[c]) : downlink[c][k] \in SoundEvent
        /\ \A k \in 1..Len(downlink[c]) : \E m \in 1..Len(log) : downlink[c][k] = log[m]
        /\ downlink[c] \in Seq(GameEvent)
    BY <1>1, HeardFromLog
  <2>3. \A k \in (0 + 1)..Len(downlink[c]) :
          downlink[c][k].type \notin {"GameStarted", "GameEnded", "TilePlaced"}
    BY <2>1, <2>2
  <2>4. /\ \A m \in 1..Len(log) : log[m] \in SoundEvent
        /\ \A m \in (0 + 1)..Len(log) : log[m].type \notin {"GameStarted", "GameEnded", "TilePlaced"}
    BY <1>1, <2>1, OrderlySound
  <2>5. /\ Stays(downlink[c], 0, Len(downlink[c])) /\ At(downlink[c], 0) = DefaultState
        /\ Stays(log, 0, Len(log)) /\ At(log, 0) = DefaultState
    <3>1. 0 \in 0..Len(downlink[c]) /\ Len(downlink[c]) \in 0..Len(downlink[c])
          /\ 0 \in 0..Len(log) /\ Len(log) \in 0..Len(log)
      BY <1>1, <2>2
    <3> QED
      BY <1>1, <2>2, <2>4, <3>1, StretchStays, AtStart
  <2>6. view[c] = At(downlink[c], Len(downlink[c]))
    BY <1>1, <1>2, CopyAt
  <2> QED
    BY <1>5, <2>3, <2>4, <2>5, <2>6 DEF Stays
<1> QED
  BY <1>7, <1>8

(* With two slots on the server, as it has them (server/src/main.rs:37), a *)
(* client that has read all it was sent sees stage, board and turn of the  *)
(* server's state, whatever it was told before its catch-up.               *)
THEOREM CopiesConverge ==
  ASSUME MaxClients <= 2
  PROVE  Spec => []ViewsConverge
<1>1. Init => CInv
  BY InitCInv
<1>2. CInv /\ [Next]_vars => CInv'
  BY StepCInv
<1>3. CInv => ViewsConverge
  BY CopyAgrees DEF ViewsConverge
<1> QED
  BY <1>1, <1>2, <1>3, PTL DEF Spec

-----------------------------------------------------------------------------
(* What the players read.                                                  *)

\* A frame reads on in the stream, and makes of it what a replay would.
LEMMA FrameReads ==
  ASSUME Recorded, NEW c \in Clients, NEW arrived \in Unread(c), Frame(c, arrived)
  PROVE  /\ downlink' = downlink /\ read[c] \in Nat /\ read[c] <= read'[c]
         /\ read'[c] \in 0..Len(downlink[c]) /\ view'[c] = At(downlink[c], read'[c])
<1>1. c \in connected /\ connected' = connected /\ downlink' = downlink
      /\ receive_server_events(c, SubSeq(downlink[c], read[c] + 1, read[c] + arrived))
  BY DEF Frame, renet
<1>2. read[c] \in Nat /\ read[c] <= read'[c]
  <2> DEFINE events == SubSeq(downlink[c], read[c] + 1, read[c] + arrived)
  <2>1. read'[c] = read[c] + Len(events) /\ read[c] \in Nat /\ downlink[c] \in Seq(GameEvent)
    BY <1>1, HeardFromLog DEF Recorded, Folded, receive_server_events
  <2>2. arrived \in Nat /\ read[c] + arrived <= Len(downlink[c])
    <3>1. Len(downlink[c]) \in Nat /\ read[c] \in Nat
      BY <2>1
    <3> HIDE DEF events
    <3> QED
      BY <3>1 DEF Unread
  <2>3. \A k \in (read[c] + 1)..(read[c] + arrived) : downlink[c][k] \in GameEvent
    BY <2>1, <2>2
  <2>4. Len(events) \in Nat
    BY <2>1, <2>2, <2>3, SubSeqProperties
  <2> HIDE DEF events
  <2> QED
    BY <2>1, <2>4
<1>3. CopyIsReplay(c)'
  BY FrameReplays DEF Recorded
<1>4. PICK done \in Seq(GameEvent), rest \in Seq(GameEvent) :
        downlink'[c] = done \o rest /\ read'[c] = Len(done) /\ view'[c] = hydrate(done)
  BY <1>1, <1>3 DEF CopyIsReplay
<1>5. InParts(done, rest, downlink[c]) /\ Len(done) \in 0..Len(done)
  BY <1>1, <1>4, ConcatParts
<1>6. At(done \o rest, Len(done)) = At(done, Len(done)) /\ At(done, Len(done)) = hydrate(done)
  BY <1>5, AtPrefix, AtEnd
<1> QED
  BY <1>1, <1>2, <1>4, <1>5, <1>6 DEF InParts

\* The texts of a turn and of an end, whatever pair of players they name.
TurnTold(c, p, said) ==
  IF p = c THEN said.text = "YourTurn"
  ELSE said.text = "Turn" /\ said.who \in {p, NoPlayer}

EndTold(c, event, said) ==
  /\ event.reason = "Draw" => said.text = "Draw"
  /\ event.reason = "PlayerLeft" => said.text = "OpponentLeft"
  /\ event.reason = "PlayerWon" =>
       IF event.player_id = c THEN said.text = "YouWin"
       ELSE said.text = "Wins" /\ said.who \in {event.player_id, NoPlayer}

LEMMA TextsTell ==
  ASSUME NEW c, NEW names
  PROVE  /\ \A s \in GameState : TurnTold(c, s.active_player_id, TurnText(c, s, names))
         /\ \A event \in GameEvent : event.type = "GameEnded" =>
              EndTold(c, event, EndText(c, event, names))
<1>1. \A p : name_of(names, p) \in {p, NoPlayer}
  BY DEF name_of
<1>2. \A text, who : Text(text, who).text = text /\ Text(text, who).who = who
  BY DEF Text
<1>3. ASSUME NEW s \in GameState PROVE TurnTold(c, s.active_player_id, TurnText(c, s, names))
  BY <1>1, <1>2 DEF TurnTold, TurnText
<1>4. ASSUME NEW event \in GameEvent, event.type = "GameEnded"
      PROVE  EndTold(c, event, EndText(c, event, names))
  <2>1. event.reason \in {"PlayerWon", "Draw", "PlayerLeft"}
    BY <1>4 DEF GameEvent
  <2>2. CASE event.reason = "Draw"
    BY <1>2, <2>2 DEF EndTold, EndText
  <2>3. CASE event.reason = "PlayerLeft"
    BY <1>2, <2>3 DEF EndTold, EndText
  <2>4. CASE event.reason = "PlayerWon"
    BY <1>1, <1>2, <2>4 DEF EndTold, EndText
  <2> QED
    BY <2>1, <2>2, <2>3, <2>4
<1> QED
  BY <1>3, <1>4

\* The status line says what the client's own copy says, and how the game ended
\* is what the client has heard.
Reads(c) ==
  /\ view[c].stage = "Lobby" => status[c].text = "Waiting"
  /\ view[c].stage = "InGame" => TurnTold(c, view[c].active_player_id, status[c])
  /\ view[c].stage = "Ended" =>
       \E k \in 1..read[c] :
         downlink[c][k].type = "GameEnded" /\ EndTold(c, downlink[c][k], status[c])

\* A frame's update_status: of the events it reads, the last that tells.
LEMMA FrameTells ==
  ASSUME Recorded, NEW c \in Clients, Reads(c), NEW arrived \in Unread(c), Frame(c, arrived)
  PROVE  Reads(c)'
<1> DEFINE M == downlink[c]
           r == read[c]
           q == read'[c]
           s == view[c]
           t == view'[c]
<1>1. /\ downlink' = downlink /\ r \in Nat /\ r <= q /\ q \in 0..Len(M) /\ t = At(M, q)
      /\ s = At(M, r)
  BY FrameReads, CopyAt
<1>2. M \in Seq(GameEvent) /\ \A k \in 1..Len(M) : M[k] \in SoundEvent /\ M[k] \in GameEvent
  BY HeardFromLog DEF SoundEvent
<1>3. s \in GameState /\ t \in GameState /\ t.stage \in Stage /\ r \in 0..Len(M) /\ q \in r..Len(M)
  <2>1. r \in 0..Len(M) /\ q \in r..Len(M) /\ q \in 0..Len(M)
    BY <1>1, <1>2
  <2>2. s \in GameState /\ t \in GameState
    BY <1>1, <1>2, <2>1, AtTyped
  <2> QED
    BY <2>1, <2>2 DEF GameState
<1> DEFINE telling == Telling(c, {"GameStarted", "TilePlaced"}, t.stage)
<1>4. PICK names : Tell(c, t, names, telling)
  BY DEF Frame, update_status
<1>5. /\ telling \subseteq 1..q /\ \A k \in telling : k > r
      /\ \A k \in (r + 1)..q : k \in telling <=>
           (M[k].type \in {"GameStarted", "TilePlaced"} /\ t.stage = "InGame") \/ M[k].type = "GameEnded"
  BY <1>1 DEF Telling, New
<1>6. telling = {} => status'[c] = status[c]
  BY <1>4 DEF Tell
<1>7. ASSUME telling # {}
      PROVE  /\ Max(telling) \in telling /\ \A k \in telling : k <= Max(telling)
             /\ M[Max(telling)].type = "GameEnded" => EndTold(c, M[Max(telling)], status'[c])
             /\ M[Max(telling)].type # "GameEnded" => TurnTold(c, t.active_player_id, status'[c])
  <2> HIDE DEF telling
  <2>1. Max(telling) \in telling /\ \A k \in telling : k <= Max(telling)
    BY <1>1, <1>5, <1>7, LastPosition
  <2>2. M[Max(telling)] \in GameEvent
    <3>1. Max(telling) \in 1..q
      BY <1>5, <2>1
    <3>2. \A k \in 1..q : k \in 1..Len(M)
      <4>1. Len(M) \in Nat
        BY <1>2
      <4> HIDE DEF q, M
      <4> QED
        BY <1>1, <4>1
    <3> QED
      BY <1>2, <3>1, <3>2
  <2>3. status'[c] = IF M[Max(telling)].type = "GameEnded" THEN EndText(c, M[Max(telling)], names)
                     ELSE TurnText(c, t, names)
    BY <1>4, <1>7 DEF Tell, Recorded
  <2>4. TurnTold(c, t.active_player_id, TurnText(c, t, names))
    BY <1>3, TextsTell
  <2>5. M[Max(telling)].type = "GameEnded" =>
          EndTold(c, M[Max(telling)], EndText(c, M[Max(telling)], names))
    BY <2>2, TextsTell
  <2> QED
    BY <2>1, <2>3, <2>4, <2>5
<1>8. ASSUME NEW k \in (r + 1)..q, M[k].type = "GameEnded"
      PROVE  /\ t.stage # "Lobby"
             /\ (\A l \in (k + 1)..q : M[l].type \notin {"GameStarted", "GameEnded"}) =>
                  t.stage = "Ended"
  <2>1. /\ k - 1 \in Nat /\ k - 1 < Len(M) /\ (k - 1) + 1 = k
        /\ k \in 0..Len(M) /\ q \in k..Len(M)
    BY <1>1, <1>2
  <2>2. Fields(At(M, k - 1), M[k], At(M, k))
    BY <1>2, <2>1, SoundOnward
  <2>3. At(M, k).stage = "Ended"
    BY <1>8, <2>2 DEF Fields
  <2>4. Stays(M, k, q)
    BY <1>2, <2>1, StretchStays
  <2> QED
    BY <1>1, <2>3, <2>4 DEF Stays
<1>9. Stays(M, r, q)
  BY <1>2, <1>3, StretchStays
<1>10. CASE t.stage = "Lobby"
  <2>1. s.stage = "Lobby"
    BY <1>1, <1>9, <1>10 DEF Stays
  <2>2. telling = {}
    <3>1. ASSUME NEW k \in telling PROVE FALSE
      <4>1. k \in (r + 1)..q
        BY <1>1, <1>5, <3>1
      <4>2. M[k].type = "GameEnded"
        BY <1>5, <1>10, <3>1, <4>1
      <4> QED
        BY <1>8, <1>10, <4>1, <4>2
    <3> QED
      BY <3>1
  <2> QED
    BY <1>6, <1>10, <2>1, <2>2 DEF Reads
<1>11. CASE t.stage = "InGame"
  <2>1. CASE telling = {}
    <3>1. \A k \in (r + 1)..q : M[k].type \notin {"GameStarted", "TilePlaced", "GameEnded"}
      <4> HIDE DEF telling
      <4> QED
        BY <1>5, <1>11, <2>1
    <3>2. s.stage = "InGame" /\ t.active_player_id = s.active_player_id
      BY <1>1, <1>9, <1>11, <3>1 DEF Stays
    <3> QED
      BY <1>6, <1>11, <2>1, <3>2 DEF Reads
  <2>2. CASE telling # {}
    <3> DEFINE l == Max(telling)
    <3>1. l \in telling /\ (\A k \in telling : k <= l) /\ l \in (r + 1)..q
      BY <1>1, <1>5, <1>7, <2>2
    <3>2. M[l].type # "GameEnded"
      <4> SUFFICES ASSUME M[l].type = "GameEnded" PROVE FALSE
        OBVIOUS
      <4> HIDE DEF telling, l
      <4>1. ASSUME NEW k \in (l + 1)..q PROVE M[k].type \notin {"GameStarted", "GameEnded"}
        <5>1. k \in (r + 1)..q /\ ~ (k <= l)
          BY <1>1, <3>1
        <5>2. k \notin telling
          BY <3>1, <5>1
        <5> QED
          BY <1>5, <1>11, <5>1, <5>2
      <4> QED
        BY <1>8, <1>11, <3>1, <4>1
    <3>3. TurnTold(c, t.active_player_id, status'[c])
      BY <1>7, <2>2, <3>2
    <3> QED
      BY <1>11, <3>3 DEF Reads
  <2> QED
    BY <2>1, <2>2
<1>12. CASE t.stage = "Ended"
  <2>1. CASE telling = {}
    <3>1. \A k \in (r + 1)..q : M[k].type # "GameEnded"
      <4> HIDE DEF telling
      <4> QED
        BY <1>5, <2>1
    <3>2. s.stage = "Ended"
      BY <1>1, <1>9, <1>12, <3>1 DEF Stays
    <3>3. PICK k \in 1..r : M[k].type = "GameEnded" /\ EndTold(c, M[k], status[c])
      BY <3>2 DEF Reads
    <3>4. k \in 1..q
      BY <1>1
    <3> QED
      BY <1>1, <1>6, <1>12, <2>1, <3>3, <3>4 DEF Reads
  <2>2. CASE telling # {}
    <3> DEFINE l == Max(telling)
    <3>1. l \in telling /\ l \in (r + 1)..q /\ l \in 1..q
      BY <1>1, <1>5, <1>7, <2>2
    <3>2. M[l].type = "GameEnded"
      BY <1>5, <1>12, <3>1
    <3>3. EndTold(c, M[l], status'[c])
      BY <1>7, <2>2, <3>2
    <3> QED
      BY <1>1, <1>12, <3>1, <3>2, <3>3 DEF Reads
  <2> QED
    BY <2>1, <2>2
<1> QED
  BY <1>3, <1>10, <1>11, <1>12 DEF Stage

LEMMA StepReads ==
  ASSUME Recorded, [Next]_vars, NEW c \in Clients, Reads(c)
  PROVE  Reads(c)'
<1>1. CASE Starts(c)
  BY <1>1 DEF Starts, Idle, Reads, Waiting, Text, DefaultState
<1>2. CASE Runs(c)
  BY <1>2, FrameTells DEF Runs
<1>3. CASE Shows(c)
  <2>1. PICK more \in Seq(GameEvent) : downlink'[c] = downlink[c] \o more
    BY <1>3 DEF Shows
  <2>2. /\ read'[c] = read[c] /\ view'[c] = view[c] /\ status'[c] = status[c]
        /\ read[c] \in 0..Len(downlink[c]) /\ downlink[c] \in Seq(GameEvent)
    BY <1>3, CopyAt, HeardFromLog DEF Shows
  <2>3. InParts(downlink[c], more, downlink'[c])
    BY <2>1, <2>2, ConcatParts
  <2>4. \A k \in 1..read[c] : downlink'[c][k] = downlink[c][k]
    <3>1. \A k \in 1..read[c] : k \in 1..Len(downlink[c])
      BY <2>2
    <3> QED
      BY <2>3, <3>1 DEF InParts
  <2> QED
    BY <2>2, <2>4 DEF Reads
<1> QED
  BY <1>1, <1>2, <1>3, ClientSteps

\* Only clients are said to have left.
Leavers == \A m \in 1..Len(log) : log[m].type = "PlayerLeft" => log[m].player_id \in Clients

LEMMA StepLeavers ==
  ASSUME Recorded, [Next]_vars, Leavers
  PROVE  Leavers'
<1>1. ASSUME NEW cmd \in Commands, NEW streams, handle(cmd, streams) PROVE Leavers'
  <2>1. PICK events \in Seq(GameEvent) : log' = log \o events /\ Outcome(cmd, events)
    BY <1>1, HandleOutcome
  <2>2. cmd.player_id \in Clients /\ log \in Seq(GameEvent)
    BY DEF Commands, Recorded, Folded, SInv, SessionTypes
  <2>3. ASSUME NEW k \in 1..Len(events), events[k].type = "PlayerLeft"
        PROVE  events[k].player_id \in Clients
    <3>1. \A p, q, b : /\ PlayerJoined(p).type = "PlayerJoined" /\ GameStarted(p).type = "GameStarted"
                       /\ TilePlaced(p, b).type = "TilePlaced" /\ PlayerLeft(p).player_id = p
                       /\ GameEnded(q, p).type = "GameEnded"
      BY DEF PlayerJoined, GameStarted, TilePlaced, PlayerLeft, GameEnded
    <3>2. CASE Rejected(events)
      BY <2>3, <3>2 DEF Rejected
    <3>3. CASE SitsDown(cmd.player_id, events) \/ SetsOff(cmd.player_id, events)
      BY <2>3, <3>1, <3>3 DEF SitsDown, SetsOff
    <3>4. CASE Plays(cmd.player_id, cmd.at, events)
      BY <2>3, <3>1, <3>4 DEF Plays
    <3>5. CASE Departs(cmd.player_id, events)
      BY <2>2, <2>3, <3>1, <3>5 DEF Departs
    <3> QED
      BY <2>1, <3>2, <3>3, <3>4, <3>5 DEF Outcome
  <2>4. InParts(log, events, log')
    BY <2>1, <2>2, ConcatParts
  <2>5. ASSUME NEW m \in 1..Len(log'), log'[m].type = "PlayerLeft" PROVE log'[m].player_id \in Clients
    <3>1. CASE m \in 1..Len(log)
      BY <2>4, <2>5, <3>1 DEF InParts, Leavers
    <3>2. CASE m \notin 1..Len(log)
      <4>1. m - Len(log) \in 1..Len(events) /\ Len(log) + (m - Len(log)) = m
        BY <2>4, <3>2 DEF InParts
      <4>2. log'[m] = events[m - Len(log)]
        BY <2>4, <4>1 DEF InParts
      <4> QED
        BY <2>3, <2>5, <4>1, <4>2
    <3> QED
      BY <3>1, <3>2
  <2> QED
    BY <2>5 DEF Leavers
<1>2. CASE Resets
  BY <1>2 DEF Resets, Leavers
<1>3. CASE log' = log
  BY <1>3 DEF Leavers
<1>4. ASSUME NEW d \in Clients, Greets(d) \/ Misses(d) PROVE Leavers'
  <2>1. JoinGame(d) \in Commands /\ LeaveGame(d) \in Commands
    BY OwnCommands
  <2> QED
    BY <1>1, <1>4, <2>1 DEF Greets, Misses, Notes
<1>5. ASSUME NEW cmd \in Commands, Takes(cmd) PROVE Leavers'
  BY <1>1, <1>5 DEF Takes
<1> QED
  BY <1>2, <1>3, <1>4, <1>5, StepKinds DEF Moves, Enters, Leaves

\* How a game has ended, as the log puts it.
LEMMA EndOnRecord ==
  ASSUME Recorded, Leavers, NEW m \in 1..Len(log), log[m].type = "GameEnded"
  PROVE  /\ log[m] = GameEnded(log[m].reason, log[m].player_id)
         /\ log[m].reason \in {"PlayerWon", "Draw", "PlayerLeft"}
         /\ log[m].reason = "Draw" => log[m].player_id = NoPlayer
         /\ log[m].reason # "Draw" => log[m].player_id \in Players
<1>1. log \in Seq(GameEvent) /\ Orderly(log) /\ Clients \subseteq Players /\ NoPlayer \notin Players
  BY ClientsArePlayers, SentinelIsNoPlayer DEF Recorded, Folded, SInv, SessionTypes
<1>2. log[m] \in GameEvent
  BY <1>1
<1>3. InPlace(At(log, m - 1), log[m - 1], log[m])
  BY <1>1 DEF Orderly
<1>4. /\ log[m] = GameEnded(log[m].reason, log[m].player_id)
      /\ log[m].reason \in {"PlayerWon", "Draw", "PlayerLeft"}
  BY <1>2 DEF GameEvent, GameEnded
<1>5. m - 1 \in 1..Len(log)
  <2>1. At(log, m - 1).stage = "InGame"
    BY <1>3 DEF InPlace
  <2>2. m - 1 # 0
    BY <1>1, <2>1, AtStart DEF DefaultState
  <2> QED
    BY <1>1, <2>2
<1>6. CASE log[m].reason = "Draw"
  BY <1>3, <1>4, <1>6 DEF InPlace
<1>7. CASE log[m].reason = "PlayerLeft"
  <2>1. log[m - 1] = PlayerLeft(log[m].player_id)
    BY <1>3, <1>7 DEF InPlace
  <2>2. log[m - 1].type = "PlayerLeft" /\ log[m - 1].player_id = log[m].player_id
    BY <2>1 DEF PlayerLeft
  <2> QED
    BY <1>1, <1>4, <1>5, <1>7, <2>2 DEF Leavers
<1>8. CASE log[m].reason = "PlayerWon"
  <2>1. log[m - 1].type = "TilePlaced" /\ log[m - 1].player_id = log[m].player_id
    BY <1>3, <1>8 DEF InPlace
  <2>2. m - 1 \in 0..Len(log) /\ m - 1 \in Nat
    BY <1>5
  <2>3. Seated(log, m - 1) /\ Moved(log, m - 1)
    BY <1>1, <2>2, LogSeats, LogMoves
  <2>4. m - 1 \in Of(log, "TilePlaced", m - 1)
    BY <1>5, <2>1, <2>2 DEF Of
  <2>5. log[m].player_id \in {At(log, m - 1).players[0], At(log, m - 1).players[1]}
    BY <2>1, <2>3, <2>4 DEF Moved, Side
  <2>6. At(log, m - 1).players[0] # NoPlayer /\ At(log, m - 1).players[1] # NoPlayer
    BY <2>3, <2>4 DEF Seated, Moved
  <2>7. log[m].player_id \in PlayerId
    BY <1>2, <1>8 DEF GameEvent
  <2> QED
    BY <1>4, <1>8, <2>5, <2>6, <2>7 DEF PlayerId
<1> QED
  BY <1>4, <1>6, <1>7, <1>8

(* With two slots on the server (server/src/main.rs:37), the status line   *)
(* of a client that has read all it was sent tells whose turn it is in the *)
(* server's state, or how the game ended as the server's log has it: the   *)
(* arms of update_status that leave the text alone leave it right          *)
(* (client/src/main.rs:391-438).                                           *)
THEOREM StatusesAreCurrent ==
  ASSUME MaxClients <= 2
  PROVE  Spec => []StatusIsCurrent
<1> DEFINE Inv == CInv /\ Leavers /\ \A c \in Clients : Reads(c)
<1>1. Init => Inv
  <2> SUFFICES ASSUME Init PROVE Inv
    OBVIOUS
  <2>1. Leavers
    BY DEF Init, ServerInit, Leavers
  <2>2. \A c \in Clients : Reads(c)
    BY DEF Init, ClientInit, Reads, Waiting, Text, DefaultState
  <2> QED
    BY <2>1, <2>2, InitCInv
<1>2. Inv /\ [Next]_vars => Inv'
  <2> SUFFICES ASSUME Inv, [Next]_vars PROVE Inv'
    OBVIOUS
  <2>1. Recorded
    BY DEF CInv
  <2>2. ASSUME NEW c \in Clients PROVE Reads(c)'
    BY <2>1, StepReads
  <2> QED
    BY <2>1, <2>2, StepCInv, StepLeavers
<1>3. Inv => StatusIsCurrent
  <2> SUFFICES ASSUME Inv, NEW c \in Clients, UpToDate(c)
               PROVE  LET text == status[c].text
                          Names(p) == status[c].who \in {p, NoPlayer}
                          Ended(reason, p) == \E k \in 1..Len(log) : log[k] = GameEnded(reason, p)
                      IN  CASE state.stage = "Lobby" -> text = "Waiting"
                            [] state.stage = "InGame" ->
                                 IF state.active_player_id = c THEN text = "YourTurn"
                                 ELSE text = "Turn" /\ Names(state.active_player_id)
                            [] state.stage = "Ended" ->
                                 \/ text = "YouWin" /\ Ended("PlayerWon", c)
                                 \/ text = "Draw" /\ Ended("Draw", NoPlayer)
                                 \/ \E p \in Players \ {c} :
                                      text = "Wins" /\ Names(p) /\ Ended("PlayerWon", p)
                                 \/ \E p \in Players : text = "OpponentLeft" /\ Ended("PlayerLeft", p)
    BY DEF StatusIsCurrent
  <2>1. Recorded /\ Leavers /\ Reads(c) /\ c \in Players
    BY ClientsArePlayers DEF CInv
  <2>2. /\ view[c].stage = state.stage
        /\ view[c].active_player_id = state.active_player_id
    BY CopyAgrees
  <2>3. CASE state.stage = "Lobby"
    BY <2>1, <2>2, <2>3 DEF Reads
  <2>4. CASE state.stage = "InGame"
    BY <2>1, <2>2, <2>4 DEF Reads, TurnTold
  <2>5. CASE state.stage = "Ended"
    <3>1. PICK k \in 1..read[c] :
            downlink[c][k].type = "GameEnded" /\ EndTold(c, downlink[c][k], status[c])
      BY <2>1, <2>2, <2>5 DEF Reads
    <3>2. k \in 1..Len(downlink[c])
      <4>1. read[c] \in 0..Len(downlink[c]) /\ downlink[c] \in Seq(GameEvent)
        BY <2>1, CopyAt, HeardFromLog
      <4> QED
        BY <4>1
    <3>3. PICK m \in 1..Len(log) : downlink[c][k] = log[m]
      BY <2>1, <3>2, HeardFromLog
    <3> DEFINE reason == log[m].reason
               p == log[m].player_id
    <3>4. /\ log[m] = GameEnded(reason, p) /\ reason \in {"PlayerWon", "Draw", "PlayerLeft"}
          /\ reason = "Draw" => p = NoPlayer
          /\ reason # "Draw" => p \in Players
      BY <2>1, <3>1, <3>3, EndOnRecord
    <3>5. EndTold(c, log[m], status[c])
      BY <3>1, <3>3
    <3>6. CASE reason = "Draw"
      BY <2>5, <3>4, <3>5, <3>6 DEF EndTold
    <3>7. CASE reason = "PlayerLeft"
      BY <2>5, <3>4, <3>5, <3>7 DEF EndTold
    <3>8. CASE reason = "PlayerWon"
      BY <2>5, <3>4, <3>5, <3>8 DEF EndTold
    <3> QED
      BY <3>4, <3>6, <3>7, <3>8
  <2>6. state.stage \in Stage
    BY <2>1 DEF Recorded, Folded, SInv, SessionTypes, GameState
  <2> QED
    BY <2>3, <2>4, <2>5, <2>6 DEF Stage
<1> QED
  BY <1>1, <1>2, <1>3, PTL DEF Spec

-----------------------------------------------------------------------------
(* What the players see on the board.                                      *)

\* A piece drawn for the k-th event a client has received.
Depicts(c, piece, k) ==
  /\ downlink[c][k].type = "TilePlaced"
  /\ piece[1] = k /\ piece[2] = downlink[c][k].at
  /\ \/ piece[3] = "?"
     \/ pair[c] # << >> /\ piece[3] = symbol_of(pair[c], downlink[c][k].player_id)

\* One piece for each placement received.
Drawn(c) ==
  /\ \A piece \in pieces[c] : \E k \in 1..read[c] : Depicts(c, piece, k)
  /\ \A piece, other \in pieces[c] : piece[1] = other[1] => piece = other
  /\ \A k \in 1..read[c] : downlink[c][k].type = "TilePlaced" =>
       \E piece \in pieces[c] : piece[1] = k

\* A frame's render_pieces, with the pair it had or the one it has now.
LEMMA FrameDraws ==
  ASSUME Recorded, NEW c \in Clients, PairTaken(c), Drawn(c),
         NEW arrived \in Unread(c), Frame(c, arrived)
  PROVE  Drawn(c)'
<1> DEFINE M == downlink[c]
           r == read[c]
           q == read'[c]
           placed == {k \in New(c) : M[k].type = "TilePlaced"}
<1>1. /\ downlink' = downlink /\ r \in Nat /\ r <= q /\ q \in Nat
      /\ pair[c] # << >> => pair'[c] = pair[c]
  <2>1. /\ downlink' = downlink /\ r \in Nat /\ r <= q /\ q \in 0..Len(M)
    BY FrameReads
  <2>2. pair[c] # << >> => pair'[c] = pair[c]
    BY FramePairs
  <2> QED
    BY <2>1, <2>2
<1>2. PICK names \in {pair[c], pair'[c]} : render_pieces(c, names)
  BY DEF Frame
<1> DEFINE Piece(k) == <<k, M[k].at, symbol_of(names, M[k].player_id)>>
<1>3. pieces'[c] = pieces[c] \cup {Piece(k) : k \in placed}
  BY <1>2 DEF render_pieces, Recorded
<1>4. placed = {k \in (r + 1)..q : M[k].type = "TilePlaced"}
  BY DEF New
<1>5. ASSUME NEW k \in placed, NEW piece, piece = Piece(k)
      PROVE  Depicts(c, piece, k)' /\ k \in 1..q /\ k > r /\ piece[1] = k
  <2>1. k \in (r + 1)..q /\ M[k].type = "TilePlaced"
    BY <1>4
  <2>2. symbol_of(names, M[k].player_id) = "?"
        \/ (pair'[c] # << >> /\ symbol_of(names, M[k].player_id) = symbol_of(pair'[c], M[k].player_id))
    BY <1>1, <1>2 DEF symbol_of
  <2> QED
    BY <1>1, <1>5, <2>1, <2>2 DEF Depicts
<1>6. ASSUME NEW piece, NEW k \in 1..r, Depicts(c, piece, k) PROVE Depicts(c, piece, k)' /\ k \in 1..q
  BY <1>1, <1>6 DEF Depicts
<1>7. ASSUME NEW piece \in pieces'[c] PROVE \E k \in 1..q : Depicts(c, piece, k)'
  <2>1. CASE piece \in pieces[c]
    BY <1>6, <2>1 DEF Drawn
  <2>2. CASE piece \in {Piece(k) : k \in placed}
    <3>1. PICK k \in placed : piece = Piece(k)
      BY <2>2
    <3> HIDE DEF placed, Piece
    <3> QED
      BY <1>5, <3>1
  <2> QED
    BY <1>3, <2>1, <2>2
<1>8. ASSUME NEW piece \in pieces'[c], NEW other \in pieces'[c], piece[1] = other[1]
      PROVE  piece = other
  <2> HIDE DEF placed
  <2>1. \A old \in pieces[c] : old[1] <= r /\ old[1] \in Nat
    BY <1>1 DEF Drawn, Depicts
  <2>2. ASSUME NEW k \in placed PROVE Piece(k)[1] = k /\ k \in Nat /\ ~ (k <= r)
    <3>1. k \in 1..q /\ k > r
      BY <1>5
    <3> QED
      BY <1>1, <3>1
  <2> HIDE DEF Piece
  <2>3. CASE piece \in pieces[c] /\ other \in pieces[c]
    BY <1>8, <2>3 DEF Drawn
  <2>4. CASE piece \in {Piece(k) : k \in placed} /\ other \in {Piece(k) : k \in placed}
    BY <1>8, <2>2, <2>4
  <2>5. CASE piece \in pieces[c] /\ other \in {Piece(k) : k \in placed}
    BY <1>8, <2>1, <2>2, <2>5
  <2>6. CASE piece \in {Piece(k) : k \in placed} /\ other \in pieces[c]
    BY <1>8, <2>1, <2>2, <2>6
  <2> QED
    BY <1>3, <2>3, <2>4, <2>5, <2>6
<1>9. ASSUME NEW k \in 1..q, M[k].type = "TilePlaced" PROVE \E piece \in pieces'[c] : piece[1] = k
  <2>1. CASE k \in 1..r
    BY <1>3, <1>9, <2>1 DEF Drawn
  <2>2. CASE k \notin 1..r
    <3>1. k \in placed
      BY <1>1, <1>4, <1>9, <2>2
    <3>2. Piece(k) \in pieces'[c] /\ Piece(k)[1] = k
      BY <1>3, <3>1
    <3> QED
      BY <3>2
  <2> QED
    BY <2>1, <2>2
<1> QED
  BY <1>1, <1>7, <1>8, <1>9 DEF Drawn

LEMMA StepDraws ==
  ASSUME Recorded, [Next]_vars, NEW c \in Clients, PairTaken(c), Drawn(c)
  PROVE  Drawn(c)'
<1>1. CASE Starts(c)
  BY <1>1 DEF Starts, Idle, Drawn
<1>2. CASE Runs(c)
  BY <1>2, FrameDraws DEF Runs
<1>3. CASE Shows(c)
  <2>1. PICK more \in Seq(GameEvent) : downlink'[c] = downlink[c] \o more
    BY <1>3 DEF Shows
  <2>2. /\ read'[c] = read[c] /\ pair'[c] = pair[c] /\ pieces'[c] = pieces[c]
        /\ read[c] \in 0..Len(downlink[c]) /\ downlink[c] \in Seq(GameEvent)
    BY <1>3, CopyAt, HeardFromLog DEF Shows
  <2>3. InParts(downlink[c], more, downlink'[c])
    BY <2>1, <2>2, ConcatParts
  <2>4. \A k \in 1..read[c] : downlink'[c][k] = downlink[c][k]
    <3>1. \A k \in 1..read[c] : k \in 1..Len(downlink[c])
      BY <2>2
    <3> QED
      BY <2>3, <3>1 DEF InParts
  <2>5. \A piece : \A k \in 1..read[c] : Depicts(c, piece, k) => Depicts(c, piece, k)'
    BY <2>2, <2>4 DEF Depicts
  <2> QED
    BY <2>2, <2>4, <2>5 DEF Drawn
<1> QED
  BY <1>1, <1>2, <1>3, ClientSteps

\* X of the pair is who sits first in the client's own copy.
LEMMA PairSitsFirst ==
  ASSUME Recorded, NEW c \in Clients, PairTaken(c), pair[c] # << >>
  PROVE  pair[c][1] = view[c].players[0]
<1>1. PICK n \in 0..read[c] : \E i, j \in 1..n :
        i < j /\ Joins(c, n) = {i, j} /\ pair[c] = <<Joiner(c, i), Joiner(c, j)>>
  BY DEF PairTaken
<1>2. PICK i \in 1..n, j \in 1..n :
        i < j /\ Joins(c, n) = {i, j} /\ pair[c] = <<Joiner(c, i), Joiner(c, j)>>
  BY <1>1
<1>3. read[c] \in 0..Len(downlink[c]) /\ view[c] = At(downlink[c], read[c])
      /\ downlink[c] \in Seq(GameEvent) /\ \A k \in 1..Len(downlink[c]) : downlink[c][k] \in SoundEvent
  BY CopyAt, HeardFromLog
<1>4. FirstSits(downlink[c], read[c])
  BY <1>3, FirstSitsFirst
<1> DEFINE joins == Of(downlink[c], "PlayerJoined", read[c])
<1>5. i \in joins /\ joins \subseteq 1..read[c]
  BY <1>2, <1>3 DEF Joins, Of
<1>6. PICK first \in joins :
        (\A k \in joins : first <= k) /\ view[c].players[0] = downlink[c][first].player_id
  BY <1>3, <1>4, <1>5 DEF FirstSits
<1>7. first \in Joins(c, n)
  <2>1. first \in 1..n
    BY <1>3, <1>5, <1>6
  <2> QED
    BY <1>6, <2>1 DEF Joins, Of
<1>8. first = i
  BY <1>2, <1>5, <1>6, <1>7
<1> QED
  BY <1>2, <1>6, <1>8 DEF Joiner

\* A placement received is a move of the log, and the log's moves are received.
LEMMA MovesReceived ==
  ASSUME CInv, NEW c \in Clients, UpToDate(c)
  PROVE  \E shift \in Nat :
           /\ \A k \in 1..read[c] : downlink[c][k].type = "TilePlaced" =>
                k - shift \in Of(log, "TilePlaced", Len(log)) /\ downlink[c][k] = log[k - shift]
           /\ \A m \in Of(log, "TilePlaced", Len(log)) :
                shift + m \in 1..read[c] /\ downlink[c][shift + m] = log[m]
<1>1. /\ Recorded /\ c \in connected /\ ~ Announced(c) /\ read[c] = Len(downlink[c])
      /\ log \in Seq(GameEvent)
  BY DEF CInv, Recorded, Folded, SInv, SessionTypes, UpToDate, Greeted, Announced
<1>2. PICK again \in Seq(GameEvent) :
        /\ downlink[c] = again \o log
        /\ \A k \in 1..Len(again) : again[k] \in SoundEvent /\ again[k].type # "TilePlaced"
  BY <1>1, StreamRetold
<1>3. InParts(again, log, downlink[c])
  BY <1>1, <1>2, ConcatParts
<1>4. Len(again) \in Nat /\ Len(log) \in Nat /\ read[c] = Len(again) + Len(log)
  BY <1>1, <1>3 DEF InParts
<1>5. ASSUME NEW k \in 1..read[c], downlink[c][k].type = "TilePlaced"
      PROVE  k - Len(again) \in Of(log, "TilePlaced", Len(log)) /\ downlink[c][k] = log[k - Len(again)]
  <2>1. k \in 1..Len(again) => FALSE
    BY <1>2, <1>3, <1>5 DEF InParts
  <2>2. k - Len(again) \in 1..Len(log) /\ Len(again) + (k - Len(again)) = k
    BY <1>1, <1>3, <2>1 DEF InParts
  <2>3. downlink[c][k] = log[k - Len(again)]
    BY <1>3, <2>2 DEF InParts
  <2> QED
    BY <1>5, <2>2, <2>3 DEF Of
<1>6. ASSUME NEW m \in Of(log, "TilePlaced", Len(log))
      PROVE  Len(again) + m \in 1..read[c] /\ downlink[c][Len(again) + m] = log[m]
  <2>1. m \in 1..Len(log)
    BY DEF Of
  <2>2. Len(again) + m \in 1..read[c]
    BY <1>4, <2>1
  <2> QED
    BY <1>3, <2>1, <2>2 DEF InParts
<1> QED
  BY <1>4, <1>5, <1>6

\* Who sits first on the server, once somebody has moved, sits first in every
\* copy that is up to date.
LEMMA FirstAgrees ==
  ASSUME CInv, NEW c \in Clients, UpToDate(c), state.stage # "Lobby", ~ Bare
  PROVE  view[c].players[0] = state.players[0]
<1>1. /\ Recorded /\ c \in connected /\ ~ Announced(c) /\ read[c] = Len(downlink[c])
      /\ log \in Seq(GameEvent) /\ Orderly(log) /\ state = hydrate(log)
  BY DEF CInv, Recorded, Folded, SInv, SessionTypes, LogReplayed, UpToDate, Greeted, Announced
<1>2. PICK again \in Seq(GameEvent) :
        /\ downlink[c] = again \o log
        /\ \A k \in 1..Len(again) : again[k] \in SoundEvent /\ again[k].type # "TilePlaced"
        /\ hydrate(again).players[0] \in {NoPlayer, state.players[0]}
  BY <1>1, StreamRetold
<1>3. InParts(again, log, downlink[c]) /\ Len(log) \in 0..Len(log)
  BY <1>1, <1>2, ConcatParts
<1>4. view[c] = At(again \o log, Len(again) + Len(log)) /\ At(log, Len(log)) = state
  BY <1>1, <1>2, <1>3, CopyAt, AtEnd DEF InParts
<1>5. Retold(again, log, Len(log))
  BY <1>1, <1>2, <1>3, LogRetold
<1> QED
  BY <1>2, <1>4, <1>5 DEF Retold

(* With two slots on the server (server/src/main.rs:37), an up-to-date     *)
(* client has spawned one piece for each tile taken and none twice, and    *)
(* its pair gives each the symbol evolve gave it, or it is a question mark *)
(* (client/src/main.rs:306-345, decider.rs:137-151).                       *)
THEOREM PiecesAreTiles ==
  ASSUME MaxClients <= 2
  PROVE  Spec => []PiecesShowBoard
<1> DEFINE Inv == CInv /\ \A c \in Clients : PairTaken(c) /\ Drawn(c)
<1>1. Init => Inv
  <2> SUFFICES ASSUME Init PROVE Inv
    OBVIOUS
  <2>1. \A c \in Clients : PairTaken(c) /\ Drawn(c)
    BY DEF Init, ClientInit, PairTaken, Drawn
  <2> QED
    BY <2>1, InitCInv
<1>2. Inv /\ [Next]_vars => Inv'
  <2> SUFFICES ASSUME Inv, [Next]_vars PROVE Inv'
    OBVIOUS
  <2>1. Recorded
    BY DEF CInv
  <2>2. ASSUME NEW c \in Clients PROVE PairTaken(c)' /\ Drawn(c)'
    BY <2>1, StepPairs, StepDraws
  <2> QED
    BY <2>2, StepCInv
<1>3. Inv => PiecesShowBoard
  <2> SUFFICES ASSUME Inv, NEW c \in Clients, UpToDate(c)
               PROVE  /\ {piece[2] : piece \in pieces[c]} = {i \in Positions : state.board[i] # Empty}
                      /\ Cardinality(pieces[c]) = TilesOn(state.board)
                      /\ \A piece \in pieces[c] : piece[3] \in {state.board[piece[2]], "?"}
    BY DEF PiecesShowBoard
  <2> DEFINE moves == Of(log, "TilePlaced", Len(log))
             taken == {i \in Positions : state.board[i] # Empty}
  <2>1. /\ Recorded /\ PairTaken(c) /\ Drawn(c)
        /\ log \in Seq(GameEvent) /\ Orderly(log) /\ state = hydrate(log)
    BY DEF CInv, Recorded, Folded, SInv, SessionTypes, LogReplayed
  <2>2. Moved(log, Len(log)) /\ At(log, Len(log)) = state
    BY <2>1, LogMoves, AtEnd
  <2>3. PICK shift \in Nat :
          /\ \A k \in 1..read[c] : downlink[c][k].type = "TilePlaced" =>
               k - shift \in moves /\ downlink[c][k] = log[k - shift]
          /\ \A m \in moves : shift + m \in 1..read[c] /\ downlink[c][shift + m] = log[m]
    BY MovesReceived
  <2>4. \A m \in moves : m \in Nat /\ log[m].type = "TilePlaced"
    BY DEF Of
  <2>5. ASSUME NEW piece \in pieces[c]
        PROVE  /\ piece[1] \in Nat /\ piece[1] - shift \in moves
               /\ piece[2] = log[piece[1] - shift].at /\ piece[2] \in taken
               /\ piece[3] \in {state.board[piece[2]], "?"}
    <3>1. PICK k \in 1..read[c] : Depicts(c, piece, k)
      BY <2>1 DEF Drawn
    <3> DEFINE m == k - shift
    <3>2. m \in moves /\ downlink[c][k] = log[m] /\ piece[1] = k /\ piece[2] = log[m].at
      BY <2>3, <3>1 DEF Depicts
    <3>3. /\ log[m].at \in Positions
          /\ state.board[log[m].at] = IF state.players[0] = log[m].player_id THEN "X" ELSE "O"
          /\ state.stage # "Lobby"
      BY <2>2, <3>2 DEF Moved
    <3>4. ~ Bare
      BY <3>3 DEF Bare, DefaultState, Empty
    <3>5. pair[c] # << >> => pair[c][1] = state.players[0]
      BY <2>1, <3>3, <3>4, FirstAgrees, PairSitsFirst
    <3>6. piece[3] \in {state.board[piece[2]], "?"}
      BY <3>1, <3>2, <3>3, <3>5 DEF Depicts, symbol_of
    <3> QED
      BY <3>2, <3>3, <3>6 DEF Empty
  <2>6. ASSUME NEW i \in taken PROVE \E piece \in pieces[c] : piece[2] = i
    <3>1. PICK m \in moves : log[m].at = i
      BY <2>2 DEF Moved
    <3>2. shift + m \in 1..read[c] /\ downlink[c][shift + m].type = "TilePlaced"
      BY <2>3, <2>4, <3>1
    <3>3. PICK piece \in pieces[c] : piece[1] = shift + m
      BY <2>1, <3>2 DEF Drawn
    <3>4. piece[1] - shift = m
      BY <2>4, <3>3
    <3> QED
      BY <2>5, <3>1, <3>3, <3>4
  <2>7. ASSUME NEW piece \in pieces[c], NEW other \in pieces[c], piece[2] = other[2]
        PROVE  piece = other
    <3>1. /\ piece[1] - shift \in moves /\ other[1] - shift \in moves
          /\ log[piece[1] - shift].at = log[other[1] - shift].at
          /\ piece[1] \in Nat /\ other[1] \in Nat
      BY <2>5, <2>7
    <3>2. piece[1] - shift = other[1] - shift
      BY <2>2, <3>1 DEF Moved
    <3>3. piece[1] = other[1]
      BY <3>1, <3>2
    <3> QED
      BY <2>1, <3>3 DEF Drawn
  <2>8. Cardinality(pieces[c]) = Cardinality(taken)
    <3> DEFINE cell == [piece \in pieces[c] |-> piece[2]]
    <3> HIDE DEF taken
    <3>1. cell \in Injection(pieces[c], taken) /\ cell \in Surjection(pieces[c], taken)
      BY <2>5, <2>6, <2>7 DEF Injection, IsInjective, Surjection
    <3>2. IsFiniteSet(taken)
      <4>1. \A a, b \in Int : IsFiniteSet(a..b)
        BY FS_Interval
      <4> QED
        BY <4>1, FS_Subset DEF taken, Positions
    <3> QED
      BY <3>1, <3>2, FS_Injection
  <2>9. {piece[2] : piece \in pieces[c]} = taken
    <3> HIDE DEF taken
    <3> QED
      BY <2>5, <2>6
  <2> QED
    BY <2>5, <2>8, <2>9 DEF TilesOn
<1> QED
  BY <1>1, <1>2, <1>3, PTL DEF Spec

-----------------------------------------------------------------------------
(* Whose turn a client sees when it sees its own.                          *)

\* Of positions there is a first one.
LEMMA FirstPosition ==
  ASSUME NEW n \in Nat, NEW S \in SUBSET (1..n), S # {}
  PROVE  \E i \in S : \A k \in S : i <= k
<1> DEFINE R == {(n + 1) - k : k \in S}
<1>1. R \in SUBSET (1..n) /\ R # {}
  <2>1. \A k \in S : (n + 1) - k \in 1..n
    <3>1. \A k \in 1..n : (n + 1) - k \in 1..n
      OBVIOUS
    <3> QED
      BY <3>1
  <2> QED
    BY <2>1
<1>2. \E j \in R : \A k \in R : k <= j
  <2> HIDE DEF R
  <2> QED
    BY <1>1, LastPosition
<1>3. PICK i \in S : \A k \in R : k <= (n + 1) - i
  BY <1>2
<1>4. ASSUME NEW k \in S PROVE i <= k
  <2>1. (n + 1) - k <= (n + 1) - i
    BY <1>3
  <2>2. i \in 1..n /\ k \in 1..n
    OBVIOUS
  <2> QED
    BY <2>1, <2>2
<1> QED
  BY <1>4

\* A player nobody has told of is not seated, and it is not its turn.
LEMMA UnheardOf ==
  ASSUME NEW M \in Seq(GameEvent), \A k \in 1..Len(M) : M[k] \in SoundEvent,
         NEW p, p # NoPlayer, NEW n \in 0..Len(M),
         \A k \in 1..n : /\ M[k].type = "PlayerJoined" => M[k].player_id # p
                         /\ M[k].type = "GameStarted" => M[k].goes_first # p
  PROVE  At(M, n).active_player_id # p
<1> DEFINE Without(s) == s.active_player_id # p /\ s.players[0] # p /\ s.players[1] # p
           T == {m \in Nat : m <= n => Without(At(M, m))}
<1>1. 0 \in T
  BY AtStart DEF DefaultState
<1>2. ASSUME NEW m \in Nat, m \in T, m + 1 <= n PROVE Without(At(M, m + 1))
  <2> DEFINE s == At(M, m)
             t == At(M, m + 1)
             event == M[m + 1]
  <2>1. /\ event \in SoundEvent /\ event \in GameEvent
        /\ s \in GameState /\ t \in GameState /\ Fields(s, event, t)
    BY <1>2, SoundOnward
  <2>2. Without(s)
    BY <1>2
  <2>3. /\ event.type = "PlayerJoined" => event.player_id # p
        /\ event.type = "GameStarted" => event.goes_first # p
    BY <1>2
  <2>4. s.players \in [0..1 -> PlayerId]
    BY <2>1 DEF GameState
  <2>5. event.type \in {"PlayerJoined", "GameStarted", "TilePlaced", "PlayerLeft", "GameEnded"}
        /\ (event.type = "TilePlaced" => event.at \in Positions)
    BY <2>1 DEF SoundEvent, GameEvent
  <2> SUFFICES Without(t)
    OBVIOUS
  <2> HIDE DEF s, t, event
  <2>6. CASE event.type = "PlayerJoined"
    BY <2>1, <2>2, <2>3, <2>4, <2>6 DEF Fields
  <2>7. CASE event.type = "TilePlaced"
    BY <2>1, <2>2, <2>5, <2>7 DEF Fields
  <2>8. CASE event.type \in {"GameStarted", "PlayerLeft", "GameEnded"}
    BY <2>1, <2>2, <2>3, <2>8 DEF Fields
  <2> QED
    BY <2>5, <2>6, <2>7, <2>8
<1>3. ASSUME NEW m \in Nat, m \in T PROVE m + 1 \in T
  <2>1. m + 1 <= n => Without(At(M, m + 1))
    BY <1>2, <1>3
  <2> QED
    BY <2>1
<1>4. Nat \subseteq T
  <2> HIDE DEF T
  <2> QED
    BY <1>1, <1>3, SetInduction
<1> QED
  BY <1>4

\* What only a game that has begun can tell.
LEMMA TellsOfGame ==
  ASSUME NEW L \in Seq(GameEvent), Orderly(L), NEW m \in 1..Len(L),
         L[m].type \in {"GameStarted", "TilePlaced", "GameEnded"}
  PROVE  At(L, m).stage # "Lobby"
<1> DEFINE s == At(L, m - 1)
           t == At(L, m)
           event == L[m]
<1>1. m - 1 \in Nat /\ m - 1 < Len(L) /\ (m - 1) + 1 = m
  OBVIOUS
<1>2. InPlace(s, L[m - 1], event) /\ Fields(s, event, t)
  BY <1>1, Onward
<1> SUFFICES t.stage # "Lobby"
  OBVIOUS
<1>3. event.type \in {"GameStarted", "TilePlaced", "GameEnded"}
  OBVIOUS
<1> HIDE DEF s, t, event
<1>4. CASE event.type = "TilePlaced"
  BY <1>2, <1>4 DEF InPlace, Fields
<1>5. CASE event.type \in {"GameStarted", "GameEnded"}
  BY <1>2, <1>5 DEF Fields
<1> QED
  BY <1>3, <1>4, <1>5

\* The next move of a running game is made by the player whose turn it is, on
\* the board there is; until it is made the turn and the board stay.
LEMMA NextMove ==
  ASSUME NEW L \in Seq(GameEvent), Orderly(L), NEW q \in 0..Len(L), At(L, q).stage = "InGame"
  PROVE  \/ \E p \in (q + 1)..Len(L) :
              /\ L[p].type = "TilePlaced" /\ L[p].player_id = At(L, q).active_player_id
              /\ At(L, p - 1).board = At(L, q).board
         \/ /\ hydrate(L).stage # "Lobby" /\ hydrate(L).board = At(L, q).board
            /\ hydrate(L).active_player_id = At(L, q).active_player_id
<1> DEFINE n == Len(L)
           T == {p \in 1..n : p > q /\ L[p].type = "TilePlaced"}
<1>1. n \in Nat /\ q \in Nat /\ \A k \in 1..n : L[k] \in SoundEvent
  BY OrderlySound
<1>2. ASSUME NEW k \in (q + 1)..n PROVE L[k].type # "GameStarted"
  <2>1. k - 1 \in q..n /\ k \in 1..n
    BY <1>1
  <2>2. Stays(L, q, k - 1)
    BY <1>1, <2>1, StretchStays
  <2>3. At(L, k - 1).stage # "Lobby"
    BY <2>2 DEF Stays
  <2>4. InPlace(At(L, k - 1), L[k - 1], L[k])
    BY <2>1 DEF Orderly
  <2> QED
    BY <2>3, <2>4 DEF InPlace
<1>3. CASE T = {}
  <2>1. \A k \in (q + 1)..n : L[k].type # "TilePlaced"
    BY <1>1, <1>3
  <2>2. n \in q..n
    BY <1>1
  <2>3. Stays(L, q, n)
    BY <1>1, <2>2, StretchStays
  <2>4. At(L, n) = hydrate(L)
    BY AtEnd
  <2>5. \A k \in (q + 1)..n : L[k].type \notin {"GameStarted", "TilePlaced"}
    BY <1>2, <2>1
  <2> QED
    BY <2>1, <2>3, <2>4, <2>5 DEF Stays
<1>4. CASE T # {}
  <2>1. PICK p \in T : \A k \in T : p <= k
    <3> HIDE DEF T
    <3>1. T \in SUBSET (1..n)
      BY DEF T
    <3> QED
      BY <1>1, <1>4, <3>1, FirstPosition
  <2>2. p - 1 \in q..n /\ p \in 1..n /\ p \in (q + 1)..n /\ L[p].type = "TilePlaced"
    BY <1>1
  <2>3. Stays(L, q, p - 1)
    BY <1>1, <2>2, StretchStays
  <2>4. ASSUME NEW k \in (q + 1)..(p - 1) PROVE L[k].type \notin {"GameStarted", "TilePlaced"}
    <3>1. k \in (q + 1)..n /\ k \in 1..n /\ k > q /\ ~ (p <= k)
      BY <1>1, <2>2
    <3>2. k \notin T
      BY <2>1, <3>1
    <3> QED
      BY <1>2, <3>1, <3>2
  <2>5. /\ At(L, p - 1).active_player_id = At(L, q).active_player_id
        /\ At(L, p - 1).board = At(L, q).board
    BY <2>3, <2>4 DEF Stays
  <2>6. InPlace(At(L, p - 1), L[p - 1], L[p])
    BY <2>2 DEF Orderly
  <2> QED
    BY <2>2, <2>5, <2>6 DEF InPlace
<1> QED
  BY <1>3, <1>4

\* Who is seated, by the first n events of the log.
Joined(p, n) == \E l \in 1..n : log[l].type = "PlayerJoined" /\ log[l].player_id = p

\* How far a client's stream is ahead of the log: what it was told before its
\* catch-up, which all happened before the client itself joined.
Ahead(c) == Len(downlink[c]) - Len(log)

Behind(c) ==
  ~ Announced(c) =>
    \A k \in 1..Ahead(c) : \E m \in 1..Len(log) : log[m] = downlink[c][k] /\ ~ Joined(c, m)

\* Who has joined has been greeted before.
LEMMA AnnouncedUnseated ==
  ASSUME Recorded, Arrivals, NEW c \in Clients, c \notin connected \cup gone \/ Announced(c)
  PROVE  \A m \in 0..Len(log) : ~ Joined(c, m)
<1>1. log \in Seq(GameEvent) /\ Orderly(log) /\ state = hydrate(log) /\ c # NoPlayer
  BY ClientsArePlayers, SentinelIsNoPlayer DEF Recorded, Folded, SInv, SessionTypes, LogReplayed
<1>2. Len(log) \in Nat /\ Len(log) \in 0..Len(log)
  BY <1>1
<1>3. Seated(log, Len(log)) /\ At(log, Len(log)) = state
  BY <1>1, <1>2, LogSeats, AtEnd
<1>4. ASSUME NEW m \in 0..Len(log), Joined(c, m) PROVE FALSE
  <2>1. PICK l \in 1..m : log[l].type = "PlayerJoined" /\ log[l].player_id = c
    BY <1>4 DEF Joined
  <2>2. l \in Of(log, "PlayerJoined", Len(log))
    BY <1>2, <2>1 DEF Of
  <2>3. c = state.players[0] \/ c = state.players[1]
    BY <1>3, <2>1, <2>2 DEF Seated
  <2>4. \E k \in 0..1 : c = state.players[k]
    BY <2>3
  <2> QED
    BY <1>1, <2>4 DEF Arrivals, SendersKnown, Known
<1> QED
  BY <1>4

\* Events handled after the greeting, or with it.
LEMMA BehindHandled ==
  ASSUME Recorded, Arrivals, NEW c \in connected, Behind(c), connected' = connected,
         NEW cmd \in Commands, NEW streams, handle(cmd, streams),
         Announced(c)' => Announced(c),
         streams[c] = IF Announced(c) /\ ~ Announced(c)' THEN downlink[c] \o log ELSE downlink[c]
  PROVE  Behind(c)'
<1> SUFFICES ASSUME ~ Announced(c)'
             PROVE  \A k \in 1..(Ahead(c)') :
                      \E m \in 1..Len(log') : log'[m] = downlink'[c][k] /\ ~ (Joined(c, m)')
  BY DEF Behind
<1>1. PICK events \in Seq(GameEvent) :
        /\ log' = log \o events /\ downlink' = broadcast(streams, events)
  BY HandleOutcome
<1>2. /\ c \in Clients /\ downlink'[c] = streams[c] \o events
      /\ log \in Seq(GameEvent) /\ downlink[c] \in Seq(GameEvent)
  BY <1>1 DEF broadcast, Recorded, Folded, SInv, SessionTypes, Connections
<1>3. InParts(log, events, log')
  BY <1>1, <1>2, ConcatParts
<1>4. ASSUME NEW m \in 1..Len(log) PROVE Joined(c, m)' <=> Joined(c, m)
  <2>1. \A l \in 1..m : log'[l] = log[l]
    BY <1>3 DEF InParts
  <2> QED
    BY <2>1 DEF Joined
<1>5. CASE Announced(c)
  <2>1. streams[c] = downlink[c] \o log
    BY <1>5
  <2>2. InParts(downlink[c], log, streams[c]) /\ streams[c] \in Seq(GameEvent)
    BY <1>2, <2>1, ConcatParts
  <2>3. InParts(streams[c], events, downlink'[c])
    BY <1>2, <2>2, ConcatParts
  <2>4. /\ Len(downlink'[c]) - Len(log') = Len(downlink[c])
        /\ \A k \in 1..Len(downlink[c]) : k \in 1..Len(streams[c])
    BY <1>3, <2>2, <2>3 DEF InParts
  <2>5. \A k \in 1..Len(downlink[c]) : downlink'[c][k] = downlink[c][k]
    BY <2>2, <2>3, <2>4 DEF InParts
  <2>6. ASSUME NEW k \in 1..Len(downlink[c])
        PROVE  \E m \in 1..Len(log') : log'[m] = downlink'[c][k] /\ ~ (Joined(c, m)')
    <3>1. PICK m \in 1..Len(log) : downlink[c][k] = log[m]
      BY <1>2, HeardFromLog
    <3>2. m \in 0..Len(log) /\ m \in 1..Len(log') /\ log'[m] = log[m]
      BY <1>3 DEF InParts
    <3>3. ~ Joined(c, m)
      BY <1>2, <1>5, <3>2, AnnouncedUnseated
    <3> QED
      BY <1>4, <2>5, <3>1, <3>2, <3>3
  <2> QED
    BY <2>4, <2>6 DEF Ahead
<1>6. CASE ~ Announced(c)
  <2>1. streams[c] = downlink[c]
    BY <1>6
  <2>2. InParts(downlink[c], events, downlink'[c])
    BY <1>2, <2>1, ConcatParts
  <2>3. /\ Len(downlink'[c]) - Len(log') = Ahead(c)
        /\ \A k \in 1..Ahead(c) : k \in 1..Len(downlink[c])
    BY <1>3, <2>2 DEF InParts, Ahead
  <2>4. ASSUME NEW k \in 1..Ahead(c)
        PROVE  \E m \in 1..Len(log') : log'[m] = downlink'[c][k] /\ ~ (Joined(c, m)')
    <3>1. PICK m \in 1..Len(log) : log[m] = downlink[c][k] /\ ~ Joined(c, m)
      BY <1>6 DEF Behind
    <3>2. m \in 1..Len(log') /\ log'[m] = log[m]
      BY <1>3 DEF InParts
    <3>3. downlink'[c][k] = downlink[c][k]
      BY <2>2, <2>3 DEF InParts
    <3> QED
      BY <1>4, <3>1, <3>2, <3>3
  <2> QED
    BY <2>3, <2>4 DEF Ahead
<1> QED
  BY <1>5, <1>6

LEMMA StepBehind ==
  ASSUME Recorded, Arrivals, \A c \in connected : Behind(c), [Next]_vars, NEW c \in connected'
  PROVE  Behind(c)'
<1>1. /\ OnlyCommands /\ SessionTypes /\ connected \subseteq Clients
      /\ downlink \in [Clients -> Seq(GameEvent)] /\ \A d \in Clients : AnnouncedOnce(d)
  BY DEF Recorded, Folded, SInv, SessionTypes, Connections
<1>2. CASE Resets
  BY <1>2 DEF Resets
<1>3. ASSUME c \in connected, log' = log, downlink'[c] = downlink[c], Announced(c) => Announced(c)'
      PROVE  Behind(c)'
  <2>1. Behind(c)
    BY <1>3
  <2>2. Ahead(c)' = Ahead(c) /\ \A m : Joined(c, m)' <=> Joined(c, m)
    BY <1>3 DEF Ahead, Joined
  <2> QED
    BY <1>3, <2>1, <2>2 DEF Behind
<1>4. CASE Moves
  <2>1. /\ connected' = connected /\ UNCHANGED <<log, downlink, serverEvents>>
    BY <1>4 DEF Moves
  <2>2. Announced(c)' <=> Announced(c)
    BY <2>1 DEF Announced
  <2> QED
    BY <1>3, <2>1, <2>2
<1>5. ASSUME NEW d \in Clients, Enters(d) PROVE Behind(c)'
  <2>1. /\ connected' = connected \cup {d} /\ UNCHANGED <<log, downlink>>
        /\ serverEvents' = Append(serverEvents, ClientConnected(d))
        /\ ClientConnected(d) \in Notice
    BY <1>5 DEF Enters, ClientConnected, Notice
  <2>2. /\ Len(serverEvents) \in Nat /\ Len(serverEvents') = Len(serverEvents) + 1
        /\ \A k \in 1..Len(serverEvents) : serverEvents'[k] = serverEvents[k]
        /\ serverEvents'[Len(serverEvents) + 1] = ClientConnected(d)
    BY <1>1, <2>1, NoticeAdded
  <2>3. Announced(c) => Announced(c)'
    BY <2>2 DEF Announced, ClientConnected
  <2>4. c = d => Announced(c)'
    BY <2>2 DEF Announced, ClientConnected
  <2>5. c # d => c \in connected
    BY <2>1
  <2> QED
    BY <1>3, <2>1, <2>3, <2>4, <2>5 DEF Behind
<1>6. ASSUME NEW d \in Clients, Leaves(d) PROVE Behind(c)'
  <2>1. /\ connected' = connected \ {d} /\ log' = log
        /\ downlink' = [downlink EXCEPT ![d] = << >>]
        /\ serverEvents' = Append(serverEvents, ClientDisconnected(d))
        /\ ClientDisconnected(d) \in Notice
    BY <1>6 DEF Leaves, ClientDisconnected, Notice
  <2>2. c \in connected /\ c # d /\ downlink'[c] = downlink[c]
    BY <1>1, <2>1
  <2>3. /\ Len(serverEvents) \in Nat /\ Len(serverEvents') = Len(serverEvents) + 1
        /\ \A k \in 1..Len(serverEvents) : serverEvents'[k] = serverEvents[k]
    BY <1>1, <2>1, NoticeAdded
  <2>4. Announced(c) => Announced(c)'
    BY <2>3 DEF Announced, ClientConnected
  <2> QED
    BY <1>3, <2>1, <2>2, <2>4
<1>7. ASSUME NEW d \in Clients, Greets(d) PROVE Behind(c)'
  <2>1. /\ handle(JoinGame(d), catch_up(d)) /\ connected' = connected
        /\ serverEvents # << >> /\ serverEvents' = Tail(serverEvents)
        /\ Head(serverEvents) = ClientConnected(d) /\ UNCHANGED <<connected, gone>>
    BY <1>7 DEF Greets, Notes
  <2>2. JoinGame(d) \in Commands /\ Announced(d)
    BY <1>7, OwnCommands, GreetedKnown
  <2>3. c \in Clients /\ (Announced(c)' <=> Announced(c) /\ c # d)
    <3>1. c \in Clients /\ AnnouncedOnce(c)
      BY <1>1, <2>1
    <3>2. Announced(c)' <=> Announced(c) /\ ClientConnected(d) # ClientConnected(c)
      BY <1>1, <2>1, <3>1, AnnouncementTaken
    <3> QED
      BY <3>1, <3>2, NoticesDiffer
  <2>4. catch_up(d)[c] = IF c = d THEN downlink[c] \o log ELSE downlink[c]
    BY <1>1, <2>1, <2>3 DEF catch_up, send_to
  <2>5. catch_up(d)[c] = IF Announced(c) /\ ~ Announced(c)' THEN downlink[c] \o log ELSE downlink[c]
    BY <2>2, <2>3, <2>4
  <2> QED
    BY <2>1, <2>2, <2>3, <2>5, BehindHandled
<1>8. ASSUME NEW d \in Clients, Misses(d) PROVE Behind(c)'
  <2>1. /\ handle(LeaveGame(d), downlink) /\ connected' = connected
        /\ serverEvents # << >> /\ serverEvents' = Tail(serverEvents)
        /\ Head(serverEvents) = ClientDisconnected(d) /\ LeaveGame(d) \in Commands
        /\ UNCHANGED <<connected, gone>>
    BY <1>8, OwnCommands DEF Misses, Notes
  <2>2. Announced(c)' <=> Announced(c)
    <3>1. c \in Clients /\ AnnouncedOnce(c)
      BY <1>1, <2>1
    <3>2. Announced(c)' <=> Announced(c) /\ ClientDisconnected(d) # ClientConnected(c)
      BY <1>1, <2>1, <3>1, AnnouncementTaken
    <3> QED
      BY <3>2, NoticesDiffer
  <2>3. downlink[c] = IF Announced(c) /\ ~ Announced(c)' THEN downlink[c] \o log ELSE downlink[c]
    BY <2>2
  <2> QED
    BY <2>1, <2>2, <2>3, BehindHandled
<1>9. ASSUME NEW cmd \in Commands, Takes(cmd) PROVE Behind(c)'
  <2>1. /\ handle(cmd, downlink) /\ connected' = connected /\ serverEvents = << >>
        /\ serverEvents' = serverEvents
    BY <1>9 DEF Takes
  <2>2. ~ Announced(c) /\ ~ Announced(c)'
    BY <2>1 DEF Announced
  <2>3. downlink[c] = IF Announced(c) /\ ~ Announced(c)' THEN downlink[c] \o log ELSE downlink[c]
    BY <2>2
  <2> QED
    BY <2>1, <2>2, <2>3, BehindHandled
<1> QED
  BY <1>2, <1>4, <1>5, <1>6, <1>7, <1>8, <1>9, StepKinds

\* The log says of those only who have joined that they did, or go first.
LEMMA JoinedToPlay ==
  ASSUME log \in Seq(GameEvent), Orderly(log), NEW c, c # NoPlayer, NEW m \in 1..Len(log),
         \/ log[m].type = "PlayerJoined" /\ log[m].player_id = c
         \/ log[m].type = "GameStarted" /\ log[m].goes_first = c
  PROVE  Joined(c, m)
<1>1. CASE log[m].type = "PlayerJoined" /\ log[m].player_id = c
  BY <1>1 DEF Joined
<1>2. CASE log[m].type = "GameStarted" /\ log[m].goes_first = c
  <2>1. InPlace(At(log, m - 1), log[m - 1], log[m]) /\ m - 1 \in 0..Len(log)
    BY DEF Orderly
  <2>2. /\ c = At(log, m - 1).players[0] /\ At(log, m - 1).players[1] # NoPlayer
    BY <1>2, <2>1 DEF InPlace
  <2>3. Seated(log, m - 1)
    BY <2>1, LogSeats
  <2>4. PICK i \in 1..(m - 1) : i \in Of(log, "PlayerJoined", m - 1) /\ log[i].player_id = c
    BY <2>2, <2>3 DEF Seated
  <2>5. i \in 1..m /\ log[i].type = "PlayerJoined"
    BY <2>4 DEF Of
  <2> QED
    BY <2>4, <2>5 DEF Joined
<1> QED
  BY <1>1, <1>2

\* A client whose turn it is in its own copy of the game has that copy from a
\* state the server's log went through, and has the same board in it.
LEMMA OwnTurnSeen ==
  ASSUME Recorded, Arrivals, NEW c \in connected, Behind(c),
         view[c].stage = "InGame", view[c].active_player_id = c
  PROVE  \E q \in 0..Len(log) :
           /\ At(log, q).stage = "InGame" /\ At(log, q).active_player_id = c
           /\ At(log, q).board = view[c].board
<1> DEFINE M == downlink[c]
           r == read[c]
<1>1. /\ c \in Clients /\ c # NoPlayer /\ log \in Seq(GameEvent) /\ Orderly(log) /\ SentSoFar(c)
      /\ \A m \in 1..Len(log) : log[m] \in SoundEvent
  BY ClientsArePlayers, SentinelIsNoPlayer, OrderlySound
     DEF Recorded, Folded, SInv, SessionTypes, Connections
<1>2. /\ M \in Seq(GameEvent) /\ \A k \in 1..Len(M) : M[k] \in SoundEvent
      /\ r \in 0..Len(M) /\ view[c] = At(M, r)
  BY <1>1, HeardFromLog, CopyAt
\* It has heard that it joined, or that it goes first.
<1>3. PICK k \in 1..r : \/ M[k].type = "PlayerJoined" /\ M[k].player_id = c
                        \/ M[k].type = "GameStarted" /\ M[k].goes_first = c
  <2> SUFFICES ASSUME \A k \in 1..r : /\ M[k].type = "PlayerJoined" => M[k].player_id # c
                                      /\ M[k].type = "GameStarted" => M[k].goes_first # c
               PROVE  FALSE
    OBVIOUS
  <2>1. At(M, r).active_player_id # c
    <3> HIDE DEF M, r
    <3> QED
      BY <1>1, <1>2, UnheardOf
  <2> QED
    BY <1>2, <2>1
\* That the log can say of those only who have joined.
<1>4. ASSUME NEW m \in 1..Len(log), \/ log[m].type = "PlayerJoined" /\ log[m].player_id = c
                                    \/ log[m].type = "GameStarted" /\ log[m].goes_first = c
      PROVE  Joined(c, m)
  BY <1>1, <1>4, JoinedToPlay
<1>5. ~ Announced(c)
  <2> SUFFICES ASSUME Announced(c) PROVE FALSE
    OBVIOUS
  <2>1. k \in 1..Len(M)
    BY <1>2
  <2>2. PICK m \in 1..Len(log) : M[k] = log[m]
    BY <1>1, <2>1, HeardFromLog
  <2>3. Joined(c, m) /\ m \in 0..Len(log)
    BY <1>3, <1>4, <2>2
  <2> QED
    BY <1>1, <2>3, AnnouncedUnseated
<1>6. PICK again \in Seq(GameEvent) : M = again \o log
  BY <1>1, <1>5 DEF SentSoFar
<1>7. InParts(again, log, M) /\ Ahead(c) = Len(again) /\ Len(again) \in Nat /\ Len(log) \in Nat
  BY <1>1, <1>6, ConcatParts DEF InParts, Ahead
<1>8. \A j \in 1..Len(again) : \E m \in 1..Len(log) : again[j] = log[m] /\ ~ Joined(c, m)
  BY <1>5, <1>7 DEF Behind, InParts
\* So it was in the log itself that it has heard it.
<1>9. k - Len(again) \in 1..Len(log) /\ M[k] = log[k - Len(again)]
  <2>1. k \in 1..Len(again) => FALSE
    <3> SUFFICES ASSUME k \in 1..Len(again) PROVE FALSE
      OBVIOUS
    <3>1. again[k] = M[k]
      BY <1>7 DEF InParts
    <3>2. PICK m \in 1..Len(log) : again[k] = log[m] /\ ~ Joined(c, m)
      BY <1>8
    <3> QED
      BY <1>3, <1>4, <3>1, <3>2
  <2>2. k \in 1..Len(M)
    BY <1>2
  <2>3. k - Len(again) \in 1..Len(log) /\ Len(again) + (k - Len(again)) = k
    BY <1>7, <2>1, <2>2 DEF InParts
  <2> QED
    BY <1>7, <2>3 DEF InParts
<1> DEFINE q == r - Len(again)
           s == At(log, q)
<1>10. q \in 0..Len(log) /\ q \in Nat /\ k - Len(again) \in 1..q /\ r = Len(again) + q
  <2>1. Len(M) = Len(again) + Len(log)
    BY <1>7 DEF InParts
  <2> QED
    BY <1>2, <1>7, <1>9, <2>1
<1>11. Joined(c, q)
  <2>1. Joined(c, k - Len(again))
    BY <1>3, <1>4, <1>9
  <2> QED
    BY <1>10, <2>1 DEF Joined
<1>12. PICK l \in 1..q : log[l].type = "PlayerJoined" /\ log[l].player_id = c
  BY <1>11 DEF Joined
<1> HIDE DEF M, r, q
\* What it was told before is from the lobby it had not joined yet.
<1>13. ASSUME NEW m \in 1..Len(log), ~ Joined(c, m)
       PROVE  /\ m < l /\ At(log, m).stage = "Lobby"
              /\ log[m].type = "PlayerJoined" => log[m].player_id = s.players[0]
  <2>1. m < l
    <3>1. ~ (l <= m)
      BY <1>12, <1>13 DEF Joined
    <3> QED
      BY <1>10, <3>1
  <2>2. l \in Of(log, "PlayerJoined", q)
    BY <1>10, <1>12 DEF Of
  <2>3. Seated(log, q) /\ Seated(log, m) /\ m \in 0..Len(log)
    BY <1>1, <1>10, LogSeats
  <2>4. PICK a \in 1..q, b \in 1..q :
          /\ Of(log, "PlayerJoined", q) \subseteq {a, b} /\ a <= b
          /\ s.players[0] = log[a].player_id
    BY <1>10, <2>2, <2>3 DEF Seated
  <2>5. log[m].type = "PlayerJoined" => log[m].player_id = s.players[0]
    <3> SUFFICES ASSUME log[m].type = "PlayerJoined" PROVE log[m].player_id = s.players[0]
      OBVIOUS
    <3>1. m \in Of(log, "PlayerJoined", q)
      BY <1>10, <2>1 DEF Of
    <3>2. m = a
      BY <1>10, <2>1, <2>2, <2>4, <3>1
    <3> QED
      BY <2>4, <3>2
  <2>6. At(log, m).stage = "Lobby"
    <3> SUFFICES ASSUME At(log, m).stage # "Lobby" PROVE FALSE
      OBVIOUS
    <3>1. PICK i \in 1..m, j \in 1..m :
            i < j /\ i \in Of(log, "PlayerJoined", m) /\ j \in Of(log, "PlayerJoined", m)
      BY <2>3 DEF Seated
    <3>2. i \in Of(log, "PlayerJoined", q) /\ j \in Of(log, "PlayerJoined", q) /\ i < l /\ j < l
      BY <1>10, <2>1, <3>1 DEF Of
    <3> QED
      BY <1>10, <2>2, <2>4, <3>1, <3>2
  <2> QED
    BY <2>1, <2>5, <2>6
<1>14. ASSUME NEW j \in 1..Len(again)
       PROVE  /\ again[j] \in SoundEvent
              /\ again[j].type \notin {"GameStarted", "TilePlaced", "GameEnded"}
              /\ again[j].type = "PlayerJoined" => again[j].player_id = s.players[0]
  <2>1. PICK m \in 1..Len(log) : again[j] = log[m] /\ ~ Joined(c, m)
    BY <1>8
  <2> QED
    BY <1>1, <1>13, <2>1, TellsOfGame
<1>15. hydrate(again).players[0] \in {NoPlayer, s.players[0]}
  BY <1>14, FirstHasJoined
<1>16. Retold(again, log, q)
  BY <1>1, <1>10, <1>14, LogRetold
<1>17. view[c] = At(again \o log, Len(again) + q)
  BY <1>2, <1>6, <1>10
<1>18. s.stage # "Lobby"
  <2> SUFFICES ASSUME s.stage = "Lobby" PROVE FALSE
    OBVIOUS
  <2>1. ASSUME NEW m \in 1..q PROVE log[m].type \notin {"GameStarted", "GameEnded"}
    <3>1. m \in 1..Len(log) /\ q \in m..Len(log) /\ m \in 0..Len(log)
      BY <1>10
    <3>2. Stays(log, m, q)
      BY <1>1, <3>1, StretchStays
    <3>3. At(log, m).stage = "Lobby"
      BY <3>2 DEF Stays
    <3> QED
      BY <1>1, <3>1, <3>3, TellsOfGame
  <2>2. ASSUME NEW j \in 1..r PROVE M[j].type \notin {"GameStarted", "GameEnded"}
    <3>1. j \in 1..Len(M)
      BY <1>2
    <3>2. CASE j \in 1..Len(again)
      <4>1. M[j] = again[j]
        BY <1>7, <3>2 DEF InParts
      <4> QED
        BY <1>14, <3>2, <4>1
    <3>3. CASE j \notin 1..Len(again)
      <4>1. j - Len(again) \in 1..Len(log) /\ Len(again) + (j - Len(again)) = j
        BY <1>7, <3>1, <3>3 DEF InParts
      <4>2. M[j] = log[j - Len(again)] /\ j - Len(again) \in 1..q
        BY <1>7, <1>10, <4>1 DEF InParts
      <4> QED
        BY <2>1, <4>2
    <3> QED
      BY <3>2, <3>3
  <2>3. 0 \in 0..Len(M) /\ r \in 0..Len(M)
    BY <1>2
  <2>4. Stays(M, 0, r)
    BY <1>2, <2>3, StretchStays
  <2>5. \A j \in (0 + 1)..r : M[j].type \notin {"GameStarted", "GameEnded"}
    BY <2>2
  <2>6. At(M, r).stage = At(M, 0).stage
    BY <2>4, <2>5 DEF Stays
  <2>7. At(M, 0).stage = "Lobby"
    BY <1>2, AtStart DEF DefaultState
  <2> QED
    BY <1>2, <2>6, <2>7
<1> QED
  BY <1>10, <1>15, <1>16, <1>17, <1>18 DEF Retold

-----------------------------------------------------------------------------
(* What becomes of a move: it waits in the channel or among the messages   *)
(* read, it is handled, and it stays in the topic for good.                *)

MoveOf(c, cmd) == cmd.type = "PlaceTile" /\ cmd.player_id = c

Waits(c, cmd) == MoveOf(c, cmd) /\ (Arrived(cmd) \/ Sent(c, cmd))

\* At most one of a client's moves waits.
Alone(c) ==
  /\ \A j, k \in 1..Len(messages) : MoveOf(c, messages[j]) /\ MoveOf(c, messages[k]) => j = k
  /\ \A j, k \in 1..Len(uplink[c]) : MoveOf(c, uplink[c][j]) /\ MoveOf(c, uplink[c][k]) => j = k
  /\ \A j \in 1..Len(messages), k \in 1..Len(uplink[c]) :
       ~ (MoveOf(c, messages[j]) /\ MoveOf(c, uplink[c][k]))

\* The counts of tiles a client clicked at: each once, and that of a board.
Single(c) == \A j, k \in 1..Len(clicks[c]) : j # k => clicks[c][j][2] # clicks[c][k][2]

Counted(c, board) == \E k \in 1..Len(clicks[c]) : clicks[c][k][2] = TilesOn(board)

\* Every move a client made is one it clicked for; one that waits will be
\* accepted, is the only one, and clicked for; one in the topic is in vain.
OwnMoves(c) ==
  \A p \in 1..Len(log) :
    log[p].type = "TilePlaced" /\ log[p].player_id = c => Counted(c, At(log, p - 1).board)

Promising(c) ==
  \A cmd \in Commands : Waits(c, cmd) =>
    /\ state.active_player_id = c /\ cmd.at \in Positions /\ state.board[cmd.at] = Empty
    /\ Counted(c, state.board)

Spent(c) ==
  \A cmd \in topic : MoveOf(c, cmd) => cmd.at \in Positions /\ state.board[cmd.at] # Empty

Cautious(c) ==
  Single(c) =>
    /\ OwnMoves(c)
    /\ state.stage = "InGame" => Alone(c) /\ Promising(c) /\ Spent(c)

\* The topic has moves only of who is or was there.
Movers == \A cmd \in topic : cmd.type = "PlaceTile" => cmd.player_id \in connected \cup gone

ClicksTyped == clicks \in [Clients -> Seq(Positions \X Nat)]

\* Taking messages into the tick neither adds nor doubles a client's moves.
LEMMA PollAlone ==
  ASSUME OnlyCommands, SendersKnown, NEW c \in Clients, Alone(c),
         NEW d \in connected, NEW arrived \in 0..Len(uplink[d]), Poll(d, arrived)
  PROVE  Alone(c)'
<1>1. PICK queue : queue = uplink[d]
  OBVIOUS
<1>2. /\ d \in Clients /\ queue \in Seq(Commands) /\ uplink \in [Clients -> Seq(Commands)]
      /\ messages \in Seq(Commands) /\ Len(queue) \in Nat
  BY <1>1 DEF OnlyCommands
<1>3. /\ messages' = messages \o SubSeq(queue, 1, arrived)
      /\ uplink' = [uplink EXCEPT ![d] = SubSeq(queue, arrived + 1, Len(queue))]
  BY <1>1 DEF Poll
<1>4. /\ arrived \in 0..Len(queue) /\ \A k \in 1..Len(queue) : queue[k] \in Commands
  BY <1>1, <1>2
<1>5. PICK taken : taken = SubSeq(queue, 1, arrived)
  OBVIOUS
<1>6. /\ taken \in Seq(Commands) /\ Len(taken) = arrived
      /\ \A k \in 1..arrived : taken[k] = queue[k] /\ k \in 1..Len(queue)
  BY <1>2, <1>4, <1>5, SubSeqProperties
<1>7. PICK rest : rest = SubSeq(queue, arrived + 1, Len(queue))
  OBVIOUS
<1>8. /\ rest \in Seq(Commands) /\ Len(rest) = Len(queue) - arrived
      /\ \A k \in 1..Len(rest) : rest[k] = queue[arrived + k] /\ arrived + k \in 1..Len(queue)
  BY <1>2, <1>4, <1>7, SubSeqProperties
<1>9. InParts(messages, taken, messages')
  BY <1>2, <1>3, <1>5, <1>6, ConcatParts
<1>10. uplink'[d] = rest /\ (c # d => uplink'[c] = uplink[c])
  BY <1>2, <1>3, <1>7
\* Where a move among the messages has been before.
<1>11. ASSUME NEW k \in 1..Len(messages'), MoveOf(c, messages'[k])
       PROVE  \/ k \in 1..Len(messages) /\ messages[k] = messages'[k]
              \/ /\ c = d /\ k \notin 1..Len(messages) /\ k - Len(messages) \in 1..arrived
                 /\ queue[k - Len(messages)] = messages'[k]
  <2>1. k \in 1..Len(messages) => messages[k] = messages'[k]
    BY <1>9 DEF InParts
  <2>2. CASE k \notin 1..Len(messages)
    <3>1. k - Len(messages) \in 1..Len(taken) /\ Len(messages) + (k - Len(messages)) = k
      BY <1>9, <2>2 DEF InParts
    <3>2. taken[k - Len(messages)] = messages'[k]
      BY <1>9, <3>1 DEF InParts
    <3>3. /\ queue[k - Len(messages)] = messages'[k] /\ k - Len(messages) \in 1..Len(queue)
          /\ k - Len(messages) \in 1..arrived
      BY <1>6, <3>1, <3>2
    <3>4. messages'[k] \in Commands /\ Sent(d, messages'[k])
      BY <1>1, <1>4, <3>3 DEF Sent
    <3>5. c = d
      BY <1>2, <1>11, <3>4 DEF SendersKnown, MoveOf
    <3> QED
      BY <2>2, <3>3, <3>5
  <2> QED
    BY <2>1, <2>2
<1>12. ASSUME NEW j \in 1..Len(messages'), NEW k \in 1..Len(messages'),
              MoveOf(c, messages'[j]), MoveOf(c, messages'[k])
       PROVE  j = k
  <2>1. CASE j \in 1..Len(messages) /\ k \in 1..Len(messages)
    <3>1. messages[j] = messages'[j] /\ messages[k] = messages'[k]
      BY <1>11, <1>12, <2>1
    <3> QED
      BY <1>12, <2>1, <3>1 DEF Alone
  <2>2. ASSUME NEW a \in 1..Len(messages), NEW b \in 1..Len(messages'), b \notin 1..Len(messages),
               MoveOf(c, messages'[a]), MoveOf(c, messages'[b]), a \in 1..Len(messages')
        PROVE  FALSE
    <3>1. messages[a] = messages'[a]
      BY <1>11, <2>2
    <3>2. /\ c = d /\ b - Len(messages) \in 1..arrived /\ queue[b - Len(messages)] = messages'[b]
      BY <1>11, <2>2
    <3>3. b - Len(messages) \in 1..Len(uplink[c]) /\ MoveOf(c, uplink[c][b - Len(messages)])
      BY <1>1, <1>6, <2>2, <3>2
    <3> QED
      BY <2>2, <3>1, <3>3 DEF Alone
  <2>3. CASE j \notin 1..Len(messages) /\ k \notin 1..Len(messages)
    <3>1. /\ c = d /\ j - Len(messages) \in 1..Len(queue) /\ k - Len(messages) \in 1..Len(queue)
          /\ MoveOf(c, queue[j - Len(messages)]) /\ MoveOf(c, queue[k - Len(messages)])
      BY <1>6, <1>11, <1>12, <2>3
    <3>2. j - Len(messages) = k - Len(messages)
      BY <1>1, <3>1 DEF Alone
    <3>3. Len(messages) \in Nat /\ Len(messages') \in Nat
      BY <1>9 DEF InParts
    <3> QED
      BY <3>2, <3>3
  <2> QED
    BY <1>12, <2>1, <2>2, <2>3
<1>13. CASE c # d
  <2>1. ASSUME NEW j \in 1..Len(messages'), NEW k \in 1..Len(uplink[c]),
               MoveOf(c, messages'[j]), MoveOf(c, uplink[c][k])
        PROVE  FALSE
    BY <1>11, <1>13, <2>1 DEF Alone
  <2> QED
    BY <1>10, <1>12, <1>13, <2>1 DEF Alone
<1>14. CASE c = d
  <2>1. \A k \in 1..Len(rest) : rest[k] = uplink[c][arrived + k] /\ arrived + k \in 1..Len(uplink[c])
    BY <1>1, <1>8, <1>14
  <2>2. ASSUME NEW j \in 1..Len(rest), NEW k \in 1..Len(rest), MoveOf(c, rest[j]), MoveOf(c, rest[k])
        PROVE  j = k
    <3>1. arrived + j = arrived + k
      BY <2>1, <2>2 DEF Alone
    <3>2. arrived \in Nat
      BY <1>2, <1>4
    <3> QED
      BY <3>1, <3>2
  <2>3. ASSUME NEW j \in 1..Len(messages'), NEW k \in 1..Len(rest),
               MoveOf(c, messages'[j]), MoveOf(c, rest[k])
        PROVE  FALSE
    <3>1. MoveOf(c, uplink[c][arrived + k]) /\ arrived + k \in 1..Len(uplink[c])
      BY <2>1, <2>3
    <3>2. CASE j \in 1..Len(messages) /\ messages[j] = messages'[j]
      BY <2>3, <3>1, <3>2 DEF Alone
    <3>3. CASE j - Len(messages) \in 1..arrived /\ queue[j - Len(messages)] = messages'[j]
      <4>1. j - Len(messages) \in 1..Len(uplink[c]) /\ MoveOf(c, uplink[c][j - Len(messages)])
        BY <1>1, <1>6, <1>14, <2>3, <3>3
      <4>2. j - Len(messages) = arrived + k
        BY <3>1, <4>1 DEF Alone
      <4>3. arrived \in Nat
        BY <1>2, <1>4
      <4> QED
        BY <3>3, <4>2, <4>3
    <3> QED
      BY <1>11, <2>3, <3>2, <3>3
  <2> QED
    BY <1>10, <1>12, <1>14, <2>2, <2>3 DEF Alone
<1> QED
  BY <1>13, <1>14

\* The oldest message goes: if it was a client's move, none is left.
LEMMA TakenAlone ==
  ASSUME OnlyCommands, NEW c \in Clients, Alone(c), messages # << >>, messages' = Tail(messages),
         UNCHANGED uplink
  PROVE  /\ Alone(c)'
         /\ MoveOf(c, Head(messages)) => \A cmd : ~ (Waits(c, cmd)')
<1>1. /\ messages \in Seq(Commands) /\ Head(messages) = messages[1]
      /\ Len(messages) \in Nat \ {0} /\ Len(messages') = Len(messages) - 1
      /\ \A k \in 1..Len(messages') : messages'[k] = messages[k + 1]
  BY HeadTailProperties DEF OnlyCommands
<1>2. 1 \in 1..Len(messages) /\ \A k \in 1..Len(messages') : k + 1 \in 1..Len(messages) /\ k + 1 # 1
  BY <1>1
<1>3. ASSUME NEW j \in 1..Len(messages'), NEW k \in 1..Len(messages'),
             MoveOf(c, messages'[j]), MoveOf(c, messages'[k])
      PROVE  j = k
  <2>1. j + 1 = k + 1
    BY <1>1, <1>2, <1>3 DEF Alone
  <2> QED
    BY <1>1, <2>1
<1>4. ASSUME NEW j \in 1..Len(messages'), NEW k \in 1..Len(uplink[c]),
             MoveOf(c, messages'[j]), MoveOf(c, uplink[c][k])
      PROVE  FALSE
  BY <1>1, <1>2, <1>4 DEF Alone
<1>5. Alone(c)'
  BY <1>3, <1>4 DEF Alone
<1>6. ASSUME MoveOf(c, Head(messages)), NEW cmd, Waits(c, cmd)' PROVE FALSE
  <2>1. MoveOf(c, cmd) /\ (Arrived(cmd)' \/ Sent(c, cmd)')
    BY <1>6 DEF Waits, MoveOf
  <2>2. CASE Arrived(cmd)'
    <3>1. PICK k \in 1..Len(messages') : messages'[k] = cmd
      BY <2>2 DEF Arrived
    <3>2. k + 1 = 1
      BY <1>1, <1>2, <1>6, <2>1, <3>1 DEF Alone
    <3> QED
      BY <1>2, <3>2
  <2>3. CASE Sent(c, cmd)'
    <3>1. PICK k \in 1..Len(uplink[c]) : uplink[c][k] = cmd
      BY <2>3 DEF Sent
    <3> QED
      BY <1>1, <1>2, <1>6, <2>1, <3>1 DEF Alone
  <2> QED
    BY <2>1, <2>2, <2>3
<1> QED
  BY <1>5, <1>6

\* What else a step is to a client that stays: nothing of its own is added.
Patient(c) ==
  /\ clicks'[c] = clicks[c] /\ (Alone(c) => Alone(c)')
  /\ \A cmd : Sent(c, cmd)' => Sent(c, cmd)

LEMMA StepPatient ==
  ASSUME Recorded, Arrivals, [Next]_vars, NEW c \in connected, c \in connected'
  PROVE  \/ Patient(c)
         \/ \E cursor \in Cursors[c] : Click(c, cursor) /\ UNCHANGED server
<1>1. OnlyCommands /\ SendersKnown /\ c \in Clients /\ DOMAIN clicks = Clients
  BY DEF Recorded, Folded, SInv, Connections, Arrivals
<1>2. ASSUME UNCHANGED <<messages, clicks[c], uplink[c]>> PROVE Patient(c)
  BY <1>2 DEF Patient, Alone, Sent
<1>3. ASSUME NEW d \in Clients, Enter(d) PROVE Patient(c)
  <2>1. c # d /\ uplink'[c] = uplink[c] /\ UNCHANGED <<messages, clicks>>
    BY <1>1, <1>3 DEF Enter, Connect, server, client, OnlyCommands
  <2> QED
    BY <1>2, <2>1
<1>4. ASSUME NEW d \in Clients, Leave(d) PROVE Patient(c)
  <2>1. /\ c # d /\ uplink'[c] = uplink[c] /\ messages' = messages
        /\ clicks'[c] = clicks[c]
    BY <1>1, <1>4 DEF Leave, Disconnect, Quit, server, OnlyCommands
  <2> QED
    BY <1>2, <2>1
<1>5. ASSUME NEW d \in Clients, NEW arrived \in Unread(d), Frame(d, arrived), UNCHANGED server
      PROVE  Patient(c)
  BY <1>2, <1>5 DEF Frame, renet, server
<1>6. ASSUME NEW d \in Clients, NEW cursor \in Cursors[d], Click(d, cursor), UNCHANGED server
      PROVE  Patient(c) \/ \E at \in Cursors[c] : Click(c, at) /\ UNCHANGED server
  <2>1. CASE c = d
    BY <1>6, <2>1
  <2>2. CASE c # d
    <3>1. uplink'[c] = uplink[c] /\ clicks'[c] = clicks[c] /\ messages' = messages
      BY <1>1, <1>6, <2>2 DEF Click, server, OnlyCommands
    <3> QED
      BY <1>2, <3>1
  <2> QED
    BY <2>1, <2>2
<1>7. CASE Serve
  <2>1. clicks' = clicks
    BY <1>7 DEF Serve, client
  <2>2. ASSUME NEW d \in connected, NEW arrived \in 0..Len(uplink[d]), Poll(d, arrived)
        PROVE  Patient(c)
    <3>1. Alone(c) => Alone(c)'
      BY <1>1, <2>2, PollAlone
    <3>2. ASSUME NEW cmd, Sent(c, cmd)' PROVE Sent(c, cmd)
      <4>1. CASE d # c
        <5>1. uplink'[c] = uplink[c]
          BY <1>1, <2>2, <4>1 DEF Poll, OnlyCommands
        <5> QED
          BY <3>2, <5>1 DEF Sent
      <4>2. CASE d = c
        <5>1. PICK queue : queue = uplink[c]
          OBVIOUS
        <5>2. /\ queue \in Seq(Commands) /\ Len(queue) \in Nat /\ arrived \in 0..Len(queue)
          BY <1>1, <2>2, <4>2, <5>1 DEF OnlyCommands
        <5>3. PICK rest : rest = SubSeq(queue, arrived + 1, Len(queue))
          OBVIOUS
        <5>4. /\ Len(rest) = Len(queue) - arrived
              /\ \A k \in 1..Len(rest) : rest[k] = queue[arrived + k] /\ arrived + k \in 1..Len(queue)
          BY <5>2, <5>3, SubSeqProperties
        <5>5. uplink'[c] = rest
          BY <1>1, <2>2, <4>2, <5>1, <5>3 DEF Poll, OnlyCommands
        <5>6. PICK k \in 1..Len(rest) : rest[k] = cmd
          BY <3>2, <5>5 DEF Sent
        <5> QED
          BY <5>1, <5>4, <5>6 DEF Sent
      <4> QED
        BY <4>1, <4>2
    <3> QED
      BY <2>1, <3>1, <3>2 DEF Patient
  <2>3. CASE HandleMessage
    <3>1. messages # << >> /\ messages' = Tail(messages) /\ uplink' = uplink
      BY <2>3 DEF HandleMessage
    <3>2. Alone(c) => Alone(c)'
      BY <1>1, <3>1, TakenAlone
    <3> QED
      BY <2>1, <3>1, <3>2 DEF Patient, Sent
  <2>4. CASE \/ BeginTick \/ HandleConnected \/ HandleDisconnected \/ EndTick
             \/ \E cmd \in topic : HandleBrokerCommand(cmd)
    <3>1. UNCHANGED <<messages, uplink>>
      BY <2>4 DEF BeginTick, HandleConnected, HandleDisconnected, EndTick, HandleBrokerCommand, renet
    <3> QED
      BY <1>2, <2>1, <3>1
  <2> QED
    BY <1>7, <2>2, <2>3, <2>4 DEF Serve, ServerNext
<1>8. CASE Restart
  BY <1>8 DEF Restart, CutOff
<1>9. CASE UNCHANGED vars
  BY <1>2, <1>9 DEF vars, server, client, renet
<1> QED
  BY <1>3, <1>4, <1>5, <1>6, <1>7, <1>8, <1>9 DEF Next, Play, ClientNext

\* A move in turn on a free tile is accepted (decider.rs:65-101).
LEMMA MoveAccepted ==
  ASSUME state.stage = "InGame", NEW c, NEW cmd, MoveOf(c, cmd), cmd.at \in Positions,
         state.active_player_id = c, state.board[cmd.at] = Empty
  PROVE  decide(state, cmd).error = "None" /\ Len(decide(state, cmd).events) > 0
<1>1. cmd.at \in 0..8 /\ ~ (cmd.at > 8)
  BY DEF Positions
<1> DEFINE place == TilePlaced(c, cmd.at)
           judged == PlaceAndJudge(place, evolve(state, place).board)
<1>2. decide(state, cmd) = Ok(judged)
  BY <1>1 DEF decide, DecidePlace, MoveOf
<1>3. Len(judged) > 0
  BY DEF PlaceAndJudge
<1> HIDE DEF judged
<1> QED
  BY <1>2, <1>3 DEF Ok

\* Tiles are counted in numbers.
LEMMA TilesNumber ==
  ASSUME NEW board
  PROVE  TilesOn(board) \in Nat
<1>1. \A a, b \in Int : IsFiniteSet(a..b)
  BY FS_Interval
<1> DEFINE taken == {i \in Positions : board[i] # Empty}
<1>2. taken \subseteq 0..8 /\ 0 \in Int /\ 8 \in Int
  BY DEF Positions
<1> HIDE DEF taken
<1>3. IsFiniteSet(0..8)
  BY <1>1, <1>2, Zenon
<1>4. IsFiniteSet(taken)
  BY <1>2, <1>3, FS_Subset
<1> QED
  BY <1>4, FS_CardinalityType DEF TilesOn, taken

LEMMA ClickAdded ==
  ASSUME ClicksTyped, NEW c \in Clients, NEW cursor \in Cursors[c], Click(c, cursor)
  PROVE  \E at \in Positions :
           /\ MayClick(c, at) /\ clicks' = [clicks EXCEPT ![c] = clicks'[c]]
           /\ clicks'[c] \in Seq(Positions \X Nat)
           /\ Len(clicks[c]) \in Nat /\ Len(clicks'[c]) = Len(clicks[c]) + 1
           /\ \A k \in 1..Len(clicks[c]) : clicks'[c][k] = clicks[c][k]
           /\ clicks'[c][Len(clicks[c]) + 1][2] = TilesOn(view[c].board)
           /\ uplink' = [uplink EXCEPT ![c] = Append(@, PlaceTile(c, at))]
<1> DEFINE at == CellAt(cursor)
           click == <<at, TilesOn(view[c].board)>>
<1>1. /\ at # Nowhere /\ MayClick(c, at)
      /\ uplink' = [uplink EXCEPT ![c] = Append(@, PlaceTile(c, at))]
      /\ clicks' = [clicks EXCEPT ![c] = Append(clicks[c], click)]
  BY DEF Click
<1>2. at \in Positions
  BY <1>1, CellOnBoard DEF Positions
<1>3. click \in Positions \X Nat /\ click[2] = TilesOn(view[c].board)
  <2>1. TilesOn(view[c].board) \in Nat
    BY TilesNumber
  <2> QED
    BY <1>2, <2>1
<1>4. clicks[c] \in Seq(Positions \X Nat) /\ DOMAIN clicks = Clients
  BY DEF ClicksTyped
<1> HIDE DEF click, at
<1>5. clicks'[c] = Append(clicks[c], click) /\ clicks' = [clicks EXCEPT ![c] = clicks'[c]]
  BY <1>1, <1>4
<1>6. /\ clicks'[c] \in Seq(Positions \X Nat)
      /\ Len(clicks[c]) \in Nat /\ Len(clicks'[c]) = Len(clicks[c]) + 1
      /\ \A k \in 1..Len(clicks[c]) : clicks'[c][k] = clicks[c][k]
      /\ clicks'[c][Len(clicks[c]) + 1] = click
  <2> DEFINE S == Positions \X Nat
  <2>1. clicks[c] \in Seq(S) /\ click \in S
    BY <1>3, <1>4
  <2> HIDE DEF S
  <2>2. /\ clicks'[c] \in Seq(S)
        /\ Len(clicks[c]) \in Nat /\ Len(clicks'[c]) = Len(clicks[c]) + 1
        /\ \A k \in 1..Len(clicks[c]) : clicks'[c][k] = clicks[c][k]
        /\ clicks'[c][Len(clicks[c]) + 1] = click
    BY <1>5, <2>1, AppendProperties
  <2> QED
    BY <2>2 DEF S
<1> QED
  BY <1>1, <1>2, <1>3, <1>5, <1>6

LEMMA StepTypedClicks ==
  ASSUME Recorded, ClicksTyped, [Next]_vars
  PROVE  ClicksTyped'
<1> USE DEF ClicksTyped
<1>1. << >> \in Seq(Positions \X Nat)
  BY EmptySeq
<1>2. ASSUME NEW cut, Quit(cut) PROVE ClicksTyped'
  BY <1>1, <1>2 DEF Quit
<1>3. ASSUME NEW d \in Clients, Leave(d) PROVE ClicksTyped'
  BY <1>2, <1>3 DEF Leave
<1>4. ASSUME NEW d \in Clients, NEW cursor \in Cursors[d], Click(d, cursor) PROVE ClicksTyped'
  BY <1>4, ClickAdded
<1>5. CASE Restart
  BY <1>2, <1>5 DEF Restart, CutOff
<1>6. CASE UNCHANGED clicks
  BY <1>6
<1>7. ASSUME NEW d \in Clients, NEW arrived, Frame(d, arrived) PROVE UNCHANGED clicks
  BY <1>7 DEF Frame
<1> QED
  BY <1>3, <1>4, <1>5, <1>6, <1>7 DEF Next, Enter, Play, ClientNext, Serve, vars, client

\* Nothing is handled, and none of the client's own moves is added.
LEMMA QuietCautious ==
  ASSUME Recorded, NEW c \in connected, Cautious(c), Patient(c), UNCHANGED <<log, state, topic>>,
         \A cmd \in Commands : MoveOf(c, cmd) /\ Arrived(cmd)' => Waits(c, cmd)
  PROVE  Cautious(c)'
<1> SUFFICES ASSUME Single(c)'
             PROVE  OwnMoves(c)' /\ (state'.stage = "InGame" => (Alone(c) /\ Promising(c) /\ Spent(c))')
  BY DEF Cautious
<1>1. clicks'[c] = clicks[c]
  BY DEF Patient
<1>2. Single(c) /\ \A board : Counted(c, board)' <=> Counted(c, board)
  BY <1>1 DEF Single, Counted
<1>3. OwnMoves(c) /\ (state.stage = "InGame" => Alone(c) /\ Promising(c) /\ Spent(c))
  BY <1>2 DEF Cautious
<1>4. OwnMoves(c)'
  BY <1>1, <1>3 DEF OwnMoves, Counted
<1>5. ASSUME state'.stage = "InGame" PROVE (Alone(c) /\ Promising(c) /\ Spent(c))'
  <2>1. Alone(c) /\ Promising(c) /\ Spent(c)
    BY <1>3, <1>5
  <2>2. Alone(c)' /\ Spent(c)'
    BY <2>1 DEF Patient, Spent
  <2>3. ASSUME NEW cmd \in Commands, Waits(c, cmd)' PROVE Waits(c, cmd)
    BY <2>3 DEF Waits, Patient, MoveOf
  <2>4. Promising(c)'
    BY <1>1, <2>1, <2>3 DEF Promising, Counted
  <2> QED
    BY <2>2, <2>4
<1> QED
  BY <1>4, <1>5

\* A command is handled: another player's, or the client's own, which is the
\* one that was waiting or comes again from the topic.
LEMMA HandledCautious ==
  ASSUME Recorded, Arrivals, OnlyCommands', NEW c \in connected, Cautious(c), Patient(c),
         NEW cmd \in Commands, NEW streams, handle(cmd, streams),
         topic' \subseteq topic \cup {cmd},
         \A other \in Commands : Arrived(other)' => Arrived(other),
         MoveOf(c, cmd) =>
           \/ cmd \in topic
           \/ Arrived(cmd) /\ (Alone(c) => \A other \in Commands : ~ (Waits(c, other)'))
  PROVE  Cautious(c)'
<1> SUFFICES ASSUME Single(c)'
             PROVE  OwnMoves(c)' /\ (state'.stage = "InGame" => (Alone(c) /\ Promising(c) /\ Spent(c))')
  BY DEF Cautious
<1>1. clicks'[c] = clicks[c]
  BY DEF Patient
<1>2. OwnMoves(c) /\ (state.stage = "InGame" => Alone(c) /\ Promising(c) /\ Spent(c))
  <2>1. Single(c)
    BY <1>1 DEF Single
  <2> QED
    BY <2>1 DEF Cautious
<1>3. PICK events \in Seq(GameEvent) : log' = log \o events /\ Outcome(cmd, events)
  BY HandleOutcome
<1>4. /\ log \in Seq(GameEvent) /\ state = hydrate(log) /\ state \in GameState
      /\ state.board \in [Positions -> Tile] /\ topic \subseteq Commands
  BY DEF Recorded, Folded, SInv, SessionTypes, LogReplayed, OnlyCommands, GameState
<1>5. InParts(log, events, log') /\ At(log, Len(log)) = state
      /\ \A n \in 0..Len(log) : At(log', n) = At(log, n)
  BY <1>3, <1>4, ConcatParts, AtEnd, AtPrefix
\* A move of its own that is accepted was promised.
<1>6. ASSUME MoveOf(c, cmd), Plays(c, cmd.at, events)
      PROVE  Counted(c, state.board) /\ (\A other \in Commands : ~ (Waits(c, other)'))
  <2>1. state.stage = "InGame" /\ state.board[cmd.at] = Empty
    BY <1>6 DEF Plays
  <2>2. Alone(c) /\ Promising(c) /\ Spent(c)
    BY <1>2, <2>1
  <2>3. cmd \notin topic
    BY <1>6, <2>1, <2>2 DEF Spent
  <2>4. Waits(c, cmd)
    BY <1>6, <2>3 DEF Waits
  <2> QED
    BY <1>6, <2>2, <2>3, <2>4 DEF Promising
<1>7. OwnMoves(c)'
  <2> SUFFICES ASSUME NEW p \in 1..Len(log'), log'[p].type = "TilePlaced", log'[p].player_id = c
               PROVE  Counted(c, At(log', p - 1).board)
    BY <1>1 DEF OwnMoves, Counted
  <2>1. CASE p \in 1..Len(log)
    <3>1. log'[p] = log[p] /\ p - 1 \in 0..Len(log) /\ At(log', p - 1) = At(log, p - 1)
      BY <1>5, <2>1 DEF InParts
    <3>2. Counted(c, At(log, p - 1).board)
      BY <1>2, <2>1, <3>1 DEF OwnMoves
    <3> QED
      BY <3>1, <3>2
  <2>2. CASE p \notin 1..Len(log)
    <3>1. PICK m \in 1..Len(events) : p = Len(log) + m
      BY <1>5, <2>2 DEF InParts
    <3>2. events[m].type = "TilePlaced" /\ events[m].player_id = c
      BY <1>5, <3>1 DEF InParts
    <3>3. MoveOf(c, cmd) /\ Plays(c, cmd.at, events) /\ m = 1
      <4>1. ~ Rejected(events)
        BY <3>1 DEF Rejected
      <4>2. \A q : ~ SitsDown(q, events) /\ ~ SetsOff(q, events) /\ ~ Departs(q, events)
        BY <3>1, <3>2 DEF SitsDown, SetsOff, Departs, PlayerJoined, GameStarted, PlayerLeft, GameEnded
      <4>3. cmd.type = "PlaceTile" /\ Plays(cmd.player_id, cmd.at, events)
        BY <1>3, <4>1, <4>2 DEF Outcome
      <4>4. m = 1 /\ events[m].player_id = cmd.player_id
        BY <3>1, <3>2, <4>3 DEF Plays, TilePlaced
      <4> QED
        BY <3>2, <4>3, <4>4 DEF MoveOf
    <3>4. Counted(c, state.board)
      BY <1>6, <3>3
    <3>5. p - 1 = Len(log) /\ Len(log) \in 0..Len(log)
      BY <1>5, <3>1, <3>3 DEF InParts
    <3>6. At(log', p - 1) = state
      BY <1>5, <3>5
    <3> QED
      BY <3>4, <3>6
  <2> QED
    BY <2>1, <2>2
\* Where no move of its own waits, none is to be promised.
<1>8. ASSUME \A other \in Commands : ~ (Waits(c, other)')
      PROVE  Alone(c)' /\ Promising(c)'
  <2>1. c \in Clients
    BY DEF Recorded, Folded, Connections
  <2>2. /\ \A k \in 1..Len(messages') : messages'[k] \in Commands
        /\ \A k \in 1..Len(uplink'[c]) : uplink'[c][k] \in Commands
    BY <2>1 DEF OnlyCommands
  <2>3. \A other \in Commands : MoveOf(c, other) => ~ Arrived(other)' /\ ~ Sent(c, other)'
    BY <1>8 DEF Waits, MoveOf
  <2>4. /\ \A k \in 1..Len(messages') : ~ MoveOf(c, messages'[k])
        /\ \A k \in 1..Len(uplink'[c]) : ~ MoveOf(c, uplink'[c][k])
    BY <2>2, <2>3 DEF Arrived, Sent
  <2>5. Alone(c)'
    BY <2>4 DEF Alone, MoveOf
  <2> QED
    BY <1>8, <2>5 DEF Promising
<1>9. \A other \in Commands : Waits(c, other)' => Waits(c, other)
  BY DEF Waits, Patient, MoveOf
\* A game that begins has seen no move yet.
<1>10. ASSUME state.stage = "Lobby" PROVE Alone(c)' /\ Promising(c)' /\ Spent(c)'
  <2>1. /\ \A other \in topic : other.type # "PlaceTile"
        /\ \A other \in Commands : ~ Waits(c, other)
    <3>1. c \in Clients
      BY DEF Recorded, Folded, Connections
    <3> QED
      BY <1>10, <3>1 DEF Arrivals, LobbyIsQuiet, Waits, MoveOf
  <2>2. Alone(c)' /\ Promising(c)'
    BY <1>8, <1>9, <2>1
  <2>3. ~ MoveOf(c, cmd)
    BY <2>1 DEF Waits, MoveOf
  <2>4. Spent(c)'
    BY <2>1, <2>3 DEF Spent, MoveOf
  <2> QED
    BY <2>2, <2>4
<1>11. ASSUME state.stage = "InGame", state'.stage = "InGame"
       PROVE  Alone(c)' /\ Promising(c)' /\ Spent(c)'
  <2>1. Alone(c) /\ Promising(c) /\ Spent(c)
    BY <1>2, <1>11
  <2>2. Rejected(events) \/ (cmd.type = "PlaceTile" /\ Plays(cmd.player_id, cmd.at, events))
    BY <1>3, <1>11 DEF Outcome, SitsDown, SetsOff, Departs
  <2>3. CASE Rejected(events)
    <3>1. state' = state
      BY <2>3 DEF Rejected
    <3>2. MoveOf(c, cmd) => cmd \in topic
      <4> SUFFICES ASSUME MoveOf(c, cmd), cmd \notin topic PROVE FALSE
        OBVIOUS
      <4>1. Waits(c, cmd)
        BY DEF Waits
      <4>2. state.active_player_id = c /\ cmd.at \in Positions /\ state.board[cmd.at] = Empty
        BY <2>1, <4>1 DEF Promising
      <4>3. Len(decide(state, cmd).events) > 0
        BY <1>11, <4>2, MoveAccepted
      <4>4. log' = log \o decide(state, cmd).events /\ decide(state, cmd).events \in Seq(GameEvent)
        BY <1>4, DecidesEvents DEF handle, Commands
      <4>5. Len(log') = Len(log) + Len(decide(state, cmd).events) /\ Len(log') = Len(log) + 0
        BY <1>3, <1>4, <2>3, <4>4, ConcatProperties DEF Rejected
      <4> QED
        BY <1>4, <4>3, <4>4, <4>5
    <3>3. Spent(c)'
      BY <2>1, <3>1, <3>2 DEF Spent, MoveOf
    <3>4. Alone(c)' /\ Promising(c)'
      <4>1. Promising(c)'
        BY <1>1, <1>9, <2>1, <3>1 DEF Promising, Counted
      <4> QED
        BY <2>1, <4>1 DEF Patient
    <3> QED
      BY <3>3, <3>4
  <2>4. CASE cmd.type = "PlaceTile" /\ Plays(cmd.player_id, cmd.at, events)
    <3>1. /\ state.active_player_id = cmd.player_id /\ cmd.at \in Positions
          /\ \E tile \in {"X", "O"} : state'.board = [state.board EXCEPT ![cmd.at] = tile]
      BY <2>4 DEF Plays
    <3>2. /\ state'.board[cmd.at] # Empty
          /\ \A i \in Positions : state.board[i] # Empty => state'.board[i] # Empty
      BY <1>4, <3>1 DEF Empty
    <3>3. Spent(c)'
      BY <2>1, <3>1, <3>2 DEF Spent, MoveOf
    <3>4. CASE MoveOf(c, cmd)
      BY <1>6, <1>8, <2>4, <3>3, <3>4 DEF MoveOf
    <3>5. CASE ~ MoveOf(c, cmd)
      <4>1. cmd.player_id # c
        BY <2>4, <3>5 DEF MoveOf
      <4>2. \A other \in Commands : ~ Waits(c, other)
        BY <2>1, <3>1, <4>1 DEF Promising
      <4> QED
        BY <1>8, <1>9, <3>3, <4>2
    <3> QED
      BY <3>4, <3>5
  <2> QED
    BY <2>2, <2>3, <2>4
<1>12. ASSUME state.stage # "Lobby", state.stage # "InGame" PROVE state'.stage # "InGame"
  <2>1. state.stage = "Ended"
    BY <1>4, <1>12 DEF GameState, Stage
  <2> QED
    BY <1>3, <2>1, LateOutcome
<1> QED
  BY <1>7, <1>10, <1>11, <1>12

\* A click: if it is for a turn not clicked for before, the move of that turn
\* has not been made, and what the client sees is how things are.
LEMMA ClickCautious ==
  ASSUME Recorded, Arrivals, OnlyCommands', ClicksTyped, NEW c \in connected,
         Behind(c), Cautious(c),
         NEW cursor \in Cursors[c], Click(c, cursor), UNCHANGED server
  PROVE  Cautious(c)'
<1>1. /\ c \in Clients /\ OnlyCommands /\ log \in Seq(GameEvent) /\ Orderly(log)
      /\ state = hydrate(log)
  BY DEF Recorded, Folded, SInv, SessionTypes, LogReplayed, Connections
<1>2. PICK at \in Positions :
        /\ MayClick(c, at)
        /\ Len(clicks[c]) \in Nat /\ Len(clicks'[c]) = Len(clicks[c]) + 1
        /\ \A k \in 1..Len(clicks[c]) : clicks'[c][k] = clicks[c][k]
        /\ clicks'[c][Len(clicks[c]) + 1][2] = TilesOn(view[c].board)
        /\ uplink' = [uplink EXCEPT ![c] = Append(@, PlaceTile(c, at))]
  BY <1>1, ClickAdded
<1>3. UNCHANGED <<log, state, topic, messages>>
  BY DEF server
<1> SUFFICES ASSUME Single(c)'
             PROVE  OwnMoves(c)' /\ (state'.stage = "InGame" => (Alone(c) /\ Promising(c) /\ Spent(c))')
  BY DEF Cautious
<1> DEFINE n == Len(clicks[c])
<1>4. Single(c) /\ ~ Counted(c, view[c].board)
  <2>1. /\ \A k \in 1..n : k \in 1..Len(clicks'[c]) /\ k # n + 1
        /\ n + 1 \in 1..Len(clicks'[c])
    BY <1>2
  <2>2. Single(c)
    BY <1>2, <2>1 DEF Single
  <2>3. ASSUME NEW k \in 1..n, clicks[c][k][2] = TilesOn(view[c].board) PROVE FALSE
    <3>1. clicks'[c][k][2] = clicks'[c][n + 1][2]
      BY <1>2, <2>3
    <3> QED
      BY <2>1, <3>1 DEF Single
  <2> QED
    BY <2>2, <2>3 DEF Counted
<1>5. \A board : Counted(c, board) => \E k \in 1..Len(clicks'[c]) : clicks'[c][k][2] = TilesOn(board)
  <2>1. \A k \in 1..n : k \in 1..Len(clicks'[c])
    BY <1>2
  <2> QED
    BY <1>2, <2>1 DEF Counted
<1>6. OwnMoves(c) /\ (state.stage = "InGame" => Alone(c) /\ Promising(c) /\ Spent(c))
  BY <1>4 DEF Cautious
<1>7. OwnMoves(c)'
  BY <1>3, <1>5, <1>6 DEF OwnMoves, Counted
<1>8. PICK q \in 0..Len(log) :
        /\ At(log, q).stage = "InGame" /\ At(log, q).active_player_id = c
        /\ At(log, q).board = view[c].board
  BY <1>2, OwnTurnSeen DEF MayClick
<1>9. state.board = view[c].board /\ state.active_player_id = c
  <2>1. ASSUME NEW p \in (q + 1)..Len(log),
               log[p].type = "TilePlaced", log[p].player_id = At(log, q).active_player_id,
               At(log, p - 1).board = At(log, q).board
        PROVE  FALSE
    <3>1. p \in 1..Len(log)
      OBVIOUS
    <3>2. Counted(c, At(log, p - 1).board)
      BY <1>6, <1>8, <2>1, <3>1 DEF OwnMoves
    <3> QED
      BY <1>4, <1>8, <2>1, <3>2
  <2>2. \/ \E p \in (q + 1)..Len(log) :
              /\ log[p].type = "TilePlaced" /\ log[p].player_id = At(log, q).active_player_id
              /\ At(log, p - 1).board = At(log, q).board
        \/ /\ hydrate(log).board = At(log, q).board
           /\ hydrate(log).active_player_id = At(log, q).active_player_id
    BY <1>1, <1>8, NextMove
  <2> QED
    BY <1>1, <1>8, <2>1, <2>2
<1>10. ASSUME state'.stage = "InGame" PROVE Alone(c)' /\ Promising(c)' /\ Spent(c)'
  <2>1. Promising(c) /\ Spent(c)
    BY <1>3, <1>6, <1>10
  <2>2. \A cmd \in Commands : ~ Waits(c, cmd)
    BY <1>4, <1>9, <2>1 DEF Promising
  <2>3. PICK queue : queue = uplink[c]
    OBVIOUS
  <2>4. /\ queue \in Seq(Commands) /\ \A k \in 1..Len(queue) : queue[k] \in Commands
        /\ \A k \in 1..Len(messages) : messages[k] \in Commands
    BY <1>1, <2>3 DEF OnlyCommands
  <2>5. /\ \A k \in 1..Len(messages) : ~ MoveOf(c, messages[k])
        /\ \A k \in 1..Len(queue) : ~ MoveOf(c, queue[k])
    BY <2>2, <2>3, <2>4 DEF Waits, Arrived, Sent
  <2>6. PICK longer : longer = uplink'[c]
    OBVIOUS
  <2>7. /\ longer = Append(queue, PlaceTile(c, at)) /\ PlaceTile(c, at) \in Commands
    BY <1>1, <1>2, <2>3, <2>6, OwnCommands DEF OnlyCommands
  <2>8. /\ Len(queue) \in Nat /\ Len(longer) = Len(queue) + 1
        /\ \A k \in 1..Len(queue) : longer[k] = queue[k]
        /\ longer[Len(queue) + 1] = PlaceTile(c, at)
    BY <2>4, <2>7, AppendProperties
  <2>9. \A k \in 1..Len(longer) : MoveOf(c, longer[k]) => k = Len(queue) + 1
    <3>1. \A k \in 1..Len(longer) : k \in 1..Len(queue) \/ k = Len(queue) + 1
      BY <2>8
    <3> QED
      BY <2>5, <2>8, <3>1
  <2>10. Alone(c)'
    BY <1>3, <2>5, <2>6, <2>9 DEF Alone, MoveOf
  <2>11. ASSUME NEW cmd \in Commands, Waits(c, cmd)' PROVE cmd = PlaceTile(c, at)
    <3>1. MoveOf(c, cmd) /\ ~ Arrived(cmd)'
      BY <1>3, <2>5, <2>11 DEF Waits, MoveOf, Arrived
    <3>2. PICK k \in 1..Len(longer) : longer[k] = cmd
      BY <2>6, <2>11, <3>1 DEF Waits, MoveOf, Sent
    <3> QED
      BY <2>8, <2>9, <3>1, <3>2
  <2>12. PlaceTile(c, at).at = at /\ state.board[at] = Empty
    BY <1>2, <1>9 DEF PlaceTile, MayClick
  <2>13. \E k \in 1..Len(clicks'[c]) : clicks'[c][k][2] = TilesOn(state.board)
    <3>1. n + 1 \in 1..Len(clicks'[c])
      BY <1>2
    <3> QED
      BY <1>2, <1>9, <3>1
  <2>14. Promising(c)'
    BY <1>3, <1>9, <2>11, <2>12, <2>13 DEF Promising, Counted
  <2>15. Spent(c)'
    BY <1>3, <2>1 DEF Spent, MoveOf
  <2> QED
    BY <2>10, <2>14, <2>15
<1> QED
  BY <1>7, <1>10

\* Who comes has neither moved nor sent a move.
LEMMA EntersCautious ==
  ASSUME Recorded, Arrivals, Movers, [Next]_vars, NEW c \in Clients, Enters(c)
  PROVE  Cautious(c)'
<1>1. /\ c \notin connected \cup gone /\ UNCHANGED <<log, state, topic, messages>>
      /\ \A cmd \in Commands : Sent(c, cmd)' => Sent(c, cmd) \/ cmd = JoinGame(c)
  BY DEF Enters
<1>2. /\ log \in Seq(GameEvent) /\ Orderly(log) /\ c # NoPlayer
      /\ \A m \in 1..Len(log) : log[m] \in SoundEvent
  BY ClientsArePlayers, SentinelIsNoPlayer, OrderlySound
     DEF Recorded, Folded, SInv, SessionTypes
<1>3. \A m \in 0..Len(log) : ~ Joined(c, m)
  BY <1>1, AnnouncedUnseated
<1>4. ASSUME NEW p \in 1..Len(log), log[p].type = "TilePlaced", log[p].player_id = c PROVE FALSE
  <2>1. p - 1 \in 0..Len(log) /\ \A m \in 1..(p - 1) : m \in 1..Len(log) /\ m \in 0..Len(log)
    BY <1>2
  <2>2. InPlace(At(log, p - 1), log[p - 1], log[p])
    BY <1>2 DEF Orderly
  <2>3. At(log, p - 1).active_player_id = c
    BY <1>4, <2>2 DEF InPlace
  <2>4. \A m \in 1..(p - 1) : /\ log[m].type = "PlayerJoined" => log[m].player_id # c
                              /\ log[m].type = "GameStarted" => log[m].goes_first # c
    BY <1>2, <1>3, <2>1, JoinedToPlay DEF Joined
  <2> QED
    BY <1>2, <2>1, <2>3, <2>4, UnheardOf
<1>5. ASSUME NEW cmd \in Commands, Waits(c, cmd)' PROVE FALSE
  <2>1. MoveOf(c, cmd) /\ (Arrived(cmd)' \/ Sent(c, cmd)')
    BY <1>5 DEF Waits, MoveOf
  <2>2. Arrived(cmd) \/ Sent(c, cmd)
    BY <1>1, <2>1 DEF Arrived, MoveOf, JoinGame
  <2> QED
    BY <1>1, <2>1, <2>2 DEF Arrivals, SendersKnown, Known, MoveOf
<1>6. \A cmd \in topic : ~ MoveOf(c, cmd)
  BY <1>1 DEF Movers, MoveOf
<1>7. OwnMoves(c)'
  BY <1>1, <1>4 DEF OwnMoves
<1>8. Promising(c)' /\ Spent(c)'
  BY <1>1, <1>5, <1>6 DEF Promising, Spent, MoveOf
<1>9. Alone(c)'
  <2>1. OnlyCommands'
    BY StepRecorded DEF Recorded, Folded, SInv
  <2>2. /\ \A k \in 1..Len(messages') : messages'[k] \in Commands
        /\ \A k \in 1..Len(uplink'[c]) : uplink'[c][k] \in Commands
    BY <2>1 DEF OnlyCommands
  <2>3. /\ \A k \in 1..Len(messages') : ~ MoveOf(c, messages'[k])
        /\ \A k \in 1..Len(uplink'[c]) : ~ MoveOf(c, uplink'[c][k])
    BY <1>5, <2>2 DEF Waits, MoveOf, Arrived, Sent
  <2> QED
    BY <2>3 DEF Alone, MoveOf
<1> QED
  BY <1>7, <1>8, <1>9 DEF Cautious

\* Who sent what the topic has.
LEMMA StepMovers ==
  ASSUME Recorded, Arrivals, Movers, [Next]_vars
  PROVE  Movers'
<1> USE DEF Movers
<1>1. CASE Resets
  BY <1>1 DEF Resets
<1>2. CASE Moves
  BY <1>2 DEF Moves
<1>3. ASSUME NEW d \in Clients, Enters(d) \/ Leaves(d) PROVE Movers'
  <2>1. topic' = topic /\ connected \cup gone \subseteq connected' \cup gone'
    BY <1>3 DEF Enters, Leaves
  <2> QED
    BY <2>1
<1>4. ASSUME NEW d \in Clients, Greets(d) \/ Misses(d) PROVE Movers'
  <2>1. /\ UNCHANGED <<connected, gone>>
        /\ topic' = topic \cup {JoinGame(d)} \/ topic' = topic \cup {LeaveGame(d)}
    BY <1>4 DEF Greets, Misses, Notes
  <2> QED
    BY <2>1 DEF JoinGame, LeaveGame
<1>5. ASSUME NEW cmd \in Commands, Takes(cmd) PROVE Movers'
  <2>1. UNCHANGED <<connected, gone>> /\ topic' \subseteq topic \cup {cmd}
    BY <1>5 DEF Takes
  <2>2. cmd \in topic \/ cmd.player_id \in connected \cup gone
    BY <1>5 DEF Takes, Arrivals, SendersKnown, Known
  <2> QED
    BY <2>1, <2>2
<1> QED
  BY <1>1, <1>2, <1>3, <1>4, <1>5, StepKinds

LEMMA StepCautious ==
  ASSUME Recorded, Arrivals, ClicksTyped, Movers, [Next]_vars,
         \A c \in connected : Behind(c) /\ Cautious(c), NEW c \in connected'
  PROVE  Cautious(c)'
<1>1. OnlyCommands /\ OnlyCommands' /\ connected \subseteq Clients /\ c \in Clients
  <2>1. Recorded'
    BY StepRecorded
  <2> QED
    BY <2>1 DEF Recorded, Folded, SInv, Connections
<1>2. CASE c \notin connected
  <2>1. ~ Resets /\ ~ Moves /\ \A cmd \in Commands : ~ Takes(cmd)
    BY <1>2 DEF Resets, Moves, Takes
  <2>2. \A d \in Clients : ~ Leaves(d) /\ ~ Greets(d) /\ ~ Misses(d)
    BY <1>2 DEF Leaves, Greets, Misses, Notes
  <2>3. \A d \in Clients : Enters(d) => d = c
    BY <1>2 DEF Enters
  <2>4. Enters(c)
    BY <2>1, <2>2, <2>3, StepKinds
  <2> QED
    BY <1>1, <2>4, EntersCautious
<1>3. CASE c \in connected
  <2>1. Behind(c) /\ Cautious(c)
    BY <1>3
  <2>2. ASSUME NEW cursor \in Cursors[c], Click(c, cursor), UNCHANGED server PROVE Cautious(c)'
    BY <1>1, <1>3, <2>1, <2>2, ClickCautious
  <2>3. CASE Patient(c)
    <3>1. ~ Resets
      BY DEF Resets
    <3>2. CASE Moves
      <4>1. UNCHANGED <<log, state, topic>>
        BY <3>2 DEF Moves
      <4>2. ASSUME NEW cmd \in Commands, MoveOf(c, cmd), Arrived(cmd)' PROVE Waits(c, cmd)
        <5>1. Arrived(cmd) \/ \E d \in connected : Sent(d, cmd)
          BY <3>2, <4>2 DEF Moves
        <5>2. Arrived(cmd) \/ Sent(c, cmd)
          BY <1>1, <4>2, <5>1 DEF Arrivals, SendersKnown, MoveOf
        <5> QED
          BY <4>2, <5>2 DEF Waits
      <4> QED
        BY <1>3, <2>1, <2>3, <4>1, <4>2, QuietCautious
    <3>3. ASSUME NEW d \in Clients, Enters(d) \/ Leaves(d) PROVE Cautious(c)'
      <4>1. UNCHANGED <<log, state, topic, messages>>
        BY <3>3 DEF Enters, Leaves
      <4>2. \A cmd \in Commands : MoveOf(c, cmd) /\ Arrived(cmd)' => Waits(c, cmd)
        BY <4>1 DEF Arrived, Waits
      <4> QED
        BY <1>3, <2>1, <2>3, <4>1, <4>2, QuietCautious
    <3>4. ASSUME NEW d \in Clients, NEW cmd \in Commands, NEW notice, NEW streams,
                 Notes(d, notice, cmd, streams), cmd.type # "PlaceTile"
          PROVE  Cautious(c)'
      <4>1. handle(cmd, streams) /\ topic' \subseteq topic \cup {cmd} /\ messages' = messages
        BY <3>4 DEF Notes
      <4>2. ~ MoveOf(c, cmd) /\ \A other \in Commands : Arrived(other)' => Arrived(other)
        BY <3>4, <4>1 DEF MoveOf, Arrived
      <4> QED
        BY <1>1, <1>3, <2>1, <2>3, <4>1, <4>2, HandledCautious
    <3>5. ASSUME NEW d \in Clients, Greets(d) \/ Misses(d) PROVE Cautious(c)'
      <4>1. /\ JoinGame(d) \in Commands /\ JoinGame(d).type # "PlaceTile"
            /\ LeaveGame(d) \in Commands /\ LeaveGame(d).type # "PlaceTile"
        BY OwnCommands DEF JoinGame, LeaveGame
      <4> QED
        BY <3>4, <3>5, <4>1 DEF Greets, Misses
    <3>6. ASSUME NEW cmd \in Commands, Takes(cmd) PROVE Cautious(c)'
      <4>1. /\ handle(cmd, downlink) /\ topic' \subseteq topic \cup {cmd}
            /\ \A other \in Commands : Arrived(other)' => Arrived(other)
        BY <3>6 DEF Takes
      <4>2. ASSUME MoveOf(c, cmd), cmd \notin topic
            PROVE  Arrived(cmd) /\ (Alone(c) => \A other \in Commands : ~ (Waits(c, other)'))
        <5>1. /\ Arrived(cmd) /\ messages # << >> /\ cmd = Head(messages)
              /\ messages' = Tail(messages) /\ uplink' = uplink
          BY <3>6, <4>2 DEF Takes
        <5> QED
          BY <1>1, <4>2, <5>1, TakenAlone
      <4> QED
        BY <1>1, <1>3, <2>1, <2>3, <4>1, <4>2, HandledCautious
    <3> QED
      BY <3>1, <3>2, <3>3, <3>5, <3>6, StepKinds
  <2> QED
    BY <1>3, <2>2, <2>3, StepPatient
<1> QED
  BY <1>2, <1>3

\* What holds of clicks: it is kept by every step.
Clicked ==
  /\ Recorded /\ Arrivals /\ ClicksTyped /\ Movers
  /\ \A c \in connected : Behind(c) /\ Cautious(c)

LEMMA InitClicked == Init => Clicked
<1> SUFFICES ASSUME Init PROVE Clicked
  OBVIOUS
<1>1. connected = {} /\ topic = {} /\ clicks = [c \in Clients |-> << >>]
  BY DEF Init, RenetInit, ServerInit, ClientInit
<1>2. << >> \in Seq(Positions \X Nat)
  BY EmptySeq
<1> QED
  BY <1>1, <1>2, InitRecorded, InitArrivals DEF Clicked, ClicksTyped, Movers

LEMMA StepClicked ==
  ASSUME Clicked, [Next]_vars
  PROVE  Clicked'
<1>1. /\ Recorded /\ Arrivals /\ ClicksTyped /\ Movers
      /\ \A c \in connected : Behind(c) /\ Cautious(c)
  BY DEF Clicked
<1>2. Recorded' /\ Arrivals' /\ ClicksTyped' /\ Movers'
  BY <1>1, StepRecorded, StepArrivals, StepTypedClicks, StepMovers
<1>3. ASSUME NEW c \in connected' PROVE Behind(c)' /\ Cautious(c)'
  BY <1>1, StepBehind, StepCautious
<1> QED
  BY <1>2, <1>3 DEF Clicked

(* A client that clicks once for each turn it sees, in a copy of the game  *)
(* that may be behind, loses no move: while one of its moves waits to be   *)
(* handled it is still its turn and the tile is still free, whatever comes *)
(* back from the topic, unless the game has ended (client/src/main.rs:     *)
(* 261-303 sends the move, decider.rs:65-101 judges it).                   *)
THEOREM ClicksCount == Spec => []SingleClicksCount
<1>1. Init => Clicked
  BY InitClicked
<1>2. Clicked /\ [Next]_vars => Clicked'
  BY StepClicked
<1>3. Clicked => SingleClicksCount
  <2> SUFFICES ASSUME Clicked, NEW c \in connected,
                      \A j, k \in 1..Len(clicks[c]) : j # k => clicks[c][j][2] # clicks[c][k][2],
                      NEW at \in Positions,
                      \/ \E k \in 1..Len(uplink[c]) : uplink[c][k] = PlaceTile(c, at)
                      \/ \E k \in 1..Len(messages) : messages[k] = PlaceTile(c, at),
                      state.stage # "Ended"
               PROVE  decide(state, PlaceTile(c, at)).error = "None"
    BY DEF SingleClicksCount, Hasty
  <2> DEFINE cmd == PlaceTile(c, at)
  <2>1. c \in Clients /\ state \in GameState /\ Arrivals /\ Cautious(c)
    BY DEF Clicked, Recorded, Folded, SInv, SessionTypes, Connections
  <2>2. cmd \in Commands /\ MoveOf(c, cmd) /\ cmd.at = at
    <3>1. cmd \in Commands
      BY <2>1, OwnCommands
    <3> QED
      BY <3>1 DEF PlaceTile, MoveOf
  <2>3. Waits(c, cmd)
    BY <2>2 DEF Waits, Arrived, Sent
  <2> HIDE DEF cmd
  <2>4. state.stage # "Lobby"
    BY <2>1, <2>2, <2>3 DEF Arrivals, LobbyIsQuiet, Waits, MoveOf
  <2>5. state.stage = "InGame"
    BY <2>1, <2>4 DEF GameState, Stage
  <2>6. Promising(c)
    BY <2>1, <2>5 DEF Cautious, Single
  <2>7. state.active_player_id = c /\ state.board[cmd.at] = Empty
    BY <2>2, <2>3, <2>6 DEF Promising
  <2>8. decide(state, cmd).error = "None"
    BY <2>2, <2>5, <2>7, MoveAccepted
  <2> QED
    BY <2>8 DEF cmd
<1> QED
  BY <1>1, <1>2, <1>3, PTL DEF Spec
=============================================================================
