--------------------------- MODULE BrokerConsumer ---------------------------
(***************************************************************************)
(* The way of a command from the commands topic into the game loop and of  *)
(* its acknowledgement back: consumer_loop of server/src/adapters/         *)
(* redpanda.rs, one task per consumer group, all feeding one bounded       *)
(* channel, and drain_broker_commands of server/src/main.rs, which empties *)
(* it.  Offsets count from 0; a committed offset is the next one to read.  *)
(***************************************************************************)
EXTENDS Integers, Sequences, FiniteSets

CONSTANTS
  Groups,        \* CONSUMER_GROUPS: each reads all of the topic's one partition
  Capacity,      \* of the crossbeam channel, bounded(256) in main
  MaxTopic,      \* bound: records the topic may hold
  MaxRebalances, \* bound: rebalances of one group
  MaxRestarts    \* bound: restarts of the server

ASSUME ConsumerBounds ==
  /\ Capacity \in Nat \ {0}
  /\ {MaxTopic, MaxRebalances, MaxRestarts} \subseteq Nat

VARIABLES
  topic,      \* the records: the epoch of a command's game id, or Garbage
  epoch,      \* which start of the server this is, hence its game id
  position,   \* of each group: the next offset recv returns
  phase,      \* of each group's task: "recv", "send" or "wait" (for an ack)
  current,    \* of each group: the offset of the message in hand
  signal,     \* of each group's oneshot: "none", "acked" or "dropped"
  channel,    \* BrokerCommands on their way: [group, offset, heard]
  commits,    \* of each group: offsets of asynchronous commits under way
  committed,  \* of each group: the offset the broker has stored
  handled,    \* of each group: <<offset, error>> of the calls of handle
  acked,      \* of each group: the offsets ack() was called for
  rebalances  \* of each group: how many there were

consumers == <<position, phase, current, signal, commits>>
broker    == <<topic, committed, rebalances>>
loop      == <<epoch, handled, acked>>
vars      == <<consumers, broker, loop, channel>>

\* A record that does not decode to a CommandEnvelope, of no epoch.
Garbage == -1
Offsets == 0..(MaxTopic - 1)

\* What handle may return of a command of this game: "Rejected" stands for
\* any error of decide, which handle turns into text (map_err, game_service.rs:53).
Errors == {"None", "WrongGame", "Rejected"}

\* The match of drain_broker_commands: an error is acked only if it can be
\* downcast to TicTacTussleError, and only WrongGame still can.
Acks(error) == error \in {"None", "WrongGame"}

\* What the AckHandle tells the task: ack() was called, or it was dropped.
Answer(error) == IF Acks(error) THEN "acked" ELSE "dropped"

-----------------------------------------------------------------------------

Init ==
  /\ topic = << >> /\ epoch = 0
  /\ position = [g \in Groups |-> 0]
  /\ phase = [g \in Groups |-> "recv"]
  /\ current = [g \in Groups |-> 0]
  /\ signal = [g \in Groups |-> "none"]
  /\ channel = << >>
  /\ commits = [g \in Groups |-> << >>]
  /\ committed = [g \in Groups |-> 0]
  /\ handled = [g \in Groups |-> {}]
  /\ acked = [g \in Groups |-> {}]
  /\ rebalances = [g \in Groups |-> 0]

\* Anyone may write to the topic: the server its own commands, others noise.
Produce(record) ==
  /\ Len(topic) < MaxTopic
  /\ topic' = Append(topic, record)
  /\ UNCHANGED <<consumers, committed, rebalances, loop, channel>>

\* Mutant: a record that does not decode is committed to get past it.
Skip_Commits(g) ==
  /\ phase[g] = "recv" /\ position[g] < Len(topic)
  /\ topic[position[g] + 1] = Garbage
  /\ position' = [position EXCEPT ![g] = @ + 1]
  /\ commits' = [commits EXCEPT ![g] = Append(@, position[g] + 1)]
  /\ UNCHANGED <<phase, current, signal, broker, loop, channel>>

\* recv returned a record that does not decode: it is logged and passed over.
Skip(g) ==
  /\ phase[g] = "recv" /\ position[g] < Len(topic)
  /\ topic[position[g] + 1] = Garbage
  /\ position' = [position EXCEPT ![g] = @ + 1]
  /\ UNCHANGED <<phase, current, signal, commits, broker, loop, channel>>

Recv(g) ==
  /\ phase[g] = "recv" /\ position[g] < Len(topic)
  /\ topic[position[g] + 1] # Garbage
  /\ current' = [current EXCEPT ![g] = position[g]]
  /\ position' = [position EXCEPT ![g] = @ + 1]
  /\ phase' = [phase EXCEPT ![g] = "send"]
  /\ UNCHANGED <<signal, commits, broker, loop, channel>>

\* cmd_tx.send blocks while the channel is full; every message has a oneshot
\* of its own, heard as long as the task waits on its receiver.
Send(g) ==
  /\ phase[g] = "send" /\ Len(channel) < Capacity
  /\ channel' = Append(channel, [group |-> g, offset |-> current[g], heard |-> TRUE])
  /\ signal' = [signal EXCEPT ![g] = "none"]
  /\ phase' = [phase EXCEPT ![g] = "wait"]
  /\ UNCHANGED <<position, current, commits, broker, loop>>

\* Mutant: the receiver is kept, and a late ack is taken for the next one.
AckTimeout_StillListens(g) ==
  /\ phase[g] = "wait" /\ signal[g] = "none"
  /\ phase' = [phase EXCEPT ![g] = "recv"]
  /\ UNCHANGED <<position, current, signal, commits, broker, loop, channel>>

\* Mutant: giving up on a message commits it.
AckTimeout_Commits(g) ==
  /\ phase[g] = "wait" /\ signal[g] = "none"
  /\ phase' = [phase EXCEPT ![g] = "recv"]
  /\ commits' = [commits EXCEPT ![g] = Append(@, current[g] + 1)]
  /\ channel' = [k \in 1..Len(channel) |->
                   [channel[k] EXCEPT !.heard = @ /\ channel[k].group # g]]
  /\ UNCHANGED <<position, current, signal, broker, loop>>

\* ACK_TIMEOUT ran out with nothing signalled (timeout polls the receiver
\* first): the receiver is dropped and the command stays in the channel.
AckTimeout(g) ==
  /\ phase[g] = "wait" /\ signal[g] = "none"
  /\ phase' = [phase EXCEPT ![g] = "recv"]
  /\ channel' = [k \in 1..Len(channel) |->
                   [channel[k] EXCEPT !.heard = @ /\ channel[k].group # g]]
  /\ UNCHANGED <<position, current, signal, commits, broker, loop>>

\* The AckHandle was dropped: a warning, and on to the next message.
OnDropped(g) ==
  /\ phase[g] = "wait" /\ signal[g] = "dropped"
  /\ phase' = [phase EXCEPT ![g] = "recv"]
  /\ UNCHANGED <<position, current, signal, commits, broker, loop, channel>>

\* Mutant: one off, the offset behind the next message is asked for.
OnAcked_OneOff(g) ==
  /\ phase[g] = "wait" /\ signal[g] = "acked"
  /\ commits' = [commits EXCEPT ![g] = Append(@, current[g] + 2)]
  /\ phase' = [phase EXCEPT ![g] = "recv"]
  /\ UNCHANGED <<position, current, signal, broker, loop, channel>>

\* commit_message(&msg, Async) asks for the offset behind this message.
OnAcked(g) ==
  /\ phase[g] = "wait" /\ signal[g] = "acked"
  /\ commits' = [commits EXCEPT ![g] = Append(@, current[g] + 1)]
  /\ phase' = [phase EXCEPT ![g] = "recv"]
  /\ UNCHANGED <<position, current, signal, broker, loop, channel>>

\* The broker answers the oldest commit under way, for better or worse: a
\* failure only reaches commit_callback, which logs it.
CommitAnswered(g, stored) ==
  /\ commits[g] # << >>
  /\ commits' = [commits EXCEPT ![g] = Tail(@)]
  /\ committed' = IF stored THEN [committed EXCEPT ![g] = Head(commits[g])]
                  ELSE committed
  /\ UNCHANGED <<position, phase, current, signal, topic, rebalances, loop, channel>>

\* Mutant: a group without a stored offset reads on from the end.
Rebalance_Latest(g) ==
  /\ rebalances[g] < MaxRebalances
  /\ rebalances' = [rebalances EXCEPT ![g] = @ + 1]
  /\ position' = [position EXCEPT ![g] = IF committed[g] = 0 THEN Len(topic) ELSE committed[g]]
  /\ commits' = [commits EXCEPT ![g] = << >>]
  /\ UNCHANGED <<phase, current, signal, topic, committed, loop, channel>>

\* The group is reassigned the partition: it reads on from what is stored.
\* Commits of the old generation are answered before that, or refused.
Rebalance(g) ==
  /\ rebalances[g] < MaxRebalances
  /\ rebalances' = [rebalances EXCEPT ![g] = @ + 1]
  /\ position' = [position EXCEPT ![g] = committed[g]]
  /\ commits' = [commits EXCEPT ![g] = << >>]
  /\ UNCHANGED <<phase, current, signal, topic, committed, loop, channel>>

\* One turn of drain_broker_commands: handle the oldest command, then ack it
\* or drop its handle; either is signalled only if somebody still waits.
Drain(error) ==
  /\ channel # << >>
  /\ LET head == Head(channel)
         g == head.group
     IN  /\ (error = "WrongGame") <=> (topic[head.offset + 1] # epoch)
         /\ handled' = [handled EXCEPT ![g] = @ \cup {<<head.offset, error>>}]
         /\ acked' = IF Acks(error) THEN [acked EXCEPT ![g] = @ \cup {head.offset}]
                     ELSE acked
         /\ signal' = IF head.heard THEN [signal EXCEPT ![g] = Answer(error)] ELSE signal
  /\ channel' = Tail(channel)
  /\ UNCHANGED <<position, phase, current, commits, broker, epoch>>

\* Mutant: auto.offset.reset is "latest".
Restart_Latest ==
  /\ epoch < MaxRestarts
  /\ epoch' = epoch + 1
  /\ position' = [g \in Groups |-> IF committed[g] = 0 THEN Len(topic) ELSE committed[g]]
  /\ phase' = [g \in Groups |-> "recv"]
  /\ signal' = [g \in Groups |-> "none"]
  /\ commits' = [g \in Groups |-> << >>]
  /\ channel' = << >>
  /\ UNCHANGED <<current, broker, handled, acked>>

\* The process ends and starts again: a new game id, an empty channel, and
\* consumers that begin at the stored offsets ("earliest" when there is none).
Restart ==
  /\ epoch < MaxRestarts
  /\ epoch' = epoch + 1
  /\ position' = committed
  /\ phase' = [g \in Groups |-> "recv"]
  /\ signal' = [g \in Groups |-> "none"]
  /\ commits' = [g \in Groups |-> << >>]
  /\ channel' = << >>
  /\ UNCHANGED <<current, broker, handled, acked>>

Next ==
  \/ \E record \in {epoch, Garbage} : Produce(record)
  \/ \E g \in Groups :
       \/ Skip(g) \/ Recv(g) \/ Send(g)
       \/ AckTimeout(g) \/ OnDropped(g) \/ OnAcked(g)
       \/ \E stored \in BOOLEAN : CommitAnswered(g, stored)
       \/ Rebalance(g)
  \/ \E error \in Errors : Drain(error)
  \/ Restart

Spec == Init /\ [][Next]_vars

\* The tasks run as long as they can, and every tick of the game loop empties
\* the channel; nothing makes a commit arrive, a timeout fire or a restart.
Fairness ==
  /\ \A g \in Groups :
       /\ WF_vars(Skip(g)) /\ WF_vars(Recv(g)) /\ WF_vars(Send(g))
       /\ WF_vars(OnDropped(g)) /\ WF_vars(OnAcked(g))
  /\ WF_vars(\E error \in Errors : Drain(error))

FairSpec == Spec /\ Fairness

-----------------------------------------------------------------------------

TypeOK ==
  /\ topic \in Seq((0..MaxRestarts) \cup {Garbage}) /\ Len(topic) <= MaxTopic
  /\ epoch \in 0..MaxRestarts
  /\ position \in [Groups -> 0..MaxTopic]
  /\ phase \in [Groups -> {"recv", "send", "wait"}]
  /\ current \in [Groups -> 0..MaxTopic]
  /\ signal \in [Groups -> {"none", "acked", "dropped"}]
  /\ channel \in Seq([group : Groups, offset : Offsets, heard : BOOLEAN])
  /\ commits \in [Groups -> Seq(1..MaxTopic)]
  /\ committed \in [Groups -> 0..MaxTopic]
  /\ handled \in [Groups -> SUBSET (Offsets \X Errors)]
  /\ acked \in [Groups -> SUBSET Offsets]
  /\ rebalances \in [Groups -> 0..MaxRebalances]

(* The offset a group commits stands right behind a message the game loop  *)
(* has acknowledged, never behind another one: a late acknowledgement of a *)
(* message given up on must not pass for the one now waited for.           *)
CommitsFollowAcks ==
  \A g \in Groups :
    /\ \A k \in 1..Len(commits[g]) : commits[g][k] - 1 \in acked[g]
    /\ committed[g] > 0 => committed[g] - 1 \in acked[g]

\* The command at this offset has gone through handle, whatever came of it.
Handled(g, offset) == \E error \in Errors : <<offset, error>> \in handled[g]

(* At least once, in the sense the code does keep: no stored offset passes *)
(* a command the game loop has not handled for that group, over timeouts,  *)
(* rebalances, lost commits and restarts.  It rests on the channel being   *)
(* first in first out and on each task sending in the order of the topic.  *)
NothingPassedUnhandled ==
  \A g \in Groups, offset \in Offsets :
    offset < committed[g] => topic[offset + 1] = Garbage \/ Handled(g, offset)

Promise == INSTANCE AtLeastOnce WITH
  readable <- [k \in 1..Len(topic) |-> topic[k] # Garbage],
  done <- [g \in Groups |-> {o \in Offsets : Handled(g, o)}],
  stored <- committed

(* redpanda.rs:3 promises delivery "AT-LEAST-ONCE": with a command handled *)
(* for processed and a committed offset for stored, every step of tasks,   *)
(* game loop and broker is a step of that promise or changes nothing of it.*)
ImplementsAtLeastOnce == Promise!Spec

(* A task that waits is owed an answer: its command is in the channel with *)
(* its receiver open, once, or the answer is there already.                *)
WaitersAreOwed ==
  \A g \in Groups :
    LET open == {k \in 1..Len(channel) : channel[k].group = g /\ channel[k].heard}
    IN  IF phase[g] = "wait" /\ signal[g] = "none"
        THEN Cardinality(open) = 1 /\ \A k \in open : channel[k].offset = current[g]
        ELSE open = {}

(* Every command in the topic is handled for every group in the end: no    *)
(* timeout, rebalance or restart between its arrival and its turn loses    *)
(* it, and a full channel leaves neither the tasks nor the game loop       *)
(* waiting for each other.                                                 *)
EveryCommandIsHandled ==
  \A g \in Groups, offset \in Offsets :
    (offset < Len(topic) /\ topic[offset + 1] # Garbage) ~> Handled(g, offset)

-----------------------------------------------------------------------------
(* What the repository says of the adapter, and the code does not do.      *)

(* server/src/adapters/redpanda.rs:10-11: "On drop-without-ack (processing *)
(* failure) or timeout, the offset stays uncommitted".                     *)
UnackedStaysUncommitted ==
  \A g \in Groups, offset \in Offsets :
    offset < committed[g] /\ Handled(g, offset) => offset \in acked[g]

(* server/src/main.rs:207: "Domain violations are also ACKed".             *)
DomainViolationsAreAcked ==
  \A g \in Groups, offset \in Offsets :
    <<offset, "Rejected">> \in handled[g] => offset \in acked[g]
=============================================================================
