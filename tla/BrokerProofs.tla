---------------------------- MODULE BrokerProofs ----------------------------
(***************************************************************************)
(* The consumers keep the promise of AtLeastOnce for any groups, any size  *)
(* of the channel and any bounds: timeouts, dropped acknowledgements, lost *)
(* commits, rebalances and restarts in any order.                          *)
(***************************************************************************)
EXTENDS BrokerConsumer, SequenceTheorems, FiniteSetTheorems, TLAPS

Entry == [group : Groups, offset : Offsets, heard : BOOLEAN]
Record == (0..MaxRestarts) \cup {Garbage}

\* A record that is a command of this or another game.
Readable(offset) == offset \in 0..(Len(topic) - 1) /\ topic[offset + 1] # Garbage

(* What is in hand, on its way, handled or stored refers to records that   *)
(* are in the topic.                                                       *)
WithinTopic ==
  /\ \A g \in Groups :
       /\ position[g] <= Len(topic)
       /\ committed[g] <= Len(topic)
       /\ \A k \in 1..Len(commits[g]) : commits[g][k] <= Len(topic)
       /\ phase[g] # "recv" => Readable(current[g])
  /\ \A k \in 1..Len(channel) : Readable(channel[k].offset)

\* Entry k is a command of g, or the one at this offset of its topic.
Carries(k, g, offset) == channel[k].group = g /\ channel[k].offset = offset
IsOpen(k, g) == channel[k].group = g /\ channel[k].heard

Settled(g, offset) == topic[offset + 1] = Garbage \/ Handled(g, offset)

\* It is settled, or it will be when the channel has been emptied.
Queued(g, offset) ==
  Settled(g, offset) \/ \E k \in 1..Len(channel) : Carries(k, g, offset)

(* The heard entry of a waiting task, said without counting.               *)
Owed(g) ==
  IF phase[g] = "wait" /\ signal[g] = "none"
  THEN \E k \in 1..Len(channel) :
         /\ IsOpen(k, g) /\ channel[k].offset = current[g]
         /\ \A j \in 1..Len(channel) : IsOpen(j, g) => j = k
  ELSE \A k \in 1..Len(channel) : ~ IsOpen(k, g)

(* Nothing is overtaken: what lies before the position has been queued, or *)
(* is about to be; what lies before a message in hand has been queued, and *)
(* before one that is heard in the channel, ahead of it.                   *)
ReadInOrder(g) ==
  \A o \in 0..(position[g] - 1) : Queued(g, o) \/ (phase[g] = "send" /\ o = current[g])

SentInOrder(g) ==
  phase[g] = "send" => \A o \in 0..(current[g] - 1) : Queued(g, o)

HeardInOrder(g) ==
  \A k \in 1..Len(channel) : IsOpen(k, g) =>
    \A o \in 0..(channel[k].offset - 1) :
      Settled(g, o) \/ \E j \in 1..(k - 1) : Carries(j, g, o)

(* So what an acknowledgement stands for, and therefore what is committed, *)
(* has nothing unsettled before it.                                        *)
AnsweredInOrder(g) ==
  phase[g] = "wait" /\ signal[g] = "acked" =>
    /\ current[g] \in acked[g]
    /\ \A o \in 0..current[g] : Settled(g, o)

Backed(g, n) == n - 1 \in acked[g] /\ \A o \in 0..(n - 1) : Settled(g, o)

StoredInOrder(g) ==
  /\ \A k \in 1..Len(commits[g]) : Backed(g, commits[g][k])
  /\ committed[g] > 0 => Backed(g, committed[g])

InOrder ==
  \A g \in Groups :
    /\ ReadInOrder(g) /\ SentInOrder(g) /\ HeardInOrder(g)
    /\ AnsweredInOrder(g) /\ StoredInOrder(g)

IInv == TypeOK /\ WithinTopic /\ (\A g \in Groups : Owed(g)) /\ InOrder

\* Facts about the bounds that every step needs.
LEMMA Bounds ==
  /\ MaxTopic \in Nat /\ MaxRestarts \in Nat /\ MaxRebalances \in Nat /\ Capacity \in Nat
  /\ \A n \in 0..MaxTopic : n < MaxTopic => n \in Offsets
  /\ Offsets \subseteq 0..MaxTopic
BY ConsumerBounds DEF Offsets

\* A receiver that is dropped leaves the entries where they are.
LEMMA TimeoutKeepsEntries ==
  ASSUME TypeOK, NEW g \in Groups, AckTimeout(g)
  PROVE  /\ channel' \in Seq(Entry) /\ Len(channel') = Len(channel)
         /\ \A k \in 1..Len(channel) :
              /\ channel'[k].group = channel[k].group
              /\ channel'[k].offset = channel[k].offset
              /\ channel'[k].heard <=> channel[k].heard /\ channel[k].group # g
<1>1. channel \in Seq(Entry) /\ Len(channel) \in Nat
  BY DEF TypeOK, Entry
<1>2. \A k \in 1..Len(channel) : channel[k] \in Entry
  BY <1>1
<1>3. channel' = [k \in 1..Len(channel) |->
                    [channel[k] EXCEPT !.heard = @ /\ channel[k].group # g]]
  BY DEF AckTimeout
<1>4. \A k \in 1..Len(channel) :
        [channel[k] EXCEPT !.heard = @ /\ channel[k].group # g] \in Entry
  BY <1>2 DEF Entry
<1>5. channel' \in [1..Len(channel) -> Entry]
  BY <1>3, <1>4
<1>6. channel' \in Seq(Entry) /\ Len(channel') = Len(channel)
  BY <1>1, <1>5
<1>7. ASSUME NEW k \in 1..Len(channel)
      PROVE  /\ channel'[k].group = channel[k].group
             /\ channel'[k].offset = channel[k].offset
             /\ channel'[k].heard <=> channel[k].heard /\ channel[k].group # g
  BY <1>2, <1>3 DEF Entry
<1> QED
  BY <1>6, <1>7

\* A command sent is the last entry, and it is heard.
LEMMA SendAppends ==
  ASSUME TypeOK, WithinTopic, NEW g \in Groups, Send(g)
  PROVE  LET last == Len(channel) + 1
         IN  /\ channel' \in Seq(Entry) /\ Len(channel') = last
             /\ \A k \in 1..Len(channel) : channel'[k] = channel[k]
             /\ channel'[last].group = g /\ channel'[last].offset = current[g]
             /\ channel'[last].heard
<1> DEFINE entry == [group |-> g, offset |-> current[g], heard |-> TRUE]
<1>1. channel \in Seq(Entry) /\ Len(topic) \in Nat /\ Len(topic) <= MaxTopic
  BY DEF TypeOK, Entry
<1>2. current[g] \in Offsets
  BY <1>1, Bounds DEF WithinTopic, Send, Readable, Offsets
<1>3. entry \in Entry
  BY <1>2 DEF Entry
<1>4. channel' = Append(channel, entry)
  BY DEF Send
<1> QED
  BY <1>1, <1>3, <1>4, AppendProperties

\* The oldest entry is taken, the others move up by one.
LEMMA DrainShifts ==
  ASSUME TypeOK, NEW error \in Errors, Drain(error)
  PROVE  /\ channel # << >> /\ Len(channel) \in Nat \ {0} /\ channel[1] \in Entry
         /\ Head(channel) = channel[1]
         /\ channel' \in Seq(Entry) /\ Len(channel') = Len(channel) - 1
         /\ \A k \in 1..(Len(channel) - 1) : channel'[k] = channel[k + 1]
<1>1. channel \in Seq(Entry) /\ channel # << >> /\ channel' = Tail(channel)
  BY DEF TypeOK, Entry, Drain
<1>2. Len(channel) \in Nat \ {0}
  BY <1>1, EmptySeq
<1>3. channel[1] \in Entry /\ Head(channel) = channel[1]
  BY <1>1, <1>2
<1> QED
  BY <1>1, <1>2, <1>3, HeadTailProperties

-----------------------------------------------------------------------------
(* The types, with the references into the topic they depend on.           *)

\* The types and the references hold of the empty topic.
LEMMA InitTypes == Init => TypeOK /\ WithinTopic
<1> SUFFICES ASSUME Init PROVE TypeOK /\ WithinTopic
  OBVIOUS
<1> USE Bounds DEF Init
<1>1. TypeOK
  BY DEF TypeOK
<1>2. WithinTopic
  BY DEF WithinTopic
<1> QED
  BY <1>1, <1>2

\* Records are only added, and behind the others.
LEMMA TopicGrows ==
  ASSUME TypeOK, Next
  PROVE  /\ Len(topic) \in Nat /\ Len(topic') \in Nat /\ Len(topic) <= Len(topic')
         /\ \A offset \in 0..(Len(topic) - 1) : topic'[offset + 1] = topic[offset + 1]
<1>1. topic \in Seq(Record)
  BY DEF TypeOK, Record
<1>2. CASE topic' = topic
  BY <1>1, <1>2
<1>3. ASSUME NEW record \in {epoch, Garbage}, Produce(record)
      PROVE  /\ Len(topic') = Len(topic) + 1
             /\ \A k \in 1..Len(topic) : topic'[k] = topic[k]
  BY <1>1, <1>3, AppendProperties DEF Produce
<1>4. CASE \E record \in {epoch, Garbage} : Produce(record)
  BY <1>1, <1>3, <1>4
<1>5. CASE ~ \E record \in {epoch, Garbage} : Produce(record)
  <2>1. topic' = topic
    BY <1>5 DEF Next, Skip, Recv, Send, AckTimeout, OnDropped, OnAcked, CommitAnswered,
                Rebalance, Drain, Restart, broker
  <2> QED
    BY <2>1, <1>2
<1> QED
  BY <1>4, <1>5

\* What TypeOK says of single values.
LEMMA TypeFacts ==
  ASSUME TypeOK
  PROVE  /\ Len(topic) \in Nat /\ Len(topic) <= MaxTopic
         /\ Len(channel) \in Nat
         /\ \A k \in 1..Len(channel) : channel[k] \in Entry
         /\ \A g \in Groups :
              /\ position[g] \in Nat /\ current[g] \in Nat /\ committed[g] \in Nat
              /\ Len(commits[g]) \in Nat
              /\ \A k \in 1..Len(commits[g]) : commits[g][k] \in 1..MaxTopic
<1>1. /\ topic \in Seq(Record) /\ channel \in Seq(Entry)
      /\ \A g \in Groups : commits[g] \in Seq(1..MaxTopic)
  BY DEF TypeOK, Record, Entry
<1>2. \A g \in Groups :
        position[g] \in 0..MaxTopic /\ current[g] \in 0..MaxTopic /\ committed[g] \in 0..MaxTopic
  BY DEF TypeOK
<1>3. Len(topic) <= MaxTopic
  BY DEF TypeOK
<1> QED
  BY <1>1, <1>2, <1>3, Bounds, ElementOfSeq, LenProperties

\* Every step keeps the types and the references into the topic.
LEMMA NextTypes ==
  ASSUME TypeOK, WithinTopic, [Next]_vars
  PROVE  TypeOK' /\ WithinTopic'
<1> USE Bounds
<1>1. ASSUME NEW record \in {epoch, Garbage}, Produce(record)
      PROVE  TypeOK' /\ WithinTopic'
  <2>1. topic \in Seq(Record) /\ record \in Record
    BY DEF TypeOK, Record
  <2>2. topic' \in Seq(Record) /\ Len(topic') = Len(topic) + 1
    BY <1>1, <2>1, AppendProperties DEF Produce
  <2>3. Len(topic) \in Nat /\ Len(topic) + 1 <= MaxTopic
    BY <1>1 DEF TypeOK, Produce
  <2>4. \A offset : Readable(offset) => Readable(offset)'
    BY <2>1, <2>2, <2>3, <1>1, AppendProperties DEF Readable, Produce
  <2>5. TypeOK'
    BY <1>1, <2>2, <2>3 DEF TypeOK, Produce, Record, consumers, loop
  <2>6. WithinTopic'
    BY <1>1, <2>2, <2>3, <2>4 DEF TypeOK, WithinTopic, Produce, consumers, loop
  <2> QED
    BY <2>5, <2>6
<1>2. ASSUME NEW g \in Groups, Skip(g)
      PROVE  TypeOK' /\ WithinTopic'
  BY <1>2 DEF TypeOK, WithinTopic, Readable, Skip, broker, loop
<1>3. ASSUME NEW g \in Groups, Recv(g)
      PROVE  TypeOK' /\ WithinTopic'
  <2>2. Readable(position[g]) /\ position[g] + 1 <= Len(topic)
    BY <1>3, TypeFacts DEF Recv, Readable
  <2>4. position[g] \in 0..MaxTopic /\ position[g] + 1 \in 0..MaxTopic
    BY <2>2, TypeFacts
  <2>1. TypeOK'
    BY <1>3, <2>4 DEF TypeOK, Recv, broker, loop
  <2>3. WithinTopic'
    BY <1>3, <2>2, TypeFacts DEF TypeOK, WithinTopic, Readable, Recv, broker, loop
  <2> QED
    BY <2>1, <2>3
<1>4. ASSUME NEW g \in Groups, Send(g)
      PROVE  TypeOK' /\ WithinTopic'
  <2>1. TypeOK'
    BY <1>4, SendAppends DEF TypeOK, Send, Entry, broker, loop
  <2>2. Readable(current[g])
    BY <1>4 DEF WithinTopic, Send
  <2>3. \A k \in 1..Len(channel') : Readable(channel'[k].offset)
    BY <1>4, <2>2, SendAppends, TypeFacts DEF WithinTopic
  <2>4. WithinTopic'
    BY <1>4, <2>2, <2>3 DEF TypeOK, WithinTopic, Readable, Send, broker, loop
  <2> QED
    BY <2>1, <2>4
<1>5. ASSUME NEW g \in Groups, AckTimeout(g)
      PROVE  TypeOK' /\ WithinTopic'
  <2>1. TypeOK'
    BY <1>5, TimeoutKeepsEntries DEF TypeOK, AckTimeout, Entry, broker, loop
  <2>2. \A k \in 1..Len(channel') : Readable(channel'[k].offset)
    BY <1>5, TimeoutKeepsEntries, TypeFacts DEF WithinTopic
  <2>3. WithinTopic'
    BY <1>5, <2>2 DEF TypeOK, WithinTopic, Readable, AckTimeout, broker, loop
  <2> QED
    BY <2>1, <2>3
<1>6. ASSUME NEW g \in Groups, OnDropped(g)
      PROVE  TypeOK' /\ WithinTopic'
  BY <1>6 DEF TypeOK, WithinTopic, Readable, OnDropped, broker, loop
<1>7. ASSUME NEW g \in Groups, OnAcked(g)
      PROVE  TypeOK' /\ WithinTopic'
  <2>1. current[g] + 1 \in 1..MaxTopic /\ current[g] + 1 <= Len(topic)
    <3>1. Readable(current[g])
      BY <1>7 DEF WithinTopic, OnAcked
    <3> QED
      BY <3>1, TypeFacts DEF Readable
  <2>2. /\ commits[g] \in Seq(1..MaxTopic)
        /\ commits' = [commits EXCEPT ![g] = Append(@, current[g] + 1)]
    BY <1>7 DEF TypeOK, OnAcked
  <2>3. /\ commits'[g] \in Seq(1..MaxTopic)
        /\ \A k \in 1..Len(commits'[g]) : commits'[g][k] <= Len(topic)
    <3>1. commits'[g] = Append(commits[g], current[g] + 1)
      BY <2>2 DEF TypeOK
    <3>2. \A k \in 1..Len(commits[g]) : commits[g][k] <= Len(topic)
      BY DEF WithinTopic
    <3>3. \A k \in 1..(Len(commits[g]) + 1) :
            commits'[g][k] = IF k <= Len(commits[g]) THEN commits[g][k] ELSE current[g] + 1
      BY <2>1, <2>2, <3>1, TypeFacts, AppendProperties
    <3>4. commits'[g] \in Seq(1..MaxTopic) /\ Len(commits'[g]) = Len(commits[g]) + 1
      <4>1. /\ Append(commits[g], current[g] + 1) \in Seq(1..MaxTopic)
            /\ Len(Append(commits[g], current[g] + 1)) = Len(commits[g]) + 1
        BY <2>1, <2>2, AppendProperties
      <4> QED
        BY <3>1, <4>1
    <3>5. Len(commits[g]) \in Nat
      BY TypeFacts
    <3>6. ASSUME NEW k \in 1..Len(commits'[g])
          PROVE  commits'[g][k] <= Len(topic)
      <4>1. k \in 1..(Len(commits[g]) + 1)
        BY <3>4
      <4>2. CASE k <= Len(commits[g])
        BY <3>2, <3>3, <3>5, <4>1, <4>2
      <4>3. CASE k > Len(commits[g])
        BY <2>1, <3>3, <3>5, <4>1, <4>3
      <4> QED
        BY <3>5, <4>1, <4>2, <4>3
    <3> QED
      BY <3>4, <3>6
  <2>4. TypeOK'
    BY <1>7, <2>2, <2>3 DEF TypeOK, OnAcked, broker, loop
  <2>5. WithinTopic'
    BY <1>7, <2>2, <2>3 DEF TypeOK, WithinTopic, Readable, OnAcked, broker, loop
  <2> QED
    BY <2>4, <2>5
<1>8. ASSUME NEW g \in Groups, NEW stored \in BOOLEAN, CommitAnswered(g, stored)
      PROVE  TypeOK' /\ WithinTopic'
  <2>1. commits[g] \in Seq(1..MaxTopic) /\ commits[g] # << >>
    BY <1>8 DEF TypeOK, CommitAnswered
  <2>2. /\ Tail(commits[g]) \in Seq(1..MaxTopic)
        /\ \A k \in 1..Len(Tail(commits[g])) : Tail(commits[g])[k] <= Len(topic)
    <3>1. \A k \in 1..Len(commits[g]) : commits[g][k] <= Len(topic)
      BY DEF WithinTopic
    <3>2. /\ Tail(commits[g]) \in Seq(1..MaxTopic)
          /\ Len(Tail(commits[g])) = Len(commits[g]) - 1
          /\ \A k \in 1..Len(Tail(commits[g])) : Tail(commits[g])[k] = commits[g][k + 1]
      BY <2>1, HeadTailProperties
    <3> QED
      BY <3>1, <3>2, TypeFacts
  <2>3. Head(commits[g]) \in 1..MaxTopic /\ Head(commits[g]) <= Len(topic)
    BY <2>1, EmptySeq DEF WithinTopic
  <2>4. TypeOK'
    BY <1>8, <2>2, <2>3 DEF TypeOK, CommitAnswered, loop
  <2>5. WithinTopic'
    BY <1>8, <2>2, <2>3 DEF TypeOK, WithinTopic, Readable, CommitAnswered, loop
  <2> QED
    BY <2>4, <2>5
<1>9. ASSUME NEW g \in Groups, Rebalance(g)
      PROVE  TypeOK' /\ WithinTopic'
  <2>1. TypeOK'
    BY <1>9 DEF TypeOK, Rebalance, loop
  <2>2. WithinTopic'
    BY <1>9, TypeFacts DEF TypeOK, WithinTopic, Readable, Rebalance, loop
  <2> QED
    BY <2>1, <2>2
<1>10. ASSUME NEW error \in Errors, Drain(error)
       PROVE  TypeOK' /\ WithinTopic'
  <2>1. channel[1].group \in Groups /\ channel[1].offset \in Offsets
    BY <1>10, DrainShifts DEF Entry
  <2>2. /\ handled' \in [Groups -> SUBSET (Offsets \X Errors)]
        /\ acked' \in [Groups -> SUBSET Offsets]
        /\ signal' \in [Groups -> {"none", "acked", "dropped"}]
    <3>1. Head(channel).group \in Groups /\ Head(channel).offset \in Offsets
      BY <1>10, <2>1, DrainShifts
    <3>2. handled' \in [Groups -> SUBSET (Offsets \X Errors)]
      <4> DEFINE call == <<Head(channel).offset, error>>
      <4>1. call \in Offsets \X Errors
        BY <3>1
      <4>2. handled' = [handled EXCEPT ![Head(channel).group] = @ \cup {call}]
        BY <1>10 DEF Drain
      <4>3. handled \in [Groups -> SUBSET (Offsets \X Errors)]
        BY DEF TypeOK
      <4> HIDE DEF call
      <4> QED
        BY <3>1, <4>1, <4>2, <4>3
    <3>3. acked' \in [Groups -> SUBSET Offsets]
      BY <1>10, <3>1 DEF TypeOK, Drain
    <3>4. signal' \in [Groups -> {"none", "acked", "dropped"}]
      BY <1>10, <3>1 DEF TypeOK, Drain, Answer
    <3> QED
      BY <3>2, <3>3, <3>4
  <2>4. TypeOK'
    BY <1>10, <2>2, DrainShifts DEF TypeOK, Drain, Entry, broker
  <2>3. WithinTopic'
    BY <1>10, DrainShifts DEF TypeOK, WithinTopic, Readable, Drain, broker
  <2> QED
    BY <2>3, <2>4
<1>11. ASSUME Restart PROVE TypeOK' /\ WithinTopic'
  BY <1>11 DEF TypeOK, WithinTopic, Readable, Restart, broker
<1>12. CASE UNCHANGED vars
  BY <1>12 DEF TypeOK, WithinTopic, Readable, vars, consumers, broker, loop
<1> QED
  BY <1>1, <1>2, <1>3, <1>4, <1>5, <1>6, <1>7, <1>8, <1>9, <1>10, <1>11, <1>12 DEF Next

-----------------------------------------------------------------------------
(* Who waits is owed an answer.                                            *)

\* Every step keeps the one heard entry of a waiting task, or answers it.
LEMMA NextOwed ==
  ASSUME TypeOK, WithinTopic, \A g \in Groups : Owed(g), [Next]_vars, NEW h \in Groups
  PROVE  Owed(h)'
<1> USE TypeFacts DEF Owed, IsOpen
<1>1. ASSUME channel' = channel, phase'[h] = phase[h], signal' = signal, current'[h] = current[h]
      PROVE  Owed(h)'
  BY <1>1
<1>2. ASSUME channel' = channel, signal' = signal,
             ~ (phase[h] = "wait" /\ signal[h] = "none"), phase'[h] # "wait"
      PROVE  Owed(h)'
  BY <1>2
<1>3. ASSUME NEW record \in {epoch, Garbage}, Produce(record)
      PROVE  Owed(h)'
  BY <1>3, <1>1 DEF Produce, consumers
<1>4. ASSUME NEW g \in Groups, Skip(g) \/ Rebalance(g)
      PROVE  Owed(h)'
  BY <1>4, <1>1 DEF Skip, Rebalance
<1>5. ASSUME NEW g \in Groups, NEW stored \in BOOLEAN, CommitAnswered(g, stored)
      PROVE  Owed(h)'
  BY <1>5, <1>1 DEF CommitAnswered
<1>6. ASSUME NEW g \in Groups, Recv(g) \/ OnDropped(g) \/ OnAcked(g)
      PROVE  Owed(h)'
  <2>1. phase \in [Groups -> {"recv", "send", "wait"}] /\ current \in [Groups -> 0..MaxTopic]
    BY DEF TypeOK
  <2>2. CASE h = g
    BY <1>6, <1>2, <2>1, <2>2 DEF Recv, OnDropped, OnAcked
  <2>3. CASE h # g
    BY <1>6, <1>1, <2>1, <2>3 DEF Recv, OnDropped, OnAcked
  <2> QED
    BY <2>2, <2>3
<1>7. ASSUME NEW g \in Groups, Send(g)
      PROVE  Owed(h)'
  <2> DEFINE last == Len(channel) + 1
  <2>1. /\ Len(channel') = last /\ \A k \in 1..Len(channel) : channel'[k] = channel[k]
        /\ channel'[last].group = g /\ channel'[last].offset = current[g]
        /\ channel'[last].heard
    BY <1>7, SendAppends
  <2>2. /\ phase \in [Groups -> {"recv", "send", "wait"}]
        /\ signal \in [Groups -> {"none", "acked", "dropped"}]
    BY DEF TypeOK
  <2>3. CASE h = g
    <3>1. phase'[h] = "wait" /\ signal'[h] = "none" /\ current'[h] = current[h]
      BY <1>7, <2>2, <2>3 DEF Send
    <3>2. \A k \in 1..Len(channel) : ~ IsOpen(k, h)
      BY <1>7, <2>3 DEF Send
    <3>3. PICK k : k = last
      OBVIOUS
    <3>4. \A j \in 1..Len(channel') : IsOpen(j, h)' => j = k
      BY <2>1, <3>2, <3>3
    <3>5. k \in 1..Len(channel') /\ IsOpen(k, h)' /\ channel'[k].offset = current'[h]
      BY <2>1, <2>3, <3>1, <3>3
    <3> QED
      BY <3>1, <3>4, <3>5
  <2>4. CASE h # g
    <3>1. phase'[h] = phase[h] /\ signal'[h] = signal[h] /\ current'[h] = current[h]
      BY <1>7, <2>2, <2>4 DEF Send
    <3>2. \A k \in 1..Len(channel') :
            IsOpen(k, h)' <=> k \in 1..Len(channel) /\ IsOpen(k, h)
      BY <2>1, <2>4
    <3>3. \A k \in 1..Len(channel) : channel'[k].offset = channel[k].offset
      BY <2>1
    <3>4. 1..Len(channel) \subseteq 1..Len(channel')
      BY <2>1
    <3> HIDE DEF IsOpen
    <3> QED
      BY <3>1, <3>2, <3>3, <3>4
  <2> QED
    BY <2>3, <2>4
<1>8. ASSUME NEW g \in Groups, AckTimeout(g)
      PROVE  Owed(h)'
  <2>1. /\ Len(channel') = Len(channel)
        /\ \A k \in 1..Len(channel) :
             /\ channel'[k].offset = channel[k].offset
             /\ IsOpen(k, h)' <=> IsOpen(k, h) /\ h # g
    BY <1>8, TimeoutKeepsEntries
  <2>2. phase' = [phase EXCEPT ![g] = "recv"] /\ signal' = signal /\ current' = current
    BY <1>8 DEF AckTimeout
  <2>3. phase \in [Groups -> {"recv", "send", "wait"}]
    BY DEF TypeOK
  <2>4. CASE h = g
    BY <2>1, <2>2, <2>3, <2>4
  <2>5. CASE h # g
    BY <2>1, <2>2, <2>3, <2>5
  <2> QED
    BY <2>4, <2>5
<1>9. ASSUME NEW error \in Errors, Drain(error)
      PROVE  Owed(h)'
  <2> DEFINE g == channel[1].group
  <2>1. /\ Len(channel') = Len(channel) - 1 /\ Len(channel) \in Nat \ {0}
        /\ \A k \in 1..(Len(channel) - 1) : channel'[k] = channel[k + 1]
        /\ Head(channel) = channel[1] /\ g \in Groups
    BY <1>9, DrainShifts DEF Entry
  <2>2. phase' = phase /\ current' = current /\ signal \in [Groups -> {"none", "acked", "dropped"}]
    BY <1>9 DEF Drain, TypeOK
  <2>3. signal' = IF channel[1].heard THEN [signal EXCEPT ![g] = Answer(error)] ELSE signal
    BY <1>9, <2>1 DEF Drain
  <2>4. \A k \in 1..Len(channel') : IsOpen(k, h)' <=> IsOpen(k + 1, h)
    BY <2>1
  <2>5. CASE IsOpen(1, h)
    <3>1. g = h /\ channel[1].heard
      BY <2>5
    <3>2. signal'[h] # "none"
      BY <2>2, <2>3, <3>1 DEF Answer
    <3>3. \A j \in 1..Len(channel) : IsOpen(j, h) => j = 1
      BY <2>1, <2>5
    <3>4. \A k \in 1..Len(channel') : ~ IsOpen(k, h)'
      BY <2>1, <2>4, <3>3
    <3> QED
      BY <3>2, <3>4
  <2>6. CASE ~ IsOpen(1, h)
    <3>1. signal'[h] = signal[h]
      BY <2>1, <2>2, <2>3, <2>6
    <3>2. CASE phase[h] = "wait" /\ signal[h] = "none"
      <4>1. PICK k \in 1..Len(channel) :
              /\ IsOpen(k, h) /\ channel[k].offset = current[h]
              /\ \A j \in 1..Len(channel) : IsOpen(j, h) => j = k
        BY <3>2
      <4>2. k - 1 \in 1..Len(channel') /\ channel'[k - 1] = channel[k]
        BY <2>1, <2>6, <4>1
      <4>3. \A j \in 1..Len(channel') : IsOpen(j, h)' => j = k - 1
        BY <2>1, <2>4, <4>1
      <4> QED
        BY <2>2, <3>1, <3>2, <4>1, <4>2, <4>3
    <3>3. CASE ~ (phase[h] = "wait" /\ signal[h] = "none")
      BY <2>1, <2>2, <2>4, <3>1, <3>3
    <3> QED
      BY <3>2, <3>3
  <2> QED
    BY <2>5, <2>6
<1>10. ASSUME Restart PROVE Owed(h)'
  BY <1>10 DEF Restart
<1>11. CASE UNCHANGED vars
  BY <1>11, <1>1 DEF vars, consumers
<1> QED
  BY <1>3, <1>4, <1>5, <1>6, <1>7, <1>8, <1>9, <1>10, <1>11 DEF Next

-----------------------------------------------------------------------------
(* What is settled stays settled, what is queued stays so until a restart. *)

\* The records of the game loop only grow.
LEMMA RecordsStay ==
  ASSUME TypeOK, Next, NEW g \in Groups
  PROVE  handled[g] \subseteq handled'[g] /\ acked[g] \subseteq acked'[g]
<1>1. CASE handled' = handled /\ acked' = acked
  BY <1>1
<1>2. ASSUME NEW error \in Errors, Drain(error)
      PROVE  handled[g] \subseteq handled'[g] /\ acked[g] \subseteq acked'[g]
  BY <1>2 DEF Drain, TypeOK
<1>3. CASE ~ \E error \in Errors : Drain(error)
  <2>1. handled' = handled /\ acked' = acked
    BY <1>3 DEF Next, Produce, Skip, Recv, Send, AckTimeout, OnDropped, OnAcked,
                CommitAnswered, Rebalance, Restart, loop
  <2> QED
    BY <2>1
<1> QED
  BY <1>2, <1>3

\* A settled record stays settled.
LEMMA SettledStays ==
  ASSUME TypeOK, Next, NEW g \in Groups, NEW o \in 0..(Len(topic) - 1), Settled(g, o)
  PROVE  Settled(g, o)'
BY TopicGrows, RecordsStay DEF Settled, Handled

\* An offset fit to be committed stays fit.
LEMMA BackedStays ==
  ASSUME TypeOK, Next, NEW g \in Groups, NEW n \in Nat, n <= Len(topic), Backed(g, n)
  PROVE  Backed(g, n)'
<1>1. \A o \in 0..(n - 1) : o \in 0..(Len(topic) - 1)
  BY TypeFacts
<1>2. \A o \in 0..(n - 1) : Settled(g, o)'
  BY <1>1, SettledStays DEF Backed
<1> QED
  BY <1>2, RecordsStay DEF Backed

\* The command that leaves the channel is settled: handle has had it.
LEMMA DrainSettles ==
  ASSUME TypeOK, NEW error \in Errors, Drain(error),
         NEW g \in Groups, NEW o, Carries(1, g, o)
  PROVE  Settled(g, o)' /\ (Acks(error) => o \in acked'[g])
<1>1. Head(channel).group = g /\ Head(channel).offset = o
  BY DrainShifts DEF Carries
<1>2. <<o, error>> \in handled'[g]
  BY <1>1 DEF Drain, TypeOK
<1>3. Acks(error) => o \in acked'[g]
  BY <1>1 DEF Drain, TypeOK
<1> QED
  BY <1>2, <1>3 DEF Settled, Handled

\* A queued command is handled before it leaves the channel, but for a restart.
LEMMA QueuedStays ==
  ASSUME TypeOK, WithinTopic, Next, ~ Restart,
         NEW g \in Groups, NEW o \in 0..(Len(topic) - 1), Queued(g, o)
  PROVE  Queued(g, o)'
<1>1. CASE Settled(g, o)
  BY <1>1, SettledStays DEF Queued
<1>2. ASSUME NEW k \in 1..Len(channel), Carries(k, g, o)
      PROVE  Queued(g, o)'
  <2>1. CASE channel' = channel
    BY <1>2, <2>1 DEF Queued, Carries
  <2>2. ASSUME NEW h \in Groups, Send(h)
        PROVE  Queued(g, o)'
    BY <1>2, <2>2, SendAppends, TypeFacts DEF Queued, Carries
  <2>3. ASSUME NEW h \in Groups, AckTimeout(h)
        PROVE  Queued(g, o)'
    BY <1>2, <2>3, TimeoutKeepsEntries DEF Queued, Carries
  <2>4. ASSUME NEW error \in Errors, Drain(error)
        PROVE  Queued(g, o)'
    <3>1. CASE k = 1
      <4>1. Settled(g, o)'
        BY <1>2, <2>4, <3>1, DrainSettles
      <4> QED
        BY <4>1 DEF Queued
    <3>2. CASE k # 1
      <4>1. k - 1 \in 1..Len(channel') /\ channel'[k - 1] = channel[k]
        BY <2>4, <3>2, DrainShifts
      <4> QED
        BY <1>2, <4>1 DEF Queued, Carries
    <3> QED
      BY <3>1, <3>2
  <2>5. CASE /\ \A h \in Groups : ~ Send(h) /\ ~ AckTimeout(h)
             /\ ~ \E error \in Errors : Drain(error)
    <3>1. channel' = channel
      BY <2>5 DEF Next, Produce, Skip, Recv, OnDropped, OnAcked, CommitAnswered, Rebalance
    <3> QED
      BY <2>1, <3>1
  <2> QED
    BY <2>2, <2>3, <2>4, <2>5
<1> QED
  BY <1>1, <1>2 DEF Queued

-----------------------------------------------------------------------------
(* The order is kept: one lemma for each of its parts.                     *)

\* A task does nothing else until its send succeeds.
LEMMA InHandStays ==
  ASSUME TypeOK, Next, ~ Restart, NEW h \in Groups, phase[h] = "send", ~ Send(h)
  PROVE  phase'[h] = "send" /\ current'[h] = current[h]
<1>1. phase \in [Groups -> {"recv", "send", "wait"}] /\ current \in [Groups -> 0..MaxTopic]
  BY DEF TypeOK
<1> QED
  BY <1>1 DEF Next, Produce, Skip, Recv, Send, AckTimeout, OnDropped, OnAcked,
              CommitAnswered, Rebalance, Drain, consumers

\* What lies before the position has been queued or is in hand.
LEMMA NextRead ==
  ASSUME TypeOK, WithinTopic, InOrder, Next, NEW h \in Groups
  PROVE  ReadInOrder(h)'
<1> SUFFICES ASSUME NEW o \in 0..(position'[h] - 1)
             PROVE  Queued(h, o)' \/ (phase'[h] = "send" /\ o = current'[h])
  BY DEF ReadInOrder
<1> USE TypeFacts
<1>1. ASSUME o < committed[h] PROVE Queued(h, o)'
  <2>1. Settled(h, o) /\ o \in 0..(Len(topic) - 1)
    BY <1>1 DEF InOrder, StoredInOrder, Backed, WithinTopic
  <2> QED
    BY <2>1, SettledStays DEF Queued
<1>2. CASE Restart \/ Rebalance(h)
  <2>1. position'[h] = committed[h]
    BY <1>2 DEF Restart, Rebalance, TypeOK
  <2> QED
    BY <1>1, <2>1
<1>3. CASE ~ Restart /\ o < position[h]
  <2>1. o \in 0..(Len(topic) - 1) /\ (Queued(h, o) \/ (phase[h] = "send" /\ o = current[h]))
    BY <1>3 DEF InOrder, ReadInOrder, WithinTopic
  <2>2. CASE Queued(h, o)
    BY <1>3, <2>1, <2>2, QueuedStays
  <2>3. CASE phase[h] = "send" /\ o = current[h] /\ ~ Send(h)
    BY <1>3, <2>3, InHandStays
  <2>4. CASE o = current[h] /\ Send(h)
    BY <2>4, SendAppends DEF Queued, Carries
  <2> QED
    BY <2>1, <2>2, <2>3, <2>4
<1>4. CASE ~ Restart /\ ~ Rebalance(h) /\ o >= position[h]
  <2>1. position' # position /\ position'[h] # position[h]
    BY <1>4
  <2>2. Skip(h) \/ Recv(h)
    BY <1>4, <2>1 DEF TypeOK, Next, Produce, Skip, Recv, Send, AckTimeout, OnDropped,
                      OnAcked, CommitAnswered, Rebalance, Drain, consumers
  <2>3. o = position[h] /\ topic' = topic
    BY <1>4, <2>2 DEF Skip, Recv, TypeOK, broker
  <2>4. CASE Skip(h)
    BY <2>3, <2>4 DEF Skip, Queued, Settled
  <2>5. CASE Recv(h)
    BY <2>3, <2>5 DEF Recv, TypeOK
  <2> QED
    BY <2>2, <2>4, <2>5
<1> QED
  BY <1>2, <1>3, <1>4

\* What lies before a message in hand has been queued.
LEMMA NextSent ==
  ASSUME TypeOK, WithinTopic, InOrder, Next, NEW h \in Groups
  PROVE  SentInOrder(h)'
<1> SUFFICES ASSUME phase'[h] = "send", NEW o \in 0..(current'[h] - 1)
             PROVE  Queued(h, o)'
  BY DEF SentInOrder
<1> USE TypeFacts
<1>1. ~ Restart
  BY DEF Restart
<1>2. CASE Recv(h)
  <2>1. phase[h] = "recv" /\ current'[h] = position[h]
    BY <1>2 DEF Recv, TypeOK
  <2>2. Queued(h, o) /\ o \in 0..(Len(topic) - 1)
    BY <2>1 DEF InOrder, ReadInOrder, WithinTopic
  <2> QED
    BY <1>1, <2>2, QueuedStays
<1>3. CASE ~ Recv(h)
  <2>1. phase[h] = "send" /\ current'[h] = current[h]
    BY <1>1, <1>3 DEF TypeOK, Next, Produce, Skip, Recv, Send, AckTimeout, OnDropped, OnAcked,
                CommitAnswered, Rebalance, Drain, consumers
  <2>2. Queued(h, o)
    BY <2>1 DEF InOrder, SentInOrder
  <2>3. current[h] \in 0..(Len(topic) - 1)
    BY <2>1 DEF WithinTopic, Readable
  <2>4. o \in 0..(Len(topic) - 1)
    BY <2>1, <2>3
  <2> QED
    BY <1>1, <2>2, <2>4, QueuedStays
<1> QED
  BY <1>2, <1>3

\* What lies before a heard command is ahead of it in the channel.
LEMMA NextHeard ==
  ASSUME TypeOK, WithinTopic, InOrder, Next, NEW h \in Groups
  PROVE  HeardInOrder(h)'
<1> SUFFICES ASSUME NEW k \in 1..Len(channel'), IsOpen(k, h)',
                    NEW o \in 0..(channel'[k].offset - 1)
             PROVE  Settled(h, o)' \/ \E j \in 1..(k - 1) : Carries(j, h, o)'
  BY DEF HeardInOrder
<1> USE TypeFacts
\* The entry was there before, and so was what precedes it.
<1>1. ASSUME Len(channel') = Len(channel), channel'[k].offset = channel[k].offset, IsOpen(k, h),
             \A j \in 1..(k - 1) : Carries(j, h, o) => Carries(j, h, o)'
      PROVE  Settled(h, o)' \/ \E j \in 1..(k - 1) : Carries(j, h, o)'
  <2>1. Settled(h, o) \/ \E j \in 1..(k - 1) : Carries(j, h, o)
    BY <1>1 DEF InOrder, HeardInOrder
  <2>2. o \in 0..(Len(topic) - 1)
    BY <1>1 DEF WithinTopic, Readable, Entry, Offsets
  <2> QED
    BY <1>1, <2>1, <2>2, SettledStays
<1>2. CASE channel' = channel
  BY <1>1, <1>2 DEF IsOpen, Carries
<1>3. ASSUME NEW g \in Groups, AckTimeout(g)
      PROVE  Settled(h, o)' \/ \E j \in 1..(k - 1) : Carries(j, h, o)'
  BY <1>1, <1>3, TimeoutKeepsEntries DEF IsOpen, Carries
<1>4. ASSUME NEW g \in Groups, Send(g)
      PROVE  Settled(h, o)' \/ \E j \in 1..(k - 1) : Carries(j, h, o)'
  <2>1. \A j \in 1..Len(channel) : channel'[j] = channel[j]
    BY <1>4, SendAppends
  <2>2. CASE k \in 1..Len(channel)
    <3>1. IsOpen(k, h) /\ channel'[k].offset = channel[k].offset
      BY <2>1, <2>2 DEF IsOpen
    <3>2. Settled(h, o) \/ \E j \in 1..(k - 1) : Carries(j, h, o)
      BY <2>2, <3>1 DEF InOrder, HeardInOrder
    <3>3. o \in 0..(Len(topic) - 1)
      BY <2>2, <3>1 DEF WithinTopic, Readable, Entry, Offsets
    <3> QED
      BY <2>1, <2>2, <3>2, <3>3, SettledStays DEF Carries
  <2>3. CASE k = Len(channel) + 1
    <3>1. h = g /\ channel'[k].offset = current[h] /\ phase[h] = "send"
      BY <1>4, <2>3, SendAppends DEF IsOpen, Send
    <3>2. Queued(h, o)
      BY <3>1 DEF InOrder, SentInOrder
    <3>3. o \in 0..(Len(topic) - 1)
      BY <3>1 DEF WithinTopic, Readable
    <3> QED
      BY <2>1, <2>3, <3>2, <3>3, SettledStays DEF Queued, Carries
  <2> QED
    BY <1>4, <2>2, <2>3, SendAppends
<1>5. ASSUME NEW error \in Errors, Drain(error)
      PROVE  Settled(h, o)' \/ \E j \in 1..(k - 1) : Carries(j, h, o)'
  <2>1. /\ Len(channel') = Len(channel) - 1
        /\ \A j \in 1..(Len(channel) - 1) : channel'[j] = channel[j + 1]
    BY <1>5, DrainShifts
  <2>2. k + 1 \in 1..Len(channel) /\ IsOpen(k + 1, h) /\ channel'[k].offset = channel[k + 1].offset
    BY <2>1 DEF IsOpen
  <2>3. Settled(h, o) \/ \E j \in 1..k : Carries(j, h, o)
    BY <2>2 DEF InOrder, HeardInOrder
  <2>4. o \in 0..(Len(topic) - 1)
    BY <2>2 DEF WithinTopic, Readable, Entry, Offsets
  <2>5. ASSUME NEW j \in 1..k, Carries(j, h, o)
        PROVE  Settled(h, o)' \/ \E i \in 1..(k - 1) : Carries(i, h, o)'
    <3>1. CASE j = 1
      BY <1>5, <2>5, <3>1, DrainSettles
    <3>2. CASE j # 1
      <4>1. j - 1 \in 1..(k - 1) /\ j - 1 \in 1..(Len(channel) - 1) /\ (j - 1) + 1 = j
        BY <2>2, <3>2
      <4>2. channel'[j - 1] = channel[j]
        BY <2>1, <4>1
      <4> QED
        BY <2>5, <4>1, <4>2 DEF Carries
    <3> QED
      BY <3>1, <3>2
  <2> QED
    BY <2>3, <2>4, <2>5, SettledStays
<1>6. CASE Restart
  BY <1>6 DEF Restart
<1> QED
  BY <1>2, <1>3, <1>4, <1>5, <1>6
     DEF Next, Produce, Skip, Recv, OnDropped, OnAcked, CommitAnswered, Rebalance

\* An answer leaves nothing unsettled up to its message.
LEMMA NextAnswered ==
  ASSUME TypeOK, WithinTopic, \A g \in Groups : Owed(g), InOrder, Next, NEW h \in Groups
  PROVE  AnsweredInOrder(h)'
<1> SUFFICES ASSUME phase'[h] = "wait", signal'[h] = "acked"
             PROVE  current'[h] \in acked'[h] /\ \A o \in 0..current'[h] : Settled(h, o)'
  BY DEF AnsweredInOrder
<1> USE TypeFacts
<1>1. /\ phase \in [Groups -> {"recv", "send", "wait"}]
      /\ signal \in [Groups -> {"none", "acked", "dropped"}]
      /\ current \in [Groups -> 0..MaxTopic]
  BY DEF TypeOK
\* The answer was there already.
<1>2. CASE phase[h] = "wait" /\ signal[h] = "acked" /\ current'[h] = current[h]
  <2>1. current[h] \in acked[h] /\ \A o \in 0..current[h] : Settled(h, o)
    BY <1>2 DEF InOrder, AnsweredInOrder
  <2>2. Readable(current[h])
    BY <1>2 DEF WithinTopic
  <2>3. \A o \in 0..current[h] : o \in 0..(Len(topic) - 1)
    BY <2>2 DEF Readable
  <2>4. \A o \in 0..current[h] : Settled(h, o)'
    BY <2>1, <2>3, SettledStays
  <2>5. current[h] \in acked'[h]
    BY <2>1, RecordsStay
  <2> QED
    BY <1>2, <2>4, <2>5
\* The game loop answers now, the entry at the head of the channel.
<1>3. ASSUME NEW error \in Errors, Drain(error), signal[h] # "acked"
      PROVE  current'[h] \in acked'[h] /\ \A o \in 0..current'[h] : Settled(h, o)'
  <2> DEFINE g == channel[1].group
  <2>1. /\ phase' = phase /\ current' = current /\ g \in Groups
        /\ Len(channel) \in Nat \ {0} /\ Head(channel) = channel[1]
    BY <1>3, DrainShifts DEF Drain, Entry
  <2>2. signal' = IF channel[1].heard THEN [signal EXCEPT ![g] = Answer(error)] ELSE signal
    BY <1>3, <2>1 DEF Drain
  <2>3. g = h /\ channel[1].heard /\ Answer(error) = "acked"
    BY <1>1, <1>3, <2>1, <2>2
  <2>4. IsOpen(1, h) /\ Acks(error)
    BY <2>3 DEF IsOpen, Answer
  <2>5. phase[h] = "wait" /\ channel[1].offset = current[h]
    <3>1. Owed(h) /\ 1 \in 1..Len(channel)
      BY <2>1
    <3> QED
      BY <2>4, <3>1 DEF Owed
  <2>6. Carries(1, h, current[h])
    BY <2>3, <2>5 DEF Carries
  <2>7. Settled(h, current[h])' /\ current[h] \in acked'[h]
    <3>1. PICK o : o = current[h]
      OBVIOUS
    <3>2. Settled(h, o)' /\ o \in acked'[h]
      BY <1>3, <2>4, <2>6, <3>1, DrainSettles
    <3> QED
      BY <2>1, <3>1, <3>2 DEF Settled, Handled
  <2>8. ASSUME NEW o \in 0..(current[h] - 1) PROVE Settled(h, o)'
    <3>1. Settled(h, o)
      BY <2>1, <2>4, <2>5 DEF InOrder, HeardInOrder
    <3>2. o \in 0..(Len(topic) - 1)
      BY <2>5 DEF WithinTopic, Readable
    <3> QED
      BY <3>1, <3>2, SettledStays
  <2>9. \A o \in 0..current[h] : o \in 0..(current[h] - 1) \/ o = current[h]
    OBVIOUS
  <2>10. \A o \in 0..current[h] : Settled(h, o)'
    BY <2>1, <2>7, <2>8, <2>9 DEF Settled, Handled
  <2> QED
    BY <2>1, <2>7, <2>10
<1>4. CASE phase[h] = "wait" /\ signal[h] = "acked" /\ current'[h] # current[h]
  BY <1>1, <1>4 DEF Next, Produce, Skip, Recv, Send, AckTimeout, OnDropped, OnAcked,
                    CommitAnswered, Rebalance, Drain, Restart, consumers
<1>5. CASE signal[h] = "acked" /\ phase[h] # "wait"
  <2>1. PICK g \in Groups : Send(g) /\ g = h
    BY <1>1, <1>5 DEF Next, Produce, Skip, Recv, Send, AckTimeout, OnDropped, OnAcked,
                      CommitAnswered, Rebalance, Drain, Restart, consumers
  <2> QED
    BY <1>1, <2>1 DEF Send
<1>6. CASE signal[h] # "acked"
  <2>1. \E error \in Errors : Drain(error)
    BY <1>1, <1>6 DEF Next, Produce, Skip, Recv, Send, AckTimeout, OnDropped, OnAcked,
                      CommitAnswered, Rebalance, Restart, consumers
  <2> QED
    BY <1>3, <1>6, <2>1
<1> QED
  BY <1>2, <1>4, <1>5, <1>6

\* What is committed or stored leaves nothing unsettled before it.
LEMMA NextStored ==
  ASSUME TypeOK, WithinTopic, InOrder, Next, NEW h \in Groups
  PROVE  StoredInOrder(h)'
<1> USE TypeFacts
<1> DEFINE Asked(n) == \E k \in 1..Len(commits[h]) : n = commits[h][k]
<1>1. /\ commits \in [Groups -> Seq(1..MaxTopic)] /\ commits[h] \in Seq(1..MaxTopic)
      /\ committed \in [Groups -> 0..MaxTopic]
  BY DEF TypeOK
<1>2. ASSUME NEW n, Asked(n) PROVE Backed(h, n)'
  <2>1. n \in Nat /\ n <= Len(topic) /\ Backed(h, n)
    BY <1>2, Bounds DEF WithinTopic, InOrder, StoredInOrder
  <2> QED
    BY <2>1, BackedStays
<1>3. ASSUME NEW n, n > 0, n = committed[h] PROVE Backed(h, n)'
  <2>1. n \in Nat /\ n <= Len(topic) /\ Backed(h, n)
    BY <1>3 DEF WithinTopic, InOrder, StoredInOrder
  <2> QED
    BY <2>1, BackedStays
<1>4. ASSUME \A k \in 1..Len(commits'[h]) : Asked(commits'[h][k]),
             committed'[h] = committed[h] \/ Asked(committed'[h])
      PROVE  StoredInOrder(h)'
  <2>1. ASSUME NEW k \in 1..Len(commits'[h]) PROVE Backed(h, commits[h][k])'
    <3>1. PICK n : n = commits'[h][k]
      OBVIOUS
    <3>2. Backed(h, n)'
      BY <1>2, <1>4, <3>1
    <3> QED
      BY <3>1, <3>2 DEF Backed
  <2>2. ASSUME committed'[h] > 0 PROVE Backed(h, committed[h])'
    <3>1. PICK n : n = committed'[h]
      OBVIOUS
    <3>2. Backed(h, n)'
      BY <1>2, <1>3, <1>4, <2>2, <3>1
    <3> QED
      BY <3>1, <3>2 DEF Backed
  <2> QED
    BY <2>1, <2>2 DEF StoredInOrder
<1>5. CASE commits'[h] = commits[h] /\ committed'[h] = committed[h]
  BY <1>4, <1>5
<1>6. CASE commits'[h] = << >> /\ committed'[h] = committed[h]
  BY <1>4, <1>6
<1>7. ASSUME NEW stored \in BOOLEAN, CommitAnswered(h, stored)
      PROVE  StoredInOrder(h)'
  <2>1. commits[h] # << >> /\ commits'[h] = Tail(commits[h])
    BY <1>1, <1>7 DEF CommitAnswered
  <2>2. /\ Len(Tail(commits[h])) = Len(commits[h]) - 1
        /\ \A k \in 1..Len(Tail(commits[h])) : Tail(commits[h])[k] = commits[h][k + 1]
    BY <1>1, <2>1, HeadTailProperties
  <2>3. \A k \in 1..Len(commits'[h]) : Asked(commits'[h][k])
    <3>1. \A k \in 1..Len(commits'[h]) :
            k + 1 \in 1..Len(commits[h]) /\ commits'[h][k] = commits[h][k + 1]
      BY <2>1, <2>2
    <3> QED
      BY <3>1
  <2>4. 1 \in 1..Len(commits[h]) /\ Head(commits[h]) = commits[h][1]
    BY <1>1, <2>1, EmptySeq
  <2>5. committed'[h] = committed[h] \/ committed'[h] = Head(commits[h])
    BY <1>1, <1>7 DEF CommitAnswered
  <2>6. committed'[h] = committed[h] \/ Asked(committed'[h])
    BY <2>4, <2>5
  <2> HIDE DEF Asked
  <2> QED
    BY <1>4, <2>3, <2>6
<1>8. ASSUME OnAcked(h)
      PROVE  StoredInOrder(h)'
  <2> DEFINE n == current[h] + 1
  <2>1. /\ phase[h] = "wait" /\ signal[h] = "acked" /\ committed' = committed
        /\ commits'[h] = Append(commits[h], n)
    BY <1>1, <1>8 DEF OnAcked, broker
  <2>2. n \in 1..MaxTopic /\ n <= Len(topic)
    <3>1. Readable(current[h])
      BY <2>1 DEF WithinTopic
    <3> QED
      BY <3>1, Bounds DEF Readable
  <2>3. PICK m : m = n
    OBVIOUS
  <2>4. Backed(h, m)
    BY <2>1, <2>2, <2>3 DEF InOrder, AnsweredInOrder, Backed
  <2>5. Backed(h, m)'
    BY <2>2, <2>3, <2>4, BackedStays
  <2>6. /\ Len(commits'[h]) = Len(commits[h]) + 1
        /\ \A k \in 1..Len(commits[h]) : commits'[h][k] = commits[h][k]
        /\ commits'[h][Len(commits[h]) + 1] = n
    BY <1>1, <2>1, <2>2, AppendProperties
  <2> HIDE DEF n
  <2>7. ASSUME NEW k \in 1..Len(commits'[h]) PROVE Backed(h, commits[h][k])'
    <3>1. PICK i : i = commits'[h][k]
      OBVIOUS
    <3>2. CASE k \in 1..Len(commits[h])
      <4>1. Asked(i)
        BY <2>6, <3>1, <3>2
      <4>2. Backed(h, i)'
        BY <1>2, <4>1
      <4> QED
        BY <3>1, <4>2 DEF Backed
    <3>3. CASE k = Len(commits[h]) + 1
      <4>1. commits'[h][k] = m
        BY <2>3, <2>6, <3>3
      <4> QED
        BY <2>5, <4>1 DEF Backed
    <3> QED
      BY <2>6, <3>2, <3>3
  <2>8. ASSUME committed'[h] > 0 PROVE Backed(h, committed[h])'
    <3>1. PICK i : i = committed'[h]
      OBVIOUS
    <3>2. Backed(h, i)'
      BY <1>3, <2>1, <2>8, <3>1
    <3> QED
      BY <3>1, <3>2 DEF Backed
  <2> QED
    BY <2>7, <2>8 DEF StoredInOrder
<1>9. CASE Rebalance(h) \/ Restart
  BY <1>1, <1>6, <1>9 DEF Rebalance, Restart, broker
<1>10. CASE /\ \A stored \in BOOLEAN : ~ CommitAnswered(h, stored)
            /\ ~ OnAcked(h) /\ ~ Rebalance(h) /\ ~ Restart
  <2>1. commits'[h] = commits[h] /\ committed'[h] = committed[h]
    BY <1>1, <1>10 DEF Next, Produce, Skip, Recv, Send, AckTimeout, OnDropped, OnAcked,
                       CommitAnswered, Rebalance, Drain, consumers, broker
  <2> QED
    BY <1>5, <2>1
<1> QED
  BY <1>7, <1>8, <1>9, <1>10

-----------------------------------------------------------------------------
(* The inductive invariant.                                                *)

\* It holds when the server starts with an empty topic.
LEMMA InitEstablishes == Init => IInv
<1> SUFFICES ASSUME Init PROVE IInv
  OBVIOUS
<1>1. TypeOK /\ WithinTopic
  BY InitTypes
<1>2. \A g \in Groups : Owed(g)
  BY DEF Init, Owed, IsOpen
<1>3. ASSUME NEW g \in Groups
      PROVE  /\ position[g] = 0 /\ phase[g] = "recv" /\ committed[g] = 0
             /\ commits[g] = << >> /\ Len(channel) = 0
  BY DEF Init
<1>4. InOrder
  BY <1>3 DEF InOrder, ReadInOrder, SentInOrder, HeardInOrder, AnsweredInOrder, StoredInOrder
<1> QED
  BY <1>1, <1>2, <1>4 DEF IInv

\* Every step, and every stutter, keeps it.
LEMMA StepPreserves ==
  ASSUME IInv, [Next]_vars
  PROVE  IInv'
<1> USE DEF IInv
<1>1. TypeOK' /\ WithinTopic'
  BY NextTypes
<1>2. ASSUME NEW g \in Groups PROVE Owed(g)'
  BY NextOwed
<1>3. CASE Next
  <2>1. ASSUME NEW g \in Groups
        PROVE  /\ ReadInOrder(g)' /\ SentInOrder(g)' /\ HeardInOrder(g)'
               /\ AnsweredInOrder(g)' /\ StoredInOrder(g)'
    BY <1>3, NextRead, NextSent, NextHeard, NextAnswered, NextStored
  <2> QED
    BY <1>1, <1>2, <2>1 DEF InOrder
<1>4. CASE UNCHANGED vars
  <2> USE <1>4 DEF Queued, Settled, Backed, Handled, Carries, IsOpen, vars, consumers, broker, loop
  <2>1. ASSUME NEW g \in Groups
        PROVE  /\ ReadInOrder(g)' /\ SentInOrder(g)' /\ HeardInOrder(g)'
               /\ AnsweredInOrder(g)' /\ StoredInOrder(g)'
    <3>1. ReadInOrder(g)'
      BY DEF InOrder, ReadInOrder
    <3>2. SentInOrder(g)'
      BY DEF InOrder, SentInOrder
    <3>3. HeardInOrder(g)'
      <4>1. HeardInOrder(g)
        BY DEF InOrder
      <4>2. channel' = channel /\ \A o : Settled(g, o)' <=> Settled(g, o)
        OBVIOUS
      <4> HIDE DEF Settled, Handled
      <4> QED
        BY <4>1, <4>2 DEF HeardInOrder
    <3>4. AnsweredInOrder(g)'
      BY DEF InOrder, AnsweredInOrder
    <3>5. StoredInOrder(g)'
      BY DEF InOrder, StoredInOrder
    <3> QED
      BY <3>1, <3>2, <3>3, <3>4, <3>5
  <2> QED
    BY <1>1, <1>2, <2>1 DEF InOrder
<1> QED
  BY <1>3, <1>4

(* Owed and InOrder are one argument: an acknowledgement reaches a task    *)
(* only through the one entry that is heard, and all that precedes that    *)
(* entry in the topic left the channel before it.  PICK n : n = e, below   *)
(* and above, fixes the value of e before a prime is put over it.          *)
THEOREM BrokerInvariant == Spec => []IInv
<1>1. Init => IInv
  BY InitEstablishes
<1>2. IInv /\ [Next]_vars => IInv'
  BY StepPreserves
<1> QED
  BY <1>1, <1>2, PTL DEF Spec

(* The types hold for any number of groups and any bounds.                 *)
THEOREM BrokerTypes == Spec => []TypeOK
<1>1. IInv => TypeOK
  BY DEF IInv
<1> QED
  BY <1>1, BrokerInvariant, PTL

(* What consumer_loop commits stands right behind a message whose own ack  *)
(* handle was used, whatever times out, is reread or restarted.            *)
THEOREM CommitsFollow == Spec => []CommitsFollowAcks
<1>1. IInv => CommitsFollowAcks
  BY DEF IInv, InOrder, StoredInOrder, Backed, CommitsFollowAcks
<1> QED
  BY <1>1, BrokerInvariant, PTL

(* No offset consumer_loop has had stored passes a command the game loop   *)
(* has not handled for that group.                                         *)
THEOREM NothingIsPassed == Spec => []NothingPassedUnhandled
<1>1. IInv => NothingPassedUnhandled
  <2> SUFFICES ASSUME IInv, NEW g \in Groups, NEW offset \in Offsets, offset < committed[g]
               PROVE  Settled(g, offset)
    BY DEF NothingPassedUnhandled, Settled
  <2>1. committed[g] \in Nat /\ offset \in 0..(committed[g] - 1)
    BY TypeFacts DEF IInv, Offsets
  <2> QED
    BY <2>1 DEF IInv, InOrder, StoredInOrder, Backed
<1> QED
  BY <1>1, BrokerInvariant, PTL

(* A task that waits on its oneshot has exactly one heard command in the   *)
(* channel, the one it waits for; the invariant says so without counting.  *)
THEOREM WaitersGetAnswers == Spec => []WaitersAreOwed
<1>1. IInv => WaitersAreOwed
  <2> SUFFICES ASSUME IInv, NEW g \in Groups
               PROVE  LET open == {k \in 1..Len(channel) : channel[k].group = g /\ channel[k].heard}
                      IN  IF phase[g] = "wait" /\ signal[g] = "none"
                          THEN Cardinality(open) = 1 /\ \A k \in open : channel[k].offset = current[g]
                          ELSE open = {}
    BY DEF WaitersAreOwed
  <2> DEFINE open == {k \in 1..Len(channel) : channel[k].group = g /\ channel[k].heard}
  <2>1. Owed(g)
    BY DEF IInv
  <2>2. CASE phase[g] = "wait" /\ signal[g] = "none"
    <3>1. PICK k \in 1..Len(channel) :
            /\ IsOpen(k, g) /\ channel[k].offset = current[g]
            /\ \A j \in 1..Len(channel) : IsOpen(j, g) => j = k
      BY <2>1, <2>2 DEF Owed
    <3>2. open = {k}
      BY <3>1 DEF IsOpen
    <3>3. Cardinality(open) = 1
      BY <3>2, FS_Singleton
    <3> QED
      BY <2>2, <3>1, <3>2, <3>3
  <2>3. CASE ~ (phase[g] = "wait" /\ signal[g] = "none")
    BY <2>1, <2>3 DEF Owed, IsOpen
  <2> QED
    BY <2>2, <2>3
<1> QED
  BY <1>1, BrokerInvariant, PTL

-----------------------------------------------------------------------------
(* The refinement.                                                         *)

\* What the promise sees of the topic and of the game loop.
ReadableRecords == [k \in 1..Len(topic) |-> topic[k] # Garbage]
HandledOffsets == [g \in Groups |-> {o \in Offsets : Handled(g, o)}]

\* Both start with nothing published, processed or stored.
LEMMA InitPromises == Init => Promise!Init
<1> SUFFICES ASSUME Init PROVE Promise!Init
  OBVIOUS
<1>1. ReadableRecords = << >>
  BY DEF Init, ReadableRecords
<1>2. HandledOffsets = [g \in Groups |-> {}]
  BY DEF Init, HandledOffsets, Handled
<1> QED
  BY <1>1, <1>2 DEF Init, Promise!Init, ReadableRecords, HandledOffsets

\* A record written is published, as one that can be read or not.
LEMMA ProducePublishes ==
  ASSUME TypeOK, NEW record \in {epoch, Garbage}, Produce(record)
  PROVE  Promise!Next
<1>1. topic \in Seq(Record) /\ record \in Record
  BY DEF TypeOK, Record
<1>2. /\ Len(topic) \in Nat /\ Len(topic') = Len(topic) + 1
      /\ \A k \in 1..Len(topic) : topic'[k] = topic[k]
      /\ topic'[Len(topic) + 1] = record
  BY <1>1, AppendProperties DEF Produce
<1>3. ReadableRecords \in Seq(BOOLEAN) /\ Len(ReadableRecords) = Len(topic)
  BY <1>2 DEF ReadableRecords
<1>4. PICK r \in BOOLEAN : r = (record # Garbage)
  OBVIOUS
<1>5. ReadableRecords' = Append(ReadableRecords, r)
  <2>1. DOMAIN ReadableRecords' = 1..(Len(topic) + 1)
    BY <1>2 DEF ReadableRecords
  <2>2. \A k \in 1..(Len(topic) + 1) :
          ReadableRecords'[k] = IF k <= Len(topic) THEN ReadableRecords[k] ELSE r
    BY <1>2, <1>4 DEF ReadableRecords
  <2>3. /\ Append(ReadableRecords, r) \in Seq(BOOLEAN)
        /\ Len(Append(ReadableRecords, r)) = Len(topic) + 1
        /\ \A k \in 1..Len(topic) : Append(ReadableRecords, r)[k] = ReadableRecords[k]
        /\ Append(ReadableRecords, r)[Len(topic) + 1] = r
    BY <1>3, AppendProperties
  <2>4. ReadableRecords' \in Seq(BOOLEAN) /\ Len(ReadableRecords') = Len(topic) + 1
    BY <1>2 DEF ReadableRecords
  <2>5. \A k \in 1..(Len(topic) + 1) : ReadableRecords'[k] = Append(ReadableRecords, r)[k]
    BY <1>2, <2>2, <2>3
  <2> QED
    BY <2>3, <2>4, <2>5, SeqEqual
<1>6. HandledOffsets' = HandledOffsets /\ committed' = committed
  BY DEF Produce, loop, HandledOffsets, Handled
<1> QED
  BY <1>4, <1>5, <1>6 DEF Promise!Next, Promise!Publish, ReadableRecords, HandledOffsets

\* A command taken from the channel is processed, for the group it names.
LEMMA DrainProcesses ==
  ASSUME TypeOK, WithinTopic, NEW error \in Errors, Drain(error)
  PROVE  Promise!Next
<1> DEFINE g == channel[1].group
           offset == channel[1].offset
<1>1. /\ 1 \in 1..Len(channel) /\ Head(channel) = channel[1]
      /\ g \in Groups /\ offset \in Offsets
  BY DrainShifts DEF Entry
<1>2. Readable(offset)
  BY <1>1 DEF WithinTopic
<1>3. /\ Len(topic) \in Nat /\ Len(ReadableRecords) = Len(topic)
      /\ DOMAIN ReadableRecords = 1..Len(topic)
  BY TypeFacts DEF ReadableRecords
<1>4. PICK k \in 1..Len(topic) : k = offset + 1 /\ k - 1 = offset
  BY <1>2, <1>3 DEF Readable
<1>5. ReadableRecords[k]
  BY <1>2, <1>4 DEF Readable, ReadableRecords
<1>6. handled' = [handled EXCEPT ![g] = @ \cup {<<offset, error>>}]
  BY <1>1 DEF Drain
<1>7. handled \in [Groups -> SUBSET (Offsets \X Errors)]
  BY DEF TypeOK
<1> HIDE DEF g, offset
<1>8. HandledOffsets' = [HandledOffsets EXCEPT ![g] = @ \cup {offset}]
  <2>1. ASSUME NEW h \in Groups
        PROVE  HandledOffsets'[h] = IF h = g THEN HandledOffsets[h] \cup {offset}
                                    ELSE HandledOffsets[h]
    <3>1. handled'[h] = IF h = g THEN handled[h] \cup {<<offset, error>>} ELSE handled[h]
      BY <1>6, <1>7
    <3>2. ASSUME NEW o \in Offsets
          PROVE  Handled(h, o)' <=> Handled(h, o) \/ (h = g /\ o = offset)
      <4>1. ASSUME Handled(h, o)' PROVE Handled(h, o) \/ (h = g /\ o = offset)
        <5>1. PICK e \in Errors : <<o, e>> \in handled'[h]
          BY <4>1 DEF Handled
        <5> QED
          BY <3>1, <5>1 DEF Handled
      <4>2. ASSUME h = g, o = offset PROVE Handled(h, o)'
        <5>1. <<o, error>> \in handled'[h]
          BY <3>1, <4>2
        <5> QED
          BY <5>1 DEF Handled
      <4>3. ASSUME Handled(h, o) PROVE Handled(h, o)'
        BY <3>1, <4>3 DEF Handled
      <4> QED
        BY <4>1, <4>2, <4>3
    <3> QED
      BY <1>1, <3>2 DEF HandledOffsets
  <2> QED
    BY <1>1, <2>1 DEF HandledOffsets
<1>9. ReadableRecords' = ReadableRecords /\ committed' = committed
  BY DEF Drain, broker, ReadableRecords
<1>10. Promise!Process(g, k - 1)
  BY <1>3, <1>4, <1>5, <1>8, <1>9 DEF Promise!Process, ReadableRecords, HandledOffsets
<1> QED
  BY <1>1, <1>3, <1>4, <1>10 DEF Promise!Next, ReadableRecords

\* A commit that arrives is stored, and nothing before it is unprocessed.
LEMMA CommitStores ==
  ASSUME TypeOK, WithinTopic, InOrder, NEW g \in Groups, CommitAnswered(g, TRUE)
  PROVE  Promise!Next
<1>1. commits[g] \in Seq(1..MaxTopic) /\ commits[g] # << >>
  BY DEF TypeOK, CommitAnswered
<1>2. 1 \in 1..Len(commits[g]) /\ Head(commits[g]) = commits[g][1]
  BY <1>1, EmptySeq
<1>3. PICK n \in Nat : n = Head(commits[g]) /\ n <= Len(topic) /\ Backed(g, n)
  BY <1>2, TypeFacts, Bounds DEF WithinTopic, InOrder, StoredInOrder
<1>4. Len(topic) \in Nat /\ Len(topic) <= MaxTopic /\ Len(ReadableRecords) = Len(topic)
  BY TypeFacts DEF ReadableRecords
<1>5. ASSUME NEW k \in 1..n
      PROVE  /\ k \in DOMAIN ReadableRecords
             /\ ReadableRecords[k] => k - 1 \in HandledOffsets[g]
  <2>1. k \in 1..Len(topic) /\ k - 1 \in 0..(n - 1) /\ k - 1 \in Offsets /\ (k - 1) + 1 = k
    BY <1>3, <1>4, Bounds DEF Offsets
  <2>2. Settled(g, k - 1)
    BY <1>3, <2>1 DEF Backed
  <2> QED
    BY <2>1, <2>2 DEF Settled, ReadableRecords, HandledOffsets
<1>6. /\ committed' = [committed EXCEPT ![g] = n]
      /\ ReadableRecords' = ReadableRecords /\ HandledOffsets' = HandledOffsets
  BY <1>3 DEF CommitAnswered, loop, ReadableRecords, HandledOffsets, Handled
<1>7. Promise!Store(g, n)
  BY <1>5, <1>6 DEF Promise!Store, ReadableRecords, HandledOffsets
<1>8. n \in 0..Len(ReadableRecords)
  BY <1>3, <1>4
<1> QED
  BY <1>7, <1>8 DEF Promise!Next, ReadableRecords

\* Every step is one of the promise, or changes nothing it sees.
LEMMA StepPromises ==
  ASSUME IInv, [Next]_vars
  PROVE  [Promise!Next]_Promise!vars
<1> USE DEF IInv
<1>1. CASE \E record \in {epoch, Garbage} : Produce(record)
  BY <1>1, ProducePublishes
<1>2. CASE \E error \in Errors : Drain(error)
  BY <1>2, DrainProcesses
<1>3. CASE \E g \in Groups : CommitAnswered(g, TRUE)
  BY <1>3, CommitStores
<1>4. CASE UNCHANGED <<topic, handled, committed>>
  BY <1>4 DEF Promise!vars, Handled
<1>5. CASE /\ ~ (\E record \in {epoch, Garbage} : Produce(record))
           /\ ~ (\E error \in Errors : Drain(error))
           /\ ~ (\E g \in Groups : CommitAnswered(g, TRUE))
  <2>1. UNCHANGED <<topic, handled, committed>>
    BY <1>5 DEF Next, Skip, Recv, Send, AckTimeout, OnDropped, OnAcked, CommitAnswered,
                Rebalance, Restart, vars, broker, loop
  <2> QED
    BY <1>4, <2>1
<1> QED
  BY <1>1, <1>2, <1>3, <1>5

(* The consumers implement AtLeastOnce: a record produced is published, a  *)
(* turn of drain_broker_commands processes, a commit that arrives stores,  *)
(* and every other step is none of the promise's concern.                  *)
THEOREM KeepsThePromise == Spec => ImplementsAtLeastOnce
<1>1. Init => Promise!Init
  BY InitPromises
<1>2. IInv /\ [Next]_vars => [Promise!Next]_Promise!vars
  BY StepPromises
<1> QED
  BY <1>1, <1>2, BrokerInvariant, PTL DEF Spec, ImplementsAtLeastOnce, Promise!Spec
=============================================================================
