----------------------------- MODULE AtLeastOnce -----------------------------
(***************************************************************************)
(* What a topic promises the groups that read it, without tasks, channels, *)
(* acknowledgements or time: a record may be processed any number of times *)
(* and in any order, but the offset stored for a group never passes one    *)
(* that has still to be processed.  A record that cannot be read is passed *)
(* over.  The consumers of the server (BrokerConsumer) implement it.       *)
(***************************************************************************)
EXTENDS Integers, Sequences

CONSTANT Groups

VARIABLES
  readable, \* of each record of the topic: can it be decoded?
  done,     \* of each group: the offsets that have been processed
  stored    \* of each group: the offset to read on from

vars == <<readable, done, stored>>

Init ==
  /\ readable = << >>
  /\ done = [g \in Groups |-> {}]
  /\ stored = [g \in Groups |-> 0]

Publish(r) ==
  /\ readable' = Append(readable, r)
  /\ UNCHANGED <<done, stored>>

Process(g, offset) ==
  /\ offset + 1 \in DOMAIN readable /\ readable[offset + 1]
  /\ done' = [done EXCEPT ![g] = @ \cup {offset}]
  /\ UNCHANGED <<readable, stored>>

\* It may be stored again after a reread, and then be an earlier one.
Store(g, offset) ==
  /\ \A k \in 1..offset : k \in DOMAIN readable /\ (readable[k] => k - 1 \in done[g])
  /\ stored' = [stored EXCEPT ![g] = offset]
  /\ UNCHANGED <<readable, done>>

Next ==
  \/ \E r \in BOOLEAN : Publish(r)
  \/ \E g \in Groups :
       \/ \E k \in 1..Len(readable) : Process(g, k - 1)
       \/ \E offset \in 0..Len(readable) : Store(g, offset)

Spec == Init /\ [][Next]_vars
=============================================================================
