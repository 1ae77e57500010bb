-------------------------- MODULE SimulationProofs --------------------------
(***************************************************************************)
(* Whatever the log, the jumps and the commands tried, a harness shows the *)
(* replay of the events before its cursor, and its branches are histories. *)
(***************************************************************************)
EXTENDS Simulation, DeciderProofs

-----------------------------------------------------------------------------
(* The stretches of the log.                                               *)

\* An index past the end is the end (n.min(log.len()) of simulation.rs).
LEMMA Clipped ==
  ASSUME log \in Seq(GameEvent), NEW n \in 0..MaxIndex
  PROVE  Clip(n) \in 0..Len(log)
BY LogsAreShort DEF Clip

\* A prefix is a log, and what follows it completes it to a longer one.
LEMMA Prefixes ==
  ASSUME log \in Seq(GameEvent), NEW n \in 0..Len(log)
  PROVE  /\ Prefix(n) \in Seq(GameEvent)
         /\ SubSeq(log, n + 1, Len(log)) \in Seq(GameEvent)
         /\ Prefix(n) \o SubSeq(log, n + 1, Len(log)) = Prefix(Len(log))
         /\ n < Len(log) => /\ log[n + 1] \in GameEvent
                            /\ Prefix(n + 1) = Append(Prefix(n), log[n + 1])
<1> DEFINE rest == SubSeq(log, n + 1, Len(log))
           whole == Prefix(Len(log))
<1>1. /\ Prefix(n) \in Seq(GameEvent) /\ Len(Prefix(n)) = n
      /\ \A k \in 1..n : Prefix(n)[k] = log[k]
  BY SubSeqProperties DEF Prefix
<1>2. /\ rest \in Seq(GameEvent) /\ Len(rest) = Len(log) - n
      /\ \A k \in 1..(Len(log) - n) : rest[k] = log[n + k]
  BY SubSeqProperties
<1>3. whole \in Seq(GameEvent) /\ Len(whole) = Len(log) /\ \A k \in 1..Len(log) : whole[k] = log[k]
  BY SubSeqProperties DEF Prefix
<1> HIDE DEF rest, whole
<1>4. Prefix(n) \o rest = whole
  <2>1. /\ Prefix(n) \o rest \in Seq(GameEvent) /\ Len(Prefix(n) \o rest) = Len(log)
        /\ \A k \in 1..Len(log) :
             (Prefix(n) \o rest)[k] = IF k <= n THEN Prefix(n)[k] ELSE rest[k - n]
    BY <1>1, <1>2, ConcatProperties
  <2>2. ASSUME NEW k \in 1..Len(log) PROVE (Prefix(n) \o rest)[k] = whole[k]
    <3>1. CASE k <= n
      BY <1>1, <1>3, <2>1, <3>1
    <3>2. CASE ~ k <= n
      <4>1. k - n \in 1..(Len(log) - n) /\ n + (k - n) = k
        BY <3>2
      <4>2. rest[k - n] = log[n + (k - n)]
        BY <1>2, <4>1
      <4> QED
        BY <1>3, <2>1, <3>2, <4>1, <4>2
    <3> QED
      BY <3>1, <3>2
  <2> QED
    BY <1>3, <2>1, <2>2, SeqEqual
<1>5. ASSUME n < Len(log)
      PROVE  log[n + 1] \in GameEvent /\ Prefix(n + 1) = Append(Prefix(n), log[n + 1])
  <2>1. log[n + 1] \in GameEvent
    BY <1>5
  <2>2. /\ Prefix(n + 1) \in Seq(GameEvent) /\ Len(Prefix(n + 1)) = n + 1
        /\ \A k \in 1..(n + 1) : Prefix(n + 1)[k] = log[k]
    BY <1>5, SubSeqProperties DEF Prefix
  <2>3. /\ Append(Prefix(n), log[n + 1]) \in Seq(GameEvent)
        /\ Len(Append(Prefix(n), log[n + 1])) = n + 1
        /\ \A k \in 1..(n + 1) : Append(Prefix(n), log[n + 1])[k] = log[k]
    BY <1>1, <2>1, AppendProperties
  <2> QED
    BY <2>1, <2>2, <2>3, SeqEqual
<1> QED
  BY <1>1, <1>2, <1>4, <1>5 DEF rest, whole

-----------------------------------------------------------------------------

(* The invariant: what is shown is what was recorded, here and in the last *)
(* branch, which was taken at a position of this log.                      *)
IInv ==
  /\ log \in Seq(GameEvent)
  /\ StateIsReplay
  /\ BranchIsHistory
  /\ branch.at \in 0..Len(log) /\ branch.events \in Seq(GameEvent)

\* It holds where a harness is made (from_log, from_log_up_to).
LEMMA InitInvariant == ASSUME Init PROVE IInv
<1>1. log \in Seq(GameEvent)
  BY LogsAreLogs DEF Init
<1>2. StateIsReplay
  BY <1>1, Clipped DEF Init, StateIsReplay
<1>3. branch.at = 0 /\ branch.events = << >> /\ branch.state = DefaultState
  BY DEF Init, NoBranch
<1>4. Prefix(0) \o << >> = << >>
  BY <1>1, SubSeqEmpty, ConcatEmptySeq DEF Prefix
<1>5. BranchIsHistory
  BY <1>3, <1>4, ReplayNothing DEF BranchIsHistory, hydrate
<1> QED
  BY <1>1, <1>2, <1>3, <1>5 DEF IInv

\* Moving: whatever the way, cursor and state arrive together.
LEMMA MovesKeepState ==
  ASSUME IInv,
         step_forward \/ run_to_end \/ \E n \in 0..MaxIndex : rewind_to(n)
  PROVE  StateIsReplay' /\ UNCHANGED <<log, branch>>
<1>1. log \in Seq(GameEvent) /\ cursor \in 0..Len(log) /\ state = hydrate(Prefix(cursor))
  BY DEF IInv, StateIsReplay
<1>2. CASE step_forward
  <2>1. /\ cursor < Len(log) /\ cursor' = cursor + 1 /\ state' = evolve(state, log[cursor + 1])
        /\ UNCHANGED <<log, branch>>
    BY <1>1, <1>2 DEF step_forward, is_exhausted
  <2>2. /\ Prefix(cursor) \in Seq(GameEvent) /\ log[cursor + 1] \in GameEvent
        /\ Prefix(cursor + 1) = Append(Prefix(cursor), log[cursor + 1])
    BY <1>1, <2>1, Prefixes
  <2>3. hydrate(Prefix(cursor + 1)) = evolve(hydrate(Prefix(cursor)), log[cursor + 1])
    <3>1. \A whole \in Seq(GameEvent), event \in GameEvent :
            Replay(DefaultState, Append(whole, event)) = evolve(Replay(DefaultState, whole), event)
      BY ReplayAppend
    <3> QED
      BY <2>2, <3>1 DEF hydrate
  <2> QED
    BY <1>1, <2>1, <2>3 DEF StateIsReplay, Prefix
<1>3. CASE run_to_end
  <2>1. /\ cursor' = Len(log) /\ state' = Replay(state, SubSeq(log, cursor + 1, Len(log)))
        /\ UNCHANGED <<log, branch>>
    BY <1>3 DEF run_to_end
  <2>2. /\ Prefix(cursor) \in Seq(GameEvent)
        /\ SubSeq(log, cursor + 1, Len(log)) \in Seq(GameEvent)
        /\ Prefix(cursor) \o SubSeq(log, cursor + 1, Len(log)) = Prefix(Len(log))
    BY <1>1, Prefixes
  <2>3. state' = hydrate(Prefix(Len(log)))
    <3>1. \A first, second \in Seq(GameEvent) :
            Replay(DefaultState, first \o second) = Replay(Replay(DefaultState, first), second)
      BY ReplayConcat
    <3> QED
      BY <1>1, <2>1, <2>2, <3>1 DEF hydrate
  <2> QED
    BY <1>1, <2>1, <2>3 DEF StateIsReplay, Prefix
<1>4. ASSUME NEW n \in 0..MaxIndex, rewind_to(n)
      PROVE  StateIsReplay' /\ UNCHANGED <<log, branch>>
  BY <1>1, <1>4, Clipped DEF rewind_to, StateIsReplay, Prefix
<1> QED
  BY <1>2, <1>3, <1>4

\* A branch leaves the harness alone, and it is a replay by concatenation.
LEMMA StepInvariant == ASSUME IInv, [Next]_vars PROVE IInv'
<1>1. CASE step_forward \/ run_to_end \/ \E n \in 0..MaxIndex : rewind_to(n)
  BY <1>1, MovesKeepState DEF IInv, BranchIsHistory, Prefix
<1>2. ASSUME NEW cmd \in Commands, branch_with_command(cmd)
      PROVE  IInv'
  <2> DEFINE events == decide(state, cmd).events
  <2>1. log \in Seq(GameEvent) /\ cursor \in 0..Len(log) /\ state = hydrate(Prefix(cursor))
    BY DEF IInv, StateIsReplay
  <2>2. /\ UNCHANGED <<log, cursor, state>>
        /\ branch' = [at |-> cursor, events |-> events, state |-> Replay(state, events)]
    BY <1>2 DEF branch_with_command, harness
  <2>3. Prefix(cursor) \in Seq(GameEvent)
    BY <2>1, Prefixes
  <2>4. state \in GameState
    BY <2>1, <2>3, DefaultTyped, ReplayTyped DEF hydrate
  <2>5. events \in Seq(GameEvent)
    BY <2>4, CommandsAreCommands, DecidesEvents
  <2> HIDE DEF events
  <2>6. Replay(state, events) = hydrate(Prefix(cursor) \o events)
    BY <2>1, <2>3, <2>5, ReplayConcat DEF hydrate
  <2>7. BranchIsHistory'
    BY <2>2, <2>6 DEF BranchIsHistory, Prefix
  <2>8. StateIsReplay'
    BY <2>2 DEF IInv, StateIsReplay, Prefix
  <2> QED
    BY <2>1, <2>2, <2>5, <2>7, <2>8 DEF IInv
<1>3. CASE UNCHANGED vars
  BY <1>3 DEF vars, harness, IInv, StateIsReplay, BranchIsHistory, Prefix
<1> QED
  BY <1>1, <1>2, <1>3 DEF Next

LEMMA Invariance == Spec => []IInv
<1>1. Init => IInv
  BY InitInvariant
<1>2. IInv /\ [Next]_vars => IInv'
  BY StepInvariant
<1> QED
  BY <1>1, <1>2, PTL DEF Spec

(* Steps, jumps in either direction, runs to the end, from anywhere: the   *)
(* state is the replay of exactly the events before the cursor             *)
(* (simulation.rs:24-72, 90-93).                                           *)
THEOREM PositionsAreReplays == Spec => []StateIsReplay
<1>1. IInv => StateIsReplay
  BY DEF IInv
<1> QED
  BY <1>1, Invariance, PTL

(* A branch is what a log would have led to that had taken that turn, also *)
(* when the harness has moved on (simulation.rs:78-87).                  *)
THEOREM BranchesAreHistories == Spec => []BranchIsHistory
<1>1. IInv => BranchIsHistory
  BY DEF IInv
<1> QED
  BY <1>1, Invariance, PTL
=============================================================================
