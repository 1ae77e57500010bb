----------------------------- MODULE Simulation -----------------------------
(***************************************************************************)
(* store/src/simulation.rs: a harness that walks up and down a recorded    *)
(* log, and tries commands at any point of it.  It steps with evolve and   *)
(* jumps with hydrate, and the two ways to a position have to agree.       *)
(***************************************************************************)
EXTENDS Decider

CONSTANTS
  Logs,     \* the logs a harness is made from
  Commands, \* the commands that are tried
  MaxIndex  \* bound: indices asked for, also past the end of a log

ASSUME LogsAreLogs == Logs \subseteq Seq(GameEvent)
ASSUME LogsAreShort == MaxIndex \in Nat /\ \A entries \in Logs : Len(entries) < MaxIndex
ASSUME CommandsAreCommands == Commands \subseteq GameCommand

VARIABLES
  log, cursor, state, \* the fields of SimulationHarness
  branch              \* what its user holds of the last branch, if it was Ok

harness == <<log, cursor, state>>
vars == <<harness, branch>>

\* n.min(log.len()), and the slice up to it.
Clip(n) == IF n < Len(log) THEN n ELSE Len(log)
Prefix(n) == SubSeq(log, 1, n)

NoBranch == [at |-> 0, events |-> << >>, state |-> DefaultState]

\* from_log_up_to; from_log is the case of an index at or past the end.
Init ==
  /\ log \in Logs
  /\ \E n \in 0..MaxIndex : cursor = Clip(n)
  /\ state = hydrate(Prefix(cursor))
  /\ branch = NoBranch

is_exhausted == cursor >= Len(log)

\* It returns false, and changes nothing, once the log is exhausted.
step_forward ==
  /\ ~ is_exhausted
  /\ state' = evolve(state, log[cursor + 1])
  /\ cursor' = cursor + 1
  /\ UNCHANGED <<log, branch>>

\* Mutant: a jump replays from where the harness stands.
rewind_to_FromHere(n) ==
  /\ cursor' = Clip(n)
  /\ state' = Replay(state, SubSeq(log, cursor + 1, cursor'))
  /\ UNCHANGED <<log, branch>>

rewind_to(n) ==
  /\ cursor' = Clip(n)
  /\ state' = hydrate(Prefix(cursor'))
  /\ UNCHANGED <<log, branch>>

\* run_to_end: step_forward as long as it returns true.
run_to_end ==
  /\ cursor' = Len(log)
  /\ state' = Replay(state, SubSeq(log, cursor + 1, Len(log)))
  /\ UNCHANGED <<log, branch>>

\* Mutant: only the last event is applied.
branch_with_command_LastOnly(cmd) ==
  LET decision == decide(state, cmd)
      events == decision.events
  IN  /\ decision.error = "None"
      /\ branch' = [at |-> cursor, events |-> events, state |-> evolve(state, events[Len(events)])]
      /\ UNCHANGED harness

\* An Err of decide is returned, and nothing else happens.
branch_with_command(cmd) ==
  LET decision == decide(state, cmd)
  IN  /\ decision.error = "None"
      /\ branch' = [ at     |-> cursor,
                     events |-> decision.events,
                     state  |-> Replay(state, decision.events) ]
      /\ UNCHANGED harness

Next ==
  \/ step_forward
  \/ \E n \in 0..MaxIndex : rewind_to(n)
  \/ run_to_end
  \/ \E cmd \in Commands : branch_with_command(cmd)

Spec == Init /\ [][Next]_vars

-----------------------------------------------------------------------------

(* Whatever the way to a position (steps, jumps to and fro, past the end), *)
(* the state shown there is the replay of exactly the events before it.    *)
StateIsReplay == cursor \in 0..Len(log) /\ state = hydrate(Prefix(cursor))

(* A branch stays what it was when the harness moves on: its state is the  *)
(* replay of a log that had taken that turn.                               *)
BranchIsHistory == branch.state = hydrate(Prefix(branch.at) \o branch.events)
=============================================================================
