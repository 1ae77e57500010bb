---------------------------- MODULE TicTacTussle ----------------------------
(***************************************************************************)
(* What the game promises, without players' ids in the board, events,      *)
(* sentinels or an active player: two seats, two sets of marked cells, and *)
(* a turn that follows from how many cells each symbol has marked.  The    *)
(* write model of the server (WriteModel) is shown to implement it.        *)
(***************************************************************************)
EXTENDS Integers, FiniteSets, Sequences

CONSTANT Players

VARIABLES stage, seats, marks

vars == <<stage, seats, marks>>

Cells == 0..8

\* The lines of the grid, from its geometry rather than from a table.
Lines ==
       {{3*row + col : col \in 0..2} : row \in 0..2}
  \cup {{3*row + col : row \in 0..2} : col \in 0..2}
  \cup {{4*k : k \in 0..2}, {2*k : k \in 1..3}}

HasLine(cells) == \E line \in Lines : line \subseteq cells

\* X moves first, so X is to move exactly when both have as many marks.
Turn == IF Cardinality(marks["X"]) = Cardinality(marks["O"]) THEN "X" ELSE "O"

Seated(p) == \E k \in 1..Len(seats) : seats[k] = p

Init ==
  /\ stage = "Lobby"
  /\ seats = << >>
  /\ marks = [s \in {"X", "O"} |-> {}]

Sit(p) ==
  /\ stage = "Lobby"
  /\ ~ Seated(p)
  /\ seats' = Append(seats, p)
  /\ stage' = IF Len(seats') = 2 THEN "InGame" ELSE "Lobby"
  /\ UNCHANGED marks

Mark(cell) ==
  /\ stage = "InGame"
  /\ cell \notin marks["X"] \cup marks["O"]
  /\ marks' = [marks EXCEPT ![Turn] = @ \cup {cell}]
  /\ stage' = IF \/ HasLine(marks["X"]') \/ HasLine(marks["O"]')
                 \/ marks["X"]' \cup marks["O"]' = Cells
              THEN "Ended" ELSE "InGame"
  /\ UNCHANGED seats

Abandon ==
  /\ stage = "InGame"
  /\ stage' = "Ended"
  /\ UNCHANGED <<seats, marks>>

Next ==
  \/ \E p \in Players : Sit(p)
  \/ \E cell \in Cells : Mark(cell)
  \/ Abandon

Spec == Init /\ [][Next]_vars
=============================================================================
