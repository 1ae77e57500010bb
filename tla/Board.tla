------------------------------- MODULE Board -------------------------------
(***************************************************************************)
(* store/src/board.rs: the 3x3 board as a row-major array of nine tiles,   *)
(* and the two pure functions that read it.                                *)
(*   0 | 1 | 2                                                             *)
(*   3 | 4 | 5                                                             *)
(*   6 | 7 | 8                                                             *)
(***************************************************************************)
EXTENDS Integers

Positions == 0..8

Symbol == {"X", "O"}

\* Tile::Occupied(s) is written as the symbol s itself.
Empty == "Empty"
Tile == Symbol \cup {Empty}

\* Option<Symbol>::None
NoSymbol == "None"

\* Mutant: the last diagonal typed wrong.
WIN_PATTERNS_Typo ==
  << <<0, 1, 2>>, <<3, 4, 5>>, <<6, 7, 8>>,
     <<0, 3, 6>>, <<1, 4, 7>>, <<2, 5, 8>>,
     <<0, 4, 8>>, <<2, 4, 7>> >>

WIN_PATTERNS ==
  << <<0, 1, 2>>, <<3, 4, 5>>, <<6, 7, 8>>,
     <<0, 3, 6>>, <<1, 4, 7>>, <<2, 5, 8>>,
     <<0, 4, 8>>, <<2, 4, 6>> >>

\* The closure of find_map: the pattern holds three tiles of one symbol.
Matches(board, pattern) ==
  /\ board[pattern[1]] # Empty
  /\ board[pattern[2]] = board[pattern[1]]
  /\ board[pattern[3]] = board[pattern[1]]

\* find_map: the symbol of the first pattern that matches, if one does.
winning_symbol(board) ==
  IF \E i \in 1..8 : Matches(board, WIN_PATTERNS[i])
  THEN LET first == CHOOSE i \in 1..8 :
                      /\ Matches(board, WIN_PATTERNS[i])
                      /\ \A j \in 1..(i-1) : ~ Matches(board, WIN_PATTERNS[j])
       IN  board[WIN_PATTERNS[first][1]]
  ELSE NoSymbol

is_full(board) == \A i \in Positions : board[i] # Empty
=============================================================================
