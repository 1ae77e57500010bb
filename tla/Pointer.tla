------------------------------- MODULE Pointer -------------------------------
(***************************************************************************)
(* The geometry of client/src/main.rs: which tile lies under the pointer,  *)
(* and where the sprite of a tile is.  The window has its origin at the    *)
(* top left and y pointing down; the world has it at the centre, y up.     *)
(* Places are whole pixels.                                                *)
(***************************************************************************)
EXTENDS Integers

CELL == 160
BOARD == 3 * CELL

\* The primary window: the board, and 60 pixels for the status bar.
Width == BOARD
Height == BOARD + 60

\* The place in the world of a place <<x, y>> in the window.
InWorld(cursor) == <<cursor[1] - Width \div 2, Height \div 2 - cursor[2]>>

Nowhere == -1

\* The tile handle_input and render_hover find under the pointer, if any.
CellAt(cursor) ==
  LET world == InWorld(cursor)
      col == (world[1] + BOARD \div 2) \div CELL
      row == (BOARD \div 2 - world[2]) \div CELL
  IN  IF col \in 0..2 /\ row \in 0..2 THEN 3 * row + col ELSE Nowhere

\* The centre, in the world, of the sprites of a tile: piece and highlight.
cell_pos(i) == <<CELL * ((i % 3) - 1), CELL * (1 - i \div 3)>>
=============================================================================
