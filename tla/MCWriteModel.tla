--------------------------- MODULE MCWriteModel ---------------------------
(***************************************************************************)
(* Three players for two slots, the whole board, and an index off its end. *)
(***************************************************************************)
EXTENDS WriteModel

MCTileIndices == 0..9
=============================================================================
