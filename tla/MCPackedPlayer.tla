--------------------------- MODULE MCPackedPlayer ---------------------------
(***************************************************************************)
(* A recording of a few frames, and moves about in it.                     *)
(***************************************************************************)
EXTENDS PackedPlayer
=============================================================================
