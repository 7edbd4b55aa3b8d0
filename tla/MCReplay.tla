------------------------------ MODULE MCReplay ------------------------------
(***************************************************************************)
(* A recording of a few frames, and who plays and observes it.             *)
(***************************************************************************)
EXTENDS Replay
=============================================================================
