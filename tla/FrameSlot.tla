------------------------------ MODULE FrameSlot ------------------------------
(***************************************************************************)
(* The slot between the thread of the player and the main loop of          *)
(* lidartool (g_PackedPlayerObjects in TrackBase.cpp).  A frame is its     *)
(* number.                                                                 *)
(***************************************************************************)
EXTENDS Integers

VARIABLES
  frame_id,   \* number of frames delivered
  slot        \* the frame in the slot, or 0

delivery == <<frame_id, slot>>

SlotTypeOK == frame_id \in Nat /\ slot \in 0 .. frame_id

SlotInit == frame_id = 0 /\ slot = 0

(* A frame replaces the one in the slot.                                   *)
\* A mutant: the number is not counted up.
PutUncounted == slot' = frame_id + 1 /\ UNCHANGED frame_id
Put ==
  /\ frame_id' = frame_id + 1
  /\ slot' = frame_id + 1

(* The main loop takes it.                                                 *)
Take(frame) ==
  /\ slot # 0 /\ frame = slot
  /\ slot' = 0
  /\ UNCHANGED frame_id
=============================================================================
