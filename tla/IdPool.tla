------------------------------- MODULE IdPool -------------------------------
(***************************************************************************)
(* What the tracker promises whoever follows ids (Trackable::nextId and    *)
(* start() in lidartool/Trackable/Trackable.h): ids are issued in          *)
(* ascending order, an id that was given up is never issued again, and the *)
(* numbering starts over only when no id is in use.  Nothing is promised   *)
(* of when an id is given up, nor that every id issued shows up.           *)
(***************************************************************************)
EXTENDS Naturals

VARIABLES
  counter, \* the last id issued
  live     \* the ids somebody may still see

Init == counter = 0 /\ live = {}

\* Some ids are issued, and some, the new ones among them, are given up.
Serve ==
  /\ counter' \in Nat /\ counter' >= counter
  /\ live' \subseteq live \cup (counter + 1 .. counter')

StartOver == live = {} /\ live' = {} /\ counter' = 0

Next == Serve \/ StartOver

Spec == Init /\ [][Next]_<<counter, live>>
=============================================================================
