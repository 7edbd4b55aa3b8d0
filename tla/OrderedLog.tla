----------------------------- MODULE OrderedLog -----------------------------
(***************************************************************************)
(* What an observer that writes to a file promises (TrackableObserver and  *)
(* TrackableFileObserver in lidartool/Trackable/TrackableObserver.h): the  *)
(* frames it takes ascend, and all it took is written in that order, until *)
(* the process ends; then nothing more is.  Frames may be left out before  *)
(* they are taken, and what was not written by the end is lost.            *)
(***************************************************************************)
EXTENDS Naturals, Sequences

VARIABLES
  made,    \* the number of the last frame there is
  pending, \* messages taken and not yet written
  written, \* the last frame written
  over     \* the process has ended

log == <<made, pending, written, over>>

Init == made = 0 /\ pending = <<>> /\ written = 0 /\ over = FALSE

Make ==
  /\ ~over
  /\ made' = made + 1
  /\ UNCHANGED <<pending, written, over>>

\* Starts and stops, and frames newer than the last one written.
Acceptable ==
  [kind : {"start", "stop"}, id : {0}] \cup [kind : {"frame"}, id : written + 1 .. made]

Accept ==
  /\ ~over
  /\ \E msg \in Acceptable :
       /\ \A i \in DOMAIN pending :
            pending[i].kind = "frame" /\ msg.kind = "frame" => pending[i].id < msg.id
       /\ pending' = Append(pending, msg)
  /\ UNCHANGED <<made, written, over>>

Write ==
  /\ ~over /\ pending # <<>>
  /\ pending' = Tail(pending)
  /\ written' = IF Head(pending).kind = "frame" THEN Head(pending).id ELSE written
  /\ UNCHANGED <<made, over>>

End ==
  /\ ~over
  /\ over' = TRUE /\ pending' = <<>>
  /\ UNCHANGED <<made, written>>

Next == Make \/ Accept \/ Write \/ End

Spec == Init /\ [][Next]_log
=============================================================================
