----------------------------- MODULE ScanStream -----------------------------
(***************************************************************************)
(* What the virtual link promises the code above it                        *)
(* (LidarDevice::scan in lidartool/cpp/lidarKit.cpp): a scan that shows up *)
(* at the receiver is one the sender published, with all its samples.      *)
(* Nothing is promised of the scans in between, nor of the order in which  *)
(* two scans show up.                                                      *)
(***************************************************************************)
EXTENDS Naturals

CONSTANTS
  Parts(_), \* the parts a scan of some size is made of
  Nothing

VARIABLES
  published, \* scans the sender produced, with their numbers
  shown      \* the scan the receiver works on, or Nothing

Whole(scan) ==
  [seqNr |-> scan.seqNr, total |-> scan.total,
   nodes |-> [p \in Parts(scan.total) |-> <<1, scan.seqNr>>]]

Init == published = {} /\ shown = Nothing

\* The next scan gets a number larger than any before.
Publish ==
  \E scan \in published' :
    /\ scan \in [session : {1}, seqNr : Nat, total : Nat]
    /\ \A earlier \in published : earlier.seqNr < scan.seqNr
    /\ published' = published \cup {scan}
    /\ UNCHANGED shown

Show ==
  /\ \E scan \in published : shown' = Whole(scan)
  /\ UNCHANGED published

\* The receiver starts over.
Blank == shown' = Nothing /\ UNCHANGED published

Next == Publish \/ Show \/ Blank

Spec == Init /\ [][Next]_<<published, shown>>
=============================================================================
