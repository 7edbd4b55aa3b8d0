---------------------------- MODULE ScanDataList ----------------------------
(***************************************************************************)
(* LidarScanDataList as the code has it (lidartool/cpp/lidarVirtDriver.cpp)*)
(* a vector of entries, searched and filled from its back, from which a    *)
(* loop erases while it walks.  ScanTransport.tla sees this vector as a    *)
(* function from sequence numbers; that view is the refinement mapping of  *)
(* LinkSpec, which the whole link with the vector in it is checked against.*)
(***************************************************************************)
EXTENDS Integers, Sequences, SequencesExt, FiniteSets

CONSTANTS
  NodesPerPacket, Capacity, FailureLimit, ResetOnConnect, Totals, Garbage, Lossy,
  Duplication, MaxSessions, MaxSeqNr, MaxInFlight, MaxConnects, MaxReboots, NoFrame

ASSUME LinkAssumption ==
  /\ {NodesPerPacket, Capacity, FailureLimit} \subseteq Nat \ {0}
  /\ {ResetOnConnect, Lossy, Duplication} \subseteq BOOLEAN
  /\ Totals \subseteq Nat
  /\ Garbage \subseteq Int /\ Garbage # {}
  /\ {MaxSessions, MaxSeqNr, MaxInFlight, MaxConnects, MaxReboots} \subseteq Nat

VARIABLES
  session, seqNr, sent, net, currentSeqNr, seqFailureCount, counterSet, last, grabbed,
  connects, reboots, overrun, \* as in ScanTransport
  vector                      \* the entries of the LidarScanDataList

Entries(v) ==
  [s \in {v[i].seqNr : i \in DOMAIN v} |->
     LET i == CHOOSE i \in DOMAIN v : v[i].seqNr = s
     IN  [total |-> v[i].total, nodes |-> v[i].nodes]]

Link == INSTANCE ScanTransport WITH list <- Entries(vector)

\* What the steps outside the vector touch.
grabVars == <<currentSeqNr, seqFailureCount, counterSet, last, grabbed>>
vars == <<session, seqNr, sent, net, grabVars, connects, reboots, overrun, vector>>

-----------------------------------------------------------------------------
\* The searches from the back, 0 if there is no such entry.
Find(v, s)      == SelectLastInSeq(v, LAMBDA e : e.seqNr = s)
FindBelow(v, s) == SelectLastInSeq(v, LAMBDA e : e.seqNr < s)

\* The first entry goes when the vector is full.
Room(v) == IF Len(v) > Capacity THEN Tail(v) ELSE v

NewEntry(s, total) ==
  [seqNr |-> s, total |-> total, nodes |-> [p \in Link!Packets(total) |-> Link!Missing]]

\* A mutant: a new entry goes to the end of the vector.
GetScanDataAppending(v, s, total) ==
  IF Find(v, s) # 0 THEN v ELSE Append(Room(v), NewEntry(s, total))

\* The vector with an entry for s: as it is, or with a new one after the last
\* smaller number.
GetScanData(v, s, total) ==
  IF Find(v, s) # 0 THEN v
  ELSE InsertAt(Room(v), FindBelow(Room(v), s) + 1, NewEntry(s, total))

AddData(entry, d) == [entry EXCEPT !.nodes[d.packetId] = <<d.session, d.seqNr>>]

Complete(entry) == \A p \in DOMAIN entry.nodes : entry.nodes[p] # Link!Missing

\* A mutant: the index moves on after an entry was erased.
LookSkipping(w) ==
  LET entry == w.vector[w.i]
      next  == [w EXCEPT !.i = @ + 1]
      rest  == RemoveAt(w.vector, w.i)
  IN  IF w.i > Len(w.vector) THEN w
      ELSE IF ~Complete(entry) THEN next
      ELSE IF entry.seqNr < w.current /\ w.failures + 1 < FailureLimit
           THEN [next EXCEPT !.vector = rest, !.failures = @ + 1]
           ELSE [next EXCEPT !.vector = rest, !.current = entry.seqNr,
                             !.failures = 0, !.nodes = entry, !.success = TRUE]

\* One turn of the loop of grabScanData( nodes, true ): w is the index it looks
\* at, the vector, the members, the scan handed out and whether there was one.
Look(w) ==
  LET entry == w.vector[w.i]
      rest  == RemoveAt(w.vector, w.i)
  IN  IF w.i > Len(w.vector) THEN w
      ELSE IF ~Complete(entry) THEN [w EXCEPT !.i = @ + 1]
      ELSE IF entry.seqNr < w.current /\ w.failures + 1 < FailureLimit
           THEN [w EXCEPT !.vector = rest, !.failures = @ + 1]
           ELSE [w EXCEPT !.vector = rest, !.current = entry.seqNr,
                          !.failures = 0, !.nodes = entry, !.success = TRUE]

\* The loop makes one turn for each entry: the index passes it or it is erased.
Walk(w) ==
  LET turn[n \in 0 .. Len(w.vector)] == IF n = 0 THEN w ELSE Look(turn[n - 1])
  IN  turn[Len(w.vector)]

-----------------------------------------------------------------------------
Init == vector = <<>> /\ Link!Init

Receive(d) ==
  /\ \/ net' = net \ {d}
     \/ Duplication /\ net' = net
  /\ LET v == GetScanData(vector, d.seqNr, d.total)
         i == Find(v, d.seqNr)
     IN  IF Link!Misfit(v[i], d)
         THEN vector' = v /\ overrun' = TRUE
         ELSE vector' = [v EXCEPT ![i] = AddData(@, d)] /\ overrun' = overrun
  /\ UNCHANGED <<session, seqNr, sent, grabVars, connects, reboots>>

Grab ==
  LET w == Walk([i |-> 1, vector |-> vector, current |-> currentSeqNr,
                 failures |-> seqFailureCount, nodes |-> last, success |-> FALSE])
  IN  /\ w.vector # vector
      /\ vector' = w.vector
      /\ currentSeqNr' = w.current
      /\ seqFailureCount' = w.failures
      /\ counterSet' = (counterSet \/ w.success)
      /\ last' = w.nodes
      /\ grabbed' = IF w.success THEN grabbed \cup {w.nodes.seqNr} ELSE grabbed
      /\ UNCHANGED <<session, seqNr, sent, net, connects, reboots, overrun>>

\* The steps that leave the vector alone, and the one that starts with a new one.
Elsewhere ==
  /\ vector' = vector
  /\ \/ \E total \in Totals : Link!SendScan(total)
     \/ Link!SenderRestart
     \/ \E d \in net : Link!Lose(d)
     \/ Link!Connect

NewReceiver == vector' = <<>> /\ Link!ReceiverRestart

Next ==
  /\ ~overrun
  /\ \/ \E d \in net : Receive(d)
     \/ Grab
     \/ Elsewhere
     \/ NewReceiver

Spec == Init /\ [][Next]_vars

-----------------------------------------------------------------------------
\* The vector stays strictly ascending, so that the entry erased when it is
\* full is the oldest and the last one a grab accepts is the newest: inserting
\* after the last smaller number and erasing in the loop preserve it in any
\* order of arrival.
Ascending ==
  \A i \in 1 .. Len(vector) - 1 : vector[i].seqNr < vector[i + 1].seqNr

\* The vector implements the store of ScanTransport: the searches from the
\* back and the erasing loop do to it what Store and Grab do to the function.
LinkSpec == Link!Spec
=============================================================================
