--------------------------- MODULE ScanTransport ---------------------------
(***************************************************************************)
(* One direction of the UDP link between two LidarVirtualDrivers           *)
(* (lidartool/cpp/lidarVirtDriver.cpp).  The sender cuts a scan into       *)
(* datagrams of at most NodesPerPacket samples, numbers the scan and       *)
(* forgets it.  The network loses, reorders and, if Duplication, repeats   *)
(* datagrams.  The receiver collects the datagrams of a scan in the entry  *)
(* of its sequence number and grabs the newest complete one.               *)
(*                                                                         *)
(* Either process may restart.  A restarted sender counts from 0 again,    *)
(* and nothing in a datagram tells its incarnation, so the field session   *)
(* of datagrams and sent scans is known to the model only: it names the    *)
(* measurement the samples of a datagram come from.                        *)
(*                                                                         *)
(* The vector of entries the code keeps sorted by sequence number is a     *)
(* function from sequence numbers here; ScanDataList.tla models the vector *)
(* itself and is shown to implement it.                                    *)
(***************************************************************************)
EXTENDS Integers, FiniteSets, FiniteSetsExt

CONSTANTS
  NodesPerPacket, \* nodesPerPacket: samples in a full datagram (128)
  Capacity,       \* entries above which the oldest is erased (16)
  FailureLimit,   \* stale scans in a row after which one is accepted (15)
  ResetOnConnect, \* a "connect" resets currentSeqNr: scanDataList, not envDataList
  Totals,         \* numbers of samples a scan may have
  Garbage,        \* values the unset seqFailureCount may hold
  Lossy, Duplication,   \* what the network may do
  MaxSessions, MaxSeqNr, MaxInFlight, MaxConnects, MaxReboots, \* bounds
  NoFrame

ASSUME ParamAssumption ==
  /\ NodesPerPacket \in Nat \ {0}
  /\ Capacity \in Nat \ {0}
  /\ FailureLimit \in Nat \ {0}
  /\ ResetOnConnect \in BOOLEAN /\ Lossy \in BOOLEAN /\ Duplication \in BOOLEAN
  /\ Totals \subseteq Nat
  /\ Garbage \subseteq Int /\ Garbage # {}
  /\ {MaxSessions, MaxSeqNr, MaxInFlight, MaxConnects, MaxReboots} \subseteq Nat

VARIABLES
  session,         \* incarnation of the sending process
  seqNr,           \* LidarVirtualDriver::seqNr of the sender
  sent,            \* history: the scans handed to the network
  net,             \* datagrams in flight
  list,            \* the receiver's LidarScanDataList
  currentSeqNr,    \* sequence number of the last scan accepted
  seqFailureCount, \* stale scans erased since
  counterSet,      \* whether seqFailureCount was ever assigned
  last,            \* the scan the last successful grab returned
  grabbed,         \* history: the scans grabbed by this receiver
  connects,        \* number of "connect" commands received
  reboots,         \* number of restarts of the receiver
  overrun          \* a datagram was written past the end of its entry

senderVars   == <<session, seqNr, sent>>
receiverVars == <<list, currentSeqNr, seqFailureCount, counterSet, last, grabbed>>
vars == <<senderVars, net, receiverVars, connects, reboots, overrun>>

-----------------------------------------------------------------------------
(* Fragmentation. *)

NumPackets(total) ==
  total \div NodesPerPacket
    + IF total = 0 \/ total % NodesPerPacket > 0 THEN 1 ELSE 0

Packets(total) == 0 .. NumPackets(total) - 1

\* A mutant: every packet is taken for a full one.
NodesInPacketAlwaysFull(p, total) == NodesPerPacket

NodesInPacket(p, total) ==
  IF (p + 1) * NodesPerPacket > total THEN total % NodesPerPacket ELSE NodesPerPacket

Datagrams(scan) ==
  {[session |-> scan.session, seqNr |-> scan.seqNr, total |-> scan.total, packetId |-> p] :
     p \in Packets(scan.total)}

-----------------------------------------------------------------------------
(* The receiver's store.  An entry has the number of samples its first     *)
(* datagram announced and, for each packet of such a scan, the session and *)
(* the number of the scan the samples received were cut from.              *)

\* packetsReceived is false.
Missing == <<0, 0>>

\* A mutant: the last packet is taken for the end of the scan.
CompleteByLast(l) == {s \in DOMAIN l : l[s].nodes[NumPackets(l[s].total) - 1] # Missing}

Complete(l) == {s \in DOMAIN l : \A p \in Packets(l[s].total) : l[s].nodes[p] # Missing}

Stale(l) == {s \in Complete(l) : s < currentSeqNr}

\* A mutant: the full store gives up its last entry instead of its first.
OldestFromBack(l) == Max(DOMAIN l)

Oldest(l) == Min(DOMAIN l)

\* What a new entry leaves of the store: the oldest goes when it is full.
Evict(l) ==
  IF Cardinality(DOMAIN l) > Capacity
  THEN [s \in DOMAIN l \ {Oldest(l)} |-> l[s]]
  ELSE l

\* The datagram does not fit the entry its sequence number leads to.
Misfit(entry, d) ==
  \/ d.packetId \notin Packets(entry.total)
  \/ /\ NodesInPacket(d.packetId, d.total) > 0
     /\ d.packetId * NodesPerPacket + NodesInPacket(d.packetId, d.total) > entry.total

\* A mutant: an entry has no slot for the packet that is not full.
EmptyEntryFullOnly(total) ==
  [total |-> total, nodes |-> [p \in 0 .. total \div NodesPerPacket - 1 |-> Missing]]

EmptyEntry(total) == [total |-> total, nodes |-> [p \in Packets(total) |-> Missing]]

Fill(entry, d) == [entry EXCEPT !.nodes[d.packetId] = <<d.session, d.seqNr>>]

\* A mutant: the search from the back stops at the first number not larger.
StoreAtOrBelow(l, d) ==
  LET below == {s \in DOMAIN l : s <= d.seqNr}
      s0    == IF below = {} THEN d.seqNr ELSE Max(below)
      entry == IF below = {} THEN EmptyEntry(d.total) ELSE l[s0]
  IN  [s \in DOMAIN l \cup {s0} |-> IF s = s0 THEN Fill(entry, d) ELSE l[s]]

\* getScanData followed by addData.
Store(l, d) ==
  LET old   == IF d.seqNr \in DOMAIN l THEN l ELSE Evict(l)
      entry == IF d.seqNr \in DOMAIN l THEN l[d.seqNr] ELSE EmptyEntry(d.total)
  IN  [s \in DOMAIN old \cup {d.seqNr} |-> IF s = d.seqNr THEN Fill(entry, d) ELSE old[s]]

-----------------------------------------------------------------------------
Init ==
  /\ session = 1 /\ seqNr = 0 /\ sent = {}
  /\ net = {}
  /\ list = [s \in {} |-> NoFrame]
  /\ currentSeqNr = 0
  /\ seqFailureCount \in Garbage
  /\ counterSet = FALSE
  /\ last = NoFrame
  /\ grabbed = {}
  /\ connects = 0 /\ reboots = 0
  /\ overrun = FALSE

\* sendScanData: number the scan and send all its datagrams.
SendScan(total) ==
  LET scan == [session |-> session, seqNr |-> seqNr + 1, total |-> total]
  IN  /\ seqNr < MaxSeqNr
      /\ Cardinality(net) + NumPackets(total) <= MaxInFlight
      /\ seqNr' = seqNr + 1
      /\ sent' = sent \cup {scan}
      /\ net' = net \cup Datagrams(scan)
      /\ UNCHANGED <<session, receiverVars, connects, reboots, overrun>>

\* The sending process ends and is started again.
SenderRestart ==
  /\ session < MaxSessions
  /\ session' = session + 1
  /\ seqNr' = 0
  /\ UNCHANGED <<sent, net, receiverVars, connects, reboots, overrun>>

Lose(d) ==
  /\ Lossy
  /\ net' = net \ {d}
  /\ UNCHANGED <<senderVars, receiverVars, connects, reboots, overrun>>

\* A scan datagram in update(); the datagram may arrive again later.
Receive(d) ==
  /\ \/ net' = net \ {d}
     \/ Duplication /\ net' = net
  /\ IF d.seqNr \in DOMAIN list /\ Misfit(list[d.seqNr], d)
     THEN /\ overrun' = TRUE
          /\ list' = list
     ELSE /\ list' = Store(list, d)
          /\ overrun' = overrun
  /\ UNCHANGED <<senderVars, currentSeqNr, seqFailureCount, counterSet, last, grabbed,
                 connects, reboots>>

\* A mutant: only the stale scans leave the store.
RemainingAccepted(l) == [s \in DOMAIN l \ Stale(l) |-> l[s]]

\* A grab erases every complete entry, returned or not.
Remaining(l) == [s \in DOMAIN l \ Complete(l) |-> l[s]]

\* A mutant: one stale scan too many is thrown away.
StartedOverLate(n) == seqFailureCount + n > FailureLimit

\* So many stale scans in a row come from a sender that started over.
StartedOver(n) == seqFailureCount + n >= FailureLimit

\* A mutant: the failures are left to add up.
AcceptUncounted(s) ==
  /\ currentSeqNr' = s
  /\ UNCHANGED <<seqFailureCount, counterSet>>
  /\ last' = [seqNr |-> s, total |-> list[s].total, nodes |-> list[s].nodes]
  /\ grabbed' = grabbed \cup {s}

Accept(s) ==
  /\ currentSeqNr' = s
  /\ seqFailureCount' = 0
  /\ counterSet' = TRUE
  /\ last' = [seqNr |-> s, total |-> list[s].total, nodes |-> list[s].nodes]
  /\ grabbed' = grabbed \cup {s}

Discard(n) ==
  /\ seqFailureCount' = seqFailureCount + n
  /\ UNCHANGED <<currentSeqNr, counterSet, last, grabbed>>

\* grabScanData( nodes, grabLatest = true ): the newest complete entry is
\* returned, unless all of them are stale and too few to show a sender that
\* started over.
Grab ==
  LET n == Cardinality(Stale(list))
  IN  /\ Complete(list) # {}
      /\ list' = Remaining(list)
      /\ IF Stale(list) # Complete(list) \/ StartedOver(n)
         THEN Accept(Max(Complete(list)))
         ELSE Discard(n)
      /\ UNCHANGED <<senderVars, net, connects, reboots, overrun>>

\* A "connect" command in update().
Connect ==
  /\ connects < MaxConnects
  /\ connects' = connects + 1
  /\ currentSeqNr' = IF ResetOnConnect THEN 0 ELSE currentSeqNr
  /\ UNCHANGED <<senderVars, net, list, seqFailureCount, counterSet, last, grabbed,
                 reboots, overrun>>

\* The receiving process ends and is started again.
ReceiverRestart ==
  /\ reboots < MaxReboots
  /\ reboots' = reboots + 1
  /\ list' = [s \in {} |-> NoFrame]
  /\ currentSeqNr' = 0
  /\ seqFailureCount' \in Garbage
  /\ counterSet' = FALSE
  /\ last' = NoFrame
  /\ grabbed' = {}
  /\ UNCHANGED <<senderVars, net, connects, overrun>>

\* Writing past an entry is undefined: nothing is said about what follows.
Next ==
  /\ ~overrun
  /\ \/ \E total \in Totals : SendScan(total)
     \/ SenderRestart
     \/ \E d \in net : Lose(d) \/ Receive(d)
     \/ Grab
     \/ Connect
     \/ ReceiverRestart

Spec == Init /\ [][Next]_vars

\* The receiver's thread keeps polling; what is in flight arrives or is lost.
FairSpec ==
  /\ Spec
  /\ WF_vars(~overrun /\ \E d \in net : Receive(d) /\ net' # net)
  /\ WF_vars(~overrun /\ Grab)
-----------------------------------------------------------------------------
(* What the link promises. *)

\* The variables have their types; an entry has a slot for each packet of a
\* scan of its size, and no other.
TypeOK ==
  /\ session \in Nat \ {0} /\ seqNr \in Nat
  /\ sent \subseteq [session : Nat, seqNr : Nat, total : Nat]
  /\ net \subseteq [session : Nat, seqNr : Nat, total : Nat, packetId : Nat]
  /\ DOMAIN list \subseteq Nat /\ IsFiniteSet(DOMAIN list)
  /\ \A s \in DOMAIN list :
       list[s] \in [total : Nat, nodes : [Packets(list[s].total) -> Nat \X Nat]]
  /\ currentSeqNr \in Nat /\ seqFailureCount \in Int
  /\ counterSet \in BOOLEAN /\ overrun \in BOOLEAN
  /\ last = NoFrame
     \/ last \in [seqNr : Nat, total : Nat, nodes : [Packets(last.total) -> Nat \X Nat]]
  /\ grabbed \subseteq Nat
  /\ connects \in Nat /\ reboots \in Nat

\* seqFailureCount is not initialised by the constructor of LidarScanDataList:
\* grabScanData reads it only for a stale scan, and there is none before a
\* scan was accepted, which assigns it.
CounterReadAfterSet == ~counterSet => Stale(list) = {}

\* Fewer than FailureLimit stale scans are thrown away in a row, whatever the
\* order of arrivals, restarts and connects: a sender that started to count
\* from 0 again is heard after that many scans.
DiscardsBounded == counterSet => 0 <= seqFailureCount /\ seqFailureCount < FailureLimit

\* Reassembly never mixes numbers: every packet of the scan grabbed last was
\* cut from a scan that some incarnation of the sender sent under this number.
OneNumber ==
  last # NoFrame =>
    \A p \in DOMAIN last.nodes :
      \E f \in sent : last.nodes[p] = <<f.session, f.seqNr>> /\ f.seqNr = last.seqNr

\* As long as the sender has not restarted, the scan grabbed last is one the
\* sender sent, with all its packets, whatever was lost, late or repeated.
FrameIntact ==
  session = 1 /\ last # NoFrame =>
    /\ last.nodes = [p \in Packets(last.total) |-> <<1, last.seqNr>>]
    /\ [session |-> 1, seqNr |-> last.seqNr, total |-> last.total] \in sent

\* ... and no datagram was written past the end of the entry it belongs to.
InBounds == session = 1 => ~overrun

\* On a network that repeats nothing a sender's scan is grabbed only once: an
\* entry erased by a grab or by a full store is not completed again.
GrabbedOnce ==
  [][Grab /\ seqFailureCount' = 0 /\ session = 1 => currentSeqNr' \notin grabbed]_vars

\* On a network that loses nothing every scan, or a newer one, is grabbed
\* eventually: no order of arrival makes a full store erase the newest entry.
NewestArrives ==
  \A n \in 1 .. MaxSeqNr : (seqNr = n) ~> (\E m \in grabbed : m >= n)

\* While the sender does not restart, the link is a stream of whole scans.
Stream == INSTANCE ScanStream WITH
  Parts <- Packets, Nothing <- NoFrame, published <- sent, shown <- last

StreamSpec == Stream!Spec
=============================================================================
