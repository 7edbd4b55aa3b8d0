------------------------ MODULE ScanTransportProofs ------------------------
(***************************************************************************)
(* Theorems about the virtual link, for every value of the constants.      *)
(***************************************************************************)
EXTENDS ScanTransport, FiniteSetTheorems, WellFoundedInduction, TLAPS

(* Arithmetic of fragmentation. *)

\* A product of naturals is a natural and grows with its first factor.
LEMMA ProductMonotone ==
  ASSUME NEW a \in Nat, NEW b \in Nat, NEW n \in Nat, a <= b
  PROVE  a * n \in Nat /\ a * n <= b * n
  <1>1. PICK c \in Nat : b = a + c
    <2>1. b - a \in Nat /\ b = a + (b - a)
      OBVIOUS
    <2> QED
      BY <2>1
  <1>2. b * n = a * n + c * n
    BY <1>1
  <1>3. c * n \in Nat /\ a * n \in Nat
    OBVIOUS
  <1> QED
    BY <1>2, <1>3

\* A scan has at least one packet, even when it has no samples.
LEMMA NumPacketsPositive ==
  ASSUME NEW total \in Nat
  PROVE  NumPackets(total) \in Nat /\ NumPackets(total) >= 1
  <1>1. NodesPerPacket \in Nat /\ NodesPerPacket > 0
    BY ParamAssumption
  <1>2. total \div NodesPerPacket \in Nat /\ total % NodesPerPacket \in 0 .. NodesPerPacket - 1
        /\ total = NodesPerPacket * (total \div NodesPerPacket) + (total % NodesPerPacket)
    BY <1>1
  <1>3. CASE total = 0 \/ total % NodesPerPacket > 0
    BY <1>2, <1>3 DEF NumPackets
  <1>4. CASE ~(total = 0 \/ total % NodesPerPacket > 0)
    <2>1. total % NodesPerPacket = 0 /\ total # 0
      BY <1>2, <1>4
    <2>2. total \div NodesPerPacket # 0
      <3>1. SUFFICES ASSUME total \div NodesPerPacket = 0 PROVE FALSE
        OBVIOUS
      <3>2. total = NodesPerPacket * 0 + 0
        BY <1>2, <2>1, <3>1
      <3> QED
        BY <3>2, <2>1, <1>1
    <2> QED
      BY <1>2, <1>4, <2>2 DEF NumPackets
  <1> QED
    BY <1>3, <1>4

\* The samples of a packet lie within the scan the packet was cut from: the
\* checks of addData succeed when the entry has the datagram's own size.
LEMMA PacketFits ==
  ASSUME NEW total \in Nat, NEW p \in Packets(total)
  PROVE  p * NodesPerPacket + NodesInPacket(p, total) <= total
  <1> DEFINE q == total \div NodesPerPacket
             r == total % NodesPerPacket
  <1>1. NodesPerPacket \in Nat /\ NodesPerPacket > 0
    BY ParamAssumption
  <1>2. q \in Nat /\ r \in 0 .. NodesPerPacket - 1 /\ total = NodesPerPacket * q + r
    BY <1>1
  <1>3. p \in Nat /\ p <= q
    <2>1. NumPackets(total) \in Nat /\ NumPackets(total) <= q + 1
      BY <1>2 DEF NumPackets
    <2> QED
      BY <1>2, <2>1 DEF Packets
  <1>4. p * NodesPerPacket \in Nat /\ p * NodesPerPacket <= q * NodesPerPacket
    <2> HIDE DEF q
    <2> QED
      BY <1>1, <1>2, <1>3, ProductMonotone
  <1>5. NodesPerPacket * q = q * NodesPerPacket /\ q * NodesPerPacket \in Nat
    <2> HIDE DEF q
    <2> QED
      BY <1>1, <1>2
  <1>6. (p + 1) * NodesPerPacket = p * NodesPerPacket + NodesPerPacket
    BY <1>1, <1>3
  <1>7. CASE (p + 1) * NodesPerPacket > total
    <2>1. NodesInPacket(p, total) = r
      BY <1>7 DEF NodesInPacket
    <2> HIDE DEF q, r
    <2> QED
      BY <1>1, <1>2, <1>4, <1>5, <2>1
  <1>8. CASE ~((p + 1) * NodesPerPacket > total)
    <2>1. NodesInPacket(p, total) = NodesPerPacket
      BY <1>8 DEF NodesInPacket
    <2> QED
      BY <1>1, <1>4, <1>6, <1>8, <2>1
  <1> QED
    BY <1>7, <1>8

-----------------------------------------------------------------------------
(* Finite sets of sequence numbers. *)

\* A set of naturals that is not empty has a least element.
LEMMA MinExists ==
  ASSUME NEW S \in SUBSET Nat, S # {}
  PROVE  Min(S) \in S /\ \A y \in S : Min(S) <= y
  <1>1. \E x \in S : \A y \in S : ~(<<y, x>> \in OpToRel(<, Nat))
    BY NatLessThanWellFounded, WFMin
  <1>2. \A x, y \in Nat : y < x => <<y, x>> \in OpToRel(<, Nat)
    BY DEF OpToRel
  <1>3. PICK x \in S : \A y \in S : ~(<<y, x>> \in OpToRel(<, Nat))
    BY <1>1
  <1>4. \A y \in S : ~(y < x)
    BY <1>2, <1>3
  <1>5. \A y \in S : x <= y
    <2> S \subseteq Nat
      OBVIOUS
    <2> QED
      BY <1>4
  <1> QED
    BY <1>5 DEF Min

\* A finite set of naturals that is not empty has a greatest element: one
\* with the fewest elements above it.
LEMMA MaxExists ==
  ASSUME NEW S \in SUBSET Nat, S # {}, IsFiniteSet(S)
  PROVE  Max(S) \in S /\ \A y \in S : Max(S) >= y
  <1> DEFINE Above(x) == {y \in S : y > x}
             Counts == {Cardinality(Above(x)) : x \in S}
  <1>1. \A x \in S : IsFiniteSet(Above(x)) /\ Cardinality(Above(x)) \in Nat
    BY FS_Subset, FS_CardinalityType
  <1>2. Counts \in SUBSET Nat /\ Counts # {}
    BY <1>1
  <1>3. Min(Counts) \in Counts /\ \A n \in Counts : Min(Counts) <= n
    <2> HIDE DEF Counts
    <2> QED
      BY <1>2, MinExists
  <1>4. PICK x \in S : \A y \in S : Cardinality(Above(x)) <= Cardinality(Above(y))
    BY <1>3
  <1>5. ASSUME NEW y \in S, y > x
        PROVE  FALSE
    <2>0. S \subseteq Nat /\ x \in Nat /\ y \in Nat
      OBVIOUS
    <2>1. Above(y) \in SUBSET Above(x) /\ y \in Above(x) /\ y \notin Above(y)
      <3>1. \A z \in S : z > y => z > x
        BY <1>5, <2>0
      <3>2. ~(y > y)
        BY <2>0
      <3> QED
        BY <1>5, <3>1, <3>2
    <2>2. Cardinality(Above(y)) < Cardinality(Above(x))
      <3> HIDE DEF Above
      <3> QED
        BY <1>1, <1>5, <2>1, FS_Subset
    <2> QED
      BY <1>1, <1>4, <1>5, <2>2
  <1>6. \A y \in S : x >= y
    BY <1>5
  <1> QED
    BY <1>6 DEF Max

-----------------------------------------------------------------------------
(* The store. *)

\* Making room keeps the other entries and leaves at most Capacity of them.
LEMMA EvictMakesRoom ==
  ASSUME NEW l, DOMAIN l \in SUBSET Nat, IsFiniteSet(DOMAIN l),
         Cardinality(DOMAIN l) <= Capacity + 1
  PROVE  /\ DOMAIN Evict(l) \subseteq DOMAIN l
         /\ \A s \in DOMAIN Evict(l) : Evict(l)[s] = l[s]
         /\ IsFiniteSet(DOMAIN Evict(l))
         /\ Cardinality(DOMAIN Evict(l)) <= Capacity
  <1>1. Capacity \in Nat /\ Cardinality(DOMAIN l) \in Nat
    BY ParamAssumption, FS_CardinalityType
  <1>2. CASE Cardinality(DOMAIN l) > Capacity
    <2>1. DOMAIN l # {}
      BY <1>1, <1>2, FS_EmptySet
    <2>2. Oldest(l) \in DOMAIN l
      BY <2>1, MinExists DEF Oldest
    <2>3. Evict(l) = [s \in DOMAIN l \ {Oldest(l)} |-> l[s]]
      BY <1>2 DEF Evict
    <2>4. /\ IsFiniteSet(DOMAIN l \ {Oldest(l)})
          /\ Cardinality(DOMAIN l \ {Oldest(l)}) = Cardinality(DOMAIN l) - 1
      BY <2>2, FS_RemoveElement
    <2> QED
      BY <1>1, <2>3, <2>4
  <1>3. CASE ~(Cardinality(DOMAIN l) > Capacity)
    BY <1>1, <1>3 DEF Evict
  <1> QED
    BY <1>2, <1>3

\* The entries of the store after a datagram was stored: that of its number,
\* filled, and some of the others.
LEMMA StoreEntries ==
  ASSUME NEW l, NEW d, DOMAIN l \in SUBSET Nat, IsFiniteSet(DOMAIN l),
         Cardinality(DOMAIN l) <= Capacity + 1, d.seqNr \in Nat
  PROVE  /\ DOMAIN Store(l, d) \subseteq DOMAIN l \cup {d.seqNr}
         /\ d.seqNr \in DOMAIN Store(l, d)
         /\ \A s \in DOMAIN Store(l, d) : s # d.seqNr => Store(l, d)[s] = l[s]
         /\ Store(l, d)[d.seqNr] =
              Fill(IF d.seqNr \in DOMAIN l THEN l[d.seqNr] ELSE EmptyEntry(d.total), d)
         /\ IsFiniteSet(DOMAIN Store(l, d))
         /\ Cardinality(DOMAIN Store(l, d)) <= Capacity + 1
  <1>1. Capacity \in Nat /\ Cardinality(DOMAIN l) \in Nat
    BY ParamAssumption, FS_CardinalityType
  <1>2. CASE d.seqNr \in DOMAIN l
    <2>1. Store(l, d) = [s \in DOMAIN l \cup {d.seqNr} |->
                           IF s = d.seqNr THEN Fill(l[d.seqNr], d) ELSE l[s]]
      BY <1>2 DEF Store
    <2>2. DOMAIN l \cup {d.seqNr} = DOMAIN l
      BY <1>2
    <2> QED
      BY <1>2, <2>1, <2>2
  <1>3. CASE d.seqNr \notin DOMAIN l
    <2>1. Store(l, d) = [s \in DOMAIN Evict(l) \cup {d.seqNr} |->
                           IF s = d.seqNr THEN Fill(EmptyEntry(d.total), d)
                                          ELSE Evict(l)[s]]
      BY <1>3 DEF Store
    <2>2. /\ DOMAIN Evict(l) \subseteq DOMAIN l
          /\ \A s \in DOMAIN Evict(l) : Evict(l)[s] = l[s]
          /\ IsFiniteSet(DOMAIN Evict(l))
          /\ Cardinality(DOMAIN Evict(l)) <= Capacity
      BY EvictMakesRoom
    <2>3. /\ IsFiniteSet(DOMAIN Evict(l) \cup {d.seqNr})
          /\ Cardinality(DOMAIN Evict(l) \cup {d.seqNr}) <= Capacity + 1
      <3> DEFINE D == DOMAIN Evict(l)
      <3>1. IsFiniteSet(D) /\ Cardinality(D) \in Nat /\ Cardinality(D) <= Capacity
        BY <2>2, FS_CardinalityType
      <3>2. /\ IsFiniteSet(D \cup {d.seqNr})
            /\ Cardinality(D \cup {d.seqNr}) =
                 IF d.seqNr \in D THEN Cardinality(D) ELSE Cardinality(D) + 1
        <4> HIDE DEF D
        <4> QED
          BY <3>1, FS_AddElement
      <3> QED
        BY <1>1, <3>1, <3>2
    <2> QED
      BY <1>3, <2>1, <2>2, <2>3
  <1> QED
    BY <1>2, <1>3

-----------------------------------------------------------------------------
(* The inductive invariant. *)

\* A datagram in flight was cut from a scan that was sent.
NetFromSent ==
  \A d \in net :
    /\ [session |-> d.session, seqNr |-> d.seqNr, total |-> d.total] \in sent
    /\ d.packetId \in Packets(d.total)

\* An incarnation of the sender uses a number once, and counts from 1.
SentOnce ==
  /\ \A f \in sent : /\ f.session \in 1 .. session /\ f.seqNr > 0
                     /\ f.session = session => f.seqNr <= seqNr
  /\ \A f, g \in sent : f.session = g.session /\ f.seqNr = g.seqNr => f = g

\* What the packets of a scan numbered n and of that size may hold: each comes
\* from a scan of that number, and one of that number had this size.
Origin(n, total, nodes) ==
  /\ \E g \in sent : g.seqNr = n /\ g.total = total
  /\ \A p \in Packets(total) :
       nodes[p] # Missing => \E f \in sent : nodes[p] = <<f.session, f.seqNr>> /\ f.seqNr = n

ListOrigin == \A s \in DOMAIN list : Origin(s, list[s].total, list[s].nodes)

LastOrigin ==
  last # NoFrame =>
    /\ Origin(last.seqNr, last.total, last.nodes)
    /\ \A p \in Packets(last.total) : last.nodes[p] # Missing

\* Before the counter is set nothing was accepted, so nothing is stale.
CounterInv == ~counterSet => currentSeqNr = 0

\* The store never grows past the limit getScanData enforces by erasing.
StoreBounded == Cardinality(DOMAIN list) <= Capacity + 1

IInv ==
  /\ TypeOK
  /\ NetFromSent
  /\ SentOnce
  /\ ListOrigin
  /\ LastOrigin
  /\ CounterInv
  /\ StoreBounded
  /\ DiscardsBounded
  /\ InBounds

\* The datagrams of a scan name it and carry one packet of it each.
LEMMA DatagramsOfScan ==
  ASSUME NEW scan \in [session : Nat, seqNr : Nat, total : Nat]
  PROVE  /\ Datagrams(scan) \subseteq [session : Nat, seqNr : Nat, total : Nat, packetId : Nat]
         /\ \A d \in Datagrams(scan) :
              /\ [session |-> d.session, seqNr |-> d.seqNr, total |-> d.total] = scan
              /\ d.packetId \in Packets(d.total)
  <1>1. NumPackets(scan.total) \in Nat
    BY NumPacketsPositive
  <1>2. Packets(scan.total) \subseteq Nat
    BY <1>1 DEF Packets
  <1> QED
    BY <1>2 DEF Datagrams

\* A link that starts: nothing in flight, stored or returned.
LEMMA InitIInv == Init => IInv
  <1> SUFFICES ASSUME Init PROVE IInv
    OBVIOUS
  <1>1. DOMAIN list = {} /\ IsFiniteSet(DOMAIN list) /\ Cardinality(DOMAIN list) = 0
    BY FS_EmptySet DEF Init
  <1>2. TypeOK
    <2>1. seqFailureCount \in Int
      BY ParamAssumption DEF Init
    <2>2. session \in Nat \ {0} /\ seqNr \in Nat /\ currentSeqNr \in Nat
          /\ connects \in Nat /\ reboots \in Nat
      BY DEF Init
    <2> QED
      BY <1>1, <2>1, <2>2 DEF Init, TypeOK
  <1>3. StoreBounded
    BY <1>1, ParamAssumption DEF StoreBounded
  <1> QED
    BY <1>1, <1>2, <1>3
    DEF Init, IInv, NetFromSent, SentOnce, ListOrigin, LastOrigin, CounterInv,
        DiscardsBounded, InBounds

\* Sending a scan gives its number its size, once.
LEMMA SendKeepsIInv ==
  ASSUME IInv, NEW total \in Totals, SendScan(total)
  PROVE  IInv'
  <1> DEFINE scan == [session |-> session, seqNr |-> seqNr + 1, total |-> total]
  <1>1. scan \in [session : Nat, seqNr : Nat, total : Nat]
    BY ParamAssumption DEF IInv, TypeOK
  <1>2. /\ seqNr' = seqNr + 1 /\ sent' = sent \cup {scan}
        /\ net' = net \cup Datagrams(scan)
        /\ UNCHANGED <<session, receiverVars, connects, reboots, overrun>>
    BY DEF SendScan
  <1>3. TypeOK'
    <2>1. Datagrams(scan) \subseteq
            [session : Nat, seqNr : Nat, total : Nat, packetId : Nat]
      BY <1>1, DatagramsOfScan
    <2> QED
      BY <1>1, <1>2, <2>1 DEF IInv, TypeOK, receiverVars
  <1>4. NetFromSent'
    <2> SUFFICES ASSUME NEW d \in net'
                 PROVE  /\ [session |-> d.session, seqNr |-> d.seqNr, total |-> d.total] \in sent'
                        /\ d.packetId \in Packets(d.total)
      BY DEF NetFromSent
    <2>1. CASE d \in net
      BY <1>2, <2>1 DEF IInv, NetFromSent
    <2>2. CASE d \in Datagrams(scan)
      <3> HIDE DEF scan
      <3> QED
        BY <1>1, <1>2, <2>2, DatagramsOfScan
    <2> QED
      BY <1>2, <2>1, <2>2
  <1>5. SentOnce'
    BY <1>2 DEF IInv, TypeOK, SentOnce
  <1>6. ListOrigin' /\ LastOrigin'
    BY <1>2 DEF IInv, ListOrigin, LastOrigin, Origin, receiverVars
  <1> QED
    BY <1>2, <1>3, <1>4, <1>5, <1>6
    DEF IInv, receiverVars, CounterInv, StoreBounded, DiscardsBounded, InBounds

\* A restarted sender shares nothing with the scans it sent before.
LEMMA RestartKeepsIInv ==
  ASSUME IInv, SenderRestart
  PROVE  IInv'
  <1>1. /\ session' = session + 1 /\ seqNr' = 0
        /\ UNCHANGED <<sent, net, receiverVars, connects, reboots, overrun>>
    BY DEF SenderRestart
  <1>2. TypeOK' /\ SentOnce'
    BY <1>1 DEF IInv, TypeOK, SentOnce, receiverVars
  <1>3. NetFromSent' /\ ListOrigin' /\ LastOrigin'
    BY <1>1 DEF IInv, NetFromSent, ListOrigin, LastOrigin, Origin, receiverVars
  <1>4. InBounds'
    BY <1>1 DEF IInv, TypeOK, InBounds
  <1> QED
    BY <1>1, <1>2, <1>3, <1>4
    DEF IInv, receiverVars, CounterInv, StoreBounded, DiscardsBounded

\* Losing a datagram takes nothing from what is known of the others.
LEMMA LoseKeepsIInv ==
  ASSUME IInv, NEW d \in net, Lose(d)
  PROVE  IInv'
  <1>1. /\ net' = net \ {d}
        /\ UNCHANGED <<senderVars, receiverVars, connects, reboots, overrun>>
    BY DEF Lose
  <1>2. TypeOK' /\ SentOnce' /\ NetFromSent'
    BY <1>1 DEF IInv, TypeOK, SentOnce, NetFromSent, senderVars, receiverVars
  <1>3. ListOrigin' /\ LastOrigin'
    BY <1>1 DEF IInv, ListOrigin, LastOrigin, Origin, senderVars, receiverVars
  <1> QED
    BY <1>1, <1>2, <1>3
    DEF IInv, senderVars, receiverVars, CounterInv, StoreBounded, DiscardsBounded, InBounds

\* While there is one incarnation of the sender, an entry has the size of the
\* scan of its number, so that a datagram fits the entry it is stored in.
LEMMA NoMisfit ==
  ASSUME IInv, session = 1, NEW d \in net, d.seqNr \in DOMAIN list
  PROVE  ~Misfit(list[d.seqNr], d)
  <1>1. d \in [session : Nat, seqNr : Nat, total : Nat, packetId : Nat]
    BY DEF IInv, TypeOK
  <1>2. PICK g \in sent : g.seqNr = d.seqNr /\ g.total = list[d.seqNr].total
    BY DEF IInv, ListOrigin, Origin
  <1>3. /\ [session |-> d.session, seqNr |-> d.seqNr, total |-> d.total] \in sent
        /\ d.packetId \in Packets(d.total)
    BY DEF IInv, NetFromSent
  <1>4. g.session = 1 /\ d.session = 1
    BY <1>2, <1>3 DEF IInv, SentOnce
  <1>5. g = [session |-> d.session, seqNr |-> d.seqNr, total |-> d.total]
    BY <1>2, <1>3, <1>4 DEF IInv, SentOnce
  <1>6. list[d.seqNr].total = d.total
    BY <1>2, <1>5
  <1>7. d.packetId * NodesPerPacket + NodesInPacket(d.packetId, d.total) <= d.total
    BY <1>1, <1>3, PacketFits
  <1>8. /\ d.packetId * NodesPerPacket \in Nat
        /\ NodesInPacket(d.packetId, d.total) \in Nat
    BY <1>1, ParamAssumption DEF NodesInPacket
  <1> HIDE DEF IInv
  <1>9. ~(d.packetId * NodesPerPacket + NodesInPacket(d.packetId, d.total) > d.total)
    <2> DEFINE x == d.packetId * NodesPerPacket
               y == NodesInPacket(d.packetId, d.total)
    <2>1. x \in Nat /\ y \in Nat /\ d.total \in Nat /\ x + y <= d.total
      BY <1>1, <1>7, <1>8
    <2> HIDE DEF x, y
    <2>2. ~(x + y > d.total)
      BY <2>1
    <2> QED
      BY <2>2 DEF x, y
  <1> QED
    BY <1>3, <1>6, <1>9 DEF Misfit

\* Storing a datagram that fits keeps the store typed and the origin of its
\* packets known.
LEMMA StoreKeepsOrigin ==
  ASSUME IInv, NEW d \in net,
         d.seqNr \in DOMAIN list => ~Misfit(list[d.seqNr], d)
  PROVE  LET l == Store(list, d)
         IN  \A s \in DOMAIN l :
               /\ s \in Nat
               /\ l[s] \in [total : Nat, nodes : [Packets(l[s].total) -> Nat \X Nat]]
               /\ Origin(s, l[s].total, l[s].nodes)
  <1> DEFINE l == Store(list, d)
             old == IF d.seqNr \in DOMAIN list THEN list[d.seqNr] ELSE EmptyEntry(d.total)
  <1>1. /\ d \in [session : Nat, seqNr : Nat, total : Nat, packetId : Nat]
        /\ [session |-> d.session, seqNr |-> d.seqNr, total |-> d.total] \in sent
        /\ d.packetId \in Packets(d.total)
    BY DEF IInv, TypeOK, NetFromSent
  <1>2. /\ DOMAIN l \subseteq DOMAIN list \cup {d.seqNr}
        /\ \A s \in DOMAIN l : s # d.seqNr => l[s] = list[s]
        /\ l[d.seqNr] = Fill(old, d)
    BY <1>1, StoreEntries DEF IInv, TypeOK, StoreBounded
  <1>3. /\ old \in [total : Nat, nodes : [Packets(old.total) -> Nat \X Nat]]
        /\ Origin(d.seqNr, old.total, old.nodes)
        /\ d.packetId \in Packets(old.total)
    <2>1. CASE d.seqNr \in DOMAIN list
      BY <2>1 DEF IInv, TypeOK, ListOrigin, Misfit
    <2>2. CASE d.seqNr \notin DOMAIN list
      <3>1. old = EmptyEntry(d.total)
        BY <2>2
      <3>2. Missing \in Nat \X Nat
        BY DEF Missing
      <3>3. /\ old = [total |-> d.total, nodes |-> [p \in Packets(d.total) |-> Missing]]
            /\ old.total = d.total
            /\ \A p \in Packets(d.total) : old.nodes[p] = Missing
        BY <3>1 DEF EmptyEntry
      <3> HIDE DEF old
      <3>4. old \in [total : Nat, nodes : [Packets(old.total) -> Nat \X Nat]]
        BY <1>1, <3>2, <3>3
      <3>5. Origin(d.seqNr, old.total, old.nodes)
        BY <1>1, <3>3 DEF Origin
      <3> QED
        BY <1>1, <3>3, <3>4, <3>5
    <2> QED
      BY <2>1, <2>2
  <1>4. /\ l[d.seqNr].total = old.total
        /\ l[d.seqNr] \in [total : Nat, nodes : [Packets(old.total) -> Nat \X Nat]]
        /\ \A p \in Packets(old.total) :
             l[d.seqNr].nodes[p] = IF p = d.packetId THEN <<d.session, d.seqNr>> ELSE old.nodes[p]
    <2> HIDE DEF old, l
    <2>1. d.session \in Nat /\ d.seqNr \in Nat
      BY <1>1
    <2>2. l[d.seqNr] = [old EXCEPT !.nodes[d.packetId] = <<d.session, d.seqNr>>]
      BY <1>2 DEF Fill
    <2>3. DOMAIN old.nodes = Packets(old.total)
      BY <1>3
    <2>4. /\ l[d.seqNr].total = old.total
          /\ l[d.seqNr].nodes = [old.nodes EXCEPT ![d.packetId] = <<d.session, d.seqNr>>]
          /\ l[d.seqNr] = [total |-> l[d.seqNr].total, nodes |-> l[d.seqNr].nodes]
      BY <1>3, <2>2
    <2>5. \A p \in Packets(old.total) :
            l[d.seqNr].nodes[p] = IF p = d.packetId THEN <<d.session, d.seqNr>> ELSE old.nodes[p]
      BY <2>3, <2>4
    <2>6. l[d.seqNr].nodes \in [Packets(old.total) -> Nat \X Nat]
      BY <1>3, <2>1, <2>4
    <2>7. l[d.seqNr] \in [total : Nat, nodes : [Packets(old.total) -> Nat \X Nat]]
      BY <1>3, <2>4, <2>6
    <2> QED
      BY <2>4, <2>5, <2>7
  <1>5. Origin(d.seqNr, l[d.seqNr].total, l[d.seqNr].nodes)
    <2> HIDE DEF old, l
    <2> QED
      BY <1>1, <1>3, <1>4 DEF Origin
  <1>6. ASSUME NEW s \in DOMAIN l, s # d.seqNr
        PROVE  /\ s \in Nat
               /\ l[s] \in [total : Nat, nodes : [Packets(l[s].total) -> Nat \X Nat]]
               /\ Origin(s, l[s].total, l[s].nodes)
    <2>1. s \in DOMAIN list /\ l[s] = list[s]
      BY <1>2, <1>6
    <2> HIDE DEF l
    <2> QED
      BY <2>1 DEF IInv, TypeOK, ListOrigin
  <1> HIDE DEF l, old
  <1>7. \A s \in DOMAIN l :
          /\ s \in Nat
          /\ l[s] \in [total : Nat, nodes : [Packets(l[s].total) -> Nat \X Nat]]
          /\ Origin(s, l[s].total, l[s].nodes)
    BY <1>1, <1>4, <1>5, <1>6
  <1> QED
    BY <1>7 DEF l

\* A datagram that does not fit ends the story; one that fits is stored.
LEMMA ReceiveKeepsIInv ==
  ASSUME IInv, NEW d \in net, Receive(d)
  PROVE  IInv'
  <1>1. /\ net' \subseteq net
        /\ UNCHANGED <<senderVars, currentSeqNr, seqFailureCount, counterSet, last, grabbed,
                       connects, reboots>>
    BY DEF Receive
  <1>2. d \in [session : Nat, seqNr : Nat, total : Nat, packetId : Nat]
    BY DEF IInv, TypeOK
  <1>3. /\ \A s \in DOMAIN list' :
             /\ s \in Nat
             /\ list'[s] \in [total : Nat, nodes : [Packets(list'[s].total) -> Nat \X Nat]]
             /\ Origin(s, list'[s].total, list'[s].nodes)
        /\ IsFiniteSet(DOMAIN list') /\ Cardinality(DOMAIN list') <= Capacity + 1
        /\ overrun' \in BOOLEAN
        /\ session = 1 => overrun' = overrun
    <2>1. CASE d.seqNr \in DOMAIN list /\ Misfit(list[d.seqNr], d)
      <3>1. list' = list /\ overrun' = TRUE
        BY <2>1 DEF Receive
      <3>2. session # 1
        BY <2>1, NoMisfit
      <3> QED
        BY <3>1, <3>2 DEF IInv, TypeOK, ListOrigin, StoreBounded
    <2>2. CASE ~(d.seqNr \in DOMAIN list /\ Misfit(list[d.seqNr], d))
      <3>1. list' = Store(list, d) /\ overrun' = overrun
        BY <2>2 DEF Receive
      <3>2. IsFiniteSet(DOMAIN list') /\ Cardinality(DOMAIN list') <= Capacity + 1
        BY <1>2, <3>1, StoreEntries DEF IInv, TypeOK, StoreBounded
      <3>3. \A s \in DOMAIN list' :
              /\ s \in Nat
              /\ list'[s] \in [total : Nat, nodes : [Packets(list'[s].total) -> Nat \X Nat]]
              /\ Origin(s, list'[s].total, list'[s].nodes)
        BY <2>2, <3>1, StoreKeepsOrigin
      <3> QED
        BY <3>1, <3>2, <3>3 DEF IInv, TypeOK
    <2> QED
      BY <2>1, <2>2
  <1>4. TypeOK' /\ SentOnce' /\ NetFromSent'
    BY <1>1, <1>3 DEF IInv, TypeOK, SentOnce, NetFromSent, senderVars
  <1>5. ListOrigin' /\ LastOrigin'
    BY <1>1, <1>3 DEF IInv, ListOrigin, LastOrigin, Origin, senderVars
  <1>6. StoreBounded' /\ InBounds'
    BY <1>1, <1>3 DEF IInv, StoreBounded, InBounds, senderVars
  <1> QED
    BY <1>1, <1>4, <1>5, <1>6 DEF IInv, senderVars, CounterInv, DiscardsBounded

\* What a grab returns has the origin its entry had; the counter stays below
\* the limit because reaching it accepts.
LEMMA GrabKeepsIInv ==
  ASSUME IInv, Grab
  PROVE  IInv'
  <1> DEFINE n == Cardinality(Stale(list))
             newest == Max(Complete(list))
             accepted == Stale(list) # Complete(list) \/ StartedOver(n)
  <1>1. /\ Complete(list) # {}
        /\ list' = [s \in DOMAIN list \ Complete(list) |-> list[s]]
        /\ UNCHANGED <<senderVars, net, connects, reboots, overrun>>
    BY DEF Grab, Remaining
  <1>2. /\ Complete(list) \in SUBSET DOMAIN list /\ Complete(list) \in SUBSET Nat
        /\ IsFiniteSet(Complete(list))
    BY FS_Subset DEF Complete, IInv, TypeOK
  <1>3. newest \in Complete(list)
    BY <1>1, <1>2, MaxExists
  <1>4. Stale(list) \in SUBSET Complete(list) /\ n \in Nat
    BY <1>2, FS_Subset, FS_CardinalityType DEF Stale
  <1>5. /\ IsFiniteSet(DOMAIN list') /\ Cardinality(DOMAIN list') <= Capacity + 1
        /\ DOMAIN list' \subseteq DOMAIN list
        /\ \A s \in DOMAIN list' : list'[s] = list[s]
    <2>1. /\ IsFiniteSet(DOMAIN list \ Complete(list))
          /\ Cardinality(DOMAIN list \ Complete(list)) <= Cardinality(DOMAIN list)
      BY FS_Subset DEF IInv, TypeOK
    <2>2. /\ Cardinality(DOMAIN list) \in Nat
          /\ Cardinality(DOMAIN list \ Complete(list)) \in Nat
          /\ Capacity \in Nat
      BY <2>1, FS_CardinalityType, ParamAssumption DEF IInv, TypeOK
    <2> QED
      BY <1>1, <2>1, <2>2 DEF IInv, StoreBounded
  <1>6. ListOrigin'
    BY <1>1, <1>5 DEF IInv, ListOrigin, Origin, senderVars
  <1>7. SentOnce' /\ NetFromSent' /\ InBounds' /\ StoreBounded'
    BY <1>1, <1>5 DEF IInv, SentOnce, NetFromSent, InBounds, StoreBounded, senderVars
  <1>8. CASE accepted
    <2>1. /\ currentSeqNr' = newest /\ seqFailureCount' = 0 /\ counterSet' = TRUE
          /\ last' = [seqNr |-> newest, total |-> list[newest].total,
                      nodes |-> list[newest].nodes]
          /\ grabbed' = grabbed \cup {newest}
      BY <1>8 DEF Grab, Accept
    <2> HIDE DEF newest, accepted, n
    <2>2. /\ newest \in Nat /\ newest \in DOMAIN list
          /\ list[newest] \in [total : Nat, nodes : [Packets(list[newest].total) -> Nat \X Nat]]
          /\ Origin(newest, list[newest].total, list[newest].nodes)
          /\ \A p \in Packets(list[newest].total) : list[newest].nodes[p] # Missing
      BY <1>2, <1>3 DEF IInv, TypeOK, ListOrigin, Complete
    <2>3. TypeOK'
      BY <1>1, <1>5, <2>1, <2>2 DEF IInv, TypeOK, senderVars
    <2>4. LastOrigin'
      BY <1>1, <2>1, <2>2 DEF LastOrigin, Origin, senderVars
    <2>5. CounterInv' /\ DiscardsBounded'
      BY <2>1, ParamAssumption DEF CounterInv, DiscardsBounded
    <2> QED
      BY <1>6, <1>7, <2>3, <2>4, <2>5 DEF IInv
  <1>9. CASE ~accepted
    <2>1. /\ seqFailureCount' = seqFailureCount + n
          /\ UNCHANGED <<currentSeqNr, counterSet, last, grabbed>>
      BY <1>9 DEF Grab, Discard
    <2>2. Stale(list) = Complete(list) /\ ~(seqFailureCount + n >= FailureLimit)
      BY <1>9 DEF StartedOver
    <2> HIDE DEF newest, accepted, n
    <2>3. TypeOK'
      BY <1>1, <1>4, <1>5, <2>1 DEF IInv, TypeOK, senderVars
    <2>4. LastOrigin' /\ CounterInv'
      BY <1>1, <2>1 DEF IInv, LastOrigin, Origin, CounterInv, senderVars
    <2>5. DiscardsBounded'
      BY <1>4, <2>1, <2>2, ParamAssumption DEF IInv, TypeOK, DiscardsBounded
    <2> QED
      BY <1>6, <1>7, <2>3, <2>4, <2>5 DEF IInv
  <1> QED
    BY <1>8, <1>9

\* A connect at most sets the number of the last scan back.
LEMMA ConnectKeepsIInv ==
  ASSUME IInv, Connect
  PROVE  IInv'
  <1>1. /\ connects' = connects + 1
        /\ currentSeqNr' = IF ResetOnConnect THEN 0 ELSE currentSeqNr
        /\ UNCHANGED <<senderVars, net, list, seqFailureCount, counterSet, last, grabbed,
                       reboots, overrun>>
    BY DEF Connect
  <1>2. TypeOK' /\ SentOnce' /\ NetFromSent' /\ CounterInv'
    BY <1>1 DEF IInv, TypeOK, SentOnce, NetFromSent, CounterInv, senderVars
  <1>3. ListOrigin' /\ LastOrigin'
    BY <1>1 DEF IInv, ListOrigin, LastOrigin, Origin, senderVars
  <1> QED
    BY <1>1, <1>2, <1>3 DEF IInv, StoreBounded, DiscardsBounded, InBounds, senderVars

\* A restarted receiver knows nothing, and its counter is unset again.
LEMMA ReceiverRestartKeepsIInv ==
  ASSUME IInv, ReceiverRestart
  PROVE  IInv'
  <1>1. /\ reboots' = reboots + 1 /\ DOMAIN list' = {} /\ currentSeqNr' = 0
        /\ seqFailureCount' \in Int /\ counterSet' = FALSE /\ last' = NoFrame /\ grabbed' = {}
        /\ UNCHANGED <<senderVars, net, connects, overrun>>
    BY ParamAssumption DEF ReceiverRestart
  <1>2. IsFiniteSet(DOMAIN list') /\ Cardinality(DOMAIN list') = 0
    BY <1>1, FS_EmptySet
  <1>3. TypeOK'
    <2>1. /\ session' \in Nat \ {0} /\ seqNr' \in Nat /\ connects' \in Nat
          /\ reboots' \in Nat /\ currentSeqNr' \in Nat /\ overrun' \in BOOLEAN
      BY <1>1 DEF IInv, TypeOK, senderVars
    <2>3. counterSet' \in BOOLEAN
      BY <1>1
    <2>2. /\ sent' \subseteq [session : Nat, seqNr : Nat, total : Nat]
          /\ net' \subseteq [session : Nat, seqNr : Nat, total : Nat, packetId : Nat]
      BY <1>1 DEF IInv, TypeOK, senderVars
    <2> QED
      BY <1>1, <1>2, <2>1, <2>2, <2>3 DEF TypeOK
  <1>6. SentOnce' /\ NetFromSent'
    BY <1>1 DEF IInv, SentOnce, NetFromSent, senderVars
  <1>4. ListOrigin' /\ LastOrigin' /\ CounterInv' /\ DiscardsBounded'
    BY <1>1 DEF ListOrigin, LastOrigin, CounterInv, DiscardsBounded
  <1>5. StoreBounded' /\ InBounds'
    BY <1>1, <1>2, ParamAssumption DEF IInv, StoreBounded, InBounds, senderVars
  <1> QED
    BY <1>3, <1>4, <1>5, <1>6 DEF IInv

\* The invariant of the link: what is in flight, stored and returned goes back
\* to scans that were sent, and the counters mean what the code takes them for.
THEOREM Invariance == Spec => []IInv
  <1>1. Init => IInv
    BY InitIInv
  <1>2. IInv /\ [Next]_vars => IInv'
    <2> SUFFICES ASSUME IInv, [Next]_vars PROVE IInv'
      OBVIOUS
    <2>1. ASSUME NEW total \in Totals, SendScan(total) PROVE IInv'
      BY <2>1, SendKeepsIInv
    <2>2. CASE SenderRestart
      BY <2>2, RestartKeepsIInv
    <2>3. ASSUME NEW d \in net, Lose(d) PROVE IInv'
      BY <2>3, LoseKeepsIInv
    <2>4. ASSUME NEW d \in net, Receive(d) PROVE IInv'
      BY <2>4, ReceiveKeepsIInv
    <2>5. CASE Grab
      BY <2>5, GrabKeepsIInv
    <2>6. CASE Connect
      BY <2>6, ConnectKeepsIInv
    <2>7. CASE ReceiverRestart
      BY <2>7, ReceiverRestartKeepsIInv
    <2>8. CASE UNCHANGED vars
      BY <2>8
      DEF IInv, vars, senderVars, receiverVars, TypeOK, NetFromSent, SentOnce, ListOrigin,
          LastOrigin, Origin, CounterInv, StoreBounded, DiscardsBounded, InBounds
    <2> QED
      BY <2>1, <2>2, <2>3, <2>4, <2>5, <2>6, <2>7, <2>8 DEF Next
  <1> QED
    BY <1>1, <1>2, PTL DEF Spec

-----------------------------------------------------------------------------
(* What follows from the invariant. *)

\* The variables keep their types.
THEOREM TypeCorrect == Spec => []TypeOK
  BY Invariance, PTL DEF IInv

\* The store of partial scans is bounded: getScanData erases its oldest entry.
THEOREM StoreStaysBounded == Spec => []StoreBounded
  BY Invariance, PTL DEF IInv

\* A sender that counts from 0 again is heard after FailureLimit scans.
THEOREM DiscardsStayBounded == Spec => []DiscardsBounded
  BY Invariance, PTL DEF IInv

\* No datagram of the first incarnation of the sender is written past an entry.
THEOREM WritesInBounds == Spec => []InBounds
  BY Invariance, PTL DEF IInv

\* The counter the constructor leaves unset is assigned before it is read.
THEOREM CounterNeverReadUnset == Spec => []CounterReadAfterSet
  <1>1. IInv => CounterReadAfterSet
    BY DEF IInv, TypeOK, CounterInv, CounterReadAfterSet, Stale, Complete
  <1> QED
    BY <1>1, Invariance, PTL

\* Scans with different numbers are never mixed.
THEOREM NumbersNeverMixed == Spec => []OneNumber
  <1>1. IInv => OneNumber
    BY DEF IInv, TypeOK, LastOrigin, Origin, OneNumber
  <1> QED
    BY <1>1, Invariance, PTL

\* What the receiver holds is a scan of its only sender, whole.
LastWhole ==
  /\ last = [seqNr |-> last.seqNr, total |-> last.total,
             nodes |-> [p \in Packets(last.total) |-> <<1, last.seqNr>>]]
  /\ [session |-> 1, seqNr |-> last.seqNr, total |-> last.total] \in sent

\* The invariant says so as long as there is one incarnation of the sender.
LEMMA LastIsWhole == IInv /\ session = 1 /\ last # NoFrame => LastWhole
  <1> SUFFICES ASSUME IInv, session = 1, last # NoFrame
               PROVE  LastWhole
    OBVIOUS
  <1>1. last \in [seqNr : Nat, total : Nat, nodes : [Packets(last.total) -> Nat \X Nat]]
    BY DEF IInv, TypeOK
  <1>2. \A f \in sent : f.session = 1
    BY DEF IInv, SentOnce
  <1>3. \A p \in Packets(last.total) : last.nodes[p] = <<1, last.seqNr>>
    BY <1>2 DEF IInv, LastOrigin, Origin
  <1>4. PICK g \in sent : g.seqNr = last.seqNr /\ g.total = last.total
    BY DEF IInv, LastOrigin, Origin
  <1>5. g = [session |-> 1, seqNr |-> last.seqNr, total |-> last.total]
    BY <1>2, <1>4 DEF IInv, TypeOK
  <1>6. last.nodes = [p \in Packets(last.total) |-> <<1, last.seqNr>>]
    BY <1>1, <1>3
  <1> QED
    BY <1>1, <1>4, <1>5, <1>6 DEF LastWhole

\* Loss, reordering and repetition never damage a scan: as long as the sender
\* runs, what is grabbed is what was sent.
THEOREM ScansStayIntact == Spec => []FrameIntact
  <1>1. IInv => FrameIntact
    BY LastIsWhole DEF FrameIntact, LastWhole
  <1> QED
    BY <1>1, Invariance, PTL

\* While the sender does not restart the link implements a stream of whole
\* scans: sending is publishing, an accepting grab shows a published scan.
THEOREM LinkIsStream == Spec /\ [](session = 1) => StreamSpec
  <1>1. Init => Stream!Init
    BY DEF Init, Stream!Init
  <1>2. IInv' /\ (session = 1)' /\ (last # NoFrame)' => LastWhole'
    BY LastIsWhole, PTL
  <1>3. /\ IInv /\ IInv' /\ session = 1 /\ (session = 1)' /\ [Next]_vars
        => [Stream!Next]_<<sent, last>>
    <2> SUFFICES ASSUME IInv, IInv', session = 1, (session = 1)', [Next]_vars,
                        ~(UNCHANGED <<sent, last>>)
                 PROVE  Stream!Next
      OBVIOUS
    <2>1. ASSUME NEW total \in Totals, SendScan(total)
          PROVE  Stream!Publish
      <3> DEFINE scan == [session |-> session, seqNr |-> seqNr + 1, total |-> total]
      <3>1. sent' = sent \cup {scan} /\ last' = last
        BY <2>1 DEF SendScan, receiverVars
      <3>2. scan \in [session : {1}, seqNr : Nat, total : Nat]
        BY ParamAssumption DEF IInv, TypeOK
      <3>3. \A earlier \in sent : earlier.seqNr < scan.seqNr
        BY DEF IInv, TypeOK, SentOnce
      <3> QED
        BY <3>1, <3>2, <3>3 DEF Stream!Publish
    <2>2. CASE Grab
      <3>1. sent' = sent
        BY <2>2 DEF Grab, senderVars
      <3>2. CASE last' = NoFrame
        BY <3>1, <3>2 DEF Stream!Next, Stream!Blank
      <3>3. CASE last' # NoFrame
        <4>1. LastWhole'
          BY <1>2, <3>3
        <4>2. last' = Stream!Whole([session |-> 1, seqNr |-> last'.seqNr,
                                    total |-> last'.total])
          BY <4>1 DEF LastWhole, Stream!Whole
        <4> QED
          BY <3>1, <4>1, <4>2 DEF LastWhole, Stream!Next, Stream!Show
      <3> QED
        BY <3>2, <3>3
    <2>3. CASE ReceiverRestart
      BY <2>3 DEF ReceiverRestart, senderVars, Stream!Next, Stream!Blank
    <2> QED
      BY <2>1, <2>2, <2>3
      DEF Next, vars, SenderRestart, Lose, Receive, Connect, senderVars, receiverVars, Stream!Next
  <1> QED
    BY <1>1, <1>3, Invariance, PTL DEF Spec, StreamSpec, Stream!Spec

-----------------------------------------------------------------------------
(* A scan is grabbed once. *)

\* While the sender does not restart and the network repeats nothing: what was
\* stored is not in flight any more, and what was grabbed is in neither place.
ArrivedOnce ==
  session = 1 /\ ~Duplication =>
    /\ \A s \in DOMAIN list : \A p \in Packets(list[s].total) :
         list[s].nodes[p] # Missing => \A d \in net : ~(d.seqNr = s /\ d.packetId = p)
    /\ \A n \in grabbed : /\ n \notin DOMAIN list
                          /\ \A d \in net : d.seqNr # n
                          /\ n <= seqNr

\* With one incarnation of the sender a number means one scan.
LEMMA OneScanPerNumber ==
  ASSUME IInv, session = 1
  PROVE  /\ \A f, g \in sent : f.seqNr = g.seqNr => f = g
         /\ \A f \in sent : f.session = 1 /\ f.seqNr <= seqNr
         /\ \A d, e \in net : d.seqNr = e.seqNr /\ d.packetId = e.packetId => d = e
         /\ \A d \in net : d.seqNr \in Nat /\ d.seqNr <= seqNr
         /\ \A d \in net : \A s \in DOMAIN list :
              d.seqNr = s => d.total = list[s].total /\ d.packetId \in Packets(list[s].total)
         /\ \A s \in DOMAIN list : s <= seqNr
  <1> DEFINE ScanOf(d) == [session |-> d.session, seqNr |-> d.seqNr, total |-> d.total]
  <1>1. /\ \A f \in sent : f.session = 1 /\ f.seqNr <= seqNr
        /\ \A f, g \in sent : f.seqNr = g.seqNr => f = g
    BY DEF IInv, SentOnce
  <1>2. \A d \in net : /\ d \in [session : Nat, seqNr : Nat, total : Nat, packetId : Nat]
                       /\ ScanOf(d) \in sent /\ d.packetId \in Packets(d.total)
    BY DEF IInv, TypeOK, NetFromSent
  <1>3. ASSUME NEW d \in net, NEW e \in net, d.seqNr = e.seqNr, d.packetId = e.packetId
        PROVE  d = e
    <2>1. ScanOf(d) = ScanOf(e)
      BY <1>1, <1>2, <1>3
    <2>2. d.session = e.session /\ d.total = e.total
      BY <2>1
    <2>3. /\ d \in [session : Nat, seqNr : Nat, total : Nat, packetId : Nat]
          /\ e \in [session : Nat, seqNr : Nat, total : Nat, packetId : Nat]
      BY <1>2
    <2> QED
      BY <1>3, <2>2, <2>3
  <1>4. ASSUME NEW d \in net
        PROVE  d.seqNr \in Nat /\ d.seqNr <= seqNr
    <2>1. ScanOf(d).seqNr <= seqNr
      BY <1>1, <1>2
    <2> QED
      BY <1>2, <2>1
  <1>5. ASSUME NEW s \in DOMAIN list
        PROVE  \E g \in sent : g.seqNr = s /\ g.total = list[s].total
    BY DEF IInv, ListOrigin, Origin
  <1>6. ASSUME NEW d \in net, NEW s \in DOMAIN list, d.seqNr = s
        PROVE  d.total = list[s].total /\ d.packetId \in Packets(list[s].total)
    <2>1. PICK g \in sent : g.seqNr = s /\ g.total = list[s].total
      BY <1>5
    <2>2. ScanOf(d) = g
      BY <1>1, <1>2, <1>6, <2>1
    <2>3. d.total = list[s].total
      BY <2>1, <2>2
    <2> QED
      BY <1>2, <2>3
  <1>7. \A s \in DOMAIN list : s <= seqNr
    BY <1>1, <1>5
  <1> QED
    BY <1>1, <1>3, <1>4, <1>6, <1>7

\* Storing a datagram takes it from the network.
LEMMA ReceiveKeepsArrivedOnce ==
  ASSUME IInv, ArrivedOnce, NEW d \in net, Receive(d)
  PROVE  ArrivedOnce'
  <1> SUFFICES ASSUME session' = 1, ~Duplication PROVE ArrivedOnce'
    BY DEF ArrivedOnce
  <1>1. /\ session = 1 /\ seqNr' = seqNr /\ sent' = sent /\ grabbed' = grabbed
        /\ net' = net \ {d}
    BY DEF Receive, senderVars
  <1>2. CASE d.seqNr \in DOMAIN list /\ Misfit(list[d.seqNr], d)
    <2>1. list' = list
      BY <1>2 DEF Receive
    <2> QED
      BY <1>1, <2>1 DEF ArrivedOnce
  <1>3. CASE ~(d.seqNr \in DOMAIN list /\ Misfit(list[d.seqNr], d))
    <2> DEFINE old == IF d.seqNr \in DOMAIN list THEN list[d.seqNr] ELSE EmptyEntry(d.total)
    <2>1. list' = Store(list, d)
      BY <1>3 DEF Receive
    <2>2. d.seqNr \in Nat
      BY DEF IInv, TypeOK
    <2>3. /\ DOMAIN list' \subseteq DOMAIN list \cup {d.seqNr}
          /\ \A s \in DOMAIN list' : s # d.seqNr => list'[s] = list[s]
          /\ list'[d.seqNr] = Fill(old, d)
      BY <2>1, <2>2, StoreEntries DEF IInv, TypeOK, StoreBounded
    <2>4. /\ list'[d.seqNr].total = old.total
          /\ \A p \in Packets(old.total) : p # d.packetId =>
               list'[d.seqNr].nodes[p] = old.nodes[p]
      <3>1. /\ old = [total |-> old.total, nodes |-> old.nodes]
            /\ DOMAIN old.nodes = Packets(old.total)
        BY DEF IInv, TypeOK, EmptyEntry
      <3> HIDE DEF old
      <3> QED
        BY <2>3, <3>1 DEF Fill
    <2>5. ASSUME NEW p \in Packets(old.total), old.nodes[p] # Missing
          PROVE  \A e \in net : ~(e.seqNr = d.seqNr /\ e.packetId = p)
      <3>1. CASE d.seqNr \in DOMAIN list
        BY <1>1, <2>5, <3>1 DEF ArrivedOnce
      <3>2. CASE d.seqNr \notin DOMAIN list
        BY <2>5, <3>2 DEF EmptyEntry
      <3> QED
        BY <3>1, <3>2
    <2>6. \A e \in net' : ~(e.seqNr = d.seqNr /\ e.packetId = d.packetId)
      BY <1>1, OneScanPerNumber
    <2> HIDE DEF old
    <2>7. ASSUME NEW s \in DOMAIN list', NEW p \in Packets(list'[s].total),
                 list'[s].nodes[p] # Missing, NEW e \in net'
          PROVE  ~(e.seqNr = s /\ e.packetId = p)
      <3>1. CASE s # d.seqNr
        <4>1. s \in DOMAIN list /\ list'[s] = list[s] /\ e \in net
          BY <1>1, <2>3, <3>1
        <4> QED
          BY <1>1, <2>7, <4>1 DEF ArrivedOnce
      <3>2. CASE s = d.seqNr
        BY <1>1, <2>4, <2>5, <2>6, <2>7, <3>2
      <3> QED
        BY <3>1, <3>2
    <2>8. ASSUME NEW n \in grabbed'
          PROVE  n \notin DOMAIN list' /\ (\A e \in net' : e.seqNr # n) /\ n <= seqNr'
      BY <1>1, <2>3 DEF ArrivedOnce
    <2> QED
      BY <2>7, <2>8 DEF ArrivedOnce
  <1> QED
    BY <1>2, <1>3

\* Nothing of a complete scan is in flight when it is grabbed.
LEMMA GrabKeepsArrivedOnce ==
  ASSUME IInv, ArrivedOnce, Grab
  PROVE  ArrivedOnce'
  <1> SUFFICES ASSUME session' = 1, ~Duplication PROVE ArrivedOnce'
    BY DEF ArrivedOnce
  <1>1. /\ list' = [s \in DOMAIN list \ Complete(list) |-> list[s]]
        /\ session = 1 /\ seqNr' = seqNr /\ net' = net
    BY DEF Grab, Remaining, senderVars
  <1>2. grabbed' \subseteq grabbed \cup Complete(list)
    <2>1. Max(Complete(list)) \in Complete(list)
      <3>1. Complete(list) \in SUBSET Nat /\ IsFiniteSet(Complete(list))
        BY FS_Subset DEF Complete, IInv, TypeOK
      <3> QED
        BY <3>1, MaxExists DEF Grab
    <2> QED
      BY <2>1 DEF Grab, Accept, Discard
  <1>3. ASSUME NEW n \in Complete(list)
        PROVE  (\A d \in net : d.seqNr # n) /\ n <= seqNr
    <2>1. n \in DOMAIN list /\ \A p \in Packets(list[n].total) : list[n].nodes[p] # Missing
      BY <1>3 DEF Complete
    <2> QED
      BY <1>1, <2>1, OneScanPerNumber DEF ArrivedOnce
  <1> QED
    BY <1>1, <1>2, <1>3 DEF ArrivedOnce

\* A scan that is sent has a number nothing stored or grabbed has.
LEMMA SendKeepsArrivedOnce ==
  ASSUME IInv, ArrivedOnce, NEW total \in Totals, SendScan(total)
  PROVE  ArrivedOnce'
  <1> SUFFICES ASSUME session' = 1, ~Duplication PROVE ArrivedOnce'
    BY DEF ArrivedOnce
  <1> DEFINE scan == [session |-> session, seqNr |-> seqNr + 1, total |-> total]
  <1>1. /\ session = 1 /\ seqNr' = seqNr + 1 /\ list' = list /\ grabbed' = grabbed
        /\ net' = net \cup Datagrams(scan)
    BY DEF SendScan, receiverVars
  <1>2. \A d \in Datagrams(scan) : d.seqNr = seqNr + 1
    BY DEF Datagrams
  <1>3. seqNr \in Nat /\ grabbed \subseteq Nat /\ DOMAIN list \subseteq Nat
    BY DEF IInv, TypeOK
  <1>4. \A s \in DOMAIN list : s <= seqNr
    BY <1>1, OneScanPerNumber
  <1> HIDE DEF scan
  <1> QED
    BY <1>1, <1>2, <1>3, <1>4 DEF ArrivedOnce

\* On a link that repeats nothing no scan of a sender that runs is grabbed twice.
THEOREM ScansGrabbedOnce == ~Duplication /\ Spec => GrabbedOnce
  <1>1. Init => ArrivedOnce
    BY DEF Init, ArrivedOnce
  <1>2. IInv /\ ArrivedOnce /\ [Next]_vars => ArrivedOnce'
    <2> SUFFICES ASSUME IInv, ArrivedOnce, [Next]_vars PROVE ArrivedOnce'
      OBVIOUS
    <2>1. ASSUME NEW total \in Totals, SendScan(total) PROVE ArrivedOnce'
      BY <2>1, SendKeepsArrivedOnce
    <2>2. CASE SenderRestart
      <3>1. session' # 1
        BY <2>2 DEF SenderRestart, IInv, TypeOK
      <3> QED
        BY <3>1 DEF ArrivedOnce
    <2>3. ASSUME NEW d \in net, Receive(d) PROVE ArrivedOnce'
      BY <2>3, ReceiveKeepsArrivedOnce
    <2>4. CASE Grab
      BY <2>4, GrabKeepsArrivedOnce
    <2>5. CASE ReceiverRestart
      <3>1. DOMAIN list' = {} /\ grabbed' = {}
        BY <2>5 DEF ReceiverRestart
      <3> QED
        BY <3>1 DEF ArrivedOnce
    <2>6. CASE (\E d \in net : Lose(d)) \/ Connect \/ UNCHANGED vars
      <3>1. net' \subseteq net /\ UNCHANGED <<session, seqNr, list, grabbed>>
        BY <2>6 DEF Lose, Connect, vars, senderVars, receiverVars
      <3> QED
        BY <3>1 DEF ArrivedOnce
    <2> QED
      BY <2>1, <2>2, <2>3, <2>4, <2>5, <2>6 DEF Next
  <1>3. ASSUME IInv, ArrivedOnce, ~Duplication, Grab, seqFailureCount' = 0, session = 1
        PROVE  currentSeqNr' \notin grabbed
    <2> DEFINE n == Cardinality(Stale(list))
    <2>1. /\ Complete(list) \in SUBSET DOMAIN list /\ Complete(list) \in SUBSET Nat
          /\ IsFiniteSet(Complete(list)) /\ Complete(list) # {}
      BY <1>3, FS_Subset DEF Complete, IInv, TypeOK, Grab
    <2>2. CASE Stale(list) # Complete(list) \/ StartedOver(n)
      <3>1. currentSeqNr' = Max(Complete(list))
        BY <1>3, <2>2 DEF Grab, Accept
      <3>2. Max(Complete(list)) \in DOMAIN list
        BY <2>1, MaxExists
      <3> QED
        BY <1>3, <3>1, <3>2 DEF ArrivedOnce
    <2>3. CASE ~(Stale(list) # Complete(list) \/ StartedOver(n))
      <3>1. seqFailureCount + n = 0
        BY <1>3, <2>3 DEF Grab, Discard
      <3>2. IsFiniteSet(Stale(list)) /\ Stale(list) # {}
        BY <2>1, <2>3
      <3>3. n \in Nat /\ n # 0
        BY <3>2, FS_CardinalityType, FS_EmptySet
      <3>4. counterSet
        BY <1>3, <3>2 DEF IInv, TypeOK, CounterInv, Stale, Complete
      <3>5. seqFailureCount \in Int /\ seqFailureCount >= 0
        BY <1>3, <3>4 DEF IInv, TypeOK, DiscardsBounded
      <3> HIDE DEF n
      <3> QED
        BY <3>1, <3>3, <3>5
    <2> QED
      BY <2>2, <2>3
  <1>4. CASE ~Duplication
    <2>1. IInv /\ ArrivedOnce /\ [Next]_vars
            => [Grab /\ seqFailureCount' = 0 /\ session = 1 => currentSeqNr' \notin grabbed]_vars
      BY <1>3, <1>4
    <2> QED
      BY <1>1, <1>2, <2>1, Invariance, PTL DEF Spec, GrabbedOnce
  <1>5. CASE Duplication
    BY <1>5
  <1> QED
    BY <1>4, <1>5
=============================================================================
