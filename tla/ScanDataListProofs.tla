------------------------- MODULE ScanDataListProofs -------------------------
(***************************************************************************)
(* The vector of partial scans implements the store of ScanTransport, for  *)
(* every value of the constants: the searches from the back, the insertion *)
(* and the loop that erases while it walks.  What is proved of the link    *)
(* therefore holds of the link with the vector in it.                      *)
(***************************************************************************)
EXTENDS ScanDataList, Recursion, FiniteSetTheorems, SequenceTheorems, TLAPS

LinkProofs == INSTANCE ScanTransportProofs WITH list <- Entries(vector)

Packets(total) == Link!Packets(total)

\* The entries a vector may have.
Entry ==
  {e \in [seqNr : Nat, total : Nat, nodes : UNION {[Packets(t) -> Nat \X Nat] : t \in Nat}] :
     DOMAIN e.nodes = Packets(e.total)}

\* Strictly ascending sequence numbers.
AscendingIn(v) == \A i, j \in 1 .. Len(v) : i < j => v[i].seqNr < v[j].seqNr

Sorted(v) == v \in Seq(Entry) /\ AscendingIn(v)

\* The function from sequence numbers a vector stands for.
Represents(v, l) ==
  /\ l = [s \in DOMAIN l |-> l[s]]
  /\ DOMAIN l = {v[i].seqNr : i \in 1 .. Len(v)}
  /\ \A i \in 1 .. Len(v) : l[v[i].seqNr] = [total |-> v[i].total, nodes |-> v[i].nodes]

-----------------------------------------------------------------------------
(* Sequences. *)

\* What is left when an element is removed.
LEMMA RemoveAtElements ==
  ASSUME NEW S, NEW s \in Seq(S), NEW i \in 1 .. Len(s)
  PROVE  /\ RemoveAt(s, i) \in Seq(S)
         /\ Len(RemoveAt(s, i)) = Len(s) - 1
         /\ \A j \in 1 .. Len(s) - 1 : RemoveAt(s, i)[j] = IF j < i THEN s[j] ELSE s[j + 1]
  <1> DEFINE a == SubSeq(s, 1, i - 1)
             b == SubSeq(s, i + 1, Len(s))
  <1>1. Len(s) \in Nat /\ \A j \in 1 .. Len(s) : s[j] \in S
    BY LenProperties, ElementOfSeq
  <1>2. /\ a \in Seq(S) /\ Len(a) = i - 1
        /\ \A j \in 1 .. i - 1 : a[j] = s[j]
    <2>1. \A j \in 1 .. i - 1 : s[j] \in S
      BY <1>1
    <2>2. /\ a \in Seq(S) /\ Len(a) = IF 1 <= i - 1 THEN (i - 1) - 1 + 1 ELSE 0
          /\ \A j \in 1 .. (i - 1) - 1 + 1 : a[j] = s[1 + j - 1]
      BY <1>1, <2>1, SubSeqProperties
    <2> QED
      BY <1>1, <2>2
  <1>3. /\ b \in Seq(S) /\ Len(b) = Len(s) - i
        /\ \A j \in 1 .. Len(s) - i : b[j] = s[i + j]
    <2>1. \A j \in i + 1 .. Len(s) : s[j] \in S
      BY <1>1
    <2>2. /\ b \in Seq(S) /\ Len(b) = IF i + 1 <= Len(s) THEN Len(s) - (i + 1) + 1 ELSE 0
          /\ \A j \in 1 .. Len(s) - (i + 1) + 1 : b[j] = s[(i + 1) + j - 1]
      BY <1>1, <2>1, SubSeqProperties
    <2> QED
      BY <1>1, <2>2
  <1>4. RemoveAt(s, i) = a \o b
    BY DEF RemoveAt
  <1> HIDE DEF a, b
  <1>5. /\ a \o b \in Seq(S) /\ Len(a \o b) = Len(a) + Len(b)
        /\ \A j \in 1 .. Len(a) + Len(b) :
             (a \o b)[j] = IF j <= Len(a) THEN a[j] ELSE b[j - Len(a)]
    BY <1>2, <1>3, ConcatProperties
  <1>6. ASSUME NEW j \in 1 .. Len(s) - 1
        PROVE  (a \o b)[j] = IF j < i THEN s[j] ELSE s[j + 1]
    <2>1. CASE j < i
      BY <1>1, <1>2, <1>3, <1>5, <2>1
    <2>2. CASE ~(j < i)
      <3>1. j - (i - 1) \in 1 .. Len(s) - i /\ i + (j - (i - 1)) = j + 1
        BY <1>1, <2>2
      <3>2. b[j - (i - 1)] = s[j + 1]
        BY <1>3, <3>1
      <3> QED
        BY <1>1, <1>2, <1>3, <1>5, <2>2, <3>2
    <2> QED
      BY <2>1, <2>2
  <1> QED
    BY <1>1, <1>2, <1>3, <1>4, <1>5, <1>6

\* An element inserted moves those from its place on.
LEMMA InsertAtElements ==
  ASSUME NEW S, NEW s \in Seq(S), NEW i \in 1 .. Len(s) + 1, NEW e \in S
  PROVE  /\ InsertAt(s, i, e) \in Seq(S)
         /\ Len(InsertAt(s, i, e)) = Len(s) + 1
         /\ \A j \in 1 .. Len(s) + 1 :
              InsertAt(s, i, e)[j] = IF j < i THEN s[j] ELSE IF j = i THEN e ELSE s[j - 1]
  <1> DEFINE a == SubSeq(s, 1, i - 1)
             b == SubSeq(s, i, Len(s))
             c == a \o <<e>>
  <1>1. Len(s) \in Nat /\ \A j \in 1 .. Len(s) : s[j] \in S
    BY LenProperties, ElementOfSeq
  <1>2. /\ a \in Seq(S) /\ Len(a) = i - 1
        /\ \A j \in 1 .. i - 1 : a[j] = s[j]
    <2>1. \A j \in 1 .. i - 1 : s[j] \in S
      BY <1>1
    <2>2. /\ a \in Seq(S) /\ Len(a) = IF 1 <= i - 1 THEN (i - 1) - 1 + 1 ELSE 0
          /\ \A j \in 1 .. (i - 1) - 1 + 1 : a[j] = s[1 + j - 1]
      BY <1>1, <2>1, SubSeqProperties
    <2> QED
      BY <1>1, <2>2
  <1>3. /\ b \in Seq(S) /\ Len(b) = Len(s) - i + 1
        /\ \A j \in 1 .. Len(s) - i + 1 : b[j] = s[i + j - 1]
    <2>1. \A j \in i .. Len(s) : s[j] \in S
      BY <1>1
    <2>2. /\ b \in Seq(S) /\ Len(b) = IF i <= Len(s) THEN Len(s) - i + 1 ELSE 0
          /\ \A j \in 1 .. Len(s) - i + 1 : b[j] = s[i + j - 1]
      BY <1>1, <2>1, SubSeqProperties
    <2> QED
      BY <1>1, <2>2
  <1>4. InsertAt(s, i, e) = c \o b
    BY DEF InsertAt
  <1>5. <<e>> \in Seq(S) /\ Len(<<e>>) = 1 /\ <<e>>[1] = e
    OBVIOUS
  <1> HIDE DEF a, b
  <1>6. /\ c \in Seq(S) /\ Len(c) = i
        /\ \A j \in 1 .. i : c[j] = IF j < i THEN s[j] ELSE e
    <2>1. /\ a \o <<e>> \in Seq(S) /\ Len(a \o <<e>>) = Len(a) + Len(<<e>>)
          /\ \A j \in 1 .. Len(a) + Len(<<e>>) :
               (a \o <<e>>)[j] = IF j <= Len(a) THEN a[j] ELSE <<e>>[j - Len(a)]
      BY <1>2, <1>5, ConcatProperties
    <2>2. ASSUME NEW j \in 1 .. i
          PROVE  (a \o <<e>>)[j] = IF j < i THEN s[j] ELSE e
      <3>1. CASE j < i
        BY <1>1, <1>2, <1>5, <2>1, <3>1
      <3>2. CASE ~(j < i)
        <4>1. j = i /\ j - Len(a) = 1
          BY <1>1, <1>2, <3>2
        <4> QED
          BY <1>1, <1>2, <1>5, <2>1, <4>1
      <3> QED
        BY <3>1, <3>2
    <2> QED
      BY <1>1, <1>2, <1>5, <2>1, <2>2
  <1> HIDE DEF c
  <1>7. /\ c \o b \in Seq(S) /\ Len(c \o b) = Len(c) + Len(b)
        /\ \A j \in 1 .. Len(c) + Len(b) :
             (c \o b)[j] = IF j <= Len(c) THEN c[j] ELSE b[j - Len(c)]
    BY <1>3, <1>6, ConcatProperties
  <1>8. ASSUME NEW j \in 1 .. Len(s) + 1
        PROVE  (c \o b)[j] = IF j < i THEN s[j] ELSE IF j = i THEN e ELSE s[j - 1]
    <2>1. CASE j <= i
      BY <1>1, <1>3, <1>6, <1>7, <2>1
    <2>2. CASE ~(j <= i)
      <3>1. j - i \in 1 .. Len(s) - i + 1 /\ i + (j - i) - 1 = j - 1
        BY <1>1, <2>2
      <3>2. b[j - i] = s[j - 1]
        BY <1>3, <3>1
      <3> QED
        BY <1>1, <1>3, <1>6, <1>7, <2>2, <3>2
    <2> QED
      BY <2>1, <2>2
  <1> QED
    BY <1>1, <1>3, <1>4, <1>6, <1>7, <1>8

-----------------------------------------------------------------------------
(* The vector and the function it stands for. *)

\* The fields of an entry.
LEMMA EntryFields ==
  ASSUME NEW v \in Seq(Entry), NEW i \in 1 .. Len(v)
  PROVE  /\ v[i] \in Entry
         /\ v[i] = [seqNr |-> v[i].seqNr, total |-> v[i].total, nodes |-> v[i].nodes]
         /\ v[i].seqNr \in Nat /\ v[i].total \in Nat
         /\ v[i].nodes \in [Packets(v[i].total) -> Nat \X Nat]
  <1>1. v[i] \in Entry
    BY ElementOfSeq
  <1>2. /\ v[i] \in [seqNr : Nat, total : Nat,
                     nodes : UNION {[Packets(t) -> Nat \X Nat] : t \in Nat}]
        /\ DOMAIN v[i].nodes = Packets(v[i].total)
    BY <1>1 DEF Entry
  <1>3. PICK t \in Nat : v[i].nodes \in [Packets(t) -> Nat \X Nat]
    BY <1>2
  <1>4. v[i].nodes \in [Packets(v[i].total) -> Nat \X Nat]
    BY <1>2, <1>3
  <1> QED
    BY <1>1, <1>2, <1>4

\* Numbers of entries are found at one place only.
LEMMA NumbersDiffer ==
  ASSUME NEW v, Sorted(v), NEW i \in 1 .. Len(v), NEW j \in 1 .. Len(v),
         v[i].seqNr = v[j].seqNr
  PROVE  i = j
  <1>1. v[i].seqNr \in Nat /\ v[j].seqNr \in Nat /\ Len(v) \in Nat
    BY EntryFields, LenProperties DEF Sorted
  <1>2. ~(i < j) /\ ~(j < i)
    BY <1>1 DEF Sorted, AscendingIn
  <1> QED
    BY <1>1, <1>2

LEMMA EntriesRepresented ==
  ASSUME NEW v, Sorted(v)
  PROVE  Represents(v, Entries(v))
  <1>1. DOMAIN v = 1 .. Len(v)
    BY LenProperties DEF Sorted
  <1> DEFINE At(s) == CHOOSE i \in DOMAIN v : v[i].seqNr = s
             D     == {v[i].seqNr : i \in DOMAIN v}
  <1>2. Entries(v) = [s \in D |-> [total |-> v[At(s)].total, nodes |-> v[At(s)].nodes]]
    BY DEF Entries
  <1>3. ASSUME NEW i \in 1 .. Len(v)
        PROVE  At(v[i].seqNr) = i
    <2>1. At(v[i].seqNr) \in DOMAIN v /\ v[At(v[i].seqNr)].seqNr = v[i].seqNr
      BY <1>1
    <2> HIDE DEF At
    <2> QED
      BY <1>1, <2>1, NumbersDiffer
  <1> HIDE DEF At
  <1>4. ASSUME NEW i \in 1 .. Len(v)
        PROVE  Entries(v)[v[i].seqNr] = [total |-> v[i].total, nodes |-> v[i].nodes]
    <2>1. v[i].seqNr \in D
      BY <1>1
    <2> HIDE DEF D
    <2> QED
      BY <1>2, <1>3, <2>1
  <1>5. DOMAIN Entries(v) = {v[i].seqNr : i \in 1 .. Len(v)}
    BY <1>1, <1>2
  <1>6. Entries(v) = [s \in DOMAIN Entries(v) |-> Entries(v)[s]]
    BY <1>2
  <1> QED
    BY <1>4, <1>5, <1>6 DEF Represents

\* A vector stands for one function.
LEMMA RepresentedOnce ==
  ASSUME NEW v, NEW l, NEW m, Represents(v, l), Represents(v, m)
  PROVE  l = m
  <1>1. DOMAIN l = DOMAIN m
    BY DEF Represents
  <1>2. ASSUME NEW s \in DOMAIN l PROVE l[s] = m[s]
    <2>1. PICK i \in 1 .. Len(v) : s = v[i].seqNr
      BY DEF Represents
    <2> QED
      BY <2>1 DEF Represents
  <1>3. l = [s \in DOMAIN l |-> l[s]] /\ m = [s \in DOMAIN m |-> m[s]]
    BY DEF Represents
  <1> QED
    BY <1>1, <1>2, <1>3

\* The constants are those of a link.
LEMMA LinkConstants == LinkProofs!ParamAssumption
  BY LinkAssumption DEF LinkProofs!ParamAssumption

\* The maximum of a set of numbers up to n.
LEMMA MaxIndex ==
  ASSUME NEW n \in Nat, NEW I, I \subseteq 1 .. n, I # {}
  PROVE  Max(I) \in I /\ \A i \in I : i <= Max(I)
  <1> DEFINE J == {n - i : i \in I}
  <1>1. J \in SUBSET Nat /\ J # {}
    <2>1. \A i \in I : i \in 1 .. n /\ n - i \in Nat
      OBVIOUS
    <2> QED
      BY <2>1
  <1>2. PICK m \in J : \A j \in J : ~(<<j, m>> \in OpToRel(<, Nat))
    <2> HIDE DEF J
    <2> QED
      BY <1>1, NatLessThanWellFounded, WFMin
  <1>3. \A j \in J : ~(j < m)
    <2> HIDE DEF J
    <2>1. \A x, y \in Nat : y < x => <<y, x>> \in OpToRel(<, Nat)
      BY DEF OpToRel
    <2> QED
      BY <1>1, <1>2, <2>1
  <1>4. PICK x \in I : m = n - x
    BY <1>2
  <1>5. \A i \in I : x >= i
    BY <1>3, <1>4
  <1> QED
    BY <1>5 DEF Max

\* The searches from the back.
LEMMA FindFinds ==
  ASSUME NEW v, Sorted(v), NEW s \in Nat
  PROVE  /\ Find(v, s) # 0 => Find(v, s) \in 1 .. Len(v) /\ v[Find(v, s)].seqNr = s
         /\ Find(v, s) = 0 => \A i \in 1 .. Len(v) : v[i].seqNr # s
         /\ FindBelow(v, s) \in 0 .. Len(v)
         /\ \A i \in 1 .. Len(v) : v[i].seqNr < s <=> i <= FindBelow(v, s)
  <1>1. Len(v) \in Nat
    BY LenProperties DEF Sorted
  <1>2. \A i \in 1 .. Len(v) : v[i].seqNr \in Nat
    BY EntryFields DEF Sorted
  <1> DEFINE I == {i \in 1 .. Len(v) : v[i].seqNr = s}
             B == {i \in 1 .. Len(v) : v[i].seqNr < s}
  <1>3. /\ Find(v, s) = IF I # {} THEN Max(I) ELSE 0
        /\ FindBelow(v, s) = IF B # {} THEN Max(B) ELSE 0
    BY DEF Find, FindBelow, SelectLastInSeq
  <1>4. I # {} => Max(I) \in I
    BY <1>1, MaxIndex
  <1>5. B # {} => Max(B) \in B /\ \A i \in B : i <= Max(B)
    BY <1>1, MaxIndex
  <1>6. /\ Find(v, s) # 0 => Find(v, s) \in 1 .. Len(v) /\ v[Find(v, s)].seqNr = s
        /\ Find(v, s) = 0 => \A i \in 1 .. Len(v) : v[i].seqNr # s
    <2>1. CASE I = {}
      BY <1>3, <2>1
    <2>2. CASE I # {}
      <3>1. Find(v, s) \in I
        BY <1>3, <1>4, <2>2
      <3>2. Find(v, s) # 0
        BY <1>1, <3>1
      <3> QED
        BY <3>1, <3>2
    <2> QED
      BY <2>1, <2>2
  <1>7. /\ FindBelow(v, s) \in 0 .. Len(v)
        /\ \A i \in 1 .. Len(v) : v[i].seqNr < s <=> i <= FindBelow(v, s)
    <2>1. CASE B = {}
      <3>1. FindBelow(v, s) = 0 /\ \A i \in 1 .. Len(v) : ~(v[i].seqNr < s)
        BY <1>3, <2>1
      <3> QED
        BY <1>1, <3>1
    <2>2. CASE B # {}
      <3>1. FindBelow(v, s) \in B /\ \A i \in B : i <= FindBelow(v, s)
        BY <1>3, <1>5, <2>2
      <3> HIDE DEF B
      <3>2. /\ FindBelow(v, s) \in 1 .. Len(v) /\ v[FindBelow(v, s)].seqNr < s
            /\ \A i \in 1 .. Len(v) : v[i].seqNr < s => i <= FindBelow(v, s)
        BY <3>1 DEF B
      <3>3. ASSUME NEW i \in 1 .. Len(v), i <= FindBelow(v, s)
            PROVE  v[i].seqNr < s
        <4>1. CASE i = FindBelow(v, s)
          BY <3>2, <4>1
        <4>2. CASE i < FindBelow(v, s)
          <5>1. v[i].seqNr < v[FindBelow(v, s)].seqNr
            BY <3>2, <4>2 DEF Sorted, AscendingIn
          <5> QED
            BY <1>2, <3>2, <5>1
        <4> QED
          BY <1>1, <3>2, <3>3, <4>1, <4>2
      <3> QED
        BY <1>1, <3>2, <3>3
    <2> QED
      BY <2>1, <2>2
  <1> QED
    BY <1>6, <1>7

-----------------------------------------------------------------------------
(* Making room and finding the place of a new entry. *)

\* The link counts as this module does.
LEMMA SameCardinality ==
  ASSUME NEW S
  PROVE  Link!Cardinality(S) = Cardinality(S)
  BY DEF Cardinality, Link!Cardinality

\* A store has as many entries as the vector.
LEMMA EntryCount ==
  ASSUME NEW v, Sorted(v)
  PROVE  IsFiniteSet(DOMAIN Entries(v)) /\ Cardinality(DOMAIN Entries(v)) = Len(v)
  <1> DEFINE f == [i \in 1 .. Len(v) |-> v[i].seqNr]
             D == {v[i].seqNr : i \in 1 .. Len(v)}
  <1>1. Len(v) \in Nat
    BY LenProperties DEF Sorted
  <1>2. DOMAIN Entries(v) = D
    BY EntriesRepresented DEF Represents
  <1>3. f \in [1 .. Len(v) -> D]
    OBVIOUS
  <1>4. \A i, j \in 1 .. Len(v) : f[i] = f[j] => i = j
    BY NumbersDiffer
  <1>5. \A s \in D : \E i \in 1 .. Len(v) : f[i] = s
    OBVIOUS
  <1> HIDE DEF f, D
  <1>6. f \in Bijection(1 .. Len(v), D)
    BY <1>3, <1>4, <1>5 DEF Bijection, Injection, Surjection, IsInjective
  <1>7. IsFiniteSet(1 .. Len(v)) /\ Cardinality(1 .. Len(v)) = Len(v)
    BY <1>1, FS_Interval
  <1> QED
    BY <1>2, <1>6, <1>7, FS_Bijection DEF ExistsBijection

\* Erasing the first entry when the vector is full is erasing the oldest one.
LEMMA RoomEvicts ==
  ASSUME NEW v, Sorted(v)
  PROVE  Sorted(Room(v)) /\ Represents(Room(v), Link!Evict(Entries(v)))
  <1> DEFINE l == Entries(v)
  <1>1. Len(v) \in Nat /\ Capacity \in Nat \ {0}
    BY LenProperties, LinkAssumption DEF Sorted
  <1>2. Represents(v, l) /\ Cardinality(DOMAIN l) = Len(v)
    BY EntriesRepresented, EntryCount
  <1>3. \A i \in 1 .. Len(v) : v[i].seqNr \in Nat
    BY EntryFields DEF Sorted
  <1>4. CASE Len(v) > Capacity
    <2>1. Room(v) = Tail(v) /\ v # <<>>
      BY <1>1, <1>4 DEF Room
    <2>2. /\ Tail(v) \in Seq(Entry) /\ Len(Tail(v)) = Len(v) - 1
          /\ \A i \in 1 .. Len(v) - 1 : Tail(v)[i] = v[i + 1]
      BY <2>1, HeadTailProperties DEF Sorted
    <2>3. Sorted(Tail(v))
      <3>1. ASSUME NEW i \in 1 .. Len(v) - 1, NEW j \in 1 .. Len(v) - 1, i < j
            PROVE  Tail(v)[i].seqNr < Tail(v)[j].seqNr
        <4>1. v[i + 1].seqNr < v[j + 1].seqNr
          BY <1>1, <3>1 DEF Sorted, AscendingIn
        <4> QED
          BY <2>2, <4>1
      <3> QED
        BY <2>2, <3>1 DEF Sorted, AscendingIn
    <2>4. /\ v[1].seqNr \in DOMAIN l
          /\ \A s \in DOMAIN l : v[1].seqNr <= s
      <3>1. \A i \in 1 .. Len(v) : v[1].seqNr <= v[i].seqNr
        <4>1. \A i \in 1 .. Len(v) : 1 < i => v[1].seqNr < v[i].seqNr
          BY <1>1, <1>4 DEF Sorted, AscendingIn
        <4> QED
          BY <1>1, <1>3, <1>4, <4>1
      <3>2. DOMAIN l = {v[i].seqNr : i \in 1 .. Len(v)}
        BY <1>2 DEF Represents
      <3>3. 1 \in 1 .. Len(v)
        BY <1>1, <1>4
      <3> HIDE DEF l
      <3> QED
        BY <3>1, <3>2, <3>3
    <2>5. \A s \in DOMAIN l : s \in Nat
      BY <1>2, <1>3 DEF Represents
    <2>6. Link!Oldest(l) = v[1].seqNr
      <3>1. \A s \in DOMAIN l : (\A y \in DOMAIN l : s <= y) => s = v[1].seqNr
        BY <2>4, <2>5
      <3> HIDE DEF l
      <3> QED
        BY <2>4, <3>1 DEF Link!Oldest, Link!Min
    <2>7. Link!Evict(l) = [s \in DOMAIN l \ {v[1].seqNr} |-> l[s]]
      BY <1>1, <1>2, <1>4, <2>6, SameCardinality DEF Link!Evict
    <2>8. DOMAIN l \ {v[1].seqNr} = {Tail(v)[i].seqNr : i \in 1 .. Len(v) - 1}
      <3>1. ASSUME NEW s \in DOMAIN l, s # v[1].seqNr
            PROVE  \E i \in 1 .. Len(v) - 1 : Tail(v)[i].seqNr = s
        <4>1. PICK k \in 1 .. Len(v) : s = v[k].seqNr
          BY <1>2 DEF Represents
        <4>2. k - 1 \in 1 .. Len(v) - 1 /\ (k - 1) + 1 = k
          BY <1>1, <3>1, <4>1
        <4> QED
          BY <2>2, <4>1, <4>2
      <3>2. ASSUME NEW i \in 1 .. Len(v) - 1
            PROVE  Tail(v)[i].seqNr \in DOMAIN l \ {v[1].seqNr}
        <4>1. i + 1 \in 1 .. Len(v) /\ 1 \in 1 .. Len(v) /\ i + 1 # 1
          BY <1>1
        <4>2. v[i + 1].seqNr # v[1].seqNr
          BY <4>1, NumbersDiffer
        <4> QED
          BY <1>2, <2>2, <4>1, <4>2 DEF Represents
      <3> QED
        BY <3>1, <3>2
    <2>9. ASSUME NEW i \in 1 .. Len(v) - 1
          PROVE  /\ Tail(v)[i].seqNr \in DOMAIN l \ {v[1].seqNr}
                 /\ l[Tail(v)[i].seqNr] =
                      [total |-> Tail(v)[i].total, nodes |-> Tail(v)[i].nodes]
      <3>1. i + 1 \in 1 .. Len(v) /\ Tail(v)[i] = v[i + 1]
        BY <1>1, <2>2
      <3> QED
        BY <1>2, <2>8, <3>1 DEF Represents
    <2> HIDE DEF l
    <2>10. Represents(Tail(v), Link!Evict(l))
      BY <2>2, <2>7, <2>8, <2>9 DEF Represents
    <2> QED
      BY <2>1, <2>3, <2>10 DEF l
  <1>5. CASE ~(Len(v) > Capacity)
    BY <1>2, <1>5, SameCardinality DEF Room, Link!Evict
  <1> QED
    BY <1>4, <1>5

\* The entry emplaced for a number that is not there.
LEMMA NewEntryFields ==
  ASSUME NEW s \in Nat, NEW total \in Nat
  PROVE  /\ NewEntry(s, total) \in Entry
         /\ NewEntry(s, total).seqNr = s
         /\ [total |-> NewEntry(s, total).total, nodes |-> NewEntry(s, total).nodes]
              = Link!EmptyEntry(total)
  <1> DEFINE nodes == [p \in Packets(total) |-> Link!Missing]
  <1>1. nodes \in [Packets(total) -> Nat \X Nat] /\ DOMAIN nodes = Packets(total)
    BY DEF Link!Missing
  <1>2. NewEntry(s, total) = [seqNr |-> s, total |-> total, nodes |-> nodes]
    BY DEF NewEntry, Packets
  <1>3. Link!EmptyEntry(total) = [total |-> total, nodes |-> nodes]
    BY DEF Link!EmptyEntry, Packets
  <1> HIDE DEF nodes
  <1>4. nodes \in UNION {[Packets(t) -> Nat \X Nat] : t \in Nat}
    BY <1>1
  <1> QED
    BY <1>1, <1>2, <1>3, <1>4 DEF Entry

\* An entry inserted after the last smaller number keeps the vector ascending
\* and adds its number to the store.
LEMMA InsertKeepsSorted ==
  ASSUME NEW r, Sorted(r), NEW m, Represents(r, m), NEW e \in Entry,
         NEW s \in Nat, e.seqNr = s, \A i \in 1 .. Len(r) : r[i].seqNr # s
  PROVE  LET g == InsertAt(r, FindBelow(r, s) + 1, e)
             k == FindBelow(r, s) + 1
         IN  /\ Sorted(g) /\ k \in 1 .. Len(g) /\ g[k] = e
             /\ Represents(g, [x \in DOMAIN m \cup {s} |->
                                 IF x = s THEN [total |-> e.total, nodes |-> e.nodes]
                                 ELSE m[x]])
  <1> DEFINE k == FindBelow(r, s) + 1
             g == InsertAt(r, k, e)
             f == [x \in DOMAIN m \cup {s} |->
                     IF x = s THEN [total |-> e.total, nodes |-> e.nodes] ELSE m[x]]
  <1>1. r \in Seq(Entry) /\ Len(r) \in Nat /\ AscendingIn(r)
    BY LenProperties DEF Sorted
  <1>2. \A i \in 1 .. Len(r) : r[i].seqNr \in Nat
    BY <1>1, EntryFields
  <1>3. k \in 1 .. Len(r) + 1 /\ \A i \in 1 .. Len(r) : r[i].seqNr < s <=> i < k
    BY <1>1, FindFinds
  <1>4. /\ g \in Seq(Entry) /\ Len(g) = Len(r) + 1
        /\ \A j \in 1 .. Len(r) + 1 :
             g[j] = IF j < k THEN r[j] ELSE IF j = k THEN e ELSE r[j - 1]
    <2> HIDE DEF k, f
    <2> QED
      BY <1>1, <1>3, InsertAtElements
  <1> HIDE DEF g, k
  <1>5. ASSUME NEW i \in 1 .. Len(g), NEW j \in 1 .. Len(g), i < j
        PROVE  g[i].seqNr < g[j].seqNr
    <2>1. CASE j < k
      <3>1. g[i] = r[i] /\ g[j] = r[j] /\ i \in 1 .. Len(r) /\ j \in 1 .. Len(r)
        BY <1>1, <1>3, <1>4, <1>5, <2>1
      <3> QED
        BY <1>1, <1>5, <3>1 DEF AscendingIn
    <2>2. CASE j = k
      BY <1>1, <1>3, <1>4, <1>5, <2>2
    <2>3. CASE k < j
      <3>1. /\ g[j] = r[j - 1] /\ j - 1 \in 1 .. Len(r)
            /\ s < r[j - 1].seqNr
        <4>1. j - 1 \in 1 .. Len(r) /\ ~(j - 1 < k) /\ ~(j < k) /\ j # k
          BY <1>1, <1>3, <1>4, <2>3
        <4>2. ~(r[j - 1].seqNr < s) /\ r[j - 1].seqNr # s /\ r[j - 1].seqNr \in Nat
          BY <1>2, <1>3, <4>1
        <4> QED
          BY <1>4, <4>1, <4>2
      <3>2. CASE i < k
        <4>1. g[i] = r[i] /\ i \in 1 .. Len(r) /\ r[i].seqNr < s /\ r[i].seqNr \in Nat
          BY <1>1, <1>2, <1>3, <1>4, <3>2
        <4> QED
          BY <1>2, <3>1, <4>1
      <3>3. CASE i = k
        BY <1>1, <1>3, <1>4, <3>1, <3>3
      <3>4. CASE k < i
        <4>1. g[i] = r[i - 1] /\ i - 1 \in 1 .. Len(r) /\ i - 1 < j - 1
          BY <1>1, <1>3, <1>4, <1>5, <3>4
        <4> QED
          BY <1>1, <3>1, <4>1 DEF AscendingIn
      <3> QED
        BY <1>1, <1>3, <1>4, <3>2, <3>3, <3>4
    <2> QED
      BY <1>1, <1>3, <1>4, <2>1, <2>2, <2>3
  <1>6. k \in 1 .. Len(g) /\ g[k] = e
    BY <1>1, <1>3, <1>4
  <1>7. DOMAIN f = {g[i].seqNr : i \in 1 .. Len(g)}
    <2>1. ASSUME NEW x \in DOMAIN m
          PROVE  \E i \in 1 .. Len(g) : g[i].seqNr = x
      <3>1. PICK j \in 1 .. Len(r) : x = r[j].seqNr
        BY DEF Represents
      <3>2. CASE j < k
        BY <1>1, <1>3, <1>4, <3>1, <3>2
      <3>3. CASE ~(j < k)
        <4>1. j + 1 \in 1 .. Len(g) /\ ~(j + 1 < k) /\ j + 1 # k /\ (j + 1) - 1 = j
          BY <1>1, <1>3, <1>4, <3>3
        <4>2. g[j + 1] = r[j]
          BY <1>4, <4>1
        <4> QED
          BY <3>1, <4>1, <4>2
      <3> QED
        BY <3>2, <3>3
    <2>2. ASSUME NEW i \in 1 .. Len(g)
          PROVE  g[i].seqNr \in DOMAIN m \cup {s}
      <3>1. i = k \/ \E j \in 1 .. Len(r) : g[i] = r[j]
        BY <1>1, <1>3, <1>4
      <3> QED
        BY <1>6, <3>1 DEF Represents
    <2>3. s = g[k].seqNr
      BY <1>6
    <2> QED
      BY <1>6, <2>1, <2>2, <2>3
  <1>8. ASSUME NEW i \in 1 .. Len(g)
        PROVE  f[g[i].seqNr] = [total |-> g[i].total, nodes |-> g[i].nodes]
    <2>1. i = k \/ \E j \in 1 .. Len(r) : g[i] = r[j]
      BY <1>1, <1>3, <1>4
    <2>2. CASE i = k
      BY <1>6, <2>2
    <2>3. ASSUME NEW j \in 1 .. Len(r), g[i] = r[j]
          PROVE  f[g[i].seqNr] = [total |-> g[i].total, nodes |-> g[i].nodes]
      <3>1. g[i].seqNr # s /\ g[i].seqNr \in DOMAIN m
        BY <2>3 DEF Represents
      <3>2. f[g[i].seqNr] = m[g[i].seqNr]
        BY <3>1
      <3> QED
        BY <2>3, <3>2 DEF Represents
    <2> QED
      BY <2>1, <2>2, <2>3
  <1>9. f = [x \in DOMAIN f |-> f[x]]
    OBVIOUS
  <1> HIDE DEF f
  <1>10. Represents(g, f)
    BY <1>7, <1>8, <1>9 DEF Represents
  <1>11. Sorted(g)
    BY <1>4, <1>5 DEF Sorted, AscendingIn
  <1> QED
    BY <1>6, <1>10, <1>11 DEF f, g, k

\* The search finds the one entry there is.
LEMMA FindOnly ==
  ASSUME NEW v, Sorted(v), NEW i \in 1 .. Len(v)
  PROVE  Find(v, v[i].seqNr) = i
  <1>1. v[i].seqNr \in Nat
    BY EntryFields DEF Sorted
  <1> DEFINE s == v[i].seqNr
  <1>2. Find(v, s) # 0
    BY <1>1, FindFinds
  <1>3. Find(v, s) \in 1 .. Len(v) /\ v[Find(v, s)].seqNr = s
    BY <1>1, <1>2, FindFinds
  <1> QED
    BY <1>3, NumbersDiffer

\* getScanData leaves an ascending vector with an entry for s, the one there
\* was or a new one, and evicts an entry only for a new one.
GetsEntry(v, s, total) ==
  LET l     == Entries(v)
      g     == GetScanData(v, s, total)
      i     == Find(g, s)
      old   == IF s \in DOMAIN l THEN l ELSE Link!Evict(l)
      entry == IF s \in DOMAIN l THEN l[s] ELSE Link!EmptyEntry(total)
  IN  /\ Sorted(g) /\ i \in 1 .. Len(g) /\ g[i].seqNr = s
      /\ [total |-> g[i].total, nodes |-> g[i].nodes] = entry
      /\ Represents(g, [x \in DOMAIN old \cup {s} |-> IF x = s THEN entry ELSE old[x]])

LEMMA GetScanDataGets ==
  ASSUME NEW v, Sorted(v), NEW s \in Nat, NEW total \in Nat
  PROVE  GetsEntry(v, s, total)
  <1> DEFINE l     == Entries(v)
             g     == GetScanData(v, s, total)
             i     == Find(g, s)
             old   == IF s \in DOMAIN l THEN l ELSE Link!Evict(l)
             entry == IF s \in DOMAIN l THEN l[s] ELSE Link!EmptyEntry(total)
             m     == [x \in DOMAIN old \cup {s} |-> IF x = s THEN entry ELSE old[x]]
  <1>1. Represents(v, l)
    BY EntriesRepresented
  <1>2. CASE Find(v, s) # 0
    <2>1. g = v /\ i \in 1 .. Len(v) /\ v[i].seqNr = s
      BY <1>2, FindFinds DEF GetScanData
    <2> HIDE DEF g, i, l
    <2>2. s \in DOMAIN l /\ l[s] = [total |-> v[i].total, nodes |-> v[i].nodes]
      BY <1>1, <2>1 DEF Represents
    <2>3. l = [x \in DOMAIN l |-> l[x]]
      BY <1>1 DEF Represents
    <2>4. m = l
      BY <2>2, <2>3
    <2> QED
      BY <1>1, <2>1, <2>2, <2>4 DEF GetsEntry, g, i, l
  <1>3. CASE Find(v, s) = 0
    <2> DEFINE r == Room(v)
               e == NewEntry(s, total)
    <2>1. \A j \in 1 .. Len(v) : v[j].seqNr # s
      BY <1>3, FindFinds
    <2>2. s \notin DOMAIN l
      <3> HIDE DEF l
      <3> QED
        BY <1>1, <2>1 DEF Represents
    <2>3. Sorted(r) /\ Represents(r, Link!Evict(l))
      BY RoomEvicts
    <2>4. DOMAIN Link!Evict(l) \subseteq DOMAIN l
      <3> HIDE DEF l
      <3> QED
        BY DEF Link!Evict
    <2>5. \A j \in 1 .. Len(r) : r[j].seqNr # s
      <3> HIDE DEF r, l
      <3> QED
        BY <2>2, <2>3, <2>4 DEF Represents
    <2>6. /\ e \in Entry /\ e.seqNr = s
          /\ [total |-> e.total, nodes |-> e.nodes] = Link!EmptyEntry(total)
      BY NewEntryFields
    <2>7. g = InsertAt(r, FindBelow(r, s) + 1, e)
      BY <1>3 DEF GetScanData
    <2> DEFINE k == FindBelow(r, s) + 1
               n == [x \in DOMAIN Link!Evict(l) \cup {s} |->
                       IF x = s THEN [total |-> e.total, nodes |-> e.nodes]
                       ELSE Link!Evict(l)[x]]
    <2> HIDE DEF g, r, e, l
    <2>8. Sorted(g) /\ k \in 1 .. Len(g) /\ g[k] = e /\ Represents(g, n)
      BY <2>3, <2>5, <2>6, <2>7, InsertKeepsSorted
    <2>9. m = n
      BY <2>2, <2>6
    <2> HIDE DEF k, m, n
    <2>10. i = k
      BY <2>6, <2>8, FindOnly
    <2> HIDE DEF i
    <2>11. /\ Sorted(g) /\ i \in 1 .. Len(g) /\ g[i].seqNr = s
           /\ [total |-> g[i].total, nodes |-> g[i].nodes] = entry
           /\ Represents(g, m)
      BY <2>2, <2>6, <2>8, <2>9, <2>10
    <2> QED
      BY <2>11 DEF GetsEntry, g, i, l, m
  <1> QED
    BY <1>2, <1>3

-----------------------------------------------------------------------------
(* A datagram. *)

Datagram == [session : Nat, seqNr : Nat, total : Nat, packetId : Nat]

\* A datagram fits an entry of the size it announces.
LEMMA NewEntryFits ==
  ASSUME NEW d \in Datagram, d.packetId \in Packets(d.total)
  PROVE  ~Link!Misfit(Link!EmptyEntry(d.total), d)
  <1>1. d.total \in Nat
    BY DEF Datagram
  <1>2. d.packetId * NodesPerPacket + Link!NodesInPacket(d.packetId, d.total) <= d.total
    <2>1. d.packetId \in LinkProofs!Packets(d.total)
      BY DEF Packets, Link!Packets, LinkProofs!Packets, Link!NumPackets, LinkProofs!NumPackets
    <2>2. d.packetId * NodesPerPacket + LinkProofs!NodesInPacket(d.packetId, d.total) <= d.total
      BY <1>1, <2>1, LinkConstants, LinkProofs!PacketFits
    <2> QED
      BY <2>2 DEF Link!NodesInPacket, LinkProofs!NodesInPacket
  <1>3. Link!EmptyEntry(d.total).total = d.total
    BY DEF Link!EmptyEntry
  <1>4. /\ d.packetId \in Nat /\ NodesPerPacket \in Nat /\ d.packetId * NodesPerPacket \in Nat
        /\ Link!NodesInPacket(d.packetId, d.total) \in Int
    <2>1. NodesPerPacket \in Nat \ {0} /\ d.packetId \in Nat
      BY LinkAssumption DEF Datagram
    <2>2. d.total % NodesPerPacket \in Int
      BY <1>1, <2>1
    <2> QED
      BY <2>1, <2>2 DEF Link!NodesInPacket
  <1> QED
    BY <1>1, <1>2, <1>3, <1>4 DEF Link!Misfit, Packets

\* Filling a slot of an entry changes neither its place nor the other entries.
LEMMA AddDataFills ==
  ASSUME NEW g, Sorted(g), NEW m, Represents(g, m), NEW i \in 1 .. Len(g),
         NEW d \in Datagram, g[i].seqNr = d.seqNr, d.packetId \in Packets(g[i].total)
  PROVE  LET w == [g EXCEPT ![i] = AddData(@, d)]
         IN  /\ Sorted(w)
             /\ Represents(w, [x \in DOMAIN m |->
                                 IF x = d.seqNr THEN Link!Fill(m[x], d) ELSE m[x]])
  <1> DEFINE w == [g EXCEPT ![i] = AddData(@, d)]
             f == [x \in DOMAIN m |-> IF x = d.seqNr THEN Link!Fill(m[x], d) ELSE m[x]]
             N == [g[i].nodes EXCEPT ![d.packetId] = <<d.session, d.seqNr>>]
  <1>1. g \in Seq(Entry) /\ Len(g) \in Nat /\ AscendingIn(g)
    BY LenProperties DEF Sorted
  <1>2. /\ g[i] = [seqNr |-> g[i].seqNr, total |-> g[i].total, nodes |-> g[i].nodes]
        /\ g[i].seqNr \in Nat /\ g[i].total \in Nat
        /\ g[i].nodes \in [Packets(g[i].total) -> Nat \X Nat]
    BY <1>1, EntryFields
  <1>3. AddData(g[i], d) = [seqNr |-> g[i].seqNr, total |-> g[i].total, nodes |-> N]
    <2>1. ASSUME NEW a, NEW b, NEW n
          PROVE  AddData([seqNr |-> a, total |-> b, nodes |-> n], d) =
                   [seqNr |-> a, total |-> b,
                    nodes |-> [n EXCEPT ![d.packetId] = <<d.session, d.seqNr>>]]
      BY DEF AddData
    <2> QED
      BY <1>2, <2>1
  <1>4. N \in [Packets(g[i].total) -> Nat \X Nat]
    <2>1. <<d.session, d.seqNr>> \in Nat \X Nat
      BY DEF Datagram
    <2> QED
      BY <1>2, <2>1
  <1> HIDE DEF N
  <1>5. AddData(g[i], d) \in Entry
    <2>1. N \in UNION {[Packets(t) -> Nat \X Nat] : t \in Nat} /\ DOMAIN N = Packets(g[i].total)
      BY <1>2, <1>4
    <2> QED
      BY <1>2, <1>3, <2>1 DEF Entry
  <1>6. /\ w \in Seq(Entry) /\ Len(w) = Len(g)
        /\ w[i] = AddData(g[i], d)
        /\ \A j \in 1 .. Len(g) : j # i => w[j] = g[j]
    <2> HIDE DEF f
    <2> QED
      BY <1>1, <1>5, ExceptSeq
  <1> HIDE DEF w
  <1>7. \A j \in 1 .. Len(g) : w[j].seqNr = g[j].seqNr
    <2>1. w[i].seqNr = g[i].seqNr
      BY <1>3, <1>6
    <2> QED
      BY <1>6, <2>1
  <1>8. Sorted(w)
    BY <1>1, <1>6, <1>7 DEF Sorted, AscendingIn
  <1>9. DOMAIN m = {g[j].seqNr : j \in 1 .. Len(g)} /\ DOMAIN f = DOMAIN m
    BY DEF Represents
  <1>10. DOMAIN f = {w[j].seqNr : j \in 1 .. Len(w)}
    BY <1>6, <1>7, <1>9
  <1>11. ASSUME NEW j \in 1 .. Len(w)
         PROVE  f[w[j].seqNr] = [total |-> w[j].total, nodes |-> w[j].nodes]
    <2>1. /\ j \in 1 .. Len(g) /\ g[j].seqNr \in DOMAIN m
          /\ m[g[j].seqNr] = [total |-> g[j].total, nodes |-> g[j].nodes]
      BY <1>6 DEF Represents
    <2>2. CASE j = i
      <3>1. f[w[j].seqNr] = Link!Fill([total |-> g[i].total, nodes |-> g[i].nodes], d)
        BY <1>7, <2>1, <2>2
      <3>2. Link!Fill([total |-> g[i].total, nodes |-> g[i].nodes], d) =
              [total |-> g[i].total, nodes |-> N]
        BY DEF Link!Fill, N
      <3>3. w[j].total = g[i].total /\ w[j].nodes = N
        BY <1>3, <1>6, <2>2
      <3> QED
        BY <3>1, <3>2, <3>3
    <2>3. CASE j # i
      <3>1. g[j].seqNr # d.seqNr
        BY <2>1, <2>3, NumbersDiffer
      <3> QED
        BY <1>6, <1>7, <2>1, <2>3, <3>1
    <2> QED
      BY <2>2, <2>3
  <1>12. f = [x \in DOMAIN f |-> f[x]]
    OBVIOUS
  <1> HIDE DEF f
  <1>13. Represents(w, f)
    BY <1>10, <1>11, <1>12 DEF Represents
  <1> QED
    BY <1>8, <1>13 DEF f, w

\* What a datagram does to the vector is what it does to the store.
LEMMA ReceiveStores ==
  ASSUME NEW v, Sorted(v), NEW d \in Datagram, d.packetId \in Packets(d.total)
  PROVE  LET l == Entries(v)
             g == GetScanData(v, d.seqNr, d.total)
             i == Find(g, d.seqNr)
             w == [g EXCEPT ![i] = AddData(@, d)]
         IN  /\ Sorted(g)
             /\ Link!Misfit(g[i], d) <=> d.seqNr \in DOMAIN l /\ Link!Misfit(l[d.seqNr], d)
             /\ Link!Misfit(g[i], d) => Entries(g) = l
             /\ ~Link!Misfit(g[i], d) => Sorted(w) /\ Entries(w) = Link!Store(l, d)
  <1> DEFINE s     == d.seqNr
             l     == Entries(v)
             g     == GetScanData(v, d.seqNr, d.total)
             i     == Find(g, d.seqNr)
             w     == [g EXCEPT ![i] = AddData(@, d)]
             old   == IF s \in DOMAIN l THEN l ELSE Link!Evict(l)
             entry == IF s \in DOMAIN l THEN l[s] ELSE Link!EmptyEntry(d.total)
             m     == [x \in DOMAIN old \cup {s} |-> IF x = s THEN entry ELSE old[x]]
  <1>1. s \in Nat /\ d.total \in Nat
    BY DEF Datagram
  <1>2. /\ Sorted(g) /\ i \in 1 .. Len(g) /\ g[i].seqNr = s
        /\ [total |-> g[i].total, nodes |-> g[i].nodes] = entry
        /\ Represents(g, m)
    <2>1. GetsEntry(v, d.seqNr, d.total)
      BY <1>1, GetScanDataGets
    <2> QED
      BY <2>1 DEF GetsEntry
  <1>3. Represents(v, l)
    BY EntriesRepresented
  <1> HIDE DEF l, g, i
  <1>4. Link!Misfit(g[i], d) <=> Link!Misfit(entry, d)
    <2>1. g[i].total = entry.total
      <3> HIDE DEF entry
      <3> QED
        BY <1>2
    <2> QED
      BY <2>1 DEF Link!Misfit
  <1>5. Link!Misfit(g[i], d) <=> s \in DOMAIN l /\ Link!Misfit(l[s], d)
    BY <1>4, NewEntryFits
  <1>6. ASSUME Link!Misfit(g[i], d)
        PROVE  Entries(g) = l
    <2>1. s \in DOMAIN l /\ l = [x \in DOMAIN l |-> l[x]]
      BY <1>3, <1>5, <1>6 DEF Represents
    <2>2. m = l
      BY <2>1
    <2> HIDE DEF m
    <2> QED
      BY <1>2, <2>2, EntriesRepresented, RepresentedOnce
  <1>7. ASSUME ~Link!Misfit(g[i], d)
        PROVE  Sorted(w) /\ Entries(w) = Link!Store(l, d)
    <2> DEFINE f == [x \in DOMAIN m |-> IF x = s THEN Link!Fill(m[x], d) ELSE m[x]]
    <2>1. d.packetId \in Packets(g[i].total)
      BY <1>7 DEF Link!Misfit, Packets
    <2>2. Sorted(w) /\ Represents(w, f)
      <3> HIDE DEF m
      <3> QED
        BY <1>2, <2>1, AddDataFills
    <2>3. Link!Store(l, d) = [x \in DOMAIN old \cup {s} |->
                                IF x = s THEN Link!Fill(entry, d) ELSE old[x]]
      BY DEF Link!Store
    <2>4. Link!Store(l, d) = f
      <3> HIDE DEF old, entry
      <3> QED
        BY <2>3
    <2> HIDE DEF f, w
    <2> QED
      BY <2>2, <2>4, EntriesRepresented, RepresentedOnce
  <1> HIDE DEF w
  <1>8. /\ Sorted(g)
        /\ Link!Misfit(g[i], d) <=> d.seqNr \in DOMAIN l /\ Link!Misfit(l[d.seqNr], d)
        /\ Link!Misfit(g[i], d) => Entries(g) = l
        /\ ~Link!Misfit(g[i], d) => Sorted(w) /\ Entries(w) = Link!Store(l, d)
    BY <1>2, <1>5, <1>6, <1>7
  <1> QED
    BY <1>8 DEF l, g, i, w

-----------------------------------------------------------------------------
(* The loop that erases while it walks. *)

\* A function that makes the first n turns of the loop from w.
IsTurns(w, n, f) == f = [m \in 0 .. n |-> IF m = 0 THEN w ELSE Look(f[m - 1])]

LEMMA TurnsExist ==
  ASSUME NEW w, NEW L \in Nat
  PROVE  \E f : IsTurns(w, L, f)
  <1> DEFINE T == {n \in Nat : \E f : IsTurns(w, n, f)}
  <1>1. 0 \in T
    <2> DEFINE f == [m \in 0 .. 0 |-> w]
    <2>1. IsTurns(w, 0, f)
      BY DEF IsTurns
    <2> QED
      BY <2>1
  <1>2. ASSUME NEW n \in Nat, n \in T
        PROVE  n + 1 \in T
    <2>1. PICK f : IsTurns(w, n, f)
      BY <1>2
    <2> DEFINE g == [m \in 0 .. n + 1 |-> IF m \in 0 .. n THEN f[m] ELSE Look(f[n])]
    <2>2. \A m \in 0 .. n : f[m] = IF m = 0 THEN w ELSE Look(f[m - 1])
      BY <2>1 DEF IsTurns
    <2>3. ASSUME NEW m \in 0 .. n + 1
          PROVE  g[m] = IF m = 0 THEN w ELSE Look(g[m - 1])
      <3>1. CASE m = 0
        BY <2>2, <3>1
      <3>2. CASE m \in 0 .. n /\ m # 0
        <4>1. m - 1 \in 0 .. n /\ m - 1 \in 0 .. n + 1 /\ m \in 0 .. n + 1
          BY <3>2
        <4>2. g[m] = f[m] /\ g[m - 1] = f[m - 1]
          BY <3>2, <4>1
        <4> QED
          BY <2>2, <3>2, <4>2
      <3>3. CASE m = n + 1
        <4>1. m - 1 = n /\ n \in 0 .. n /\ m \notin 0 .. n /\ n \in 0 .. n + 1 /\ m # 0
          BY <3>3
        <4>2. g[m] = Look(f[n]) /\ g[m - 1] = f[n]
          BY <4>1
        <4> QED
          BY <4>1, <4>2
      <3> QED
        BY <3>1, <3>2, <3>3
    <2>4. g = [m \in 0 .. n + 1 |-> g[m]]
      OBVIOUS
    <2> HIDE DEF g
    <2>5. g = [m \in 0 .. n + 1 |-> IF m = 0 THEN w ELSE Look(g[m - 1])]
      BY <2>3, <2>4
    <2>6. IsTurns(w, n + 1, g)
      BY <2>5 DEF IsTurns
    <2> QED
      BY <2>6
  <1> HIDE DEF T
  <1>3. L \in T
    BY <1>1, <1>2, EveryNumber
  <1> QED
    BY <1>3 DEF T

\* The walk ends where its last turn does.
LEMMA WalkTurns ==
  ASSUME NEW w, Len(w.vector) \in Nat
  PROVE  \E f : IsTurns(w, Len(w.vector), f) /\ Walk(w) = f[Len(w.vector)]
  <1> DEFINE L == Len(w.vector)
             turn == CHOOSE f : f = [n \in 0 .. L |-> IF n = 0 THEN w ELSE Look(f[n - 1])]
  <1>1. Walk(w) = turn[L]
    BY DEF Walk
  <1>2. \E f : f = [n \in 0 .. L |-> IF n = 0 THEN w ELSE Look(f[n - 1])]
    <2> HIDE DEF L
    <2> QED
      BY TurnsExist DEF IsTurns, L
  <1>3. turn = [n \in 0 .. L |-> IF n = 0 THEN w ELSE Look(turn[n - 1])]
    <2> HIDE DEF L
    <2> QED
      BY <1>2
  <1> HIDE DEF turn
  <1>4. IsTurns(w, L, turn)
    BY <1>3 DEF IsTurns
  <1> QED
    BY <1>1, <1>4

\* The numbers of the complete ones of the first n entries, and of those a
\* receiver at number c takes for stale.
CompleteTo(v, n) == {v[k].seqNr : k \in {j \in 1 .. n : Complete(v[j])}}

StaleTo(v, n, c) == {s \in CompleteTo(v, n) : s < c}

\* After n turns the index is at i: in front of it are the incomplete ones of
\* the first n entries, and from it on the entries that were not looked at.
Kept(v, n, i, u) ==
  /\ Sorted(u)
  /\ i \in 1 .. n + 1
  /\ Len(u) = Len(v) - n + (i - 1)
  /\ \A j \in i .. Len(u) : u[j] = v[j + n - (i - 1)]
  /\ \A j \in 1 .. i - 1 : \E k \in 1 .. n : ~Complete(v[k]) /\ u[j] = v[k]
  /\ \A k \in 1 .. n : ~Complete(v[k]) => \E j \in 1 .. i - 1 : u[j] = v[k]
  /\ CompleteTo(v, n) = {} => u = v

\* After n turns that began at the number c and with f stale scans: all that
\* was complete was stale and not too much, or the last complete one was taken.
Outcome(v, n, c, f, o, w) ==
  \/ /\ w.success = FALSE /\ w.current = c /\ w.nodes = o
     /\ CompleteTo(v, n) = StaleTo(v, n, c)
     /\ w.failures = f + Cardinality(StaleTo(v, n, c))
     /\ CompleteTo(v, n) = {} \/ w.failures < FailureLimit
  \/ /\ w.success = TRUE /\ w.failures = 0
     /\ \E k \in 1 .. n :
          /\ Complete(v[k]) /\ w.nodes = v[k] /\ w.current = v[k].seqNr
          /\ \A s \in CompleteTo(v, n) : s <= v[k].seqNr
     /\ \/ CompleteTo(v, n) # StaleTo(v, n, c)
        \/ f + Cardinality(StaleTo(v, n, c)) >= FailureLimit

\* The variables of the loop; N has what it may hand out.
Shaped(w, N) ==
  w \in [i : Nat, vector : Seq(Entry), current : Nat, failures : Int, nodes : N,
         success : BOOLEAN]

\* One entry more.
LEMMA CompleteToNext ==
  ASSUME NEW v, Sorted(v), NEW n \in Nat, n < Len(v), NEW c \in Nat
  PROVE  /\ v[n + 1].seqNr \in Nat
         /\ \A s \in CompleteTo(v, n) : s \in Nat /\ s < v[n + 1].seqNr
         /\ CompleteTo(v, n + 1) = IF Complete(v[n + 1])
                                   THEN CompleteTo(v, n) \cup {v[n + 1].seqNr}
                                   ELSE CompleteTo(v, n)
         /\ IsFiniteSet(StaleTo(v, n, c))
         /\ StaleTo(v, n + 1, c) = IF Complete(v[n + 1]) /\ v[n + 1].seqNr < c
                                   THEN StaleTo(v, n, c) \cup {v[n + 1].seqNr}
                                   ELSE StaleTo(v, n, c)
  <1>1. Len(v) \in Nat /\ n + 1 \in 1 .. Len(v) /\ \A i \in 1 .. Len(v) : v[i].seqNr \in Nat
    <2>1. Len(v) \in Nat
      BY LenProperties DEF Sorted
    <2>2. \A i \in 1 .. Len(v) : v[i].seqNr \in Nat
      BY EntryFields DEF Sorted
    <2> QED
      BY <2>1, <2>2
  <1>2. ASSUME NEW k \in 1 .. n
        PROVE  v[k].seqNr \in Nat /\ v[k].seqNr < v[n + 1].seqNr
    BY <1>1 DEF Sorted, AscendingIn
  <1>3. \A s \in CompleteTo(v, n) : s \in Nat /\ s < v[n + 1].seqNr
    BY <1>2 DEF CompleteTo
  <1>4. {j \in 1 .. n + 1 : Complete(v[j])} =
          IF Complete(v[n + 1]) THEN {j \in 1 .. n : Complete(v[j])} \cup {n + 1}
          ELSE {j \in 1 .. n : Complete(v[j])}
    <2>1. \A j : j \in 1 .. n + 1 <=> j \in 1 .. n \/ j = n + 1
      OBVIOUS
    <2> QED
      BY <2>1
  <1>5. CompleteTo(v, n + 1) = IF Complete(v[n + 1])
                               THEN CompleteTo(v, n) \cup {v[n + 1].seqNr}
                               ELSE CompleteTo(v, n)
    <2> DEFINE J == {j \in 1 .. n : Complete(v[j])}
    <2>1. CASE Complete(v[n + 1])
      <3>1. CompleteTo(v, n + 1) = {v[k].seqNr : k \in J \cup {n + 1}}
        BY <1>4, <2>1 DEF CompleteTo
      <3>2. CompleteTo(v, n) = {v[k].seqNr : k \in J}
        BY DEF CompleteTo
      <3> HIDE DEF J
      <3> QED
        BY <2>1, <3>1, <3>2
    <2>2. CASE ~Complete(v[n + 1])
      BY <1>4, <2>2 DEF CompleteTo
    <2> QED
      BY <2>1, <2>2
  <1>6. StaleTo(v, n + 1, c) = IF Complete(v[n + 1]) /\ v[n + 1].seqNr < c
                               THEN StaleTo(v, n, c) \cup {v[n + 1].seqNr}
                               ELSE StaleTo(v, n, c)
    BY <1>5 DEF StaleTo
  <1>7. IsFiniteSet(StaleTo(v, n, c))
    <2>1. ASSUME NEW s \in StaleTo(v, n, c)
          PROVE  s \in DOMAIN Entries(v)
      <3>1. PICK k \in 1 .. n : s = v[k].seqNr
        BY DEF StaleTo, CompleteTo
      <3>2. k \in 1 .. Len(v)
        BY <1>1
      <3>3. DOMAIN Entries(v) = {v[j].seqNr : j \in 1 .. Len(v)}
        BY EntriesRepresented DEF Represents
      <3> QED
        BY <3>1, <3>2, <3>3
    <2>2. StaleTo(v, n, c) \in SUBSET DOMAIN Entries(v)
      BY <2>1
    <2> QED
      BY <2>2, EntryCount, FS_Subset
  <1> QED
    BY <1>1, <1>3, <1>5, <1>6, <1>7

\* The index is at the next entry.
LEMMA KeptNext ==
  ASSUME NEW v, Sorted(v), NEW n \in Nat, n < Len(v), NEW i, NEW u, Kept(v, n, i, u)
  PROVE  i \in 1 .. Len(u) /\ u[i] = v[n + 1]
  <1>1. Len(v) \in Nat /\ i \in 1 .. n + 1 /\ Len(u) = Len(v) - n + (i - 1)
    BY LenProperties DEF Sorted, Kept
  <1>2. i \in 1 .. Len(u) /\ i \in i .. Len(u) /\ i + n - (i - 1) = n + 1
    BY <1>1
  <1> QED
    BY <1>2 DEF Kept

\* The index passes an incomplete entry.
LEMMA KeptPass ==
  ASSUME NEW v, Sorted(v), NEW n \in Nat, n < Len(v), NEW i, NEW u, Kept(v, n, i, u),
         ~Complete(v[n + 1])
  PROVE  Kept(v, n + 1, i + 1, u)
  <1>1. Len(v) \in Nat /\ i \in 1 .. n + 1 /\ Len(u) = Len(v) - n + (i - 1)
    BY LenProperties DEF Sorted, Kept
  <1>2. i \in 1 .. Len(u) /\ u[i] = v[n + 1]
    BY KeptNext
  <1>3. ASSUME NEW j \in i + 1 .. Len(u)
        PROVE  u[j] = v[j + (n + 1) - ((i + 1) - 1)]
    <2>1. j \in i .. Len(u) /\ j + (n + 1) - ((i + 1) - 1) = j + n - (i - 1)
      BY <1>1
    <2> QED
      BY <2>1 DEF Kept
  <1>4. ASSUME NEW j \in 1 .. (i + 1) - 1
        PROVE  \E k \in 1 .. n + 1 : ~Complete(v[k]) /\ u[j] = v[k]
    <2>1. CASE j = i
      BY <1>2, <2>1
    <2>2. CASE j # i
      <3>1. j \in 1 .. i - 1
        BY <1>1, <2>2
      <3>2. PICK k \in 1 .. n : ~Complete(v[k]) /\ u[j] = v[k]
        BY <3>1 DEF Kept
      <3> QED
        BY <3>2
    <2> QED
      BY <2>1, <2>2
  <1>5. ASSUME NEW k \in 1 .. n + 1, ~Complete(v[k])
        PROVE  \E j \in 1 .. (i + 1) - 1 : u[j] = v[k]
    <2>1. CASE k = n + 1
      BY <1>1, <1>2, <2>1
    <2>2. CASE k # n + 1
      <3>1. k \in 1 .. n
        BY <2>2
      <3>2. PICK j \in 1 .. i - 1 : u[j] = v[k]
        BY <1>5, <3>1 DEF Kept
      <3>3. j \in 1 .. (i + 1) - 1
        BY <1>1
      <3> QED
        BY <3>2, <3>3
    <2> QED
      BY <2>1, <2>2
  <1>6. CompleteTo(v, n + 1) = {} => u = v
    BY CompleteToNext DEF Kept
  <1>7. i + 1 \in 1 .. (n + 1) + 1 /\ Len(u) = Len(v) - (n + 1) + ((i + 1) - 1)
    BY <1>1
  <1>8. Sorted(u)
    BY DEF Kept
  <1> QED
    BY <1>3, <1>4, <1>5, <1>6, <1>7, <1>8 DEF Kept

\* Erasing an entry keeps a vector ascending.
LEMMA RemoveKeepsSorted ==
  ASSUME NEW u, Sorted(u), NEW i \in 1 .. Len(u)
  PROVE  Sorted(RemoveAt(u, i))
  <1> DEFINE r == RemoveAt(u, i)
  <1>1. /\ u \in Seq(Entry) /\ Len(u) \in Nat
        /\ r \in Seq(Entry) /\ Len(r) = Len(u) - 1
        /\ \A j \in 1 .. Len(u) - 1 : r[j] = IF j < i THEN u[j] ELSE u[j + 1]
    BY LenProperties, RemoveAtElements DEF Sorted
  <1> HIDE DEF r
  <1>2. ASSUME NEW j \in 1 .. Len(r), NEW k \in 1 .. Len(r), j < k
        PROVE  r[j].seqNr < r[k].seqNr
    <2> DEFINE J == IF j < i THEN j ELSE j + 1
               K == IF k < i THEN k ELSE k + 1
    <2>1. J \in 1 .. Len(u) /\ K \in 1 .. Len(u) /\ J < K /\ r[j] = u[J] /\ r[k] = u[K]
      BY <1>1, <1>2
    <2> HIDE DEF J, K
    <2> QED
      BY <2>1 DEF Sorted, AscendingIn
  <1> QED
    BY <1>1, <1>2 DEF Sorted, AscendingIn, r

\* The index stays when a complete entry is erased under it.
LEMMA KeptErase ==
  ASSUME NEW v, Sorted(v), NEW n \in Nat, n < Len(v), NEW i, NEW u, Kept(v, n, i, u),
         Complete(v[n + 1])
  PROVE  Kept(v, n + 1, i, RemoveAt(u, i))
  <1> DEFINE r == RemoveAt(u, i)
  <1>1. Len(v) \in Nat /\ i \in 1 .. n + 1 /\ Len(u) = Len(v) - n + (i - 1) /\ Sorted(u)
    BY LenProperties DEF Sorted, Kept
  <1>2. i \in 1 .. Len(u)
    BY KeptNext
  <1>3. /\ Len(r) = Len(u) - 1
        /\ \A j \in 1 .. Len(u) - 1 : r[j] = IF j < i THEN u[j] ELSE u[j + 1]
    BY <1>1, <1>2, RemoveAtElements DEF Sorted
  <1>4. Sorted(r)
    BY <1>1, <1>2, RemoveKeepsSorted
  <1> HIDE DEF r
  <1>5. ASSUME NEW j \in i .. Len(r)
        PROVE  r[j] = v[j + (n + 1) - (i - 1)]
    <2>1. /\ j \in 1 .. Len(u) - 1 /\ ~(j < i) /\ j + 1 \in i .. Len(u)
          /\ (j + 1) + n - (i - 1) = j + (n + 1) - (i - 1)
      BY <1>1, <1>2, <1>3
    <2>2. u[j + 1] = v[(j + 1) + n - (i - 1)]
      BY <2>1 DEF Kept
    <2> QED
      BY <1>3, <2>1, <2>2
  <1>6. \A j \in 1 .. i - 1 : r[j] = u[j]
    BY <1>1, <1>2, <1>3
  <1>7. ASSUME NEW j \in 1 .. i - 1
        PROVE  \E k \in 1 .. n + 1 : ~Complete(v[k]) /\ r[j] = v[k]
    <2>1. PICK k \in 1 .. n : ~Complete(v[k]) /\ u[j] = v[k]
      BY DEF Kept
    <2> QED
      BY <1>6, <2>1
  <1>8. ASSUME NEW k \in 1 .. n + 1, ~Complete(v[k])
        PROVE  \E j \in 1 .. i - 1 : r[j] = v[k]
    <2>1. k \in 1 .. n
      BY <1>8
    <2> QED
      BY <1>6, <1>8, <2>1 DEF Kept
  <1>9. CompleteTo(v, n + 1) # {}
    BY CompleteToNext
  <1>10. i \in 1 .. (n + 1) + 1 /\ Len(r) = Len(v) - (n + 1) + (i - 1)
    BY <1>1, <1>3
  <1>11. Kept(v, n + 1, i, r)
    BY <1>4, <1>5, <1>7, <1>8, <1>9, <1>10 DEF Kept
  <1> QED
    BY <1>11 DEF r

\* What one turn makes of its variables, one by one.
LEMMA LookFields ==
  ASSUME NEW N, Entry \subseteq N, NEW w, Shaped(w, N), w.i \in 1 .. Len(w.vector)
  PROVE  LET e == w.vector[w.i]
             x == Look(w)
         IN  /\ Shaped(x, N)
             /\ ~Complete(e) =>
                  x.i = w.i + 1 /\ x.vector = w.vector /\ x.current = w.current
                  /\ x.failures = w.failures /\ x.nodes = w.nodes /\ x.success = w.success
             /\ Complete(e) => x.i = w.i /\ x.vector = RemoveAt(w.vector, w.i)
             /\ Complete(e) /\ e.seqNr < w.current /\ w.failures + 1 < FailureLimit =>
                  x.current = w.current /\ x.failures = w.failures + 1
                  /\ x.nodes = w.nodes /\ x.success = w.success
             /\ Complete(e) /\ ~(e.seqNr < w.current /\ w.failures + 1 < FailureLimit) =>
                  x.current = e.seqNr /\ x.failures = 0 /\ x.nodes = e /\ x.success = TRUE
  <1> DEFINE e == w.vector[w.i]
             r == RemoveAt(w.vector, w.i)
             x == Look(w)
             Rec == [i : Nat, vector : Seq(Entry), current : Nat, failures : Int, nodes : N,
                     success : BOOLEAN]
  <1>1. /\ w \in Rec /\ w.vector \in Seq(Entry) /\ Len(w.vector) \in Nat
        /\ e \in N /\ e.seqNr \in Nat /\ r \in Seq(Entry)
    <2>1. w \in Rec /\ w.vector \in Seq(Entry)
      BY DEF Shaped
    <2> QED
      BY <2>1, LenProperties, EntryFields, RemoveAtElements
  <1>2. Look(w) =
          IF ~Complete(e) THEN [w EXCEPT !.i = @ + 1]
          ELSE IF e.seqNr < w.current /\ w.failures + 1 < FailureLimit
               THEN [w EXCEPT !.vector = r, !.failures = @ + 1]
               ELSE [w EXCEPT !.vector = r, !.current = e.seqNr,
                              !.failures = 0, !.nodes = e, !.success = TRUE]
    <2>1. ~(w.i > Len(w.vector))
      BY <1>1
    <2> QED
      BY <2>1 DEF Look
  <1> HIDE DEF e, r, x
  <1>3. CASE ~Complete(e)
    <2>1. x = [w EXCEPT !.i = @ + 1]
      BY <1>2, <1>3 DEF x
    <2>2. /\ x \in Rec
          /\ x.i = w.i + 1 /\ x.vector = w.vector /\ x.current = w.current
          /\ x.failures = w.failures /\ x.nodes = w.nodes /\ x.success = w.success
      BY <1>1, <2>1
    <2> QED
      BY <1>3, <2>2 DEF Shaped, e, x
  <1> DEFINE w1 == [w EXCEPT !.vector = r]
  <1>4. /\ w1 \in Rec
        /\ w1.i = w.i /\ w1.vector = r /\ w1.current = w.current
        /\ w1.failures = w.failures /\ w1.nodes = w.nodes /\ w1.success = w.success
    BY <1>1
  <1>5. CASE Complete(e) /\ e.seqNr < w.current /\ w.failures + 1 < FailureLimit
    <2>1. x = [w EXCEPT !.vector = r, !.failures = @ + 1]
      BY <1>2, <1>5 DEF x
    <2>2. x = [w1 EXCEPT !.failures = w.failures + 1]
      BY <2>1
    <2> HIDE DEF w1
    <2>3. /\ x \in Rec
          /\ x.i = w.i /\ x.vector = r /\ x.current = w.current
          /\ x.failures = w.failures + 1 /\ x.nodes = w.nodes /\ x.success = w.success
      BY <1>1, <1>4, <2>2
    <2> QED
      BY <1>5, <2>3 DEF Shaped, e, r, x
  <1>6. CASE Complete(e) /\ ~(e.seqNr < w.current /\ w.failures + 1 < FailureLimit)
    <2> DEFINE w2 == [w1 EXCEPT !.current = e.seqNr]
               w3 == [w2 EXCEPT !.failures = 0]
               w4 == [w3 EXCEPT !.nodes = e]
    <2>1. x = [w EXCEPT !.vector = r, !.current = e.seqNr,
                        !.failures = 0, !.nodes = e, !.success = TRUE]
      BY <1>2, <1>6 DEF x
    <2>2. x = [w4 EXCEPT !.success = TRUE]
      BY <2>1
    <2> HIDE DEF w1, w2, w3, w4
    <2>3. /\ w2 \in Rec
          /\ w2.i = w.i /\ w2.vector = r /\ w2.current = e.seqNr
      BY <1>1, <1>4 DEF w2
    <2>4. /\ w3 \in Rec
          /\ w3.i = w.i /\ w3.vector = r /\ w3.current = e.seqNr /\ w3.failures = 0
      BY <2>3 DEF w3
    <2>5. /\ w4 \in Rec
          /\ w4.i = w.i /\ w4.vector = r /\ w4.current = e.seqNr
          /\ w4.failures = 0 /\ w4.nodes = e
      BY <1>1, <2>4 DEF w4
    <2>6. /\ x \in Rec
          /\ x.i = w.i /\ x.vector = r /\ x.current = e.seqNr
          /\ x.failures = 0 /\ x.nodes = e /\ x.success = TRUE
      BY <2>2, <2>5
    <2> QED
      BY <1>6, <2>6 DEF Shaped, e, r, x
  <1> QED
    BY <1>3, <1>5, <1>6 DEF e

\* One turn looks at the next entry.
LEMMA OutcomeNext ==
  ASSUME NEW v, Sorted(v), NEW n \in Nat, n < Len(v), NEW c \in Nat, NEW f \in Int, NEW o,
         NEW N, Entry \subseteq N, NEW w, Outcome(v, n, c, f, o, w), Shaped(w, N),
         w.i \in 1 .. Len(w.vector), w.vector[w.i] = v[n + 1]
  PROVE  Outcome(v, n + 1, c, f, o, Look(w))
  <1> DEFINE e == v[n + 1]
             x == Look(w)
             C == CompleteTo(v, n)
             S == StaleTo(v, n, c)
             C1 == CompleteTo(v, n + 1)
             S1 == StaleTo(v, n + 1, c)
  <1> SUFFICES Outcome(v, n + 1, c, f, o, x)
    OBVIOUS
  <1>1. FailureLimit \in Nat \ {0}
    BY LinkAssumption
  <1>2. /\ e.seqNr \in Nat /\ \A s \in C : s \in Nat /\ s < e.seqNr
        /\ C1 = IF Complete(e) THEN C \cup {e.seqNr} ELSE C
        /\ S1 = IF Complete(e) /\ e.seqNr < c THEN S \cup {e.seqNr} ELSE S
        /\ IsFiniteSet(S) /\ Cardinality(S) \in Nat
    BY CompleteToNext, FS_CardinalityType
  <1>3. S = {s \in C : s < c} /\ S1 = {s \in C1 : s < c}
    BY DEF StaleTo
  <1>4. Complete(e) /\ e.seqNr < c => Cardinality(S1) = Cardinality(S) + 1
    <2>1. e.seqNr \notin S
      BY <1>2, <1>3
    <2> QED
      BY <1>2, <2>1, FS_AddElement
  <1>5. /\ ~Complete(e) =>
             x.current = w.current /\ x.failures = w.failures /\ x.nodes = w.nodes
             /\ x.success = w.success
        /\ Complete(e) /\ e.seqNr < w.current /\ w.failures + 1 < FailureLimit =>
             x.current = w.current /\ x.failures = w.failures + 1
             /\ x.nodes = w.nodes /\ x.success = w.success
        /\ Complete(e) /\ ~(e.seqNr < w.current /\ w.failures + 1 < FailureLimit) =>
             x.current = e.seqNr /\ x.failures = 0 /\ x.nodes = e /\ x.success = TRUE
    BY LookFields
  <1> DEFINE Left(CC, SS, y) ==
               /\ y.success = FALSE /\ y.current = c /\ y.nodes = o /\ CC = SS
               /\ y.failures = f + Cardinality(SS)
               /\ CC = {} \/ y.failures < FailureLimit
             Taken(CC, SS, m, y) ==
               /\ y.success = TRUE /\ y.failures = 0
               /\ \E k \in 1 .. m :
                    /\ Complete(v[k]) /\ y.nodes = v[k] /\ y.current = v[k].seqNr
                    /\ \A s \in CC : s <= v[k].seqNr
               /\ CC # SS \/ f + Cardinality(SS) >= FailureLimit
  <1>6. /\ Outcome(v, n, c, f, o, w) <=> Left(C, S, w) \/ Taken(C, S, n, w)
        /\ Outcome(v, n + 1, c, f, o, x) <=> Left(C1, S1, x) \/ Taken(C1, S1, n + 1, x)
    BY DEF Outcome
  <1> HIDE DEF x, C, S, C1, S1
  <1>7. CASE ~Complete(e)
    <2>1. C1 = C /\ S1 = S
      BY <1>2, <1>7
    <2>2. ASSUME Left(C, S, w) PROVE Left(C1, S1, x)
      BY <1>5, <1>7, <2>1, <2>2
    <2>3. ASSUME Taken(C, S, n, w) PROVE Taken(C1, S1, n + 1, x)
      <3>1. \A k \in 1 .. n : k \in 1 .. n + 1
        OBVIOUS
      <3> HIDE DEF e
      <3> QED
        BY <1>5, <1>7, <2>1, <2>3, <3>1
    <2> QED
      BY <1>6, <2>2, <2>3
  <1>8. ASSUME Complete(e), x.current = e.seqNr, x.failures = 0, x.nodes = e, x.success = TRUE,
               C1 # S1 \/ f + Cardinality(S1) >= FailureLimit
        PROVE  Taken(C1, S1, n + 1, x)
    <2>1. \A s \in C1 : s <= e.seqNr
      BY <1>2, <1>8
    <2>2. n + 1 \in 1 .. n + 1
      OBVIOUS
    <2> QED
      BY <1>8, <2>1, <2>2
  <1>9. CASE Complete(e) /\ Left(C, S, w)
    <2>1. CASE e.seqNr < c /\ w.failures + 1 < FailureLimit
      <3>1. C1 = S1
        BY <1>2, <1>9, <2>1
      <3>2. x.failures = f + Cardinality(S1)
        BY <1>2, <1>4, <1>5, <1>9, <2>1
      <3>3. Left(C1, S1, x)
        BY <1>5, <1>9, <2>1, <3>1, <3>2
      <3> QED
        BY <1>6, <3>3
    <2>2. CASE e.seqNr < c /\ ~(w.failures + 1 < FailureLimit)
      <3>1. f + Cardinality(S1) >= FailureLimit
        BY <1>1, <1>2, <1>4, <1>9, <2>2
      <3> QED
        BY <1>5, <1>6, <1>8, <1>9, <2>2, <3>1
    <2>3. CASE ~(e.seqNr < c)
      <3>1. e.seqNr \in C1 /\ e.seqNr \notin S1
        BY <1>2, <1>3, <1>9, <2>3
      <3> QED
        BY <1>5, <1>6, <1>8, <1>9, <2>3, <3>1
    <2> QED
      BY <2>1, <2>2, <2>3
  <1>10. CASE Complete(e) /\ Taken(C, S, n, w)
    <2>1. PICK k \in 1 .. n : Complete(v[k]) /\ w.current = v[k].seqNr
      BY <1>10
    <2>2. v[k].seqNr \in C
      BY <2>1 DEF CompleteTo, C
    <2>3. ~(e.seqNr < w.current)
      BY <1>2, <2>1, <2>2
    <2>4. x.current = e.seqNr /\ x.failures = 0 /\ x.nodes = e /\ x.success = TRUE
      BY <1>5, <1>10, <2>3
    <2>5. CASE C # S
      <3>1. \E s \in C : ~(s < c)
        BY <1>3, <2>5
      <3>2. C1 # S1
        BY <1>2, <1>3, <1>10, <3>1
      <3> QED
        BY <1>6, <1>8, <1>10, <2>4, <3>2
    <2>6. CASE f + Cardinality(S) >= FailureLimit
      <3>1. f + Cardinality(S1) >= FailureLimit
        BY <1>1, <1>2, <1>4, <2>6
      <3> QED
        BY <1>6, <1>8, <1>10, <2>4, <3>1
    <2> QED
      BY <1>10, <2>5, <2>6
  <1> QED
    BY <1>6, <1>7, <1>9, <1>10 DEF x

\* Where the loop of a grab begins.
AtFirst(v, c, f, o) ==
  [i |-> 1, vector |-> v, current |-> c, failures |-> f, nodes |-> o, success |-> FALSE]

\* After all its turns the loop has looked at every entry.
LEMMA WalkLooksAtAll ==
  ASSUME NEW v, Sorted(v), NEW c \in Nat, NEW f \in Int, NEW o
  PROVE  LET w == Walk(AtFirst(v, c, f, o))
         IN  /\ Shaped(w, Entry \cup {o})
             /\ Kept(v, Len(v), w.i, w.vector)
             /\ Outcome(v, Len(v), c, f, o, w)
  <1> DEFINE w0 == AtFirst(v, c, f, o)
             L == Len(v)
             N == Entry \cup {o}
             Good(n, w) ==
               Shaped(w, N) /\ Kept(v, n, w.i, w.vector) /\ Outcome(v, n, c, f, o, w)
  <1>1. v \in Seq(Entry) /\ L \in Nat
    BY LenProperties DEF Sorted
  <1>2. CompleteTo(v, 0) = {} /\ StaleTo(v, 0, c) = {}
    BY DEF CompleteTo, StaleTo
  <1>3. Good(0, w0)
    <2>1. /\ w0.i = 1 /\ w0.vector = v /\ w0.current = c /\ w0.failures = f
          /\ w0.nodes = o /\ w0.success = FALSE
      BY DEF AtFirst
    <2>2. Shaped(w0, N)
      BY <1>1 DEF AtFirst, Shaped
    <2>3. Kept(v, 0, 1, v)
      BY <1>1 DEF Kept
    <2>4. Cardinality(StaleTo(v, 0, c)) = 0
      BY <1>2, FS_EmptySet
    <2>5. Outcome(v, 0, c, f, o, w0)
      BY <1>2, <2>1, <2>4 DEF Outcome
    <2> QED
      BY <2>1, <2>2, <2>3, <2>5
  <1>4. PICK g : IsTurns(w0, L, g) /\ Walk(w0) = g[L]
    <2>1. w0.vector = v
      BY DEF AtFirst
    <2> HIDE DEF w0
    <2> QED
      BY <1>1, <2>1, WalkTurns
  <1> HIDE DEF w0, L
  <1>5. \A n \in 0 .. L : g[n] = IF n = 0 THEN w0 ELSE Look(g[n - 1])
    BY <1>4 DEF IsTurns
  <1> DEFINE T == {n \in Nat : n <= L => Good(n, g[n])}
  <1>6. 0 \in T
    BY <1>1, <1>3, <1>5
  <1>7. ASSUME NEW n \in Nat, n \in T
        PROVE  n + 1 \in T
    <2>1. SUFFICES ASSUME n + 1 <= L PROVE Good(n + 1, g[n + 1])
      OBVIOUS
    <2> DEFINE w == g[n]
               x == Look(w)
    <2>2. n < Len(v) /\ g[n + 1] = x
      BY <1>1, <1>5, <2>1 DEF L
    <2>3. Good(n, w)
      BY <1>1, <1>7, <2>1
    <2> HIDE DEF w, x
    <2>4. w.i \in 1 .. Len(w.vector) /\ w.vector[w.i] = v[n + 1]
      BY <2>2, <2>3, KeptNext
    <2>5. Entry \subseteq N
      OBVIOUS
    <2> HIDE DEF N
    <2>6. Outcome(v, n + 1, c, f, o, x)
      BY <2>2, <2>3, <2>4, <2>5, OutcomeNext DEF x
    <2>7. /\ Shaped(x, N)
          /\ ~Complete(v[n + 1]) => x.i = w.i + 1 /\ x.vector = w.vector
          /\ Complete(v[n + 1]) => x.i = w.i /\ x.vector = RemoveAt(w.vector, w.i)
      BY <2>3, <2>4, <2>5, LookFields DEF x
    <2>8. CASE Complete(v[n + 1])
      <3>1. Kept(v, n + 1, w.i, RemoveAt(w.vector, w.i))
        BY <2>2, <2>3, <2>8, KeptErase
      <3> QED
        BY <2>2, <2>6, <2>7, <2>8, <3>1
    <2>9. CASE ~Complete(v[n + 1])
      <3>1. Kept(v, n + 1, w.i + 1, w.vector)
        BY <2>2, <2>3, <2>9, KeptPass
      <3> QED
        BY <2>2, <2>6, <2>7, <2>9, <3>1
    <2> QED
      BY <2>8, <2>9
  <1>8. L \in T
    <2> HIDE DEF T
    <2> QED
      BY <1>1, <1>6, <1>7, EveryNumber
  <1>9. Good(L, Walk(w0))
    BY <1>1, <1>4, <1>8
  <1> QED
    BY <1>9 DEF w0, L

\* The loop and the store agree on what is complete.
LEMMA CompleteAgrees ==
  ASSUME NEW v, Sorted(v)
  PROVE  Link!Complete(Entries(v)) = CompleteTo(v, Len(v))
  <1> DEFINE l == Entries(v)
  <1>1. Represents(v, l)
    BY EntriesRepresented
  <1>2. ASSUME NEW k \in 1 .. Len(v)
        PROVE  v[k].seqNr \in Link!Complete(l) <=> Complete(v[k])
    <2>1. /\ v[k].seqNr \in DOMAIN l
          /\ l[v[k].seqNr] = [total |-> v[k].total, nodes |-> v[k].nodes]
      <3> HIDE DEF l
      <3> QED
        BY <1>1 DEF Represents
    <2>2. DOMAIN v[k].nodes = Link!Packets(v[k].total)
      BY EntryFields DEF Sorted, Packets
    <2>3. Link!Complete(l) =
            {s \in DOMAIN l : \A p \in Link!Packets(l[s].total) : l[s].nodes[p] # Link!Missing}
      BY DEF Link!Complete
    <2>4. Complete(v[k]) <=> \A p \in DOMAIN v[k].nodes : v[k].nodes[p] # Link!Missing
      BY DEF Complete
    <2> HIDE DEF l
    <2> QED
      BY <2>1, <2>2, <2>3, <2>4
  <1>3. \A s \in Link!Complete(l) : s \in DOMAIN l
    BY DEF Link!Complete
  <1> HIDE DEF l
  <1>4. DOMAIN l = {v[k].seqNr : k \in 1 .. Len(v)}
    BY <1>1 DEF Represents
  <1>5. Link!Complete(l) = CompleteTo(v, Len(v))
    BY <1>2, <1>3, <1>4 DEF CompleteTo
  <1> QED
    BY <1>5 DEF l

\* What the loop leaves stands for what a grab leaves in the store, and it
\* erases something if there is something complete.
LEMMA KeptRemains ==
  ASSUME NEW v, Sorted(v), NEW i, NEW u, Kept(v, Len(v), i, u)
  PROVE  /\ Sorted(u)
         /\ Entries(u) = Link!Remaining(Entries(v))
         /\ u # v <=> Link!Complete(Entries(v)) # {}
  <1> DEFINE l == Entries(v)
             C == Link!Complete(l)
             R == Link!Remaining(l)
  <1>1. Len(v) \in Nat
    BY LenProperties DEF Sorted
  <1>2. /\ Sorted(u) /\ i \in 1 .. Len(v) + 1 /\ Len(u) = i - 1
        /\ \A j \in 1 .. i - 1 : \E k \in 1 .. Len(v) : ~Complete(v[k]) /\ u[j] = v[k]
        /\ \A k \in 1 .. Len(v) : ~Complete(v[k]) => \E j \in 1 .. i - 1 : u[j] = v[k]
        /\ CompleteTo(v, Len(v)) = {} => u = v
    BY <1>1 DEF Kept
  <1>3. Represents(v, l) /\ C = CompleteTo(v, Len(v))
    BY EntriesRepresented, CompleteAgrees
  <1>4. R = [s \in DOMAIN l \ C |-> l[s]]
    BY DEF Link!Remaining
  <1> HIDE DEF l, C, R
  <1>5. ASSUME NEW k \in 1 .. Len(v)
        PROVE  v[k].seqNr \in C <=> Complete(v[k])
    <2>1. ASSUME NEW j \in 1 .. Len(v), Complete(v[j]), v[k].seqNr = v[j].seqNr
          PROVE  Complete(v[k])
      <3>1. j = k
        BY <2>1, NumbersDiffer
      <3> QED
        BY <2>1, <3>1
    <2> QED
      BY <1>3, <2>1 DEF CompleteTo
  <1>6. DOMAIN l = {v[k].seqNr : k \in 1 .. Len(v)}
    BY <1>3 DEF Represents
  <1>7. DOMAIN R = {u[j].seqNr : j \in 1 .. Len(u)}
    <2>1. ASSUME NEW s \in DOMAIN R
          PROVE  \E j \in 1 .. Len(u) : u[j].seqNr = s
      <3>1. PICK k \in 1 .. Len(v) : s = v[k].seqNr /\ ~Complete(v[k])
        BY <1>4, <1>5, <1>6
      <3> QED
        BY <1>2, <3>1
    <2>2. ASSUME NEW j \in 1 .. Len(u)
          PROVE  u[j].seqNr \in DOMAIN R
      <3>1. PICK k \in 1 .. Len(v) : ~Complete(v[k]) /\ u[j] = v[k]
        BY <1>2
      <3> QED
        BY <1>4, <1>5, <1>6, <3>1
    <2> QED
      BY <2>1, <2>2
  <1>8. ASSUME NEW j \in 1 .. Len(u)
        PROVE  R[u[j].seqNr] = [total |-> u[j].total, nodes |-> u[j].nodes]
    <2>1. PICK k \in 1 .. Len(v) : u[j] = v[k]
      BY <1>2
    <2>2. u[j].seqNr \in DOMAIN R
      BY <1>7
    <2>3. R[u[j].seqNr] = l[u[j].seqNr]
      BY <1>4, <2>2
    <2> QED
      BY <1>3, <2>1, <2>3 DEF Represents
  <1>9. R = [s \in DOMAIN R |-> R[s]]
    BY <1>4
  <1>10. Entries(u) = R
    <2>1. Represents(u, R)
      BY <1>7, <1>8, <1>9 DEF Represents
    <2> QED
      BY <1>2, <2>1, EntriesRepresented, RepresentedOnce
  <1>11. u # v <=> C # {}
    <2>1. ASSUME C # {}, u = v
          PROVE  FALSE
      <3>1. PICK k \in 1 .. Len(v) : Complete(v[k])
        BY <1>3, <2>1 DEF CompleteTo
      <3>2. k \in 1 .. Len(u)
        BY <2>1
      <3>3. PICK m \in 1 .. Len(v) : ~Complete(v[m]) /\ u[k] = v[m]
        BY <1>2, <3>2
      <3> QED
        BY <2>1, <3>1, <3>3
    <2> QED
      BY <1>2, <1>3, <2>1
  <1> QED
    BY <1>2, <1>10, <1>11 DEF l, C, R

-----------------------------------------------------------------------------
(* The link with the vector in it. *)

\* The inductive invariant: the vector is ascending, its entries have the slots
\* of a scan of their size, and the datagrams are cut from scans.
VInv ==
  /\ Sorted(vector)
  /\ net \subseteq Datagram /\ \A d \in net : d.packetId \in Packets(d.total)
  /\ session \in Nat /\ seqNr \in Nat
  /\ currentSeqNr \in Nat /\ seqFailureCount \in Int /\ counterSet \in BOOLEAN

LEMMA VInvInit == Init => VInv
  <1> SUFFICES ASSUME Init PROVE VInv
    OBVIOUS
  <1>1. vector = <<>> /\ net = {} /\ session = 1 /\ seqNr = 0 /\ currentSeqNr = 0
        /\ seqFailureCount \in Garbage /\ counterSet = FALSE
    BY DEF Init, Link!Init
  <1>2. Sorted(<<>>)
    <2>1. <<>> \in Seq(Entry) /\ Len(<<>>) = 0
      BY EmptySeq
    <2> QED
      BY <2>1 DEF Sorted, AscendingIn
  <1> QED
    BY <1>1, <1>2, LinkAssumption DEF VInv

\* A datagram received does to the vector what it does to the store.
LEMMA ReceiveStep ==
  ASSUME VInv, NEW d \in net, Receive(d)
  PROVE  VInv' /\ Link!Receive(d)
  <1> DEFINE l == Entries(vector)
             g == GetScanData(vector, d.seqNr, d.total)
             i == Find(g, d.seqNr)
             w == [g EXCEPT ![i] = AddData(@, d)]
  <1>1. /\ net' \subseteq net
        /\ net' = net \ {d} \/ (Duplication /\ net' = net)
        /\ IF Link!Misfit(g[i], d) THEN vector' = g /\ overrun' = TRUE
           ELSE vector' = w /\ overrun' = overrun
        /\ UNCHANGED <<session, seqNr, sent, grabVars, connects, reboots>>
    BY DEF Receive
  <1>2. /\ Sorted(g)
        /\ Link!Misfit(g[i], d) <=> d.seqNr \in DOMAIN l /\ Link!Misfit(l[d.seqNr], d)
        /\ Link!Misfit(g[i], d) => Entries(g) = l
        /\ ~Link!Misfit(g[i], d) => Sorted(w) /\ Entries(w) = Link!Store(l, d)
    <2>1. Sorted(vector) /\ d \in Datagram /\ d.packetId \in Packets(d.total)
      BY DEF VInv
    <2> QED
      BY <2>1, ReceiveStores
  <1> HIDE DEF g, i, w
  <1>3. Sorted(vector')
    BY <1>1, <1>2
  <1>4. VInv'
    BY <1>1, <1>3 DEF VInv, grabVars
  <1>5. IF d.seqNr \in DOMAIN l /\ Link!Misfit(l[d.seqNr], d)
        THEN overrun' = TRUE /\ Entries(vector') = l
        ELSE Entries(vector') = Link!Store(l, d) /\ overrun' = overrun
    <2> HIDE DEF l
    <2> QED
      BY <1>1, <1>2
  <1>6. Link!Receive(d)
    BY <1>1, <1>5 DEF Link!Receive, Link!senderVars, grabVars
  <1> QED
    BY <1>4, <1>6

\* The scan a grab takes is the newest complete one.
LEMMA NewestTaken ==
  ASSUME NEW C, C \subseteq Nat, NEW m \in C, \A s \in C : s <= m
  PROVE  Link!Max(C) = m
  <1>1. \A x \in C : (\A y \in C : x >= y) => x = m
    OBVIOUS
  <1>2. \A y \in C : m >= y
    OBVIOUS
  <1> QED
    BY <1>1, <1>2 DEF Link!Max

\* A grab from the vector is a grab from the store.
LEMMA GrabStep ==
  ASSUME VInv, Grab
  PROVE  VInv' /\ Link!Grab
  <1> DEFINE l == Entries(vector)
             w == Walk(AtFirst(vector, currentSeqNr, seqFailureCount, last))
             L == Len(vector)
             C == Link!Complete(l)
             S == Link!Stale(l)
  <1>1. /\ w.vector # vector
        /\ vector' = w.vector /\ currentSeqNr' = w.current /\ seqFailureCount' = w.failures
        /\ counterSet' = (counterSet \/ w.success)
        /\ last' = w.nodes
        /\ grabbed' = IF w.success THEN grabbed \cup {w.nodes.seqNr} ELSE grabbed
        /\ UNCHANGED <<session, seqNr, sent, net, connects, reboots, overrun>>
    BY DEF Grab, AtFirst
  <1>2. Sorted(vector) /\ currentSeqNr \in Nat /\ seqFailureCount \in Int
    BY DEF VInv
  <1>3. /\ Shaped(w, Entry \cup {last})
        /\ Kept(vector, L, w.i, w.vector)
        /\ Outcome(vector, L, currentSeqNr, seqFailureCount, last, w)
    BY <1>2, WalkLooksAtAll
  <1> HIDE DEF w
  <1>4. /\ Sorted(w.vector)
        /\ Entries(w.vector) = Link!Remaining(l)
        /\ C # {}
    BY <1>1, <1>2, <1>3, KeptRemains
  <1>5. C = CompleteTo(vector, L) /\ S = StaleTo(vector, L, currentSeqNr)
    <2>1. C = CompleteTo(vector, L)
      BY <1>2, CompleteAgrees
    <2> QED
      BY <2>1 DEF Link!Stale, StaleTo
  <1>6. w.current \in Nat /\ w.failures \in Int /\ w.success \in BOOLEAN
    BY <1>3 DEF Shaped
  <1>7. VInv'
    <2>1. counterSet' \in BOOLEAN
      BY <1>1
    <2> QED
      BY <1>1, <1>4, <1>6, <2>1 DEF VInv
  <1>8. \A k \in 1 .. L : /\ vector[k].seqNr \in Nat
                          /\ vector[k].seqNr \in DOMAIN l
                          /\ l[vector[k].seqNr] =
                               [total |-> vector[k].total, nodes |-> vector[k].nodes]
                          /\ vector[k] = [seqNr |-> vector[k].seqNr,
                                          total |-> vector[k].total,
                                          nodes |-> vector[k].nodes]
    <2>1. Represents(vector, l)
      BY <1>2, EntriesRepresented
    <2> HIDE DEF l
    <2> QED
      BY <1>2, <2>1, EntryFields DEF Sorted, Represents
  <1>9. L \in Nat /\ Link!Cardinality(S) = Cardinality(S)
    BY <1>2, LenProperties, SameCardinality DEF Sorted
  <1> HIDE DEF l, C, S, L
  <1>10. CASE w.success = FALSE
    <2>1. /\ w.current = currentSeqNr /\ w.nodes = last
          /\ C = S /\ w.failures = seqFailureCount + Cardinality(S)
          /\ w.failures < FailureLimit
      BY <1>3, <1>4, <1>5, <1>10 DEF Outcome
    <2>2. Link!Discard(Link!Cardinality(S))
      <3>1. counterSet' = counterSet
        <4>1. counterSet \in BOOLEAN /\ counterSet' = (counterSet \/ FALSE)
          BY <1>1, <1>10 DEF VInv
        <4> QED
          BY <4>1
      <3>2. grabbed' = grabbed
        BY <1>1, <1>10
      <3> QED
        BY <1>1, <1>9, <2>1, <3>1, <3>2 DEF Link!Discard
    <2>3. ~Link!StartedOver(Link!Cardinality(S))
      <3>1. FailureLimit \in Nat
        BY LinkAssumption
      <3> QED
        BY <1>6, <1>9, <2>1, <3>1 DEF Link!StartedOver
    <2> QED
      BY <1>1, <1>4, <1>7, <2>1, <2>2, <2>3 DEF Link!Grab, Link!senderVars, l, C, S
  <1>11. CASE w.success = TRUE
    <2>1. PICK k \in 1 .. L : /\ w.nodes = vector[k] /\ w.current = vector[k].seqNr
                              /\ Complete(vector[k])
                              /\ \A s \in C : s <= vector[k].seqNr
      BY <1>3, <1>5, <1>11 DEF Outcome
    <2>2. vector[k].seqNr \in C
      BY <1>5, <2>1 DEF CompleteTo
    <2>3. C \subseteq Nat
      BY <1>5, <1>8 DEF CompleteTo, L
    <2>4. Link!Max(C) = vector[k].seqNr
      BY <2>1, <2>2, <2>3, NewestTaken
    <2>5. /\ w.failures = 0
          /\ C # S \/ seqFailureCount + Cardinality(S) >= FailureLimit
      BY <1>3, <1>5, <1>11 DEF Outcome
    <2>6. S # C \/ Link!StartedOver(Link!Cardinality(S))
      BY <1>9, <2>5 DEF Link!StartedOver
    <2>7. Link!Accept(vector[k].seqNr)
      <3>1. counterSet' = TRUE
        <4>1. counterSet' = (counterSet \/ TRUE)
          BY <1>1, <1>11
        <4> QED
          BY <4>1
      <3>2. grabbed' = grabbed \cup {vector[k].seqNr}
        BY <1>1, <1>11, <2>1
      <3>3. last' = [seqNr |-> vector[k].seqNr, total |-> l[vector[k].seqNr].total,
                     nodes |-> l[vector[k].seqNr].nodes]
        <4>1. /\ l[vector[k].seqNr].total = vector[k].total
              /\ l[vector[k].seqNr].nodes = vector[k].nodes
          <5> DEFINE entry == l[vector[k].seqNr]
          <5>1. entry = [total |-> vector[k].total, nodes |-> vector[k].nodes]
            BY <1>8
          <5> HIDE DEF entry
          <5>2. entry.total = vector[k].total /\ entry.nodes = vector[k].nodes
            BY <5>1
          <5> QED
            BY <5>2 DEF entry
        <4>2. vector[k] = [seqNr |-> vector[k].seqNr, total |-> vector[k].total,
                           nodes |-> vector[k].nodes]
          BY <1>8
        <4>3. last' = vector[k]
          BY <1>1, <2>1
        <4> QED
          BY <4>1, <4>2, <4>3
      <3> QED
        BY <1>1, <2>1, <2>5, <3>1, <3>2, <3>3 DEF Link!Accept, l
    <2> QED
      BY <1>1, <1>4, <1>7, <2>4, <2>6, <2>7 DEF Link!Grab, Link!senderVars, l, C, S
  <1> QED
    BY <1>6, <1>10, <1>11

\* The steps outside the vector keep the invariant.
LEMMA ElsewhereStep ==
  ASSUME VInv, Elsewhere \/ NewReceiver
  PROVE  VInv'
  <1>1. CASE vector' = vector /\ \E total \in Totals : Link!SendScan(total)
    <2>1. PICK total \in Totals : Link!SendScan(total)
      BY <1>1
    <2> DEFINE scan == [session |-> session, seqNr |-> seqNr + 1, total |-> total]
    <2>2. total \in Nat /\ session \in Nat /\ seqNr + 1 \in Nat
      BY LinkAssumption DEF VInv
    <2>3. /\ net' = net \cup Link!Datagrams(scan) /\ seqNr' = seqNr + 1
          /\ UNCHANGED <<session, currentSeqNr, seqFailureCount, counterSet>>
      BY <2>1 DEF Link!SendScan, Link!receiverVars
    <2>4. ASSUME NEW d \in Link!Datagrams(scan)
          PROVE  d \in Datagram /\ d.packetId \in Packets(d.total)
      <3>1. PICK p \in Link!Packets(total) :
              d = [session |-> session, seqNr |-> seqNr + 1, total |-> total, packetId |-> p]
        BY DEF Link!Datagrams
      <3>2. p \in Nat
        BY DEF Link!Packets
      <3> QED
        BY <2>2, <3>1, <3>2 DEF Datagram, Packets
    <2> HIDE DEF scan
    <2> QED
      BY <1>1, <2>2, <2>3, <2>4 DEF VInv
  <1>2. CASE vector' = vector /\ Link!SenderRestart
    BY <1>2 DEF VInv, Link!SenderRestart, Link!receiverVars
  <1>3. CASE vector' = vector /\ \E d \in net : Link!Lose(d)
    BY <1>3 DEF VInv, Link!Lose, Link!senderVars, Link!receiverVars
  <1>4. CASE vector' = vector /\ Link!Connect
    BY <1>4 DEF VInv, Link!Connect, Link!senderVars
  <1>5. CASE NewReceiver
    <2>1. Sorted(<<>>)
      <3>1. <<>> \in Seq(Entry) /\ Len(<<>>) = 0
        BY EmptySeq
      <3> QED
        BY <3>1 DEF Sorted, AscendingIn
    <2>2. vector' = <<>> /\ currentSeqNr' = 0 /\ seqFailureCount' \in Int
          /\ counterSet' = FALSE /\ UNCHANGED <<session, seqNr, net>>
      BY <1>5, LinkAssumption DEF NewReceiver, Link!ReceiverRestart, Link!senderVars
    <2> QED
      BY <2>1, <2>2 DEF VInv
  <1> QED
    BY <1>1, <1>2, <1>3, <1>4, <1>5 DEF Elsewhere

LEMMA VInvNext == VInv /\ [Next]_vars => VInv'
  <1> SUFFICES ASSUME VInv, [Next]_vars PROVE VInv'
    OBVIOUS
  <1>1. CASE UNCHANGED vars
    BY <1>1 DEF VInv, vars, grabVars
  <1>2. CASE Next
    BY <1>2, ReceiveStep, GrabStep, ElsewhereStep DEF Next
  <1> QED
    BY <1>1, <1>2

\* The vector is strictly ascending in every state, for every order in which
\* datagrams arrive and scans are grabbed, and every size of the vector:
\* getScanData inserts after the last smaller number, and neither erasing the
\* first entry nor the loop of grabScanData changes the order.
THEOREM VectorAscending == Spec => []Ascending
  <1>1. VInv => Ascending
    <2> SUFFICES ASSUME VInv, NEW i \in 1 .. Len(vector) - 1
                 PROVE  vector[i].seqNr < vector[i + 1].seqNr
      BY DEF Ascending
    <2>1. Sorted(vector) /\ Len(vector) \in Nat
      BY LenProperties DEF VInv, Sorted
    <2>2. i \in 1 .. Len(vector) /\ i + 1 \in 1 .. Len(vector) /\ i < i + 1
      BY <2>1
    <2> QED
      BY <2>1, <2>2 DEF Sorted, AscendingIn
  <1> QED
    BY <1>1, VInvInit, VInvNext, PTL DEF Spec

\* The vector implements the store of ScanTransport: the searches from the
\* back, the insertion and the loop that erases under its index do to it what
\* Store and Grab do to the function, in every reachable state.
THEOREM VectorImplementsStore == Spec => LinkSpec
  <1>1. Init => Link!Init
    BY DEF Init
  <1>2. VInv /\ [Next]_vars => [Link!Next]_(Link!vars)
    <2> SUFFICES ASSUME VInv, [Next]_vars PROVE [Link!Next]_(Link!vars)
      OBVIOUS
    <2>1. CASE UNCHANGED vars
      BY <2>1 DEF vars, grabVars, Link!vars, Link!senderVars, Link!receiverVars
    <2>2. CASE Next
      BY <2>2, ReceiveStep, GrabStep DEF Next, Elsewhere, NewReceiver, Link!Next
    <2> QED
      BY <2>1, <2>2
  <1> QED
    BY <1>1, <1>2, VInvInit, VInvNext, PTL DEF Spec, LinkSpec, Link!Spec

\* What is proved of the link holds of the link with the vector in it.
LEMMA LinkIsLinkProofs ==
  /\ Link!Init => LinkProofs!Init
  /\ [Link!Next]_(Link!vars) => [LinkProofs!Next]_(LinkProofs!vars)
  <1>1. Link!vars = LinkProofs!vars /\ Link!vars' = LinkProofs!vars'
    BY DEF Link!vars, LinkProofs!vars, Link!senderVars, LinkProofs!senderVars,
           Link!receiverVars, LinkProofs!receiverVars
  <1>2. Link!Init => LinkProofs!Init
    BY DEF Link!Init, LinkProofs!Init
  <1>3. Link!Next => LinkProofs!Next
    BY DEF Link!Next, LinkProofs!Next, Link!SendScan, LinkProofs!SendScan,
      Link!SenderRestart, LinkProofs!SenderRestart, Link!Lose, LinkProofs!Lose,
      Link!Receive, LinkProofs!Receive, Link!Grab, LinkProofs!Grab,
      Link!Connect, LinkProofs!Connect, Link!ReceiverRestart, LinkProofs!ReceiverRestart,
      Link!senderVars, LinkProofs!senderVars, Link!receiverVars, LinkProofs!receiverVars,
      Link!Accept, LinkProofs!Accept, Link!Discard, LinkProofs!Discard,
      Link!StartedOver, LinkProofs!StartedOver, Link!Remaining, LinkProofs!Remaining,
      Link!Complete, LinkProofs!Complete, Link!Stale, LinkProofs!Stale,
      Link!Store, LinkProofs!Store, Link!Fill, LinkProofs!Fill,
      Link!EmptyEntry, LinkProofs!EmptyEntry, Link!Misfit, LinkProofs!Misfit,
      Link!Evict, LinkProofs!Evict, Link!Oldest, LinkProofs!Oldest,
      Link!Missing, LinkProofs!Missing, Link!Datagrams, LinkProofs!Datagrams,
      Link!NodesInPacket, LinkProofs!NodesInPacket, Link!Packets, LinkProofs!Packets,
      Link!NumPackets, LinkProofs!NumPackets, Link!Max, LinkProofs!Max,
      Link!Min, LinkProofs!Min, Link!Cardinality, LinkProofs!Cardinality
  <1> QED
    BY <1>1, <1>2, <1>3

\* With the vector, too, a scan grabbed is made of one number, is whole while
\* the sender does not restart, is not written past its end, and fewer than
\* FailureLimit stale scans are thrown away in a row.
THEOREM VectorLinkPromises ==
  Spec => [](Link!OneNumber /\ Link!FrameIntact /\ Link!InBounds /\ Link!DiscardsBounded)
  <1>1. Spec => LinkProofs!Spec
    BY VectorImplementsStore, LinkIsLinkProofs, PTL
       DEF LinkSpec, Link!Spec, LinkProofs!Spec
  <1>2. /\ LinkProofs!Spec => []LinkProofs!OneNumber
        /\ LinkProofs!Spec => []LinkProofs!FrameIntact
        /\ LinkProofs!Spec => []LinkProofs!InBounds
        /\ LinkProofs!Spec => []LinkProofs!DiscardsBounded
    BY LinkConstants, LinkProofs!NumbersNeverMixed, LinkProofs!ScansStayIntact,
       LinkProofs!WritesInBounds, LinkProofs!DiscardsStayBounded, PTL
  <1>3. LinkProofs!OneNumber => Link!OneNumber
    BY DEF LinkProofs!OneNumber, Link!OneNumber
  <1>4. LinkProofs!FrameIntact => Link!FrameIntact
    BY DEF LinkProofs!FrameIntact, Link!FrameIntact, LinkProofs!Packets, Link!Packets,
           LinkProofs!NumPackets, Link!NumPackets
  <1>5. LinkProofs!InBounds => Link!InBounds
    BY DEF LinkProofs!InBounds, Link!InBounds
  <1>6. LinkProofs!DiscardsBounded => Link!DiscardsBounded
    BY DEF LinkProofs!DiscardsBounded, Link!DiscardsBounded
  <1> QED
    BY <1>1, <1>2, <1>3, <1>4, <1>5, <1>6, PTL
=============================================================================
