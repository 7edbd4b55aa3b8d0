--------------------------- MODULE TrackerProofs ---------------------------
(***************************************************************************)
(* The ids of the object tracker are unique, for every value of the        *)
(* constants, as long as the main loop starts the tracker (OpenOnStart).   *)
(***************************************************************************)
EXTENDS Tracker, Recursion, FiniteSetTheorems, SequenceTheorems, TLAPS

\* What IdsUnique says of the sequence of tracks.
UniqueIn(s) ==
  \A t, u \in DOMAIN s :
    /\ s[t].active /\ s[u].active /\ s[t].id = s[u].id => t = u
    /\ \A e \in s[t].latent :
         /\ s[u].active => e.id # s[u].id
         /\ \A f \in s[u].latent : e.id = f.id => t = u /\ e = f

\* Every id in use was issued since the counter was reset.
IssuedIn(s, n) ==
  \A t \in DOMAIN s :
    /\ s[t].active => s[t].id \in 1 .. n
    /\ \A e \in s[t].latent : e.id \in 1 .. n

\* Tracks that have no ids and that this frame cannot activate.
IdleIn(s) ==
  \A t \in DOMAIN s :
    ~s[t].active /\ s[t].latent = {} /\ (s[t].age = 0 \/ s[t].unseen > 0)

\* A tracker that is not started has no ids in use, so that a start may reset the
\* counter.  A stop while objects are merged leaves their tracks behind.
IdleUnlessStarted ==
  /\ trackStarted => isStarted # -1
  /\ objects # NoFrame => trackStarted /\ at = 0
  /\ isStarted # 1 => /\ IdleIn(tracks)
                      /\ objects # NoFrame /\ objects # 0 => tracks = <<>>

IInv ==
  /\ TypeOK
  /\ UniqueIn(tracks)
  /\ IssuedIn(tracks, counter)
  /\ IdleUnlessStarted

\* A step after which only ids are new that were just issued.
FreshIds == \A d \in LiveIds' \ LiveIds : d > counter

-----------------------------------------------------------------------------
\* Ids are new at a track or at none.
LEMMA FreshFromTracks ==
  ASSUME \A t \in DOMAIN tracks' :
           /\ tracks'[t].active => tracks'[t].id \in LiveIds \/ tracks'[t].id > counter
           /\ \A e \in tracks'[t].latent : e.id \in LiveIds \/ e.id > counter
  PROVE  FreshIds
  <1>1. ASSUME NEW d \in LiveIds'
        PROVE  d \in LiveIds \/ d > counter
    <2>1. \/ \E t \in DOMAIN tracks' : tracks'[t].active /\ d = tracks'[t].id
          \/ \E t \in DOMAIN tracks' : \E e \in tracks'[t].latent : d = e.id
      BY <1>1 DEF LiveIds, Active
    <2> QED
      BY <2>1
  <1> QED
    BY <1>1 DEF FreshIds

\* The id of an activated track and a latent id are live.
LEMMA LiveAtTracks ==
  \A t \in DOMAIN tracks :
    /\ tracks[t].active => tracks[t].id \in LiveIds
    /\ \A e \in tracks[t].latent : e.id \in LiveIds
  BY DEF LiveIds, Active

\* Counting the elements of a set from above numbers them.
LEMMA CountFromAbove ==
  ASSUME NEW S, S \subseteq Nat, IsFiniteSet(S)
  PROVE  LET N(u) == Cardinality({v \in S : v >= u})
         IN  /\ \A u \in S : N(u) \in 1 .. Cardinality(S)
             /\ \A u, v \in S : N(u) = N(v) => u = v
  <1> DEFINE Above(u) == {v \in S : v >= u}
             N(u) == Cardinality(Above(u))
  <1>1. \A u \in S : /\ Above(u) \subseteq S /\ u \in Above(u)
                     /\ IsFiniteSet(Above(u))
                     /\ N(u) \in Nat /\ N(u) <= Cardinality(S)
    <2> SUFFICES ASSUME NEW u \in S
                 PROVE  /\ Above(u) \subseteq S /\ u \in Above(u)
                        /\ IsFiniteSet(Above(u))
                        /\ N(u) \in Nat /\ N(u) <= Cardinality(S)
      OBVIOUS
    <2>1. Above(u) \subseteq S /\ u \in Above(u)
      OBVIOUS
    <2> HIDE DEF Above
    <2> QED
      BY <2>1, FS_Subset, FS_CardinalityType
  <1>2. \A u \in S : N(u) >= 1
    <2> SUFFICES ASSUME NEW u \in S PROVE N(u) >= 1
      OBVIOUS
    <2>1. IsFiniteSet(Above(u)) /\ Above(u) # {} /\ N(u) \in Nat
      BY <1>1
    <2>2. N(u) # 0
      BY <2>1, FS_EmptySet
    <2> QED
      BY <2>1, <2>2
  <1>3. ASSUME NEW u \in S, NEW v \in S, u < v
        PROVE  N(v) < N(u)
    <2>0. S \subseteq Nat /\ u \in Nat /\ v \in Nat
      OBVIOUS
    <2>1. Above(v) \subseteq Above(u) /\ u \in Above(u) /\ u \notin Above(v)
      <3>1. \A z \in S : z >= v => z >= u
        BY <1>3, <2>0
      <3>2. u >= u /\ ~(u >= v)
        BY <1>3, <2>0
      <3> QED
        BY <3>1, <3>2
    <2>2. IsFiniteSet(Above(u)) /\ Above(v) # Above(u) /\ N(u) \in Nat /\ N(v) \in Nat
      BY <1>1, <2>1
    <2> HIDE DEF Above
    <2> QED
      BY <2>1, <2>2, FS_Subset
  <1>4. ASSUME NEW u \in S, NEW v \in S, N(u) = N(v)
        PROVE  u = v
    <2>1. u \in Nat /\ v \in Nat /\ N(u) \in Nat
      BY <1>1
    <2>2. ~(u < v) /\ ~(v < u)
      BY <1>3, <1>4, <2>1
    <2> QED
      BY <2>1, <2>2
  <1>5. \A u \in S : N(u) \in 1 .. Cardinality(S)
    BY <1>1, <1>2, FS_CardinalityType
  <1> QED
    BY <1>4, <1>5

\* A selection is injective.
LEMMA SelectionInjective ==
  ASSUME NEW n \in Nat, NEW S, S \subseteq 1 .. n, NEW pos \in Selections(S)
  PROVE  /\ Cardinality(S) \in Nat
         /\ pos \in [1 .. Cardinality(S) -> S]
         /\ \A i, j \in 1 .. Cardinality(S) : pos[i] = pos[j] => i = j
  <1>1. IsFiniteSet(S) /\ Cardinality(S) \in Nat
    <2>1. IsFiniteSet(1 .. n)
      BY FS_Interval
    <2> QED
      BY <2>1, FS_Subset, FS_CardinalityType
  <1>2. /\ pos \in [1 .. Cardinality(S) -> S]
        /\ \A i, j \in 1 .. Cardinality(S) : i < j => pos[i] < pos[j]
    BY DEF Selections
  <1>3. ASSUME NEW i \in 1 .. Cardinality(S), NEW j \in 1 .. Cardinality(S), pos[i] = pos[j]
        PROVE  i = j
    <2>1. pos[i] \in Nat /\ pos[j] \in Nat
      <3>1. pos[i] \in S /\ pos[j] \in S
        BY <1>2
      <3>2. \A x \in 1 .. n : x \in Nat
        OBVIOUS
      <3> QED
        BY <3>1, <3>2
    <2>2. ~(pos[i] < pos[j]) /\ ~(pos[j] < pos[i])
      BY <1>3, <2>1
    <2>3. ~(i < j) /\ ~(j < i)
      BY <1>2, <2>2
    <2> QED
      BY <1>1, <2>3
  <1> QED
    BY <1>1, <1>2, <1>3

\* An interval of naturals is well-ordered: CHOOSE finds the least element.
LEMMA LeastExists ==
  ASSUME NEW n \in Nat, NEW S, S \subseteq 1 .. n, S # {}
  PROVE  (CHOOSE x \in S : \A y \in S : x <= y) \in S
  <1>1. S \in SUBSET Nat
    OBVIOUS
  <1>2. \E x \in S : \A y \in S : ~(<<y, x>> \in OpToRel(<, Nat))
    BY <1>1, NatLessThanWellFounded, WFMin
  <1>3. PICK x \in S : \A y \in S : ~(<<y, x>> \in OpToRel(<, Nat))
    BY <1>2
  <1>4. \A y \in S : ~(y < x)
    BY <1>1, <1>3 DEF OpToRel
  <1>5. \A y \in S : x <= y
    BY <1>1, <1>4
  <1> QED
    BY <1>5

\* A sequence without its i-th element.
LEMMA RemoveAtProperties ==
  ASSUME NEW S, NEW s \in Seq(S), NEW i \in 1 .. Len(s)
  PROVE  /\ RemoveAt(s, i) \in Seq(S)
         /\ Len(RemoveAt(s, i)) = Len(s) - 1
         /\ \A j \in 1 .. Len(s) - 1 :
              RemoveAt(s, i)[j] = IF j < i THEN s[j] ELSE s[j + 1]
  <1> DEFINE left == SubSeq(s, 1, i - 1)
             right == SubSeq(s, i + 1, Len(s))
  <1>1. /\ left \in Seq(S) /\ Len(left) = i - 1
        /\ \A j \in 1 .. i - 1 : left[j] = s[j]
    <2>1. \A j \in 1 .. i - 1 : s[j] \in S
      OBVIOUS
    <2>2. Len(left) = IF 1 <= i - 1 THEN (i - 1) - 1 + 1 ELSE 0
      BY <2>1, SubSeqProperties
    <2> QED
      BY <2>1, <2>2, SubSeqProperties
  <1>2. /\ right \in Seq(S) /\ Len(right) = Len(s) - i
        /\ \A j \in 1 .. Len(s) - i : right[j] = s[j + i]
    <2>1. \A j \in i + 1 .. Len(s) : s[j] \in S
      OBVIOUS
    <2>2. /\ right \in Seq(S)
          /\ Len(right) = IF i + 1 <= Len(s) THEN Len(s) - (i + 1) + 1 ELSE 0
          /\ \A j \in 1 .. Len(s) - (i + 1) + 1 : right[j] = s[(i + 1) + j - 1]
      BY <2>1, SubSeqProperties
    <2>3. \A j \in 1 .. Len(s) - i : (i + 1) + j - 1 = j + i
      OBVIOUS
    <2> QED
      BY <2>2, <2>3
  <1>3. RemoveAt(s, i) = left \o right
    BY DEF RemoveAt
  <1> HIDE DEF left, right
  <1>4. /\ left \o right \in Seq(S)
        /\ Len(left \o right) = Len(left) + Len(right)
        /\ \A j \in 1 .. Len(left) + Len(right) :
              (left \o right)[j] = IF j <= Len(left) THEN left[j] ELSE right[j - Len(left)]
    BY <1>1, <1>2, ConcatProperties
  <1>5. ASSUME NEW j \in 1 .. Len(s) - 1
        PROVE  (left \o right)[j] = IF j < i THEN s[j] ELSE s[j + 1]
    <2>1. j \in 1 .. Len(left) + Len(right) /\ (j < i <=> j <= Len(left))
      BY <1>1, <1>2
    <2>2. CASE j < i
      BY <1>1, <1>4, <2>1, <2>2
    <2>3. CASE ~(j < i)
      <3>1. /\ j - Len(left) \in 1 .. Len(s) - i
            /\ (j - Len(left)) + i = j + 1
        BY <1>1, <2>3
      <3>2. right[j - Len(left)] = s[(j - Len(left)) + i]
        BY <1>2, <3>1
      <3> QED
        BY <1>4, <2>1, <2>3, <3>1, <3>2
    <2> QED
      BY <2>2, <2>3
  <1> QED
    BY <1>1, <1>2, <1>3, <1>4, <1>5

-----------------------------------------------------------------------------
(* Assigning objects to tracks. *)

Assignments(n, m) == [current : [1 .. n -> 0 .. m], merged : [1 .. m -> 0 .. n]]

\* The maps are inverse to each other.
Mutual(a) ==
  /\ \A t \in DOMAIN a.current : a.current[t] # 0 => a.merged[a.current[t]] = t
  /\ \A o \in DOMAIN a.merged : a.merged[o] # 0 => a.current[a.merged[o]] = o

\* The second loop over the pairs never takes an object from a track but the one
\* that got it in the first, g.
TakenFrom(a, g) ==
  /\ \A o \in DOMAIN a.merged : a.merged[o] # 0 => \E t \in DOMAIN a.current : a.current[t] = o
  /\ \A u \in DOMAIN a.current : ~tracks[u].active => a.current[u] \in {0, g.current[u]}
  /\ \A o \in DOMAIN a.merged :
       a.merged[o] # 0 /\ ~tracks[a.merged[o]].active => g.current[a.merged[o]] = o

\* The fields of an assignment.
LEMMA AssignmentFields ==
  ASSUME NEW n, NEW m, NEW a \in Assignments(n, m)
  PROVE  /\ a.current \in [1 .. n -> 0 .. m] /\ DOMAIN a.current = 1 .. n
         /\ a.merged \in [1 .. m -> 0 .. n] /\ DOMAIN a.merged = 1 .. m
  BY DEF Assignments

\* What the first loop does with a pair.
LEMMA AssignStep ==
  ASSUME NEW n \in Nat, NEW m \in Nat, NEW a \in Assignments(n, m),
         NEW pair \in [track : 1 .. n, object : 1 .. m]
  PROVE  /\ Assign(a, pair) \in Assignments(n, m)
         /\ Mutual(a) => Mutual(Assign(a, pair))
  <1> DEFINE b == Assign(a, pair)
             t == pair.track
             o == pair.object
  <1>1. t \in 1 .. n /\ o \in 1 .. m
    OBVIOUS
  <1>2. /\ a.current \in [1 .. n -> 0 .. m] /\ DOMAIN a.current = 1 .. n
        /\ a.merged \in [1 .. m -> 0 .. n] /\ DOMAIN a.merged = 1 .. m
    BY AssignmentFields
  <1>3. CASE a.current[t] = 0 /\ a.merged[o] = 0
    <2> DEFINE current == [a.current EXCEPT ![t] = o]
               merged == [a.merged EXCEPT ![o] = t]
    <2>1. b = [current |-> current, merged |-> merged]
      BY <1>3 DEF Assign
    <2> HIDE DEF b, t, o
    <2>2. current \in [1 .. n -> 0 .. m] /\ merged \in [1 .. m -> 0 .. n]
      BY <1>1, <1>2
    <2>3. /\ \A i \in 1 .. n : current[i] = IF i = t THEN o ELSE a.current[i]
          /\ \A i \in 1 .. m : merged[i] = IF i = o THEN t ELSE a.merged[i]
      BY <1>1, <1>2
    <2> HIDE DEF current, merged
    <2>4. b.current = current /\ b.merged = merged /\ b \in Assignments(n, m)
      BY <2>1, <2>2 DEF Assignments
    <2>5. ASSUME Mutual(a), NEW i \in 1 .. n, current[i] # 0
          PROVE  merged[current[i]] = i
      <3>1. CASE i = t
        BY <1>1, <2>3, <3>1
      <3>2. CASE i # t
        <4>1. current[i] = a.current[i] /\ a.current[i] \in 1 .. m
          BY <1>2, <2>3, <2>5, <3>2
        <4>2. a.merged[a.current[i]] = i
          BY <1>2, <2>5, <4>1 DEF Mutual
        <4>3. a.current[i] # o
          BY <1>3, <4>2
        <4> QED
          BY <2>3, <4>1, <4>2, <4>3
      <3> QED
        BY <3>1, <3>2
    <2>6. ASSUME Mutual(a), NEW i \in 1 .. m, merged[i] # 0
          PROVE  current[merged[i]] = i
      <3>1. CASE i = o
        BY <1>1, <2>3, <3>1
      <3>2. CASE i # o
        <4>1. merged[i] = a.merged[i] /\ a.merged[i] \in 1 .. n
          BY <1>2, <2>3, <2>6, <3>2
        <4>2. a.current[a.merged[i]] = i
          BY <1>2, <2>6, <4>1 DEF Mutual
        <4>3. a.merged[i] # t
          BY <1>3, <4>2
        <4> QED
          BY <2>3, <4>1, <4>2, <4>3
      <3> QED
        BY <3>1, <3>2
    <2>7. DOMAIN b.current = 1 .. n /\ DOMAIN b.merged = 1 .. m
      BY <2>2, <2>4
    <2>8. Mutual(a) => Mutual(b)
      BY <2>4, <2>5, <2>6, <2>7 DEF Mutual
    <2> QED
      BY <2>4, <2>8 DEF b
  <1>4. CASE ~(a.current[t] = 0 /\ a.merged[o] = 0)
    BY <1>4 DEF Assign
  <1> QED
    BY <1>3, <1>4

\* What the second loop does with a pair, as long as it reads no garbage.  The
\* object goes from the track u to c.  The entry that is written by mistake is
\* that of the object x of the track with the index of the object: x is not the
\* object of u, or it is the object that goes to c.
LEMMA TakeOverStep ==
  ASSUME NEW n \in Nat, n = Len(tracks), NEW m \in Nat,
         NEW g \in Assignments(n, m), NEW a \in Assignments(n, m),
         NEW pair \in [track : 1 .. n, object : 1 .. m], NEW garbage \in 0 .. m
  PROVE  /\ TakeOver(a, pair, garbage) \in Assignments(n, m)
         /\ m <= n + 1 /\ TakenFrom(a, g) => TakenFrom(TakeOver(a, pair, garbage), g)
  <1> DEFINE b == TakeOver(a, pair, garbage)
             c == pair.track
             o == pair.object
             u == a.merged[o]
             x == CASE o <= n    -> a.current[o]
                    [] o = n + 1 -> 0
                    [] OTHER     -> garbage
  <1>1. c \in 1 .. n /\ o \in 1 .. m
    OBVIOUS
  <1>2. /\ a.current \in [1 .. n -> 0 .. m] /\ DOMAIN a.current = 1 .. n
        /\ a.merged \in [1 .. m -> 0 .. n] /\ DOMAIN a.merged = 1 .. m
    BY AssignmentFields
  <1>3. CASE MayTakeOver(a, pair)
    <2> DEFINE current == [a.current EXCEPT ![c] = o, ![u] = 0]
               merged == IF x = 0 THEN a.merged ELSE [a.merged EXCEPT ![x] = c]
    <2>1. b = [current |-> current, merged |-> merged]
      BY <1>3 DEF TakeOver
    <2>2. a.current[c] = 0 /\ u # 0 /\ ~tracks[u].active /\ tracks[c].active
      BY <1>3 DEF MayTakeOver
    <2> HIDE DEF b, c, o
    <2>3. u \in 1 .. n /\ c # u
      BY <1>1, <1>2, <2>2
    <2>4. x \in 0 .. m
      <3>1. CASE o <= n
        <4>1. o \in 1 .. n
          BY <1>1, <3>1
        <4> QED
          BY <1>2, <3>1, <4>1
      <3>2. CASE o = n + 1
        BY <1>1, <3>2
      <3>3. CASE ~(o <= n) /\ o # n + 1
        BY <3>3
      <3> QED
        BY <3>1, <3>2, <3>3
    <2>5. m <= n + 1 /\ x # 0 => o \in 1 .. n /\ x = a.current[o]
      BY <1>1
    <2> HIDE DEF u, x
    <2>6. current \in [1 .. n -> 0 .. m] /\ merged \in [1 .. m -> 0 .. n]
      <3>1. 0 \in 0 .. m /\ o \in 0 .. m /\ c \in 0 .. n /\ (x # 0 => x \in 1 .. m)
        BY <1>1, <2>4
      <3>2. \A f \in [1 .. n -> 0 .. m] : \A i \in 1 .. n, j \in 0 .. m :
              [f EXCEPT ![i] = j] \in [1 .. n -> 0 .. m]
        OBVIOUS
      <3>3. current = [[a.current EXCEPT ![c] = o] EXCEPT ![u] = 0]
        OBVIOUS
      <3>4. current \in [1 .. n -> 0 .. m]
        <4> HIDE DEF current
        <4> QED
          BY <1>1, <1>2, <2>3, <3>1, <3>2, <3>3
      <3>5. merged \in [1 .. m -> 0 .. n]
        BY <1>2, <3>1
      <3> QED
        BY <3>4, <3>5
    <2>7. /\ \A i \in 1 .. n : current[i] = IF i = u THEN 0 ELSE IF i = c THEN o ELSE a.current[i]
          /\ \A i \in 1 .. m : merged[i] = IF i = x THEN c ELSE a.merged[i]
      <3>1. ASSUME NEW i \in 1 .. n
            PROVE  current[i] = IF i = u THEN 0 ELSE IF i = c THEN o ELSE a.current[i]
        BY <1>2, <2>3
      <3>2. ASSUME NEW i \in 1 .. m
            PROVE  merged[i] = IF i = x THEN c ELSE a.merged[i]
        <4>1. CASE x = 0
          BY <4>1, <1>2
        <4>2. CASE x # 0
          BY <4>2, <1>2
        <4> QED
          BY <4>1, <4>2
      <3> QED
        BY <3>1, <3>2
    <2> HIDE DEF current, merged
    <2>8. /\ b.current = current /\ b.merged = merged /\ b \in Assignments(n, m)
          /\ DOMAIN b.current = 1 .. n /\ DOMAIN b.merged = 1 .. m
      BY <2>1, <2>6 DEF Assignments
    <2>9. ASSUME m <= n + 1, TakenFrom(a, g)
          PROVE  TakenFrom(b, g)
      <3>1. g.current[u] = o /\ a.current[u] \in {0, o}
        BY <1>1, <1>2, <2>2, <2>3, <2>9 DEF TakenFrom, u
      <3>2. ASSUME NEW p \in 1 .. m, \E t \in 1 .. n : a.current[t] = p
            PROVE  \E t \in 1 .. n : current[t] = p
        <4>1. PICK t \in 1 .. n : a.current[t] = p
          BY <3>2
        <4>2. CASE p = o
          BY <1>1, <2>3, <2>7, <4>2
        <4>3. CASE p # o
          <5>1. t # u /\ t # c
            BY <2>2, <3>1, <4>1, <4>3
          <5> QED
            BY <2>7, <4>1, <5>1
        <4> QED
          BY <4>2, <4>3
      <3>3. ASSUME NEW p \in 1 .. m, merged[p] # 0
            PROVE  \E t \in 1 .. n : a.current[t] = p
        <4>1. CASE p = x
          BY <2>5, <2>9, <4>1
        <4>2. CASE p # x
          BY <1>2, <2>7, <2>9, <3>3, <4>2 DEF TakenFrom
        <4> QED
          BY <4>1, <4>2
      <3>4. ASSUME NEW i \in 1 .. n, ~tracks[i].active
            PROVE  current[i] \in {0, g.current[i]}
        BY <1>2, <2>2, <2>7, <2>9, <3>4 DEF TakenFrom
      <3>5. ASSUME NEW p \in 1 .. m, merged[p] # 0, ~tracks[merged[p]].active
            PROVE  g.current[merged[p]] = p
        <4>1. p # x
          BY <2>2, <2>7, <3>5
        <4> QED
          BY <1>2, <2>7, <2>9, <3>5, <4>1 DEF TakenFrom
      <3> QED
        BY <2>8, <3>2, <3>3, <3>4, <3>5 DEF TakenFrom
    <2> QED
      BY <2>8, <2>9 DEF b
  <1>4. CASE ~MayTakeOver(a, pair)
    BY <1>4 DEF TakeOver
  <1> QED
    BY <1>3, <1>4

\* What trackInfo may be is a sequence of pairs.
LEMMA PairsInOrder ==
  ASSUME NEW n \in Nat, NEW m \in Nat, NEW pairs \in SortedPairs(n, m)
  PROVE  /\ Len(pairs) \in Nat
         /\ \A k \in 1 .. Len(pairs) : pairs[k] \in [track : 1 .. n, object : 1 .. m]
  <1>1. PICK k \in 0 .. MaxPairs : pairs \in [1 .. k -> [track : 1 .. n, object : 1 .. m]]
    BY DEF SortedPairs
  <1>2. k \in Nat
    BY SetupAssumption
  <1> QED
    BY <1>1, <1>2

\* The first loop leaves maps that are inverse to each other.
LEMMA GreedyMutual ==
  ASSUME NEW n \in Nat, n = Len(tracks), NEW m \in Nat, NEW pairs \in SortedPairs(n, m)
  PROVE  Greedy(pairs, m) \in Assignments(n, m) /\ Mutual(Greedy(pairs, m))
  <1> DEFINE S == Assignments(n, m)
             L == Len(pairs)
             start == Unassigned(n, m)
             body == [k \in 1 .. L |-> [a \in S |-> Assign(a, pairs[k])]]
             Loop(f) == f = [k \in 0 .. L |-> IF k = 0 THEN start ELSE Assign(f[k - 1], pairs[k])]
             upTo == CHOOSE f : Loop(f)
  <1>1. L \in Nat /\ \A k \in 1 .. L : pairs[k] \in [track : 1 .. n, object : 1 .. m]
    BY PairsInOrder
  <1>2. start \in S /\ Mutual(start)
    BY DEF Unassigned, Assignments, Mutual
  <1>3. body \in [1 .. L -> [S -> S]]
    <2> HIDE DEF S, L
    <2> QED
      BY <1>1, AssignStep DEF S
  <1>4. ASSUME NEW f \in [0 .. L -> S],
               IsLoop(f, start, L, body)
        PROVE  Loop(f)
    <2>1. ASSUME NEW k \in 0 .. L
          PROVE  f[k] = IF k = 0 THEN start ELSE Assign(f[k - 1], pairs[k])
      <3>1. CASE k = 0
        BY <1>4, <3>1 DEF IsLoop
      <3>2. CASE k # 0
        <4>1. k \in 1 .. L /\ k - 1 \in 0 .. L
          BY <1>1, <3>2
        <4>2. f[k] = body[k][f[k - 1]] /\ f[k - 1] \in S
          BY <1>4, <3>2, <4>1 DEF IsLoop
        <4> QED
          BY <3>2, <4>1, <4>2
      <3> QED
        BY <3>1, <3>2
    <2> HIDE DEF S, L, start, body
    <2> QED
      BY <1>4, <2>1
  <1>5. \E f : Loop(f)
    <2> HIDE DEF S, L, start, body
    <2>1. \E f \in [0 .. L -> S] : IsLoop(f, start, L, body)
      <3>1. L \in Nat /\ start \in S
        BY <1>1, <1>2
      <3> HIDE DEF Loop, upTo
      <3> QED
        BY <1>3, <3>1, LoopExists
    <2> HIDE DEF Loop
    <2> QED
      BY <1>4, <2>1
  <1>6. Greedy(pairs, m) = upTo[L]
    BY DEF Greedy
  <1>7. Loop(upTo)
    <2> HIDE DEF Loop
    <2> QED
      BY <1>5
  <1> DEFINE T == {k \in Nat : k <= L => upTo[k] \in S /\ Mutual(upTo[k])}
  <1> HIDE DEF upTo, start, body, S, L
  <1>8. \A k \in 0 .. L : upTo[k] = IF k = 0 THEN start ELSE Assign(upTo[k - 1], pairs[k])
    BY <1>7
  <1> HIDE DEF Loop
  <1>9. 0 \in T
    BY <1>1, <1>2, <1>8
  <1>10. ASSUME NEW k \in Nat, k \in T
         PROVE  k + 1 \in T
    <2>1. SUFFICES ASSUME k + 1 <= L
                   PROVE  upTo[k + 1] \in S /\ Mutual(upTo[k + 1])
      OBVIOUS
    <2>2. k + 1 \in 0 .. L /\ k + 1 \in 1 .. L /\ k + 1 # 0 /\ (k + 1) - 1 = k /\ k <= L
      BY <1>1, <2>1
    <2>3. upTo[k + 1] = Assign(upTo[k], pairs[k + 1])
      BY <1>8, <2>2
    <2> QED
      BY <1>1, <1>10, <2>2, <2>3, AssignStep DEF S
  <1> HIDE DEF T
  <1>11. L \in T
    BY <1>1, <1>9, <1>10, EveryNumber
  <1> QED
    BY <1>1, <1>6, <1>11 DEF T, S

\* The second loop leaves no object without a track whose entry says it has one.
LEMMA HandedOverTakenFrom ==
  ASSUME NEW n \in Nat, n = Len(tracks), NEW m \in Nat, NEW pairs \in SortedPairs(n, m),
         NEW g \in Assignments(n, m), TakenFrom(g, g), NEW garbage \in 0 .. m
  PROVE  /\ HandedOver(pairs, g, garbage) \in Assignments(n, m)
         /\ m <= n + 1 => TakenFrom(HandedOver(pairs, g, garbage), g)
  <1> DEFINE S == Assignments(n, m)
             L == Len(pairs)
             body == [k \in 1 .. L |-> [a \in S |-> TakeOver(a, pairs[k], garbage)]]
             Loop(f) ==
               f = [k \in 0 .. L |-> IF k = 0 THEN g ELSE TakeOver(f[k - 1], pairs[k], garbage)]
             upTo == CHOOSE f : Loop(f)
  <1>1. L \in Nat /\ \A k \in 1 .. L : pairs[k] \in [track : 1 .. n, object : 1 .. m]
    BY PairsInOrder
  <1>2. g \in S
    OBVIOUS
  <1>3. body \in [1 .. L -> [S -> S]]
    <2> HIDE DEF S, L
    <2> QED
      BY <1>1, <1>2, TakeOverStep DEF S
  <1>4. ASSUME NEW f \in [0 .. L -> S],
               IsLoop(f, g, L, body)
        PROVE  Loop(f)
    <2>1. ASSUME NEW k \in 0 .. L
          PROVE  f[k] = IF k = 0 THEN g ELSE TakeOver(f[k - 1], pairs[k], garbage)
      <3>1. CASE k = 0
        BY <1>4, <3>1 DEF IsLoop
      <3>2. CASE k # 0
        <4>1. k \in 1 .. L /\ k - 1 \in 0 .. L
          BY <1>1, <3>2
        <4>2. f[k] = body[k][f[k - 1]] /\ f[k - 1] \in S
          BY <1>4, <3>2, <4>1 DEF IsLoop
        <4> QED
          BY <3>2, <4>1, <4>2
      <3> QED
        BY <3>1, <3>2
    <2> HIDE DEF S, L, body
    <2> QED
      BY <1>4, <2>1
  <1>5. \E f : Loop(f)
    <2> HIDE DEF S, L, body
    <2>1. \E f \in [0 .. L -> S] : IsLoop(f, g, L, body)
      <3>1. L \in Nat /\ g \in S
        BY <1>1, <1>2
      <3> HIDE DEF Loop, upTo
      <3> QED
        BY <1>3, <3>1, LoopExists
    <2> HIDE DEF Loop
    <2> QED
      BY <1>4, <2>1
  <1>6. HandedOver(pairs, g, garbage) = upTo[L]
    BY DEF HandedOver
  <1>7. Loop(upTo)
    <2> HIDE DEF Loop
    <2> QED
      BY <1>5
  <1> DEFINE T == {k \in Nat : k <= L => upTo[k] \in S /\ (m <= n + 1 => TakenFrom(upTo[k], g))}
  <1> HIDE DEF upTo, body, S, L
  <1>8. \A k \in 0 .. L : upTo[k] = IF k = 0 THEN g ELSE TakeOver(upTo[k - 1], pairs[k], garbage)
    BY <1>7
  <1> HIDE DEF Loop
  <1>9. 0 \in T
    BY <1>1, <1>2, <1>8
  <1>10. ASSUME NEW k \in Nat, k \in T
         PROVE  k + 1 \in T
    <2>1. SUFFICES ASSUME k + 1 <= L
                   PROVE  upTo[k + 1] \in S /\ (m <= n + 1 => TakenFrom(upTo[k + 1], g))
      OBVIOUS
    <2>2. k + 1 \in 0 .. L /\ k + 1 \in 1 .. L /\ k + 1 # 0 /\ (k + 1) - 1 = k /\ k <= L
      BY <1>1, <2>1
    <2>3. upTo[k + 1] = TakeOver(upTo[k], pairs[k + 1], garbage)
      BY <1>8, <2>2
    <2> QED
      BY <1>1, <1>10, <2>2, <2>3, TakeOverStep DEF S
  <1> HIDE DEF T
  <1>11. L \in T
    BY <1>1, <1>9, <1>10, EveryNumber
  <1> QED
    BY <1>1, <1>6, <1>11 DEF T, S

\* An assignment serves every object it calls assigned.
LEMMA AssignmentServes ==
  ASSUME Len(tracks) \in Nat, NEW m \in Nat,
         NEW pairs \in SortedPairs(Len(tracks), m), NEW garbage \in 0 .. m
  PROVE  LET a == Assignment(pairs, m, garbage)
         IN  /\ a \in Assignments(Len(tracks), m)
             /\ m <= Len(tracks) + 1 =>
                  \A o \in 1 .. m : a.merged[o] # 0 => \E t \in 1 .. Len(tracks) : a.current[t] = o
  <1> DEFINE n == Len(tracks)
             g == Greedy(pairs, m)
             a == Assignment(pairs, m, garbage)
  <1>1. CASE m = 0
    <2>1. a = Unassigned(n, m)
      BY <1>1 DEF Assignment
    <2> HIDE DEF a
    <2>2. a.current = [t \in 1 .. n |-> 0] /\ a.merged = [o \in 1 .. m |-> 0]
      BY <2>1 DEF Unassigned
    <2>3. a \in Assignments(n, m)
      BY <2>1 DEF Unassigned, Assignments
    <2>4. 1 .. m = {}
      BY <1>1
    <2> QED
      BY <2>3, <2>4 DEF a
  <1>2. CASE m # 0
    <2>1. g \in Assignments(n, m) /\ Mutual(g)
      BY GreedyMutual
    <2>2. a = HandedOver(pairs, g, garbage)
      BY <1>2 DEF Assignment
    <2> HIDE DEF g, a
    <2>3. TakenFrom(g, g)
      <3>1. /\ g.current \in [1 .. n -> 0 .. m] /\ DOMAIN g.current = 1 .. n
            /\ g.merged \in [1 .. m -> 0 .. n] /\ DOMAIN g.merged = 1 .. m
        BY <2>1, AssignmentFields
      <3> QED
        BY <2>1, <3>1 DEF TakenFrom, Mutual
    <2>4. a \in Assignments(n, m) /\ (m <= n + 1 => TakenFrom(a, g))
      BY <2>1, <2>2, <2>3, HandedOverTakenFrom
    <2>5. DOMAIN a.current = 1 .. n /\ DOMAIN a.merged = 1 .. m
      BY <2>4, AssignmentFields
    <2> QED
      BY <2>4, <2>5 DEF TakenFrom, a
  <1> QED
    BY <1>1, <1>2

-----------------------------------------------------------------------------
(* Ids left behind by dropped tracks. *)

\* A track left behind has an id of its own: issued long ago if the track was
\* activated, and then it is in use nowhere else, or issued now.
LEMMA LeftBehind ==
  ASSUME IInv, NEW drop, drop \subseteq DOMAIN tracks, NEW host \in Hosts(drop)
  PROVE  LET L == {u \in DOMAIN host : host[u] # 0}
             n == counter + Cardinality(Numbered(host))
         IN  /\ n \in Nat /\ counter <= n
             /\ \A u \in L : IdOf(u, host) \in 1 .. n
             /\ \A u \in L : IdOf(u, host) \in LiveIds \/ IdOf(u, host) > counter
             /\ \A u, v \in L : IdOf(u, host) = IdOf(v, host) => u = v
             /\ \A u \in L, t \in DOMAIN tracks \ drop :
                  tracks[t].active => IdOf(u, host) # tracks[t].id
             /\ \A u \in L, t \in DOMAIN tracks : \A e \in tracks[t].latent :
                  IdOf(u, host) # e.id
  <1> DEFINE L == {u \in DOMAIN host : host[u] # 0}
             S == Numbered(host)
             N(u) == Cardinality({v \in S : v >= u})
             n == counter + Cardinality(S)
  <1>1. /\ DOMAIN host = drop /\ DOMAIN tracks = 1 .. Len(tracks) /\ Len(tracks) \in Nat
        /\ counter \in Nat
    BY DEF IInv, TypeOK, Hosts
  <1>2. S \subseteq drop /\ S \subseteq Nat /\ IsFiniteSet(S) /\ Cardinality(S) \in Nat
    <2>1. S \subseteq drop /\ S \subseteq 1 .. Len(tracks)
      BY <1>1 DEF Numbered
    <2>2. IsFiniteSet(1 .. Len(tracks))
      BY <1>1, FS_Interval
    <2> HIDE DEF S
    <2> QED
      BY <2>1, <2>2, FS_Subset, FS_CardinalityType
  <1>3. /\ \A u \in S : N(u) \in 1 .. Cardinality(S)
        /\ \A u, v \in S : N(u) = N(v) => u = v
    <2> HIDE DEF S
    <2> QED
      BY <1>2, CountFromAbove
  <1>4. ASSUME NEW u \in L
        PROVE  \/ tracks[u].active /\ IdOf(u, host) = tracks[u].id
               \/ ~tracks[u].active /\ u \in S /\ IdOf(u, host) = counter + N(u)
    BY <1>4 DEF IdOf, Numbered
  <1>5. ASSUME NEW u \in L
        PROVE  \/ /\ tracks[u].active /\ IdOf(u, host) = tracks[u].id
                  /\ tracks[u].id \in 1 .. counter
               \/ /\ ~tracks[u].active /\ u \in S /\ IdOf(u, host) = counter + N(u)
                  /\ N(u) \in 1 .. Cardinality(S)
    <2>1. u \in DOMAIN tracks
      BY <1>1
    <2> HIDE DEF L, S, N
    <2> QED
      BY <1>3, <1>4, <2>1 DEF IInv, IssuedIn
  <1> HIDE DEF N, S
  <1>6. n \in Nat /\ counter <= n /\ \A u \in L : IdOf(u, host) \in 1 .. n
    BY <1>1, <1>2, <1>5
  <1>7. \A u, v \in L : IdOf(u, host) = IdOf(v, host) => u = v
    <2> SUFFICES ASSUME NEW u \in L, NEW v \in L, IdOf(u, host) = IdOf(v, host)
                 PROVE  u = v
      OBVIOUS
    <2>1. u \in DOMAIN tracks /\ v \in DOMAIN tracks
      BY <1>1
    <2>2. CASE tracks[u].active /\ tracks[v].active
      BY <1>5, <2>1, <2>2 DEF IInv, UniqueIn
    <2>3. CASE ~tracks[u].active /\ ~tracks[v].active
      <3>1. N(u) = N(v) /\ u \in S /\ v \in S
        BY <1>1, <1>2, <1>5, <2>3
      <3> QED
        BY <1>3, <3>1
    <2>4. CASE tracks[u].active /\ ~tracks[v].active
      BY <1>1, <1>2, <1>5, <2>4
    <2>5. CASE ~tracks[u].active /\ tracks[v].active
      BY <1>1, <1>2, <1>5, <2>5
    <2> QED
      BY <2>2, <2>3, <2>4, <2>5
  <1>8. ASSUME NEW u \in L, NEW t \in DOMAIN tracks \ drop, tracks[t].active
        PROVE  IdOf(u, host) # tracks[t].id
    <2>1. u \in DOMAIN tracks /\ t # u /\ tracks[t].id \in 1 .. counter
      BY <1>1, <1>8 DEF IInv, IssuedIn
    <2>2. CASE tracks[u].active
      BY <1>5, <1>8, <2>1, <2>2 DEF IInv, UniqueIn
    <2>3. CASE ~tracks[u].active
      BY <1>1, <1>2, <1>5, <2>1, <2>3
    <2> QED
      BY <2>2, <2>3
  <1>9. ASSUME NEW u \in L, NEW t \in DOMAIN tracks, NEW e \in tracks[t].latent
        PROVE  IdOf(u, host) # e.id
    <2>1. u \in DOMAIN tracks /\ e.id \in 1 .. counter
      BY <1>1 DEF IInv, IssuedIn
    <2>2. CASE tracks[u].active
      BY <1>5, <2>1, <2>2 DEF IInv, UniqueIn
    <2>3. CASE ~tracks[u].active
      BY <1>1, <1>2, <1>5, <2>1, <2>3
    <2> QED
      BY <2>2, <2>3
  <1>10. \A u \in L : IdOf(u, host) \in LiveIds \/ IdOf(u, host) > counter
    <2> SUFFICES ASSUME NEW u \in L
                 PROVE  IdOf(u, host) \in LiveIds \/ IdOf(u, host) > counter
      OBVIOUS
    <2>1. CASE tracks[u].active
      <3>1. u \in DOMAIN tracks
        BY <1>1
      <3> QED
        BY <1>5, <2>1, <3>1, LiveAtTracks
    <2>2. CASE ~tracks[u].active
      BY <1>1, <1>2, <1>5, <2>2
    <2> QED
      BY <2>1, <2>2
  <1> QED
    BY <1>6, <1>7, <1>8, <1>9, <1>10 DEF S

-----------------------------------------------------------------------------
(* The actions. *)

\* The tracks after unite(): those kept, in order, then new ones.
LEMMA UniteKeepsIInv ==
  ASSUME IInv, OpenOnStart,
         NEW step \in Steps, NEW pairs, NEW garbage, Unite(step, pairs, garbage)
  PROVE  IInv' /\ FreshIds
  <1> DEFINE m == objects
             a == Assignment(pairs, m, garbage)
             drop == Dropped(a, step)
             K == DOMAIN tracks \ drop
             kept == Cardinality(K)
             new == Cardinality({o \in 1 .. m : a.merged[o] = 0})
  <1>1. PICK host \in Hosts(drop), pos \in Selections(K) :
          /\ tracks' =
               [j \in 1 .. kept + new |->
                  IF j <= kept
                  THEN [Aged(pos[j], a, step) EXCEPT !.latent = @ \cup Left(pos[j], host)]
                  ELSE NewTrack]
          /\ counter' = counter + Cardinality(Numbered(host))
    BY DEF Unite
  <1>2. /\ objects # NoFrame /\ m \in Nat
        /\ frame'.step = step /\ at' = 1 /\ objects' = NoFrame
        /\ UNCHANGED <<isStarted, trackStarted>>
    BY DEF Unite, IInv, TypeOK
  <1> HIDE DEF m
  <1>3. /\ drop \subseteq DOMAIN tracks
        /\ DOMAIN tracks = 1 .. Len(tracks) /\ Len(tracks) \in Nat
        /\ K \subseteq 1 .. Len(tracks)
    <2> HIDE DEF a
    <2> QED
      BY DEF IInv, TypeOK, Dropped
  <1>a. \A t \in K : a.current[t] = 0 => ~(tracks[t].unseen + step >= KeepTime)
    <2> HIDE DEF a
    <2> QED
      BY DEF Dropped
  <1>4. new \in Nat /\ (m = 0 => new = 0)
    <2> DEFINE O == {o \in 1 .. m : a.merged[o] = 0}
    <2>1. IsFiniteSet(1 .. m)
      <3>1. m \in Int /\ 1 \in Int
        BY <1>2
      <3> HIDE DEF m
      <3> QED
        BY <3>1, FS_Interval
    <2>2. O \subseteq 1 .. m
      OBVIOUS
    <2>3. m = 0 => O = {}
      OBVIOUS
    <2> HIDE DEF O
    <2>4. Cardinality(O) \in Nat /\ (m = 0 => Cardinality(O) = 0)
      BY <2>1, <2>2, <2>3, FS_Subset, FS_CardinalityType, FS_EmptySet
    <2> QED
      BY <2>4 DEF O
  <1> DEFINE L == {u \in DOMAIN host : host[u] # 0}
             n == counter + Cardinality(Numbered(host))
             id(u) == IdOf(u, host)
  <1>5. /\ n \in Nat /\ counter <= n /\ counter \in Nat
        /\ \A u \in L : id(u) \in 1 .. n
        /\ \A u \in L : id(u) \in LiveIds \/ id(u) > counter
        /\ \A u, v \in L : id(u) = id(v) => u = v
        /\ \A u \in L, t \in K : tracks[t].active => id(u) # tracks[t].id
        /\ \A u \in L, t \in DOMAIN tracks : \A e \in tracks[t].latent : id(u) # e.id
    <2> HIDE DEF drop
    <2> QED
      BY <1>3, LeftBehind DEF IInv, TypeOK
  <1>6. /\ kept \in Nat
        /\ pos \in [1 .. kept -> K]
        /\ \A i, j \in 1 .. kept : pos[i] = pos[j] => i = j
    <2> HIDE DEF K
    <2> QED
      BY <1>3, SelectionInjective
  <1> HIDE DEF a, drop, new, kept
  \* The entries of a track that is kept.
  <1>7. ASSUME NEW j \in 1 .. kept
        PROVE  /\ pos[j] \in K /\ pos[j] \in DOMAIN tracks
               /\ tracks'[j].active = tracks[pos[j]].active
               /\ tracks'[j].id = tracks[pos[j]].id
               /\ tracks'[j] \in Track
               /\ tracks'[j].unseen =
                    IF a.current[pos[j]] = 0 THEN tracks[pos[j]].unseen + step ELSE 0
               /\ \A e \in tracks'[j].latent :
                    \/ \E f \in tracks[pos[j]].latent :
                         f.id = e.id /\ e = [f EXCEPT !.age = @ + step]
                    \/ \E u \in L : host[u] = pos[j] /\ e = [id |-> id(u), age |-> 0]
    <2> DEFINE t == pos[j]
               aged == Aged(t, a, step)
    <2>1. t \in K /\ t \in DOMAIN tracks /\ tracks[t] \in Track
      BY <1>6 DEF IInv, TypeOK
    <2>2. tracks'[j] = [aged EXCEPT !.latent = @ \cup Left(t, host)]
      <3>1. j \in 1 .. kept + new /\ j <= kept
        BY <1>4, <1>6
      <3> QED
        BY <1>1, <3>1
    <2> HIDE DEF t, L
    <2>3. step \in Nat /\ AgeCap \in Nat
      BY TimeAssumption
    <2>4. Older(tracks[t].age, step) \in 0 .. AgeCap
      BY <2>1, <2>3 DEF Track, Older
    <2>5. (IF a.current[t] = 0 THEN tracks[t].unseen + step ELSE 0) \in Unseen
      <3>1. tracks[t].unseen \in Nat /\ KeepTime \in Nat
        BY <2>1, TimeAssumption DEF Track, Unseen
      <3>2. a.current[t] = 0 => tracks[t].unseen + step < KeepTime
        BY <1>a, <2>1, <2>3, <3>1
      <3> QED
        BY <2>3, <3>1, <3>2 DEF Unseen
    <2>6. \A f \in tracks[t].latent :
            /\ [f EXCEPT !.age = @ + step] \in LatentEntry
            /\ [f EXCEPT !.age = @ + step].id = f.id
      BY <2>1, <2>3 DEF Track, LatentEntry
    <2>7. /\ aged.active = tracks[t].active /\ aged.id = tracks[t].id
          /\ aged.latent = {[f EXCEPT !.age = @ + step] : f \in tracks[t].latent}
          /\ aged.unseen = IF a.current[t] = 0 THEN tracks[t].unseen + step ELSE 0
          /\ aged \in Track
      <3> DEFINE age == Older(tracks[t].age, step)
                 unseen == IF a.current[t] = 0 THEN tracks[t].unseen + step ELSE 0
                 latent == {[f EXCEPT !.age = @ + step] : f \in tracks[t].latent}
      <3>1. aged = [tracks[t] EXCEPT !.age = age, !.unseen = unseen, !.latent = latent]
        BY DEF Aged
      <3>2. latent \in SUBSET LatentEntry
        BY <2>6
      <3>3. age \in 0 .. AgeCap /\ unseen \in Unseen
        BY <2>4, <2>5
      <3> HIDE DEF aged, age, unseen, latent
      <3>4. /\ aged.active = tracks[t].active /\ aged.id = tracks[t].id
            /\ aged.latent = latent /\ aged.unseen = unseen /\ aged \in Track
        BY <2>1, <3>1, <3>2, <3>3 DEF Track
      <3> QED
        BY <3>4 DEF latent, unseen
    <2>8. Left(t, host) \subseteq {[id |-> id(u), age |-> 0] : u \in {v \in L : host[v] = t}}
      <3>1. t # 0 /\ L = {u \in DOMAIN host : host[u] # 0}
        BY <1>3, <2>1 DEF L
      <3> QED
        BY <3>1 DEF Left
    <2>9. Left(t, host) \subseteq LatentEntry
      BY <1>5, <2>8 DEF LatentEntry
    <2>10. tracks'[j] \in Track
      BY <2>2, <2>7, <2>9 DEF Track
    <2>11. /\ tracks'[j].latent = aged.latent \cup Left(t, host)
           /\ tracks'[j].active = aged.active /\ tracks'[j].id = aged.id
           /\ tracks'[j].unseen = aged.unseen
      BY <2>2, <2>7 DEF Track
    <2> HIDE DEF aged
    <2>12. ASSUME NEW e \in tracks'[j].latent
           PROVE  \/ \E f \in tracks[t].latent : f.id = e.id /\ e = [f EXCEPT !.age = @ + step]
                  \/ \E u \in L : host[u] = t /\ e = [id |-> id(u), age |-> 0]
      BY <2>6, <2>7, <2>8, <2>11
    <2> QED
      BY <2>1, <2>7, <2>10, <2>11, <2>12 DEF t
  \* A new track.
  <1>8. ASSUME NEW j \in 1 .. kept + new, ~(j <= kept)
        PROVE  tracks'[j] = NewTrack
    BY <1>1, <1>8
  <1>9. DOMAIN tracks' = 1 .. kept + new /\ kept + new \in Nat
    BY <1>1, <1>4, <1>6
  <1>10. NewTrack \in Track /\ NewTrack.active = FALSE /\ NewTrack.latent = {}
    BY TimeAssumption DEF NewTrack, Track, LatentEntry, Unseen
  <1>11. tracks' \in Seq(Track)
    <2>1. \A j \in 1 .. kept + new : tracks'[j] \in Track
      <3> SUFFICES ASSUME NEW j \in 1 .. kept + new PROVE tracks'[j] \in Track
        OBVIOUS
      <3>1. CASE j <= kept
        BY <1>4, <1>6, <1>7, <3>1
      <3> QED
        BY <1>8, <1>10, <3>1
    <2>2. tracks' = [j \in 1 .. kept + new |-> tracks'[j]]
      BY <1>1
    <2> QED
      BY <1>9, <2>1, <2>2
  <1>12. ASSUME NEW j \in DOMAIN tracks', tracks'[j].active \/ tracks'[j].latent # {}
         PROVE  j \in 1 .. kept
    BY <1>4, <1>6, <1>8, <1>9, <1>10, <1>12
  <1>13. UniqueIn(tracks')
    <2> SUFFICES
          ASSUME NEW i \in DOMAIN tracks', NEW j \in DOMAIN tracks'
          PROVE  /\ tracks'[i].active /\ tracks'[j].active /\ tracks'[i].id = tracks'[j].id
                      => i = j
                 /\ \A e \in tracks'[i].latent :
                      /\ tracks'[j].active => e.id # tracks'[j].id
                      /\ \A f \in tracks'[j].latent : e.id = f.id => i = j /\ e = f
      BY DEF UniqueIn
    <2> HIDE DEF L, K, id
    <2>1. tracks'[i].active /\ tracks'[j].active /\ tracks'[i].id = tracks'[j].id => i = j
      BY <1>6, <1>7, <1>12 DEF IInv, UniqueIn
    <2>2. ASSUME NEW e \in tracks'[i].latent, tracks'[j].active
          PROVE  e.id # tracks'[j].id
      <3>1. i \in 1 .. kept /\ j \in 1 .. kept
        BY <1>12, <2>2
      <3>2. CASE \E f \in tracks[pos[i]].latent : f.id = e.id
        BY <1>7, <2>2, <3>1, <3>2 DEF IInv, UniqueIn
      <3>3. CASE \E u \in L : e = [id |-> id(u), age |-> 0]
        BY <1>5, <1>7, <2>2, <3>1, <3>3
      <3> QED
        BY <1>7, <3>1, <3>2, <3>3
    <2>3. ASSUME NEW e \in tracks'[i].latent, NEW f \in tracks'[j].latent, e.id = f.id
          PROVE  i = j /\ e = f
      <3>1. i \in 1 .. kept /\ j \in 1 .. kept
        BY <1>12
      <3> DEFINE Old(x, t) == \E g \in tracks[t].latent :
                                g.id = x.id /\ x = [g EXCEPT !.age = @ + step]
                 Put(x, t) == \E u \in L : host[u] = t /\ x = [id |-> id(u), age |-> 0]
      <3>2. (Old(e, pos[i]) \/ Put(e, pos[i])) /\ (Old(f, pos[j]) \/ Put(f, pos[j]))
        BY <1>7, <3>1
      <3>3. CASE Old(e, pos[i]) /\ Old(f, pos[j])
        BY <1>6, <1>7, <2>3, <3>1, <3>3 DEF IInv, UniqueIn
      <3>4. CASE Put(e, pos[i]) /\ Put(f, pos[j])
        BY <1>5, <1>6, <2>3, <3>1, <3>4
      <3>5. CASE Old(e, pos[i]) /\ Put(f, pos[j])
        BY <1>5, <1>7, <2>3, <3>1, <3>5
      <3>6. CASE Put(e, pos[i]) /\ Old(f, pos[j])
        BY <1>5, <1>7, <2>3, <3>1, <3>6
      <3> QED
        BY <3>2, <3>3, <3>4, <3>5, <3>6
    <2> QED
      BY <2>1, <2>2, <2>3
  <1>14. IssuedIn(tracks', counter')
    <2> SUFFICES ASSUME NEW j \in DOMAIN tracks'
                 PROVE  /\ tracks'[j].active => tracks'[j].id \in 1 .. n
                        /\ \A e \in tracks'[j].latent : e.id \in 1 .. n
      BY <1>1 DEF IssuedIn
    <2> HIDE DEF L, K, id, n
    <2>1. \A x \in 1 .. counter : x \in 1 .. n
      BY <1>5
    <2>2. ASSUME tracks'[j].active PROVE tracks'[j].id \in 1 .. n
      BY <1>7, <1>12, <2>1, <2>2 DEF IInv, IssuedIn
    <2>3. ASSUME NEW e \in tracks'[j].latent PROVE e.id \in 1 .. n
      <3>1. j \in 1 .. kept
        BY <1>12
      <3>2. CASE \E f \in tracks[pos[j]].latent : f.id = e.id
        BY <1>7, <2>1, <3>1, <3>2 DEF IInv, IssuedIn
      <3>3. CASE \E u \in L : e = [id |-> id(u), age |-> 0]
        BY <1>5, <3>3
      <3> QED
        BY <1>7, <3>1, <3>2, <3>3
    <2> QED
      BY <2>2, <2>3
  <1>15. IdleUnlessStarted'
    <2> SUFFICES ASSUME isStarted # 1 PROVE IdleIn(tracks')
      BY <1>2 DEF IInv, IdleUnlessStarted
    <2>1. /\ IdleIn(tracks) /\ (m # 0 => tracks = <<>>)
      BY <1>2 DEF IInv, IdleUnlessStarted, m
    <2>2. L = {}
      BY <1>3, <2>1 DEF Hosts, Active, IdleIn
    <2>3. ASSUME NEW j \in 1 .. kept
          PROVE  /\ ~tracks'[j].active /\ tracks'[j].latent = {}
                 /\ tracks'[j].unseen > 0
      <3>1. pos[j] \in DOMAIN tracks /\ tracks[pos[j]] \in Track
        BY <1>7 DEF IInv, TypeOK
      <3>2. m = 0 /\ a.current[pos[j]] = 0
        <4>1. m = 0
          BY <2>1, <3>1
        <4> QED
          BY <3>1, <1>3, <4>1 DEF a, Assignment, Unassigned
      <3>3. tracks'[j].unseen = tracks[pos[j]].unseen + step
        BY <1>7, <2>3, <3>1, <3>2
      <3>4. step \in Nat \ {0} /\ tracks[pos[j]].unseen \in Nat
        BY <3>1, TimeAssumption DEF Track, Unseen
      <3> QED
        BY <1>7, <2>1, <2>2, <3>1, <3>3, <3>4 DEF IdleIn
    <2>4. ASSUME NEW j \in 1 .. kept + new, ~(j <= kept)
          PROVE  ~tracks'[j].active /\ tracks'[j].latent = {} /\ tracks'[j].age = 0
      BY <1>8, <2>4 DEF NewTrack
    <2>5. \A j \in 1 .. kept + new : j <= kept => j \in 1 .. kept
      BY <1>4, <1>6
    <2> QED
      BY <1>9, <2>3, <2>4, <2>5 DEF IdleIn
  <1>16. TypeOK'
    <2>1. counter' \in Nat
      BY <1>1, <1>5
    <2> QED
      BY <1>2, <1>11, <2>1 DEF IInv, TypeOK
  <1>17. FreshIds
    <2> SUFFICES ASSUME NEW j \in DOMAIN tracks'
                 PROVE  /\ tracks'[j].active =>
                             tracks'[j].id \in LiveIds \/ tracks'[j].id > counter
                        /\ \A e \in tracks'[j].latent : e.id \in LiveIds \/ e.id > counter
      BY FreshFromTracks
    <2> HIDE DEF L, K, id, n
    <2>1. ASSUME tracks'[j].active PROVE tracks'[j].id \in LiveIds
      BY <1>7, <1>12, <2>1, LiveAtTracks
    <2>2. ASSUME NEW e \in tracks'[j].latent PROVE e.id \in LiveIds \/ e.id > counter
      <3>1. j \in 1 .. kept
        BY <1>12
      <3>2. CASE \E f \in tracks[pos[j]].latent : f.id = e.id
        BY <1>7, <3>1, <3>2, LiveAtTracks
      <3>3. CASE \E u \in L : e = [id |-> id(u), age |-> 0]
        BY <1>5, <3>3
      <3> QED
        BY <1>7, <3>1, <3>2, <3>3
    <2> QED
      BY <2>1, <2>2
  <1> QED
    BY <1>13, <1>14, <1>15, <1>16, <1>17 DEF IInv, UniqueIn, IssuedIn

\* Forgetting a track leaves the ids of the others as they are.
LEMMA ForgetKeepsIInv ==
  ASSUME IInv, Forget
  PROVE  IInv' /\ FreshIds
  <1>1. /\ at \in DOMAIN tracks /\ tracks' = RemoveAt(tracks, at)
        /\ UNCHANGED <<isStarted, trackStarted, counter, objects, frame, at>>
    BY DEF Forget
  <1> DEFINE n == Len(tracks)
             from(j) == IF j < at THEN j ELSE j + 1
  <1>2. tracks \in Seq(Track) /\ n \in Nat /\ DOMAIN tracks = 1 .. n /\ at \in 1 .. n
    BY <1>1 DEF IInv, TypeOK
  <1>3. /\ tracks' \in Seq(Track)
        /\ DOMAIN tracks' = 1 .. n - 1
        /\ \A j \in 1 .. n - 1 : tracks'[j] = tracks[from(j)]
    <2>1. /\ RemoveAt(tracks, at) \in Seq(Track)
          /\ Len(RemoveAt(tracks, at)) = n - 1
          /\ \A j \in 1 .. n - 1 :
               RemoveAt(tracks, at)[j] = IF j < at THEN tracks[j] ELSE tracks[j + 1]
      BY <1>2, RemoveAtProperties
    <2> QED
      BY <1>1, <1>2, <2>1
  <1>4. \A i, j \in 1 .. n - 1 : from(i) \in 1 .. n /\ (from(i) = from(j) => i = j)
    BY <1>2
  <1>5. UniqueIn(tracks') /\ IssuedIn(tracks', counter) /\ FreshIds
    <2> HIDE DEF from, n
    <2>1. \A j \in DOMAIN tracks' :
            from(j) \in DOMAIN tracks /\ tracks'[j] = tracks[from(j)]
      BY <1>2, <1>3, <1>4
    <2>2. IssuedIn(tracks', counter) /\ FreshIds
      BY <2>1, FreshFromTracks, LiveAtTracks DEF IInv, IssuedIn
    <2>3. ASSUME NEW i \in DOMAIN tracks', NEW j \in DOMAIN tracks'
          PROVE  /\ tracks'[i].active /\ tracks'[j].active /\ tracks'[i].id = tracks'[j].id
                      => i = j
                 /\ \A e \in tracks'[i].latent :
                      /\ tracks'[j].active => e.id # tracks'[j].id
                      /\ \A f \in tracks'[j].latent : e.id = f.id => i = j /\ e = f
      <3>1. from(i) = from(j) => i = j
        BY <1>3, <1>4
      <3> QED
        BY <2>1, <3>1 DEF IInv, UniqueIn
    <2> QED
      BY <2>2, <2>3 DEF UniqueIn
  <1>6. TypeOK'
    BY <1>1, <1>3 DEF IInv, TypeOK
  <1>7. IdleUnlessStarted'
    <2> HIDE DEF from
    <2>1. IdleIn(tracks) => IdleIn(tracks')
      <3>1. \A j \in DOMAIN tracks' : from(j) \in DOMAIN tracks
        BY <1>2, <1>3, <1>4
      <3> QED
        BY <1>3, <3>1 DEF IdleIn
    <2>2. at # 0
      BY <1>2
    <2> QED
      BY <1>1, <2>1, <2>2 DEF IInv, IdleUnlessStarted
  <1> QED
    BY <1>1, <1>5, <1>6, <1>7 DEF IInv, UniqueIn, IssuedIn

\* A track is activated with an id that was just issued, or with one that is
\* latent no longer.
LEMMA ActivateKeepsIInv ==
  ASSUME IInv, NEW near \in SUBSET {t \in Active : LatentIds /\ tracks[t].latent # {}},
         NEW taken, DOMAIN taken = near,
         \A t \in near : taken[t] \in tracks[t].latent,
         Activate(near, taken)
  PROVE  IInv' /\ FreshIds
  <1> DEFINE h == CHOOSE x \in near : \A g \in near : x <= g
             id == IF near = {} THEN NextId ELSE taken[h].id
             latent(t) == WithoutTaken(t, taken)
  <1>0. tracks' = [t \in DOMAIN tracks |->
                     [tracks[t] EXCEPT !.latent = latent(t),
                                       !.active = @ \/ t = at,
                                       !.id     = IF t = at THEN id ELSE @]]
    BY DEF Activate
  <1>1. /\ at \in DOMAIN tracks /\ ~tracks[at].active
        /\ counter' = IF near = {} THEN counter + 1 ELSE counter
        /\ at' = at + 1
        /\ UNCHANGED <<isStarted, trackStarted, objects, frame>>
    BY DEF Activate, Ripe
  <1>2. tracks \in Seq(Track) /\ counter \in Nat /\ DOMAIN tracks = 1 .. Len(tracks)
        /\ Len(tracks) \in Nat /\ at \in Nat
    BY DEF IInv, TypeOK
  <1>3. ASSUME near # {}
        PROVE  /\ h \in near /\ h \in DOMAIN tracks
               /\ taken[h] \in tracks[h].latent /\ taken[h] \notin latent(h)
               /\ taken[h].id \in 1 .. counter
    <2>1. near \subseteq 1 .. Len(tracks)
      BY <1>2 DEF Active
    <2>2. h \in near
      BY <1>2, <1>3, <2>1, LeastExists
    <2> HIDE DEF h
    <2> QED
      BY <1>2, <2>1, <2>2 DEF WithoutTaken, IInv, IssuedIn
  <1> HIDE DEF h
  \* The new id is issued and neither in use nor latent any more.
  <1>4. /\ id \in 1 .. counter'
        /\ counter' \in Nat /\ counter <= counter'
        /\ \A t \in DOMAIN tracks : tracks[t].active => tracks[t].id # id
        /\ \A t \in DOMAIN tracks : \A e \in latent(t) : e.id # id
    <2>1. \A t \in DOMAIN tracks : latent(t) \subseteq tracks[t].latent
      BY DEF WithoutTaken
    <2> HIDE DEF latent
    <2>2. CASE near = {}
      <3>1. id = counter + 1 /\ counter' = counter + 1
        BY <1>1, <2>2 DEF NextId
      <3>2. \A t \in DOMAIN tracks :
              /\ tracks[t].active => tracks[t].id \in 1 .. counter
              /\ \A e \in latent(t) : e.id \in 1 .. counter
        BY <2>1 DEF IInv, IssuedIn
      <3> HIDE DEF id
      <3> QED
        BY <1>2, <3>1, <3>2
    <2>3. CASE near # {}
      <3>1. id = taken[h].id /\ counter' = counter
        BY <1>1, <2>3
      <3> QED
        BY <1>2, <1>3, <2>1, <2>3, <3>1 DEF IInv, UniqueIn
    <2> QED
      BY <2>2, <2>3
  <1> HIDE DEF id
  <1>5. /\ DOMAIN tracks' = DOMAIN tracks
        /\ \A t \in DOMAIN tracks :
             /\ tracks'[t].active = (tracks[t].active \/ t = at)
             /\ tracks'[t].id = IF t = at THEN id ELSE tracks[t].id
             /\ tracks'[t].latent = latent(t)
             /\ latent(t) \subseteq tracks[t].latent
             /\ tracks'[t] \in Track
    <2> SUFFICES ASSUME NEW t \in DOMAIN tracks
                 PROVE  /\ tracks'[t].active = (tracks[t].active \/ t = at)
                        /\ tracks'[t].id = IF t = at THEN id ELSE tracks[t].id
                        /\ tracks'[t].latent = latent(t)
                        /\ latent(t) \subseteq tracks[t].latent
                        /\ tracks'[t] \in Track
      BY <1>0
    <2>1. latent(t) \subseteq tracks[t].latent
      BY DEF WithoutTaken
    <2>2. tracks[t] \in Track /\ id \in Nat
      BY <1>2, <1>4
    <2> HIDE DEF latent
    <2> QED
      BY <1>0, <2>1, <2>2 DEF Track
  <1> HIDE DEF latent
  <1>6. /\ at \in DOMAIN tracks /\ ~tracks[at].active
        /\ counter' \in Nat /\ at' \in Nat
        /\ UNCHANGED <<isStarted, trackStarted, objects, frame>>
    <2>1. id \in Nat
      BY <1>2, <1>4
    <2> QED
      BY <1>1, <1>2, <1>4, <2>1
  <1>7. UniqueIn(tracks')
    <2> SUFFICES
          ASSUME NEW t \in DOMAIN tracks, NEW u \in DOMAIN tracks
          PROVE  /\ tracks'[t].active /\ tracks'[u].active /\ tracks'[t].id = tracks'[u].id
                      => t = u
                 /\ \A e \in tracks'[t].latent :
                      /\ tracks'[u].active => e.id # tracks'[u].id
                      /\ \A f \in tracks'[u].latent : e.id = f.id => t = u /\ e = f
      BY <1>5 DEF UniqueIn
    <2>0. \A v, w \in DOMAIN tracks :
            tracks[v].active /\ tracks[w].active /\ tracks[v].id = tracks[w].id => v = w
      BY DEF IInv, UniqueIn
    <2>1. ASSUME tracks'[t].active, tracks'[u].active, tracks'[t].id = tracks'[u].id
          PROVE  t = u
      <3>1. CASE t # at /\ u # at
        <4>1. tracks[t].active /\ tracks'[t].id = tracks[t].id
          BY <1>5, <2>1, <3>1
        <4>2. tracks[u].active /\ tracks'[u].id = tracks[u].id
          BY <1>5, <2>1, <3>1
        <4>3. tracks[t].id = tracks[u].id
          BY <2>1, <4>1, <4>2
        <4> QED
          BY <2>0, <4>1, <4>2, <4>3
      <3>2. CASE t = at /\ u # at
        <4>1. tracks[u].active /\ tracks'[u].id = tracks[u].id /\ tracks'[t].id = id
          BY <1>5, <2>1, <3>2
        <4> QED
          BY <1>4, <2>1, <4>1
      <3>3. CASE t # at /\ u = at
        <4>1. tracks[t].active /\ tracks'[t].id = tracks[t].id /\ tracks'[u].id = id
          BY <1>5, <2>1, <3>3
        <4> QED
          BY <1>4, <2>1, <4>1
      <3> QED
        BY <3>1, <3>2, <3>3
    <2>2. ASSUME NEW e \in tracks'[t].latent, tracks'[u].active
          PROVE  e.id # tracks'[u].id
      <3>0. e \in latent(t) /\ e \in tracks[t].latent
        BY <1>5
      <3>1. CASE u = at
        BY <1>4, <1>5, <3>0, <3>1
      <3>2. CASE u # at
        <4>1. tracks[u].active /\ tracks'[u].id = tracks[u].id
          BY <1>5, <2>2, <3>2
        <4> QED
          BY <3>0, <4>1 DEF IInv, UniqueIn
      <3> QED
        BY <3>1, <3>2
    <2>3. ASSUME NEW e \in tracks'[t].latent, NEW f \in tracks'[u].latent, e.id = f.id
          PROVE  t = u /\ e = f
      <3>1. e \in tracks[t].latent /\ f \in tracks[u].latent
        BY <1>5
      <3> QED
        BY <2>3, <3>1 DEF IInv, UniqueIn
    <2> QED
      BY <2>1, <2>2, <2>3
  <1>8. IssuedIn(tracks', counter')
    <2> SUFFICES ASSUME NEW t \in DOMAIN tracks
                 PROVE  /\ tracks'[t].active => tracks'[t].id \in 1 .. counter'
                        /\ \A e \in tracks'[t].latent : e.id \in 1 .. counter'
      BY <1>5 DEF IssuedIn
    <2>1. \A x \in 1 .. counter : x \in 1 .. counter'
      BY <1>2, <1>4
    <2>2. ASSUME tracks'[t].active PROVE tracks'[t].id \in 1 .. counter'
      <3>1. CASE t = at
        BY <1>4, <1>5, <3>1
      <3>2. CASE t # at
        BY <1>5, <2>1, <2>2, <3>2 DEF IInv, IssuedIn
      <3> QED
        BY <3>1, <3>2
    <2>3. ASSUME NEW e \in tracks'[t].latent PROVE e.id \in 1 .. counter'
      <3>1. e \in tracks[t].latent
        BY <1>5
      <3> QED
        BY <2>1, <3>1 DEF IInv, IssuedIn
    <2> QED
      BY <2>2, <2>3
  <1>9. TypeOK'
    <2>1. tracks' = [t \in 1 .. Len(tracks) |-> tracks'[t]]
      BY <1>0, <1>2
    <2>2. tracks' \in Seq(Track)
      BY <1>2, <1>5, <2>1
    <2> QED
      BY <1>6, <2>2 DEF IInv, TypeOK
  <1>10. IdleUnlessStarted'
    <2>1. tracks[at].unseen = 0 /\ tracks[at].age > MinActiveTime
      BY DEF Activate, Ripe
    <2>2. tracks[at].age # 0 /\ at # 0
      <3>1. tracks[at] \in Track
        BY <1>2, <1>6
      <3>2. tracks[at].age \in Nat /\ MinActiveTime \in Nat
        <4>1. AgeCap \in Nat /\ MinActiveTime \in Nat
          BY TimeAssumption
        <4> QED
          BY <3>1, <4>1 DEF Track
      <3>3. at # 0
        BY <1>2, <1>6
      <3> QED
        BY <2>1, <3>2, <3>3
    <2>3. isStarted = 1
      BY <1>6, <2>1, <2>2 DEF IInv, IdleUnlessStarted, IdleIn
    <2>4. objects = NoFrame
      BY <2>2 DEF IInv, IdleUnlessStarted
    <2> QED
      BY <1>6, <2>3, <2>4 DEF IInv, IdleUnlessStarted
  <1>11. FreshIds
    <2>1. id \in LiveIds \/ id > counter
      <3>1. CASE near = {}
        BY <1>2, <3>1 DEF id, NextId
      <3>2. CASE near # {}
        BY <1>3, <3>2, LiveAtTracks DEF id
      <3> QED
        BY <3>1, <3>2
    <2>2. ASSUME NEW t \in DOMAIN tracks
          PROVE  /\ tracks'[t].active =>
                      tracks'[t].id \in LiveIds \/ tracks'[t].id > counter
                 /\ \A e \in tracks'[t].latent : e.id \in LiveIds
      <3>1. CASE t = at
        BY <1>5, <2>1, <3>1, LiveAtTracks
      <3>2. CASE t # at
        BY <1>5, <3>2, LiveAtTracks
      <3> QED
        BY <3>1, <3>2
    <2> QED
      BY <1>5, <2>2, FreshFromTracks
  <1> QED
    BY <1>7, <1>8, <1>9, <1>10, <1>11 DEF IInv, UniqueIn, IssuedIn

\* The cleanup only removes latent ids.
LEMMA FinishKeepsIInv ==
  ASSUME IInv, NEW split, Finish(split)
  PROVE  IInv' /\ FreshIds
  <1> DEFINE younger(t, e) == [e EXCEPT !.age = @ - IF t \in split THEN frame.step ELSE 0]
             latent(t) == {e \in {younger(t, e) : e \in tracks[t].latent} : e.age <= LatentLifeTime}
  <1>1. /\ at = Len(tracks) + 1
        /\ tracks' = [t \in DOMAIN tracks |-> [tracks[t] EXCEPT !.latent = latent(t)]]
        /\ frame' = NoFrame /\ at' = 0
        /\ UNCHANGED <<isStarted, trackStarted, counter, objects>>
    BY DEF Finish
  <1>2. /\ tracks \in Seq(Track) /\ DOMAIN tracks = 1 .. Len(tracks) /\ Len(tracks) \in Nat
        /\ frame.step \in Nat /\ at # 0
    BY <1>1, TimeAssumption DEF IInv, TypeOK
  <1>3. ASSUME NEW t \in DOMAIN tracks, NEW e \in tracks[t].latent
        PROVE  younger(t, e) \in LatentEntry /\ younger(t, e).id = e.id
    <2>1. tracks[t] \in Track
      BY <1>2
    <2>2. e \in LatentEntry
      BY <2>1 DEF Track
    <2>3. (IF t \in split THEN frame.step ELSE 0) \in Nat
      BY <1>2
    <2> QED
      BY <2>2, <2>3 DEF LatentEntry
  <1>4. /\ DOMAIN tracks' = DOMAIN tracks
        /\ \A t \in DOMAIN tracks :
             /\ tracks'[t].active = tracks[t].active
             /\ tracks'[t].id = tracks[t].id
             /\ tracks'[t].age = tracks[t].age /\ tracks'[t].unseen = tracks[t].unseen
             /\ \A e \in tracks'[t].latent : \E f \in tracks[t].latent : e = younger(t, f)
             /\ tracks'[t] \in Track
    <2> SUFFICES ASSUME NEW t \in DOMAIN tracks
                 PROVE  /\ tracks'[t].active = tracks[t].active
                        /\ tracks'[t].id = tracks[t].id
                        /\ tracks'[t].age = tracks[t].age
                        /\ tracks'[t].unseen = tracks[t].unseen
                        /\ \A e \in tracks'[t].latent :
                             \E f \in tracks[t].latent : e = younger(t, f)
                        /\ tracks'[t] \in Track
      BY <1>1
    <2>1. tracks[t] \in Track
      BY <1>2
    <2>2. \A e \in latent(t) : \E f \in tracks[t].latent : e = younger(t, f)
      OBVIOUS
    <2>3. latent(t) \in SUBSET LatentEntry
      BY <1>3, <2>2
    <2> HIDE DEF latent, younger
    <2>4. tracks'[t] = [tracks[t] EXCEPT !.latent = latent(t)]
      BY <1>1
    <2> QED
      BY <2>1, <2>2, <2>3, <2>4 DEF Track
  <1> HIDE DEF younger, latent
  <1>5. UniqueIn(tracks') /\ IssuedIn(tracks', counter)
    BY <1>3, <1>4 DEF IInv, UniqueIn, IssuedIn
  <1>6. TypeOK'
    <2>1. tracks' = [t \in 1 .. Len(tracks) |-> tracks'[t]]
      BY <1>1, <1>2
    <2>2. tracks' \in Seq(Track)
      BY <1>2, <1>4, <2>1
    <2>3. /\ frame' = NoFrame /\ at' = 0
          /\ UNCHANGED <<isStarted, trackStarted, counter, objects>>
      BY <1>1
    <2> QED
      BY <2>2, <2>3 DEF IInv, TypeOK
  <1>7. IdleUnlessStarted'
    <2>1. IdleIn(tracks) => IdleIn(tracks')
      BY <1>4 DEF IdleIn
    <2> QED
      BY <1>1, <1>2, <2>1 DEF IInv, IdleUnlessStarted
  <1>8. FreshIds
    BY <1>3, <1>4, FreshFromTracks, LiveAtTracks
  <1> QED
    BY <1>1, <1>5, <1>6, <1>7, <1>8 DEF IInv, UniqueIn, IssuedIn

-----------------------------------------------------------------------------
(* The theorems. *)

\* A sequence of tracks without ids.
LEMMA NoIdsInUse ==
  ASSUME NEW s, IdleIn(s)
  PROVE  UniqueIn(s) /\ \A n : IssuedIn(s, n)
  BY DEF IdleIn, UniqueIn, IssuedIn

\* The starts, the stop, the reset, the merging of objects and the loop passing
\* over a track.  A start resets the counter, which is safe as the tracks of a
\* tracker that is not started have no ids.
LEMMA OthersKeepIInv ==
  ASSUME IInv, OpenOnStart,
         Start \/ FirstPass \/ Stop \/ Reset \/ (\E m \in Nat : Merge(m)) \/ Pass \/ UNCHANGED vars
  PROVE  IInv' /\ FreshIds
  <1> USE DEF IInv, TypeOK, IdleUnlessStarted
  <1>1. <<>> \in Seq(Track) /\ IdleIn(<<>>) /\ UniqueIn(<<>>) /\ \A n : IssuedIn(<<>>, n)
    BY DEF UniqueIn, IssuedIn, IdleIn
  <1>2. FreshIds
    <2>1. tracks' = tracks \/ tracks' = <<>>
      BY DEF Start, FirstPass, Stop, Reset, Merge, Pass, vars
    <2> QED
      BY <2>1, FreshFromTracks, LiveAtTracks
  <1>3. CASE Start
    <2>1. tracks' = tracks /\ UniqueIn(tracks) /\ \A n : IssuedIn(tracks, n)
      <3>1. tracks' = tracks /\ isStarted # 1
        BY <1>3 DEF Start
      <3>2. IdleIn(tracks)
        BY <3>1
      <3> QED
        BY <3>1, <3>2, NoIdsInUse
    <2>2. UniqueIn(tracks') /\ IssuedIn(tracks', counter')
      BY <2>1 DEF UniqueIn, IssuedIn
    <2>3. /\ isStarted' = 1 /\ counter' = 0
          /\ UNCHANGED <<trackStarted, tracks, objects, frame, at>>
      BY <1>3 DEF Start, Started
    <2>4. TypeOK'
      BY <2>3
    <2>5. IdleUnlessStarted'
      BY <2>3
    <2> QED
      BY <1>2, <2>2, <2>4, <2>5
  <1>4. CASE FirstPass
    <2>1. CASE isStarted # 1
      <3>1. tracks' = tracks /\ UniqueIn(tracks) /\ \A n : IssuedIn(tracks, n)
        BY <1>4, <2>1, NoIdsInUse DEF FirstPass
      <3>2. UniqueIn(tracks') /\ IssuedIn(tracks', counter')
        BY <3>1 DEF UniqueIn, IssuedIn
      <3>3. /\ isStarted' = 1 /\ counter' = 0 /\ trackStarted' = TRUE
            /\ UNCHANGED <<tracks, objects, frame, at>>
        BY <1>4, <2>1 DEF FirstPass, Started
      <3>4. TypeOK'
        BY <3>3
      <3>5. IdleUnlessStarted'
        BY <3>3
      <3> QED
        BY <1>2, <3>2, <3>4, <3>5
    <2>2. CASE isStarted = 1
      <3>1. /\ trackStarted' = TRUE
            /\ UNCHANGED <<isStarted, counter, tracks, objects, frame, at>>
        BY <1>4, <2>2 DEF FirstPass
      <3>2. UniqueIn(tracks') /\ IssuedIn(tracks', counter')
        BY <3>1
      <3> QED
        BY <1>2, <2>2, <3>1, <3>2
    <2> QED
      BY <2>1, <2>2
  <1>5. CASE Stop
    BY <1>1, <1>2, <1>5 DEF Stop
  <1>6. CASE Reset
    BY <1>1, <1>2, <1>6 DEF Reset
  <1>7. CASE \E m \in Nat : Merge(m)
    <2> PICK m \in Nat : Merge(m)
      BY <1>7
    <2>1. /\ trackStarted /\ at = 0 /\ objects' = m /\ (isStarted = 0 => m = 0)
          /\ UNCHANGED <<isStarted, trackStarted, counter, tracks, frame, at>>
      BY DEF Merge
    <2> QED
      BY <1>2, <2>1 DEF UniqueIn, IssuedIn, IdleIn
  <1>8. CASE Pass
    <2>1. /\ at \in DOMAIN tracks /\ at' = at + 1
          /\ UNCHANGED <<isStarted, trackStarted, counter, tracks, objects, frame>>
      BY <1>8 DEF Pass
    <2>2. at # 0 /\ at' \in Nat
      BY <2>1
    <2> QED
      BY <1>2, <2>1, <2>2 DEF UniqueIn, IssuedIn, IdleIn
  <1>9. CASE UNCHANGED vars
    BY <1>2, <1>9 DEF vars, UniqueIn, IssuedIn, IdleIn
  <1> QED
    BY <1>3, <1>4, <1>5, <1>6, <1>7, <1>8, <1>9

\* A step of the tracker preserves the invariant and makes no old id new.
LEMMA StepKeepsIInv ==
  ASSUME IInv, OpenOnStart, [Next]_vars
  PROVE  IInv' /\ FreshIds
  <1>1. ASSUME NEW step \in Steps, NEW pairs, NEW garbage, Unite(step, pairs, garbage)
        PROVE  IInv' /\ FreshIds
    BY <1>1, UniteKeepsIInv
  <1>2. ASSUME NEW near \in SUBSET {t \in Active : LatentIds /\ tracks[t].latent # {}},
               NEW taken \in [near -> UNION {tracks[t].latent : t \in near}],
               \A t \in near : taken[t] \in tracks[t].latent,
               Activate(near, taken)
        PROVE  IInv' /\ FreshIds
    <2>1. DOMAIN taken = near
      OBVIOUS
    <2> QED
      BY <1>2, <2>1, ActivateKeepsIInv
  <1>3. ASSUME NEW split, Finish(split)
        PROVE  IInv' /\ FreshIds
    BY <1>3, FinishKeepsIInv
  <1>4. CASE \/ Start \/ FirstPass \/ Stop \/ Reset \/ Pass \/ UNCHANGED vars
             \/ \E m \in 0 .. MaxObjects : Merge(m)
    <2>1. 0 .. MaxObjects \subseteq Nat
      BY SetupAssumption
    <2> QED
      BY <1>4, <2>1, OthersKeepIInv
  <1>5. CASE Forget
    BY <1>5, ForgetKeepsIInv
  <1> QED
    BY <1>1, <1>2, <1>3, <1>4, <1>5 DEF Next

\* The inductive invariant holds of every tracker that the main loop starts.
THEOREM Invariance == OpenOnStart /\ Spec => []IInv
  <1>1. Init => IInv
    <2>1. <<>> \in Seq(Track)
      OBVIOUS
    <2>2. UniqueIn(<<>>) /\ IssuedIn(<<>>, 0)
      BY DEF UniqueIn, IssuedIn
    <2> SUFFICES ASSUME Init PROVE IInv
      OBVIOUS
    <2>3. tracks = <<>> /\ counter = 0
      BY DEF Init
    <2>4. UniqueIn(tracks) /\ IssuedIn(tracks, counter)
      BY <2>2, <2>3
    <2>5. TypeOK
      BY <2>1 DEF Init, TypeOK
    <2>6. IdleUnlessStarted
      BY <2>3 DEF Init, IdleUnlessStarted, IdleIn
    <2> QED
      BY <2>4, <2>5, <2>6 DEF IInv
  <1>2. OpenOnStart /\ IInv /\ [Next]_vars => IInv'
    BY StepKeepsIInv
  <1>3. CASE OpenOnStart
    <2>1. IInv /\ [Next]_vars => IInv'
      BY <1>2, <1>3
    <2> QED
      BY <1>1, <2>1, PTL DEF Spec
  <1>4. CASE ~OpenOnStart
    BY <1>4
  <1> QED
    BY <1>3, <1>4

\* The variables of the tracker have their types.
THEOREM TypeCorrect == OpenOnStart /\ Spec => []TypeOK
  <1>1. IInv => TypeOK
    BY DEF IInv
  <1> QED
    BY <1>1, Invariance, PTL

\* No two tracks ever share an id and no latent id is in use, whatever is
\* dropped, handed over, stopped, started again or reset.
THEOREM IdsStayUnique == OpenOnStart /\ Spec => []IdsUnique
  <1>1. IInv => IdsUnique
    BY DEF IInv, UniqueIn, IdsUnique
  <1> QED
    BY <1>1, Invariance, PTL

\* An id that was given up never comes back before the next start.
THEOREM IdsNeverReturn == OpenOnStart /\ Spec => NoRevival
  <1>1. OpenOnStart /\ IInv /\ [Next]_vars => [FreshIds]_vars
    BY StepKeepsIInv
  <1>2. CASE OpenOnStart
    <2>1. IInv /\ [Next]_vars => [FreshIds]_vars
      BY <1>1, <1>2
    <2>2. Spec => []IInv
      BY <1>2, Invariance
    <2> QED
      BY <2>1, <2>2, PTL DEF Spec, NoRevival, FreshIds
  <1>3. CASE ~OpenOnStart
    BY <1>3
  <1> QED
    BY <1>2, <1>3

-----------------------------------------------------------------------------
(* Every object the maps call assigned has a track. *)

\* The tracks are a sequence, however the tracker was started.
OfLength(s, n) == s = [t \in 1 .. n |-> s[t]]

InOrder == \E n \in Nat : OfLength(tracks, n)

ServedInv ==
  /\ InOrder
  /\ objects = NoFrame \/ objects \in Nat
  /\ Served

\* The tracks of a frame are those of the frame before and new ones.
LEMMA UniteInOrder ==
  ASSUME ServedInv, NEW step, NEW pairs, NEW garbage, Unite(step, pairs, garbage)
  PROVE  InOrder'
  <1> DEFINE a == Assignment(pairs, objects, garbage)
             K == DOMAIN tracks \ Dropped(a, step)
             O == {o \in 1 .. objects : a.merged[o] = 0}
             n == Cardinality(K) + Cardinality(O)
  <1>1. objects \in Nat
    BY DEF Unite, ServedInv
  <1>2. IsFiniteSet(K) /\ IsFiniteSet(O)
    <2>1. PICK l \in Nat : tracks = [t \in 1 .. l |-> tracks[t]]
      BY DEF ServedInv, InOrder, OfLength
    <2>2. DOMAIN tracks = 1 .. l
      BY <2>1
    <2>3. K \subseteq 1 .. l /\ O \subseteq 1 .. objects
      BY <2>2
    <2>4. IsFiniteSet(1 .. l) /\ IsFiniteSet(1 .. objects)
      BY <1>1, FS_Interval
    <2> HIDE DEF K, O
    <2> QED
      BY <2>3, <2>4, FS_Subset
  <1>3. OfLength(tracks', n)
    <2>1. PICK host, pos :
            tracks' =
              [j \in 1 .. n |->
                 IF j <= Cardinality(K)
                 THEN [Aged(pos[j], a, step) EXCEPT !.latent = @ \cup Left(pos[j], host)]
                 ELSE NewTrack]
      BY Zenon DEF Unite
    <2> DEFINE e(j) == IF j <= Cardinality(K)
                       THEN [Aged(pos[j], a, step) EXCEPT !.latent = @ \cup Left(pos[j], host)]
                       ELSE NewTrack
    <2>2. tracks' = [j \in 1 .. n |-> e(j)]
      BY <2>1
    <2> HIDE DEF e, n
    <2> QED
      BY <2>2 DEF OfLength
  <1> HIDE DEF K, O
  <1>4. n \in Nat
    BY <1>2, FS_CardinalityType
  <1> HIDE DEF n
  <1> QED
    BY <1>3, <1>4 DEF InOrder

\* unite() leaves no object without a track whose entry says it has one.
LEMMA UniteServes ==
  ASSUME ServedInv, NEW step, NEW pairs \in SortedPairs(Len(tracks), objects),
         NEW garbage \in 0 .. objects, Unite(step, pairs, garbage)
  PROVE  Served'
  <1> DEFINE m == objects
             n == Len(tracks)
             a == Assignment(pairs, m, garbage)
  <1>1. m \in Nat /\ frame' = [step |-> step, current |-> a.current, merged |-> a.merged]
    BY DEF Unite, ServedInv
  <1>2. n \in Nat
    BY DEF ServedInv, InOrder, OfLength
  <1>3. /\ a \in Assignments(n, m)
        /\ m <= n + 1 =>
             \A o \in 1 .. m : a.merged[o] # 0 => \E t \in 1 .. n : a.current[t] = o
    BY <1>1, <1>2, AssignmentServes
  <1> HIDE DEF m, n, a
  <1>4. /\ a.current \in [1 .. n -> 0 .. m] /\ DOMAIN a.current = 1 .. n
        /\ a.merged \in [1 .. m -> 0 .. n] /\ DOMAIN a.merged = 1 .. m
    BY <1>3, AssignmentFields
  <1>5. Len(a.current) = n /\ Len(a.merged) = m
    BY <1>1, <1>2, <1>4
  <1>6. frame'.current = a.current /\ frame'.merged = a.merged
    BY <1>1
  <1> QED
    BY <1>3, <1>4, <1>5, <1>6 DEF Served

\* Only unite() sets the maps, and only finish() clears them.
LEMMA OthersServe ==
  ASSUME ServedInv,
         \/ Start \/ FirstPass \/ Stop \/ Reset \/ (\E m \in Nat : Merge(m)) \/ Pass \/ Forget
         \/ \E near, taken : Activate(near, taken)
         \/ \E split : Finish(split)
         \/ UNCHANGED vars
  PROVE  ServedInv'
  <1>1. frame' = frame \/ frame' = NoFrame
    BY DEF Start, FirstPass, Stop, Reset, Merge, Pass, Forget, Activate, Finish, vars
  <1>2. Served'
    BY <1>1 DEF ServedInv, Served
  <1>3. objects' = NoFrame \/ objects' \in Nat
    BY DEF Start, FirstPass, Stop, Reset, Merge, Pass, Forget, Activate, Finish, vars, ServedInv
  <1>4. PICK n \in Nat : OfLength(tracks, n)
    BY DEF ServedInv, InOrder
  <1>5. DOMAIN tracks = 1 .. n /\ Len(tracks) = n
    BY <1>4 DEF OfLength
  <1>6. ASSUME tracks' = tracks PROVE InOrder'
    <2>1. OfLength(tracks', n)
      BY <1>4, <1>6
    <2> QED
      BY <2>1 DEF InOrder
  <1>7. ASSUME tracks' = <<>> PROVE InOrder'
    <2>1. OfLength(tracks', 0) /\ 0 \in Nat
      BY <1>7 DEF OfLength
    <2> QED
      BY <2>1 DEF InOrder
  <1>8. ASSUME Forget PROVE InOrder'
    <2> DEFINE S == {tracks[t] : t \in DOMAIN tracks}
    <2>1. tracks \in Seq(S)
      BY <1>4, <1>5 DEF OfLength
    <2>2. at \in 1 .. Len(tracks) /\ tracks' = RemoveAt(tracks, at)
      BY <1>5, <1>8 DEF Forget
    <2> HIDE DEF S
    <2>3. tracks' \in Seq(S)
      BY <2>1, <2>2, RemoveAtProperties
    <2>4. \E l \in Nat : OfLength(tracks', l)
      BY <2>3 DEF OfLength
    <2> QED
      BY <2>4 DEF InOrder
  <1>9. ASSUME NEW near, NEW taken, Activate(near, taken)
        PROVE  InOrder'
    <2> DEFINE id == IF near = {} THEN NextId
                     ELSE taken[CHOOSE h \in near : \A g \in near : h <= g].id
               e(t) == [tracks[t] EXCEPT !.latent = WithoutTaken(t, taken),
                                         !.active = @ \/ t = at,
                                         !.id     = IF t = at THEN id ELSE @]
    <2>1. tracks' = [t \in DOMAIN tracks |-> e(t)]
      BY <1>9, Zenon DEF Activate
    <2> HIDE DEF e
    <2>2. OfLength(tracks', n)
      BY <1>5, <2>1 DEF OfLength
    <2> QED
      BY <2>2 DEF InOrder
  <1>10. ASSUME NEW split, Finish(split)
         PROVE  InOrder'
    <2> DEFINE Latent(t) ==
                 {[e EXCEPT !.age = @ - IF t \in split THEN frame.step ELSE 0] :
                    e \in tracks[t].latent}
               e(t) == [tracks[t] EXCEPT !.latent = {d \in Latent(t) : d.age <= LatentLifeTime}]
    <2>1. tracks' = [t \in DOMAIN tracks |-> e(t)]
      BY <1>10, Zenon DEF Finish
    <2> HIDE DEF e
    <2>2. OfLength(tracks', n)
      BY <1>5, <2>1 DEF OfLength
    <2> QED
      BY <2>2 DEF InOrder
  <1>11. InOrder'
    <2>1. CASE Start \/ FirstPass \/ Stop \/ Reset \/ (\E m \in Nat : Merge(m)) \/ Pass
               \/ UNCHANGED vars
      <3>1. tracks' = tracks \/ tracks' = <<>>
        BY <2>1 DEF Start, FirstPass, Stop, Reset, Merge, Pass, vars
      <3> QED
        BY <1>6, <1>7, <3>1
    <2> QED
      BY <1>8, <1>9, <1>10, <2>1
  <1> QED
    BY <1>2, <1>3, <1>11 DEF ServedInv

\* An object that the maps of unite() call assigned always has a track, and so
\* is never lost between the tracks and the new tracks, as long as there are not
\* more objects than entries of currentMap: whoever starts the tracker, and
\* although a hand-over updates the wrong entry.
THEOREM AlwaysServed == Spec => []Served
  <1>1. Init => ServedInv
    <2> SUFFICES ASSUME Init PROVE ServedInv
      OBVIOUS
    <2>1. OfLength(tracks, 0)
      BY DEF Init, OfLength
    <2>2. InOrder
      BY <2>1 DEF InOrder
    <2> QED
      BY <2>2 DEF Init, ServedInv, Served
  <1>2. ServedInv /\ [Next]_vars => ServedInv'
    <2> SUFFICES ASSUME ServedInv, [Next]_vars PROVE ServedInv'
      OBVIOUS
    <2>1. ASSUME objects # NoFrame,
                 NEW step \in Steps, NEW pairs \in SortedPairs(Len(tracks), objects),
                 NEW garbage \in IF objects > Len(tracks) + 1 THEN 0 .. objects ELSE {0},
                 Unite(step, pairs, garbage)
          PROVE  ServedInv'
      <3>1. objects \in Nat /\ objects' = NoFrame
        BY <2>1 DEF ServedInv, Unite
      <3>2. garbage \in 0 .. objects
        BY <3>1
      <3> QED
        BY <2>1, <3>1, <3>2, UniteServes, UniteInOrder DEF ServedInv
    <2>2. CASE \/ Start \/ FirstPass \/ Stop \/ Reset \/ Pass \/ Forget \/ UNCHANGED vars
               \/ \E near, taken : Activate(near, taken)
               \/ \E split : Finish(split)
      BY <2>2, OthersServe
    <2>3. ASSUME NEW m \in 0 .. MaxObjects, Merge(m)
          PROVE  ServedInv'
      <3>1. m \in Nat
        BY SetupAssumption
      <3> QED
        BY <2>3, <3>1, OthersServe
    <2> QED
      BY <2>1, <2>2, <2>3 DEF Next
  <1>3. ServedInv => Served
    BY DEF ServedInv
  <1> QED
    BY <1>1, <1>2, <1>3, PTL DEF Spec

-----------------------------------------------------------------------------
(* The tracker is a pool of ids. *)

\* The counter goes back only in a tracker without ids.
LEMMA CounterMoves ==
  ASSUME IInv, OpenOnStart, [Next]_vars
  PROVE  \/ counter' >= counter
         \/ counter' = 0 /\ LiveIds = {} /\ LiveIds' = {}
  <1>1. counter \in Nat
    BY DEF IInv, TypeOK
  <1>2. CASE counter' = counter
    BY <1>1, <1>2
  <1>3. CASE isStarted # 1 /\ counter' = 0 /\ tracks' = tracks
    <2>1. IdleIn(tracks) /\ IdleIn(tracks')
      BY <1>3 DEF IInv, IdleUnlessStarted
    <2>2. LiveIds = {} /\ LiveIds' = {}
      BY <2>1 DEF IdleIn, LiveIds, Active
    <2> QED
      BY <1>3, <2>2
  <1>4. ASSUME NEW step \in Steps, NEW pairs, NEW garbage, Unite(step, pairs, garbage)
        PROVE  counter' >= counter
    <2> DEFINE drop == Dropped(Assignment(pairs, objects, garbage), step)
    <2>1. PICK host \in Hosts(drop) : counter' = counter + Cardinality(Numbered(host))
      BY <1>4, Zenon DEF Unite
    <2>2. drop \subseteq DOMAIN tracks
      BY DEF Dropped
    <2> HIDE DEF drop
    <2>3. counter <= counter + Cardinality(Numbered(host))
      BY <2>2, LeftBehind
    <2> QED
      BY <1>1, <2>1, <2>3
  <1>5. ASSUME NEW near, NEW taken, Activate(near, taken)
        PROVE  counter' >= counter
    <2>1. counter' = IF near = {} THEN counter + 1 ELSE counter
      BY <1>5, Zenon DEF Activate
    <2> QED
      BY <1>1, <2>1
  <1>6. CASE Start \/ FirstPass
    <2>1. counter' = counter \/ (isStarted # 1 /\ counter' = 0 /\ tracks' = tracks)
      BY <1>6 DEF Start, FirstPass, Started
    <2> QED
      BY <1>2, <1>3, <2>1
  <1>7. CASE \/ Stop \/ Reset \/ Pass \/ Forget \/ UNCHANGED vars
             \/ (\E m \in 0 .. MaxObjects : Merge(m)) \/ \E split : Finish(split)
    <2>1. counter' = counter
      BY <1>7 DEF Stop, Reset, Pass, Forget, Merge, Finish, vars
    <2> QED
      BY <1>2, <2>1
  <1> QED
    BY <1>4, <1>5, <1>6, <1>7 DEF Next

\* Every id in use was issued.
LEMMA LiveIssued ==
  ASSUME IssuedIn(tracks, counter)
  PROVE  LiveIds \subseteq 1 .. counter
  BY DEF IssuedIn, LiveIds, Active

\* Ids are issued in ascending order and never twice, and a start sets the counter
\* back only when no track has an id, activated or latent: also when it comes while
\* unite() activates tracks, or after a stop that came while objects were merged.
THEOREM TrackerIsPool == OpenOnStart /\ Spec => PoolSpec
  <1>1. Init => Pool!Init
    BY DEF Init, Pool!Init, LiveIds, Active
  <1>2. ASSUME OpenOnStart, IInv, [Next]_vars
        PROVE  [Pool!Next]_<<counter, LiveIds>>
    <2>1. IInv' /\ FreshIds
      BY <1>2, StepKeepsIInv
    <2>2. counter \in Nat /\ counter' \in Nat
      BY <1>2, <2>1 DEF IInv, TypeOK
    <2>3. LiveIds' \subseteq 1 .. counter'
      <3>1. IssuedIn(tracks, counter)'
        BY <2>1 DEF IInv
      <3>2. (LiveIds \subseteq 1 .. counter)'
        BY <3>1, LiveIssued, PTL
      <3> QED
        BY <3>2
    <2>4. CASE counter' >= counter
      <3>1. ASSUME NEW d \in LiveIds', d \notin LiveIds
            PROVE  d \in counter + 1 .. counter'
        <4>1. d \in 1 .. counter' /\ d > counter
          BY <2>1, <2>3, <3>1 DEF FreshIds
        <4> QED
          BY <2>2, <4>1
      <3>2. LiveIds' \subseteq LiveIds \cup (counter + 1 .. counter')
        BY <3>1
      <3> QED
        BY <2>2, <2>4, <3>2 DEF Pool!Next, Pool!Serve
    <2>5. CASE counter' = 0 /\ LiveIds = {} /\ LiveIds' = {}
      BY <2>5 DEF Pool!Next, Pool!StartOver
    <2> QED
      BY <1>2, <2>4, <2>5, CounterMoves
  <1>3. CASE OpenOnStart
    <2>1. IInv /\ [Next]_vars => [Pool!Next]_<<counter, LiveIds>>
      BY <1>2, <1>3
    <2>2. Spec => []IInv
      BY <1>3, Invariance
    <2> QED
      BY <1>1, <2>1, <2>2, PTL DEF Spec, PoolSpec, Pool!Spec
  <1>4. CASE ~OpenOnStart
    BY <1>4
  <1> QED
    BY <1>3, <1>4
=============================================================================
