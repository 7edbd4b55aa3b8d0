--------------------------- MODULE ObserverProofs ---------------------------
(***************************************************************************)
(* Proofs about Observer, for all regions, sets of ids, modes, resets and  *)
(* frame rates.  A client knows what the observer keeps because nothing    *)
(* but the events it is told changes what the observer keeps; the count it *)
(* was told is the one counted last, unless the regions were cleared.      *)
(***************************************************************************)
EXTENDS Observer, FiniteSetTheorems, TLAPS

\* The types of what observe() changes.
DataOK ==
  /\ inside \in Contents /\ view \in Contents
  /\ validCount \in [Regions -> Nat] /\ told \in [Regions -> Nat \cup {Unknown}]
  /\ since \in Nat /\ (MinGap > 0 => since < MinGap)
  /\ exact \subseteq Regions

\* Once a count was told, validCount counts the objects that are kept.
Counted ==
  \A r \in Regions : told[r] # Unknown => validCount[r] = Cardinality(inside[r])

\* The client was told the last count, unless the region was cleared.
LastTold ==
  \A r \in Regions :
    told[r] # Unknown => told[r] = validCount[r] \/ (validCount[r] = 0 /\ r \notin exact)

Consistent == ViewCurrent /\ Counted /\ LastTold

\* An observer that is not started keeps nobody.
IdleEmpty == isStarted # 1 => inside = Nobody

IInv == TypeOK /\ Consistent /\ IdleEmpty

-----------------------------------------------------------------------------
(* Sets of objects are finite. *)
LEMMA CountsAreNumbers ==
  ASSUME NEW S \in SUBSET Ids
  PROVE  Cardinality(S) \in Nat /\ (Cardinality(S) = 0 <=> S = {})
<1>1. IsFiniteSet(S)
  BY FS_Subset, SetupAssumption
<1> QED
  BY <1>1, FS_CardinalityType, FS_EmptySet

LEMMA NobodyIsContent == Nobody \in Contents
  BY DEF Nobody, Contents

(* observe() and its reports keep the client in line with the observer. *)
LEMMA ObserveKeeps ==
  ASSUME TypeOK, Consistent, NEW c \in Contents, NEW far, Observe(c, far)
  PROVE  DataOK' /\ Consistent' /\ inside' = c
<1> USE DEF Contents
<1>1. inside' = c /\ inside \in Contents /\ view \in Contents
  BY DEF Observe, TypeOK
<1>2. \A r \in Regions : Shown(r, c, far) \in SUBSET Ids
  BY DEF Shown, Entered, Moved, Gone, TypeOK
<1>3. \A r \in Regions : Cardinality(c[r]) \in Nat
  BY CountsAreNumbers
<1>4. DataOK'
  <2>1. view' \in Contents
    BY <1>2, <1>1 DEF Observe
  <2>2. validCount' \in [Regions -> Nat] /\ told' \in [Regions -> Nat \cup {Unknown}]
    BY <1>3 DEF Observe, TypeOK
  <2>3. since' \in Nat /\ (MinGap > 0 => since' < MinGap) /\ exact' \subseteq Regions
    BY TimeAssumption DEF Observe
  <2> QED
    BY <2>1, <2>2, <2>3, <1>1 DEF DataOK
<1>5. ViewCurrent'
  <2> SUFFICES ASSUME NEW r \in exact' PROVE view'[r] = inside'[r]
    BY DEF ViewCurrent
  <2>1. r \in Regions
    BY DEF Observe
  <2>2. CASE mode.full /\ Reported(r, c, far)
    BY <2>1, <2>2 DEF Observe, Shown
  <2>3. CASE ~(mode.full /\ Reported(r, c, far))
    <3>1. r \in exact /\ (c[r] = inside[r] \/ Reported(r, c, far))
      BY <2>3 DEF Observe
    <3>2. view[r] = inside[r]
      BY <3>1 DEF Consistent, ViewCurrent
    <3>3. CASE Reported(r, c, far)
      <4>1. view'[r] = (view[r] \cup Entered(r, c) \cup Moved(r, c, far)) \ Gone(r, c)
        BY <2>1, <2>3, <3>3 DEF Observe, Shown
      <4> QED
        BY <4>1, <3>2, <1>1 DEF Entered, Moved, Gone
    <3>4. CASE ~Reported(r, c, far)
      BY <3>1, <3>2, <3>4, <2>1 DEF Observe
    <3> QED
      BY <3>3, <3>4
  <2> QED
    BY <2>2, <2>3
<1>6. Counted'
  BY <1>1 DEF Counted, Observe
<1>7. LastTold'
  <2> SUFFICES ASSUME NEW r \in Regions, told'[r] # Unknown
               PROVE  told'[r] = validCount'[r] \/ (validCount'[r] = 0 /\ r \notin exact')
    BY DEF LastTold
  <2>0. validCount'[r] = Cardinality(c[r])
    BY DEF Observe
  <2>1. CASE Reported(r, c, far) /\ CountReported(r, c)
    BY <2>0, <2>1 DEF Observe
  <2>2. CASE ~(Reported(r, c, far) /\ CountReported(r, c))
    <3>1. told'[r] = told[r]
      BY <2>2 DEF Observe
    <3>2. ~mode.continuous /\ validCount[r] = Cardinality(c[r])
      BY <2>2 DEF Reported, HasMovedObject, CountReported
    <3>3. CASE told[r] = validCount[r]
      BY <3>1, <3>2, <3>3, <2>0
    <3>4. CASE told[r] # validCount[r]
      <4>1. validCount[r] = 0 /\ r \notin exact /\ Cardinality(inside[r]) = 0
        BY <3>1, <3>4 DEF Consistent, LastTold, Counted
      <4>2. inside[r] = {}
        BY <4>1, <1>1, CountsAreNumbers
      <4>3. ~(mode.full /\ Reported(r, c, far))
        BY <4>2, <3>2 DEF Reported, HasMovedObject, Moved
      <4>4. r \notin exact'
        BY <4>1, <4>3 DEF Observe
      <4> QED
        BY <4>1, <4>4, <3>2, <2>0
    <3> QED
      BY <3>3, <3>4
  <2> QED
    BY <2>1, <2>2
<1> QED
  BY <1>1, <1>4, <1>5, <1>6, <1>7 DEF Consistent

(* clear() of the tracker. *)
LEMMA ForcedKeeps ==
  ASSUME TypeOK, Consistent, IdleEmpty, Forced(Nobody)
  PROVE  DataOK' /\ Consistent' /\ inside' = Nobody
<1>1. CASE isStarted = 1
  BY <1>1, ObserveKeeps, NobodyIsContent DEF Forced
<1>2. CASE isStarted # 1
  <2>1. UNCHANGED <<inside, validCount, since, client>>
    BY <1>2 DEF Forced
  <2> QED
    BY <2>1, <1>2 DEF client, TypeOK, Contents, DataOK, Consistent, ViewCurrent, Counted, LastTold, IdleEmpty
<1> QED
  BY <1>1, <1>2

(* A "start" meets an observer that keeps nobody. *)
LEMMA AnnounceKeeps ==
  ASSUME TypeOK, Consistent, inside' = Nobody, validCount' \in [Regions -> Nat], Announce
  PROVE  DataOK' /\ Consistent' /\ isStarted' = 1
<1>1. DataOK'
  BY TimeAssumption, NobodyIsContent DEF Announce, DataOK
<1>2. ViewCurrent'
  BY DEF ViewCurrent, Announce
<1>3. Counted' /\ LastTold'
  BY DEF Counted, LastTold, Announce
<1> QED
  BY <1>1, <1>2, <1>3 DEF Consistent, Announce

(* start(), of a child or of the tracker. *)
LEMMA StartKeeps ==
  ASSUME TypeOK, Consistent, IdleEmpty, UNCHANGED <<inside, validCount>>,
         StartObserver \/ UNCHANGED <<isStarted, since, client>>
  PROVE  DataOK' /\ Consistent' /\ IdleEmpty' /\ isStarted' \in {-1, 0, 1}
<1>1. CASE UNCHANGED <<isStarted, since, client>>
  BY <1>1 DEF client, TypeOK, Contents, DataOK, Consistent, ViewCurrent, Counted, LastTold, IdleEmpty
<1>2. CASE StartObserver /\ ~UNCHANGED <<isStarted, since, client>>
  <2>1. isStarted # 1 /\ Announce
    BY <1>2 DEF StartObserver
  <2>2. inside' = Nobody /\ validCount' \in [Regions -> Nat]
    BY <2>1 DEF IdleEmpty, TypeOK
  <2> QED
    BY <2>1, <2>2, AnnounceKeeps DEF IdleEmpty
<1> QED
  BY <1>1, <1>2

-----------------------------------------------------------------------------
\* The inductive invariant.
THEOREM Invariance == Spec => []IInv
<1>1. Init => IInv
  <2> SUFFICES ASSUME Init PROVE IInv
    OBVIOUS
  <2>1. TypeOK
    BY TimeAssumption, SetupAssumption, NobodyIsContent DEF Init, TypeOK
  <2> QED
    BY <2>1 DEF Init, IInv, Consistent, ViewCurrent, Counted, LastTold, IdleEmpty, Nobody
<1>2. IInv /\ [Next]_vars => IInv'
  <2> SUFFICES ASSUME IInv, [Next]_vars PROVE IInv'
    OBVIOUS
  <2> USE DEF IInv
  <2>0. ASSUME DataOK', Consistent', IdleEmpty', isStarted' \in {-1, 0, 1},
               setup' \in Setups /\ trackStarted' \in BOOLEAN /\ stage' \in {-1, 0, 1},
               mode' \in Modes, world' \in Contents
        PROVE  IInv'
    BY <2>0 DEF DataOK, TypeOK
  <2>1. CASE Start
    <3>1. StartObserver \/ UNCHANGED <<isStarted, since, client>>
      BY <2>1 DEF Start, StartStage
    <3>2. UNCHANGED <<inside, validCount>>
      BY <2>1 DEF Start
    <3> QED
      BY <2>0, <2>1, <3>1, <3>2, StartKeeps DEF Start, StartStage, TypeOK
  <2>2. CASE FirstPass
    <3>1. StartObserver \/ UNCHANGED <<isStarted, since, client>>
      BY <2>2 DEF FirstPass, StartStage
    <3>2. UNCHANGED <<inside, validCount>>
      BY <2>2 DEF FirstPass
    <3>3. setup' \in Setups /\ trackStarted' \in BOOLEAN /\ stage' \in {-1, 0, 1}
      BY <2>2 DEF FirstPass, StartStage, TypeOK
    <3> QED
      BY <2>0, <2>2, <3>1, <3>2, <3>3, StartKeeps DEF FirstPass, TypeOK
  <2>3. CASE Stop
    <3>1. DataOK' /\ Consistent' /\ inside' = Nobody
      BY <2>3, ForcedKeeps DEF Stop
    <3> QED
      BY <2>0, <2>3, <3>1, NobodyIsContent DEF Stop, TypeOK, IdleEmpty
  <2>4. CASE Reset
    <3>1. DataOK' /\ Consistent' /\ inside' = Nobody
      BY <2>4, ForcedKeeps DEF Reset
    <3> QED
      BY <2>0, <2>4, <3>1, NobodyIsContent DEF Reset, stages, TypeOK, IdleEmpty
  <2>5. ASSUME NEW c \in Contents, NEW far, NEW step \in Steps, Frame(c, far, step)
        PROVE  IInv'
    <3>1. CASE isStarted = 1 /\ ~Throttled(step)
      <4>1. DataOK' /\ Consistent'
        BY <2>5, <3>1, ObserveKeeps DEF Frame
      <4> QED
        BY <2>0, <2>5, <3>1, <4>1 DEF Frame, stages, TypeOK, IdleEmpty
    <3>2. CASE ~(isStarted = 1 /\ ~Throttled(step))
      <4>1. UNCHANGED <<inside, validCount, client>>
        BY <2>5, <3>2 DEF Frame
      <4>2. since' \in Nat /\ (MinGap > 0 => since' < MinGap)
        <5>1. CASE isStarted = 1
          <6>1. since' = since + step /\ since + step < MinGap
            BY <2>5, <3>2, <5>1 DEF Frame, Late, Throttled
          <6> QED
            BY <6>1, TimeAssumption DEF TypeOK
        <5>2. CASE isStarted # 1
          BY <2>5, <3>2, <5>2 DEF Frame, TypeOK
        <5> QED
          BY <5>1, <5>2
      <4>3. DataOK' /\ Consistent' /\ IdleEmpty'
        BY <2>5, <4>1, <4>2
           DEF Frame, client, TypeOK, Contents, DataOK, Consistent, ViewCurrent, Counted, LastTold, IdleEmpty
      <4> QED
        BY <2>0, <2>5, <4>3 DEF Frame, stages, TypeOK
    <3> QED
      BY <3>1, <3>2
  <2>6. CASE \E m \in Modes : SetMode(m)
    <3>1. PICK m \in Modes : SetMode(m)
      BY <2>6
    <3>2. DataOK' /\ Consistent' /\ IdleEmpty'
      BY <3>1 DEF SetMode, client, TypeOK, Contents, DataOK, Consistent, ViewCurrent, Counted, LastTold, IdleEmpty
    <3> QED
      BY <2>0, <3>1, <3>2 DEF SetMode, TypeOK
  <2>7. CASE ResetObserver
    <3>1. inside' = Nobody /\ validCount' = [r \in Regions |-> 0]
      BY <2>7 DEF ResetObserver, ResetRects
    <3>2. CASE isStarted = 1
      <4>1. DataOK' /\ Consistent' /\ isStarted' = 1
        BY <2>7, <3>1, <3>2, AnnounceKeeps DEF ResetObserver
      <4> QED
        BY <2>0, <2>7, <4>1 DEF ResetObserver, stages, TypeOK, IdleEmpty
    <3>3. CASE isStarted # 1
      <4>1. UNCHANGED <<isStarted, since, client>> /\ inside = Nobody
        BY <2>7, <3>3 DEF ResetObserver, IdleEmpty
      <4>2. \A r \in Regions : Cardinality(Nobody[r]) = 0
        BY FS_EmptySet DEF Nobody
      <4>3. DataOK'
        BY <3>1, <4>1, NobodyIsContent DEF client, TypeOK, DataOK, Contents
      <4>4. ViewCurrent' /\ IdleEmpty'
        BY <3>1, <4>1 DEF client, Consistent, ViewCurrent, IdleEmpty
      <4>5. Counted' /\ LastTold'
        BY <3>1, <4>1, <4>2 DEF client, Consistent, Counted, LastTold
      <4> QED
        BY <2>0, <2>7, <4>1, <4>3, <4>4, <4>5 DEF ResetObserver, stages, TypeOK, Consistent
    <3> QED
      BY <3>2, <3>3
  <2>8. CASE ClearRects
    <3>1. inside' = Nobody /\ validCount' = [r \in Regions |-> 0] /\ exact' = {}
      BY <2>8 DEF ClearRects, ResetRects
    <3>2. \A r \in Regions : Cardinality(Nobody[r]) = 0
      BY FS_EmptySet DEF Nobody
    <3>3. DataOK'
      BY <2>8, <3>1, NobodyIsContent DEF ClearRects, TypeOK, DataOK, Contents
    <3>4. Consistent' /\ IdleEmpty'
      BY <3>1, <3>2 DEF Consistent, ViewCurrent, Counted, LastTold, IdleEmpty
    <3> QED
      BY <2>0, <2>8, <3>3, <3>4 DEF ClearRects, stages, TypeOK
  <2>9. CASE UNCHANGED vars
    <3>1. DataOK' /\ Consistent' /\ IdleEmpty'
      BY <2>9 DEF vars, client, TypeOK, Contents, DataOK, Consistent, ViewCurrent, Counted, LastTold, IdleEmpty
    <3> QED
      BY <2>0, <2>9, <3>1 DEF vars, stages, TypeOK
  <2> QED
    BY <2>1, <2>2, <2>3, <2>4, <2>5, <2>6, <2>7, <2>8, <2>9 DEF Next, SomeFrame
<1> QED
  BY <1>1, <1>2, PTL DEF Spec

\* The variables keep their types, and an observer never falls behind by more
\* than maxFPS allows.
THEOREM TypeCorrect == Spec => []TypeOK
  BY Invariance, PTL DEF IInv

\* A client's view of a region is what the observer keeps, unless clients had
\* the region cleared or a change left out of a full frame.
THEOREM ViewStaysCurrent == Spec => []ViewCurrent
  BY Invariance, PTL DEF IInv, Consistent

\* A count the client was told is the number of objects in its view, whatever
\* the counter of the observer held before it was first assigned.
THEOREM CountsFollow == Spec => []CountFollows
<1>1. IInv => CountFollows
  BY DEF IInv, TypeOK, Consistent, ViewCurrent, Counted, LastTold, CountFollows
<1> QED
  BY <1>1, Invariance, PTL

\* Everybody has left in the view of a client when the observer is stopped.
THEOREM StopsEmpty == Spec => []StopEmpties
<1>1. IInv => StopEmpties
  BY DEF IInv, TypeOK, Consistent, ViewCurrent, IdleEmpty, StopEmpties, Nobody
<1> QED
  BY <1>1, Invariance, PTL
=============================================================================
