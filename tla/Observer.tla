------------------------------ MODULE Observer ------------------------------
(***************************************************************************)
(* Reports of tracked objects: one TrackableObserver with regions, as it   *)
(* hangs below the TrackableMultiObserver of the tracker (lidartool/       *)
(* Trackable/TrackableObserver.h), and one client of it.  With every frame *)
(* the tracker shows which objects are in which region; the observer keeps *)
(* the objects of each region, finds out who entered, moved and left, and  *)
(* reports it as JSON: events one by one and only on changes, or the frame *)
(* in one message, as set by clients of a web socket at run time.          *)
(*                                                                         *)
(* The client is not part of the code.  It empties its view at a "start",  *)
(* follows events, and takes a message of a full frame for all there is in *)
(* a region.  The filter holds start, region, enter, move, leave and       *)
(* count; reports reach the client in order; each call is one step.  Only  *)
(* frames take time.                                                       *)
(***************************************************************************)
EXTENDS Integers, FiniteSets

CONSTANTS
  Ids,         \* ids of tracked objects
  Regions,     \* regions of the observer, which may overlap
  Modes,       \* settings of fullFrame and continuous clients ask for
  Commands,    \* resets clients ask for: "restart" (JSON), "clear" (plain)
  MinGap,      \* 1000 / maxFPS, 0 if maxFPS is 0
  Steps,       \* time from one frame to the next
  Setups,      \* settings of alwaysOn and g_OpenOnStart
  Garbage,     \* what a counter that is not initialised may hold
  Unknown      \* the client has not been told

ASSUME TimeAssumption == MinGap \in Nat /\ Steps \subseteq Nat \ {0}

ASSUME SetupAssumption ==
  /\ Setups \subseteq [alwaysOn : BOOLEAN, openOnStart : BOOLEAN]
  /\ Modes \subseteq [full : BOOLEAN, continuous : BOOLEAN] /\ Modes # {}
  /\ Commands \subseteq {"restart", "clear"}
  /\ Garbage \subseteq Nat /\ Unknown \notin Nat
  /\ IsFiniteSet(Ids)

VARIABLES
  setup,        \* never changes
  trackStarted, \* the main loop has made its first pass
  stage,        \* isStarted of the tracker and its multi observer
  isStarted,    \* of the observer: -1 as constructed, 1 started, 0 stopped
  mode,         \* fullFrame and continuous
  inside,       \* objects of each region
  validCount,   \* their number as counted by the last observe()
  since,        \* time of the last frame - timestamp of the observer
  world,        \* objects in each region as shown by the tracker last
  view, told,   \* the client: objects in each region, and their number
  exact         \* history: regions of which no event was kept from the client

stages == <<setup, trackStarted, stage, mode>>
client == <<view, told, exact>>
vars   == <<stages, isStarted, inside, validCount, since, world, client>>

Nobody == [r \in Regions |-> {}]

-----------------------------------------------------------------------------
(* observe() and the reports it makes of the content c of the regions.     *)

Entered(r, c) == c[r] \ inside[r]
Gone(r, c)    == inside[r] \ c[r]

\* Those that moved by reportDistance at least.
Moved(r, c, far) == {i \in inside[r] \cap c[r] : mode.continuous \/ <<r, i>> \in far}

HasMovedObject(r, c, far) ==
  validCount[r] # Cardinality(c[r]) \/ Moved(r, c, far) # {}

\* A region without such an object is left out of a full frame.
Reported(r, c, far) == mode.full /\ ~mode.continuous => HasMovedObject(r, c, far)

\* A mutant: in split messages who left is not reported.
ShownWithoutLeave(r, c, far) ==
  IF mode.full THEN c[r] ELSE view[r] \cup Entered(r, c) \cup Moved(r, c, far)

Shown(r, c, far) ==
  IF mode.full THEN c[r]
  ELSE (view[r] \cup Entered(r, c) \cup Moved(r, c, far)) \ Gone(r, c)

\* A mutant: the count is reported only if it has grown.
CountReportedGrown(r, c) == mode.continuous \/ validCount[r] < Cardinality(c[r])

CountReported(r, c) == mode.continuous \/ validCount[r] # Cardinality(c[r])

Observe(c, far) ==
  /\ inside'     = c
  /\ validCount' = [r \in Regions |-> Cardinality(c[r])]
  /\ since'      = 0
  /\ view'       = [r \in Regions |->
                      IF Reported(r, c, far) THEN Shown(r, c, far) ELSE view[r]]
  /\ told'       = [r \in Regions |->
                      IF Reported(r, c, far) /\ CountReported(r, c)
                      THEN Cardinality(c[r]) ELSE told[r]]
  /\ exact'      = {r \in Regions :
                      \/ r \in exact /\ (c[r] = inside[r] \/ Reported(r, c, far))
                      \/ mode.full /\ Reported(r, c, far)}

\* A mutant: what clears the tracker is not forced through the limit of maxFPS.
ForcedNot(c) ==
  IF isStarted = 1 /\ since >= MinGap
  THEN Observe(c, {})
  ELSE UNCHANGED <<inside, validCount, since, client>>

\* observe() as it clears the tracker, whatever maxFPS.
Forced(c) ==
  IF isStarted = 1
  THEN Observe(c, {})
  ELSE UNCHANGED <<inside, validCount, since, client>>

\* A mutant: frames that are left out count as reported.
LateNever(step) == 0

\* The time that has passed since the timestamp after a frame that is left out.
Late(step) == since + step

\* A mutant: a frame that is due is left out.
ThrottledEqual(step) == since + step <= MinGap

Throttled(step) == since + step < MinGap

-----------------------------------------------------------------------------
Init ==
  /\ setup \in Setups
  /\ trackStarted = FALSE
  /\ stage = -1 /\ isStarted = -1
  /\ mode \in Modes
  /\ inside = Nobody
  /\ validCount \in [Regions -> Garbage]
  /\ since = 0
  /\ world = Nobody
  /\ view = Nobody /\ told = [r \in Regions |-> Unknown]
  /\ exact = Regions

\* A "start" is reported.
Announce ==
  /\ isStarted' = 1
  /\ since' = 0
  /\ view' = Nobody /\ told' = [r \in Regions |-> Unknown]
  /\ exact' = Regions

\* start() of the observer.
StartObserver ==
  IF isStarted = 1 THEN UNCHANGED <<isStarted, since, client>> ELSE Announce

\* start() of the tracker.
StartStage ==
  /\ stage' = 1
  /\ IF stage = 1 THEN UNCHANGED <<isStarted, since, client>> ELSE StartObserver

\* start() by the web API.
Start ==
  /\ stage # 1
  /\ StartStage
  /\ UNCHANGED <<setup, trackStarted, mode, inside, validCount, world>>

\* The first pass of the main loop; observers that are always on are started
\* even if the tracker is not.
FirstPass ==
  /\ ~trackStarted
  /\ trackStarted' = TRUE
  /\ IF setup.openOnStart
     THEN StartStage
     ELSE /\ IF setup.alwaysOn THEN StartObserver ELSE UNCHANGED <<isStarted, since, client>>
          /\ UNCHANGED stage
  /\ UNCHANGED <<setup, mode, inside, validCount, world>>

\* stop() by the web API, between two frames: the tracker is cleared first.
Stop ==
  /\ stage # 0
  /\ stage' = 0
  /\ isStarted' = IF setup.alwaysOn THEN isStarted ELSE 0
  /\ world' = Nobody
  /\ Forced(Nobody)
  /\ UNCHANGED <<setup, trackStarted, mode>>

\* A frame of the tracker, which shows nobody when it is stopped.
Frame(c, far, step) ==
  /\ trackStarted
  /\ stage = 0 => c = Nobody
  /\ world' = c
  /\ IF isStarted = 1 /\ ~Throttled(step)
     THEN Observe(c, far)
     ELSE /\ since' = IF isStarted = 1 THEN Late(step) ELSE since
          /\ UNCHANGED <<inside, validCount, client>>
  /\ UNCHANGED <<stages, isStarted>>

\* reset() in place of a frame, while a device scans its environment.
Reset ==
  /\ trackStarted
  /\ world' = Nobody
  /\ Forced(Nobody)
  /\ UNCHANGED <<stages, isStarted>>

\* rects.reset()
ResetRects ==
  /\ inside' = Nobody
  /\ validCount' = [r \in Regions |-> 0]

\* A client asks for another kind of report.
SetMode(m) ==
  /\ mode' = m
  /\ UNCHANGED <<setup, trackStarted, stage, isStarted, inside, validCount, since, world, client>>

\* {"reset":true} by a client stops the observer and starts it again.
ResetObserver ==
  /\ "restart" \in Commands
  /\ ResetRects
  /\ IF isStarted = 1 THEN Announce ELSE UNCHANGED <<isStarted, since, client>>
  /\ UNCHANGED <<stages, world>>

\* reset by a client, as plain text, resets the regions only.
ClearRects ==
  /\ "clear" \in Commands
  /\ ResetRects
  /\ exact' = {}
  /\ UNCHANGED <<stages, isStarted, since, world, view, told>>

Contents == [Regions -> SUBSET Ids]

SomeFrame ==
  \E c \in Contents, far \in SUBSET (Regions \X Ids), step \in Steps : Frame(c, far, step)

Next ==
  \/ Start \/ FirstPass \/ Stop \/ Reset
  \/ SomeFrame
  \/ \E m \in Modes : SetMode(m)
  \/ ResetObserver \/ ClearRects

Spec == Init /\ [][Next]_vars

\* The scene stays as it is for a frame.
StillFrame ==
  \E far \in SUBSET (Regions \X Ids), step \in Steps : Frame(world, far, step)

\* The main loop goes on.  Fairness is put on frames of a scene at rest, the
\* only ones EventuallyShown is about.
FairSpec == Spec /\ WF_vars(StillFrame)

-----------------------------------------------------------------------------
\* The variables have their types, and the observer never falls behind by more
\* than maxFPS allows.
TypeOK ==
  /\ setup \in Setups /\ trackStarted \in BOOLEAN
  /\ stage \in {-1, 0, 1} /\ isStarted \in {-1, 0, 1}
  /\ mode \in Modes
  /\ {inside, world, view} \subseteq Contents
  /\ validCount \in [Regions -> Nat] /\ told \in [Regions -> Nat \cup {Unknown}]
  /\ since \in Nat /\ (MinGap > 0 => since < MinGap)
  /\ exact \subseteq Regions

\* What the client has made of the events it was told is what the observer
\* keeps, through changes of mode, stops, starts and resets.
ViewCurrent == \A r \in exact : view[r] = inside[r]

\* A client that is told a count has the number of objects it was told of.
CountFollows == \A r \in exact : told[r] # Unknown => told[r] = Cardinality(view[r])

\* Whoever is in a region when the observer is stopped leaves before it stops.
StopEmpties == isStarted = 0 => \A r \in exact : view[r] = {}

\* maxFPS never starves a client: what stays as it is will be reported.
EventuallyShown ==
  <>[](isStarted = 1 /\ exact = Regions) /\ <>[][world' = world /\ ~ResetObserver]_vars
    => []<>(view = world)
=============================================================================
