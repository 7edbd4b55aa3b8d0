------------------------------ MODULE Tracker ------------------------------
(***************************************************************************)
(* The object tracker, TrackableMultiStage (lidartool/Trackable/           *)
(* Trackable.h).  Every frame unite() assigns the objects merged from all  *)
(* devices to the tracks of the frame before, drops tracks that were not   *)
(* seen for KeepTime, and activates tracks that were seen long enough: an  *)
(* activated track has an id and is reported.  A dropped track may leave   *)
(* its id with an activated neighbour, where it is latent until a track    *)
(* that is activated nearby takes it over or until it is too old.          *)
(*                                                                         *)
(* Positions are abstracted: a frame is the sequence of the pairs of track *)
(* and object that are closer than trackDistance, sorted by distance, and  *)
(* any neighbour may be the closest.  Times are relative to the frame: age *)
(* is now - firstTime, unseen is now - lastTime.  Time never runs back.    *)
(***************************************************************************)
EXTENDS Integers, Sequences, FiniteSets, SequencesExt

CONSTANTS
  KeepTime,       \* keepTime
  MinActiveTime,  \* minActiveTime
  DropTime,       \* minActiveTime * minActiveFraction
  LatentLifeTime, \* latentLifeTime
  LatentIds,      \* latentDistance > 0: ids of dropped tracks are kept
  OpenOnStart,    \* g_OpenOnStart: the main loop starts the tracker
  Steps,          \* time from one frame to the next
  AgeCap,         \* ages are not told apart above it
  MaxTracks, MaxObjects, MaxPairs, MaxId, \* bounds
  NoFrame

ASSUME TimeAssumption ==
  /\ {KeepTime, MinActiveTime, DropTime, LatentLifeTime, AgeCap} \subseteq Nat
  /\ Steps \subseteq Nat \ {0}
  /\ AgeCap > MinActiveTime + DropTime

ASSUME SetupAssumption ==
  /\ LatentIds \in BOOLEAN /\ OpenOnStart \in BOOLEAN
  /\ {MaxTracks, MaxObjects, MaxPairs, MaxId} \subseteq Nat

VARIABLES
  isStarted,    \* -1 as constructed, 1 started, 0 stopped
  trackStarted, \* the main loop has made its first pass
  counter,      \* the static id of Trackable::nextId
  tracks,       \* current: the sequence of tracks
  objects,      \* how many objects were merged for the frame to be united
  frame,        \* locals of unite() while it runs
  at            \* the index its last loop has reached, 0 if it does not run

vars == <<isStarted, trackStarted, counter, tracks, objects, frame, at>>

-----------------------------------------------------------------------------
(* Assigning objects to tracks.  An assignment has both maps of the code:  *)
(* the object of each track and the track of each object, 0 for none.      *)

Unassigned(n, m) ==
  [current |-> [t \in 1 .. n |-> 0], merged |-> [o \in 1 .. m |-> 0]]

\* A pair of the sorted sequence, if neither is assigned already.
Assign(a, pair) ==
  IF a.current[pair.track] = 0 /\ a.merged[pair.object] = 0
  THEN [current |-> [a.current EXCEPT ![pair.track] = pair.object],
        merged  |-> [a.merged EXCEPT ![pair.object] = pair.track]]
  ELSE a

\* The track that holds the object gives it up to an older one.
MayTakeOver(a, pair) ==
  LET c == pair.track
      u == a.merged[pair.object]
  IN  /\ a.current[c] = 0
      /\ u # 0
      /\ ~tracks[u].active
      /\ tracks[c].active /\ tracks[c].age > tracks[u].age

\* A mutant: the track that takes over is not given the object.
TakeOverForgetting(a, pair, garbage) ==
  IF MayTakeOver(a, pair)
  THEN [a EXCEPT !.current[a.merged[pair.object]] = 0]
  ELSE a

\* The code reads currentMap, which is indexed by tracks, at the index of an
\* object, and updates the entry of mergedMap it finds there: the entry of the
\* object itself is set only if the indices happen to agree.  currentMap has one
\* element more than there are tracks; what lies beyond is garbage.  A write to
\* mergedMap[-1] changes neither map.
TakeOver(a, pair, garbage) ==
  LET n == Len(tracks)
      o == pair.object
      x == CASE o <= n    -> a.current[o]
             [] o = n + 1 -> 0
             [] OTHER     -> garbage
  IN  IF MayTakeOver(a, pair)
      THEN [current |-> [a.current EXCEPT ![pair.track] = o, ![a.merged[o]] = 0],
            merged  |-> IF x = 0 THEN a.merged ELSE [a.merged EXCEPT ![x] = pair.track]]
      ELSE a

\* The first loop over the pairs ...
Greedy(pairs, m) ==
  LET upTo[k \in 0 .. Len(pairs)] ==
        IF k = 0 THEN Unassigned(Len(tracks), m) ELSE Assign(upTo[k - 1], pairs[k])
  IN  upTo[Len(pairs)]

\* ... and the second, from what the first one left.
HandedOver(pairs, greedy, garbage) ==
  LET upTo[k \in 0 .. Len(pairs)] ==
        IF k = 0 THEN greedy ELSE TakeOver(upTo[k - 1], pairs[k], garbage)
  IN  upTo[Len(pairs)]

\* Without objects there are no pairs.
Assignment(pairs, m, garbage) ==
  IF m = 0 THEN Unassigned(Len(tracks), m)
  ELSE HandedOver(pairs, Greedy(pairs, m), garbage)

\* What trackInfo may be: some pairs, in any order.
SortedPairs(n, m) ==
  LET Pairs == [track : 1 .. n, object : 1 .. m]
  IN  UNION {{s \in [1 .. k -> Pairs] : \A i, j \in 1 .. k : s[i] = s[j] => i = j} :
               k \in 0 .. MaxPairs}

-----------------------------------------------------------------------------
(* Tracks. *)

NewTrack == [active |-> FALSE, id |-> 0, age |-> 0, unseen |-> 0, latent |-> {}]

Active == {t \in DOMAIN tracks : tracks[t].active}

Older(age, step) == IF age + step < AgeCap THEN age + step ELSE AgeCap

\* A track in the next frame, before anything is dropped.
Aged(t, a, step) ==
  [tracks[t] EXCEPT
     !.age    = Older(@, step),
     !.unseen = IF a.current[t] = 0 THEN @ + step ELSE 0,
     !.latent = {[e EXCEPT !.age = @ + step] : e \in @}]

\* A mutant: a track is dropped one frame late.
DroppedLate(a, step) ==
  {t \in DOMAIN tracks : a.current[t] = 0 /\ tracks[t].unseen + step > KeepTime}

Dropped(a, step) ==
  {t \in DOMAIN tracks : a.current[t] = 0 /\ tracks[t].unseen + step >= KeepTime}

\* The neighbours the dropped tracks may leave their ids with; the neighbour
\* may be dropped in the same frame.
Hosts(drop) ==
  {h \in [drop -> 0 .. Len(tracks)] :
     \A t \in drop : h[t] # 0 => LatentIds /\ h[t] \in Active \ {t}}

\* Tracks that get an id only because it is asked for when they are dropped.
Numbered(host) == {t \in DOMAIN host : host[t] # 0 /\ ~tracks[t].active}

\* The id left behind: Trackable::id() issues one if there is none.
IdOf(t, host) ==
  IF tracks[t].active THEN tracks[t].id
  ELSE counter + Cardinality({u \in Numbered(host) : u >= t})

Left(t, host) ==
  {[id |-> IdOf(u, host), age |-> 0] :
     u \in {v \in DOMAIN host : host[v] = t /\ \A e \in tracks[t].latent : e.id # IdOf(v, host)}}

\* Vectors are compacted in order.
Selections(S) ==
  {pos \in [1 .. Cardinality(S) -> S] : \A i, j \in DOMAIN pos : i < j => pos[i] < pos[j]}

-----------------------------------------------------------------------------
Init ==
  /\ isStarted = -1 /\ trackStarted = FALSE
  /\ counter = 0
  /\ tracks = <<>>
  /\ objects = NoFrame
  /\ frame = NoFrame /\ at = 0

Started ==
  /\ isStarted' = 1
  /\ counter' = 0

\* start() by the web API, which does not wait for a frame to end.
Start ==
  /\ isStarted # 1
  /\ Started
  /\ UNCHANGED <<trackStarted, tracks, objects, frame, at>>

\* The first pass of the main loop.
FirstPass ==
  /\ ~trackStarted
  /\ trackStarted' = TRUE
  /\ IF OpenOnStart /\ isStarted # 1
     THEN Started
     ELSE UNCHANGED <<isStarted, counter>>
  /\ UNCHANGED <<tracks, objects, frame, at>>

\* A mutant: the tracks stay when the tracker is stopped.
StopKeeping ==
  /\ at = 0
  /\ isStarted # 0
  /\ isStarted' = 0
  /\ UNCHANGED <<trackStarted, counter, tracks, objects, frame, at>>

\* stop() by the web API, which waits for no frame either.  It comes between two
\* frames or while unite() merges objects; when it comes while unite() works on
\* the tracks, both threads change one vector and nothing can be said.
Stop ==
  /\ at = 0
  /\ isStarted # 0
  /\ tracks' = <<>>
  /\ isStarted' = 0
  /\ UNCHANGED <<trackStarted, counter, objects, frame, at>>

\* reset() in place of a frame, while a device scans its environment.
Reset ==
  /\ trackStarted /\ objects = NoFrame /\ at = 0
  /\ tracks' = <<>>
  /\ UNCHANGED <<isStarted, trackStarted, counter, objects, frame, at>>

\* A frame begins: the objects of all devices are merged, if started.
Merge(m) ==
  /\ trackStarted /\ objects = NoFrame /\ at = 0
  /\ isStarted = 0 => m = 0
  /\ objects' = m
  /\ UNCHANGED <<isStarted, trackStarted, counter, tracks, frame, at>>

\* unite() up to the erasure of the dropped tracks.
Unite(step, pairs, garbage) ==
  LET m    == objects
      a    == Assignment(pairs, m, garbage)
      drop == Dropped(a, step)
      new  == Cardinality({o \in 1 .. m : a.merged[o] = 0})
      kept == Cardinality(DOMAIN tracks \ drop)
  IN  /\ objects # NoFrame
      /\ kept + new <= MaxTracks
      /\ counter + Cardinality(DOMAIN tracks \ Active) + new <= MaxId
      /\ \E host \in Hosts(drop), pos \in Selections(DOMAIN tracks \ drop) :
           /\ tracks' =
                [j \in 1 .. kept + new |->
                   IF j <= kept
                   THEN [Aged(pos[j], a, step) EXCEPT !.latent = @ \cup Left(pos[j], host)]
                   ELSE NewTrack]
           /\ counter' = counter + Cardinality(Numbered(host))
      /\ frame' = [step |-> step, current |-> a.current, merged |-> a.merged]
      /\ at' = 1
      /\ objects' = NoFrame
      /\ UNCHANGED <<isStarted, trackStarted>>

\* The last loop erases a track that was not seen enough to be activated, ...
Inactive(t) == ~tracks[t].active /\ tracks[t].unseen > DropTime

Forget ==
  /\ at \in DOMAIN tracks /\ Inactive(at)
  /\ tracks' = RemoveAt(tracks, at)
  /\ UNCHANGED <<isStarted, trackStarted, counter, objects, frame, at>>

\* ... activates a track that was seen long enough, ...
Ripe(t) ==
  /\ ~tracks[t].active /\ ~Inactive(t)
  /\ tracks[t].unseen = 0 /\ tracks[t].age > MinActiveTime

Oldest(e, latent) == \A f \in latent : f.age < e.age \/ (f.age = e.age /\ e.id <= f.id)

\* A mutant: an id taken over stays with its host.
WithoutTakenNone(t, taken) == tracks[t].latent

WithoutTaken(t, taken) ==
  tracks[t].latent \ (IF t \in DOMAIN taken THEN {taken[t]} ELSE {})

\* A mutant: the counter is read before it is incremented.
NextIdStale == counter

NextId == counter + 1

\* Every host with latent ids that is closer than the one before loses its
\* oldest id; only the last of them is used.
Activate(near, taken) ==
  LET id == IF near = {} THEN NextId ELSE taken[CHOOSE h \in near : \A g \in near : h <= g].id
  IN  /\ at \in DOMAIN tracks /\ Ripe(at)
      /\ tracks' =
           [t \in DOMAIN tracks |->
              [tracks[t] EXCEPT !.latent = WithoutTaken(t, taken),
                                !.active = @ \/ t = at,
                                !.id     = IF t = at THEN id ELSE @]]
      /\ counter' = IF near = {} THEN counter + 1 ELSE counter
      /\ at' = at + 1
      /\ UNCHANGED <<isStarted, trackStarted, objects, frame>>

\* ... and passes over the others.
Pass ==
  /\ at \in DOMAIN tracks /\ ~Inactive(at) /\ ~Ripe(at)
  /\ at' = at + 1
  /\ UNCHANGED <<isStarted, trackStarted, counter, tracks, objects, frame>>

\* finish() and cleanup(): latent ids of objects taken for several do not age,
\* the old ones are forgotten.
Finish(split) ==
  LET Latent(t) ==
        {[e EXCEPT !.age = @ - IF t \in split THEN frame.step ELSE 0] : e \in tracks[t].latent}
  IN  /\ at = Len(tracks) + 1
      /\ tracks' = [t \in DOMAIN tracks |->
                      [tracks[t] EXCEPT !.latent = {e \in Latent(t) : e.age <= LatentLifeTime}]]
      /\ frame' = NoFrame
      /\ at' = 0
      /\ UNCHANGED <<isStarted, trackStarted, counter, objects>>

Next ==
  \/ Start \/ FirstPass \/ Stop \/ Reset
  \/ \E m \in 0 .. MaxObjects : Merge(m)
  \/ /\ objects # NoFrame
     /\ \E step \in Steps, pairs \in SortedPairs(Len(tracks), objects),
           garbage \in IF objects > Len(tracks) + 1 THEN 0 .. objects ELSE {0} :
          Unite(step, pairs, garbage)
  \/ Forget
  \/ \E near \in SUBSET {t \in Active : LatentIds /\ tracks[t].latent # {}} :
       \E taken \in [near -> UNION {tracks[t].latent : t \in near}] :
         /\ \A t \in near : taken[t] \in tracks[t].latent /\ Oldest(taken[t], tracks[t].latent)
         /\ Activate(near, taken)
  \/ Pass
  \/ \E split \in SUBSET {t \in DOMAIN tracks : tracks[t].latent # {}} : Finish(split)

Spec == Init /\ [][Next]_vars

-----------------------------------------------------------------------------
LatentEntry == [id : Nat, age : Int]

\* No track outlives KeepTime unseen, not even one that nobody saw again.
Unseen == {u \in Nat : u = 0 \/ u < KeepTime}

Track == [active : BOOLEAN, id : Nat, age : 0 .. AgeCap, unseen : Unseen,
          latent : SUBSET LatentEntry]

\* The variables have their types.
TypeOK ==
  /\ isStarted \in {-1, 0, 1} /\ trackStarted \in BOOLEAN
  /\ counter \in Nat
  /\ tracks \in Seq(Track)
  /\ objects = NoFrame \/ objects \in Nat
  /\ at \in Nat /\ (at # 0 => frame.step \in Steps)


\* No two activated tracks have the same id, an id is latent at one track only,
\* and no latent id is in use: through hand-overs, drops, stops, starts that
\* reset the counter, and resets.
IdsUnique ==
  \A t, u \in DOMAIN tracks :
    /\ tracks[t].active /\ tracks[u].active /\ tracks[t].id = tracks[u].id => t = u
    /\ \A e \in tracks[t].latent :
         /\ tracks[u].active => e.id # tracks[u].id
         /\ \A f \in tracks[u].latent : e.id = f.id => t = u /\ e = f

LiveIds ==
  {tracks[t].id : t \in Active} \cup UNION {{e.id : e \in tracks[t].latent} : t \in DOMAIN tracks}

\* An id that was given up, neither in use nor latent, never comes back before
\* the next start: what appears has just been issued.
NoRevival == [][\A d \in LiveIds' \ LiveIds : d > counter]_vars

\* Seen through its ids the tracker is a pool of numbers: start(), which may come
\* at any moment of a frame, sets the counter back only when nobody has an id.
Pool == INSTANCE IdPool WITH live <- LiveIds

PoolSpec == Pool!Spec

\* An object the maps call assigned has a track: it neither vanishes nor is
\* left waiting for a new track to be made in the next frame, as long as
\* currentMap is not read past its end.  The entry a hand-over writes by mistake
\* is always that of an object that has a track.
Served ==
  frame # NoFrame /\ Len(frame.merged) <= Len(frame.current) + 1 =>
    \A o \in DOMAIN frame.merged :
      frame.merged[o] # 0 => \E t \in DOMAIN frame.current : frame.current[t] = o

\* The comments of unite() as a property: objects are assigned "only if they
\* are not already assigned", an older track is assigned "instead" of a younger.
OneHolder ==
  frame # NoFrame =>
    \A t, u \in DOMAIN frame.current :
      frame.current[t] = frame.current[u] /\ frame.current[t] # 0 => t = u

=============================================================================
