# Verification of the lidar tracking system

TLA+ models of the programs in `src/`, model-checked with TLC and proved about
with TLAPS. `lidartool` reads laser scanners, detects objects in their scans,
tracks the objects and reports them; it runs as a server and, on single-board
computers next to the scanners, as nodes that send scans to the server.
`PROJECT.json` has the exact correspondence: for every definition the lines of
code it models, for every property the run that checks it and a plausible bug
that breaks it, and the hazards with the properties aimed at them.

## Inventory

| component | state | operations | interacts with | hard | what makes it correct | modelled |
|---|---|---|---|---|---|---|
| Virtual link, scan transport (`lidarVirtDriver.cpp`) | list of partial scans, last number, count of stale scans | cut and send a scan, receive a datagram, grab the newest scan, connect | UDP peer; the thread of the device | loss, reordering, repetition, restart of either end, full list | a scan is returned whole or not at all; the newest one gets through; a sender that starts over is heard | `ScanTransport` |
| Virtual link, handshake (`lidarVirtDriver.cpp`, `lidarKit.cpp`) | peer address, command queue, what was sent and is dirty | connect, device type, use of the environment | both ends; device life cycle | restarts, either end the bound one | the server learns the type of every node, the node follows the server's settings | `VirtualLink`, without motor and power |
| Object tracker (`Trackable/Trackable.h`) | tracks with ids and ages, latent ids, counter of ids | unite (per frame), start, stop, reset | devices (objects in), observers (objects out), web API threads | assignment and hand-over in one frame, ids through drops, calls from other threads | ids are unique and never come back; every object has a track, and one only | `Tracker` |
| Observers (`Trackable/TrackableObserver.h`) | objects and counts per region, mode | observe, start, stop, reset, changes of mode, schemes | tracker, regions, clients | reports on changes only, limits of the frame rate, resets by clients | a client that follows the events knows who is in a region | `Observer`, without schemes and gates |
| Observer back ends | queue of messages, thread, connections, files | collect and write messages | observers, external services | threads, start and stop that do not get there | nothing is lost between queue and back end, nothing overtaken | `MessageQueue` (file, MQTT) |
| Device life cycle (`lidarKit.cpp`) | should-open flag, drivers, ready and failed flags | open, close, reopen, scan thread | web API, link, drivers, failures | flags set by one thread and acted on by another, partial failure of drivers | a device that should be open is opened eventually, and closed once | `Device` |
| Environment scanning and detection (`lidarKit.cpp`) | learnt distances, adaption | scan environment, detect objects | device thread, link (environment data) | overlapping scans; floating-point signal processing | a scan gives back the settings it changed, and ends | state machine in `Device` |
| Packed player and recorder (`packedPlayer.h`, `TrackBase.cpp`) | position in the file, clock, one slot between player thread and main loop | read, sleep, deliver, move, pause | main loop, observers, web API | hand-off between threads, moves while it reads | frames in order and in time, whatever moves disturb | `PackedPlayer`, `FrameSlot` |
| Main loop, web API, failures (`lidarTool.cpp`) | running mode, failure table | frames, HTTP handlers, failure reports | everything | handlers run in threads of their own | a failure is reported once and withdrawn | in `Device`, `Replay`, `Tracker` |
| Device list, groups, registration | active and inactive devices, groups, transformations | activate, deactivate, register | web API, tracker | changes while the main loop iterates | - | no |
| Regions and configuration (`TrackBase.cpp`, `keyValueMap.h`) | named regions, observer descriptions | create, edit, delete, save, load | observers, web GUI | edits while observers use them | - | no |
| Scan recorder and player, trackable HUB | file, clock; connection | record, play in step; decode | device thread; observers | mostly I/O | - | no |
| Administration, nodes, configuration (shell scripts) | registered nodes, roles | register, start servers | nodes, server | mostly scripts | - | no |
| Sensor drivers, vendored libraries, web GUI | - | - | - | byte protocols, third-party code | - | no |

## Modules

| module | what it models |
|---|---|
| `ScanTransport` | one direction of the virtual link: `SendScan` (sendScanData), `Receive` (the scan branch of update, getScanData, addData), `Grab` (grabScanData), `Connect`, restarts of both processes, and the network (`Lose`, repetition inside `Receive`) |
| `ScanDataList` | the list of partial scans as the vector it is: searched from the back, inserted into, erased from while it is walked; instantiated over `ScanTransport` and shown to implement its store |
| `ScanStream` | abstract specification of the link: what shows up was published, whole |
| `IdPool` | abstract specification of the tracker's ids: issued in ascending order, never twice, started over only when nobody has one |
| `OrderedLog` | abstract specification of a file observer: what it takes ascends and is written in that order until the process ends |
| `VirtualLink` | both ends of a link and how they find each other: `NodeReceive`, `ServerReceive` (update), `NodeCommands`, `ServerCommands` (the command part of ThreadFunction), `SendScan`, `GrabScan`, `sendOutEnv`, `NodeAsks`, `ServerAsks` (the second half of update), users and restarts |
| `Device` | one device: the thread (`ThreadStep`), the handlers of the web API (`Start`, `Stop`, `Reopen`, `RunDevice`, `ScanEnv`, `setUseOutEnv`), the main loop (`Update`, `updateFailures`) and the times that pass |
| `Tracker` | the tracker: `Merge`, then `Unite` (assignment, hand-over, drops, new tracks), then the last loop of unite() one track at a time (`Forget`, `Activate`, `Pass`), then `Finish`; `Start`, `Stop`, `FirstPass`, `Reset` from the web API and the main loop |
| `Observer` | one observer below the multi observer of the tracker and one client: `Frame`, `Reset`, `Start`, `FirstPass`, `Stop` from the tracker, `SetMode`, `ResetObserver`, `ClearRects` from clients |
| `PackedPlayer` | the thread of the player (`PlayerThread`: grabFrame) and a move of the web API (`play`, `sync`, `SetStartTime`), one access to the file or its time per step |
| `FrameSlot` | the slot between that thread and the main loop |
| `MessageQueue` | the queue of a threaded observer and its thread |
| `Replay` | composes `FrameSlot` and `MessageQueue` with the main loop and the web API |
| `...Proofs` | proofs about `ScanTransport`, `ScanDataList`, `VirtualLink`, `Device`, `Tracker`, `Observer`, `PackedPlayer` and `Replay` (the last two in `ReplayProofs`) |
| `Recursion` | induction over numbers and functions defined by recursion over them, for the proofs about loops |
| `MC...` | instances for TLC |

### The virtual link: scans

A scan of *n* samples is cut into datagrams of `NodesPerPacket` samples, the last
one possibly shorter. An entry of the receiver's list has a slot for each datagram.
A slot holds the session and number of the scan its samples were measured in, which
is all the properties tell apart; sessions are known to the model only, a real
datagram does not name the incarnation of its sender. `overrun` is set when a
datagram does not fit the entry of its number; what the code does then is undefined, so
the model stops there. The packet id is 8 bits wide in the datagram; the model has
no wrap, as scans stay below 256 packets.

### The virtual link: handshake

`Init` chooses which end is bound to a port; the other is connected to it. The address of the
bound end is always 1, that of the other end changes with its incarnation (`session`,
`serverSession`); 0 is none. Each end remembers whom it sends to (`nodeRemote`) and whom it
heard last (`nodeLast`), answers a new address with "connect", and queues commands for the
thread of the device, which works off the last of each kind (`isLast`). A node that finds a
"connect" in its queue tells the type of its sensor once; the server takes over the last one,
and sends the use of the environment when that is dirty or when the node's address is not the
one it had noted. A restart empties one end; `survivors` says which datagrams still reach it.
Between restarts the network keeps order and loses nothing: the code repeats none of its
commands, so one that is lost is lost for good, and no property of commands could hold. Loss of
scans is the subject of `ScanTransport`.

### A device

`pc` names the places where the thread may be interrupted: between a driver's answer and the flags it
leads to, before and after samples, around the end of an environment scan. The web API only sets flags.
What the drivers find is any choice: they open or not, a sensor may fail its health check, samples come or
not. `openTime` and `useOutEnvBak` are not set by the constructor, so their values are
chosen. `deviceFailed` is the string the code keeps and reads as a bool. `wanted` and `overlap` are
history variables: what useOutEnv was last asked for, and whether environment scans overlapped.

### The tracker

A frame is given by the sequence of pairs (track, object) closer than
`trackDistance`, sorted by distance: any sequence of pairs is taken. The
assignment and the hand-over to older tracks are loops over it (recursive functions, whose value at *i* are the
two maps after *i* pairs), exactly in the code's order and with the code's two maps. An index past `currentMap` reads garbage,
so the model takes any value. Times are relative to the frame (age, time unseen).
A dropped track leaves its id with any activated neighbour; a track that is activated takes
the oldest latent id of its last closer host.

The loop that activates tracks is one action per track because `start()` of the web API
may come in between and set the counter of ids back. `stop()` may come between frames
and while objects are merged (`objects # NoFrame`). It cannot come during the work on the
vector in the model: there both threads change one vector without a lock, which is
undefined behaviour. That its two effects, emptying the vector and
clearing `isStarted`, are one step is an assumption: no frame
activates a track in between. A stop during the merge leaves the new, inactive tracks
in a stopped tracker; the model has this.

### The observer

The content of a frame is which objects are in which region; which of them moved by
`reportDistance` is any set. `Observe` is observe() together with the JSON report it
makes and the client's reading of it. `Reported` is the rule by which a full frame
leaves regions out, `CountReported` the one by which a count is left out. The client
empties its view at a "start", follows enter, move and leave of split messages, and
takes a full frame for all there is in a region it names. `validCount` starts as garbage, as in the
constructor. `exact` is a history variable: the regions of which no event has been kept
from the client since its last "start" or complete report; the two ways to fall out of it are
the second and third of the known deviations below. Only frames take time; calls are single steps.

### Playing a recording

The thread of the player and a handler of the web API work on one `IFile`: its position, its end-of-file flag and its
`current_time`, under no lock. `PackedPlayer` takes grabFrame() and play() apart into their accesses to these. The thread sets
`current_time` from the clock (`Look`), notes the position, reads a header and the rest of the record, compares its time with `current_time`
twice (`LeaveOut`, then `Await` or `TooEarly`), sleeps for it if it is due within `Window`, and else goes back to the position it noted (`PutBack`).
A move seeks, looks for the next header, overwrites `current_time` with its time and then sets the clock by it. Looking for a header is `sync`,
which both run: the thread too calls it, where a move has left it between two records. `at` says where each of them is; what a step of one
finds is what the other has left.

Record *r* was made *r* ticks after the begin of the file. Of the bytes of a record the model tells apart its header, the place behind it and the rest
(positions 3*r*, 3*r* + 1 and 3*r* + 2), and how many words a read takes is any choice. All records are frames, and no word but the first of
a header is taken for a header. The header is read whole, as fread() does under the lock of the stream. `early` is a history variable that counts the
frames shown before their time since the last move ended.

Which frame is delivered and when is `PackedPlayer`'s; in `Replay` any number of frames is delivered at any time, which allows more. A frame replaces
the one in the slot. The main loop takes it, and reports it after having read `isStarted`, so that a stop may come in between. The message
is pushed to the queue, which the thread of the observer takes as a whole and writes one by one. `EndProcess` ends
all of it at once: nothing waits for the writer.

## Runs

| run | what it checks | result |
|---|---|---|
| `link_faults` | types, the uninitialised counter, the bound of stale scans, scans intact, datagrams fit their entries; loss, repetition, reordering, restarts of both ends | holds |
| `link_stream` | refinement of `ScanStream`, no scan grabbed twice, the newest arrives (liveness); a network that only reorders | holds |
| `scan_vector` | the vector implements the store, and stays sorted | holds |
| `virtual_link` | types, every node a bound server has heard is asked for its type, the type is learnt and useOutEnv followed (liveness); restarts of both ends, either end bound | holds |
| `virtual_node` | scans keep arriving, the node being the bound end | violated: a restarted node waits to be spoken to, and the server, unless it adapts its environment, has nothing to say |
| `device_life` | types, drivers in place while used, failures kept are reported, environment scans restore the settings; a device comes up, goes down, ends its environment scans, and is reported when it delivers nothing (liveness) | holds |
| `device_closed` | a device that is asked for and stays closed is reported | violated: not if its failure was reported before and the device was reopened |
| `tracker_ids` | types, unique ids, no id comes back, every assigned object has a track; refinement of `IdPool` | holds |
| `tracker_holder` | one track per object | violated: the hand-over updates the wrong entry of `mergedMap` |
| `observer_view` | types, the client's view and counts agree with what the observer keeps, nobody is left in it after a stop, `maxFPS` starves nobody (liveness) | holds |
| `player` | types, which include that the thread never sleeps for longer than the window; frames are shown in time but for two after a move; the end of the file is reached (liveness) | holds |
| `replay` | types, frames are written in order, none is lost between queue and file; refinement of `OrderedLog` | holds |

### Bounds, and why they are enough

* Link: two samples per packet and scans of 2, 3 or 4 samples give full, partial and
  several packets; 0 samples the empty packet. A list of one entry before it is cut (two with the new one) and
  a limit of two stale scans make both limits bite with three scans. Two sessions are
  one restart; what a second restart adds is covered by the proofs, which have no bounds.
* Handshake: one restart of each end (`MaxSessions = 2`) at any moment, two acts of users
  (`MaxSwitches = 2`: a device closed and opened again, or a change of useOutEnv in between) and one scan under
  way. The run also passes with three acts (1.7 million states), and the inductive invariant of the proof was checked with
  three sessions; the proofs have no bounds.
* Device: no bounds. The kinds of input, with and without an output link, are chosen in `Init`.
* Tracker: three tracks and two objects allow a hand-over between two older tracks and
  a younger one. Times of two steps keep tracks through a frame without objects. Ages
  are capped where no comparison tells them apart. With two objects `currentMap` is never read past its end; frames with more than one object more
  than tracks, where it may be, are left out by `Served` (see the deviations). Frames are of different length, so
  tracks are dropped both by `keepTime` and by `minActiveFraction` of `minActiveTime`. At most four
  ids are issued between starts, one more than there are tracks.
* Observer: three ids in one region give every mixture of enter, leave and move,
  including those with equal counts. Regions share only the mode and the time stamp, so one is
  enough for TLC; the proofs are for any number. `MinGap = 3` with steps of one
  and two leaves out no, one or two frames in a row. All four modes, all four settings of
  `alwaysOn` and `g_OpenOnStart`, and both kinds of reset are in the passing run.
* Player: three records and a window of two ticks have records that are late, due soon and due later at
  once. One move meets every step of the thread, from any position to any other, and both frames that `EarlyBounded` allows do occur. With two
  moves the type invariant and `EarlyBounded` hold too (5 million states, not kept as a run); their proofs have no bounds.
* Replay: five frames and two starts or stops beyond the first pass bring a frame into each place on the way to the file, with a stop and a start
  again between two of them. Frames of any number are covered by the proofs.

Deadlock is checked for the tracker, the observer and the device. It is not in the runs of the link, where a sender that has sent all its scans
(`MaxSeqNr`) and a receiver that has read them stop, and after an overrun; nor of the handshake, the player and the replay, where the bounds or the
end of the process stop the system.

### Fairness

`NewestArrives` assumes that the thread of the device goes on to poll (`ThreadFunction`
calls update() and scan() in a loop) and, in this run, that the network delivers
what it holds. `TypeLearned`, `EnvFollows` and `ScansArrive` assume that the threads of both devices run: each receives, works off its commands
while its device is open, and sends or grabs; nothing is assumed of asking, users or restarts, and the premise is that
both devices are open in the end. The properties of a device assume that its thread, which never blocks for good, and the main loop
go on and that times pass; nothing is assumed of the web API or of what the drivers find.
`EventuallyShown` assumes that the main loop goes on to make frames; fairness is put on
frames in which the scene is as it was, the only ones its premise leaves. The premise says
that the observer stays started, that no client resets it again and again, and that the scene stays as it is.
`PlayedToEnd` assumes that the thread of the player runs, that a call of the web API gets on, and that time passes; nothing is assumed of moves
being made. Its premise, that the web API is done with moving in the end, is needed: fairness does not keep a move and the thread from
undoing each other's seeks in lockstep, the one looking for a header and the other going back. TLC shows this without the premise.
No fairness is assumed of restarts, calls of the web API or clients.

## Proofs

All theorems hold for every value of the constants allowed by the named assumptions.

* **`ScanTransportProofs`.** The inductive invariant says where things come from: datagrams in flight and slots
  of the list go back to scans that were sent (`NetFromSent`, `ListOrigin`, `LastOrigin`), a number is used once per session
  (`SentOnce`), and `currentSeqNr` is 0 until the counter is assigned
  (`CounterInv`; without it the uninitialised counter could be read). From these follow
  the type invariant, the bounds, that datagrams fit their entries until
  the sender restarts, that scans stay intact, and that the link
  refines `ScanStream` while the sender does not restart.
  `ScansGrabbedOnce` needs, on a network that repeats nothing, that a datagram is in one place only: what was stored is not in flight, and
  of a scan that was grabbed nothing is in flight or stored (`ArrivedOnce`).
* **`ScanDataListProofs`.** The vector of partial scans implements the store of `ScanTransport`, for every capacity and limit.
  `VInv` says that it is strictly ascending. The steps are the code's: the search from the back finds the entry of a number or its place
  (`FindFinds`), a full list loses its first entry (`RoomEvicts`), an insertion keeps the order (`InsertKeepsSorted`), and the loop of
  grabScanData that erases while an index walks over the vector looks at every entry once: after a turn, what is left of the entries passed are the incomplete ones, what is
  ahead is as it was (`Kept`), and number, stale scans and result are those of the entries passed (`Outcome`). The induction is over the turns of the
  loop. `VectorLinkPromises` then takes what is proved of the store over to the link with the vector in it.
* **`VirtualLinkProofs`.** For a bound server, `Ordered` says that what comes from the nodes is in the order of
  their incarnations: what the server took over, then its queue, then the network. So a type that is taken over
  never replaces that of a younger node. `Linked` says that what a node receives first is a "connect", so that it never answers, and
  that a node that was heard last has received something or will; `Unanswered` that a "connect" in the queue is not marked as
  answered. With these `AskedOrKnown` is inductive: the question moves from the network to the queue, the answer back, and
  neither is dropped.
* **`DeviceProofs`.** `DriverInUse` needs that the flags agree with the place of the thread, `FailureIsReported` that "true" is
  stored together with the report only, and `EnvScanRestores` that the setting saved is the one asked for as long
  as scans do not overlap.
* **`TrackerProofs`.** Assumes `OpenOnStart`, except for `AlwaysServed`. The inductive invariant adds
  to `TypeOK` that ids in use and latent ids are pairwise different, that all of them were issued since
  the counter was last set back, and that the tracks of a tracker that is not started have no
  ids: this is what makes it safe for `start()` to set the counter back in the
  middle of a frame. Without `OpenOnStart` it fails (TLC finds two tracks with one id): a tracker that
  was never started tracks nevertheless, and the first start resets the counter under it.
  `TrackerIsPool` shows step by step that the tracker refines `IdPool`: every action moves the counter up and adds only ids above the old counter
  (`CounterMoves`), or is a start, before which `LiveIds` is empty.
  `AlwaysServed` is about the two loops of the assignment, for any sorted pairs: after the first the two maps are mutual inverses
  (`GreedyMutual`), and in the second an entry of `mergedMap` written by mistake is that of an object the map of tracks still names
  (`HandedOverTakenFrom`), because what a hand-over takes an object from, it takes it from the track that loses it.
* **`ObserverProofs`.** The inductive invariant says that an exact region looks the same
  to client and observer, that once a count was told `validCount` counts the
  objects kept, that the count told is the last one unless the region was cleared, and that an observer that is
  not started keeps nobody. The third part is what lets a region become exact again
  by a full frame without its count: an object that moved is needed for this frame, so the cleared count is not the one in effect.
* **`ReplayProofs`.** For the player, files, windows and moves of any length. That frames are in time rests on `InTime`: while the web API is
  not moving, the thread shows at most so many more frames early as are left of two since the last move, and none before the first. `AtMost` says for
  each place of the thread what it may still show early: one frame if it compares with a `current_time` that a move has set ahead of the clock, or sleeps
  for too short because it did; and one more if the file is left, or will be put back, where there is no header, for the sync() that
  follows sets `current_time` once more. Showing one uses it up, and neither time nor any other step of the thread adds one.
  For the replay, frames ascend along the way from the writer to the slot, for queues of any length, and the number of unwritten messages is
  the length of the queue as long as the observer is a file. `FileIsLog` shows that slot, main loop, queue and writer together refine `OrderedLog`; it needs that
  after the main loop has ended nothing is reported any more (`Over`), so that the queue the process leaves behind stays lost.

* **`Recursion`.** `EveryNumber` is induction over the naturals for a set in place of a predicate: a least number outside the set does not
  exist, since `<` is well-founded. `LoopExists` takes from it that a function that repeats a step exists and has the values of its equations, so that loops written as
  recursive functions can be reasoned about turn by turn.

Only model-checked: the liveness properties, `NewestArrives`, `TypeLearned`, `EnvFollows`, `Opens`, `Closes`, `EnvScanEnds`, `NoDataReported`,
`EventuallyShown` and `PlayedToEnd`. They rest on fairness, and what enables an action is out of this prover's reach. Every other property of a passing run
is stated by a theorem. Of the three properties that are violated nothing is to be proved.

## Known deviations

The three runs that are violated are described under "findings" in `PROJECT.json`, with the lines they contradict. In addition,
found while modelling and not kept as runs:

1. The checks in `addData` (`lidarVirtDriver.cpp:209`, `:226`) log that a datagram does not fit the entry of its number and go on. They do
   fail after a restart of the sender, when an unfinished entry of a smaller scan has the number of a new one.
2. Without `continuous` a full frame names a region only if its count has changed or an object moved
   (`TrackableObserver.h:2104`): an object that enters in the frame in which another leaves is reported with neither event,
   although `lidartool/doc/observers/README.md:57` says that all frame information is reported.
3. The plain-text "reset" of a web socket (`TrackableWebSocketObserver.h:187`) forgets the objects of all regions without
   telling anybody: those that leave next are never reported to have left. Its JSON form reports a start.
4. A track that is dropped before it was activated is given an id (`Trackable.h:1125`) that is then latent, and reported, at its neighbour,
   although `track.minActiveTime` (`Trackable.h:767`) says an object appears only after that time.
5. A stop within 3 s of a reopen does not cancel it (`lidarKit.cpp:6478`): the device is opened after the stop.
6. `TrackableObserver` reports "stop" at exit, but nobody waits for its thread, and observers are not destroyed: the last messages
   are lost. `flush()` is called by a function that nothing calls.
7. The hand-over reads `currentMap` at the number of an object (`Trackable.h:1311`). With more objects than tracks + 1 that may be
   past its end; what is read there names an entry of `mergedMap` that is then set although no track has the object, so that it neither moves a track nor
   gets a new one in this frame. TLC shows this of the model with `MaxObjects` and `MaxTracks` set to four.
8. A move of the player and its thread share the file and `current_time` without a lock. A record the thread gives back (`packedPlayer.h:268`)
   takes the position back to where it was: a move made meanwhile is undone, one back in time for good. sync() overwrites the `current_time` the thread
   compares with (`PackedTrackable.h:461`): up to two frames are shown before their time after a move. A record that is overtaken between the
   two comparisons (`packedPlayer.h:254`, `:256`) has a time difference that wraps, and is given back as if it was due later. No document says what a move promises
   while the thread reads.
9. The MQTT observer publishes nothing. connect() is called by `start(uint64_t)` only (`TrackableMQTTObserver.h:233`), which hides and does not override
   the `start(uint64_t, bool)` that the multi observer calls (`TrackableObserver.h:2554`): `mosq` stays NULL, and write() drops every message (`:261`),
   although `lidartool/doc/observers/README.md:31` says it publishes to a server. In the model this is `startConnects`; with `Backends = {"mqtt"}` TLC
   finds `NothingLost` violated.

## Not modelled, and assumptions

* Time never runs back; the tracker computes ages as unsigned differences.
* `current_time`, `start_time` and the position are read and written whole, though unordered accesses of two threads to the first two are a data race in C++.
* Calls of the observers are single steps. Overlapping calls share maps without a lock,
  so what they do is undefined. The hazards name the places.
* In `Observer` delivery of reports is in order and without loss, as `Replay` shows of the queue.
* Motor and power: `sendMotorState()` returns before it sends and nothing calls `setUSBPower()`; the motor of a
  sensor only changes what its driver finds, which is any choice in `Device`.
* Device lists, groups, registration, regions, configuration: lists that handlers of the web API edit and save as text, mostly one at a
  time under one mutex. What could go wrong is in the formats, or in data races with the main loop, whose outcome is undefined.
* Geometry, signal processing, formatting, schemes, gates, drivers, shell
  scripts and vendored code: see the notes of the components.

The larger part of the code under `src/` is of the last two kinds: rapidjson and the SDKs of sensors, HTML and JavaScript, command-line and key/value
parsing, images of the GUI, vector and matrix templates, serial protocols, floating-point detection of objects. None of it has
a state machine whose steps could be told apart by a property, so the map covers the parts that have one and stays far below a
third of the lines.

## Plan

Done: the link in both directions, the device with its failures and environment scans, the tracker, the observer, the player and the message
queue. What is left, in this order:

1. `Observer`: switch and switch duration, lifespans, stall and resume; gates.
2. `Tracker` composed with `Observer`: ids as clients see them.
3. `VirtualLink` composed with `Device`: the node's and the server's thread with the handshake in between, so that a relay's
   environment scan is followed over both.
4. `Groups` and `Regions`: edits while the main loop iterates, once they are made under a lock.
5. Proofs: an abstract specification of a device and of the observer's reports, and that `Device` and `Observer` implement them.
