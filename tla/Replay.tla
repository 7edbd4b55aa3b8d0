------------------------------- MODULE Replay -------------------------------
(***************************************************************************)
(* A recording that is played to an observer: the thread of the player,    *)
(* which delivers a frame at any time (PackedPlayer says when and which),  *)
(* the main loop, the thread of the observer and the web API, which        *)
(* pauses, starts and stops; its calls are serialised by webMutex.  The    *)
(* tool runs with g_OpenOnStart: its main loop starts the observer in its  *)
(* first pass, before it takes a frame.  A frame is reported in one        *)
(* message.                                                                *)
(***************************************************************************)
EXTENDS FrameSlot, MessageQueue

CONSTANTS
  MaxFrames,   \* bound on the frames delivered
  MaxStarts    \* bound on starts and stops

ASSUME BoundsAssumption == MaxFrames \in Nat /\ MaxStarts \in Nat

VARIABLES
  paused,      \* g_PackedPlayerPaused, which only the main loop heeds
  observing,   \* the frame the main loop has taken and is about to report, or 0
  quitting,    \* the main loop has ended
  starts       \* starts and stops so far

loop == <<paused, observing, quitting, starts>>
vars == <<delivery, queue, loop>>

Start == [kind |-> "start", id |-> 0]
Stop  == [kind |-> "stop", id |-> 0]

TypeOK ==
  /\ SlotTypeOK /\ QueueTypeOK
  /\ paused \in BOOLEAN /\ quitting \in BOOLEAN
  /\ observing \in 0 .. frame_id
  /\ starts \in 0 .. MaxStarts + 1

Init ==
  /\ SlotInit /\ QueueInit
  /\ paused = FALSE /\ observing = 0 /\ quitting = FALSE /\ starts = 0

-----------------------------------------------------------------------------
(* The main loop.  Its first pass starts the observer and the player.      *)
FirstPass ==
  /\ starts = 0
  /\ StartObserver(Start)
  /\ starts' = 1
  /\ UNCHANGED <<delivery, paused, observing, quitting>>

running == starts > 0 /\ ~quitting

TrackFrame ==
  /\ running /\ ~paused /\ observing = 0
  /\ Take(slot)
  /\ observing' = IF isStarted THEN slot ELSE 0
  /\ UNCHANGED <<queue, paused, quitting, starts>>

(* Reporting comes after isStarted was read: a stop may lie in between.    *)
Observe ==
  /\ observing # 0
  /\ Report([kind |-> "frame", id |-> observing])
  /\ observing' = 0
  /\ UNCHANGED <<delivery, paused, quitting, starts>>

Quit ==
  /\ running /\ observing = 0
  /\ quitting' = TRUE
  /\ IF isStarted THEN StopObserver(Stop) ELSE UNCHANGED queue
  /\ UNCHANGED <<delivery, paused, observing, starts>>

EndProcess ==
  /\ quitting /\ Exit
  /\ UNCHANGED <<delivery, loop>>

-----------------------------------------------------------------------------
(* The web API, and the threads.                                           *)
StartByAPI ==
  /\ running /\ starts <= MaxStarts
  /\ StartObserver(Start)
  /\ starts' = starts + 1
  /\ UNCHANGED <<delivery, paused, observing, quitting>>

StopByAPI ==
  /\ running /\ starts <= MaxStarts
  /\ StopObserver(Stop)
  /\ starts' = starts + 1
  /\ UNCHANGED <<delivery, paused, observing, quitting>>

PauseByAPI ==
  /\ running
  /\ paused' = ~paused
  /\ UNCHANGED <<delivery, queue, observing, quitting, starts>>

PlayerStep ==
  /\ running /\ frame_id < MaxFrames
  /\ Put
  /\ UNCHANGED <<queue, loop>>

WriterStep == WriterThread /\ UNCHANGED <<delivery, loop>>

Next ==
  \/ FirstPass \/ TrackFrame \/ Observe \/ Quit \/ EndProcess
  \/ StartByAPI \/ StopByAPI \/ PauseByAPI
  \/ PlayerStep \/ WriterStep

Spec == Init /\ [][Next]_vars

-----------------------------------------------------------------------------
(* The frames on their way, from the one written last to the one that was  *)
(* delivered last: what the writer holds, what waits, what is being        *)
(* reported, and the slot.                                                 *)
queued == batch \o messages

(* Frames are written in the order of their numbers, none twice, whatever  *)
(* the slot, the queue, pauses and stops did to others.                    *)
FramesAscend ==
  /\ \A i \in DOMAIN queued :
        queued[i].kind = "frame" =>
           /\ lastSent < queued[i].id
           /\ observing # 0 => queued[i].id < observing
           /\ slot # 0 => queued[i].id < slot
           /\ \A j \in i + 1 .. Len(queued) : queued[j].kind = "frame" => queued[i].id < queued[j].id
  /\ observing # 0 => lastSent < observing /\ (slot # 0 => observing < slot)
  /\ slot # 0 => lastSent < slot

(* Until the process ends every message that was reported is written, or   *)
(* waits for it: none is dropped between the queue and the back end.       *)
NothingLost ==
  ~exiting => unwritten = Len(queued)

(* To whoever reads the file all of it is one ordered log: two queues, two *)
(* threads, the slot and the web API add nothing to what it allows.        *)
Log == INSTANCE OrderedLog WITH
  made <- frame_id, pending <- queued, written <- lastSent, over <- exiting

LogSpec == Log!Spec
=============================================================================
