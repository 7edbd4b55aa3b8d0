---------------------------- MODULE MessageQueue ----------------------------
(***************************************************************************)
(* The messages of a threaded TrackableObserver: the main loop and the web *)
(* API append them to a vector, a thread of the observer takes all of them *)
(* at once and has its back end write them.  As long as the thread does    *)
(* not exist the caller writes itself.  The back end is a file or an MQTT  *)
(* broker that takes all there is.  isFlushed is left out: flush() is      *)
(* called by TrackableMQTTObserver::stop() only, which nothing calls.      *)
(***************************************************************************)
EXTENDS Integers, Sequences

CONSTANTS
  Backends     \* back ends of the instance

ASSUME BackendsAssumption == Backends \subseteq {"file", "mqtt"}

VARIABLES
  backend,     \* of the observer; never changes
  isStarted,   \* of the observer
  thread,      \* the thread exists
  messages,    \* what it has not taken yet
  batch,       \* what it has taken and not written yet
  connected,   \* there is a connection to the broker
  exiting,     \* the process has ended
  unwritten,   \* number of messages that were made and not written, history
  lastSent     \* the last frame that was written, history

observer == <<backend, isStarted, thread, connected, exiting>>
queue    == <<observer, messages, batch, unwritten, lastSent>>

Message == [kind : {"start", "stop", "frame"}, id : Nat]

QueueTypeOK ==
  /\ backend \in Backends
  /\ isStarted \in BOOLEAN /\ thread \in BOOLEAN /\ connected \in BOOLEAN /\ exiting \in BOOLEAN
  /\ messages \in Seq(Message) /\ batch \in Seq(Message)
  /\ unwritten \in Nat /\ lastSent \in Nat

QueueInit ==
  /\ backend \in Backends
  /\ isStarted = FALSE /\ thread = FALSE /\ exiting = FALSE
  /\ connected = FALSE
  /\ messages = <<>> /\ batch = <<>>
  /\ unwritten = 0 /\ lastSent = 0

(* What write() does anything with.                                        *)
canWrite == backend = "file" \/ connected

frameOf(msg) == IF msg.kind = "frame" THEN msg.id ELSE lastSent

\* A mutant: a message replaces those not taken yet.
pushLatest(msg) == unwritten' = unwritten + 1 /\ messages' = <<msg>>
push(msg) == unwritten' = unwritten + 1 /\ messages' = Append(messages, msg)

(* start() of the MQTT observer opens the connection.  But it takes one    *)
(* argument: it hides the start() of two arguments that TrackableMulti-    *)
(* Observer calls, and does not override it.                               *)
startConnects == {}

StartObserver(msg) ==
  /\ ~isStarted
  /\ isStarted' = TRUE /\ thread' = TRUE
  /\ connected' = (connected \/ backend \in startConnects)
  /\ \/ thread /\ push(msg)
     \/ ~thread /\ canWrite /\ UNCHANGED <<messages, unwritten>>
     \/ ~thread /\ ~canWrite /\ unwritten' = unwritten + 1 /\ UNCHANGED messages
  /\ UNCHANGED <<backend, exiting, batch, lastSent>>

StopObserver(msg) ==
  /\ isStarted
  /\ isStarted' = FALSE
  /\ push(msg)
  /\ UNCHANGED <<backend, thread, connected, exiting, batch, lastSent>>

Report(msg) ==
  /\ push(msg)
  /\ UNCHANGED <<observer, batch, lastSent>>

-----------------------------------------------------------------------------
(* The thread.  It takes what there is, and write() loses it or writes it. *)
\* A mutant: what was taken is not cleared.
CollectKeeping ==
  /\ thread /\ ~exiting /\ batch = <<>> /\ messages # <<>>
  /\ batch' = IF canWrite THEN messages ELSE <<>>
  /\ UNCHANGED <<observer, messages, unwritten, lastSent>>
Collect ==
  /\ thread /\ ~exiting /\ batch = <<>> /\ messages # <<>>
  /\ batch' = IF canWrite THEN messages ELSE <<>>
  /\ messages' = <<>>
  /\ UNCHANGED <<observer, unwritten, lastSent>>

\* A mutant: the messages taken are written from the back.
WriteMessageLast ==
  /\ ~exiting /\ batch # <<>>
  /\ batch' = SubSeq(batch, 1, Len(batch) - 1)
  /\ unwritten' = unwritten - 1 /\ lastSent' = frameOf(batch[Len(batch)])
  /\ UNCHANGED <<observer, messages>>
WriteMessage ==
  /\ ~exiting /\ batch # <<>>
  /\ batch' = Tail(batch)
  /\ unwritten' = unwritten - 1 /\ lastSent' = frameOf(Head(batch))
  /\ UNCHANGED <<observer, messages>>

WriterThread == Collect \/ WriteMessage

(* The process ends.  Nothing waits for the thread, which looks for        *)
(* messages every 10 ms: what it has not written by then is gone.          *)
Exit ==
  /\ ~exiting
  /\ exiting' = TRUE
  /\ messages' = <<>> /\ batch' = <<>>
  /\ UNCHANGED <<backend, isStarted, thread, connected, unwritten, lastSent>>
=============================================================================
