---------------------------- MODULE ReplayProofs ----------------------------
(***************************************************************************)
(* Proofs about Replay for any number of frames, starts and stops: its     *)
(* types, that frames are written in ascending order, that a file gets     *)
(* every message.  And about PackedPlayer, for files, windows and moves    *)
(* without bound: its types, and that frames are shown in time.            *)
(***************************************************************************)
EXTENDS Replay, PackedPlayer, TLAPS

-----------------------------------------------------------------------------
(* Sequences: what taking, writing and appending do to what is queued.     *)
LEMMA QueuedTyped ==
  ASSUME QueueTypeOK
  PROVE  queued \in Seq(Message)
  BY DEF queued, QueueTypeOK

LEMMA QueuedTaken ==
  ASSUME QueueTypeOK, batch = <<>>, batch' = messages, messages' = <<>>
  PROVE  queued' = queued
  BY DEF queued, QueueTypeOK

LEMMA QueuedWritten ==
  ASSUME QueueTypeOK, batch # <<>>, batch' = Tail(batch), UNCHANGED messages
  PROVE  queued # <<>> /\ Head(queued) = Head(batch) /\ queued' = Tail(queued)
  BY DEF queued, QueueTypeOK

LEMMA QueuedAppended ==
  ASSUME QueueTypeOK, NEW msg \in Message, messages' = Append(messages, msg), UNCHANGED batch
  PROVE  queued' = Append(queued, msg)
  BY DEF queued, QueueTypeOK

-----------------------------------------------------------------------------
(* Frames in order.  q is what is queued, last the frame written last, obs *)
(* the one being reported, sl the one in the slot, n the last number.      *)
InOrder(q, last, obs, sl) ==
  /\ \A i \in DOMAIN q :
        q[i].kind = "frame" =>
           /\ last < q[i].id
           /\ obs # 0 => q[i].id < obs
           /\ sl # 0 => q[i].id < sl
           /\ \A j \in i + 1 .. Len(q) : q[j].kind = "frame" => q[i].id < q[j].id
  /\ obs # 0 => last < obs /\ (sl # 0 => obs < sl)
  /\ sl # 0 => last < sl

UpTo(n, q, last, obs, sl) ==
  /\ \A i \in DOMAIN q : q[i].kind = "frame" => q[i].id <= n
  /\ obs # 0 => obs <= n
  /\ sl # 0 => sl <= n
  /\ last <= n

(* A start or stop appended leaves the frames in order.                    *)
LEMMA OtherAppended ==
  ASSUME NEW q \in Seq(Message), NEW msg \in Message, msg.kind # "frame",
         NEW last \in Nat, NEW obs \in Nat, NEW sl \in Nat,
         NEW n \in Nat,
         InOrder(q, last, obs, sl), UpTo(n, q, last, obs, sl)
  PROVE  InOrder(Append(q, msg), last, obs, sl) /\ UpTo(n, Append(q, msg), last, obs, sl)
<1> DEFINE p == Append(q, msg)
<1>1. /\ Len(p) = Len(q) + 1 /\ DOMAIN p = 1 .. Len(q) + 1 /\ DOMAIN q = 1 .. Len(q)
      /\ p[Len(q) + 1] = msg /\ \A i \in 1 .. Len(q) : p[i] = q[i]
      /\ Len(q) \in Nat
  OBVIOUS
<1> HIDE DEF p
<1>2. InOrder(p, last, obs, sl)
  BY <1>1 DEF InOrder
<1>3. UpTo(n, p, last, obs, sl)
  BY <1>1 DEF UpTo
<1> QED
  BY <1>2, <1>3 DEF p

(* So does the frame that is being reported.                               *)
LEMMA FrameAppended ==
  ASSUME NEW q \in Seq(Message), NEW msg \in Message, msg.kind = "frame",
         NEW last \in Nat, NEW obs \in Nat, obs # 0, msg.id = obs,
         NEW sl \in Nat, NEW n \in Nat,
         InOrder(q, last, obs, sl), UpTo(n, q, last, obs, sl)
  PROVE  InOrder(Append(q, msg), last, 0, sl) /\ UpTo(n, Append(q, msg), last, 0, sl)
<1> DEFINE p == Append(q, msg)
<1>1. /\ Len(p) = Len(q) + 1 /\ DOMAIN p = 1 .. Len(q) + 1 /\ DOMAIN q = 1 .. Len(q)
      /\ p[Len(q) + 1] = msg /\ \A i \in 1 .. Len(q) : p[i] = q[i]
      /\ Len(q) \in Nat
  OBVIOUS
<1> HIDE DEF p
<1>2. InOrder(p, last, 0, sl)
  BY <1>1 DEF InOrder
<1>3. UpTo(n, p, last, 0, sl)
  BY <1>1 DEF UpTo
<1> QED
  BY <1>2, <1>3 DEF p

(* So does a new frame in the slot.                                        *)
LEMMA FrameDelivered ==
  ASSUME NEW q \in Seq(Message), NEW last \in Nat, NEW obs \in Nat,
         NEW sl, NEW n \in Nat, NEW next, next = n + 1,
         InOrder(q, last, obs, sl), UpTo(n, q, last, obs, sl)
  PROVE  InOrder(q, last, obs, next) /\ UpTo(n + 1, q, last, obs, next)
<1>1. \A i \in DOMAIN q : q[i].id \in Nat
  <2>1. \A i \in DOMAIN q : q[i] \in Message
    OBVIOUS
  <2> QED
    BY <2>1 DEF Message
<1>2. \A i \in DOMAIN q : q[i].kind = "frame" => q[i].id < next
  BY <1>1 DEF UpTo
<1>3. (obs # 0 => obs < next) /\ last < next
  BY DEF UpTo
<1>4. InOrder(q, last, obs, next)
  BY <1>2, <1>3 DEF InOrder
<1>5. UpTo(n + 1, q, last, obs, next)
  BY <1>1, <1>2, <1>3 DEF UpTo
<1> QED
  BY <1>4, <1>5

(* And writing the first message.                                          *)
LEMMA FirstWritten ==
  ASSUME NEW q \in Seq(Message), q # <<>>,
         NEW last \in Nat, NEW obs \in Nat, NEW sl \in Nat,
         NEW n \in Nat,
         InOrder(q, last, obs, sl), UpTo(n, q, last, obs, sl),
         NEW next, next = IF Head(q).kind = "frame" THEN Head(q).id ELSE last
  PROVE  InOrder(Tail(q), next, obs, sl) /\ UpTo(n, Tail(q), next, obs, sl)
<1> DEFINE p == Tail(q)
<1>1. /\ Len(q) \in Nat \ {0} /\ Len(p) = Len(q) - 1
      /\ DOMAIN p = 1 .. Len(q) - 1 /\ DOMAIN q = 1 .. Len(q)
      /\ \A i \in 1 .. Len(q) - 1 : p[i] = q[i + 1]
      /\ Head(q) = q[1]
  OBVIOUS
<1>2. \A i \in 1 .. Len(q) : q[i] \in Message
  OBVIOUS
<1> HIDE DEF p
<1>3. InOrder(p, next, obs, sl)
  <2>1. ASSUME NEW i \in DOMAIN p, p[i].kind = "frame"
        PROVE  /\ next < p[i].id
               /\ obs # 0 => p[i].id < obs
               /\ sl # 0 => p[i].id < sl
               /\ \A j \in i + 1 .. Len(p) : p[j].kind = "frame" => p[i].id < p[j].id
    <3>1. i \in Nat \ {0} /\ i + 1 \in DOMAIN q /\ p[i] = q[i + 1] /\ 1 \in DOMAIN q
      BY <1>1
    <3>2. last < q[i + 1].id /\ (q[1].kind = "frame" => q[1].id < q[i + 1].id)
      BY <1>1, <2>1, <3>1 DEF InOrder
    <3>3. (obs # 0 => p[i].id < obs) /\ (sl # 0 => p[i].id < sl)
      BY <2>1, <3>1 DEF InOrder
    <3>4. ASSUME NEW j \in i + 1 .. Len(p), p[j].kind = "frame"
          PROVE  p[i].id < p[j].id
      <4>1. j + 1 \in i + 2 .. Len(q) /\ p[j] = q[j + 1]
        BY <1>1, <3>1
      <4>2. q[i + 1].kind = "frame" /\ q[j + 1].kind = "frame" /\ Len(q) \in Nat
        BY <1>1, <2>1, <3>1, <3>4, <4>1
      <4>3. j + 1 \in (i + 1) + 1 .. Len(q)
        BY <3>1, <4>1, <4>2
      <4>4. q[i + 1].id < q[j + 1].id
        BY <3>1, <4>2, <4>3 DEF InOrder
      <4> QED
        BY <3>1, <4>1, <4>4
    <3> QED
      BY <1>1, <3>1, <3>2, <3>3, <3>4
  <2>2. obs # 0 => next < obs /\ (sl # 0 => obs < sl)
    BY <1>1 DEF InOrder
  <2>3. sl # 0 => next < sl
    BY <1>1 DEF InOrder
  <2> QED
    BY <2>1, <2>2, <2>3 DEF InOrder
<1>4. UpTo(n, p, next, obs, sl)
  <2>1. \A i \in DOMAIN p : i + 1 \in DOMAIN q /\ p[i] = q[i + 1]
    BY <1>1
  <2>2. \A i \in DOMAIN p : p[i].kind = "frame" => p[i].id <= n
    BY <2>1 DEF UpTo
  <2>3. next <= n
    BY <1>1 DEF UpTo
  <2> QED
    BY <2>2, <2>3 DEF UpTo
<1> QED
  BY <1>3, <1>4 DEF p

-----------------------------------------------------------------------------
(* The actions of the queue, as far as the invariants see them.            *)
LEMMA StartSteps ==
  ASSUME QueueTypeOK, NEW msg \in Message, StartObserver(msg)
  PROVE  /\ QueueTypeOK'
         /\ UNCHANGED <<backend, exiting, lastSent>>
         /\ \/ queued' = Append(queued, msg) /\ unwritten' = unwritten + 1
            \/ queued' = queued /\ unwritten' = unwritten
            \/ ~canWrite /\ queued' = queued /\ unwritten' = unwritten + 1
<1>1. CASE thread /\ push(msg)
  <2>1. queued' = Append(queued, msg)
    BY <1>1, QueuedAppended DEF StartObserver, push
  <2> QED
    BY <1>1, <2>1 DEF StartObserver, push, QueueTypeOK
<1>2. CASE ~thread
  BY <1>2 DEF StartObserver, push, QueueTypeOK, queued
<1> QED
  BY <1>1, <1>2 DEF StartObserver

LEMMA StopSteps ==
  ASSUME QueueTypeOK, NEW msg \in Message, StopObserver(msg)
  PROVE  /\ QueueTypeOK'
         /\ UNCHANGED <<backend, exiting, lastSent>>
         /\ queued' = Append(queued, msg) /\ unwritten' = unwritten + 1
<1>1. queued' = Append(queued, msg)
  BY QueuedAppended DEF StopObserver, push
<1>2. messages' \in Seq(Message) /\ unwritten' \in Nat
  BY DEF StopObserver, push, QueueTypeOK
<1>3. backend' \in Backends /\ isStarted' \in BOOLEAN /\ thread' \in BOOLEAN /\ connected' \in BOOLEAN
      /\ exiting' \in BOOLEAN /\ batch' \in Seq(Message) /\ lastSent' \in Nat
  BY DEF StopObserver, QueueTypeOK
<1> QED
  BY <1>1, <1>2, <1>3 DEF StopObserver, push, QueueTypeOK

LEMMA ReportSteps ==
  ASSUME QueueTypeOK, NEW msg \in Message, Report(msg)
  PROVE  /\ QueueTypeOK'
         /\ UNCHANGED <<backend, exiting, lastSent>>
         /\ queued' = Append(queued, msg) /\ unwritten' = unwritten + 1
<1>1. queued' = Append(queued, msg)
  BY QueuedAppended DEF Report, push
<1> QED
  BY <1>1 DEF Report, push, QueueTypeOK, observer

(* The thread of the observer.                                             *)
LEMMA WriterSteps ==
  ASSUME QueueTypeOK, Len(queued) <= unwritten, WriterThread
  PROVE  /\ QueueTypeOK'
         /\ UNCHANGED <<backend, exiting>>
         /\ \/ queued' = queued /\ UNCHANGED <<unwritten, lastSent>>
            \/ ~canWrite /\ queued' = <<>> /\ UNCHANGED <<unwritten, lastSent>>
            \/ /\ queued # <<>> /\ queued' = Tail(queued)
               /\ unwritten' = unwritten - 1 /\ lastSent' = frameOf(Head(queued))
<1>1. CASE Collect /\ canWrite
  <2>1. queued' = queued
    BY <1>1, QueuedTaken DEF Collect
  <2>2. QueueTypeOK'
    BY <1>1 DEF Collect, QueueTypeOK, observer
  <2> QED
    BY <1>1, <2>1, <2>2 DEF Collect, observer
<1>2. CASE Collect /\ ~canWrite
  <2>1. queued' = <<>>
    BY <1>2 DEF Collect, queued
  <2>2. QueueTypeOK'
    BY <1>2 DEF Collect, QueueTypeOK, observer
  <2> QED
    BY <1>2, <2>1, <2>2 DEF Collect, observer
<1>3. CASE WriteMessage
  <2>1. queued # <<>> /\ Head(queued) = Head(batch) /\ queued' = Tail(queued)
    BY <1>3, QueuedWritten DEF WriteMessage
  <2>2. Len(queued) > 0 /\ Len(queued) \in Nat
    BY <2>1, QueuedTyped
  <2>3. Head(batch) \in Message /\ Tail(batch) \in Seq(Message)
    BY <1>3 DEF WriteMessage, QueueTypeOK
  <2>4. unwritten - 1 \in Nat /\ frameOf(Head(batch)) \in Nat
    BY <2>2, <2>3 DEF QueueTypeOK, frameOf, Message
  <2>5. QueueTypeOK'
    BY <1>3, <2>3, <2>4 DEF WriteMessage, QueueTypeOK, observer
  <2> QED
    BY <1>3, <2>1, <2>5 DEF WriteMessage, observer
<1> QED
  BY <1>1, <1>2, <1>3 DEF WriterThread

-----------------------------------------------------------------------------
(* The invariant.  What is queued was made and not written; for a file     *)
(* that is all of it.                                                      *)
Complete ==
  /\ Len(queued) <= unwritten
  /\ backend = "file" /\ ~exiting => unwritten = Len(queued)

Ordered ==
  /\ InOrder(queued, lastSent, observing, slot)
  /\ UpTo(frame_id, queued, lastSent, observing, slot)

IInv == TypeOK /\ Complete /\ Ordered

LEMMA InitIInv == Init => IInv
<1> SUFFICES ASSUME Init
             PROVE  IInv
  OBVIOUS
<1> USE DEF Init, SlotInit, QueueInit
<1>1. TypeOK
  <2>1. paused \in BOOLEAN
    OBVIOUS
  <2>2. SlotTypeOK
    BY DEF SlotTypeOK
  <2>3. /\ isStarted \in BOOLEAN /\ thread \in BOOLEAN /\ connected \in BOOLEAN /\ exiting \in BOOLEAN
        /\ quitting \in BOOLEAN
    OBVIOUS
  <2>4. messages \in Seq(Message) /\ batch \in Seq(Message) /\ unwritten \in Nat /\ lastSent \in Nat
    <3>1. messages = <<>> /\ batch = <<>> /\ unwritten = 0 /\ lastSent = 0
      OBVIOUS
    <3> HIDE DEF Init, QueueInit, SlotInit
    <3> QED
      BY <3>1
  <2>5. QueueTypeOK
    BY <2>3, <2>4 DEF QueueTypeOK
  <2>6. observing \in 0 .. frame_id /\ starts \in 0 .. MaxStarts + 1
    BY BoundsAssumption
  <2> QED
    BY <2>1, <2>2, <2>3, <2>5, <2>6 DEF TypeOK
<1>2. queued = <<>>
  BY DEF queued
<1>3. Complete /\ Ordered
  BY <1>2 DEF Complete, Ordered, InOrder, UpTo
<1> QED
  BY <1>1, <1>3 DEF IInv

LEMMA MessagesTyped == Start \in Message /\ Stop \in Message
                       /\ Start.kind # "frame" /\ Stop.kind # "frame"
  BY DEF Start, Stop, Message

(* Every step keeps the types.                                             *)
LEMMA TypeStep == IInv /\ [Next]_vars => TypeOK'
<1> SUFFICES ASSUME IInv, [Next]_vars
             PROVE  TypeOK'
  OBVIOUS
<1> USE DEF loop
<1>0. TypeOK /\ SlotTypeOK /\ QueueTypeOK /\ Len(queued) <= unwritten
  BY DEF IInv, TypeOK, Complete
<1>a. UNCHANGED queue => QueueTypeOK'
  BY <1>0 DEF queue, observer, QueueTypeOK
<1>b. UNCHANGED delivery => SlotTypeOK' /\ UNCHANGED frame_id
  BY <1>0 DEF delivery, SlotTypeOK
<1>1. CASE FirstPass
  BY <1>0, <1>1, <1>b, MessagesTyped, StartSteps, BoundsAssumption DEF FirstPass, TypeOK
<1>2. CASE TrackFrame
  <2>1. SlotTypeOK' /\ observing' \in 0 .. frame_id'
    BY <1>0, <1>2 DEF TrackFrame, Take, SlotTypeOK
  <2> QED
    BY <1>0, <1>2, <1>a, <2>1 DEF TrackFrame, TypeOK
<1>3. CASE Observe
  <2>1. [kind |-> "frame", id |-> observing] \in Message
    BY <1>0, <1>3 DEF Observe, TypeOK, SlotTypeOK, Message
  <2>2. QueueTypeOK'
    BY <1>0, <1>3, <2>1, ReportSteps DEF Observe
  <2> QED
    BY <1>0, <1>3, <1>b, <2>2 DEF Observe, TypeOK, SlotTypeOK
<1>4. CASE Quit
  <2>1. QueueTypeOK'
    BY <1>0, <1>4, <1>a, MessagesTyped, StopSteps DEF Quit
  <2> QED
    BY <1>0, <1>4, <1>b, <2>1 DEF Quit, TypeOK
<1>5. CASE EndProcess
  <2>1. QueueTypeOK'
    BY <1>0, <1>5 DEF EndProcess, Exit, QueueTypeOK
  <2> QED
    BY <1>0, <1>5, <1>b, <2>1 DEF EndProcess, TypeOK
<1>6. CASE StartByAPI
  <2>1. QueueTypeOK'
    BY <1>0, <1>6, MessagesTyped, StartSteps DEF StartByAPI
  <2> QED
    BY <1>0, <1>6, <1>b, <2>1, BoundsAssumption DEF StartByAPI, TypeOK
<1>7. CASE StopByAPI
  <2>1. QueueTypeOK'
    BY <1>0, <1>7, MessagesTyped, StopSteps DEF StopByAPI
  <2> QED
    BY <1>0, <1>7, <1>b, <2>1, BoundsAssumption DEF StopByAPI, TypeOK
<1>8. CASE PauseByAPI
  BY <1>0, <1>8, <1>a, <1>b DEF PauseByAPI, TypeOK
<1>9. CASE PlayerStep
  <2>1. SlotTypeOK' /\ observing' \in 0 .. frame_id'
    BY <1>0, <1>9 DEF PlayerStep, Put, SlotTypeOK, TypeOK
  <2> QED
    BY <1>0, <1>9, <1>a, <2>1 DEF PlayerStep, TypeOK
<1>10. CASE WriterStep
  <2>1. QueueTypeOK'
    BY <1>0, <1>10, WriterSteps DEF WriterStep
  <2> QED
    BY <1>0, <1>10, <1>b, <2>1 DEF WriterStep, TypeOK
<1>11. CASE UNCHANGED vars
  BY <1>0, <1>11, <1>a, <1>b DEF vars, TypeOK
<1> QED
  BY <1>1, <1>2, <1>3, <1>4, <1>5, <1>6, <1>7, <1>8, <1>9, <1>10, <1>11 DEF Next

LEMMA QueueKeeps == UNCHANGED queue => UNCHANGED <<queued, backend, exiting, unwritten, lastSent>>
  BY DEF queue, observer, queued

(* Every step keeps the frames in order and the files complete.            *)
LEMMA OrderStep == IInv /\ [Next]_vars => Complete' /\ Ordered'
<1> SUFFICES ASSUME IInv, [Next]_vars
             PROVE  Complete' /\ Ordered'
  OBVIOUS
<1> USE DEF loop
<1>0. /\ QueueTypeOK /\ queued \in Seq(Message) /\ lastSent \in Nat /\ unwritten \in Nat
      /\ observing \in Nat /\ slot \in Nat /\ frame_id \in Nat
      /\ Len(queued) \in Nat
  BY QueuedTyped DEF IInv, TypeOK, SlotTypeOK, QueueTypeOK
<1>1. /\ Len(queued) <= unwritten
      /\ backend = "file" /\ ~exiting => unwritten = Len(queued)
      /\ InOrder(queued, lastSent, observing, slot)
      /\ UpTo(frame_id, queued, lastSent, observing, slot)
  BY DEF IInv, Complete, Ordered
<1>2. ASSUME NEW msg \in Message, msg.kind # "frame", queued' = Append(queued, msg),
             unwritten' = unwritten + 1, UNCHANGED <<backend, exiting, lastSent, observing, slot, frame_id>>
      PROVE  Complete' /\ Ordered'
  <2>1. InOrder(queued', lastSent, observing, slot) /\ UpTo(frame_id, queued', lastSent, observing, slot)
    BY <1>0, <1>1, <1>2, OtherAppended
  <2>2. Len(queued') = Len(queued) + 1
    BY <1>0, <1>2
  <2> QED
    BY <1>0, <1>1, <1>2, <2>1, <2>2 DEF Complete, Ordered
<1>3. ASSUME UNCHANGED <<queued, backend, exiting, unwritten, lastSent, observing, slot, frame_id>>
      PROVE  Complete' /\ Ordered'
  BY <1>1, <1>3 DEF Complete, Ordered
<1>4. ASSUME UNCHANGED delivery
      PROVE  UNCHANGED <<slot, frame_id>>
  BY <1>4 DEF delivery
<1>5. ASSUME StartObserver(Start), UNCHANGED <<observing, slot, frame_id>>
      PROVE  Complete' /\ Ordered'
  <2>1. UNCHANGED <<backend, exiting, lastSent>>
    BY <1>0, <1>5, MessagesTyped, StartSteps
  <2>2. CASE queued' = Append(queued, Start) /\ unwritten' = unwritten + 1
    BY <1>2, <1>5, <2>1, <2>2, MessagesTyped
  <2>3. CASE queued' = queued /\ unwritten' = unwritten
    BY <1>3, <1>5, <2>1, <2>3
  <2>4. CASE ~canWrite /\ queued' = queued /\ unwritten' = unwritten + 1
    BY <1>0, <1>1, <1>5, <2>1, <2>4 DEF Complete, Ordered, canWrite
  <2> QED
    BY <1>0, <1>5, <2>2, <2>3, <2>4, MessagesTyped, StartSteps
<1>6. ASSUME StopObserver(Stop), UNCHANGED <<observing, slot, frame_id>>
      PROVE  Complete' /\ Ordered'
  <2>1. UNCHANGED <<backend, exiting, lastSent>> /\ queued' = Append(queued, Stop) /\ unwritten' = unwritten + 1
    BY <1>0, <1>6, MessagesTyped, StopSteps
  <2> QED
    BY <1>2, <1>6, <2>1, MessagesTyped
<1>7. CASE FirstPass \/ StartByAPI
  BY <1>4, <1>5, <1>7 DEF FirstPass, StartByAPI
<1>8. CASE Quit \/ StopByAPI
  BY <1>3, <1>4, <1>6, <1>8, QueueKeeps DEF Quit, StopByAPI
<1>9. CASE TrackFrame
  <2>1. UNCHANGED <<queued, backend, exiting, unwritten, lastSent>>
    BY <1>9, QueueKeeps DEF TrackFrame
  <2>2. /\ slot # 0 /\ observing = 0 /\ slot' = 0 /\ UNCHANGED frame_id
        /\ observing' \in {slot, 0}
    BY <1>9 DEF TrackFrame, Take
  <2>3. InOrder(queued, lastSent, observing', 0)
    BY <1>1, <2>2 DEF InOrder
  <2>4. UpTo(frame_id, queued, lastSent, observing', 0)
    BY <1>1, <2>2 DEF UpTo
  <2> QED
    BY <1>1, <2>1, <2>2, <2>3, <2>4 DEF Complete, Ordered
<1>10. CASE Observe
  <2> DEFINE msg == [kind |-> "frame", id |-> observing]
  <2>1. msg \in Message /\ msg.kind = "frame" /\ msg.id = observing
        /\ observing # 0 /\ observing \in Nat
    BY <1>0, <1>10 DEF Observe, Message
  <2>2. Report(msg) /\ observing' = 0 /\ UNCHANGED <<slot, frame_id>>
    BY <1>4, <1>10 DEF Observe
  <2> HIDE DEF msg
  <2>3. UNCHANGED <<backend, exiting, lastSent>> /\ queued' = Append(queued, msg) /\ unwritten' = unwritten + 1
    BY <1>0, <2>1, <2>2, ReportSteps
  <2>4. InOrder(queued', lastSent, 0, slot) /\ UpTo(frame_id, queued', lastSent, 0, slot)
    BY <1>0, <1>1, <2>1, <2>3, FrameAppended
  <2>5. Len(queued') = Len(queued) + 1
    BY <1>0, <2>1, <2>3
  <2> QED
    BY <1>0, <1>1, <2>2, <2>3, <2>4, <2>5 DEF Complete, Ordered
<1>11. CASE EndProcess
  <2>1. queued' = <<>> /\ exiting' /\ UNCHANGED <<unwritten, lastSent, observing, slot, frame_id>>
    BY <1>4, <1>11 DEF EndProcess, Exit, queued
  <2>2. InOrder(<<>>, lastSent, observing, slot) /\ UpTo(frame_id, <<>>, lastSent, observing, slot)
    BY <1>1 DEF InOrder, UpTo
  <2>3. Len(queued') <= unwritten'
    BY <1>0, <2>1
  <2> QED
    BY <2>1, <2>2, <2>3 DEF Complete, Ordered
<1>12. CASE PlayerStep
  <2>1. UNCHANGED <<queued, backend, exiting, unwritten, lastSent, observing>>
    BY <1>12, QueueKeeps DEF PlayerStep
  <2>2. frame_id' = frame_id + 1 /\ slot' = frame_id + 1
    BY <1>12 DEF PlayerStep, Put
  <2>3. InOrder(queued, lastSent, observing, slot') /\ UpTo(frame_id', queued, lastSent, observing, slot')
    BY <1>0, <1>1, <2>2, FrameDelivered
  <2> QED
    BY <1>1, <2>1, <2>3 DEF Complete, Ordered
<1>13. CASE PauseByAPI
  BY <1>3, <1>4, <1>13, QueueKeeps DEF PauseByAPI
<1>14. CASE WriterStep
  <2>0. UNCHANGED <<backend, exiting, observing, slot, frame_id>>
    BY <1>0, <1>1, <1>4, <1>14, WriterSteps DEF WriterStep
  <2>1. CASE queued' = queued /\ UNCHANGED <<unwritten, lastSent>>
    BY <1>3, <2>0, <2>1
  <2>2. CASE ~canWrite /\ queued' = <<>> /\ UNCHANGED <<unwritten, lastSent>>
    <3>1. InOrder(<<>>, lastSent, observing, slot) /\ UpTo(frame_id, <<>>, lastSent, observing, slot)
      BY <1>1 DEF InOrder, UpTo
    <3>2. Len(queued') = 0
      BY <2>2
    <3>3. ~(backend' = "file" /\ ~exiting')
      BY <2>0, <2>2 DEF canWrite
    <3> QED
      BY <1>0, <2>0, <2>2, <3>1, <3>2, <3>3 DEF Complete, Ordered
  <2>3. CASE /\ queued # <<>> /\ queued' = Tail(queued)
             /\ unwritten' = unwritten - 1 /\ lastSent' = frameOf(Head(queued))
    <3>1. InOrder(Tail(queued), lastSent', observing, slot)
          /\ UpTo(frame_id, Tail(queued), lastSent', observing, slot)
      BY <1>0, <1>1, <2>3, FirstWritten DEF frameOf
    <3>2. Len(Tail(queued)) = Len(queued) - 1
      BY <1>0, <2>3
    <3>3. Complete'
      <4>1. Len(queued') <= unwritten'
        <5>1. Len(queued) <= unwritten /\ Len(queued) \in Nat /\ unwritten \in Nat
          BY <1>0, <1>1
        <5>2. Len(queued') = Len(queued) - 1 /\ unwritten' = unwritten - 1
          BY <2>3, <3>2
        <5> QED
          BY <5>1, <5>2
      <4>2. ASSUME backend = "file", ~exiting
            PROVE  unwritten' = Len(queued')
        <5>1. unwritten = Len(queued)
          BY <1>1, <4>2
        <5>2. Len(queued') = Len(queued) - 1 /\ unwritten' = unwritten - 1
          BY <2>3, <3>2
        <5> QED
          BY <5>1, <5>2
      <4> QED
        BY <2>0, <4>1, <4>2 DEF Complete
    <3>4. Ordered'
      BY <2>0, <2>3, <3>1 DEF Ordered
    <3> QED
      BY <3>3, <3>4
  <2> QED
    BY <1>0, <1>1, <1>14, <2>1, <2>2, <2>3, WriterSteps DEF WriterStep
<1>15. CASE UNCHANGED vars
  BY <1>3, <1>4, <1>15, QueueKeeps DEF vars
<1> QED
  BY <1>7, <1>8, <1>9, <1>10, <1>11, <1>12, <1>13, <1>14, <1>15 DEF Next

THEOREM Invariance == Spec => []IInv
<1>1. IInv /\ [Next]_vars => IInv'
  BY TypeStep, OrderStep DEF IInv
<1> QED
  BY InitIInv, <1>1, PTL DEF Spec

(* The slot, the queue and the main loop keep their types.                 *)
THEOREM ReplayTypeCorrect == Spec => []TypeOK
<1>1. IInv => TypeOK
  BY DEF IInv
<1> QED
  BY Invariance, <1>1, PTL

(* Frames are written in the order of their numbers, none twice: between   *)
(* the thread of the player, the main loop and the thread of the observer  *)
(* none overtakes another, whatever the web API does.                      *)
THEOREM FramesAscendCorrect == Spec => []FramesAscend
<1>1. IInv => FramesAscend
  BY DEF IInv, Ordered, InOrder, FramesAscend
<1> QED
  BY Invariance, <1>1, PTL

(* An observer that writes to a file writes every message it was given     *)
(* before the process ends, or holds it.                                   *)
THEOREM NothingLostCorrect ==
  ASSUME Backends \subseteq {"file"}
  PROVE  Spec => []NothingLost
<1>1. IInv => NothingLost
  BY DEF IInv, TypeOK, QueueTypeOK, Complete, NothingLost
<1> QED
  BY Invariance, <1>1, PTL

-----------------------------------------------------------------------------
(* The file is an ordered log.  When the main loop has ended it reports no *)
(* frame, and is not begun again.                                          *)
Over ==
  /\ quitting => observing = 0 /\ starts > 0
  /\ exiting => quitting

LEMMA OverStep == IInv /\ Over /\ [Next]_vars => Over'
<1> SUFFICES ASSUME IInv, Over, [Next]_vars
             PROVE  Over'
  OBVIOUS
<1> USE DEF Over, loop, running
<1>0. QueueTypeOK /\ starts \in Nat /\ Len(queued) <= unwritten
  BY BoundsAssumption DEF IInv, TypeOK, Complete
<1>1. CASE FirstPass
  BY <1>0, <1>1, MessagesTyped, StartSteps DEF FirstPass
<1>2. CASE TrackFrame
  BY <1>2, QueueKeeps DEF TrackFrame
<1>3. CASE Observe
  BY <1>3 DEF Observe, Report, observer
<1>4. CASE Quit
  BY <1>0, <1>4, MessagesTyped, StopSteps, QueueKeeps DEF Quit
<1>5. CASE EndProcess
  BY <1>5 DEF EndProcess
<1>6. CASE StartByAPI
  BY <1>0, <1>6, MessagesTyped, StartSteps DEF StartByAPI
<1>7. CASE StopByAPI
  BY <1>0, <1>7, MessagesTyped, StopSteps DEF StopByAPI
<1>8. CASE PauseByAPI \/ PlayerStep
  BY <1>8, QueueKeeps DEF PauseByAPI, PlayerStep
<1>9. CASE WriterStep
  BY <1>0, <1>9, WriterSteps DEF WriterStep
<1>10. CASE UNCHANGED vars
  BY <1>10, QueueKeeps DEF vars
<1> QED
  BY <1>1, <1>2, <1>3, <1>4, <1>5, <1>6, <1>7, <1>8, <1>9, <1>10 DEF Next

(* Every step is one of the log, or none.                                  *)
LEMMA LogStep ==
  ASSUME IInv, Over, Backends \subseteq {"file"}, [Next]_vars
  PROVE  [Log!Next]_<<frame_id, queued, lastSent, exiting>>
<1> DEFINE logged == <<frame_id, queued, lastSent, exiting>>
<1> USE DEF loop, running
<1>0. /\ QueueTypeOK /\ Len(queued) <= unwritten /\ lastSent \in Nat /\ frame_id \in Nat
      /\ canWrite /\ exiting \in BOOLEAN /\ queued \in Seq(Message)
  BY QueuedTyped DEF IInv, TypeOK, QueueTypeOK, SlotTypeOK, Complete, canWrite
<1>1. ASSUME UNCHANGED delivery
      PROVE  UNCHANGED <<slot, frame_id>>
  BY <1>1 DEF delivery
<1>2. ASSUME ~exiting, NEW msg \in {Start, Stop}, queued' = Append(queued, msg),
             UNCHANGED <<frame_id, lastSent, exiting>>
      PROVE  Log!Next
  <2>1. msg \in Log!Acceptable /\ msg.kind # "frame"
    BY <1>2 DEF Start, Stop, Log!Acceptable
  <2>2. Log!Accept
    BY <1>2, <2>1 DEF Log!Accept
  <2> QED
    BY <2>2 DEF Log!Next
<1>3. CASE FirstPass \/ StartByAPI
  <2>1. ~exiting /\ UNCHANGED frame_id /\ StartObserver(Start)
    BY <1>1, <1>3 DEF FirstPass, StartByAPI, Over
  <2>2. /\ UNCHANGED <<exiting, lastSent>>
        /\ queued' = Append(queued, Start) \/ queued' = queued
    BY <1>0, <2>1, MessagesTyped, StartSteps
  <2> QED
    BY <1>2, <2>1, <2>2
<1>4. CASE StopByAPI \/ (Quit /\ isStarted)
  <2>1. ~exiting /\ UNCHANGED frame_id /\ StopObserver(Stop)
    BY <1>1, <1>4 DEF Quit, StopByAPI, Over
  <2>2. UNCHANGED <<exiting, lastSent>> /\ queued' = Append(queued, Stop)
    BY <1>0, <2>1, MessagesTyped, StopSteps
  <2> QED
    BY <1>2, <2>1, <2>2
<1>5. CASE Observe
  <2> DEFINE msg == [kind |-> "frame", id |-> observing]
  <2>1. observing # 0 /\ observing \in Nat /\ ~exiting
    BY <1>0, <1>5 DEF Observe, Over, IInv, TypeOK
  <2>2. Report(msg) /\ UNCHANGED frame_id
    BY <1>1, <1>5 DEF Observe
  <2>3. msg \in Message /\ msg.kind = "frame" /\ msg.id = observing
    BY <2>1 DEF Message
  <2>4. observing \in lastSent + 1 .. frame_id
    BY <1>0, <2>1 DEF IInv, Ordered, InOrder, UpTo
  <2>5. msg \in Log!Acceptable
    BY <2>4 DEF Log!Acceptable
  <2> HIDE DEF msg
  <2>6. UNCHANGED <<exiting, lastSent>> /\ queued' = Append(queued, msg)
    BY <1>0, <2>2, <2>3, ReportSteps
  <2>7. \A i \in DOMAIN queued : queued[i].kind = "frame" => queued[i].id < msg.id
    BY <2>1, <2>3 DEF IInv, Ordered, InOrder
  <2>8. Log!Accept
    BY <2>1, <2>2, <2>5, <2>6, <2>7 DEF Log!Accept
  <2> QED
    BY <2>8 DEF Log!Next
<1>6. CASE EndProcess
  <2>1. UNCHANGED <<frame_id, lastSent>> /\ ~exiting /\ exiting' = TRUE /\ queued' = <<>>
    BY <1>1, <1>6 DEF EndProcess, Exit, queued
  <2> QED
    BY <2>1 DEF Log!Next, Log!End
<1>7. CASE PlayerStep
  <2>1. UNCHANGED <<queued, exiting, lastSent>> /\ ~exiting /\ frame_id' = frame_id + 1
    BY <1>7, QueueKeeps DEF PlayerStep, Over, Put
  <2> QED
    BY <2>1 DEF Log!Next, Log!Make
<1>8. CASE WriterStep
  <2>1. ~exiting /\ UNCHANGED <<frame_id, exiting>>
    BY <1>0, <1>1, <1>8, WriterSteps DEF WriterStep, WriterThread, Collect, WriteMessage
  <2>2. CASE queued' = queued /\ UNCHANGED lastSent
    BY <2>1, <2>2
  <2>3. CASE /\ queued # <<>> /\ queued' = Tail(queued)
             /\ lastSent' = frameOf(Head(queued))
    BY <2>1, <2>3 DEF frameOf, Log!Next, Log!Write
  <2> QED
    BY <1>0, <1>8, <2>2, <2>3, WriterSteps DEF WriterStep
<1>9. CASE TrackFrame \/ PauseByAPI \/ (Quit /\ ~isStarted)
  <2>1. UNCHANGED <<queued, exiting, lastSent>>
    BY <1>9, QueueKeeps DEF TrackFrame, PauseByAPI, Quit
  <2>2. UNCHANGED frame_id
    BY <1>1, <1>9 DEF TrackFrame, Take, PauseByAPI, Quit
  <2> QED
    BY <2>1, <2>2
<1>10. CASE UNCHANGED vars
  BY <1>1, <1>10, QueueKeeps DEF vars
<1> QED
  BY <1>3, <1>4, <1>5, <1>6, <1>7, <1>8, <1>9, <1>10 DEF Next

(* What an observer writes to its file is an ordered log: all it accepted, *)
(* in ascending order, until the process ends.  The thread that takes the  *)
(* messages in batches, and the stops that come between a frame and its    *)
(* report, do not show.                                                    *)
THEOREM FileIsLog ==
  ASSUME Backends \subseteq {"file"}
  PROVE  Spec => LogSpec
<1>1. Init => Over
  BY DEF Init, QueueInit, Over
<1>2. Init => Log!Init
  BY DEF Init, QueueInit, SlotInit, Log!Init, queued
<1>3. IInv /\ Over /\ [Next]_vars => [Log!Next]_<<frame_id, queued, lastSent, exiting>>
  BY LogStep
<1> QED
  BY <1>1, <1>2, <1>3, OverStep, Invariance, PTL DEF Spec, LogSpec, Log!Spec, Log!log
-----------------------------------------------------------------------------
(* The player.  Positions.                                                 *)
LEMMA Thirds ==
  ASSUME NEW p \in Nat
  PROVE  /\ p % 3 = 0 => (p + 1) % 3 = 1
         /\ p % 3 = 2 => (p + 1) % 3 = 0
  OBVIOUS

LEMMA HeaderTyped ==
  ASSUME NEW p \in Positions, isHeader(p)
  PROVE  p \div 3 \in 0 .. Records - 1 /\ p = 3 * (p \div 3) /\ p + 1 <= End
  BY PlayerAssumption DEF Positions, isHeader, End

LEMMA NextWordTyped ==
  ASSUME NEW p \in Positions
  PROVE  NextWord(p) \in Positions
  BY PlayerAssumption DEF Positions, NextWord, End

(* Accesses to the file keep its types.                                    *)
FileTypeOK ==
  /\ filePos \in Positions /\ eof \in BOOLEAN
  /\ pos \in [Actors -> Positions] /\ header \in [Actors -> 0 .. Records - 1]

LEMMA AccessTyped ==
  ASSUME FileTypeOK, NEW a \in Actors
  PROVE  /\ Tell(a) => FileTypeOK'
         /\ ReadHeader(a) => FileTypeOK'
         /\ ReadOther => FileTypeOK'
         /\ ReadNothing => FileTypeOK'
         /\ \A p \in Positions : Seek(p) /\ UNCHANGED locals => FileTypeOK'
<1> USE DEF FileTypeOK, locals, file
<1>1. Tell(a) => FileTypeOK'
  BY DEF Tell
<1>2. ReadHeader(a) => FileTypeOK'
  BY HeaderTyped DEF ReadHeader, ReadTo, Positions
<1>3. ReadOther => FileTypeOK'
  BY DEF ReadOther, ReadTo, Behind, Positions, End
<1>4. ReadNothing => FileTypeOK'
  BY PlayerAssumption DEF ReadNothing, ReadShort, Positions, End
<1>5. \A p \in Positions : Seek(p) /\ UNCHANGED locals => FileTypeOK'
  BY DEF Seek
<1> QED
  BY <1>1, <1>2, <1>3, <1>4, <1>5

(* So does sync().                                                         *)
LEMMA SyncTyped ==
  ASSUME PlayerTypeOK, NEW a \in Actors, sync(a)
  PROVE  PlayerTypeOK' /\ UNCHANGED <<clock, elapsed, sleep, moves, early>>
<1> USE DEF time, watch, Go, Places
<1>0. FileTypeOK
  BY DEF PlayerTypeOK, FileTypeOK
<1>1. UNCHANGED <<clock, elapsed, sleep, moves, early>>
  BY DEF sync
<1>2. at' \in [Actors -> Places]
  BY DEF sync, SyncTell, SyncRead, SyncFound, SyncMissed, SyncTime, PlayerTypeOK
<1>3. current_time' \in 0 .. Records
  BY PlayerAssumption DEF sync, SyncTell, SyncRead, SyncFound, SyncMissed, SyncTime, PlayerTypeOK
<1>4. FileTypeOK'
  <2>1. CASE SyncTell(a)
    BY <1>0, <2>1, AccessTyped DEF SyncTell
  <2>2. CASE SyncRead(a)
    BY <1>0, <2>2, AccessTyped DEF SyncRead
  <2>3. CASE SyncFound(a)
    BY <1>0, <2>3, AccessTyped DEF SyncFound, FileTypeOK
  <2>4. CASE SyncMissed(a)
    BY <1>0, <2>4, AccessTyped, NextWordTyped DEF SyncMissed, FileTypeOK
  <2>5. CASE SyncTime(a)
    BY <1>0, <2>5 DEF SyncTime, FileTypeOK, file, locals
  <2> QED
    BY <2>1, <2>2, <2>3, <2>4, <2>5 DEF sync
<1> QED
  BY <1>1, <1>2, <1>3, <1>4 DEF PlayerTypeOK, FileTypeOK

LEMMA CutTyped ==
  ASSUME NEW t \in Nat
  PROVE  Cut(t) \in 0 .. Records /\ (t <= Records => Cut(t) = t)
  BY PlayerAssumption DEF Cut

LEMMA PlayerTypeInit == PlayerInit => PlayerTypeOK
<1> SUFFICES ASSUME PlayerInit
             PROVE  PlayerTypeOK
  OBVIOUS
<1> USE PlayerAssumption DEF PlayerInit
<1>1. filePos \in Positions
  BY DEF Positions, End
<1>6. eof \in BOOLEAN
  OBVIOUS
<1>2. /\ current_time \in 0 .. Records /\ clock \in 0 .. Records
      /\ sleep \in 0 .. Window - 1 /\ elapsed \in 0 .. Records
      /\ moves \in 0 .. MaxMoves /\ early \in Nat
  OBVIOUS
<1>3. at \in [Actors -> Places]
  BY DEF Places
<1>4. pos \in [Actors -> Positions]
  BY DEF Positions, End
<1>5. header \in [Actors -> 0 .. Records - 1]
  OBVIOUS
<1> QED
  BY <1>1, <1>2, <1>3, <1>4, <1>5, <1>6 DEF PlayerTypeOK

(* Every step keeps the types.                                             *)
LEMMA PlayerTypeStep == PlayerTypeOK /\ [PlayerNext]_player => PlayerTypeOK'
<1> SUFFICES ASSUME PlayerTypeOK, [PlayerNext]_player
             PROVE  PlayerTypeOK'
  OBVIOUS
<1> USE DEF time, watch, file, locals, Go
<1>a. "thread" \in Actors /\ "web" \in Actors /\ FileTypeOK
      /\ \A a \in Actors, q \in Places : [at EXCEPT ![a] = q] \in [Actors -> Places]
  BY DEF Actors, PlayerTypeOK, FileTypeOK
<1>b. ASSUME FileTypeOK', at' \in [Actors -> Places], current_time' \in 0 .. Records,
             UNCHANGED <<clock, elapsed, sleep, moves>>, early' \in Nat
      PROVE  PlayerTypeOK'
  BY <1>b DEF PlayerTypeOK, FileTypeOK
<1>c. ASSUME NEW a \in Actors, Forget(a), UNCHANGED file
      PROVE  FileTypeOK'
  BY <1>a, <1>c, PlayerAssumption DEF FileTypeOK, Forget, Positions, End
<1>d. UNCHANGED <<file, locals>> => FileTypeOK'
  BY <1>a DEF FileTypeOK
<1>e. /\ current_time \in 0 .. Records /\ early \in Nat /\ clock \in 0 .. Records
      /\ sleep \in 0 .. Window - 1 /\ elapsed \in 0 .. Records /\ moves \in 0 .. MaxMoves
      /\ at \in [Actors -> Places] /\ header \in [Actors -> 0 .. Records - 1]
  BY DEF PlayerTypeOK
<1>1. CASE sync("thread") \/ sync("web")
  BY <1>a, <1>1, SyncTyped
<1>2. CASE Look
  BY <1>2, <1>a, <1>b, <1>c, <1>e DEF Look, Places
<1>3. CASE TellRecord
  BY <1>3, <1>a, <1>b, <1>e, AccessTyped DEF TellRecord, Places
<1>4. CASE ReadRecord
  <2>1. FileTypeOK'
    BY <1>4, <1>a, AccessTyped DEF ReadRecord
  <2> QED
    BY <1>4, <1>a, <1>b, <1>e, <2>1 DEF ReadRecord, Places
<1>5. CASE ReadObject
  <2>0. filePos \in Nat /\ eof \in BOOLEAN /\ header["thread"] \in Nat /\ End \in Nat
    BY <1>a, <1>e, PlayerAssumption DEF FileTypeOK, Positions, End
  <2>1. filePos' \in Positions /\ eof' \in BOOLEAN
    <3>1. CASE \E p \in Nat : ReadTo(p)
      BY <2>0, <3>1 DEF ReadTo, Positions
    <3>2. CASE ReadShort
      BY <2>0, <3>2 DEF ReadShort, Positions
    <3>3. Behind(filePos) \subseteq Nat
      BY <2>0 DEF Behind
    <3>4. 3 * header["thread"] + 2 \in Nat /\ 3 * header["thread"] + 3 \in Nat
      BY <2>0
    <3> QED
      BY <1>5, <3>1, <3>2, <3>3, <3>4 DEF ReadObject
  <2>2. FileTypeOK'
    BY <1>5, <1>a, <2>1 DEF ReadObject, FileTypeOK
  <2> QED
    BY <1>5, <1>a, <1>b, <1>e, <2>2 DEF ReadObject, Places
<1>6. CASE LeaveOut
  BY <1>6, <1>a, <1>b, <1>d, <1>e DEF LeaveOut, Places
<1>7. CASE Await
  BY <1>7, <1>a, <1>d, <1>e DEF Await, Places, PlayerTypeOK, FileTypeOK
<1>8. CASE TooEarly
  BY <1>8, <1>a, <1>b, <1>d, <1>e DEF TooEarly, Places
<1>9. CASE PutBack
  BY <1>9, <1>a, <1>b, <1>e, AccessTyped DEF PutBack, Places, FileTypeOK
<1>10. CASE Wake
  BY <1>10, <1>a, <1>b, <1>d, <1>e DEF Wake, Places
<1>11. CASE Tick
  <2>1. clock' \in 0 .. Records /\ elapsed' \in 0 .. Records /\ sleep' \in 0 .. Window - 1
    BY <1>11, <1>e, CutTyped, PlayerAssumption DEF Tick
  <2> QED
    BY <1>11, <1>a, <1>d, <1>e, <2>1 DEF Tick, PlayerTypeOK, FileTypeOK
<1>12. CASE play
  <2>1. FileTypeOK'
    BY <1>12, <1>a, AccessTyped DEF play
  <2>2. moves' \in 0 .. MaxMoves
    BY <1>12, <1>e, PlayerAssumption DEF play
  <2> QED
    BY <1>12, <1>a, <1>e, <2>1, <2>2 DEF play, Places, PlayerTypeOK, FileTypeOK
<1>13. CASE SetStartTime
  <2>1. clock' \in 0 .. Records
    <3>1. \A t \in {header["web"], current_time} : t + elapsed \in Nat
      BY <1>a, <1>e
    <3> QED
      BY <1>13, <1>e, <3>1, CutTyped DEF SetStartTime
  <2>2. FileTypeOK'
    BY <1>13, <1>a, <1>c DEF SetStartTime
  <2> QED
    <3>1. at' \in [Actors -> Places]
      BY <1>13, <1>a, <1>e DEF SetStartTime, Places
    <3>2. elapsed' \in 0 .. Records /\ early' \in Nat /\ UNCHANGED <<current_time, sleep, moves>>
      BY <1>13, PlayerAssumption DEF SetStartTime
    <3> QED
      BY <1>e, <2>1, <2>2, <3>1, <3>2 DEF PlayerTypeOK, FileTypeOK
<1>14. CASE UNCHANGED player
  BY <1>14, <1>b, <1>d, <1>e DEF player
<1> QED
  BY <1>1, <1>2, <1>3, <1>4, <1>5, <1>6, <1>7, <1>8, <1>9, <1>10, <1>11, <1>12, <1>13, <1>14
     DEF PlayerNext, PlayerThread, WebThread

(* The player and the web API keep the types of the file they share, ...   *)
THEOREM PlayerTypeCorrect == PlayerSpec => []PlayerTypeOK
  BY PlayerTypeInit, PlayerTypeStep, PTL DEF PlayerSpec

-----------------------------------------------------------------------------
(* Frames in time.  A frame comes early when it is compared with another   *)
(* time than the clock's, or was looked for where there is no header.      *)
astray(p)  == IF p % 3 = 0 THEN 0 ELSE 1
ahead      == IF current_time > clock THEN 1 ELSE 0
offRecord  == IF filePos \in 3 * header["thread"] + 1 .. 3 * header["thread"] + 2 THEN 0 ELSE 1
tooShort   == IF header["thread"] > clock + sleep THEN 1 ELSE 0

(* By where the thread is: it will show at most n frames early if nobody   *)
(* moves it.                                                               *)
AtMost(n) ==
  LET is(places) == at["thread"] \in places
      back == astray(pos["thread"])
      here == astray(filePos)
  IN  /\ is({"idle"}) => here <= n
      /\ is({"begin"}) => here <= n /\ ahead <= n
      /\ is({"header"}) => here <= n /\ ahead <= n /\ back <= n
      /\ is({"reading"}) => ahead + offRecord <= n /\ back <= n
      /\ is({"holding", "due"}) => ahead + here <= n /\ back <= n
      /\ is({"later"}) => back <= n
      /\ is({"asleep"}) => tooShort + here <= n
      /\ is({"lost", "search", "again", "retry"}) => filePos = End \/ 1 <= n
      /\ is({"found", "missed", "synced"}) => 1 <= n

budget == IF moves = 0 THEN 0 ELSE 2

InTime ==
  /\ early <= budget
  /\ at["web"] = "free" => AtMost(budget - early)
  /\ moves = 0 => at["web"] = "free"

LEMMA AtMostTwo == AtMost(2)
  BY DEF AtMost, astray, ahead, offRecord, tooShort

(* sync() of the thread shows nothing.                                     *)
LEMMA SyncInTime ==
  ASSUME PlayerTypeOK, NEW n \in Nat, AtMost(n), sync("thread")
  PROVE  AtMost(n)'
<1> USE DEF AtMost, Go, PlayerTypeOK, Actors
<1>0. filePos \in Nat /\ End \in Nat /\ filePos <= End
  BY PlayerAssumption DEF Positions, End
<1>1. CASE SyncTell("thread")
  BY <1>1 DEF SyncTell, Tell, file
<1>2. CASE SyncRead("thread")
  <2>1. filePos = End \/ 1 <= n
    BY <1>2 DEF SyncRead
  <2>2. ReadHeader("thread") \/ ReadOther => filePos # End
    BY <1>0 DEF ReadHeader, ReadOther, ReadTo
  <2>3. ReadNothing => filePos' = End
    BY DEF ReadNothing, ReadShort
  <2> QED
    BY <1>2, <2>1, <2>2, <2>3 DEF SyncRead
<1>3. CASE SyncFound("thread")
  BY <1>3 DEF SyncFound
<1>4. CASE SyncMissed("thread")
  BY <1>4 DEF SyncMissed
<1>5. CASE SyncTime("thread")
  BY <1>5 DEF SyncTime
<1> QED
  BY <1>1, <1>2, <1>3, <1>4, <1>5 DEF sync

(* Its other steps show at most one frame, and then fewer are left.        *)
LEMMA ThreadInTime ==
  ASSUME PlayerTypeOK, NEW n \in Nat, AtMost(n), at["web"] = "free",
         PlayerThread, ~sync("thread")
  PROVE  \/ early' = early /\ AtMost(n)'
         \/ early' = early + 1 /\ 1 <= n /\ AtMost(n - 1)'
<1> USE DEF Go, Actors, file, locals, time, watch
<1>0. /\ filePos \in Nat /\ End \in Nat /\ filePos <= End
      /\ at \in [Actors -> Places] /\ pos \in [Actors -> Nat] /\ header \in [Actors -> Nat]
      /\ current_time \in Nat /\ clock \in Nat /\ sleep \in Nat
  BY PlayerAssumption DEF PlayerTypeOK, Positions, End
<1>1. CASE Look
  BY <1>0, <1>1 DEF Look, AtMost, astray, ahead
<1>2. CASE TellRecord
  BY <1>0, <1>2 DEF TellRecord, Tell, AtMost, astray, ahead
<1>3. CASE ReadRecord
  <2>1. early' = early /\ UNCHANGED <<current_time, clock, pos>>
    BY <1>3 DEF ReadRecord, ReadHeader, ReadOther, ReadNothing
  <2>2. CASE ReadHeader("thread") /\ at' = [at EXCEPT !["thread"] = "reading"]
    <3>1. header'["thread"] = filePos \div 3 /\ filePos' = filePos + 1 /\ filePos = 3 * (filePos \div 3)
          /\ filePos # End
      BY <1>0, <2>2, HeaderTyped DEF ReadHeader, ReadTo, PlayerTypeOK
    <3>2. offRecord' = 0
      BY <1>0, <3>1 DEF offRecord
    <3>3. ahead' <= n /\ astray(pos'["thread"]) <= n
      BY <1>0, <1>3, <2>1, <3>1 DEF ReadRecord, AtMost, ahead, astray
    <3> QED
      BY <1>0, <2>1, <2>2, <3>2, <3>3 DEF AtMost, ahead
  <2> DEFINE missed == at' = [at EXCEPT !["thread"] = IF at["thread"] = "header" THEN "lost" ELSE "idle"]
  <2>3. CASE ReadOther /\ missed
    <3>1. 1 <= n
      BY <1>0, <1>3, <2>3 DEF ReadRecord, ReadOther, ReadTo, AtMost, astray, isHeader
    <3> QED
      BY <1>0, <1>3, <2>1, <2>3, <3>1 DEF ReadRecord, AtMost, astray
  <2>4. CASE ReadNothing /\ missed
    <3>1. filePos' = End /\ End % 3 = 0
      BY <2>4, PlayerAssumption DEF ReadNothing, ReadShort, End
    <3> QED
      BY <1>0, <1>3, <2>1, <2>4, <3>1 DEF ReadRecord, AtMost, astray
  <2> QED
    BY <1>3, <2>2, <2>3, <2>4 DEF ReadRecord
<1>4. CASE ReadObject
  BY <1>0, <1>4 DEF ReadObject, ReadTo, ReadShort, AtMost, astray, ahead, offRecord
<1>5. CASE LeaveOut
  BY <1>0, <1>5 DEF LeaveOut, AtMost, astray, ahead
<1>6. CASE Await
  BY <1>0, <1>6 DEF Await, AtMost, astray, ahead, tooShort
<1>7. CASE TooEarly
  BY <1>0, <1>7 DEF TooEarly, AtMost, astray, ahead
<1>8. CASE PutBack
  BY <1>0, <1>8 DEF PutBack, Seek, AtMost, astray
<1>9. CASE Wake
  BY <1>0, <1>9 DEF Wake, AtMost, astray, tooShort, PlayerTypeOK
<1> QED
  BY <1>1, <1>2, <1>3, <1>4, <1>5, <1>6, <1>7, <1>8, <1>9 DEF PlayerThread

(* As time goes by no frame gets early.                                    *)
LEMMA TickInTime ==
  ASSUME PlayerTypeOK, NEW n \in Nat, AtMost(n), Tick
  PROVE  AtMost(n)'
<1>1. UNCHANGED <<filePos, current_time, at, pos, header>>
  BY DEF Tick, file, locals
<1>2. /\ current_time \in 0 .. Records /\ clock \in 0 .. Records /\ sleep \in Nat
      /\ header["thread"] \in 0 .. Records - 1 /\ Records \in Nat
  BY PlayerAssumption DEF PlayerTypeOK, Actors
<1>3. at["thread"] = "asleep" => astray(filePos) + tooShort' <= n
  BY <1>1, <1>2 DEF Tick, Cut, tooShort, astray, AtMost
<1> QED
  BY <1>1, <1>2, <1>3 DEF Tick, Cut, ahead, offRecord, astray, tooShort, AtMost

LEMMA InTimeStep == PlayerTypeOK /\ InTime /\ [PlayerNext]_player => InTime'
<1> SUFFICES ASSUME PlayerTypeOK, InTime, [PlayerNext]_player
             PROVE  InTime'
  OBVIOUS
<1> USE DEF time, watch, file, locals, Go
<1>0. early \in Nat /\ moves \in Nat /\ budget \in Nat /\ budget - early \in Nat /\ budget <= 2
      /\ at \in [Actors -> Places] /\ "thread" \in Actors /\ "web" \in Actors
  BY PlayerAssumption DEF PlayerTypeOK, InTime, budget, Actors
<1>1. CASE PlayerThread
  <2>1. at'["web"] = at["web"] /\ UNCHANGED <<moves, budget>>
    BY <1>0, <1>1 DEF PlayerThread, sync, SyncTell, SyncRead, SyncFound, SyncMissed, SyncTime,
       Look, TellRecord, ReadRecord, ReadObject, LeaveOut, Await, TooEarly, PutBack, Wake, budget
  <2>2. CASE at["web"] # "free"
    <3>1. early' = early
      BY <1>1, <2>2 DEF PlayerThread, sync, Look, TellRecord, ReadRecord, ReadObject, LeaveOut,
         Await, TooEarly, PutBack, Wake
    <3> QED
      BY <2>1, <2>2, <3>1 DEF InTime
  <2>3. CASE at["web"] = "free" /\ sync("thread")
    <3>1. early' = early
      BY <2>3 DEF sync
    <3>2. AtMost(budget - early)'
      BY <1>0, <2>1, <2>3, <3>1, SyncInTime DEF InTime
    <3> QED
      BY <2>1, <3>1, <3>2 DEF InTime
  <2>4. CASE at["web"] = "free" /\ ~sync("thread")
    <3>1. PICK n \in Nat : n = budget - early /\ AtMost(n)
      BY <1>0, <2>4 DEF InTime
    <3>2. \/ early' = early /\ AtMost(n)'
          \/ early' = early + 1 /\ 1 <= n /\ AtMost(n - 1)'
      BY <1>1, <2>4, <3>1, ThreadInTime
    <3> QED
      BY <1>0, <2>1, <3>1, <3>2 DEF InTime
  <2> QED
    BY <2>2, <2>3, <2>4
<1>2. CASE sync("web")
  <2>1. at["web"] # "free" /\ at'["web"] # "free" /\ UNCHANGED <<early, moves>>
    BY <1>0, <1>2 DEF sync, SyncTell, SyncRead, SyncFound, SyncMissed, SyncTime
  <2> QED
    BY <2>1 DEF InTime, budget
<1>3. CASE SetStartTime
  <2>1. moves # 0 /\ UNCHANGED moves /\ early' = 0
    BY <1>3 DEF SetStartTime, InTime
  <2>2. AtMost(2)'
    BY AtMostTwo, PTL
  <2> QED
    BY <2>1, <2>2 DEF InTime, budget
<1>4. CASE Tick
  <2>1. UNCHANGED <<early, moves, at, budget>>
    BY <1>4 DEF Tick, budget
  <2>2. at["web"] = "free" => AtMost(budget - early)'
    BY <1>0, <1>4, <2>1, TickInTime DEF InTime
  <2> QED
    BY <2>1, <2>2 DEF InTime
<1>5. CASE play
  <2>1. moves' = moves + 1 /\ at'["web"] = "lost" /\ early' = early
    BY <1>0, <1>5 DEF play
  <2> QED
    BY <1>0, <2>1 DEF InTime, budget
<1>6. CASE UNCHANGED player
  BY <1>6 DEF player, InTime, AtMost, budget, astray, ahead, offRecord, tooShort
<1> QED
  BY <1>1, <1>2, <1>3, <1>4, <1>5, <1>6 DEF PlayerNext, WebThread

(* ... and no frame is shown before its time but for two after a move: the *)
(* thread and a move may each see the other's position and current_time    *)
(* at any of their accesses.                                               *)
THEOREM EarlyBoundedCorrect == PlayerSpec => []EarlyBounded
<1>1. PlayerInit => InTime
  BY PlayerAssumption DEF PlayerInit, InTime, AtMost, budget, astray, Actors
<1>2. InTime => EarlyBounded
  BY DEF InTime, EarlyBounded, budget
<1> QED
  BY <1>1, <1>2, PlayerTypeInit, PlayerTypeStep, InTimeStep, PTL DEF PlayerSpec
=============================================================================
