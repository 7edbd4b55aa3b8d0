---------------------------- MODULE PackedPlayer ----------------------------
(***************************************************************************)
(* The player of packed recordings: a thread of TrackBase reads the frames *)
(* of a file at the pace they were recorded at (PackedPlayer::grabFrame).  *)
(* The web API moves it about in the file.  Both work on one IFile, its    *)
(* position and its current_time, and nothing keeps them apart: each       *)
(* access of either to the file and to current_time is a step of its own.  *)
(*                                                                         *)
(* Record r of the file, r < Records, was made r ticks after begin_time.   *)
(* All records are frames.  A position is 3 r at the header of record r,   *)
(* 3 r + 1 behind it, and 3 r + 2 anywhere else in it.  No word of a       *)
(* record but the first is zero, so that only a header reads as one.       *)
(***************************************************************************)
EXTENDS Integers

CONSTANTS
  Records,     \* number of frames in the file
  Window,      \* ticks the thread sleeps for a frame to come: 750 ms
  MaxMoves     \* bound on the moves of the web API

ASSUME PlayerAssumption ==
  Records \in Nat \ {0} /\ Window \in Nat \ {0} /\ MaxMoves \in Nat

Actors == {"thread", "web"}

VARIABLES
  filePos, eof,  \* of the file: its position, and that a read met its end
  current_time,  \* of the file: what a record is compared with
  clock,         \* time - start_time, the time in the recording
  at,            \* where each actor is
  pos, header,   \* locals of each: a position, the record whose header was read
  sleep,         \* ticks the thread has left to sleep
  elapsed,       \* ticks since the web API asked for the time
  moves,         \* moves begun
  early          \* history: frames shown before their time since the last move

file   == <<filePos, eof>>
locals == <<pos, header>>
time   == <<clock, elapsed, sleep>>
watch  == <<moves, early>>
player == <<file, current_time, time, at, locals, watch>>

End == 3 * Records

Positions == 0 .. End

isHeader(p) == p % 3 = 0 /\ p < End

Places ==
  {"idle", "begin", "header", "again", "retry", "reading", "holding", "due", "later", "asleep",
   "free", "failed", "timed", "lost", "search", "found", "missed", "synced"}

PlayerTypeOK ==
  /\ filePos \in Positions /\ eof \in BOOLEAN
  /\ current_time \in 0 .. Records /\ clock \in 0 .. Records
  /\ at \in [Actors -> Places]
  /\ pos \in [Actors -> Positions] /\ header \in [Actors -> 0 .. Records - 1]
  /\ sleep \in 0 .. Window - 1 /\ elapsed \in 0 .. Records
  /\ moves \in 0 .. MaxMoves /\ early \in Nat

PlayerInit ==
  /\ filePos = 0 /\ eof = FALSE
  /\ current_time = 0 /\ clock = 0
  /\ at = [a \in Actors |-> IF a = "web" THEN "free" ELSE "idle"]
  /\ pos = [a \in Actors |-> 0] /\ header = [a \in Actors |-> 0]
  /\ sleep = 0 /\ elapsed = 0
  /\ moves = 0 /\ early = 0

Go(a, place) == at' = [at EXCEPT ![a] = place]

(* The locals of a call begin anew with the next.                          *)
Forget(a) == pos' = [pos EXCEPT ![a] = 0] /\ header' = [header EXCEPT ![a] = 0]

-----------------------------------------------------------------------------
(* Accesses to the file.                                                   *)

Seek(p) == filePos' = p /\ eof' = FALSE

Tell(a) == pos' = [pos EXCEPT ![a] = filePos] /\ UNCHANGED <<file, header>>

ReadTo(p) == filePos < End /\ p <= End /\ filePos' = p /\ UNCHANGED eof

ReadShort == filePos >= End - 1 /\ filePos' = End /\ eof' = TRUE

(* Where a read of a few words may end that begins at p.                   *)
Behind(p) == IF p % 3 = 2 THEN {p, p + 1, p + 3} ELSE {p + 1, p + 2}

(* The header at the position, ...                                         *)
ReadHeader(a) ==
  /\ isHeader(filePos)
  /\ header' = [header EXCEPT ![a] = filePos \div 3]
  /\ ReadTo(filePos + 1)
  /\ UNCHANGED pos

(* ... something else, and nothing for the end of the file.                *)
ReadOther ==
  /\ ~isHeader(filePos)
  /\ \E p \in Behind(filePos) : ReadTo(p)
  /\ UNCHANGED locals

ReadNothing == ReadShort /\ UNCHANGED locals

-----------------------------------------------------------------------------
(* IFile::sync(), of either: from where it is called to the next header,   *)
(* four bytes at a time, and the time of that record.                      *)
SyncTell(a) == at[a] = "lost" /\ Tell(a) /\ Go(a, "search") /\ UNCHANGED current_time

SyncRead(a) ==
  /\ at[a] = "search"
  /\ \/ ReadHeader(a) /\ Go(a, "found")
     \/ ReadOther /\ Go(a, "missed")
     \/ ReadNothing /\ Go(a, IF a = "web" THEN "failed" ELSE "again")
  /\ UNCHANGED current_time

(* Back to where the header was expected ...                               *)
SyncFound(a) ==
  /\ at[a] = "found"
  /\ Seek(pos[a])
  /\ Go(a, "synced")
  /\ UNCHANGED <<locals, current_time>>

(* ... or four bytes further.                                              *)
\* A mutant: it tries the same bytes again.
NextWordSame(p) == p
NextWord(p) ==
  CASE p = End     -> p
    [] p % 3 = 2   -> p + 1
    [] OTHER       -> 3 * (p \div 3) + 2

SyncMissed(a) ==
  /\ at[a] = "missed"
  /\ Seek(NextWord(pos[a]))
  /\ Go(a, "lost")
  /\ UNCHANGED <<locals, current_time>>

SyncTime(a) ==
  /\ at[a] = "synced"
  /\ current_time' = header[a]
  /\ Go(a, IF a = "web" THEN "timed" ELSE "again")
  /\ UNCHANGED <<file, locals>>

sync(a) ==
  /\ SyncTell(a) \/ SyncRead(a) \/ SyncFound(a) \/ SyncMissed(a) \/ SyncTime(a)
  /\ UNCHANGED <<time, watch>>

-----------------------------------------------------------------------------
(* The thread: grabFrame().                                                *)
Look ==
  /\ at["thread"] = "idle" /\ ~eof
  /\ current_time' = clock
  /\ Forget("thread")
  /\ Go("thread", "begin")
  /\ UNCHANGED <<file, time, watch>>

TellRecord ==
  /\ \/ at["thread"] = "begin" /\ Go("thread", "header")
     \/ at["thread"] = "again" /\ Go("thread", "retry")
  /\ Tell("thread")
  /\ UNCHANGED <<current_time, time, watch>>

(* Where there is no header it looks for the next one, once.               *)
ReadRecord ==
  /\ at["thread"] \in {"header", "retry"}
  /\ \/ ReadHeader("thread") /\ Go("thread", "reading")
     \/ /\ ReadOther \/ ReadNothing
        /\ Go("thread", IF at["thread"] = "header" THEN "lost" ELSE "idle")
  /\ UNCHANGED <<current_time, time, watch>>

(* The rest of the record, in pieces.  Where a move came in between, its   *)
(* pieces are some of another record.                                      *)
ReadObject ==
  /\ at["thread"] = "reading"
  /\ LET r   == 3 * header["thread"]
         own == filePos \in r + 1 .. r + 2
     IN  \/ own /\ ReadTo(r + 2) /\ UNCHANGED at
         \/ own /\ ReadTo(r + 3) /\ Go("thread", "holding")
         \/ ~own /\ (\E p \in Behind(filePos) : ReadTo(p)) /\ UNCHANGED at
         \/ ~own /\ (\E p \in Behind(filePos) : ReadTo(p)) /\ Go("thread", "holding")
         \/ ~own /\ ReadShort /\ Go("thread", "idle")
  /\ UNCHANGED <<locals, current_time, time, watch>>

(* A record of the past is left out.                                       *)
LeaveOut ==
  /\ at["thread"] = "holding"
  /\ Go("thread", IF header["thread"] < current_time THEN "begin" ELSE "due")
  /\ UNCHANGED <<file, locals, current_time, time, watch>>

(* The thread sleeps for a record that is due soon.                        *)
\* A mutant: it sleeps for any record.
AwaitLong ==
  /\ at["thread"] = "due" /\ header["thread"] >= current_time
  /\ sleep' = header["thread"] - current_time
  /\ Go("thread", "asleep")
  /\ UNCHANGED <<file, locals, current_time, clock, elapsed, watch>>
\* A mutant: it sleeps a tick too short.
AwaitShort ==
  /\ at["thread"] = "due" /\ header["thread"] - current_time \in 0 .. Window - 1
  /\ sleep' = IF header["thread"] > current_time THEN header["thread"] - current_time - 1 ELSE 0
  /\ Go("thread", "asleep")
  /\ UNCHANGED <<file, locals, current_time, clock, elapsed, watch>>
Await ==
  /\ at["thread"] = "due" /\ header["thread"] - current_time \in 0 .. Window - 1
  /\ sleep' = header["thread"] - current_time
  /\ Go("thread", "asleep")
  /\ UNCHANGED <<file, locals, current_time, clock, elapsed, watch>>

(* One that is due later, or late by now (the difference is unsigned), is  *)
(* given back: the thread goes to where it read it, which undoes a move    *)
(* made meanwhile.                                                         *)
TooEarly ==
  /\ at["thread"] = "due" /\ header["thread"] - current_time \notin 0 .. Window - 1
  /\ Go("thread", "later")
  /\ UNCHANGED <<file, locals, current_time, time, watch>>

PutBack ==
  /\ at["thread"] = "later"
  /\ Seek(pos["thread"])
  /\ Go("thread", "idle")
  /\ UNCHANGED <<locals, current_time, time, watch>>

(* The frame is shown.                                                     *)
Wake ==
  /\ at["thread"] = "asleep" /\ sleep = 0
  /\ current_time' = clock
  /\ early' = IF at["web"] = "free" /\ header["thread"] > clock THEN early + 1 ELSE early
  /\ Go("thread", "idle")
  /\ UNCHANGED <<file, locals, time, moves>>

PlayerThread ==
  \/ sync("thread")
  \/ Look \/ TellRecord \/ ReadRecord \/ ReadObject
  \/ LeaveOut \/ Await \/ TooEarly \/ PutBack \/ Wake

(* Time behind the end of the file is cut short.                           *)
Cut(t) == IF t < Records THEN t ELSE Records

Tick ==
  /\ clock' = Cut(clock + 1)
  /\ sleep' = IF sleep > 0 THEN sleep - 1 ELSE 0
  /\ elapsed' = IF at["web"] = "free" THEN 0 ELSE Cut(elapsed + 1)
  /\ UNCHANGED <<file, current_time, at, locals, watch>>

-----------------------------------------------------------------------------
(* The web API.  A move goes to a position and on to the next record: one  *)
(* that is asked for, or the one shown last, at the end of a pause.        *)
play ==
  /\ at["web"] = "free" /\ moves < MaxMoves
  /\ \E p \in Positions : Seek(p)
  /\ Go("web", "lost")
  /\ moves' = moves + 1
  /\ UNCHANGED <<current_time, time, locals, early>>

(* Its time sets the clock: sync() returns 0 where it found none, and else *)
(* the member, which it may read again.                                    *)
SetStartTime ==
  /\ \/ at["web"] = "failed" /\ clock' = elapsed
     \/ /\ at["web"] = "timed"
        /\ \E t \in {header["web"], current_time} : clock' = Cut(t + elapsed)
  /\ Go("web", "free")
  /\ Forget("web")
  /\ elapsed' = 0 /\ early' = 0
  /\ UNCHANGED <<file, current_time, sleep, moves>>

WebThread == sync("web") \/ SetStartTime

PlayerNext == PlayerThread \/ WebThread \/ Tick \/ play

(* The thread and a handler go on, and time does.                          *)
PlayerSpec ==
  /\ PlayerInit /\ [][PlayerNext]_player
  /\ WF_player(PlayerThread) /\ WF_player(WebThread) /\ WF_player(Tick)

-----------------------------------------------------------------------------
(* A frame is not shown before its time, however a move and the thread     *)
(* disturb each other, but for two after a move: the one the thread was at *)
(* and one it finds where the move has left it between two records.        *)
EarlyBounded == early <= IF moves = 0 THEN 0 ELSE 2

(* When nobody moves the player any more it gets to the end of the file.   *)
PlayedToEnd == <>[](at["web"] = "free") => <>[](filePos = End)
=============================================================================
