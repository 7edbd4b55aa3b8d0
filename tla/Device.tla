------------------------------- MODULE Device -------------------------------
(***************************************************************************)
(* The life of one LidarDevice of lidartool.  Its drivers are opened, read *)
(* and closed by a thread of its own (LidarDevice::ThreadFunction); the    *)
(* handlers of the web API only set what it shall do, and the main loop    *)
(* opens it again after a reopen and derives failures from what the thread *)
(* has left in its flags.  The thread also carries out a scan of the       *)
(* environment that the web API, or the server at the other end of the     *)
(* output link, asks for.                                                  *)
(*                                                                         *)
(* A step of the thread ends where it may wait for a driver or where what  *)
(* it wrote can be seen by the others; a handler and a pass of the main    *)
(* loop are single steps.  Periods of time (3 s to reopen, 25 s to report, *)
(* the duration of an environment scan) end at any time.                   *)
(***************************************************************************)
CONSTANTS Sources    \* the kinds of input among which Init chooses

ASSUME SourcesAssumption == Sources \subseteq {"local", "virtual", "file"}

VARIABLES
  source,         \* where the samples come from: deviceName, inVirtUrl or inFileName
  hasOut,         \* outVirtUrl is set: the device also feeds a virtual link
  started,        \* g_IsStarted
  shouldOpen,     \* what the thread is asked for
  reopening,      \* reopenTime > 0
  overdue,        \* openTime is more than g_FailureReportSec ago
  inDrv, outDrv,  \* the input and the output driver: "null", "closed", "open"
  ready, openFailed, dataReceived, isPoweringUp,
  hasError,       \* errorMsg is not empty
  deviceFailed,   \* the string kept for the device in g_DeviceFailed
  reported,       \* the last report: "none", "failure" or "ok"
  useOutEnv, useOutEnvBak, isEnvScanning,
  envProcessed,   \* envSamples are processed; not while they are collected
  envTimeUp,      \* envScanSec have passed since processStartTime
  wanted,         \* the setting useOutEnv was last asked for
  overlap,        \* a scan was asked for, or the setting changed, during a scan
  pc              \* where the thread is

request  == <<started, shouldOpen, reopening, overdue>>
drivers  == <<inDrv, outDrv>>
status   == <<ready, openFailed, dataReceived, isPoweringUp, hasError>>
failures == <<deviceFailed, reported>>
envState == <<useOutEnv, useOutEnvBak, isEnvScanning, envProcessed, envTimeUp, wanted, overlap>>
config   == <<source, hasOut>>
vars == <<config, request, drivers, status, failures, envState, pc>>

DriverStates == {"null", "closed", "open"}
Steps == {"loop", "opening", "opened", "closing", "scanning", "scanned", "processing", "restored"}

RequestOK ==
  started \in BOOLEAN /\ shouldOpen \in BOOLEAN /\ reopening \in BOOLEAN /\ overdue \in BOOLEAN
(* Only the driver of a virtual link is kept when it is closed.            *)
DriversOK ==
  /\ inDrv \in IF source = "virtual" THEN DriverStates ELSE {"null", "open"}
  /\ outDrv \in IF hasOut THEN DriverStates ELSE {"null"}
StatusOK ==
  /\ ready \in BOOLEAN /\ openFailed \in BOOLEAN /\ dataReceived \in BOOLEAN
  /\ isPoweringUp \in BOOLEAN /\ hasError \in BOOLEAN
FailuresOK == deviceFailed \in {"true", "false", "-1"} /\ reported \in {"none", "failure", "ok"}
EnvOK ==
  /\ useOutEnv \in BOOLEAN /\ useOutEnvBak \in BOOLEAN /\ wanted \in BOOLEAN
  /\ isEnvScanning \in BOOLEAN /\ envTimeUp \in BOOLEAN /\ overlap \in BOOLEAN
  /\ envProcessed \in BOOLEAN

TypeOK ==
  /\ source \in Sources /\ hasOut \in BOOLEAN
  /\ RequestOK /\ DriversOK /\ StatusOK /\ FailuresOK /\ EnvOK
  /\ pc \in Steps

isOpen == inDrv = "open"

(* openTime and useOutEnvBak are not set by the constructor: they may have *)
(* any value.                                                              *)
Init ==
  /\ source \in Sources /\ hasOut \in BOOLEAN
  /\ started = FALSE /\ shouldOpen = FALSE /\ reopening = FALSE /\ overdue \in BOOLEAN
  /\ inDrv = "null" /\ outDrv = "null"
  /\ ready = FALSE /\ openFailed = FALSE /\ dataReceived = FALSE
  /\ isPoweringUp = FALSE /\ hasError = FALSE
  /\ deviceFailed = "false" /\ reported = "none"
  /\ useOutEnv = TRUE /\ useOutEnvBak \in BOOLEAN /\ isEnvScanning = FALSE
  /\ envProcessed = TRUE /\ envTimeUp = TRUE /\ wanted = TRUE /\ overlap = FALSE
  /\ pc = "loop"

-----------------------------------------------------------------------------
(* What the web API and the main loop do to a device.                      *)

open ==
  /\ shouldOpen' = TRUE
  /\ overdue' = (overdue /\ shouldOpen)

close ==
  /\ shouldOpen' = FALSE
  /\ hasError' = FALSE

Start ==
  /\ started' = TRUE
  /\ open
  /\ UNCHANGED <<config, reopening, drivers, status, failures, envState, pc>>

Stop ==
  /\ started' = FALSE
  /\ close
  /\ deviceFailed' = "false"
  /\ UNCHANGED <<config, reopening, overdue, drivers, ready, openFailed, dataReceived,
                 isPoweringUp, reported, envState, pc>>

RunDevice(run) ==
  /\ IF run THEN open /\ UNCHANGED hasError ELSE close /\ UNCHANGED overdue
  /\ UNCHANGED <<config, started, reopening, drivers, ready, openFailed, dataReceived,
                 isPoweringUp, failures, envState, pc>>

Reopen ==
  /\ deviceFailed' = "-1"
  /\ close
  /\ reopening' = TRUE
  /\ UNCHANGED <<config, started, overdue, drivers, ready, openFailed, dataReceived,
                 isPoweringUp, reported, envState, pc>>

(* LidarDevices::update of the main loop, when the 3 s are over.           *)
Update ==
  /\ reopening
  /\ open
  /\ reopening' = FALSE
  /\ UNCHANGED <<config, started, drivers, status, failures, envState, pc>>

(* A string is taken for a bool by the main loop: "-1" is not true.        *)
\* A mutant: any string but "false" is taken for true.
getBoolLoose(string) == string # "false"
getBool(string) == string = "true"

\* A mutant: an open device without data is no failure.
failureUnready == IF isOpen THEN isPoweringUp \/ ~ready ELSE hasError
failure == IF isOpen THEN isPoweringUp \/ ~dataReceived \/ ~ready ELSE hasError

(* A failure is reported when it comes and when it goes.                   *)
updateFailures ==
  /\ started /\ ~reopening /\ overdue
  /\ failure # getBool(deviceFailed)
  /\ deviceFailed' = IF failure THEN "true" ELSE "false"
  /\ reported' = IF failure THEN "failure" ELSE "ok"
  /\ UNCHANGED <<config, request, drivers, status, envState, pc>>

TimePasses ==
  /\ ~overdue
  /\ overdue' = TRUE
  /\ UNCHANGED <<config, started, shouldOpen, reopening, drivers, status, failures, envState, pc>>

-----------------------------------------------------------------------------
(* Environment scanning as asked for.                                      *)

\* A mutant: the setting is saved after it was changed.
beginEnvScanLate ==
  /\ envProcessed' = FALSE
  /\ useOutEnv' = FALSE
  /\ useOutEnvBak' = useOutEnv'
  /\ isEnvScanning' = TRUE
  /\ envTimeUp' = FALSE
  /\ overlap' = (overlap \/ isEnvScanning)
  /\ UNCHANGED wanted
beginEnvScan ==
  /\ envProcessed' = FALSE
  /\ useOutEnvBak' = useOutEnv
  /\ useOutEnv' = FALSE
  /\ isEnvScanning' = TRUE
  /\ envTimeUp' = FALSE
  /\ overlap' = (overlap \/ isEnvScanning)
  /\ UNCHANGED wanted

ScanEnv ==
  /\ isOpen /\ ready
  /\ beginEnvScan
  /\ UNCHANGED <<config, request, drivers, status, failures, pc>>

setUseOutEnv(outEnv) ==
  /\ useOutEnv' = outEnv
  /\ wanted' = outEnv
  /\ overlap' = (overlap \/ isEnvScanning)
  /\ UNCHANGED <<config, request, drivers, status, failures,
                 useOutEnvBak, isEnvScanning, envProcessed, envTimeUp, pc>>

EnvTimePasses ==
  /\ isEnvScanning /\ ~envTimeUp
  /\ envTimeUp' = TRUE
  /\ UNCHANGED <<config, request, drivers, status, failures,
                 useOutEnv, useOutEnvBak, isEnvScanning, envProcessed, wanted, overlap, pc>>

-----------------------------------------------------------------------------
(* The thread of the device: opening and closing.                          *)

\* A mutant: a device that is run while the tool is stopped is not opened.
OpenDeviceStarted ==
  /\ pc = "loop" /\ ~isOpen /\ shouldOpen /\ ~openFailed /\ started
  /\ dataReceived' = FALSE
  /\ pc' = "opening"
  /\ UNCHANGED <<config, request, drivers, ready, openFailed, isPoweringUp, hasError,
                 failures, envState>>
OpenDevice ==
  /\ pc = "loop" /\ ~isOpen /\ shouldOpen /\ ~openFailed
  /\ dataReceived' = FALSE
  /\ pc' = "opening"
  /\ UNCHANGED <<config, request, drivers, ready, openFailed, isPoweringUp, hasError,
                 failures, envState>>

(* The output link: a driver that exists is only marked open again.        *)
openOutDrv ==
  outDrv' \in IF ~hasOut THEN {outDrv} ELSE IF outDrv = "null" THEN {"null", "open"} ELSE {"open"}

InputOpened ==
  /\ pc = "opening"
  /\ inDrv' = "open"
  /\ openOutDrv
  /\ openFailed' = FALSE
  /\ hasError' = FALSE
  /\ pc' = "opened"
  /\ UNCHANGED <<config, request, ready, dataReceived, isPoweringUp, failures, envState>>

(* A virtual driver that exists opens without fail.                        *)
InputFailed ==
  /\ pc = "opening" /\ inDrv = "null"
  /\ openOutDrv
  /\ openFailed' = TRUE
  /\ hasError' = TRUE
  /\ pc' = "opened"
  /\ UNCHANGED <<config, request, inDrv, ready, dataReceived, isPoweringUp, failures, envState>>

(* A sensor that answers but is not healthy: close() is called, not        *)
(* closeDevice(), and the driver stays.                                    *)
HealthCheckFailed ==
  /\ pc = "opening" /\ source = "local"
  /\ inDrv' = "open"
  /\ openOutDrv
  /\ shouldOpen' = FALSE
  /\ openFailed' = TRUE
  /\ hasError' = TRUE
  /\ pc' = "opened"
  /\ UNCHANGED <<config, started, reopening, overdue, ready, dataReceived, isPoweringUp,
                 failures, envState>>

(* The result of the output link counts for a virtual input only: that of  *)
(* a sensor or a file overwrites it.                                       *)
SetReady ==
  /\ pc = "opened"
  /\ ready' = (~openFailed /\ (source = "virtual" /\ hasOut => outDrv = "open"))
  /\ pc' = "loop"
  /\ UNCHANGED <<config, request, drivers, openFailed, dataReceived, isPoweringUp, hasError,
                 failures, envState>>

\* A mutant: only a device that is ready is closed.
CloseDeviceReady ==
  /\ pc = "loop" /\ isOpen /\ ready /\ ~shouldOpen /\ ~openFailed
  /\ ready' = FALSE
  /\ pc' = "closing"
  /\ UNCHANGED <<config, request, drivers, openFailed, dataReceived, isPoweringUp, hasError,
                 failures, envState>>
\* A mutant: ready is not reset.
CloseDeviceStale ==
  /\ pc = "loop" /\ isOpen /\ ~shouldOpen /\ ~openFailed
  /\ pc' = "closing"
  /\ UNCHANGED <<config, request, drivers, status, failures, envState>>
CloseDevice ==
  /\ pc = "loop" /\ isOpen /\ ~shouldOpen /\ ~openFailed
  /\ ready' = FALSE
  /\ pc' = "closing"
  /\ UNCHANGED <<config, request, drivers, openFailed, dataReceived, isPoweringUp, hasError,
                 failures, envState>>

closed(drv) == IF drv = "null" THEN "null" ELSE "closed"

\* A mutant: the pointer to a sensor's driver, or to a file, is not reset.
CloseDriversKeeping ==
  /\ pc = "closing"
  /\ inDrv' = closed(inDrv) /\ outDrv' = closed(outDrv)
  /\ pc' = "loop"
  /\ UNCHANGED <<config, request, status, failures, envState>>
CloseDrivers ==
  /\ pc = "closing"
  /\ inDrv' = IF source = "virtual" THEN closed(inDrv) ELSE "null"
  /\ outDrv' = closed(outDrv)
  /\ pc' = "loop"
  /\ UNCHANGED <<config, request, status, failures, envState>>

-----------------------------------------------------------------------------
(* The thread of the device: scanning while it is open.                    *)

Agrees == isOpen = shouldOpen \/ openFailed

(* Commands of the node at the other end of an input link.                 *)
PowerUp(on) ==
  /\ pc = "loop" /\ isOpen /\ Agrees
  /\ source = "virtual"
  /\ isPoweringUp' = on
  /\ UNCHANGED <<config, request, drivers, ready, openFailed, dataReceived, hasError,
                 failures, envState, pc>>

scan ==
  /\ pc = "loop" /\ isOpen /\ Agrees
  /\ pc' = IF ready THEN "scanning" ELSE "scanned"
  /\ UNCHANGED <<config, request, drivers, status, failures, envState>>

scanReceived ==
  /\ pc = "scanning"
  /\ dataReceived' = TRUE
  /\ hasError' = FALSE
  /\ pc' = "scanned"
  /\ UNCHANGED <<config, request, drivers, ready, openFailed, isPoweringUp, failures, envState>>

(* With the samples came an environment: the server has scanned it and     *)
(* sent it back.                                                           *)
envDataReceived ==
  /\ pc = "scanning" /\ outDrv # "null"
  /\ dataReceived' = TRUE
  /\ hasError' = FALSE
  /\ beginEnvScan
  /\ pc' = "processing"
  /\ UNCHANGED <<config, request, drivers, ready, openFailed, isPoweringUp, failures>>

(* Nothing came: after 30 s the device has no data; a file may be at its   *)
(* end.                                                                    *)
nothingReceived ==
  /\ pc = "scanning"
  /\ dataReceived' \in {dataReceived, FALSE}
  /\ hasError' \in IF source = "file" THEN {hasError, TRUE} ELSE {hasError}
  /\ pc' = "scanned"
  /\ UNCHANGED <<config, request, drivers, ready, openFailed, isPoweringUp, failures, envState>>

(* During a scan of the environment the samples are merged into it, which  *)
(* leaves it unprocessed.                                                  *)
\* A mutant: a scan of the environment waits for data to end.
ScanDoneData ==
  /\ pc = "scanned"
  /\ pc' = IF isEnvScanning /\ envTimeUp /\ dataReceived THEN "processing" ELSE "loop"
  /\ UNCHANGED <<config, request, drivers, status, failures, envState>>
ScanDone ==
  /\ pc = "scanned"
  /\ pc' = IF isEnvScanning /\ envTimeUp THEN "processing" ELSE "loop"
  /\ UNCHANGED <<config, request, drivers, status, failures, envState>>

processEnv ==
  /\ pc = "processing"
  /\ envProcessed' = TRUE
  /\ useOutEnv' = useOutEnvBak
  /\ pc' = "restored"
  /\ UNCHANGED <<config, request, drivers, status, failures,
                 useOutEnvBak, isEnvScanning, envTimeUp, wanted, overlap>>

EndEnvScan ==
  /\ pc = "restored"
  /\ isEnvScanning' = FALSE
  /\ pc' = "loop"
  /\ UNCHANGED <<config, request, drivers, status, failures,
                 useOutEnv, useOutEnvBak, envProcessed, envTimeUp, wanted, overlap>>

-----------------------------------------------------------------------------
ThreadStep ==
  \/ OpenDevice \/ InputOpened \/ InputFailed \/ HealthCheckFailed \/ SetReady
  \/ CloseDevice \/ CloseDrivers
  \/ scan \/ scanReceived \/ envDataReceived \/ nothingReceived
  \/ ScanDone \/ processEnv \/ EndEnvScan

Web ==
  \/ Start \/ Stop \/ Reopen \/ ScanEnv
  \/ \E run \in BOOLEAN : RunDevice(run)
  \/ \E outEnv \in BOOLEAN : setUseOutEnv(outEnv)

Next ==
  \/ Web
  \/ ThreadStep
  \/ \E on \in BOOLEAN : PowerUp(on)
  \/ Update \/ updateFailures
  \/ TimePasses \/ EnvTimePasses

Spec == Init /\ [][Next]_vars

(* The thread loops for ever, the main loop too, and time passes.  Nothing *)
(* is assumed of the web API or of what the drivers find.                  *)
FairSpec ==
  /\ Spec
  /\ WF_vars(ThreadStep)
  /\ WF_vars(Update)
  /\ WF_vars(updateFailures)
  /\ WF_vars(TimePasses)
  /\ WF_vars(EnvTimePasses)

-----------------------------------------------------------------------------
(* The driver is there as long as the thread waits for it, whatever the    *)
(* web API asks for meanwhile: a ready device is open, and the relay of a  *)
(* virtual input is ready with both its links only (openDevice,            *)
(* closeDevice, scan).                                                     *)
DriverInUse ==
  /\ ready \/ pc = "scanning" => isOpen
  /\ ready /\ source = "virtual" /\ hasOut => outDrv = "open"

(* A failure that is kept for a device, and shown by the GUI, has been     *)
(* reported and not been withdrawn, however often the device was stopped,  *)
(* started and reopened in between (updateFailures, reopen, stop).         *)
FailureIsReported == getBool(deviceFailed) => reported = "failure"

(* Unless scans of the environment overlap, a scan gives back the setting  *)
(* of useOutEnv, and the device works on a processed environment whenever  *)
(* no scan is on (scanEnv, ThreadFunction, scan).                          *)
EnvScanRestores ==
  ~overlap /\ ~isEnvScanning => useOutEnv = wanted /\ envProcessed

(* A device that is asked for comes up, unless it failed to open.          *)
Opens == <>[]shouldOpen => <>[](isOpen \/ openFailed)

(* A device that is no longer asked for is closed, unless it failed.       *)
Closes == <>[](~shouldOpen) => <>[](~isOpen \/ openFailed)

(* While the device stays open a scan of the environment ends, whether or  *)
(* not samples arrive, unless it is asked for again and again; tracking is *)
(* suspended until then.                                                   *)
EnvScanEnds == <>[](isOpen /\ Agrees) /\ <>[][~ScanEnv]_vars => []<>(~isEnvScanning)

(* A device that is asked for, is open and delivers nothing is reported in *)
(* the end.                                                                *)
NoDataReported ==
  <>[](started /\ ~reopening /\ shouldOpen /\ isOpen /\ ~dataReceived) => <>[](deviceFailed = "true")

(* A device that is asked for and stays closed is reported in the end: the *)
(* option failureReportSec is the time to wait for that.                   *)
ClosedReported ==
  <>[](started /\ ~reopening /\ shouldOpen /\ ~isOpen) => <>[](deviceFailed = "true")
=============================================================================
