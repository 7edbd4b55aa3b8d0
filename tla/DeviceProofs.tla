---------------------------- MODULE DeviceProofs ----------------------------
(***************************************************************************)
(* Proofs about Device for every kind of input: its types, that a ready    *)
(* device has its drivers, that a failure which is kept was reported, and  *)
(* that a scan of the environment gives back what it has changed.          *)
(***************************************************************************)
EXTENDS Device, TLAPS

(* The drivers follow the thread: while it opens or closes them the device *)
(* is not ready, a successful opening leaves the input open, and the       *)
(* thread waits for samples of an open input only.                         *)
DriversFollow ==
  /\ DriverInUse
  /\ pc \in {"opening", "opened", "closing"} => ~ready
  /\ pc = "opened" /\ ~openFailed => isOpen

(* A scan of the environment: while it is on the setting is saved, before  *)
(* its end all is restored, and no scan ends that has not begun.           *)
ScanFollows ==
  /\ EnvScanRestores
  /\ pc \in {"processing", "restored"} => isEnvScanning
  /\ ~overlap /\ isEnvScanning /\ pc # "restored" => useOutEnvBak = wanted
  /\ ~overlap /\ pc = "restored" => useOutEnv = wanted /\ envProcessed

IInv ==
  /\ TypeOK
  /\ DriversFollow
  /\ FailureIsReported
  /\ ScanFollows

(* The initial states are typed and satisfy the invariant.                 *)
LEMMA InitIInv == Init => IInv
  BY DEF Init, IInv, TypeOK, RequestOK, DriversOK, StatusOK, FailuresOK, EnvOK, DriverStates,
     Steps, DriversFollow, DriverInUse,
     isOpen, FailureIsReported, getBool, ScanFollows, EnvScanRestores

(* What is asked for keeps its types.                                      *)
LEMMA RequestType == RequestOK /\ [Next]_vars => RequestOK'
<1> SUFFICES ASSUME RequestOK, [Next]_vars
             PROVE  RequestOK'
  OBVIOUS
<1> USE DEF RequestOK
<1>1. CASE Start
  BY <1>1 DEF Start, open, request
<1>2. CASE Stop
  BY <1>2 DEF Stop, close, request
<1>3. CASE Reopen
  BY <1>3 DEF Reopen, close, request
<1>4. CASE \E run \in BOOLEAN : RunDevice(run)
  BY <1>4 DEF RunDevice, open, close, request
<1>5. CASE HealthCheckFailed
  BY <1>5 DEF HealthCheckFailed, openOutDrv, request
<1>6. CASE Update
  BY <1>6 DEF Update, open, request
<1>7. CASE TimePasses
  BY <1>7 DEF TimePasses, request
<1>8. CASE
      ScanEnv \/ OpenDevice \/ InputOpened \/ InputFailed \/ SetReady \/ CloseDevice
      \/ CloseDrivers \/ scan \/ scanReceived \/ envDataReceived \/ nothingReceived
      \/ ScanDone \/ processEnv \/ EndEnvScan \/ updateFailures \/ EnvTimePasses
      \/ UNCHANGED vars \/ (\E outEnv \in BOOLEAN : setUseOutEnv(outEnv))
      \/ (\E on \in BOOLEAN : PowerUp(on))
  <2>1. UNCHANGED request
    BY <1>8 DEF ScanEnv, setUseOutEnv, OpenDevice, InputOpened, InputFailed, SetReady,
       CloseDevice, CloseDrivers, scan, scanReceived, envDataReceived, nothingReceived,
       ScanDone, processEnv, EndEnvScan, PowerUp, updateFailures, EnvTimePasses, vars,
       request
  <2> QED
    BY <2>1 DEF request
<1> QED
  BY <1>1, <1>2, <1>3, <1>4, <1>5, <1>6, <1>7, <1>8 DEF Next, Web, ThreadStep

(* The drivers keep their types.                                           *)
LEMMA DriversType == DriversOK /\ [Next]_vars => DriversOK'
<1> SUFFICES ASSUME DriversOK, [Next]_vars
             PROVE  DriversOK'
  OBVIOUS
<1> USE DEF DriversOK, DriverStates, config
<1>1. CASE InputOpened
  BY <1>1 DEF InputOpened, openOutDrv, drivers
<1>2. CASE InputFailed
  BY <1>2 DEF InputFailed, openOutDrv, drivers
<1>3. CASE HealthCheckFailed
  BY <1>3 DEF HealthCheckFailed, openOutDrv, drivers
<1>4. CASE CloseDrivers
  BY <1>4 DEF CloseDrivers, closed, drivers
<1>5. CASE
      Start \/ Stop \/ Reopen \/ ScanEnv \/ OpenDevice \/ SetReady \/ CloseDevice
      \/ scan \/ scanReceived \/ envDataReceived \/ nothingReceived \/ ScanDone
      \/ processEnv \/ EndEnvScan \/ Update \/ updateFailures \/ TimePasses
      \/ EnvTimePasses \/ UNCHANGED vars \/ (\E run \in BOOLEAN : RunDevice(run))
      \/ (\E outEnv \in BOOLEAN : setUseOutEnv(outEnv))
      \/ (\E on \in BOOLEAN : PowerUp(on))
  <2>1. UNCHANGED drivers /\ UNCHANGED config
    BY <1>5 DEF Start, Stop, Reopen, ScanEnv, RunDevice, setUseOutEnv, OpenDevice,
       SetReady, CloseDevice, scan, scanReceived, envDataReceived, nothingReceived,
       ScanDone, processEnv, EndEnvScan, PowerUp, Update, updateFailures, TimePasses,
       EnvTimePasses, vars, drivers
  <2> QED
    BY <2>1 DEF drivers
<1> QED
  BY <1>1, <1>2, <1>3, <1>4, <1>5 DEF Next, Web, ThreadStep

(* The flags of the thread keep their types.                               *)
LEMMA StatusType == StatusOK /\ [Next]_vars => StatusOK'
<1> SUFFICES ASSUME StatusOK, [Next]_vars
             PROVE  StatusOK'
  OBVIOUS
<1> USE DEF StatusOK
<1>1. CASE Stop
  BY <1>1 DEF Stop, close, status
<1>2. CASE Reopen
  BY <1>2 DEF Reopen, close, status
<1>3. CASE \E run \in BOOLEAN : RunDevice(run)
  BY <1>3 DEF RunDevice, open, close, status
<1>4. CASE OpenDevice
  BY <1>4 DEF OpenDevice, isOpen, status
<1>5. CASE InputOpened
  BY <1>5 DEF InputOpened, openOutDrv, status
<1>6. CASE InputFailed
  BY <1>6 DEF InputFailed, openOutDrv, status
<1>7. CASE HealthCheckFailed
  BY <1>7 DEF HealthCheckFailed, openOutDrv, status
<1>8. CASE SetReady
  BY <1>8 DEF SetReady, status
<1>9. CASE CloseDevice
  BY <1>9 DEF CloseDevice, isOpen, status
<1>10. CASE scanReceived
  BY <1>10 DEF scanReceived, status
<1>11. CASE envDataReceived
  BY <1>11 DEF envDataReceived, beginEnvScan, status
<1>12. CASE nothingReceived
  BY <1>12 DEF nothingReceived, status
<1>13. CASE \E on \in BOOLEAN : PowerUp(on)
  BY <1>13 DEF PowerUp, status
<1>14. CASE
      Start \/ ScanEnv \/ CloseDrivers \/ scan \/ ScanDone \/ processEnv
      \/ EndEnvScan \/ Update \/ updateFailures \/ TimePasses \/ EnvTimePasses
      \/ UNCHANGED vars \/ (\E outEnv \in BOOLEAN : setUseOutEnv(outEnv))
  <2>1. UNCHANGED status
    BY <1>14 DEF Start, ScanEnv, setUseOutEnv, CloseDrivers, scan, ScanDone,
       processEnv, EndEnvScan, Update, updateFailures, TimePasses, EnvTimePasses, vars,
       status
  <2> QED
    BY <2>1 DEF status
<1> QED
  BY <1>1, <1>2, <1>3, <1>4, <1>5, <1>6, <1>7, <1>8, <1>9, <1>10, <1>11, <1>12, <1>13, <1>14 DEF Next, Web, ThreadStep

(* What is kept of failures keeps its types.                               *)
LEMMA FailuresType == FailuresOK /\ [Next]_vars => FailuresOK'
<1> SUFFICES ASSUME FailuresOK, [Next]_vars
             PROVE  FailuresOK'
  OBVIOUS
<1> USE DEF FailuresOK
<1>1. CASE Stop
  BY <1>1 DEF Stop, close, failures
<1>2. CASE Reopen
  BY <1>2 DEF Reopen, close, failures
<1>3. CASE updateFailures
  BY <1>3 DEF updateFailures, failures
<1>4. CASE
      Start \/ ScanEnv \/ OpenDevice \/ InputOpened \/ InputFailed
      \/ HealthCheckFailed \/ SetReady \/ CloseDevice \/ CloseDrivers \/ scan
      \/ scanReceived \/ envDataReceived \/ nothingReceived \/ ScanDone \/ processEnv
      \/ EndEnvScan \/ Update \/ TimePasses \/ EnvTimePasses \/ UNCHANGED vars
      \/ (\E run \in BOOLEAN : RunDevice(run))
      \/ (\E outEnv \in BOOLEAN : setUseOutEnv(outEnv))
      \/ (\E on \in BOOLEAN : PowerUp(on))
  <2>1. UNCHANGED failures
    BY <1>4 DEF Start, ScanEnv, RunDevice, setUseOutEnv, OpenDevice, InputOpened,
       InputFailed, HealthCheckFailed, SetReady, CloseDevice, CloseDrivers, scan,
       scanReceived, envDataReceived, nothingReceived, ScanDone, processEnv,
       EndEnvScan, PowerUp, Update, TimePasses, EnvTimePasses, vars, failures
  <2> QED
    BY <2>1 DEF failures
<1> QED
  BY <1>1, <1>2, <1>3, <1>4 DEF Next, Web, ThreadStep

(* The state of a scan of the environment keeps its types.                 *)
LEMMA EnvType == EnvOK /\ [Next]_vars => EnvOK'
<1> SUFFICES ASSUME EnvOK, [Next]_vars
             PROVE  EnvOK'
  OBVIOUS
<1> USE DEF EnvOK
<1>1. CASE ScanEnv
  BY <1>1 DEF ScanEnv, beginEnvScan, isOpen, envState
<1>2. CASE \E outEnv \in BOOLEAN : setUseOutEnv(outEnv)
  BY <1>2 DEF setUseOutEnv, envState
<1>3. CASE envDataReceived
  BY <1>3 DEF envDataReceived, beginEnvScan, envState
<1>4. CASE processEnv
  BY <1>4 DEF processEnv, envState
<1>5. CASE EndEnvScan
  BY <1>5 DEF EndEnvScan, envState
<1>6. CASE EnvTimePasses
  BY <1>6 DEF EnvTimePasses, envState
<1>7. CASE
      Start \/ Stop \/ Reopen \/ OpenDevice \/ InputOpened \/ InputFailed
      \/ HealthCheckFailed \/ SetReady \/ CloseDevice \/ CloseDrivers \/ scan
      \/ scanReceived \/ nothingReceived \/ ScanDone \/ Update \/ updateFailures
      \/ TimePasses \/ UNCHANGED vars \/ (\E run \in BOOLEAN : RunDevice(run))
      \/ (\E on \in BOOLEAN : PowerUp(on))
  <2>1. UNCHANGED envState
    BY <1>7 DEF Start, Stop, Reopen, RunDevice, OpenDevice, InputOpened, InputFailed,
       HealthCheckFailed, SetReady, CloseDevice, CloseDrivers, scan, scanReceived,
       nothingReceived, ScanDone, PowerUp, Update, updateFailures, TimePasses, vars,
       envState
  <2> QED
    BY <2>1 DEF envState
<1> QED
  BY <1>1, <1>2, <1>3, <1>4, <1>5, <1>6, <1>7 DEF Next, Web, ThreadStep

(* The thread stays in one of its steps.                                   *)
LEMMA StepType == pc \in Steps /\ [Next]_vars => pc' \in Steps
<1> SUFFICES ASSUME pc \in Steps, [Next]_vars
             PROVE  pc' \in Steps
  OBVIOUS
<1> USE DEF Steps
<1>1. CASE OpenDevice
  BY <1>1 DEF OpenDevice, isOpen
<1>2. CASE InputOpened
  BY <1>2 DEF InputOpened, openOutDrv
<1>3. CASE InputFailed
  BY <1>3 DEF InputFailed, openOutDrv
<1>4. CASE HealthCheckFailed
  BY <1>4 DEF HealthCheckFailed, openOutDrv
<1>5. CASE SetReady
  BY <1>5 DEF SetReady
<1>6. CASE CloseDevice
  BY <1>6 DEF CloseDevice, isOpen
<1>7. CASE CloseDrivers
  BY <1>7 DEF CloseDrivers, closed
<1>8. CASE scan
  BY <1>8 DEF scan, isOpen
<1>9. CASE scanReceived
  BY <1>9 DEF scanReceived
<1>10. CASE envDataReceived
  BY <1>10 DEF envDataReceived, beginEnvScan
<1>11. CASE nothingReceived
  BY <1>11 DEF nothingReceived
<1>12. CASE ScanDone
  BY <1>12 DEF ScanDone
<1>13. CASE processEnv
  BY <1>13 DEF processEnv
<1>14. CASE EndEnvScan
  BY <1>14 DEF EndEnvScan
<1>15. CASE
      Start \/ Stop \/ Reopen \/ ScanEnv \/ Update \/ updateFailures \/ TimePasses
      \/ EnvTimePasses \/ UNCHANGED vars \/ (\E run \in BOOLEAN : RunDevice(run))
      \/ (\E outEnv \in BOOLEAN : setUseOutEnv(outEnv))
      \/ (\E on \in BOOLEAN : PowerUp(on))
  BY <1>15 DEF Start, Stop, Reopen, ScanEnv, RunDevice, setUseOutEnv, PowerUp, Update,
     updateFailures, TimePasses, EnvTimePasses, vars
<1> QED
  BY <1>1, <1>2, <1>3, <1>4, <1>5, <1>6, <1>7, <1>8, <1>9, <1>10, <1>11, <1>12, <1>13, <1>14, <1>15 DEF Next, Web, ThreadStep

(* What a device is made for does not change.                              *)
LEMMA ConfigType == source \in Sources /\ hasOut \in BOOLEAN /\ [Next]_vars
                        => source' \in Sources /\ hasOut' \in BOOLEAN
<1> SUFFICES ASSUME source \in Sources, hasOut \in BOOLEAN, [Next]_vars
             PROVE  source' \in Sources /\ hasOut' \in BOOLEAN
  OBVIOUS
<1> USE DEF config
<1>1. CASE
      Start \/ Stop \/ Reopen \/ ScanEnv \/ OpenDevice \/ InputOpened \/ InputFailed
      \/ HealthCheckFailed \/ SetReady \/ CloseDevice \/ CloseDrivers \/ scan
      \/ scanReceived \/ envDataReceived \/ nothingReceived \/ ScanDone \/ processEnv
      \/ EndEnvScan \/ Update \/ updateFailures \/ TimePasses \/ EnvTimePasses
      \/ UNCHANGED vars \/ (\E run \in BOOLEAN : RunDevice(run))
      \/ (\E outEnv \in BOOLEAN : setUseOutEnv(outEnv))
      \/ (\E on \in BOOLEAN : PowerUp(on))
  BY <1>1 DEF Start, Stop, Reopen, ScanEnv, RunDevice, setUseOutEnv, OpenDevice,
     InputOpened, InputFailed, HealthCheckFailed, SetReady, CloseDevice, CloseDrivers,
     scan, scanReceived, envDataReceived, nothingReceived, ScanDone, processEnv,
     EndEnvScan, PowerUp, Update, updateFailures, TimePasses, EnvTimePasses, vars
<1> QED
  BY <1>1 DEF Next, Web, ThreadStep

(* Every step keeps the types.                                             *)
LEMMA TypeOKStep == TypeOK /\ [Next]_vars => TypeOK'
  BY RequestType, DriversType, StatusType, FailuresType, EnvType, StepType, ConfigType DEF TypeOK

(* Every step keeps the drivers and the thread together.                   *)
LEMMA DriversStep == DriversFollow /\ [Next]_vars => DriversFollow'
<1> SUFFICES ASSUME DriversFollow, [Next]_vars
             PROVE  DriversFollow'
  OBVIOUS
<1> USE DEF DriversFollow, DriverInUse, isOpen
<1>1. CASE OpenDevice
  BY <1>1 DEF OpenDevice, drivers, status, config
<1>2. CASE InputOpened
  BY <1>2 DEF InputOpened, openOutDrv, drivers, status, config
<1>3. CASE InputFailed
  BY <1>3 DEF InputFailed, openOutDrv, drivers, status, config
<1>4. CASE HealthCheckFailed
  BY <1>4 DEF HealthCheckFailed, openOutDrv, drivers, status, config
<1>5. CASE SetReady
  BY <1>5 DEF SetReady, drivers, status, config
<1>6. CASE CloseDevice
  BY <1>6 DEF CloseDevice, drivers, status, config
<1>7. CASE CloseDrivers
  BY <1>7 DEF CloseDrivers, closed, drivers, status, config
<1>8. CASE scan
  BY <1>8 DEF scan, drivers, status, config
<1>9. CASE scanReceived
  BY <1>9 DEF scanReceived, drivers, status, config
<1>10. CASE envDataReceived
  BY <1>10 DEF envDataReceived, beginEnvScan, drivers, status, config
<1>11. CASE nothingReceived
  BY <1>11 DEF nothingReceived, drivers, status, config
<1>12. CASE ScanDone
  BY <1>12 DEF ScanDone, drivers, status, config
<1>13. CASE processEnv
  BY <1>13 DEF processEnv, drivers, status, config
<1>14. CASE EndEnvScan
  BY <1>14 DEF EndEnvScan, drivers, status, config
<1>15. CASE Stop
  BY <1>15 DEF Stop, close, drivers, status, config
<1>16. CASE Reopen
  BY <1>16 DEF Reopen, close, drivers, status, config
<1>17. CASE \E run \in BOOLEAN : RunDevice(run)
  BY <1>17 DEF RunDevice, open, close, drivers, status, config
<1>18. CASE \E on \in BOOLEAN : PowerUp(on)
  BY <1>18 DEF PowerUp, drivers, status, config
<1>19. CASE
      Start \/ ScanEnv \/ Update \/ updateFailures \/ TimePasses \/ EnvTimePasses
      \/ UNCHANGED vars \/ (\E outEnv \in BOOLEAN : setUseOutEnv(outEnv))
  BY <1>19 DEF Start, ScanEnv, setUseOutEnv, Update, updateFailures, TimePasses,
     EnvTimePasses, vars, drivers, status, config
<1> QED
  BY <1>1, <1>2, <1>3, <1>4, <1>5, <1>6, <1>7, <1>8, <1>9, <1>10, <1>11, <1>12, <1>13, <1>14, <1>15, <1>16, <1>17, <1>18, <1>19 DEF Next, Web, ThreadStep

(* Every step that keeps a failure has reported it.                        *)
LEMMA FailureStep == FailureIsReported /\ [Next]_vars => FailureIsReported'
<1> SUFFICES ASSUME FailureIsReported, [Next]_vars
             PROVE  FailureIsReported'
  OBVIOUS
<1> USE DEF FailureIsReported, getBool
<1>1. CASE Stop
  BY <1>1 DEF Stop, close, failures
<1>2. CASE Reopen
  BY <1>2 DEF Reopen, close, failures
<1>3. CASE updateFailures
  BY <1>3 DEF updateFailures, failures
<1>4. CASE
      Start \/ ScanEnv \/ OpenDevice \/ InputOpened \/ InputFailed
      \/ HealthCheckFailed \/ SetReady \/ CloseDevice \/ CloseDrivers \/ scan
      \/ scanReceived \/ envDataReceived \/ nothingReceived \/ ScanDone \/ processEnv
      \/ EndEnvScan \/ Update \/ TimePasses \/ EnvTimePasses \/ UNCHANGED vars
      \/ (\E run \in BOOLEAN : RunDevice(run))
      \/ (\E outEnv \in BOOLEAN : setUseOutEnv(outEnv))
      \/ (\E on \in BOOLEAN : PowerUp(on))
  <2>1. UNCHANGED failures
    BY <1>4 DEF Start, ScanEnv, RunDevice, setUseOutEnv, OpenDevice, InputOpened,
       InputFailed, HealthCheckFailed, SetReady, CloseDevice, CloseDrivers, scan,
       scanReceived, envDataReceived, nothingReceived, ScanDone, processEnv,
       EndEnvScan, PowerUp, Update, TimePasses, EnvTimePasses, vars, failures
  <2> QED
    BY <2>1 DEF failures
<1> QED
  BY <1>1, <1>2, <1>3, <1>4 DEF Next, Web, ThreadStep

(* Every step keeps what a scan of the environment has to restore.         *)
LEMMA ScanStep == ScanFollows /\ [Next]_vars => ScanFollows'
<1> SUFFICES ASSUME ScanFollows, [Next]_vars
             PROVE  ScanFollows'
  OBVIOUS
<1> USE DEF ScanFollows, EnvScanRestores
<1>1. CASE ScanEnv
  BY <1>1 DEF ScanEnv, beginEnvScan, isOpen, envState
<1>2. CASE \E outEnv \in BOOLEAN : setUseOutEnv(outEnv)
  <2>1. PICK outEnv \in BOOLEAN : setUseOutEnv(outEnv)
    BY <1>2
  <2>2. /\ pc' = pc /\ isEnvScanning' = isEnvScanning /\ envProcessed' = envProcessed
        /\ useOutEnv' = wanted' /\ useOutEnvBak' = useOutEnvBak
    BY <2>1 DEF setUseOutEnv
  <2>3. CASE isEnvScanning
    <3>1. overlap'
      BY <2>1, <2>3 DEF setUseOutEnv
    <3> QED
      BY <2>2, <2>3, <3>1
  <2>4. CASE ~isEnvScanning
    <3>1. overlap' => overlap
      BY <2>1, <2>4 DEF setUseOutEnv
    <3>2. overlap => overlap'
      BY <2>1 DEF setUseOutEnv
    <3> QED
      BY <2>2, <2>4, <3>1, <3>2
  <2> QED
    BY <2>3, <2>4
<1>3. CASE EnvTimePasses
  BY <1>3 DEF EnvTimePasses, envState
<1>4. CASE OpenDevice
  BY <1>4 DEF OpenDevice, isOpen, envState
<1>5. CASE InputOpened
  BY <1>5 DEF InputOpened, openOutDrv, envState
<1>6. CASE InputFailed
  BY <1>6 DEF InputFailed, openOutDrv, envState
<1>7. CASE HealthCheckFailed
  BY <1>7 DEF HealthCheckFailed, openOutDrv, envState
<1>8. CASE SetReady
  BY <1>8 DEF SetReady, envState
<1>9. CASE CloseDevice
  BY <1>9 DEF CloseDevice, isOpen, envState
<1>10. CASE CloseDrivers
  BY <1>10 DEF CloseDrivers, closed, envState
<1>11. CASE scan
  BY <1>11 DEF scan, isOpen, envState
<1>12. CASE scanReceived
  BY <1>12 DEF scanReceived, envState
<1>13. CASE envDataReceived
  BY <1>13 DEF envDataReceived, beginEnvScan, envState
<1>14. CASE nothingReceived
  BY <1>14 DEF nothingReceived, envState
<1>15. CASE ScanDone
  BY <1>15 DEF ScanDone, envState
<1>16. CASE processEnv
  BY <1>16 DEF processEnv, envState
<1>17. CASE EndEnvScan
  BY <1>17 DEF EndEnvScan, envState
<1>18. CASE
      Start \/ Stop \/ Reopen \/ Update \/ updateFailures \/ TimePasses
      \/ UNCHANGED vars \/ (\E run \in BOOLEAN : RunDevice(run))
      \/ (\E on \in BOOLEAN : PowerUp(on))
  BY <1>18 DEF Start, Stop, Reopen, RunDevice, PowerUp, Update, updateFailures,
     TimePasses, vars, envState
<1> QED
  BY <1>1, <1>2, <1>3, <1>4, <1>5, <1>6, <1>7, <1>8, <1>9, <1>10, <1>11, <1>12, <1>13, <1>14, <1>15, <1>16, <1>17, <1>18 DEF Next, Web, ThreadStep

(* The invariant holds in every reachable state.                           *)
LEMMA Invariance == Spec => []IInv
<1>1. IInv /\ [Next]_vars => IInv'
  BY TypeOKStep, DriversStep, FailureStep, ScanStep DEF IInv
<1> QED
  BY <1>1, InitIInv, PTL DEF Spec

(* The flags of a device keep their types.                                 *)
THEOREM DeviceTypeCorrect == Spec => []TypeOK
<1>1. IInv => TypeOK
  BY DEF IInv
<1> QED
  BY <1>1, Invariance, PTL

(* Whatever the web API asks for and when: the thread waits for samples of *)
(* an open driver only, and a ready device has its drivers (openDevice,    *)
(* closeDevice, scan).                                                     *)
THEOREM DriverInUseCorrect == Spec => []DriverInUse
<1>1. IInv => DriverInUse
  BY DEF IInv, DriversFollow
<1> QED
  BY <1>1, Invariance, PTL

(* A failure that is kept for a device has been reported, however often it *)
(* was stopped, started and reopened (updateFailures, reopen, stop).       *)
THEOREM FailureIsReportedCorrect == Spec => []FailureIsReported
<1>1. IInv => FailureIsReported
  BY DEF IInv
<1> QED
  BY <1>1, Invariance, PTL

(* Scans of the environment that do not overlap give back the setting of   *)
(* useOutEnv and leave a processed environment, wherever calls of the web  *)
(* API meet the thread (scanEnv, ThreadFunction, scan).                    *)
THEOREM EnvScanRestoresCorrect == Spec => []EnvScanRestores
<1>1. IInv => EnvScanRestores
  BY DEF IInv, ScanFollows
<1> QED
  BY <1>1, Invariance, PTL
=============================================================================
