---------------------------- MODULE VirtualLink ----------------------------
(***************************************************************************)
(* How the two ends of a virtual link find each other: the node, which has *)
(* a sensor and feeds its LidarVirtualDriver outDrv, and the server, which *)
(* reads from its inDrv.  One of them is bound to a port and knows nobody, *)
(* the other is connected to it.  An end that hears from an address other  *)
(* than before sends "connect"; a node that is told so tells the type of   *)
(* its sensor; the server tells the node whether to leave out the samples  *)
(* of the environment, and tells it again when the node's address changes. *)
(*                                                                         *)
(* Either process may restart.  Restarted, the connected one has another   *)
(* address, the bound one has the same.  Commands are neither lost nor     *)
(* overtaken otherwise: the code repeats none of them.  The scans' data,   *)
(* and what "connect" does to it, are in ScanTransport.  Motor and power   *)
(* states are left out: sendMotorState() returns before it sends and       *)
(* nothing calls setUSBPower().                                            *)
(***************************************************************************)
EXTENDS Integers, Sequences

CONSTANTS
  Bounds,        \* ends that may be the bound one
  MaxSessions,   \* bound on the incarnations of either process
  MaxSwitches    \* bound on opening, closing, asking and changes of useOutEnv

ASSUME LinkAssumption ==
  /\ Bounds \subseteq {"server", "node"}
  /\ MaxSessions \in Nat \ {0} /\ MaxSwitches \in Nat

VARIABLES
  bound,              \* the bound end; never changes
  session,            \* incarnation of the node
  nodeOpen,           \* outDrv->isOpen
  nodeRemote,         \* its udpSocket.remote_addr
  nodeLast,           \* its lastRemoteAddr
  nodeQueue,          \* its cmdQueue
  deviceStatusSent,   \* of outDrv
  nodeOutEnv,         \* useOutEnv of the node's device
  serverSession,      \* incarnation of the server
  serverOpen, serverRemote, serverLast, serverQueue,  \* the same of inDrv
  scanReceived,       \* a scan can be grabbed
  inVirtHost,         \* inVirtHostName and inVirtPort of the server's device
  knownType,          \* the node whose type the server took over last, or 0
  useOutEnv,          \* of the server's device
  envOutDirty,        \* it has to be sent
  toNode, toServer,   \* the network
  switches            \* opened, closed, changed so far

node    == <<session, nodeOpen, nodeRemote, nodeLast, nodeQueue, deviceStatusSent, nodeOutEnv>>
socket  == <<serverRemote, serverLast, serverQueue, scanReceived>>
device  == <<inVirtHost, knownType, useOutEnv, envOutDirty>>
server  == <<serverSession, serverOpen, socket, device>>
network == <<toNode, toServer>>
vars    == <<bound, node, server, network, switches>>

(* Addresses: that of the bound end is always the same.  0 is none.        *)
nodeAddr   == IF bound = "node" THEN 1 ELSE session
serverAddr == IF bound = "server" THEN 1 ELSE serverSession

NodeCmd   == [kind : {"connect", "outEnvOn", "outEnvOff"}, from : Nat]
ServerCmd == [kind : {"connect", "deviceType"}, from : Nat, session : 1 .. MaxSessions]
Scan      == [kind : {"scan"}, from : Nat, session : 1 .. MaxSessions]

TypeOK ==
  /\ bound \in Bounds
  /\ session \in 1 .. MaxSessions /\ serverSession \in 1 .. MaxSessions
  /\ nodeOpen \in BOOLEAN /\ serverOpen \in BOOLEAN
  /\ nodeRemote \in Nat /\ nodeLast \in Nat /\ serverRemote \in Nat /\ serverLast \in Nat
  /\ nodeQueue \in Seq(NodeCmd) /\ toNode \in Seq(NodeCmd)
  /\ serverQueue \in Seq(ServerCmd) /\ toServer \in Seq(ServerCmd \cup Scan)
  /\ deviceStatusSent \in BOOLEAN /\ nodeOutEnv \in BOOLEAN
  /\ scanReceived \in BOOLEAN /\ useOutEnv \in BOOLEAN /\ envOutDirty \in BOOLEAN
  /\ inVirtHost \in Nat /\ knownType \in 0 .. MaxSessions
  /\ switches \in 0 .. MaxSwitches

Init ==
  /\ bound \in Bounds
  /\ session = 1 /\ nodeOpen = TRUE /\ nodeQueue = <<>>
  /\ nodeRemote = (IF bound = "node" THEN 0 ELSE 1) /\ nodeLast = 0
  /\ deviceStatusSent = FALSE /\ nodeOutEnv = TRUE
  /\ serverSession = 1 /\ serverOpen = TRUE /\ serverQueue = <<>>
  /\ serverRemote = (IF bound = "server" THEN 0 ELSE 1) /\ serverLast = 0
  /\ scanReceived = FALSE /\ inVirtHost = 0 /\ knownType = 0
  /\ useOutEnv = TRUE /\ envOutDirty = TRUE
  /\ toNode = <<>> /\ toServer = <<>> /\ switches = 0

-----------------------------------------------------------------------------
(* The bound on what users do, and on asking for somebody.                 *)
switch == switches < MaxSwitches /\ switches' = switches + 1

(* What both ends do with a datagram.                                      *)
has(q, kind) == \E i \in DOMAIN q : q[i].kind = kind
isLast(q, i, kinds) ==
  q[i].kind \in kinds /\ \A j \in i + 1 .. Len(q) : q[j].kind \notin kinds

(* Only another address than before is answered by a "connect".  Itself,   *)
(* "connect" is not answered: sendConnectAcknowledge() sends nothing.      *)
\* A mutant: only the first datagram is answered.
answeredOnce(p, last) == p.kind # "connect" /\ last = 0
answered(p, last) == p.kind # "connect" /\ p.from # last

(* What is sent to an address nobody has any more is gone.                 *)
sentToNode(kind, addr) ==
  IF addr = nodeAddr THEN Append(toNode, [kind |-> kind, from |-> serverAddr]) ELSE toNode

sentToServer(kind, addr) ==
  IF addr = serverAddr
  THEN Append(toServer, [kind |-> kind, from |-> nodeAddr, session |-> session])
  ELSE toServer

-----------------------------------------------------------------------------
(* The node.                                                               *)

(* update() receives whether the device is open or not.                    *)
\* A mutant: "connect" leaves deviceStatusSent alone.
NodeReceiveKeeping ==
  /\ toNode # <<>>
  /\ LET p == Head(toNode) IN
        /\ nodeRemote' = p.from /\ nodeLast' = p.from
        /\ nodeQueue' = Append(nodeQueue, p)
        /\ UNCHANGED deviceStatusSent
        /\ toServer' = IF answered(p, nodeLast) THEN sentToServer("connect", p.from) ELSE toServer
  /\ toNode' = Tail(toNode)
  /\ UNCHANGED <<bound, session, nodeOpen, nodeOutEnv, server, switches>>
NodeReceive ==
  /\ toNode # <<>>
  /\ LET p == Head(toNode) IN
        /\ nodeRemote' = p.from /\ nodeLast' = p.from
        /\ nodeQueue' = Append(nodeQueue, p)
        /\ deviceStatusSent' = (deviceStatusSent /\ p.kind # "connect" /\ p.from = nodeLast)
        /\ toServer' = IF answered(p, nodeLast) THEN sentToServer("connect", p.from) ELSE toServer
  /\ toNode' = Tail(toNode)
  /\ UNCHANGED <<bound, session, nodeOpen, nodeOutEnv, server, switches>>

(* The thread of an open device works the queue off.                       *)
EnvKinds == {"outEnvOn", "outEnvOff"}

NodeCommands ==
  /\ nodeOpen /\ nodeQueue # <<>>
  /\ nodeQueue' = <<>>
  /\ \/ (\A kind \in EnvKinds : ~has(nodeQueue, kind)) /\ UNCHANGED nodeOutEnv
     \/ \E i \in DOMAIN nodeQueue :
           isLast(nodeQueue, i, EnvKinds) /\ nodeOutEnv' = (nodeQueue[i].kind = "outEnvOn")
  /\ IF has(nodeQueue, "connect") /\ ~deviceStatusSent
     THEN deviceStatusSent' = TRUE /\ toServer' = sentToServer("deviceType", nodeRemote)
     ELSE UNCHANGED <<deviceStatusSent, toServer>>
  /\ UNCHANGED <<bound, session, nodeOpen, nodeRemote, nodeLast, server, toNode, switches>>

(* The bound: one scan is under way at a time.                             *)
SendScan ==
  /\ nodeOpen /\ nodeRemote # 0 /\ ~has(toServer, "scan")
  /\ toServer' = sentToServer("scan", nodeRemote)
  /\ UNCHANGED <<bound, node, server, toNode, switches>>

(* A closed device that is bound and hears nothing sends "connect" every   *)
(* second; the first time is determined by times nobody has set.           *)
NodeAsks ==
  /\ bound = "node" /\ ~nodeOpen /\ nodeRemote # 0 /\ toNode = <<>>
  /\ switch
  /\ nodeLast' = nodeRemote /\ deviceStatusSent' = FALSE
  /\ toServer' = sentToServer("connect", nodeRemote)
  /\ UNCHANGED <<bound, session, nodeOpen, nodeRemote, nodeQueue, nodeOutEnv, server, toNode>>

-----------------------------------------------------------------------------
(* The server.                                                             *)

\* A mutant: scans are put into the queue of commands, too.
ServerReceiveAll ==
  /\ toServer # <<>>
  /\ LET p == Head(toServer) IN
        /\ serverRemote' = p.from /\ serverLast' = p.from
        /\ serverQueue' = Append(serverQueue, p)
        /\ scanReceived' = (scanReceived \/ p.kind = "scan")
        /\ toNode' = IF answered(p, serverLast) THEN sentToNode("connect", p.from) ELSE toNode
  /\ toServer' = Tail(toServer)
  /\ UNCHANGED <<bound, node, serverSession, serverOpen, device, switches>>
ServerReceive ==
  /\ toServer # <<>>
  /\ LET p == Head(toServer) IN
        /\ serverRemote' = p.from /\ serverLast' = p.from
        /\ serverQueue' = IF p.kind = "scan" THEN serverQueue ELSE Append(serverQueue, p)
        /\ scanReceived' = (scanReceived \/ p.kind = "scan")
        /\ toNode' = IF answered(p, serverLast) THEN sentToNode("connect", p.from) ELSE toNode
  /\ toServer' = Tail(toServer)
  /\ UNCHANGED <<bound, node, serverSession, serverOpen, device, switches>>

(* Another host or port is noted, and told about the environment.          *)
\* A mutant: it is noted only.
checkInVirtHostNameOnly(changed) ==
  inVirtHost' = serverRemote /\ envOutDirty' = (envOutDirty \/ changed)
checkInVirtHostName(changed) ==
  /\ inVirtHost' = serverRemote
  /\ envOutDirty' = (envOutDirty \/ changed \/ inVirtHost # serverRemote)

(* A type that is taken over changes a valid environment.                  *)
ServerCommands ==
  /\ serverOpen /\ serverQueue # <<>>
  /\ serverQueue' = <<>>
  /\ \/ ~has(serverQueue, "deviceType") /\ UNCHANGED knownType
     \/ \E i \in DOMAIN serverQueue :
           isLast(serverQueue, i, {"deviceType"}) /\ knownType' = serverQueue[i].session
  /\ \E envValid \in BOOLEAN :
        checkInVirtHostName(has(serverQueue, "connect") \/ (envValid /\ has(serverQueue, "deviceType")))
  /\ UNCHANGED <<bound, node, serverSession, serverOpen, serverRemote, serverLast, scanReceived,
                 useOutEnv, network, switches>>

GrabScan ==
  /\ serverOpen /\ scanReceived
  /\ scanReceived' = FALSE
  /\ checkInVirtHostName(FALSE)
  /\ UNCHANGED <<bound, node, serverSession, serverOpen, serverRemote, serverLast, serverQueue,
                 knownType, useOutEnv, network, switches>>

(* Not dirty any more whether there is somebody to send it to or not.      *)
sendOutEnv ==
  /\ serverOpen /\ envOutDirty
  /\ envOutDirty' = FALSE
  /\ toNode' = sentToNode(IF useOutEnv THEN "outEnvOn" ELSE "outEnvOff", serverRemote)
  /\ UNCHANGED <<bound, node, serverSession, serverOpen, socket, inVirtHost, knownType, useOutEnv,
                 toServer, switches>>

ServerAsks ==
  /\ bound = "server" /\ ~serverOpen /\ serverRemote # 0 /\ toServer = <<>>
  /\ switch
  /\ serverLast' = serverRemote
  /\ toNode' = sentToNode("connect", serverRemote)
  /\ UNCHANGED <<bound, node, serverSession, serverOpen, serverRemote, serverQueue, scanReceived,
                 device, toServer>>

-----------------------------------------------------------------------------
(* Users and restarts.                                                     *)
SwitchNode ==
  /\ switch /\ nodeOpen' = ~nodeOpen
  /\ UNCHANGED <<bound, session, nodeRemote, nodeLast, nodeQueue, deviceStatusSent, nodeOutEnv,
                 server, network>>

SwitchServer ==
  /\ switch /\ serverOpen' = ~serverOpen
  /\ UNCHANGED <<bound, node, serverSession, socket, device, network>>

setUseOutEnv ==
  /\ switch /\ useOutEnv' = ~useOutEnv /\ envOutDirty' = TRUE
  /\ UNCHANGED <<bound, node, serverSession, serverOpen, socket, inVirtHost, knownType, network>>

(* Datagrams for the connected end are lost with its address, those for    *)
(* the bound one as far as they had arrived.                               *)
survivors(q, end) ==
  IF bound = end THEN {SubSeq(q, k, Len(q)) : k \in 1 .. Len(q) + 1} ELSE {<<>>}

RestartNode ==
  /\ session < MaxSessions /\ session' = session + 1
  /\ nodeOpen' = TRUE /\ nodeQueue' = <<>>
  /\ nodeRemote' = (IF bound = "node" THEN 0 ELSE serverAddr) /\ nodeLast' = 0
  /\ deviceStatusSent' = FALSE /\ nodeOutEnv' = TRUE
  /\ toNode' \in survivors(toNode, "node")
  /\ UNCHANGED <<bound, server, toServer, switches>>

RestartServer ==
  /\ serverSession < MaxSessions /\ serverSession' = serverSession + 1
  /\ serverOpen' = TRUE /\ serverQueue' = <<>>
  /\ serverRemote' = (IF bound = "server" THEN 0 ELSE nodeAddr) /\ serverLast' = 0
  /\ scanReceived' = FALSE /\ inVirtHost' = 0 /\ knownType' = 0
  /\ useOutEnv' = TRUE /\ envOutDirty' = TRUE
  /\ toServer' \in survivors(toServer, "server")
  /\ UNCHANGED <<bound, node, toNode, switches>>

Threads ==
  \/ NodeReceive \/ NodeCommands \/ SendScan
  \/ ServerReceive \/ ServerCommands \/ GrabScan \/ sendOutEnv

Next ==
  \/ Threads \/ NodeAsks \/ ServerAsks
  \/ SwitchNode \/ SwitchServer \/ setUseOutEnv
  \/ RestartNode \/ RestartServer

Spec == Init /\ [][Next]_vars

(* The threads of both devices run; a closed device that hears nothing     *)
(* need not ask.                                                           *)
FairSpec ==
  /\ Spec
  /\ WF_vars(NodeReceive) /\ WF_vars(NodeCommands) /\ WF_vars(SendScan)
  /\ WF_vars(ServerReceive) /\ WF_vars(ServerCommands) /\ WF_vars(GrabScan) /\ WF_vars(sendOutEnv)

-----------------------------------------------------------------------------
(* A bound server that has heard of the node that runs has asked it, or    *)
(* the type of the node's sensor is under way, or it is known: a restarted *)
(* node is never taken for one that was asked already (update()).          *)
typeOf(q) == \E i \in DOMAIN q : q[i].kind = "deviceType" /\ q[i].session = session

AskedOrKnown ==
  bound = "server" /\ serverLast = session =>
    \/ has(toNode, "connect") \/ has(nodeQueue, "connect")
    \/ typeOf(toServer) \/ typeOf(serverQueue)
    \/ knownType = session

(* When both devices are open for good a bound server knows the type of    *)
(* the sensor of the node that runs, however often both were restarted.    *)
bothOpen == nodeOpen /\ serverOpen

TypeLearned ==
  (<>[]bothOpen) => <>[](bound = "server" => knownType = session)

(* Then the node does with the samples of the environment what was last     *)
(* set at the server.  A bound node that restarts is not told, as it knows *)
(* the server no more.                                                     *)
EnvFollows ==
  (<>[]bothOpen) => <>[](bound = "server" \/ session = 1 => nodeOutEnv = useOutEnv)

(* The documentation lets either end be the server, the bound end.  Then   *)
(* the scans of a node keep arriving while both devices are open.          *)
ScansArrive ==
  (<>[]bothOpen) => []<>scanReceived
=============================================================================
