------------------------- MODULE VirtualLinkProofs -------------------------
(***************************************************************************)
(* Proofs about VirtualLink for any number of restarts, openings, closings *)
(* and changes: its types, and that a bound server asks every node for its *)
(* type.                                                                   *)
(***************************************************************************)
EXTENDS VirtualLink, TLAPS

(* What Tail, Append and a suffix are, as functions.                       *)
LEMMA Tailed ==
  ASSUME NEW S, NEW q \in Seq(S), q # <<>>
  PROVE  /\ Tail(q) \in Seq(S) /\ Head(q) \in S /\ Head(q) = q[1]
         /\ Len(q) \in Nat \ {0} /\ DOMAIN q = 1 .. Len(q) /\ DOMAIN Tail(q) = 1 .. Len(q) - 1
         /\ \A i \in 1 .. Len(q) - 1 : Tail(q)[i] = q[i + 1]
  OBVIOUS

LEMMA Appended ==
  ASSUME NEW S, NEW q \in Seq(S), NEW e \in S
  PROVE  /\ Append(q, e) \in Seq(S)
         /\ Len(q) \in Nat /\ DOMAIN q = 1 .. Len(q) /\ DOMAIN Append(q, e) = 1 .. Len(q) + 1
         /\ \A i \in 1 .. Len(q) : Append(q, e)[i] = q[i]
         /\ Append(q, e)[Len(q) + 1] = e
         /\ Append(q, e) # <<>> /\ (q # <<>> => Head(Append(q, e)) = Head(q))
         /\ (q = <<>> => Head(Append(q, e)) = e)
  OBVIOUS

LEMMA Suffixed ==
  ASSUME NEW S, NEW q \in Seq(S), NEW k \in 1 .. Len(q) + 1
  PROVE  /\ SubSeq(q, k, Len(q)) \in Seq(S)
         /\ Len(q) \in Nat /\ DOMAIN q = 1 .. Len(q)
         /\ DOMAIN SubSeq(q, k, Len(q)) = 1 .. Len(q) - k + 1
         /\ \A i \in 1 .. Len(q) - k + 1 : SubSeq(q, k, Len(q))[i] = q[i + k - 1]
  OBVIOUS

LEMMA SurvivorsTyped ==
  ASSUME NEW S, NEW q \in Seq(S), NEW end, NEW rest \in survivors(q, end)
  PROVE  rest \in Seq(S)
<1>1. CASE bound = end
  <2>1. PICK k \in 1 .. Len(q) + 1 : rest = SubSeq(q, k, Len(q))
    BY <1>1 DEF survivors
  <2> QED
    BY <2>1, Suffixed
<1>2. CASE bound # end
  BY <1>2 DEF survivors
<1> QED
  BY <1>1, <1>2

(* What is sent is typed.                                                  *)
LEMMA SentTyped ==
  ASSUME TypeOK
  PROVE  /\ \A kind \in {"connect", "outEnvOn", "outEnvOff"}, addr \in Nat :
               sentToNode(kind, addr) \in Seq(NodeCmd)
         /\ \A kind \in {"connect", "deviceType", "scan"}, addr \in Nat :
               sentToServer(kind, addr) \in Seq(ServerCmd \cup Scan)
<1>1. serverAddr \in Nat /\ nodeAddr \in Nat /\ session \in 1 .. MaxSessions
  BY LinkAssumption DEF TypeOK, serverAddr, nodeAddr
<1>2. ASSUME NEW kind \in {"connect", "outEnvOn", "outEnvOff"}, NEW addr \in Nat
      PROVE  sentToNode(kind, addr) \in Seq(NodeCmd)
  <2>1. [kind |-> kind, from |-> serverAddr] \in NodeCmd
    BY <1>1 DEF NodeCmd
  <2> QED
    BY <2>1, Appended DEF sentToNode, TypeOK
<1>3. ASSUME NEW kind \in {"connect", "deviceType", "scan"}, NEW addr \in Nat
      PROVE  sentToServer(kind, addr) \in Seq(ServerCmd \cup Scan)
  <2>1. [kind |-> kind, from |-> nodeAddr, session |-> session] \in ServerCmd \cup Scan
    BY <1>1 DEF ServerCmd, Scan
  <2> QED
    BY <2>1, Appended DEF sentToServer, TypeOK
<1> QED
  BY <1>2, <1>3

LEMMA TypeInit == Init => TypeOK
<1> SUFFICES ASSUME Init
             PROVE  TypeOK
  OBVIOUS
<1> USE LinkAssumption DEF Init
<1>1. session \in 1 .. MaxSessions /\ serverSession \in 1 .. MaxSessions
      /\ inVirtHost \in Nat /\ knownType \in 0 .. MaxSessions /\ switches \in 0 .. MaxSwitches
  OBVIOUS
<1>2. nodeRemote \in Nat /\ nodeLast \in Nat /\ serverRemote \in Nat /\ serverLast \in Nat
  OBVIOUS
<1>3. /\ nodeOpen \in BOOLEAN /\ serverOpen \in BOOLEAN
      /\ deviceStatusSent \in BOOLEAN /\ nodeOutEnv \in BOOLEAN
      /\ scanReceived \in BOOLEAN /\ useOutEnv \in BOOLEAN /\ envOutDirty \in BOOLEAN
  OBVIOUS
<1>4. /\ nodeQueue \in Seq(NodeCmd) /\ toNode \in Seq(NodeCmd)
      /\ serverQueue \in Seq(ServerCmd) /\ toServer \in Seq(ServerCmd \cup Scan)
  OBVIOUS
<1> QED
  BY <1>1, <1>2, <1>3, <1>4 DEF TypeOK

(* Every step keeps the types.                                             *)
LEMMA TypeStep == TypeOK /\ [Next]_vars => TypeOK'
<1> SUFFICES ASSUME TypeOK, [Next]_vars
             PROVE  TypeOK'
  OBVIOUS
<1> USE DEF node, server, socket, device, network
<1>0. /\ bound \in Bounds /\ nodeQueue \in Seq(NodeCmd) /\ toNode \in Seq(NodeCmd)
      /\ serverQueue \in Seq(ServerCmd) /\ toServer \in Seq(ServerCmd \cup Scan)
      /\ serverAddr \in Nat /\ nodeAddr \in Nat
  BY LinkAssumption DEF TypeOK, serverAddr, nodeAddr
<1>1. CASE NodeReceive
  <2>0. toNode # <<>>
    BY <1>1 DEF NodeReceive
  <2>1. Head(toNode) \in NodeCmd /\ Head(toNode).from \in Nat /\ Tail(toNode) \in Seq(NodeCmd)
    <3>1. Head(toNode) \in NodeCmd /\ Tail(toNode) \in Seq(NodeCmd)
      BY <1>0, <2>0, Tailed
    <3> QED
      BY <3>1 DEF NodeCmd
  <2>2. nodeQueue' \in Seq(NodeCmd)
    BY <1>0, <1>1, <2>1, Appended DEF NodeReceive
  <2>3. toServer' \in Seq(ServerCmd \cup Scan)
    BY <1>0, <1>1, <2>1, SentTyped DEF NodeReceive
  <2>4. deviceStatusSent' \in BOOLEAN
    BY <1>1 DEF NodeReceive
  <2> QED
    BY <1>1, <2>1, <2>2, <2>3, <2>4 DEF NodeReceive, TypeOK
<1>2. CASE NodeCommands
  <2>1. toServer' \in Seq(ServerCmd \cup Scan)
    BY <1>0, <1>2, SentTyped DEF NodeCommands, TypeOK
  <2>2. deviceStatusSent' \in BOOLEAN
    BY <1>2 DEF NodeCommands, TypeOK
  <2>3. nodeOutEnv' \in BOOLEAN
    BY <1>2 DEF NodeCommands, TypeOK
  <2>4. nodeQueue' \in Seq(NodeCmd)
    BY <1>2 DEF NodeCommands
  <2> QED
    BY <1>2, <2>1, <2>2, <2>3, <2>4 DEF NodeCommands, TypeOK
<1>3. CASE SendScan
  <2>1. toServer' \in Seq(ServerCmd \cup Scan)
    BY <1>3, SentTyped DEF SendScan, TypeOK
  <2> QED
    BY <1>3, <2>1 DEF SendScan, TypeOK
<1>4. CASE NodeAsks
  <2>1. toServer' \in Seq(ServerCmd \cup Scan)
    BY <1>4, SentTyped DEF NodeAsks, TypeOK
  <2>2. switches' \in 0 .. MaxSwitches
    BY <1>4, LinkAssumption DEF NodeAsks, switch, TypeOK
  <2> QED
    BY <1>4, <2>1, <2>2 DEF NodeAsks, TypeOK
<1>5. CASE ServerReceive
  <2> DEFINE p == Head(toServer)
  <2>1. p \in ServerCmd \cup Scan /\ Tail(toServer) \in Seq(ServerCmd \cup Scan)
    BY <1>0, <1>5, Tailed DEF ServerReceive
  <2>2. p.from \in Nat /\ (p.kind # "scan" => p \in ServerCmd)
    BY <2>1 DEF ServerCmd, Scan
  <2>3. serverQueue' \in Seq(ServerCmd)
    BY <1>0, <1>5, <2>2, Appended DEF ServerReceive
  <2>4. toNode' \in Seq(NodeCmd)
    BY <1>0, <1>5, <2>2, SentTyped DEF ServerReceive
  <2>5. scanReceived' \in BOOLEAN
    BY <1>5 DEF ServerReceive
  <2>6. serverRemote' \in Nat /\ serverLast' \in Nat /\ toServer' \in Seq(ServerCmd \cup Scan)
    BY <1>5, <2>1, <2>2 DEF ServerReceive
  <2> QED
    BY <1>5, <2>3, <2>4, <2>5, <2>6 DEF ServerReceive, TypeOK
<1>6. CASE ServerCommands
  <2>1. knownType' \in 0 .. MaxSessions
    <3>1. \A i \in DOMAIN serverQueue : serverQueue[i].session \in 1 .. MaxSessions
      <4>1. \A i \in DOMAIN serverQueue : serverQueue[i] \in ServerCmd
        BY <1>0
      <4> QED
        BY <4>1 DEF ServerCmd
    <3> QED
      BY <1>6, <3>1 DEF ServerCommands, TypeOK
  <2>2. inVirtHost' \in Nat
    BY <1>6 DEF ServerCommands, checkInVirtHostName, TypeOK
  <2>3. envOutDirty' \in BOOLEAN
    BY <1>6 DEF ServerCommands, checkInVirtHostName
  <2>4. serverQueue' \in Seq(ServerCmd)
    BY <1>6 DEF ServerCommands
  <2> QED
    BY <1>6, <2>1, <2>2, <2>3, <2>4 DEF ServerCommands, TypeOK
<1>7. CASE GrabScan
  <2>1. inVirtHost' \in Nat
    BY <1>7 DEF GrabScan, checkInVirtHostName, TypeOK
  <2>2. envOutDirty' \in BOOLEAN /\ scanReceived' \in BOOLEAN
    BY <1>7 DEF GrabScan, checkInVirtHostName
  <2> QED
    BY <1>7, <2>1, <2>2 DEF GrabScan, TypeOK
<1>8. CASE sendOutEnv
  <2>1. toNode' \in Seq(NodeCmd)
    BY <1>8, SentTyped DEF sendOutEnv, TypeOK
  <2> QED
    BY <1>8, <2>1 DEF sendOutEnv, TypeOK
<1>9. CASE ServerAsks
  <2>1. toNode' \in Seq(NodeCmd)
    BY <1>9, SentTyped DEF ServerAsks, TypeOK
  <2>2. switches' \in 0 .. MaxSwitches
    BY <1>9, LinkAssumption DEF ServerAsks, switch, TypeOK
  <2> QED
    BY <1>9, <2>1, <2>2 DEF ServerAsks, TypeOK
<1>10. CASE SwitchNode \/ SwitchServer \/ setUseOutEnv
  <2>1. switches' \in 0 .. MaxSwitches
    BY <1>10, LinkAssumption DEF SwitchNode, SwitchServer, setUseOutEnv, switch, TypeOK
  <2>2. nodeOpen' \in BOOLEAN /\ serverOpen' \in BOOLEAN /\ useOutEnv' \in BOOLEAN /\ envOutDirty' \in BOOLEAN
    BY <1>10 DEF SwitchNode, SwitchServer, setUseOutEnv, TypeOK
  <2> QED
    BY <1>10, <2>1, <2>2 DEF SwitchNode, SwitchServer, setUseOutEnv, TypeOK
<1>11. CASE RestartNode
  <2>1. toNode' \in Seq(NodeCmd)
    BY <1>0, <1>11, SurvivorsTyped DEF RestartNode
  <2>2. session' \in 1 .. MaxSessions /\ nodeRemote' \in Nat /\ nodeLast' \in Nat
    BY <1>0, <1>11, LinkAssumption DEF RestartNode, TypeOK
  <2>3. nodeOpen' \in BOOLEAN /\ deviceStatusSent' \in BOOLEAN /\ nodeOutEnv' \in BOOLEAN
    BY <1>11 DEF RestartNode
  <2>4. nodeQueue' \in Seq(NodeCmd)
    BY <1>11 DEF RestartNode
  <2> QED
    BY <1>11, <2>1, <2>2, <2>3, <2>4 DEF RestartNode, TypeOK
<1>12. CASE RestartServer
  <2>1. toServer' \in Seq(ServerCmd \cup Scan)
    BY <1>0, <1>12, SurvivorsTyped DEF RestartServer
  <2>2. serverSession' \in 1 .. MaxSessions /\ serverRemote' \in Nat /\ serverLast' \in Nat
        /\ inVirtHost' \in Nat /\ knownType' \in 0 .. MaxSessions
    BY <1>0, <1>12, LinkAssumption DEF RestartServer, TypeOK
  <2>3. serverOpen' \in BOOLEAN /\ scanReceived' \in BOOLEAN /\ useOutEnv' \in BOOLEAN
        /\ envOutDirty' \in BOOLEAN
    BY <1>12 DEF RestartServer
  <2>4. serverQueue' \in Seq(ServerCmd)
    BY <1>12 DEF RestartServer
  <2> QED
    BY <1>12, <2>1, <2>2, <2>3, <2>4 DEF RestartServer, TypeOK
<1>13. CASE UNCHANGED vars
  BY <1>13 DEF vars, TypeOK
<1> QED
  BY <1>1, <1>2, <1>3, <1>4, <1>5, <1>6, <1>7, <1>8, <1>9, <1>10, <1>11, <1>12, <1>13
     DEF Next, Threads

(* The ends of the link, their queues and the network keep their types.    *)
THEOREM LinkTypeCorrect == Spec => []TypeOK
  BY TypeInit, TypeStep, PTL DEF Spec
-----------------------------------------------------------------------------
(* Why a bound server asks every node.  What comes from the nodes comes in *)
(* the order of their incarnations: first what the server took over, then  *)
(* its queue, then the network.  A node that was heard last has a "connect"*)
(* before it at least until it has received something, and what it         *)
(* receives first is one.                                                  *)
Asc(q) == \A i, j \in 1 .. Len(q) : i <= j => q[i].session <= q[j].session
Within(q) == \A i \in 1 .. Len(q) : knownType <= q[i].session /\ q[i].session <= session
Before(q, r) == \A i \in 1 .. Len(q), j \in 1 .. Len(r) : q[i].session <= r[j].session
Own(q) == \A i \in 1 .. Len(q) : q[i].kind # "connect" /\ q[i].from = q[i].session

Ordered ==
  /\ knownType <= session
  /\ Asc(serverQueue) /\ Within(serverQueue)
  /\ Asc(toServer) /\ Within(toServer) /\ Own(toServer)
  /\ Before(serverQueue, toServer)

Linked ==
  /\ nodeRemote = 1 /\ nodeLast \in {0, 1}
  /\ serverRemote = serverLast /\ serverLast <= session
  /\ \A i \in DOMAIN toNode : toNode[i].from = 1
  /\ nodeLast = 0 /\ toNode # <<>> => Head(toNode).kind = "connect"
  /\ serverLast = session => nodeLast = 1 \/ toNode # <<>>

Unanswered == has(nodeQueue, "connect") => ~deviceStatusSent

IInv ==
  /\ TypeOK
  /\ bound = "server" => Ordered /\ Linked /\ Unanswered /\ AskedOrKnown
(* What the queues of the server hold has a session.                       *)
LEMMA Numbered ==
  ASSUME TypeOK
  PROVE  /\ session \in Nat \ {0} /\ knownType \in Nat
         /\ serverLast \in Nat /\ serverRemote \in Nat /\ nodeLast \in Nat
         /\ serverQueue \in Seq(ServerCmd \cup Scan) /\ toServer \in Seq(ServerCmd \cup Scan)
         /\ toNode \in Seq(NodeCmd) /\ nodeQueue \in Seq(NodeCmd)
         /\ \A x \in ServerCmd \cup Scan : x.session \in Nat
<1>1. session \in Nat \ {0} /\ knownType \in Nat
      /\ serverLast \in Nat /\ serverRemote \in Nat /\ nodeLast \in Nat
  BY LinkAssumption DEF TypeOK
<1>2. \A x \in ServerCmd \cup Scan : x.session \in Nat
  BY LinkAssumption DEF ServerCmd, Scan
<1>3. serverQueue \in Seq(ServerCmd) /\ toServer \in Seq(ServerCmd \cup Scan)
      /\ toNode \in Seq(NodeCmd) /\ nodeQueue \in Seq(NodeCmd)
  BY DEF TypeOK
<1>4. serverQueue \in Seq(ServerCmd \cup Scan)
  BY <1>3
<1> QED
  BY <1>1, <1>2, <1>3, <1>4

(* A queue in order stays so when its head goes or something newer comes.  *)
LEMMA TailOrdered ==
  ASSUME NEW S, NEW q \in Seq(S), \A x \in S : x.session \in Nat, q # <<>>, Asc(q)
  PROVE  /\ Asc(Tail(q))
         /\ \A j \in 1 .. Len(Tail(q)) : Head(q).session <= Tail(q)[j].session
<1>1. /\ Len(q) \in Nat \ {0} /\ Len(Tail(q)) = Len(q) - 1 /\ Head(q) = q[1]
      /\ \A i \in 1 .. Len(q) - 1 : Tail(q)[i] = q[i + 1]
  BY Tailed
<1>2. \A i \in 1 .. Len(Tail(q)) : i + 1 \in 1 .. Len(q) /\ Tail(q)[i] = q[i + 1]
  BY <1>1
<1>3. Asc(Tail(q))
  BY <1>1, <1>2 DEF Asc
<1>4. \A j \in 1 .. Len(Tail(q)) : q[1].session <= q[j + 1].session
  BY <1>1, <1>2 DEF Asc
<1> QED
  BY <1>1, <1>2, <1>3, <1>4

LEMMA AppendOrdered ==
  ASSUME NEW S, NEW q \in Seq(S), NEW e \in S, \A x \in S : x.session \in Nat, Asc(q),
         \A i \in 1 .. Len(q) : q[i].session <= e.session
  PROVE  Asc(Append(q, e))
<1> DEFINE r == Append(q, e)
<1>1. /\ Len(q) \in Nat /\ Len(r) = Len(q) + 1
      /\ \A i \in 1 .. Len(q) : r[i] = q[i]
      /\ r[Len(q) + 1] = e
  BY Appended
<1>2. e.session \in Nat
  OBVIOUS
<1> HIDE DEF r
<1>3. ASSUME NEW i \in 1 .. Len(r), NEW j \in 1 .. Len(r), i <= j
      PROVE  r[i].session <= r[j].session
  <2>1. CASE j = Len(q) + 1 /\ i = j
    BY <1>1, <1>2, <2>1
  <2>2. CASE j = Len(q) + 1 /\ i # j
    <3>1. i \in 1 .. Len(q)
      BY <1>1, <1>3, <2>2
    <3> QED
      BY <1>1, <2>2, <3>1
  <2>3. CASE j # Len(q) + 1
    <3>1. i \in 1 .. Len(q) /\ j \in 1 .. Len(q)
      BY <1>1, <1>3, <2>3
    <3> QED
      BY <1>1, <1>3, <3>1 DEF Asc
  <2> QED
    BY <2>1, <2>2, <2>3
<1> QED
  BY <1>3 DEF Asc, r

(* What the node that runs sends is the newest.                            *)
LEMMA SendOrdered ==
  ASSUME TypeOK, Ordered, NEW e \in ServerCmd \cup Scan,
         e.session = session, e.from = session, e.kind # "connect",
         toServer' = Append(toServer, e), UNCHANGED <<session, knownType, serverQueue>>
  PROVE  Ordered'
<1>1. /\ Len(toServer) \in Nat /\ Len(toServer') = Len(toServer) + 1
      /\ \A i \in 1 .. Len(toServer) : toServer'[i] = toServer[i]
      /\ toServer'[Len(toServer) + 1] = e
  BY Numbered, Appended
<1>2. Asc(toServer')
  BY Numbered, AppendOrdered DEF Ordered, Within
<1>3. Within(toServer)' /\ Own(toServer)'
  <2>1. session \in Nat /\ knownType <= session
    BY Numbered DEF Ordered
  <2>2. ASSUME NEW i \in 1 .. Len(toServer')
        PROVE  /\ knownType <= toServer'[i].session /\ toServer'[i].session <= session
               /\ toServer'[i].kind # "connect" /\ toServer'[i].from = toServer'[i].session
    <3>1. CASE toServer'[i] = e
      BY <2>1, <3>1
    <3>2. CASE i \in 1 .. Len(toServer) /\ toServer'[i] = toServer[i]
      BY <3>2 DEF Ordered, Within, Own
    <3> QED
      BY <1>1, <2>2, <3>1, <3>2
  <2> QED
    BY <2>2 DEF Within, Own
<1>4. Before(serverQueue, toServer)'
  BY <1>1 DEF Ordered, Before, Within
<1>5. knownType' <= session' /\ Asc(serverQueue') /\ Within(serverQueue)'
  BY DEF Ordered, Within
<1> QED
  BY <1>2, <1>3, <1>4, <1>5 DEF Ordered

(* To whom what is sent gets when the server is bound.                     *)
LEMMA Sent ==
  ASSUME bound = "server"
  PROVE  /\ \A kind : sentToServer(kind, 1) =
               Append(toServer, [kind |-> kind, from |-> session, session |-> session])
         /\ \A kind : sentToNode(kind, session) = Append(toNode, [kind |-> kind, from |-> 1])
         /\ \A kind, addr : addr # session => sentToNode(kind, addr) = toNode
  BY DEF sentToServer, sentToNode, serverAddr, nodeAddr

(* The node never answers: what it receives first is "connect", and then   *)
(* the address is always the same.                                         *)
LEMMA NeverAnswered ==
  ASSUME TypeOK, Linked, NodeReceive
  PROVE  /\ Head(toNode).from = 1 /\ toServer' = toServer
<1>1. toNode # <<>>
  BY DEF NodeReceive
<1>2. toNode \in Seq(NodeCmd)
  BY DEF TypeOK
<1>3. Head(toNode) = toNode[1] /\ 1 \in DOMAIN toNode
  BY <1>1, <1>2, Tailed
<1>4. Head(toNode).from = 1
  BY <1>3 DEF Linked
<1>5. ~answered(Head(toNode), nodeLast)
  BY <1>1, <1>4 DEF answered, Linked
<1> QED
  BY <1>4, <1>5 DEF NodeReceive

LEMMA CommandSent ==
  ASSUME TypeOK, bound = "server", Linked, NodeCommands
  PROVE  \/ /\ ~(has(nodeQueue, "connect") /\ ~deviceStatusSent)
            /\ UNCHANGED toServer
         \/ toServer' = Append(toServer,
                               [kind |-> "deviceType", from |-> session, session |-> session])
<1>1. nodeRemote = 1
  BY DEF Linked
<1> QED
  BY <1>1, Sent DEF NodeCommands

LEMMA OrderedStep ==
  ASSUME TypeOK, bound = "server", Ordered, Linked, [Next]_vars
  PROVE  Ordered'
<1> USE DEF node, server, socket, device, network
<1>1. CASE NodeReceive
  <2>1. UNCHANGED <<session, knownType, serverQueue, toServer>>
    BY <1>1, NeverAnswered DEF NodeReceive
  <2> QED
    BY <2>1 DEF Ordered, Within, Own
<1>2. CASE NodeCommands
  <2>1. UNCHANGED <<session, knownType, serverQueue>>
    BY <1>2 DEF NodeCommands
  <2>2. CASE UNCHANGED toServer
    BY <2>1, <2>2 DEF Ordered, Within, Own
  <2>3. CASE toServer' = Append(toServer,
                                [kind |-> "deviceType", from |-> session, session |-> session])
    <3>1. [kind |-> "deviceType", from |-> session, session |-> session] \in ServerCmd \cup Scan
      BY LinkAssumption DEF TypeOK, ServerCmd
    <3> QED
      BY <2>1, <2>3, <3>1, SendOrdered
  <2> QED
    BY <1>2, <2>2, <2>3, CommandSent
<1>3. CASE SendScan
  <2>1. UNCHANGED <<session, knownType, serverQueue>>
    BY <1>3 DEF SendScan
  <2>2. toServer' = Append(toServer, [kind |-> "scan", from |-> session, session |-> session])
    BY <1>3, Sent DEF SendScan, Linked
  <2>3. [kind |-> "scan", from |-> session, session |-> session] \in ServerCmd \cup Scan
    BY LinkAssumption DEF TypeOK, Scan
  <2> QED
    BY <2>1, <2>2, <2>3, SendOrdered
<1>4. CASE ServerReceive
  <2> DEFINE p == Head(toServer)
             S == ServerCmd \cup Scan
  <2>1. /\ UNCHANGED <<session, knownType>> /\ toServer # <<>>
        /\ toServer' = Tail(toServer)
        /\ serverQueue' = IF p.kind = "scan" THEN serverQueue ELSE Append(serverQueue, p)
    BY <1>4 DEF ServerReceive
  <2>2. /\ p \in S /\ p = toServer[1] /\ 1 \in 1 .. Len(toServer)
        /\ Len(toServer) \in Nat /\ Len(toServer') = Len(toServer) - 1
        /\ \A i \in 1 .. Len(toServer') : toServer'[i] = toServer[i + 1] /\ i + 1 \in 1 .. Len(toServer)
    BY <2>1, Numbered, Tailed
  <2>3. Asc(toServer') /\ \A j \in 1 .. Len(toServer') : p.session <= toServer'[j].session
    BY <2>1, Numbered, TailOrdered DEF Ordered
  <2>4. Within(toServer)' /\ Own(toServer)'
    BY <2>1, <2>2 DEF Ordered, Within, Own
  <2>5. \A i \in 1 .. Len(serverQueue) : serverQueue[i].session <= p.session
    BY <2>2 DEF Ordered, Before
  <2>6. Before(serverQueue, toServer')
    BY <2>2 DEF Ordered, Before
  <2>7. knownType <= p.session /\ p.session <= session
    BY <2>2 DEF Ordered, Within
  <2>8. CASE p.kind = "scan"
    BY <2>1, <2>3, <2>4, <2>6, <2>8 DEF Ordered, Within
  <2>9. CASE p.kind # "scan"
    <3> DEFINE r == Append(serverQueue, p)
    <3>1. serverQueue' = r
      BY <2>1, <2>9
    <3>2. Asc(r)
      BY <2>2, <2>5, Numbered, AppendOrdered DEF Ordered
    <3>3. /\ Len(serverQueue) \in Nat /\ Len(r) = Len(serverQueue) + 1
          /\ \A i \in 1 .. Len(serverQueue) : r[i] = serverQueue[i]
          /\ r[Len(serverQueue) + 1] = p
      BY <2>2, Numbered, Appended
    <3> HIDE DEF r, p
    <3>4. \A i \in 1 .. Len(r) : i \in 1 .. Len(serverQueue) \/ r[i] = p
      BY <3>3
    <3>5. Within(r)
      BY <2>7, <3>3, <3>4 DEF Ordered, Within
    <3>6. Before(r, toServer')
      BY <2>3, <2>6, <3>3, <3>4 DEF Before
    <3>7. Within(serverQueue)'
      BY <2>1, <3>1, <3>5 DEF Within
    <3> QED
      BY <2>1, <2>3, <2>4, <3>1, <3>2, <3>6, <3>7 DEF Ordered
  <2> QED
    BY <2>8, <2>9
<1>5. CASE ServerCommands
  <2>1. UNCHANGED <<session, toServer>> /\ serverQueue' = <<>>
    BY <1>5 DEF ServerCommands
  <2>2. \/ UNCHANGED knownType
        \/ \E i \in DOMAIN serverQueue : knownType' = serverQueue[i].session
    BY <1>5 DEF ServerCommands
  <2>3. DOMAIN serverQueue = 1 .. Len(serverQueue)
    BY Numbered
  <2>4. CASE UNCHANGED knownType
    BY <2>1, <2>4 DEF Ordered, Asc, Within, Own, Before
  <2>5. ASSUME NEW i \in 1 .. Len(serverQueue), knownType' = serverQueue[i].session
        PROVE  Ordered'
    <3>1. knownType' <= session /\ \A j \in 1 .. Len(toServer) : knownType' <= toServer[j].session
      BY <2>5 DEF Ordered, Within, Before
    <3>2. Within(toServer)' /\ Own(toServer)' /\ Asc(toServer)'
      BY <2>1, <3>1 DEF Ordered, Within, Own, Asc
    <3>3. Asc(serverQueue)' /\ Within(serverQueue)' /\ Before(serverQueue, toServer)'
      BY <2>1 DEF Asc, Within, Before
    <3> QED
      BY <2>1, <3>1, <3>2, <3>3 DEF Ordered
  <2> QED
    BY <2>2, <2>3, <2>4, <2>5
<1>6. CASE RestartNode
  <2>1. session' = session + 1 /\ UNCHANGED <<knownType, serverQueue, toServer>>
    BY <1>6 DEF RestartNode
  <2>2. /\ \A i \in 1 .. Len(serverQueue) : serverQueue[i].session \in Nat
        /\ \A i \in 1 .. Len(toServer) : toServer[i].session \in Nat
    BY Numbered
  <2>3. Within(serverQueue)' /\ Within(toServer)' /\ knownType' <= session'
    BY <2>1, <2>2, Numbered DEF Ordered, Within
  <2> QED
    BY <2>1, <2>3 DEF Ordered, Own
<1>7. CASE RestartServer
  <2>1. UNCHANGED session /\ knownType' = 0 /\ serverQueue' = <<>>
        /\ toServer' \in survivors(toServer, "server")
    BY <1>7 DEF RestartServer
  <2>2. PICK k \in 1 .. Len(toServer) + 1 : toServer' = SubSeq(toServer, k, Len(toServer))
    BY <2>1 DEF survivors
  <2>3. /\ Len(toServer) \in Nat /\ Len(toServer') = Len(toServer) - k + 1
        /\ \A i \in 1 .. Len(toServer') :
              toServer'[i] = toServer[i + k - 1] /\ i + k - 1 \in 1 .. Len(toServer)
    BY <2>2, Numbered, Suffixed
  <2>4. \A i \in 1 .. Len(toServer) : toServer[i].session \in Nat
    BY Numbered
  <2>5. Asc(toServer)'
    <3>1. ASSUME NEW i \in 1 .. Len(toServer'), NEW j \in 1 .. Len(toServer'), i <= j
          PROVE  toServer'[i].session <= toServer'[j].session
      <4>1. i + k - 1 <= j + k - 1
        BY <2>2, <2>3, <3>1
      <4>2. toServer[i + k - 1].session <= toServer[j + k - 1].session
        BY <2>3, <4>1 DEF Ordered, Asc
      <4> QED
        BY <2>3, <4>2
    <3> QED
      BY <3>1 DEF Asc
  <2>6. Within(toServer)' /\ Own(toServer)'
    <3>1. ASSUME NEW i \in 1 .. Len(toServer')
          PROVE  /\ knownType' <= toServer'[i].session /\ toServer'[i].session <= session'
                 /\ toServer'[i].kind # "connect" /\ toServer'[i].from = toServer'[i].session
      <4>1. PICK j \in 1 .. Len(toServer) : toServer'[i] = toServer[j]
        BY <2>3
      <4> QED
        BY <2>1, <2>4, <4>1 DEF Ordered, Within, Own
    <3> QED
      BY <3>1 DEF Within, Own
  <2>7. knownType' <= session' /\ Asc(serverQueue)' /\ Within(serverQueue)'
        /\ Before(serverQueue, toServer)'
    BY <2>1, Numbered DEF Asc, Within, Before
  <2> QED
    BY <2>5, <2>6, <2>7 DEF Ordered
<1>8. CASE \/ NodeAsks \/ ServerAsks \/ GrabScan \/ sendOutEnv
           \/ SwitchNode \/ SwitchServer \/ setUseOutEnv \/ UNCHANGED vars
  <2>1. UNCHANGED <<session, knownType, serverQueue, toServer>>
    BY <1>8 DEF NodeAsks, ServerAsks, GrabScan, sendOutEnv, SwitchNode, SwitchServer,
                setUseOutEnv, vars
  <2> QED
    BY <2>1 DEF Ordered, Within, Own
<1> QED
  BY <1>1, <1>2, <1>3, <1>4, <1>5, <1>6, <1>7, <1>8 DEF Next, Threads

(* What is appended to the queue of a node that listens.                   *)
LEMMA LinkedSend ==
  ASSUME TypeOK, bound = "server", Linked, NEW kind \in {"connect", "outEnvOn", "outEnvOff"},
         UNCHANGED <<session, nodeRemote, nodeLast>>,
         serverRemote' = serverLast', serverLast' <= session,
         \/ UNCHANGED <<serverLast, toNode>>
         \/ serverLast' # session /\ UNCHANGED toNode
         \/ /\ serverLast' = session /\ (kind = "connect" \/ UNCHANGED serverLast)
            /\ toNode' = Append(toNode, [kind |-> kind, from |-> 1])
  PROVE  Linked'
<1>1. CASE UNCHANGED <<serverLast, toNode>>
  BY <1>1 DEF Linked
<1>2. CASE serverLast' # session /\ UNCHANGED toNode
  BY <1>2 DEF Linked
<1>3. CASE /\ serverLast' = session /\ (kind = "connect" \/ UNCHANGED serverLast)
           /\ toNode' = Append(toNode, [kind |-> kind, from |-> 1])
  <2> DEFINE e == [kind |-> kind, from |-> 1]
  <2>1. e \in NodeCmd /\ e.from = 1 /\ e.kind = kind
    BY DEF NodeCmd
  <2> HIDE DEF e
  <2>1a. toNode' = Append(toNode, e) /\ toNode \in Seq(NodeCmd)
    BY <1>3, Numbered DEF e
  <2>2. /\ Len(toNode) \in Nat
        /\ DOMAIN toNode = 1 .. Len(toNode) /\ DOMAIN toNode' = 1 .. Len(toNode) + 1
        /\ \A i \in 1 .. Len(toNode) : toNode'[i] = toNode[i]
        /\ toNode'[Len(toNode) + 1] = e
        /\ toNode' # <<>> /\ (toNode # <<>> => Head(toNode') = Head(toNode))
        /\ (toNode = <<>> => Head(toNode') = e)
    BY <2>1, <2>1a, Appended
  <2>3. \A i \in DOMAIN toNode' : toNode'[i].from = 1
    <3>0. DOMAIN toNode' = 1 .. Len(toNode) + 1 /\ Len(toNode) \in Nat
      BY <2>2
    <3>1. \A i \in DOMAIN toNode' : i \in 1 .. Len(toNode) \/ i = Len(toNode) + 1
      BY <3>0
    <3>2. \A i \in 1 .. Len(toNode) : toNode[i].from = 1
      BY <2>2 DEF Linked
    <3> QED
      BY <2>1, <2>2, <3>1, <3>2
  <2>4. nodeLast = 0 => Head(toNode').kind = "connect"
    <3>1. CASE toNode # <<>>
      BY <2>2, <3>1 DEF Linked
    <3>2. CASE toNode = <<>> /\ nodeLast = 0
      <4>1. serverLast # session
        BY <3>2 DEF Linked
      <4>2. kind = "connect"
        BY <1>3, <4>1
      <4> QED
        BY <2>1, <2>2, <3>2, <4>2
    <3> QED
      BY <3>1, <3>2
  <2> QED
    BY <2>2, <2>3, <2>4 DEF Linked
<1> QED
  BY <1>1, <1>2, <1>3

LEMMA LinkedStep ==
  ASSUME TypeOK, bound = "server", Ordered, Linked, [Next]_vars
  PROVE  Linked'
<1> USE DEF node, server, socket, device, network
<1>1. CASE NodeReceive
  <2>1. toNode # <<>> /\ toNode' = Tail(toNode) /\ nodeRemote' = 1 /\ nodeLast' = 1
        /\ UNCHANGED <<session, serverRemote, serverLast>>
    BY <1>1, NeverAnswered DEF NodeReceive
  <2>2. /\ DOMAIN toNode = 1 .. Len(toNode) /\ Len(toNode) \in Nat
        /\ DOMAIN toNode' = 1 .. Len(toNode) - 1
        /\ \A i \in 1 .. Len(toNode) - 1 : toNode'[i] = toNode[i + 1]
    BY <2>1, Numbered, Tailed
  <2>3. \A i \in DOMAIN toNode' : toNode'[i].from = 1
    BY <2>2 DEF Linked
  <2> QED
    BY <2>1, <2>3 DEF Linked
<1>2. CASE ServerReceive
  <2> DEFINE p == Head(toServer)
  <2>1. /\ UNCHANGED <<session, nodeRemote, nodeLast>> /\ toServer # <<>>
        /\ serverRemote' = p.from /\ serverLast' = p.from
        /\ toNode' = IF answered(p, serverLast) THEN sentToNode("connect", p.from) ELSE toNode
    BY <1>2 DEF ServerReceive
  <2>2. p = toServer[1] /\ 1 \in 1 .. Len(toServer)
    BY <2>1, Numbered, Tailed
  <2>3. p.kind # "connect" /\ p.from <= session
    BY <2>2 DEF Ordered, Own, Within
  <2>4. CASE p.from = serverLast
    BY <2>1, <2>3, <2>4, LinkedSend DEF answered
  <2>5. CASE p.from # serverLast /\ p.from # session
    BY <2>1, <2>3, <2>5, Sent, LinkedSend DEF answered
  <2>6. CASE p.from # serverLast /\ p.from = session
    BY <2>1, <2>3, <2>6, Sent, LinkedSend DEF answered
  <2> QED
    BY <2>4, <2>5, <2>6
<1>3. CASE sendOutEnv
  <2>1. UNCHANGED <<session, nodeRemote, nodeLast, serverRemote, serverLast>>
    BY <1>3 DEF sendOutEnv
  <2>2. PICK kind \in EnvKinds : toNode' = sentToNode(kind, serverRemote)
    BY <1>3 DEF sendOutEnv, EnvKinds
  <2>3. serverRemote = serverLast /\ serverLast <= session
    BY DEF Linked
  <2> QED
    BY <2>1, <2>2, <2>3, Sent, LinkedSend DEF EnvKinds
<1>4. CASE ServerAsks
  <2>1. UNCHANGED <<session, nodeRemote, nodeLast, serverRemote>> /\ serverLast' = serverRemote
        /\ toNode' = sentToNode("connect", serverRemote)
    BY <1>4 DEF ServerAsks
  <2>2. serverRemote = serverLast /\ serverLast <= session
    BY DEF Linked
  <2> QED
    BY <2>1, <2>2, Sent, LinkedSend
<1>5. CASE RestartNode
  <2>1. session' = session + 1 /\ nodeRemote' = 1 /\ nodeLast' = 0
        /\ toNode' = <<>> /\ UNCHANGED <<serverRemote, serverLast>>
    BY <1>5 DEF RestartNode, survivors, serverAddr
  <2>2. serverLast <= session' /\ serverLast # session'
    BY <2>1, Numbered DEF Linked
  <2> QED
    BY <2>1, <2>2 DEF Linked
<1>6. CASE RestartServer
  <2>1. serverRemote' = 0 /\ serverLast' = 0 /\ UNCHANGED <<session, nodeRemote, nodeLast, toNode>>
    BY <1>6 DEF RestartServer
  <2> QED
    BY <2>1, Numbered DEF Linked
<1>7. CASE \/ NodeCommands \/ SendScan \/ NodeAsks \/ ServerCommands \/ GrabScan
           \/ SwitchNode \/ SwitchServer \/ setUseOutEnv \/ UNCHANGED vars
  <2>1. UNCHANGED <<session, nodeRemote, nodeLast, serverRemote, serverLast, toNode>>
    BY <1>7 DEF NodeCommands, SendScan, NodeAsks, ServerCommands, GrabScan, SwitchNode,
                SwitchServer, setUseOutEnv, vars
  <2> QED
    BY <2>1 DEF Linked
<1> QED
  BY <1>1, <1>2, <1>3, <1>4, <1>5, <1>6, <1>7 DEF Next, Threads

(* What is still to be done is not marked as done.                         *)
LEMMA UnansweredStep ==
  ASSUME TypeOK, bound = "server", Linked, Unanswered, [Next]_vars
  PROVE  Unanswered'
<1> USE DEF node, server, socket, device, network
<1>1. CASE NodeReceive
  <2> DEFINE p == Head(toNode)
  <2>1. nodeQueue' = Append(nodeQueue, p) /\ p \in NodeCmd
    <3>1. toNode # <<>> /\ nodeQueue' = Append(nodeQueue, p)
      BY <1>1 DEF NodeReceive
    <3> QED
      BY <3>1, Numbered, Tailed
  <2>2. deviceStatusSent' => deviceStatusSent /\ p.kind # "connect"
    BY <1>1 DEF NodeReceive
  <2>3. has(nodeQueue', "connect") => has(nodeQueue, "connect") \/ p.kind = "connect"
    <3>1. /\ Len(nodeQueue) \in Nat /\ DOMAIN nodeQueue = 1 .. Len(nodeQueue)
          /\ DOMAIN nodeQueue' = 1 .. Len(nodeQueue) + 1
      BY <2>1, Numbered, Appended
    <3>2. /\ \A i \in 1 .. Len(nodeQueue) : nodeQueue'[i] = nodeQueue[i]
          /\ nodeQueue'[Len(nodeQueue) + 1] = p
      BY <2>1, Numbered, Appended
    <3>3. \A i \in DOMAIN nodeQueue' : i \in 1 .. Len(nodeQueue) \/ i = Len(nodeQueue) + 1
      BY <3>1
    <3> QED
      BY <3>1, <3>2, <3>3 DEF has
  <2>4. has(nodeQueue, "connect") => ~deviceStatusSent
    BY DEF Unanswered
  <2>5. has(nodeQueue', "connect") => ~deviceStatusSent'
    BY <2>2, <2>3, <2>4
  <2> QED
    BY <2>5 DEF Unanswered, has
<1>2. CASE NodeCommands \/ RestartNode
  <2>1. nodeQueue' = <<>>
    BY <1>2 DEF NodeCommands, RestartNode
  <2> QED
    BY <2>1 DEF Unanswered, has
<1>3. CASE \/ SendScan \/ ServerReceive \/ ServerCommands \/ GrabScan \/ sendOutEnv
           \/ NodeAsks \/ ServerAsks \/ SwitchNode \/ SwitchServer \/ setUseOutEnv
           \/ RestartServer \/ UNCHANGED vars
  <2>1. UNCHANGED nodeQueue
    BY <1>3 DEF SendScan, ServerReceive, ServerCommands, GrabScan, sendOutEnv, NodeAsks,
                ServerAsks, SwitchNode, SwitchServer, setUseOutEnv, RestartServer, vars
  <2>2. UNCHANGED deviceStatusSent
    BY <1>3 DEF SendScan, ServerReceive, ServerCommands, GrabScan, sendOutEnv, NodeAsks,
                ServerAsks, SwitchNode, SwitchServer, setUseOutEnv, RestartServer, vars
  <2> QED
    BY <2>1, <2>2 DEF Unanswered, has
<1> QED
  BY <1>1, <1>2, <1>3 DEF Next, Threads

(* What is in a queue is still there when something comes.                 *)
LEMMA StillThere ==
  ASSUME NEW S, NEW q \in Seq(S), NEW e \in S
  PROVE  /\ \A kind : has(q, kind) => has(Append(q, e), kind)
         /\ has(Append(q, e), e.kind)
         /\ typeOf(q) => typeOf(Append(q, e))
         /\ e.kind = "deviceType" /\ e.session = session => typeOf(Append(q, e))
<1> DEFINE r == Append(q, e)
<1>1. /\ Len(q) \in Nat /\ DOMAIN q = 1 .. Len(q) /\ DOMAIN r = 1 .. Len(q) + 1
      /\ \A i \in 1 .. Len(q) : r[i] = q[i]
      /\ r[Len(q) + 1] = e
  BY Appended
<1>2. Len(q) + 1 \in DOMAIN r /\ \A i \in DOMAIN q : i \in DOMAIN r /\ r[i] = q[i]
  BY <1>1
<1> HIDE DEF r
<1>3. /\ \A kind : has(q, kind) => has(r, kind)
      /\ has(r, e.kind)
      /\ typeOf(q) => typeOf(r)
      /\ e.kind = "deviceType" /\ e.session = session => typeOf(r)
  BY <1>1, <1>2 DEF has, typeOf
<1> QED
  BY <1>3 DEF r

(* ... and what leaves it is its head.                                     *)
LEMMA HeadGone ==
  ASSUME NEW S, NEW q \in Seq(S), q # <<>>
  PROVE  /\ \A kind : has(q, kind) => has(Tail(q), kind) \/ Head(q).kind = kind
         /\ typeOf(q) => \/ typeOf(Tail(q))
                         \/ Head(q).kind = "deviceType" /\ Head(q).session = session
<1> DEFINE r == Tail(q)
<1>1. /\ Len(q) \in Nat \ {0} /\ DOMAIN q = 1 .. Len(q) /\ DOMAIN r = 1 .. Len(q) - 1
      /\ \A i \in 1 .. Len(q) - 1 : r[i] = q[i + 1]
      /\ Head(q) = q[1]
  BY Tailed
<1>2. \A i \in DOMAIN q : i = 1 \/ (i - 1 \in DOMAIN r /\ r[i - 1] = q[i])
  BY <1>1
<1> HIDE DEF r
<1>3. /\ \A kind : has(q, kind) => has(r, kind) \/ Head(q).kind = kind
      /\ typeOf(q) => \/ typeOf(r)
                      \/ Head(q).kind = "deviceType" /\ Head(q).session = session
  BY <1>1, <1>2 DEF has, typeOf
<1> QED
  BY <1>3 DEF r

(* The question, asked, is passed on and answered, and the answer kept.    *)
LEMMA AskedStep ==
  ASSUME TypeOK, bound = "server", Ordered, Linked, Unanswered, AskedOrKnown, [Next]_vars
  PROVE  AskedOrKnown'
<1> USE DEF node, server, socket, device, network
<1>1. CASE NodeReceive
  <2>1. toNode # <<>> /\ toNode' = Tail(toNode) /\ nodeQueue' = Append(nodeQueue, Head(toNode))
        /\ UNCHANGED <<bound, session, serverLast, serverQueue, knownType>>
    BY <1>1 DEF NodeReceive
  <2>2. toServer' = toServer
    BY <1>1, NeverAnswered
  <2>3. Head(toNode) \in NodeCmd
    BY <2>1, Numbered, Tailed
  <2>4. has(toNode, "connect") \/ has(nodeQueue, "connect")
          => has(toNode', "connect") \/ has(nodeQueue', "connect")
    BY <2>1, <2>3, Numbered, HeadGone, StillThere
  <2> QED
    BY <2>1, <2>2, <2>4 DEF AskedOrKnown, typeOf, has
<1>2. CASE NodeCommands
  <2>1. UNCHANGED <<bound, session, serverLast, toNode, serverQueue, knownType>>
    BY <1>2 DEF NodeCommands
  <2> DEFINE e == [kind |-> "deviceType", from |-> session, session |-> session]
  <2>2. e \in ServerCmd \cup Scan /\ e.kind = "deviceType" /\ e.session = session
    BY LinkAssumption DEF TypeOK, ServerCmd
  <2> HIDE DEF e
  <2>3. CASE toServer' = Append(toServer, e)
    <3>1. typeOf(Append(toServer, e))
      BY <2>2, Numbered, StillThere
    <3> QED
      BY <2>1, <2>3, <3>1 DEF AskedOrKnown, typeOf
  <2>4. CASE ~(has(nodeQueue, "connect") /\ ~deviceStatusSent) /\ UNCHANGED toServer
    <3>1. ~has(nodeQueue, "connect")
      BY <2>4 DEF Unanswered
    <3> QED
      BY <2>1, <2>4, <3>1 DEF AskedOrKnown, typeOf, has
  <2> QED
    BY <1>2, <2>3, <2>4, CommandSent DEF e
<1>3. CASE SendScan
  <2>1. UNCHANGED <<bound, session, serverLast, toNode, nodeQueue, serverQueue, knownType>>
    BY <1>3 DEF SendScan
  <2> DEFINE e == [kind |-> "scan", from |-> session, session |-> session]
  <2>2. toServer' = Append(toServer, e)
    BY <1>3, Sent DEF SendScan, Linked
  <2>3. e \in ServerCmd \cup Scan
    BY LinkAssumption DEF TypeOK, Scan
  <2> HIDE DEF e
  <2>4. typeOf(toServer) => typeOf(Append(toServer, e))
    BY <2>3, Numbered, StillThere
  <2>5. typeOf(toServer) => typeOf(toServer)'
    BY <2>1, <2>2, <2>4 DEF typeOf
  <2> QED
    BY <2>1, <2>5 DEF AskedOrKnown, typeOf, has
<1>4. CASE ServerReceive
  <2> DEFINE p == Head(toServer)
  <2>1. /\ UNCHANGED <<bound, session, nodeQueue, knownType>> /\ toServer # <<>>
        /\ serverLast' = p.from /\ toServer' = Tail(toServer)
        /\ serverQueue' = IF p.kind = "scan" THEN serverQueue ELSE Append(serverQueue, p)
        /\ toNode' = IF answered(p, serverLast) THEN sentToNode("connect", p.from) ELSE toNode
    BY <1>4 DEF ServerReceive
  <2>2. p \in ServerCmd \cup Scan /\ p = toServer[1] /\ 1 \in 1 .. Len(toServer)
    BY <2>1, Numbered, Tailed
  <2>3. p.kind # "connect"
    BY <2>2 DEF Ordered, Own
  <2>4. CASE p.from # session
    BY <2>1, <2>4 DEF AskedOrKnown
  <2>5. CASE p.from = session /\ serverLast # session
    <3> DEFINE e == [kind |-> "connect", from |-> 1]
    <3>1. toNode' = Append(toNode, e)
      BY <2>1, <2>3, <2>5, Sent DEF answered
    <3>2. e \in NodeCmd /\ e.kind = "connect"
      BY DEF NodeCmd
    <3> HIDE DEF e
    <3>3. has(Append(toNode, e), "connect")
      BY <3>2, Numbered, StillThere
    <3>4. has(toNode', "connect")
      BY <3>1, <3>3
    <3> QED
      BY <3>4 DEF AskedOrKnown, has
  <2>6. CASE p.from = session /\ serverLast = session
    <3>1. toNode' = toNode /\ serverLast' = serverLast
      BY <2>1, <2>6 DEF answered
    <3>2. typeOf(toServer) => \/ typeOf(Tail(toServer))
                              \/ typeOf(Append(serverQueue, p)) /\ p.kind # "scan"
      BY <2>1, <2>2, Numbered, HeadGone, StillThere
    <3>3. typeOf(serverQueue) => typeOf(Append(serverQueue, p))
      BY <2>2, Numbered, StillThere
    <3>4. typeOf(toServer) \/ typeOf(serverQueue) => typeOf(toServer') \/ typeOf(serverQueue')
      BY <2>1, <3>2, <3>3
    <3>5. session' = session
      BY <2>1
    <3>6. typeOf(toServer) \/ typeOf(serverQueue) => typeOf(toServer)' \/ typeOf(serverQueue)'
      BY <3>4, <3>5 DEF typeOf
    <3> QED
      BY <2>1, <3>1, <3>6 DEF AskedOrKnown, typeOf, has
  <2> QED
    BY <2>4, <2>5, <2>6
<1>5. CASE ServerCommands
  <2>1. UNCHANGED <<bound, session, serverLast, toNode, nodeQueue, toServer>>
    BY <1>5 DEF ServerCommands
  <2>2. \/ ~has(serverQueue, "deviceType") /\ UNCHANGED knownType
        \/ \E i \in DOMAIN serverQueue :
              isLast(serverQueue, i, {"deviceType"}) /\ knownType' = serverQueue[i].session
    BY <1>5 DEF ServerCommands
  <2>3. DOMAIN serverQueue = 1 .. Len(serverQueue) /\ Len(serverQueue) \in Nat
        /\ \A i \in 1 .. Len(serverQueue) : serverQueue[i].session \in Nat
    BY Numbered
  <2>4. CASE ~has(serverQueue, "deviceType") /\ UNCHANGED knownType
    <3>1. ~typeOf(serverQueue)
      BY <2>4 DEF has, typeOf
    <3> QED
      BY <2>1, <2>4, <3>1 DEF AskedOrKnown, typeOf, has
  <2>5. ASSUME NEW i \in 1 .. Len(serverQueue), isLast(serverQueue, i, {"deviceType"}),
               knownType' = serverQueue[i].session
        PROVE  AskedOrKnown'
    <3>1. ASSUME typeOf(serverQueue)
          PROVE  knownType' = session
      <4>1. PICK j \in 1 .. Len(serverQueue) :
               serverQueue[j].kind = "deviceType" /\ serverQueue[j].session = session
        BY <2>3, <3>1 DEF typeOf
      <4>2. j <= i
        BY <2>3, <4>1, <2>5 DEF isLast
      <4>3. serverQueue[j].session <= serverQueue[i].session /\ serverQueue[i].session <= session
        BY <4>2 DEF Ordered, Asc, Within
      <4> QED
        BY <2>3, <2>5, <4>1, <4>3, Numbered
    <3>2. ASSUME knownType = session
          PROVE  knownType' = session
      <4>1. knownType <= serverQueue[i].session /\ serverQueue[i].session <= session
        BY DEF Ordered, Within
      <4> QED
        BY <2>3, <2>5, <3>2, <4>1, Numbered
    <3> QED
      BY <2>1, <3>1, <3>2 DEF AskedOrKnown, typeOf, has
  <2> QED
    BY <2>2, <2>3, <2>4, <2>5
<1>6. CASE sendOutEnv \/ ServerAsks
  <2>1. UNCHANGED <<bound, session, nodeQueue, serverQueue, knownType, toServer>>
    BY <1>6 DEF sendOutEnv, ServerAsks
  <2>2. serverLast' = serverLast
    BY <1>6 DEF sendOutEnv, ServerAsks, Linked
  <2>3. PICK kind \in {"connect", "outEnvOn", "outEnvOff"} : toNode' = sentToNode(kind, serverRemote)
    BY <1>6 DEF sendOutEnv, ServerAsks
  <2>4. has(toNode, "connect") => has(toNode', "connect")
    <3>1. CASE serverRemote # session
      BY <2>3, <3>1, Sent
    <3>2. CASE serverRemote = session
      <4> DEFINE e == [kind |-> kind, from |-> 1]
      <4>1. e \in NodeCmd
        BY DEF NodeCmd
      <4>2. toNode' = Append(toNode, e)
        BY <2>3, <3>2, Sent
      <4> QED
        BY <4>1, <4>2, Numbered, StillThere
    <3> QED
      BY <3>1, <3>2
  <2> QED
    BY <2>1, <2>2, <2>4 DEF AskedOrKnown, typeOf, has
<1>7. CASE RestartNode
  <2>1. session' = session + 1 /\ serverLast' = serverLast
    BY <1>7 DEF RestartNode
  <2>2. serverLast' # session'
    BY <2>1, Numbered DEF Linked
  <2> QED
    BY <2>2 DEF AskedOrKnown
<1>8. CASE RestartServer
  <2>1. session' = session /\ serverLast' = 0
    BY <1>8 DEF RestartServer
  <2>2. serverLast' # session'
    BY <2>1, Numbered
  <2> QED
    BY <2>2 DEF AskedOrKnown
<1>9. CASE NodeAsks
  BY <1>9 DEF NodeAsks
<1>10. CASE GrabScan \/ SwitchNode \/ SwitchServer \/ setUseOutEnv \/ UNCHANGED vars
  <2>1. UNCHANGED <<bound, session, serverLast, toNode, nodeQueue, toServer, serverQueue, knownType>>
    BY <1>10 DEF GrabScan, SwitchNode, SwitchServer, setUseOutEnv, vars
  <2> QED
    BY <2>1 DEF AskedOrKnown, typeOf, has
<1> QED
  BY <1>1, <1>2, <1>3, <1>4, <1>5, <1>6, <1>7, <1>8, <1>9, <1>10 DEF Next, Threads

LEMMA Bound == [Next]_vars => bound' = bound
  BY DEF Next, Threads, NodeReceive, NodeCommands, SendScan, ServerReceive, ServerCommands,
         GrabScan, sendOutEnv, NodeAsks, ServerAsks, SwitchNode, SwitchServer, setUseOutEnv,
         RestartNode, RestartServer, vars

(* A bound server asks every node it hears from for its type, however      *)
(* often both are restarted (update()).                                    *)
THEOREM AskedOrKnownCorrect == Spec => []AskedOrKnown
<1>1. Init => IInv
  <2> SUFFICES ASSUME Init
               PROVE  IInv
    OBVIOUS
  <2>1. TypeOK
    BY TypeInit
  <2>2. ASSUME bound = "server"
        PROVE  Ordered /\ Linked /\ AskedOrKnown
    BY <2>2 DEF Init, Ordered, Asc, Within, Own, Before, Linked, AskedOrKnown
  <2>3. Unanswered
    BY DEF Init, Unanswered, has
  <2> QED
    BY <2>1, <2>2, <2>3 DEF IInv
<1>2. IInv /\ [Next]_vars => IInv'
  <2> SUFFICES ASSUME IInv, [Next]_vars
               PROVE  IInv'
    OBVIOUS
  <2>1. TypeOK /\ TypeOK'
    BY TypeStep DEF IInv
  <2>2. ASSUME bound = "server"
        PROVE  Ordered' /\ Linked' /\ Unanswered' /\ AskedOrKnown'
    BY <2>1, <2>2, OrderedStep, LinkedStep, UnansweredStep, AskedStep DEF IInv
  <2> QED
    BY <2>1, <2>2, Bound DEF IInv
<1>3. IInv => AskedOrKnown
  BY DEF IInv, AskedOrKnown
<1> QED
  BY <1>1, <1>2, <1>3, PTL DEF Spec
=============================================================================
