---------------------------- MODULE ClientProofs ----------------------------
(***************************************************************************)
(* The client's reconnection lock, the types of its state, and that it     *)
(* answers a task once, for any number of tasks, retries and connections.  *)
(***************************************************************************)
EXTENDS Client, SequenceLemmas

\* What the lock depends on: where the coroutines are.
LockInv ==
    /\ pc \in [Coroutines -> PcStates]
    /\ is_reconnecting \in BOOLEAN
    /\ OneConnector

\* No coroutine goes on, after connecting, inside connect_to_server.
LEMMA HomeIsOutside ==
  /\ Home \in [Coroutines -> PcStates]
  /\ \A p \in Coroutines : Home[p] \notin {"connect", "retry"}
BY DEF Home, Coroutines, PcStates

\* A coroutine outside connect_to_server that moves to another place outside.
LEMMA LockMove ==
  ASSUME LockInv, NEW p \in Coroutines, NEW s \in PcStates \ {"connect", "retry"},
         pc[p] \notin {"connect", "retry"},
         pc' = [pc EXCEPT ![p] = s], UNCHANGED is_reconnecting
  PROVE  LockInv'
<1>1. Connecting' = Connecting
  BY DEF LockInv, Connecting
<1> QED
  BY <1>1 DEF LockInv, OneConnector

\* A call of connect_to_server takes the lock if it is free.
LEMMA LockCall ==
  ASSUME LockInv, NEW p \in Coroutines, pc[p] \notin {"connect", "retry"}, CallConnect(p)
  PROVE  LockInv'
<1>1. CASE is_reconnecting
  <2>1. pc' = [pc EXCEPT ![p] = Home[p]] /\ UNCHANGED is_reconnecting
    BY <1>1 DEF CallConnect
  <2> QED
    BY <2>1, LockMove, HomeIsOutside DEF LockInv
<1>2. CASE ~is_reconnecting
  <2>1. pc' = [pc EXCEPT ![p] = "connect"] /\ is_reconnecting' = TRUE
    BY <1>2 DEF CallConnect
  <2>2. Connecting = {}
    BY <1>2 DEF LockInv, OneConnector
  <2>3. Connecting' = {p}
    BY <2>1, <2>2 DEF LockInv, Connecting
  <2> QED
    BY <2>1, <2>3 DEF LockInv, OneConnector, PcStates
<1> QED
  BY <1>1, <1>2

\* Steps that move no coroutine.
LEMMA LockUntouched ==
  ASSUME LockInv, UNCHANGED <<pc, is_reconnecting>>
  PROVE  LockInv'
BY DEF LockInv, OneConnector, Connecting

\* The steps of a coroutine that is in connect_to_server.
LEMMA LockConnector ==
  ASSUME LockInv, NEW p \in Coroutines, Connector(p)
  PROVE  LockInv'
<1> USE DEF lock
<1>1. CASE Connects(p)
  <2>1. \A q \in Connecting : q = p
    BY <1>1 DEF Connects, LockInv, OneConnector, Connecting
  <2>2. pc' \in [Coroutines -> PcStates] /\ Connecting' = {}
    <3>1. CASE p = "run"
      BY <1>1, <3>1, HomeIsOutside DEF Connects, Connecting
    <3>2. CASE p # "run"
      BY <1>1, <2>1, <3>2, HomeIsOutside DEF Connects, Connecting, LockInv
    <3> QED
      BY <3>1, <3>2
  <2> QED
    BY <1>1, <2>2 DEF Connects, LockInv, OneConnector
<1>2. ASSUME NEW s \in {"connect", "retry"}, pc[p] \in {"connect", "retry"},
             pc' = [pc EXCEPT ![p] = s], UNCHANGED is_reconnecting
      PROVE  LockInv'
  <2>1. Connecting' = Connecting
    BY <1>2 DEF LockInv, Connecting
  <2> QED
    BY <1>2, <2>1 DEF LockInv, OneConnector, PcStates
<1>3. CASE ConnectFails(p)
  BY <1>2, <1>3 DEF ConnectFails
<1>4. CASE RetryConnect(p)
  BY <1>2, <1>4 DEF RetryConnect
<1>5. CASE GiveUp(p)
  BY <1>5, LockUntouched DEF GiveUp
<1> QED
  BY <1>1, <1>3, <1>4, <1>5 DEF Connector

\* Every step of the client, the server or the network keeps the lock.
LEMMA LockStep == LockInv /\ [Next]_vars => LockInv'
<1> SUFFICES ASSUME LockInv, [Next]_vars PROVE LockInv'
  OBVIOUS
<1> USE DEF lock
<1>0. {"receive", "process", "send", "heartbeat"} \subseteq Coroutines
      /\ {"read", "pause", "get", "execute", "drain", "sleep"} \subseteq PcStates \ {"connect", "retry"}
  BY DEF Coroutines, PcStates
<1>1. CASE UNCHANGED vars
  BY <1>1, LockUntouched DEF vars, clientVars
<1>2. CASE \E p \in Coroutines : Connector(p)
  BY <1>2, LockConnector
<1>3. CASE Receiver
  <2>1. CASE ReceiveTask
    BY <2>1, LockUntouched DEF ReceiveTask
  <2>2. CASE ReceiveFails
    BY <1>0, <2>2, LockMove DEF ReceiveFails
  <2>3. CASE ReceiveReconnects
    BY <1>0, <2>3, LockCall DEF ReceiveReconnects
  <2>4. CASE ReceiveEof
    BY <2>4, LockUntouched DEF ReceiveEof
  <2> QED
    BY <1>3, <2>1, <2>2, <2>3, <2>4 DEF Receiver
<1>4. CASE Processor
  <2>1. CASE TakeTask
    BY <1>0, <2>1, LockMove DEF TakeTask
  <2>2. CASE FinishTask
    BY <1>0, <2>2, LockMove DEF FinishTask, FinishTaskWith
  <2> QED
    BY <1>4, <2>1, <2>2 DEF Processor
<1>5. CASE Sender
  <2>1. CASE SendDrops
    BY <2>1, LockUntouched DEF SendDrops
  <2>2. CASE SendWrites
    <3>1. pc["send"] = "get"
      BY <2>2 DEF SendWrites, HasResult
    <3>2. CASE pc' = [pc EXCEPT !["send"] = "drain"] /\ UNCHANGED is_reconnecting
      BY <1>0, <3>1, <3>2, LockMove
    <3>3. CASE UNCHANGED <<pc, is_reconnecting>>
      BY <3>3, LockUntouched
    <3> QED
      BY <2>2, <3>2, <3>3 DEF SendWrites
  <2>3. CASE SendFails
    BY <1>0, <2>3, LockMove DEF SendFails, HasResult
  <2>4. CASE SendDrained
    BY <1>0, <2>4, LockMove DEF SendDrained, Drained
  <2>5. CASE SendDrainFails
    BY <1>0, <2>5, LockMove DEF SendDrainFails, DrainRaises
  <2>6. CASE SendReconnects
    BY <1>0, <2>6, LockCall DEF SendReconnects
  <2> QED
    BY <1>5, <2>1, <2>2, <2>3, <2>4, <2>5, <2>6 DEF Sender
<1>6. CASE Heart
  <2>1. CASE HeartbeatWrites
    BY <2>1, LockUntouched DEF HeartbeatWrites, clientVars
  <2>2. CASE HeartbeatDrains
    BY <1>0, <2>2, LockMove DEF HeartbeatDrains
  <2>3. CASE HeartbeatDrained
    BY <1>0, <2>3, LockMove DEF HeartbeatDrained, Drained
  <2>4. CASE HeartbeatDrainFails
    BY <1>0, <2>4, LockCall DEF HeartbeatDrainFails, DrainRaises
  <2>5. CASE HeartbeatFails
    BY <1>0, <2>5, LockCall DEF HeartbeatFails
  <2> QED
    BY <1>6, <2>1, <2>2, <2>3, <2>4, <2>5 DEF Heart
<1>7. ASSUME NEW c \in HostConns, CloseOnExit(c) \/ ClientDetectsLoss(c) PROVE LockInv'
  BY <1>7, LockUntouched DEF CloseOnExit, ClientDetectsLoss, clientVars
<1>8. ASSUME NEW c \in HostConns, WorldStep(c) PROVE LockInv'
  BY <1>8, LockUntouched DEF WorldStep, ServerSends, ServerReads, ServerDrops, ServerEnds,
     ConnectionBreaks, clientVars
<1> QED
  BY <1>1, <1>2, <1>3, <1>4, <1>5, <1>6, <1>7, <1>8 DEF Next, ClientNext, OtherSteps, WorldNext

LEMMA LockInit == Init => LockInv
<1> SUFFICES ASSUME Init PROVE LockInv
  OBVIOUS
<1>1. /\ pc = [p \in Coroutines |-> IF p = "run" THEN "connect" ELSE "off"]
      /\ is_reconnecting = TRUE
  BY DEF Init, ClientInit
<1>2. Connecting = {"run"}
  BY <1>1 DEF Connecting, Coroutines
<1> QED
  BY <1>1, <1>2 DEF LockInv, OneConnector, PcStates

\* is_reconnecting is a lock: at most one coroutine is ever in
\* connect_to_server, and the flag says whether one is.
THEOREM OneConnectorCorrect == Spec => []OneConnector
<1>1. LockInv => OneConnector
  BY DEF LockInv
<1> QED
  BY <1>1, LockInit, LockStep, PTL DEF Spec

-----------------------------------------------------------------------------
(* The types of the connections.                                           *)

LEMMA HostFacts == Host \in IPs /\ HostConns \subseteq Conns /\ NoConn \notin HostConns
BY ClientAssumption DEF ClientAssumption, HostConns

LEMMA LinesAreTyped ==
  /\ ResultLines \subseteq ClientLines /\ Heartbeat \in ClientLines /\ Eof \in ClientLines
  /\ NullResult \in ResultLines
  /\ \A t \in Tasks, o \in Statuses : Result(t, o) \in ResultLines
BY DEF ResultLines, ClientLines, Result, Results

LEMMA NetOpens ==
  ASSUME NetTypeOK, NEW c \in Conns, Open(c)
  PROVE  NetTypeOK'
BY DEF NetTypeOK, Open, LinkStates

LEMMA NetClientWrites ==
  ASSUME NetTypeOK, NEW c \in Conns, NEW line \in ClientLines, ClientWrites(c, line)
  PROVE  NetTypeOK'
<1>1. Append(toServer[c], line) \in Seq(ClientLines)
  BY DEF NetTypeOK
<1> QED
  BY <1>1 DEF NetTypeOK, ClientWrites

LEMMA NetServerWrites ==
  ASSUME NetTypeOK, NEW c \in Conns, NEW t \in Tasks, ServerWrites(c, t)
  PROVE  NetTypeOK'
<1>1. Append(toClient[c], t) \in Seq(Tasks)
  BY DEF NetTypeOK
<1> QED
  BY <1>1 DEF NetTypeOK, ServerWrites

LEMMA NetCloses ==
  ASSUME NetTypeOK, NEW c \in Conns, CloseByClient(c)
  PROVE  NetTypeOK'
<1>1. Append(toServer[c], Eof) \in Seq(ClientLines) /\ << >> \in Seq(Tasks)
  BY LinesAreTyped DEF NetTypeOK
<1> QED
  BY <1>1 DEF NetTypeOK, CloseByClient, LinkStates

LEMMA NetBreaks ==
  ASSUME NetTypeOK, NEW c \in Conns, Break(c)
  PROVE  NetTypeOK'
<1>1. toServer[c] \in Seq(ClientLines) /\ toClient[c] \in Seq(Tasks)
  BY DEF NetTypeOK
<1>2. /\ \A k \in 0..Len(toServer[c]) : SubSeq(toServer[c], 1, k) \in Seq(ClientLines)
      /\ \A m \in 0..Len(toClient[c]) : SubSeq(toClient[c], 1, m) \in Seq(Tasks)
  BY <1>1, PrefixRange
<1> QED
  BY <1>2 DEF NetTypeOK, Break, LinkStates

LEMMA NetServerReads ==
  ASSUME NetTypeOK, NEW c \in Conns, toServer[c] # << >>,
         toServer' = [toServer EXCEPT ![c] = Tail(@)], UNCHANGED <<link, toClient>>
  PROVE  NetTypeOK'
<1>1. Tail(toServer[c]) \in Seq(ClientLines)
  BY DEF NetTypeOK
<1> QED
  BY <1>1 DEF NetTypeOK

LEMMA NetClientReads ==
  ASSUME NetTypeOK, NEW c \in Conns, toClient[c] # << >>,
         toClient' = [toClient EXCEPT ![c] = Tail(@)], UNCHANGED <<link, toServer>>
  PROVE  NetTypeOK'
<1>1. Tail(toClient[c]) \in Seq(Tasks)
  BY DEF NetTypeOK
<1> QED
  BY <1>1 DEF NetTypeOK

-----------------------------------------------------------------------------
(* The types of the client's own state.                                    *)

MoreTypes ==
    /\ retries \in 0..(MAX_RETRIES + 1)
    /\ conn \in HostConns \cup {NoConn}
    /\ readingFrom \in HostConns \cup {NoConn}
    /\ failed \in SUBSET HostConns
    /\ ended \in SUBSET HostConns
    /\ taskQueue \in Seq(Tasks)
    /\ executing \in SUBSET Tasks
    /\ taskResultQueue \in Seq(ResultLines)
    /\ sending \in SUBSET ResultLines
    /\ drainingOn \in [{"send", "heartbeat"} -> HostConns \cup {NoConn}]
    /\ spinning \in BOOLEAN
    /\ exited \in BOOLEAN
    /\ received \in [IPs -> SUBSET Tasks]

\* Nothing runs before the first connection, and an attempt to connect is one of
\* those that are allowed.
ConnectedInv ==
    /\ conn = NoConn \/ readingFrom = NoConn =>
         \A p \in Coroutines \ {"run"} : pc[p] = "off"
    /\ \A p \in Coroutines : pc[p] = "connect" => retries <= MAX_RETRIES

TypeInv == NetTypeOK /\ LockInv /\ MoreTypes /\ ConnectedInv

LEMMA TypesInParts == TypeInv => TypeOK
BY DEF TypeInv, LockInv, MoreTypes, TypeOK

\* A coroutine besides run has a connection to work on.
LEMMA RunningIsConnected ==
  ASSUME TypeInv, NEW p \in Coroutines \ {"run"}, pc[p] # "off"
  PROVE  conn \in HostConns /\ readingFrom \in HostConns
BY DEF TypeInv, MoreTypes, ConnectedInv

\* A call of connect_to_server keeps the types of what it changes.
LEMMA CallTypes ==
  ASSUME TypeInv, NEW p \in Coroutines \ {"run"}, pc[p] # "off", CallConnect(p),
         UNCHANGED conn
  PROVE  /\ retries' \in 0..(MAX_RETRIES + 1)
         /\ readingFrom' \in HostConns
         /\ ConnectedInv'
<1>1. conn \in HostConns /\ readingFrom \in HostConns
  BY RunningIsConnected
<1>2. readingFrom' \in HostConns /\ conn' # NoConn /\ readingFrom' # NoConn
  BY <1>1, HostFacts DEF CallConnect
<1>3. retries' \in 0..(MAX_RETRIES + 1)
  BY ClientAssumption DEF ClientAssumption, CallConnect, TypeInv, MoreTypes
<1>4. \A q \in Coroutines : pc'[q] = "connect" => retries' <= MAX_RETRIES
  <2>1. Home[p] # "connect"
    BY HomeIsOutside
  <2>2. CASE is_reconnecting
    BY <2>1, <2>2 DEF CallConnect, TypeInv, LockInv, ConnectedInv
  <2>3. CASE ~is_reconnecting
    BY <2>3, ClientAssumption DEF ClientAssumption, CallConnect
  <2> QED
    BY <2>2, <2>3
<1> QED
  BY <1>2, <1>3, <1>4 DEF ConnectedInv

\* So does a coroutine that moves, outside connect_to_server.
LEMMA MoveConnected ==
  ASSUME TypeInv, NEW p \in Coroutines \ {"run"}, pc[p] # "off", NEW s \in PcStates \ {"connect"},
         pc' = [pc EXCEPT ![p] = s], UNCHANGED <<conn, retries>>,
         readingFrom' \in {readingFrom, conn}
  PROVE  ConnectedInv'
<1>1. conn \in HostConns /\ readingFrom \in HostConns
  BY RunningIsConnected
<1> QED
  BY <1>1, HostFacts DEF TypeInv, LockInv, ConnectedInv

LEMMA ConnectorTypes ==
  ASSUME TypeInv, NEW p \in Coroutines, Connector(p)
  PROVE  NetTypeOK' /\ MoreTypes' /\ ConnectedInv'
<1> USE HostFacts DEF TypeInv, lock, ends, queueVars, drainVars, halted, world
<1>0. pc \in [Coroutines -> PcStates] /\ MAX_RETRIES \in Nat
  BY ClientAssumption DEF ClientAssumption, LockInv
<1>1. CASE Connects(p)
  <2>1. PICK c \in HostConns : /\ Open(c) /\ conn' = c
          /\ readingFrom' = IF p \in {"run", "receive"} THEN c ELSE readingFrom
    BY <1>1 DEF Connects
  <2>2. NetTypeOK'
    BY <2>1, NetOpens
  <2>3. MoreTypes'
    BY <1>1, <2>1 DEF Connects, MoreTypes
  <2>4. p # "run" => readingFrom \in HostConns
    BY <1>1, RunningIsConnected DEF Connects
  <2>5. \A q \in Coroutines : pc'[q] = "connect" => pc[q] = "connect"
    BY <1>0, <1>1, HomeIsOutside DEF Connects
  <2>6. ConnectedInv'
    BY <1>1, <2>1, <2>4, <2>5 DEF Connects, ConnectedInv
  <2> QED
    BY <2>2, <2>3, <2>6
<1>2. CASE ConnectFails(p)
  <2>1. retries <= MAX_RETRIES /\ \A q \in Coroutines : pc[q] = "connect" => q = p
    BY <1>2 DEF ConnectFails, ConnectedInv, LockInv, OneConnector, Connecting
  <2>2. MoreTypes'
    BY <1>0, <1>2, <2>1 DEF ConnectFails, MoreTypes
  <2>3. ConnectedInv'
    BY <1>0, <1>2, <2>1 DEF ConnectFails, ConnectedInv
  <2> QED
    BY <1>2, <2>2, <2>3 DEF ConnectFails, netVars, NetTypeOK
<1>3. CASE RetryConnect(p)
  <2>1. MoreTypes'
    BY <1>3 DEF RetryConnect, MoreTypes
  <2>2. ConnectedInv'
    BY <1>0, <1>3 DEF RetryConnect, ConnectedInv
  <2> QED
    BY <1>3, <2>1, <2>2 DEF RetryConnect, netVars, NetTypeOK
<1>4. CASE GiveUp(p)
  BY <1>4 DEF GiveUp, MoreTypes, ConnectedInv, netVars, NetTypeOK
<1> QED
  BY <1>1, <1>2, <1>3, <1>4 DEF Connector

LEMMA ReceiverTypes ==
  ASSUME TypeInv, Receiver
  PROVE  NetTypeOK' /\ MoreTypes' /\ ConnectedInv'
<1> USE HostFacts DEF lock, ends, queueVars, drainVars, halted, world
<1>0. "receive" \in Coroutines \ {"run"} /\ "pause" \in PcStates \ {"connect"}
  BY DEF Coroutines, PcStates
<1>1. pc["receive"] # "off" /\ conn \in HostConns /\ readingFrom \in HostConns
  <2>1. pc["receive"] # "off"
    BY DEF Receiver, ReceiveTask, ReceiveFails, ReceiveReconnects, ReceiveEof
  <2> QED
    BY <1>0, <2>1, RunningIsConnected
<1>2. CASE ReceiveTask
  <2>1. toClient[readingFrom] \in Seq(Tasks) /\ toClient[readingFrom] # << >>
    BY <1>1, <1>2 DEF ReceiveTask, TypeInv, NetTypeOK
  <2>2. Head(toClient[readingFrom]) \in Tasks
    BY <2>1
  <2>3. NetTypeOK'
    <3>1. readingFrom \in Conns
      BY <1>1
    <3>2. toClient' = [toClient EXCEPT ![readingFrom] = Tail(@)] /\ UNCHANGED <<link, toServer>>
      BY <1>2 DEF ReceiveTask
    <3> QED
      BY <2>1, <3>1, <3>2, NetClientReads DEF TypeInv
  <2>4. Append(taskQueue, Head(toClient[readingFrom])) \in Seq(Tasks)
    BY <2>2 DEF TypeInv, MoreTypes
  <2>5. MoreTypes'
    BY <1>1, <1>2, <2>2, <2>4 DEF ReceiveTask, TypeInv, MoreTypes
  <2>6. ConnectedInv'
    BY <1>1, <1>2 DEF ReceiveTask, TypeInv, ConnectedInv
  <2> QED
    BY <2>3, <2>5, <2>6
<1>3. CASE ReceiveFails
  <2>1. ConnectedInv'
    BY <1>0, <1>1, <1>3, MoveConnected DEF ReceiveFails
  <2> QED
    BY <1>3, <2>1 DEF ReceiveFails, TypeInv, MoreTypes, netVars, NetTypeOK
<1>4. CASE ReceiveReconnects
  <2>1. CallConnect("receive") /\ UNCHANGED conn
    BY <1>4 DEF ReceiveReconnects
  <2>2. /\ retries' \in 0..(MAX_RETRIES + 1) /\ readingFrom' \in HostConns
        /\ ConnectedInv'
    BY <1>0, <1>1, <2>1, CallTypes
  <2> QED
    BY <1>4, <2>2 DEF ReceiveReconnects, TypeInv, MoreTypes, netVars, NetTypeOK
<1>5. CASE ReceiveEof
  BY <1>1, <1>5 DEF ReceiveEof, TypeInv, MoreTypes, netVars, NetTypeOK, ConnectedInv
<1> QED
  BY <1>2, <1>3, <1>4, <1>5 DEF Receiver

LEMMA ProcessorTypes ==
  ASSUME TypeInv, Processor
  PROVE  NetTypeOK' /\ MoreTypes' /\ ConnectedInv'
<1> USE DEF lock, ends, queueVars, drainVars, halted, world
<1>0. "process" \in Coroutines \ {"run"} /\ {"get", "execute"} \subseteq PcStates \ {"connect"}
  BY DEF Coroutines, PcStates
<1>1. CASE TakeTask
  <2>1. Head(taskQueue) \in Tasks /\ Tail(taskQueue) \in Seq(Tasks)
    BY <1>1 DEF TakeTask, TypeInv, MoreTypes
  <2>2. ConnectedInv'
    BY <1>0, <1>1, MoveConnected DEF TakeTask
  <2> QED
    BY <1>1, <2>1, <2>2 DEF TakeTask, TypeInv, MoreTypes, netVars, NetTypeOK
<1>2. ASSUME NEW o \in Outcomes, FinishTaskWith(o) PROVE NetTypeOK' /\ MoreTypes' /\ ConnectedInv'
  <2>1. PICK t \in executing : taskResultQueue' =
          Append(taskResultQueue, IF o = "null" THEN NullResult ELSE Result(t, o))
    BY <1>2 DEF FinishTaskWith
  <2>2. (IF o = "null" THEN NullResult ELSE Result(t, o)) \in ResultLines
    BY ClientAssumption, LinesAreTyped DEF ClientAssumption, TypeInv, MoreTypes
  <2>3. taskResultQueue' \in Seq(ResultLines)
    <3>1. taskResultQueue \in Seq(ResultLines)
      BY DEF TypeInv, MoreTypes
    <3> QED
      BY <2>1, <2>2, <3>1, AppendRange
  <2>4. ConnectedInv'
    BY <1>0, <1>2, MoveConnected DEF FinishTaskWith
  <2> QED
    BY <1>2, <2>3, <2>4 DEF FinishTaskWith, TypeInv, MoreTypes, netVars, NetTypeOK
<1> QED
  BY <1>1, <1>2 DEF Processor, FinishTask

LEMMA SenderTypes ==
  ASSUME TypeInv, Sender
  PROVE  NetTypeOK' /\ MoreTypes' /\ ConnectedInv'
<1> USE HostFacts DEF lock, ends, queueVars, drainVars, halted, world
<1>0. "send" \in Coroutines \ {"run"} /\ {"get", "drain", "pause"} \subseteq PcStates \ {"connect"}
  BY DEF Coroutines, PcStates
<1>1. pc["send"] # "off" /\ conn \in HostConns /\ readingFrom \in HostConns
  <2>1. pc["send"] # "off"
    BY DEF Sender, SendDrops, SendWrites, SendFails, SendDrained, SendDrainFails, SendReconnects,
       HasResult, Drained, DrainRaises
  <2> QED
    BY <1>0, <2>1, RunningIsConnected
<1>2. taskResultQueue \in Seq(ResultLines) /\ taskQueue \in Seq(Tasks)
  BY DEF TypeInv, MoreTypes
<1>3. HasResult => /\ Head(taskResultQueue) \in ResultLines
                   /\ Tail(taskResultQueue) \in Seq(ResultLines)
                   /\ Append(Tail(taskResultQueue), Head(taskResultQueue)) \in Seq(ResultLines)
  BY <1>2, HeadInRange, TailRange, AppendRange DEF HasResult
<1>4. CASE SendDrops
  BY <1>3, <1>4 DEF SendDrops, TypeInv, MoreTypes, netVars, NetTypeOK, ConnectedInv
<1>5. CASE SendWrites
  <2>1. NetTypeOK'
    <3>1. conn \in Conns /\ Head(taskResultQueue) \in ClientLines
          /\ ClientWrites(conn, Head(taskResultQueue))
      BY <1>1, <1>3, <1>5, LinesAreTyped DEF SendWrites
    <3> QED
      BY <3>1, NetClientWrites DEF TypeInv
  <2>2. ConnectedInv'
    <3>1. CASE pc' = [pc EXCEPT !["send"] = "drain"]
      BY <1>0, <1>1, <1>5, <3>1, MoveConnected DEF SendWrites
    <3>2. CASE pc' = pc
      BY <1>1, <1>5, <3>2 DEF SendWrites, TypeInv, ConnectedInv
    <3> QED
      BY <1>5, <3>1, <3>2 DEF SendWrites
  <2>3. sending' \in SUBSET ResultLines
        /\ drainingOn' \in [{"send", "heartbeat"} -> HostConns \cup {NoConn}]
    BY <1>1, <1>3, <1>5 DEF SendWrites, TypeInv, MoreTypes
  <2> QED
    BY <1>3, <1>5, <2>1, <2>2, <2>3 DEF SendWrites, TypeInv, MoreTypes
<1>6. CASE SendFails
  <2>1. ConnectedInv'
    BY <1>0, <1>1, <1>6, MoveConnected DEF SendFails
  <2> QED
    BY <1>1, <1>3, <1>6, <2>1 DEF SendFails, TypeInv, MoreTypes, netVars, NetTypeOK
<1>7. CASE SendDrained
  <2>1. ConnectedInv'
    BY <1>0, <1>1, <1>7, MoveConnected DEF SendDrained
  <2> QED
    BY <1>7, <2>1 DEF SendDrained, TypeInv, MoreTypes, netVars, NetTypeOK
<1>8. CASE SendDrainFails
  <2>1. ConnectedInv'
    BY <1>0, <1>1, <1>8, MoveConnected DEF SendDrainFails
  <2>2. taskResultQueue' \in Seq(ResultLines)
    <3>1. PICK r \in sending : taskResultQueue' = Append(taskResultQueue, r)
      BY <1>8 DEF SendDrainFails
    <3>2. r \in ResultLines
      BY DEF TypeInv, MoreTypes
    <3> QED
      BY <1>2, <3>1, <3>2, AppendRange
  <2> QED
    BY <1>8, <2>1, <2>2 DEF SendDrainFails, TypeInv, MoreTypes, netVars, NetTypeOK
<1>9. CASE SendReconnects
  <2>1. CallConnect("send") /\ UNCHANGED conn
    BY <1>9 DEF SendReconnects
  <2>2. /\ retries' \in 0..(MAX_RETRIES + 1) /\ readingFrom' \in HostConns
        /\ ConnectedInv'
    BY <1>0, <1>1, <2>1, CallTypes
  <2> QED
    BY <1>9, <2>2 DEF SendReconnects, TypeInv, MoreTypes, netVars, NetTypeOK
<1> QED
  BY <1>4, <1>5, <1>6, <1>7, <1>8, <1>9 DEF Sender

LEMMA HeartTypes ==
  ASSUME TypeInv, Heart
  PROVE  NetTypeOK' /\ MoreTypes' /\ ConnectedInv'
<1> USE HostFacts DEF lock, ends, queueVars, drainVars, halted, world
<1>0. "heartbeat" \in Coroutines \ {"run"} /\ {"sleep", "drain"} \subseteq PcStates \ {"connect"}
  BY DEF Coroutines, PcStates
<1>1. pc["heartbeat"] # "off" /\ conn \in HostConns /\ readingFrom \in HostConns
  <2>1. pc["heartbeat"] # "off"
    BY DEF Heart, HeartbeatWrites, HeartbeatDrains, HeartbeatDrained, HeartbeatDrainFails,
       HeartbeatFails, Drained, DrainRaises
  <2> QED
    BY <1>0, <2>1, RunningIsConnected
<1>2. CASE HeartbeatWrites
  <2>1. NetTypeOK'
    BY <1>1, <1>2, LinesAreTyped, NetClientWrites DEF HeartbeatWrites, TypeInv
  <2> QED
    BY <1>2, <2>1 DEF HeartbeatWrites, clientVars, TypeInv, MoreTypes, ConnectedInv
<1>3. CASE HeartbeatDrains
  <2>1. ConnectedInv'
    BY <1>0, <1>1, <1>3, MoveConnected DEF HeartbeatDrains
  <2> QED
    BY <1>1, <1>3, <2>1 DEF HeartbeatDrains, TypeInv, MoreTypes, netVars, NetTypeOK
<1>4. CASE HeartbeatDrained
  <2>1. ConnectedInv'
    BY <1>0, <1>1, <1>4, MoveConnected DEF HeartbeatDrained
  <2> QED
    BY <1>4, <2>1 DEF HeartbeatDrained, TypeInv, MoreTypes, netVars, NetTypeOK
<1>5. CASE HeartbeatDrainFails \/ HeartbeatFails
  <2>1. CallConnect("heartbeat") /\ UNCHANGED <<world, queueVars, drainVars, halted, conn>>
        /\ failed' \in SUBSET HostConns
    BY <1>1, <1>5 DEF HeartbeatDrainFails, HeartbeatFails, TypeInv, MoreTypes
  <2>2. /\ retries' \in 0..(MAX_RETRIES + 1) /\ readingFrom' \in HostConns
        /\ ConnectedInv'
    BY <1>0, <1>1, <2>1, CallTypes
  <2> QED
    BY <2>1, <2>2 DEF TypeInv, MoreTypes, netVars, NetTypeOK
<1> QED
  BY <1>2, <1>3, <1>4, <1>5 DEF Heart

\* The loop, the kernel, the server and the network.
LEMMA WorldTypes ==
  ASSUME TypeInv, NEW c \in HostConns,
         CloseOnExit(c) \/ ClientDetectsLoss(c) \/ WorldStep(c)
  PROVE  NetTypeOK' /\ MoreTypes' /\ ConnectedInv'
<1> USE HostFacts DEF lock, ends, queueVars, drainVars, halted, world
<1>1. NetTypeOK'
  <2>1. c \in Conns /\ NetTypeOK
    BY DEF TypeInv
  <2>2. CASE CloseOnExit(c)
    BY <2>1, <2>2, NetCloses DEF CloseOnExit
  <2>3. CASE ServerSends(c)
    BY <2>1, <2>3, NetServerWrites DEF ServerSends
  <2>4. CASE ServerReads(c)
    BY <2>1, <2>4, NetServerReads DEF ServerReads
  <2>5. CASE ConnectionBreaks(c)
    BY <2>1, <2>5, NetBreaks DEF ConnectionBreaks
  <2>6. CASE ClientDetectsLoss(c) \/ ServerEnds(c)
    BY <2>1, <2>6 DEF ClientDetectsLoss, ServerEnds, netVars, NetTypeOK
  <2>7. CASE ServerDrops(c)
    BY <2>1, <2>7 DEF ServerDrops, NetTypeOK
  <2> QED
    BY <2>2, <2>3, <2>4, <2>5, <2>6, <2>7 DEF WorldStep
<1>2. UNCHANGED <<pc, lock, ends, queueVars, drainVars, halted, received>>
  BY DEF CloseOnExit, ClientDetectsLoss, WorldStep, ServerSends, ServerReads,
     ServerDrops, ServerEnds, ConnectionBreaks, clientVars
<1>3. failed' \in {failed, failed \cup {c}} /\ ended' \in {ended, ended \cup {c}}
  BY DEF CloseOnExit, ClientDetectsLoss, WorldStep, ServerSends, ServerReads,
     ServerDrops, ServerEnds, ConnectionBreaks, clientVars
<1> QED
  BY <1>1, <1>2, <1>3 DEF TypeInv, MoreTypes, ConnectedInv

LEMMA TypeInvNext ==
  ASSUME TypeInv, [Next]_vars
  PROVE  TypeInv'
<1>1. LockInv'
  BY LockStep DEF TypeInv
<1>2. NetTypeOK' /\ MoreTypes' /\ ConnectedInv'
  <2>1. CASE UNCHANGED vars
    BY <2>1 DEF vars, world, netVars, clientVars, lock, ends, queueVars, drainVars, halted,
       TypeInv, NetTypeOK, MoreTypes, ConnectedInv
  <2>2. CASE Next
    BY <2>2, ConnectorTypes, ReceiverTypes, ProcessorTypes, SenderTypes, HeartTypes, WorldTypes
       DEF Next, ClientNext, OtherSteps, WorldNext
  <2> QED
    BY <2>1, <2>2
<1> QED
  BY <1>1, <1>2 DEF TypeInv

LEMMA TypeInvInit == Init => TypeInv
<1> SUFFICES ASSUME Init PROVE TypeInv
  OBVIOUS
<1>1. << >> \in Seq(Tasks) /\ << >> \in Seq(ResultLines) /\ << >> \in Seq(ClientLines)
  OBVIOUS
<1>2. NetTypeOK
  BY <1>1 DEF Init, NetInit, NetTypeOK, LinkStates
<1>3. MAX_RETRIES \in Nat
  BY ClientAssumption DEF ClientAssumption
<1>4. MoreTypes
  <2>1. 0 \in 0..(MAX_RETRIES + 1)
    BY <1>3
  <2>2. /\ taskQueue = << >> /\ taskResultQueue = << >>
        /\ drainingOn \in [{"send", "heartbeat"} -> HostConns \cup {NoConn}]
        /\ received \in [IPs -> SUBSET Tasks]
    BY DEF Init, ClientInit
  <2>3. /\ conn = NoConn /\ readingFrom = NoConn /\ retries = 0
        /\ failed = {} /\ ended = {} /\ executing = {} /\ sending = {}
        /\ spinning = FALSE /\ exited = FALSE
    BY DEF Init, ClientInit
  <2> QED
    BY <1>1, <2>1, <2>2, <2>3 DEF MoreTypes
<1>5. ConnectedInv
  BY <1>3 DEF Init, ClientInit, ConnectedInv, Coroutines
<1> QED
  BY <1>2, <1>4, <1>5, LockInit DEF TypeInv

LEMMA TypeInvHolds == Spec => []TypeInv
BY TypeInvInit, TypeInvNext, PTL DEF Spec

\* The client's state keeps its types, for any tasks, connections, retries and
\* buffers: nothing is read or written before there is a connection.
THEOREM TypeCorrect == Spec => []TypeOK
BY TypeInvHolds, TypesInParts, PTL

-----------------------------------------------------------------------------
(* The lines: what the client has for the server, and where they come from. *)

\* A line of the client that is written on its connection, or lost.
LEMMA WrittenRange ==
  ASSUME TypeInv, NEW c \in HostConns, NEW line \in ClientLines, ClientWrites(c, line)
  PROVE  /\ \A d \in Conns : Range(toServer'[d]) \subseteq Range(toServer[d]) \cup {line}
         /\ toClient' = toClient
<1>1. toServer \in [Conns -> Seq(ClientLines)] /\ c \in Conns
  BY HostFacts DEF TypeInv, NetTypeOK
<1>2. Range(Append(toServer[c], line)) = Range(toServer[c]) \cup {line}
  BY <1>1, AppendRange
<1> QED
  BY <1>1, <1>2, HostFacts DEF ClientWrites

\* process_tasks executes one task at a time, and has none when it waits for one;
\* it is started when run() has connected.
OneTask ==
    /\ \A t, u \in executing : t = u
    /\ pc["process"] # "execute" => executing = {}
    /\ pc["run"] # "gather" => pc["process"] = "off"

LEMMA OneTaskNext ==
  ASSUME TypeInv, OneTask, [Next]_vars
  PROVE  OneTask'
<1> USE DEF lock, ends, queueVars, drainVars, halted, world, netVars, clientVars
<1>1. pc \in [Coroutines -> PcStates] /\ {"run", "process"} \subseteq Coroutines
      /\ Home["run"] = "gather" /\ Home["process"] = "get"
  BY DEF TypeInv, LockInv, Coroutines, Home
<1>2. CASE UNCHANGED <<executing, pc>>
  BY <1>2 DEF OneTask
<1>3. ASSUME NEW p \in Coroutines, Connector(p) PROVE OneTask'
  <2>1. CASE Connects(p)
    <3>1. UNCHANGED executing /\ pc[p] = "connect"
          /\ pc' = IF p = "run" THEN Home ELSE [pc EXCEPT ![p] = Home[p]]
      BY <2>1 DEF Connects
    <3>2. CASE p = "run"
      BY <1>1, <3>1, <3>2 DEF OneTask
    <3>3. CASE p # "run"
      BY <1>1, <3>1, <3>3 DEF OneTask
    <3> QED
      BY <3>2, <3>3
  <2>2. CASE ConnectFails(p)
    BY <1>1, <2>2 DEF ConnectFails, OneTask
  <2>3. CASE RetryConnect(p)
    BY <1>1, <2>3 DEF RetryConnect, OneTask
  <2>4. CASE GiveUp(p)
    BY <1>2, <2>4 DEF GiveUp
  <2> QED
    BY <1>3, <2>1, <2>2, <2>3, <2>4 DEF Connector
<1>4. CASE Processor
  <2>1. CASE TakeTask
    BY <1>1, <2>1 DEF TakeTask, OneTask
  <2>2. CASE FinishTask
    BY <1>1, <2>2 DEF FinishTask, FinishTaskWith, OneTask
  <2> QED
    BY <1>4, <2>1, <2>2 DEF Processor
<1>5. CASE Receiver \/ Sender \/ Heart
  <2>1. UNCHANGED executing /\ pc'["process"] = pc["process"] /\ pc'["run"] = pc["run"]
    BY <1>1, <1>5 DEF CallConnect,
       Receiver, ReceiveTask, ReceiveFails, ReceiveReconnects, ReceiveEof,
       Sender, SendDrops, SendWrites, SendFails, SendDrained, SendDrainFails, SendReconnects,
       Heart, HeartbeatWrites, HeartbeatDrains, HeartbeatDrained, HeartbeatDrainFails,
       HeartbeatFails
  <2> QED
    BY <2>1 DEF OneTask
<1>6. ASSUME NEW c \in HostConns,
             CloseOnExit(c) \/ ClientDetectsLoss(c) \/ WorldStep(c)
      PROVE  UNCHANGED <<executing, pc>>
  BY <1>6 DEF CloseOnExit, ClientDetectsLoss, WorldStep, ServerSends, ServerReads,
     ServerDrops, ServerEnds, ConnectionBreaks
<1>7. CASE UNCHANGED vars
  BY <1>2, <1>7 DEF vars
<1> QED
  BY <1>2, <1>3, <1>4, <1>5, <1>6, <1>7 DEF Next, ClientNext, OtherSteps, WorldNext

LEMMA OneTaskInit == Init => OneTask
BY DEF Init, ClientInit, OneTask, Coroutines

OnWire == UNION {Range(toServer[c]) : c \in Conns}
Lines == Range(taskResultQueue) \cup sending \cup OnWire

\* Lines that say nothing of a task.
Others == {Heartbeat, Eof, NullResult}

\* A line written on one connection, or on none.
LEMMA WireGrows ==
  ASSUME NEW X, \A c \in Conns : Range(toServer'[c]) \subseteq Range(toServer[c]) \cup X
  PROVE  OnWire' \subseteq OnWire \cup X
BY DEF OnWire

LEMMA LinesOfWorld ==
  ASSUME TypeInv, NEW c \in HostConns,
         CloseOnExit(c) \/ ClientDetectsLoss(c) \/ WorldStep(c)
  PROVE  Lines' \subseteq Lines \cup Others
<1> USE HostFacts
<1>1. toServer \in [Conns -> Seq(ClientLines)] /\ toClient \in [Conns -> Seq(Tasks)]
      /\ c \in Conns /\ Eof \in ClientLines
  BY LinesAreTyped DEF TypeInv, NetTypeOK
<1>2. UNCHANGED <<taskResultQueue, sending>>
  BY DEF CloseOnExit, ClientDetectsLoss, WorldStep, ServerSends, ServerReads,
     ServerDrops, ServerEnds, ConnectionBreaks, clientVars, queueVars, drainVars
<1>3. \A d \in Conns : Range(toServer'[d]) \subseteq Range(toServer[d]) \cup Others
  <2>1. CASE CloseOnExit(c)
    <3>1. toServer' = [toServer EXCEPT ![c] = Append(@, Eof)]
      BY <2>1 DEF CloseOnExit, CloseByClient
    <3>2. Range(Append(toServer[c], Eof)) = Range(toServer[c]) \cup {Eof}
      BY <1>1, AppendRange
    <3> QED
      BY <1>1, <3>1, <3>2 DEF Others
  <2>2. CASE ServerReads(c)
    <3>1. toServer' = [toServer EXCEPT ![c] = Tail(@)] /\ toServer[c] # << >>
      BY <2>2 DEF ServerReads
    <3>2. Range(Tail(toServer[c])) \subseteq Range(toServer[c])
      BY <1>1, <3>1, TailRange
    <3> QED
      BY <1>1, <3>1, <3>2
  <2>3. CASE ConnectionBreaks(c)
    <3>1. PICK k \in 0..Len(toServer[c]) : toServer' = [toServer EXCEPT ![c] = SubSeq(@, 1, k)]
      BY <2>3 DEF ConnectionBreaks, Break
    <3>2. Range(SubSeq(toServer[c], 1, k)) \subseteq Range(toServer[c])
      BY <1>1, PrefixRange
    <3> QED
      BY <1>1, <3>1, <3>2
  <2>4. CASE ClientDetectsLoss(c) \/ ServerSends(c) \/ ServerEnds(c)
    BY <2>4 DEF ClientDetectsLoss, ServerSends, ServerWrites, ServerEnds, world, netVars
  <2>5. CASE ServerDrops(c)
    BY <1>1, <2>5, EmptyRange DEF ServerDrops
  <2> QED
    BY <2>1, <2>2, <2>3, <2>4, <2>5 DEF WorldStep
<1> QED
  BY <1>2, <1>3, WireGrows DEF Lines

LEMMA LinesOfSender ==
  ASSUME TypeInv, Sender
  PROVE  Lines' \subseteq Lines
<1> USE DEF lock, ends, queueVars, drainVars, halted, world, netVars
<1>1. taskResultQueue \in Seq(ResultLines) /\ sending \subseteq ResultLines
  BY DEF TypeInv, MoreTypes
<1>2. HasResult => /\ Head(taskResultQueue) \in Range(taskResultQueue)
                   /\ Head(taskResultQueue) \in ResultLines
                   /\ Tail(taskResultQueue) \in Seq(ResultLines)
                   /\ Range(Tail(taskResultQueue)) \subseteq Range(taskResultQueue)
  BY <1>1, HeadInRange, TailRange DEF HasResult
<1>3. CASE SendDrops
  BY <1>2, <1>3 DEF SendDrops, Lines, OnWire
<1>4. CASE SendWrites
  <2> DEFINE h == Head(taskResultQueue)
  <2>1. HasResult /\ ClientWrites(conn, h) /\ taskResultQueue' = Tail(taskResultQueue)
        /\ sending' \in {sending, {h}}
    BY <1>4 DEF SendWrites
  <2>2. conn \in HostConns /\ h \in ClientLines
    <3>1. "send" \in Coroutines \ {"run"} /\ pc["send"] # "off"
      BY <2>1 DEF HasResult, Coroutines
    <3> QED
      BY <1>2, <2>1, <3>1, RunningIsConnected, LinesAreTyped
  <2>3. \A d \in Conns : Range(toServer'[d]) \subseteq Range(toServer[d]) \cup {h}
    BY <2>1, <2>2, WrittenRange
  <2>4. OnWire' \subseteq OnWire \cup {h}
    BY <2>3, WireGrows
  <2> QED
    BY <1>2, <2>1, <2>4 DEF Lines
<1>5. CASE SendFails
  <2>1. /\ HasResult /\ UNCHANGED <<sending, toServer>>
        /\ taskResultQueue' = Append(Tail(taskResultQueue), Head(taskResultQueue))
    BY <1>5 DEF SendFails
  <2>2. /\ Tail(taskResultQueue) \in Seq(ResultLines)
        /\ Head(taskResultQueue) \in ResultLines
    BY <1>2, <2>1
  <2>3. \A s \in Seq(ResultLines), r \in ResultLines : Range(Append(s, r)) = Range(s) \cup {r}
    BY AppendRange
  <2>4. Range(taskResultQueue') = Range(Tail(taskResultQueue)) \cup {Head(taskResultQueue)}
    BY <2>1, <2>2, <2>3, Zenon
  <2> QED
    BY <1>2, <2>1, <2>4 DEF Lines, OnWire
<1>6. CASE SendDrainFails
  <2>1. PICK r \in sending : taskResultQueue' = Append(taskResultQueue, r)
    BY <1>6 DEF SendDrainFails
  <2>2. Range(taskResultQueue') = Range(taskResultQueue) \cup {r}
    BY <1>1, <2>1, AppendRange
  <2> QED
    BY <1>6, <2>2 DEF SendDrainFails, Lines, OnWire
<1>7. CASE SendDrained \/ SendReconnects
  BY <1>7 DEF SendDrained, SendReconnects, Lines, OnWire
<1> QED
  BY <1>3, <1>4, <1>5, <1>6, <1>7 DEF Sender

\* No step but the end of a task adds a result: what is sent again was there.
LEMMA LinesStay ==
  ASSUME TypeInv, TakeTask \/ OtherSteps \/ WorldNext \/ UNCHANGED vars
  PROVE  Lines' \subseteq Lines \cup Others
<1> USE DEF lock, ends, queueVars, drainVars, halted, world, netVars
<1>1. CASE UNCHANGED <<taskResultQueue, sending, toServer>>
  BY <1>1 DEF Lines, OnWire
<1>2. ASSUME NEW p \in Coroutines, Connector(p) PROVE Lines' \subseteq Lines \cup Others
  BY <1>1, <1>2 DEF Connector, Connects, Open, ConnectFails, RetryConnect, GiveUp
<1>3. CASE Receiver \/ TakeTask
  BY <1>1, <1>3 DEF Receiver, ReceiveTask, ReceiveFails, ReceiveReconnects, ReceiveEof, TakeTask
<1>4. CASE Heart
  <2>1. CASE HeartbeatWrites
    <3>1. conn \in HostConns
      <4>1. "heartbeat" \in Coroutines \ {"run"} /\ pc["heartbeat"] # "off"
        BY <2>1 DEF HeartbeatWrites, Coroutines
      <4> QED
        BY <4>1, RunningIsConnected
    <3>2. \A d \in Conns : Range(toServer'[d]) \subseteq Range(toServer[d]) \cup {Heartbeat}
      BY <2>1, <3>1, LinesAreTyped, WrittenRange DEF HeartbeatWrites
    <3>3. OnWire' \subseteq OnWire \cup {Heartbeat}
      BY <3>2, WireGrows
    <3> QED
      BY <2>1, <3>3 DEF HeartbeatWrites, clientVars, Lines, Others
  <2> QED
    BY <1>1, <1>4, <2>1 DEF Heart, HeartbeatDrains, HeartbeatDrained, HeartbeatDrainFails,
       HeartbeatFails
<1>5. CASE UNCHANGED vars
  BY <1>1, <1>5 DEF vars, clientVars
<1> QED
  BY <1>2, <1>3, <1>4, <1>5, LinesOfSender, LinesOfWorld DEF OtherSteps, WorldNext

\* The one task under way ends with the one result it ends with.
LEMMA LinesEnd ==
  ASSUME TypeInv, OneTask, NEW o \in Outcomes, FinishTaskWith(o),
         NEW t \in executing
  PROVE  Lines' \subseteq Lines \cup Others \cup {Result(t, o)}
<1> USE DEF world, netVars, drainVars
<1>1. PICK u \in executing : taskResultQueue' =
        Append(taskResultQueue, IF o = "null" THEN NullResult ELSE Result(u, o))
  BY DEF FinishTaskWith
<1>2. u = t
  BY DEF OneTask
<1> DEFINE r == IF o = "null" THEN NullResult ELSE Result(t, o)
<1>3. r \in ResultLines /\ taskResultQueue \in Seq(ResultLines)
  BY ClientAssumption, LinesAreTyped DEF ClientAssumption, TypeInv, MoreTypes
<1>4. Range(taskResultQueue') = Range(taskResultQueue) \cup {r}
  BY <1>1, <1>2, <1>3, AppendRange
<1>5. OnWire' = OnWire /\ sending' = sending
  BY DEF FinishTaskWith, OnWire
<1> QED
  BY <1>4, <1>5 DEF Lines, Others

-----------------------------------------------------------------------------
(* Once: no task is twice in the client's hands.                           *)

\* The results on a queue are of distinct tasks.
ResultFor(s, t) == \E r \in Range(s) : r # NullResult /\ r.task = t
OneResultEach(s) ==
    \A i, j \in DOMAIN s :
        s[i] # NullResult /\ s[j] # NullResult /\ s[i].task = s[j].task => i = j

\* The results on a queue after one more.
LEMMA AppendResult ==
  ASSUME NEW s \in Seq(ResultLines), NEW r \in ResultLines
  PROVE  /\ \A t : ResultFor(Append(s, r), t) <=>
                     ResultFor(s, t) \/ (r # NullResult /\ r.task = t)
         /\ OneResultEach(s) /\ (r = NullResult \/ ~ResultFor(s, r.task))
              => OneResultEach(Append(s, r))
<1> DEFINE a == Append(s, r)
<1>1. Range(a) = Range(s) \cup {r}
  BY AppendRange
<1>2. /\ Len(s) \in Nat /\ DOMAIN s = 1..Len(s) /\ DOMAIN a = 1..(Len(s) + 1)
      /\ \A i \in 1..Len(s) : a[i] = s[i]
      /\ a[Len(s) + 1] = r
  BY AppendShape
<1> HIDE DEF a
<1>3. \A t : ResultFor(a, t) <=> ResultFor(s, t) \/ (r # NullResult /\ r.task = t)
  BY <1>1 DEF ResultFor
<1>4. ASSUME OneResultEach(s), r = NullResult \/ ~ResultFor(s, r.task) PROVE OneResultEach(a)
  <2>1. \A i \in 1..Len(s) : r # NullResult /\ s[i] # NullResult => s[i].task # r.task
    BY <1>2, <1>4 DEF ResultFor, Range
  <2> QED
    BY <1>2, <1>4, <2>1 DEF OneResultEach
<1> QED
  BY <1>3, <1>4 DEF a

\* The results on a queue after its first was taken.
LEMMA TailResult ==
  ASSUME NEW s \in Seq(ResultLines), s # << >>, OneResultEach(s)
  PROVE  /\ OneResultEach(Tail(s))
         /\ \A t : ResultFor(Tail(s), t) => ResultFor(s, t)
         /\ Head(s) # NullResult => /\ ~ResultFor(Tail(s), Head(s).task)
                                    /\ ResultFor(s, Head(s).task)
<1> DEFINE u == Tail(s)
           h == Head(s)
<1>1. /\ Len(s) \in Nat \ {0} /\ DOMAIN s = 1..Len(s) /\ DOMAIN u = 1..(Len(s) - 1)
      /\ \A i \in 1..(Len(s) - 1) : u[i] = s[i + 1]
      /\ h = s[1]
  BY TailShape
<1>2. Range(u) \subseteq Range(s) /\ h \in Range(s)
  BY TailRange, HeadInRange
<1> HIDE DEF u, h
<1>3. OneResultEach(u)
  BY <1>1 DEF OneResultEach
<1>4. ASSUME h # NullResult PROVE ~ResultFor(u, h.task)
  <2>1. ASSUME NEW i \in DOMAIN u, u[i] # NullResult PROVE u[i].task # h.task
    <3>1. i + 1 \in DOMAIN s /\ 1 \in DOMAIN s /\ i + 1 # 1 /\ u[i] = s[i + 1] /\ h = s[1]
      BY <1>1
    <3> QED
      BY <1>4, <2>1, <3>1 DEF OneResultEach
  <2>2. \A r \in Range(u) : r # NullResult => r.task # h.task
    BY <2>1 DEF Range
  <2> QED
    BY <2>2 DEF ResultFor
<1>5. \A t : ResultFor(u, t) => ResultFor(s, t)
  BY <1>2 DEF ResultFor
<1>6. h # NullResult => ResultFor(s, h.task)
  BY <1>2 DEF ResultFor
<1> QED
  BY <1>3, <1>4, <1>5, <1>6 DEF u, h

-----------------------------------------------------------------------------
(* Once: where a task is.                                                  *)

HasTask(t) == t \in Range(taskQueue) \cup executing

\* A task is on one connection or has been read; then it is, with its result, in
\* one place only.
OnceInv ==
    /\ \A t \in Tasks : HasTask(t) \/ ResultFor(taskResultQueue, t) \/ OnTheWire(t)
                         => t \in received[Host]
    /\ \A t \in received[Host], c \in Conns : t \notin Range(toClient[c])
    /\ \A c \in Conns : Distinct(toClient[c])
    /\ \A c, d \in Conns : c # d => Range(toClient[c]) \cap Range(toClient[d]) = {}
    /\ Distinct(taskQueue) /\ executing \cap Range(taskQueue) = {}
    /\ \A t \in Tasks : HasTask(t) => ~ResultFor(taskResultQueue, t) /\ ~OnTheWire(t)
    /\ \A t \in Tasks : ResultFor(taskResultQueue, t) => ~OnTheWire(t)
    /\ OneResultEach(taskResultQueue)

\* Until send_results first waits it has nothing to send again.
NoDrainYet == drainingOn["send"] = NoConn => pc["send"] # "drain"

Answered == NoDrainYet /\ (drainingOn["send"] = NoConn => OnceInv)

LEMMA AnsweredIsOnce == TypeInv /\ Answered => AnsweredAtMostOnce
<1> SUFFICES ASSUME TypeInv, Answered, drainingOn["send"] = NoConn
             PROVE  \A t \in Tasks :
                      /\ InHand(t) => ~OnTheWire(t)
                      /\ t \in Range(taskQueue) \cup executing =>
                           ~\E r \in Range(taskResultQueue) : r # NullResult /\ r.task = t
                      /\ \A i, j \in DOMAIN taskResultQueue :
                           taskResultQueue[i] = taskResultQueue[j] /\ taskResultQueue[i] # NullResult
                           => i = j
  BY DEF AnsweredAtMostOnce
<1>1. OnceInv
  BY DEF Answered
<1>2. TAKE t \in Tasks
<1>3. InHand(t) => HasTask(t) \/ ResultFor(taskResultQueue, t)
  BY DEF InHand, HasTask, ResultFor
<1>4. InHand(t) => ~OnTheWire(t)
  BY <1>1, <1>3 DEF OnceInv
<1>5. HasTask(t) => ~ResultFor(taskResultQueue, t)
  BY <1>1 DEF OnceInv
<1>6. \A i, j \in DOMAIN taskResultQueue :
        taskResultQueue[i] = taskResultQueue[j] /\ taskResultQueue[i] # NullResult => i = j
  BY <1>1 DEF OnceInv, OneResultEach
<1> QED
  BY <1>4, <1>5, <1>6 DEF HasTask, ResultFor

\* Steps after which there is no more anywhere than there was.
LEMMA OnceShrinks ==
  ASSUME OnceInv, UNCHANGED <<taskQueue, executing, taskResultQueue, received>>,
         \A c \in Conns : Range(toClient'[c]) \subseteq Range(toClient[c])
                           /\ Distinct(toClient'[c]),
         \A c \in HostConns : \A r \in Range(toServer'[c]) :
            r \in Range(toServer[c]) \/ r.type # "task_result"
  PROVE  OnceInv'
<1>1. \A t : OnTheWire(t)' => OnTheWire(t)
  BY DEF OnTheWire
<1>2. \A t : HasTask(t)' <=> HasTask(t)
  BY DEF HasTask
<1>3. \A t : ResultFor(taskResultQueue, t)' <=> ResultFor(taskResultQueue, t)
  BY DEF ResultFor
<1>4. OneResultEach(taskResultQueue)' /\ Distinct(taskQueue)'
      /\ (executing \cap Range(taskQueue) = {})'
  BY DEF OnceInv, OneResultEach, Distinct
<1>5. (\A c \in Conns : Distinct(toClient[c]))'
  BY DEF Distinct
<1> QED
  BY <1>1, <1>2, <1>3, <1>4, <1>5 DEF OnceInv

\* Steps that change neither queues nor connections.
LEMMA OnceStays ==
  ASSUME OnceInv, UNCHANGED <<taskQueue, executing, taskResultQueue, received,
                              toClient, toServer>>
  PROVE  OnceInv'
BY OnceShrinks DEF OnceInv

\* A result leaves the queue for a connection, or nowhere, or comes back.
LEMMA OnceSends ==
  ASSUME TypeInv, OnceInv, HasResult,
         UNCHANGED <<taskQueue, executing, received, toClient>>,
         \/ taskResultQueue' = Append(Tail(taskResultQueue), Head(taskResultQueue))
            /\ UNCHANGED toServer
         \/ /\ taskResultQueue' = Tail(taskResultQueue)
            /\ \A c \in HostConns :
                 Range(toServer'[c]) \subseteq Range(toServer[c]) \cup {Head(taskResultQueue)}
  PROVE  OnceInv'
<1> DEFINE q == taskResultQueue
           h == Head(taskResultQueue)
<1>1. q \in Seq(ResultLines) /\ q # << >> /\ OneResultEach(q)
  BY DEF TypeInv, MoreTypes, HasResult, OnceInv
<1>2. h \in ResultLines /\ Tail(q) \in Seq(ResultLines)
  BY <1>1, HeadInRange, TailRange
<1>3. /\ OneResultEach(Tail(q))
      /\ \A t : ResultFor(Tail(q), t) => ResultFor(q, t)
      /\ h # NullResult => ~ResultFor(Tail(q), h.task) /\ ResultFor(q, h.task)
  BY <1>1, TailResult
<1>4. h.type = "task_result" => h # NullResult
  BY DEF NullResult
<1>5. \A t : HasTask(t)' <=> HasTask(t)
  BY DEF HasTask
<1>6. Distinct(taskQueue)' /\ (executing \cap Range(taskQueue) = {})'
      /\ \A c \in Conns : Distinct(toClient'[c])
  BY DEF OnceInv, Distinct
<1> HIDE DEF q, h
<1>7. CASE q' = Append(Tail(q), h) /\ UNCHANGED toServer
  <2>1. OneResultEach(Append(Tail(q), h))
        /\ \A t : ResultFor(Append(Tail(q), h), t) <=>
                    ResultFor(Tail(q), t) \/ (h # NullResult /\ h.task = t)
    BY <1>2, <1>3, AppendResult
  <2>2. \A t : ResultFor(q', t) => ResultFor(q, t)
    BY <1>3, <1>7, <2>1
  <2>3. OneResultEach(q')
    BY <1>7, <2>1
  <2>4. \A t : OnTheWire(t)' <=> OnTheWire(t)
    BY <1>7 DEF OnTheWire
  <2> QED
    BY <1>5, <1>6, <2>2, <2>3, <2>4 DEF OnceInv, q
<1>8. CASE q' = Tail(q) /\ \A c \in HostConns :
                 Range(toServer'[c]) \subseteq Range(toServer[c]) \cup {h}
  <2>1. \A t : OnTheWire(t)' => OnTheWire(t) \/ (h.type = "task_result" /\ h.task = t)
    BY <1>8 DEF OnTheWire
  <2>2. \A t : ResultFor(q', t) => ResultFor(q, t) /\ ~(h # NullResult /\ h.task = t)
    BY <1>3, <1>8
  <2>3. OneResultEach(q')
    BY <1>3, <1>8
  <2>4. \A t : OnTheWire(t)' => OnTheWire(t) \/ (ResultFor(q, t) /\ ~ResultFor(q', t))
    BY <1>3, <1>4, <2>1, <2>2
  <2> QED
    BY <1>5, <1>6, <2>2, <2>3, <2>4 DEF OnceInv, q
<1> QED
  BY <1>7, <1>8 DEF q, h

\* The server gives a task that is nowhere to a connection.
LEMMA OnceGiven ==
  ASSUME TypeInv, OnceInv, NEW c \in HostConns, ServerSends(c)
  PROVE  OnceInv'
<1> USE HostFacts
<1>1. PICK t \in Tasks : Unsent(t) /\ ServerWrites(c, t)
  BY DEF ServerSends
<1>2. toClient \in [Conns -> Seq(Tasks)] /\ c \in Conns
  BY DEF TypeInv, NetTypeOK
<1>3. toClient' = [toClient EXCEPT ![c] = Append(@, t)] /\ toServer' = toServer
  BY <1>1 DEF ServerSends, ServerWrites
<1>4. UNCHANGED <<taskQueue, executing, taskResultQueue, received>>
  BY DEF ServerSends, clientVars, queueVars
<1>5. t \notin received[Host] /\ \A d \in Conns : t \notin Range(toClient[d])
  BY <1>1 DEF Unsent
<1>6. /\ Range(toClient'[c]) = Range(toClient[c]) \cup {t}
      /\ Distinct(toClient'[c])
  BY <1>2, <1>3, <1>5, AppendRange, AppendDistinct DEF OnceInv
<1>7. \A d \in Conns \ {c} : toClient'[d] = toClient[d]
  BY <1>2, <1>3
<1>8. \A d \in Conns : Distinct(toClient'[d])
  BY <1>6, <1>7 DEF OnceInv
<1>9. \A d \in Conns : Range(toClient'[d]) \subseteq Range(toClient[d]) \cup {t}
  BY <1>6, <1>7
<1>10. \A d, e \in Conns : d # e => Range(toClient'[d]) \cap Range(toClient'[e]) = {}
  BY <1>5, <1>6, <1>7 DEF OnceInv
<1>11. \A u : /\ OnTheWire(u)' <=> OnTheWire(u)
              /\ HasTask(u)' <=> HasTask(u)
              /\ ResultFor(taskResultQueue, u)' <=> ResultFor(taskResultQueue, u)
  BY <1>3, <1>4 DEF OnTheWire, HasTask, ResultFor
<1>12. OneResultEach(taskResultQueue)' /\ Distinct(taskQueue)'
       /\ (executing \cap Range(taskQueue) = {})'
  BY <1>4 DEF OnceInv, OneResultEach, Distinct
<1>13. (\A u \in received[Host], d \in Conns : u \notin Range(toClient[d]))'
  BY <1>4, <1>5, <1>9 DEF OnceInv
<1>14. (\A d \in Conns : Distinct(toClient[d]))'
  BY <1>8 DEF Distinct
<1> QED
  BY <1>4, <1>10, <1>11, <1>12, <1>13, <1>14 DEF OnceInv

\* The client reads a task it has never read.
LEMMA OnceRead ==
  ASSUME TypeInv, OnceInv, ReceiveTask
  PROVE  OnceInv'
<1> USE HostFacts
<1> DEFINE c == readingFrom
           t == Head(toClient[readingFrom])
<1>1. c \in Conns
  <2>1. "receive" \in Coroutines \ {"run"} /\ pc["receive"] # "off"
    BY DEF ReceiveTask, Coroutines
  <2> QED
    BY <2>1, RunningIsConnected
<1>2. toClient \in [Conns -> Seq(Tasks)] /\ toClient[c] # << >> /\ taskQueue \in Seq(Tasks)
      /\ received \in [IPs -> SUBSET Tasks]
  BY DEF ReceiveTask, TypeInv, NetTypeOK, MoreTypes
<1>3. /\ toClient' = [toClient EXCEPT ![c] = Tail(@)]
      /\ taskQueue' = Append(taskQueue, t)
      /\ received' = [received EXCEPT ![Host] = @ \cup {t}]
      /\ UNCHANGED <<toServer, executing, taskResultQueue>>
  BY DEF ReceiveTask
<1>4. /\ t \in Range(toClient[c]) /\ t \in Tasks
      /\ Range(Tail(toClient[c])) \subseteq Range(toClient[c])
      /\ Distinct(Tail(toClient[c])) /\ t \notin Range(Tail(toClient[c]))
  BY <1>1, <1>2, HeadInRange, TailRange, TailDistinct DEF OnceInv
<1> HIDE DEF t
<1>5. t \notin received[Host]
  BY <1>1, <1>4 DEF OnceInv
<1>6. ~HasTask(t) /\ ~ResultFor(taskResultQueue, t) /\ ~OnTheWire(t)
  BY <1>4, <1>5 DEF OnceInv
<1>7. /\ Range(taskQueue') = Range(taskQueue) \cup {t}
      /\ Distinct(taskQueue')
  BY <1>2, <1>3, <1>4, <1>6, AppendRange, AppendDistinct DEF OnceInv, HasTask
<1>8. \A d \in Conns : /\ Range(toClient'[d]) \subseteq Range(toClient[d])
                       /\ t \notin Range(toClient'[d])
                       /\ Distinct(toClient'[d])
  <2>1. TAKE d \in Conns
  <2>2. CASE d = c
    BY <1>1, <1>2, <1>3, <1>4, <2>2
  <2>3. CASE d # c
    BY <1>1, <1>2, <1>3, <1>4, <2>3 DEF OnceInv
  <2> QED
    BY <2>2, <2>3
<1>9. received'[Host] = received[Host] \cup {t}
  BY <1>2, <1>3
<1>10. \A u : /\ OnTheWire(u)' <=> OnTheWire(u)
              /\ HasTask(u)' <=> HasTask(u) \/ u = t
              /\ ResultFor(taskResultQueue, u)' <=> ResultFor(taskResultQueue, u)
  BY <1>3, <1>7 DEF OnTheWire, HasTask, ResultFor
<1>11. OneResultEach(taskResultQueue)' /\ Distinct(taskQueue)'
  BY <1>3, <1>7 DEF OnceInv, OneResultEach, Distinct
<1>12. (executing \cap Range(taskQueue) = {})'
  BY <1>3, <1>6, <1>7 DEF OnceInv, HasTask
<1>13. (\A u \in received[Host], d \in Conns : u \notin Range(toClient[d]))'
  BY <1>8, <1>9 DEF OnceInv
<1>14. (\A d \in Conns : Distinct(toClient[d]))'
  BY <1>8 DEF Distinct
<1>15. (\A d, e \in Conns : d # e => Range(toClient[d]) \cap Range(toClient[e]) = {})'
  BY <1>8 DEF OnceInv
<1> QED
  BY <1>6, <1>9, <1>10, <1>11, <1>12, <1>13, <1>14, <1>15 DEF OnceInv

\* process_tasks takes a task, and puts its one result on the queue.
LEMMA OnceProcessed ==
  ASSUME TypeInv, OnceInv, Processor
  PROVE  OnceInv'
<1>0. taskQueue \in Seq(Tasks) /\ taskResultQueue \in Seq(ResultLines) /\ executing \subseteq Tasks
  BY DEF TypeInv, MoreTypes
<1>1. UNCHANGED <<received, toClient, toServer>>
  BY DEF Processor, TakeTask, FinishTask, FinishTaskWith, world, netVars
<1>2. /\ \A u : OnTheWire(u)' <=> OnTheWire(u)
      /\ (\A d \in Conns : Distinct(toClient[d]))'
  BY <1>1 DEF OnTheWire, OnceInv, Distinct
<1>3. CASE TakeTask
  <2>1. /\ taskQueue # << >> /\ executing' = {Head(taskQueue)} /\ taskQueue' = Tail(taskQueue)
        /\ UNCHANGED taskResultQueue
    BY <1>3 DEF TakeTask
  <2>2. /\ Head(taskQueue) \in Range(taskQueue)
        /\ Range(taskQueue') \subseteq Range(taskQueue)
        /\ Distinct(taskQueue') /\ Head(taskQueue) \notin Range(taskQueue')
    BY <1>0, <2>1, HeadInRange, TailRange, TailDistinct DEF OnceInv
  <2>3. \A u : /\ HasTask(u)' => HasTask(u)
               /\ ResultFor(taskResultQueue, u)' <=> ResultFor(taskResultQueue, u)
    BY <2>1, <2>2 DEF HasTask, ResultFor
  <2>4. OneResultEach(taskResultQueue)' /\ Distinct(taskQueue)'
    BY <2>1, <2>2 DEF OnceInv, OneResultEach, Distinct
  <2>5. (executing \cap Range(taskQueue) = {})'
    BY <2>1, <2>2
  <2> QED
    BY <1>1, <1>2, <2>3, <2>4, <2>5 DEF OnceInv
<1>4. ASSUME NEW o \in Outcomes, FinishTaskWith(o) PROVE OnceInv'
  <2>1. PICK t \in executing : taskResultQueue' =
          Append(taskResultQueue, IF o = "null" THEN NullResult ELSE Result(t, o))
    BY <1>4 DEF FinishTaskWith
  <2> DEFINE r == IF o = "null" THEN NullResult ELSE Result(t, o)
  <2>2. r \in ResultLines /\ (r # NullResult => r.task = t)
    BY <1>0, ClientAssumption, LinesAreTyped DEF ClientAssumption, Result
  <2>3. executing' = {} /\ UNCHANGED taskQueue
    BY <1>4 DEF FinishTaskWith
  <2>4. HasTask(t) /\ t \in Tasks
    BY <1>0 DEF HasTask
  <2>5. ~ResultFor(taskResultQueue, t) /\ ~OnTheWire(t) /\ t \in received[Host]
        /\ t \notin Range(taskQueue)
    BY <2>4 DEF OnceInv
  <2>6. taskResultQueue' = Append(taskResultQueue, r)
    BY <2>1
  <2> HIDE DEF r
  <2>7. /\ \A u : ResultFor(Append(taskResultQueue, r), u) <=>
                   ResultFor(taskResultQueue, u) \/ (r # NullResult /\ r.task = u)
        /\ OneResultEach(Append(taskResultQueue, r))
    BY <1>0, <2>2, <2>5, AppendResult DEF OnceInv
  <2>8. \A u : ResultFor(taskResultQueue', u) => ResultFor(taskResultQueue, u) \/ u = t
    BY <2>2, <2>6, <2>7
  <2>9. OneResultEach(taskResultQueue')
    BY <2>6, <2>7
  <2>10. \A u : ResultFor(taskResultQueue, u)' <=> ResultFor(taskResultQueue', u)
    BY DEF ResultFor
  <2>11. OneResultEach(taskResultQueue)' /\ Distinct(taskQueue)'
    BY <2>3, <2>9 DEF OnceInv, OneResultEach, Distinct
  <2>12. \A u : HasTask(u)' <=> u \in Range(taskQueue)
    BY <2>3 DEF HasTask
  <2>13. \A u \in Range(taskQueue) : HasTask(u) /\ u # t
    BY <2>5 DEF HasTask
  <2>14. (executing \cap Range(taskQueue) = {})'
    BY <2>3
  <2> QED
    BY <1>1, <1>2, <2>5, <2>8, <2>10, <2>11, <2>12, <2>13, <2>14 DEF OnceInv
<1> QED
  BY <1>3, <1>4 DEF Processor, FinishTask

\* What drains, breaks, closes or is read leaves less on the connections.
LEMMA OnceWorld ==
  ASSUME TypeInv, OnceInv, NEW c \in HostConns,
         CloseOnExit(c) \/ ServerReads(c) \/ ServerDrops(c) \/ ConnectionBreaks(c)
  PROVE  OnceInv'
<1> USE HostFacts
<1>1. /\ toClient \in [Conns -> Seq(Tasks)] /\ toServer \in [Conns -> Seq(ClientLines)]
      /\ c \in Conns /\ Distinct(toClient[c])
  BY DEF TypeInv, NetTypeOK, OnceInv
<1>2. UNCHANGED <<taskQueue, executing, taskResultQueue, received>>
  BY DEF CloseOnExit, ServerReads, ServerDrops, ConnectionBreaks, clientVars, queueVars
<1>3. /\ \A d \in Conns \ {c} : toClient'[d] = toClient[d] /\ toServer'[d] = toServer[d]
      /\ Range(toClient'[c]) \subseteq Range(toClient[c]) /\ Distinct(toClient'[c])
      /\ Range(toServer'[c]) \subseteq Range(toServer[c]) \cup {Eof}
  <2>1. CASE CloseOnExit(c)
    <3>1. /\ toServer' = [toServer EXCEPT ![c] = Append(@, Eof)]
          /\ toClient' = [toClient EXCEPT ![c] = << >>]
      BY <2>1 DEF CloseOnExit, CloseByClient
    <3>2. Range(Append(toServer[c], Eof)) = Range(toServer[c]) \cup {Eof}
      BY <1>1, LinesAreTyped, AppendRange
    <3> QED
      BY <1>1, <3>1, <3>2, EmptyRange DEF Distinct
  <2>2. CASE ServerReads(c)
    <3>1. toServer' = [toServer EXCEPT ![c] = Tail(@)] /\ toClient' = toClient
          /\ toServer[c] # << >>
      BY <2>2 DEF ServerReads
    <3>2. Range(Tail(toServer[c])) \subseteq Range(toServer[c])
      BY <1>1, <3>1, TailRange
    <3> QED
      BY <1>1, <3>1, <3>2
  <2>3. CASE ConnectionBreaks(c)
    <3>1. PICK k \in 0..Len(toServer[c]), m \in 0..Len(toClient[c]) :
            /\ toServer' = [toServer EXCEPT ![c] = SubSeq(@, 1, k)]
            /\ toClient' = [toClient EXCEPT ![c] = SubSeq(@, 1, m)]
      BY <2>3 DEF ConnectionBreaks, Break
    <3>2. Range(SubSeq(toServer[c], 1, k)) \subseteq Range(toServer[c])
      BY <1>1, PrefixRange
    <3>3. /\ Range(SubSeq(toClient[c], 1, m)) \subseteq Range(toClient[c])
          /\ Distinct(SubSeq(toClient[c], 1, m))
      BY <1>1, PrefixRange, PrefixDistinct
    <3> QED
      BY <1>1, <3>1, <3>2, <3>3
  <2>4. CASE ServerDrops(c)
    BY <1>1, <2>4, EmptyRange DEF ServerDrops
  <2> QED
    BY <2>1, <2>2, <2>3, <2>4
<1>4. \A d \in Conns : Range(toClient'[d]) \subseteq Range(toClient[d]) /\ Distinct(toClient'[d])
  BY <1>3 DEF OnceInv
<1>5. Eof.type # "task_result"
  BY DEF Eof
<1>6. \A d \in HostConns : \A r \in Range(toServer'[d]) :
        r \in Range(toServer[d]) \/ r.type # "task_result"
  BY <1>3, <1>5
<1> QED
  BY <1>2, <1>4, <1>6, OnceShrinks

LEMMA OnceSender ==
  ASSUME TypeInv, OnceInv, Sender, ~SendDrainFails
  PROVE  OnceInv'
<1> USE DEF lock, ends, queueVars, drainVars, halted, world, netVars
<1>1. CASE SendDrops
  <2>1. /\ HasResult /\ taskResultQueue' = Tail(taskResultQueue)
        /\ UNCHANGED <<taskQueue, executing, received, toClient, toServer>>
    BY <1>1 DEF SendDrops
  <2> QED
    BY <2>1, OnceSends
<1>2. CASE SendWrites
  <2>1. HasResult /\ ClientWrites(conn, Head(taskResultQueue))
        /\ taskResultQueue' = Tail(taskResultQueue)
        /\ UNCHANGED <<taskQueue, executing, received>>
    BY <1>2 DEF SendWrites
  <2>2. conn \in HostConns
    <3>1. "send" \in Coroutines \ {"run"} /\ pc["send"] # "off"
      BY <2>1 DEF HasResult, Coroutines
    <3> QED
      BY <3>1, RunningIsConnected
  <2>3. Head(taskResultQueue) \in ClientLines
    <3>1. taskResultQueue \in Seq(ResultLines) /\ taskResultQueue # << >>
      BY <2>1 DEF HasResult, TypeInv, MoreTypes
    <3> QED
      BY <3>1, HeadInRange, LinesAreTyped
  <2>4. UNCHANGED toClient /\ \A d \in HostConns :
          Range(toServer'[d]) \subseteq Range(toServer[d]) \cup {Head(taskResultQueue)}
    BY <2>1, <2>2, <2>3, HostFacts, WrittenRange
  <2> QED
    BY <2>1, <2>4, OnceSends
<1>3. CASE SendFails
  <2>1. /\ HasResult
        /\ taskResultQueue' = Append(Tail(taskResultQueue), Head(taskResultQueue))
        /\ UNCHANGED <<taskQueue, executing, received, toClient, toServer>>
    BY <1>3 DEF SendFails
  <2> QED
    BY <2>1, OnceSends
<1>4. CASE SendDrained \/ SendReconnects
  BY <1>4, OnceStays DEF SendDrained, SendReconnects
<1> QED
  BY <1>1, <1>2, <1>3, <1>4 DEF Sender

LEMMA OnceHeart ==
  ASSUME TypeInv, OnceInv, Heart
  PROVE  OnceInv'
<1> USE DEF lock, ends, queueVars, drainVars, halted, world, netVars
<1>1. CASE HeartbeatWrites
  <2>1. conn \in HostConns
    <3>1. "heartbeat" \in Coroutines \ {"run"} /\ pc["heartbeat"] # "off"
      BY <1>1 DEF HeartbeatWrites, Coroutines
    <3> QED
      BY <3>1, RunningIsConnected
  <2>2. /\ \A d \in HostConns : Range(toServer'[d]) \subseteq Range(toServer[d]) \cup {Heartbeat}
        /\ toClient' = toClient
    BY <1>1, <2>1, HostFacts, LinesAreTyped, WrittenRange DEF HeartbeatWrites
  <2>3. Heartbeat.type # "task_result"
    BY DEF Heartbeat
  <2>4. \A d \in HostConns : \A r \in Range(toServer'[d]) :
          r \in Range(toServer[d]) \/ r.type # "task_result"
    BY <2>2, <2>3
  <2>5. UNCHANGED <<taskQueue, executing, taskResultQueue, received>>
    BY <1>1 DEF HeartbeatWrites, clientVars
  <2>6. \A d \in Conns : Range(toClient'[d]) \subseteq Range(toClient[d]) /\ Distinct(toClient'[d])
    BY <2>2 DEF OnceInv
  <2> QED
    BY <2>4, <2>5, <2>6, OnceShrinks
<1>2. CASE HeartbeatDrains \/ HeartbeatDrained \/ HeartbeatDrainFails \/ HeartbeatFails
  BY <1>2, OnceStays DEF HeartbeatDrains, HeartbeatDrained, HeartbeatDrainFails, HeartbeatFails
<1> QED
  BY <1>1, <1>2 DEF Heart

LEMMA OnceNext ==
  ASSUME TypeInv, OnceInv, [Next]_vars, ~SendDrainFails
  PROVE  OnceInv'
<1> USE DEF lock, ends, queueVars, drainVars, halted, world, netVars
<1>1. CASE UNCHANGED vars
  BY <1>1, OnceStays DEF vars, clientVars
<1>2. ASSUME NEW p \in Coroutines, Connector(p) PROVE OnceInv'
  BY <1>2, OnceStays DEF Connector, Connects, ConnectFails, RetryConnect, GiveUp, Open
<1>3. CASE ReceiveFails \/ ReceiveReconnects \/ ReceiveEof
  BY <1>3, OnceStays DEF ReceiveFails, ReceiveReconnects, ReceiveEof
<1>4. ASSUME NEW c \in HostConns, ClientDetectsLoss(c) \/ ServerEnds(c) PROVE OnceInv'
  BY <1>4, OnceStays DEF ClientDetectsLoss, ServerEnds, clientVars
<1> QED
  BY <1>1, <1>2, <1>3, <1>4, OnceRead, OnceProcessed, OnceSender, OnceHeart, OnceWorld, OnceGiven
     DEF Next, ClientNext, OtherSteps, WorldNext, WorldStep, Receiver

\* send_results comes to wait for a drain only by noting on which connection.
LEMMA NoDrainNext ==
  ASSUME TypeInv, NoDrainYet, [Next]_vars
  PROVE  NoDrainYet' /\ (drainingOn'["send"] = NoConn => drainingOn["send"] = NoConn)
<1> USE HostFacts DEF lock, ends, queueVars, drainVars, halted, world, netVars
<1>1. /\ drainingOn \in [{"send", "heartbeat"} -> HostConns \cup {NoConn}]
      /\ pc \in [Coroutines -> PcStates] /\ "send" \in Coroutines
      /\ Home["send"] = "get"
  BY DEF TypeInv, MoreTypes, LockInv, Coroutines, Home
<1>2. CASE SendWrites
  <2>1. conn \in HostConns
    <3>1. "send" \in Coroutines \ {"run"} /\ pc["send"] # "off"
      BY <1>2 DEF SendWrites, HasResult, Coroutines
    <3> QED
      BY <3>1, RunningIsConnected
  <2> QED
    BY <1>1, <1>2, <2>1 DEF SendWrites, NoDrainYet
<1>3. CASE pc'["send"] # "drain" /\ drainingOn'["send"] = drainingOn["send"]
  BY <1>3 DEF NoDrainYet
<1>4. CASE pc'["send"] = pc["send"] /\ drainingOn'["send"] = drainingOn["send"]
  BY <1>4 DEF NoDrainYet
<1>5. CASE UNCHANGED vars
  BY <1>4, <1>5 DEF vars, clientVars
<1>6. ASSUME NEW p \in Coroutines, Connector(p) PROVE NoDrainYet' /\ drainingOn' = drainingOn
  <2>1. drainingOn' = drainingOn
    BY <1>6 DEF Connector, Connects, ConnectFails, RetryConnect, GiveUp
  <2>2. pc'["send"] # "drain" \/ pc'["send"] = pc["send"]
    BY <1>1, <1>6 DEF Connector, Connects, ConnectFails, RetryConnect, GiveUp
  <2> QED
    BY <2>1, <2>2 DEF NoDrainYet
<1>7. CASE Receiver \/ Processor \/ Heart
  <2>1. pc'["send"] = pc["send"] /\ drainingOn'["send"] = drainingOn["send"]
    BY <1>1, <1>7 DEF Receiver, ReceiveTask, ReceiveFails, ReceiveReconnects, ReceiveEof,
       Processor, TakeTask, FinishTask, FinishTaskWith, CallConnect,
       Heart, HeartbeatWrites, HeartbeatDrains, HeartbeatDrained, HeartbeatDrainFails,
       HeartbeatFails, clientVars
  <2> QED
    BY <1>4, <2>1
<1>8. CASE SendDrops \/ SendFails \/ SendDrained \/ SendDrainFails \/ SendReconnects
  <2>1. drainingOn' = drainingOn /\ (pc'["send"] # "drain" \/ pc'["send"] = pc["send"])
    BY <1>1, <1>8 DEF SendDrops, SendFails, SendDrained, SendDrainFails, SendReconnects,
       CallConnect
  <2> QED
    BY <1>3, <1>4, <2>1
<1>9. ASSUME NEW c \in HostConns,
             CloseOnExit(c) \/ ClientDetectsLoss(c) \/ WorldStep(c)
      PROVE  pc'["send"] = pc["send"] /\ drainingOn'["send"] = drainingOn["send"]
  BY <1>9 DEF CloseOnExit, ClientDetectsLoss, WorldStep, ServerSends, ServerReads,
     ServerDrops, ServerEnds, ConnectionBreaks, clientVars
<1> QED
  BY <1>2, <1>4, <1>5, <1>6, <1>7, <1>8, <1>9
     DEF Next, ClientNext, OtherSteps, WorldNext, Sender

\* Until send_results first waits for a drain, the client answers a task at most
\* once, for any tasks, connections and buffers, and however its failed sends,
\* reconnections and the breaks of connections interleave.
THEOREM AnsweredCorrect == Spec => []AnsweredAtMostOnce
<1>1. Init => Answered
  <2> SUFFICES ASSUME Init PROVE Answered
    OBVIOUS
  <2>1. /\ taskQueue = << >> /\ executing = {} /\ taskResultQueue = << >>
        /\ toClient = [c \in Conns |-> << >>] /\ toServer = [c \in Conns |-> << >>]
        /\ received[Host] = {} /\ pc["send"] = "off"
    BY HostFacts DEF Init, ClientInit, NetInit, Coroutines
  <2>2. Distinct(<< >>) /\ OneResultEach(<< >>) /\ \A t : ~ResultFor(<< >>, t)
    BY EmptyRange DEF Distinct, OneResultEach, ResultFor
  <2>3. \A t : ~HasTask(t) /\ ~OnTheWire(t)
    BY <2>1, EmptyRange, HostFacts DEF HasTask, OnTheWire
  <2>4. OnceInv
    BY <2>1, <2>2, <2>3, EmptyRange DEF OnceInv
  <2> QED
    BY <2>1, <2>4 DEF Answered, NoDrainYet
<1>2. TypeInv /\ Answered /\ [Next]_vars => Answered'
  <2> SUFFICES ASSUME TypeInv, Answered, [Next]_vars PROVE Answered'
    OBVIOUS
  <2>1. NoDrainYet' /\ (drainingOn'["send"] = NoConn => drainingOn["send"] = NoConn)
    BY NoDrainNext DEF Answered
  <2>2. ASSUME drainingOn["send"] = NoConn PROVE OnceInv'
    <3>1. ~SendDrainFails
      BY <2>2 DEF Answered, NoDrainYet, SendDrainFails, DrainRaises
    <3> QED
      BY <2>2, <3>1, OnceNext DEF Answered
  <2> QED
    BY <2>1, <2>2 DEF Answered
<1> QED
  BY <1>1, <1>2, TypeInvHolds, AnsweredIsOnce, PTL DEF Spec
=============================================================================
