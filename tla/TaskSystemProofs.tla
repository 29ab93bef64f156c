-------------------------- MODULE TaskSystemProofs --------------------------
(***************************************************************************)
(* The server and a real client together are a behaviour of the server's   *)
(* specification and of the client's; so a task is in one place, and       *)
(* nothing of it is lost before a connection breaks, for any tasks,        *)
(* connections, retries and buffers.                                       *)
(***************************************************************************)
EXTENDS TaskSystem, ClientConnectServerProofs

\* The client and what is proved of it.
CP == INSTANCE ClientProofs WITH taskQueue <- clientQueue

-----------------------------------------------------------------------------
(* The client of the system is the client of ClientProofs.                 *)

LEMMA ClientConstants ==
  /\ MaxConns \in Nat /\ MaxInFlight \in Nat
  /\ Host \in IPs
  /\ MAX_RETRIES \in Nat
  /\ ClientHighWater \in Nat
  /\ Outcomes \subseteq CP!Statuses \cup {"null"}
  /\ ServerMayEnd \in BOOLEAN
  /\ NoConn \notin CP!Conns
BY ConnectionsAssumption, ServerAssumption, SystemAssumption
   DEF ConnectionsAssumption, ServerAssumption, SystemAssumption, CP!Statuses, Statuses,
       CP!Conns, Conns, ServerMayEnd

\* Both write and open connections alike.
LEMMA SameNet ==
  /\ CP!Conns = Conns /\ CP!Statuses = Statuses /\ CP!netVars = netVars
  /\ CP!NetTypeOK <=> NetTypeOK
  /\ CP!NullResult = NullResult /\ CP!Heartbeat = Heartbeat /\ CP!Eof = Eof
  /\ \A t, s : CP!Result(t, s) = Result(t, s)
BY DEF CP!Conns, Conns, CP!Statuses, Statuses, CP!netVars, netVars, CP!NetTypeOK, NetTypeOK,
       CP!NullResult, NullResult, CP!Heartbeat, Heartbeat, CP!Eof, Eof, CP!Result, Result,
       CP!ClientLines, ClientLines, CP!Results, Results, CP!LinkStates, LinkStates

LEMMA SameNetSteps ==
  ASSUME NEW c
  PROVE  /\ CP!Open(c) <=> Open(c)
         /\ \A line : CP!ClientWrites(c, line) <=> ClientWrites(c, line)
         /\ CP!CloseByClient(c) <=> CloseByClient(c)
BY SameNet DEF CP!Open, Open, CP!NextOfItsHost, NextOfItsHost, CP!ClientWrites, ClientWrites,
       CP!CloseByClient, CloseByClient

LEMMA SameConnector ==
  \A p : C!Connector(p) => CP!Connector(p)
BY DEF C!Connector, CP!Connector, C!Connects, CP!Connects, C!ConnectFails, CP!ConnectFails,
       C!RetryConnect, CP!RetryConnect, C!GiveUp, CP!GiveUp, C!lock, CP!lock, C!ends, CP!ends,
       C!queueVars, CP!queueVars, C!drainVars, CP!drainVars, C!halted, CP!halted,
       C!world, CP!world, C!netVars, CP!netVars, C!LoopRuns, CP!LoopRuns, C!Conns, CP!Conns,
       C!HostConns, CP!HostConns, C!Home, CP!Home, C!Coroutines, CP!Coroutines, C!Open, CP!Open,
       C!NextOfItsHost, CP!NextOfItsHost

LEMMA SameReceiver ==
  C!Receiver => CP!Receiver
BY DEF C!Receiver, CP!Receiver, C!ReceiveTask, CP!ReceiveTask, C!ReceiveFails, CP!ReceiveFails,
       C!ReceiveReconnects, CP!ReceiveReconnects, C!ReceiveEof, CP!ReceiveEof, C!lock, CP!lock,
       C!ends, CP!ends, C!queueVars, CP!queueVars, C!drainVars, CP!drainVars, C!halted, CP!halted,
       C!world, CP!world, C!netVars, CP!netVars, C!LoopRuns, CP!LoopRuns,
       C!CallConnect, CP!CallConnect, C!Home, CP!Home, C!Coroutines, CP!Coroutines

LEMMA SameProcessor ==
  C!Processor => CP!Processor
BY DEF C!Processor, CP!Processor, C!TakeTask, CP!TakeTask, C!FinishTask, CP!FinishTask,
       C!FinishTaskWith, CP!FinishTaskWith, C!NullResult, CP!NullResult, C!Result, CP!Result,
       C!lock, CP!lock, C!ends, CP!ends, C!queueVars, CP!queueVars, C!drainVars, CP!drainVars,
       C!halted, CP!halted, C!world, CP!world, C!netVars, CP!netVars, C!LoopRuns, CP!LoopRuns

LEMMA SameSender ==
  C!Sender => CP!Sender
BY DEF C!Sender, CP!Sender, C!SendDrops, CP!SendDrops, C!SendWrites, CP!SendWrites,
       C!SendFails, CP!SendFails, C!SendDrained, CP!SendDrained,
       C!SendDrainFails, CP!SendDrainFails, C!SendReconnects, CP!SendReconnects,
       C!HasResult, CP!HasResult, C!Drained, CP!Drained, C!DrainRaises, CP!DrainRaises,
       C!ClientWrites, CP!ClientWrites, C!lock, CP!lock, C!ends, CP!ends,
       C!queueVars, CP!queueVars, C!drainVars, CP!drainVars, C!halted, CP!halted,
       C!world, CP!world, C!netVars, CP!netVars, C!LoopRuns, CP!LoopRuns,
       C!CallConnect, CP!CallConnect, C!Home, CP!Home, C!Coroutines, CP!Coroutines

LEMMA SameHeart ==
  C!Heart => CP!Heart
BY DEF C!Heart, CP!Heart, C!HeartbeatWrites, CP!HeartbeatWrites,
       C!HeartbeatDrains, CP!HeartbeatDrains, C!HeartbeatDrained, CP!HeartbeatDrained,
       C!HeartbeatDrainFails, CP!HeartbeatDrainFails, C!HeartbeatFails, CP!HeartbeatFails,
       C!Drained, CP!Drained, C!DrainRaises, CP!DrainRaises, C!ClientWrites, CP!ClientWrites,
       C!Heartbeat, CP!Heartbeat, C!clientVars, CP!clientVars, C!lock, CP!lock, C!ends, CP!ends,
       C!queueVars, CP!queueVars, C!drainVars, CP!drainVars, C!halted, CP!halted,
       C!world, CP!world, C!netVars, CP!netVars, C!LoopRuns, CP!LoopRuns,
       C!CallConnect, CP!CallConnect, C!Home, CP!Home, C!Coroutines, CP!Coroutines

LEMMA SameLoop ==
  \A c : (C!CloseOnExit(c) => CP!CloseOnExit(c)) /\ (C!ClientDetectsLoss(c) => CP!ClientDetectsLoss(c))
BY DEF C!CloseOnExit, CP!CloseOnExit, C!ClientDetectsLoss, CP!ClientDetectsLoss,
       C!CloseByClient, CP!CloseByClient, C!Eof, CP!Eof, C!clientVars, CP!clientVars,
       C!lock, CP!lock, C!ends, CP!ends, C!queueVars, CP!queueVars, C!drainVars, CP!drainVars,
       C!halted, CP!halted, C!world, CP!world, C!netVars, CP!netVars, C!LoopRuns, CP!LoopRuns

LEMMA SameClient ==
  (C!ClientInit => CP!ClientInit) /\ (C!ClientNext => CP!ClientNext)
BY SameConnector, SameReceiver, SameProcessor, SameSender, SameHeart, SameLoop
   DEF C!ClientInit, CP!ClientInit, C!ClientNext, CP!ClientNext, C!OtherSteps, CP!OtherSteps,
       C!Coroutines, CP!Coroutines, C!HostConns, CP!HostConns, C!Conns, CP!Conns

-----------------------------------------------------------------------------
(* What the client has are tasks it has read, and results of such tasks.    *)

Reportable == {Result(t, s) : t \in received[Host], s \in Statuses}
                \cup {r \in {NullResult} : received[Host] # {}}

ReceivedInv ==
    /\ Range(clientQueue) \cup executing \subseteq received[Host]
    /\ Range(taskResultQueue) \cup sending \subseteq Reportable

SysInv == TypeOK /\ CP!TypeInv /\ ReceivedInv

LEMMA HostFacts ==
  /\ CP!HostConns \subseteq Conns /\ \A c \in CP!HostConns : c[1] = Host
  /\ NoConn \notin Conns /\ Host \in IPs
BY SameNet, ServerAssumption, SystemAssumption
   DEF ServerAssumption, SystemAssumption, CP!HostConns

\* The types of what the client uses.
LEMMA ClientFacts ==
  ASSUME CP!TypeInv
  PROVE  /\ clientQueue \in Seq(Tasks) /\ executing \subseteq Tasks
         /\ taskResultQueue \in Seq(CP!ResultLines) /\ sending \subseteq CP!ResultLines
         /\ CP!ResultLines \subseteq ClientLines
         /\ \A p \in {"receive", "process", "send", "heartbeat"} :
              pc[p] # "off" => conn \in CP!HostConns /\ readingFrom \in CP!HostConns
<1>1. MaxConns \in Nat
  BY ClientConstants
<1>2. conn = NoConn \/ readingFrom = NoConn => \A p \in CP!Coroutines \ {"run"} : pc[p] = "off"
  BY DEF CP!TypeInv, CP!ConnectedInv
<1> QED
  BY <1>2, SameNet DEF CP!TypeInv, CP!MoreTypes, CP!Coroutines, CP!ResultLines, CP!Results,
     CP!Results, ClientLines, Results

\* Steps after which the client has no more than before, and has read no less.
LEMMA ReceivedStays ==
  ASSUME ReceivedInv, received[Host] \subseteq received'[Host],
         Range(clientQueue') \cup executing' \subseteq Range(clientQueue) \cup executing,
         Range(taskResultQueue') \cup sending' \subseteq Range(taskResultQueue) \cup sending
  PROVE  ReceivedInv'
<1>1. Reportable \subseteq Reportable'
  BY DEF Reportable
<1> QED
  BY <1>1 DEF ReceivedInv

-----------------------------------------------------------------------------
(* Each step of the client is one of the server's environment, or is unseen. *)

Seen == \E c \in Conns : ClientStep(c)

LEMMA HostSideStays ==
  ASSUME TypeOK, HostSide, \A c \in Conns : ~(link[c] = "unused" /\ link'[c] = "open")
  PROVE  UNCHANGED serverVars
<1>1. handler \in [Conns -> HandlerStates]
  BY DEF TypeOK
<1>2. handler' = [c \in Conns |-> handler[c]]
  BY DEF HostSide
<1>3. handler' = handler
  BY <1>1, <1>2
<1> QED
  BY <1>3 DEF HostSide, serverVars

\* A step that touches no connection is not seen.
LEMMA Unseen ==
  ASSUME TypeOK, HostSide, UNCHANGED <<link, toServer, toClient, received>>
  PROVE  UNCHANGED vars
<1>1. UNCHANGED serverVars
  BY HostSideStays
<1> QED
  BY <1>1 DEF vars, netVars

LEMMA ConnectorIsSeen ==
  ASSUME SysInv, NEW p, CP!Connector(p), HostSide
  PROVE  (Seen \/ UNCHANGED vars) /\ ReceivedInv'
<1> USE DEF CP!lock, CP!ends, CP!queueVars, CP!drainVars, CP!halted, CP!world, CP!netVars
<1>1. ReceivedInv'
  <2>1. UNCHANGED <<received, clientQueue, executing, taskResultQueue, sending>>
    BY DEF CP!Connector, CP!Connects, CP!ConnectFails, CP!RetryConnect, CP!GiveUp
  <2> QED
    BY <2>1, ReceivedStays DEF SysInv
<1>2. CASE CP!Connects(p)
  <2>1. PICK c \in CP!HostConns : CP!Open(c)
    BY <1>2 DEF CP!Connects
  <2>2. c \in Conns /\ Open(c)
    BY <2>1, HostFacts, SameNetSteps
  <2>3. link \in [Conns -> LinkStates] /\ handler \in [Conns -> HandlerStates]
    BY DEF SysInv, TypeOK, NetTypeOK
  <2>4. link[c] = "unused" /\ link' = [link EXCEPT ![c] = "open"]
    BY <2>2 DEF Open, NextOfItsHost
  <2>5. \A d \in Conns : link[d] = "unused" /\ link'[d] = "open" <=> d = c
    BY <2>2, <2>3, <2>4
  <2>6. handler' = [d \in Conns |-> IF d = c THEN "backlog" ELSE handler[d]]
    BY <2>5 DEF HostSide
  <2>7. handler' = [handler EXCEPT ![c] = "backlog"]
    BY <2>3, <2>6
  <2>8. ClientConnect(c)
    BY <1>2, <2>2, <2>7 DEF ClientConnect, HostSide, CP!Connects
  <2> QED
    BY <1>1, <2>2, <2>8 DEF Seen, ClientStep
<1>3. CASE CP!ConnectFails(p) \/ CP!RetryConnect(p) \/ CP!GiveUp(p)
  BY <1>1, <1>3, Unseen DEF SysInv, CP!ConnectFails, CP!RetryConnect, CP!GiveUp
<1> QED
  BY <1>2, <1>3 DEF CP!Connector

LEMMA ReceiverIsSeen ==
  ASSUME SysInv, CP!Receiver, HostSide
  PROVE  (Seen \/ UNCHANGED vars) /\ ReceivedInv'
<1> USE DEF CP!lock, CP!ends, CP!queueVars, CP!drainVars, CP!halted, CP!world, CP!netVars
<1>1. CASE CP!ReceiveTask
  <2> DEFINE c == readingFrom
             t == Head(toClient[c])
  <2>1. c \in Conns /\ c[1] = Host
    <3>1. pc["receive"] # "off"
      BY <1>1 DEF CP!ReceiveTask
    <3> QED
      BY <3>1, ClientFacts, HostFacts DEF SysInv
  <2>2. /\ toClient[c] # << >> /\ clientQueue' = Append(clientQueue, t)
        /\ received' = [received EXCEPT ![Host] = @ \cup {t}]
        /\ toClient' = [toClient EXCEPT ![c] = Tail(@)]
        /\ UNCHANGED <<link, toServer, executing, taskResultQueue, sending>>
    BY <1>1 DEF CP!ReceiveTask
  <2>3. toClient[c] \in Seq(Tasks) /\ received \in [IPs -> SUBSET Tasks] /\ Host \in IPs
    BY <2>1, HostFacts DEF SysInv, TypeOK, NetTypeOK
  <2>4. UNCHANGED serverVars
    BY <2>2, HostSideStays DEF SysInv
  <2>5. ClientRead(c)
    BY <2>1, <2>2, <2>4 DEF ClientRead
  <2>6. t \in Tasks /\ clientQueue \in Seq(Tasks)
    BY <2>2, <2>3, HeadInRange, ClientFacts DEF SysInv
  <2>7. Range(clientQueue') = Range(clientQueue) \cup {t}
    BY <2>2, <2>6, AppendRange
  <2>8. received'[Host] = received[Host] \cup {t}
    BY <2>2, <2>3
  <2>9. Reportable \subseteq Reportable'
    BY <2>8 DEF Reportable
  <2>10. ReceivedInv'
    BY <2>2, <2>7, <2>8, <2>9 DEF SysInv, ReceivedInv
  <2> QED
    BY <2>1, <2>5, <2>10 DEF Seen, ClientStep
<1>2. CASE CP!ReceiveFails \/ CP!ReceiveReconnects \/ CP!ReceiveEof
  <2>1. UNCHANGED <<link, toServer, toClient, received, clientQueue, executing,
                    taskResultQueue, sending>>
    BY <1>2 DEF CP!ReceiveFails, CP!ReceiveReconnects, CP!ReceiveEof
  <2> QED
    BY <2>1, Unseen, ReceivedStays DEF SysInv
<1> QED
  BY <1>1, <1>2 DEF CP!Receiver

LEMMA ProcessorIsSeen ==
  ASSUME SysInv, CP!Processor, HostSide
  PROVE  (Seen \/ UNCHANGED vars) /\ ReceivedInv'
<1> USE DEF CP!lock, CP!ends, CP!queueVars, CP!drainVars, CP!halted, CP!world, CP!netVars
<1>1. UNCHANGED <<link, toServer, toClient, received, sending>>
  BY DEF CP!Processor, CP!TakeTask, CP!FinishTask, CP!FinishTaskWith
<1>2. UNCHANGED vars
  BY <1>1, Unseen DEF SysInv
<1>3. CASE CP!TakeTask
  <2>1. clientQueue # << >> /\ executing' = {Head(clientQueue)}
        /\ clientQueue' = Tail(clientQueue) /\ UNCHANGED taskResultQueue
    BY <1>3 DEF CP!TakeTask
  <2>2. clientQueue \in Seq(Tasks)
    BY ClientFacts DEF SysInv
  <2>3. Head(clientQueue) \in Range(clientQueue)
        /\ Range(Tail(clientQueue)) \subseteq Range(clientQueue)
    BY <2>1, <2>2, HeadInRange, TailRange
  <2> QED
    BY <1>1, <1>2, <2>1, <2>3, ReceivedStays DEF SysInv
<1>4. ASSUME NEW o \in Outcomes, CP!FinishTaskWith(o) PROVE ReceivedInv'
  <2>1. PICK t \in executing : taskResultQueue' =
          Append(taskResultQueue, IF o = "null" THEN CP!NullResult ELSE CP!Result(t, o))
    BY <1>4 DEF CP!FinishTaskWith
  <2> DEFINE r == IF o = "null" THEN NullResult ELSE Result(t, o)
  <2>2. t \in received[Host] /\ t \in Tasks
    BY ClientFacts DEF SysInv, ReceivedInv
  <2>3. o \in Statuses \cup {"null"}
    BY SystemAssumption DEF SystemAssumption
  <2>4. r \in Reportable
    BY <2>2, <2>3 DEF Reportable
  <2>5. r \in CP!ResultLines /\ taskResultQueue \in Seq(CP!ResultLines)
    BY <2>2, <2>3, ClientFacts, SameNet
       DEF SysInv, CP!ResultLines, CP!Results, Result
  <2>6. taskResultQueue' = Append(taskResultQueue, r)
    BY <2>1, SameNet
  <2> HIDE DEF r
  <2>7. Range(taskResultQueue') = Range(taskResultQueue) \cup {r}
    BY <2>5, <2>6, AppendRange
  <2>8. executing' = {} /\ UNCHANGED clientQueue
    BY <1>4 DEF CP!FinishTaskWith
  <2>9. Reportable' = Reportable
    BY <1>1 DEF Reportable
  <2> QED
    BY <1>1, <2>4, <2>7, <2>8, <2>9 DEF SysInv, ReceivedInv
<1> QED
  BY <1>2, <1>3, <1>4 DEF CP!Processor, CP!FinishTask

LEMMA SenderIsSeen ==
  ASSUME SysInv, CP!Sender, HostSide
  PROVE  (Seen \/ UNCHANGED vars) /\ ReceivedInv'
<1> USE DEF CP!lock, CP!ends, CP!queueVars, CP!drainVars, CP!halted, CP!world, CP!netVars
<1> DEFINE h == Head(taskResultQueue)
           u == Tail(taskResultQueue)
<1>1. taskResultQueue \in Seq(CP!ResultLines) /\ sending \subseteq CP!ResultLines
  BY ClientFacts DEF SysInv
<1>2. CP!HasResult => h \in Range(taskResultQueue) /\ h \in CP!ResultLines
                      /\ u \in Seq(CP!ResultLines) /\ Range(u) \subseteq Range(taskResultQueue)
  BY <1>1, HeadInRange, TailRange DEF CP!HasResult
<1>3. \A s \in Seq(CP!ResultLines), r \in CP!ResultLines : Range(Append(s, r)) = Range(s) \cup {r}
  BY AppendRange
<1>4. UNCHANGED <<received, clientQueue, executing>>
  BY DEF CP!Sender, CP!SendDrops, CP!SendWrites, CP!SendFails, CP!SendDrained,
     CP!SendDrainFails, CP!SendReconnects
<1>5. CASE CP!SendWrites
  <2>1. CP!HasResult /\ CP!ClientWrites(conn, h) /\ taskResultQueue' = u
        /\ sending' \in {sending, {h}}
    BY <1>5 DEF CP!SendWrites
  <2>2. conn \in Conns /\ conn[1] = Host
    <3>1. pc["send"] # "off"
      BY <2>1 DEF CP!HasResult
    <3> QED
      BY <3>1, ClientFacts, HostFacts DEF SysInv
  <2>3. ClientWrites(conn, h)
    BY <2>1, SameNetSteps
  <2>4. h \in Reportable
    BY <1>2, <2>1 DEF SysInv, ReceivedInv
  <2>5. UNCHANGED serverVars
    <3>1. link' = link
      BY <2>3 DEF ClientWrites
    <3> QED
      BY <3>1, HostSideStays DEF SysInv
  <2>6. ClientReport(conn) \/ ClientReportNull(conn)
    <3> HIDE DEF h
    <3>1. CASE h = NullResult /\ received[Host] # {}
      BY <1>4, <2>2, <2>3, <2>5, <3>1 DEF ClientReportNull
    <3>2. CASE \E t \in received[Host], s \in Statuses : h = Result(t, s)
      BY <1>4, <2>2, <2>3, <2>5, <3>2 DEF ClientReport
    <3> QED
      BY <2>4, <3>1, <3>2 DEF Reportable
  <2>7. ReceivedInv'
    BY <1>2, <1>4, <2>1, ReceivedStays DEF SysInv
  <2> QED
    BY <2>2, <2>6, <2>7 DEF Seen, ClientStep
<1>6. CASE CP!SendDrops \/ CP!SendFails \/ CP!SendDrained \/ CP!SendDrainFails
             \/ CP!SendReconnects
  <2>1. UNCHANGED <<link, toServer, toClient, received>>
    BY <1>6 DEF CP!SendDrops, CP!SendFails, CP!SendDrained, CP!SendDrainFails,
       CP!SendReconnects
  <2>2. UNCHANGED vars
    BY <2>1, Unseen DEF SysInv
  <2>3. Range(taskResultQueue') \cup sending' \subseteq Range(taskResultQueue) \cup sending
    <3>1. CASE CP!SendDrops
      BY <1>2, <3>1 DEF CP!SendDrops
    <3>2. CASE CP!SendFails
      <4>1. CP!HasResult /\ taskResultQueue' = Append(u, h) /\ UNCHANGED sending
        BY <3>2 DEF CP!SendFails
      <4>2. Range(Append(u, h)) = Range(u) \cup {h}
        <5> HIDE DEF u, h
        <5> QED
          BY <1>2, <1>3, <4>1
      <4> QED
        BY <1>2, <4>1, <4>2
    <3>3. CASE CP!SendDrainFails
      <4>1. PICK r \in sending : taskResultQueue' = Append(taskResultQueue, r)
        BY <3>3 DEF CP!SendDrainFails
      <4>2. Range(taskResultQueue') = Range(taskResultQueue) \cup {r}
        BY <1>1, <1>3, <4>1
      <4> QED
        BY <3>3, <4>2 DEF CP!SendDrainFails
    <3>4. CASE CP!SendDrained \/ CP!SendReconnects
      BY <3>4 DEF CP!SendDrained, CP!SendReconnects
    <3> QED
      BY <1>6, <3>1, <3>2, <3>3, <3>4
  <2> QED
    BY <1>4, <2>2, <2>3, ReceivedStays DEF SysInv
<1> QED
  BY <1>5, <1>6 DEF CP!Sender

LEMMA HeartIsSeen ==
  ASSUME SysInv, CP!Heart, HostSide
  PROVE  (Seen \/ UNCHANGED vars) /\ ReceivedInv'
<1> USE DEF CP!lock, CP!ends, CP!queueVars, CP!drainVars, CP!halted, CP!world, CP!netVars
<1>1. ReceivedInv'
  <2>1. UNCHANGED <<received, clientQueue, executing, taskResultQueue, sending>>
    BY DEF CP!Heart, CP!HeartbeatWrites, CP!HeartbeatDrains, CP!HeartbeatDrained,
       CP!HeartbeatDrainFails, CP!HeartbeatFails, CP!clientVars
  <2> QED
    BY <2>1, ReceivedStays DEF SysInv
<1>2. CASE CP!HeartbeatWrites
  <2>1. conn \in Conns
    <3>1. pc["heartbeat"] # "off"
      BY <1>2 DEF CP!HeartbeatWrites
    <3> QED
      BY <3>1, ClientFacts, HostFacts DEF SysInv
  <2>2. ClientWrites(conn, Heartbeat) /\ UNCHANGED received
    BY <1>2, SameNet, SameNetSteps DEF CP!HeartbeatWrites
  <2>3. UNCHANGED serverVars
    <3>1. link' = link
      BY <2>2 DEF ClientWrites
    <3> QED
      BY <3>1, HostSideStays DEF SysInv
  <2> QED
    BY <1>1, <2>1, <2>2, <2>3 DEF Seen, ClientStep, ClientHeartbeat
<1>3. CASE CP!HeartbeatDrains \/ CP!HeartbeatDrained \/ CP!HeartbeatDrainFails
             \/ CP!HeartbeatFails
  BY <1>1, <1>3, Unseen DEF SysInv, CP!HeartbeatDrains, CP!HeartbeatDrained,
     CP!HeartbeatDrainFails, CP!HeartbeatFails
<1> QED
  BY <1>2, <1>3 DEF CP!Heart

LEMMA LoopIsSeen ==
  ASSUME SysInv, NEW c \in CP!HostConns, CP!CloseOnExit(c) \/ CP!ClientDetectsLoss(c), HostSide
  PROVE  (Seen \/ UNCHANGED vars) /\ ReceivedInv'
<1> USE DEF CP!lock, CP!ends, CP!queueVars, CP!drainVars, CP!halted, CP!world, CP!netVars
<1>1. ReceivedInv'
  <2>1. UNCHANGED <<received, clientQueue, executing, taskResultQueue, sending>>
    BY DEF CP!CloseOnExit, CP!ClientDetectsLoss, CP!clientVars
  <2> QED
    BY <2>1, ReceivedStays DEF SysInv
<1>2. CASE CP!CloseOnExit(c)
  <2>1. c \in Conns /\ CloseByClient(c) /\ UNCHANGED received
    BY <1>2, HostFacts, SameNetSteps DEF CP!CloseOnExit
  <2>2. UNCHANGED serverVars
    <3>1. link[c] = "open" /\ link' = [link EXCEPT ![c] = "broken"]
      BY <2>1 DEF CloseByClient
    <3>2. link \in [Conns -> LinkStates]
      BY DEF SysInv, TypeOK, NetTypeOK
    <3>3. \A d \in Conns : ~(link[d] = "unused" /\ link'[d] = "open")
      BY <3>1, <3>2
    <3> QED
      BY <3>3, HostSideStays DEF SysInv
  <2> QED
    BY <1>1, <2>1, <2>2 DEF Seen, ClientStep, ClientExit
<1>3. CASE CP!ClientDetectsLoss(c)
  BY <1>1, <1>3, Unseen DEF SysInv, CP!ClientDetectsLoss
<1> QED
  BY <1>2, <1>3

-----------------------------------------------------------------------------
(* The system refines the server's specification.                          *)

LEMMA ClientIsSeen ==
  ASSUME SysInv, ClientActs
  PROVE  [Next]_vars /\ ReceivedInv'
<1>1. CP!ClientNext /\ HostSide
  BY SameClient DEF ClientActs
<1>2. (Seen \/ UNCHANGED vars) /\ ReceivedInv'
  BY <1>1, ConnectorIsSeen, ReceiverIsSeen, ProcessorIsSeen, SenderIsSeen, HeartIsSeen, LoopIsSeen
     DEF CP!ClientNext, CP!OtherSteps
<1> QED
  BY <1>2 DEF Seen, Next

LEMMA ServerIsServer ==
  ASSUME ServerActs \/ NetworkActs
  PROVE  Next /\ UNCHANGED hostVars /\ UNCHANGED received
<1> USE DEF serverVars
<1>1. CASE ServerActs
  <2>1. Next /\ UNCHANGED hostVars
    BY <1>1 DEF ServerActs, Next
  <2>2. UNCHANGED received
    BY <1>1 DEF ServerActs, FlaskStep, CreateRecord, EnqueueTask, DistributorStep,
       DispatchNoConnection, DispatchToClosing, DispatchSend, DispatchSendFails, DrainDone,
       DrainFails, HandlerStep, Accept, AcceptFails, HandleHeartbeat, HandleTaskResult,
       HandleBadLine, HandlerLosesReader, ServerDetectsLoss
  <2> QED
    BY <2>1, <2>2
<1>2. CASE NetworkActs
  BY <1>2 DEF NetworkActs, ConnectionBreaks, Next
<1> QED
  BY <1>1, <1>2

LEMMA SysNext ==
  ASSUME SysInv, [SystemNext]_allVars
  PROVE  [Next]_vars /\ SysInv'
<1>1. CASE ClientActs
  <2>1. [Next]_vars /\ ReceivedInv'
    BY <1>1, ClientIsSeen
  <2>2. CP!Next
    BY <1>1, SameClient DEF ClientActs, CP!Next
  <2>3. CP!TypeInv'
    <3>1. CP!TypeInv /\ [CP!Next]_(CP!vars)
      BY <2>2 DEF SysInv
    <3> QED
      BY <3>1, ClientConstants, CP!TypeInvNext
  <2> QED
    BY <2>1, <2>3, TypeStep DEF SysInv
<1>2. CASE ServerActs \/ NetworkActs \/ UNCHANGED allVars
  <2>1. [Next]_vars /\ UNCHANGED hostVars /\ UNCHANGED received
    BY <1>2, ServerIsServer DEF allVars, vars
  <2>2. TypeOK'
    BY <2>1, TypeStep DEF SysInv
  <2>3. ReceivedInv'
    BY <2>1, ReceivedStays DEF SysInv, hostVars
  <2>4. CP!NetTypeOK'
    BY <2>2 DEF TypeOK, CP!NetTypeOK, NetTypeOK, CP!Conns, Conns, CP!LinkStates, LinkStates,
       CP!ClientLines, ClientLines, CP!Heartbeat, Heartbeat, CP!NullResult, NullResult,
       CP!Eof, Eof, CP!Results, Results, CP!Statuses, Statuses
  <2>5. CP!TypeInv'
    BY <2>1, <2>4 DEF SysInv, hostVars, CP!TypeInv, CP!LockInv, CP!OneConnector, CP!Connecting,
       CP!MoreTypes, CP!ConnectedInv
  <2> QED
    BY <2>1, <2>2, <2>3, <2>5 DEF SysInv
<1> QED
  BY <1>1, <1>2 DEF SystemNext

LEMMA SysInit == SystemInit => SysInv
<1> SUFFICES ASSUME SystemInit PROVE SysInv
  OBVIOUS
<1>1. TypeOK
  BY DEF SystemInit, Init, NetInit, TypeOK, NetTypeOK, LinkStates, RequestStates, HandlerStates,
     Conns
<1>2. CP!Init
  BY SameClient DEF SystemInit, Init, NetInit, CP!Init, CP!NetInit, CP!Conns, Conns
<1>3. CP!TypeInv
  BY <1>2, ClientConstants, CP!TypeInvInit
<1>4. clientQueue = << >> /\ executing = {} /\ taskResultQueue = << >> /\ sending = {}
  BY <1>2 DEF CP!Init, CP!ClientInit
<1> QED
  BY <1>1, <1>3, <1>4, EmptyRange DEF SysInv, ReceivedInv

\* Whatever the real client does - reconnect, send again, give up - is something
\* the server's specification allows a host to do: what is proved of the server
\* in an environment of any hosts holds in the system.
THEOREM SystemIsServer == SystemSpec => ServerSpec
<1>1. SystemInit => Init
  BY DEF SystemInit
<1> QED
  BY <1>1, SysInit, SysNext, PTL DEF SystemSpec, ServerSpec, Spec
-----------------------------------------------------------------------------
(* A task the host has got is answered, or a connection broke: what the     *)
(* answer rests on.                                                        *)

LEMMA SameHands ==
  ASSUME NEW t
  PROVE  (C!InHand(t) <=> CP!InHand(t)) /\ (C!OnTheWire(t) <=> CP!OnTheWire(t))
BY DEF C!InHand, CP!InHand, C!OnTheWire, CP!OnTheWire, C!NullResult, CP!NullResult,
       C!HostConns, CP!HostConns, C!Conns, CP!Conns, C!Range, CP!Range

LEMMA SameRange == \A s : CP!Range(s) = Range(s)
BY DEF CP!Range, Range

Has(t) == CP!InHand(t) \/ CP!OnTheWire(t) \/ record[t] # "running"

\* Both ends give up a connection only when it broke, and the client uses one
\* only when it has opened it.
EndsInv ==
    /\ ClosingIsBroken
    /\ \A c \in failed : link[c] = "broken"
    /\ conn # NoConn => link[conn] # "unused"

AnswerInv ==
    /\ EndsInv
    /\ CP!OneTask
    /\ \A r \in CP!Lines : r.type = "task_result" => r.status # "running"
    /\ Broken \/ \A t \in received[Host] : Has(t)

\* What is broken stays broken, and what was opened stays opened.
LEMMA LinksOnlyBreak ==
  ASSUME TypeOK, ClosingIsBroken, [Next]_vars
  PROVE  /\ \A c \in Conns : link[c] = "broken" => link'[c] = "broken"
         /\ \A c \in Conns : link[c] # "unused" => link'[c] # "unused"
         /\ ClosingIsBroken'
<1> USE DEF netVars, serverVars
<1>1. link \in [Conns -> LinkStates] /\ closing \subseteq Conns
  BY DEF TypeOK, NetTypeOK
<1>2. CASE UNCHANGED <<link, closing>>
  BY <1>2 DEF ClosingIsBroken
<1>3. CASE UNCHANGED vars
  BY <1>2, <1>3 DEF vars
<1>4. CASE FlaskStep
  BY <1>2, <1>4 DEF FlaskStep, CreateRecord, EnqueueTask
<1>5. CASE DistributorStep
  <2>1. CASE DispatchSendFails
    BY <2>1 DEF DispatchSendFails, ClosingIsBroken
  <2> QED
    BY <1>2, <1>5, <2>1 DEF DistributorStep, DispatchNoConnection, DispatchToClosing,
       DispatchSend, ServerWrites, DrainDone, DrainFails
<1>6. ASSUME NEW c \in Conns, HandlerStep(c) \/ ServerDetectsLoss(c)
      PROVE  link' = link /\ ClosingIsBroken'
  BY <1>6 DEF HandlerStep, Accept, AcceptFails, HandleHeartbeat, HandleTaskResult, HandleBadLine,
     HandlerLosesReader, ServerDetectsLoss, ClosingIsBroken
<1>7. ASSUME NEW c \in Conns, ClientStep(c) \/ ConnectionBreaks(c)
      PROVE  /\ \A d \in Conns : link[d] = "broken" => link'[d] = "broken"
             /\ \A d \in Conns : link[d] # "unused" => link'[d] # "unused"
             /\ ClosingIsBroken'
  <2>1. CASE ClientRead(c) \/ ClientReport(c) \/ ClientReportNull(c) \/ ClientHeartbeat(c)
    BY <1>2, <2>1 DEF ClientRead, ClientReport, ClientReportNull, ClientHeartbeat, ClientWrites
  <2>2. CASE ClientConnect(c) \/ ClientExit(c) \/ ConnectionBreaks(c)
    <3>1. /\ UNCHANGED closing
          /\ \/ link[c] = "unused" /\ link' = [link EXCEPT ![c] = "open"]
             \/ link[c] = "open" /\ link' = [link EXCEPT ![c] = "broken"]
      BY <2>2 DEF ClientConnect, Open, NextOfItsHost, ClientExit, CloseByClient,
         ConnectionBreaks, Break
    <3> QED
      BY <1>1, <3>1 DEF ClosingIsBroken
  <2> QED
    BY <1>7, <2>1, <2>2 DEF ClientStep
<1> QED
  BY <1>3, <1>4, <1>5, <1>6, <1>7 DEF Next

LEMMA EndsNext ==
  ASSUME SysInv, EndsInv, [SystemNext]_allVars
  PROVE  EndsInv'
<1> USE DEF CP!lock, CP!ends, CP!queueVars, CP!drainVars, CP!halted, CP!world, CP!netVars,
            CP!clientVars
<1>1. /\ \A c \in Conns : link[c] = "broken" => link'[c] = "broken"
      /\ \A c \in Conns : link[c] # "unused" => link'[c] # "unused"
      /\ ClosingIsBroken'
  BY SysNext, LinksOnlyBreak DEF SysInv, EndsInv
<1>2. failed \subseteq Conns /\ conn \in Conns \cup {NoConn} /\ link \in [Conns -> LinkStates]
  BY HostFacts DEF SysInv, CP!TypeInv, CP!MoreTypes, TypeOK, NetTypeOK
<1>3. CASE UNCHANGED <<conn, failed>>
  BY <1>1, <1>2, <1>3 DEF EndsInv
<1>4. CASE ServerActs \/ NetworkActs \/ UNCHANGED allVars
  BY <1>3, <1>4, ServerIsServer DEF allVars, hostVars
<1>5. CASE ClientActs
  <2>1. CP!ClientNext
    BY <1>5, SameClient DEF ClientActs
  <2>2. ASSUME NEW p, CP!Connects(p) PROVE EndsInv'
    <3>1. PICK c \in CP!HostConns : CP!Open(c) /\ conn' = c
      BY <2>2 DEF CP!Connects
    <3>2. c \in Conns /\ link' = [link EXCEPT ![c] = "open"]
      BY <3>1, HostFacts DEF CP!Open
    <3>3. failed' = failed
      BY <2>2 DEF CP!Connects
    <3> QED
      BY <1>1, <1>2, <3>1, <3>2, <3>3 DEF EndsInv
  <2>3. ASSUME NEW p, CP!ConnectFails(p) \/ CP!RetryConnect(p) \/ CP!GiveUp(p)
        PROVE  UNCHANGED <<conn, failed>>
    BY <2>3 DEF CP!ConnectFails, CP!RetryConnect, CP!GiveUp
  <2>4. CASE CP!Receiver \/ CP!Processor
    BY <1>3, <2>4 DEF CP!Receiver, CP!ReceiveTask, CP!ReceiveFails, CP!ReceiveReconnects,
       CP!ReceiveEof, CP!Processor, CP!TakeTask, CP!FinishTask, CP!FinishTaskWith
  <2>5. ASSUME NEW c, link[c] = "broken", failed' = failed \cup {c},
               UNCHANGED <<conn, link>>
        PROVE  EndsInv'
    BY <1>1, <2>5 DEF EndsInv
  <2>6. CASE CP!Sender
    <3>1. CASE CP!SendFails
      BY <2>5, <3>1 DEF CP!SendFails
    <3> QED
      BY <1>3, <2>6, <3>1 DEF CP!Sender, CP!SendDrops, CP!SendWrites, CP!SendDrained,
         CP!SendDrainFails, CP!SendReconnects
  <2>7. CASE CP!Heart
    <3>1. CASE CP!HeartbeatFails
      BY <2>5, <3>1 DEF CP!HeartbeatFails
    <3> QED
      BY <1>3, <2>7, <3>1 DEF CP!Heart, CP!HeartbeatWrites, CP!HeartbeatDrains,
         CP!HeartbeatDrained, CP!HeartbeatDrainFails
  <2>8. ASSUME NEW c \in CP!HostConns, CP!CloseOnExit(c) \/ CP!ClientDetectsLoss(c)
        PROVE  EndsInv'
    BY <1>3, <2>5, <2>8 DEF CP!CloseOnExit, CP!ClientDetectsLoss
  <2> QED
    BY <1>3, <2>1, <2>2, <2>3, <2>4, <2>6, <2>7, <2>8
       DEF CP!ClientNext, CP!OtherSteps, CP!Connector
<1> QED
  BY <1>4, <1>5 DEF SystemNext
-----------------------------------------------------------------------------
(* What the client has and what is on its way to the server.               *)

\* A step that takes no task or result from where it is.
LEMMA HandsStay ==
  ASSUME UNCHANGED record,
         Range(clientQueue) \subseteq Range(clientQueue'), executing \subseteq executing',
         Range(taskResultQueue) \subseteq Range(taskResultQueue'),
         \A c \in CP!HostConns : Range(toServer[c]) \subseteq Range(toServer'[c])
  PROVE  \A t : Has(t) => Has(t)'
BY SameRange DEF Has, CP!InHand, CP!OnTheWire

\* A line written on an open connection is on it, behind the others.
LEMMA WrittenIsThere ==
  ASSUME TypeOK, NEW c \in Conns, link[c] = "open", NEW line \in ClientLines, ClientWrites(c, line)
  PROVE  /\ Range(toServer'[c]) = Range(toServer[c]) \cup {line}
         /\ \A d \in Conns : Range(toServer[d]) \subseteq Range(toServer'[d])
<1>1. toServer \in [Conns -> Seq(ClientLines)]
  BY DEF TypeOK, NetTypeOK
<1>2. toServer' = [toServer EXCEPT ![c] = Append(@, line)]
  BY DEF ClientWrites
<1>3. Range(Append(toServer[c], line)) = Range(toServer[c]) \cup {line}
  BY <1>1, AppendRange
<1> QED
  BY <1>1, <1>2, <1>3

\* The client's steps: whatever a coroutine takes it puts somewhere else.
LEMMA ProcessorKeeps ==
  ASSUME Outcomes \subseteq {"success", "error"}, SysInv, AnswerInv, UNCHANGED record,
         CP!Processor
  PROVE  \A t : Has(t) => Has(t)'
<1> USE DEF CP!lock, CP!ends, CP!queueVars, CP!drainVars, CP!halted, CP!world, CP!netVars
<1>1. clientQueue \in Seq(Tasks) /\ taskResultQueue \in Seq(CP!ResultLines)
      /\ executing \subseteq Tasks
  BY ClientFacts DEF SysInv
<1>2. CASE CP!TakeTask
  <2>1. clientQueue # << >> /\ executing' = {Head(clientQueue)}
        /\ clientQueue' = Tail(clientQueue) /\ UNCHANGED <<taskResultQueue, toServer>>
    BY <1>2 DEF CP!TakeTask
  <2>2. \A t \in Range(clientQueue) : t \in executing' \/ t \in Range(clientQueue')
    BY <1>1, <2>1, HeadOrTail
  <2>3. executing = {}
    BY <1>2 DEF CP!TakeTask, AnswerInv, CP!OneTask
  <2> QED
    BY <2>1, <2>2, <2>3, SameRange DEF Has, CP!InHand, CP!OnTheWire
<1>3. ASSUME NEW o \in Outcomes, CP!FinishTaskWith(o) PROVE \A t : Has(t) => Has(t)'
  <2>1. PICK u \in executing : taskResultQueue' =
          Append(taskResultQueue, IF o = "null" THEN CP!NullResult ELSE CP!Result(u, o))
    BY <1>3 DEF CP!FinishTaskWith
  <2> DEFINE r == Result(u, o)
  <2>2. o \in {"success", "error"} /\ u \in Tasks
    BY <1>1
  <2>3. taskResultQueue' = Append(taskResultQueue, r)
    BY <2>1, <2>2, SameNet
  <2>4. r \in CP!ResultLines /\ r # CP!NullResult /\ r.task = u
    BY <2>2, SameNet DEF CP!ResultLines, CP!Results, Result, CP!NullResult, Statuses
  <2>5. \A t \in executing : t = u
    BY DEF AnswerInv, CP!OneTask
  <2> HIDE DEF r
  <2>6. Range(taskResultQueue') = Range(taskResultQueue) \cup {r}
    BY <1>1, <2>3, <2>4, AppendRange
  <2>7. UNCHANGED <<clientQueue, toServer>>
    BY <1>3 DEF CP!FinishTaskWith
  <2> QED
    BY <2>4, <2>5, <2>6, <2>7, SameRange DEF Has, CP!InHand, CP!OnTheWire
<1> QED
  BY <1>2, <1>3 DEF CP!Processor, CP!FinishTask

LEMMA SenderKeeps ==
  ASSUME SysInv, AnswerInv, UNCHANGED record, CP!Sender, ~Broken
  PROVE  \A t : Has(t) => Has(t)'
<1> USE DEF CP!lock, CP!ends, CP!queueVars, CP!drainVars, CP!halted, CP!world, CP!netVars
<1> DEFINE h == Head(taskResultQueue)
           u == Tail(taskResultQueue)
<1>1. taskResultQueue \in Seq(CP!ResultLines) /\ sending \subseteq CP!ResultLines
  BY ClientFacts DEF SysInv
<1>2. pc["send"] # "off"
  BY DEF CP!Sender, CP!SendDrops, CP!SendWrites, CP!SendFails, CP!SendDrained, CP!SendDrainFails,
     CP!SendReconnects, CP!HasResult, CP!Drained, CP!DrainRaises
<1>3. conn \in CP!HostConns /\ conn \in Conns /\ conn # NoConn
  BY <1>2, ClientFacts, HostFacts DEF SysInv
<1>4. link[conn] = "open" /\ conn \notin failed
  <2>1. link \in [Conns -> LinkStates]
    BY DEF SysInv, TypeOK, NetTypeOK
  <2> QED
    BY <1>3, <2>1 DEF AnswerInv, EndsInv, Broken, LinkStates
<1>5. ~CP!SendDrops /\ ~CP!SendFails
  BY <1>4 DEF CP!SendDrops, CP!SendFails
<1>6. CASE CP!SendWrites
  <2>1. /\ taskResultQueue # << >> /\ CP!ClientWrites(conn, h)
        /\ taskResultQueue' = u /\ UNCHANGED <<clientQueue, executing>>
    BY <1>6 DEF CP!SendWrites, CP!HasResult
  <2>2. h \in CP!ResultLines
    BY <1>1, <2>1, HeadInRange
  <2>3. \A r \in Range(taskResultQueue) : r = h \/ r \in Range(taskResultQueue')
    BY <1>1, <2>1, HeadOrTail
  <2> HIDE DEF h, u
  <2>4. h \in ClientLines /\ ClientWrites(conn, h)
    BY <2>1, <2>2, ClientFacts, SameNetSteps DEF SysInv
  <2>5. /\ h \in Range(toServer'[conn])
        /\ \A c \in CP!HostConns : Range(toServer[c]) \subseteq Range(toServer'[c])
    BY <1>3, <1>4, <2>4, WrittenIsThere, HostFacts DEF SysInv
  <2>6. h # CP!NullResult => h.type = "task_result"
    BY <2>2 DEF CP!ResultLines, CP!Results
  <2> QED
    BY <1>3, <2>1, <2>3, <2>5, <2>6, SameRange DEF Has, CP!InHand, CP!OnTheWire
<1>7. CASE CP!SendDrained \/ CP!SendDrainFails \/ CP!SendReconnects
  <2>1. UNCHANGED <<clientQueue, executing, toServer>>
    BY <1>7 DEF CP!SendDrained, CP!SendDrainFails, CP!SendReconnects
  <2>2. Range(taskResultQueue) \subseteq Range(taskResultQueue')
    <3>1. CASE CP!SendDrainFails
      <4>1. PICK r \in sending : taskResultQueue' = Append(taskResultQueue, r)
        BY <3>1 DEF CP!SendDrainFails
      <4> QED
        BY <1>1, <4>1, AppendRange
    <3> QED
      BY <1>7, <3>1 DEF CP!SendDrained, CP!SendReconnects
  <2> QED
    BY <2>1, <2>2, HandsStay
<1> QED
  BY <1>5, <1>6, <1>7 DEF CP!Sender
LEMMA ClientKeeps ==
  ASSUME Outcomes \subseteq {"success", "error"}, SysInv, AnswerInv, ClientActs, ~Broken, ~Broken'
  PROVE  \A t \in received'[Host] : Has(t)'
<1> USE DEF CP!lock, CP!ends, CP!queueVars, CP!drainVars, CP!halted, CP!world, CP!netVars,
            CP!clientVars
<1>1. CP!ClientNext /\ UNCHANGED record
  BY SameClient DEF ClientActs, HostSide
<1>2. \A t \in received[Host] : Has(t)
  BY DEF AnswerInv
<1>3. CASE CP!ReceiveTask
  <2> DEFINE c == readingFrom
  <2>0. PICK t : t = Head(toClient[c])
    OBVIOUS
  <2>1. c \in Conns
    <3>1. pc["receive"] # "off"
      BY <1>3 DEF CP!ReceiveTask
    <3> QED
      BY <3>1, ClientFacts, HostFacts DEF SysInv
  <2>2. /\ toClient[c] # << >> /\ clientQueue' = Append(clientQueue, t)
        /\ received' = [received EXCEPT ![Host] = @ \cup {t}]
        /\ UNCHANGED <<toServer, executing, taskResultQueue>>
    BY <1>3, <2>0 DEF CP!ReceiveTask
  <2>3. toClient[c] \in Seq(Tasks) /\ received \in [IPs -> SUBSET Tasks] /\ Host \in IPs
    BY <2>1, HostFacts DEF SysInv, TypeOK, NetTypeOK
  <2>4. t \in Tasks /\ clientQueue \in Seq(Tasks)
    BY <2>0, <2>2, <2>3, HeadInRange, ClientFacts DEF SysInv
  <2>5. Range(clientQueue') = Range(clientQueue) \cup {t}
    BY <2>2, <2>4, AppendRange
  <2>6. received'[Host] = received[Host] \cup {t}
    BY <2>2, <2>3
  <2>7. \A u : Has(u) => Has(u)'
    BY <1>1, <2>2, <2>5, HandsStay
  <2>8. Has(t)'
    BY <2>5, SameRange DEF Has, CP!InHand
  <2> QED
    BY <1>2, <2>6, <2>7, <2>8
<1>4. CASE ~CP!ReceiveTask
  <2>1. UNCHANGED received
    BY <1>1, <1>4 DEF CP!ClientNext, CP!OtherSteps, CP!Connector, CP!Connects, CP!ConnectFails,
       CP!RetryConnect, CP!GiveUp, CP!Receiver, CP!ReceiveFails, CP!ReceiveReconnects,
       CP!ReceiveEof, CP!Processor, CP!TakeTask, CP!FinishTask, CP!FinishTaskWith,
       CP!Sender, CP!SendDrops, CP!SendWrites, CP!SendFails, CP!SendDrained, CP!SendDrainFails,
       CP!SendReconnects, CP!Heart, CP!HeartbeatWrites, CP!HeartbeatDrains, CP!HeartbeatDrained,
       CP!HeartbeatDrainFails, CP!HeartbeatFails, CP!CloseOnExit, CP!ClientDetectsLoss
  <2>2. ASSUME UNCHANGED <<clientQueue, executing, taskResultQueue, toServer>>
        PROVE  \A t : Has(t) => Has(t)'
    BY <1>1, <2>2, HandsStay
  <2>3. ASSUME NEW p, CP!Connector(p) PROVE \A t : Has(t) => Has(t)'
    BY <2>2, <2>3 DEF CP!Connector, CP!Connects, CP!Open, CP!ConnectFails, CP!RetryConnect,
       CP!GiveUp
  <2>4. ASSUME CP!Receiver PROVE \A t : Has(t) => Has(t)'
    BY <1>4, <2>2, <2>4 DEF CP!Receiver, CP!ReceiveFails, CP!ReceiveReconnects, CP!ReceiveEof
  <2>5. ASSUME CP!Heart PROVE \A t : Has(t) => Has(t)'
    <3>1. ASSUME CP!HeartbeatWrites PROVE \A t : Has(t) => Has(t)'
      <4>1. pc["heartbeat"] # "off"
        BY <3>1 DEF CP!HeartbeatWrites
      <4>2. conn \in CP!HostConns /\ conn \in Conns /\ conn # NoConn
        BY <4>1, ClientFacts, HostFacts DEF SysInv
      <4>3. link[conn] = "open"
        <5>1. link \in [Conns -> LinkStates]
          BY DEF SysInv, TypeOK, NetTypeOK
        <5> QED
          BY <4>2, <5>1 DEF LinkStates, AnswerInv, EndsInv, Broken
      <4>4. ClientWrites(conn, Heartbeat) /\ Heartbeat \in ClientLines
        BY <3>1, SameNet, SameNetSteps DEF CP!HeartbeatWrites, ClientLines
      <4>5. \A c \in CP!HostConns : Range(toServer[c]) \subseteq Range(toServer'[c])
        <5> HIDE DEF CP!HeartbeatWrites
        <5>1. TypeOK
          BY DEF SysInv
        <5>2. \A d \in Conns : Range(toServer[d]) \subseteq Range(toServer'[d])
          BY <4>2, <4>3, <4>4, <5>1, WrittenIsThere
        <5> QED
          BY <5>2, HostFacts
      <4>6. UNCHANGED <<clientQueue, executing, taskResultQueue>>
        BY <3>1 DEF CP!HeartbeatWrites
      <4> QED
        BY <1>1, <4>5, <4>6, HandsStay
    <3> QED
      BY <2>2, <2>5, <3>1 DEF CP!Heart, CP!HeartbeatDrains, CP!HeartbeatDrained,
         CP!HeartbeatDrainFails, CP!HeartbeatFails
  <2>6. ASSUME NEW c \in CP!HostConns, CP!CloseOnExit(c) PROVE FALSE
    <3>1. c \in Conns /\ link' = [link EXCEPT ![c] = "broken"]
      BY <2>6, HostFacts DEF CP!CloseOnExit, CP!CloseByClient
    <3>2. link'[c] = "broken"
      BY <3>1 DEF SysInv, TypeOK, NetTypeOK
    <3> QED
      BY <3>1, <3>2 DEF Broken
  <2>7. ASSUME NEW c \in CP!HostConns, CP!ClientDetectsLoss(c) PROVE \A t : Has(t) => Has(t)'
    BY <2>2, <2>7 DEF CP!ClientDetectsLoss
  <2>8. \A t : Has(t) => Has(t)'
    BY <1>1, <2>3, <2>4, <2>5, <2>6, <2>7, ProcessorKeeps, SenderKeeps
       DEF CP!ClientNext, CP!OtherSteps
  <2> QED
    BY <1>2, <2>1, <2>8
<1> QED
  BY <1>3, <1>4

-----------------------------------------------------------------------------
(* The server: a result that is read is recorded.                          *)

\* An update with a status that is not 'running' leaves no document behind it.
LEMMA UpdateFinishes ==
  ASSUME TypeOK, ~DbMayRaise, NEW t \in Tasks, NEW s \in Statuses, s # "running",
         update_task(t, s)
  PROVE  /\ record'[t] # "running"
         /\ \A u \in Tasks : record[u] # "running" => record'[u] # "running"
<1>1. record' = Upsert(t, s)
  BY DEF update_task
<1>2. record'[t] # "running"
  <2>1. CASE record[t] = "running"
    <3>1. t \in {u \in SameId(t) : record[u] # "none"}
      BY <2>1 DEF SameId
    <3> QED
      BY <1>1, <3>1 DEF Upsert
  <2>2. CASE record[t] # "running"
    BY <1>1, <2>2 DEF Upsert
  <2> QED
    BY <2>1, <2>2
<1>3. \A u \in Tasks : record'[u] \in {record[u], s}
  BY <1>1 DEF Upsert
<1> QED
  BY <1>2, <1>3

\* A line that is read leaves the others on the connection.
LEMMA ReadLeaves ==
  ASSUME TypeOK, NEW c \in Conns, NEW type, ReadsLine(c, type)
  PROVE  /\ Head(toServer[c]) \in ClientLines /\ Head(toServer[c]) \in Range(toServer[c])
         /\ Head(toServer[c]).type = type
         /\ \A d \in Conns : /\ Range(toServer'[d]) \subseteq Range(toServer[d])
                             /\ \A r \in Range(toServer[d]) :
                                  r \in Range(toServer'[d]) \/ (d = c /\ r = Head(toServer[c]))
<1>1. toServer \in [Conns -> Seq(ClientLines)] /\ toServer[c] # << >>
      /\ toServer' = [toServer EXCEPT ![c] = Tail(@)]
  BY DEF ReadsLine, TypeOK, NetTypeOK
<1>2. /\ Head(toServer[c]) \in Range(toServer[c]) /\ Head(toServer[c]) \in ClientLines
      /\ Range(Tail(toServer[c])) \subseteq Range(toServer[c])
      /\ \A r \in Range(toServer[c]) : r = Head(toServer[c]) \/ r \in Range(Tail(toServer[c]))
  BY <1>1, HeadInRange, TailRange, HeadOrTail
<1> QED
  BY <1>1, <1>2 DEF ReadsLine
LEMMA ServerKeeps ==
  ASSUME ~DbMayRaise, SysInv, AnswerInv, TasksReachTheirHost, ServerActs, ~Broken
  PROVE  \A t \in received'[Host] : Has(t)'
<1> USE DEF netVars, serverVars
<1>1. UNCHANGED <<clientQueue, executing, taskResultQueue>>
  BY DEF ServerActs, hostVars
<1>2. UNCHANGED received
  BY ServerIsServer
<1>3. received \in [IPs -> SUBSET Tasks] /\ Host \in IPs /\ TypeOK
  BY HostFacts DEF SysInv, TypeOK
<1>4. \A t \in received[Host] : t \in Tasks /\ request[t] = "queued" /\ Has(t)
  BY <1>3 DEF TasksReachTheirHost, HandedOver, AnswerInv
\* A task is kept where it is, or its document is finished.
<1>5. ASSUME NEW t, Has(t),
             \A c \in CP!HostConns : \A r \in Range(toServer[c]) :
               r.type = "task_result" /\ r.task = t =>
                 r \in Range(toServer'[c]) \/ record'[t] # "running",
             record[t] # "running" => record'[t] # "running"
      PROVE  Has(t)'
  BY <1>1, <1>5, SameRange DEF Has, CP!InHand, CP!OnTheWire
<1>6. ASSUME UNCHANGED toServer,
             \A t \in received[Host] : record[t] # "running" => record'[t] # "running"
      PROVE  \A t \in received'[Host] : Has(t)'
  BY <1>2, <1>4, <1>5, <1>6
<1>7. ASSUME FlaskStep PROVE \A t \in received'[Host] : Has(t)'
  <2>1. UNCHANGED toServer
    BY <1>7 DEF FlaskStep, CreateRecord, EnqueueTask
  <2>2. ASSUME NEW u \in Tasks, CreateRecord(u), NEW t \in received[Host]
        PROVE  record'[t] = record[t]
    BY <1>3, <1>4, <2>2 DEF CreateRecord, TypeOK
  <2> QED
    BY <1>6, <1>7, <2>1, <2>2 DEF FlaskStep, EnqueueTask
<1>8. ASSUME DistributorStep PROVE \A t \in received'[Host] : Has(t)'
  <2>1. UNCHANGED toServer
    BY <1>8 DEF DistributorStep, DispatchNoConnection, DispatchToClosing, DispatchSend,
       ServerWrites, DispatchSendFails, DrainDone, DrainFails
  <2>2. ASSUME DispatchNoConnection PROVE \A t \in received'[Host] : Has(t)'
    <3>1. PICK u \in Tasks : update_task(u, "error")
      BY <2>2 DEF DispatchNoConnection
    <3>2. \A t \in Tasks : record[t] # "running" => record'[t] # "running"
      BY <1>3, <3>1, UpdateFinishes DEF Statuses
    <3> QED
      BY <1>4, <1>6, <2>1, <3>2
  <2>3. ASSUME ~DispatchNoConnection PROVE UNCHANGED record
    BY <1>8, <2>3 DEF DistributorStep, DispatchToClosing, DispatchSend, DispatchSendFails,
       DrainDone, DrainFails
  <2> QED
    BY <1>6, <2>1, <2>2, <2>3
<1>9. ASSUME NEW c \in Conns, HandlerStep(c) \/ ServerDetectsLoss(c)
      PROVE  \A t \in received'[Host] : Has(t)'
  <2>1. ~HandlerLosesReader(c)
    BY DEF HandlerLosesReader, AnswerInv, EndsInv, ClosingIsBroken, Broken
  <2>2. ASSUME HandleTaskResult(c) PROVE \A t \in received'[Host] : Has(t)'
    <3>1. PICK r : r = Head(toServer[c])
      OBVIOUS
    <3>2. ReadsLine(c, "task_result") /\ update_task(r.task, r.status)
      BY <2>2, <3>1 DEF HandleTaskResult
    <3>3. /\ r \in ClientLines /\ r \in Range(toServer[c]) /\ r.type = "task_result"
          /\ \A d \in Conns : \A l \in Range(toServer[d]) :
               l \in Range(toServer'[d]) \/ l = r
      BY <1>3, <3>1, <3>2, ReadLeaves
    <3>4. r \in Results
      BY <3>3 DEF ClientLines, Heartbeat, NullResult, Eof
    <3>5. r \in CP!Lines
      BY <3>3, SameNet, SameRange DEF CP!Lines, CP!OnWire
    <3>6. r.task \in Tasks /\ r.status \in Statuses /\ r.status # "running"
      BY <3>3, <3>4, <3>5 DEF AnswerInv, Results
    <3>7. PICK u \in Tasks, s \in Statuses : u = r.task /\ s = r.status
      BY <3>6
    <3>8. /\ record'[u] # "running"
          /\ \A t \in Tasks : record[t] # "running" => record'[t] # "running"
      BY <1>3, <3>2, <3>6, <3>7, UpdateFinishes
    <3> QED
      BY <1>2, <1>4, <1>5, <3>3, <3>7, <3>8, HostFacts
  <2>3. ASSUME NEW type, ReadsLine(c, type), type # "task_result", UNCHANGED record
        PROVE  \A t \in received'[Host] : Has(t)'
    <3>1. /\ Head(toServer[c]).type = type
          /\ \A d \in Conns : \A l \in Range(toServer[d]) :
               l \in Range(toServer'[d]) \/ l = Head(toServer[c])
      BY <1>3, <2>3, ReadLeaves
    <3> QED
      BY <1>2, <1>4, <1>5, <2>3, <3>1, HostFacts
  <2>4. ASSUME HandleHeartbeat(c) \/ HandleBadLine(c) PROVE \A t \in received'[Host] : Has(t)'
    BY <2>3, <2>4 DEF HandleHeartbeat, HandleBadLine
  <2>5. ASSUME Accept(c) \/ AcceptFails(c) \/ ServerDetectsLoss(c)
        PROVE  UNCHANGED <<toServer, record>>
    BY <2>5 DEF Accept, AcceptFails, ServerDetectsLoss
  <2> QED
    BY <1>6, <1>9, <2>1, <2>2, <2>4, <2>5 DEF HandlerStep
<1> QED
  BY <1>7, <1>8, <1>9 DEF ServerActs
-----------------------------------------------------------------------------
(* No line says a task is running.                                         *)

NoneRuns == \A r \in CP!Lines : r.type = "task_result" => r.status # "running"

LEMMA ClientLinesFinish ==
  ASSUME Outcomes \subseteq {"success", "error"}, SysInv, AnswerInv, ClientActs
  PROVE  NoneRuns'
<1>1. NoneRuns /\ CP!OneTask /\ CP!TypeInv /\ CP!ClientNext
  BY SameClient DEF AnswerInv, NoneRuns, SysInv, ClientActs
<1>2. \A r \in CP!Others : r.type # "task_result"
  BY DEF CP!Others, CP!Heartbeat, CP!Eof, CP!NullResult
<1>3. ASSUME CP!Lines' \subseteq CP!Lines \cup CP!Others PROVE NoneRuns'
  BY <1>1, <1>2, <1>3 DEF NoneRuns
<1>4. ASSUME CP!FinishTask PROVE NoneRuns'
  <2>1. PICK o \in Outcomes : CP!FinishTaskWith(o)
    BY <1>4 DEF CP!FinishTask
  <2>2. PICK t \in executing : TRUE
    BY <2>1 DEF CP!FinishTaskWith
  <2>3. CP!Lines' \subseteq CP!Lines \cup CP!Others \cup {CP!Result(t, o)}
    BY <1>1, <2>1, ClientConstants, CP!LinesEnd
  <2>4. CP!Result(t, o).status # "running"
    BY DEF CP!Result
  <2> HIDE DEF CP!Result
  <2> QED
    BY <1>1, <1>2, <2>3, <2>4 DEF NoneRuns
<1>5. ASSUME CP!TakeTask \/ CP!OtherSteps PROVE NoneRuns'
  BY <1>1, <1>3, <1>5, ClientConstants, CP!LinesStay
<1> QED
  BY <1>1, <1>4, <1>5 DEF CP!ClientNext, CP!Processor

\* The server and the network only take lines.
LEMMA ServerTakesLines ==
  ASSUME TypeOK, ServerActs \/ NetworkActs
  PROVE  \A c \in Conns : Range(toServer'[c]) \subseteq Range(toServer[c])
<1>1. toServer \in [Conns -> Seq(ClientLines)]
  BY DEF TypeOK, NetTypeOK
<1>2. CASE UNCHANGED toServer
  BY <1>2
<1>3. ASSUME NEW c \in Conns, NEW s, toServer' = [toServer EXCEPT ![c] = s],
             Range(s) \subseteq Range(toServer[c])
      PROVE  \A d \in Conns : Range(toServer'[d]) \subseteq Range(toServer[d])
  BY <1>1, <1>3
<1>4. ASSUME NEW c \in Conns, HandlerStep(c) \/ ServerDetectsLoss(c)
      PROVE  \A d \in Conns : Range(toServer'[d]) \subseteq Range(toServer[d])
  <2>1. ASSUME NEW type, ReadsLine(c, type)
        PROVE  \A d \in Conns : Range(toServer'[d]) \subseteq Range(toServer[d])
    BY <2>1, ReadLeaves
  <2>2. ASSUME HandlerLosesReader(c)
        PROVE  \A d \in Conns : Range(toServer'[d]) \subseteq Range(toServer[d])
    BY <1>3, <2>2, EmptyRange DEF HandlerLosesReader
  <2>3. ASSUME Accept(c) \/ AcceptFails(c) \/ ServerDetectsLoss(c)
        PROVE  UNCHANGED toServer
    BY <2>3 DEF Accept, AcceptFails, ServerDetectsLoss, netVars
  <2> QED
    BY <1>2, <1>4, <2>1, <2>2, <2>3
       DEF HandlerStep, HandleHeartbeat, HandleTaskResult, HandleBadLine
<1>5. ASSUME NEW c \in Conns, ConnectionBreaks(c)
      PROVE  \A d \in Conns : Range(toServer'[d]) \subseteq Range(toServer[d])
  <2>1. PICK k \in 0..Len(toServer[c]) :
          toServer' = [toServer EXCEPT ![c] = SubSeq(@, 1, k)]
    BY <1>5 DEF ConnectionBreaks, Break
  <2>2. Range(SubSeq(toServer[c], 1, k)) \subseteq Range(toServer[c])
    BY <1>1, PrefixRange
  <2>3. toServer' = [toServer EXCEPT ![c] = SubSeq(toServer[c], 1, k)]
    BY <2>1
  <2> QED
    BY <1>3, <2>2, <2>3
<1>6. ASSUME FlaskStep \/ DistributorStep PROVE UNCHANGED toServer
  BY <1>6 DEF FlaskStep, CreateRecord, EnqueueTask, DistributorStep, DispatchNoConnection,
     DispatchToClosing, DispatchSend, ServerWrites, DispatchSendFails, DrainDone, DrainFails,
     netVars
<1> QED
  BY <1>2, <1>4, <1>5, <1>6 DEF ServerActs, NetworkActs

LEMMA AnswerNext ==
  ASSUME ~DbMayRaise, Outcomes \subseteq {"success", "error"},
         SysInv, AnswerInv, TasksReachTheirHost, [SystemNext]_allVars
  PROVE  AnswerInv'
<1>1. EndsInv'
  BY EndsNext DEF AnswerInv
<1>2. CP!OneTask'
  <2>1. CASE ClientActs
    <3>1. CP!Next
      BY <2>1, SameClient DEF ClientActs, CP!Next
    <3> QED
      BY <3>1, ClientConstants, CP!OneTaskNext DEF SysInv, AnswerInv
  <2>2. CASE UNCHANGED hostVars
    BY <2>2 DEF AnswerInv, CP!OneTask, hostVars
  <2> QED
    BY <2>1, <2>2 DEF SystemNext, ServerActs, NetworkActs, allVars
<1>3. NoneRuns'
  <2>1. CASE ClientActs
    BY <2>1, ClientLinesFinish
  <2>2. CASE ServerActs \/ NetworkActs \/ UNCHANGED allVars
    <3>1. \A c \in Conns : Range(toServer'[c]) \subseteq Range(toServer[c])
      BY <2>2, ServerTakesLines DEF SysInv, allVars, vars, netVars
    <3>2. UNCHANGED <<taskResultQueue, sending>>
      BY <2>2 DEF ServerActs, NetworkActs, allVars, hostVars
    <3>3. CP!Lines' \subseteq CP!Lines
      BY <3>1, <3>2, SameNet, SameRange DEF CP!Lines, CP!OnWire
    <3> QED
      BY <3>3 DEF AnswerInv, NoneRuns
  <2> QED
    BY <2>1, <2>2 DEF SystemNext
<1>4. Broken' \/ \A t \in received'[Host] : Has(t)'
  <2>1. CASE Broken
    <3>1. [Next]_vars
      BY SysNext
    <3> QED
      BY <2>1, <3>1, LinksOnlyBreak DEF Broken, SysInv, AnswerInv, EndsInv
  <2>2. CASE ~Broken /\ ClientActs
    BY <2>2, ClientKeeps
  <2>3. CASE ~Broken /\ ServerActs
    BY <2>3, ServerKeeps
  <2>4. CASE NetworkActs
    <3>1. PICK c \in Conns : link' = [link EXCEPT ![c] = "broken"]
      BY <2>4 DEF NetworkActs, ConnectionBreaks, Break
    <3> QED
      BY <3>1 DEF Broken, SysInv, TypeOK, NetTypeOK
  <2>5. CASE ~Broken /\ UNCHANGED allVars
    <3>1. UNCHANGED <<received, record, toServer, clientQueue, executing, taskResultQueue>>
      BY <2>5 DEF allVars, vars, netVars, serverVars, hostVars
    <3>2. \A t : Has(t) => Has(t)'
      BY <3>1, HandsStay
    <3> QED
      BY <2>5, <3>1, <3>2 DEF AnswerInv
  <2> QED
    BY <2>1, <2>2, <2>3, <2>4, <2>5 DEF SystemNext
<1> QED
  BY <1>1, <1>2, <1>3, <1>4 DEF AnswerInv, NoneRuns

LEMMA AnswerInit == SystemInit => AnswerInv
<1> SUFFICES ASSUME SystemInit PROVE AnswerInv
  OBVIOUS
<1>1. CP!Init
  BY SameClient DEF SystemInit, Init, NetInit, CP!Init, CP!NetInit, CP!Conns, Conns
<1>2. CP!OneTask
  BY <1>1, ClientConstants, CP!OneTaskInit
<1>3. failed = {} /\ conn = NoConn /\ taskResultQueue = << >> /\ sending = {}
  BY <1>1 DEF CP!Init, CP!ClientInit
<1>4. closing = {} /\ received[Host] = {} /\ \A c \in Conns : toServer[c] = << >>
  BY HostFacts DEF SystemInit, Init, NetInit
<1>5. CP!Lines = {}
  BY <1>3, <1>4, EmptyRange, SameNet, SameRange DEF CP!Lines, CP!OnWire
<1> QED
  BY <1>2, <1>3, <1>4, <1>5 DEF AnswerInv, EndsInv, ClosingIsBroken

\* Until a connection breaks, a task the host has got is in the client's hands,
\* its result is on a connection, or its document is finished: no hand-over
\* between the client's coroutines, no reconnection and no handler that ends loses
\* it.  Both conditions are needed: an error of the database that update_task
\* swallows leaves the document 'running', and so does a task controller that
\* answers nothing ("null") or the 'running' it was given.
THEOREM DeliveredCorrect ==
  ASSUME ~DbMayRaise, Outcomes \subseteq {"success", "error"}
  PROVE  SystemSpec => []DeliveredTaskIsAnswered
<1>1. SysInv /\ AnswerInv /\ TasksReachTheirHost /\ [SystemNext]_allVars
        => SysInv' /\ AnswerInv'
  BY SysNext, AnswerNext
<1>2. SystemInit => SysInv /\ AnswerInv
  BY SysInit, AnswerInit
<1>3. SystemSpec => []TasksReachTheirHost
  BY SystemIsServer, TasksReachTheirHostCorrect, PTL DEF ServerSpec
<1>4. AnswerInv => DeliveredTaskIsAnswered
  BY SameHands DEF AnswerInv, DeliveredTaskIsAnswered, Has
<1> QED
  BY <1>1, <1>2, <1>3, <1>4, PTL DEF SystemSpec

\* With a real client the server keeps its promises: they are proved for hosts
\* that do what they like, and this client is one of them.
THEOREM SystemKeepsPromises ==
  SystemSpec => [](RegistryIsLive /\ TasksReachTheirHost /\ SuccessWasReported)
BY SystemIsServer, RegistryCorrect, TasksReachTheirHostCorrect, SuccessCorrect, PTL
   DEF ServerSpec
-----------------------------------------------------------------------------
(* The server of the system is one that the client's specification allows.  *)

\* The client never finds a connection ended in order, and no other host has one.
OnlyHostConnects ==
    /\ ended = {}
    /\ \A c \in Conns : c[1] # Host =>
         link[c] = "unused" /\ toServer[c] = << >> /\ toClient[c] = << >>

\* What a step does to other hosts' connections.
Elsewhere ==
    \A c \in Conns : c[1] # Host =>
        link'[c] = link[c] /\ toServer'[c] = toServer[c] /\ toClient'[c] = toClient[c]

LEMMA ElsewhereIsQuiet ==
  ASSUME OnlyHostConnects, Elsewhere, UNCHANGED ended
  PROVE  OnlyHostConnects'
BY DEF OnlyHostConnects, Elsewhere

LEMMA ClientStaysHome ==
  ASSUME SysInv, CP!ClientNext
  PROVE  Elsewhere /\ UNCHANGED ended
<1> USE DEF CP!lock, CP!ends, CP!queueVars, CP!drainVars, CP!halted, CP!world, CP!netVars,
            CP!clientVars
<1>1. /\ link \in [Conns -> LinkStates] /\ toServer \in [Conns -> Seq(ClientLines)]
      /\ toClient \in [Conns -> Seq(Tasks)]
  BY DEF SysInv, TypeOK, NetTypeOK
<1>2. CASE UNCHANGED CP!world
  BY <1>2 DEF Elsewhere
<1>3. ASSUME NEW p, CP!Connects(p) PROVE Elsewhere /\ UNCHANGED ended
  <2>1. PICK c \in CP!HostConns : CP!Open(c)
    BY <1>3 DEF CP!Connects
  <2>2. /\ link' = [link EXCEPT ![c] = "open"] /\ UNCHANGED <<toServer, toClient, ended>>
    BY <1>3, <2>1 DEF CP!Open, CP!Connects
  <2> QED
    BY <1>1, <2>2, HostFacts DEF Elsewhere
<1>4. ASSUME NEW p, CP!ConnectFails(p) \/ CP!RetryConnect(p) \/ CP!GiveUp(p)
      PROVE  UNCHANGED CP!world
  BY <1>4 DEF CP!ConnectFails, CP!RetryConnect, CP!GiveUp
<1>5. CASE CP!ReceiveTask
  <2>1. readingFrom \in CP!HostConns
    BY <1>5, ClientFacts DEF SysInv, CP!ReceiveTask
  <2>2. /\ toClient' = [toClient EXCEPT ![readingFrom] = Tail(@)]
        /\ UNCHANGED <<link, toServer, ended>>
    BY <1>5 DEF CP!ReceiveTask
  <2> QED
    BY <1>1, <2>1, <2>2, HostFacts DEF Elsewhere
<1>6. ASSUME NEW line, CP!ClientWrites(conn, line), conn \in CP!HostConns
      PROVE  Elsewhere
  BY <1>1, <1>6, HostFacts DEF CP!ClientWrites, Elsewhere
<1>7. CASE CP!SendWrites \/ CP!HeartbeatWrites
  <2>1. conn \in CP!HostConns
    BY <1>7, ClientFacts DEF SysInv, CP!SendWrites, CP!HasResult, CP!HeartbeatWrites
  <2> QED
    BY <1>6, <1>7, <2>1 DEF CP!SendWrites, CP!HeartbeatWrites
<1>8. ASSUME NEW c \in CP!HostConns, CP!CloseOnExit(c) PROVE Elsewhere /\ UNCHANGED ended
  <2>1. /\ link' = [link EXCEPT ![c] = "broken"]
        /\ toServer' = [toServer EXCEPT ![c] = Append(@, CP!Eof)]
        /\ toClient' = [toClient EXCEPT ![c] = << >>]
        /\ UNCHANGED ended
    BY <1>8 DEF CP!CloseOnExit, CP!CloseByClient
  <2> QED
    BY <1>1, <2>1, HostFacts DEF Elsewhere
<1>9. CASE CP!Receiver /\ ~CP!ReceiveTask
  BY <1>9, <1>2 DEF CP!Receiver, CP!ReceiveFails, CP!ReceiveReconnects, CP!ReceiveEof
<1>10. CASE CP!Processor
  BY <1>10, <1>2 DEF CP!Processor, CP!TakeTask, CP!FinishTask, CP!FinishTaskWith
<1>11. CASE CP!Sender /\ ~CP!SendWrites
  BY <1>11, <1>2 DEF CP!Sender, CP!SendDrops, CP!SendFails, CP!SendDrained, CP!SendDrainFails,
     CP!SendReconnects
<1>12. CASE CP!Heart /\ ~CP!HeartbeatWrites
  BY <1>12, <1>2 DEF CP!Heart, CP!HeartbeatDrains, CP!HeartbeatDrained, CP!HeartbeatDrainFails,
     CP!HeartbeatFails
<1>13. ASSUME NEW c, CP!ClientDetectsLoss(c) PROVE UNCHANGED CP!world
  BY <1>13 DEF CP!ClientDetectsLoss
<1> QED
  BY <1>2, <1>3, <1>4, <1>5, <1>7, <1>8, <1>9, <1>10, <1>11, <1>12, <1>13
     DEF CP!ClientNext, CP!OtherSteps, CP!Connector, CP!Receiver, CP!Sender, CP!Heart

\* A task the server writes is one that Client lets it send: its host has not read
\* it, and it is on no connection.
LEMMA SendIsFirst ==
  ASSUME SysInv, OnlyHostConnects, DeliveryInv, OnceInv, DispatchSend, UNCHANGED hostVars
  PROVE  (\E c \in C!HostConns : C!ServerSends(c)) \/ UNCHANGED C!vars
<1> USE DEF C!vars, C!world, C!clientVars, C!netVars, C!lock, C!ends, C!queueVars, C!drainVars,
            C!halted, hostVars
<1>1. PICK t \in Tasks, c \in Conns \ closing : TakesTask(t, c) /\ ServerWrites(c, t)
  BY DEF DispatchSend
<1>2. UNCHANGED <<link, toServer, received>>
  BY <1>1 DEF ServerWrites, DispatchSend
<1>3. CASE link[c] # "open"
  BY <1>1, <1>2, <1>3 DEF ServerWrites
<1>4. CASE link[c] = "open"
  <2>1. c[1] = Host
    BY <1>4 DEF OnlyHostConnects
  <2>2. taskQueue \in Seq(Tasks) /\ taskQueue # << >> /\ t = Head(taskQueue)
    BY <1>1 DEF TakesTask, SysInv, TypeOK
  <2>3. t \in Range(taskQueue)
    BY <2>2, HeadInRange
  <2>4. connected_clients[ClientIp[t]] = c /\ ClientIp[t] \in IPs
    BY <1>1, ServerAssumption DEF TakesTask, ServerAssumption
  <2>5. ClientIp[t] = Host
    BY <2>1, <2>4 DEF DeliveryInv, RegistryInv, RegistryIsLive
  <2>6. t \notin received[Host] /\ \A d \in Conns : t \notin Range(toClient[d])
    BY <2>3, <2>5 DEF OnceInv, Delivered, InFlight
  <2>7. C!Unsent(t)
    BY <2>6 DEF C!Unsent, C!Conns, Conns, C!Range, Range
  <2>8. c \in C!HostConns /\ C!ServerWrites(c, t) /\ c \notin ended
    BY <1>1, <2>1 DEF C!HostConns, C!Conns, Conns, C!ServerWrites, ServerWrites, OnlyHostConnects
  <2> QED
    BY <1>2, <1>4, <2>7, <2>8 DEF C!ServerSends
<1> QED
  BY <1>3, <1>4

\* Lines leave a connection to the server one by one, or all with the connection.
LEMMA ReadIsRead ==
  ASSUME SysInv, OnlyHostConnects, ClosingIsBroken, NEW c \in Conns, HandlerStep(c),
         UNCHANGED hostVars
  PROVE  (\E d \in C!HostConns : C!ServerReads(d) \/ C!ServerDrops(d)) \/ UNCHANGED C!vars
<1> USE DEF C!vars, C!world, C!clientVars, C!netVars, C!lock, C!ends, C!queueVars, C!drainVars,
            C!halted, hostVars, netVars
<1>1. UNCHANGED <<link, toClient, received>>
  BY DEF HandlerStep, Accept, AcceptFails, HandleHeartbeat, HandleTaskResult, HandleBadLine,
     HandlerLosesReader
<1>2. toServer[c] # << >> => c \in C!HostConns
  BY DEF OnlyHostConnects, C!HostConns, C!Conns, Conns
<1>3. CASE Accept(c) \/ AcceptFails(c)
  BY <1>1, <1>3 DEF Accept, AcceptFails
<1>4. ASSUME NEW type, ReadsLine(c, type) PROVE \E d \in C!HostConns : C!ServerReads(d)
  BY <1>1, <1>2, <1>4 DEF ReadsLine, C!ServerReads
<1>5. CASE HandleHeartbeat(c) \/ HandleTaskResult(c) \/ HandleBadLine(c)
  BY <1>4, <1>5 DEF HandleHeartbeat, HandleTaskResult, HandleBadLine
<1>6. CASE HandlerLosesReader(c)
  <2>1. link[c] = "broken" /\ toServer' = [toServer EXCEPT ![c] = << >>]
    BY <1>6 DEF HandlerLosesReader, ClosingIsBroken
  <2>2. CASE toServer[c] # << >>
    BY <1>1, <1>2, <2>1, <2>2 DEF C!ServerDrops
  <2>3. CASE toServer[c] = << >>
    <3>1. toServer \in [Conns -> Seq(ClientLines)]
      BY DEF SysInv, TypeOK, NetTypeOK
    <3>2. toServer' = toServer
      BY <2>1, <2>3, <3>1
    <3> QED
      BY <1>1, <3>2
  <2> QED
    BY <2>2, <2>3
<1> QED
  BY <1>3, <1>5, <1>6 DEF HandlerStep

LEMMA BreakIsBreak ==
  ASSUME OnlyHostConnects, NEW c \in Conns, ConnectionBreaks(c), UNCHANGED hostVars
  PROVE  \E d \in C!HostConns : C!ConnectionBreaks(d)
<1>1. c \in C!HostConns
  BY DEF OnlyHostConnects, ConnectionBreaks, Break, C!HostConns, C!Conns, Conns
<1>2. C!ConnectionBreaks(c)
  BY DEF ConnectionBreaks, C!ConnectionBreaks, Break, C!Break, hostVars, C!clientVars, C!lock,
     C!ends, C!queueVars, C!drainVars, C!halted
<1> QED
  BY <1>1, <1>2

LEMMA ServerIsWorld ==
  ASSUME SysInv, OnlyHostConnects, ClosingIsBroken, DeliveryInv, OnceInv,
         ServerActs \/ NetworkActs, ~DrainFails
  PROVE  [C!WorldNext]_(C!vars)
<1>1. UNCHANGED hostVars
  BY ServerIsServer
<1>2. ASSUME UNCHANGED <<netVars, received>> PROVE UNCHANGED C!vars
  BY <1>1, <1>2 DEF C!vars, C!world, C!clientVars, C!netVars, C!lock, C!ends, C!queueVars,
     C!drainVars, C!halted, hostVars, netVars
<1>3. CASE FlaskStep
  BY <1>2, <1>3 DEF FlaskStep, CreateRecord, EnqueueTask
<1>4. CASE DistributorStep
  <2>1. CASE DispatchSend
    BY <1>1, <2>1, SendIsFirst DEF C!WorldNext, C!WorldStep
  <2> QED
    BY <1>2, <1>4, <2>1 DEF DistributorStep, DispatchNoConnection, DispatchToClosing,
       DispatchSendFails, DrainDone
<1>5. ASSUME NEW c \in Conns, HandlerStep(c) PROVE [C!WorldNext]_(C!vars)
  BY <1>1, <1>5, ReadIsRead DEF C!WorldNext, C!WorldStep
<1>6. ASSUME NEW c \in Conns, ServerDetectsLoss(c) PROVE [C!WorldNext]_(C!vars)
  BY <1>2, <1>6 DEF ServerDetectsLoss
<1>7. ASSUME NEW c \in Conns, ConnectionBreaks(c) PROVE [C!WorldNext]_(C!vars)
  BY <1>1, <1>7, BreakIsBreak DEF C!WorldNext, C!WorldStep
<1> QED
  BY <1>3, <1>4, <1>5, <1>6, <1>7 DEF ServerActs, NetworkActs

LEMMA ServerStaysHome ==
  ASSUME SysInv, OnlyHostConnects, ServerActs \/ NetworkActs
  PROVE  OnlyHostConnects'
<1> USE DEF netVars
<1>1. /\ link \in [Conns -> LinkStates] /\ toServer \in [Conns -> Seq(ClientLines)]
      /\ toClient \in [Conns -> Seq(Tasks)]
  BY DEF SysInv, TypeOK, NetTypeOK
<1>2. UNCHANGED ended
  BY ServerIsServer DEF hostVars
<1>3. CASE UNCHANGED netVars
  BY <1>3, <1>2 DEF OnlyHostConnects
<1>4. CASE FlaskStep
  BY <1>3, <1>4 DEF FlaskStep, CreateRecord, EnqueueTask
<1>5. CASE DistributorStep
  <2>1. CASE DispatchSend
    <3>1. PICK t \in Tasks, c \in Conns : ServerWrites(c, t)
      BY <2>1 DEF DispatchSend
    <3> QED
      BY <1>1, <1>2, <3>1 DEF ServerWrites, OnlyHostConnects
  <2> QED
    BY <1>3, <1>5, <2>1 DEF DistributorStep, DispatchNoConnection, DispatchToClosing,
       DispatchSendFails, DrainDone, DrainFails
<1>6. ASSUME NEW c \in Conns, HandlerStep(c) \/ ServerDetectsLoss(c) PROVE OnlyHostConnects'
  <2>1. CASE Accept(c) \/ AcceptFails(c) \/ ServerDetectsLoss(c)
    BY <1>3, <2>1 DEF Accept, AcceptFails, ServerDetectsLoss
  <2>2. CASE HandleHeartbeat(c) \/ HandleTaskResult(c) \/ HandleBadLine(c)
    BY <1>1, <1>2, <2>2 DEF HandleHeartbeat, HandleTaskResult, HandleBadLine, ReadsLine,
       OnlyHostConnects
  <2>3. CASE HandlerLosesReader(c)
    BY <1>1, <1>2, <2>3 DEF HandlerLosesReader, OnlyHostConnects
  <2> QED
    BY <1>6, <2>1, <2>2, <2>3 DEF HandlerStep
<1>7. ASSUME NEW c \in Conns, ConnectionBreaks(c) PROVE OnlyHostConnects'
  BY <1>1, <1>2, <1>7 DEF ConnectionBreaks, Break, OnlyHostConnects
<1> QED
  BY <1>4, <1>5, <1>6, <1>7 DEF ServerActs, NetworkActs

ClientSideInv == SysInv /\ EndsInv /\ OnlyHostConnects /\ DeliveryInv /\ OnceInv

LEMMA ClientSideNext ==
  ASSUME ClientSideInv, [SystemNext]_allVars, [~DrainFails]_vars
  PROVE  [C!Next]_(C!vars) /\ ClientSideInv'
<1>1. [Next]_vars /\ SysInv' /\ EndsInv'
  BY SysNext, EndsNext DEF ClientSideInv
<1>2. DeliveryInv' /\ OnceInv'
  BY <1>1, DeliveryStep, OnceStep DEF ClientSideInv
<1>3. CASE UNCHANGED allVars
  <2>1. UNCHANGED C!vars /\ UNCHANGED ended
    BY <1>3 DEF allVars, vars, netVars, hostVars, C!vars, C!world, C!clientVars, C!netVars,
       C!lock, C!ends, C!queueVars, C!drainVars, C!halted
  <2>2. Elsewhere
    BY <1>3 DEF allVars, vars, netVars, Elsewhere
  <2> QED
    BY <1>1, <1>2, <2>1, <2>2, ElsewhereIsQuiet DEF ClientSideInv
<1>4. CASE ClientActs
  <2>1. C!Next
    BY <1>4 DEF ClientActs, C!Next
  <2>2. OnlyHostConnects'
    BY <1>4, SameClient, ClientStaysHome, ElsewhereIsQuiet DEF ClientActs, ClientSideInv
  <2> QED
    BY <1>1, <1>2, <2>1, <2>2 DEF ClientSideInv
<1>5. CASE (ServerActs \/ NetworkActs) /\ ~UNCHANGED allVars
  <2>1. ~DrainFails
    BY <1>5, ServerIsServer DEF allVars
  <2>2. [C!Next]_(C!vars)
    BY <1>5, <2>1, ServerIsWorld DEF ClientSideInv, EndsInv, C!Next
  <2> QED
    BY <1>1, <1>2, <1>5, <2>2, ServerStaysHome DEF ClientSideInv
<1> QED
  BY <1>3, <1>4, <1>5 DEF SystemNext

LEMMA ClientSideInit == SystemInit => C!Init /\ ClientSideInv
<1> SUFFICES ASSUME SystemInit PROVE C!Init /\ ClientSideInv
  OBVIOUS
<1>1. C!Init
  BY DEF SystemInit, Init, NetInit, C!Init, C!NetInit, C!Conns, Conns
<1>2. Init /\ C!ClientInit
  BY DEF SystemInit
<1>3. OnlyHostConnects /\ EndsInv
  BY <1>2 DEF Init, NetInit, C!ClientInit, OnlyHostConnects, EndsInv, ClosingIsBroken
<1> QED
  BY <1>1, <1>2, <1>3, SysInit, DeliveryInit, OnceInit DEF ClientSideInv

\* As long as no drain of the server fails, the real server is one that the
\* client's specification allows: it sends the host a task once, over connections
\* the host opened, and reads, drops or loses its lines.  A drain that fails makes
\* it send a task again, for which Client does not allow.
THEOREM SystemIsClient == SystemSpec /\ [][~DrainFails]_vars => ClientSpec
BY ClientSideInit, ClientSideNext, PTL DEF SystemSpec, ClientSpec, C!Spec

-----------------------------------------------------------------------------
(* What is proved of the client holds in the system, and joins what is      *)
(* proved of the server.                                                   *)

LEMMA SameWorld == C!WorldNext => CP!WorldNext
BY DEF C!WorldNext, CP!WorldNext, C!WorldStep, CP!WorldStep, C!ServerSends, CP!ServerSends,
       C!ServerReads, CP!ServerReads, C!ServerDrops, CP!ServerDrops, C!ServerEnds, CP!ServerEnds,
       C!ConnectionBreaks, CP!ConnectionBreaks, C!Break, CP!Break, C!ServerWrites,
       CP!ServerWrites, C!Unsent, CP!Unsent, C!Range, CP!Range, C!HostConns, CP!HostConns,
       C!Conns, CP!Conns, C!netVars, CP!netVars, C!clientVars, CP!clientVars, C!lock, CP!lock,
       C!ends, CP!ends, C!queueVars, CP!queueVars, C!drainVars, CP!drainVars, C!halted, CP!halted

LEMMA SameSpec == C!Spec => CP!Spec
<1>1. C!Init => CP!Init
  BY SameClient DEF C!Init, CP!Init, C!NetInit, CP!NetInit, C!Conns, CP!Conns
<1>2. C!vars = CP!vars
  BY DEF C!vars, CP!vars, C!world, CP!world, C!clientVars, CP!clientVars, C!netVars, CP!netVars,
     C!lock, CP!lock, C!ends, CP!ends, C!queueVars, CP!queueVars, C!drainVars, CP!drainVars,
     C!halted, CP!halted
<1>3. [C!Next]_(C!vars) => [CP!Next]_(CP!vars)
  <2>1. C!Next => CP!Next
    BY SameClient, SameWorld DEF C!Next, CP!Next
  <2>2. UNCHANGED C!vars => UNCHANGED CP!vars
    BY DEF C!vars, CP!vars, C!world, CP!world, C!clientVars, CP!clientVars, C!netVars,
       CP!netVars, C!lock, CP!lock, C!ends, CP!ends, C!queueVars, CP!queueVars, C!drainVars,
       CP!drainVars, C!halted, CP!halted
  <2> QED
    BY <2>1, <2>2
<1> QED
  BY <1>1, <1>3, PTL DEF C!Spec, CP!Spec

\* What the client has, or answers, the server has delivered.
LEMMA InHandIsRead ==
  ASSUME SysInv, NEW t \in Tasks, C!InHand(t)
  PROVE  t \in received[Host]
<1>1. CASE t \in Range(clientQueue) \/ t \in executing
  BY <1>1 DEF SysInv, ReceivedInv
<1>2. ASSUME NEW r \in Range(taskResultQueue), r # NullResult, r.task = t
      PROVE  t \in received[Host]
  <2>1. r \in Reportable
    BY <1>2 DEF SysInv, ReceivedInv
  <2> QED
    BY <1>2, <2>1 DEF Reportable, Result, NullResult
<1> QED
  BY <1>1, <1>2, SameNet DEF C!InHand, C!NullResult, NullResult, C!Range, Range

LEMMA AnsweredIsRead ==
  ASSUME DeliveryInv, NEW t \in Tasks, C!OnTheWire(t)
  PROVE  t \in received[Host]
<1>1. PICK c \in C!HostConns : \E r \in Range(toServer[c]) : r.type = "task_result" /\ r.task = t
  BY DEF C!OnTheWire, C!Range, Range
<1>2. c \in Conns /\ c[1] = Host
  BY <1>1 DEF C!HostConns, C!Conns, Conns
<1> QED
  BY <1>1, <1>2 DEF DeliveryInv, ResultsAreOfReceived

\* As long as no drain of the server fails, a task is in one place of the system:
\* the server's promise to distribute it once and the client's to answer it once
\* hold of the two together, for any tasks, connections, retries and buffers.
THEOREM OnePlaceCorrect == SystemSpec /\ [][~DrainFails]_vars => []TaskIsInOnePlace
<1>1. SystemSpec /\ [][~DrainFails]_vars => []CP!AnsweredAtMostOnce
  BY SystemIsClient, SameSpec, ClientConstants, CP!AnsweredCorrect, PTL DEF ClientSpec
<1>2. CP!AnsweredAtMostOnce /\ ClientSideInv => TaskIsInOnePlace
  <2> SUFFICES ASSUME CP!AnsweredAtMostOnce, ClientSideInv, NEW t \in Tasks
               PROVE  /\ Queued(t) \/ InFlight(t) => ~C!InHand(t) /\ ~C!OnTheWire(t)
                      /\ drainingOn["send"] = NoConn /\ C!InHand(t) => ~C!OnTheWire(t)
    BY DEF TaskIsInOnePlace
  <2>1. t \in received[Host] => Delivered(t)
    BY HostFacts DEF ClientSideInv, DeliveryInv, TasksReachTheirHost, Delivered
  <2>2. Queued(t) \/ InFlight(t) => ~Delivered(t)
    BY DEF ClientSideInv, OnceInv, Queued
  <2>3. Queued(t) \/ InFlight(t) => ~C!InHand(t) /\ ~C!OnTheWire(t)
    BY <2>1, <2>2, InHandIsRead, AnsweredIsRead DEF ClientSideInv
  <2>4. drainingOn["send"] = NoConn /\ C!InHand(t) => ~C!OnTheWire(t)
    BY SameHands DEF CP!AnsweredAtMostOnce
  <2> QED
    BY <2>3, <2>4
<1> QED
  BY <1>1, <1>2, ClientSideInit, ClientSideNext, PTL DEF SystemSpec

\* From create_task to the last write of its document, a task of the host.
OnItsWay(t) ==
    Queued(t) \/ InFlight(t) \/ C!InHand(t) \/ C!OnTheWire(t) \/ record[t] # "running"

\* Until a connection breaks no step of server, client or network loses a task that
\* create_task has queued: what the server keeps of it and what the client keeps
\* of it join without a gap.
THEOREM NothingIsLost ==
  ASSUME ~DbMayRaise, Outcomes \subseteq {"success", "error"},
         \A t, u \in Tasks : TaskId[t] = TaskId[u] => t = u
  PROVE  SystemSpec =>
           [](\A t \in Tasks : ClientIp[t] = Host /\ HandedOver(t) /\ ~Broken => OnItsWay(t))
<1>1. SystemSpec => []DeliveredTaskIsAnswered
  BY DeliveredCorrect
<1>2. SystemSpec => []LostOnlyWithAConnection
  BY SystemIsServer, LostCorrect, PTL DEF ServerSpec
<1>3. DeliveredTaskIsAnswered /\ LostOnlyWithAConnection
        => \A t \in Tasks : ClientIp[t] = Host /\ HandedOver(t) /\ ~Broken => OnItsWay(t)
  BY DEF DeliveredTaskIsAnswered, LostOnlyWithAConnection, Broken, Delivered, OnItsWay
<1> QED
  BY <1>1, <1>2, <1>3, PTL
=============================================================================
