--------------------- MODULE ClientConnectServerProofs ---------------------
(***************************************************************************)
(* Safety of the command server for every set of hosts, tasks and ids and  *)
(* every bound, proved with TLAPS.                                         *)
(***************************************************************************)
EXTENDS ClientConnectServer, SequenceLemmas

\* What a host may write on a connection is a line.
LEMMA LinesAreClientLines ==
  /\ Heartbeat \in ClientLines /\ NullResult \in ClientLines /\ Eof \in ClientLines
  /\ \A t \in Tasks, s \in Statuses : Result(t, s) \in ClientLines
BY DEF ClientLines, Results, Result

\* A write of a host keeps the network well-typed.
LEMMA ClientWritesType ==
  ASSUME NEW c \in Conns, NEW line \in ClientLines, NetTypeOK, ClientWrites(c, line)
  PROVE  NetTypeOK'
<1>1. CASE link[c] = "open"
  <2>1. Append(toServer[c], line) \in Seq(ClientLines)
    BY AppendRange DEF NetTypeOK
  <2> QED
    BY <1>1, <2>1 DEF NetTypeOK, ClientWrites
<1>2. CASE link[c] # "open"
  BY <1>2 DEF NetTypeOK, ClientWrites
<1> QED
  BY <1>1, <1>2

\* An upsert writes statuses.
LEMMA UpsertType ==
  ASSUME TypeOK, NEW t \in Tasks, NEW s \in Statuses
  PROVE  Upsert(t, s) \in [Tasks -> {"none"} \cup Statuses]
BY DEF TypeOK, Upsert

\* update_task leaves the table well-typed.
LEMMA UpdateTaskType ==
  ASSUME TypeOK, NEW t \in Tasks, NEW s \in Statuses, update_task(t, s)
  PROVE  record' \in [Tasks -> {"none"} \cup Statuses]
BY UpsertType DEF TypeOK, update_task

\* Reading a line from a connection keeps the network well-typed, and the line
\* is one a host may write.
LEMMA ReadsLineType ==
  ASSUME TypeOK, NEW c \in Conns, NEW type, ReadsLine(c, type)
  PROVE  /\ Head(toServer[c]) \in ClientLines
         /\ toServer' \in [Conns -> Seq(ClientLines)]
         /\ Head(toServer[c]) \in Range(toServer[c])
         /\ Range(toServer'[c]) \subseteq Range(toServer[c])
<1>1. toServer[c] \in Seq(ClientLines) /\ toServer[c] # << >>
  BY DEF TypeOK, NetTypeOK, ReadsLine
<1>2. Tail(toServer[c]) \in Seq(ClientLines) /\ Range(Tail(toServer[c])) \subseteq Range(toServer[c])
  BY <1>1, TailRange
<1> QED
  BY <1>1, <1>2, HeadInRange DEF TypeOK, NetTypeOK, ReadsLine

\* A step of the server, a host or the network keeps every variable well-typed.
LEMMA TypeStep == TypeOK /\ [Next]_vars => TypeOK'
<1> SUFFICES ASSUME TypeOK, [Next]_vars PROVE TypeOK'
  OBVIOUS
<1> USE ServerAssumption
<1>1. CASE UNCHANGED vars
  BY <1>1 DEF vars, netVars, serverVars, TypeOK, NetTypeOK
<1>2. ASSUME NEW t \in Tasks, CreateRecord(t) PROVE TypeOK'
  BY <1>2 DEF CreateRecord, TypeOK, NetTypeOK, netVars, RequestStates, Statuses
<1>3. ASSUME NEW t \in Tasks, EnqueueTask(t) PROVE TypeOK'
  <2>1. taskQueue' \in Seq(Tasks)
    BY <1>3, AppendRange DEF EnqueueTask, TypeOK
  <2> QED
    BY <1>3, <2>1 DEF EnqueueTask, TypeOK, NetTypeOK, netVars, RequestStates
<1>4. ASSUME NEW c \in Conns, Accept(c) PROVE TypeOK'
  <2>1. c[1] \in IPs
    BY DEF Conns
  <2> QED
    BY <1>4, <2>1 DEF Accept, TypeOK, NetTypeOK, netVars, HandlerStates
<1>5. ASSUME NEW c \in Conns, AcceptFails(c) PROVE TypeOK'
  BY <1>5 DEF AcceptFails, TypeOK, NetTypeOK, netVars, HandlerStates
<1>6. ASSUME NEW c \in Conns, HandleHeartbeat(c) PROVE TypeOK'
  <2>1. toServer' \in [Conns -> Seq(ClientLines)]
    BY <1>6, ReadsLineType DEF HandleHeartbeat
  <2> QED
    BY <1>6, <2>1 DEF HandleHeartbeat, EndHandler, TypeOK, NetTypeOK, HandlerStates
<1>7. ASSUME NEW c \in Conns, HandleTaskResult(c) PROVE TypeOK'
  <2> DEFINE r == Head(toServer[c])
  <2>1. toServer' \in [Conns -> Seq(ClientLines)] /\ r \in ClientLines /\ r.type = "task_result"
    BY <1>7, ReadsLineType DEF HandleTaskResult, ReadsLine
  <2>2. r.task \in Tasks /\ r.status \in Statuses
    BY <2>1 DEF ClientLines, Results, Heartbeat, NullResult, Eof
  <2>3. record' \in [Tasks -> {"none"} \cup Statuses]
    BY <1>7, <2>2, UpdateTaskType DEF HandleTaskResult
  <2> QED
    BY <1>7, <2>1, <2>3 DEF HandleTaskResult, TypeOK, NetTypeOK
<1>8. ASSUME NEW c \in Conns, HandleBadLine(c) PROVE TypeOK'
  <2>1. toServer' \in [Conns -> Seq(ClientLines)]
    BY <1>8, ReadsLineType DEF HandleBadLine
  <2> QED
    BY <1>8, <2>1 DEF HandleBadLine, EndHandler, TypeOK, NetTypeOK, HandlerStates
<1>9. ASSUME NEW c \in Conns, HandlerLosesReader(c) PROVE TypeOK'
  <2>1. toServer' \in [Conns -> Seq(ClientLines)]
    BY <1>9, EmptySeq DEF HandlerLosesReader, TypeOK, NetTypeOK
  <2> QED
    BY <1>9, <2>1 DEF HandlerLosesReader, EndHandler, TypeOK, NetTypeOK, HandlerStates
<1>10. ASSUME NEW c \in Conns, ServerDetectsLoss(c) PROVE TypeOK'
  BY <1>10 DEF ServerDetectsLoss, TypeOK, NetTypeOK, netVars
<1>11. CASE DistributorStep
  <2>1. ASSUME taskQueue # << >> 
        PROVE  /\ Tail(taskQueue) \in Seq(Tasks)
               /\ \A t \in Tasks : Append(Tail(taskQueue), t) \in Seq(Tasks)
    BY <2>1, TailRange, AppendRange DEF TypeOK
  <2>2. CASE DispatchNoConnection
    <3>1. PICK t \in Tasks : TakesTask(t, NoConn) /\ update_task(t, "error")
      BY <2>2 DEF DispatchNoConnection
    <3>2. record' \in [Tasks -> {"none"} \cup Statuses]
      BY <3>1, UpdateTaskType DEF Statuses
    <3> QED
      BY <2>1, <2>2, <3>1, <3>2 DEF DispatchNoConnection, TakesTask, TypeOK, NetTypeOK, netVars
  <2>3. CASE DispatchToClosing
    BY <2>1, <2>3 DEF DispatchToClosing, TakesTask, TypeOK, NetTypeOK, netVars
  <2>4. CASE DispatchSend
    <3>1. PICK t \in Tasks, c \in Conns :
             /\ TakesTask(t, c)
             /\ ServerWrites(c, t)
             /\ draining' = IF Len(toClient'[c]) > HighWater
                              THEN {[task |-> t, conn |-> c]} ELSE {}
      BY <2>4 DEF DispatchSend
    <3>2. Append(toClient[c], t) \in Seq(Tasks)
      BY AppendRange DEF TypeOK, NetTypeOK
    <3>3. NetTypeOK'
      BY <3>1, <3>2 DEF ServerWrites, TypeOK, NetTypeOK
    <3>4. draining' \in SUBSET [task : Tasks, conn : Conns]
      BY <3>1
    <3> QED
      BY <2>1, <2>4, <3>1, <3>3, <3>4 DEF DispatchSend, TakesTask, TypeOK
  <2>5. CASE DispatchSendFails
    BY <2>1, <2>5 DEF DispatchSendFails, TakesTask, TypeOK, NetTypeOK, netVars
  <2>6. CASE DrainDone
    BY <2>6 DEF DrainDone, TypeOK, NetTypeOK, netVars
  <2>7. CASE DrainFails
    <3>1. PICK d \in draining : taskQueue' = Append(taskQueue, d.task)
      BY <2>7 DEF DrainFails
    <3>2. taskQueue' \in Seq(Tasks)
      BY <3>1, AppendRange DEF TypeOK
    <3> QED
      BY <2>7, <3>2 DEF DrainFails, TypeOK, NetTypeOK, netVars
  <2> QED
    BY <1>11, <2>2, <2>3, <2>4, <2>5, <2>6, <2>7 DEF DistributorStep
<1>12. ASSUME NEW c \in Conns, ClientConnect(c) PROVE TypeOK'
  BY <1>12 DEF ClientConnect, Open, TypeOK, NetTypeOK, LinkStates, HandlerStates
<1>13. ASSUME NEW c \in Conns, ClientRead(c) PROVE TypeOK'
  <2>1. toClient[c] \in Seq(Tasks) /\ toClient[c] # << >> /\ c[1] \in IPs
    BY <1>13 DEF ClientRead, TypeOK, NetTypeOK, Conns
  <2>2. Head(toClient[c]) \in Tasks /\ Tail(toClient[c]) \in Seq(Tasks)
    BY <2>1, HeadInRange, TailRange
  <2>3. received' \in [IPs -> SUBSET Tasks]
    BY <1>13, <2>1, <2>2 DEF ClientRead, TypeOK
  <2>4. toClient' \in [Conns -> Seq(Tasks)]
    BY <1>13, <2>1, <2>2 DEF ClientRead, TypeOK, NetTypeOK
  <2> QED
    BY <1>13, <2>3, <2>4 DEF ClientRead, TypeOK, NetTypeOK, serverVars
<1>14. ASSUME NEW c \in Conns, NEW line \in ClientLines, ClientWrites(c, line),
              UNCHANGED <<serverVars, received>>
       PROVE  TypeOK'
  BY <1>14, ClientWritesType DEF TypeOK, serverVars
<1>15. ASSUME NEW c \in Conns, ClientReport(c) PROVE TypeOK'
  <2>1. received[c[1]] \subseteq Tasks
    BY DEF TypeOK, Conns
  <2> QED
    BY <1>14, <1>15, <2>1, LinesAreClientLines DEF ClientReport
<1>16. ASSUME NEW c \in Conns, ClientReportNull(c) \/ ClientHeartbeat(c) PROVE TypeOK'
  BY <1>14, <1>16, LinesAreClientLines DEF ClientReportNull, ClientHeartbeat
<1>17. ASSUME NEW c \in Conns, ClientExit(c) PROVE TypeOK'
  <2>1. Append(toServer[c], Eof) \in Seq(ClientLines)
    BY AppendRange, LinesAreClientLines DEF TypeOK, NetTypeOK
  <2> QED
    BY <1>17, <2>1 DEF ClientExit, CloseByClient, TypeOK, NetTypeOK, LinkStates, serverVars
<1>18. ASSUME NEW c \in Conns, ConnectionBreaks(c) PROVE TypeOK'
  <2>1. PICK k \in 0..Len(toServer[c]), m \in 0..Len(toClient[c]) :
           /\ toServer' = [toServer EXCEPT ![c] = SubSeq(@, 1, k)]
           /\ toClient' = [toClient EXCEPT ![c] = SubSeq(@, 1, m)]
    BY <1>18 DEF ConnectionBreaks, Break
  <2>2. SubSeq(toServer[c], 1, k) \in Seq(ClientLines) /\ SubSeq(toClient[c], 1, m) \in Seq(Tasks)
    BY PrefixRange DEF TypeOK, NetTypeOK
  <2> QED
    BY <1>18, <2>1, <2>2 DEF ConnectionBreaks, Break, TypeOK, NetTypeOK, LinkStates, serverVars
<1> QED
  BY <1>1, <1>2, <1>3, <1>4, <1>5, <1>6, <1>7, <1>8, <1>9, <1>10, <1>11, <1>12,
     <1>13, <1>15, <1>16, <1>17, <1>18
  DEF Next, FlaskStep, HandlerStep, ClientStep

\* Every variable keeps the type the code gives it.
THEOREM TypeCorrect == Spec => []TypeOK
<1>1. Init => TypeOK
  BY DEF Init, NetInit, TypeOK, NetTypeOK, LinkStates, RequestStates, HandlerStates, Conns
<1> QED
  BY <1>1, TypeStep, PTL DEF Spec

-----------------------------------------------------------------------------
(* The registry of connections.                                            *)

\* A connection has a handle_rpc, or waits for one, once it was opened.
LinkHandler == \A c \in Conns : link[c] = "unused" <=> handler[c] = "none"

\* A host opens its connections in order, and the server accepts them in order.
OpenOrder ==
    \A c, d \in Conns :
        c[1] = d[1] /\ c[2] < d[2] /\ link[c] = "unused" => link[d] = "unused"
AcceptOrder ==
    \A c, d \in Conns :
        c[1] = d[1] /\ c[2] < d[2] /\ handler[c] = "backlog"
        => handler[d] \in {"none", "backlog"}

RegistryInv == TypeOK /\ LinkHandler /\ OpenOrder /\ AcceptOrder /\ RegistryIsLive

\* What a step of a handler, a host or the network does to the order of a
\* host's connections.
LEMMA ConnPair == \A c \in Conns : c[1] \in IPs /\ c[2] \in Nat
BY ConnectionsAssumption DEF Conns

\* Two connections of a host are the same one or one is older.
LEMMA ConnOrder ==
  \A c, d \in Conns : c[1] = d[1] => c = d \/ c[2] < d[2] \/ d[2] < c[2]
BY ConnectionsAssumption DEF Conns

\* Steps that open no connection and touch no handler keep the invariant.
LEMMA RegistryUntouched ==
  ASSUME RegistryInv, TypeOK', UNCHANGED <<handler, connected_clients>>,
         \A c \in Conns : link'[c] = "unused" <=> link[c] = "unused"
  PROVE  RegistryInv'
<1>1. LinkHandler' /\ AcceptOrder' /\ RegistryIsLive'
  BY DEF RegistryInv, LinkHandler, AcceptOrder, RegistryIsLive
<1>2. OpenOrder'
  BY DEF RegistryInv, OpenOrder
<1> QED
  BY <1>1, <1>2 DEF RegistryInv

\* The end of a handler keeps the invariant.
LEMMA RegistryEndHandler ==
  ASSUME RegistryInv, TypeOK', UNCHANGED link,
         NEW c \in Conns, handler[c] = "reading", EndHandler(c)
  PROVE  RegistryInv'
<1>1. handler \in [Conns -> HandlerStates] /\ connected_clients \in [IPs -> Conns \cup {NoConn}]
  BY DEF RegistryInv, TypeOK
<1>2. LinkHandler' /\ OpenOrder' /\ AcceptOrder'
  BY <1>1 DEF RegistryInv, LinkHandler, OpenOrder, AcceptOrder, EndHandler
<1>3. RegistryIsLive'
  BY <1>1, ServerAssumption DEF RegistryInv, RegistryIsLive, EndHandler
<1> QED
  BY <1>2, <1>3 DEF RegistryInv

\* A step keeps the registry's invariant.
LEMMA RegistryStep == RegistryInv /\ [Next]_vars => RegistryInv'
<1> SUFFICES ASSUME RegistryInv, [Next]_vars PROVE RegistryInv'
  OBVIOUS
<1>0. TypeOK' /\ TypeOK
  BY TypeStep DEF RegistryInv
<1>1. CASE UNCHANGED vars
  BY <1>0, <1>1, RegistryUntouched DEF vars, netVars, serverVars
<1>2. CASE FlaskStep
  BY <1>0, <1>2, RegistryUntouched DEF FlaskStep, CreateRecord, EnqueueTask, netVars
<1>3. CASE DistributorStep
  BY <1>0, <1>3, RegistryUntouched
  DEF DistributorStep, DispatchNoConnection, DispatchToClosing, DispatchSend,
      DispatchSendFails, DrainDone, DrainFails, ServerWrites, netVars
<1>4. ASSUME NEW c \in Conns, Accept(c) PROVE RegistryInv'
  <2>1. /\ handler' = [handler EXCEPT ![c] = "reading"] /\ handler[c] = "backlog"
        /\ connected_clients' = [connected_clients EXCEPT ![c[1]] = c]
        /\ link' = link
        /\ handler \in [Conns -> HandlerStates]
        /\ connected_clients \in [IPs -> Conns \cup {NoConn}]
    BY <1>0, <1>4 DEF Accept, FirstInBacklog, netVars, TypeOK
  <2>2. LinkHandler' /\ OpenOrder'
    BY <2>1 DEF RegistryInv, LinkHandler, OpenOrder
  <2>3. AcceptOrder'
    BY <1>4, <2>1, ConnOrder DEF RegistryInv, AcceptOrder, Accept, FirstInBacklog
  <2>4. ASSUME NEW ip \in IPs, NEW b \in Conns, connected_clients'[ip] = b
        PROVE  /\ b[1] = ip
               /\ handler'[b] = "reading"
               /\ \A d \in Conns : d[1] = ip /\ d[2] > b[2] => handler'[d] # "reading"
    <3>1. CASE ip = c[1]
      <4>1. b = c
        BY <2>1, <2>4, <3>1
      <4>2. \A d \in Conns : d[1] = ip /\ d[2] > c[2] => d # c /\ handler[d] # "reading"
        BY <2>1, <3>1, ConnPair DEF RegistryInv, AcceptOrder
      <4> QED
        BY <2>1, <3>1, <4>1, <4>2
    <3>2. CASE ip # c[1]
      BY <2>1, <2>4, <3>2 DEF RegistryInv, RegistryIsLive
    <3> QED
      BY <3>1, <3>2
  <2> QED
    BY <1>0, <2>2, <2>3, <2>4 DEF RegistryInv, RegistryIsLive
<1>5. ASSUME NEW c \in Conns, AcceptFails(c) PROVE RegistryInv'
  <2>1. /\ handler' = [handler EXCEPT ![c] = "ended"] /\ handler[c] = "backlog"
        /\ connected_clients' = connected_clients
        /\ link' = link
        /\ handler \in [Conns -> HandlerStates]
    BY <1>0, <1>5 DEF AcceptFails, FirstInBacklog, netVars, TypeOK
  <2>2. LinkHandler' /\ OpenOrder'
    BY <2>1 DEF RegistryInv, LinkHandler, OpenOrder
  <2>3. AcceptOrder'
    BY <1>5, <2>1, ConnOrder DEF RegistryInv, AcceptOrder, AcceptFails, FirstInBacklog
  <2>4. RegistryIsLive'
    BY <2>1 DEF RegistryInv, RegistryIsLive
  <2> QED
    BY <1>0, <2>2, <2>3, <2>4 DEF RegistryInv
<1>6. ASSUME NEW c \in Conns, HandleHeartbeat(c) PROVE RegistryInv'
  <2>1. CASE connected_clients[c[1]] # NoConn
    BY <1>0, <1>6, <2>1, RegistryUntouched DEF HandleHeartbeat
  <2>2. CASE connected_clients[c[1]] = NoConn
    BY <1>0, <1>6, <2>2, RegistryEndHandler DEF HandleHeartbeat, ReadsLine
  <2> QED
    BY <2>1, <2>2
<1>7. ASSUME NEW c \in Conns, HandleTaskResult(c) PROVE RegistryInv'
  BY <1>0, <1>7, RegistryUntouched DEF HandleTaskResult
<1>8. ASSUME NEW c \in Conns, HandleBadLine(c) \/ HandlerLosesReader(c) PROVE RegistryInv'
  BY <1>0, <1>8, RegistryEndHandler DEF HandleBadLine, ReadsLine, HandlerLosesReader
<1>9. ASSUME NEW c \in Conns, ServerDetectsLoss(c) PROVE RegistryInv'
  BY <1>0, <1>9, RegistryUntouched DEF ServerDetectsLoss, netVars
<1>10. ASSUME NEW c \in Conns, ClientConnect(c) PROVE RegistryInv'
  <2>1. /\ link' = [link EXCEPT ![c] = "open"] /\ link[c] = "unused"
        /\ handler' = [handler EXCEPT ![c] = "backlog"] /\ handler[c] = "none"
        /\ connected_clients' = connected_clients
        /\ link \in [Conns -> LinkStates]
        /\ handler \in [Conns -> HandlerStates]
    BY <1>0, <1>10 DEF ClientConnect, Open, NextOfItsHost, RegistryInv, LinkHandler, TypeOK, NetTypeOK
  <2>2. LinkHandler'
    BY <2>1 DEF RegistryInv, LinkHandler
  <2>3. OpenOrder'
    BY <1>10, <2>1, ConnOrder DEF ClientConnect, Open, NextOfItsHost, RegistryInv, OpenOrder
  <2>4. AcceptOrder'
    <3>1. ASSUME NEW d \in Conns, c[1] = d[1], c[2] < d[2] PROVE handler[d] = "none"
      BY <2>1, <3>1 DEF RegistryInv, OpenOrder, LinkHandler
    <3> QED
      BY <2>1, <3>1, ConnPair DEF RegistryInv, AcceptOrder
  <2>5. RegistryIsLive'
    BY <2>1 DEF RegistryInv, RegistryIsLive
  <2> QED
    BY <1>0, <2>2, <2>3, <2>4, <2>5 DEF RegistryInv
<1>11. ASSUME NEW c \in Conns, ClientRead(c) PROVE RegistryInv'
  BY <1>0, <1>11, RegistryUntouched DEF ClientRead, serverVars
<1>12. ASSUME NEW c \in Conns, ClientReport(c) \/ ClientReportNull(c) \/ ClientHeartbeat(c)
       PROVE  RegistryInv'
  BY <1>0, <1>12, RegistryUntouched
  DEF ClientReport, ClientReportNull, ClientHeartbeat, ClientWrites, serverVars
<1>13. ASSUME NEW c \in Conns, ClientExit(c) \/ ConnectionBreaks(c) PROVE RegistryInv'
  <2>1. /\ link' = [link EXCEPT ![c] = "broken"] /\ link[c] = "open"
        /\ link \in [Conns -> LinkStates]
        /\ UNCHANGED <<handler, connected_clients>>
    BY <1>0, <1>13 DEF ClientExit, ConnectionBreaks, CloseByClient, Break, serverVars, TypeOK, NetTypeOK
  <2> QED
    BY <1>0, <2>1, RegistryUntouched
<1> QED
  BY <1>1, <1>2, <1>3, <1>4, <1>5, <1>6, <1>7, <1>8, <1>9, <1>10, <1>11, <1>12, <1>13
  DEF Next, HandlerStep, ClientStep

\* The connection registered for a host is its newest live one, whatever the
\* order of connects, accepts, failures and handler ends.
THEOREM RegistryCorrect == Spec => []RegistryIsLive
<1>1. Init => RegistryInv
  <2> SUFFICES ASSUME Init PROVE RegistryInv
    OBVIOUS
  <2>1. TypeOK
    BY DEF Init, NetInit, TypeOK, NetTypeOK, LinkStates, RequestStates, HandlerStates, Conns
  <2>2. LinkHandler /\ OpenOrder /\ AcceptOrder
    BY DEF Init, NetInit, LinkHandler, OpenOrder, AcceptOrder
  <2>3. RegistryIsLive
    BY ServerAssumption DEF Init, RegistryIsLive
  <2> QED
    BY <2>1, <2>2, <2>3 DEF RegistryInv
<1>2. RegistryInv => RegistryIsLive
  BY DEF RegistryInv
<1> QED
  BY <1>1, <1>2, RegistryStep, PTL DEF Spec

-----------------------------------------------------------------------------
(* Deliveries and reports.                                                 *)

\* What the distributor holds was handed over by its request.
QueueHandedOver ==
    /\ \A t \in Range(taskQueue) : HandedOver(t)
    /\ \A d \in draining : HandedOver(d.task)

\* A result on its way is about a task its host was given.
ResultsAreOfReceived ==
    \A c \in Conns : \A r \in Range(toServer[c]) :
        r.type = "task_result" => r.task \in received[c[1]]

DeliveryInv ==
    /\ RegistryInv
    /\ QueueHandedOver
    /\ TasksReachTheirHost
    /\ ResultsAreOfReceived
    /\ SuccessWasReported

\* An upsert with a status other than success reports no new success; one for a
\* delivered task reports only deliveries.
LEMMA UpsertReports ==
  ASSUME TypeOK, SuccessWasReported, NEW t \in Tasks, NEW s \in Statuses,
         update_task(t, s), UNCHANGED received,
         s = "success" => Delivered(t)
  PROVE  SuccessWasReported'
<1>1. SUFFICES ASSUME NEW u \in Tasks, record'[u] = "success"
               PROVE  \E v \in SameId(u) : Delivered(v)
  BY DEF SuccessWasReported, Delivered
<1>2. CASE record[u] = "success"
  BY <1>2 DEF SuccessWasReported
<1>3. CASE record[u] # "success"
  <2>1. record' = Upsert(t, s) /\ u \in SameId(t) /\ s = "success"
    BY <1>1, <1>3 DEF update_task, Upsert, SameId
  <2>2. t \in SameId(u)
    BY <2>1 DEF SameId
  <2> QED
    BY <2>1, <2>2
<1> QED
  BY <1>2, <1>3

\* Without a new document, deliveries only grow.
LEMMA ReportsKept ==
  ASSUME TypeOK, SuccessWasReported, UNCHANGED record,
         \A ip \in IPs : received[ip] \subseteq received'[ip]
  PROVE  SuccessWasReported'
BY ServerAssumption DEF SuccessWasReported, Delivered, SameId

\* Losing lines, reading them or writing other ones adds no report.
LEMMA ResultsKept ==
  ASSUME ResultsAreOfReceived,
         \A c \in Conns : received[c[1]] \subseteq received'[c[1]],
         \A c \in Conns : \A r \in Range(toServer'[c]) :
            r \in Range(toServer[c]) \/ r.type # "task_result"
                                     \/ r.task \in received[c[1]]
  PROVE  ResultsAreOfReceived'
BY DEF ResultsAreOfReceived

\* Losing tasks in flight, or reading them, adds none.
LEMMA TasksKept ==
  ASSUME TasksReachTheirHost,
         \A t \in Tasks : HandedOver(t) => HandedOver(t)',
         TypeOK, TypeOK',
         \A c \in Conns : Range(toClient'[c]) \subseteq Range(toClient[c]),
         \A ip \in IPs : \A t \in received'[ip] :
            t \in received[ip] \/ (HandedOver(t) /\ ClientIp[t] = ip)
  PROVE  TasksReachTheirHost'
<1>1. ASSUME NEW c \in Conns PROVE Range(toClient[c]) \subseteq Tasks
  BY RangeOfSeq DEF TypeOK, NetTypeOK
<1> QED
  BY <1>1 DEF TasksReachTheirHost, TypeOK

\* Steps that leave the queue, the channels, the table and the hosts alone.
LEMMA DeliveryUntouched ==
  ASSUME DeliveryInv, RegistryInv', UNCHANGED <<toServer, toClient, request, record, received>>,
         Range(taskQueue') \subseteq Range(taskQueue), draining' \subseteq draining
  PROVE  DeliveryInv'
<1>1. QueueHandedOver'
  BY DEF DeliveryInv, QueueHandedOver, HandedOver
<1>2. TasksReachTheirHost' /\ ResultsAreOfReceived' /\ SuccessWasReported'
  BY DEF DeliveryInv, TasksReachTheirHost, HandedOver, ResultsAreOfReceived,
         SuccessWasReported, Delivered
<1> QED
  BY <1>1, <1>2 DEF DeliveryInv

\* A step of the distributor keeps the delivery invariant.
LEMMA DeliveryDistributor ==
  ASSUME DeliveryInv, RegistryInv', DistributorStep
  PROVE  DeliveryInv'
<1>0. TypeOK /\ TypeOK' /\ taskQueue \in Seq(Tasks)
  BY DEF DeliveryInv, RegistryInv, TypeOK
<1>1. ASSUME taskQueue # << >>
      PROVE  /\ Head(taskQueue) \in Range(taskQueue)
             /\ Range(Tail(taskQueue)) \subseteq Range(taskQueue)
             /\ \A t \in Tasks : Range(Append(Tail(taskQueue), t)) = Range(Tail(taskQueue)) \cup {t}
  <2>1. Head(taskQueue) \in Range(taskQueue)
    BY <1>0, <1>1, HeadInRange
  <2>2. Tail(taskQueue) \in Seq(Tasks) /\ Range(Tail(taskQueue)) \subseteq Range(taskQueue)
    BY <1>0, <1>1, TailRange
  <2>3. ASSUME NEW t \in Tasks
        PROVE  Range(Append(Tail(taskQueue), t)) = Range(Tail(taskQueue)) \cup {t}
    <3> DEFINE q == Tail(taskQueue)
    <3>1. q \in Seq(Tasks)
      BY <2>2
    <3> HIDE DEF q
    <3>2. Range(Append(q, t)) = Range(q) \cup {t}
      BY <3>1, AppendRange
    <3> QED
      BY <3>2 DEF q
  <2> QED
    BY <2>1, <2>2, <2>3
<1>2. CASE DispatchNoConnection
  <2>1. PICK t \in Tasks : TakesTask(t, NoConn) /\ update_task(t, "error")
    BY <1>2 DEF DispatchNoConnection
  <2>2. SuccessWasReported'
    BY <1>0, <1>2, <2>1, UpsertReports DEF DispatchNoConnection, DeliveryInv, Statuses
  <2>3. QueueHandedOver' /\ TasksReachTheirHost' /\ ResultsAreOfReceived'
    BY <1>1, <1>2, <2>1
    DEF DispatchNoConnection, TakesTask, netVars, DeliveryInv, QueueHandedOver, HandedOver,
        TasksReachTheirHost, ResultsAreOfReceived
  <2> QED
    BY <2>2, <2>3 DEF DeliveryInv
<1>3. CASE DispatchToClosing
  BY <1>1, <1>3, DeliveryUntouched DEF DispatchToClosing, TakesTask, netVars
<1>4. CASE DispatchSend
  <2>1. PICK t \in Tasks, c \in Conns :
           /\ TakesTask(t, c)
           /\ ServerWrites(c, t)
           /\ draining' = IF Len(toClient'[c]) > HighWater
                            THEN {[task |-> t, conn |-> c]} ELSE {}
    BY <1>4 DEF DispatchSend
  <2>2. HandedOver(t) /\ HandedOver(t)'
    BY <1>1, <1>4, <2>1 DEF DispatchSend, TakesTask, DeliveryInv, QueueHandedOver, HandedOver
  <2>3. ClientIp[t] = c[1]
    BY <2>1, ServerAssumption DEF TakesTask, DeliveryInv, RegistryInv, RegistryIsLive
  <2>4. toClient[c] \in Seq(Tasks) /\ toClient \in [Conns -> Seq(Tasks)]
    BY <1>0 DEF TypeOK, NetTypeOK
  <2>5. Range(Append(toClient[c], t)) = Range(toClient[c]) \cup {t}
    BY <2>4, AppendRange
  <2>6. TasksReachTheirHost'
    BY <1>4, <2>1, <2>2, <2>3, <2>4, <2>5
    DEF DispatchSend, ServerWrites, DeliveryInv, TasksReachTheirHost, HandedOver
  <2>7. QueueHandedOver'
    BY <1>1, <1>4, <2>1, <2>2
    DEF DispatchSend, TakesTask, DeliveryInv, QueueHandedOver, HandedOver
  <2>8. ResultsAreOfReceived' /\ SuccessWasReported'
    BY <1>4, <2>1
    DEF DispatchSend, ServerWrites, DeliveryInv, ResultsAreOfReceived, SuccessWasReported, Delivered
  <2> QED
    BY <2>6, <2>7, <2>8 DEF DeliveryInv
<1>5. CASE DispatchSendFails
  <2>1. PICK t \in Tasks, c \in Conns :
           TakesTask(t, c) /\ taskQueue' = Append(Tail(taskQueue), t)
    BY <1>5 DEF DispatchSendFails
  <2>2. Range(taskQueue') \subseteq Range(taskQueue)
    BY <1>1, <2>1 DEF TakesTask
  <2> QED
    BY <1>5, <2>2, DeliveryUntouched DEF DispatchSendFails, netVars
<1>6. CASE DrainDone
  BY <1>6, DeliveryUntouched DEF DrainDone, netVars
<1>7. CASE DrainFails
  <2>1. PICK d \in draining : taskQueue' = Append(taskQueue, d.task)
    BY <1>7 DEF DrainFails
  <2>2. d.task \in Tasks /\ HandedOver(d.task)
    BY <1>0 DEF TypeOK, DeliveryInv, QueueHandedOver
  <2>3. Range(taskQueue') = Range(taskQueue) \cup {d.task}
    BY <1>0, <2>1, <2>2, AppendRange
  <2>4. QueueHandedOver'
    BY <1>7, <2>2, <2>3 DEF DrainFails, DeliveryInv, QueueHandedOver, HandedOver
  <2>5. TasksReachTheirHost' /\ ResultsAreOfReceived' /\ SuccessWasReported'
    BY <1>7 DEF DrainFails, netVars, DeliveryInv, TasksReachTheirHost, HandedOver,
                ResultsAreOfReceived, SuccessWasReported, Delivered
  <2> QED
    BY <2>4, <2>5 DEF DeliveryInv
<1> QED
  BY <1>2, <1>3, <1>4, <1>5, <1>6, <1>7 DEF DistributorStep

\* A step of a handler, or the loop noticing a loss, keeps it.
LEMMA DeliveryHandler ==
  ASSUME DeliveryInv, RegistryInv', NEW c \in Conns, HandlerStep(c) \/ ServerDetectsLoss(c)
  PROVE  DeliveryInv'
<1>0. TypeOK /\ TypeOK'
  BY DEF DeliveryInv, RegistryInv
<1>1. CASE Accept(c) \/ AcceptFails(c) \/ ServerDetectsLoss(c)
  BY <1>1, DeliveryUntouched DEF Accept, AcceptFails, ServerDetectsLoss, netVars
<1>2. ASSUME NEW type, ReadsLine(c, type),
             UNCHANGED <<toClient, request, taskQueue, draining, received>>
      PROVE  QueueHandedOver' /\ TasksReachTheirHost' /\ ResultsAreOfReceived'
  <2>1. QueueHandedOver' /\ TasksReachTheirHost'
    BY <1>2 DEF DeliveryInv, QueueHandedOver, HandedOver, TasksReachTheirHost
  <2>2. Range(toServer'[c]) \subseteq Range(toServer[c])
    BY <1>0, <1>2, ReadsLineType
  <2>3. \A d \in Conns : d # c => toServer'[d] = toServer[d]
    BY <1>0, <1>2 DEF ReadsLine, TypeOK, NetTypeOK
  <2>4. \A d \in Conns : Range(toServer'[d]) \subseteq Range(toServer[d])
    BY <2>2, <2>3
  <2> QED
    BY <1>2, <2>1, <2>4, ResultsKept DEF DeliveryInv
<1>3. CASE HandleHeartbeat(c)
  <2>1. SuccessWasReported'
    BY <1>3 DEF HandleHeartbeat, DeliveryInv, SuccessWasReported, Delivered
  <2> QED
    BY <1>2, <1>3, <2>1 DEF HandleHeartbeat, DeliveryInv
<1>4. CASE HandleBadLine(c)
  <2>1. SuccessWasReported'
    BY <1>4 DEF HandleBadLine, DeliveryInv, SuccessWasReported, Delivered
  <2> QED
    BY <1>2, <1>4, <2>1 DEF HandleBadLine, DeliveryInv
<1>5. CASE HandleTaskResult(c)
  <2> DEFINE r == Head(toServer[c])
  <2>1. r \in ClientLines /\ r \in Range(toServer[c]) /\ r.type = "task_result"
    BY <1>0, <1>5, ReadsLineType DEF HandleTaskResult, ReadsLine
  <2>2. r.task \in Tasks /\ r.status \in Statuses
    BY <2>1 DEF ClientLines, Results, Heartbeat, NullResult, Eof
  <2>3. r.task \in received[c[1]]
    BY <2>1 DEF DeliveryInv, ResultsAreOfReceived
  <2>4. Delivered(r.task)
    BY <2>2, <2>3, ConnPair DEF DeliveryInv, TasksReachTheirHost, Delivered
  <2>5. SuccessWasReported'
    BY <1>0, <1>5, <2>2, <2>4, UpsertReports DEF HandleTaskResult, DeliveryInv
  <2> QED
    BY <1>2, <1>5, <2>5 DEF HandleTaskResult, DeliveryInv
<1>6. CASE HandlerLosesReader(c)
  <2>1. \A d \in Conns : Range(toServer'[d]) \subseteq Range(toServer[d])
    BY <1>0, <1>6, EmptyRange DEF HandlerLosesReader, TypeOK, NetTypeOK
  <2>2. ResultsAreOfReceived'
    BY <1>6, <2>1, ResultsKept DEF HandlerLosesReader, DeliveryInv
  <2>3. QueueHandedOver' /\ TasksReachTheirHost' /\ SuccessWasReported'
    BY <1>6 DEF HandlerLosesReader, DeliveryInv, QueueHandedOver, HandedOver,
                TasksReachTheirHost, SuccessWasReported, Delivered
  <2> QED
    BY <2>2, <2>3 DEF DeliveryInv
<1> QED
  BY <1>1, <1>3, <1>4, <1>5, <1>6 DEF HandlerStep

\* A step of a host or of the network keeps it.
LEMMA DeliveryClient ==
  ASSUME DeliveryInv, RegistryInv', NEW c \in Conns, ClientStep(c) \/ ConnectionBreaks(c)
  PROVE  DeliveryInv'
<1>0. TypeOK /\ TypeOK' /\ c[1] \in IPs
  BY ConnPair DEF DeliveryInv, RegistryInv
<1>1. CASE ClientConnect(c)
  BY <1>1, DeliveryUntouched DEF ClientConnect, Open
<1>2. CASE ClientRead(c)
  <2>1. toClient[c] \in Seq(Tasks) /\ toClient[c] # << >> /\ toClient \in [Conns -> Seq(Tasks)]
        /\ received \in [IPs -> SUBSET Tasks]
    BY <1>0, <1>2 DEF ClientRead, TypeOK, NetTypeOK
  <2>2. /\ Head(toClient[c]) \in Range(toClient[c])
        /\ Range(Tail(toClient[c])) \subseteq Range(toClient[c])
    BY <2>1, HeadInRange, TailRange
  <2>3. HandedOver(Head(toClient[c])) /\ ClientIp[Head(toClient[c])] = c[1]
    BY <2>2 DEF DeliveryInv, TasksReachTheirHost
  <2>4. /\ \A d \in Conns : Range(toClient'[d]) \subseteq Range(toClient[d])
        /\ \A ip \in IPs : received[ip] \subseteq received'[ip]
        /\ \A ip \in IPs : \A t \in received'[ip] :
             t \in received[ip] \/ (HandedOver(t) /\ ClientIp[t] = ip)
    BY <1>0, <1>2, <2>1, <2>2, <2>3 DEF ClientRead
  <2>5. UNCHANGED <<toServer, request, record, taskQueue, draining>>
    BY <1>2 DEF ClientRead, serverVars
  <2>6. TasksReachTheirHost'
    BY <1>0, <2>4, <2>5, TasksKept DEF DeliveryInv, HandedOver
  <2>7. ResultsAreOfReceived'
    BY <2>4, <2>5, ConnPair, ResultsKept DEF DeliveryInv
  <2>8. SuccessWasReported'
    BY <1>0, <2>4, <2>5, ReportsKept DEF DeliveryInv
  <2>9. QueueHandedOver'
    BY <2>5 DEF DeliveryInv, QueueHandedOver, HandedOver
  <2> QED
    BY <2>6, <2>7, <2>8, <2>9 DEF DeliveryInv
<1>3. ASSUME NEW line \in ClientLines, ClientWrites(c, line), UNCHANGED <<serverVars, received>>,
             line.type = "task_result" => line.task \in received[c[1]]
      PROVE  DeliveryInv'
  <2>1. toServer[c] \in Seq(ClientLines) /\ toServer \in [Conns -> Seq(ClientLines)]
    BY <1>0 DEF TypeOK, NetTypeOK
  <2>2. Range(Append(toServer[c], line)) = Range(toServer[c]) \cup {line}
    BY <2>1, AppendRange
  <2>3. \A d \in Conns : \A r \in Range(toServer'[d]) :
          r \in Range(toServer[d]) \/ r.type # "task_result" \/ r.task \in received[d[1]]
    <3>1. CASE toServer' = [toServer EXCEPT ![c] = Append(@, line)]
      <4>1. toServer'[c] = Append(toServer[c], line)
            /\ \A d \in Conns : d # c => toServer'[d] = toServer[d]
        BY <2>1, <3>1
      <4>2. Range(toServer'[c]) = Range(toServer[c]) \cup {line}
        BY <2>2, <4>1
      <4>3. ASSUME NEW d \in Conns, NEW r \in Range(toServer'[d])
            PROVE  r \in Range(toServer[d]) \/ r.type # "task_result" \/ r.task \in received[d[1]]
        <5>1. CASE d = c
          BY <1>3, <4>2, <4>3, <5>1
        <5>2. CASE d # c
          BY <4>1, <4>3, <5>2
        <5> QED
          BY <5>1, <5>2
      <4> QED
        BY <4>3
    <3>2. CASE UNCHANGED toServer
      BY <3>2
    <3> QED
      BY <1>3, <3>1, <3>2 DEF ClientWrites
  <2>4. ResultsAreOfReceived'
    BY <1>3, <2>3, ResultsKept DEF DeliveryInv, serverVars
  <2>5. QueueHandedOver' /\ TasksReachTheirHost' /\ SuccessWasReported'
    BY <1>3 DEF ClientWrites, serverVars, DeliveryInv, QueueHandedOver, HandedOver,
                TasksReachTheirHost, SuccessWasReported, Delivered
  <2> QED
    BY <2>4, <2>5 DEF DeliveryInv
<1>4. CASE ClientReport(c)
  <2>1. PICK t \in received[c[1]], s \in Statuses : ClientWrites(c, Result(t, s))
    BY <1>4 DEF ClientReport
  <2>2. Result(t, s) \in ClientLines /\ Result(t, s).task = t
    BY <1>0, <2>1, LinesAreClientLines DEF TypeOK, Result
  <2> QED
    BY <1>3, <1>4, <2>1, <2>2 DEF ClientReport
<1>5. CASE ClientReportNull(c)
  BY <1>3, <1>5, LinesAreClientLines DEF ClientReportNull, NullResult
<1>6. CASE ClientHeartbeat(c)
  BY <1>3, <1>6, LinesAreClientLines DEF ClientHeartbeat, Heartbeat
<1>7. ASSUME UNCHANGED <<serverVars, received>>,
             \A d \in Conns : Range(toClient'[d]) \subseteq Range(toClient[d]),
             \A d \in Conns : \A r \in Range(toServer'[d]) :
                r \in Range(toServer[d]) \/ r.type # "task_result"
      PROVE  DeliveryInv'
  <2>1. TasksReachTheirHost'
    BY <1>0, <1>7, TasksKept DEF DeliveryInv, serverVars, HandedOver
  <2>2. ResultsAreOfReceived'
    BY <1>7, ResultsKept DEF DeliveryInv
  <2>3. QueueHandedOver' /\ SuccessWasReported'
    BY <1>7 DEF serverVars, DeliveryInv, QueueHandedOver, HandedOver, SuccessWasReported, Delivered
  <2> QED
    BY <2>1, <2>2, <2>3 DEF DeliveryInv
<1>8. CASE ClientExit(c)
  <2>1. toServer[c] \in Seq(ClientLines) /\ toServer \in [Conns -> Seq(ClientLines)]
        /\ toClient \in [Conns -> Seq(Tasks)]
    BY <1>0 DEF TypeOK, NetTypeOK
  <2>2. Range(Append(toServer[c], Eof)) = Range(toServer[c]) \cup {Eof} /\ Eof.type # "task_result"
    BY <2>1, AppendRange, LinesAreClientLines DEF Eof
  <2>3. \A d \in Conns : Range(toClient'[d]) \subseteq Range(toClient[d])
    BY <1>8, <2>1, EmptyRange DEF ClientExit, CloseByClient
  <2>4. \A d \in Conns : \A r \in Range(toServer'[d]) :
          r \in Range(toServer[d]) \/ r.type # "task_result"
    BY <1>8, <2>1, <2>2 DEF ClientExit, CloseByClient
  <2> QED
    BY <1>7, <1>8, <2>3, <2>4 DEF ClientExit
<1>9. CASE ConnectionBreaks(c)
  <2>1. PICK k \in 0..Len(toServer[c]), m \in 0..Len(toClient[c]) :
           /\ toServer' = [toServer EXCEPT ![c] = SubSeq(@, 1, k)]
           /\ toClient' = [toClient EXCEPT ![c] = SubSeq(@, 1, m)]
    BY <1>9 DEF ConnectionBreaks, Break
  <2>2. toServer \in [Conns -> Seq(ClientLines)] /\ toClient \in [Conns -> Seq(Tasks)]
    BY <1>0 DEF TypeOK, NetTypeOK
  <2>3. Range(SubSeq(toServer[c], 1, k)) \subseteq Range(toServer[c])
    BY <2>2, PrefixRange
  <2>4. Range(SubSeq(toClient[c], 1, m)) \subseteq Range(toClient[c])
    BY <2>2, PrefixRange
  <2>5. \A d \in Conns : /\ Range(toServer'[d]) \subseteq Range(toServer[d])
                          /\ Range(toClient'[d]) \subseteq Range(toClient[d])
    BY <2>1, <2>2, <2>3, <2>4
  <2> QED
    BY <1>7, <1>9, <2>5 DEF ConnectionBreaks
<1> QED
  BY <1>1, <1>2, <1>4, <1>5, <1>6, <1>8, <1>9 DEF ClientStep

\* Every step keeps the delivery invariant.
LEMMA DeliveryStep == DeliveryInv /\ [Next]_vars => DeliveryInv'
<1> SUFFICES ASSUME DeliveryInv, [Next]_vars PROVE DeliveryInv'
  OBVIOUS
<1>0. TypeOK /\ RegistryInv'
  BY RegistryStep DEF DeliveryInv, RegistryInv
<1>1. CASE UNCHANGED vars
  BY <1>0, <1>1, DeliveryUntouched DEF vars, netVars, serverVars
<1>2. ASSUME NEW t \in Tasks, CreateRecord(t) PROVE DeliveryInv'
  <2>1. \A u \in Tasks : HandedOver(u)' <=> HandedOver(u)
    BY <1>0, <1>2 DEF CreateRecord, TypeOK, HandedOver
  <2>2. QueueHandedOver' /\ ResultsAreOfReceived'
    BY <1>0, <1>2, <2>1, RangeOfSeq
    DEF CreateRecord, netVars, TypeOK, DeliveryInv, QueueHandedOver, ResultsAreOfReceived
  <2>3. TasksReachTheirHost'
    BY <1>0, <1>2, <2>1, TasksKept
    DEF CreateRecord, netVars, DeliveryInv, RegistryInv
  <2>4. SuccessWasReported'
    BY <1>0, <1>2 DEF CreateRecord, TypeOK, DeliveryInv, SuccessWasReported, Delivered
  <2> QED
    BY <1>0, <2>2, <2>3, <2>4 DEF DeliveryInv
<1>3. ASSUME NEW t \in Tasks, EnqueueTask(t) PROVE DeliveryInv'
  <2>1. /\ \A u \in Tasks : HandedOver(u) => HandedOver(u)'
        /\ HandedOver(t)'
    BY <1>0, <1>3 DEF EnqueueTask, TypeOK, HandedOver
  <2>2. Range(taskQueue') = Range(taskQueue) \cup {t} /\ Range(taskQueue) \subseteq Tasks
    BY <1>0, <1>3, AppendRange, RangeOfSeq DEF EnqueueTask, TypeOK
  <2>3. QueueHandedOver'
    BY <1>0, <1>3, <2>1, <2>2 DEF EnqueueTask, TypeOK, DeliveryInv, QueueHandedOver
  <2>4. TasksReachTheirHost'
    BY <1>0, <1>3, <2>1, TasksKept DEF EnqueueTask, netVars, DeliveryInv, RegistryInv
  <2>5. ResultsAreOfReceived' /\ SuccessWasReported'
    BY <1>3 DEF EnqueueTask, netVars, DeliveryInv, ResultsAreOfReceived, SuccessWasReported, Delivered
  <2> QED
    BY <1>0, <2>3, <2>4, <2>5 DEF DeliveryInv
<1> QED
  BY <1>0, <1>1, <1>2, <1>3, DeliveryDistributor, DeliveryHandler, DeliveryClient
  DEF Next, FlaskStep

\* The initial states satisfy the delivery invariant.
LEMMA DeliveryInit == Init => DeliveryInv
<1> SUFFICES ASSUME Init PROVE DeliveryInv
  OBVIOUS
<1>1. TypeOK
  BY DEF Init, NetInit, TypeOK, NetTypeOK, LinkStates, RequestStates, HandlerStates, Conns
<1>2. LinkHandler /\ OpenOrder /\ AcceptOrder
  BY DEF Init, NetInit, LinkHandler, OpenOrder, AcceptOrder
<1>3. RegistryIsLive
  BY ServerAssumption DEF Init, RegistryIsLive
<1>4. QueueHandedOver /\ TasksReachTheirHost /\ ResultsAreOfReceived /\ SuccessWasReported
  BY EmptyRange DEF Init, NetInit, QueueHandedOver, TasksReachTheirHost, ResultsAreOfReceived,
                    SuccessWasReported
<1> QED
  BY <1>1, <1>2, <1>3, <1>4 DEF DeliveryInv, RegistryInv

\* A host is sent and reads only tasks of its own that create_task queued.
THEOREM TasksReachTheirHostCorrect == Spec => []TasksReachTheirHost
<1>1. DeliveryInv => TasksReachTheirHost
  BY DEF DeliveryInv
<1> QED
  BY <1>1, DeliveryInit, DeliveryStep, PTL DEF Spec

\* A document says 'success' only for an id of which a host was given a task,
\* with any number of connections, colliding ids, failed drains and failing
\* database calls.
THEOREM SuccessCorrect == Spec => []SuccessWasReported
<1>1. DeliveryInv => SuccessWasReported
  BY DEF DeliveryInv
<1> QED
  BY <1>1, DeliveryInit, DeliveryStep, PTL DEF Spec

-----------------------------------------------------------------------------
(* Once: where a task is until a drain fails.                              *)

OnceInv ==
    /\ Distinct(taskQueue)
    /\ \A c \in Conns : Distinct(toClient[c])
    /\ \A c, d \in Conns : c # d => Range(toClient[c]) \cap Range(toClient[d]) = {}
    /\ \A t \in Range(taskQueue) : ~Delivered(t) /\ ~InFlight(t)
    /\ \A t \in Tasks : InFlight(t) => ~Delivered(t)

LEMMA OnceIsAtMostOnce == OnceInv => DistributedAtMostOnce
BY DEF OnceInv, DistributedAtMostOnce, Queued, Distinct

\* What is in flight is a task.
LEMMA InFlightTasks ==
  ASSUME TypeOK, NEW c \in Conns
  PROVE  toClient[c] \in Seq(Tasks) /\ Range(toClient[c]) \subseteq Tasks
BY RangeOfSeq DEF TypeOK, NetTypeOK

\* Steps after which no place holds more tasks than it did.
LEMMA OnceShrinks ==
  ASSUME OnceInv, UNCHANGED received,
         Range(taskQueue') \subseteq Range(taskQueue), Distinct(taskQueue'),
         \A c \in Conns : Range(toClient'[c]) \subseteq Range(toClient[c])
                           /\ Distinct(toClient'[c])
  PROVE  OnceInv'
<1>1. \A t : Delivered(t)' <=> Delivered(t)
  BY DEF Delivered
<1>2. \A t : InFlight(t)' => InFlight(t)
  BY DEF InFlight
<1>3. (\A c, d \in Conns : c # d => Range(toClient[c]) \cap Range(toClient[d]) = {})'
  BY DEF OnceInv
<1>4. (\A c \in Conns : Distinct(toClient[c]))'
  BY DEF Distinct
<1>5. Distinct(taskQueue)'
  BY DEF Distinct
<1> QED
  BY <1>1, <1>2, <1>3, <1>4, <1>5 DEF OnceInv

\* Steps that leave the queue, the channels and what hosts have read alone.
LEMMA OnceStays ==
  ASSUME OnceInv, UNCHANGED <<taskQueue, toClient, received>>
  PROVE  OnceInv'
BY OnceShrinks DEF OnceInv

\* The distributor takes a task off the queue.
LEMMA OnceTaken ==
  ASSUME TypeOK, OnceInv, taskQueue # << >>
  PROVE  /\ Head(taskQueue) \in Range(taskQueue) /\ Head(taskQueue) \in Tasks
         /\ Tail(taskQueue) \in Seq(Tasks)
         /\ Range(Tail(taskQueue)) \subseteq Range(taskQueue)
         /\ Distinct(Tail(taskQueue))
         /\ Head(taskQueue) \notin Range(Tail(taskQueue))
<1>1. taskQueue \in Seq(Tasks) /\ Distinct(taskQueue)
  BY DEF TypeOK, OnceInv
<1> QED
  BY <1>1, HeadInRange, TailRange, TailDistinct

\* The distributor writes the task it took, or the connection is gone.
LEMMA OnceSent ==
  ASSUME TypeOK, OnceInv, DispatchSend
  PROVE  OnceInv'
<1>1. PICK t \in Tasks, c \in Conns : TakesTask(t, c) /\ ServerWrites(c, t)
  BY DEF DispatchSend
<1>2. /\ t = Head(taskQueue) /\ taskQueue # << >> /\ taskQueue' = Tail(taskQueue)
      /\ UNCHANGED received
  BY <1>1 DEF DispatchSend, TakesTask
<1>3. /\ t \in Range(taskQueue) /\ Range(taskQueue') \subseteq Range(taskQueue)
      /\ Distinct(taskQueue') /\ t \notin Range(taskQueue')
  BY <1>2, OnceTaken
<1>4. ~Delivered(t) /\ ~InFlight(t)
  BY <1>3 DEF OnceInv
<1>5. CASE toClient' = toClient
  BY <1>2, <1>3, <1>5, OnceShrinks DEF OnceInv
<1>6. CASE toClient' = [toClient EXCEPT ![c] = Append(@, t)]
  <2>1. toClient \in [Conns -> Seq(Tasks)] /\ Distinct(toClient[c]) /\ t \notin Range(toClient[c])
    BY <1>4 DEF TypeOK, NetTypeOK, OnceInv, InFlight
  <2>2. /\ Range(Append(toClient[c], t)) = Range(toClient[c]) \cup {t}
        /\ Distinct(Append(toClient[c], t))
    BY <2>1, AppendRange, AppendDistinct
  <2>3. /\ \A d \in Conns \ {c} : toClient'[d] = toClient[d]
        /\ Range(toClient'[c]) = Range(toClient[c]) \cup {t}
        /\ Distinct(toClient'[c])
    BY <1>6, <2>1, <2>2
  <2>4. \A d \in Conns : t \notin Range(toClient[d])
    BY <1>4 DEF InFlight
  <2>5. \A u : /\ Delivered(u)' <=> Delivered(u)
               /\ InFlight(u)' => InFlight(u) \/ u = t
    BY <1>2, <2>3 DEF Delivered, InFlight
  <2>6. (\A d \in Conns : Distinct(toClient[d]))'
    BY <2>3 DEF OnceInv, Distinct
  <2>7. (\A d, e \in Conns : d # e => Range(toClient[d]) \cap Range(toClient[e]) = {})'
    BY <2>3, <2>4 DEF OnceInv
  <2>8. Distinct(taskQueue)'
    BY <1>3 DEF Distinct
  <2>9. (\A u \in Range(taskQueue) : ~Delivered(u) /\ ~InFlight(u))'
    BY <1>3, <2>5 DEF OnceInv
  <2>10. (\A u \in Tasks : InFlight(u) => ~Delivered(u))'
    BY <1>4, <2>5 DEF OnceInv
  <2> QED
    BY <2>6, <2>7, <2>8, <2>9, <2>10 DEF OnceInv
<1> QED
  BY <1>1, <1>5, <1>6 DEF ServerWrites

\* A host reads the first task of one of its connections.
LEMMA OnceRead ==
  ASSUME DeliveryInv, OnceInv, NEW c \in Conns, ClientRead(c)
  PROVE  OnceInv'
<1>1. /\ toClient \in [Conns -> Seq(Tasks)] /\ received \in [IPs -> SUBSET Tasks]
      /\ toClient[c] # << >> /\ Distinct(toClient[c]) /\ c[1] \in IPs
  BY ConnPair DEF ClientRead, DeliveryInv, RegistryInv, TypeOK, NetTypeOK, OnceInv
<1>2. PICK t \in Tasks :
        /\ t = Head(toClient[c]) /\ t \in Range(toClient[c])
        /\ Range(Tail(toClient[c])) \subseteq Range(toClient[c])
        /\ Distinct(Tail(toClient[c])) /\ t \notin Range(Tail(toClient[c]))
  BY <1>1, HeadInRange, TailRange, TailDistinct
<1>3. /\ toClient' = [toClient EXCEPT ![c] = Tail(@)]
      /\ received' = [received EXCEPT ![c[1]] = @ \cup {t}]
      /\ UNCHANGED taskQueue
  BY <1>2 DEF ClientRead, serverVars
<1>4. InFlight(t) /\ ClientIp[t] = c[1]
  BY <1>2 DEF InFlight, DeliveryInv, TasksReachTheirHost
<1>5. \A d \in Conns : /\ Range(toClient'[d]) \subseteq Range(toClient[d])
                       /\ t \notin Range(toClient'[d])
                       /\ Distinct(toClient'[d])
  <2>1. TAKE d \in Conns
  <2>2. CASE d = c
    BY <1>1, <1>2, <1>3, <2>2
  <2>3. CASE d # c
    BY <1>1, <1>2, <1>3, <2>3 DEF OnceInv
  <2> QED
    BY <2>2, <2>3
<1>6. ~InFlight(t)' /\ \A u : InFlight(u)' => InFlight(u)
  BY <1>5 DEF InFlight
<1>7. \A u \in Tasks : Delivered(u)' => Delivered(u) \/ u = t
  BY <1>1, <1>3, ServerAssumption, ConnectionsAssumption DEF Delivered
<1>8. Distinct(taskQueue)' /\ (\A d \in Conns : Distinct(toClient[d]))'
  BY <1>3, <1>5 DEF OnceInv, Distinct
<1>9. (\A d, e \in Conns : d # e => Range(toClient[d]) \cap Range(toClient[e]) = {})'
  BY <1>5 DEF OnceInv
<1>10. Range(taskQueue) \subseteq Tasks /\ t \notin Range(taskQueue)
  BY <1>4, RangeOfSeq DEF OnceInv, DeliveryInv, RegistryInv, TypeOK
<1>11. (\A u \in Range(taskQueue) : ~Delivered(u) /\ ~InFlight(u))'
  BY <1>3, <1>6, <1>7, <1>10 DEF OnceInv
<1>12. (\A u \in Tasks : InFlight(u) => ~Delivered(u))'
  BY <1>6, <1>7 DEF OnceInv
<1> QED
  BY <1>8, <1>9, <1>11, <1>12 DEF OnceInv

\* A task is put on the queue once, before anybody has it.
LEMMA OnceEnqueued ==
  ASSUME DeliveryInv, OnceInv, NEW t \in Tasks, EnqueueTask(t)
  PROVE  OnceInv'
<1>1. taskQueue \in Seq(Tasks) /\ Distinct(taskQueue) /\ ~HandedOver(t)
  BY DEF EnqueueTask, DeliveryInv, RegistryInv, TypeOK, OnceInv, HandedOver
<1>2. t \notin Range(taskQueue) /\ ~InFlight(t) /\ ~Delivered(t)
  <2>1. ClientIp[t] \in IPs
    BY ServerAssumption
  <2> QED
    BY <1>1, <2>1 DEF DeliveryInv, QueueHandedOver, TasksReachTheirHost, InFlight, Delivered
<1>3. /\ taskQueue' = Append(taskQueue, t) /\ UNCHANGED <<toClient, received>>
  BY DEF EnqueueTask, netVars
<1>4. Range(taskQueue') = Range(taskQueue) \cup {t} /\ Distinct(taskQueue')
  BY <1>1, <1>2, <1>3, AppendRange, AppendDistinct
<1>5. \A u : (Delivered(u)' <=> Delivered(u)) /\ (InFlight(u)' <=> InFlight(u))
  BY <1>3 DEF Delivered, InFlight
<1>6. Distinct(taskQueue)' /\ (\A c \in Conns : Distinct(toClient[c]))'
  BY <1>3, <1>4 DEF OnceInv, Distinct
<1>7. (\A u \in Range(taskQueue) : ~Delivered(u) /\ ~InFlight(u))'
  BY <1>2, <1>4, <1>5 DEF OnceInv
<1>8. (\A u \in Tasks : InFlight(u) => ~Delivered(u))'
  BY <1>5 DEF OnceInv
<1>9. (\A c, d \in Conns : c # d => Range(toClient[c]) \cap Range(toClient[d]) = {})'
  BY <1>3 DEF OnceInv
<1> QED
  BY <1>6, <1>7, <1>8, <1>9 DEF OnceInv

\* Every step that is no failing drain keeps it.
LEMMA OnceStep ==
  ASSUME DeliveryInv, OnceInv, [Next]_vars, [~DrainFails]_vars
  PROVE  OnceInv'
<1> USE DEF netVars, serverVars
<1>0. TypeOK
  BY DEF DeliveryInv, RegistryInv
<1>1. CASE UNCHANGED vars
  BY <1>1, OnceStays DEF vars
<1>2. ASSUME NEW t \in Tasks, CreateRecord(t) PROVE OnceInv'
  BY <1>2, OnceStays DEF CreateRecord
<1>3. CASE DistributorStep /\ ~DrainFails
  <2>1. CASE DispatchNoConnection \/ DispatchToClosing
    <3>1. taskQueue # << >> /\ taskQueue' = Tail(taskQueue) /\ UNCHANGED <<toClient, received>>
      BY <2>1 DEF DispatchNoConnection, DispatchToClosing, TakesTask
    <3>2. Range(taskQueue') \subseteq Range(taskQueue) /\ Distinct(taskQueue')
      BY <1>0, <3>1, OnceTaken
    <3> QED
      BY <3>1, <3>2, OnceShrinks DEF OnceInv
  <2>2. CASE DispatchSendFails
    <3>1. PICK t \in Tasks : /\ t = Head(taskQueue) /\ taskQueue # << >>
                             /\ taskQueue' = Append(Tail(taskQueue), t)
                             /\ UNCHANGED <<toClient, received>>
      BY <2>2 DEF DispatchSendFails, TakesTask
    <3>2. /\ t \in Range(taskQueue) /\ Tail(taskQueue) \in Seq(Tasks)
          /\ Range(Tail(taskQueue)) \subseteq Range(taskQueue)
          /\ Distinct(Tail(taskQueue)) /\ t \notin Range(Tail(taskQueue))
      BY <1>0, <3>1, OnceTaken
    <3>3. /\ Range(taskQueue') = Range(Tail(taskQueue)) \cup {t} /\ Distinct(taskQueue')
      BY <3>1, <3>2, AppendRange, AppendDistinct
    <3> QED
      BY <3>1, <3>2, <3>3, OnceShrinks DEF OnceInv
  <2>3. CASE DrainDone
    BY <2>3, OnceStays DEF DrainDone
  <2> QED
    BY <1>0, <1>3, <2>1, <2>2, <2>3, OnceSent DEF DistributorStep
<1>4. ASSUME NEW c \in Conns, HandlerStep(c) \/ ServerDetectsLoss(c) PROVE OnceInv'
  BY <1>4, OnceStays
  DEF HandlerStep, Accept, AcceptFails, HandleHeartbeat, HandleTaskResult, HandleBadLine,
      HandlerLosesReader, ServerDetectsLoss
<1>5. ASSUME NEW c \in Conns,
             ClientConnect(c) \/ ClientReport(c) \/ ClientReportNull(c) \/ ClientHeartbeat(c)
      PROVE  OnceInv'
  BY <1>5, OnceStays
  DEF ClientConnect, Open, ClientReport, ClientReportNull, ClientHeartbeat, ClientWrites
<1>6. ASSUME NEW c \in Conns, ClientExit(c) \/ ConnectionBreaks(c) PROVE OnceInv'
  <2>1. UNCHANGED <<taskQueue, received>>
    BY <1>6 DEF ClientExit, ConnectionBreaks
  <2>2. toClient \in [Conns -> Seq(Tasks)] /\ \A d \in Conns : Distinct(toClient[d])
    BY <1>0 DEF TypeOK, NetTypeOK, OnceInv
  <2>3. /\ \A d \in Conns \ {c} : toClient'[d] = toClient[d]
        /\ Range(toClient'[c]) \subseteq Range(toClient[c]) /\ Distinct(toClient'[c])
    <3>1. CASE ClientExit(c)
      <4>1. toClient' = [toClient EXCEPT ![c] = << >>]
        BY <3>1 DEF ClientExit, CloseByClient
      <4>2. Distinct(<< >>)
        BY DEF Distinct
      <4> QED
        BY <2>2, <4>1, <4>2, EmptyRange
    <3>2. CASE ConnectionBreaks(c)
      <4>1. PICK m \in 0..Len(toClient[c]) :
               toClient' = [toClient EXCEPT ![c] = SubSeq(@, 1, m)]
        BY <3>2 DEF ConnectionBreaks, Break
      <4>2. /\ Range(SubSeq(toClient[c], 1, m)) \subseteq Range(toClient[c])
            /\ Distinct(SubSeq(toClient[c], 1, m))
        BY <2>2, PrefixRange, PrefixDistinct
      <4> QED
        BY <2>2, <4>1, <4>2
    <3> QED
      BY <1>6, <3>1, <3>2
  <2>4. \A d \in Conns : Range(toClient'[d]) \subseteq Range(toClient[d]) /\ Distinct(toClient'[d])
    BY <2>2, <2>3
  <2> QED
    BY <2>1, <2>4, OnceShrinks DEF OnceInv
<1> QED
  BY <1>1, <1>2, <1>3, <1>4, <1>5, <1>6, OnceRead, OnceEnqueued
  DEF Next, FlaskStep, ClientStep, vars

LEMMA OnceInit == Init => OnceInv
<1> SUFFICES ASSUME Init PROVE OnceInv
  OBVIOUS
<1>1. /\ taskQueue = << >> /\ toClient = [c \in Conns |-> << >>]
      /\ received = [ip \in IPs |-> {}]
  BY DEF Init, NetInit
<1>2. Range(<< >>) = {} /\ Distinct(<< >>)
  BY EmptyRange DEF Distinct
<1>3. \A t : ~InFlight(t)
  BY <1>1, <1>2 DEF InFlight
<1> QED
  BY <1>1, <1>2, <1>3 DEF OnceInv

\* In every behaviour in which no drain fails, a task is in one place only:
\* reconnections, failed writes, breaks and late handlers never let a host
\* get it twice, nor refuse it after it was sent.
THEOREM DistributedCorrect == Spec /\ [][~DrainFails]_vars => []DistributedAtMostOnce
<1>1. DeliveryInv /\ OnceInv /\ [Next]_vars /\ [~DrainFails]_vars => OnceInv'
  BY OnceStep
<1> QED
  BY <1>1, OnceInit, OnceIsAtMostOnce, DeliveryInit, DeliveryStep, PTL DEF Spec

-----------------------------------------------------------------------------
(* Lost: what becomes of a task as long as its host's connections hold.    *)

ClosingIsBroken == \A c \in closing : link[c] = "broken"

HostBroke(t) == \E c \in Conns : c[1] = ClientIp[t] /\ link[c] = "broken"
Kept(t) == Queued(t) \/ InFlight(t) \/ Delivered(t) \/ record[t] # "running"

LostInv ==
    /\ ClosingIsBroken
    /\ \A t \in Tasks : HandedOver(t) => HostBroke(t) \/ Kept(t)

LEMMA LostParts == LostInv => LostOnlyWithAConnection
BY DEF LostInv, LostOnlyWithAConnection, HostBroke, Kept

\* A step that hands no task over and loses none, or only with a connection.
LEMMA LostKept ==
  ASSUME LostInv, ClosingIsBroken',
         \A c \in Conns : link[c] = "broken" => link'[c] = "broken",
         \A t \in Tasks : HandedOver(t)' => HandedOver(t),
         \A t \in Tasks : HandedOver(t) /\ Kept(t) => Kept(t)' \/ HostBroke(t)'
  PROVE  LostInv'
<1>1. \A t \in Tasks : HostBroke(t) => HostBroke(t)'
  BY DEF HostBroke
<1> QED
  BY <1>1 DEF LostInv

\* Steps that leave alone what says where the tasks are.
LEMMA LostStays ==
  ASSUME LostInv, UNCHANGED <<link, closing, toClient, request, record, taskQueue, received>>
  PROVE  LostInv'
BY DEF LostInv, ClosingIsBroken, HandedOver, HostBroke, Kept, Queued, InFlight, Delivered

\* With distinct ids, a database that does not raise writes this document only.
LEMMA UpdateWrites ==
  ASSUME TypeOK, ~DbMayRaise, \A t, u \in Tasks : TaskId[t] = TaskId[u] => t = u,
         NEW t \in Tasks, NEW s \in Statuses, update_task(t, s)
  PROVE  record'[t] = s /\ \A u \in Tasks \ {t} : record'[u] = record[u]
<1>1. SameId(t) = {t} /\ record' = Upsert(t, s)
  BY DEF SameId, update_task
<1> QED
  BY <1>1 DEF Upsert

\* A round of distribute_tasks.
LEMMA LostDistributor ==
  ASSUME ~DbMayRaise, \A t, u \in Tasks : TaskId[t] = TaskId[u] => t = u,
         DeliveryInv, LostInv, DistributorStep
  PROVE  LostInv'
<1> USE DEF netVars
<1>0. TypeOK /\ taskQueue \in Seq(Tasks) /\ closing \subseteq Conns
  BY DEF DeliveryInv, RegistryInv, TypeOK
<1>1. ASSUME taskQueue # << >>
      PROVE  /\ Tail(taskQueue) \in Seq(Tasks)
             /\ \A u \in Tasks : Queued(u) => u = Head(taskQueue) \/ u \in Range(Tail(taskQueue))
  BY <1>0, <1>1, TailRange, HeadOrTail DEF Queued
<1>2. CASE DispatchNoConnection
  <2>1. PICK t \in Tasks : TakesTask(t, NoConn) /\ update_task(t, "error")
    BY <1>2 DEF DispatchNoConnection
  <2>2. record'[t] = "error" /\ \A u \in Tasks \ {t} : record'[u] = record[u]
    BY <1>0, <2>1, UpdateWrites DEF Statuses
  <2>3. /\ t = Head(taskQueue) /\ taskQueue # << >> /\ taskQueue' = Tail(taskQueue)
        /\ UNCHANGED <<link, closing, toClient, request, received>>
    BY <1>2, <2>1 DEF DispatchNoConnection, TakesTask
  <2>4. ASSUME NEW u \in Tasks, Kept(u) PROVE Kept(u)'
    <3>1. CASE u = t
      BY <2>2, <3>1 DEF Kept
    <3>2. CASE u # t
      BY <1>1, <2>2, <2>3, <2>4, <3>2 DEF Kept, Queued, InFlight, Delivered
    <3> QED
      BY <3>1, <3>2
  <2> QED
    BY <2>3, <2>4, LostKept DEF LostInv, ClosingIsBroken, HandedOver
<1>3. CASE DispatchToClosing
  <2>1. PICK t \in Tasks, c \in closing : TakesTask(t, c)
    BY <1>3 DEF DispatchToClosing
  <2>2. /\ t = Head(taskQueue) /\ taskQueue # << >> /\ taskQueue' = Tail(taskQueue)
        /\ UNCHANGED <<link, closing, toClient, request, received, record>>
    BY <1>3, <2>1 DEF DispatchToClosing, TakesTask
  <2>3. c \in Conns /\ c[1] = ClientIp[t] /\ link'[c] = "broken"
    BY <1>0, <2>1, <2>2, ServerAssumption
    DEF TakesTask, DeliveryInv, RegistryInv, RegistryIsLive, LostInv, ClosingIsBroken
  <2>4. ASSUME NEW u \in Tasks, Kept(u) PROVE Kept(u)' \/ HostBroke(u)'
    <3>1. CASE u = t
      BY <2>3, <3>1 DEF HostBroke
    <3>2. CASE u # t
      BY <1>1, <2>2, <2>4, <3>2 DEF Kept, Queued, InFlight, Delivered
    <3> QED
      BY <3>1, <3>2
  <2> QED
    BY <2>2, <2>4, LostKept DEF LostInv, ClosingIsBroken, HandedOver
<1>4. CASE DispatchSend
  <2>1. PICK t \in Tasks, c \in Conns \ closing : TakesTask(t, c) /\ ServerWrites(c, t)
    BY <1>4 DEF DispatchSend
  <2>2. /\ t = Head(taskQueue) /\ taskQueue # << >> /\ taskQueue' = Tail(taskQueue)
        /\ UNCHANGED <<link, closing, request, received, record>>
    BY <1>4, <2>1 DEF DispatchSend, TakesTask, ServerWrites
  <2>3. c[1] = ClientIp[t] /\ link[c] # "unused"
    BY <1>0, <2>1, ServerAssumption
    DEF TakesTask, DeliveryInv, RegistryInv, RegistryIsLive, LinkHandler
  <2>4. link[c] \in LinkStates /\ toClient \in [Conns -> Seq(Tasks)]
    BY <1>0 DEF TypeOK, NetTypeOK
  <2>5. link[c] = "open" \/ HostBroke(t)'
    BY <2>2, <2>3, <2>4 DEF LinkStates, HostBroke
  <2>6. Range(Append(toClient[c], t)) = Range(toClient[c]) \cup {t}
    BY <2>4, AppendRange
  <2>7. /\ \A d \in Conns : Range(toClient[d]) \subseteq Range(toClient'[d])
        /\ link[c] = "open" => t \in Range(toClient'[c])
    BY <2>1, <2>4, <2>6 DEF ServerWrites
  <2>8. ASSUME NEW u \in Tasks, Kept(u) PROVE Kept(u)' \/ HostBroke(u)'
    <3>1. CASE u = t
      BY <2>5, <2>7, <3>1 DEF Kept, InFlight
    <3>2. CASE u # t
      BY <1>1, <2>2, <2>7, <2>8, <3>2 DEF Kept, Queued, InFlight, Delivered
    <3> QED
      BY <3>1, <3>2
  <2> QED
    BY <2>2, <2>8, LostKept DEF LostInv, ClosingIsBroken, HandedOver
<1>5. CASE DispatchSendFails
  <2>1. PICK t \in Tasks, c \in Conns :
           /\ TakesTask(t, c) /\ link[c] = "broken" /\ closing' = closing \cup {c}
           /\ taskQueue' = Append(Tail(taskQueue), t)
    BY <1>5 DEF DispatchSendFails
  <2>2. /\ t = Head(taskQueue) /\ taskQueue # << >>
        /\ UNCHANGED <<link, toClient, request, received, record>>
    BY <1>5, <2>1 DEF DispatchSendFails, TakesTask
  <2>3. Range(taskQueue') = Range(Tail(taskQueue)) \cup {t}
    <3> DEFINE q == Tail(taskQueue)
    <3>1. q \in Seq(Tasks) /\ taskQueue' = Append(q, t)
      BY <1>1, <2>1, <2>2
    <3> HIDE DEF q
    <3>2. Range(Append(q, t)) = Range(q) \cup {t}
      BY <3>1, AppendRange
    <3> QED
      BY <3>1, <3>2 DEF q
  <2>4. ClosingIsBroken'
    BY <2>1, <2>2 DEF LostInv, ClosingIsBroken
  <2>5. \A u \in Tasks : Kept(u) => Kept(u)'
    BY <1>1, <2>2, <2>3 DEF Kept, Queued, InFlight, Delivered
  <2> QED
    BY <2>2, <2>4, <2>5, LostKept DEF HandedOver
<1>6. CASE DrainDone
  BY <1>6, LostStays DEF DrainDone
<1>7. CASE DrainFails
  <2>1. PICK d \in draining : taskQueue' = Append(taskQueue, d.task)
    BY <1>7 DEF DrainFails
  <2>2. d.task \in Tasks
    BY <1>0 DEF TypeOK
  <2>3. Range(taskQueue') = Range(taskQueue) \cup {d.task}
    BY <1>0, <2>1, <2>2, AppendRange
  <2>4. UNCHANGED <<link, closing, toClient, request, received, record>>
    BY <1>7 DEF DrainFails
  <2>5. \A u \in Tasks : Kept(u) => Kept(u)'
    BY <2>3, <2>4 DEF Kept, Queued, InFlight, Delivered
  <2> QED
    BY <2>4, <2>5, LostKept DEF HandedOver, LostInv, ClosingIsBroken
<1> QED
  BY <1>2, <1>3, <1>4, <1>5, <1>6, <1>7 DEF DistributorStep

\* A step of a handler, or the loop noticing a loss.
LEMMA LostHandler ==
  ASSUME ~DbMayRaise, \A t, u \in Tasks : TaskId[t] = TaskId[u] => t = u,
         DeliveryInv, LostInv, NEW c \in Conns, HandlerStep(c) \/ ServerDetectsLoss(c)
  PROVE  LostInv'
<1> USE DEF netVars
<1>0. TypeOK
  BY DEF DeliveryInv, RegistryInv
<1>1. CASE Accept(c) \/ HandleHeartbeat(c) \/ HandleBadLine(c) \/ HandlerLosesReader(c)
  BY <1>1, LostStays DEF Accept, HandleHeartbeat, HandleBadLine, HandlerLosesReader
<1>2. CASE AcceptFails(c) \/ ServerDetectsLoss(c)
  <2>1. /\ closing' = closing \cup {c} /\ link[c] = "broken"
        /\ UNCHANGED <<link, toClient, request, received, record, taskQueue>>
    BY <1>2 DEF AcceptFails, ServerDetectsLoss
  <2>2. ClosingIsBroken'
    BY <2>1 DEF LostInv, ClosingIsBroken
  <2>3. \A u \in Tasks : Kept(u) => Kept(u)'
    BY <2>1 DEF Kept, Queued, InFlight, Delivered
  <2> QED
    BY <2>1, <2>2, <2>3, LostKept DEF HandedOver
<1>3. CASE HandleTaskResult(c)
  <2> DEFINE r == Head(toServer[c])
  <2>1. r \in ClientLines /\ r \in Range(toServer[c]) /\ r.type = "task_result"
    BY <1>0, <1>3, ReadsLineType DEF HandleTaskResult, ReadsLine
  <2>2. r.task \in Tasks /\ r.status \in Statuses
    BY <2>1 DEF ClientLines, Results, Heartbeat, NullResult, Eof
  <2>3. Delivered(r.task)
    BY <2>1, <2>2, ConnPair
    DEF DeliveryInv, ResultsAreOfReceived, TasksReachTheirHost, Delivered
  <2>4. \A u \in Tasks : u = r.task \/ record'[u] = record[u]
    BY <1>0, <1>3, <2>2, UpdateWrites DEF HandleTaskResult
  <2>5. UNCHANGED <<link, closing, toClient, request, received, taskQueue>>
    BY <1>3 DEF HandleTaskResult
  <2>6. \A u \in Tasks : Kept(u) => Kept(u)'
    BY <2>3, <2>4, <2>5 DEF Kept, Queued, InFlight, Delivered
  <2> QED
    BY <2>5, <2>6, LostKept DEF HandedOver, LostInv, ClosingIsBroken
<1> QED
  BY <1>1, <1>2, <1>3 DEF HandlerStep

\* A step of a host or of the network.
LEMMA LostClient ==
  ASSUME DeliveryInv, LostInv, NEW c \in Conns, ClientStep(c) \/ ConnectionBreaks(c)
  PROVE  LostInv'
<1> USE DEF netVars, serverVars
<1>0. /\ TypeOK /\ toClient \in [Conns -> Seq(Tasks)] /\ link \in [Conns -> LinkStates]
      /\ closing \subseteq Conns
  BY DEF DeliveryInv, RegistryInv, TypeOK, NetTypeOK
<1>1. CASE ClientConnect(c)
  <2>1. /\ link' = [link EXCEPT ![c] = "open"] /\ link[c] = "unused"
        /\ UNCHANGED <<closing, toClient, request, received, record, taskQueue>>
    BY <1>1 DEF ClientConnect, Open, NextOfItsHost
  <2>2. \A d \in Conns : link[d] = "broken" => link'[d] = "broken"
    BY <1>0, <2>1
  <2>3. \A u \in Tasks : Kept(u) => Kept(u)'
    BY <2>1 DEF Kept, Queued, InFlight, Delivered
  <2> QED
    BY <1>0, <2>1, <2>2, <2>3, LostKept DEF HandedOver, LostInv, ClosingIsBroken
<1>2. CASE ClientRead(c)
  <2>1. /\ toClient[c] # << >>
        /\ toClient' = [toClient EXCEPT ![c] = Tail(@)]
        /\ received' = [received EXCEPT ![c[1]] = @ \cup {Head(toClient[c])}]
        /\ UNCHANGED <<link, closing, request, record, taskQueue>>
    BY <1>2 DEF ClientRead
  <2>2. received \in [IPs -> SUBSET Tasks] /\ c[1] \in IPs /\ toClient[c] \in Seq(Tasks)
    BY <1>0, ConnPair DEF TypeOK
  <2>3. Head(toClient[c]) \in Range(toClient[c])
    BY <2>1, <2>2, HeadInRange
  <2>5. \A u \in Tasks : Delivered(u) => Delivered(u)'
    BY <2>1, <2>2, ServerAssumption DEF Delivered
  <2>6. ASSUME NEW u \in Tasks, NEW d \in Conns, u \in Range(toClient[d])
        PROVE  InFlight(u)' \/ Delivered(u)'
    <3>1. CASE d = c /\ u = Head(toClient[c])
      <4>1. u \in received'[c[1]] /\ ClientIp[u] = c[1]
        BY <2>1, <2>2, <2>3, <3>1 DEF DeliveryInv, TasksReachTheirHost
      <4> QED
        BY <4>1 DEF Delivered
    <3>2. CASE d = c /\ u # Head(toClient[c])
      <4>1. u \in Range(Tail(toClient[c])) /\ toClient'[c] = Tail(toClient[c])
        BY <1>0, <2>1, <2>2, <2>6, <3>2, HeadOrTail
      <4> QED
        BY <4>1 DEF InFlight
    <3>3. CASE d # c
      BY <1>0, <2>1, <2>6, <3>3 DEF InFlight
    <3> QED
      BY <3>1, <3>2, <3>3
  <2>7. \A u \in Tasks : Kept(u) => Kept(u)'
    BY <2>1, <2>5, <2>6 DEF Kept, Queued, InFlight
  <2> QED
    BY <2>1, <2>7, LostKept DEF HandedOver, LostInv, ClosingIsBroken
<1>3. CASE ClientReport(c) \/ ClientReportNull(c) \/ ClientHeartbeat(c)
  BY <1>3, LostStays DEF ClientReport, ClientReportNull, ClientHeartbeat, ClientWrites
<1>4. CASE ClientExit(c) \/ ConnectionBreaks(c)
  <2>1. /\ link' = [link EXCEPT ![c] = "broken"]
        /\ \A d \in Conns \ {c} : toClient'[d] = toClient[d]
        /\ UNCHANGED <<closing, request, received, record, taskQueue>>
    BY <1>0, <1>4 DEF ClientExit, CloseByClient, ConnectionBreaks, Break
  <2>2. \A u \in Range(toClient[c]) : HostBroke(u)'
    BY <1>0, <2>1 DEF DeliveryInv, TasksReachTheirHost, HostBroke
  <2>3. \A u \in Tasks : Kept(u) => Kept(u)' \/ HostBroke(u)'
    BY <2>1, <2>2 DEF Kept, Queued, InFlight, Delivered
  <2>4. ClosingIsBroken'
    BY <1>0, <2>1 DEF LostInv, ClosingIsBroken
  <2>5. \A d \in Conns : link[d] = "broken" => link'[d] = "broken"
    BY <1>0, <2>1
  <2> QED
    BY <2>1, <2>3, <2>4, <2>5, LostKept DEF HandedOver
<1> QED
  BY <1>1, <1>2, <1>3, <1>4 DEF ClientStep

\* A step of a request's thread.
LEMMA LostFlask ==
  ASSUME DeliveryInv, LostInv, NEW t \in Tasks, CreateRecord(t) \/ EnqueueTask(t)
  PROVE  LostInv'
<1> USE DEF netVars
<1>0. TypeOK /\ taskQueue \in Seq(Tasks) /\ request \in [Tasks -> RequestStates]
      /\ record \in [Tasks -> {"none"} \cup Statuses]
  BY DEF DeliveryInv, RegistryInv, TypeOK
<1>1. CASE CreateRecord(t)
  <2>1. /\ UNCHANGED <<link, closing, toClient, received, taskQueue>>
        /\ ~HandedOver(t)' /\ ~HandedOver(t)
        /\ \A u \in Tasks \ {t} : (HandedOver(u)' <=> HandedOver(u)) /\ record'[u] = record[u]
    BY <1>0, <1>1 DEF CreateRecord, HandedOver
  <2>2. \A u \in Tasks \ {t} : Kept(u) => Kept(u)'
    BY <2>1 DEF Kept, Queued, InFlight, Delivered
  <2> QED
    BY <2>1, <2>2, LostKept DEF LostInv, ClosingIsBroken
<1>2. CASE EnqueueTask(t)
  <2>1. /\ UNCHANGED <<link, closing, toClient, received, record>>
        /\ taskQueue' = Append(taskQueue, t)
        /\ \A u \in Tasks \ {t} : HandedOver(u)' <=> HandedOver(u)
    BY <1>0, <1>2 DEF EnqueueTask, HandedOver
  <2>2. Range(taskQueue') = Range(taskQueue) \cup {t}
    BY <1>0, <2>1, AppendRange
  <2>3. Kept(t)' /\ \A u \in Tasks : (Kept(u) => Kept(u)') /\ (HostBroke(u) => HostBroke(u)')
    BY <2>1, <2>2 DEF Kept, HostBroke, Queued, InFlight, Delivered
  <2> QED
    BY <2>1, <2>3 DEF LostInv, ClosingIsBroken
<1> QED
  BY <1>1, <1>2

\* With distinct ids and a database that does not raise, a task is lost only with
\* a connection of its host, for any number of hosts, connections and tasks:
\* neither the registry's confusions nor requeues nor late results lose one.
THEOREM LostCorrect ==
  ASSUME ~DbMayRaise, \A t, u \in Tasks : TaskId[t] = TaskId[u] => t = u
  PROVE  Spec => []LostOnlyWithAConnection
<1>1. Init => LostInv
  BY DEF Init, NetInit, LostInv, ClosingIsBroken, HandedOver
<1>2. DeliveryInv /\ LostInv /\ [Next]_vars => LostInv'
  <2> SUFFICES ASSUME DeliveryInv, LostInv, [Next]_vars PROVE LostInv'
    OBVIOUS
  <2>1. CASE UNCHANGED vars
    BY <2>1, LostStays DEF vars, netVars, serverVars
  <2>2. CASE DistributorStep
    BY <2>2, LostDistributor
  <2>3. ASSUME NEW t \in Tasks, CreateRecord(t) \/ EnqueueTask(t) PROVE LostInv'
    BY <2>3, LostFlask
  <2>4. ASSUME NEW c \in Conns, HandlerStep(c) \/ ServerDetectsLoss(c) PROVE LostInv'
    BY <2>4, LostHandler
  <2>5. ASSUME NEW c \in Conns, ClientStep(c) \/ ConnectionBreaks(c) PROVE LostInv'
    BY <2>5, LostClient
  <2> QED
    BY <2>1, <2>2, <2>3, <2>4, <2>5 DEF Next, FlaskStep
<1> QED
  BY <1>1, <1>2, LostParts, DeliveryInit, DeliveryStep, PTL DEF Spec
=============================================================================
