------------------------ MODULE ClientConnectServer ------------------------
(***************************************************************************)
(* The command server of server/client_connect.py, class                   *)
(* ClientConnectServer, together with an environment of hosts that connect,*)
(* take tasks, answer them and disappear as they please.                   *)
(*                                                                         *)
(* Who runs what.  create_task runs in the thread of a Flask request, one  *)
(* per task, and puts the task on taskQueue.  Everything else is one       *)
(* asyncio loop: one handle_rpc coroutine per connection and one           *)
(* distribute_tasks coroutine.  A coroutine keeps the loop until it awaits *)
(* something that is not ready, so the actions below are the code between  *)
(* two such awaits (and two handle_rpc rounds that the loop would run      *)
(* back to back are two steps).                                            *)
(*                                                                         *)
(* The task table of the database is reduced to the status of each task's  *)
(* document; TinyDB models how the store itself behaves.                   *)
(* distribute_tasks also skips tasks whose client_type is 'switch', but    *)
(* TaskService.send_player_task never sends one here.                      *)
(***************************************************************************)
EXTENDS Connections

CONSTANTS
    ClientIp,   \* [Tasks -> IPs], task_data['client_ip']
    TaskId,     \* [Tasks -> ids], the value of generate_task_id for each task
    HighWater,  \* lines a transport buffers before drain() has to wait
    MaxBacklog, \* bound: lines a transport buffers at all
    DbMayRaise, \* BOOLEAN: may a database call raise?
    NoConn      \* connected_clients.get() found nothing

ASSUME ServerAssumption ==
    /\ ClientIp \in [Tasks -> IPs]
    /\ HighWater \in Nat
    /\ MaxBacklog \in Nat
    /\ DbMayRaise \in BOOLEAN
    /\ NoConn \notin Conns

VARIABLES
    request,           \* [Tasks -> progress of the request that creates the task]
    record,            \* [Tasks -> status in its document, "none" without one]
    taskQueue,         \* asyncio.Queue of tasks to distribute
    draining,          \* {} or the one [task, conn] distribute_tasks awaits
    connected_clients, \* [IPs -> Conns \cup {NoConn}]
    handler,           \* [Conns -> state of the connection's handle_rpc]
    closing,           \* connections whose server-side writer.is_closing()
    received           \* [IPs -> tasks the host has ever read] (history)

serverVars == <<request, record, taskQueue, draining, connected_clients,
                handler, closing>>
vars == <<netVars, serverVars, received>>

RequestStates == {"none", "recorded", "queued"}
HandlerStates == {"none", "backlog", "reading", "ended"}
NotFinished == {"none", "running"}

TypeOK ==
    /\ NetTypeOK
    /\ request \in [Tasks -> RequestStates]
    /\ record \in [Tasks -> {"none"} \cup Statuses]
    /\ taskQueue \in Seq(Tasks)
    /\ draining \in SUBSET [task : Tasks, conn : Conns]
    /\ connected_clients \in [IPs -> Conns \cup {NoConn}]
    /\ handler \in [Conns -> HandlerStates]
    /\ closing \in SUBSET Conns
    /\ received \in [IPs -> SUBSET Tasks]

Init ==
    /\ NetInit
    /\ request = [t \in Tasks |-> "none"]
    /\ record = [t \in Tasks |-> "none"]
    /\ taskQueue = << >>
    /\ draining = {}
    /\ connected_clients = [ip \in IPs |-> NoConn]
    /\ handler = [c \in Conns |-> "none"]
    /\ closing = {}
    /\ received = [ip \in IPs |-> {}]

-----------------------------------------------------------------------------
(* The database, as the server uses it.                                    *)

SameId(t) == {u \in Tasks : TaskId[u] = TaskId[t]}

\* Mutant: a document that is found is not updated.
UpsertOnlyInserts(t, s) ==
    [record EXCEPT ![t] = IF \E u \in SameId(t) : record[u] # "none" THEN @ ELSE s]

\* async_upsert_by_key on task_id: overwrite every document that carries the
\* id, insert the task's own document when there is none.
Upsert(t, s) ==
    LET found == {u \in SameId(t) : record[u] # "none"}
        written == IF found = {} THEN {t} ELSE found
    IN  [u \in Tasks |-> IF u \in written THEN s ELSE record[u]]

\* update_task swallows what the database raises.
update_task(t, s) ==
    \/ record' = Upsert(t, s)
    \/ DbMayRaise /\ UNCHANGED record

-----------------------------------------------------------------------------
(* create_task, in a request's thread: first the document, then the queue.  *)

CreateRecord(t) ==
    /\ request[t] = "none"
    /\ request' = [request EXCEPT ![t] = "recorded"]
    /\ \/ record' = [record EXCEPT ![t] = "running"]
       \/ DbMayRaise /\ UNCHANGED record
    /\ UNCHANGED <<netVars, taskQueue, draining, connected_clients, handler,
                   closing, received>>

EnqueueTask(t) ==
    /\ request[t] = "recorded"
    /\ request' = [request EXCEPT ![t] = "queued"]
    /\ taskQueue' = Append(taskQueue, t)
    /\ UNCHANGED <<netVars, record, draining, connected_clients, handler,
                   closing, received>>

-----------------------------------------------------------------------------
(* handle_rpc                                                              *)

\* The listening socket hands out a host's connections in their order, and
\* handle_rpc registers each one, in place of any earlier one of that host.
FirstInBacklog(c) ==
    /\ handler[c] = "backlog"
    /\ \A d \in Conns : d[1] = c[1] /\ d[2] < c[2] => handler[d] # "backlog"

\* Mutant: the registry maps the host to its address, not to the connection.
AcceptRegistersAddress(c) ==
    /\ FirstInBacklog(c)
    /\ handler' = [handler EXCEPT ![c] = "reading"]
    /\ connected_clients' = [connected_clients EXCEPT ![c[1]] = c[1]]
    /\ UNCHANGED <<netVars, request, record, taskQueue, draining, closing,
                   received>>

Accept(c) ==
    /\ FirstInBacklog(c)
    /\ handler' = [handler EXCEPT ![c] = "reading"]
    /\ connected_clients' = [connected_clients EXCEPT ![c[1]] = c]
    /\ UNCHANGED <<netVars, request, record, taskQueue, draining, closing,
                   received>>

\* The peer reset the connection before it was accepted: peername is None and
\* handle_rpc raises on its first line.
AcceptFails(c) ==
    /\ FirstInBacklog(c)
    /\ link[c] = "broken"
    /\ handler' = [handler EXCEPT ![c] = "ended"]
    /\ closing' = closing \cup {c}
    /\ UNCHANGED <<netVars, request, record, taskQueue, draining,
                   connected_clients, received>>

\* Mutant: no finally clause.
EndHandlerKeepsEntry(c) ==
    /\ handler' = [handler EXCEPT ![c] = "ended"]
    /\ UNCHANGED connected_clients

\* The finally clause: whatever connection is registered for the host goes.
\* The writer is not closed.
EndHandler(c) ==
    /\ handler' = [handler EXCEPT ![c] = "ended"]
    /\ connected_clients' = [connected_clients EXCEPT ![c[1]] = NoConn]

\* readline() returns the next line of a transport that has not failed.
ReadsLine(c, type) ==
    /\ handler[c] = "reading"
    /\ c \notin closing
    /\ toServer[c] # << >>
    /\ Head(toServer[c]).type = type
    /\ toServer' = [toServer EXCEPT ![c] = Tail(@)]

HandleHeartbeat(c) ==
    /\ ReadsLine(c, "heartbeat")
    /\ IF connected_clients[c[1]] # NoConn
         THEN UNCHANGED <<handler, connected_clients>>
         ELSE EndHandler(c)   \* the KeyError of handle_heartbeat
    /\ UNCHANGED <<link, toClient, request, record, taskQueue, draining,
                   closing, received>>

HandleTaskResult(c) ==
    /\ ReadsLine(c, "task_result")
    /\ LET result == Head(toServer[c]) IN update_task(result.task, result.status)
    /\ UNCHANGED <<link, toClient, request, taskQueue, draining,
                   connected_clients, handler, closing, received>>

\* {"data": null} makes update_task raise after its try; the end of the stream
\* is not JSON.  `if reader.exception' tests a bound method, so both end the loop.
HandleBadLine(c) ==
    /\ ReadsLine(c, "null_result") \/ ReadsLine(c, "eof")
    /\ EndHandler(c)
    /\ UNCHANGED <<link, toClient, request, record, taskQueue, draining,
                   closing, received>>

\* The transport was lost: readline() raises, what was buffered is not read.
HandlerLosesReader(c) ==
    /\ handler[c] = "reading"
    /\ c \in closing
    /\ EndHandler(c)
    /\ toServer' = [toServer EXCEPT ![c] = << >>]
    /\ UNCHANGED <<link, toClient, request, record, taskQueue, draining,
                   closing, received>>

\* The loop's selector finds the socket reset.
ServerDetectsLoss(c) ==
    /\ link[c] = "broken"
    /\ handler[c] \in {"reading", "ended"}
    /\ c \notin closing
    /\ closing' = closing \cup {c}
    /\ UNCHANGED <<netVars, request, record, taskQueue, draining,
                   connected_clients, handler, received>>

-----------------------------------------------------------------------------
(* distribute_tasks: one round per task, suspended only in drain().         *)

\* Mutant: the connection is looked up for any host.
TakesTaskForAnyHost(t, c) ==
    /\ draining = {}
    /\ taskQueue # << >>
    /\ t = Head(taskQueue)
    /\ \E ip \in IPs : c = connected_clients[ip]

\* The round takes task t, whose host has connection c (or none) registered.
TakesTask(t, c) ==
    /\ draining = {}
    /\ taskQueue # << >>
    /\ t = Head(taskQueue)
    /\ c = connected_clients[ClientIp[t]]

\* Mutant: the branch without a connection only logs.
DispatchNoConnectionOnlyLogs ==
    /\ \E t \in Tasks : TakesTask(t, NoConn)
    /\ taskQueue' = Tail(taskQueue)
    /\ UNCHANGED <<netVars, request, record, draining, connected_clients, handler,
                   closing, received>>

\* No registered connection: the task's document gets status 'error'.
DispatchNoConnection ==
    /\ \E t \in Tasks :
         /\ TakesTask(t, NoConn)
         /\ update_task(t, "error")
    /\ taskQueue' = Tail(taskQueue)
    /\ UNCHANGED <<netVars, request, draining, connected_clients, handler,
                   closing, received>>

\* _safe_send does nothing when the writer is closing.
DispatchToClosing ==
    /\ \E t \in Tasks, c \in closing : TakesTask(t, c)
    /\ taskQueue' = Tail(taskQueue)
    /\ UNCHANGED <<netVars, request, record, draining, connected_clients,
                   handler, closing, received>>

\* Mutant: a task counts as done once it is written.
DispatchSendMarksDone ==
    /\ \E t \in Tasks, c \in Conns \ closing :
         /\ TakesTask(t, c)
         /\ ServerWrites(c, t)
         /\ update_task(t, "success")
    /\ draining' = {}
    /\ taskQueue' = Tail(taskQueue)
    /\ UNCHANGED <<request, connected_clients, handler, closing, received>>

\* write(), then drain(), which returns at once unless the buffer is too full.
DispatchSend ==
    /\ \E t \in Tasks, c \in Conns \ closing :
         /\ TakesTask(t, c)
         /\ ServerWrites(c, t)
         /\ draining' = IF Len(toClient'[c]) > HighWater
                          THEN {[task |-> t, conn |-> c]} ELSE {}
    /\ taskQueue' = Tail(taskQueue)
    /\ UNCHANGED <<request, record, connected_clients, handler, closing, received>>

\* Mutant: the task goes back although it was never taken off the queue.
DispatchSendFailsTwice ==
    /\ \E t \in Tasks, c \in Conns \ closing :
         /\ TakesTask(t, c)
         /\ link[c] = "broken"
         /\ closing' = closing \cup {c}
         /\ taskQueue' = Append(taskQueue, t)
    /\ UNCHANGED <<netVars, request, record, draining, connected_clients,
                   handler, received>>

\* Mutant: the failed write leaves the writer open for the next one.
DispatchSendFailsForever ==
    /\ \E t \in Tasks, c \in Conns \ closing :
         /\ TakesTask(t, c)
         /\ link[c] = "broken"
         /\ taskQueue' = Append(Tail(taskQueue), t)
    /\ UNCHANGED <<netVars, request, record, draining, connected_clients,
                   handler, closing, received>>

\* write() finds the connection reset; drain() raises; the task goes back.
DispatchSendFails ==
    /\ \E t \in Tasks, c \in Conns \ closing :
         /\ TakesTask(t, c)
         /\ link[c] = "broken"
         /\ closing' = closing \cup {c}
         /\ taskQueue' = Append(Tail(taskQueue), t)
    /\ UNCHANGED <<netVars, request, record, draining, connected_clients,
                   handler, received>>

\* The buffer emptied enough, or the transport was closed without an error.
DrainDone ==
    /\ \E d \in draining : d.conn \in closing \/ Len(toClient[d.conn]) <= HighWater
    /\ draining' = {}
    /\ UNCHANGED <<netVars, request, record, taskQueue, connected_clients,
                   handler, closing, received>>

\* 30 seconds passed or the transport was lost: the task goes back on the
\* queue although its line is already in the transport's buffer.
DrainFails ==
    /\ \E d \in draining :
         /\ d.conn \in closing \/ Len(toClient[d.conn]) \in (HighWater + 1)..(MaxBacklog - 1)
         /\ taskQueue' = Append(taskQueue, d.task)
    /\ draining' = {}
    /\ UNCHANGED <<netVars, request, record, connected_clients, handler,
                   closing, received>>

-----------------------------------------------------------------------------
(* The hosts and the network.                                               *)

ClientConnect(c) ==
    /\ Open(c)
    /\ handler' = [handler EXCEPT ![c] = "backlog"]
    /\ UNCHANGED <<request, record, taskQueue, draining, connected_clients,
                   closing, received>>

ClientRead(c) ==
    /\ toClient[c] # << >>
    /\ received' = [received EXCEPT ![c[1]] = @ \cup {Head(toClient[c])}]
    /\ toClient' = [toClient EXCEPT ![c] = Tail(@)]
    /\ UNCHANGED <<link, toServer, serverVars>>

\* A host reports only on tasks it has read, over any of its connections.
ClientReport(c) ==
    /\ \E t \in received[c[1]], s \in Statuses : ClientWrites(c, Result(t, s))
    /\ UNCHANGED <<serverVars, received>>

ClientReportNull(c) ==
    /\ received[c[1]] # {}
    /\ ClientWrites(c, NullResult)
    /\ UNCHANGED <<serverVars, received>>

ClientHeartbeat(c) ==
    /\ ClientWrites(c, Heartbeat)
    /\ UNCHANGED <<serverVars, received>>

ClientExit(c) ==
    /\ CloseByClient(c)
    /\ UNCHANGED <<serverVars, received>>

ConnectionBreaks(c) ==
    /\ Break(c)
    /\ UNCHANGED <<serverVars, received>>

-----------------------------------------------------------------------------
FlaskStep == \E t \in Tasks : CreateRecord(t) \/ EnqueueTask(t)

HandlerStep(c) ==
    \/ Accept(c) \/ AcceptFails(c)
    \/ HandleHeartbeat(c) \/ HandleTaskResult(c) \/ HandleBadLine(c)
    \/ HandlerLosesReader(c)

DistributorStep ==
    \/ DispatchNoConnection \/ DispatchToClosing
    \/ DispatchSend \/ DispatchSendFails
    \/ DrainDone \/ DrainFails

ClientStep(c) ==
    \/ ClientConnect(c) \/ ClientRead(c) \/ ClientReport(c)
    \/ ClientReportNull(c) \/ ClientHeartbeat(c) \/ ClientExit(c)

Next ==
    \/ FlaskStep
    \/ DistributorStep
    \/ \E c \in Conns :
         HandlerStep(c) \/ ServerDetectsLoss(c) \/ ClientStep(c) \/ ConnectionBreaks(c)

Spec == Init /\ [][Next]_vars

\* The request threads and the loop keep running; hosts read what they are
\* sent, but nothing makes them connect, report or stay.
Fairness ==
    /\ \A t \in Tasks : WF_vars(EnqueueTask(t))
    /\ WF_vars(DistributorStep)
    /\ \A c \in Conns : WF_vars(HandlerStep(c)) /\ WF_vars(ClientRead(c))

FairSpec == Spec /\ Fairness

-----------------------------------------------------------------------------
(* What the server promises.                                               *)

HandedOver(t) == request[t] = "queued"

Queued(t) == t \in Range(taskQueue)
InFlight(t) == \E c \in Conns : t \in Range(toClient[c])
Delivered(t) == t \in received[ClientIp[t]]

\* Whatever order connections are accepted, fail and end in, the connection
\* registered for a host belongs to that host, still has its handle_rpc reading
\* it, and is the newest such connection: distribute_tasks never writes to
\* a connection the server gave up or that one it still reads has replaced.
RegistryIsLive ==
    \A ip \in IPs : \A c \in Conns :
        connected_clients[ip] = c =>
            /\ c[1] = ip
            /\ handler[c] = "reading"
            /\ \A d \in Conns : d[1] = ip /\ d[2] > c[2] => handler[d] # "reading"

\* A host gets its own tasks only, and none before create_task has written the
\* task's document and queued it.
TasksReachTheirHost ==
    /\ \A c \in Conns : \A t \in Range(toClient[c]) :
         HandedOver(t) /\ ClientIp[t] = c[1]
    /\ \A ip \in IPs : \A t \in received[ip] : HandedOver(t) /\ ClientIp[t] = ip

\* A document says 'success' only if a host was given a task with that id:
\* no disconnect, requeue or error path makes up a success.
SuccessWasReported ==
    \A t \in Tasks : record[t] = "success" => \E u \in SameId(t) : Delivered(u)

\* As long as no drain() fails, a task is distributed at most once, so a host
\* never executes it twice and an 'error' for want of a connection never
\* contradicts a delivery, however often the task went back on the queue.
DistributedAtMostOnce ==
    \A t \in Tasks :
        /\ Queued(t) => ~InFlight(t) /\ ~Delivered(t)
        /\ InFlight(t) => ~Delivered(t)
        /\ \A i, j \in DOMAIN taskQueue : taskQueue[i] = t /\ taskQueue[j] = t => i = j

\* A task the operator created is queued, on its way, delivered or refused with
\* an error; otherwise a connection of its host broke.
LostOnlyWithAConnection ==
    \A t \in Tasks :
        HandedOver(t) /\ (\A c \in Conns : c[1] = ClientIp[t] => link[c] # "broken")
        => Queued(t) \/ InFlight(t) \/ Delivered(t) \/ record[t] # "running"

\* distribute_tasks gets to every task: reconnecting hosts, failing writes and
\* requeued tasks do not starve the ones behind them.
EveryTaskIsDistributed ==
    \A t \in Tasks : HandedOver(t) ~> ~Queued(t)

-----------------------------------------------------------------------------
(* What comments in the code say and the code does not do.                  *)

\* client_connect.py:157, "if the host is disconnected, directly return an
\* execution error": the error is for hosts that have no connection.
ErrorOnlyForDisconnectedHost ==
    [][DispatchNoConnection =>
         ~\E c \in Conns : /\ c[1] = ClientIp[Head(taskQueue)]
                           /\ handler[c] = "reading"
                           /\ link[c] = "open"]_vars
=============================================================================
