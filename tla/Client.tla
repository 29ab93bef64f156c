------------------------------- MODULE Client -------------------------------
(***************************************************************************)
(* The client a host runs, client/conn.py, class Client, together with a   *)
(* server that sends it tasks, reads its lines and goes away as it pleases.*)
(*                                                                         *)
(* The client is one asyncio loop.  run() connects and then starts four    *)
(* coroutines: receive_messages, process_tasks, send_results and           *)
(* send_heartbeat.  pc says which await each of them is suspended in; an   *)
(* action is the code from one such await to the next.  connect_to_server  *)
(* may run inside any of run, receive, send and heartbeat; is_reconnecting *)
(* makes the others return from it at once.                                *)
(*                                                                         *)
(* Sleeps have no length: a sleeping coroutine may go on at any time.      *)
(***************************************************************************)
EXTENDS Connections, FiniteSets

CONSTANTS
    Host,            \* the address of this client
    MAX_RETRIES,     \* connect_to_server tries once more than this
    ClientHighWater, \* lines the transport buffers before drain() has to wait
    Outcomes,        \* what execute_task may do with a task
    ServerMayEnd,    \* BOOLEAN: may the server close a connection in order?
    NoConn           \* no connection yet

ASSUME ClientAssumption ==
    /\ Host \in IPs
    /\ MAX_RETRIES \in Nat
    /\ ClientHighWater \in Nat
    /\ Outcomes \subseteq Statuses \cup {"null"}
    /\ ServerMayEnd \in BOOLEAN
    /\ NoConn \notin Conns

VARIABLES
    pc,              \* [Coroutines -> the await the coroutine is suspended in]
    is_reconnecting, \* the client's flag
    retries,         \* the local of the connect_to_server that is running
    conn,            \* self.reader and self.writer
    readingFrom,     \* the connection receive_messages awaits a line of
    failed,          \* connections the client's transport knows to be lost
    ended,           \* connections the server closed in order
    taskQueue,       \* asyncio.Queue of received tasks
    executing,       \* {} or the task process_tasks executes
    taskResultQueue, \* asyncio.Queue of result lines
    sending,         \* {} or the result send_results waits to drain
    drainingOn,      \* the connection a coroutine waits to drain
    spinning,        \* receive_messages loops without ever suspending
    exited,          \* the process has ended
    received         \* [IPs -> tasks the host has ever read] (history)

\* The variables by what they are about, for the frames of the actions.
lock == <<is_reconnecting, retries>>
ends == <<conn, readingFrom>>
queueVars == <<taskQueue, executing, taskResultQueue>>
drainVars == <<sending, drainingOn>>
halted == <<spinning, exited>>
world == <<netVars, ended, received>>

clientVars == <<pc, lock, ends, failed, queueVars, drainVars, halted>>
vars == <<world, clientVars>>

Coroutines == {"run", "receive", "process", "send", "heartbeat"}
HostConns == {c \in Conns : c[1] = Host}

\* Where a coroutine goes on when its connect_to_server returns.
Home == [p \in Coroutines |->
           CASE p = "run" -> "gather" [] p = "receive" -> "read"
             [] p = "process" -> "get" [] p = "send" -> "get"
             [] p = "heartbeat" -> "sleep"]
PcStates == {"off", "connect", "retry", "gather", "read", "pause", "get",
             "execute", "drain", "sleep"}
ResultLines == {NullResult} \cup Results

TypeOK ==
    /\ NetTypeOK
    /\ pc \in [Coroutines -> PcStates]
    /\ is_reconnecting \in BOOLEAN
    /\ retries \in 0..(MAX_RETRIES + 1)
    /\ conn \in HostConns \cup {NoConn}
    /\ readingFrom \in HostConns \cup {NoConn}
    /\ failed \in SUBSET HostConns
    /\ ended \in SUBSET HostConns
    /\ taskQueue \in Seq(Tasks)
    /\ executing \in SUBSET Tasks
    /\ taskResultQueue \in Seq(ResultLines)
    /\ sending \in SUBSET ResultLines
    /\ drainingOn \in [{"send", "heartbeat"} -> HostConns \cup {NoConn}]
    /\ spinning \in BOOLEAN
    /\ exited \in BOOLEAN
    /\ received \in [IPs -> SUBSET Tasks]

\* run() has called connect_to_server.
ClientInit ==
    /\ pc = [p \in Coroutines |-> IF p = "run" THEN "connect" ELSE "off"]
    /\ is_reconnecting = TRUE
    /\ retries = 0
    /\ conn = NoConn
    /\ readingFrom = NoConn
    /\ failed = {}
    /\ ended = {}
    /\ taskQueue = << >>
    /\ executing = {}
    /\ taskResultQueue = << >>
    /\ sending = {}
    /\ drainingOn = [p \in {"send", "heartbeat"} |-> NoConn]
    /\ spinning = FALSE
    /\ exited = FALSE
    /\ received = [ip \in IPs |-> {}]

Init == NetInit /\ ClientInit

\* The loop runs: nobody hogs it and the process is alive.
LoopRuns == ~spinning /\ ~exited

-----------------------------------------------------------------------------
(* connect_to_server                                                       *)

\* Mutant: the flag is not tested.
CallConnectUnlocked(p) ==
    /\ pc' = [pc EXCEPT ![p] = "connect"]
    /\ retries' = 0
    /\ is_reconnecting' = TRUE
    /\ UNCHANGED readingFrom

\* Coroutine p calls it: it returns at once when another call is under way.
CallConnect(p) ==
    /\ pc' = [pc EXCEPT ![p] = IF is_reconnecting THEN Home[p] ELSE "connect"]
    /\ retries' = IF is_reconnecting THEN retries ELSE 0
    /\ is_reconnecting' = TRUE
    /\ readingFrom' = IF p = "receive" /\ is_reconnecting THEN conn ELSE readingFrom

\* Mutant: the flag is set for good.
ConnectsLocked(p) ==
    /\ LoopRuns
    /\ pc[p] = "connect"
    /\ \E c \in HostConns :
         /\ Open(c)
         /\ conn' = c
         /\ readingFrom' = IF p \in {"run", "receive"} THEN c ELSE readingFrom
    /\ pc' = IF p = "run" THEN Home ELSE [pc EXCEPT ![p] = Home[p]]
    /\ UNCHANGED <<lock, queueVars, drainVars, halted, failed, ended, received>>

\* open_connection succeeds: reader and writer are replaced, the old ones are
\* not closed.  In run() this starts the other four coroutines.
Connects(p) ==
    /\ LoopRuns
    /\ pc[p] = "connect"
    /\ \E c \in HostConns :
         /\ Open(c)
         /\ conn' = c
         /\ readingFrom' = IF p \in {"run", "receive"} THEN c ELSE readingFrom
    /\ is_reconnecting' = FALSE
    /\ pc' = IF p = "run" THEN Home ELSE [pc EXCEPT ![p] = Home[p]]
    /\ UNCHANGED <<queueVars, drainVars, halted, retries, failed, ended, received>>

ConnectFails(p) ==
    /\ LoopRuns
    /\ pc[p] = "connect"
    /\ pc' = [pc EXCEPT ![p] = "retry"]
    /\ retries' = retries + 1
    /\ UNCHANGED <<world, ends, queueVars, drainVars, halted, is_reconnecting, failed>>

\* RETRY_DELAY is over.
RetryConnect(p) ==
    /\ LoopRuns
    /\ pc[p] = "retry"
    /\ retries <= MAX_RETRIES
    /\ pc' = [pc EXCEPT ![p] = "connect"]
    /\ UNCHANGED <<world, lock, ends, queueVars, drainVars, halted, failed>>

\* The last attempt failed: the exception leaves the coroutine, gather() and
\* run(), and the process ends.
GiveUp(p) ==
    /\ LoopRuns
    /\ pc[p] = "retry"
    /\ retries > MAX_RETRIES
    /\ exited' = TRUE
    /\ UNCHANGED <<world, lock, ends, queueVars, drainVars, pc, failed, spinning>>

\* The kernel closes what the process had open.
CloseOnExit(c) ==
    /\ exited
    /\ CloseByClient(c)
    /\ UNCHANGED <<clientVars, ended, received>>

-----------------------------------------------------------------------------
(* receive_messages.  self.reader is looked up anew for each line.          *)

\* Mutant: the line that was read stays in the stream's buffer.
ReceiveTaskPeeks ==
    /\ LoopRuns
    /\ pc["receive"] = "read"
    /\ readingFrom \notin failed
    /\ toClient[readingFrom] # << >>
    /\ LET t == Head(toClient[readingFrom]) IN
         /\ taskQueue' = Append(taskQueue, t)
         /\ received' = [received EXCEPT ![Host] = @ \cup {t}]
    /\ readingFrom' = conn
    /\ UNCHANGED <<netVars, lock, drainVars, halted, pc, conn, failed, ended, executing,
                   taskResultQueue>>

ReceiveTask ==
    /\ LoopRuns
    /\ pc["receive"] = "read"
    /\ readingFrom \notin failed
    /\ toClient[readingFrom] # << >>
    /\ LET t == Head(toClient[readingFrom]) IN
         /\ taskQueue' = Append(taskQueue, t)
         /\ received' = [received EXCEPT ![Host] = @ \cup {t}]
    /\ toClient' = [toClient EXCEPT ![readingFrom] = Tail(@)]
    /\ readingFrom' = conn
    /\ UNCHANGED <<lock, drainVars, halted, link, toServer, pc, conn, failed, ended,
                   executing, taskResultQueue>>

\* readline() raises; the handler sleeps.
ReceiveFails ==
    /\ LoopRuns
    /\ pc["receive"] = "read"
    /\ readingFrom \in failed
    /\ pc' = [pc EXCEPT !["receive"] = "pause"]
    /\ UNCHANGED <<world, lock, ends, queueVars, drainVars, halted, failed>>

ReceiveReconnects ==
    /\ LoopRuns
    /\ pc["receive"] = "pause"
    /\ CallConnect("receive")
    /\ UNCHANGED <<world, queueVars, drainVars, halted, conn, failed>>

\* At the end of the stream readline() returns b'' at once, every time: the
\* inner handler logs the JSON error and the loop never suspends again.
ReceiveEof ==
    /\ LoopRuns
    /\ pc["receive"] = "read"
    /\ readingFrom \in ended \ failed
    /\ toClient[readingFrom] = << >>
    /\ IF conn = readingFrom
         THEN spinning' = TRUE /\ UNCHANGED readingFrom
         ELSE readingFrom' = conn /\ UNCHANGED spinning
    /\ UNCHANGED <<world, lock, queueVars, drainVars, pc, conn, failed, exited>>

-----------------------------------------------------------------------------
(* process_tasks                                                           *)

TakeTask ==
    /\ LoopRuns
    /\ pc["process"] = "get"
    /\ taskQueue # << >>
    /\ executing' = {Head(taskQueue)}
    /\ taskQueue' = Tail(taskQueue)
    /\ pc' = [pc EXCEPT !["process"] = "execute"]
    /\ UNCHANGED <<world, lock, ends, drainVars, halted, failed, taskResultQueue>>

\* Mutant: the task goes on the queue without {"type": "task_result"} around it.
FinishTaskBare ==
    /\ LoopRuns
    /\ pc["process"] = "execute"
    /\ \E t \in executing : taskResultQueue' = Append(taskResultQueue, t)
    /\ executing' = {}
    /\ pc' = [pc EXCEPT !["process"] = "get"]
    /\ UNCHANGED <<world, lock, ends, drainVars, halted, failed, taskQueue>>

\* Mutant: a task that raised is only logged.
FinishTaskLosesErrors ==
    /\ LoopRuns
    /\ pc["process"] = "execute"
    /\ \E t \in executing, o \in Outcomes :
         taskResultQueue' = IF o = "error" THEN taskResultQueue
                              ELSE Append(taskResultQueue, Result(t, o))
    /\ executing' = {}
    /\ pc' = [pc EXCEPT !["process"] = "get"]
    /\ UNCHANGED <<world, lock, ends, drainVars, halted, failed, taskQueue>>

\* execute_task returned the task with its status, or None for a name it does
\* not know, or raised, which process_tasks turns into 'error'.
FinishTaskWith(outcome) ==
    /\ LoopRuns
    /\ pc["process"] = "execute"
    /\ \E t \in executing :
         taskResultQueue' = Append(taskResultQueue,
                                   IF outcome = "null" THEN NullResult ELSE Result(t, outcome))
    /\ executing' = {}
    /\ pc' = [pc EXCEPT !["process"] = "get"]
    /\ UNCHANGED <<world, lock, ends, drainVars, halted, failed, taskQueue>>

FinishTask == \E o \in Outcomes : FinishTaskWith(o)

-----------------------------------------------------------------------------
(* send_results                                                            *)

HasResult == LoopRuns /\ pc["send"] = "get" /\ taskResultQueue # << >>

\* _safe_send does nothing when the writer is closing.
SendDrops ==
    /\ HasResult
    /\ conn \in failed
    /\ taskResultQueue' = Tail(taskResultQueue)
    /\ UNCHANGED <<world, lock, ends, drainVars, halted, pc, failed, taskQueue, executing>>

\* write(), then drain(), which returns at once unless the buffer is too full.
SendWrites ==
    /\ HasResult
    /\ conn \notin failed
    /\ ClientWrites(conn, Head(taskResultQueue))
    /\ taskResultQueue' = Tail(taskResultQueue)
    /\ IF Len(toServer'[conn]) > ClientHighWater
         THEN /\ pc' = [pc EXCEPT !["send"] = "drain"]
              /\ sending' = {Head(taskResultQueue)}
              /\ drainingOn' = [drainingOn EXCEPT !["send"] = conn]
         ELSE UNCHANGED <<drainVars, pc>>
    /\ UNCHANGED <<lock, ends, halted, failed, ended, taskQueue, executing, received>>

\* Mutant: the result goes back although it was never taken off the queue.
SendFailsTwice ==
    /\ HasResult
    /\ conn \notin failed
    /\ link[conn] = "broken"
    /\ failed' = failed \cup {conn}
    /\ taskResultQueue' = Append(taskResultQueue, Head(taskResultQueue))
    /\ pc' = [pc EXCEPT !["send"] = "pause"]
    /\ UNCHANGED <<world, lock, ends, drainVars, halted, taskQueue, executing>>

\* write() finds the connection reset; the result goes back on the queue.
SendFails ==
    /\ HasResult
    /\ conn \notin failed
    /\ link[conn] = "broken"
    /\ failed' = failed \cup {conn}
    /\ taskResultQueue' = Append(Tail(taskResultQueue), Head(taskResultQueue))
    /\ pc' = [pc EXCEPT !["send"] = "pause"]
    /\ UNCHANGED <<world, lock, ends, drainVars, halted, taskQueue, executing>>

\* drain() of p may return: the buffer emptied, or the transport was closed.
Drained(p) ==
    /\ LoopRuns
    /\ pc[p] = "drain"
    /\ \/ drainingOn[p] \in failed
       \/ Len(toServer[drainingOn[p]]) <= ClientHighWater

\* drain() of p may raise: the transport was lost, or 600 seconds are over.
DrainRaises(p) ==
    /\ LoopRuns
    /\ pc[p] = "drain"
    /\ \/ drainingOn[p] \in failed
       \/ Len(toServer[drainingOn[p]]) > ClientHighWater

SendDrained ==
    /\ Drained("send")
    /\ pc' = [pc EXCEPT !["send"] = "get"]
    /\ sending' = {}
    /\ UNCHANGED <<world, lock, ends, queueVars, halted, failed, drainingOn>>

\* Mutant: reconnects at once, without the flag.
SendDrainFailsConnects ==
    /\ DrainRaises("send")
    /\ pc' = [pc EXCEPT !["send"] = "connect"]
    /\ \E r \in sending : taskResultQueue' = Append(taskResultQueue, r)
    /\ sending' = {}
    /\ UNCHANGED <<world, lock, ends, halted, failed, taskQueue, executing, drainingOn>>

SendDrainFails ==
    /\ DrainRaises("send")
    /\ pc' = [pc EXCEPT !["send"] = "pause"]
    /\ \E r \in sending : taskResultQueue' = Append(taskResultQueue, r)
    /\ sending' = {}
    /\ UNCHANGED <<world, lock, ends, halted, failed, taskQueue, executing, drainingOn>>

\* Mutant: the coroutine returns after a failed send.
SendReconnectsAndReturns ==
    /\ LoopRuns
    /\ pc["send"] = "pause"
    /\ pc' = [pc EXCEPT !["send"] = "off"]
    /\ UNCHANGED <<world, lock, ends, queueVars, drainVars, halted, failed>>

\* The sleep is over: reconnect, whatever happened to the connection meanwhile.
SendReconnects ==
    /\ LoopRuns
    /\ pc["send"] = "pause"
    /\ CallConnect("send")
    /\ UNCHANGED <<world, queueVars, drainVars, halted, conn, failed>>

-----------------------------------------------------------------------------
(* send_heartbeat.  A heartbeat over a lost writer is not sent at all.      *)

\* Bound: a heartbeat behind other lines is left out.
HeartbeatWrites ==
    /\ LoopRuns
    /\ pc["heartbeat"] = "sleep"
    /\ conn \notin failed
    /\ toServer[conn] = << >>
    /\ ClientWrites(conn, Heartbeat)
    /\ UNCHANGED <<clientVars, ended, received>>

\* A heartbeat behind a full buffer waits with it.
HeartbeatDrains ==
    /\ LoopRuns
    /\ pc["heartbeat"] = "sleep"
    /\ conn \notin failed
    /\ Len(toServer[conn]) > ClientHighWater
    /\ pc' = [pc EXCEPT !["heartbeat"] = "drain"]
    /\ drainingOn' = [drainingOn EXCEPT !["heartbeat"] = conn]
    /\ UNCHANGED <<world, lock, ends, queueVars, halted, failed, sending>>

HeartbeatDrained ==
    /\ Drained("heartbeat")
    /\ pc' = [pc EXCEPT !["heartbeat"] = "sleep"]
    /\ UNCHANGED <<world, lock, ends, queueVars, drainVars, halted, failed>>

HeartbeatDrainFails ==
    /\ DrainRaises("heartbeat")
    /\ CallConnect("heartbeat")
    /\ UNCHANGED <<world, queueVars, drainVars, halted, conn, failed>>

\* write() finds the connection reset: reconnect at once.
HeartbeatFails ==
    /\ LoopRuns
    /\ pc["heartbeat"] = "sleep"
    /\ conn \notin failed
    /\ link[conn] = "broken"
    /\ failed' = failed \cup {conn}
    /\ CallConnect("heartbeat")
    /\ UNCHANGED <<world, queueVars, drainVars, halted, conn>>

-----------------------------------------------------------------------------
\* The loop's selector finds the socket of a connection reset.
ClientDetectsLoss(c) ==
    /\ LoopRuns
    /\ link[c] = "broken"
    /\ c \notin failed
    /\ failed' = failed \cup {c}
    /\ UNCHANGED <<world, lock, ends, queueVars, drainVars, halted, pc>>

Connector(p) == Connects(p) \/ ConnectFails(p) \/ RetryConnect(p) \/ GiveUp(p)
Receiver == ReceiveTask \/ ReceiveFails \/ ReceiveReconnects \/ ReceiveEof
Processor == TakeTask \/ FinishTask
Sender == \/ SendDrops \/ SendWrites \/ SendFails
          \/ SendDrained \/ SendDrainFails \/ SendReconnects
Heart == \/ HeartbeatWrites \/ HeartbeatDrains \/ HeartbeatDrained
         \/ HeartbeatDrainFails \/ HeartbeatFails

OtherSteps ==
    \/ \E p \in Coroutines : Connector(p)
    \/ Receiver \/ Sender \/ Heart
    \/ \E c \in HostConns : CloseOnExit(c) \/ ClientDetectsLoss(c)

ClientNext == OtherSteps \/ Processor

\* The coroutines that can go on do, and attempts to connect come to an end.
ClientFairness ==
    /\ \A p \in Coroutines : WF_vars(Connector(p))
    /\ WF_vars(Receiver) /\ WF_vars(Processor)
    /\ WF_vars(Sender) /\ WF_vars(HeartbeatDrained \/ HeartbeatDrainFails)

-----------------------------------------------------------------------------
(* The server and the network.                                             *)

Unsent(t) == t \notin received[Host] /\ \A c \in Conns : t \notin Range(toClient[c])

\* Each task is sent once, unless it was lost.
ServerSends(c) ==
    /\ link[c] = "open" /\ c \notin ended
    /\ \E t \in Tasks : Unsent(t) /\ ServerWrites(c, t)
    /\ UNCHANGED <<clientVars, ended, received>>

ServerReads(c) ==
    /\ toServer[c] # << >>
    /\ toServer' = [toServer EXCEPT ![c] = Tail(@)]
    /\ UNCHANGED <<clientVars, link, toClient, ended, received>>

\* The server gives up a lost connection with what it has not read of it.
ServerDrops(c) ==
    /\ link[c] = "broken"
    /\ toServer[c] # << >>
    /\ toServer' = [toServer EXCEPT ![c] = << >>]
    /\ UNCHANGED <<clientVars, link, toClient, ended, received>>

ServerEnds(c) ==
    /\ ServerMayEnd
    /\ link[c] = "open" /\ c \notin ended
    /\ ended' = ended \cup {c}
    /\ UNCHANGED <<netVars, clientVars, received>>

ConnectionBreaks(c) ==
    /\ Break(c)
    /\ UNCHANGED <<clientVars, ended, received>>

WorldStep(c) ==
    \/ ServerSends(c) \/ ServerReads(c) \/ ServerDrops(c) \/ ServerEnds(c)
    \/ ConnectionBreaks(c)

WorldNext == \E c \in HostConns : WorldStep(c)

Next == ClientNext \/ WorldNext

Spec == Init /\ [][Next]_vars
FairSpec == Spec /\ ClientFairness

\* ... in a network that reports every reset, also of a connection without traffic.
ReportingSpec == FairSpec /\ \A c \in HostConns : WF_vars(ClientDetectsLoss(c))

-----------------------------------------------------------------------------
(* What the client promises.                                               *)

Connecting == {p \in Coroutines : pc[p] \in {"connect", "retry"}}

\* is_reconnecting really is a lock: it is set exactly while one coroutine is in
\* connect_to_server, and no two are, however their failures interleave.  (It
\* stays set once the retries are used up, when the process ends.)
OneConnector ==
    /\ is_reconnecting <=> Connecting # {}
    /\ \A p, q \in Connecting : p = q

\* Tasks whose result the client still owes, by where it has them.
InHand(t) ==
    \/ t \in Range(taskQueue) \/ t \in executing
    \/ \E r \in Range(taskResultQueue) : r # NullResult /\ r.task = t
OnTheWire(t) == \E c \in HostConns : \E r \in Range(toServer[c]) :
                    r.type = "task_result" /\ r.task = t

\* Until send_results first has to wait for a drain() - one that fails makes it send
\* again what is written - the client answers a task at most once: no interleaving
\* of failed sends and reconnections leaves a result both on the queue and on a
\* connection.
AnsweredAtMostOnce ==
    drainingOn["send"] = NoConn => \A t \in Tasks :
        /\ InHand(t) => ~OnTheWire(t)
        /\ t \in Range(taskQueue) \cup executing =>
             ~\E r \in Range(taskResultQueue) : r # NullResult /\ r.task = t
        /\ \A i, j \in DOMAIN taskResultQueue :
             taskResultQueue[i] = taskResultQueue[j] /\ taskResultQueue[i] # NullResult
             => i = j

\* A client that has not been given a task yet replaces a connection it knows to
\* be lost, or gives up and exits: with three coroutines that call
\* connect_to_server, their early returns, errors and sleeps never leave a lost
\* connection to nobody.  With results to send they do: see below.
IdleClientReconnects ==
    conn \in failed ~> (conn \notin failed \/ exited \/ received[Host] # {})

\* Every result gets to a writer, unless the loop spins or the process ends:
\* neither reconnections nor a server that reads slowly leave send_results stuck.
ResultsLeaveTheQueue ==
    \A t \in Tasks : t \in received[Host] ~> (~InHand(t) \/ exited \/ spinning)

-----------------------------------------------------------------------------
(* What the code's comments say and the code does not do.                   *)

\* conn.py:152 says that run() is the main logic "with connection retry logic":
\* a connection known to be lost is replaced, unless the client gives up.  But
\* send_results reconnects after its sleep even if another coroutine already
\* has, while receive_messages waits for a line of the connection before.
LostConnectionIsReplaced == conn \in failed ~> (conn \notin failed \/ exited)
=============================================================================
