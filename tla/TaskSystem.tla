----------------------------- MODULE TaskSystem -----------------------------
(***************************************************************************)
(* The command server and the client of one host together, over the same   *)
(* connections: the life of a task from create_task to the status the      *)
(* client's answer gives its document.                                     *)
(*                                                                         *)
(* The server's part is ClientConnectServer without its open environment;  *)
(* the client's part is Client without its own.  A connection the client   *)
(* opens enters the server's accept backlog.  That the composition is a    *)
(* behaviour of ClientConnectServer (property ServerSpec) means the        *)
(* environment assumed there covers the real client, and that it is one of *)
(* Client (ClientSpec) that the server assumed there covers the real one.  *)
(***************************************************************************)
EXTENDS ClientConnectServer

CONSTANTS Host, MAX_RETRIES, ClientHighWater, Outcomes,
          ConnectionsMayBreak  \* BOOLEAN: may the network lose a connection?

ASSUME SystemAssumption ==
    /\ Host \in IPs
    /\ MAX_RETRIES \in Nat
    /\ ClientHighWater \in Nat
    /\ Outcomes \subseteq Statuses \cup {"null"}

ServerMayEnd == FALSE  \* client_connect.py never closes a connection

VARIABLES pc, is_reconnecting, retries, conn, readingFrom, failed, ended, clientQueue,
          executing, taskResultQueue, sending, drainingOn, spinning, exited

C == INSTANCE Client WITH taskQueue <- clientQueue

hostVars == <<pc, is_reconnecting, retries, conn, readingFrom, failed, ended,
              clientQueue, executing, taskResultQueue, sending, drainingOn,
              spinning, exited>>
allVars == <<vars, hostVars>>

SystemInit == Init /\ C!ClientInit

\* The server's side of a step of the client.
HostSide ==
    /\ handler' = [c \in Conns |-> IF link[c] = "unused" /\ link'[c] = "open"
                                     THEN "backlog" ELSE handler[c]]
    /\ UNCHANGED <<request, record, taskQueue, draining, connected_clients, closing>>

ClientActs == C!ClientNext /\ HostSide

ServerActs ==
    /\ \/ FlaskStep
       \/ DistributorStep
       \/ \E c \in Conns : HandlerStep(c) \/ ServerDetectsLoss(c)
    /\ UNCHANGED hostVars

NetworkActs ==
    /\ ConnectionsMayBreak
    /\ \E c \in Conns : ConnectionBreaks(c)
    /\ UNCHANGED hostVars

SystemNext == ServerActs \/ ClientActs \/ NetworkActs

SystemSpec == SystemInit /\ [][SystemNext]_allVars

\* The loops of the server and the client and the requests' threads keep running.
SystemFairness ==
    /\ \A t \in Tasks : WF_allVars(EnqueueTask(t) /\ UNCHANGED hostVars)
    /\ WF_allVars(DistributorStep /\ UNCHANGED hostVars)
    /\ \A c \in Conns : WF_allVars(HandlerStep(c) /\ UNCHANGED hostVars)
    /\ WF_allVars((\E p \in C!Coroutines : C!Connector(p)) /\ HostSide)
    /\ WF_allVars(C!Receiver /\ HostSide)
    /\ WF_allVars(C!Processor /\ HostSide)
    /\ WF_allVars(C!Sender /\ HostSide)

FairSystem == SystemSpec /\ SystemFairness

-----------------------------------------------------------------------------
\* The composed system does what the server's specification allows.
ServerSpec == Spec

\* ... and what the client's allows: the server sends a task once and reads, drops
\* and loses lines as Client has it, as long as no drain() of the server fails
\* (which makes it send a task again).
ClientSpec == C!Spec

Broken == \E c \in Conns : link[c] = "broken"

\* While no connection breaks, a delivered task is never lost on the way back:
\* the client has it or its result, the result is on a connection, or the
\* task's document has it.
DeliveredTaskIsAnswered ==
    \A t \in Tasks :
        t \in received[Host] /\ ~Broken
        => C!InHand(t) \/ C!OnTheWire(t) \/ record[t] # "running"

\* As long as no drain() fails, a task is in one place from create_task to its
\* answer: whatever breaks, reconnects and is requeued at one end, the server does
\* not hand out again what the client still has or answers, and the client does not
\* keep what it has answered.
TaskIsInOnePlace ==
    \A t \in Tasks :
        /\ Queued(t) \/ InFlight(t) => ~C!InHand(t) /\ ~C!OnTheWire(t)
        /\ drainingOn["send"] = NoConn /\ C!InHand(t) => ~C!OnTheWire(t)

\* Until a connection breaks, every task that is created is finished: executed
\* and answered, or refused because its host has no connection.
EveryTaskFinishes ==
    \A t \in Tasks :
        request[t] = "queued" ~> (record[t] \in {"success", "error"} \/ Broken)
=============================================================================
