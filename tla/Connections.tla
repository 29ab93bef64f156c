---------------------------- MODULE Connections ----------------------------
(***************************************************************************)
(* The TCP connections between the command server (client_connect.py,      *)
(* class ClientConnectServer) and the host clients (conn.py, class Client).*)
(*                                                                         *)
(* A connection is a pair <<ip, n>>: the n-th connection the client at     *)
(* address ip opens.  The two directions are FIFO channels of JSON lines.  *)
(* The server sends only tasks, so a line for the client is a task; the    *)
(* client sends heartbeats and task results.  TCP never reorders or        *)
(* duplicates; when a connection breaks, any suffix of what is in flight   *)
(* is lost.                                                                *)
(***************************************************************************)
EXTENDS Naturals, Sequences, Functions

CONSTANTS
    IPs,        \* addresses of the emulated hosts that run a client
    Tasks,      \* the tasks the operator may create
    MaxConns,   \* bound: connections one client opens in a behaviour
    MaxInFlight \* bound: lines in flight from a client on one connection

ASSUME ConnectionsAssumption == /\ MaxConns \in Nat
                                /\ MaxInFlight \in Nat

Conns == IPs \X (1..MaxConns)

\* task_data['status'] of a result: the client's TaskController sets 'success',
\* its process_tasks sets 'error', and a handler that returns its argument
\* untouched leaves the 'running' that create_task wrote.
Statuses == {"running", "success", "error"}

\* The lines a client writes: {"type": "heartbeat"}, {"type": "task_result",
\* "data": <task>}, and the same with "data": null (execute_task returned
\* None); Eof stands for the end of the stream.
Heartbeat == [type |-> "heartbeat"]
NullResult == [type |-> "null_result"]
Eof == [type |-> "eof"]
Result(t, s) == [type |-> "task_result", task |-> t, status |-> s]
Results == [type : {"task_result"}, task : Tasks, status : Statuses]
ClientLines == {Heartbeat, NullResult, Eof} \cup Results

VARIABLES
    link,     \* [Conns -> state of the connection itself]
    toServer, \* [Conns -> lines on their way to the server]
    toClient  \* [Conns -> tasks on their way to the client]

netVars == <<link, toServer, toClient>>

LinkStates == {"unused", "open", "broken"}

NetTypeOK ==
    /\ link \in [Conns -> LinkStates]
    /\ toServer \in [Conns -> Seq(ClientLines)]
    /\ toClient \in [Conns -> Seq(Tasks)]

NetInit ==
    /\ link = [c \in Conns |-> "unused"]
    /\ toServer = [c \in Conns |-> << >>]
    /\ toClient = [c \in Conns |-> << >>]

\* A client's connections are numbered in the order it opens them.
NextOfItsHost(c) ==
    /\ link[c] = "unused"
    /\ \A d \in Conns : d[1] = c[1] /\ d[2] < c[2] => link[d] # "unused"

\* The TCP handshake of a new connection.
Open(c) ==
    /\ NextOfItsHost(c)
    /\ link' = [link EXCEPT ![c] = "open"]
    /\ UNCHANGED <<toServer, toClient>>

\* A line the client writes: it is lost when the peer is already gone.
ClientWrites(c, line) ==
    /\ IF link[c] = "open"
         THEN /\ Len(toServer[c]) < MaxInFlight
              /\ toServer' = [toServer EXCEPT ![c] = Append(@, line)]
         ELSE UNCHANGED toServer
    /\ UNCHANGED <<link, toClient>>

\* A task the server writes.
ServerWrites(c, t) ==
    /\ toClient' = IF link[c] = "open"
                     THEN [toClient EXCEPT ![c] = Append(@, t)]
                     ELSE toClient
    /\ UNCHANGED <<link, toServer>>

\* The client's process ends: its kernel sends FIN after the written lines,
\* and drops what it has not read.
CloseByClient(c) ==
    /\ link[c] = "open"
    /\ link' = [link EXCEPT ![c] = "broken"]
    /\ toServer' = [toServer EXCEPT ![c] = Append(@, Eof)]
    /\ toClient' = [toClient EXCEPT ![c] = << >>]

\* The connection is reset; each direction keeps a prefix of what was in flight.
Break(c) ==
    /\ link[c] = "open"
    /\ link' = [link EXCEPT ![c] = "broken"]
    /\ \E k \in 0..Len(toServer[c]), m \in 0..Len(toClient[c]) :
         /\ toServer' = [toServer EXCEPT ![c] = SubSeq(@, 1, k)]
         /\ toClient' = [toClient EXCEPT ![c] = SubSeq(@, 1, m)]
=============================================================================
