---------------------------- MODULE HostServices ----------------------------
(***************************************************************************)
(* What a host's client does for a task: client/controller/                *)
(* task_controller.py, execute_task, with the scan of another host         *)
(* (attacker/signal/scan.py), the start of an attack (attacker/action/     *)
(* ddos_attack.py) and the servers that answer late (defender/signal/      *)
(* server_c.py, class HostServer).                                         *)
(*                                                                         *)
(* All of it runs in the client's loop: the probes of a scan and the       *)
(* requests to the late servers are coroutines beside process_tasks, which *)
(* waits for execute_task before it takes the next task.                   *)
(*                                                                         *)
(* Delays have no length; of a result only its status is kept.             *)
(***************************************************************************)
EXTENDS Naturals

CONSTANTS
    Tasks,      \* the host may get
    Ports,      \* start_scan probes, and host_deception may name
    TakenPorts, \* ports that another program of this host listens on
    Visitors    \* connections other hosts make to the late servers

VARIABLES
    job,             \* [Tasks -> what the task asks for]
    probe,           \* [Ports -> how far scan_and_test_connection has come;
                     \*  "mute" is connected to something that will not answer]
    listening,       \* ports the client's own servers listen on
    socketServerMap, \* ports the HostServer knows to have a server
    visit            \* [Visitors -> how far handle_client has come]

serviceVars == <<job, probe, listening, socketServerMap, visit>>

\* "none" is a name or player that execute_task does not know, "bad" lacks a
\* parameter or has one that int() rejects, "no_target" has target_ip None.
Jobs == [kind : {"scan", "attack", "no_target", "bad", "none"}]
          \cup [kind : {"deceive"}, port : Ports]

ServicesInit ==
    /\ job \in [Tasks -> Jobs]
    /\ probe = [p \in Ports |-> "off"]
    /\ listening = {}
    /\ socketServerMap = {}
    /\ visit = [v \in Visitors |-> [at |-> "away"]]

-----------------------------------------------------------------------------
(* host_scan: one coroutine for each port, and asyncio.wait() for all.      *)

StartScan ==
    /\ probe' = [p \in Ports |-> "connecting"]
    /\ UNCHANGED <<job, listening, socketServerMap, visit>>

\* Mutant: open_connection() without wait_for(): it may never raise.
ProbeWaits(p) == FALSE /\ UNCHANGED serviceVars

\* Refused, or nothing came back for 20 seconds.
ProbeFails(p) ==
    /\ probe[p] = "connecting"
    /\ probe' = [probe EXCEPT ![p] = "failed"]
    /\ UNCHANGED <<job, listening, socketServerMap, visit>>

\* Connected, and b"TEST" is sent: from here on nothing bounds the wait.
ProbeConnects(p) ==
    /\ probe[p] = "connecting"
    /\ probe' \in {[probe EXCEPT ![p] = s] : s \in {"open", "mute"}}
    /\ UNCHANGED <<job, listening, socketServerMap, visit>>

\* The answer, or the end of the stream, which read() returns just so.
ProbeAnswered(p) ==
    /\ probe[p] = "open"
    /\ probe' = [probe EXCEPT ![p] = "answered"]
    /\ UNCHANGED <<job, listening, socketServerMap, visit>>

\* The connection is reset: read() raises.
ProbeBreaks(p) ==
    /\ probe[p] \in {"open", "mute"}
    /\ probe' = [probe EXCEPT ![p] = "failed"]
    /\ UNCHANGED <<job, listening, socketServerMap, visit>>

ScanReturns ==
    /\ \A p \in Ports : probe[p] \in {"failed", "answered"}
    /\ probe' = [p \in Ports |-> "off"]
    /\ UNCHANGED <<job, listening, socketServerMap, visit>>

-----------------------------------------------------------------------------
(* host_deception: HostServer.start_server_on_port_delay_response.          *)

\* Mutant: a second task for a port starts a second server.
KnownPortForgotten(p) == FALSE

\* Only the delays are changed.
KnownPort(p) == p \in socketServerMap

\* Mutant: the port is not put in the map.
StartServerUnmapped(p, status) ==
    /\ IF KnownPort(p) \/ p \in TakenPorts \cup listening
         THEN status = (IF KnownPort(p) THEN "success" ELSE "error")
              /\ UNCHANGED listening
         ELSE status = "success" /\ listening' = listening \cup {p}
    /\ UNCHANGED <<job, probe, socketServerMap, visit>>

\* asyncio.start_server() raises for an address in use.  It waits for one round of
\* the loop, but its first connection is accepted after the map has the port.
StartServer(p, status) ==
    /\ IF KnownPort(p) \/ p \in TakenPorts \cup listening
         THEN /\ status = IF KnownPort(p) THEN "success" ELSE "error"
              /\ UNCHANGED <<listening, socketServerMap>>
         ELSE /\ status = "success"
              /\ listening' = listening \cup {p}
              /\ socketServerMap' = socketServerMap \cup {p}
    /\ UNCHANGED <<job, probe, visit>>

\* Another host connects; the handler is given the port.
VisitorConnects(v) ==
    /\ visit[v].at = "away"
    /\ \E p \in listening : visit' = [visit EXCEPT ![v] = [at |-> "reading", port |-> p]]
    /\ UNCHANGED <<job, probe, listening, socketServerMap>>

\* handle_client read the request: it sleeps, or finds no server in the map.
VisitorIsRead(v) ==
    /\ visit[v].at = "reading"
    /\ visit' = [visit EXCEPT ![v] =
         IF visit[v].port \in socketServerMap THEN [@ EXCEPT !.at = "delayed"]
         ELSE [at |-> "left"]]
    /\ UNCHANGED <<job, probe, listening, socketServerMap>>

VisitorIsAnswered(v) ==
    /\ visit[v].at = "delayed"
    /\ visit' = [visit EXCEPT ![v].at = "answered"]
    /\ UNCHANGED <<job, probe, listening, socketServerMap>>

-----------------------------------------------------------------------------
(* execute_task, from its call to its return.                               *)

\* What runs of it before its first await.
Execute(t) ==
    IF job[t].kind = "scan" THEN StartScan ELSE UNCHANGED serviceVars

\* It returns the task with a status, or None ("null"), or raises ("error").
Executed(t, outcome) ==
    \/ /\ job[t].kind = "scan" /\ outcome = "success"
       /\ ScanReturns
    \/ /\ job[t].kind = "deceive"
       /\ StartServer(job[t].port, outcome)
    \/ /\ \/ job[t].kind = "attack" /\ outcome = "success"
          \/ job[t].kind = "no_target" /\ outcome = "running"
          \/ job[t].kind = "bad" /\ outcome = "error"
          \/ job[t].kind = "none" /\ outcome = "null"
       /\ UNCHANGED serviceVars

Probe(p) == ProbeFails(p) \/ ProbeConnects(p) \/ ProbeAnswered(p)
Visit(v) == VisitorIsRead(v) \/ VisitorIsAnswered(v)
=============================================================================
