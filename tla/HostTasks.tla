----------------------------- MODULE HostTasks -----------------------------
(***************************************************************************)
(* The client of a host (module Client) with what it does for its tasks    *)
(* (module HostServices).  Both run in one asyncio loop: a task that does  *)
(* not return holds up the tasks behind it, and a loop that spins answers  *)
(* nobody.                                                                 *)
(***************************************************************************)
EXTENDS Client

CONSTANTS Ports, TakenPorts, Visitors \* of HostServices

ASSUME HostTasksAssumption == TakenPorts \subseteq Ports

VARIABLES job, probe, listening, socketServerMap, visit

Services == INSTANCE HostServices

serviceVars == <<job, probe, listening, socketServerMap, visit>>
hostVars == <<vars, serviceVars>>

HostInit == Init /\ Services!ServicesInit

\* process_tasks takes a task and calls execute_task with it ...
BeginTask ==
    /\ TakeTask
    /\ \A t \in executing' : Services!Execute(t)

\* ... which returns or raises.
EndTask ==
    \E outcome \in Outcomes, t \in executing :
        FinishTaskWith(outcome) /\ Services!Executed(t, outcome)

\* The coroutines beside it.
ServicesRun ==
    /\ LoopRuns
    /\ \/ \E p \in Ports : Services!Probe(p)
       \/ \E v \in Visitors : Services!Visit(v)
    /\ UNCHANGED vars

\* Other hosts: the kernel accepts their connections, also for a loop that spins.
OthersAct ==
    /\ ~exited
    /\ \/ \E p \in Ports : Services!ProbeBreaks(p)
       \/ \E v \in Visitors : Services!VisitorConnects(v)
    /\ UNCHANGED vars

HostNext ==
    \/ BeginTask \/ EndTask \/ ServicesRun \/ OthersAct
    \/ (OtherSteps \/ WorldNext) /\ UNCHANGED serviceVars

HostSpec == HostInit /\ [][HostNext]_hostVars

\* What is ready in the loop runs: process_tasks, visits, and probes - a connect
\* has its 20 seconds, an open port its answer; nothing is assumed of a mute one.
HostFairness ==
    /\ WF_hostVars(BeginTask \/ EndTask)
    /\ \A p \in Ports :
         WF_hostVars(LoopRuns /\ UNCHANGED vars
                       /\ (Services!ProbeFails(p) \/ Services!ProbeAnswered(p)))
    /\ \A v \in Visitors :
         WF_hostVars(LoopRuns /\ UNCHANGED vars /\ Services!Visit(v))

-----------------------------------------------------------------------------
(* What the host promises.                                                  *)

Halted == spinning \/ exited
Mute == \E p \in Ports : probe[p] = "mute"

\* The statuses of t in results the client has or has sent.
Answers(t) ==
    {r.status : r \in {q \in Range(taskResultQueue) : q.type = "task_result" /\ q.task = t}}
      \cup {r.status : r \in {q \in UNION {Range(toServer[c]) : c \in HostConns} :
                                 q.type = "task_result" /\ q.task = t}}

\* A result says of the host's servers what is so: with 'success' the port of a
\* host_deception is served, whatever tasks went before it, and an 'error'
\* means that another program has the port - asked for again, a port of the
\* client's own only changes its delays.
DeceptionResultsAreTrue ==
    \A t \in Tasks : job[t].kind = "deceive" =>
        /\ "success" \in Answers(t) => job[t].port \in listening
        /\ "error" \in Answers(t) => job[t].port \in TakenPorts

\* One task at a time is executed, and it does not hold up the others for ever -
\* neither a scan of ports that nothing answers on - unless a probe has connected
\* to something mute: its read() has no timeout.
TaskEndsUnlessMute ==
    \A t \in Tasks : executing = {t} ~> executing # {t} \/ Halted \/ Mute

\* Whoever connects to a late server is answered, while the loop runs.
VisitorsAreAnswered ==
    \A v \in Visitors :
        visit[v].at = "reading" ~> visit[v].at = "answered" \/ Halted
=============================================================================
