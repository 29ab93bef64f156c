------------------------------ MODULE Backend ------------------------------
(***************************************************************************)
(* The backend process around its database: main.py, db/init_db.py,        *)
(* controller/app.py, service/switch_task_service.py, and the parts of     *)
(* system/simulator.py and server/client_connect.py that use db.json.      *)
(*                                                                         *)
(* Four kinds of threads call the store (module TinyDB):                   *)
(*   "main"       init_db's calls one after the other, then Flask serves;  *)
(*                an exception ends the process;                           *)
(*   "simulator"  started before main's calls, writes the topology and     *)
(*                then starts the emulated network;                        *)
(*   "loop"       started once Flask serves; DBUtil.init_db, then the      *)
(*                results of host tasks, one call at a time;               *)
(*   requests     a thread each, for a task of a host or of a switch.      *)
(* The tasks of hosts go to the loop by taskQueue (module TaskQueue).      *)
(*                                                                         *)
(* The process may be killed anywhere, and is started again by hand.       *)
(***************************************************************************)
EXTENDS TaskQueue, FiniteSets

CONSTANTS
    SwitchTasks, \* tasks of switches that requests create
    MaxDocs,     \* bound: document numbers of a table
    MaxStarts,   \* bound: starts of the process
    MaxCalls     \* bound: calls under way at once

Requests == Tasks \cup SwitchTasks

ASSUME BackendAssumption ==
    /\ Tasks \cap SwitchTasks = {}
    /\ {"main", "simulator", "loop"} \cap Requests = {}
    /\ MaxDocs \in Nat /\ MaxStarts \in Nat /\ MaxCalls \in Nat

VARIABLES
    file, readable, lastWriter, at, call, target, copy, \* of TinyDB
    phase,      \* of the process
    starts,     \* of the process
    initCalls,  \* calls of init_db that have returned
    simulator,  \* how far start_simulator has come
    loopInit,   \* how far DBUtil.init_db has come
    req,        \* [Requests -> how far the request has come]
    status,     \* [SwitchTasks -> task_data['status']]
    updating,   \* {} or the host task whose result the loop's call writes
    ruled,      \* switch tasks whose rule the Ryu application has set
    mine,       \* requests the running process has begun to record (history)
    reported,   \* host tasks whose result a call was to write (history)
    kept,       \* [Requests -> what its last call that returned wrote] (history)
    overlapped, \* two calls of the process ran at once (history)
    brokenStart \* the file was unreadable when the process started (history)

Threads == Requests \cup {"main", "simulator", "loop"}
TableNames == {"network_topo_data", "player_data", "operation_task_data",
               "env_status_data", "config"}
FixedKeys == {"current_topo", "Aarnet", "attacker", "defender", "vm_status",
              "traffic_flow", "traffic_entropy", "1.0"}

DB == INSTANCE TinyDB WITH
        Tables <- TableNames, Keys <- Requests \cup FixedKeys,
        Values <- {"running", "success", "error", "data"}

queueVars == <<items, putting, get, getter, ready, asleep, appended, taken>>
dbVars == <<file, readable, lastWriter, at, call, target, copy>>
process == <<phase, starts, initCalls, brokenStart>>
services == <<simulator, loopInit, updating>>
requests == <<req, status, ruled>>
history == <<mine, kept, reported>>
backendVars == <<queueVars, dbVars, process, services, requests, history, overlapped>>

Data(k) == [key |-> k, value |-> "data"]
Task(r, s) == [key |-> r, value |-> s]

\* Mutant: the wrong table is cleared.
InitCallsClearTopology ==
    <<DB!Upsert("player_data", "attacker", Data("attacker")),
      DB!Upsert("player_data", "defender", Data("defender")),
      DB!Clear("network_topo_data"),
      DB!Upsert("env_status_data", "vm_status", Data("vm_status")),
      DB!Upsert("env_status_data", "traffic_flow", Data("traffic_flow")),
      DB!Upsert("env_status_data", "traffic_entropy", Data("traffic_entropy"))>>

\* init_db(); its first call opens the file and does nothing with it.
InitCalls ==
    <<DB!Upsert("player_data", "attacker", Data("attacker")),
      DB!Upsert("player_data", "defender", Data("defender")),
      DB!Clear("operation_task_data"),
      DB!Upsert("env_status_data", "vm_status", Data("vm_status")),
      DB!Upsert("env_status_data", "traffic_flow", Data("traffic_flow")),
      DB!Upsert("env_status_data", "traffic_entropy", Data("traffic_entropy"))>>

\* update_current_topo_data_to_db() searches the id it meant to set, and set
\* in another dictionary: the document keeps the topology's own id.
TopologyCall == DB!Upsert("network_topo_data", "current_topo", Data("Aarnet"))

BackendTypeOK ==
    /\ TypeOK /\ DB!DbTypeOK
    /\ phase \in {"down", "init", "serving"}
    /\ starts \in 0..MaxStarts
    /\ initCalls \in 0..Len(InitCalls)
    /\ simulator \in {"off", "load", "writing", "started", "dead"}
    /\ loopInit \in {"no", "writing", "done"}
    /\ req \in [Requests -> {"none", "insert", "put", "execute", "update", "done", "over"}]
    /\ status \in [SwitchTasks -> {"running", "success", "error"}]
    /\ updating \in SUBSET Tasks
    /\ ruled \in SUBSET SwitchTasks
    /\ mine \in SUBSET Requests
    /\ reported \in SUBSET Tasks
    /\ kept \in [Requests -> {"none", "running", "success", "error"}]
    /\ overlapped \in BOOLEAN /\ brokenStart \in BOOLEAN

\* What a new process has in memory.
NothingInMemory ==
    /\ initCalls = 0
    /\ loopInit = "no"
    /\ updating = {}
    /\ mine = {}
    /\ kept = [r \in Requests |-> "none"]
    /\ overlapped = FALSE

BackendInit ==
    /\ Init
    /\ DB!DbInit
    /\ NothingInMemory
    /\ phase = "down" /\ starts = 0 /\ brokenStart = FALSE
    /\ simulator = "off"
    /\ req \in [Requests -> {"none","over"}]
    /\ status = [s \in SwitchTasks |-> "running"]
    /\ ruled = {} /\ reported = {}

Busy(th) == at[th] \notin {"idle"} \cup DB!Returned

Calls(th, c) ==
    /\ DB!Begins(th, c)
    /\ Cardinality({u \in Threads : Busy(u)}) < MaxCalls
    /\ overlapped' = (overlapped \/ \E u \in Threads : Busy(u))

-----------------------------------------------------------------------------
(* The process.                                                            *)

StartProcess ==
    /\ phase = "down" /\ starts < MaxStarts
    /\ phase' = "init"
    /\ starts' = starts + 1
    /\ simulator' = "load"
    /\ brokenStart' = ~readable
    /\ UNCHANGED <<queueVars, dbVars, initCalls, loopInit, updating, requests, history,
                   overlapped>>

\* All threads end; what they had in memory is gone.
ProcessEnds ==
    /\ DB!DbKilled
    /\ phase' = "down"
    /\ simulator' = "off"
    /\ initCalls' = 0 /\ loopInit' = "no" /\ updating' = {}
    /\ req' = [r \in Requests |-> IF req[r] = "none" THEN "none" ELSE "over"]
    /\ mine' = {} /\ kept' = [r \in Requests |-> "none"] /\ overlapped' = FALSE
    /\ items' = << >> /\ putting' = [t \in Tasks |-> "no"] /\ get' = "check"
    /\ getter' = FALSE /\ ready' = FALSE /\ asleep' = FALSE
    /\ appended' = << >> /\ taken' = << >>
    /\ UNCHANGED <<starts, brokenStart, status, ruled, reported>>

\* Bound: not in the last start, which nothing would follow.
Killed == phase # "down" /\ starts < MaxStarts /\ ProcessEnds

\* Mutant: init_db goes on after a call that raised.
InitCallRaisesOnlyLogs ==
    /\ phase = "init"
    /\ at["main"] = "raised"
    /\ DB!Continues("main")
    /\ initCalls' = initCalls + 1
    /\ UNCHANGED <<queueVars, phase, starts, brokenStart, services, requests, history,
                   overlapped>>

\* An exception of init_db leaves asyncio.run, background_service and the main
\* thread; the daemon threads end with it.
InitCallRaises ==
    /\ phase = "init"
    /\ at["main"] = "raised"
    /\ ProcessEnds

CallInit ==
    /\ phase = "init"
    /\ initCalls < Len(InitCalls)
    /\ Calls("main", InitCalls[initCalls + 1])
    /\ UNCHANGED <<queueVars, process, services, requests, history>>

InitCallReturns ==
    /\ phase = "init"
    /\ at["main"] = "written"
    /\ DB!Continues("main")
    /\ initCalls' = initCalls + 1
    /\ UNCHANGED <<queueVars, phase, starts, brokenStart, services, requests, history,
                   overlapped>>

\* start_flask_background: the loop's thread starts, then Flask serves.
Serve ==
    /\ phase = "init"
    /\ initCalls = Len(InitCalls)
    /\ phase' = "serving"
    /\ UNCHANGED <<queueVars, dbVars, starts, initCalls, brokenStart, services, requests,
                   history, overlapped>>

\* The simulator's thread writes the topology, and only then starts the network.
WriteTopology ==
    /\ simulator = "load"
    /\ simulator' = "writing"
    /\ Calls("simulator", TopologyCall)
    /\ UNCHANGED <<queueVars, process, loopInit, updating, requests, history>>

TopologyWritten ==
    /\ simulator = "writing"
    /\ DB!Continues("simulator")
    /\ simulator' = IF at["simulator"] = "written" THEN "started" ELSE "dead"
    /\ UNCHANGED <<queueVars, process, loopInit, updating, requests, history, overlapped>>

-----------------------------------------------------------------------------
(* The loop's thread: a call blocks it.                                    *)

LoopIsFree == phase = "serving" /\ at["loop"] = "idle"

InitLoop ==
    /\ LoopIsFree
    /\ loopInit = "no"
    /\ loopInit' = "writing"
    /\ Calls("loop", DB!Upsert("config", "1.0", Data("1.0")))
    /\ UNCHANGED <<queueVars, process, simulator, updating, requests, history>>

\* distribute_tasks and its queue.
QueueSteps ==
    /\ LoopIsFree /\ loopInit = "done"
    /\ LoopStep \/ TimerEnds
    /\ UNCHANGED <<dbVars, process, services, requests, history, overlapped>>

\* update_task for a task that distribute_tasks took, between two of its awaits.
\* Bound: once for each task.
UpdateTask(t, s) ==
    /\ LoopIsFree /\ loopInit = "done"
    /\ get \in {"returned", "await"} /\ ~asleep
    /\ t \in Range(taken) \ reported
    /\ updating' = {t}
    /\ reported' = reported \cup {t}
    /\ Calls("loop", DB!Upsert("operation_task_data", t, Task(t, s)))
    /\ UNCHANGED <<queueVars, process, simulator, loopInit, requests, mine, kept>>

\* What the call raised is swallowed, in DBUtil.init_db's case with its future.
LoopCallReturns ==
    /\ DB!Continues("loop")
    /\ loopInit' = "done"
    /\ updating' = {}
    /\ UNCHANGED <<queueVars, process, simulator, requests, history, overlapped>>

-----------------------------------------------------------------------------
(* The threads of requests.                                                *)

\* create_task and create_switch_task begin with the task's document.
CreateTask(r) ==
    /\ phase = "serving"
    /\ req[r] = "none"
    /\ req' = [req EXCEPT ![r] = "insert"]
    /\ mine' = mine \cup {r}
    /\ Calls(r, DB!Insert("operation_task_data", Task(r, "running")))
    /\ UNCHANGED <<queueVars, process, services, status, ruled, kept, reported>>

\* taskQueue.put, whether the document was written or not.
PutTask(t) ==
    /\ req[t] = "insert"
    /\ DB!Continues(t)
    /\ PutAppends(t)
    /\ req' = [req EXCEPT ![t] = "put"]
    /\ UNCHANGED <<process, services, status, ruled, history, overlapped>>

TaskIsPut(t) ==
    /\ req[t] = "put"
    /\ PutWakes(t)
    /\ req' = [req EXCEPT ![t] = "done"]
    /\ UNCHANGED <<dbVars, process, services, status, ruled, history, overlapped>>

\* Mutant: only after a document that was written.
ExecuteSwitchTaskIfWritten(s) ==
    /\ req[s] = "insert"
    /\ at[s] = "written"
    /\ DB!Continues(s)
    /\ req' = [req EXCEPT ![s] = "execute"]
    /\ UNCHANGED <<queueVars, process, services, status, ruled, history, overlapped>>

ExecuteSwitchTask(s) ==
    /\ req[s] = "insert"
    /\ DB!Continues(s)
    /\ req' = [req EXCEPT ![s] = "execute"]
    /\ UNCHANGED <<queueVars, process, services, status, ruled, history, overlapped>>

\* Mutant: success is assumed before the request is sent.
RuleAnswersAnyway(s, isSet, answer) ==
    /\ req[s] = "execute"
    /\ ruled' = IF isSet THEN ruled \cup {s} ELSE ruled
    /\ status' = [status EXCEPT ![s] = answer]
    /\ req' = [req EXCEPT ![s] = "update"]
    /\ Calls(s, DB!Upsert("operation_task_data", s, Task(s, answer)))
    /\ UNCHANGED <<queueVars, process, services, history>>

\* POST protocol_forbid sets the rule and its answer arrives, or is lost; or
\* nothing is asked for, or answered.  Then the result goes to the document.
RuleAnswers(s, isSet, answer) ==
    /\ req[s] = "execute"
    /\ answer = "success" => isSet
    /\ ruled' = IF isSet THEN ruled \cup {s} ELSE ruled
    /\ status' = [status EXCEPT ![s] = answer]
    /\ req' = [req EXCEPT ![s] = "update"]
    /\ Calls(s, DB!Upsert("operation_task_data", s, Task(s, answer)))
    /\ UNCHANGED <<queueVars, process, services, history>>

SwitchTaskReturns(s) ==
    /\ req[s] = "update"
    /\ DB!Continues(s)
    /\ req' = [req EXCEPT ![s] = "done"]
    /\ UNCHANGED <<queueVars, process, services, status, ruled, history, overlapped>>

-----------------------------------------------------------------------------
\* A step of a call; the task whose call it ends is noted.
StoreStep(th) ==
    /\ DB!DbStep(th)
    /\ kept' = [r \in Requests |->
         IF at'[th] = "written" /\ call[th].table = "operation_task_data"
              /\ call[th].op # "clear" /\ call[th].doc.key = r
           THEN call[th].doc.value ELSE kept[r]]
    /\ UNCHANGED <<queueVars, process, services, requests, mine, reported, overlapped>>

RequestStep(r) ==
    \/ CreateTask(r)
    \/ r \in Tasks /\ (PutTask(r) \/ TaskIsPut(r))
    \/ /\ r \in SwitchTasks
       /\ \/ ExecuteSwitchTask(r) \/ SwitchTaskReturns(r)
          \/ \E isSet \in BOOLEAN, answer \in {"success", "error"} :
               RuleAnswers(r, isSet, answer)

MainStep == CallInit \/ InitCallReturns \/ InitCallRaises \/ Serve
SimulatorStep == WriteTopology \/ TopologyWritten
LoopThread == \/ InitLoop \/ QueueSteps \/ LoopCallReturns
              \/ \E t \in Tasks, s \in {"success", "error"} : UpdateTask(t, s)

BackendNext ==
    \/ StartProcess \/ Killed
    \/ MainStep \/ SimulatorStep \/ LoopThread
    \/ \E r \in Requests : RequestStep(r)
    \/ \E th \in Threads : StoreStep(th)

BackendSpec == BackendInit /\ [][BackendNext]_backendVars

\* The threads of the loop and of requests for switches run, and their file
\* operations end.  Nothing is assumed of the others.
BackendFairness ==
    /\ WF_backendVars(InitLoop \/ QueueSteps \/ LoopCallReturns \/ StoreStep("loop"))
    /\ \A s \in SwitchTasks :
         WF_backendVars((req[s] # "none" /\ RequestStep(s)) \/ StoreStep(s))

-----------------------------------------------------------------------------
(* What the backend promises.                                              *)

TaskDocs == DB!InTable("operation_task_data")
TasksInTable == {d.key : d \in TaskDocs}

\* However the threads of however many starts interleave, the task table holds
\* nothing that nobody did: a document's task was asked for, it has an end only
\* if one was reported, and a switch task says 'success' only if the Ryu
\* application has set its rule.
DocumentsAreGenuine ==
    \A d \in TaskDocs :
        /\ d.key \in Requests /\ req[d.key] # "none"
        /\ d.key \in Tasks /\ d.value # "running" => d.key \in reported
        /\ d.key \in SwitchTasks /\ d.value = "success" => d.key \in ruled

\* As long as no two calls of a process overlapped, each of its calls that
\* returned is in the file: every task has one document, with what was written
\* last; and a process that serves has the documents of init_db and no task
\* of an earlier start.
SerialCallsAreKept ==
    phase # "down" /\ ~brokenStart /\ ~overlapped /\ ~(\E th \in Threads : Busy(th)) =>
        /\ readable
        /\ \A r \in Requests : kept[r] # "none" =>
             \E d \in TaskDocs : d.value = kept[r] /\ {e \in TaskDocs : e.key = r} = {d}
        /\ phase = "serving" =>
             /\ TasksInTable \subseteq mine
             /\ \A i \in {1, 2, 4, 5, 6} :
                  DB!DocsWith(InitCalls[i].table, InitCalls[i].key) # {}

\* init_db.py:30 clears the history of tasks.  It can only come back with the
\* simulator, whose thread may have read the file before that.
HistoryComesBackOnlyWithTopology ==
    phase = "serving" /\ ~(TasksInTable \subseteq mine) =>
        simulator = "started" \/ at["simulator"] \in {"truncate", "written"}

\* A process started on an unreadable file neither serves nor emulates a network:
\* no interleaving of its threads gets past the first call that reads.
BrokenFileStopsTheStart ==
    brokenStart => phase # "serving" /\ simulator # "started"

\* Nothing repairs the file: once its text is no JSON, and the calls that had read
\* it before have written, it stays so through every call, kill and restart.
BrokenFile == ~readable /\ \A th \in Threads : at[th] # "write"
BrokenStaysBroken == [][BrokenFile => BrokenFile']_backendVars

\* A switch task comes back to the request that asked for it, in a process that
\* lives on, whatever the database and the Ryu application do.
SwitchTaskReturnsToRequest ==
    \A s \in SwitchTasks : req[s] = "insert" ~> req[s] \in {"done", "over"}
=============================================================================
