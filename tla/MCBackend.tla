----------------------------- MODULE MCBackend -----------------------------
(***************************************************************************)
(* Backend for TLC, from states that divide its behaviours: cold starts    *)
(* that no request follows; and a process that has started undisturbed,    *)
(* with requests for hosts, for a switch while the simulator is late, or   *)
(* for both.                                                               *)
(***************************************************************************)
EXTENDS Backend

Doc(tb, n, k, v) == [table |-> tb, number |-> n, key |-> k, value |-> v]
OneTask == CHOOSE t \in Tasks : TRUE

\* An earlier start has left a task in the file.
Cold ==
    /\ Init
    /\ file = {Doc("operation_task_data", 1, OneTask, "running")}
    /\ readable = TRUE
    /\ DB!NoCalls
    /\ NothingInMemory
    /\ phase = "down" /\ starts = 0 /\ brokenStart = FALSE
    /\ simulator = "off"
    /\ req = [r \in Requests |-> "over"]
    /\ status = [s \in SwitchTasks |-> "running"]
    /\ ruled = {} /\ reported = {}

\* The tables after init_db has run alone.
Initialised ==
    {Doc("player_data", 1, "attacker", "data"), Doc("player_data", 2, "defender", "data"),
     Doc("env_status_data", 1, "vm_status", "data"),
     Doc("env_status_data", 2, "traffic_flow", "data"),
     Doc("env_status_data", 3, "traffic_entropy", "data")}

Warm ==
    /\ Init
    /\ file = Initialised /\ readable = TRUE /\ DB!NoCalls
    /\ loopInit = "no" /\ updating = {} /\ mine = {} /\ overlapped = FALSE
    /\ kept = [r \in Requests |-> "none"]
    /\ phase = "serving" /\ starts = MaxStarts /\ initCalls = Len(InitCalls)
    /\ brokenStart = FALSE
    /\ \E asked \in SUBSET Requests :
         /\ req = [r \in Requests |-> IF r \in asked THEN "none" ELSE "over"]
         /\ \/ asked = Tasks /\ simulator = "started"
            \/ asked = SwitchTasks /\ simulator = "load"
            \/ asked = {OneTask} \cup SwitchTasks /\ simulator = "started"
    /\ status = [s \in SwitchTasks |-> "running"]
    /\ ruled = {} /\ reported = {}

MCSpec == (Cold \/ Warm) /\ [][BackendNext]_backendVars /\ BackendFairness
=============================================================================
