----------------------------- MODULE Emulation -----------------------------
(***************************************************************************)
(* The emulated network as the threads of requests see it:                 *)
(*   system/simulator.py        the simulator's thread: the topology in    *)
(*                              memory, and the programs it stops/starts;  *)
(*   controller/env_controller.py  get_traffic_flow, which asks sFlow-RT   *)
(*                              for a flow rule the first time;            *)
(*   service/task_service.py    the marks that tasks leave in the topology,*)
(*                              in place, one node after the other.        *)
(*                                                                         *)
(* Each request runs in a thread of its own.  sFlow-RT keeps its rules in  *)
(* memory; one that an earlier run of the backend has left runs until the  *)
(* simulator's thread stops it.                                            *)
(***************************************************************************)
EXTENDS Naturals, Sequences

CONSTANTS
    Nodes,      \* of the topology
    NodeOrder,  \* the order of its dictionary
    Hosts,      \* nodes of type 'host', the others are switches
    HasIp,      \* nodes with an address
    Dpid,       \* [Nodes -> the switch a node names as its dpid, or NoDpid]
    NoDpid,
    Elsewhere,  \* an address of no node
    Readers,    \* requests for the traffic
    Callers,    \* requests with a task
    Orders      \* what they may ask for

\* The address of a node is the node itself.
Addresses == Nodes \cup {Elsewhere}
Switches == Nodes \ Hosts

ASSUME EmulationAssumption ==
    /\ Hosts \subseteq Nodes /\ HasIp \subseteq Nodes
    /\ Elsewhere \notin Nodes /\ NoDpid \notin Nodes
    /\ "none" \notin Nodes /\ "unknown" \notin Nodes
    /\ NodeOrder \in Seq(Nodes)
    /\ \A n \in Nodes : \E i \in 1..Len(NodeOrder) : NodeOrder[i] = n
    /\ Dpid \in [Nodes -> Switches \cup {NoDpid}]
    /\ Orders \subseteq [player : {"attacker"}, client_ip : Addresses, target_ip : Addresses]
                   \cup [player : {"defender"}, client_ip : Addresses,
                         switch_dpid : Switches \cup {NoDpid}]
                   \cup [player : {"switch"}, switch_dpid : Switches \cup {NoDpid}]

VARIABLES
    simulator,     \* how far start_simulator has come
    sflow,         \* "down", "left" by an earlier run, or "up"
    rule,          \* sFlow-RT has the flow rule
    sflow_init,    \* the flag of get_traffic_flow
    reader,        \* [Readers -> how far get_traffic_flow has come]
    putEarly,      \* the rule was put before the simulator started sFlow-RT (history)
    order,         \* [Callers -> the task of the request]
    caller,        \* [Callers -> how far the marking has come]
    position,      \* [Callers -> the loop's place in NodeOrder]
    attack_source, \* [Hosts -> mark]
    victim_source, \* [Hosts -> mark]
    defend_source  \* [Nodes -> mark]

flowVars == <<sflow, rule, sflow_init, reader, putEarly>>
marks == <<attack_source, victim_source, defend_source>>
callVars == <<order, caller, position>>
emulationVars == <<simulator, flowVars, callVars, marks>>

Marks == Nodes \cup {"none", "unknown"}
Positions == 1..(Len(NodeOrder) + 1)

EmulationTypeOK ==
    /\ simulator \in {"load", "topology", "stopped", "started", "dead"}
    /\ sflow \in {"down", "left", "up"}
    /\ rule \in BOOLEAN /\ sflow_init \in BOOLEAN /\ putEarly \in BOOLEAN
    /\ reader \in [Readers -> {"no", "test", "set", "put", "get", "error", "empty", "flows"}]
    /\ order \in [Callers -> Orders]
    /\ caller \in [Callers -> {"no", "refused", "marking", "marked", "raised"}]
    /\ position \in [Callers -> Positions]
    /\ attack_source \in [Hosts -> Marks]
    /\ victim_source \in [Hosts -> Marks]
    /\ defend_source \in [Nodes -> Marks]

EmulationInit ==
    /\ simulator = "load"
    /\ sflow \in {"down", "left"}
    /\ rule \in IF sflow = "left" THEN BOOLEAN ELSE {FALSE}
    /\ sflow_init = FALSE
    /\ reader = [r \in Readers |-> "no"]
    /\ putEarly = FALSE
    /\ order \in [Callers -> Orders]
    /\ caller = [c \in Callers |-> "no"]
    /\ position = [c \in Callers |-> 1]
    /\ attack_source = [n \in Hosts |-> "none"]
    /\ victim_source = [n \in Hosts |-> "none"]
    /\ defend_source = [n \in Nodes |-> "none"]

-----------------------------------------------------------------------------
(* The simulator's thread.                                                  *)

\* load_topo_data() and update_current_topo_dynamic_data(): there is a topology.
LoadTopology ==
    /\ simulator = "load"
    /\ simulator' = "topology"
    /\ UNCHANGED <<flowVars, callVars, marks>>

\* Writing it to the database raised: the thread ends.
TopologyNotWritten ==
    /\ simulator = "topology"
    /\ simulator' = "dead"
    /\ UNCHANGED <<flowVars, callVars, marks>>

\* The topology is in the database; sflow.sh --stop and the others.
StopPrograms ==
    /\ simulator = "topology"
    /\ simulator' = "stopped"
    /\ sflow' = "down"
    /\ rule' = FALSE
    /\ UNCHANGED <<sflow_init, reader, putEarly, callVars, marks>>

\* Fifteen seconds later, in a thread of its own.
StartSflow ==
    /\ simulator = "stopped"
    /\ simulator' = "started"
    /\ sflow' = "up"
    /\ UNCHANGED <<rule, sflow_init, reader, putEarly, callVars, marks>>

-----------------------------------------------------------------------------
(* get_traffic_flow                                                         *)

AskForFlows(r) ==
    /\ reader[r] = "no"
    /\ reader' = [reader EXCEPT ![r] = "test"]
    /\ UNCHANGED <<simulator, sflow, rule, sflow_init, putEarly, callVars, marks>>

TestFlag(r) ==
    /\ reader[r] = "test"
    /\ reader' = [reader EXCEPT ![r] = IF sflow_init THEN "get" ELSE "set"]
    /\ UNCHANGED <<simulator, sflow, rule, sflow_init, putEarly, callVars, marks>>

\* Mutant: sets the flag, and leaves the rule to the commented-out code.
SetFlagOnly(r) ==
    /\ reader[r] = "set"
    /\ sflow_init' = TRUE
    /\ reader' = [reader EXCEPT ![r] = "get"]
    /\ UNCHANGED <<simulator, sflow, rule, putEarly, callVars, marks>>

SetFlag(r) ==
    /\ reader[r] = "set"
    /\ sflow_init' = TRUE
    /\ reader' = [reader EXCEPT ![r] = "put"]
    /\ UNCHANGED <<simulator, sflow, rule, putEarly, callVars, marks>>

\* curl ends, whatever came of it.
PutRule(r) ==
    /\ reader[r] = "put"
    /\ rule' = (sflow # "down")
    /\ putEarly' = (putEarly \/ sflow # "up")
    /\ reader' = [reader EXCEPT ![r] = "get"]
    /\ UNCHANGED <<simulator, sflow, sflow_init, callVars, marks>>

\* The flows of a rule that sFlow-RT does not know are an empty list.
GetFlows(r) ==
    /\ reader[r] = "get"
    /\ reader' = [reader EXCEPT ![r] =
         IF sflow = "down" THEN "error" ELSE IF rule THEN "flows" ELSE "empty"]
    /\ UNCHANGED <<simulator, sflow, rule, sflow_init, putEarly, callVars, marks>>

-----------------------------------------------------------------------------
(* update_network_topo_dynamic_host and _switch: after the task was created *)
(* they mark it in the topology, and only log an exception.                 *)

HasTopology == simulator # "load"

\* The id of the node that has an address, if one has.
NodeAt(a) == IF a \in HasIp THEN a ELSE "unknown"

\* Before the marks an attack looks at the address of every node.
BeginMarks(c) ==
    /\ caller[c] = "no"
    /\ caller' = [caller EXCEPT ![c] =
         IF ~HasTopology \/ (order[c].player = "attacker" /\ HasIp # Nodes)
           THEN "refused" ELSE "marking"]
    /\ UNCHANGED <<simulator, flowVars, order, position, marks>>

CurrentNode(c) == NodeOrder[position[c]]
AtNode(c) == caller[c] = "marking" /\ position[c] <= Len(NodeOrder)
NextNode(c) == position' = [position EXCEPT ![c] = @ + 1] /\ UNCHANGED caller
Raises(c) == caller' = [caller EXCEPT ![c] = "raised"] /\ UNCHANGED position

\* Mutant: the two marks are given to the wrong nodes.
MarkAttackSwapped(c) ==
    /\ AtNode(c) /\ order[c].player = "attacker"
    /\ LET n == CurrentNode(c) o == order[c] IN
         /\ attack_source' = IF n \in Hosts /\ n = o.target_ip
              THEN [attack_source EXCEPT ![n] = NodeAt(o.client_ip)] ELSE attack_source
         /\ victim_source' = IF n \in Hosts /\ n = o.client_ip
              THEN [victim_source EXCEPT ![n] = NodeAt(o.target_ip)] ELSE victim_source
    /\ NextNode(c)
    /\ UNCHANGED <<simulator, flowVars, order, defend_source>>

\* Mutant: a node that is marked keeps its mark.
MarkAttackOnce(c) ==
    /\ AtNode(c) /\ order[c].player = "attacker"
    /\ LET n == CurrentNode(c) o == order[c] IN
         /\ attack_source' = IF n \in Hosts /\ n = o.client_ip
              THEN [attack_source EXCEPT ![n] = NodeAt(o.target_ip)] ELSE attack_source
         /\ victim_source' = victim_source
    /\ NextNode(c)
    /\ UNCHANGED <<simulator, flowVars, order, defend_source>>

MarkAttack(c) ==
    /\ AtNode(c) /\ order[c].player = "attacker"
    /\ LET n == CurrentNode(c) o == order[c] IN
         /\ attack_source' = IF n \in Hosts /\ n = o.client_ip
              THEN [attack_source EXCEPT ![n] = NodeAt(o.target_ip)] ELSE attack_source
         /\ victim_source' = IF n \in Hosts /\ n = o.target_ip
              THEN [victim_source EXCEPT ![n] = NodeAt(o.client_ip)] ELSE victim_source
    /\ NextNode(c)
    /\ UNCHANGED <<simulator, flowVars, order, defend_source>>

\* A node is compared by the switch it names; a node or a task that names none
\* is a KeyError.
NamesSwitch(c, n) == Dpid[n] # NoDpid /\ order[c].switch_dpid # NoDpid
SwitchMatches(c, n) == Dpid[n] = order[c].switch_dpid

\* Mutant: a host is marked after the comparison that may raise.
MarkDefenceLate(c) ==
    /\ AtNode(c) /\ order[c].player = "defender"
    /\ LET n == CurrentNode(c) o == order[c] IN
         IF n \notin Hosts THEN NextNode(c) /\ UNCHANGED defend_source
         ELSE IF n \notin HasIp \/ ~NamesSwitch(c, n) THEN Raises(c) /\ UNCHANGED defend_source
         ELSE /\ NextNode(c)
              /\ defend_source' = IF SwitchMatches(c, n)
                   THEN [defend_source EXCEPT ![n] = o.switch_dpid]
                   ELSE IF n = o.client_ip THEN [defend_source EXCEPT ![n] = n] ELSE defend_source
    /\ UNCHANGED <<simulator, flowVars, order, attack_source, victim_source>>

\* A host is marked for its address, and marked for its switch or the KeyError
\* ends the loop there.
MarkDefence(c) ==
    /\ AtNode(c) /\ order[c].player = "defender"
    /\ LET n == CurrentNode(c) o == order[c]
            own == IF n = o.client_ip THEN [defend_source EXCEPT ![n] = n] ELSE defend_source
       IN IF n \notin Hosts THEN NextNode(c) /\ UNCHANGED defend_source
          ELSE IF n \notin HasIp THEN Raises(c) /\ UNCHANGED defend_source
          ELSE IF ~NamesSwitch(c, n) THEN Raises(c) /\ defend_source' = own
          ELSE /\ NextNode(c)
               /\ defend_source' = IF SwitchMatches(c, n)
                    THEN [own EXCEPT ![n] = o.switch_dpid] ELSE own
    /\ UNCHANGED <<simulator, flowVars, order, attack_source, victim_source>>

MarkSwitch(c) ==
    /\ AtNode(c) /\ order[c].player = "switch"
    /\ LET n == CurrentNode(c) o == order[c] IN
         IF n \in Hosts THEN NextNode(c) /\ UNCHANGED defend_source
         ELSE IF ~NamesSwitch(c, n) THEN Raises(c) /\ UNCHANGED defend_source
         ELSE /\ NextNode(c)
              /\ defend_source' = IF SwitchMatches(c, n)
                   THEN [defend_source EXCEPT ![n] = o.switch_dpid] ELSE defend_source
    /\ UNCHANGED <<simulator, flowVars, order, attack_source, victim_source>>

EndMarks(c) ==
    /\ caller[c] = "marking" /\ position[c] > Len(NodeOrder)
    /\ caller' = [caller EXCEPT ![c] = "marked"]
    /\ UNCHANGED <<simulator, flowVars, order, position, marks>>

-----------------------------------------------------------------------------
SimulatorStep == LoadTopology \/ TopologyNotWritten \/ StopPrograms \/ StartSflow
ReadStep(r) == TestFlag(r) \/ SetFlag(r) \/ PutRule(r) \/ GetFlows(r)
MarkStep(c) == MarkAttack(c) \/ MarkDefence(c) \/ MarkSwitch(c) \/ EndMarks(c)

EmulationNext ==
    \/ SimulatorStep
    \/ \E r \in Readers : AskForFlows(r) \/ ReadStep(r)
    \/ \E c \in Callers : BeginMarks(c) \/ MarkStep(c)

EmulationSpec == EmulationInit /\ [][EmulationNext]_emulationVars

-----------------------------------------------------------------------------
(* What holds of the emulation.                                             *)

\* sFlow-RT of this run lacks the rule although the flag is set only while a
\* request is putting it, or if a request came before sFlow-RT was started: its
\* rule went to nobody, or to a program that was then stopped, and no request
\* puts it again.
RuleIsMissingOnlyAfterEarlyPut ==
    sflow = "up" /\ sflow_init /\ ~rule =>
        putEarly \/ \E r \in Readers : reader[r] = "put"

Attacks(a, v) ==
    \E c \in Callers :
        /\ caller[c] \notin {"no", "refused"}
        /\ order[c].player = "attacker"
        /\ NodeAt(order[c].client_ip) = a /\ NodeAt(order[c].target_ip) = v

\* However the threads that mark the same nodes overlap, each mark of an attack is
\* one that a task has asked for: no host is shown as attacking, or attacked by,
\* another that it has nothing to do with.
MarksAreGenuine ==
    \A n \in Hosts :
        /\ attack_source[n] # "none" => Attacks(n, attack_source[n])
        /\ victim_source[n] # "none" => Attacks(victim_source[n], n)

\* Once all attacks that began are marked, every attacking host has a victim that
\* says so, though perhaps of a later attack.
AttacksShowOnBothEnds ==
    (\A c \in Callers : order[c].player = "attacker" => caller[c] \in {"no", "refused", "marked"})
    => \A n \in Hosts : attack_source[n] \in Hosts => victim_source[attack_source[n]] # "none"

FirstHost(i) == NodeOrder[i] \in Hosts /\ \A j \in 1..(i - 1) : NodeOrder[j] \notin Hosts

\* A defence is marked node by node: once the loop is past its host the host is
\* marked, and the first host also by a loop that the KeyError ended there.
DefendedHostIsMarked ==
    \A c \in Callers, i \in 1..Len(NodeOrder) :
        /\ order[c].player = "defender" /\ order[c].client_ip = NodeOrder[i]
        /\ NodeOrder[i] \in Hosts \cap HasIp
        /\ i < position[c] \/ (caller[c] = "raised" /\ FirstHost(i))
        => defend_source[NodeOrder[i]] # "none"
=============================================================================
