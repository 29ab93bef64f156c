-------------------------- MODULE HostTasksProofs --------------------------
(***************************************************************************)
(* What a host says of its late servers is true, for any tasks, ports,     *)
(* connections and visitors, whatever is queued, resent or lost between    *)
(* the execution of a task and its answer.                                 *)
(***************************************************************************)
EXTENDS HostTasks, ClientProofs

\* The services only decide how the client's tasks end.
LEMMA HostStep == [HostNext]_hostVars => [Next]_vars
BY DEF HostNext, hostVars, BeginTask, EndTask, ServicesRun, OthersAct, Next,
       ClientNext, Processor, FinishTask

\* A client that executes real tasks does what Client allows a client whose tasks
\* end in any way: its lock, its types and its one answer to a task are kept.
THEOREM HostRunsClient == HostSpec => Spec
<1>1. HostInit => Init
  BY DEF HostInit
<1> QED
  BY <1>1, HostStep, PTL DEF HostSpec, Spec

-----------------------------------------------------------------------------
(* The servers: the map and the sockets agree.                             *)

ServedInv ==
    /\ job \in [Tasks -> Services!Jobs]
    /\ socketServerMap = listening
    /\ listening \cap TakenPorts = {}
    /\ OneTask

\* What a step may do to the servers: start one on a free port, or nothing.
LEMMA ServersChange ==
  ASSUME ServedInv, [HostNext]_hostVars
  PROVE  /\ job' = job /\ listening \subseteq listening'
         /\ socketServerMap' = listening' /\ listening' \cap TakenPorts = {}
<1> USE DEF ServedInv
<1>1. ASSUME UNCHANGED <<job, listening, socketServerMap>>
      PROVE  /\ job' = job /\ listening \subseteq listening'
             /\ socketServerMap' = listening' /\ listening' \cap TakenPorts = {}
  BY <1>1
<1>2. CASE BeginTask
  <2>1. executing' # {}
    BY <1>2 DEF BeginTask, TakeTask
  <2>2. PICK t \in executing' : Services!Execute(t)
    BY <1>2, <2>1 DEF BeginTask
  <2> QED
    BY <1>1, <2>2 DEF Services!Execute, Services!StartScan, Services!serviceVars
<1>3. ASSUME NEW o \in Outcomes, NEW t \in executing, Services!Executed(t, o)
      PROVE  /\ job' = job /\ listening \subseteq listening'
             /\ socketServerMap' = listening' /\ listening' \cap TakenPorts = {}
  <2>1. CASE Services!StartServer(job[t].port, o)
    BY <2>1 DEF Services!StartServer, Services!KnownPort
  <2>2. CASE UNCHANGED <<job, listening, socketServerMap>>
    BY <1>1, <2>2
  <2> QED
    BY <1>3, <2>1, <2>2 DEF Services!Executed, Services!ScanReturns, Services!serviceVars
<1>4. CASE ServicesRun \/ OthersAct
  BY <1>1, <1>4 DEF ServicesRun, OthersAct, Services!Probe, Services!ProbeFails,
     Services!ProbeConnects, Services!ProbeAnswered, Services!ProbeBreaks, Services!Visit,
     Services!VisitorIsRead, Services!VisitorIsAnswered, Services!VisitorConnects
<1>5. CASE UNCHANGED serviceVars
  BY <1>1, <1>5 DEF serviceVars
<1> QED
  BY <1>2, <1>3, <1>4, <1>5 DEF HostNext, EndTask, hostVars

-----------------------------------------------------------------------------
(* What the lines say.                                                     *)

\* A result of a host_deception is true of the servers there are.
IsTrue(r) ==
    r.type = "task_result" /\ job[r.task].kind = "deceive" =>
        /\ r.status = "success" => job[r.task].port \in listening
        /\ r.status = "error" => job[r.task].port \in TakenPorts

TruthInv == ServedInv /\ \A r \in Lines : IsTrue(r)

\* The end of a host_deception says what became of its port.
LEMMA EndIsTrue ==
  ASSUME ServedInv, NEW t \in executing, NEW o \in Outcomes, Services!Executed(t, o)
  PROVE  IsTrue(Result(t, o))'
<1> SUFFICES ASSUME job'[t].kind = "deceive"
             PROVE  /\ o = "success" => job'[t].port \in listening'
                    /\ o = "error" => job'[t].port \in TakenPorts
  BY DEF IsTrue, Result
<1>1. job' = job
  BY DEF Services!Executed, Services!ScanReturns, Services!StartServer, Services!serviceVars
<1>2. Services!StartServer(job[t].port, o)
  BY <1>1 DEF Services!Executed
<1> QED
  BY <1>1, <1>2 DEF ServedInv, Services!StartServer, Services!KnownPort

LEMMA TruthNext ==
  ASSUME TypeInv, TruthInv, [HostNext]_hostVars
  PROVE  TruthInv'
<1>1. /\ job' = job /\ listening \subseteq listening'
      /\ socketServerMap' = listening' /\ listening' \cap TakenPorts = {}
  BY ServersChange DEF TruthInv
<1>2. ServedInv'
  BY <1>1, HostStep, OneTaskNext DEF TruthInv, ServedInv
<1>3. \A r : IsTrue(r) => IsTrue(r)'
  BY <1>1 DEF IsTrue
<1>4. \A r \in Lines \cup Others : IsTrue(r)'
  <2>1. \A r \in Others : IsTrue(r)
    BY DEF Others, Heartbeat, Eof, NullResult, IsTrue
  <2> QED
    BY <1>3, <2>1 DEF TruthInv
<1>5. CASE EndTask
  <2>1. PICK o \in Outcomes, t \in executing : FinishTaskWith(o) /\ Services!Executed(t, o)
    BY <1>5 DEF EndTask
  <2>2. Lines' \subseteq Lines \cup Others \cup {Result(t, o)}
    BY <2>1, LinesEnd DEF TruthInv, ServedInv
  <2>3. IsTrue(Result(t, o))'
    BY <2>1, EndIsTrue DEF TruthInv
  <2> QED
    BY <1>2, <1>4, <2>2, <2>3 DEF TruthInv
<1>6. CASE ~EndTask
  <2>1. TakeTask \/ OtherSteps \/ WorldNext \/ UNCHANGED vars
    BY <1>6 DEF HostNext, hostVars, BeginTask, ServicesRun, OthersAct
  <2> QED
    BY <1>2, <1>4, <2>1, LinesStay DEF TruthInv
<1> QED
  BY <1>5, <1>6

\* What a result says of its task's port, from what is true of the lines.
LEMMA TruthIsTold == TypeInv /\ TruthInv => DeceptionResultsAreTrue
<1> SUFFICES ASSUME TypeInv, TruthInv, NEW t \in Tasks, job[t].kind = "deceive",
                    NEW s \in Answers(t)
             PROVE  /\ s = "success" => job[t].port \in listening
                    /\ s = "error" => job[t].port \in TakenPorts
  BY DEF DeceptionResultsAreTrue
<1>1. PICK r \in Lines : r.type = "task_result" /\ r.task = t /\ r.status = s
  BY HostFacts DEF Answers, Lines, OnWire
<1> QED
  BY <1>1 DEF TruthInv, IsTrue

\* A result of a host_deception is true when it is made and for as long as it is
\* queued, sent again or on a connection: with 'success' the port is served, with
\* 'error' another program has it.  So for any tasks, executed in any order, any
\* ports and any number of connections and failed sends.
THEOREM DeceptionCorrect == HostSpec => []DeceptionResultsAreTrue
<1>1. HostInit => TruthInv
  <2> SUFFICES ASSUME HostInit PROVE TruthInv
    OBVIOUS
  <2>1. /\ taskResultQueue = << >> /\ sending = {} /\ executing = {}
        /\ toServer = [c \in Conns |-> << >>]
    BY DEF HostInit, Init, ClientInit, NetInit
  <2>2. Lines = {}
    BY <2>1, EmptyRange, HostFacts DEF Lines, OnWire
  <2>3. ServedInv
    BY OneTaskInit DEF HostInit, Services!ServicesInit, ServedInv
  <2> QED
    BY <2>2, <2>3 DEF TruthInv
<1>2. TypeInv /\ TruthInv /\ [HostNext]_hostVars => TruthInv'
  BY TruthNext
<1> QED
  BY <1>1, <1>2, HostRunsClient, TypeInvHolds, TruthIsTold, PTL DEF HostSpec
=============================================================================
