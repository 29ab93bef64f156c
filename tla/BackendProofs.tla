---------------------------- MODULE BackendProofs ----------------------------
(***************************************************************************)
(* The backend's database and queue under its threads, kills and restarts, *)
(* for any tasks and bounds, proved with TLAPS.                            *)
(***************************************************************************)
EXTENDS Backend, SequenceLemmas

-----------------------------------------------------------------------------
(* The queue between the threads keeps its items in order.                  *)

\* Only what the order of the items needs of TypeOK.
QueuesAreSequences ==
    /\ items \in Seq(Tasks)
    /\ appended \in Seq(Tasks)
    /\ taken \in Seq(Tasks)

OrderInv == QueuesAreSequences /\ TakenInOrder

\* Every step of either thread keeps the order.
LEMMA OrderStep == OrderInv /\ [Next]_vars => OrderInv'
<1> SUFFICES ASSUME OrderInv, [Next]_vars PROVE OrderInv'
  OBVIOUS
<1> USE DEF OrderInv, QueuesAreSequences, TakenInOrder
<1>1. ASSUME NEW t \in Tasks, PutAppends(t) PROVE OrderInv'
  <2>1. items' = Append(items, t) /\ appended' = Append(appended, t) /\ taken' = taken
    BY <1>1 DEF PutAppends
  <2>2. Append(taken \o items, t) = taken \o Append(items, t)
    BY <1>1, AppendToConcat
  <2>3. TakenInOrder'
    BY <2>1, <2>2
  <2>4. QueuesAreSequences'
    BY <2>1
  <2> QED
    BY <2>3, <2>4
<1>2. ASSUME NEW t \in Tasks, PutWakes(t) PROVE OrderInv'
  BY <1>2 DEF PutWakes
<1>3. CASE GetReturns
  <2>1. /\ items # << >>
        /\ items' = Tail(items)
        /\ taken' = Append(taken, Head(items))
        /\ appended' = appended
    BY <1>3 DEF GetReturns
  <2> QED
    BY <2>1, MoveHead
<1>4. CASE (LoopStep /\ ~GetReturns) \/ TimerEnds \/ UNCHANGED vars
  <2>1. UNCHANGED <<items, appended, taken>>
    BY <1>4 DEF LoopStep, NextRound, GetFindsEmpty, GetRegisters, LoopSelects,
                GetResumes, TimerEnds, vars
  <2> QED
    BY <2>1
<1> QED
  BY <1>1, <1>2, <1>3, <1>4 DEF Next, LoopStep

\* However the threads of the requests and of the loop interleave, every task put
\* is taken at most once, in the order of the puts, and the others wait.
THEOREM TakenInOrderCorrect == Spec => []TakenInOrder
<1>1. Init => OrderInv
  BY DEF Init, OrderInv, QueuesAreSequences, TakenInOrder
<1>2. OrderInv => TakenInOrder
  BY DEF OrderInv
<1> QED
  BY <1>1, <1>2, OrderStep, PTL DEF Spec

LEMMA QueueTypesInit == Init => TypeOK
<1>1. << >> \in Seq(Tasks)
  OBVIOUS
<1> QED
  BY <1>1, Zenon DEF Init, TypeOK

\* The steps of either thread keep the types.
LEMMA QueueTypes == ASSUME TypeOK, Next PROVE TypeOK'
<1> USE DEF TypeOK
<1>1. ASSUME NEW t \in Tasks, PutAppends(t) PROVE TypeOK'
  <2>1. Append(items, t) \in Seq(Tasks) /\ Append(appended, t) \in Seq(Tasks)
    OBVIOUS
  <2> QED
    BY <1>1, <2>1 DEF PutAppends
<1>4. ASSUME NEW t \in Tasks, PutWakes(t) PROVE TypeOK'
  BY <1>4, Zenon DEF PutWakes
<1>2. CASE GetReturns
  BY <1>2, MoveHead DEF GetReturns
<1>3. CASE (LoopStep /\ ~GetReturns) \/ TimerEnds
  BY <1>3 DEF LoopStep, NextRound, GetFindsEmpty, GetRegisters, LoopSelects,
              GetResumes, TimerEnds
<1> QED
  BY <1>1, <1>2, <1>3, <1>4 DEF Next, LoopStep

-----------------------------------------------------------------------------
(* The store: types of a call's steps.                                     *)

Writing == {"search", "number", "insert", "update"}

\* The calls of the backend: what they write to the table of tasks is a status.
OurCalls ==
    {c \in DB!Calls : c.table = "operation_task_data" /\ c.op # "clear" =>
                         c.doc.value \in {"running", "success", "error"}}

\* A thread under way has a call, one that inserts or updates a document to write.
CallMatches ==
    \A th \in Threads :
        /\ at[th] \in Writing => call[th].op \in {"insert", "upsert"}
        /\ at[th] \notin {"idle", "written", "raised"} => call[th] \in OurCalls

StoreInv == DB!DbTypeOK /\ CallMatches

\* What a step of the backend may do to the store.
StoreEffect ==
    \/ UNCHANGED dbVars
    \/ DB!DbKilled
    \/ \E th \in Threads : \/ \E c \in OurCalls : DB!Begins(th, c)
                           \/ DB!Continues(th) \/ DB!DbStep(th)

LEMMA NumbersTyped ==
  ASSUME DB!DbTypeOK, NEW docs \in SUBSET file
  PROVE  DB!NumbersOf(docs) \in SUBSET DB!Numbers
BY DEF DB!DbTypeOK, DB!Contents, DB!NumbersOf

LEMMA BeginsKeepsStore ==
  ASSUME StoreInv, NEW th \in Threads, NEW c \in OurCalls, DB!Begins(th, c)
  PROVE  StoreInv' /\ at' \in [Threads -> DB!Steps] /\ at'[th] \in {"number", "search", "clear"}
         /\ (at'[th] = "clear" <=> c.op = "clear")
<1>1. c.op \in {"insert", "upsert", "clear"} /\ c \in DB!Calls
  BY DEF DB!Calls, OurCalls
<1>2. PICK s \in {"number", "search", "clear"} :
        at' = [at EXCEPT ![th] = s] /\ (s = "clear" <=> c.op = "clear")
  BY <1>1 DEF DB!Begins, DB!Goto
<1>3. at' \in [Threads -> DB!Steps]
  BY <1>2 DEF StoreInv, DB!DbTypeOK, DB!Steps, DB!Reading
<1>4. DB!DbTypeOK'
  BY <1>1, <1>3 DEF StoreInv, DB!DbTypeOK, DB!Begins
<1>5. CallMatches'
  BY <1>1, <1>2 DEF StoreInv, CallMatches, DB!Begins, DB!DbTypeOK, Writing
<1> QED
  BY <1>2, <1>3, <1>4, <1>5 DEF StoreInv, DB!DbTypeOK

LEMMA ContinuesKeepsStore ==
  ASSUME StoreInv, NEW th \in Threads, DB!Continues(th)
  PROVE  StoreInv'
BY DEF StoreInv, DB!DbTypeOK, CallMatches, DB!Continues, DB!Goto, DB!Steps, Writing

LEMMA KilledKeepsStore ==
  ASSUME StoreInv, DB!DbKilled
  PROVE  StoreInv'
BY DEF StoreInv, DB!DbTypeOK, CallMatches, DB!DbKilled, DB!Steps, DB!Contents, Writing

\* The end of a call.
LEMMA EndsKeepsStore ==
  ASSUME StoreInv, NEW th \in Threads, NEW how \in {"written", "raised"}, DB!Ends(th, how),
         file' = file, readable' \in BOOLEAN, lastWriter' = lastWriter
  PROVE  StoreInv'
BY DEF StoreInv, DB!DbTypeOK, CallMatches, DB!Ends, DB!Goto, DB!Steps, DB!Returned, DB!Contents, Writing

LEMMA StepKeepsStore ==
  ASSUME StoreInv, NEW th \in Threads, DB!DbStep(th)
  PROVE  StoreInv'
<1> USE DEF StoreInv, DB!DbTypeOK, CallMatches, DB!Goto, DB!Steps, DB!Reading, Writing
<1>1. CASE DB!Search(th)
  <2>1. DB!NumbersOf(DB!DocsWith(call[th].table, call[th].key)) \in SUBSET DB!Numbers
    BY NumbersTyped DEF DB!DocsWith, DB!InTable
  <2> QED
    BY <1>1, <2>1 DEF DB!Search, DB!Reads
<1>2. CASE DB!ChooseNumber(th)
  BY <1>2 DEF DB!ChooseNumber, DB!Reads
<1>3. CASE DB!ReadAll(th)
  <2>1. at[th] \in {"insert", "update"} /\ call[th].op \in {"insert", "upsert"}
    BY <1>3 DEF DB!ReadAll, DB!Reads
  <2>2. call[th] \in [op : {"insert", "upsert"}, table : TableNames,
                      key : Requests \cup FixedKeys, doc : DB!Docs]
    BY <2>1 DEF DB!Calls, DB!NoCall
  <2>3. DB!Written(th) \in DB!Contents
    BY <2>2 DEF DB!Written, DB!Contents, DB!Docs
  <2>4. copy' \in [Threads -> DB!Contents]
    BY <1>3, <2>3 DEF DB!ReadAll, DB!Contents
  <2>5. at[th] # "idle" /\ at[th] \notin {"written", "raised"} /\ at' = [at EXCEPT ![th] = "write"]
    BY <1>3, <2>1 DEF DB!ReadAll
  <2>6. CallMatches'
    BY <1>3, <2>5 DEF DB!ReadAll
  <2> QED
    BY <1>3, <2>4, <2>5, <2>6 DEF DB!ReadAll
<1>4. CASE DB!ReadToClear(th)
  <2>1. copy' \in [Threads -> DB!Contents]
    BY <1>4 DEF DB!ReadToClear, DB!Contents
  <2>5. at[th] = "clear" /\ at' = [at EXCEPT ![th] = "write"]
    BY <1>4 DEF DB!ReadToClear, DB!Reads
  <2>6. CallMatches'
    BY <1>4, <2>5 DEF DB!ReadToClear
  <2> QED
    BY <1>4, <2>1, <2>5, <2>6 DEF DB!ReadToClear
<1>5. CASE DB!ReadRaises(th)
  BY <1>5, EndsKeepsStore DEF DB!ReadRaises
<1>6. CASE DB!WriteFile(th)
  BY <1>6 DEF DB!WriteFile
<1>7. CASE DB!Truncate(th)
  <2>1. readable' \in BOOLEAN
    BY <1>7 DEF DB!Truncate
  <2> QED
    BY <1>7, <2>1, EndsKeepsStore DEF DB!Truncate
<1> QED
  BY <1>1, <1>2, <1>3, <1>4, <1>5, <1>6, <1>7 DEF DB!DbStep

LEMMA StoreEffectKeeps ==
  ASSUME StoreInv, StoreEffect
  PROVE  StoreInv'
<1>1. CASE UNCHANGED dbVars
  BY <1>1 DEF StoreInv, dbVars, DB!DbTypeOK, CallMatches
<1> QED
  BY <1>1, BeginsKeepsStore, ContinuesKeepsStore, KilledKeepsStore, StepKeepsStore DEF StoreEffect

-----------------------------------------------------------------------------
(* The calls of the backend.                                                *)

LEMMA ThreadFacts ==
  /\ Requests \subseteq Threads /\ Tasks \subseteq Requests /\ SwitchTasks \subseteq Requests
  /\ "main" \in Threads /\ "simulator" \in Threads /\ "loop" \in Threads
  /\ {"main", "simulator", "loop"} \cap Requests = {} /\ Tasks \cap SwitchTasks = {}
BY BackendAssumption DEF Threads, Requests

\* The calls that write a document of their own.
LEMMA DataCalls ==
  ASSUME NEW tb \in TableNames, NEW k \in FixedKeys
  PROVE  LET c == DB!Upsert(tb, k, Data(k)) IN
         c \in DB!Calls /\ c.op = "upsert" /\ c.table = tb
           /\ (tb # "operation_task_data" => c \in OurCalls)
<1>1. Data(k) \in DB!Docs
  BY DEF Data, DB!Docs
<1>2. k \in Requests \cup FixedKeys
  OBVIOUS
<1> HIDE DEF Data
<1> QED
  BY <1>1, <1>2 DEF DB!Upsert, DB!Calls, OurCalls

LEMMA TaskCalls ==
  ASSUME NEW r \in Requests, NEW s \in {"running", "success", "error"}
  PROVE  /\ DB!Upsert("operation_task_data", r, Task(r, s)) \in OurCalls
         /\ DB!Insert("operation_task_data", Task(r, s)) \in OurCalls
<1>1. Task(r, s) \in DB!Docs /\ Task(r, s).key = r /\ Task(r, s).value = s
  BY DEF Task, DB!Docs
<1>2. r \in Requests \cup FixedKeys /\ "operation_task_data" \in TableNames
  BY DEF TableNames
<1> HIDE DEF Task
<1> QED
  BY <1>1, <1>2 DEF DB!Upsert, DB!Insert, DB!Calls, OurCalls

LEMMA InitCallsTyped ==
  /\ Len(InitCalls) = 6
  /\ \A i \in 1..6 : /\ InitCalls[i] \in OurCalls
                     /\ InitCalls[i].table = "operation_task_data" => InitCalls[i].op = "clear"
                     /\ InitCalls[i].op \in {"upsert", "clear"}
                     /\ InitCalls[i].op = "clear" <=> i = 3
<1> DEFINE ok(c, i) == /\ c \in OurCalls
                       /\ c.table = "operation_task_data" => c.op = "clear"
                       /\ c.op \in {"upsert", "clear"}
                       /\ c.op = "clear" <=> i = 3
<1>1. Len(InitCalls) = 6
  BY DEF InitCalls
<1>2. InitCalls[1] = DB!Upsert("player_data", "attacker", Data("attacker"))
      /\ InitCalls[2] = DB!Upsert("player_data", "defender", Data("defender"))
      /\ InitCalls[3] = DB!Clear("operation_task_data")
      /\ InitCalls[4] = DB!Upsert("env_status_data", "vm_status", Data("vm_status"))
      /\ InitCalls[5] = DB!Upsert("env_status_data", "traffic_flow", Data("traffic_flow"))
      /\ InitCalls[6] = DB!Upsert("env_status_data", "traffic_entropy", Data("traffic_entropy"))
  BY DEF InitCalls
<1>3. \A tb \in TableNames \ {"operation_task_data"}, k \in FixedKeys, i \in {1, 2, 4, 5, 6} :
        ok(DB!Upsert(tb, k, Data(k)), i)
  BY DataCalls
<1>4. ok(DB!Clear("operation_task_data"), 3)
  BY DEF DB!Clear, DB!Calls, OurCalls, TableNames
<1>5. \A i \in 1..6 : ok(InitCalls[i], i)
  <2> HIDE DEF ok
  <2>1. \A i \in {1, 2, 4, 5, 6} : ok(InitCalls[i], i)
    BY <1>2, <1>3 DEF TableNames, FixedKeys
  <2>2. ok(InitCalls[3], 3)
    BY <1>2, <1>4
  <2> QED
    BY <2>1, <2>2
<1> QED
  BY <1>1, <1>5

LEMMA OtherCallsTyped ==
  /\ TopologyCall \in OurCalls /\ TopologyCall.op = "upsert"
  /\ TopologyCall.table # "operation_task_data"
  /\ LET c == DB!Upsert("config", "1.0", Data("1.0")) IN
       c \in OurCalls /\ c.op = "upsert" /\ c.table # "operation_task_data"
<1>1. TopologyCall.op = "upsert" /\ TopologyCall.table # "operation_task_data"
  BY DEF TopologyCall, DB!Upsert
<1>2. Data("Aarnet") \in DB!Docs /\ "current_topo" \in Requests \cup FixedKeys
      /\ "network_topo_data" \in TableNames
  BY DEF Data, DB!Docs, FixedKeys, TableNames
<1>3. TopologyCall \in OurCalls
  <2> HIDE DEF Data
  <2> QED
    BY <1>1, <1>2 DEF TopologyCall, DB!Upsert, DB!Calls, OurCalls
<1>4. LET c == DB!Upsert("config", "1.0", Data("1.0")) IN
       c \in OurCalls /\ c.op = "upsert" /\ c.table = "config"
  BY DataCalls DEF FixedKeys, TableNames
<1> QED
  BY <1>1, <1>3, <1>4

\* Each step of the backend does one thing to the store.
LEMMA OneStoreEffect ==
  ASSUME initCalls \in 0..Len(InitCalls), [BackendNext]_backendVars
  PROVE  StoreEffect
<1> USE ThreadFacts
<1>1. CASE StartProcess \/ UNCHANGED backendVars
  BY <1>1 DEF StartProcess, backendVars, StoreEffect
<1>2. CASE Killed
  BY <1>2 DEF Killed, ProcessEnds, StoreEffect
<1>3. CASE MainStep
  <2>1. CASE CallInit
    BY <2>1, InitCallsTyped DEF CallInit, Calls, StoreEffect
  <2>2. CASE InitCallReturns
    BY <2>2 DEF InitCallReturns, StoreEffect
  <2>3. CASE InitCallRaises
    BY <2>3 DEF InitCallRaises, ProcessEnds, StoreEffect
  <2>4. CASE Serve
    BY <2>4 DEF Serve, StoreEffect
  <2> QED
    BY <1>3, <2>1, <2>2, <2>3, <2>4 DEF MainStep
<1>4. CASE SimulatorStep
  BY <1>4, OtherCallsTyped DEF SimulatorStep, WriteTopology, TopologyWritten, Calls, StoreEffect
<1>5. CASE LoopThread
  <2>1. CASE InitLoop
    BY <2>1, OtherCallsTyped DEF InitLoop, Calls, StoreEffect
  <2>2. CASE QueueSteps
    BY <2>2 DEF QueueSteps, StoreEffect
  <2>3. CASE LoopCallReturns
    BY <2>3 DEF LoopCallReturns, StoreEffect
  <2>4. ASSUME NEW t \in Tasks, NEW s \in {"success", "error"}, UpdateTask(t, s) PROVE StoreEffect
    BY <2>4, TaskCalls DEF UpdateTask, Calls, StoreEffect
  <2> QED
    BY <1>5, <2>1, <2>2, <2>3, <2>4 DEF LoopThread
<1>6. ASSUME NEW r \in Requests, RequestStep(r) PROVE StoreEffect
  <2>1. CASE CreateTask(r)
    BY <2>1, TaskCalls DEF CreateTask, Calls, StoreEffect
  <2>2. CASE r \in Tasks /\ (PutTask(r) \/ TaskIsPut(r))
    BY <2>2 DEF PutTask, TaskIsPut, StoreEffect
  <2>3. CASE r \in SwitchTasks /\ (ExecuteSwitchTask(r) \/ SwitchTaskReturns(r))
    BY <2>3 DEF ExecuteSwitchTask, SwitchTaskReturns, StoreEffect
  <2>4. ASSUME r \in SwitchTasks, NEW isSet \in BOOLEAN, NEW answer \in {"success", "error"},
               RuleAnswers(r, isSet, answer)
        PROVE  StoreEffect
    BY <2>4, TaskCalls DEF RuleAnswers, Calls, StoreEffect
  <2> QED
    BY <1>6, <2>1, <2>2, <2>3, <2>4 DEF RequestStep
<1>7. ASSUME NEW th \in Threads, StoreStep(th) PROVE StoreEffect
  BY <1>7 DEF StoreStep, StoreEffect
<1> QED
  BY <1>1, <1>2, <1>3, <1>4, <1>5, <1>6, <1>7 DEF BackendNext

-----------------------------------------------------------------------------
(* Types.                                                                   *)

\* main calls the store for init_db only.
MainInInit == at["main"] # "idle" => phase = "init" /\ initCalls < Len(InitCalls)

TypeInv == BackendTypeOK /\ CallMatches /\ MainInInit

\* What a step leaves of the types if the store is not its concern.
ProcessTypes ==
    /\ phase \in {"down", "init", "serving"}
    /\ starts \in 0..MaxStarts
    /\ initCalls \in 0..Len(InitCalls)
    /\ simulator \in {"off", "load", "writing", "started", "dead"}
    /\ loopInit \in {"no", "writing", "done"}
    /\ req \in [Requests -> {"none", "insert", "put", "execute", "update", "done", "over"}]
    /\ status \in [SwitchTasks -> {"running", "success", "error"}]
    /\ updating \in SUBSET Tasks
    /\ ruled \in SUBSET SwitchTasks
    /\ mine \in SUBSET Requests
    /\ reported \in SUBSET Tasks
    /\ kept \in [Requests -> {"none", "running", "success", "error"}]
    /\ overlapped \in BOOLEAN /\ brokenStart \in BOOLEAN

LEMMA TypeParts == BackendTypeOK <=> TypeOK /\ DB!DbTypeOK /\ ProcessTypes
BY DEF BackendTypeOK, ProcessTypes

LEMMA TypeInvInit == BackendInit => TypeInv
<1> SUFFICES ASSUME BackendInit PROVE TypeInv
  OBVIOUS
<1> USE ThreadFacts, BackendAssumption
<1>1. TypeOK
  BY QueueTypesInit DEF BackendInit
<1>2. DB!DbInit
  BY DEF BackendInit
<1>3. DB!DbTypeOK
  BY <1>2 DEF DB!DbInit, DB!NoCalls, DB!DbTypeOK, DB!Contents, DB!Steps
<1>4. CallMatches /\ MainInInit
  BY <1>2 DEF DB!DbInit, DB!NoCalls, CallMatches, Writing, MainInInit
<1>5. /\ 0 \in 0..MaxStarts /\ 0 \in 0..Len(InitCalls)
  BY InitCallsTyped
<1>6. ProcessTypes
  BY <1>5 DEF BackendInit, NothingInMemory, ProcessTypes
<1> QED
  BY <1>1, <1>3, <1>4, <1>6, TypeParts DEF TypeInv

\* A step of a call, or none, leaves main where it was.
LEMMA MainStays ==
  ASSUME TypeInv, NEW th \in Threads, DB!DbStep(th)
  PROVE  /\ at[th] # "idle"
         /\ \A u \in Threads \ {th} : at'[u] = at[u]
         /\ at'[th] \in DB!Steps /\ at'[th] # "idle"
<1>1. at \in [Threads -> DB!Steps]
  BY DEF TypeInv, BackendTypeOK, DB!DbTypeOK
<1>2. at[th] \in DB!Reading \cup {"write", "truncate"}
  BY DEF DB!DbStep, DB!Search, DB!ChooseNumber, DB!ReadAll, DB!ReadToClear, DB!Reads,
     DB!ReadRaises, DB!WriteFile, DB!Truncate, DB!Reading
<1>3. PICK s \in DB!Steps \ {"idle"} : at' = [at EXCEPT ![th] = s]
  BY DEF DB!DbStep, DB!Search, DB!ChooseNumber, DB!ReadAll, DB!ReadToClear,
     DB!ReadRaises, DB!WriteFile, DB!Truncate, DB!Ends, DB!Goto, DB!Steps, DB!Reading, DB!Returned
<1> QED
  BY <1>1, <1>2, <1>3 DEF DB!Reading

\* A caller that is idle again, or begins.
LEMMA CallersKeepMain ==
  ASSUME TypeInv, NEW th \in Threads, DB!Continues(th) \/ \E c \in OurCalls : DB!Begins(th, c)
  PROVE  \A u \in Threads \ {th} : at'[u] = at[u]
BY DEF TypeInv, BackendTypeOK, DB!DbTypeOK, DB!Continues, DB!Begins, DB!Goto

LEMMA ContinuesToIdle ==
  ASSUME TypeInv, NEW th \in Threads, DB!Continues(th)
  PROVE  at'[th] = "idle"
BY DEF TypeInv, BackendTypeOK, DB!DbTypeOK, DB!Continues, DB!Goto

\* What is left to prove of an action: the types of what is not in the store.
LEMMA TypeInvFrom ==
  ASSUME TypeInv, [BackendNext]_backendVars, TypeOK', ProcessTypes', MainInInit'
  PROVE  TypeInv'
<1>1. StoreInv
  BY TypeParts DEF TypeInv, StoreInv
<1>2. StoreEffect
  BY OneStoreEffect, TypeParts DEF TypeInv, ProcessTypes
<1>3. StoreInv'
  BY <1>1, <1>2, StoreEffectKeeps
<1> QED
  BY <1>3, TypeParts DEF TypeInv, StoreInv, BackendTypeOK, ProcessTypes

LEMMA EndTypes ==
  ASSUME TypeInv, ProcessEnds
  PROVE  TypeOK' /\ ProcessTypes' /\ MainInInit'
<1>1. TypeOK'
  <2>1. << >> \in Seq(Tasks)
    OBVIOUS
  <2> QED
    BY <2>1, Zenon DEF ProcessEnds, TypeOK
<1>2. MainInInit'
  BY ThreadFacts DEF ProcessEnds, DB!DbKilled, MainInInit
<1>3. ProcessTypes'
  <2>1. ProcessTypes /\ 0 \in 0..Len(InitCalls)
    BY TypeParts, InitCallsTyped DEF TypeInv
  <2>2. req' \in [Requests -> {"none", "insert", "put", "execute", "update", "done", "over"}]
    BY DEF ProcessEnds
  <2>3. kept' \in [Requests -> {"none", "running", "success", "error"}]
    BY DEF ProcessEnds
  <2> QED
    BY <2>1, <2>2, <2>3 DEF ProcessTypes, ProcessEnds
<1> QED
  BY <1>1, <1>2, <1>3

LEMMA MainTypes ==
  ASSUME TypeInv, MainStep
  PROVE  TypeOK' /\ ProcessTypes' /\ MainInInit'
<1> USE ThreadFacts, InitCallsTyped
<1>0. TypeOK /\ ProcessTypes /\ MainInInit
  BY TypeParts DEF TypeInv
<1>1. CASE CallInit
  <2>1. TypeOK' /\ ProcessTypes'
    BY <1>0, <1>1 DEF CallInit, Calls, TypeOK, ProcessTypes, queueVars, process, services, requests, history
  <2>2. MainInInit'
    BY <1>1 DEF CallInit, MainInInit, process
  <2> QED
    BY <2>1, <2>2
<1>2. CASE InitCallReturns
  <2>1. initCalls < Len(InitCalls)
    BY <1>0, <1>2 DEF InitCallReturns, MainInInit
  <2>2. TypeOK' /\ ProcessTypes'
    BY <1>0, <1>2, <2>1 DEF InitCallReturns, TypeOK, ProcessTypes, queueVars, services, requests, history
  <2>3. MainInInit'
    BY <1>2, ContinuesToIdle DEF InitCallReturns, MainInInit
  <2> QED
    BY <2>2, <2>3
<1>3. CASE InitCallRaises
  BY <1>3, EndTypes DEF InitCallRaises
<1>4. CASE Serve
  <2>1. TypeOK' /\ ProcessTypes'
    BY <1>0, <1>4 DEF Serve, TypeOK, ProcessTypes, queueVars, dbVars, services, requests, history
  <2>2. MainInInit'
    BY <1>0, <1>4 DEF Serve, MainInInit, dbVars
  <2> QED
    BY <2>1, <2>2
<1> QED
  BY <1>1, <1>2, <1>3, <1>4 DEF MainStep

LEMMA SimulatorTypes ==
  ASSUME TypeInv, SimulatorStep
  PROVE  TypeOK' /\ ProcessTypes' /\ MainInInit'
<1> USE ThreadFacts
<1>0. TypeOK /\ ProcessTypes /\ MainInInit
  BY TypeParts DEF TypeInv
<1>1. at'["main"] = at["main"]
  <2>1. CASE WriteTopology
    BY <2>1, CallersKeepMain, OtherCallsTyped DEF WriteTopology, Calls
  <2>2. CASE TopologyWritten
    BY <2>2, CallersKeepMain DEF TopologyWritten
  <2> QED
    BY <2>1, <2>2 DEF SimulatorStep
<1>2. TypeOK'
  BY <1>0 DEF SimulatorStep, WriteTopology, TopologyWritten, TypeOK, queueVars
<1>4. ProcessTypes'
  <2>1. simulator' \in {"writing", "started", "dead"}
    BY DEF SimulatorStep, WriteTopology, TopologyWritten
  <2>2. overlapped' \in BOOLEAN
    BY <1>0 DEF SimulatorStep, WriteTopology, TopologyWritten, Calls, ProcessTypes
  <2> QED
    BY <1>0, <2>1, <2>2 DEF SimulatorStep, WriteTopology, TopologyWritten, ProcessTypes,
       process, requests, history
<1>3. MainInInit'
  BY <1>0, <1>1 DEF SimulatorStep, WriteTopology, TopologyWritten, MainInInit, process
<1> QED
  BY <1>2, <1>3, <1>4

LEMMA LoopTypes ==
  ASSUME TypeInv, LoopThread
  PROVE  TypeOK' /\ ProcessTypes' /\ MainInInit'
<1> USE ThreadFacts
<1>0. TypeOK /\ ProcessTypes /\ MainInInit
  BY TypeParts DEF TypeInv
<1>1. CASE InitLoop
  <2>1. at'["main"] = at["main"]
    BY <1>1, CallersKeepMain, OtherCallsTyped DEF InitLoop, Calls
  <2> QED
    BY <1>0, <1>1, <2>1 DEF InitLoop, Calls, TypeOK, ProcessTypes, MainInInit,
       queueVars, process, requests, history
<1>2. CASE QueueSteps
  <2>1. TypeOK'
    BY <1>0, <1>2, QueueTypes DEF QueueSteps, Next
  <2> QED
    BY <1>0, <1>2, <2>1 DEF QueueSteps, ProcessTypes, MainInInit, dbVars, process, services,
       requests, history
<1>3. CASE LoopCallReturns
  <2>1. at'["main"] = at["main"]
    BY <1>3, CallersKeepMain DEF LoopCallReturns
  <2> QED
    BY <1>0, <1>3, <2>1 DEF LoopCallReturns, TypeOK, ProcessTypes, MainInInit,
       queueVars, process, requests, history
<1>4. ASSUME NEW t \in Tasks, NEW s \in {"success", "error"}, UpdateTask(t, s)
      PROVE  TypeOK' /\ ProcessTypes' /\ MainInInit'
  <2>1. at'["main"] = at["main"]
    BY <1>4, CallersKeepMain, TaskCalls DEF UpdateTask, Calls
  <2> QED
    BY <1>0, <1>4, <2>1 DEF UpdateTask, Calls, TypeOK, ProcessTypes, MainInInit,
       queueVars, process, requests
<1> QED
  BY <1>1, <1>2, <1>3, <1>4 DEF LoopThread

LEMMA RequestTypes ==
  ASSUME TypeInv, NEW r \in Requests, RequestStep(r)
  PROVE  TypeOK' /\ ProcessTypes' /\ MainInInit'
<1> USE ThreadFacts
<1>0. TypeOK /\ ProcessTypes /\ MainInInit
  BY TypeParts DEF TypeInv
<1>1. CASE CreateTask(r)
  <2>1. at'["main"] = at["main"]
    BY <1>1, CallersKeepMain, TaskCalls DEF CreateTask, Calls
  <2> QED
    BY <1>0, <1>1, <2>1 DEF CreateTask, Calls, TypeOK, ProcessTypes, MainInInit,
       queueVars, process, services
<1>2. CASE r \in Tasks /\ PutTask(r)
  <2>1. at'["main"] = at["main"]
    BY <1>2, CallersKeepMain DEF PutTask
  <2>2. TypeOK'
    BY <1>0, <1>2, QueueTypes DEF PutTask, Next
  <2> QED
    BY <1>0, <1>2, <2>1, <2>2 DEF PutTask, ProcessTypes, MainInInit, process, services, history
<1>3. CASE r \in Tasks /\ TaskIsPut(r)
  <2>2. TypeOK'
    BY <1>0, <1>3, QueueTypes DEF TaskIsPut, Next
  <2> QED
    BY <1>0, <1>3, <2>2 DEF TaskIsPut, ProcessTypes, MainInInit, dbVars, process, services, history
<1>4. CASE r \in SwitchTasks /\ (ExecuteSwitchTask(r) \/ SwitchTaskReturns(r))
  <2>1. at'["main"] = at["main"]
    BY <1>4, CallersKeepMain DEF ExecuteSwitchTask, SwitchTaskReturns
  <2> QED
    BY <1>0, <1>4, <2>1 DEF ExecuteSwitchTask, SwitchTaskReturns, TypeOK, ProcessTypes,
       MainInInit, queueVars, process, services, history
<1>5. ASSUME r \in SwitchTasks, NEW isSet \in BOOLEAN, NEW answer \in {"success", "error"},
             RuleAnswers(r, isSet, answer)
      PROVE  TypeOK' /\ ProcessTypes' /\ MainInInit'
  <2>1. at'["main"] = at["main"]
    BY <1>5, CallersKeepMain, TaskCalls DEF RuleAnswers, Calls
  <2> QED
    BY <1>0, <1>5, <2>1 DEF RuleAnswers, Calls, TypeOK, ProcessTypes,
       MainInInit, queueVars, process, services, history
<1> QED
  BY <1>1, <1>2, <1>3, <1>4, <1>5 DEF RequestStep

LEMMA StoreStepTypes ==
  ASSUME TypeInv, NEW th \in Threads, StoreStep(th)
  PROVE  TypeOK' /\ ProcessTypes' /\ MainInInit'
<1>0. TypeOK /\ ProcessTypes /\ MainInInit
  BY TypeParts DEF TypeInv
<1>1. at["main"] # "idle" <=> at'["main"] # "idle"
  BY MainStays, ThreadFacts DEF StoreStep
<1>2. kept' \in [Requests -> {"none", "running", "success", "error"}]
  <2>1. at'[th] = "written" => at[th] = "truncate"
    BY ThreadFacts DEF TypeInv, BackendTypeOK, DB!DbTypeOK, StoreStep, DB!DbStep, DB!Search,
       DB!ChooseNumber, DB!ReadAll, DB!ReadToClear, DB!ReadRaises, DB!WriteFile, DB!Truncate,
       DB!Ends, DB!Goto
  <2>2. at'[th] = "written" /\ call[th].table = "operation_task_data" /\ call[th].op # "clear"
        => call[th].doc.value \in {"running", "success", "error"}
    BY <2>1 DEF TypeInv, CallMatches, OurCalls
  <2> QED
    BY <1>0, <2>2 DEF StoreStep, ProcessTypes
<1> QED
  BY <1>0, <1>1, <1>2 DEF StoreStep, TypeOK, ProcessTypes, MainInInit, queueVars, process,
     services, requests

LEMMA TypeInvNext ==
  ASSUME TypeInv, [BackendNext]_backendVars
  PROVE  TypeInv'
<1> SUFFICES TypeOK' /\ ProcessTypes' /\ MainInInit'
  BY TypeInvFrom
<1>0. TypeOK /\ ProcessTypes /\ MainInInit
  BY TypeParts DEF TypeInv
<1>1. CASE UNCHANGED backendVars
  BY <1>0, <1>1 DEF backendVars, TypeOK, ProcessTypes, MainInInit, queueVars, dbVars, process,
     services, requests, history
<1>2. CASE StartProcess
  <2>1. ProcessTypes'
    BY <1>0, <1>2, BackendAssumption, TypeParts DEF StartProcess, ProcessTypes, TypeInv, BackendTypeOK,
       DB!DbTypeOK, requests, history
  <2> QED
    BY <1>0, <1>2, <2>1 DEF StartProcess, TypeOK, MainInInit, queueVars, dbVars
<1>3. CASE Killed
  BY <1>3, EndTypes DEF Killed
<1> QED
  BY <1>1, <1>2, <1>3, MainTypes, SimulatorTypes, LoopTypes, RequestTypes, StoreStepTypes
     DEF BackendNext

\* All threads of all starts keep the types, for any tasks and bounds.
THEOREM BackendTypeCorrect == BackendSpec => []BackendTypeOK
<1>1. TypeInv => BackendTypeOK
  BY DEF TypeInv
<1> QED
  BY <1>1, TypeInvInit, TypeInvNext, PTL DEF BackendSpec

LEMMA TypeInvHolds == BackendSpec => []TypeInv
BY TypeInvInit, TypeInvNext, PTL DEF BackendSpec

-----------------------------------------------------------------------------
(* The order of the tasks, through kills and restarts.                      *)

LEMMA BackendOrder ==
  ASSUME OrderInv, [BackendNext]_backendVars
  PROVE  OrderInv'
<1>1. CASE UNCHANGED queueVars
  BY <1>1 DEF queueVars, OrderInv, QueuesAreSequences, TakenInOrder
<1>2. CASE ProcessEnds
  BY <1>2 DEF ProcessEnds, OrderInv, QueuesAreSequences, TakenInOrder
<1>3. CASE Next
  BY <1>3, OrderStep
<1>4. UNCHANGED queueVars \/ ProcessEnds \/ Next
  <2>1. CASE MainStep \/ SimulatorStep \/ StartProcess \/ Killed
    BY <2>1 DEF MainStep, SimulatorStep, StartProcess, Killed, CallInit, InitCallReturns,
       InitCallRaises, Serve, WriteTopology, TopologyWritten
  <2>2. CASE LoopThread
    BY <2>2 DEF LoopThread, InitLoop, QueueSteps, LoopCallReturns, UpdateTask, Next
  <2>3. ASSUME NEW r \in Requests, RequestStep(r) PROVE UNCHANGED queueVars \/ Next
    BY <2>3 DEF RequestStep, CreateTask, PutTask, TaskIsPut, ExecuteSwitchTask,
       SwitchTaskReturns, RuleAnswers, Next
  <2>4. ASSUME NEW th \in Threads, StoreStep(th) PROVE UNCHANGED queueVars
    BY <2>4 DEF StoreStep
  <2>5. CASE UNCHANGED backendVars
    BY <2>5 DEF backendVars
  <2> QED
    BY <2>1, <2>2, <2>3, <2>4, <2>5 DEF BackendNext
<1> QED
  BY <1>1, <1>2, <1>3, <1>4

\* In the backend too, around whose queue processes die and calls raise, the loop
\* takes the tasks of a process in the order of the requests' puts, each once.
THEOREM BackendOrderCorrect == BackendSpec => []TakenInOrder
<1>1. BackendInit => OrderInv
  BY DEF BackendInit, Init, OrderInv, QueuesAreSequences, TakenInOrder
<1>2. OrderInv => TakenInOrder
  BY DEF OrderInv
<1> QED
  BY <1>1, <1>2, BackendOrder, PTL DEF BackendSpec

-----------------------------------------------------------------------------
(* The unreadable file.                                                     *)

\* A step of a call on a broken file: it may raise, or end.
LEMMA BrokenStep ==
  ASSUME TypeInv, BrokenFile, NEW th \in Threads, DB!DbStep(th)
  PROVE  readable' = FALSE /\ at'[th] \in {"raised", "written"}
         /\ (at'[th] = "written" => at[th] = "truncate")
<1> USE DEF TypeInv, BackendTypeOK, DB!DbTypeOK, BrokenFile
<1>1. CASE DB!Search(th) \/ DB!ChooseNumber(th) \/ DB!ReadAll(th) \/ DB!ReadToClear(th)
  BY <1>1 DEF DB!Search, DB!ChooseNumber, DB!ReadAll, DB!ReadToClear, DB!Reads
<1>2. CASE DB!ReadRaises(th)
  BY <1>2 DEF DB!ReadRaises, DB!Ends, DB!Goto
<1>3. CASE DB!WriteFile(th)
  BY <1>3 DEF DB!WriteFile
<1>4. CASE DB!Truncate(th)
  BY <1>4 DEF DB!Truncate, DB!Ends, DB!Goto
<1> QED
  BY <1>1, <1>2, <1>3, <1>4 DEF DB!DbStep

LEMMA BrokenNext ==
  ASSUME TypeInv, BrokenFile, [BackendNext]_backendVars
  PROVE  BrokenFile'
<1>1. StoreEffect /\ StoreInv
  BY OneStoreEffect, TypeParts DEF TypeInv, ProcessTypes, StoreInv
<1>2. CASE UNCHANGED dbVars
  BY <1>2 DEF BrokenFile, dbVars
<1>3. CASE DB!DbKilled
  BY <1>3 DEF BrokenFile, DB!DbKilled
<1>4. ASSUME NEW th \in Threads, NEW c \in OurCalls, DB!Begins(th, c) PROVE BrokenFile'
  <2>1. at'[th] # "write" /\ \A u \in Threads \ {th} : at'[u] = at[u]
    BY <1>1, <1>4, BeginsKeepsStore, CallersKeepMain
  <2> QED
    BY <1>4, <2>1 DEF BrokenFile, DB!Begins
<1>5. ASSUME NEW th \in Threads, DB!Continues(th) PROVE BrokenFile'
  <2>1. at'[th] # "write" /\ \A u \in Threads \ {th} : at'[u] = at[u]
    BY <1>5, ContinuesToIdle, CallersKeepMain
  <2> QED
    BY <1>5, <2>1 DEF BrokenFile, DB!Continues
<1>6. ASSUME NEW th \in Threads, DB!DbStep(th) PROVE BrokenFile'
  BY <1>6, BrokenStep, MainStays DEF BrokenFile
<1> QED
  BY <1>1, <1>2, <1>3, <1>4, <1>5, <1>6 DEF StoreEffect

\* No call of any thread, no kill and no restart makes the file readable again.
THEOREM BrokenStaysBrokenCorrect == BackendSpec => BrokenStaysBroken
<1>1. TypeInv /\ [BackendNext]_backendVars => [BrokenFile => BrokenFile']_backendVars
  BY BrokenNext
<1> QED
  BY <1>1, TypeInvHolds, PTL DEF BackendSpec, BrokenStaysBroken

\* No thread lives between two processes.
DownInv ==
    phase = "down" =>
        /\ simulator = "off" /\ initCalls = 0
        /\ \A th \in Threads : at[th] = "idle"
        /\ \A r \in Requests : req[r] \in {"none", "over"}

\* Where the threads of a process are that has found the file broken.
BeforeReading == {"idle", "search", "number", "clear", "raised"}

BrokenStart ==
    brokenStart /\ phase # "down" =>
        /\ phase = "init" /\ ~readable /\ initCalls = 0
        /\ simulator \in {"load", "writing", "dead"}
        /\ \A th \in Threads : at[th] \in BeforeReading

\* While there is no process nothing happens but its start.
LEMMA DownSteps ==
  ASSUME TypeInv, DownInv, phase = "down", BackendNext
  PROVE  StartProcess
<1> USE ThreadFacts DEF DownInv
<1>1. ~Killed /\ ~MainStep /\ ~SimulatorStep
  BY DEF Killed, MainStep, CallInit, InitCallReturns, InitCallRaises, Serve, SimulatorStep,
     WriteTopology, TopologyWritten
<1>2. ~LoopThread
  BY DEF LoopThread, InitLoop, QueueSteps, LoopCallReturns, UpdateTask, LoopIsFree,
     DB!Continues, DB!Returned
<1>3. \A r \in Requests : ~RequestStep(r)
  BY DEF RequestStep, CreateTask, PutTask, TaskIsPut, ExecuteSwitchTask, SwitchTaskReturns,
     RuleAnswers
<1>4. \A th \in Threads : ~StoreStep(th)
  BY MainStays DEF StoreStep
<1> QED
  BY <1>1, <1>2, <1>3, <1>4 DEF BackendNext

LEMMA DownNext ==
  ASSUME TypeInv, DownInv, [BackendNext]_backendVars
  PROVE  DownInv'
<1>1. CASE UNCHANGED backendVars
  BY <1>1 DEF DownInv, backendVars, process, services, dbVars, requests
<1>2. CASE phase = "down" /\ BackendNext
  BY <1>2, DownSteps DEF StartProcess, DownInv
<1>3. CASE phase # "down" /\ phase' = "down" /\ BackendNext
  <2>1. ProcessEnds
    BY <1>3 DEF BackendNext, StartProcess, Killed, MainStep, CallInit, InitCallReturns,
       InitCallRaises, Serve, SimulatorStep, WriteTopology, TopologyWritten, LoopThread,
       InitLoop, QueueSteps, LoopCallReturns, UpdateTask, RequestStep, CreateTask, PutTask,
       TaskIsPut, ExecuteSwitchTask, SwitchTaskReturns, RuleAnswers, StoreStep, process
  <2> QED
    BY <2>1 DEF ProcessEnds, DB!DbKilled, DownInv
<1> QED
  BY <1>1, <1>2, <1>3 DEF DownInv

\* What a step does to a process that has found the file broken: it kills it, or
\* leaves its threads before their first read.
LEMMA BrokenStoreStep ==
  ASSUME TypeInv, ~readable, \A th \in Threads : at[th] \in BeforeReading, StoreEffect
  PROVE  ~readable' /\ \A th \in Threads : at'[th] \in BeforeReading
<1> USE DEF BeforeReading
<1>1. StoreInv /\ BrokenFile
  BY TypeParts DEF TypeInv, StoreInv, BrokenFile
<1>2. CASE UNCHANGED dbVars
  BY <1>2 DEF dbVars
<1>3. CASE DB!DbKilled
  BY <1>3 DEF DB!DbKilled
<1>4. ASSUME NEW th \in Threads, NEW c \in OurCalls, DB!Begins(th, c)
      PROVE  ~readable' /\ \A u \in Threads : at'[u] \in BeforeReading
  <2>1. at'[th] \in BeforeReading /\ \A u \in Threads \ {th} : at'[u] = at[u]
    BY <1>1, <1>4, BeginsKeepsStore, CallersKeepMain
  <2> QED
    BY <1>4, <2>1 DEF DB!Begins
<1>5. ASSUME NEW th \in Threads, DB!Continues(th)
      PROVE  ~readable' /\ \A u \in Threads : at'[u] \in BeforeReading
  <2>1. at'[th] \in BeforeReading /\ \A u \in Threads \ {th} : at'[u] = at[u]
    BY <1>5, ContinuesToIdle, CallersKeepMain
  <2> QED
    BY <1>5, <2>1 DEF DB!Continues
<1>6. ASSUME NEW th \in Threads, DB!DbStep(th)
      PROVE  ~readable' /\ \A u \in Threads : at'[u] \in BeforeReading
  <2>1. at'[th] = "raised" /\ readable' = FALSE
    BY <1>1, <1>6, BrokenStep
  <2> QED
    BY <1>6, <2>1, MainStays
<1> QED
  BY <1>2, <1>3, <1>4, <1>5, <1>6 DEF StoreEffect

LEMMA BrokenStartNext ==
  ASSUME TypeInv, DownInv, BrokenStart, [BackendNext]_backendVars
  PROVE  BrokenStart'
<1>0. StoreEffect
  BY OneStoreEffect, TypeParts DEF TypeInv, ProcessTypes
<1>1. CASE StartProcess
  BY <1>1 DEF StartProcess, BrokenStart, DownInv, BeforeReading, dbVars
<1>2. CASE ~StartProcess /\ phase = "down"
  BY <1>2, DownSteps DEF BrokenStart, backendVars, process
<1>3. CASE ~StartProcess /\ phase # "down" /\ ~brokenStart
  <2>1. brokenStart' = brokenStart
    BY <1>3 DEF BackendNext, Killed, ProcessEnds, MainStep, CallInit, InitCallReturns,
       InitCallRaises, Serve, SimulatorStep, WriteTopology, TopologyWritten, LoopThread,
       InitLoop, QueueSteps, LoopCallReturns, UpdateTask, RequestStep, CreateTask, PutTask,
       TaskIsPut, ExecuteSwitchTask, SwitchTaskReturns, RuleAnswers, StoreStep, process,
       backendVars
  <2> QED
    BY <1>3, <2>1 DEF BrokenStart
<1>4. CASE ~StartProcess /\ phase = "init" /\ brokenStart
  <2>1. ~readable' /\ \A th \in Threads : at'[th] \in BeforeReading
    BY <1>0, <1>4, BrokenStoreStep DEF BrokenStart
  <2>2. CASE MainStep
    <3>1. at["main"] # "written" /\ initCalls = 0
      BY <1>4, ThreadFacts DEF BrokenStart, BeforeReading
    <3> QED
      BY <1>4, <2>1, <2>2, <3>1, InitCallsTyped DEF MainStep, CallInit, InitCallReturns,
         InitCallRaises, ProcessEnds, Serve, BrokenStart, process, services
  <2>3. CASE SimulatorStep
    <3>1. at["simulator"] # "written"
      BY <1>4, ThreadFacts DEF BrokenStart, BeforeReading
    <3> QED
      BY <1>4, <2>1, <2>3, <3>1 DEF SimulatorStep, WriteTopology, TopologyWritten,
         BrokenStart, process
  <2>4. CASE Killed
    BY <2>4 DEF Killed, ProcessEnds, BrokenStart
  <2>5. ASSUME UNCHANGED <<process, simulator>> PROVE BrokenStart'
    BY <1>4, <2>1, <2>5 DEF BrokenStart, process
  <2>6. CASE LoopThread
    BY <2>5, <2>6 DEF LoopThread, InitLoop, QueueSteps, LoopCallReturns, UpdateTask, services
  <2>7. ASSUME NEW r \in Requests, RequestStep(r) PROVE BrokenStart'
    BY <2>5, <2>7 DEF RequestStep, CreateTask, PutTask, TaskIsPut, ExecuteSwitchTask,
       SwitchTaskReturns, RuleAnswers, services
  <2>8. ASSUME NEW th \in Threads, StoreStep(th) PROVE BrokenStart'
    BY <2>5, <2>8 DEF StoreStep, services
  <2>9. CASE UNCHANGED backendVars
    BY <2>5, <2>9 DEF backendVars, services
  <2> QED
    BY <1>4, <2>2, <2>3, <2>4, <2>6, <2>7, <2>8, <2>9 DEF BackendNext
<1> QED
  BY <1>1, <1>2, <1>3, <1>4 DEF BrokenStart

\* With a file that is no JSON the backend neither serves nor emulates, whatever
\* its threads' order and whatever topology and tasks there are.
THEOREM BrokenFileCorrect == BackendSpec => []BrokenFileStopsTheStart
<1>1. BackendInit => DownInv /\ BrokenStart
  BY DEF BackendInit, NothingInMemory, DB!DbInit, DB!NoCalls, DownInv, BrokenStart
<1>2. DownInv /\ BrokenStart => BrokenFileStopsTheStart
  BY DEF DownInv, BrokenStart, BrokenFileStopsTheStart
<1>3. TypeInv /\ DownInv /\ BrokenStart /\ [BackendNext]_backendVars => DownInv' /\ BrokenStart'
  BY DownNext, BrokenStartNext
<1> QED
  BY <1>1, <1>2, <1>3, TypeInvHolds, PTL DEF BackendSpec

-----------------------------------------------------------------------------
(* What is in the queue, and what is in the table of tasks.                 *)

\* A task in the queue, or taken, was put there by a request.
Asked == \A t \in Range(items) \cup Range(taken) : t \in Tasks /\ req[t] # "none"

Genuine(k, v) ==
    /\ k \in Requests /\ req[k] # "none"
    /\ k \in Tasks /\ v # "running" => k \in reported
    /\ k \in SwitchTasks /\ v = "success" => k \in ruled

\* What a call is to write to the table of tasks.
GenuineCall(c) ==
    c.op # "clear" /\ c.table = "operation_task_data" => Genuine(c.doc.key, c.doc.value)

\* What the file and the calls under way hold for the table of tasks is genuine.
DocsInv ==
    /\ \A d \in file : d.table = "operation_task_data" => Genuine(d.key, d.value)
    /\ \A th \in Threads : \A d \in copy[th] :
         d.table = "operation_task_data" => Genuine(d.key, d.value)
    /\ \A th \in Threads : at[th] \in Writing => GenuineCall(call[th])

\* Requests are not taken back.
HistoryGrows ==
    /\ \A r \in Requests : req[r] # "none" => req'[r] # "none"
    /\ reported \subseteq reported' /\ ruled \subseteq ruled'

LEMMA GenuineStays ==
  ASSUME HistoryGrows, NEW k, NEW v, Genuine(k, v)
  PROVE  Genuine(k, v)'
BY DEF HistoryGrows, Genuine

LEMMA GenuineCallStays ==
  ASSUME HistoryGrows, NEW c, GenuineCall(c)
  PROVE  GenuineCall(c)'
BY DEF HistoryGrows, Genuine, GenuineCall

LEMMA DocsBegin ==
  ASSUME TypeInv, DocsInv, HistoryGrows, NEW th \in Threads, NEW c \in OurCalls,
         DB!Begins(th, c), GenuineCall(c)'
  PROVE  DocsInv'
<1>1. file' = file /\ copy' = copy /\ call' = [call EXCEPT ![th] = c]
      /\ \A u \in Threads \ {th} : at'[u] = at[u]
  BY CallersKeepMain DEF DB!Begins
<1>2. call'[th] = c /\ \A u \in Threads \ {th} : call'[u] = call[u]
  BY <1>1 DEF TypeInv, BackendTypeOK, DB!DbTypeOK
<1>3. ASSUME NEW u \in Threads, at'[u] \in Writing PROVE GenuineCall(call[u])'
  <2>1. CASE u = th
    BY <1>2, <2>1 DEF GenuineCall, Genuine
  <2>2. CASE u # th
    BY <1>1, <1>2, <1>3, <2>2, HistoryGrows DEF DocsInv, GenuineCall, Genuine, HistoryGrows
  <2> QED
    BY <2>1, <2>2
<1> QED
  BY <1>1, <1>3, GenuineStays DEF DocsInv

LEMMA DocsContinue ==
  ASSUME TypeInv, DocsInv, HistoryGrows, NEW th \in Threads, DB!Continues(th)
  PROVE  DocsInv'
<1>1. file' = file /\ copy' = copy /\ call' = call
      /\ \A u \in Threads : at'[u] \in Writing => at[u] \in Writing
  BY ContinuesToIdle, CallersKeepMain DEF DB!Continues, Writing
<1> QED
  BY <1>1, GenuineStays DEF DocsInv, GenuineCall

LEMMA DocsKilled ==
  ASSUME TypeInv, DocsInv, HistoryGrows, DB!DbKilled
  PROVE  DocsInv'
<1>1. file' = file /\ \A th \in Threads : at'[th] = "idle" /\ copy'[th] = {}
  BY DEF DB!DbKilled
<1> QED
  BY <1>1, GenuineStays DEF DocsInv, Writing

\* The documents a call writes are those of the file, and its own.
LEMMA DocsReadAll ==
  ASSUME TypeInv, DocsInv, NEW th \in Threads, DB!ReadAll(th),
         NEW d \in copy'[th], d.table = "operation_task_data"
  PROVE  Genuine(d.key, d.value)
<1>1. at[th] \in Writing /\ call[th].op # "clear"
  BY DEF DB!ReadAll, DB!Reads, TypeInv, CallMatches, Writing
<1>2. GenuineCall(call[th])
  BY <1>1 DEF DocsInv
<1>3. d \in file \cup DB!Written(th)
  BY DEF DB!ReadAll, TypeInv, BackendTypeOK, DB!DbTypeOK
<1>4. CASE d \in DB!Written(th)
  <2>1. d.table = call[th].table /\ d.key = call[th].doc.key /\ d.value = call[th].doc.value
    BY <1>4 DEF DB!Written
  <2> QED
    BY <1>1, <1>2, <2>1 DEF GenuineCall
<1> QED
  BY <1>3, <1>4 DEF DocsInv

LEMMA DocsStep ==
  ASSUME TypeInv, DocsInv, HistoryGrows, NEW th \in Threads, DB!DbStep(th)
  PROVE  DocsInv'
<1>1. \A d \in file' : d.table = "operation_task_data" => Genuine(d.key, d.value)
  <2>1. file' = file \/ file' = copy[th]
    BY DEF DB!DbStep, DB!Search, DB!ChooseNumber, DB!ReadAll, DB!ReadToClear, DB!ReadRaises,
       DB!WriteFile, DB!Truncate
  <2> QED
    BY <2>1 DEF DocsInv
<1>2. ASSUME NEW u \in Threads, NEW d \in copy'[u], d.table = "operation_task_data"
      PROVE  Genuine(d.key, d.value)
  <2>1. CASE DB!ReadAll(th)
    <3>1. u # th => copy'[u] = copy[u]
      BY <2>1 DEF DB!ReadAll, TypeInv, BackendTypeOK, DB!DbTypeOK
    <3> QED
      BY <1>2, <2>1, <3>1, DocsReadAll DEF DocsInv
  <2>2. CASE DB!ReadToClear(th)
    <3>1. copy'[u] \subseteq IF u = th THEN file ELSE copy[u]
      BY <2>2 DEF DB!ReadToClear, TypeInv, BackendTypeOK, DB!DbTypeOK
    <3> QED
      BY <1>2, <3>1 DEF DocsInv
  <2>3. CASE ~DB!ReadAll(th) /\ ~DB!ReadToClear(th)
    <3>1. copy'[u] \subseteq copy[u]
      BY <2>3 DEF DB!DbStep, DB!Search, DB!ChooseNumber, DB!ReadRaises, DB!WriteFile,
         DB!Truncate, DB!Ends, TypeInv, BackendTypeOK, DB!DbTypeOK
    <3> QED
      BY <1>2, <3>1 DEF DocsInv
  <2> QED
    BY <2>1, <2>2, <2>3
<1>3. ASSUME NEW u \in Threads, at'[u] \in Writing PROVE at[u] \in Writing /\ call'[u] = call[u]
  <2>1. CASE u = th
    BY <1>3, <2>1 DEF DB!DbStep, DB!Search, DB!ChooseNumber, DB!ReadAll, DB!ReadToClear,
       DB!Reads, DB!ReadRaises, DB!WriteFile, DB!Truncate, DB!Ends, DB!Goto, Writing,
       TypeInv, BackendTypeOK, DB!DbTypeOK
  <2>2. CASE u # th
    BY <1>3, <2>2, MainStays DEF DB!DbStep, DB!Search, DB!ChooseNumber, DB!ReadAll,
       DB!ReadToClear, DB!ReadRaises, DB!WriteFile, DB!Truncate, DB!Ends,
       TypeInv, BackendTypeOK, DB!DbTypeOK
  <2> QED
    BY <2>1, <2>2
<1>4. \A u \in Threads : at'[u] \in Writing => GenuineCall(call'[u])
  BY <1>3 DEF DocsInv
<1> QED
  BY <1>1, <1>2, <1>4, GenuineStays DEF DocsInv, GenuineCall

LEMMA DocsUnchanged ==
  ASSUME DocsInv, HistoryGrows, UNCHANGED dbVars
  PROVE  DocsInv'
BY GenuineStays DEF DocsInv, GenuineCall, dbVars

LEMMA HistoryNext ==
  ASSUME TypeInv, [BackendNext]_backendVars
  PROVE  HistoryGrows
<1> USE DEF HistoryGrows
<1>0. /\ req \in [Requests -> {"none", "insert", "put", "execute", "update", "done", "over"}]
      /\ ThreadFacts
  BY ThreadFacts, TypeParts DEF TypeInv, ProcessTypes
<1>1. CASE ProcessEnds
  BY <1>0, <1>1 DEF ProcessEnds
<1>2. ASSUME UNCHANGED <<req, reported, ruled>> PROVE HistoryGrows
  BY <1>2
<1>3. CASE StartProcess \/ Killed \/ MainStep \/ SimulatorStep
  BY <1>1, <1>2, <1>3 DEF StartProcess, Killed, MainStep, CallInit, InitCallReturns,
     InitCallRaises, Serve, SimulatorStep, WriteTopology, TopologyWritten, requests, history
<1>4. CASE LoopThread
  BY <1>4 DEF LoopThread, InitLoop, QueueSteps, LoopCallReturns, UpdateTask, requests, history
<1>5. ASSUME NEW r \in Requests, RequestStep(r) PROVE HistoryGrows
  BY <1>0, <1>5 DEF RequestStep, CreateTask, PutTask, TaskIsPut, ExecuteSwitchTask,
     SwitchTaskReturns, RuleAnswers, history
<1>6. ASSUME NEW th \in Threads, StoreStep(th) PROVE HistoryGrows
  BY <1>6 DEF StoreStep, requests
<1>7. CASE UNCHANGED backendVars
  BY <1>7 DEF backendVars, requests, history
<1> QED
  BY <1>1, <1>3, <1>4, <1>5, <1>6, <1>7 DEF BackendNext

LEMMA AskedNext ==
  ASSUME TypeInv, Asked, [BackendNext]_backendVars
  PROVE  Asked'
<1>0. HistoryGrows /\ TypeOK /\ ProcessTypes
  BY HistoryNext, TypeParts DEF TypeInv
<1>1. ASSUME UNCHANGED <<items, taken>> PROVE Asked'
  BY <1>0, <1>1, ThreadFacts DEF Asked, HistoryGrows
<1>2. CASE ProcessEnds
  BY <1>2, EmptyRange DEF ProcessEnds, Asked
<1>3. CASE LoopThread
  <2>1. CASE GetReturns
    <3>1. /\ items \in Seq(Tasks) /\ taken \in Seq(Tasks) /\ items # << >>
          /\ items' = Tail(items) /\ taken' = Append(taken, Head(items))
      BY <1>0, <2>1 DEF GetReturns, TypeOK
    <3>2. Range(items') \cup Range(taken') \subseteq Range(items) \cup Range(taken)
      BY <3>1, HeadInRange, TailRange, AppendRange
    <3> QED
      BY <1>0, <3>2, ThreadFacts DEF Asked, HistoryGrows
  <2>2. CASE ~GetReturns
    BY <1>1, <1>3, <2>2 DEF LoopThread, InitLoop, QueueSteps, LoopCallReturns, UpdateTask,
       LoopStep, NextRound, GetFindsEmpty, GetRegisters, LoopSelects, GetResumes, TimerEnds,
       queueVars
  <2> QED
    BY <2>1, <2>2
<1>4. ASSUME NEW t \in Tasks, PutTask(t) PROVE Asked'
  <2>1. items \in Seq(Tasks) /\ items' = Append(items, t) /\ taken' = taken
    BY <1>0, <1>4 DEF PutTask, PutAppends, TypeOK
  <2>2. Range(items') = Range(items) \cup {t}
    BY <2>1, AppendRange
  <2>3. req'[t] # "none"
    BY <1>0, <1>4, ThreadFacts DEF PutTask, ProcessTypes
  <2> QED
    BY <1>0, <2>1, <2>2, <2>3, ThreadFacts DEF Asked, HistoryGrows
<1>5. ASSUME NEW r \in Requests, RequestStep(r), ~(r \in Tasks /\ PutTask(r)) PROVE Asked'
  BY <1>1, <1>5 DEF RequestStep, CreateTask, TaskIsPut, PutWakes, ExecuteSwitchTask,
     SwitchTaskReturns, RuleAnswers, queueVars
<1>6. CASE StartProcess \/ Killed \/ MainStep \/ SimulatorStep
  BY <1>1, <1>2, <1>6 DEF StartProcess, Killed, MainStep, CallInit, InitCallReturns,
     InitCallRaises, Serve, SimulatorStep, WriteTopology, TopologyWritten, queueVars
<1>7. ASSUME NEW th \in Threads, StoreStep(th) PROVE Asked'
  BY <1>1, <1>7 DEF StoreStep, queueVars
<1>8. CASE UNCHANGED backendVars
  BY <1>1, <1>8 DEF backendVars, queueVars
<1> QED
  BY <1>3, <1>4, <1>5, <1>6, <1>7, <1>8 DEF BackendNext

LEMMA DocsNext ==
  ASSUME TypeInv, Asked, DocsInv, [BackendNext]_backendVars
  PROVE  DocsInv'
<1>0. HistoryGrows /\ ProcessTypes
  BY HistoryNext, TypeParts DEF TypeInv
<1> USE <1>0, ThreadFacts
<1>1. CASE UNCHANGED dbVars
  BY <1>1, DocsUnchanged
<1>2. CASE DB!DbKilled
  BY <1>2, DocsKilled
<1>3. ASSUME NEW th \in Threads, DB!Continues(th) \/ DB!DbStep(th) PROVE DocsInv'
  BY <1>3, DocsContinue, DocsStep
<1>4. CASE StartProcess \/ Killed \/ UNCHANGED backendVars
  BY <1>1, <1>2, <1>4 DEF StartProcess, Killed, ProcessEnds, backendVars
<1>5. CASE MainStep
  <2>1. CASE CallInit
    <3>1. PICK i \in 1..6 : DB!Begins("main", InitCalls[i])
      BY <2>1, InitCallsTyped DEF CallInit, Calls, ProcessTypes
    <3>2. GenuineCall(InitCalls[i])'
      BY <3>1, InitCallsTyped DEF GenuineCall
    <3> QED
      BY <3>1, <3>2, DocsBegin, InitCallsTyped
  <2>2. CASE InitCallReturns \/ InitCallRaises \/ Serve
    BY <1>1, <1>2, <1>3, <2>2 DEF InitCallReturns, InitCallRaises, ProcessEnds, Serve
  <2> QED
    BY <1>5, <2>1, <2>2 DEF MainStep
<1>6. CASE SimulatorStep
  <2>1. GenuineCall(TopologyCall)'
    BY OtherCallsTyped DEF GenuineCall
  <2> QED
    BY <1>3, <1>6, <2>1, DocsBegin, OtherCallsTyped
       DEF SimulatorStep, WriteTopology, TopologyWritten, Calls
<1>7. CASE LoopThread
  <2>1. CASE InitLoop
    <3> DEFINE c == DB!Upsert("config", "1.0", Data("1.0"))
    <3>1. GenuineCall(c)'
      BY OtherCallsTyped DEF GenuineCall
    <3>2. c \in OurCalls /\ DB!Begins("loop", c)
      BY <2>1, OtherCallsTyped DEF InitLoop, Calls
    <3> QED
      BY <3>1, <3>2, DocsBegin
  <2>2. CASE QueueSteps \/ LoopCallReturns
    BY <1>1, <1>3, <2>2 DEF QueueSteps, LoopCallReturns
  <2>3. ASSUME NEW t \in Tasks, NEW s \in {"success", "error"}, UpdateTask(t, s) PROVE DocsInv'
    <3> DEFINE c == DB!Upsert("operation_task_data", t, Task(t, s))
    <3>1. Genuine(t, s)'
      BY <2>3 DEF UpdateTask, Asked, Genuine, HistoryGrows
    <3>2. c.doc.key = t /\ c.doc.value = s
      BY DEF DB!Upsert, Task
    <3>3. GenuineCall(c)'
      BY <3>1, <3>2 DEF GenuineCall, Genuine
    <3>4. c \in OurCalls /\ DB!Begins("loop", c)
      BY <2>3, TaskCalls DEF UpdateTask, Calls
    <3> QED
      BY <3>3, <3>4, DocsBegin
  <2> QED
    BY <1>7, <2>1, <2>2, <2>3 DEF LoopThread
<1>8. ASSUME NEW r \in Requests, RequestStep(r) PROVE DocsInv'
  <2>1. CASE CreateTask(r)
    <3> DEFINE c == DB!Insert("operation_task_data", Task(r, "running"))
    <3>1. Genuine(r, "running")'
      BY <2>1 DEF CreateTask, Genuine, ProcessTypes
    <3>2. c.doc.key = r /\ c.doc.value = "running"
      BY DEF DB!Insert, Task
    <3>3. GenuineCall(c)'
      BY <3>1, <3>2 DEF GenuineCall, Genuine
    <3>4. c \in OurCalls /\ DB!Begins(r, c)
      BY <2>1, TaskCalls DEF CreateTask, Calls
    <3> QED
      BY <3>3, <3>4, DocsBegin
  <2>2. ASSUME r \in SwitchTasks, NEW isSet \in BOOLEAN, NEW answer \in {"success", "error"},
               RuleAnswers(r, isSet, answer)
        PROVE  DocsInv'
    <3> DEFINE c == DB!Upsert("operation_task_data", r, Task(r, answer))
    <3>1. Genuine(r, answer)'
      BY <2>2 DEF RuleAnswers, Genuine, ProcessTypes
    <3>2. c.doc.key = r /\ c.doc.value = answer
      BY DEF DB!Upsert, Task
    <3>3. GenuineCall(c)'
      BY <3>1, <3>2 DEF GenuineCall, Genuine
    <3>4. c \in OurCalls /\ DB!Begins(r, c)
      BY <2>2, TaskCalls DEF RuleAnswers, Calls
    <3> QED
      BY <3>3, <3>4, DocsBegin
  <2>3. CASE \/ r \in Tasks /\ (PutTask(r) \/ TaskIsPut(r))
             \/ r \in SwitchTasks /\ (ExecuteSwitchTask(r) \/ SwitchTaskReturns(r))
    BY <1>1, <1>3, <2>3 DEF PutTask, TaskIsPut, ExecuteSwitchTask, SwitchTaskReturns
  <2> QED
    BY <1>8, <2>1, <2>2, <2>3 DEF RequestStep
<1>9. ASSUME NEW th \in Threads, StoreStep(th) PROVE DocsInv'
  BY <1>3, <1>9 DEF StoreStep
<1> QED
  BY <1>4, <1>5, <1>6, <1>7, <1>8, <1>9 DEF BackendNext

\* The table of tasks holds nothing that nobody did, for any number of tasks,
\* threads' calls at once and starts, and whatever garbles the file.
THEOREM DocumentsCorrect == BackendSpec => []DocumentsAreGenuine
<1>1. BackendInit => Asked /\ DocsInv
  BY EmptyRange DEF BackendInit, Init, DB!DbInit, DB!NoCalls, Asked, DocsInv, Writing
<1>2. DocsInv => DocumentsAreGenuine
  BY DEF DocsInv, Genuine, DocumentsAreGenuine, TaskDocs, DB!InTable
<1>3. TypeInv /\ Asked /\ DocsInv /\ [BackendNext]_backendVars => Asked' /\ DocsInv'
  BY AskedNext, DocsNext
<1> QED
  BY <1>1, <1>2, <1>3, TypeInvHolds, PTL DEF BackendSpec

-----------------------------------------------------------------------------
(* The history of tasks that init_db clears.                                *)

Others == Threads \ {"main", "simulator"}

LifeCalls ==
    /\ phase # "serving" => \A th \in Others : at[th] = "idle"
    /\ at["main"] \notin {"idle", "written", "raised"} => call["main"] = InitCalls[initCalls + 1]
    /\ \A th \in Others : at[th] \in Writing /\ call[th].table = "operation_task_data"
                          => call[th].doc.key \in mine

\* What a process has under way is its own: it began with nothing.
LifeInv ==
    /\ LifeCalls
    /\ phase # "serving" => \A r \in Requests : req[r] \in {"none", "over"}
    /\ phase = "serving" => initCalls = Len(InitCalls)
    /\ \A r \in Requests : req[r] \notin {"none", "over"} => r \in mine
    /\ \A t \in Range(items) \cup Range(taken) : t \in mine

\* The simulator has written, perhaps what it read before init_db cleared.
SimulatorWrote == simulator = "started" \/ at["simulator"] \in {"truncate", "written"}

Fresh(docs) == \A d \in docs : d.table = "operation_task_data" => d.key \in mine

\* Until then the table of tasks is the process's own once init_db's third call
\* has written.
ClearedInv ==
    phase # "down" /\ ~SimulatorWrote =>
        /\ initCalls >= 3 \/ (initCalls = 2 /\ at["main"] \in {"truncate", "written"})
             => Fresh(file)
        /\ initCalls >= 2 /\ at["main"] = "write" => Fresh(copy["main"])
        /\ \A th \in Others : at[th] = "write" => Fresh(copy[th])

LEMMA ThirdCallClears ==
  /\ InitCalls[3].table = "operation_task_data"
  /\ \A i \in 1..6 \ {3} : InitCalls[i].op = "upsert" /\ InitCalls[i].table # "operation_task_data"
<1>1. InitCalls[3] = DB!Clear("operation_task_data")
  BY DEF InitCalls
<1> QED
  BY <1>1, InitCallsTyped DEF DB!Clear

\* A step of another thread's call, or its end, moves no thread but its own.
LEMMA CallUnderWay ==
  ASSUME TypeInv, NEW th \in Threads, DB!DbStep(th)
  PROVE  /\ \A u \in Threads \ {th} : call'[u] = call[u]
         /\ at'[th] \notin {"idle", "written", "raised"} =>
              at[th] \notin {"idle", "written", "raised"} /\ call'[th] = call[th]
         /\ at'[th] \in Writing => at[th] \in Writing
<1>1. /\ at \in [Threads -> DB!Steps] /\ call \in [Threads -> DB!Calls \cup {DB!NoCall}]
  BY DEF TypeInv, BackendTypeOK, DB!DbTypeOK
<1>2. at[th] \in DB!Reading \cup {"write", "truncate"}
  BY DEF DB!DbStep, DB!Search, DB!ChooseNumber, DB!ReadAll, DB!ReadToClear, DB!Reads,
     DB!ReadRaises, DB!WriteFile, DB!Truncate, DB!Reading
<1> QED
  BY <1>1, <1>2 DEF DB!DbStep, DB!Search, DB!ChooseNumber, DB!ReadAll, DB!ReadToClear,
     DB!Reads, DB!ReadRaises, DB!WriteFile, DB!Truncate, DB!Ends, DB!Goto, DB!Reading, Writing

LEMMA LifeStoreStep ==
  ASSUME TypeInv, LifeInv, NEW th \in Threads, StoreStep(th)
  PROVE  LifeInv'
<1> USE ThreadFacts DEF LifeCalls
<1>1. DB!DbStep(th) /\ UNCHANGED <<queueVars, process, req, mine>>
  BY DEF StoreStep, requests
<1>2. \A u \in Threads \ {th} : at'[u] = at[u] /\ call'[u] = call[u]
  BY <1>1, MainStays, CallUnderWay
<1>3. \A u \in Others : at[u] = "idle" => at'[u] = "idle"
  BY <1>1, <1>2, MainStays DEF Others
<1>4. at'["main"] \notin {"idle", "written", "raised"} => call'["main"] = InitCalls[initCalls + 1]
  BY <1>1, <1>2, CallUnderWay DEF LifeInv
<1>5. \A u \in Others : at'[u] \in Writing => at[u] \in Writing /\ call'[u] = call[u]
  BY <1>1, <1>2, CallUnderWay DEF Others, Writing
<1> QED
  BY <1>1, <1>3, <1>4, <1>5 DEF LifeInv, queueVars, process

\* A thread other than main goes on after a call, or begins one.
LEMMA LifeCallEnds ==
  ASSUME TypeInv, LifeInv, NEW th \in Threads, th # "main", DB!Continues(th),
         process' = process, mine \subseteq mine'
  PROVE  LifeCalls'
<1> USE ThreadFacts DEF process, LifeCalls
<1>1. \A u \in Threads \ {th} : at'[u] = at[u] /\ call'[u] = call[u]
  BY CallersKeepMain DEF DB!Continues
<1>2. at'[th] = "idle"
  BY ContinuesToIdle
<1> QED
  BY <1>1, <1>2 DEF LifeInv, Others, Writing

LEMMA LifeCallBegins ==
  ASSUME TypeInv, LifeInv, NEW th \in Threads, th # "main",
         phase = "serving" \/ th = "simulator",
         NEW c \in OurCalls, DB!Begins(th, c),
         c.table = "operation_task_data" => c.doc.key \in mine',
         process' = process, mine \subseteq mine'
  PROVE  LifeCalls'
<1> USE ThreadFacts DEF process, LifeCalls
<1>1. \A u \in Threads \ {th} : at'[u] = at[u] /\ call'[u] = call[u]
  BY CallersKeepMain DEF DB!Begins, TypeInv, BackendTypeOK, DB!DbTypeOK
<1>2. call'[th] = c
  BY DEF DB!Begins, TypeInv, BackendTypeOK, DB!DbTypeOK
<1> QED
  BY <1>1, <1>2 DEF LifeInv, Others

LEMMA LifeMain ==
  ASSUME TypeInv, LifeInv, MainStep
  PROVE  LifeInv'
<1> USE ThreadFacts, InitCallsTyped DEF LifeCalls
<1>1. CASE InitCallRaises
  BY <1>1, EmptyRange DEF InitCallRaises, ProcessEnds, DB!DbKilled, LifeInv, Others, Writing
<1>2. CASE Serve
  BY <1>2 DEF Serve, LifeInv, queueVars, dbVars, requests, history
<1>3. CASE CallInit \/ InitCallReturns
  <2>1. \A u \in Others : at'[u] = at[u] /\ call'[u] = call[u]
    <3>1. \A u \in Threads \ {"main"} : at'[u] = at[u]
      BY <1>3, CallersKeepMain, TypeParts DEF CallInit, Calls, InitCallReturns, TypeInv,
         ProcessTypes
    <3>2. \A u \in Threads \ {"main"} : call'[u] = call[u]
      BY <1>3 DEF CallInit, Calls, InitCallReturns, DB!Begins, DB!Continues, TypeInv,
         BackendTypeOK, DB!DbTypeOK
    <3> QED
      BY <3>1, <3>2 DEF Others
  <2>2. at'["main"] \notin {"idle", "written", "raised"} => call'["main"] = InitCalls[initCalls' + 1]
    <3>1. CASE CallInit
      BY <3>1 DEF CallInit, Calls, DB!Begins, process, TypeInv, BackendTypeOK, DB!DbTypeOK
    <3>2. CASE InitCallReturns
      BY <3>2, ContinuesToIdle DEF InitCallReturns
    <3> QED
      BY <1>3, <3>1, <3>2
  <2> QED
    BY <1>3, <2>1, <2>2 DEF CallInit, InitCallReturns, LifeInv, queueVars, process, requests, history
<1> QED
  BY <1>1, <1>2, <1>3 DEF MainStep

LEMMA LifeLoop ==
  ASSUME TypeInv, LifeInv, LoopThread
  PROVE  LifeInv'
<1> USE ThreadFacts
<1>1. CASE QueueSteps
  <2>1. Range(items') \cup Range(taken') \subseteq Range(items) \cup Range(taken)
    <3>1. CASE GetReturns
      <4>1. /\ items \in Seq(Tasks) /\ taken \in Seq(Tasks) /\ items # << >>
            /\ items' = Tail(items) /\ taken' = Append(taken, Head(items))
        BY <3>1, TypeParts DEF GetReturns, TypeOK, TypeInv
      <4> QED
        BY <4>1, HeadInRange, TailRange, AppendRange
    <3>2. CASE ~GetReturns
      <4>1. UNCHANGED <<items, taken>>
        BY <1>1, <3>2 DEF QueueSteps, LoopStep, NextRound, GetFindsEmpty, GetRegisters,
           LoopSelects, GetResumes, TimerEnds
      <4> QED
        BY <4>1
    <3> QED
      BY <3>1, <3>2
  <2> QED
    BY <1>1, <2>1 DEF QueueSteps, LifeInv, LifeCalls, dbVars, process, services, requests, history
<1>2. CASE InitLoop
  <2> DEFINE c == DB!Upsert("config", "1.0", Data("1.0"))
  <2>1. phase = "serving" /\ c \in OurCalls /\ c.table # "operation_task_data"
        /\ DB!Begins("loop", c)
    BY <1>2, OtherCallsTyped DEF InitLoop, LoopIsFree, Calls
  <2>2. UNCHANGED <<queueVars, process, requests, mine>>
    BY <1>2 DEF InitLoop, history
  <2> HIDE DEF c
  <2>3. LifeCalls'
    BY <2>1, <2>2, LifeCallBegins
  <2> QED
    BY <2>2, <2>3 DEF LifeInv, queueVars, process, requests
<1>3. CASE LoopCallReturns
  <2>1. DB!Continues("loop") /\ UNCHANGED <<queueVars, process, requests, mine>>
    BY <1>3 DEF LoopCallReturns, history
  <2>2. LifeCalls'
    BY <2>1, LifeCallEnds
  <2> QED
    BY <2>1, <2>2 DEF LifeInv, queueVars, process, requests
<1>4. ASSUME NEW t \in Tasks, NEW s \in {"success", "error"}, UpdateTask(t, s) PROVE LifeInv'
  <2> DEFINE c == DB!Upsert("operation_task_data", t, Task(t, s))
  <2>1. c.doc.key = t
    BY DEF DB!Upsert, Task
  <2>2. t \in mine /\ mine' = mine
    BY <1>4 DEF UpdateTask, LifeInv
  <2>3. phase = "serving" /\ c \in OurCalls /\ DB!Begins("loop", c)
    BY <1>4, TaskCalls DEF UpdateTask, LoopIsFree, Calls
  <2> HIDE DEF c
  <2>4. UNCHANGED <<queueVars, process, requests, mine>>
    BY <1>4 DEF UpdateTask
  <2>5. LifeCalls'
    BY <2>1, <2>2, <2>3, <2>4, LifeCallBegins
  <2> QED
    BY <2>4, <2>5 DEF LifeInv, queueVars, process, requests
<1> QED
  BY <1>1, <1>2, <1>3, <1>4 DEF LoopThread

LEMMA LifeRequest ==
  ASSUME TypeInv, LifeInv, NEW r \in Requests, RequestStep(r)
  PROVE  LifeInv'
<1> USE ThreadFacts
<1>r. r \in Threads /\ r # "main"
  OBVIOUS
<1>0. req \in [Requests -> {"none", "insert", "put", "execute", "update", "done", "over"}]
      /\ items \in Seq(Tasks)
  BY TypeParts DEF TypeInv, ProcessTypes, TypeOK
<1>1. CASE CreateTask(r)
  <2> DEFINE c == DB!Insert("operation_task_data", Task(r, "running"))
  <2>1. c.doc.key = r
    BY DEF DB!Insert, Task
  <2>2. r \in mine' /\ mine \subseteq mine'
    BY <1>1 DEF CreateTask
  <2>3. phase = "serving" /\ c \in OurCalls /\ DB!Begins(r, c)
    BY <1>1, TaskCalls DEF CreateTask, Calls
  <2> HIDE DEF c
  <2>4. UNCHANGED <<queueVars, process>> /\ req' = [req EXCEPT ![r] = "insert"]
    BY <1>1 DEF CreateTask
  <2>5. LifeCalls'
    BY <1>r, <2>1, <2>2, <2>3, <2>4, LifeCallBegins
  <2> QED
    BY <1>0, <2>2, <2>3, <2>4, <2>5 DEF LifeInv, queueVars, process
<1>2. CASE r \in Tasks /\ PutTask(r)
  <2>1. Range(items') = Range(items) \cup {r} /\ taken' = taken
    BY <1>0, <1>2, AppendRange DEF PutTask, PutAppends
  <2>2. phase = "serving" /\ r \in mine
    BY <1>2 DEF PutTask, LifeInv
  <2>3. UNCHANGED <<process, mine>> /\ req' = [req EXCEPT ![r] = "put"] /\ DB!Continues(r)
    BY <1>2 DEF PutTask, history
  <2>4. LifeCalls'
    BY <1>r, <2>3, LifeCallEnds
  <2> QED
    BY <1>0, <2>1, <2>2, <2>3, <2>4 DEF LifeInv, process
<1>3. CASE r \in Tasks /\ TaskIsPut(r)
  BY <1>0, <1>3 DEF TaskIsPut, PutWakes, LifeInv, LifeCalls, dbVars, process, history
<1>4. CASE r \in SwitchTasks /\ (ExecuteSwitchTask(r) \/ SwitchTaskReturns(r))
  <2>1. phase = "serving" /\ r \in mine
    BY <1>4 DEF ExecuteSwitchTask, SwitchTaskReturns, LifeInv
  <2>2. UNCHANGED <<queueVars, process, mine>> /\ DB!Continues(r)
    BY <1>4 DEF ExecuteSwitchTask, SwitchTaskReturns, history
  <2>3. \E s \in {"execute", "done"} : req' = [req EXCEPT ![r] = s]
    BY <1>4 DEF ExecuteSwitchTask, SwitchTaskReturns
  <2>4. LifeCalls'
    BY <1>r, <2>2, LifeCallEnds
  <2> QED
    BY <1>0, <2>1, <2>2, <2>3, <2>4 DEF LifeInv, queueVars, process
<1>5. ASSUME r \in SwitchTasks, NEW isSet \in BOOLEAN, NEW answer \in {"success", "error"},
             RuleAnswers(r, isSet, answer)
      PROVE  LifeInv'
  <2> DEFINE c == DB!Upsert("operation_task_data", r, Task(r, answer))
  <2>1. c.doc.key = r
    BY DEF DB!Upsert, Task
  <2>2. phase = "serving" /\ r \in mine /\ mine' = mine
    BY <1>5 DEF RuleAnswers, LifeInv, history
  <2>3. c \in OurCalls /\ DB!Begins(r, c)
    BY <1>5, TaskCalls DEF RuleAnswers, Calls
  <2> HIDE DEF c
  <2>4. UNCHANGED <<queueVars, process>> /\ req' = [req EXCEPT ![r] = "update"]
    BY <1>5 DEF RuleAnswers
  <2>5. LifeCalls'
    BY <1>r, <2>1, <2>2, <2>3, <2>4, LifeCallBegins
  <2> QED
    BY <1>0, <2>2, <2>4, <2>5 DEF LifeInv, queueVars, process
<1> QED
  BY <1>1, <1>2, <1>3, <1>4, <1>5 DEF RequestStep

LEMMA LifeNext ==
  ASSUME TypeInv, DownInv, LifeInv, [BackendNext]_backendVars
  PROVE  LifeInv'
<1> USE ThreadFacts
<1>1. CASE StartProcess
  BY <1>1 DEF StartProcess, LifeInv, LifeCalls, DownInv, queueVars, dbVars, requests, history
<1>2. CASE Killed
  BY <1>2, EmptyRange DEF Killed, ProcessEnds, DB!DbKilled, LifeInv, LifeCalls, Others, Writing
<1>3. CASE SimulatorStep
  <2>1. ASSUME WriteTopology PROVE LifeCalls'
    <3>1. TopologyCall \in OurCalls /\ TopologyCall.table # "operation_task_data"
          /\ DB!Begins("simulator", TopologyCall)
      BY <2>1, OtherCallsTyped DEF WriteTopology, Calls
    <3>2. UNCHANGED <<process, mine>>
      BY <2>1 DEF WriteTopology, history
    <3> QED
      BY <3>1, <3>2, LifeCallBegins
  <2>2. ASSUME TopologyWritten PROVE LifeCalls'
    <3>1. DB!Continues("simulator") /\ UNCHANGED <<process, mine>>
      BY <2>2 DEF TopologyWritten, history
    <3> QED
      BY <3>1, LifeCallEnds
  <2>3. LifeCalls'
    BY <1>3, <2>1, <2>2 DEF SimulatorStep
  <2> QED
    BY <1>3, <2>3 DEF SimulatorStep, WriteTopology, TopologyWritten, LifeInv, queueVars,
       process, requests, history
<1>4. CASE UNCHANGED backendVars
  BY <1>4 DEF backendVars, LifeInv, LifeCalls, queueVars, dbVars, process, requests, history
<1> QED
  BY <1>1, <1>2, <1>3, <1>4, LifeMain, LifeLoop, LifeRequest, LifeStoreStep DEF BackendNext

\* A step that writes nothing and brings no call to its write keeps the table.
LEMMA ClearedKept ==
  ASSUME ClearedInv, phase # "down", file' = file, copy' = copy, mine \subseteq mine',
         initCalls' = initCalls, SimulatorWrote => SimulatorWrote',
         \A u \in Threads : at'[u] = at[u] \/ at'[u] \notin {"write", "truncate", "written"}
  PROVE  ClearedInv'
BY ThreadFacts DEF ClearedInv, Fresh, Others

LEMMA ClearedCall ==
  ASSUME TypeInv, ClearedInv, phase # "down", NEW th \in Threads,
         th # "simulator" \/ simulator' = "started" \/ ~SimulatorWrote,
         th = "simulator" \/ simulator' = simulator,
         DB!Continues(th) \/ \E c \in OurCalls : DB!Begins(th, c),
         mine \subseteq mine', initCalls' = initCalls
  PROVE  ClearedInv'
<1>1. \A u \in Threads \ {th} : at'[u] = at[u]
  BY CallersKeepMain
<1>2. at'[th] \notin {"write", "truncate", "written"}
  BY DEF DB!Continues, DB!Begins, DB!Goto, TypeInv, BackendTypeOK, DB!DbTypeOK, OurCalls, DB!Calls
<1>3. SimulatorWrote => SimulatorWrote'
  BY <1>1, ThreadFacts DEF SimulatorWrote
<1>4. file' = file /\ copy' = copy
  BY DEF DB!Continues, DB!Begins
<1> QED
  BY <1>1, <1>2, <1>3, <1>4, ClearedKept

LEMMA ClearedMain ==
  ASSUME TypeInv, ClearedInv, MainStep
  PROVE  ClearedInv'
<1> USE ThreadFacts, InitCallsTyped
<1>1. CASE InitCallRaises
  BY <1>1 DEF InitCallRaises, ProcessEnds, ClearedInv
<1>2. CASE Serve
  BY <1>2 DEF Serve, dbVars, services, history, ClearedInv, SimulatorWrote, Fresh
<1>3. CASE CallInit
  <2>1. DB!Begins("main", InitCalls[initCalls + 1]) /\ InitCalls[initCalls + 1] \in OurCalls
    BY <1>3, TypeParts DEF CallInit, Calls, TypeInv, ProcessTypes
  <2>2. phase # "down" /\ UNCHANGED <<mine, initCalls, simulator>>
    BY <1>3 DEF CallInit, process, services, history
  <2> QED
    BY <2>1, <2>2, ClearedCall
<1>4. CASE InitCallReturns
  <2>1. DB!Continues("main")
    BY <1>4 DEF InitCallReturns
  <2>2. at'["main"] = "idle" /\ \A u \in Threads \ {"main"} : at'[u] = at[u]
    BY <2>1, ContinuesToIdle, CallersKeepMain
  <2>3. at["main"] = "written" /\ initCalls' = initCalls + 1 /\ initCalls \in 0..6
    BY <1>4, TypeParts DEF InitCallReturns, TypeInv, ProcessTypes
  <2>4. phase # "down" /\ UNCHANGED <<file, copy, mine, simulator>>
    BY <1>4, <2>1 DEF InitCallReturns, DB!Continues, services, history
  <2>5. SimulatorWrote' = SimulatorWrote
    BY <2>2, <2>4 DEF SimulatorWrote
  <2>6. initCalls' >= 3 => initCalls >= 3 \/ initCalls = 2
    BY <2>3
  <2> QED
    BY <2>2, <2>3, <2>4, <2>5, <2>6 DEF ClearedInv, Fresh, Others
<1> QED
  BY <1>1, <1>2, <1>3, <1>4 DEF MainStep

\* What a thread's call read, from a fresh file, is fresh.
LEMMA ClearedRead ==
  ASSUME TypeInv, LifeInv, ClearedInv, phase # "down", ~SimulatorWrote,
         NEW th \in Threads \ {"simulator"}, DB!ReadAll(th) \/ DB!ReadToClear(th),
         th = "main" => initCalls >= 2
  PROVE  Fresh(copy'[th])
<1> USE ThreadFacts
<1>1. /\ at \in [Threads -> DB!Steps] /\ copy \in [Threads -> DB!Contents]
      /\ initCalls \in 0..6
  BY TypeParts, InitCallsTyped DEF TypeInv, BackendTypeOK, DB!DbTypeOK, ProcessTypes
<1>2. at[th] \in {"insert", "update", "clear"}
  BY DEF DB!ReadAll, DB!ReadToClear, DB!Reads
<1>3. CASE th = "main" /\ initCalls = 2
  <2>1. call["main"] = InitCalls[3]
    BY <1>2, <1>3 DEF LifeInv, LifeCalls
  <2>2. call["main"].op = "clear" /\ call["main"].table = "operation_task_data"
    BY <2>1 DEF InitCalls, DB!Clear
  <2>3. DB!ReadToClear(th)
    <3>1. DB!ReadAll(th) => at[th] \in Writing
      BY DEF DB!ReadAll, DB!Reads, Writing
    <3> QED
      BY <1>3, <2>2, <3>1 DEF TypeInv, CallMatches
  <2> QED
    BY <1>1, <1>3, <2>2, <2>3 DEF DB!ReadToClear, DB!InTable, Fresh
<1>4. CASE ~(th = "main" /\ initCalls = 2)
  <2>1. Fresh(file)
    <3>1. th # "main" => initCalls = 6
      BY <1>2, InitCallsTyped DEF LifeInv, LifeCalls, Others
    <3> QED
      BY <1>1, <1>4, <3>1 DEF ClearedInv
  <2>2. CASE DB!ReadToClear(th)
    BY <1>1, <2>1, <2>2 DEF DB!ReadToClear, Fresh
  <2>3. CASE DB!ReadAll(th)
    <3>1. at[th] \in Writing
      BY <2>3 DEF DB!ReadAll, DB!Reads, Writing
    <3>2. call[th].table = "operation_task_data" => call[th].doc.key \in mine
      <4>1. CASE th = "main"
        <5>1. call[th] = InitCalls[initCalls + 1] /\ initCalls < 6
          BY <1>2, <4>1, InitCallsTyped DEF LifeInv, LifeCalls, TypeInv, MainInInit
        <5>2. initCalls + 1 \in 1..6 \ {3}
          BY <1>1, <1>4, <4>1, <5>1
        <5> QED
          BY <5>1, <5>2, ThirdCallClears
      <4>2. CASE th # "main"
        BY <3>1, <4>2 DEF LifeInv, LifeCalls, Others
      <4> QED
        BY <4>1, <4>2
    <3>3. \A d \in copy'[th] :
            d \in file \/ (d.table = call[th].table /\ d.key = call[th].doc.key)
      BY <1>1, <2>3 DEF DB!ReadAll, DB!Written
    <3> QED
      BY <2>1, <3>2, <3>3 DEF Fresh
  <2> QED
    BY <2>2, <2>3
<1> QED
  BY <1>3, <1>4

LEMMA ClearedStoreStep ==
  ASSUME TypeInv, DownInv, LifeInv, ClearedInv, NEW th \in Threads, StoreStep(th)
  PROVE  ClearedInv'
<1> USE ThreadFacts
<1>1. /\ at \in [Threads -> DB!Steps] /\ copy \in [Threads -> DB!Contents]
      /\ initCalls \in 0..6
  BY TypeParts, InitCallsTyped DEF TypeInv, BackendTypeOK, DB!DbTypeOK, ProcessTypes
<1>2. DB!DbStep(th) /\ UNCHANGED <<phase, initCalls, simulator, mine>>
  BY DEF StoreStep, process, services
<1>3. at[th] # "idle" /\ \A u \in Threads \ {th} : at'[u] = at[u]
  BY <1>2, MainStays
<1>4. phase # "down"
  BY <1>3 DEF DownInv
<1>5. SimulatorWrote => SimulatorWrote'
  <2>1. at[th] = "truncate" => at'[th] = "written"
    BY <1>1, <1>2 DEF DB!DbStep, DB!Search, DB!ChooseNumber, DB!ReadAll, DB!ReadToClear,
       DB!Reads, DB!ReadRaises, DB!WriteFile, DB!Truncate, DB!Ends, DB!Goto, DB!Reading
  <2>2. at[th] # "written"
    BY <1>2 DEF DB!DbStep, DB!Search, DB!ChooseNumber, DB!ReadAll, DB!ReadToClear,
       DB!Reads, DB!ReadRaises, DB!WriteFile, DB!Truncate, DB!Reading
  <2> QED
    BY <1>2, <1>3, <2>1, <2>2 DEF SimulatorWrote
<1>6. CASE DB!Search(th) \/ DB!ChooseNumber(th)
  <2>1. file' = file /\ copy' = copy /\ at'[th] \notin {"write", "truncate", "written"}
    BY <1>1, <1>6 DEF DB!Search, DB!ChooseNumber, DB!Goto
  <2> QED
    BY <1>2, <1>3, <1>4, <1>5, <2>1, ClearedKept
<1>7. CASE DB!ReadRaises(th)
  <2>1. file' = file /\ at'[th] = "raised" /\ \A u \in Threads \ {th} : copy'[u] = copy[u]
    BY <1>1, <1>7 DEF DB!ReadRaises, DB!Ends, DB!Goto
  <2> QED
    BY <1>2, <1>3, <1>4, <1>5, <2>1 DEF ClearedInv, Fresh, Others
<1>8. CASE DB!ReadAll(th) \/ DB!ReadToClear(th)
  <2>1. file' = file /\ at'[th] = "write" /\ \A u \in Threads \ {th} : copy'[u] = copy[u]
    BY <1>1, <1>8 DEF DB!ReadAll, DB!ReadToClear, DB!Goto
  <2>2. ~SimulatorWrote /\ th # "simulator" /\ (th = "main" => initCalls >= 2)
          => Fresh(copy'[th])
    BY <1>4, <1>8, ClearedRead
  <2>3. Fresh(copy'[th]) => Fresh(copy[th])'
    BY <1>2 DEF Fresh
  <2> QED
    BY <1>2, <1>3, <1>4, <1>5, <2>1, <2>2, <2>3 DEF ClearedInv, Fresh, Others
<1>9. CASE DB!WriteFile(th)
  <2>1. at[th] = "write" /\ file' = copy[th] /\ copy' = copy /\ at'[th] = "truncate"
    BY <1>1, <1>9 DEF DB!WriteFile, DB!Goto
  <2>2. CASE th = "simulator"
    BY <2>1, <2>2 DEF ClearedInv, SimulatorWrote
  <2>3. CASE th = "main"
    BY <1>1, <1>2, <1>3, <1>4, <1>5, <2>1, <2>3 DEF ClearedInv, Fresh, Others
  <2>4. CASE th \in Others
    <3>1. phase = "serving" /\ initCalls = 6
      BY <1>3, <2>4, InitCallsTyped DEF LifeInv, LifeCalls
    <3>2. at["main"] = "idle"
      BY <3>1 DEF TypeInv, MainInInit
    <3> QED
      BY <1>2, <1>3, <1>4, <1>5, <2>1, <2>4, <3>1, <3>2 DEF ClearedInv, Fresh, Others
  <2> QED
    BY <2>2, <2>3, <2>4 DEF Others
<1>10. CASE DB!Truncate(th)
  <2>1. /\ at[th] = "truncate" /\ file' = file /\ at'[th] = "written"
        /\ \A u \in Threads \ {th} : copy'[u] = copy[u]
    BY <1>1, <1>10 DEF DB!Truncate, DB!Ends, DB!Goto
  <2> QED
    BY <1>2, <1>3, <1>4, <1>5, <2>1 DEF ClearedInv, Fresh, Others
<1> QED
  BY <1>2, <1>6, <1>7, <1>8, <1>9, <1>10 DEF DB!DbStep

LEMMA ClearedNext ==
  ASSUME TypeInv, DownInv, LifeInv, ClearedInv, [BackendNext]_backendVars
  PROVE  ClearedInv'
<1> USE ThreadFacts
<1>1. CASE UNCHANGED backendVars
  BY <1>1 DEF backendVars, dbVars, process, services, history, ClearedInv, SimulatorWrote, Fresh
<1>2. CASE StartProcess
  <2>1. \A u \in Threads : at[u] = "idle"
    BY <1>2 DEF StartProcess, DownInv
  <2> QED
    BY <1>2, <2>1 DEF StartProcess, DownInv, dbVars, ClearedInv, Others
<1>3. CASE Killed
  BY <1>3 DEF Killed, ProcessEnds, ClearedInv
<1>4. CASE SimulatorStep
  <2>1. phase # "down" /\ UNCHANGED <<mine, initCalls>>
    BY <1>4 DEF SimulatorStep, WriteTopology, TopologyWritten, DownInv, process, history
  <2>2. CASE WriteTopology
    <3>1. DB!Begins("simulator", TopologyCall) /\ TopologyCall \in OurCalls
      BY <2>2, OtherCallsTyped DEF WriteTopology, Calls
    <3>2. ~SimulatorWrote
      BY <2>2, <3>1 DEF WriteTopology, DB!Begins, SimulatorWrote
    <3> QED
      BY <2>1, <3>1, <3>2, ClearedCall
  <2>3. CASE TopologyWritten
    <3>1. DB!Continues("simulator") /\ (simulator' = "started" \/ ~SimulatorWrote)
      BY <2>3 DEF TopologyWritten, SimulatorWrote, DB!Continues, DB!Returned
    <3> QED
      BY <2>1, <3>1, ClearedCall
  <2> QED
    BY <1>4, <2>2, <2>3 DEF SimulatorStep
<1>5. CASE LoopThread
  <2>1. phase # "down" /\ UNCHANGED <<mine, initCalls, simulator>>
    BY <1>5 DEF LoopThread, InitLoop, QueueSteps, LoopCallReturns, UpdateTask, LoopIsFree,
       DownInv, DB!Continues, DB!Returned, process, services, history
  <2>2. CASE QueueSteps
    BY <2>1, <2>2, ClearedKept DEF QueueSteps, dbVars, SimulatorWrote
  <2>3. DB!Continues("loop") \/ (\E c \in OurCalls : DB!Begins("loop", c)) \/ QueueSteps
    BY <1>5, OtherCallsTyped, TaskCalls DEF LoopThread, InitLoop, LoopCallReturns, UpdateTask, Calls
  <2> QED
    BY <2>1, <2>2, <2>3, ClearedCall
<1>6. ASSUME NEW r \in Requests, RequestStep(r) PROVE ClearedInv'
  <2>1. /\ phase # "down" /\ mine \subseteq mine' /\ UNCHANGED <<initCalls, simulator>>
    BY <1>6 DEF RequestStep, CreateTask, PutTask, TaskIsPut, ExecuteSwitchTask, RuleAnswers,
       SwitchTaskReturns, DownInv, process, services, history
  <2>2. CASE r \in Tasks /\ TaskIsPut(r)
    BY <2>1, <2>2, ClearedKept DEF TaskIsPut, dbVars, SimulatorWrote
  <2>3. \/ DB!Continues(r) \/ \E c \in OurCalls : DB!Begins(r, c)
        \/ r \in Tasks /\ TaskIsPut(r)
    BY <1>6, TaskCalls DEF RequestStep, CreateTask, PutTask, ExecuteSwitchTask, RuleAnswers,
       SwitchTaskReturns, Calls
  <2> QED
    BY <2>1, <2>2, <2>3, ClearedCall
<1> QED
  BY <1>1, <1>2, <1>3, <1>4, <1>5, <1>6, ClearedMain, ClearedStoreStep DEF BackendNext

\* In a process that serves, the table of tasks holds what init_db cleared only
\* once the simulator has written, for any number of tasks, calls and starts.
THEOREM HistoryCorrect == BackendSpec => []HistoryComesBackOnlyWithTopology
<1>1. BackendInit => DownInv /\ LifeInv /\ ClearedInv
  BY ThreadFacts, EmptyRange DEF BackendInit, Init, NothingInMemory, DB!DbInit, DB!NoCalls,
     DownInv, LifeInv, LifeCalls, ClearedInv, Others, Writing
<1>2. LifeInv /\ ClearedInv => HistoryComesBackOnlyWithTopology
  BY InitCallsTyped DEF LifeInv, ClearedInv, SimulatorWrote, Fresh,
     HistoryComesBackOnlyWithTopology, TasksInTable, TaskDocs, DB!InTable
<1>3. TypeInv /\ DownInv /\ LifeInv /\ ClearedInv /\ [BackendNext]_backendVars
        => DownInv' /\ LifeInv' /\ ClearedInv'
  BY DownNext, LifeNext, ClearedNext
<1> QED
  BY <1>1, <1>2, <1>3, TypeInvHolds, PTL DEF BackendSpec

-----------------------------------------------------------------------------
(* Calls that do not overlap.                                               *)

\* Only main's calls write to the tables of init_db, and to the table of tasks
\* only requests and the loop, for tasks of their own process.
OwnCall(th, c) ==
    /\ c.op # "clear" /\ c.table \notin {"player_data", "env_status_data"}
    /\ c.table = "operation_task_data" =>
         th \in Others /\ c.doc.key \in mine /\ c.key = c.doc.key

OwnInv ==
    /\ \A th \in Threads \ {"main"} : Busy(th) => OwnCall(th, call[th])
    /\ \A r \in Requests : kept[r] # "none" => r \in mine
    /\ \A r \in mine : req[r] # "none"
    /\ phase # "serving" => mine = {}

\* The calls of init_db but its third.
LEMMA InitUpserts ==
  \A i \in {1, 2, 4, 5, 6} :
    /\ InitCalls[i].table \in {"player_data", "env_status_data"}
    /\ InitCalls[i].op = "upsert" /\ InitCalls[i].key = InitCalls[i].doc.key
BY DEF InitCalls, DB!Upsert, Data

LEMMA OwnBegins ==
  ASSUME TypeInv, OwnInv, mine \subseteq mine', NEW th \in Threads, NEW c \in OurCalls,
         DB!Begins(th, c), th # "main" => OwnCall(th, c)'
  PROVE  \A u \in Threads \ {"main"} : Busy(u)' => OwnCall(u, call[u])'
<1>1. \A u \in Threads \ {th} : at'[u] = at[u] /\ call'[u] = call[u]
  BY CallersKeepMain DEF DB!Begins, TypeInv, BackendTypeOK, DB!DbTypeOK
<1>2. call'[th] = c
  BY DEF DB!Begins, TypeInv, BackendTypeOK, DB!DbTypeOK
<1> QED
  BY <1>1, <1>2 DEF OwnInv, OwnCall, Busy

LEMMA OwnContinues ==
  ASSUME TypeInv, OwnInv, mine \subseteq mine', NEW th \in Threads, DB!Continues(th)
  PROVE  \A u \in Threads \ {"main"} : Busy(u)' => OwnCall(u, call[u])'
<1>1. at'[th] = "idle" /\ call' = call /\ \A u \in Threads \ {th} : at'[u] = at[u]
  BY CallersKeepMain, ContinuesToIdle DEF DB!Continues
<1> QED
  BY <1>1 DEF OwnInv, OwnCall, Busy

LEMMA OwnStoreStep ==
  ASSUME TypeInv, LifeInv, OwnInv, NEW th \in Threads, StoreStep(th)
  PROVE  OwnInv'
<1> USE ThreadFacts
<1>1. DB!DbStep(th) /\ UNCHANGED <<phase, req, mine>>
  BY DEF StoreStep, process, requests
<1>2. \A u \in Threads : Busy(u)' => Busy(u) /\ call'[u] = call[u]
  BY <1>1, MainStays, CallUnderWay DEF Busy, DB!Returned
<1>3. Busy(th)
  BY <1>1 DEF Busy, DB!Returned, DB!DbStep, DB!Search, DB!ChooseNumber, DB!ReadAll,
     DB!ReadToClear, DB!Reads, DB!ReadRaises, DB!WriteFile, DB!Truncate, DB!Reading
<1>4. ASSUME NEW r \in Requests, kept'[r] # "none" PROVE r \in mine
  <2>1. CASE kept'[r] = kept[r]
    BY <1>4, <2>1 DEF OwnInv
  <2>2. CASE kept'[r] # kept[r]
    <3>1. call[th].table = "operation_task_data" /\ call[th].op # "clear"
          /\ call[th].doc.key = r
      BY <2>2 DEF StoreStep
    <3>2. th # "main"
      <4>1. SUFFICES ASSUME th = "main" PROVE FALSE
        OBVIOUS
      <4>2. call["main"] = InitCalls[initCalls + 1] /\ initCalls + 1 \in 1..6
        BY <1>3, <4>1, InitCallsTyped, TypeParts
           DEF LifeInv, LifeCalls, Busy, DB!Returned, TypeInv, MainInInit, ProcessTypes
      <4> QED
        BY <3>1, <4>1, <4>2, InitCallsTyped
    <3> QED
      BY <1>3, <3>1, <3>2 DEF OwnInv, OwnCall
  <2> QED
    BY <2>1, <2>2
<1> QED
  BY <1>1, <1>2, <1>4 DEF OwnInv, OwnCall
LEMMA OwnRequest ==
  ASSUME TypeInv, LifeInv, OwnInv, NEW r \in Requests, RequestStep(r)
  PROVE  OwnInv'
<1> USE ThreadFacts
<1>0. req \in [Requests -> {"none", "insert", "put", "execute", "update", "done", "over"}]
      /\ mine \subseteq Requests /\ r \in Others /\ r \in Threads
  BY TypeParts DEF TypeInv, ProcessTypes, Others
<1>1. CASE CreateTask(r)
  <2> DEFINE c == DB!Insert("operation_task_data", Task(r, "running"))
  <2>1. c.doc.key = r /\ c.key = r /\ c.op = "insert" /\ c.table = "operation_task_data"
    BY DEF DB!Insert, Task
  <2>2. c \in OurCalls /\ DB!Begins(r, c)
    BY <1>1, TaskCalls DEF CreateTask, Calls
  <2> HIDE DEF c
  <2>3. mine' = mine \cup {r} /\ req' = [req EXCEPT ![r] = "insert"] /\ phase = "serving"
        /\ UNCHANGED <<phase, kept>>
    BY <1>1 DEF CreateTask, process
  <2>4. OwnCall(r, c)'
    BY <1>0, <2>1, <2>3 DEF OwnCall
  <2>5. \A u \in Threads \ {"main"} : Busy(u)' => OwnCall(u, call[u])'
    BY <1>0, <2>2, <2>3, <2>4, OwnBegins
  <2> QED
    BY <1>0, <2>3, <2>5 DEF OwnInv
<1>2. ASSUME UNCHANGED <<phase, mine, kept>>, NEW s, s # "none", req' = [req EXCEPT ![r] = s],
             \A u \in Threads \ {"main"} : Busy(u)' => OwnCall(u, call[u])'
      PROVE  OwnInv'
  BY <1>0, <1>2 DEF OwnInv
<1>3. CASE r \in Tasks /\ PutTask(r)
  <2>1. DB!Continues(r) /\ UNCHANGED <<phase, mine, kept>> /\ req' = [req EXCEPT ![r] = "put"]
    BY <1>3 DEF PutTask, process, history
  <2> QED
    BY <1>0, <1>2, <2>1, OwnContinues
<1>4. CASE r \in Tasks /\ TaskIsPut(r)
  <2>1. UNCHANGED <<phase, mine, kept, at, call>> /\ req' = [req EXCEPT ![r] = "done"]
    BY <1>4 DEF TaskIsPut, process, history, dbVars
  <2> QED
    BY <1>2, <2>1 DEF OwnInv, OwnCall, Busy
<1>5. CASE r \in SwitchTasks /\ (ExecuteSwitchTask(r) \/ SwitchTaskReturns(r))
  <2>1. PICK s \in {"execute", "done"} : req' = [req EXCEPT ![r] = s]
    BY <1>5 DEF ExecuteSwitchTask, SwitchTaskReturns
  <2>2. DB!Continues(r) /\ UNCHANGED <<phase, mine, kept>>
    BY <1>5 DEF ExecuteSwitchTask, SwitchTaskReturns, process, history
  <2> QED
    BY <1>0, <1>2, <2>1, <2>2, OwnContinues
<1>6. ASSUME r \in SwitchTasks, NEW isSet \in BOOLEAN, NEW answer \in {"success", "error"},
             RuleAnswers(r, isSet, answer)
      PROVE  OwnInv'
  <2> DEFINE c == DB!Upsert("operation_task_data", r, Task(r, answer))
  <2>1. c.doc.key = r /\ c.key = r /\ c.op = "upsert" /\ c.table = "operation_task_data"
    BY DEF DB!Upsert, Task
  <2>2. c \in OurCalls /\ DB!Begins(r, c)
    BY <1>6, TaskCalls DEF RuleAnswers, Calls
  <2> HIDE DEF c
  <2>3. UNCHANGED <<phase, mine, kept>> /\ req' = [req EXCEPT ![r] = "update"] /\ r \in mine
    BY <1>6 DEF RuleAnswers, process, history, LifeInv
  <2>4. OwnCall(r, c)'
    BY <1>0, <2>1, <2>3 DEF OwnCall
  <2> QED
    BY <1>0, <1>2, <2>2, <2>3, <2>4, OwnBegins
<1> QED
  BY <1>1, <1>3, <1>4, <1>5, <1>6 DEF RequestStep

LEMMA OwnNext ==
  ASSUME TypeInv, LifeInv, OwnInv, [BackendNext]_backendVars
  PROVE  OwnInv'
<1> USE ThreadFacts
<1>1. CASE ProcessEnds
  BY <1>1 DEF ProcessEnds, DB!DbKilled, OwnInv, OwnCall, Busy
<1>2. ASSUME UNCHANGED <<phase, mine, kept, req>>,
             \A u \in Threads \ {"main"} : Busy(u)' => OwnCall(u, call[u])'
      PROVE  OwnInv'
  BY <1>2 DEF OwnInv
<1>3. ASSUME UNCHANGED <<at, call, mine, kept, req>>, phase' = phase \/ phase' = "serving"
      PROVE  OwnInv'
  BY <1>3 DEF OwnInv, OwnCall, Busy
<1>4. CASE StartProcess
  BY <1>4 DEF StartProcess, OwnInv, OwnCall, Busy, dbVars, requests, history
<1>5. CASE MainStep
  <2>1. CASE CallInit
    <3>1. PICK c \in OurCalls : DB!Begins("main", c)
      BY <2>1, InitCallsTyped, TypeParts DEF CallInit, Calls, TypeInv, ProcessTypes
    <3> QED
      BY <1>2, <2>1, <3>1, OwnBegins DEF CallInit, process, requests, history
  <2>2. CASE InitCallReturns
    BY <1>2, <2>2, OwnContinues DEF InitCallReturns, requests, history
  <2>3. CASE Serve
    BY <1>3, <2>3 DEF Serve, dbVars, requests, history
  <2> QED
    BY <1>1, <1>5, <2>1, <2>2, <2>3 DEF MainStep, InitCallRaises
<1>6. CASE SimulatorStep
  <2>1. CASE WriteTopology
    <3>1. TopologyCall \in OurCalls /\ DB!Begins("simulator", TopologyCall)
      BY <2>1, OtherCallsTyped DEF WriteTopology, Calls
    <3>2. OwnCall("simulator", TopologyCall)'
      BY DEF OwnCall, TopologyCall, DB!Upsert
    <3> QED
      BY <1>2, <2>1, <3>1, <3>2, OwnBegins DEF WriteTopology, process, requests, history
  <2>2. CASE TopologyWritten
    BY <1>2, <2>2, OwnContinues DEF TopologyWritten, process, requests, history
  <2> QED
    BY <1>6, <2>1, <2>2 DEF SimulatorStep
<1>7. CASE LoopThread
  <2>1. CASE InitLoop
    <3> DEFINE c == DB!Upsert("config", "1.0", Data("1.0"))
    <3>1. c \in OurCalls /\ DB!Begins("loop", c)
      BY <2>1, OtherCallsTyped DEF InitLoop, Calls
    <3>2. OwnCall("loop", c)'
      BY DEF OwnCall, DB!Upsert
    <3> HIDE DEF c
    <3> QED
      BY <1>2, <2>1, <3>1, <3>2, OwnBegins DEF InitLoop, process, requests, history
  <2>2. CASE QueueSteps
    BY <1>3, <2>2 DEF QueueSteps, dbVars, process, requests, history
  <2>3. CASE LoopCallReturns
    BY <1>2, <2>3, OwnContinues DEF LoopCallReturns, process, requests, history
  <2>4. ASSUME NEW t \in Tasks, NEW s \in {"success", "error"}, UpdateTask(t, s) PROVE OwnInv'
    <3> DEFINE c == DB!Upsert("operation_task_data", t, Task(t, s))
    <3>1. c.doc.key = t /\ c.key = t /\ c.op = "upsert" /\ c.table = "operation_task_data"
      BY DEF DB!Upsert, Task
    <3>2. c \in OurCalls /\ DB!Begins("loop", c)
      BY <2>4, TaskCalls DEF UpdateTask, Calls
    <3> HIDE DEF c
    <3>3. t \in mine /\ UNCHANGED <<phase, mine, kept, req>>
      BY <2>4 DEF UpdateTask, LifeInv, process, requests
    <3>4. OwnCall("loop", c)'
      BY <3>1, <3>3 DEF OwnCall, Others
    <3> QED
      BY <1>2, <3>2, <3>3, <3>4, OwnBegins
  <2> QED
    BY <1>7, <2>1, <2>2, <2>3, <2>4 DEF LoopThread
<1>8. CASE UNCHANGED backendVars
  BY <1>3, <1>8 DEF backendVars, dbVars, process, requests, history
<1> QED
  BY <1>1, <1>4, <1>5, <1>6, <1>7, <1>8, OwnRequest, OwnStoreStep DEF BackendNext, Killed

\* A number of a table stands for one document, in the file and in what calls write:
\* a call replaces all documents that have its numbers.
OneNumber(docs) == \A d, e \in docs : d.table = e.table /\ d.number = e.number => d = e
NumbersInv == OneNumber(file) /\ \A th \in Threads : OneNumber(copy[th])

LEMMA NumbersNext ==
  ASSUME TypeInv, NumbersInv, [BackendNext]_backendVars
  PROVE  NumbersInv'
<1>1. StoreEffect
  BY OneStoreEffect, TypeParts DEF TypeInv, ProcessTypes
<1>2. CASE UNCHANGED <<file, copy>>
  BY <1>2 DEF NumbersInv, OneNumber
<1>3. CASE DB!DbKilled
  BY <1>3 DEF DB!DbKilled, NumbersInv, OneNumber
<1>4. ASSUME NEW th \in Threads, NEW docs, OneNumber(docs), file' = file,
             copy' = [copy EXCEPT ![th] = docs]
      PROVE  NumbersInv'
  BY <1>4 DEF NumbersInv, OneNumber, TypeInv, BackendTypeOK, DB!DbTypeOK
<1>5. ASSUME NEW th \in Threads, DB!DbStep(th) PROVE NumbersInv'
  <2>1. CASE DB!ReadAll(th)
    <3> DEFINE kept_ == {d \in file : d.table = call[th].table => d.number \notin target[th]}
               docs == kept_ \cup DB!Written(th)
    <3>1. \A d, e \in kept_ : d.table = e.table /\ d.number = e.number => d = e
      BY DEF NumbersInv, OneNumber
    <3>2. \A d \in DB!Written(th) : d.table = call[th].table /\ d.number \in target[th]
      BY DEF DB!Written
    <3>3. \A d, e \in DB!Written(th) : d.number = e.number => d = e
      BY DEF DB!Written
    <3>4. OneNumber(docs)
      BY <3>1, <3>2, <3>3 DEF OneNumber
    <3>5. file' = file /\ copy' = [copy EXCEPT ![th] = docs]
      BY <2>1 DEF DB!ReadAll
    <3> HIDE DEF docs
    <3> QED
      BY <1>4, <3>4, <3>5
  <2>2. CASE DB!ReadToClear(th)
    <3> DEFINE docs == file \ DB!InTable(call[th].table)
    <3>1. OneNumber(docs)
      BY DEF NumbersInv, OneNumber
    <3>2. file' = file /\ copy' = [copy EXCEPT ![th] = docs]
      BY <2>2 DEF DB!ReadToClear
    <3> HIDE DEF docs
    <3> QED
      BY <1>4, <3>1, <3>2
  <2>3. CASE DB!WriteFile(th)
    BY <2>3 DEF DB!WriteFile, NumbersInv, OneNumber
  <2>4. CASE DB!ReadRaises(th) \/ DB!Truncate(th)
    <3>1. file' = file /\ copy' = [copy EXCEPT ![th] = {}]
      BY <2>4 DEF DB!ReadRaises, DB!Truncate, DB!Ends
    <3>2. OneNumber({})
      BY DEF OneNumber
    <3> QED
      BY <1>4, <3>1, <3>2
  <2> QED
    BY <1>2, <1>5, <2>1, <2>2, <2>3, <2>4 DEF DB!DbStep, DB!Search, DB!ChooseNumber
<1> QED
  BY <1>1, <1>2, <1>3, <1>5 DEF StoreEffect, dbVars, DB!Begins, DB!Continues

Held(docs, tb, k) == {d \in docs : d.table = tb /\ d.key = k}

\* What a document of a task says, k[r], and the first n calls of init_db are in docs.
Keeps(docs, k, n) ==
    /\ \A r \in Requests : k[r] # "none" =>
         \E d \in docs : d.value = k[r] /\ Held(docs, "operation_task_data", r) = {d}
    /\ n >= 3 => \A r \in Requests : k[r] = "none" => Held(docs, "operation_task_data", r) = {}
    /\ \A i \in {1, 2, 4, 5, 6} : i <= n => Held(docs, InitCalls[i].table, InitCalls[i].key) # {}

\* What is kept when the call of th has returned.
After(th) ==
    [r \in Requests |->
       IF call[th].table = "operation_task_data" /\ call[th].op # "clear" /\ call[th].doc.key = r
         THEN call[th].doc.value ELSE kept[r]]

Done == IF at["main"] = "written" THEN initCalls + 1 ELSE initCalls
DoneAfter(th) == IF th = "main" THEN initCalls + 1 ELSE Done

\* What a call that runs alone has found, and is about to leave.
Stage(th) ==
    /\ at[th] = "clear" => call[th].op = "clear"
    /\ at[th] \in {"number", "insert"} => Held(file, call[th].table, call[th].key) = {}
    /\ at[th] = "insert" => \E m \in DB!Numbers : target[th] = {m}
    /\ at[th] = "update" =>
         /\ target[th] = DB!NumbersOf(Held(file, call[th].table, call[th].key))
         /\ target[th] # {}
    /\ at[th] = "write" => Keeps(copy[th], After(th), DoneAfter(th))
    /\ at[th] = "truncate" => lastWriter = {th} /\ Keeps(file, After(th), DoneAfter(th))

Serial == phase # "down" /\ ~brokenStart /\ ~overlapped

SerialInv ==
    Serial =>
        /\ readable
        /\ \A th, u \in Threads : Busy(th) /\ Busy(u) => th = u
        /\ \A th \in Threads : Stage(th)
        /\ (\A th \in Threads : at[th] # "truncate") => Keeps(file, kept, Done)

\* A call that inserts, or updates what it has found, replaces the documents with
\* its key in its table by its own and leaves all others.
LEMMA WriteEffect ==
  ASSUME TypeInv, NumbersInv, NEW th \in Threads, Stage(th), DB!ReadAll(th)
  PROVE  /\ \A tb, k : tb # call[th].table => Held(copy'[th], tb, k) = Held(file, tb, k)
         /\ call[th].key = call[th].doc.key =>
              /\ \A k : k # call[th].key =>
                   Held(copy'[th], call[th].table, k) = Held(file, call[th].table, k)
              /\ Held(copy'[th], call[th].table, call[th].key) = DB!Written(th)
         /\ target[th] # {}
         /\ DB!Written(th) # {}
<1> DEFINE tb == call[th].table
           key == call[th].key
           W == DB!Written(th)
           E == {d \in file : d.table = tb => d.number \notin target[th]} \cup W
<1>1. copy'[th] = E
  BY DEF DB!ReadAll, TypeInv, BackendTypeOK, DB!DbTypeOK
<1>2. at[th] \in {"insert", "update"} /\ ~DB!Conflict(th)
  BY DEF DB!ReadAll, DB!Reads
<1>3. target[th] # {}
  BY <1>2 DEF Stage
<1>4. /\ \A d \in W : d.table = tb /\ d.key = call[th].doc.key /\ d.number \in target[th]
      /\ W # {}
  <2>1. \A d \in W : d.table = tb /\ d.key = call[th].doc.key /\ d.number \in target[th]
    BY DEF DB!Written
  <2>2. PICK n \in target[th] : TRUE
    BY <1>3
  <2>3. [table |-> tb, number |-> n, key |-> call[th].doc.key, value |-> call[th].doc.value] \in W
    BY <2>2 DEF DB!Written
  <2>4. W # {}
    BY <2>3
  <2> QED
    BY <2>1, <2>4
<1>5. ASSUME NEW tc, NEW k, tc # tb PROVE Held(E, tc, k) = Held(file, tc, k)
  BY <1>4, <1>5 DEF Held
<1>6. ASSUME NEW d \in file, d.table = tb, d.number \in target[th] PROVE d.key = key
  <2>1. CASE at[th] = "insert"
    BY <1>2, <1>6, <2>1 DEF DB!Conflict, DB!NumbersOf, DB!InTable
  <2>2. CASE at[th] = "update"
    <3>1. PICK e \in Held(file, tb, key) : e.number = d.number
      BY <1>6, <2>2 DEF Stage, DB!NumbersOf
    <3>2. e \in file /\ e.table = tb /\ e.key = key
      BY <3>1 DEF Held
    <3> QED
      BY <1>6, <3>1, <3>2 DEF NumbersInv, OneNumber
  <2> QED
    BY <1>2, <2>1, <2>2
<1>7. ASSUME NEW d \in file, d.table = tb, d.key = key PROVE d.number \in target[th]
  <2>1. d \in Held(file, tb, key)
    BY <1>7 DEF Held
  <2> QED
    BY <1>2, <2>1 DEF Stage, DB!NumbersOf
<1> HIDE DEF W, tb, key
<1>8. ASSUME key = call[th].doc.key, NEW k, k # key PROVE Held(E, tb, k) = Held(file, tb, k)
  BY <1>4, <1>6, <1>8 DEF Held
<1>9. ASSUME key = call[th].doc.key PROVE Held(E, tb, key) = W
  BY <1>4, <1>7, <1>9 DEF Held
<1> QED
  BY <1>1, <1>3, <1>4, <1>5, <1>8, <1>9 DEF tb, key, W

\* The call under way in main is the next of init_db.
LEMMA MainCall ==
  ASSUME TypeInv, LifeInv, Busy("main")
  PROVE  /\ call["main"] = InitCalls[initCalls + 1] /\ initCalls + 1 \in 1..6 /\ initCalls \in 0..5
         /\ phase = "init" /\ Done = initCalls
BY InitCallsTyped, TypeParts
   DEF LifeInv, LifeCalls, Busy, DB!Returned, TypeInv, MainInInit, ProcessTypes, Done

\* Other calls for the table of tasks are made by a process that serves.
LEMMA TaskCall ==
  ASSUME TypeInv, LifeInv, OwnInv, NEW th \in Threads \ {"main"}, Busy(th)
  PROVE  /\ call[th].op # "clear" /\ call[th].table \notin {"player_data", "env_status_data"}
         /\ DoneAfter(th) = Done
         /\ call[th].table = "operation_task_data" =>
              /\ phase = "serving" /\ initCalls = 6 /\ Done = 6
              /\ call[th].doc.key \in Requests /\ call[th].key = call[th].doc.key
              /\ call[th].doc.value \in {"running", "success", "error"}
<1>1. OwnCall(th, call[th])
  BY DEF OwnInv
<1>2. call[th] \in OurCalls
  BY DEF Busy, DB!Returned, TypeInv, CallMatches
<1>3. ASSUME call[th].table = "operation_task_data"
      PROVE  /\ phase = "serving" /\ initCalls = 6 /\ Done = 6 /\ call[th].doc.key \in Requests
             /\ call[th].doc.value \in {"running", "success", "error"}
  <2>1. th \in Others /\ call[th].doc.key \in mine
    BY <1>1, <1>3 DEF OwnCall
  <2>2. phase = "serving"
    BY <2>1 DEF LifeInv, LifeCalls, Busy
  <2>3. initCalls = 6 /\ at["main"] = "idle"
    BY <2>2, InitCallsTyped DEF LifeInv, TypeInv, MainInInit
  <2> QED
    BY <1>1, <1>2, <1>3, <2>1, <2>2, <2>3, TypeParts
       DEF Done, OwnCall, OurCalls, TypeInv, ProcessTypes
<1> QED
  BY <1>1, <1>3 DEF OwnCall, DoneAfter

\* The contents a call writes keep what the file kept, and its own document.
LEMMA ReadAllKeeps ==
  ASSUME TypeInv, LifeInv, OwnInv, NumbersInv, NEW th \in Threads, Busy(th), Stage(th),
         Keeps(file, kept, Done), DB!ReadAll(th)
  PROVE  Keeps(copy'[th], After(th), DoneAfter(th))
<1> DEFINE OP == "operation_task_data"
           E == copy'[th]
           c == call[th]
<1>1. \A tb, k : tb # c.table => Held(E, tb, k) = Held(file, tb, k)
  BY WriteEffect
<1>2. ASSUME c.key = c.doc.key
      PROVE  /\ \A k : k # c.key => Held(E, c.table, k) = Held(file, c.table, k)
             /\ Held(E, c.table, c.key) = DB!Written(th) /\ DB!Written(th) # {}
  BY <1>2, WriteEffect
<1>3. c.op # "clear"
  BY DEF DB!ReadAll, DB!Reads, TypeInv, CallMatches, Writing
<1>4. kept \in [Requests -> {"none", "running", "success", "error"}] /\ initCalls \in Nat
  BY TypeParts, InitCallsTyped DEF TypeInv, ProcessTypes
<1>5. ASSUME c.table # OP PROVE After(th) = kept
  BY <1>4, <1>5 DEF After
<1> HIDE DEF E
<1>6. ASSUME NEW n, c.table # OP,
             \A i \in {1, 2, 4, 5, 6} : i <= n => Held(E, InitCalls[i].table, InitCalls[i].key) # {},
             n >= 3 => Done >= 3
      PROVE  Keeps(E, After(th), n)
  <2>1. \A r \in Requests : Held(E, OP, r) = Held(file, OP, r)
    BY <1>1, <1>6
  <2>2. \A d, r : Held(E, OP, r) = {d} => d \in E
    BY DEF Held
  <2> QED
    BY <1>5, <1>6, <2>1, <2>2 DEF Keeps
<1>7. CASE th = "main"
  <2>1. /\ c = InitCalls[initCalls + 1] /\ initCalls + 1 \in 1..6 /\ initCalls + 1 # 3
        /\ Done = initCalls /\ DoneAfter(th) = initCalls + 1
    BY <1>3, <1>7, MainCall, InitCallsTyped DEF DoneAfter
  <2>2. c.table # OP /\ c.key = c.doc.key
    BY <2>1, InitUpserts
  <2>3. ASSUME NEW i \in {1, 2, 4, 5, 6}, i <= initCalls + 1
        PROVE  Held(E, InitCalls[i].table, InitCalls[i].key) # {}
    <3>1. CASE InitCalls[i].table = c.table /\ InitCalls[i].key = c.key
      BY <1>2, <2>2, <3>1
    <3>2. CASE ~(InitCalls[i].table = c.table /\ InitCalls[i].key = c.key)
      <4>1. i # initCalls + 1
        BY <2>1, <3>2
      <4>2. i <= Done
        BY <1>4, <2>1, <2>3, <4>1
      <4>3. Held(E, InitCalls[i].table, InitCalls[i].key)
              = Held(file, InitCalls[i].table, InitCalls[i].key)
        BY <1>1, <1>2, <2>2, <3>2
      <4> QED
        BY <4>2, <4>3 DEF Keeps
    <3> QED
      BY <3>1, <3>2
  <2>4. initCalls + 1 >= 3 => Done >= 3
    BY <1>4, <2>1
  <2> QED
    BY <1>6, <2>1, <2>2, <2>3, <2>4 DEF E
<1>8. CASE th # "main"
  <2>1. DoneAfter(th) = Done /\ c.table \notin {"player_data", "env_status_data"}
    BY <1>8, TaskCall
  <2>2. \A i \in {1, 2, 4, 5, 6} : i <= Done => Held(E, InitCalls[i].table, InitCalls[i].key) # {}
    BY <1>1, <2>1, InitUpserts DEF Keeps
  <2>3. CASE c.table # OP
    BY <1>6, <2>1, <2>2, <2>3 DEF E
  <2>4. CASE c.table = OP
    <3>1. /\ Done = 6 /\ c.key \in Requests /\ c.key = c.doc.key
          /\ c.doc.value \in {"running", "success", "error"}
      BY <1>8, <2>4, TaskCall
    <3>2. \E m : target[th] = {m}
      <4>1. CASE at[th] = "insert"
        BY <4>1 DEF Stage
      <4>2. CASE at[th] = "update"
        <5>1. target[th] = DB!NumbersOf(Held(file, OP, c.key)) /\ target[th] # {}
          BY <2>4, <4>2 DEF Stage
        <5>2. Held(file, OP, c.key) # {}
          BY <5>1 DEF DB!NumbersOf
        <5>3. kept[c.key] # "none"
          BY <3>1, <5>2 DEF Keeps
        <5>4. PICK d : Held(file, OP, c.key) = {d}
          BY <3>1, <5>3 DEF Keeps
        <5>5. target[th] = {d.number}
          BY <5>1, <5>4 DEF DB!NumbersOf
        <5> QED
          BY <5>5
      <4> QED
        BY <4>1, <4>2 DEF DB!ReadAll, DB!Reads
    <3>3. PICK m : target[th] = {m}
      BY <3>2
    <3>4. PICK d : d.value = c.doc.value /\ DB!Written(th) = {d}
      <4>1. DB!Written(th) = {[table |-> c.table, number |-> m, key |-> c.doc.key,
                               value |-> c.doc.value]}
        BY <3>3 DEF DB!Written
      <4> QED
        BY <4>1
    <3>5. Held(E, OP, c.key) = {d}
      BY <1>2, <2>4, <3>1, <3>4
    <3>6. d \in E
      BY <3>5 DEF Held
    <3>7. \A r \in Requests : After(th)[r] = IF r = c.key THEN c.doc.value ELSE kept[r]
      BY <1>3, <2>4, <3>1 DEF After
    <3>8. \A r \in Requests : r # c.key => Held(E, OP, r) = Held(file, OP, r)
      BY <1>2, <2>4, <3>1
    <3>9. ASSUME NEW r \in Requests, After(th)[r] # "none"
          PROVE  \E e \in E : e.value = After(th)[r] /\ Held(E, OP, r) = {e}
      <4>1. CASE r = c.key
        BY <3>4, <3>5, <3>6, <3>7, <4>1
      <4>2. CASE r # c.key
        <5>1. PICK e : e.value = kept[r] /\ Held(file, OP, r) = {e}
          BY <3>7, <3>9, <4>2 DEF Keeps
        <5>2. Held(E, OP, r) = {e} /\ e \in Held(E, OP, r)
          BY <3>8, <4>2, <5>1
        <5>3. e \in E
          BY <5>2 DEF Held
        <5> QED
          BY <3>7, <4>2, <5>1, <5>2, <5>3
      <4> QED
        BY <4>1, <4>2
    <3>10. ASSUME NEW r \in Requests, After(th)[r] = "none" PROVE Held(E, OP, r) = {}
      BY <3>1, <3>7, <3>8, <3>10 DEF Keeps
    <3> QED
      BY <2>1, <2>2, <3>9, <3>10 DEF Keeps, E
  <2> QED
    BY <2>3, <2>4
<1> QED
  BY <1>7, <1>8 DEF E

\* init_db's third call empties the table of tasks, and leaves the others.
LEMMA ClearKeeps ==
  ASSUME TypeInv, LifeInv, OwnInv, NEW th \in Threads, Busy(th),
         Keeps(file, kept, Done), DB!ReadToClear(th), call[th].op = "clear"
  PROVE  Keeps(copy'[th], After(th), DoneAfter(th))
<1>1. th = "main"
  BY TaskCall
<1>2. /\ call[th] = InitCalls[3] /\ initCalls = 2 /\ Done = 2 /\ DoneAfter(th) = 3
      /\ call[th].table = "operation_task_data" /\ phase = "init"
  BY <1>1, MainCall, InitCallsTyped, ThirdCallClears DEF DoneAfter
<1>3. copy'[th] = file \ DB!InTable("operation_task_data")
  BY <1>2 DEF DB!ReadToClear, TypeInv, BackendTypeOK, DB!DbTypeOK
<1>4. \A r \in Requests : kept[r] = "none" /\ After(th)[r] = "none"
  BY <1>2 DEF OwnInv, After
<1>5. \A r : Held(copy'[th], "operation_task_data", r) = {}
  BY <1>3 DEF Held, DB!InTable
<1>6. \A i \in {1, 2, 4, 5, 6} : Held(copy'[th], InitCalls[i].table, InitCalls[i].key)
                                   = Held(file, InitCalls[i].table, InitCalls[i].key)
  BY <1>3, InitUpserts DEF Held, DB!InTable
<1> QED
  BY <1>2, <1>4, <1>5, <1>6 DEF Keeps

\* A thread begins a call: no other has one under way.
LEMMA SerialBegins ==
  ASSUME TypeInv, SerialInv, NEW th \in Threads, NEW c \in OurCalls, Calls(th, c),
         UNCHANGED <<phase, brokenStart, initCalls, kept>>,
         c.op = "insert" /\ Serial /\ Keeps(file, kept, Done) => Held(file, c.table, c.key) = {}
  PROVE  SerialInv'
<1> SUFFICES ASSUME Serial' PROVE SerialInv'
  BY DEF SerialInv
<1>1. DB!Begins(th, c) /\ overlapped' = (overlapped \/ \E u \in Threads : Busy(u))
  BY DEF Calls
<1>2. Serial /\ \A u \in Threads : ~Busy(u)
  BY <1>1 DEF Serial
<1>3. readable /\ Keeps(file, kept, Done)
  BY <1>2 DEF SerialInv, Busy, DB!Returned
<1>4. \A u \in Threads \ {th} : at'[u] = at[u]
  BY <1>1, CallersKeepMain
<1>5. c.op \in {"insert", "upsert", "clear"}
  BY DEF OurCalls, DB!Calls
<1>6. /\ at'[th] \in {"number", "search", "clear"}
      /\ at'[th] = "number" => c.op = "insert"
      /\ at'[th] = "clear" => c.op = "clear"
      /\ at[th] = "idle" /\ call'[th] = c /\ UNCHANGED <<file, readable>>
  BY <1>1, <1>5 DEF DB!Begins, DB!Goto, TypeInv, BackendTypeOK, DB!DbTypeOK
<1>7. \A u \in Threads : Busy(u)' => u = th
  BY <1>2, <1>4 DEF Busy
<1>8. \A u \in Threads : Stage(u)'
  <2>1. ASSUME NEW u \in Threads, u # th PROVE Stage(u)'
    BY <1>7, <2>1 DEF Stage, Busy, DB!Returned
  <2>2. ASSUME at'[th] = "number" PROVE Held(file', call'[th].table, call'[th].key) = {}
    BY <1>2, <1>3, <1>6, <2>2
  <2>3. Stage(th)'
    <3>1. at'[th] \notin {"insert", "update", "write", "truncate"}
          /\ (at'[th] = "clear" => call'[th].op = "clear")
      BY <1>6
    <3> QED
      BY <2>2, <3>1 DEF Stage
  <2> QED
    BY <2>1, <2>3
<1>9. Done' = Done
  BY <1>4, <1>6, ThreadFacts DEF Done
<1>10. Keeps(file, kept, Done)'
  BY <1>3, <1>6, <1>9 DEF Keeps, Held
<1> QED
  BY <1>3, <1>6, <1>7, <1>8, <1>10 DEF SerialInv

\* The caller goes on after its call; main counts it.
LEMMA SerialContinues ==
  ASSUME TypeInv, SerialInv, NEW th \in Threads, DB!Continues(th),
         UNCHANGED <<phase, brokenStart, overlapped, kept>>,
         \/ th # "main" /\ initCalls' = initCalls
         \/ th = "main" /\ at[th] = "written" /\ initCalls' = initCalls + 1
  PROVE  SerialInv'
<1> SUFFICES ASSUME Serial' PROVE SerialInv'
  BY DEF SerialInv
<1> USE ThreadFacts
<1>1. Serial
  BY DEF Serial
<1>2. /\ \A u \in Threads \ {th} : at'[u] = at[u]
      /\ at'[th] = "idle" /\ UNCHANGED <<file, readable, lastWriter, call, target, copy>>
      /\ at[th] \in {"written", "raised"}
  BY CallersKeepMain, ContinuesToIdle DEF DB!Continues, DB!Returned
<1>3. Done' = Done
  BY <1>2 DEF Done
<1>4. ASSUME NEW u \in Threads, u # th 
      PROVE  After(u)' = After(u) /\ DoneAfter(u)' = DoneAfter(u)
  <2>1. After(u)' = After(u)
    BY <1>2 DEF After
  <2>2. DoneAfter(u)' = DoneAfter(u)
    BY <1>3, <1>4 DEF DoneAfter
  <2> QED
    BY <2>1, <2>2
<1>5. ASSUME NEW u \in Threads PROVE Stage(u)'
  <2>1. CASE u = th
    BY <1>2, <2>1 DEF Stage
  <2>2. CASE u # th
    <3>1. Stage(u)
      BY <1>1 DEF SerialInv
    <3>2. After(u)' = After(u) /\ DoneAfter(u)' = DoneAfter(u) /\ at'[u] = at[u]
      BY <1>2, <1>4, <2>2
    <3>3. Stage(u)' <=> Stage(u)
      BY <1>2, <3>2 DEF Stage, Keeps, Held, DB!NumbersOf
    <3> QED
      BY <3>1, <3>3
  <2> QED
    BY <2>1, <2>2
<1>6. \A u \in Threads : Busy(u)' => Busy(u)
  BY <1>2 DEF Busy
<1>7. (\A u \in Threads : at'[u] # "truncate") => \A u \in Threads : at[u] # "truncate"
  BY <1>2
<1>8. Keeps(file, kept, Done)' <=> Keeps(file, kept, Done)
  BY <1>2, <1>3 DEF Keeps, Held
<1> QED
  BY <1>1, <1>2, <1>5, <1>6, <1>7, <1>8 DEF SerialInv

\* A step that is not about the store.
LEMMA SerialElsewhere ==
  ASSUME TypeInv, SerialInv, UNCHANGED <<dbVars, initCalls, kept, brokenStart, overlapped>>,
         phase' = phase \/ phase # "down"
  PROVE  SerialInv'
<1> SUFFICES ASSUME Serial' PROVE SerialInv'
  BY DEF SerialInv
<1>1. Serial /\ UNCHANGED <<file, readable, lastWriter, at, call, target, copy>>
  BY DEF Serial, dbVars
<1>2. \A th \in Threads : (Stage(th)' <=> Stage(th)) /\ (Busy(th)' <=> Busy(th))
  BY <1>1 DEF Stage, Busy, After, DoneAfter, Done, Keeps, Held, DB!NumbersOf
<1>3. Keeps(file, kept, Done)' <=> Keeps(file, kept, Done)
  BY <1>1 DEF Keeps, Held, Done
<1> QED
  BY <1>1, <1>2, <1>3 DEF SerialInv

\* A step of the only call under way.
LEMMA SerialStoreStep ==
  ASSUME TypeInv, LifeInv, OwnInv, NumbersInv, SerialInv, NEW th \in Threads, StoreStep(th)
  PROVE  SerialInv'
<1> SUFFICES ASSUME Serial' PROVE SerialInv'
  BY DEF SerialInv
<1> USE ThreadFacts
<1> DEFINE c == call[th]
<1>1. DB!DbStep(th) /\ UNCHANGED <<phase, brokenStart, initCalls, overlapped>>
  BY DEF StoreStep, process
<1>2. Serial
  BY <1>1 DEF Serial
<1>3. Busy(th)
  BY <1>1 DEF Busy, DB!Returned, DB!DbStep, DB!Search, DB!ChooseNumber, DB!ReadAll,
     DB!ReadToClear, DB!Reads, DB!ReadRaises, DB!WriteFile, DB!Truncate, DB!Reading
<1>4. readable /\ Stage(th) /\ \A u \in Threads \ {th} : ~Busy(u)
  BY <1>2, <1>3 DEF SerialInv
<1>5. \A u \in Threads \ {th} : at'[u] = at[u] /\ at'[u] \in {"idle", "written", "raised"}
  BY <1>1, <1>4, MainStays DEF Busy, DB!Returned
<1>6. /\ at \in [Threads -> DB!Steps] /\ target \in [Threads -> SUBSET DB!Numbers]
      /\ call \in [Threads -> DB!Calls \cup {DB!NoCall}] /\ copy \in [Threads -> DB!Contents]
      /\ kept \in [Requests -> {"none", "running", "success", "error"}]
      /\ initCalls \in Nat
  BY TypeParts, InitCallsTyped DEF TypeInv, ProcessTypes, DB!DbTypeOK
<1>7. at[th] # "truncate" => Keeps(file, kept, Done)
  BY <1>2, <1>4 DEF SerialInv, Busy, DB!Returned
\* What is left to show of each step.
<1>8. ASSUME readable', Stage(th)', at'[th] # "truncate" => Keeps(file, kept, Done)'
      PROVE  SerialInv'
  <2>1. \A u \in Threads \ {th} : ~Busy(u)' /\ Stage(u)'
    BY <1>5 DEF Busy, DB!Returned, Stage
  <2> QED
    BY <1>8, <2>1 DEF SerialInv
<1>9. at[th] # "written" /\ Done = IF th = "main" THEN initCalls ELSE Done
  BY <1>3 DEF Busy, DB!Returned, Done
<1>10. ASSUME at'[th] # "written"
       PROVE  kept' = kept /\ Done' = Done /\ DoneAfter(th)' = DoneAfter(th)
  <2>1. kept' = kept
    BY <1>6, <1>10 DEF StoreStep
  <2>2. Done' = Done
    BY <1>1, <1>5, <1>9, <1>10 DEF Done
  <2> QED
    BY <1>1, <2>1, <2>2 DEF DoneAfter
<1>11. ASSUME at'[th] # "written", call' = call PROVE After(th)' = After(th)
  BY <1>10, <1>11 DEF After
<1>12. ASSUME at[th] # "truncate", at'[th] # "written", file' = file
       PROVE  Keeps(file, kept, Done)'
  BY <1>7, <1>10, <1>12 DEF Keeps, Held
<1>13. CASE DB!Search(th)
  <2>1. /\ target'[th] = DB!NumbersOf(Held(file, c.table, c.key))
        /\ at'[th] = IF target'[th] = {} THEN "number" ELSE "update"
        /\ at[th] = "search" /\ UNCHANGED <<file, readable, call>>
    BY <1>6, <1>13 DEF DB!Search, DB!Reads, DB!Goto, DB!DocsWith, DB!InTable, Held
  <2>2. at'[th] = "number" => Held(file, c.table, c.key) = {}
    BY <2>1 DEF DB!NumbersOf
  <2>3. Stage(th)'
    BY <2>1, <2>2 DEF Stage, Held, DB!NumbersOf
  <2> QED
    BY <1>4, <1>8, <1>12, <2>1, <2>3
<1>14. CASE DB!ChooseNumber(th)
  <2>1. /\ \E m \in DB!Numbers : target'[th] = {m}
        /\ at'[th] = "insert" /\ at[th] = "number" /\ UNCHANGED <<file, readable, call>>
    BY <1>6, <1>14 DEF DB!ChooseNumber, DB!Reads, DB!Goto
  <2>2. Held(file', call'[th].table, call'[th].key) = {}
    BY <1>4, <2>1 DEF Stage, Held
  <2>3. Stage(th)'
    BY <2>1, <2>2 DEF Stage
  <2> QED
    BY <1>4, <1>8, <1>12, <2>1, <2>3
<1>15. CASE DB!ReadAll(th) \/ DB!ReadToClear(th)
  <2>1. /\ at'[th] = "write" /\ UNCHANGED <<file, readable, call>> /\ at[th] # "truncate"
        /\ DB!ReadToClear(th) => at[th] = "clear"
    BY <1>6, <1>15 DEF DB!ReadAll, DB!ReadToClear, DB!Reads, DB!Goto
  <2>2. Keeps(copy'[th], After(th), DoneAfter(th))
    BY <1>3, <1>4, <1>7, <1>15, <2>1, ReadAllKeeps, ClearKeeps DEF Stage
  <2>3. Keeps(copy'[th], After(th)', DoneAfter(th)')
    BY <1>10, <1>11, <2>1, <2>2
  <2>4. Stage(th)'
    BY <2>1, <2>3 DEF Stage
  <2> QED
    BY <1>4, <1>8, <1>12, <2>1, <2>4
<1>16. CASE DB!ReadRaises(th)
  <2>1. /\ at'[th] = "raised" /\ UNCHANGED <<file, readable>> /\ at[th] # "truncate"
    BY <1>6, <1>16 DEF DB!ReadRaises, DB!Ends, DB!Goto, DB!Reading
  <2>2. Stage(th)'
    BY <2>1 DEF Stage
  <2> QED
    BY <1>4, <1>8, <1>12, <2>1, <2>2
<1>17. CASE DB!WriteFile(th)
  <2>1. /\ at'[th] = "truncate" /\ at[th] = "write" /\ file' = copy[th] /\ readable' = TRUE
        /\ lastWriter' = {th} /\ call' = call
    BY <1>6, <1>17 DEF DB!WriteFile, DB!Goto
  <2>2. Keeps(copy[th], After(th), DoneAfter(th))
    BY <1>4, <2>1 DEF Stage
  <2>3. Keeps(file', After(th)', DoneAfter(th)')
    BY <1>10, <1>11, <2>1, <2>2
  <2>4. Stage(th)'
    BY <2>1, <2>3 DEF Stage
  <2> QED
    BY <1>8, <2>1, <2>4
<1>18. CASE DB!Truncate(th)
  <2>1. at'[th] = "written" /\ at[th] = "truncate" /\ file' = file
    BY <1>6, <1>18 DEF DB!Truncate, DB!Ends, DB!Goto
  <2>2. lastWriter = {th} /\ Keeps(file, After(th), DoneAfter(th))
    BY <1>4, <2>1 DEF Stage
  <2>3. readable'
    BY <1>4, <1>18, <2>2 DEF DB!Truncate
  <2>4. kept' = After(th)
    BY <2>1 DEF StoreStep, After
  <2>5. Done' = DoneAfter(th)
    BY <1>1, <1>5, <2>1 DEF Done, DoneAfter
  <2>6. Keeps(file', kept', Done')
    BY <2>1, <2>2, <2>4, <2>5
  <2>7. Stage(th)'
    BY <2>1 DEF Stage
  <2> QED
    BY <1>8, <2>3, <2>6, <2>7
<1> QED
  BY <1>1, <1>13, <1>14, <1>15, <1>16, <1>17, <1>18 DEF DB!DbStep

\* A request's document is new when its task is created.
LEMMA NewDocument ==
  ASSUME TypeInv, LifeInv, OwnInv, NEW r \in Requests, phase = "serving", req[r] = "none",
         Keeps(file, kept, Done)
  PROVE  Held(file, "operation_task_data", r) = {}
<1>1. kept[r] = "none"
  BY DEF OwnInv
<1>2. initCalls = 6 /\ at["main"] = "idle"
  BY InitCallsTyped DEF LifeInv, TypeInv, MainInInit
<1>3. Done >= 3
  BY <1>2 DEF Done
<1> QED
  BY <1>1, <1>3 DEF Keeps

LEMMA SerialNext ==
  ASSUME TypeInv, DownInv, LifeInv, OwnInv, NumbersInv, SerialInv, [BackendNext]_backendVars
  PROVE  SerialInv'
<1> USE ThreadFacts
<1>1. ASSUME phase' = "down" PROVE SerialInv'
  BY <1>1 DEF SerialInv, Serial
<1>2. CASE StartProcess
  <2>1. /\ initCalls' = 0 /\ \A th \in Threads : at'[th] = "idle"
        /\ \A r \in Requests : kept'[r] = "none"
    BY <1>2 DEF StartProcess, DownInv, OwnInv, dbVars, history
  <2>2. Serial' => readable'
    BY <1>2 DEF StartProcess, Serial, dbVars
  <2>3. Keeps(file', kept', Done')
    BY <2>1 DEF Keeps, Done
  <2>4. \A th \in Threads : ~Busy(th)' /\ Stage(th)'
    BY <2>1 DEF Busy, Stage
  <2> QED
    BY <2>2, <2>3, <2>4 DEF SerialInv
<1>3. CASE MainStep
  <2>1. CASE CallInit
    <3>1. PICK c \in OurCalls : Calls("main", c) /\ c.op # "insert"
      BY <2>1, InitCallsTyped, TypeParts DEF CallInit, TypeInv, ProcessTypes
    <3>2. UNCHANGED <<phase, brokenStart, initCalls, kept>>
      BY <2>1 DEF CallInit, process, history
    <3> QED
      BY <3>1, <3>2, SerialBegins
  <2>2. CASE InitCallReturns
    BY <2>2, SerialContinues DEF InitCallReturns, history
  <2>3. CASE Serve
    BY <2>3, SerialElsewhere DEF Serve, history
  <2> QED
    BY <1>1, <1>3, <2>1, <2>2, <2>3 DEF MainStep, InitCallRaises, ProcessEnds
<1>4. CASE SimulatorStep
  <2>1. CASE WriteTopology
    <3>1. TopologyCall \in OurCalls /\ TopologyCall.op # "insert"
          /\ Calls("simulator", TopologyCall)
      BY <2>1, OtherCallsTyped DEF WriteTopology
    <3>2. UNCHANGED <<phase, brokenStart, initCalls, kept>>
      BY <2>1 DEF WriteTopology, process, history
    <3> QED
      BY <3>1, <3>2, SerialBegins
  <2>2. CASE TopologyWritten
    BY <2>2, SerialContinues DEF TopologyWritten, process, history
  <2> QED
    BY <1>4, <2>1, <2>2 DEF SimulatorStep
<1>5. CASE LoopThread
  <2>1. CASE InitLoop
    <3>1. PICK c \in OurCalls : Calls("loop", c) /\ c.op # "insert"
      BY <2>1, OtherCallsTyped DEF InitLoop
    <3>2. UNCHANGED <<phase, brokenStart, initCalls, kept>>
      BY <2>1 DEF InitLoop, process, history
    <3> QED
      BY <3>1, <3>2, SerialBegins
  <2>2. CASE QueueSteps
    BY <2>2, SerialElsewhere DEF QueueSteps, process, history
  <2>3. CASE LoopCallReturns
    BY <2>3, SerialContinues DEF LoopCallReturns, process, history
  <2>4. ASSUME NEW t \in Tasks, NEW s \in {"success", "error"}, UpdateTask(t, s) PROVE SerialInv'
    <3>1. DB!Upsert("operation_task_data", t, Task(t, s)).op # "insert"
      BY DEF DB!Upsert
    <3>2. PICK c \in OurCalls : Calls("loop", c) /\ c.op # "insert"
      BY <2>4, <3>1, TaskCalls DEF UpdateTask
    <3>3. UNCHANGED <<phase, brokenStart, initCalls, kept>>
      BY <2>4 DEF UpdateTask, process
    <3> QED
      BY <3>2, <3>3, SerialBegins
  <2> QED
    BY <1>5, <2>1, <2>2, <2>3, <2>4 DEF LoopThread
<1>6. ASSUME NEW r \in Requests, RequestStep(r) PROVE SerialInv'
  <2>0. r \in Threads /\ r # "main"
    OBVIOUS
  <2>1. CASE CreateTask(r)
    <3> DEFINE c == DB!Insert("operation_task_data", Task(r, "running"))
    <3>1. c.key = r /\ c.table = "operation_task_data"
      BY DEF DB!Insert, Task
    <3>2. c \in OurCalls /\ Calls(r, c)
      BY <2>1, TaskCalls DEF CreateTask
    <3> HIDE DEF c
    <3>3. UNCHANGED <<phase, brokenStart, initCalls, kept>> /\ phase = "serving" /\ req[r] = "none"
      BY <2>1 DEF CreateTask, process
    <3> QED
      BY <2>0, <3>1, <3>2, <3>3, NewDocument, SerialBegins
  <2>2. CASE r \in Tasks /\ PutTask(r)
    BY <2>0, <2>2, SerialContinues DEF PutTask, process, history
  <2>3. CASE r \in Tasks /\ TaskIsPut(r)
    BY <2>3, SerialElsewhere DEF TaskIsPut, process, history
  <2>4. CASE r \in SwitchTasks /\ (ExecuteSwitchTask(r) \/ SwitchTaskReturns(r))
    BY <2>0, <2>4, SerialContinues DEF ExecuteSwitchTask, SwitchTaskReturns, process, history
  <2>5. ASSUME r \in SwitchTasks, NEW isSet \in BOOLEAN, NEW answer \in {"success", "error"},
               RuleAnswers(r, isSet, answer)
        PROVE  SerialInv'
    <3>1. DB!Upsert("operation_task_data", r, Task(r, answer)).op # "insert"
      BY DEF DB!Upsert
    <3>2. PICK c \in OurCalls : Calls(r, c) /\ c.op # "insert"
      BY <2>5, <3>1, TaskCalls DEF RuleAnswers
    <3>3. UNCHANGED <<phase, brokenStart, initCalls, kept>>
      BY <2>5 DEF RuleAnswers, process, history
    <3> QED
      BY <2>0, <3>2, <3>3, SerialBegins
  <2> QED
    BY <1>6, <2>1, <2>2, <2>3, <2>4, <2>5 DEF RequestStep
<1>7. CASE UNCHANGED backendVars
  BY <1>7, SerialElsewhere DEF backendVars, process, history
<1> QED
  BY <1>1, <1>2, <1>3, <1>4, <1>5, <1>6, <1>7, SerialStoreStep DEF BackendNext, Killed, ProcessEnds

LEMMA SerialImplies ==
  ASSUME TypeInv, LifeInv, OwnInv, DocsInv, SerialInv
  PROVE  SerialCallsAreKept
<1> SUFFICES ASSUME phase # "down", ~brokenStart, ~overlapped, ~\E th \in Threads : Busy(th)
             PROVE  /\ readable
                    /\ \A r \in Requests : kept[r] # "none" =>
                         \E d \in TaskDocs :
                           d.value = kept[r] /\ {e \in TaskDocs : e.key = r} = {d}
                    /\ phase = "serving" =>
                         /\ TasksInTable \subseteq mine
                         /\ \A i \in {1, 2, 4, 5, 6} :
                              DB!DocsWith(InitCalls[i].table, InitCalls[i].key) # {}
  BY DEF SerialCallsAreKept
<1>1. readable /\ Keeps(file, kept, Done)
  BY DEF SerialInv, Serial, Busy, DB!Returned
<1>2. \A r : {e \in TaskDocs : e.key = r} = Held(file, "operation_task_data", r)
  BY DEF TaskDocs, DB!InTable, Held
<1>3. ASSUME NEW r \in Requests, kept[r] # "none"
      PROVE  \E d \in TaskDocs : d.value = kept[r] /\ {e \in TaskDocs : e.key = r} = {d}
  <2>1. PICK d : d.value = kept[r] /\ Held(file, "operation_task_data", r) = {d}
    BY <1>1, <1>3 DEF Keeps
  <2>2. {e \in TaskDocs : e.key = r} = {d}
    BY <1>2, <2>1
  <2> QED
    BY <2>1, <2>2
<1>4. ASSUME phase = "serving"
      PROVE  /\ TasksInTable \subseteq mine
             /\ \A i \in {1, 2, 4, 5, 6} : DB!DocsWith(InitCalls[i].table, InitCalls[i].key) # {}
  <2>1. initCalls = 6 /\ at["main"] = "idle"
    BY <1>4, InitCallsTyped DEF LifeInv, TypeInv, MainInInit
  <2>2. Done = 6
    BY <2>1 DEF Done
  <2>3. \A tb, k : DB!DocsWith(tb, k) = Held(file, tb, k)
    BY DEF DB!DocsWith, DB!InTable, Held
  <2>4. ASSUME NEW d \in TaskDocs PROVE d.key \in mine
    <3>1. d \in file /\ d.table = "operation_task_data"
      BY DEF TaskDocs, DB!InTable
    <3>2. d.key \in Requests
      BY <3>1 DEF DocsInv, Genuine
    <3>3. Held(file, "operation_task_data", d.key) # {}
      BY <3>1 DEF Held
    <3>4. kept[d.key] # "none"
      BY <1>1, <2>2, <3>2, <3>3 DEF Keeps
    <3> QED
      BY <3>2, <3>4 DEF OwnInv
  <2>5. TasksInTable \subseteq mine
    BY <2>4 DEF TasksInTable
  <2> QED
    BY <1>1, <2>2, <2>3, <2>5 DEF Keeps
<1> QED
  BY <1>1, <1>3, <1>4

\* As long as the calls of a process do not overlap, what each of them has returned
\* is in the file, once and as it was written last, whatever the starts and kills
\* before have left there: for any number of tasks, documents and starts.
THEOREM SerialCorrect == BackendSpec => []SerialCallsAreKept
<1>1. BackendInit => DownInv /\ LifeInv /\ Asked /\ DocsInv /\ OwnInv /\ NumbersInv /\ SerialInv
  <2> SUFFICES ASSUME BackendInit
               PROVE  DownInv /\ LifeInv /\ Asked /\ DocsInv /\ OwnInv /\ NumbersInv /\ SerialInv
    OBVIOUS
  <2>1. /\ file = {} /\ at = [th \in Threads |-> "idle"] /\ copy = [th \in Threads |-> {}]
        /\ phase = "down" /\ items = << >> /\ taken = << >> /\ mine = {}
        /\ kept = [r \in Requests |-> "none"]
        /\ simulator = "off" /\ initCalls = 0 /\ req \in [Requests -> {"none", "over"}]
    BY DEF BackendInit, Init, NothingInMemory, DB!DbInit, DB!NoCalls
  <2>2. DownInv /\ LifeInv
    BY <2>1, ThreadFacts, EmptyRange DEF DownInv, LifeInv, LifeCalls, Others, Writing
  <2>3. Asked /\ DocsInv
    BY <2>1, EmptyRange DEF Asked, DocsInv, Writing
  <2>4. OwnInv /\ NumbersInv
    BY <2>1, ThreadFacts DEF OwnInv, NumbersInv, OneNumber, Busy
  <2>5. SerialInv
    BY <2>1 DEF SerialInv, Serial
  <2> QED
    BY <2>2, <2>3, <2>4, <2>5
<1>2. TypeInv /\ DownInv /\ LifeInv /\ Asked /\ DocsInv /\ OwnInv /\ NumbersInv /\ SerialInv
        /\ [BackendNext]_backendVars
      => DownInv' /\ LifeInv' /\ Asked' /\ DocsInv' /\ OwnInv' /\ NumbersInv' /\ SerialInv'
  BY DownNext, LifeNext, AskedNext, DocsNext, OwnNext, NumbersNext, SerialNext
<1>3. TypeInv /\ LifeInv /\ OwnInv /\ DocsInv /\ SerialInv => SerialCallsAreKept
  BY SerialImplies
<1> QED
  BY <1>1, <1>2, <1>3, TypeInvHolds, PTL DEF BackendSpec
=============================================================================
