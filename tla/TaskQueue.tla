----------------------------- MODULE TaskQueue -----------------------------
(***************************************************************************)
(* taskQueue between the threads that use it.  flask_async.py runs each    *)
(* request's coroutine in a thread and an event loop of its own, so        *)
(* create_task calls taskQueue.put there; distribute_tasks calls           *)
(* taskQueue.get in main_event_loop's thread.  asyncio.Queue has no lock:  *)
(* the two calls interleave wherever the interpreter switches threads.     *)
(*                                                                         *)
(*   get:  while the queue is empty, append a new future to the waiting    *)
(*         getters and await it; then take the first item.                 *)
(*   put:  append the item, then finish the first waiting getter, which    *)
(*         adds a callback to the loop's ready list but, called from       *)
(*         another thread, does not wake the loop's select().              *)
(*                                                                         *)
(* heartbeat_monitor's sleep, and lines from clients, end a select().      *)
(***************************************************************************)
EXTENDS Naturals, Sequences, Functions

CONSTANTS Tasks  \* each is put once, by its request's thread

VARIABLES
    items,    \* the queue's deque
    putting,  \* [Tasks -> how far the put has come]
    get,      \* how far distribute_tasks' get has come
    getter,   \* a future waits to be finished
    ready,    \* the loop has the callback of a finished future to run
    asleep,   \* the loop is in select()
    appended, \* all items in the order they were appended (history)
    taken     \* all items in the order get returned them (history)

vars == <<items, putting, get, getter, ready, asleep, appended, taken>>

TypeOK ==
    /\ items \in Seq(Tasks)
    /\ putting \in [Tasks -> {"no", "appended", "done"}]
    /\ get \in {"check", "register", "await", "returned"}
    /\ getter \in BOOLEAN
    /\ ready \in BOOLEAN
    /\ asleep \in BOOLEAN
    /\ appended \in Seq(Tasks)
    /\ taken \in Seq(Tasks)

Init ==
    /\ items = << >>
    /\ putting = [t \in Tasks |-> "no"]
    /\ get = "check"
    /\ getter = FALSE
    /\ ready = FALSE
    /\ asleep = FALSE
    /\ appended = << >>
    /\ taken = << >>

-----------------------------------------------------------------------------
(* A request's thread, in create_task.                                     *)

PutAppends(t) ==
    /\ putting[t] = "no"
    /\ putting' = [putting EXCEPT ![t] = "appended"]
    /\ items' = Append(items, t)
    /\ appended' = Append(appended, t)
    /\ UNCHANGED <<get, getter, ready, asleep, taken>>

PutWakes(t) ==
    /\ putting[t] = "appended"
    /\ putting' = [putting EXCEPT ![t] = "done"]
    /\ getter' = FALSE
    /\ ready' = (ready \/ getter)
    /\ UNCHANGED <<items, get, asleep, appended, taken>>

-----------------------------------------------------------------------------
(* The loop's thread.                                                      *)

\* distribute_tasks goes on to its next round.
NextRound ==
    /\ get = "returned"
    /\ get' = "check"
    /\ UNCHANGED <<items, putting, getter, ready, asleep, appended, taken>>

GetFindsEmpty ==
    /\ get = "check"
    /\ items = << >>
    /\ get' = "register"
    /\ UNCHANGED <<items, putting, getter, ready, asleep, appended, taken>>

\* Mutant: the item stays in the queue.
GetReturnsAndKeeps ==
    /\ get = "check"
    /\ items # << >>
    /\ get' = "returned"
    /\ taken' = Append(taken, Head(items))
    /\ UNCHANGED <<items, putting, getter, ready, asleep, appended>>

GetReturns ==
    /\ get = "check"
    /\ items # << >>
    /\ get' = "returned"
    /\ items' = Tail(items)
    /\ taken' = Append(taken, Head(items))
    /\ UNCHANGED <<putting, getter, ready, asleep, appended>>

GetRegisters ==
    /\ get = "register"
    /\ get' = "await"
    /\ getter' = TRUE
    /\ UNCHANGED <<items, putting, ready, asleep, appended, taken>>

\* Nothing is ready: the loop selects.
LoopSelects ==
    /\ get = "await"
    /\ ~ready /\ ~asleep
    /\ asleep' = TRUE
    /\ UNCHANGED <<items, putting, get, getter, ready, appended, taken>>

\* Mutant: no timer; only another callback could end the select().
TimerNeverEnds ==
    /\ FALSE
    /\ UNCHANGED vars

\* The sleep of heartbeat_monitor is over.
TimerEnds ==
    /\ asleep
    /\ asleep' = FALSE
    /\ UNCHANGED <<items, putting, get, getter, ready, appended, taken>>

GetResumes ==
    /\ get = "await"
    /\ ready /\ ~asleep
    /\ ready' = FALSE
    /\ get' = "check"
    /\ UNCHANGED <<items, putting, getter, asleep, appended, taken>>

-----------------------------------------------------------------------------
LoopStep ==
    \/ NextRound \/ GetFindsEmpty \/ GetReturns \/ GetRegisters
    \/ LoopSelects \/ GetResumes

Next ==
    \/ \E t \in Tasks : PutAppends(t) \/ PutWakes(t)
    \/ LoopStep \/ TimerEnds

Spec == Init /\ [][Next]_vars

\* Both threads run, and heartbeat_monitor's sleeps end.
FairSpec ==
    /\ Spec
    /\ \A t \in Tasks : WF_vars(PutWakes(t))
    /\ WF_vars(LoopStep)
    /\ WF_vars(TimerEnds)

-----------------------------------------------------------------------------
(* What the queue still promises, used this way.                           *)

\* However the threads interleave, every task put is taken at most once, in the
\* order of the puts, and the others wait in the queue.
TakenInOrder == appended = taken \o items

\* A finished getter gets the loop to the queue again, though its thread does not
\* wake the loop: heartbeat_monitor's sleep does.
WokenLoopTakes == ready ~> get = "check"

-----------------------------------------------------------------------------
(* What comments in the code say and the code does not do.                  *)

\* flask_async.py:7, "objects are only accessible in the same event loop", and
\* client_connect.py:206, "execute the task": a task that was put is taken.  A put
\* between the two steps of get finds no getter, and get awaits a wake-up that
\* was already given.
PutTaskIsTaken == \A t \in Tasks : putting[t] = "done" ~> t \in Range(taken)
=============================================================================
