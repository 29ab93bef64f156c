------------------------------- MODULE TinyDB -------------------------------
(***************************************************************************)
(* db/tiny_db.py, class TinyDBUtil, under the threads that use it.  Every  *)
(* call opens db.json anew; TinyDB reads and writes the whole file, all    *)
(* tables at once, without a lock.  So a call is a sequence of file reads, *)
(* one file write and one truncation of the file at the end of what was    *)
(* written, and calls of different threads interleave between them.        *)
(*                                                                         *)
(*   async_write           insert: read for the next number, read, write   *)
(*   async_upsert_by_key   search, then update, or insert if nothing found *)
(*   async_clear_table     read, write                                     *)
(*                                                                         *)
(* Between the write of a shorter text and the truncation a reader finds a *)
(* file that is not JSON, and its call raises.  A thread that truncates    *)
(* after another thread has written cuts that thread's text, or fills it   *)
(* up with zeros: unless the two texts are equally long, the file is       *)
(* unreadable from then on.  Lengths are left open.                        *)
(***************************************************************************)
EXTENDS Naturals

CONSTANTS
    Threads, \* that call the store
    Tables,  \* of db.json
    Keys,    \* what the field an upsert searches may hold
    Values,  \* what else a document holds
    MaxDocs  \* bound: document numbers of a table

VARIABLES
    file,       \* the documents of all tables
    readable,   \* the text of the file is JSON
    lastWriter, \* {} or the thread that wrote the file last
    at,         \* [Threads -> the next file operation of its call, or its end]
    call,       \* [Threads -> its call]
    target,     \* [Threads -> the numbers its call is to write]
    copy        \* [Threads -> the contents its call writes]

dbVars == <<file, readable, lastWriter, at, call, target, copy>>

Numbers == 1..MaxDocs
Docs == [key : Keys, value : Values]
Contents == SUBSET [table : Tables, number : Numbers, key : Keys, value : Values]
Calls == [op : {"insert", "upsert"}, table : Tables, key : Keys, doc : Docs]
           \cup [op : {"clear"}, table : Tables]
NoCall == [op |-> "none"]

Reading == {"search", "number", "insert", "update", "clear"}
Returned == {"written", "raised"}
Steps == {"idle", "write", "truncate"} \cup Reading \cup Returned

DbTypeOK ==
    /\ file \in Contents
    /\ readable \in BOOLEAN
    /\ lastWriter \in SUBSET Threads
    /\ at \in [Threads -> Steps]
    /\ call \in [Threads -> Calls \cup {NoCall}]
    /\ target \in [Threads -> SUBSET Numbers]
    /\ copy \in [Threads -> Contents]

\* No thread has a call under way.
NoCalls ==
    /\ lastWriter = {}
    /\ at = [th \in Threads |-> "idle"]
    /\ call = [th \in Threads |-> NoCall]
    /\ target = [th \in Threads |-> {}]
    /\ copy = [th \in Threads |-> {}]

DbInit == file = {} /\ readable = TRUE /\ NoCalls

Goto(th, step) == at' = [at EXCEPT ![th] = step]

-----------------------------------------------------------------------------
(* What a thread calls, and how its call ends.                             *)

Insert(tb, d) == [op |-> "insert", table |-> tb, key |-> d.key, doc |-> d]
Upsert(tb, k, d) == [op |-> "upsert", table |-> tb, key |-> k, doc |-> d]
Clear(tb) == [op |-> "clear", table |-> tb]

Begins(th, c) ==
    /\ at[th] = "idle"
    /\ call' = [call EXCEPT ![th] = c]
    /\ Goto(th, CASE c.op = "insert" -> "number"
                  [] c.op = "upsert" -> "search"
                  [] c.op = "clear" -> "clear")
    /\ UNCHANGED <<file, readable, lastWriter, target, copy>>

\* The call returns or raises.
Ends(th, how) ==
    /\ Goto(th, how)
    /\ call' = [call EXCEPT ![th] = NoCall]
    /\ target' = [target EXCEPT ![th] = {}]
    /\ copy' = [copy EXCEPT ![th] = {}]

\* The caller goes on.
Continues(th) ==
    /\ at[th] \in Returned
    /\ Goto(th, "idle")
    /\ UNCHANGED <<file, readable, lastWriter, call, target, copy>>

-----------------------------------------------------------------------------
(* The steps of a call.                                                    *)

InTable(tb) == {d \in file : d.table = tb}
NumbersOf(docs) == {d.number : d \in docs}
DocsWith(tb, k) == {d \in InTable(tb) : d.key = k}

\* Mutant: what is no JSON is read as an empty database.
ReadsAnything(th, step) == at[th] = step

Reads(th, step) == at[th] = step /\ readable

\* Mutant: the query never matches (the id as a number, the stored one a string).
SearchNeverFinds(th) ==
    /\ Reads(th, "search")
    /\ Goto(th, "number")
    /\ UNCHANGED <<file, readable, lastWriter, call, target, copy>>

\* table.search(query[fieldName] == value)
Search(th) ==
    /\ Reads(th, "search")
    /\ LET found == NumbersOf(DocsWith(call[th].table, call[th].key)) IN
         /\ target' = [target EXCEPT ![th] = found]
         /\ Goto(th, IF found = {} THEN "number" ELSE "update")
    /\ UNCHANGED <<file, readable, lastWriter, call, copy>>

\* insert() reads the table for the number after its last one ...
ChooseNumber(th) ==
    /\ Reads(th, "number")
    /\ LET taken == NumbersOf(InTable(call[th].table)) IN
       \E n \in Numbers :
         /\ \A m \in taken : m < n
         /\ n > 1 => n - 1 \in taken
         /\ target' = [target EXCEPT ![th] = {n}]
    /\ Goto(th, "insert")
    /\ UNCHANGED <<file, readable, lastWriter, call, copy>>

\* ... and then, as update() does, the whole file to change the table in it.  It
\* raises if the number was taken, or a document to update is gone, meanwhile.
Conflict(th) ==
    LET taken == NumbersOf(InTable(call[th].table)) IN
    IF at[th] = "insert" THEN target[th] \cap taken # {} ELSE ~(target[th] \subseteq taken)

Written(th) ==
    {[table |-> call[th].table, number |-> n,
      key |-> call[th].doc.key, value |-> call[th].doc.value] : n \in target[th]}

ReadAll(th) ==
    /\ Reads(th, "insert") \/ Reads(th, "update")
    /\ ~Conflict(th)
    /\ copy' = [copy EXCEPT ![th] =
         {d \in file : d.table = call[th].table => d.number \notin target[th]} \cup Written(th)]
    /\ Goto(th, "write")
    /\ UNCHANGED <<file, readable, lastWriter, call, target>>

ReadToClear(th) ==
    /\ Reads(th, "clear")
    /\ copy' = [copy EXCEPT ![th] = file \ InTable(call[th].table)]
    /\ Goto(th, "write")
    /\ UNCHANGED <<file, readable, lastWriter, call, target>>

ReadRaises(th) ==
    /\ \/ /\ at[th] \in {"insert", "update"}
          /\ readable /\ Conflict(th)
       \/ /\ at[th] \in Reading
          /\ ~readable \/ \E u \in Threads \ {th} : at[u] = "truncate"
    /\ Ends(th, "raised")
    /\ UNCHANGED <<file, readable, lastWriter>>

\* handle.seek(0), write(), flush() and fsync() ...
WriteFile(th) ==
    /\ at[th] = "write"
    /\ file' = copy[th]
    /\ readable' = TRUE
    /\ lastWriter' = {th}
    /\ Goto(th, "truncate")
    /\ UNCHANGED <<call, target, copy>>

\* ... and truncate() at the end of its own text, whoever wrote after it.
Truncate(th) ==
    /\ at[th] = "truncate"
    /\ readable' \in IF th \in lastWriter \/ copy[th] = file
                       THEN {readable} ELSE {readable, FALSE}
    /\ Ends(th, "written")
    /\ UNCHANGED <<file, lastWriter>>

DbStep(th) ==
    \/ Search(th) \/ ChooseNumber(th) \/ ReadAll(th) \/ ReadToClear(th)
    \/ ReadRaises(th) \/ WriteFile(th) \/ Truncate(th)

\* The process is killed: what it had written may not be truncated any more.
DbKilled ==
    /\ readable' \in IF \E th \in Threads : at[th] = "truncate"
                       THEN {readable, FALSE} ELSE {readable}
    /\ lastWriter' = {}
    /\ at' = [th \in Threads |-> "idle"]
    /\ call' = [th \in Threads |-> NoCall]
    /\ target' = [th \in Threads |-> {}]
    /\ copy' = [th \in Threads |-> {}]
    /\ UNCHANGED file
=============================================================================
