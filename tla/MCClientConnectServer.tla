----------------------- MODULE MCClientConnectServer -----------------------
(***************************************************************************)
(* Values of the constants of ClientConnectServer for TLC.                 *)
(***************************************************************************)
EXTENDS ClientConnectServer

CONSTANTS h1, h2, t1, t2

\* One host that reconnects, both tasks for it.
OneHost == {h1}
BothForH1 == [t \in {t1, t2} |-> h1]

\* Two hosts, a task for each.
TwoHosts == {h1, h2}
OneEach == [t \in {t1, t2} |-> IF t = t1 THEN h1 ELSE h2]

\* generate_task_id gives distinct ids, or the same one twice.
DistinctIds == [t \in {t1, t2} |-> t]
SameIds == [t \in {t1, t2} |-> t1]
=============================================================================
