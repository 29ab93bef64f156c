---------------------------- MODULE MCTaskSystem ----------------------------
(***************************************************************************)
(* Values of the constants of TaskSystem for TLC.                          *)
(***************************************************************************)
EXTENDS TaskSystem

CONSTANTS h1

OneHost == {h1}
AllForHost == [t \in Tasks |-> h1]
DistinctIds == [t \in Tasks |-> t]
=============================================================================
