---------------------------- MODULE MCHostTasks ----------------------------
(***************************************************************************)
(* HostTasks for TLC: pairs of tasks in which one may hold up, fail or     *)
(* repeat the other.                                                       *)
(***************************************************************************)
EXTENDS HostTasks, TLC

CONSTANTS h1, t1, t2, p1, p2

OneHost == {h1}

Is(kind) == [kind |-> kind]
Deceive(p) == [kind |-> "deceive", port |-> p]

MCInit ==
    /\ HostInit
    /\ \/ job = t1 :> Is("scan") @@ t2 :> Deceive(p1)
       \/ job = t1 :> Deceive(p1) @@ t2 :> Deceive(p1)
       \/ job = t1 :> Deceive(p2) @@ t2 :> Is("attack")
       \/ job = t1 :> Is("none") @@ t2 :> Is("bad")
       \/ job = t1 :> Is("no_target") @@ t2 :> Is("attack")

MCSpec == MCInit /\ [][HostNext]_hostVars /\ HostFairness
=============================================================================
