---------------------------- MODULE MCEmulation ----------------------------
(***************************************************************************)
(* Emulation for TLC: a switch between two hosts, of which the second does *)
(* not name its switch.  A behaviour has requests of one kind: those for   *)
(* the traffic and those with tasks share nothing that either changes.     *)
(***************************************************************************)
EXTENDS Emulation, TLC

CONSTANTS h1, h2, s1

Order == <<h1, s1, h2>>
SwitchOf == h1 :> s1 @@ s1 :> s1 @@ h2 :> NoDpid
Attack(a, v) == [player |-> "attacker", client_ip |-> a, target_ip |-> v]
Defence(a, s) == [player |-> "defender", client_ip |-> a, switch_dpid |-> s]
TheOrders ==
    {Attack(h1, h2), Attack(h2, h1), Attack(Elsewhere, h2), Attack(h1, Elsewhere),
     Defence(h1, NoDpid), Defence(h1, s1), Defence(h2, s1),
     [player |-> "switch", switch_dpid |-> s1]}
OneKind == (\A r \in Readers : reader[r] = "no") \/ (\A c \in Callers : caller[c] = "no")

MCSpec == EmulationInit /\ [][EmulationNext /\ OneKind']_emulationVars
=============================================================================
