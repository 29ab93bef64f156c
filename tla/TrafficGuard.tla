---------------------------- MODULE TrafficGuard ----------------------------
(***************************************************************************)
(* The traffic engineering application of the Ryu controller,              *)
(* network/ryu-app/ddos_simulation_app.py, class DDoSSimulationAPP, with   *)
(* the REST handlers of TrafficEngineerController and the flow tables of   *)
(* the switches.                                                           *)
(*                                                                         *)
(* Ryu handles the events of the application one at a time, in one green   *)
(* thread; a REST request is handled in another.  packet_in_handler first  *)
(* runs the sampler's (module EntropySampler), then looks at the rules     *)
(* asked for the packet's switch: those are two steps here, and `handling' *)
(* keeps other events out between them.                                    *)
(*                                                                         *)
(* trafficEngineerRuleMap has two kinds of keys.  switch_features_handler  *)
(* and packet_in_handler use datapath.id, a number; set_ip_white_table     *)
(* uses the dpid of the query string, a string.                            *)
(*                                                                         *)
(* Of a switch's flows only those that drop are kept: one per protocol     *)
(* (priority 3) and the one for every packet that no white list flow lets  *)
(* pass (priority 2).  A packet they drop never reaches the controller.    *)
(***************************************************************************)
EXTENDS EntropySampler, Integers

CONSTANTS
    Switches,  \* datapath ids
    Protocols, \* protocols a flow can drop, with "ICMP" among them
    Other,     \* any other protocol
    Threshold, \* 10: DDoSing_count above it is an attack
    Ceiling,   \* 20: where DDoSing_count is cut before it falls
    MinCount,  \* bounds of DDoSing_count
    MaxCount

WhiteTable == "ip_white_table"
DropAll == "drop_all"

ASSUME GuardAssumption ==
    /\ "ICMP" \in Protocols
    /\ WhiteTable \notin Protocols /\ DropAll \notin Protocols /\ Other \notin Protocols
    /\ Threshold \in Int /\ Ceiling \in Int /\ MinCount \in Int /\ MaxCount \in Int
    /\ MinCount <= 0 /\ 0 <= MaxCount /\ MinCount <= Ceiling /\ Ceiling <= MaxCount

VARIABLES
    rules,       \* trafficEngineerRuleMap: [Keys -> the rules asked for]
    known,       \* its keys
    flows,       \* [Switches -> the drops in the switch's flow table]
    connected,   \* switches with a session to the controller
    handling,    \* {} or the switch whose packet is being handled
    DDoSing_count,
    is_DDoS_attacking,
    asked,       \* [Switches -> bans asked for in its session (history)]
    forbidden    \* all bans ever asked for (history)

guardVars == <<rules, known, flows, connected, handling, DDoSing_count,
               is_DDoS_attacking, asked, forbidden>>
vars == <<samplerVars, guardVars>>

Keys == Switches \X {"int", "str"}
Int_(s) == <<s, "int">>
Str_(s) == <<s, "str">>
Rules == Protocols \cup {WhiteTable}

GuardTypeOK ==
    /\ rules \in [Keys -> SUBSET Rules]
    /\ known \in SUBSET Keys
    /\ flows \in [Switches -> SUBSET (Protocols \cup {DropAll})]
    /\ connected \in SUBSET Switches
    /\ handling \in SUBSET Switches
    /\ DDoSing_count \in MinCount..MaxCount
    /\ is_DDoS_attacking \in BOOLEAN
    /\ asked \in [Switches -> SUBSET Protocols]
    /\ forbidden \in SUBSET Protocols

Init ==
    /\ SamplerInit
    /\ rules = [k \in Keys |-> {}]
    /\ known = {}
    /\ flows = [s \in Switches |-> {}]
    /\ connected = {}
    /\ handling = {}
    /\ DDoSing_count = 0
    /\ is_DDoS_attacking = FALSE
    /\ asked = [s \in Switches |-> {}]
    /\ forbidden = {}

-----------------------------------------------------------------------------
(* The switches.                                                           *)

\* A new session: the rules asked for the switch are forgotten, its flow table
\* is what the switch has.
SwitchFeatures(s) ==
    /\ handling = {}
    /\ known' = known \cup {Int_(s)}
    /\ rules' = [rules EXCEPT ![Int_(s)] = {}]
    /\ connected' = connected \cup {s}
    /\ asked' = [asked EXCEPT ![s] = {}]
    /\ UNCHANGED <<samplerVars, flows, handling, DDoSing_count, is_DDoS_attacking,
                   forbidden>>

\* The switch restarts with an empty flow table.
SwitchRestarts(s) ==
    /\ s \in connected
    /\ connected' = connected \ {s}
    /\ flows' = [flows EXCEPT ![s] = {}]
    /\ asked' = [asked EXCEPT ![s] = {}]
    /\ UNCHANGED <<samplerVars, rules, known, handling, DDoSing_count,
                   is_DDoS_attacking, forbidden>>

-----------------------------------------------------------------------------
(* The REST handlers.                                                      *)

\* POST protocol_forbid sets the rule for every key of the map; the request's
\* protocol is any of the map's rules.
protocol_forbid(p) ==
    /\ rules' = [k \in Keys |-> IF k \in known THEN rules[k] \cup {p} ELSE rules[k]]
    /\ asked' = [s \in Switches |->
                   IF s \in connected /\ p \in Protocols THEN asked[s] \cup {p}
                                                         ELSE asked[s]]
    /\ forbidden' = forbidden \cup ({p} \cap Protocols)
    /\ UNCHANGED <<samplerVars, known, flows, connected, handling, DDoSing_count,
                   is_DDoS_attacking>>

\* GET set_ip_white_table.  (The POST handler of that name is defined before it
\* in the class and so replaced.)
set_ip_white_table(s) ==
    /\ known' = known \cup {Str_(s)}
    /\ rules' = [rules EXCEPT ![Str_(s)] = @ \cup {WhiteTable}]
    /\ UNCHANGED <<samplerVars, flows, connected, handling, DDoSing_count,
                   is_DDoS_attacking, asked, forbidden>>

GetTrafficEntropy ==
    /\ get_traffic_entropy
    /\ UNCHANGED guardVars

-----------------------------------------------------------------------------
(* packet_in_handler                                                       *)

\* A packet of protocol p that no flow of the switch drops.
PacketIn(s, src, p) ==
    /\ handling = {}
    /\ s \in connected
    /\ {p, DropAll} \cap flows[s] = {}
    /\ handling' = {s}
    /\ SamplePacket(src)
    /\ UNCHANGED <<rules, known, flows, connected, DDoSing_count, is_DDoS_attacking,
                   asked, forbidden>>

RulesOf(s) == IF Int_(s) \in known THEN rules[Int_(s)] ELSE {}

\* Mutant: every rule of the switch is taken for a protocol.
SendFlowsForAllRules(s, drops) ==
    /\ flows' = IF s \in connected
                  THEN [flows EXCEPT ![s] = @ \cup drops \cup RulesOf(s)]
                  ELSE flows
    /\ rules' = [rules EXCEPT ![Int_(s)] = {}]

\* The handler sends these drops to the switch, and those of the protocols that
\* are to be forbidden, whose rules it takes back.
SendFlows(s, drops) ==
    /\ flows' = IF s \in connected
                  THEN [flows EXCEPT ![s] = @ \cup drops \cup (RulesOf(s) \cap Protocols)]
                  ELSE flows
    /\ rules' = [rules EXCEPT ![Int_(s)] = @ \ Protocols]

EndOfHandler(s) ==
    /\ s \in handling
    /\ handling' = {}
    /\ UNCHANGED <<known, connected, asked, forbidden>>

\* No white table was asked for: only the bans.
SendBans(s) ==
    /\ EndOfHandler(s)
    /\ WhiteTable \notin RulesOf(s)
    /\ SendFlows(s, {})
    /\ UNCHANGED <<samplerVars, DDoSing_count, is_DDoS_attacking>>

\* Bounds: DDoSing_count has none in the code.
Least(m, n) == IF m <= n THEN m ELSE n
Greatest(m, n) == IF m >= n THEN m ELSE n

\* ip_white_table: detect_ddos_by_entropy moves DDoSing_count; at the threshold
\* the defence starts, and below it a second detection may end it.
Attack1 == IsAttack(current_source_ips_entropy, current_destination_ports_entropy)
Attack2 == IsAttack(Rest(current_source_ips_entropy),
                    Rest(current_destination_ports_entropy))
Normal1 == IF DDoSing_count > Ceiling THEN Ceiling ELSE DDoSing_count - 1
NewCount == IF Attack1 THEN Least(DDoSing_count + 1, MaxCount)
                       ELSE Greatest(Normal1, MinCount)
Starts == NewCount > Threshold /\ ~is_DDoS_attacking
MayEnd == NewCount <= Threshold /\ is_DDoS_attacking

\* Mutant: the entropies of the ports are looked at and not taken.
DetectSourcesOnly(s, n) ==
    /\ EndOfHandler(s)
    /\ WhiteTable \in RulesOf(s)
    /\ DDoSing_count' = NewCount
    /\ current_source_ips_entropy' = RestAfter(current_source_ips_entropy, n)
    /\ UNCHANGED <<counters, remote, current_destination_ports_entropy>>

\* n detections, and the count the first of them leads to.
Detect(s, n) ==
    /\ EndOfHandler(s)
    /\ WhiteTable \in RulesOf(s)
    /\ DDoSing_count' = NewCount
    /\ detect_ddos_by_entropy(n)

\* Mutant: the flag of the attack is not set.
StartDefenceUnnoticed(s) ==
    /\ Starts
    /\ Detect(s, 1)
    /\ SendFlows(s, {DropAll} \cup IF icmp_high THEN {"ICMP"} ELSE {})
    /\ UNCHANGED is_DDoS_attacking

StartDefence(s) ==
    /\ Starts
    /\ Detect(s, 1)
    /\ is_DDoS_attacking' = TRUE
    /\ SendFlows(s, {DropAll} \cup IF icmp_high THEN {"ICMP"} ELSE {})

\* Mutant: the handler returns after ip_white_table.
KeepWatchingOnly(s) ==
    /\ ~Starts /\ ~MayEnd
    /\ Detect(s, 1)
    /\ UNCHANGED <<flows, rules, is_DDoS_attacking>>

KeepWatching(s) ==
    /\ ~Starts /\ ~MayEnd
    /\ Detect(s, 1)
    /\ SendFlows(s, {})
    /\ UNCHANGED is_DDoS_attacking

StillAttacked(s) ==
    /\ MayEnd /\ Attack2
    /\ Detect(s, 2)
    /\ SendFlows(s, {})
    /\ UNCHANGED is_DDoS_attacking

\* Mutant: the rules are taken back although nothing was sent.
EndDefenceForgetsBans(s) ==
    /\ MayEnd /\ ~Attack2
    /\ Detect(s, 2)
    /\ rules' = [rules EXCEPT ![Int_(s)] = @ \ Protocols]
    /\ UNCHANGED <<flows, is_DDoS_attacking>>

\* clear_white_table reads self.ip_white_list, which does not exist: the
\* exception leaves packet_in_handler before anything is cleared or sent.
EndDefenceRaises(s) ==
    /\ MayEnd /\ ~Attack2
    /\ Detect(s, 2)
    /\ UNCHANGED <<flows, rules, is_DDoS_attacking>>

-----------------------------------------------------------------------------
HandlePacket(s) ==
    \/ SendBans(s)
    \/ StartDefence(s) \/ KeepWatching(s) \/ StillAttacked(s) \/ EndDefenceRaises(s)

Next ==
    \/ \E s \in Switches :
         \/ SwitchFeatures(s) \/ SwitchRestarts(s)
         \/ set_ip_white_table(s)
         \/ \E src \in Sources \cup {NonIP}, p \in Protocols \cup {Other} : PacketIn(s, src, p)
         \/ HandlePacket(s)
    \/ \E p \in Rules : protocol_forbid(p)
    \/ GetTrafficEntropy

Spec == Init /\ [][Next]_vars

\* Packets keep arriving at every switch, and are handled.
OtherPacketIn(s) == \E src \in Sources \cup {NonIP} : PacketIn(s, src, Other)
FairSpec ==
    /\ Spec
    /\ \A s \in Switches : SF_vars(OtherPacketIn(s)) /\ WF_vars(HandlePacket(s))

-----------------------------------------------------------------------------
(* What the application promises.                                          *)

\* From protocol_forbid on, for as long as the session with a switch lasts, its
\* ban is never forgotten: the rule still waits for a packet, or the flow is
\* in the switch, whatever other events and exceptions come between.
BanIsPendingOrInstalled ==
    \A s \in Switches : asked[s] \subseteq rules[Int_(s)] \cup flows[s]

\* A switch drops a protocol only if its ban was asked for or an attack was
\* detected, and drops everything only in an attack.
DropsHaveAReason ==
    \A s \in Switches :
        /\ flows[s] \cap Protocols \subseteq
             forbidden \cup IF is_DDoS_attacking THEN {"ICMP"} ELSE {}
        /\ DropAll \in flows[s] => is_DDoS_attacking

\* A ban reaches the switch as long as packets do: neither the defence against
\* attacks nor its exception holds it up for ever.
BanReachesSwitch ==
    \A s \in Switches, p \in Protocols :
        p \in asked[s] ~> (p \notin asked[s] \/ p \in flows[s] \/ DropAll \in flows[s])

=============================================================================
