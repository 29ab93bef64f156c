--------------------------- MODULE EmulationProofs ---------------------------
(***************************************************************************)
(* The flow rule and the marks in the topology, for any nodes, requests    *)
(* and tasks, proved with TLAPS.                                           *)
(***************************************************************************)
EXTENDS Emulation, TLAPS

-----------------------------------------------------------------------------
(* Types.                                                                  *)

LEMMA OrderFacts ==
  /\ Hosts \subseteq Nodes /\ HasIp \subseteq Nodes
  /\ Len(NodeOrder) \in Nat
  /\ \A i \in 1..Len(NodeOrder) : NodeOrder[i] \in Nodes
  /\ \A o \in Orders : o.player = "attacker" =>
       o.client_ip \in Addresses /\ o.target_ip \in Addresses
  /\ \A o \in Orders : o.player = "defender" => o.client_ip \in Addresses
BY EmulationAssumption

LEMMA NodeAtType == \A a : NodeAt(a) \in Marks
BY EmulationAssumption DEF NodeAt, Marks

LEMMA AtNodeType ==
  ASSUME EmulationTypeOK, NEW c \in Callers, AtNode(c)
  PROVE  /\ order[c] \in Orders /\ position[c] \in 1..Len(NodeOrder)
         /\ CurrentNode(c) \in Nodes /\ position[c] + 1 \in Positions
BY OrderFacts DEF EmulationTypeOK, AtNode, CurrentNode, Positions

LEMMA TypeInit == EmulationInit => EmulationTypeOK
<1> SUFFICES ASSUME EmulationInit PROVE EmulationTypeOK
  OBVIOUS
<1>1. 1 \in Positions /\ "none" \in Marks
  BY OrderFacts DEF Positions, Marks
<1>2. rule \in BOOLEAN
  BY DEF EmulationInit
<1> QED
  BY <1>1, <1>2 DEF EmulationInit, EmulationTypeOK

LEMMA TypeMarkStep ==
  ASSUME EmulationTypeOK, NEW c \in Callers, MarkStep(c)
  PROVE  EmulationTypeOK'
<1> USE DEF EmulationTypeOK
<1>1. CASE MarkAttack(c)
  BY <1>1, AtNodeType, NodeAtType DEF MarkAttack, NextNode, flowVars
<1>2. CASE MarkDefence(c)
  <2> DEFINE own == IF CurrentNode(c) = order[c].client_ip
                      THEN [defend_source EXCEPT ![CurrentNode(c)] = CurrentNode(c)]
                      ELSE defend_source
  <2>1. own \in [Nodes -> Marks]
    BY <1>2, AtNodeType DEF MarkDefence, Marks
  <2>2. ASSUME NamesSwitch(c, CurrentNode(c)), SwitchMatches(c, CurrentNode(c))
        PROVE  order[c].switch_dpid \in Marks
    BY <1>2, <2>2, AtNodeType, EmulationAssumption
       DEF MarkDefence, NamesSwitch, SwitchMatches, Marks, Switches
  <2>3. defend_source' \in [Nodes -> Marks]
    BY <1>2, <2>1, <2>2, AtNodeType DEF MarkDefence, Raises, NextNode
  <2>4. position' \in [Callers -> Positions] /\ caller' \in [Callers ->
          {"no", "refused", "marking", "marked", "raised"}]
    BY <1>2, AtNodeType DEF MarkDefence, Raises, NextNode
  <2> QED
    BY <1>2, <2>3, <2>4 DEF MarkDefence, flowVars
<1>3. CASE MarkSwitch(c)
  <2>2. ASSUME NamesSwitch(c, CurrentNode(c)), SwitchMatches(c, CurrentNode(c))
        PROVE  order[c].switch_dpid \in Marks
    BY <1>3, <2>2, AtNodeType, EmulationAssumption
       DEF MarkSwitch, NamesSwitch, SwitchMatches, Marks, Switches
  <2>3. defend_source' \in [Nodes -> Marks]
    BY <1>3, <2>2, AtNodeType DEF MarkSwitch, Raises, NextNode
  <2>4. position' \in [Callers -> Positions] /\ caller' \in [Callers ->
          {"no", "refused", "marking", "marked", "raised"}]
    BY <1>3, AtNodeType DEF MarkSwitch, Raises, NextNode
  <2> QED
    BY <1>3, <2>3, <2>4 DEF MarkSwitch, flowVars
<1>4. CASE EndMarks(c)
  BY <1>4 DEF EndMarks, flowVars, marks
<1> QED
  BY <1>1, <1>2, <1>3, <1>4 DEF MarkStep

LEMMA TypeNext ==
  ASSUME EmulationTypeOK, [EmulationNext]_emulationVars
  PROVE  EmulationTypeOK'
<1> USE DEF EmulationTypeOK
<1>1. CASE SimulatorStep
  BY <1>1 DEF SimulatorStep, LoadTopology, TopologyNotWritten, StopPrograms, StartSflow,
     flowVars, callVars, marks
<1>2. ASSUME NEW r \in Readers, AskForFlows(r) \/ ReadStep(r) PROVE EmulationTypeOK'
  BY <1>2 DEF ReadStep, AskForFlows, TestFlag, SetFlag, PutRule, GetFlows, callVars, marks
<1>3. ASSUME NEW c \in Callers, BeginMarks(c) PROVE EmulationTypeOK'
  BY <1>3 DEF BeginMarks, flowVars, marks
<1>4. CASE UNCHANGED emulationVars
  BY <1>4 DEF emulationVars, flowVars, callVars, marks
<1> QED
  BY <1>1, <1>2, <1>3, <1>4, TypeMarkStep DEF EmulationNext

\* The threads of requests and of the simulator leave no variable outside its
\* type, for any topology and any tasks.
THEOREM EmulationTypeCorrect == EmulationSpec => []EmulationTypeOK
<1> QED
  BY TypeInit, TypeNext, PTL DEF EmulationSpec

-----------------------------------------------------------------------------
(* The flow rule.                                                           *)

Putting == \E r \in Readers : reader[r] = "put"

\* Before sFlow-RT is up a flag already set means a rule put too early.
RuleInv ==
    /\ reader \in [Readers -> {"no", "test", "set", "put", "get", "error", "empty", "flows"}]
    /\ simulator # "started" => sflow # "up"
    /\ sflow_init /\ (sflow # "up" \/ ~rule) => putEarly \/ Putting

LEMMA RuleInvInit == EmulationInit => RuleInv
BY DEF EmulationInit, RuleInv

\* A request that does not put the rule leaves those that do at it.
LEMMA PuttingStays ==
  ASSUME RuleInv, NEW r \in Readers, reader[r] # "put", NEW s,
         reader' = [reader EXCEPT ![r] = s]
  PROVE  Putting => Putting'
BY DEF RuleInv, Putting

LEMMA RuleInvRead ==
  ASSUME RuleInv, NEW r \in Readers, AskForFlows(r) \/ ReadStep(r)
  PROVE  RuleInv'
<1>1. CASE AskForFlows(r)
  BY <1>1, PuttingStays DEF AskForFlows, RuleInv
<1>2. CASE TestFlag(r)
  BY <1>2, PuttingStays DEF TestFlag, RuleInv
<1>3. CASE SetFlag(r)
  <2>1. Putting'
    BY <1>3 DEF SetFlag, RuleInv, Putting
  <2> QED
    BY <1>3, <2>1 DEF SetFlag, RuleInv
<1>4. CASE PutRule(r)
  BY <1>4 DEF PutRule, RuleInv
<1>5. CASE GetFlows(r)
  BY <1>5, PuttingStays DEF GetFlows, RuleInv
<1> QED
  BY <1>1, <1>2, <1>3, <1>4, <1>5 DEF ReadStep

LEMMA RuleInvNext ==
  ASSUME RuleInv, [EmulationNext]_emulationVars
  PROVE  RuleInv'
<1> USE DEF RuleInv, Putting
<1>1. CASE SimulatorStep
  BY <1>1 DEF SimulatorStep, LoadTopology, TopologyNotWritten, StopPrograms, StartSflow, flowVars
<1>2. ASSUME NEW c \in Callers, BeginMarks(c) \/ MarkStep(c) PROVE RuleInv'
  <2>1. UNCHANGED <<simulator, flowVars>>
    BY <1>2 DEF BeginMarks, MarkStep, MarkAttack, MarkDefence, MarkSwitch, EndMarks
  <2> QED
    BY <2>1 DEF flowVars
<1>3. CASE UNCHANGED emulationVars
  BY <1>3 DEF emulationVars, flowVars
<1> QED
  BY <1>1, <1>2, <1>3, RuleInvRead DEF EmulationNext

\* However many requests set the flag at once, and whenever they do: sFlow-RT lacks
\* the rule for good only if it was put before sFlow-RT was up.
THEOREM RuleCorrect == EmulationSpec => []RuleIsMissingOnlyAfterEarlyPut
<1>1. RuleInv => RuleIsMissingOnlyAfterEarlyPut
  BY DEF RuleInv, RuleIsMissingOnlyAfterEarlyPut, Putting
<1> QED
  BY <1>1, RuleInvInit, RuleInvNext, PTL DEF EmulationSpec

-----------------------------------------------------------------------------
(* The marks.                                                               *)

Began(c) == caller[c] \notin {"no", "refused"}

\* An attack is marked only in a topology in which every node has an address.
AttackersHaveIp ==
    \A c \in Callers : Began(c) /\ order[c].player = "attacker" => HasIp = Nodes

\* A loop that is past the victim has marked it.
VictimPassed ==
    \A c \in Callers, i \in 1..Len(NodeOrder) :
        /\ order[c].player = "attacker" /\ i < position[c]
        /\ NodeOrder[i] \in Hosts /\ NodeOrder[i] = order[c].target_ip
        => victim_source[NodeOrder[i]] # "none"

\* ... and one that is past the attacker may have the victim before it.
VictimToCome(v) ==
    \E c \in Callers : /\ order[c].player = "attacker" /\ caller[c] = "marking"
                        /\ order[c].target_ip = v
                        /\ \E i \in position[c]..Len(NodeOrder) : NodeOrder[i] = v

AttackShows ==
    \A n \in Hosts : attack_source[n] \in Hosts =>
        victim_source[attack_source[n]] # "none" \/ VictimToCome(attack_source[n])

MarkInv ==
    /\ EmulationTypeOK /\ AttackersHaveIp /\ MarksAreGenuine
    /\ VictimPassed /\ AttackShows /\ DefendedHostIsMarked

LEMMA MarkNames ==
  /\ \A a : NodeAt(a) # "none" /\ (NodeAt(a) \in Hosts => NodeAt(a) = a)
  /\ \A s \in Nodes : s # "none"
  /\ \A n \in Nodes : \E i \in 1..Len(NodeOrder) : NodeOrder[i] = n
  /\ Hosts \subseteq Nodes /\ NoDpid \notin Nodes
BY EmulationAssumption DEF NodeAt

\* A mark is overwritten, never removed.
MarksStay ==
    /\ \A n \in Hosts : victim_source[n] # "none" => victim_source'[n] # "none"
    /\ \A n \in Nodes : defend_source[n] # "none" => defend_source'[n] # "none"

\* The orders stay, and so does what has begun.
LEMMA AttacksStay ==
  ASSUME order' = order, \A c \in Callers : Began(c) => Began(c)'
  PROVE  \A a, v : Attacks(a, v) => Attacks(a, v)'
BY DEF Attacks, Began

\* Only c moves on, by at most one node.
MovesOn(c) ==
    /\ order' = order
    /\ \A d \in Callers \ {c} : caller'[d] = caller[d] /\ position'[d] = position[d]

LEMMA MarkInvInit == EmulationInit => MarkInv
<1> SUFFICES ASSUME EmulationInit PROVE MarkInv
  OBVIOUS
<1>1. \A c \in Callers : caller[c] = "no" /\ position[c] = 1
  BY DEF EmulationInit
<1>2. \A n \in Hosts : attack_source[n] = "none" /\ victim_source[n] = "none"
  BY DEF EmulationInit
<1>3. "none" \notin Hosts
  BY MarkNames
<1> QED
  BY <1>1, <1>2, <1>3, TypeInit DEF MarkInv, AttackersHaveIp, Began, MarksAreGenuine,
     VictimPassed, AttackShows, DefendedHostIsMarked

\* What a step of c that marks no attack leaves as it is.
LEMMA OthersKeep ==
  ASSUME MarkInv, NEW c \in Callers, EmulationTypeOK', MovesOn(c),
         attack_source' = attack_source, victim_source' = victim_source,
         Began(c) => Began(c)',
         order[c].player # "attacker" \/
           (position'[c] = position[c] /\ (caller[c] = "marking" => position[c] > Len(NodeOrder))),
         Began(c)' /\ order[c].player = "attacker" => HasIp = Nodes
  PROVE  AttackersHaveIp' /\ MarksAreGenuine' /\ VictimPassed' /\ AttackShows'
<1> USE DEF MarkInv, MovesOn
<1>1. AttackersHaveIp'
  BY DEF AttackersHaveIp, Began
<1>2. MarksAreGenuine'
  <2>1. \A d \in Callers : Began(d) => Began(d)'
    BY DEF Began
  <2> QED
    BY <2>1, AttacksStay DEF MarksAreGenuine
<1>3. VictimPassed'
  BY DEF VictimPassed
<1>4. AttackShows'
  <2>1. \A v : VictimToCome(v) => VictimToCome(v)'
    <3> SUFFICES ASSUME NEW v, NEW d \in Callers,
                        order[d].player = "attacker", caller[d] = "marking",
                        order[d].target_ip = v,
                        NEW i \in position[d]..Len(NodeOrder), NodeOrder[i] = v
                 PROVE  VictimToCome(v)'
      BY DEF VictimToCome
    <3>1. d # c
      BY OrderFacts DEF EmulationTypeOK, Positions
    <3> QED
      BY <3>1 DEF VictimToCome
  <2> QED
    BY <2>1 DEF AttackShows
<1> QED
  BY <1>1, <1>2, <1>3, <1>4

LEMMA BeginKeeps ==
  ASSUME MarkInv, NEW c \in Callers, BeginMarks(c)
  PROVE  MarkInv'
<1>1. EmulationTypeOK'
  BY TypeNext DEF MarkInv, EmulationNext
<1>2. MovesOn(c) /\ position' = position /\ UNCHANGED marks
  BY DEF BeginMarks, MovesOn, MarkInv, EmulationTypeOK
<1>3. caller[c] = "no" /\ caller'[c] \in {"refused", "marking"}
      /\ (caller'[c] = "marking" /\ order[c].player = "attacker" => HasIp = Nodes)
  BY DEF BeginMarks, MarkInv, EmulationTypeOK
<1>4. AttackersHaveIp' /\ MarksAreGenuine' /\ VictimPassed' /\ AttackShows'
  BY <1>1, <1>2, <1>3, OthersKeep DEF Began, marks
<1>5. DefendedHostIsMarked'
  BY <1>2, <1>3 DEF MarkInv, DefendedHostIsMarked, MovesOn, marks, FirstHost
<1> QED
  BY <1>1, <1>4, <1>5 DEF MarkInv

LEMMA EndKeeps ==
  ASSUME MarkInv, NEW c \in Callers, EndMarks(c)
  PROVE  MarkInv'
<1>1. EmulationTypeOK'
  BY TypeNext DEF MarkInv, EmulationNext, MarkStep
<1>2. MovesOn(c) /\ position' = position /\ UNCHANGED marks
  BY DEF EndMarks, MovesOn, MarkInv, EmulationTypeOK
<1>3. caller[c] = "marking" /\ position[c] > Len(NodeOrder) /\ caller'[c] = "marked"
  BY DEF EndMarks, MarkInv, EmulationTypeOK
<1>4. AttackersHaveIp' /\ MarksAreGenuine' /\ VictimPassed' /\ AttackShows'
  <2>1. order[c].player = "attacker" => HasIp = Nodes
    BY <1>3 DEF MarkInv, AttackersHaveIp, Began
  <2> QED
    BY <1>1, <1>2, <1>3, <2>1, OthersKeep DEF Began, marks
<1>5. DefendedHostIsMarked'
  BY <1>2, <1>3 DEF MarkInv, DefendedHostIsMarked, MovesOn, marks, FirstHost
<1> QED
  BY <1>1, <1>4, <1>5 DEF MarkInv

\* Where DefendedHostIsMarked may come to demand a mark: of c only, for the node
\* it is at, when it goes on or raises there.
LEMMA DefenceStays ==
  ASSUME MarkInv, NEW c \in Callers, AtNode(c), MovesOn(c),
         \A n \in Nodes : defend_source[n] # "none" => defend_source'[n] # "none",
         NextNode(c) \/ Raises(c),
         order[c].player = "defender" /\ CurrentNode(c) \in Hosts \cap HasIp
           /\ order[c].client_ip = CurrentNode(c)
           => defend_source'[CurrentNode(c)] # "none",
         order[c].player = "defender" /\ Raises(c) => CurrentNode(c) \in Hosts
  PROVE  DefendedHostIsMarked'
<1> USE OrderFacts DEF MarkInv, MovesOn, EmulationTypeOK
<1> SUFFICES ASSUME NEW d \in Callers, NEW i \in 1..Len(NodeOrder),
                    order[d].player = "defender", order[d].client_ip = NodeOrder[i],
                    NodeOrder[i] \in Hosts \cap HasIp,
                    i < position'[d] \/ (caller'[d] = "raised" /\ FirstHost(i))
             PROVE  defend_source'[NodeOrder[i]] # "none"
  BY DEF DefendedHostIsMarked, FirstHost
<1>1. CASE d # c
  BY <1>1 DEF DefendedHostIsMarked
<1>2. CASE d = c
  <2>1. position[c] \in 1..Len(NodeOrder) /\ CurrentNode(c) = NodeOrder[position[c]]
    BY AtNodeType DEF CurrentNode
  <2>2. CASE i < position[c]
    BY <1>2, <2>2 DEF DefendedHostIsMarked
  <2>3. CASE i = position[c]
    BY <1>2, <2>1, <2>3
  <2>4. CASE i > position[c]
    <3>1. ~(i < position'[c])
      BY <2>1, <2>4 DEF NextNode, Raises
    <3>2. FirstHost(i) /\ Raises(c)
      BY <1>2, <3>1 DEF NextNode, AtNode, Raises
    <3>3. NodeOrder[position[c]] \notin Hosts
      BY <2>1, <2>4, <3>2 DEF FirstHost
    <3> QED
      BY <1>2, <2>1, <3>2, <3>3
  <2> QED
    BY <2>1, <2>2, <2>3, <2>4
<1> QED
  BY <1>1, <1>2

LEMMA DefenceKeeps ==
  ASSUME MarkInv, NEW c \in Callers, MarkDefence(c) \/ MarkSwitch(c)
  PROVE  MarkInv'
<1> DEFINE n == CurrentNode(c)
<1>1. EmulationTypeOK'
  BY TypeNext DEF MarkInv, EmulationNext, MarkStep
<1>2. AtNode(c) /\ order[c].player # "attacker" /\ (NextNode(c) \/ Raises(c))
      /\ UNCHANGED <<order, attack_source, victim_source>> /\ n \in Nodes
  BY AtNodeType DEF MarkDefence, MarkSwitch, MarkInv
<1>3. MovesOn(c) /\ Began(c) /\ Began(c)'
  BY <1>2 DEF MovesOn, NextNode, Raises, AtNode, Began, MarkInv, EmulationTypeOK
<1>4. AttackersHaveIp' /\ MarksAreGenuine' /\ VictimPassed' /\ AttackShows'
  BY <1>1, <1>2, <1>3, OthersKeep
<1>5. NamesSwitch(c, n) /\ SwitchMatches(c, n) => order[c].switch_dpid # "none"
  BY <1>2, EmulationAssumption DEF NamesSwitch, SwitchMatches, Switches, MarkInv, EmulationTypeOK
<1>6. \A m \in Nodes : defend_source[m] # "none" => defend_source'[m] # "none"
  <2>1. CASE MarkDefence(c)
    BY <1>2, <1>5, <2>1, MarkNames DEF MarkDefence, MarkInv, EmulationTypeOK
  <2>2. CASE MarkSwitch(c)
    BY <1>2, <1>5, <2>2, MarkNames DEF MarkSwitch, MarkInv, EmulationTypeOK
  <2> QED
    BY <2>1, <2>2
<1>7. ASSUME order[c].player = "defender"
      PROVE  /\ n \in Hosts \cap HasIp /\ order[c].client_ip = n => defend_source'[n] # "none"
             /\ Raises(c) => n \in Hosts
  <2>1. MarkDefence(c)
    BY <1>7 DEF MarkSwitch
  <2>2. n \in Hosts \cap HasIp /\ order[c].client_ip = n => defend_source'[n] # "none"
    BY <1>2, <1>5, <2>1, MarkNames DEF MarkDefence, MarkInv, EmulationTypeOK
  <2>3. Raises(c) => n \in Hosts
    BY <1>2, <2>1 DEF MarkDefence, NextNode, Raises, AtNode, MarkInv, EmulationTypeOK
  <2> QED
    BY <2>2, <2>3
<1>8. DefendedHostIsMarked'
  BY <1>2, <1>3, <1>6, <1>7, DefenceStays
<1> QED
  BY <1>1, <1>4, <1>8 DEF MarkInv

LEMMA AttackKeeps ==
  ASSUME MarkInv, NEW c \in Callers, MarkAttack(c)
  PROVE  MarkInv'
<1> DEFINE n == CurrentNode(c)
           p == position[c]
           target == order[c].target_ip
           source == order[c].client_ip
<1>1. EmulationTypeOK'
  BY TypeNext DEF MarkInv, EmulationNext, MarkStep
<1>2. /\ AtNode(c) /\ order[c].player = "attacker" /\ n \in Nodes /\ order' = order
      /\ defend_source' = defend_source /\ caller' = caller
      /\ p \in 1..Len(NodeOrder) /\ n = NodeOrder[p]
  BY AtNodeType DEF MarkAttack, NextNode, MarkInv, CurrentNode
<1>3. position' = [position EXCEPT ![c] = p + 1] /\ MovesOn(c) /\ caller[c] = "marking"
  BY <1>2 DEF MarkAttack, NextNode, MovesOn, AtNode, MarkInv, EmulationTypeOK
<1>4. HasIp = Nodes
  BY <1>2, <1>3 DEF MarkInv, AttackersHaveIp, Began
<1>5. \A m \in Hosts : attack_source'[m] =
        IF m = n /\ n = source THEN NodeAt(target) ELSE attack_source[m]
  BY <1>2 DEF MarkAttack, MarkInv, EmulationTypeOK
<1>6. \A m \in Hosts : victim_source'[m] =
        IF m = n /\ n = target THEN NodeAt(source) ELSE victim_source[m]
  BY <1>2 DEF MarkAttack, MarkInv, EmulationTypeOK
<1>7. \A m \in Hosts : victim_source[m] # "none" => victim_source'[m] # "none"
  BY <1>6, MarkNames
<1>8. AttackersHaveIp'
  BY <1>2 DEF AttackersHaveIp, Began, MarkInv
<1>9. MarksAreGenuine'
  <2>1. \A a, v : Attacks(a, v) => Attacks(a, v)'
    BY <1>2, AttacksStay DEF Began
  <2>2. \A a, v : a = NodeAt(source) /\ v = NodeAt(target) => Attacks(a, v)'
    BY <1>2, <1>3 DEF Attacks
  <2>3. n \in Hosts => NodeAt(n) = n
    BY <1>4, MarkNames DEF NodeAt
  <2>4. ASSUME NEW m \in Hosts, NEW v, attack_source'[m] = v, v # "none"
        PROVE  Attacks(m, v)'
    BY <1>5, <2>1, <2>2, <2>3, <2>4 DEF MarksAreGenuine, MarkInv
  <2>5. ASSUME NEW m \in Hosts, NEW v, victim_source'[m] = v, v # "none"
        PROVE  Attacks(v, m)'
    BY <1>6, <2>1, <2>2, <2>3, <2>5 DEF MarksAreGenuine, MarkInv
  <2> QED
    BY <2>4, <2>5 DEF MarksAreGenuine, Attacks
<1>10. VictimPassed'
  <2> SUFFICES ASSUME NEW d \in Callers, NEW i \in 1..Len(NodeOrder),
                      order[d].player = "attacker", i < position'[d],
                      NodeOrder[i] \in Hosts, NodeOrder[i] = order[d].target_ip
               PROVE  victim_source'[NodeOrder[i]] # "none"
    BY <1>2 DEF VictimPassed
  <2>1. CASE i < position[d]
    BY <1>7, <2>1 DEF VictimPassed, MarkInv
  <2>2. CASE ~(i < position[d])
    <3>1. d = c /\ i = p
      BY <1>2, <1>3, <2>2, OrderFacts DEF MarkInv, EmulationTypeOK, Positions
    <3> QED
      BY <1>2, <1>6, <3>1, MarkNames
  <2> QED
    BY <2>1, <2>2
<1>11. AttackShows'
  <2> SUFFICES ASSUME NEW m \in Hosts, NEW v \in Hosts, attack_source'[m] = v
               PROVE  victim_source'[v] # "none" \/ VictimToCome(v)'
    BY DEF AttackShows
  <2>1. CASE m = n /\ n = source
    <3>1. v = target
      BY <1>5, <2>1, MarkNames
    <3>2. PICK i \in 1..Len(NodeOrder) : NodeOrder[i] = v
      BY MarkNames
    <3>3. CASE i < p
      BY <1>2, <1>7, <3>1, <3>2, <3>3 DEF VictimPassed, MarkInv
    <3>4. CASE i = p
      BY <1>2, <1>6, <3>1, <3>2, <3>4, MarkNames
    <3>5. CASE i > p
      <4>1. i \in position'[c]..Len(NodeOrder)
        BY <1>2, <1>3, <3>5 DEF MarkInv, EmulationTypeOK
      <4> QED
        BY <1>2, <1>3, <3>1, <3>2, <4>1 DEF VictimToCome
    <3> QED
      BY <1>2, <3>3, <3>4, <3>5
  <2>2. CASE ~(m = n /\ n = source)
    <3>1. v = attack_source[m]
      BY <1>5, <2>2
    <3>2. CASE victim_source[v] # "none"
      BY <1>7, <3>2
    <3>3. CASE VictimToCome(v)
      <4>0. PICK d \in Callers :
              /\ order[d].player = "attacker" /\ caller[d] = "marking"
              /\ order[d].target_ip = v
              /\ \E i \in position[d]..Len(NodeOrder) : NodeOrder[i] = v
        BY <3>3 DEF VictimToCome
      <4>1. PICK i \in position[d]..Len(NodeOrder) : NodeOrder[i] = v
        BY <4>0
      <4>2. CASE d # c
        BY <1>2, <1>3, <4>0, <4>1, <4>2 DEF VictimToCome, MovesOn
      <4>3. CASE d = c /\ i = p
        BY <1>2, <1>6, <4>0, <4>1, <4>3, MarkNames
      <4>4. CASE d = c /\ i # p
        <5>1. i \in position'[c]..Len(NodeOrder)
          BY <1>2, <1>3, <4>1, <4>4 DEF MarkInv, EmulationTypeOK
        <5> QED
          BY <1>2, <4>0, <4>1, <4>4, <5>1 DEF VictimToCome
      <4> QED
        BY <4>2, <4>3, <4>4
    <3> QED
      BY <3>1, <3>2, <3>3 DEF AttackShows, MarkInv
  <2> QED
    BY <2>1, <2>2
<1>12. DefendedHostIsMarked'
  BY <1>2, <1>3 DEF MarkInv, DefendedHostIsMarked, FirstHost
<1> QED
  BY <1>1, <1>8, <1>9, <1>10, <1>11, <1>12 DEF MarkInv

LEMMA MarkInvNext ==
  ASSUME MarkInv, [EmulationNext]_emulationVars
  PROVE  MarkInv'
<1>1. ASSUME NEW c \in Callers, BeginMarks(c) \/ MarkStep(c) PROVE MarkInv'
  BY <1>1, BeginKeeps, AttackKeeps, DefenceKeeps, EndKeeps DEF MarkStep
<1>2. ASSUME UNCHANGED <<callVars, marks>> PROVE MarkInv'
  <2>1. EmulationTypeOK'
    BY TypeNext DEF MarkInv
  <2> QED
    BY <1>2, <2>1 DEF MarkInv, callVars, marks, AttackersHaveIp, Began, MarksAreGenuine,
       Attacks, VictimPassed, AttackShows, VictimToCome, DefendedHostIsMarked, FirstHost
<1>3. CASE SimulatorStep
  BY <1>2, <1>3 DEF SimulatorStep, LoadTopology, TopologyNotWritten, StopPrograms, StartSflow
<1>4. ASSUME NEW r \in Readers, AskForFlows(r) \/ ReadStep(r) PROVE MarkInv'
  BY <1>2, <1>4 DEF ReadStep, AskForFlows, TestFlag, SetFlag, PutRule, GetFlows
<1>5. CASE UNCHANGED emulationVars
  BY <1>2, <1>5 DEF emulationVars
<1> QED
  BY <1>1, <1>3, <1>4, <1>5 DEF EmulationNext

LEMMA MarkInvHolds == EmulationSpec => []MarkInv
BY MarkInvInit, MarkInvNext, PTL DEF EmulationSpec

\* No interleaving of the threads that mark one topology shows an attack that no
\* task has asked for.
THEOREM MarksCorrect == EmulationSpec => []MarksAreGenuine
<1>1. MarkInv => MarksAreGenuine
  BY DEF MarkInv
<1> QED
  BY <1>1, MarkInvHolds, PTL

\* Between attacks, an attacking host's victim is marked too, in any topology.
THEOREM BothEndsCorrect == EmulationSpec => []AttacksShowOnBothEnds
<1>1. MarkInv => AttacksShowOnBothEnds
  BY DEF MarkInv, AttackShows, VictimToCome, AttacksShowOnBothEnds
<1> QED
  BY <1>1, MarkInvHolds, PTL

\* Where the KeyError ends a loop, whatever the topology, the first host is marked.
THEOREM DefenceCorrect == EmulationSpec => []DefendedHostIsMarked
<1>1. MarkInv => DefendedHostIsMarked
  BY DEF MarkInv
<1> QED
  BY <1>1, MarkInvHolds, PTL
=============================================================================
