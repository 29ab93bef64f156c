------------------------- MODULE TrafficGuardProofs -------------------------
(***************************************************************************)
(* The sampler of packets, and the bans and drops of the guard around it,  *)
(* for any number of switches, addresses and protocols and any thresholds. *)
(***************************************************************************)
EXTENDS TrafficGuard, SequenceLemmas

-----------------------------------------------------------------------------
(* The sampler's counters and queues, for any sampling rate, window and    *)
(* queue sizes with a window smaller than the queue of samples.            *)

SamplerInv == SamplerTypeOK /\ NoSampleIsLost /\ SeriesAreAligned

\* A packet adds at most its own address to the queue of samples.
LEMMA PutSampleAddsOne ==
  ASSUME sample_queue \in Seq(Sources), NEW src
  PROVE  /\ PutSample(src) \in Seq(Sources)
         /\ Len(PutSample(src)) \in Nat
         /\ Len(PutSample(src)) <= Len(sample_queue) + 1
BY DEF PutSample

\* What is counted after a packet are addresses.
LEMMA SeenAreSources ==
  ASSUME SamplerTypeOK, NEW src
  PROVE  source_ips \cup Range(PutSample(src)) \subseteq Sources
<1>1. PutSample(src) \in Seq(Sources)
  BY PutSampleAddsOne DEF SamplerTypeOK
<1>2. \A s \in Seq(Sources) : Range(s) \subseteq Sources
  BY DEF Range
<1> QED
  BY <1>1, <1>2 DEF SamplerTypeOK

\* An entropy added to both queues of a pair leaves them equally long, because
\* both are full or neither is.
LEMMA PutBoth ==
  ASSUME SamplerAssumption, NEW a \in Seq(Levels), NEW b \in Seq(Levels), Len(a) = Len(b),
         NEW x \in Levels, NEW y \in Levels
  PROVE  /\ Put(a, x) \in Seq(Levels) /\ Put(b, y) \in Seq(Levels)
         /\ Len(Put(a, x)) = Len(Put(b, y))
         /\ PutIfNotFull(a, x) \in Seq(Levels) /\ PutIfNotFull(b, y) \in Seq(Levels)
         /\ Len(PutIfNotFull(a, x)) = Len(PutIfNotFull(b, y))
<1>1. /\ Append(a, x) \in Seq(Levels) /\ Append(b, y) \in Seq(Levels)
      /\ Len(Append(a, x)) = Len(a) + 1 /\ Len(Append(b, y)) = Len(b) + 1
  OBVIOUS
<1> QED
  BY <1>1 DEF Put, PutIfNotFull

\* So does taking the first of both.
LEMMA RestBoth ==
  ASSUME NEW a \in Seq(Levels), NEW b \in Seq(Levels), Len(a) = Len(b)
  PROVE  /\ Rest(a) \in Seq(Levels) /\ Rest(b) \in Seq(Levels)
         /\ Len(Rest(a)) = Len(Rest(b))
<1>1. a = << >> <=> b = << >>
  OBVIOUS
<1> QED
  BY <1>1 DEF Rest

-----------------------------------------------------------------------------
\* A packet that is not sampled, or that is and does not end the window.
LEMMA CollectKeepsInv ==
  ASSUME SamplerAssumption, SamplerInv, NEW src \in Sources \cup {NonIP},
         SkipPacket \/ CollectSample(src)
  PROVE  SamplerInv'
<1> USE DEF SamplerInv, SamplerTypeOK, NoSampleIsLost, SeriesAreAligned, SamplerAssumption
<1>1. CASE SkipPacket
  <2>1. sample_count' \in 0..(SAMPLE_RATE - 1)
    BY <1>1 DEF SkipPacket, IsSampled
  <2> QED
    BY <1>1, <2>1 DEF SkipPacket, remote, current
<1>2. CASE CollectSample(src)
  <2>1. /\ sample_queue' \in Seq(Sources)
        /\ Len(sample_queue') <= Len(sample_queue) + 1
    BY <1>2, PutSampleAddsOne DEF CollectSample
  <2>2. /\ packet_count' = packet_count + 1 /\ packet_count < Window
        /\ sample_count' = 0
    BY <1>2 DEF CollectSample
  <2>3. NoSampleIsLost'
    BY <2>1, <2>2
  <2>4. SamplerTypeOK'
    BY <1>2, <2>1, <2>2 DEF CollectSample, remote, current
  <2>5. SeriesAreAligned'
    BY <1>2 DEF CollectSample, remote, current
  <2> QED
    BY <2>3, <2>4, <2>5
<1> QED
  BY <1>1, <1>2

\* The packet that ends the window.
LEMMA MeasureKeepsInv ==
  ASSUME SamplerAssumption, SamplerInv, NEW src \in Sources \cup {NonIP}, Measure(src)
  PROVE  SamplerInv'
<1> USE DEF SamplerInv
<1> DEFINE seen == source_ips \cup Range(PutSample(src))
<1>1. PICK se \in EntropyOf(seen), pe \in IF seen = {} THEN {"low"} ELSE Levels :
        /\ source_ips_entropy_queue_remote' =
             PutIfNotFull(source_ips_entropy_queue_remote, se)
        /\ destination_ports_entropy_queue_remote' =
             PutIfNotFull(destination_ports_entropy_queue_remote, pe)
        /\ current_source_ips_entropy' = Put(current_source_ips_entropy, se)
        /\ current_destination_ports_entropy' = Put(current_destination_ports_entropy, pe)
        /\ \/ KeepCounts(seen)
           \/ ClearCounts(seen, se = "low" /\ pe = "low")
  BY DEF Measure
<1>2. se \in Levels /\ pe \in Levels
  BY <1>1, SamplerAssumption DEF EntropyOf, SamplerAssumption
<1>3. sample_count' = 0 /\ packet_count' = 0 /\ sample_queue' = << >>
  BY DEF Measure
<1>4. seen \subseteq Sources
  BY SeenAreSources
<1>5. /\ SeriesAreAligned'
      /\ source_ips_entropy_queue_remote' \in Seq(Levels)
      /\ destination_ports_entropy_queue_remote' \in Seq(Levels)
      /\ current_source_ips_entropy' \in Seq(Levels)
      /\ current_destination_ports_entropy' \in Seq(Levels)
  BY <1>1, <1>2, PutBoth DEF SamplerTypeOK, SeriesAreAligned
<1> HIDE DEF seen
<1>6. /\ sample_static_count' \in 0..Windows
      /\ source_ips' \in SUBSET Sources
      /\ white_ip_table' \in SUBSET Sources
      /\ icmp_high' \in BOOLEAN
  <2>1. CASE KeepCounts(seen)
    BY <2>1, <1>4 DEF KeepCounts, SamplerTypeOK, SamplerAssumption
  <2>2. CASE ClearCounts(seen, se = "low" /\ pe = "low")
    <3>1. white_ip_table' \subseteq white_ip_table \cup seen
      BY <2>2 DEF ClearCounts
    <3>2. icmp_high' \in BOOLEAN
      BY <2>2, Zenon DEF ClearCounts
    <3>3. sample_static_count' \in 0..Windows /\ source_ips' \in SUBSET Sources
      BY <2>2 DEF ClearCounts, SamplerAssumption
    <3> QED
      BY <3>1, <3>2, <3>3, <1>4 DEF SamplerTypeOK
  <2> QED
    BY <1>1, <2>1, <2>2
<1>7. NoSampleIsLost'
  BY <1>3 DEF NoSampleIsLost, SamplerAssumption
<1>8. SamplerTypeOK'
  BY <1>3, <1>5, <1>6 DEF SamplerTypeOK, SamplerAssumption
<1> QED
  BY <1>5, <1>7, <1>8

\* The detection and the monitor, which only take from the entropies.
LEMMA ReadersKeepInv ==
  SamplerInv => /\ \A n \in {1, 2} : detect_ddos_by_entropy(n) => SamplerInv'
                /\ get_traffic_entropy => SamplerInv'
<1> SUFFICES ASSUME SamplerInv
             PROVE  /\ \A n \in {1, 2} : detect_ddos_by_entropy(n) => SamplerInv'
                    /\ get_traffic_entropy => SamplerInv'
  OBVIOUS
<1> USE DEF SamplerInv, SamplerTypeOK, NoSampleIsLost, SeriesAreAligned
<1>1. ASSUME NEW n \in {1, 2}, detect_ddos_by_entropy(n) PROVE SamplerInv'
  BY <1>1, RestBoth DEF detect_ddos_by_entropy, RestAfter, counters, remote
<1>2. CASE get_traffic_entropy
  BY <1>2 DEF get_traffic_entropy, counters, current
<1> QED
  BY <1>1, <1>2

LEMMA SamplerInitInv == SamplerAssumption /\ SamplerInit => SamplerInv
<1> SUFFICES ASSUME SamplerAssumption, SamplerInit PROVE SamplerInv
  OBVIOUS
<1>1. Len(sample_queue) = 0 /\ packet_count = 0 /\ SeriesAreAligned
  BY DEF SamplerInit, SeriesAreAligned
<1>2. NoSampleIsLost
  BY <1>1 DEF NoSampleIsLost, SamplerAssumption
<1>3. /\ sample_count \in 0..(SAMPLE_RATE - 1)
      /\ packet_count \in 0..Window
      /\ sample_static_count \in 0..Windows
  BY DEF SamplerInit, SamplerAssumption
<1>4. icmp_high \in BOOLEAN
  BY Zenon DEF SamplerInit
<1>5. SamplerTypeOK
  BY <1>3, <1>4 DEF SamplerInit, SamplerTypeOK
<1> QED
  BY <1>1, <1>2, <1>5 DEF SamplerInv

LEMMA SamplerStep == SamplerInv /\ [SamplerNext]_samplerVars => SamplerInv'
<1> SUFFICES ASSUME SamplerInv, [SamplerNext]_samplerVars PROVE SamplerInv'
  OBVIOUS
<1>1. ASSUME NEW src \in Sources \cup {NonIP}, SamplePacket(src) PROVE SamplerInv'
  BY <1>1, SamplerAssumption, CollectKeepsInv, MeasureKeepsInv DEF SamplePacket
<1>2. ASSUME NEW n \in {1, 2}, detect_ddos_by_entropy(n) PROVE SamplerInv'
  BY <1>2, ReadersKeepInv
<1>4. CASE get_traffic_entropy
  BY <1>4, ReadersKeepInv
<1>3. CASE UNCHANGED samplerVars
  BY <1>3 DEF SamplerInv, SamplerTypeOK, NoSampleIsLost, SeriesAreAligned,
              samplerVars, counters, remote, current
<1> QED
  BY <1>1, <1>2, <1>3, <1>4 DEF SamplerNext

-----------------------------------------------------------------------------
\* Whatever packets arrive and whoever takes entropies, the counters stay within
\* the rate, the window and the number of windows.
THEOREM SamplerTypeCorrect == SamplerSpec => []SamplerTypeOK
<1>1. SamplerInv => SamplerTypeOK
  BY DEF SamplerInv
<1> QED
  BY <1>1, SamplerAssumption, SamplerInitInv, SamplerStep, PTL DEF SamplerSpec

\* For every window smaller than the queue of samples, that queue never drops a
\* sampled address.
THEOREM NoSampleIsLostCorrect == SamplerSpec => []NoSampleIsLost
<1>1. SamplerInv => NoSampleIsLost
  BY DEF SamplerInv
<1> QED
  BY <1>1, SamplerAssumption, SamplerInitInv, SamplerStep, PTL DEF SamplerSpec

\* The entropies of sources and ports stay paired, for any sizes of their queues.
THEOREM SeriesAreAlignedCorrect == SamplerSpec => []SeriesAreAligned
<1>1. SamplerInv => SeriesAreAligned
  BY DEF SamplerInv
<1> QED
  BY <1>1, SamplerAssumption, SamplerInitInv, SamplerStep, PTL DEF SamplerSpec

-----------------------------------------------------------------------------
(* Bans and drops: what they need of the state.                            *)

\* Only what bans and drops need of GuardTypeOK.
RuleTypes ==
    /\ rules \in [Keys -> SUBSET Rules]
    /\ known \in SUBSET Keys
    /\ flows \in [Switches -> SUBSET (Protocols \cup {DropAll})]
    /\ connected \in SUBSET Switches
    /\ asked \in [Switches -> SUBSET Protocols]

\* A session begins by making the switch's key, and ends the bans asked for in it.
SessionsHaveRules ==
    \A s \in Switches : /\ s \in connected => Int_(s) \in known
                        /\ s \notin connected => asked[s] = {}

\* Protocols become rules only when they are forbidden.
RulesWereAskedFor == \A k \in Keys : rules[k] \cap Protocols \subseteq forbidden

BanInv == RuleTypes /\ SessionsHaveRules /\ BanIsPendingOrInstalled

DropInv == RuleTypes /\ RulesWereAskedFor /\ DropsHaveAReason

LEMMA IntKeys == \A s \in Switches : Int_(s) \in Keys /\ Str_(s) \in Keys
BY DEF Keys, Int_, Str_

LEMMA DistinctKeys == \A s, t \in Switches : /\ Int_(s) = Int_(t) => s = t
                                             /\ Int_(s) # Str_(t)
BY DEF Int_, Str_

LEMMA InitInv == Init => BanInv /\ DropInv
<1> SUFFICES ASSUME Init PROVE BanInv /\ DropInv
  OBVIOUS
<1>1. RuleTypes
  BY DEF Init, RuleTypes
<1>2. SessionsHaveRules /\ BanIsPendingOrInstalled
  BY IntKeys DEF Init, SessionsHaveRules, BanIsPendingOrInstalled
<1>3. RulesWereAskedFor /\ DropsHaveAReason
  BY DEF Init, RulesWereAskedFor, DropsHaveAReason
<1> QED
  BY <1>1, <1>2, <1>3 DEF BanInv, DropInv

-----------------------------------------------------------------------------
(* Sessions and requests.                                                  *)

LEMMA SwitchFeaturesKeeps ==
  ASSUME RuleTypes, NEW s \in Switches, SwitchFeatures(s)
  PROVE  RuleTypes' /\ (BanInv => BanInv') /\ (DropInv => DropInv')
<1> USE IntKeys, DistinctKeys DEF SwitchFeatures
<1>1. RuleTypes'
  BY DEF RuleTypes
<1>2. ASSUME BanInv PROVE SessionsHaveRules' /\ BanIsPendingOrInstalled'
  BY <1>2 DEF BanInv, RuleTypes, SessionsHaveRules, BanIsPendingOrInstalled
<1>3. ASSUME DropInv PROVE RulesWereAskedFor' /\ DropsHaveAReason'
  BY <1>3 DEF DropInv, RuleTypes, RulesWereAskedFor, DropsHaveAReason
<1> QED
  BY <1>1, <1>2, <1>3 DEF BanInv, DropInv

LEMMA SwitchRestartsKeeps ==
  ASSUME RuleTypes, NEW s \in Switches, SwitchRestarts(s)
  PROVE  RuleTypes' /\ (BanInv => BanInv') /\ (DropInv => DropInv')
<1> USE DEF SwitchRestarts
<1>1. RuleTypes'
  BY DEF RuleTypes
<1>2. ASSUME BanInv PROVE SessionsHaveRules' /\ BanIsPendingOrInstalled'
  BY <1>2 DEF BanInv, RuleTypes, SessionsHaveRules, BanIsPendingOrInstalled
<1>3. ASSUME DropInv PROVE RulesWereAskedFor' /\ DropsHaveAReason'
  BY <1>3 DEF DropInv, RuleTypes, RulesWereAskedFor, DropsHaveAReason
<1> QED
  BY <1>1, <1>2, <1>3 DEF BanInv, DropInv

\* The ban becomes a rule of every key, among them those of the switches that are
\* connected; it is forbidden from then on.
LEMMA ProtocolForbidKeeps ==
  ASSUME RuleTypes, NEW p \in Rules, protocol_forbid(p)
  PROVE  RuleTypes' /\ (BanInv => BanInv') /\ (DropInv => DropInv')
<1> USE DEF protocol_forbid
<1>1. RuleTypes'
  BY DEF RuleTypes
<1>2. ASSUME BanInv PROVE SessionsHaveRules' /\ BanIsPendingOrInstalled'
  <2>1. SessionsHaveRules'
    BY <1>2 DEF BanInv, RuleTypes, SessionsHaveRules
  <2>2. ASSUME NEW s \in Switches PROVE asked'[s] \subseteq rules'[Int_(s)] \cup flows'[s]
    BY <1>2, <2>2, IntKeys DEF BanInv, RuleTypes, SessionsHaveRules, BanIsPendingOrInstalled
  <2> QED
    BY <2>1, <2>2 DEF BanIsPendingOrInstalled
<1>3. ASSUME DropInv PROVE RulesWereAskedFor' /\ DropsHaveAReason'
  BY <1>3 DEF DropInv, RuleTypes, RulesWereAskedFor, DropsHaveAReason
<1> QED
  BY <1>1, <1>2, <1>3 DEF BanInv, DropInv

LEMMA WhiteTableKeeps ==
  ASSUME RuleTypes, NEW s \in Switches, set_ip_white_table(s)
  PROVE  RuleTypes' /\ (BanInv => BanInv') /\ (DropInv => DropInv')
<1> USE IntKeys, DistinctKeys DEF set_ip_white_table
<1>1. RuleTypes'
  BY DEF RuleTypes, Rules
<1>2. ASSUME BanInv PROVE SessionsHaveRules' /\ BanIsPendingOrInstalled'
  BY <1>2 DEF BanInv, RuleTypes, SessionsHaveRules, BanIsPendingOrInstalled
<1>3. ASSUME DropInv PROVE RulesWereAskedFor' /\ DropsHaveAReason'
  BY <1>3, GuardAssumption DEF DropInv, RuleTypes, RulesWereAskedFor, DropsHaveAReason
<1> QED
  BY <1>1, <1>2, <1>3 DEF BanInv, DropInv

-----------------------------------------------------------------------------
(* Packets.                                                                *)

\* The rules taken back are those whose flows were sent.
LEMMA SendFlowsKeeps ==
  ASSUME RuleTypes, NEW s \in Switches, NEW drops \in SUBSET (Protocols \cup {DropAll}),
         SendFlows(s, drops), UNCHANGED <<known, connected, asked, forbidden>>
  PROVE  /\ RuleTypes'
         /\ BanInv => BanInv'
         /\ DropInv /\ (is_DDoS_attacking => is_DDoS_attacking')
              /\ drops \subseteq (IF is_DDoS_attacking' THEN {"ICMP", DropAll} ELSE {})
              => DropInv'
<1> USE IntKeys, DistinctKeys DEF SendFlows, RulesOf
<1>1. RuleTypes'
  BY DEF RuleTypes
<1>2. ASSUME BanInv PROVE SessionsHaveRules' /\ BanIsPendingOrInstalled'
  <2>1. SessionsHaveRules'
    BY <1>2 DEF BanInv, SessionsHaveRules
  <2>2. ASSUME NEW t \in Switches PROVE asked[t] \subseteq rules'[Int_(t)] \cup flows'[t]
    <3>1. CASE t # s
      BY <1>2, <2>2, <3>1 DEF BanInv, RuleTypes, BanIsPendingOrInstalled
    <3>2. CASE t = s /\ s \notin connected
      BY <1>2, <3>2 DEF BanInv, SessionsHaveRules
    <3>3. CASE t = s /\ s \in connected
      BY <1>2, <3>3 DEF BanInv, RuleTypes, SessionsHaveRules, BanIsPendingOrInstalled
    <3> QED
      BY <3>1, <3>2, <3>3
  <2> QED
    BY <2>1, <2>2 DEF BanIsPendingOrInstalled
<1>3. ASSUME DropInv, is_DDoS_attacking => is_DDoS_attacking',
             drops \subseteq (IF is_DDoS_attacking' THEN {"ICMP", DropAll} ELSE {})
      PROVE  RulesWereAskedFor' /\ DropsHaveAReason'
  <2>1. RulesWereAskedFor'
    BY <1>3 DEF DropInv, RuleTypes, RulesWereAskedFor
  <2>2. ASSUME NEW t \in Switches
        PROVE  flows'[t] \subseteq flows[t] \cup drops \cup forbidden
    <3>1. rules[Int_(s)] \cap Protocols \subseteq forbidden
      BY <1>3 DEF DropInv, RulesWereAskedFor
    <3> QED
      BY <2>2, <3>1 DEF RuleTypes
  <2>3. \A t \in Switches : DropAll \in flows'[t] => DropAll \in flows[t] \/ DropAll \in drops
    BY GuardAssumption DEF RuleTypes
  <2>4. DropsHaveAReason'
    BY <1>3, <2>2, <2>3, GuardAssumption DEF DropInv, RuleTypes, DropsHaveAReason
  <2> QED
    BY <2>1, <2>4
<1> QED
  BY <1>1, <1>2, <1>3 DEF BanInv, DropInv

\* Steps that only count packets, or detect and then raise.
LEMMA NothingKeeps ==
  ASSUME RuleTypes,
         UNCHANGED <<rules, known, flows, connected, asked, forbidden, is_DDoS_attacking>>
  PROVE  RuleTypes' /\ (BanInv => BanInv') /\ (DropInv => DropInv')
<1>1. RuleTypes'
  BY DEF RuleTypes
<1>2. ASSUME BanInv PROVE SessionsHaveRules' /\ BanIsPendingOrInstalled'
  BY <1>2 DEF BanInv, SessionsHaveRules, BanIsPendingOrInstalled
<1>3. ASSUME DropInv PROVE RulesWereAskedFor' /\ DropsHaveAReason'
  BY <1>3 DEF DropInv, RulesWereAskedFor, DropsHaveAReason
<1> QED
  BY <1>1, <1>2, <1>3 DEF BanInv, DropInv

LEMMA HandlePacketKeeps ==
  ASSUME RuleTypes, NEW s \in Switches, HandlePacket(s)
  PROVE  RuleTypes' /\ (BanInv => BanInv') /\ (DropInv => DropInv')
<1> USE DEF Detect, EndOfHandler
<1>1. CASE SendBans(s)
  <2>1. /\ SendFlows(s, {}) /\ UNCHANGED <<known, connected, asked, forbidden>>
        /\ UNCHANGED is_DDoS_attacking
    BY <1>1 DEF SendBans
  <2> QED
    BY <2>1, SendFlowsKeeps
<1>2. CASE KeepWatching(s) \/ StillAttacked(s)
  <2>1. /\ SendFlows(s, {}) /\ UNCHANGED <<known, connected, asked, forbidden>>
        /\ UNCHANGED is_DDoS_attacking
    BY <1>2 DEF KeepWatching, StillAttacked
  <2> QED
    BY <2>1, SendFlowsKeeps
<1>3. CASE StartDefence(s)
  <2> DEFINE drops == {DropAll} \cup IF icmp_high THEN {"ICMP"} ELSE {}
  <2>1. /\ SendFlows(s, drops) /\ UNCHANGED <<known, connected, asked, forbidden>>
        /\ is_DDoS_attacking'
    BY <1>3 DEF StartDefence
  <2>2. drops \subseteq {"ICMP", DropAll} /\ drops \in SUBSET (Protocols \cup {DropAll})
    BY GuardAssumption
  <2> HIDE DEF drops
  <2> QED
    BY <2>1, <2>2, SendFlowsKeeps
<1>4. CASE EndDefenceRaises(s)
  <2>1. UNCHANGED <<rules, known, flows, connected, asked, forbidden, is_DDoS_attacking>>
    BY <1>4 DEF EndDefenceRaises
  <2> QED
    BY <2>1, NothingKeeps
<1> QED
  BY <1>1, <1>2, <1>3, <1>4 DEF HandlePacket

-----------------------------------------------------------------------------
LEMMA GuardStep ==
  ASSUME RuleTypes, [Next]_vars
  PROVE  (BanInv => BanInv') /\ (DropInv => DropInv')
<1>1. ASSUME NEW s \in Switches, SwitchFeatures(s) \/ SwitchRestarts(s) \/ set_ip_white_table(s)
      PROVE  (BanInv => BanInv') /\ (DropInv => DropInv')
  BY <1>1, SwitchFeaturesKeeps, SwitchRestartsKeeps, WhiteTableKeeps
<1>2. ASSUME NEW s \in Switches, NEW src, NEW p, PacketIn(s, src, p)
      PROVE  (BanInv => BanInv') /\ (DropInv => DropInv')
  BY <1>2, NothingKeeps DEF PacketIn
<1>3. ASSUME NEW s \in Switches, HandlePacket(s)
      PROVE  (BanInv => BanInv') /\ (DropInv => DropInv')
  BY <1>3, HandlePacketKeeps
<1>4. ASSUME NEW p \in Rules, protocol_forbid(p)
      PROVE  (BanInv => BanInv') /\ (DropInv => DropInv')
  BY <1>4, ProtocolForbidKeeps
<1>5. CASE GetTrafficEntropy \/ UNCHANGED vars
  BY <1>5, NothingKeeps DEF GetTrafficEntropy, guardVars, vars
<1> QED
  BY <1>1, <1>2, <1>3, <1>4, <1>5 DEF Next

\* What GuardTypeOK says besides.
OtherTypes ==
    /\ handling \in SUBSET Switches
    /\ DDoSing_count \in MinCount..MaxCount
    /\ is_DDoS_attacking \in BOOLEAN
    /\ forbidden \in SUBSET Protocols

LEMMA TypesInParts == GuardTypeOK <=> RuleTypes /\ OtherTypes
BY DEF GuardTypeOK, RuleTypes, OtherTypes

\* The count is cut at its ceiling before it falls, and at its bounds.
LEMMA CountStaysBounded ==
  ASSUME DDoSing_count \in MinCount..MaxCount
  PROVE  NewCount \in MinCount..MaxCount
<1>1. Normal1 \in Int /\ Normal1 <= MaxCount
  BY GuardAssumption DEF GuardAssumption, Normal1
<1>2. Greatest(Normal1, MinCount) \in MinCount..MaxCount
  BY <1>1, GuardAssumption DEF GuardAssumption, Greatest
<1>3. Least(DDoSing_count + 1, MaxCount) \in MinCount..MaxCount
  BY GuardAssumption DEF GuardAssumption, Least
<1> QED
  BY <1>2, <1>3 DEF NewCount

LEMMA HandlePacketTypes ==
  ASSUME OtherTypes, NEW s \in Switches, HandlePacket(s)
  PROVE  OtherTypes'
<1>1. handling' = {} /\ forbidden' = forbidden
  BY DEF HandlePacket, SendBans, StartDefence, KeepWatching, StillAttacked, EndDefenceRaises,
     Detect, EndOfHandler
<1>2. DDoSing_count' = DDoSing_count \/ DDoSing_count' = NewCount
  BY DEF HandlePacket, SendBans, StartDefence, KeepWatching, StillAttacked, EndDefenceRaises,
     Detect
<1>3. DDoSing_count' \in MinCount..MaxCount
  BY <1>2, CountStaysBounded DEF OtherTypes
<1>4. is_DDoS_attacking' = is_DDoS_attacking \/ is_DDoS_attacking' = TRUE
  BY DEF HandlePacket, SendBans, StartDefence, KeepWatching, StillAttacked, EndDefenceRaises
<1> QED
  BY <1>1, <1>3, <1>4 DEF OtherTypes

LEMMA GuardTypesNext ==
  ASSUME RuleTypes, OtherTypes, [Next]_vars
  PROVE  RuleTypes' /\ OtherTypes'
<1>1. ASSUME NEW s \in Switches, SwitchFeatures(s) \/ SwitchRestarts(s) \/ set_ip_white_table(s)
      PROVE  RuleTypes' /\ OtherTypes'
  <2>1. OtherTypes'
    BY <1>1 DEF SwitchFeatures, SwitchRestarts, set_ip_white_table, OtherTypes
  <2> QED
    BY <1>1, <2>1, SwitchFeaturesKeeps, SwitchRestartsKeeps, WhiteTableKeeps
<1>2. ASSUME NEW s \in Switches, NEW src, NEW p, PacketIn(s, src, p)
      PROVE  RuleTypes' /\ OtherTypes'
  BY <1>2, NothingKeeps DEF PacketIn, OtherTypes
<1>3. ASSUME NEW s \in Switches, HandlePacket(s)
      PROVE  RuleTypes' /\ OtherTypes'
  BY <1>3, HandlePacketKeeps, HandlePacketTypes
<1>4. ASSUME NEW p \in Rules, protocol_forbid(p)
      PROVE  RuleTypes' /\ OtherTypes'
  <2>1. OtherTypes'
    BY <1>4 DEF protocol_forbid, OtherTypes
  <2> QED
    BY <1>4, <2>1, ProtocolForbidKeeps
<1>5. CASE GetTrafficEntropy \/ UNCHANGED vars
  <2>1. UNCHANGED guardVars
    BY <1>5 DEF GetTrafficEntropy, vars
  <2>2. OtherTypes'
    BY <2>1 DEF guardVars, OtherTypes
  <2> QED
    BY <2>1, <2>2, NothingKeeps DEF guardVars
<1> QED
  BY <1>1, <1>2, <1>3, <1>4, <1>5 DEF Next

\* Rules, flows, sessions and the count of the attack keep their types and bounds,
\* for any switches and protocols and any threshold, ceiling and bounds of the count.
THEOREM GuardTypeCorrect == Spec => []GuardTypeOK
<1>1. Init => RuleTypes
  BY InitInv DEF BanInv
<1>2. 0 \in MinCount..MaxCount
  BY GuardAssumption DEF GuardAssumption
<1>3. Init => OtherTypes
  BY <1>2 DEF Init, OtherTypes
<1> QED
  BY <1>1, <1>3, GuardTypesNext, TypesInParts, PTL DEF Spec

\* A ban that was asked for is never forgotten while the session with its switch
\* lasts, for any interleaving of requests, packets, sessions and exceptions.
THEOREM BanCorrect == Spec => []BanIsPendingOrInstalled
<1>1. BanInv => RuleTypes /\ BanIsPendingOrInstalled
  BY DEF BanInv
<1>2. BanInv /\ [Next]_vars => BanInv'
  BY <1>1, GuardStep
<1> QED
  BY <1>1, <1>2, InitInv, PTL DEF Spec

\* No switch drops what was neither forbidden nor part of the defence in an attack.
THEOREM DropsCorrect == Spec => []DropsHaveAReason
<1>1. DropInv => RuleTypes /\ DropsHaveAReason
  BY DEF DropInv
<1>2. DropInv /\ [Next]_vars => DropInv'
  BY <1>1, GuardStep
<1> QED
  BY <1>1, <1>2, InitInv, PTL DEF Spec

\* Whatever the application does between and within its events, its sampler runs
\* as EntropySampler says: what is proved of the sampler holds in it.
THEOREM GuardRunsSampler == Spec => SamplerSpec
<1>1. Init => SamplerInit
  BY DEF Init
<1>2. ASSUME [Next]_vars PROVE [SamplerNext]_samplerVars
  <2>1. ASSUME NEW s \in Switches, NEW src \in Sources \cup {NonIP}, NEW p, PacketIn(s, src, p)
        PROVE  SamplerNext
    BY <2>1 DEF PacketIn, SamplerNext
  <2>2. ASSUME NEW s \in Switches, HandlePacket(s)
        PROVE  SamplerNext \/ UNCHANGED samplerVars
    BY <2>2 DEF HandlePacket, SendBans, StartDefence, KeepWatching, StillAttacked,
                EndDefenceRaises, Detect, SamplerNext
  <2>3. ASSUME NEW s \in Switches, SwitchFeatures(s) \/ SwitchRestarts(s) \/ set_ip_white_table(s)
        PROVE  UNCHANGED samplerVars
    BY <2>3 DEF SwitchFeatures, SwitchRestarts, set_ip_white_table
  <2>4. ASSUME NEW p \in Rules, protocol_forbid(p) PROVE UNCHANGED samplerVars
    BY <2>4 DEF protocol_forbid
  <2>5. CASE GetTrafficEntropy
    BY <2>5 DEF GetTrafficEntropy, SamplerNext
  <2>6. CASE UNCHANGED vars
    BY <2>6 DEF vars
  <2> QED
    BY <1>2, <2>1, <2>2, <2>3, <2>4, <2>5, <2>6 DEF Next
<1> QED
  BY <1>1, <1>2, PTL DEF Spec, SamplerSpec
=============================================================================
