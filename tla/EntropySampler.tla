--------------------------- MODULE EntropySampler ---------------------------
(***************************************************************************)
(* The packet sampler of the Ryu controller,                               *)
(* network/ryu-app/sampling_entropy_calculator_app.py, class               *)
(* SamplingEntropyCalculator.                                              *)
(*                                                                         *)
(* Every SAMPLE_RATE-th packet is sampled; after more than Window sampled  *)
(* packets the queue of samples is turned into one measurement, an entropy *)
(* of the source addresses and one of the destination ports; after more    *)
(* than Windows measurements the counts start anew.                        *)
(*                                                                         *)
(* An entropy is one of the levels the code tells apart: "low" is below    *)
(* 0.5, "high" is 1 and above, a level of Levels between them is the rest. *)
(* The counts per address are reduced to which addresses were counted: one *)
(* address, or none, has entropy 0, several may have any level.  The MAC   *)
(* learning that packet_in begins with, the counters only the protocol     *)
(* statistics show, and the two queues of length 8 that nothing reads are  *)
(* left out.                                                               *)
(***************************************************************************)
EXTENDS Naturals, Sequences, FiniteSets, Functions

CONSTANTS
    Sources,     \* source addresses of IPv4 packets
    NonIP,       \* any packet that is not IPv4
    SAMPLE_RATE, \* 5 in the code
    Window,      \* 50
    Windows,     \* 3
    QueueSize,   \* 100
    RemoteSize,  \* 20
    Levels,      \* of entropies: "low", "high" and any between them
    MaxPending   \* bound: measurements kept for detect_ddos_by_entropy

ASSUME SamplerAssumption ==
    /\ NonIP \notin Sources
    /\ {"low", "high"} \subseteq Levels
    /\ SAMPLE_RATE \in Nat \ {0}
    /\ Window \in Nat /\ Windows \in Nat
    /\ QueueSize \in Nat /\ Window < QueueSize
    /\ RemoteSize \in Nat
    /\ MaxPending \in Nat

VARIABLES
    sample_count,        \* packets since the last sample
    packet_count,        \* samples since the last measurement
    sample_queue,        \* their source addresses
    source_ips,          \* addresses counted since the counts were cleared
    sample_static_count, \* measurements since the counts were cleared
    white_ip_table,      \* addresses put on the white list
    icmp_high,           \* current_protocol_rate has icmp above 0.3
    source_ips_entropy_queue_remote,        \* for the monitor
    destination_ports_entropy_queue_remote,
    current_source_ips_entropy,             \* for detect_ddos_by_entropy
    current_destination_ports_entropy

counters == <<sample_count, packet_count, sample_queue, source_ips,
              sample_static_count, white_ip_table, icmp_high>>
remote == <<source_ips_entropy_queue_remote, destination_ports_entropy_queue_remote>>
current == <<current_source_ips_entropy, current_destination_ports_entropy>>
samplerVars == <<counters, remote, current>>

SamplerTypeOK ==
    /\ sample_count \in 0..(SAMPLE_RATE - 1)
    /\ packet_count \in 0..Window
    /\ sample_queue \in Seq(Sources)
    /\ source_ips \in SUBSET Sources
    /\ sample_static_count \in 0..Windows
    /\ white_ip_table \in SUBSET Sources
    /\ icmp_high \in BOOLEAN
    /\ source_ips_entropy_queue_remote \in Seq(Levels)
    /\ destination_ports_entropy_queue_remote \in Seq(Levels)
    /\ current_source_ips_entropy \in Seq(Levels)
    /\ current_destination_ports_entropy \in Seq(Levels)

SamplerInit ==
    /\ sample_count = 0
    /\ packet_count = 0
    /\ sample_queue = << >>
    /\ source_ips = {}
    /\ sample_static_count = 0
    /\ white_ip_table = {}
    /\ icmp_high = FALSE
    /\ source_ips_entropy_queue_remote = << >>
    /\ destination_ports_entropy_queue_remote = << >>
    /\ current_source_ips_entropy = << >>
    /\ current_destination_ports_entropy = << >>

-----------------------------------------------------------------------------
(* packet_in_handler and process_sample_queue                              *)

IsSampled == sample_count + 1 = SAMPLE_RATE

\* The queue of samples after a sampled packet; a full queue takes no more.
PutSample(src) ==
    IF src \in Sources /\ Len(sample_queue) < QueueSize
      THEN Append(sample_queue, src) ELSE sample_queue

\* Levels calculate_entropy may return for counts of these addresses.
EntropyOf(ips) == IF Cardinality(ips) <= 1 THEN {"low"} ELSE Levels

PutIfNotFull(queue, level) ==
    IF Len(queue) < RemoteSize THEN Append(queue, level) ELSE queue

\* Bound: the two queues of detect_ddos_by_entropy have none in the code.
Put(queue, level) ==
    IF Len(queue) < MaxPending THEN Append(queue, level) ELSE queue

SkipPacket ==
    /\ ~IsSampled
    /\ sample_count' = sample_count + 1
    /\ UNCHANGED <<packet_count, sample_queue, source_ips, sample_static_count,
                   white_ip_table, icmp_high, remote, current>>

\* Mutant: IPv4 packets do not count.
CollectSampleCountsOthers(src) ==
    /\ IsSampled
    /\ packet_count < Window
    /\ sample_count' = 0
    /\ packet_count' = IF src = NonIP THEN packet_count + 1 ELSE packet_count
    /\ sample_queue' = PutSample(src)
    /\ UNCHANGED <<source_ips, sample_static_count, white_ip_table, icmp_high,
                   remote, current>>

\* Mutant: sample_count is not reset.
CollectSampleCountsOn(src) ==
    /\ IsSampled
    /\ packet_count < Window
    /\ sample_count' = sample_count + 1
    /\ packet_count' = packet_count + 1
    /\ sample_queue' = PutSample(src)
    /\ UNCHANGED <<source_ips, sample_static_count, white_ip_table, icmp_high,
                   remote, current>>

CollectSample(src) ==
    /\ IsSampled
    /\ packet_count < Window
    /\ sample_count' = 0
    /\ packet_count' = packet_count + 1
    /\ sample_queue' = PutSample(src)
    /\ UNCHANGED <<source_ips, sample_static_count, white_ip_table, icmp_high,
                   remote, current>>

\* The counts of a measurement are kept for the next one, or are cleared, after
\* the addresses went on the white list if this measurement is low.
KeepCounts(seen) ==
    /\ sample_static_count < Windows
    /\ sample_static_count' = sample_static_count + 1
    /\ source_ips' = seen
    /\ icmp_high' \in BOOLEAN
    /\ UNCHANGED white_ip_table

ClearCounts(seen, low) ==
    /\ sample_static_count = Windows
    /\ sample_static_count' = 0
    /\ source_ips' = {}
    /\ icmp_high' = FALSE
    /\ white_ip_table' = IF low THEN white_ip_table \cup seen ELSE white_ip_table

Measure(src) ==
    /\ IsSampled
    /\ packet_count = Window
    /\ sample_count' = 0
    /\ packet_count' = 0
    /\ sample_queue' = << >>
    /\ LET seen == source_ips \cup Range(PutSample(src)) IN
       \E se \in EntropyOf(seen), pe \in IF seen = {} THEN {"low"} ELSE Levels :
         /\ source_ips_entropy_queue_remote' =
              PutIfNotFull(source_ips_entropy_queue_remote, se)
         /\ destination_ports_entropy_queue_remote' =
              PutIfNotFull(destination_ports_entropy_queue_remote, pe)
         /\ current_source_ips_entropy' = Put(current_source_ips_entropy, se)
         /\ current_destination_ports_entropy' =
              Put(current_destination_ports_entropy, pe)
         /\ \/ KeepCounts(seen)
            \/ ClearCounts(seen, se = "low" /\ pe = "low")

SamplePacket(src) == SkipPacket \/ CollectSample(src) \/ Measure(src)

-----------------------------------------------------------------------------
(* What others call.                                                       *)

\* An empty queue counts as entropy 0.
First(queue) == IF queue = << >> THEN "low" ELSE Head(queue)
Rest(queue) == IF queue = << >> THEN queue ELSE Tail(queue)

\* What detect_ddos_by_entropy returns for these two queues.
IsAttack(sources, ports) == First(sources) # "high" \/ First(ports) # "high"

\* What n calls of detect_ddos_by_entropy leave of a queue.
RestAfter(queue, n) == IF n = 1 THEN Rest(queue) ELSE Rest(Rest(queue))

\* Mutant: the ports' entropy is taken only when the sources' one is normal.
detect_ddos_short_circuit(n) ==
    /\ current_source_ips_entropy' = RestAfter(current_source_ips_entropy, n)
    /\ current_destination_ports_entropy' =
         IF First(current_source_ips_entropy) = "high"
           THEN RestAfter(current_destination_ports_entropy, n)
           ELSE current_destination_ports_entropy
    /\ UNCHANGED <<counters, remote>>

\* One handling of a packet calls it once, or twice to see an attack's end.
detect_ddos_by_entropy(n) ==
    /\ current_source_ips_entropy' = RestAfter(current_source_ips_entropy, n)
    /\ current_destination_ports_entropy' = RestAfter(current_destination_ports_entropy, n)
    /\ UNCHANGED <<counters, remote>>

\* GET /monitor/traffic_entropy empties both queues.
get_traffic_entropy ==
    /\ source_ips_entropy_queue_remote' = << >>
    /\ destination_ports_entropy_queue_remote' = << >>
    /\ UNCHANGED <<counters, current>>

SamplerNext ==
    \/ \E src \in Sources \cup {NonIP} : SamplePacket(src)
    \/ \E n \in {1, 2} : detect_ddos_by_entropy(n)
    \/ get_traffic_entropy

SamplerSpec == SamplerInit /\ [][SamplerNext]_samplerVars

-----------------------------------------------------------------------------
(* What the sampler promises.                                              *)

\* The queue of samples is measured and emptied before it is full, so every
\* sampled IPv4 packet is counted in exactly one measurement.
NoSampleIsLost ==
    /\ Len(sample_queue) <= packet_count
    /\ Len(sample_queue) < QueueSize

\* The n-th entropy of the sources and the n-th of the ports, as the monitor and
\* detect_ddos_by_entropy pair them, come from the same measurement: whatever
\* is dropped or taken leaves the two queues equally long.
SeriesAreAligned ==
    /\ Len(source_ips_entropy_queue_remote) = Len(destination_ports_entropy_queue_remote)
    /\ Len(current_source_ips_entropy) = Len(current_destination_ports_entropy)

=============================================================================
