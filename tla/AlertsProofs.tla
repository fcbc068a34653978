---------------------------- MODULE AlertsProofs ----------------------------
(***************************************************************************)
(* Theorems about Alerts, for every traffic and every limit.  What the     *)
(* detectors and rules keep is a summary of the packets in the log: sets   *)
(* of ports, saturating counters, keys of connections, names of addresses. *)
(* Each part of the invariant says what one of them summarizes.            *)
(***************************************************************************)
EXTENDS Alerts, SequenceTheorems, FiniteSetTheorems, WellFoundedInduction, TLAPS

-----------------------------------------------------------------------------
(***************************************************************************)
(* The log of packets.                                                     *)
(***************************************************************************)
Logged ==
  /\ traffic \in Traffic
  /\ now \in Nat
  /\ log \in Seq([pkt : Packet, at : Nat])
  /\ \A i \in DOMAIN log : log[i].at <= now

\* A packet of the situation is one.
LEMMA TrafficParts ==
  ASSUME Logged
  PROVE  traffic.packets \subseteq Packet /\ traffic.gaps \subseteq Nat
BY AlertAssumption DEF Logged, Situation

LEMMA PacketFields ==
  ASSUME NEW p \in Packet
  PROVE  /\ p.src \in Address /\ p.dst \in Address /\ p.dport \in Nat
         /\ p.answers \subseteq Address
         /\ PairOf(p) \in Pair
         /\ p.domain \in {"none", "service", "other"}
BY DEF Packet, PairOf, Pair

LEMMA LogParts ==
  ASSUME Logged
  PROVE  \A i \in DOMAIN log : /\ log[i] \in [pkt : Packet, at : Nat]
                              /\ log[i].pkt \in Packet
                              /\ log[i].at \in Nat /\ log[i].at <= now
<1>1. DOMAIN log = 1..Len(log) /\ Len(log) \in Nat
  BY DEF Logged
<1>2. \A i \in DOMAIN log : log[i] \in [pkt : Packet, at : Nat]
  BY <1>1, ElementOfSeq DEF Logged
<1> QED
  BY <1>2 DEF Logged

LEMMA LoggedInit == Init => Logged
BY DEF Init, Logged

LEMMA LoggedStep == Logged /\ [Next]_vars => Logged'
<1> SUFFICES ASSUME Logged, [Next]_vars PROVE Logged'
  OBVIOUS
<1>1. ASSUME NEW p \in traffic.packets, NEW trusted_org \in BOOLEAN,
             IngestPacket(p, trusted_org)
      PROVE  Logged'
  <2>1. p \in Packet
    BY TrafficParts
  <2>2. [pkt |-> p, at |-> now] \in [pkt : Packet, at : Nat]
    BY <2>1 DEF Logged
  <2>3. log' \in Seq([pkt : Packet, at : Nat])
    BY <1>1, <2>2 DEF Logged, IngestPacket
  <2>4. \A i \in DOMAIN log' : log'[i].at <= now
    <3>1. /\ DOMAIN log = 1..Len(log) /\ Len(log) \in Nat
          /\ DOMAIN log' = 1..(Len(log) + 1)
          /\ log'[Len(log) + 1] = [pkt |-> p, at |-> now]
          /\ \A i \in 1..Len(log) : log'[i] = log[i]
      BY <1>1, <2>2, AppendProperties DEF Logged, IngestPacket
    <3>2. now \in Nat /\ \A i \in DOMAIN log : log[i].at <= now
      BY DEF Logged
    <3>3. log'[Len(log) + 1].at <= now
      BY <3>1, <3>2
    <3>4. \A i \in DOMAIN log' : i \in 1..Len(log) \/ i = Len(log) + 1
      BY <3>1
    <3> QED
      BY <3>1, <3>2, <3>3, <3>4
  <2> QED
    BY <1>1, <2>3, <2>4 DEF Logged, IngestPacket
<1>2. ASSUME NEW d \in traffic.gaps, Wait(d) PROVE Logged'
  <2>1. d \in Nat /\ now \in Nat /\ \A i \in DOMAIN log : log[i].at \in Nat
    BY TrafficParts, LogParts DEF Logged
  <2> QED
    BY <1>2, <2>1 DEF Logged, Wait
<1>3. CASE UNCHANGED <<traffic, now, log>>
  BY <1>3 DEF Logged
<1> QED
  BY <1>1, <1>2, <1>3 DEF Next, DiscoveryAlert, WhitelistIp, PressClear, vars

\* What a step does to the log, and what it leaves alone if there is no packet.
LEMMA LogGrows ==
  ASSUME Logged, NEW p \in traffic.packets, NEW trusted_org \in BOOLEAN,
         IngestPacket(p, trusted_org)
  PROVE  /\ p \in Packet
         /\ Len(log) + 1 \notin DOMAIN log
         /\ DOMAIN log' = DOMAIN log \cup {Len(log) + 1}
         /\ log'[Len(log) + 1].pkt = p /\ log'[Len(log) + 1].at = now
         /\ \A i \in DOMAIN log : log'[i] = log[i] /\ log[i].pkt \in Packet
<1>1. p \in Packet
  BY TrafficParts
<1>2. log' = Append(log, [pkt |-> p, at |-> now])
  BY DEF IngestPacket
<1>3. [pkt |-> p, at |-> now] \in [pkt : Packet, at : Nat]
  BY <1>1 DEF Logged
<1>4. DOMAIN log = 1..Len(log) /\ Len(log) \in Nat
  BY DEF Logged
<1>5. DOMAIN log' = 1..(Len(log) + 1)
  BY <1>2, <1>3, AppendProperties DEF Logged
<1>6. \A i \in DOMAIN log : log'[i] = log[i]
  BY <1>2, <1>3, <1>4, AppendProperties DEF Logged
<1>7. log'[Len(log) + 1] = [pkt |-> p, at |-> now]
  BY <1>2, <1>3, AppendProperties DEF Logged
<1>8. \A i \in DOMAIN log : log[i] \in [pkt : Packet, at : Nat]
  BY <1>4, ElementOfSeq DEF Logged
<1> QED
  BY <1>1, <1>4, <1>5, <1>6, <1>7, <1>8

LEMMA QuietStep ==
  ASSUME [Next]_vars
  PROVE  \/ \E p \in traffic.packets, trusted_org \in BOOLEAN : IngestPacket(p, trusted_org)
         \/ UNCHANGED <<tracked, log>> /\ whitelist \subseteq whitelist'
<1>1. CASE \E t \in {"suspicious", "noise"}, ip \in Address : DiscoveryAlert(t, ip)
  BY <1>1 DEF DiscoveryAlert
<1>2. CASE \E ip \in traffic.typed : WhitelistIp(ip)
  BY <1>2 DEF WhitelistIp
<1>3. CASE PressClear
  BY <1>3 DEF PressClear
<1>4. CASE \E d \in traffic.gaps : Wait(d)
  BY <1>4 DEF Wait
<1>5. CASE UNCHANGED vars
  BY <1>5 DEF vars, tracked
<1> QED
  BY <1>1, <1>2, <1>3, <1>4, <1>5 DEF Next

-----------------------------------------------------------------------------
(***************************************************************************)
(* The ports a source probed, and the packets of a pair.                   *)
(***************************************************************************)
Packets(c) == {i \in DOMAIN log : PairOf(log[i].pkt) = c}

\* The ports collected are those probed until they are too many; then the source
\* is reported for good.
PortsKept ==
  /\ src_port_targets \in [Address -> SUBSET Nat] /\ port_scan_alerted \subseteq Address
  /\ \A s \in Address :
       /\ IsFiniteSet(ProbedPorts(s))
       /\ s \in port_scan_alerted <=> Cardinality(ProbedPorts(s)) > ScanLimit
       /\ s \notin port_scan_alerted => src_port_targets[s] = ProbedPorts(s)

\* The counter of a pair is the number of its packets up to the limit.
PairsCounted ==
  /\ pair_packet_counts \in [Pair -> Nat] /\ high_volume_alerted \subseteq Pair
  /\ \A c \in Pair :
       /\ IsFiniteSet(Packets(c))
       /\ pair_packet_counts[c] = IF Cardinality(Packets(c)) < VolumeLimit
                                    THEN Cardinality(Packets(c)) ELSE VolumeLimit
       /\ c \in high_volume_alerted => pair_packet_counts[c] >= VolumeLimit
       /\ pair_packet_counts[c] >= VolumeLimit =>
            c[1] \in whitelist \/ c[2] \in whitelist \/ c \in high_volume_alerted

LEMMA PortsInit == Init => PortsKept
<1> SUFFICES ASSUME Init PROVE PortsKept
  OBVIOUS
<1>1. \A s \in Address : ProbedPorts(s) = {}
  BY DEF Init, ProbedPorts, Met
<1>2. IsFiniteSet({}) /\ Cardinality({}) = 0 /\ ScanLimit \in Nat
  BY FS_EmptySet, AlertAssumption
<1>3. src_port_targets = [a \in Address |-> {}] /\ port_scan_alerted = {}
  BY DEF Init
<1>4. src_port_targets \in [Address -> SUBSET Nat]
  BY <1>3
<1>5. \A s \in Address : src_port_targets[s] = {}
  BY <1>3
<1>6. \A s \in Address : IsFiniteSet(ProbedPorts(s)) /\ Cardinality(ProbedPorts(s)) = 0
  BY <1>1, <1>2
<1>7. ~(0 > ScanLimit)
  BY <1>2
<1> QED
  BY <1>1, <1>3, <1>4, <1>5, <1>6, <1>7 DEF PortsKept

LEMMA PairsInit == Init => PairsCounted
<1> SUFFICES ASSUME Init PROVE PairsCounted
  OBVIOUS
<1>1. \A c \in Pair : Packets(c) = {}
  BY DEF Init, Packets
<1>2. IsFiniteSet({}) /\ Cardinality({}) = 0 /\ VolumeLimit \in Nat \ {0}
  BY FS_EmptySet, AlertAssumption
<1>3. pair_packet_counts = [c \in Pair |-> 0] /\ high_volume_alerted = {}
  BY DEF Init
<1>4. \A c \in Pair : IsFiniteSet(Packets(c)) /\ Cardinality(Packets(c)) = 0
  BY <1>1, <1>2
<1>5. pair_packet_counts \in [Pair -> Nat] /\ \A c \in Pair : pair_packet_counts[c] = 0
  BY <1>3
<1>6. ~(0 >= VolumeLimit) /\ 0 < VolumeLimit
  BY <1>2
<1> QED
  BY <1>3, <1>4, <1>5, <1>6 DEF PairsCounted

\* A probe adds its port to those of its source.
LEMMA ProbedPortsGrow ==
  ASSUME Logged, NEW p \in traffic.packets, NEW trusted_org \in BOOLEAN,
         IngestPacket(p, trusted_org), NEW s \in Address
  PROVE  ProbedPorts(s)' = IF IsProbe(p) /\ p.src = s
                             THEN ProbedPorts(s) \cup {p.dport} ELSE ProbedPorts(s)
<1> DEFINE n == Len(log) + 1
<1>1. /\ n \notin DOMAIN log /\ DOMAIN log' = DOMAIN log \cup {n}
      /\ log'[n].pkt = p /\ \A i \in DOMAIN log : log'[i] = log[i]
  BY LogGrows
<1> HIDE DEF n
<1>2. ProbedPorts(s) = {log[i].pkt.dport : i \in {j \in DOMAIN log :
                          IsProbe(log[j].pkt) /\ log[j].pkt.src = s}}
  BY DEF ProbedPorts, Met
<1>3. ProbedPorts(s)' = {log'[i].pkt.dport : i \in {j \in DOMAIN log' :
                          IsProbe(log'[j].pkt) /\ log'[j].pkt.src = s}}
  BY DEF ProbedPorts, Met, IsProbe
<1> QED
  BY <1>1, <1>2, <1>3

LEMMA PacketsGrow ==
  ASSUME Logged, NEW p \in traffic.packets, NEW trusted_org \in BOOLEAN,
         IngestPacket(p, trusted_org), NEW c \in Pair
  PROVE  /\ Packets(c)' = IF PairOf(p) = c THEN Packets(c) \cup {Len(log) + 1}
                                           ELSE Packets(c)
         /\ Len(log) + 1 \notin Packets(c)
<1> DEFINE n == Len(log) + 1
<1>1. /\ n \notin DOMAIN log /\ DOMAIN log' = DOMAIN log \cup {n}
      /\ log'[n].pkt = p /\ \A i \in DOMAIN log : log'[i] = log[i]
  BY LogGrows
<1> HIDE DEF n
<1>2. Packets(c)' = {i \in DOMAIN log' : PairOf(log'[i].pkt) = c}
  BY DEF Packets, PairOf
<1>3. n \notin Packets(c)
  BY <1>1 DEF Packets
<1>4. Packets(c)' = IF PairOf(p) = c THEN Packets(c) \cup {n} ELSE Packets(c)
  BY <1>1, <1>2 DEF Packets
<1> QED
  BY <1>3, <1>4 DEF n

LEMMA PortsStep == Logged /\ PortsKept /\ [Next]_vars => PortsKept'
<1> SUFFICES ASSUME Logged, PortsKept, [Next]_vars PROVE PortsKept'
  OBVIOUS
<1>1. ASSUME NEW p \in traffic.packets, NEW trusted_org \in BOOLEAN,
             IngestPacket(p, trusted_org)
      PROVE  PortsKept'
  <2>1. p \in Packet /\ DetectScan(p) /\ ScanLimit \in Nat
    BY <1>1, TrafficParts, AlertAssumption DEF IngestPacket
  <2>2. p.src \in Address /\ p.dport \in Nat
    BY <2>1, PacketFields
  <2>3. ASSUME NEW s \in Address, ~(IsProbe(p) /\ p.src = s)
        PROVE  /\ ProbedPorts(s)' = ProbedPorts(s)
               /\ s \in port_scan_alerted' <=> s \in port_scan_alerted
               /\ src_port_targets'[s] = src_port_targets[s]
    <3>1. ProbedPorts(s)' = ProbedPorts(s)
      BY <1>1, <2>3, ProbedPortsGrow
    <3> QED
      BY <2>1, <2>2, <2>3, <3>1 DEF DetectScan, PortsKept, scan
  <2>4. ASSUME IsProbe(p)
        PROVE  LET s == p.src
               IN /\ IsFiniteSet(ProbedPorts(s)')
                  /\ s \in port_scan_alerted' <=> Cardinality(ProbedPorts(s)') > ScanLimit
                  /\ s \notin port_scan_alerted' => src_port_targets'[s] = ProbedPorts(s)'
    <3> DEFINE s   == p.src
               old == ProbedPorts(s)
               new == ProbedPorts(s)'
    <3>1. new = old \cup {p.dport}
      BY <1>1, <2>2, <2>4, ProbedPortsGrow
    <3>2. IsFiniteSet(old) /\ (s \in port_scan_alerted <=> Cardinality(old) > ScanLimit)
      BY <2>2 DEF PortsKept
    <3>3. IsFiniteSet(new) /\ Cardinality(old) <= Cardinality(new)
          /\ Cardinality(old) \in Nat /\ Cardinality(new) \in Nat
      BY <3>1, <3>2, FS_AddElement, FS_Subset, FS_CardinalityType
    <3>4. CASE s \in port_scan_alerted
      <4>1. s \in port_scan_alerted'
        BY <2>1, <2>4, <3>4 DEF DetectScan
      <4> QED
        BY <2>1, <3>2, <3>3, <3>4, <4>1
    <3>5. CASE s \notin port_scan_alerted
      <4>1. src_port_targets[s] = old
        BY <2>2, <3>5 DEF PortsKept
      <4>2. src_port_targets[s] \cup {p.dport} = new
        BY <3>1, <4>1
      <4>3. /\ s \in port_scan_alerted' <=> Cardinality(new) > ScanLimit
            /\ s \notin port_scan_alerted' => src_port_targets'[s] = new
        <5> HIDE DEF new, old
        <5> QED
          BY <2>1, <2>2, <2>4, <3>5, <4>2 DEF DetectScan, PortsKept
      <4> QED
        BY <3>3, <4>3
    <3> QED
      BY <3>4, <3>5
  <2>5. /\ src_port_targets' \in [Address -> SUBSET Nat]
        /\ port_scan_alerted' \subseteq Address
    BY <2>1, <2>2 DEF DetectScan, PortsKept, scan
  <2>6. ASSUME NEW s \in Address
        PROVE  /\ IsFiniteSet(ProbedPorts(s)')
               /\ s \in port_scan_alerted' <=> Cardinality(ProbedPorts(s)') > ScanLimit
               /\ s \notin port_scan_alerted' => src_port_targets'[s] = ProbedPorts(s)'
    <3>1. CASE IsProbe(p) /\ p.src = s
      BY <2>4, <3>1
    <3>2. CASE ~(IsProbe(p) /\ p.src = s)
      BY <2>3, <3>2 DEF PortsKept
    <3> QED
      BY <3>1, <3>2
  <2> QED
    BY <2>5, <2>6 DEF PortsKept
<1>2. CASE UNCHANGED <<tracked, log>>
  <2>1. /\ src_port_targets' = src_port_targets /\ port_scan_alerted' = port_scan_alerted
        /\ log' = log
    BY <1>2 DEF tracked, scan
  <2>2. \A s : ProbedPorts(s)' = ProbedPorts(s)
    BY <2>1 DEF ProbedPorts, Met, IsProbe
  <2> QED
    BY <2>1, <2>2 DEF PortsKept
<1> QED
  BY <1>1, <1>2, QuietStep

LEMMA PairsStep == Logged /\ PairsCounted /\ [Next]_vars => PairsCounted'
<1> SUFFICES ASSUME Logged, PairsCounted, [Next]_vars PROVE PairsCounted'
  OBVIOUS
<1>1. ASSUME NEW p \in traffic.packets, NEW trusted_org \in BOOLEAN,
             IngestPacket(p, trusted_org)
      PROVE  PairsCounted'
  <2>1. p \in Packet /\ CountPacket(p) /\ VolumeLimit \in Nat \ {0}
        /\ whitelist' = whitelist
    BY <1>1, TrafficParts, AlertAssumption DEF IngestPacket
  <2>2. PairOf(p) \in Pair /\ PairOf(p)[1] = p.src /\ PairOf(p)[2] = p.dst
    BY <2>1, PacketFields DEF PairOf
  <2>3. high_volume_alerted' =
          IF ~Whitelisted(p) /\ pair_packet_counts'[PairOf(p)] >= VolumeLimit
            THEN high_volume_alerted \cup {PairOf(p)} ELSE high_volume_alerted
    BY <1>1 DEF IngestPacket
  <2>4. /\ pair_packet_counts' \in [Pair -> Nat]
        /\ high_volume_alerted' \subseteq Pair
    BY <2>1, <2>2, <2>3 DEF CountPacket, PairsCounted
  <2>5. ASSUME NEW c \in Pair
        PROVE  /\ IsFiniteSet(Packets(c)')
               /\ pair_packet_counts'[c] = IF Cardinality(Packets(c)') < VolumeLimit
                                             THEN Cardinality(Packets(c)') ELSE VolumeLimit
               /\ c \in high_volume_alerted' => pair_packet_counts'[c] >= VolumeLimit
               /\ pair_packet_counts'[c] >= VolumeLimit =>
                    c[1] \in whitelist \/ c[2] \in whitelist \/ c \in high_volume_alerted'
    <3>1. /\ IsFiniteSet(Packets(c)) /\ Cardinality(Packets(c)) \in Nat
          /\ pair_packet_counts[c] = IF Cardinality(Packets(c)) < VolumeLimit
                                       THEN Cardinality(Packets(c)) ELSE VolumeLimit
          /\ c \in high_volume_alerted => pair_packet_counts[c] >= VolumeLimit
          /\ pair_packet_counts[c] >= VolumeLimit =>
               c[1] \in whitelist \/ c[2] \in whitelist \/ c \in high_volume_alerted
      BY FS_CardinalityType DEF PairsCounted
    <3>2. CASE PairOf(p) # c
      <4>1. Packets(c)' = Packets(c)
        BY <1>1, <3>2, PacketsGrow
      <4>2. pair_packet_counts'[c] = pair_packet_counts[c]
            /\ (c \in high_volume_alerted' <=> c \in high_volume_alerted)
        BY <2>1, <2>2, <2>3, <3>2 DEF CountPacket, PairsCounted
      <4> QED
        BY <3>1, <4>1, <4>2
    <3>3. CASE PairOf(p) = c
      <4>1. /\ Packets(c)' = Packets(c) \cup {Len(log) + 1}
            /\ Len(log) + 1 \notin Packets(c)
        BY <1>1, <3>3, PacketsGrow
      <4>2. IsFiniteSet(Packets(c)') /\ Cardinality(Packets(c)') = Cardinality(Packets(c)) + 1
        BY <3>1, <4>1, FS_AddElement
      <4>3. pair_packet_counts'[c] = IF pair_packet_counts[c] < VolumeLimit
                                       THEN pair_packet_counts[c] + 1
                                       ELSE pair_packet_counts[c]
        BY <2>1, <3>3 DEF CountPacket, PairsCounted
      <4>4. pair_packet_counts'[c] = IF Cardinality(Packets(c)') < VolumeLimit
                                       THEN Cardinality(Packets(c)') ELSE VolumeLimit
        BY <2>1, <3>1, <4>2, <4>3
      <4>5. c \in high_volume_alerted' => pair_packet_counts'[c] >= VolumeLimit
        BY <2>1, <2>3, <3>1, <3>3, <4>3
      <4>6. pair_packet_counts'[c] >= VolumeLimit =>
              c[1] \in whitelist \/ c[2] \in whitelist \/ c \in high_volume_alerted'
        BY <2>2, <2>3, <3>3 DEF Whitelisted
      <4> QED
        BY <4>2, <4>4, <4>5, <4>6
    <3> QED
      BY <3>2, <3>3
  <2> QED
    BY <2>1, <2>4, <2>5 DEF PairsCounted
<1>2. CASE UNCHANGED <<tracked, log>> /\ whitelist \subseteq whitelist'
  BY <1>2 DEF PairsCounted, Packets, PairOf, tracked, volume
<1> QED
  BY <1>1, <1>2, QuietStep

\* display.rs:842-857 and 707-737: the volume rule and the scan detector report
\* what they should and nothing else, whatever comes between the packets.
THEOREM LimitsReportedHolds == Spec => []LimitsReported
<1> DEFINE Inv == Logged /\ PortsKept /\ PairsCounted
<1>1. Init => Inv
  BY LoggedInit, PortsInit, PairsInit
<1>2. Inv /\ [Next]_vars => Inv'
  BY LoggedStep, PortsStep, PairsStep
<1>3. Inv => LimitsReported
  <2> SUFFICES ASSUME Inv, NEW c \in Pair, c[1] \notin whitelist, c[2] \notin whitelist
               PROVE  c \in high_volume_alerted
                        <=> Cardinality(Met(LAMBDA p : PairOf(p) = c)) >= VolumeLimit
    BY DEF LimitsReported, PortsKept
  <2>1. Met(LAMBDA p : PairOf(p) = c) = Packets(c)
    BY DEF Met, Packets
  <2>2. Cardinality(Packets(c)) \in Nat /\ VolumeLimit \in Nat
    BY FS_CardinalityType, AlertAssumption DEF PairsCounted
  <2> QED
    BY <2>1, <2>2 DEF PairsCounted
<1> QED
  BY <1>1, <1>2, <1>3, PTL DEF Spec

-----------------------------------------------------------------------------
(***************************************************************************)
(* The DNS floods.  A pair has one window, which began with a response and *)
(* counts those since.  While its source is not reported, the window       *)
(* before it had at most FloodLimit responses, the first of them too early *)
(* for a burst that reaches into the new one.                              *)
(***************************************************************************)
Responses(c) == {i \in DOMAIN log : IsDnsResponse(log[i].pkt) /\ PairOf(log[i].pkt) = c}

Times == [i \in DOMAIN log |-> log[i].at]

\* The entries of I whose time is from a to b.
During(I, at, a, b) == {i \in I : a <= at[i] /\ at[i] <= b}

\* What the window e of a pair says of its responses I.
InWindow(I, at, e) ==
  /\ e.count = 0 => I = {}
  /\ e.count > 0 =>
       /\ \E i \in I : at[i] = e.start
       /\ \A i \in I : at[i] <= e.start + FloodWindow
       /\ e.count = Cardinality(During(I, at, e.start, e.start + FloodWindow))

\* What is known besides of a pair whose source is not reported.
Calm(I, at, e) ==
  /\ e.count <= FloodLimit
  /\ \A t \in Nat : t + FloodWindow >= e.start =>
       Cardinality(During(I, at, t, e.start - 1)) < FloodLimit
  /\ \A t \in Nat : Cardinality(During(I, at, t, t + FloodWindow)) < 2 * FloodLimit

FloodsKept ==
  /\ dns_response_counts \in [Pair -> [count : Nat, start : Nat]]
  /\ dns_poison_alerted \subseteq Address
  /\ \A s \in dns_poison_alerted : \E d \in Address : Burst(<<s, d>>, FloodLimit, FloodWindow)
  /\ \A c \in Pair :
       /\ IsFiniteSet(Responses(c))
       /\ InWindow(Responses(c), Times, dns_response_counts[c])
       /\ c[1] \notin dns_poison_alerted => Calm(Responses(c), Times, dns_response_counts[c])

LEMMA FloodConstants == FloodLimit \in Nat \ {0} /\ FloodWindow \in Nat
BY AlertAssumption

\* One more entry n, at t.
OneMore(I, at, n, t, later) ==
  /\ IsFiniteSet(I) /\ n \notin I /\ later[n] = t
  /\ \A i \in I : later[i] = at[i]

\* The intervals it is in have one more, the others as many.
LEMMA DuringGrows ==
  ASSUME NEW I, NEW at, NEW n, NEW t \in Int, NEW later, OneMore(I, at, n, t, later),
         NEW a \in Int, NEW b \in Int
  PROVE  /\ IsFiniteSet(During(I, at, a, b))
         /\ Cardinality(During(I, at, a, b)) \in Nat
         /\ a <= t /\ t <= b =>
              Cardinality(During(I \cup {n}, later, a, b)) = Cardinality(During(I, at, a, b)) + 1
         /\ ~(a <= t /\ t <= b) =>
              Cardinality(During(I \cup {n}, later, a, b)) = Cardinality(During(I, at, a, b))
<1>1. During(I, at, a, b) \subseteq I /\ n \notin During(I, at, a, b)
  BY DEF During, OneMore
<1>2. IsFiniteSet(During(I, at, a, b)) /\ Cardinality(During(I, at, a, b)) \in Nat
  BY <1>1, FS_Subset, FS_CardinalityType DEF OneMore
<1>3. /\ a <= t /\ t <= b =>
           During(I \cup {n}, later, a, b) = During(I, at, a, b) \cup {n}
      /\ ~(a <= t /\ t <= b) =>
           During(I \cup {n}, later, a, b) = During(I, at, a, b)
  BY DEF During, OneMore
<1>4. Cardinality(During(I, at, a, b) \cup {n}) = Cardinality(During(I, at, a, b)) + 1
  BY <1>1, <1>2, FS_AddElement
<1> QED
  BY <1>2, <1>3, <1>4

\* An interval has no more than two that cover it, and no more than one around it.
LEMMA DuringBounds ==
  ASSUME NEW I, IsFiniteSet(I), NEW at, \A i \in I : at[i] \in Int,
         NEW a \in Int, NEW b \in Int, NEW m \in Int, NEW d \in Int
  PROVE  /\ \A k \in Int : /\ IsFiniteSet(During(I, at, a, k))
                          /\ Cardinality(During(I, at, a, k)) \in Nat
         /\ b <= d => Cardinality(During(I, at, a, b))
                        <= Cardinality(During(I, at, a, m - 1)) + Cardinality(During(I, at, m, d))
<1>1. \A x, y \in Int : During(I, at, x, y) \subseteq I
  BY DEF During
<1>2. \A x, y \in Int : /\ IsFiniteSet(During(I, at, x, y))
                        /\ Cardinality(During(I, at, x, y)) \in Nat
  BY <1>1, FS_Subset, FS_CardinalityType
<1>3. ASSUME b <= d
      PROVE  Cardinality(During(I, at, a, b))
               <= Cardinality(During(I, at, a, m - 1)) + Cardinality(During(I, at, m, d))
  <2> DEFINE A == During(I, at, a, m - 1)
             B == During(I, at, m, d)
             C == During(I, at, a, b)
  <2>1. IsFiniteSet(A) /\ IsFiniteSet(B) /\ Cardinality(A) \in Nat /\ Cardinality(B) \in Nat
        /\ IsFiniteSet(C) /\ Cardinality(C) \in Nat
    <3>1. m - 1 \in Int
      OBVIOUS
    <3> QED
      BY <1>2, <3>1
  <2>2. C \subseteq A \cup B
    BY <1>3 DEF During
  <2>3. A \cap B = {}
    BY DEF During
  <2> HIDE DEF A, B, C
  <2>4. IsFiniteSet(A \cup B) /\ Cardinality(A \cup B) = Cardinality(A) + Cardinality(B)
    <3>1. Cardinality(A \cap B) = 0
      BY <2>3, FS_EmptySet
    <3>2. /\ IsFiniteSet(A \cup B)
          /\ Cardinality(A \cup B) = Cardinality(A) + Cardinality(B) - Cardinality(A \cap B)
      BY <2>1, FS_Union
    <3> QED
      BY <2>1, <3>1, <3>2
  <2>5. Cardinality(C) <= Cardinality(A \cup B)
    BY <2>2, <2>4, FS_Subset
  <2> QED
    BY <2>1, <2>4, <2>5 DEF A, B, C
<1> QED
  BY <1>2, <1>3

\* A response is counted by its window, or begins one.
LEMMA WindowGrows ==
  ASSUME now \in Nat, NEW I, IsFiniteSet(I), NEW at, \A i \in I : at[i] \in Nat /\ at[i] <= now,
         NEW e \in [count : Nat, start : Nat], InWindow(I, at, e),
         NEW n, n \notin I, NEW later, \A i \in I : later[i] = at[i], later[n] = now
  PROVE  /\ Counted(e) \in [count : Nat \ {0}, start : Nat]
         /\ Counted(e).start <= now /\ now <= Counted(e).start + FloodWindow
         /\ InWindow(I \cup {n}, later, Counted(e))
<1>1. FloodWindow \in Nat
  BY FloodConstants
<1>4. OneMore(I, at, n, now, later) /\ now \in Int
  BY DEF OneMore
<1>2. CASE e.count = 0 \/ Since(e.start) > FloodWindow
  <2>1. Counted(e) = [count |-> 1, start |-> now]
    BY <1>2 DEF Counted
  <2>2. \A i \in I : at[i] < now
    BY <1>1, <1>2 DEF InWindow, Since
  <2>3. During(I \cup {n}, later, now, now + FloodWindow) = {n}
    BY <1>1, <2>2 DEF During
  <2>4. Cardinality({n}) = 1
    BY FS_Singleton
  <2>5. \A i \in I \cup {n} : later[i] <= now + FloodWindow
    BY <1>1
  <2> QED
    BY <1>1, <2>1, <2>3, <2>4, <2>5 DEF InWindow
<1>3. CASE e.count # 0 /\ ~(Since(e.start) > FloodWindow)
  <2>1. Counted(e) = [count |-> e.count + 1, start |-> e.start]
    BY <1>3 DEF Counted
  <2>2. PICK i \in I : at[i] = e.start
    BY <1>3 DEF InWindow
  <2>3. e.start \in Nat /\ e.count \in Nat /\ e.start <= now /\ now <= e.start + FloodWindow
    BY <1>1, <1>3, <2>2 DEF Since
  <2>4. e.count = Cardinality(During(I, at, e.start, e.start + FloodWindow))
    BY <1>3, <2>3 DEF InWindow
  <2>5. e.start + FloodWindow \in Int /\ e.start \in Int
    BY <1>1, <2>3
  <2>6. Cardinality(During(I \cup {n}, later, e.start, e.start + FloodWindow)) = e.count + 1
    BY <1>4, <2>3, <2>4, <2>5, DuringGrows
  <2>7. later[i] = e.start
    BY <2>2
  <2>8. \A j \in I \cup {n} : later[j] <= e.start + FloodWindow
    BY <1>3, <2>3 DEF InWindow
  <2>9. InWindow(I \cup {n}, later, [count |-> e.count + 1, start |-> e.start])
    BY <2>3, <2>6, <2>7, <2>8 DEF InWindow
  <2> QED
    BY <2>1, <2>3, <2>9
<1> QED
  BY <1>2, <1>3

\* It leaves a pair calm if it does not reach the limit: a burst that ends with it
\* has its responses in this window and in the part of the last one after its first.
LEMMA CalmStays ==
  ASSUME now \in Nat, NEW I, IsFiniteSet(I), NEW at, \A i \in I : at[i] \in Nat /\ at[i] <= now,
         NEW e \in [count : Nat, start : Nat], InWindow(I, at, e), Calm(I, at, e),
         NEW n, n \notin I, NEW later, \A i \in I : later[i] = at[i], later[n] = now,
         Counted(e).count <= FloodLimit
  PROVE  Calm(I \cup {n}, later, Counted(e))
<1> DEFINE new == Counted(e)
           J   == I \cup {n}
<1>1. /\ new \in [count : Nat \ {0}, start : Nat]
      /\ new.start <= now /\ now <= new.start + FloodWindow
      /\ InWindow(J, later, new)
  BY WindowGrows
<1>2. FloodWindow \in Nat /\ FloodLimit \in Nat \ {0} /\ new.count <= FloodLimit
  BY FloodConstants
<1>3. new.start \in Nat /\ new.count \in Nat \ {0} /\ e.start \in Nat /\ e.count \in Nat
  BY <1>1
<1>4. \/ e.count = 0
      \/ e.count > 0 /\ new.start = now /\ now > e.start + FloodWindow
      \/ e.count > 0 /\ new.start = e.start
  BY <1>2, <1>3 DEF Counted, Since
<1> HIDE DEF new
<1>8. OneMore(I, at, n, now, later) /\ now \in Int
  BY DEF OneMore
<1>5. IsFiniteSet(J) /\ \A i \in J : later[i] \in Int
  BY FS_AddElement
<1>6. ASSUME NEW t \in Nat, t + FloodWindow >= new.start
      PROVE  Cardinality(During(J, later, t, new.start - 1)) < FloodLimit
  <2>1. /\ IsFiniteSet(During(I, at, t, new.start - 1))
        /\ Cardinality(During(I, at, t, new.start - 1)) \in Nat
        /\ Cardinality(During(J, later, t, new.start - 1))
             = Cardinality(During(I, at, t, new.start - 1))
    <3>1. PICK y \in Int : y = new.start - 1 /\ ~(now <= y)
      BY <1>1, <1>3
    <3>2. /\ IsFiniteSet(During(I, at, t, y)) /\ Cardinality(During(I, at, t, y)) \in Nat
          /\ Cardinality(During(I \cup {n}, later, t, y)) = Cardinality(During(I, at, t, y))
      <4>1. t \in Int
        OBVIOUS
      <4> HIDE DEF J
      <4> QED
        BY <1>8, <3>1, <4>1, DuringGrows
    <3> QED
      BY <3>1, <3>2
  <2>2. CASE e.count = 0
    <3>1. During(I, at, t, new.start - 1) = {}
      BY <2>2 DEF InWindow, During
    <3> QED
      BY <1>2, <2>1, <3>1, FS_EmptySet
  <2>3. CASE e.count > 0 /\ new.start = now /\ now > e.start + FloodWindow
    <3> DEFINE A == During(I, at, e.start, e.start + FloodWindow)
               B == During(I, at, t, new.start - 1)
    <3>1. PICK i \in I : at[i] = e.start
      BY <2>3 DEF InWindow
    <3>2. t > e.start
      BY <1>2, <1>3, <1>6, <2>3
    <3>3. B \subseteq A \ {i}
      BY <1>2, <1>3, <2>3, <3>1, <3>2 DEF During, InWindow
    <3>4. i \in A
      BY <1>2, <1>3, <3>1 DEF During
    <3>5. IsFiniteSet(A) /\ Cardinality(A) = e.count /\ e.count <= FloodLimit
      <4>1. A \subseteq I
        BY DEF During
      <4> QED
        BY <2>3, <4>1, FS_Subset DEF InWindow, Calm
    <3> HIDE DEF A, B
    <3>6. IsFiniteSet(A \ {i}) /\ Cardinality(A \ {i}) = Cardinality(A) - 1
      BY <3>4, <3>5, FS_RemoveElement
    <3>7. Cardinality(B) <= Cardinality(A \ {i})
      BY <3>3, <3>6, FS_Subset
    <3>8. Cardinality(B) < FloodLimit
      BY <1>2, <1>3, <2>1, <3>5, <3>6, <3>7 DEF B
    <3> QED
      BY <2>1, <3>8 DEF B
  <2>4. CASE e.count > 0 /\ new.start = e.start
    BY <1>6, <2>1, <2>4 DEF Calm
  <2> QED
    BY <1>4, <2>2, <2>3, <2>4
<1>7. ASSUME NEW t \in Nat
      PROVE  Cardinality(During(J, later, t, t + FloodWindow)) < 2 * FloodLimit
  <2>1. CASE t + FloodWindow >= new.start
    <3>1. Cardinality(During(J, later, t, new.start - 1)) < FloodLimit
      BY <1>6, <2>1
    <3>2. Cardinality(During(J, later, new.start, new.start + FloodWindow)) = new.count
      BY <1>1, <1>3 DEF InWindow
    <3>3. During(J, later, t, t + FloodWindow)
            \subseteq During(J, later, t, now)
      BY DEF During
    <3>4. \A a \in Int, k \in Int : /\ IsFiniteSet(During(J, later, a, k))
                                    /\ Cardinality(During(J, later, a, k)) \in Nat
      BY <1>5, DuringBounds
    <3>5. Cardinality(During(J, later, t, t + FloodWindow))
            <= Cardinality(During(J, later, t, now))
      <4>1. t \in Int /\ now \in Int /\ t + FloodWindow \in Int
        BY <1>2
      <4>2. IsFiniteSet(During(J, later, t, now))
        BY <3>4, <4>1
      <4> QED
        BY <3>3, <4>2, FS_Subset
    <3>6. Cardinality(During(J, later, t, now))
            <= Cardinality(During(J, later, t, new.start - 1))
                 + Cardinality(During(J, later, new.start, new.start + FloodWindow))
      BY <1>1, <1>2, <1>3, <1>5, DuringBounds
    <3>7. /\ Cardinality(During(J, later, t, t + FloodWindow)) \in Nat
          /\ Cardinality(During(J, later, t, now)) \in Nat
          /\ Cardinality(During(J, later, t, new.start - 1)) \in Nat
      <4>1. t \in Int /\ now \in Int /\ t + FloodWindow \in Int /\ new.start - 1 \in Int
        BY <1>2, <1>3
      <4> QED
        BY <3>4, <4>1
    <3> QED
      BY <1>2, <1>3, <3>1, <3>2, <3>5, <3>6, <3>7
  <2>2. CASE t + FloodWindow < new.start
    <3>1. Cardinality(During(J, later, t, t + FloodWindow))
            = Cardinality(During(I, at, t, t + FloodWindow))
      <4>1. PICK y \in Int : y = t + FloodWindow /\ ~(now <= y)
        BY <1>1, <1>2, <1>3, <2>2
      <4>2. Cardinality(During(I \cup {n}, later, t, y)) = Cardinality(During(I, at, t, y))
        <5>1. t \in Int
          OBVIOUS
        <5> QED
          BY <1>8, <4>1, <5>1, DuringGrows
      <4> QED
        BY <4>1, <4>2
    <3> QED
      BY <3>1 DEF Calm
  <2> QED
    BY <1>2, <1>3, <2>1, <2>2
<1> QED
  BY <1>2, <1>6, <1>7 DEF Calm, new

BurstsAre ==
  \A c, n, w : Burst(c, n, w) <=>
    \E i \in Responses(c) :
      Cardinality(During(Responses(c), Times, Times[i], Times[i] + w)) > n

LEMMA BurstIs == BurstsAre
<1> SUFFICES ASSUME NEW c, NEW n, NEW w
             PROVE  Burst(c, n, w) <=>
                      \E i \in Responses(c) :
                        Cardinality(During(Responses(c), Times, Times[i], Times[i] + w)) > n
  BY DEF BurstsAre
<1>1. Met(LAMBDA p : IsDnsResponse(p) /\ PairOf(p) = c) = Responses(c)
  BY DEF Met, Responses
<1>2. \A i \in Responses(c) : Times[i] = log[i].at
  BY DEF Responses, Times
<1>3. \A i \in Responses(c) :
        {j \in Responses(c) : log[i].at <= log[j].at /\ log[j].at <= log[i].at + w}
          = During(Responses(c), Times, Times[i], Times[i] + w)
  BY <1>2 DEF During
<1> QED
  BY <1>1, <1>3 DEF Burst

LEMMA ResponsesAre ==
  ASSUME Logged
  PROVE  /\ \A i \in DOMAIN log : Times[i] \in Nat /\ Times[i] <= now
         /\ \A c : Responses(c) \subseteq DOMAIN log
BY LogParts DEF Times, Responses

LEMMA ResponsesGrow ==
  ASSUME Logged, NEW p \in traffic.packets, NEW trusted_org \in BOOLEAN,
         IngestPacket(p, trusted_org)
  PROVE  \E n : /\ n \notin DOMAIN log /\ Times'[n] = now
                /\ \A i \in DOMAIN log : Times'[i] = Times[i]
                /\ \A c : Responses(c)' = IF IsDnsResponse(p) /\ PairOf(p) = c
                                            THEN Responses(c) \cup {n} ELSE Responses(c)
<1>1. PICK n : n = Len(log) + 1
  OBVIOUS
<1>2. /\ n \notin DOMAIN log /\ DOMAIN log' = DOMAIN log \cup {n}
      /\ log'[n].pkt = p /\ log'[n].at = now /\ \A i \in DOMAIN log : log'[i] = log[i]
  BY <1>1, LogGrows
<1>3. Times'[n] = now /\ \A i \in DOMAIN log : Times'[i] = Times[i]
  BY <1>2 DEF Times
<1>4. \A c : Responses(c)' = IF IsDnsResponse(p) /\ PairOf(p) = c
                               THEN Responses(c) \cup {n} ELSE Responses(c)
  BY <1>2 DEF Responses, IsDnsResponse, PairOf
<1> QED
  BY <1>2, <1>3, <1>4

\* A burst that was, is.
LEMMA BurstsStay ==
  ASSUME NEW I, IsFiniteSet(I), NEW at, NEW n, NEW t \in Int, NEW later,
         OneMore(I, at, n, t, later), NEW i \in I, at[i] \in Nat, NEW w \in Nat
  PROVE  Cardinality(During(I, at, at[i], at[i] + w))
           <= Cardinality(During(I \cup {n}, later, later[i], later[i] + w))
<1>1. PICK a \in Int, b \in Int : a = at[i] /\ b = at[i] + w
  OBVIOUS
<1>2. later[i] = at[i]
  BY DEF OneMore
<1>3. /\ Cardinality(During(I, at, a, b)) \in Nat
      /\ a <= t /\ t <= b =>
           Cardinality(During(I \cup {n}, later, a, b)) = Cardinality(During(I, at, a, b)) + 1
      /\ ~(a <= t /\ t <= b) =>
           Cardinality(During(I \cup {n}, later, a, b)) = Cardinality(During(I, at, a, b))
  BY DuringGrows
<1> QED
  BY <1>1, <1>2, <1>3

LEMMA FloodsInit == Init => FloodsKept
<1> SUFFICES ASSUME Init PROVE FloodsKept
  OBVIOUS
<1>1. \A c : Responses(c) = {}
  BY DEF Init, Responses
<1>2. IsFiniteSet({}) /\ Cardinality({}) = 0 /\ FloodLimit \in Nat \ {0}
  BY FS_EmptySet, FloodConstants
<1>3. \A at, a, b : During({}, at, a, b) = {}
  BY DEF During
<1>4. ASSUME NEW e, e = [count |-> 0, start |-> 0], NEW at
      PROVE  InWindow({}, at, e) /\ Calm({}, at, e)
  <2>1. e.count = 0 /\ e.start = 0
    BY <1>4
  <2> QED
    BY <1>2, <1>3, <2>1 DEF InWindow, Calm
<1>5. /\ dns_response_counts \in [Pair -> [count : Nat, start : Nat]]
      /\ \A c \in Pair : dns_response_counts[c] = [count |-> 0, start |-> 0]
      /\ dns_poison_alerted = {}
  BY DEF Init
<1> QED
  BY <1>1, <1>2, <1>4, <1>5 DEF FloodsKept

\* The source of a window past the limit has sent a burst.
LEMMA BurstFound ==
  ASSUME NEW I, NEW at, NEW e \in [count : Nat \ {0}, start : Nat], InWindow(I, at, e),
         e.count > FloodLimit
  PROVE  \E i \in I : Cardinality(During(I, at, at[i], at[i] + FloodWindow)) > FloodLimit
BY DEF InWindow

LEMMA FloodsStep == Logged /\ FloodsKept /\ [Next]_vars => FloodsKept'
<1> SUFFICES ASSUME Logged, FloodsKept, [Next]_vars PROVE FloodsKept'
  OBVIOUS
<1>1. ASSUME NEW p \in traffic.packets, NEW trusted_org \in BOOLEAN,
             IngestPacket(p, trusted_org)
      PROVE  FloodsKept'
  <2>1. PICK n : /\ n \notin DOMAIN log /\ Times'[n] = now
                 /\ \A i \in DOMAIN log : Times'[i] = Times[i]
                 /\ \A c : Responses(c)' = IF IsDnsResponse(p) /\ PairOf(p) = c
                                             THEN Responses(c) \cup {n} ELSE Responses(c)
    BY <1>1, ResponsesGrow
  <2>2. /\ p \in Packet /\ PairOf(p) \in Pair /\ p.src \in Address /\ p.dst \in Address
        /\ PairOf(p) = <<p.src, p.dst>>
    BY TrafficParts, PacketFields DEF PairOf
  <2>3. DetectFlood(p)
    BY <1>1 DEF IngestPacket
  <2>4. /\ now \in Nat /\ now \in Int
        /\ FloodLimit \in Nat \ {0} /\ FloodWindow \in Nat
        /\ \A i \in DOMAIN log : Times[i] \in Nat /\ Times[i] <= now
        /\ \A c : Responses(c) \subseteq DOMAIN log
    BY ResponsesAre, FloodConstants DEF Logged
  <2>5. PICK old, new : old = Times /\ new = Times'
    OBVIOUS
  <2>6. ASSUME NEW c \in Pair
        PROVE  /\ dns_response_counts[c] \in [count : Nat, start : Nat]
               /\ IsFiniteSet(Responses(c))
               /\ OneMore(Responses(c), old, n, now, new)
               /\ \A i \in Responses(c) : old[i] \in Nat /\ old[i] <= now
               /\ InWindow(Responses(c), old, dns_response_counts[c])
               /\ c[1] \notin dns_poison_alerted =>
                    Calm(Responses(c), old, dns_response_counts[c])
    BY <2>1, <2>4, <2>5 DEF FloodsKept, OneMore
  <2>7. ASSUME NEW c \in Pair, NEW w \in Nat, NEW i \in Responses(c)
        PROVE  Cardinality(During(Responses(c), old, old[i], old[i] + w))
                 <= Cardinality(During(Responses(c)', new, new[i], new[i] + w))
    <3>1. CASE IsDnsResponse(p) /\ PairOf(p) = c
      BY <2>1, <2>4, <2>6, <3>1, BurstsStay
    <3>2. CASE ~(IsDnsResponse(p) /\ PairOf(p) = c)
      <4>1. \A j \in Responses(c) : new[j] = old[j]
        BY <2>6 DEF OneMore
      <4>2. During(Responses(c), new, new[i], new[i] + w)
              = During(Responses(c), old, old[i], old[i] + w)
        BY <4>1 DEF During
      <4>3. Cardinality(During(Responses(c), old, old[i], old[i] + w)) \in Nat
        <5>1. During(Responses(c), old, old[i], old[i] + w) \subseteq Responses(c)
          BY DEF During
        <5> QED
          BY <2>6, <5>1, FS_Subset, FS_CardinalityType
      <4> QED
        BY <2>1, <3>2, <4>2, <4>3
    <3> QED
      BY <3>1, <3>2
  <2>8. ASSUME NEW c \in Pair, NEW w \in Nat, NEW m \in Nat, NEW i \in Responses(c)',
               Cardinality(During(Responses(c)', new, new[i], new[i] + w)) > m
        PROVE  Burst(c, m, w)'
    <3>1. BurstsAre'
      BY BurstIs, PTL
    <3> QED
      BY <2>5, <2>8, <3>1 DEF BurstsAre, During
  <2>9. ASSUME NEW c \in Pair, Burst(c, FloodLimit, FloodWindow)
        PROVE  Burst(c, FloodLimit, FloodWindow)'
    <3>1. PICK i \in Responses(c) :
            Cardinality(During(Responses(c), old, old[i], old[i] + FloodWindow)) > FloodLimit
      BY <2>5, <2>9, BurstIs DEF BurstsAre
    <3>2. i \in Responses(c)'
      BY <2>1
    <3>3. Cardinality(During(Responses(c), old, old[i], old[i] + FloodWindow))
            <= Cardinality(During(Responses(c)', new, new[i], new[i] + FloodWindow))
      BY <2>4, <2>7
    <3>4. /\ Cardinality(During(Responses(c), old, old[i], old[i] + FloodWindow)) \in Nat
          /\ Cardinality(During(Responses(c)', new, new[i], new[i] + FloodWindow)) \in Nat
      <4>1. /\ During(Responses(c), old, old[i], old[i] + FloodWindow) \subseteq Responses(c)
            /\ During(Responses(c)', new, new[i], new[i] + FloodWindow) \subseteq Responses(c)'
        BY DEF During
      <4>2. IsFiniteSet(Responses(c)) /\ IsFiniteSet(Responses(c)')
        BY <2>1, <2>6, FS_AddElement
      <4> QED
        BY <4>1, <4>2, FS_Subset, FS_CardinalityType
    <3>5. Cardinality(During(Responses(c)', new, new[i], new[i] + FloodWindow)) > FloodLimit
      BY <2>4, <3>1, <3>3, <3>4
    <3> QED
      BY <2>4, <2>8, <3>2, <3>5
  <2>10. ASSUME NEW c \in Pair, ~(IsDnsResponse(p) /\ PairOf(p) = c)
         PROVE  /\ IsFiniteSet(Responses(c)')
                /\ InWindow(Responses(c)', new, dns_response_counts[c])
                /\ c[1] \notin dns_poison_alerted =>
                     Calm(Responses(c)', new, dns_response_counts[c])
    <3>1. Responses(c)' = Responses(c)
      BY <2>1, <2>10
    <3>2. \A i \in Responses(c) : new[i] = old[i]
      BY <2>6 DEF OneMore
    <3>3. \A a, b : During(Responses(c), new, a, b) = During(Responses(c), old, a, b)
      BY <3>2 DEF During
    <3>4. /\ IsFiniteSet(Responses(c))
          /\ InWindow(Responses(c), new, dns_response_counts[c])
      BY <2>6, <3>2, <3>3 DEF InWindow
    <3>5. c[1] \notin dns_poison_alerted =>
            Calm(Responses(c), new, dns_response_counts[c])
      BY <2>6, <3>3 DEF Calm
    <3> QED
      BY <3>1, <3>4, <3>5
  <2>11. \A s \in dns_poison_alerted :
           \E d \in Address : Burst(<<s, d>>, FloodLimit, FloodWindow)'
    <3>1. \A s \in dns_poison_alerted, d \in Address : <<s, d>> \in Pair
      BY DEF FloodsKept, Pair
    <3> QED
      BY <2>9, <3>1 DEF FloodsKept
  <2>12. CASE IsDnsResponse(p)
    <3> DEFINE q == PairOf(p)
               e == dns_response_counts[q]
    <3>1. /\ dns_response_counts' = [dns_response_counts EXCEPT ![q] = Counted(e)]
          /\ dns_poison_alerted' = IF Counted(e).count > FloodLimit
                                     THEN dns_poison_alerted \cup {p.src} ELSE dns_poison_alerted
      BY <2>3, <2>12 DEF DetectFlood, FloodsKept
    <3>2. Responses(q)' = Responses(q) \cup {n}
      BY <2>1, <2>12
    <3>3. /\ e \in [count : Nat, start : Nat] /\ IsFiniteSet(Responses(q))
          /\ n \notin Responses(q) /\ new[n] = now
          /\ \A i \in Responses(q) : new[i] = old[i]
          /\ \A i \in Responses(q) : old[i] \in Nat /\ old[i] <= now
          /\ InWindow(Responses(q), old, e)
          /\ q[1] \notin dns_poison_alerted => Calm(Responses(q), old, e)
      BY <2>2, <2>6 DEF OneMore
    <3> HIDE DEF q, e
    <3>4. /\ Counted(e) \in [count : Nat \ {0}, start : Nat]
          /\ InWindow(Responses(q)', new, Counted(e))
      BY <2>4, <3>2, <3>3, WindowGrows
    <3>5. Calm(Responses(q), old, e) /\ Counted(e).count <= FloodLimit
            => Calm(Responses(q)', new, Counted(e))
      BY <2>4, <3>2, <3>3, CalmStays
    <3>6. Counted(e).count > FloodLimit => Burst(q, FloodLimit, FloodWindow)'
      BY <2>2, <2>4, <2>8, <3>4, BurstFound DEF q
    <3>7. ASSUME NEW c \in Pair
          PROVE  /\ IsFiniteSet(Responses(c)')
                 /\ InWindow(Responses(c)', new, dns_response_counts'[c])
                 /\ c[1] \notin dns_poison_alerted' =>
                      Calm(Responses(c)', new, dns_response_counts'[c])
      <4>1. CASE c = q
        <5>1. IsFiniteSet(Responses(q)')
          BY <3>2, <3>3, FS_AddElement
        <5>2. dns_response_counts'[c] = Counted(e) /\ c[1] = p.src
          BY <2>2, <3>1, <4>1 DEF FloodsKept, q
        <5>3. c[1] \notin dns_poison_alerted' =>
                c[1] \notin dns_poison_alerted /\ Counted(e).count <= FloodLimit
          BY <2>4, <3>1, <3>4, <5>2
        <5> QED
          BY <3>3, <3>4, <3>5, <4>1, <5>1, <5>2, <5>3
      <4>2. CASE c # q
        <5>1. dns_response_counts'[c] = dns_response_counts[c] /\ PairOf(p) # c
          BY <3>1, <4>2 DEF FloodsKept, q
        <5>2. c[1] \notin dns_poison_alerted' => c[1] \notin dns_poison_alerted
          BY <3>1
        <5> QED
          BY <2>10, <5>1, <5>2
      <4> QED
        BY <4>1, <4>2
    <3>8. /\ dns_response_counts' \in [Pair -> [count : Nat, start : Nat]]
          /\ dns_poison_alerted' \subseteq Address
      BY <2>2, <3>1, <3>4 DEF FloodsKept
    <3>9. ASSUME NEW s \in dns_poison_alerted'
          PROVE  \E d \in Address : Burst(<<s, d>>, FloodLimit, FloodWindow)'
      <4>1. CASE s \in dns_poison_alerted
        BY <2>11, <4>1
      <4>2. CASE s = p.src /\ Counted(e).count > FloodLimit
        BY <2>2, <3>6, <4>2 DEF q
      <4> QED
        BY <3>1, <4>1, <4>2
    <3> QED
      BY <2>5, <3>7, <3>8, <3>9 DEF FloodsKept
  <2>13. CASE ~IsDnsResponse(p)
    <3>1. UNCHANGED <<dns_response_counts, dns_poison_alerted>>
      BY <2>3, <2>13 DEF DetectFlood, flood
    <3>2. \A c \in Pair :
            /\ IsFiniteSet(Responses(c)')
            /\ InWindow(Responses(c)', new, dns_response_counts[c])
            /\ c[1] \notin dns_poison_alerted =>
                 Calm(Responses(c)', new, dns_response_counts[c])
      BY <2>10, <2>13
    <3> QED
      BY <2>5, <2>11, <3>1, <3>2 DEF FloodsKept
  <2> QED
    BY <2>12, <2>13
<1>2. CASE UNCHANGED <<tracked, log>>
  <2>1. UNCHANGED <<dns_response_counts, dns_poison_alerted, log>>
    BY <1>2 DEF tracked, flood
  <2>2. Times' = Times /\ \A c : Responses(c)' = Responses(c)
    BY <2>1 DEF Times, Responses, IsDnsResponse, PairOf
  <2>3. \A c, n, w : Burst(c, n, w)' <=> Burst(c, n, w)
    BY <2>1 DEF Burst, Met, IsDnsResponse, PairOf
  <2> QED
    BY <2>1, <2>2, <2>3 DEF FloodsKept, InWindow, Calm, During
<1> QED
  BY <1>1, <1>2, QuietStep

\* display.rs:585-622: the counter of a pair starts anew with a response more than
\* FloodWindow after the last start.  A source it reports sent a burst of more than
\* FloodLimit; no burst of twice as many goes unreported, however it lies in the windows.
THEOREM FloodReportedHolds == Spec => []FloodReported
<1> DEFINE Inv == Logged /\ FloodsKept
<1>1. Init => Inv
  BY LoggedInit, FloodsInit
<1>2. Inv /\ [Next]_vars => Inv'
  BY LoggedStep, FloodsStep
<1>3. Inv => FloodReported
  <2> SUFFICES ASSUME Inv, NEW c \in Pair, Burst(c, 2 * FloodLimit - 1, FloodWindow)
               PROVE  c[1] \in dns_poison_alerted
    BY DEF FloodReported, FloodsKept
  <2>1. PICK i \in Responses(c) :
          Cardinality(During(Responses(c), Times, Times[i], Times[i] + FloodWindow))
            > 2 * FloodLimit - 1
    BY BurstIs DEF BurstsAre
  <2>2. PICK t \in Nat : t = Times[i]
    BY ResponsesAre
  <2>3. /\ Cardinality(During(Responses(c), Times, t, t + FloodWindow)) > 2 * FloodLimit - 1
        /\ Cardinality(During(Responses(c), Times, t, t + FloodWindow)) \in Nat
    <3>1. During(Responses(c), Times, t, t + FloodWindow) \subseteq Responses(c)
      BY DEF During
    <3> QED
      BY <2>1, <2>2, <3>1, FS_Subset, FS_CardinalityType DEF FloodsKept
  <2>4. c[1] \notin dns_poison_alerted =>
          Cardinality(During(Responses(c), Times, t, t + FloodWindow)) < 2 * FloodLimit
    BY DEF FloodsKept, Calm
  <2> QED
    BY <2>3, <2>4, FloodConstants
<1> QED
  BY <1>1, <1>2, <1>3, PTL DEF Spec

-----------------------------------------------------------------------------
(***************************************************************************)
(* The outbound rule.                                                      *)
(***************************************************************************)
IsNamed(a) == \E i \in DOMAIN log : /\ log[i].pkt.domain = "service"
                                    /\ a \in log[i].pkt.answers \cup {log[i].pkt.dst}

Leaked(k) == \E i \in DOMAIN log : KeyOf(log[i].pkt) = k /\ IsLeak(log[i].pkt)

\* Why a destination is reported, or need not be.
Settled(p) ==
  \/ p.dst \in external_alerted
  \/ Whitelisted(p)
  \/ \E a \in {p.src, p.dst} : a \in GeoService \/ IsNamed(a)
  \/ Leaked(KeyOf(p))

\* A name that is a service was given by a packet, a connection is one of a packet,
\* and every outbound packet is settled.
OutboundKept ==
  /\ DOMAIN dns_cache = Address
  /\ \A a \in Address : dns_cache[a] = "service" => IsNamed(a)
  /\ \A k \in connections : \E i \in DOMAIN log : KeyOf(log[i].pkt) = k
  /\ \A i \in DOMAIN log : Outbound(log[i].pkt) => Settled(log[i].pkt)

LEMMA OutboundInit == Init => OutboundKept
BY DEF Init, OutboundKept

\* What a packet named stays named, what leaked stays leaked.
LEMMA NamesGrow ==
  ASSUME Logged, NEW p \in traffic.packets, NEW trusted_org \in BOOLEAN,
         IngestPacket(p, trusted_org)
  PROVE  /\ \A a : IsNamed(a) => IsNamed(a)'
         /\ p.domain = "service" => \A a \in p.answers \cup {p.dst} : IsNamed(a)'
         /\ \A k : Leaked(k) => Leaked(k)'
         /\ IsLeak(p) => Leaked(KeyOf(p))'
<1> DEFINE n == Len(log) + 1
<1>1. /\ n \notin DOMAIN log /\ DOMAIN log' = DOMAIN log \cup {n}
      /\ log'[n].pkt = p /\ \A i \in DOMAIN log : log'[i] = log[i]
  BY LogGrows
<1> HIDE DEF n
<1>2. n \in DOMAIN log' /\ \A i \in DOMAIN log : i \in DOMAIN log' /\ log'[i].pkt = log[i].pkt
  BY <1>1
<1>3. \A a : IsNamed(a) => IsNamed(a)'
  BY <1>2 DEF IsNamed
<1>4. p.domain = "service" => \A a \in p.answers \cup {p.dst} : IsNamed(a)'
  BY <1>1, <1>2 DEF IsNamed
<1>5. \A k : Leaked(k) => Leaked(k)'
  BY <1>2 DEF Leaked, KeyOf, IsLeak, Outbound
<1>6. IsLeak(p) => Leaked(KeyOf(p))'
  BY <1>1, <1>2 DEF Leaked, KeyOf, IsLeak, Outbound
<1> QED
  BY <1>3, <1>4, <1>5, <1>6

\* A packet that was settled stays so, and settles those of its connection.
LEMMA SettledStays ==
  ASSUME NEW q, Settled(q),
         external_alerted \subseteq external_alerted', whitelist \subseteq whitelist',
         \A a : IsNamed(a) => IsNamed(a)', \A k : Leaked(k) => Leaked(k)'
  PROVE  /\ q.dst \in external_alerted' \/ q.src \in whitelist' \/ q.dst \in whitelist'
              \/ (\E a \in {q.src, q.dst} : a \in GeoService \/ IsNamed(a)')
              \/ Leaked(KeyOf(q))'
BY DEF Settled, Whitelisted

LEMMA OutboundStep == Logged /\ OutboundKept /\ [Next]_vars => OutboundKept'
<1> SUFFICES ASSUME Logged, OutboundKept, [Next]_vars PROVE OutboundKept'
  OBVIOUS
<1>1. ASSUME NEW p \in traffic.packets, NEW trusted_org \in BOOLEAN,
             IngestPacket(p, trusted_org)
      PROVE  OutboundKept'
  <2> DEFINE n == Len(log) + 1
  <2>1. /\ p \in Packet /\ n \notin DOMAIN log /\ DOMAIN log' = DOMAIN log \cup {n}
        /\ log'[n].pkt = p /\ \A i \in DOMAIN log : log'[i] = log[i]
    BY <1>1, LogGrows
  <2> HIDE DEF n
  <2>2. /\ \A a : IsNamed(a) => IsNamed(a)'
        /\ p.domain = "service" => \A a \in p.answers \cup {p.dst} : IsNamed(a)'
        /\ \A k : Leaked(k) => Leaked(k)'
        /\ IsLeak(p) => Leaked(KeyOf(p))'
    BY <1>1, NamesGrow
  <2>3. /\ LearnNames(p) /\ CountPacket(p) /\ whitelist' = whitelist
        /\ external_alerted' =
             IF (~Whitelisted(p) /\ ~IsService(p))
                  /\ (Outbound(p) /\ KeyOf(p) \notin connections /\ ~IsLeak(p))
               THEN external_alerted \cup {p.dst} ELSE external_alerted
    BY <1>1 DEF IngestPacket
  <2>4. p.src \in Address /\ p.dst \in Address
    BY <2>1, PacketFields
  <2>5. DOMAIN dns_cache' = Address
    BY <2>3 DEF LearnNames, OutboundKept
  <2>6. ASSUME NEW a \in Address, dns_cache'[a] = "service" PROVE IsNamed(a)'
    <3>1. dns_cache[a] = "service" => IsNamed(a)
      BY DEF OutboundKept
    <3>2. \/ dns_cache'[a] = dns_cache[a]
          \/ dns_cache'[a] = p.domain /\ a \in p.answers \cup {p.dst}
      BY <2>3 DEF LearnNames, OutboundKept
    <3> QED
      BY <2>2, <2>6, <3>1, <3>2
  <2>7. ASSUME NEW k \in connections' PROVE \E i \in DOMAIN log' : KeyOf(log'[i].pkt) = k
    <3>1. k \in connections \/ k = KeyOf(p)
      BY <2>3 DEF CountPacket
    <3> QED
      BY <2>1, <3>1 DEF OutboundKept
  <2>8. external_alerted \subseteq external_alerted'
    BY <2>3
  <2>9. ASSUME NEW q, Settled(q) PROVE Settled(q)'
    BY <2>2, <2>3, <2>8, <2>9, SettledStays DEF Settled, Whitelisted, KeyOf
  <2>10. ASSUME Outbound(p) PROVE Settled(p)'
    <3>1. CASE KeyOf(p) \in connections
      <4>1. PICK i \in DOMAIN log : KeyOf(log[i].pkt) = KeyOf(p)
        BY <3>1 DEF OutboundKept
      <4>2. log[i].pkt.src = p.src /\ log[i].pkt.dst = p.dst
        BY <4>1 DEF KeyOf
      <4>3. Settled(log[i].pkt)
        BY <2>10, <4>2 DEF OutboundKept, Outbound
      <4>4. Settled(p)
        BY <4>1, <4>2, <4>3 DEF Settled, Whitelisted
      <4> QED
        BY <2>9, <4>4
    <3>2. CASE Whitelisted(p)
      BY <2>3, <3>2 DEF Settled, Whitelisted
    <3>3. CASE IsService(p)
      BY <2>4, <2>6, <3>3 DEF Settled, IsService
    <3>4. CASE IsLeak(p)
      BY <2>2, <3>4 DEF Settled, KeyOf
    <3>5. CASE KeyOf(p) \notin connections /\ ~Whitelisted(p) /\ ~IsService(p) /\ ~IsLeak(p)
      BY <2>3, <2>10, <3>5 DEF Settled
    <3> QED
      BY <3>1, <3>2, <3>3, <3>4, <3>5
  <2>11. ASSUME NEW i \in DOMAIN log', Outbound(log'[i].pkt) PROVE Settled(log[i].pkt)'
    <3>1. CASE i = n
      BY <2>1, <2>10, <2>11, <3>1 DEF Settled, Whitelisted, KeyOf, Outbound
    <3>2. CASE i \in DOMAIN log
      <4>1. log'[i].pkt = log[i].pkt
        BY <2>1, <3>2
      <4>2. Settled(log[i].pkt)
        BY <2>11, <3>2, <4>1 DEF OutboundKept, Outbound
      <4>3. PICK q : q = log[i].pkt
        OBVIOUS
      <4>4. Settled(q)'
        BY <2>9, <4>2, <4>3
      <4> QED
        BY <4>1, <4>3, <4>4 DEF Settled, Whitelisted, KeyOf
    <3> QED
      BY <2>1, <3>1, <3>2
  <2> QED
    BY <2>5, <2>6, <2>7, <2>11 DEF OutboundKept, Outbound
<1>2. CASE UNCHANGED <<tracked, log>> /\ whitelist \subseteq whitelist'
  <2>1. /\ UNCHANGED <<dns_cache, connections, external_alerted, log>>
        /\ whitelist \subseteq whitelist'
    BY <1>2 DEF tracked
  <2>2. \A a : IsNamed(a)' <=> IsNamed(a)
    BY <2>1 DEF IsNamed
  <2>3. \A k : Leaked(k)' <=> Leaked(k)
    BY <2>1 DEF Leaked, KeyOf, IsLeak, Outbound
  <2>4. ASSUME NEW i \in DOMAIN log, Settled(log[i].pkt) PROVE Settled(log[i].pkt)'
    BY <2>1, <2>2, <2>3, <2>4 DEF Settled, Whitelisted, KeyOf
  <2> QED
    BY <2>1, <2>2, <2>4 DEF OutboundKept, Outbound, KeyOf
<1> QED
  BY <1>1, <1>2, QuietStep

\* display.rs:975-1003: a public destination is reported with the first packet of a
\* connection, so one that was hidden then must be hidden for good.
THEOREM OutboundReportedHolds == Spec => []OutboundReported
<1> DEFINE Inv == Logged /\ OutboundKept
<1>1. Init => Inv
  BY LoggedInit, OutboundInit
<1>2. Inv /\ [Next]_vars => Inv'
  BY LoggedStep, OutboundStep
<1>3. Inv => OutboundReported
  <2> SUFFICES ASSUME Inv, NEW i \in Met(Outbound)
               PROVE  LET p == log[i].pkt
                      IN \/ p.dst \in external_alerted
                         \/ Whitelisted(p)
                         \/ {p.src, p.dst} \cap (GeoService \cup Named) # {}
                         \/ Met(LAMBDA q : KeyOf(q) = KeyOf(p) /\ IsLeak(q)) # {}
    BY DEF OutboundReported
  <2>1. i \in DOMAIN log /\ Outbound(log[i].pkt)
    BY DEF Met
  <2>2. Settled(log[i].pkt)
    BY <2>1 DEF OutboundKept
  <2>3. \A a : IsNamed(a) => a \in Named
    BY DEF IsNamed, Named, Met
  <2>4. Leaked(KeyOf(log[i].pkt)) =>
          Met(LAMBDA q : KeyOf(q) = KeyOf(log[i].pkt) /\ IsLeak(q)) # {}
    BY DEF Leaked, Met
  <2> QED
    BY <2>2, <2>3, <2>4 DEF Settled
<1> QED
  BY <1>1, <1>2, <1>3, PTL DEF Spec

-----------------------------------------------------------------------------
(***************************************************************************)
(* What is reported once.                                                  *)
(***************************************************************************)
Once  == {"flood", "beacon", "scan", "volume", "outbound"}
Rule  == Once \cup {"flags", "sensitive port", "inbound", "leak", "local discovery", "discovery"}
Known == [at : Nat, rule : Rule, tier : Tier, about : Seq(Address)]

\* What the sets of the detectors and rules say was reported.
IsTold(rule, about) ==
  \/ rule = "flood" /\ about[1] \in dns_poison_alerted
  \/ rule = "beacon" /\ about \in beacon_alerted
  \/ rule = "scan" /\ about[1] \in port_scan_alerted
  \/ rule = "volume" /\ about \in high_volume_alerted
  \/ rule = "outbound" /\ about[1] \in external_alerted

\* What was told stays so, and what is in N is told by this step.
IsNews(N) ==
  \A rule, about : /\ IsTold(rule, about) => IsTold(rule, about)'
                   /\ <<rule, about>> \in N => ~IsTold(rule, about) /\ IsTold(rule, about)'

\* A sequence of alerts that has each rule of R at most once, and of the rules of
\* Once no other, each with an alert of N.
EachOnce(s, R, N) ==
  /\ s \in Seq(Known)
  /\ \A i \in DOMAIN s : s[i].rule \in Once => s[i].rule \in R /\ <<s[i].rule, s[i].about>> \in N
  /\ \A i, j \in DOMAIN s : s[i].rule \in Once /\ s[i].rule = s[j].rule => i = j

LEMMA EachEmpty ==
  ASSUME NEW R, NEW N PROVE EachOnce(<<>>, R, N)
BY DEF EachOnce

LEMMA EachSingle ==
  ASSUME NEW rule \in Rule, NEW tier \in Tier, NEW about \in Seq(Address), NEW N,
         now \in Nat, rule \in Once => <<rule, about>> \in N
  PROVE  EachOnce(<<Alert(rule, tier, about)>>, {rule}, N)
<1> DEFINE a == Alert(rule, tier, about)
<1>1. a \in Known /\ a.rule = rule /\ a.about = about
  BY DEF Alert, Known
<1> HIDE DEF a
<1>2. /\ <<a>> \in Seq(Known) /\ DOMAIN <<a>> = {1} /\ <<a>>[1] = a
  BY <1>1
<1>3. EachOnce(<<a>>, {rule}, N)
  BY <1>1, <1>2 DEF EachOnce
<1> QED
  BY <1>3 DEF a

LEMMA EachFree ==
  ASSUME NEW rule \in Rule \ Once, NEW tier \in Tier, NEW about \in Seq(Address), NEW N,
         now \in Nat
  PROVE  EachOnce(<<Alert(rule, tier, about)>>, {}, N)
<1> DEFINE a == Alert(rule, tier, about)
<1>1. a \in Known /\ a.rule = rule
  BY DEF Alert, Known
<1> HIDE DEF a
<1>2. /\ <<a>> \in Seq(Known) /\ DOMAIN <<a>> = {1} /\ <<a>>[1] = a
  BY <1>1
<1>3. EachOnce(<<a>>, {}, N)
  BY <1>1, <1>2 DEF EachOnce
<1> QED
  BY <1>3 DEF a

\* An element of a concatenation is one of its parts.
LEMMA ConcatParts ==
  ASSUME NEW s \in Seq(Known), NEW t \in Seq(Known)
  PROVE  \E all \in Seq(Known), m \in Int :
           /\ all = s \o t
           /\ DOMAIN all \subseteq Int
           /\ \A i \in DOMAIN all : \/ i \in DOMAIN s /\ all[i] = s[i]
                                    \/ i - m \in DOMAIN t /\ all[i] = t[i - m]
<1> DEFINE m == Len(s)
           all == s \o t
<1>1. /\ all \in Seq(Known) /\ Len(all) = m + Len(t)
      /\ \A i \in 1..Len(all) : all[i] = IF i <= m THEN s[i] ELSE t[i - m]
  BY ConcatProperties
<1>2. /\ DOMAIN s = 1..m /\ m \in Nat /\ DOMAIN t = 1..Len(t) /\ Len(t) \in Nat
      /\ DOMAIN all = 1..(m + Len(t))
  BY <1>1
<1> HIDE DEF all, m
<1>3. ASSUME NEW i \in DOMAIN all
      PROVE  \/ i \in DOMAIN s /\ all[i] = s[i]
             \/ i - m \in DOMAIN t /\ all[i] = t[i - m]
  BY <1>1, <1>2
<1>4. DOMAIN all \subseteq Int
  BY <1>2
<1>5. all = s \o t
  BY DEF all
<1>6. all \in Seq(Known) /\ m \in Int
  BY <1>1, <1>2
<1> USE <1>6
<1> WITNESS all \in Seq(Known), m \in Int
<1> QED
  BY <1>3, <1>4, <1>5

LEMMA EachConcat ==
  ASSUME NEW s, NEW t, NEW R, NEW Q, NEW N,
         EachOnce(s, R, N), EachOnce(t, Q, N), R \cap Q = {}
  PROVE  EachOnce(s \o t, R \cup Q, N)
<1>1. s \in Seq(Known) /\ t \in Seq(Known)
  BY DEF EachOnce
<1>4. PICK all \in Seq(Known), m \in Int :
        /\ all = s \o t
        /\ DOMAIN all \subseteq Int
        /\ \A i \in DOMAIN all : \/ i \in DOMAIN s /\ all[i] = s[i]
                                 \/ i - m \in DOMAIN t /\ all[i] = t[i - m]
  BY <1>1, ConcatParts
<1>5. \A i \in DOMAIN all : all[i].rule \in Once =>
        all[i].rule \in R \cup Q /\ <<all[i].rule, all[i].about>> \in N
  BY <1>4 DEF EachOnce
<1>6. ASSUME NEW i \in DOMAIN all, NEW j \in DOMAIN all,
             all[i].rule \in Once, all[i].rule = all[j].rule
      PROVE  i = j
  <2>1. i \in Int /\ j \in Int /\ m \in Int
    BY <1>4
  <2>2. CASE i \in DOMAIN s /\ all[i] = s[i] /\ j \in DOMAIN s /\ all[j] = s[j]
    BY <1>6, <2>2 DEF EachOnce
  <2>3. CASE /\ i - m \in DOMAIN t /\ all[i] = t[i - m]
             /\ j - m \in DOMAIN t /\ all[j] = t[j - m]
    <3>1. i - m = j - m
      BY <1>6, <2>3 DEF EachOnce
    <3> QED
      BY <2>1, <3>1
  <2>4. CASE i \in DOMAIN s /\ all[i] = s[i] /\ j - m \in DOMAIN t /\ all[j] = t[j - m]
    BY <1>6, <2>4 DEF EachOnce
  <2>5. CASE j \in DOMAIN s /\ all[j] = s[j] /\ i - m \in DOMAIN t /\ all[i] = t[i - m]
    BY <1>6, <2>5 DEF EachOnce
  <2> QED
    BY <1>4, <2>2, <2>3, <2>4, <2>5
<1> QED
  BY <1>4, <1>5, <1>6 DEF EachOnce

\* The alerts of a packet that are reported once are news: told after it, not before.
LEMMA NewsOfPacket ==
  ASSUME Logged, NEW p \in traffic.packets, NEW trusted_org \in BOOLEAN,
         IngestPacket(p, trusted_org)
  PROVE  \E as, N : raised' = raised \o as /\ EachOnce(as, Once, N) /\ IsNews(N)
<1>1. /\ p \in Packet /\ p.src \in Address /\ p.dst \in Address
      /\ PairOf(p) = <<p.src, p.dst>> /\ now \in Nat
  BY TrafficParts, PacketFields DEF PairOf, Logged
<1>2. <<p.src>> \in Seq(Address) /\ <<p.dst>> \in Seq(Address) /\ PairOf(p) \in Seq(Address)
  BY <1>1
<1>3. /\ \/ dns_poison_alerted' = dns_poison_alerted
         \/ dns_poison_alerted' = dns_poison_alerted \cup {p.src}
      /\ \/ beacon_alerted' = beacon_alerted
         \/ beacon_alerted' = beacon_alerted \cup {PairOf(p)}
      /\ \/ port_scan_alerted' = port_scan_alerted
         \/ port_scan_alerted' = port_scan_alerted \cup {p.src}
      /\ \/ high_volume_alerted' = high_volume_alerted
         \/ high_volume_alerted' = high_volume_alerted \cup {PairOf(p)}
      /\ \/ external_alerted' = external_alerted
         \/ external_alerted' = external_alerted \cup {p.dst}
  BY DEF IngestPacket, DetectFlood, DetectBeacon, DetectScan, flood, beacon, scan
<1>4. ASSUME NEW rule, NEW about, IsTold(rule, about) PROVE IsTold(rule, about)'
  BY <1>3, <1>4 DEF IsTold
<1>5. PICK N : N = (IF dns_poison_alerted' # dns_poison_alerted
                      THEN {<<"flood", <<p.src>>>>} ELSE {})
              \cup (IF beacon_alerted' # beacon_alerted
                      THEN {<<"beacon", PairOf(p)>>} ELSE {})
              \cup (IF port_scan_alerted' # port_scan_alerted
                      THEN {<<"scan", <<p.src>>>>} ELSE {})
              \cup (IF high_volume_alerted' # high_volume_alerted
                      THEN {<<"volume", PairOf(p)>>} ELSE {})
              \cup (IF external_alerted' # external_alerted
                      THEN {<<"outbound", <<p.dst>>>>} ELSE {})
  OBVIOUS
<1>6. ASSUME NEW rule, NEW about, <<rule, about>> \in N
       PROVE  ~IsTold(rule, about) /\ IsTold(rule, about)'
  <2>1. \/ rule = "flood" /\ about = <<p.src>> /\ dns_poison_alerted' # dns_poison_alerted
        \/ rule = "beacon" /\ about = PairOf(p) /\ beacon_alerted' # beacon_alerted
        \/ rule = "scan" /\ about = <<p.src>> /\ port_scan_alerted' # port_scan_alerted
        \/ rule = "volume" /\ about = PairOf(p) /\ high_volume_alerted' # high_volume_alerted
        \/ rule = "outbound" /\ about = <<p.dst>> /\ external_alerted' # external_alerted
    BY <1>5, <1>6
  <2> QED
    BY <1>3, <2>1, SMTT(30) DEF IsTold
<1>7. EachOnce(Detected(p), {"flood"} \cup {"beacon"} \cup {"scan"}, N)
  <2>1. EachOnce(When(dns_poison_alerted' # dns_poison_alerted,
                      Alert("flood", "suspicious", <<p.src>>)), {"flood"}, N)
    BY <1>1, <1>2, <1>5, EachSingle, EachEmpty DEF When, Rule, Once, Tier
  <2>2. EachOnce(When(beacon_alerted' # beacon_alerted,
                      Alert("beacon", "behavioral", PairOf(p))), {"beacon"}, N)
    BY <1>1, <1>2, <1>5, EachSingle, EachEmpty DEF When, Rule, Once, Tier
  <2>3. EachOnce(When(port_scan_alerted' # port_scan_alerted,
                      Alert("scan", "suspicious", <<p.src>>)), {"scan"}, N)
    BY <1>1, <1>2, <1>5, EachSingle, EachEmpty DEF When, Rule, Once, Tier
  <2> QED
    BY <2>1, <2>2, <2>3, EachConcat DEF Detected
<1>8. EachOnce(BadFlags(p), {}, N)
  <2>1. \A c \in BOOLEAN :
          EachOnce(When(p.proto = "tcp" /\ c, Alert("flags", "suspicious", <<p.src>>)), {}, N)
    BY <1>1, <1>2, EachFree, EachEmpty DEF When, Rule, Once, Tier
  <2>2. \A s, t : EachOnce(s, {}, N) /\ EachOnce(t, {}, N) => EachOnce(s \o t, {}, N)
    BY EachConcat
  <2> QED
    BY <2>1, <2>2 DEF BadFlags
<1>9. EachOnce(Ruled(p), {"volume"}, N)
  <2>1. EachOnce(When(p.dport \in SensitivePort /\ Outbound(p),
                      Alert("sensitive port", "suspicious", <<p.dst>>)), {}, N)
    BY <1>1, <1>2, EachFree, EachEmpty DEF When, Rule, Once, Tier
  <2>2. EachOnce(When(p.dport < 1024 /\ p.dst \in Private /\ p.src \notin Private,
                      Alert("inbound", "suspicious", <<p.src>>)), {}, N)
    BY <1>1, <1>2, EachFree, EachEmpty, ZenonT(30) DEF When, Rule, Once, Tier
  <2>3. EachOnce(When(high_volume_alerted' # high_volume_alerted,
                      Alert("volume", "behavioral", PairOf(p))), {"volume"}, N)
    BY <1>1, <1>2, <1>5, EachSingle, EachEmpty DEF When, Rule, Once, Tier
  <2>4. \A s, t : EachOnce(s, {}, N) /\ EachOnce(t, {}, N) => EachOnce(s \o t, {}, N)
    BY EachConcat
  <2>5. \A s, t : EachOnce(s, {}, N) /\ EachOnce(t, {"volume"}, N)
                    => EachOnce(s \o t, {"volume"}, N)
    BY EachConcat
  <2> QED
    BY <1>8, <2>1, <2>2, <2>3, <2>4, <2>5, ZenonT(30) DEF Ruled
<1>10. EachOnce(Reported(p, trusted_org), {"outbound"}, N)
  <2>1. EachOnce(When(IsLeak(p), Alert("leak", "suspicious", PairOf(p))), {}, N)
    BY <1>1, <1>2, EachFree, EachEmpty DEF When, Rule, Once, Tier
  <2>2. \A tier \in Tier :
          EachOnce(When(external_alerted' # external_alerted,
                        Alert("outbound", tier, <<p.dst>>)), {"outbound"}, N)
    BY <1>1, <1>2, <1>5, EachSingle, EachEmpty DEF When, Rule, Once
  <2>3. EachOnce(When({p.sport, p.dport} \cap DiscoveryPort # {}
                        /\ KeyOf(p) \notin connections /\ ~IsLeak(p),
                      Alert("local discovery", "noise", PairOf(p))), {}, N)
    BY <1>1, <1>2, EachFree, EachEmpty DEF When, Rule, Once, Tier
  <2>4. (IF trusted_org THEN "noise" ELSE "external") \in Tier
    BY DEF Tier
  <2>5. \A s, t : EachOnce(s, {}, N) /\ EachOnce(t, {"outbound"}, N)
                    => EachOnce(s \o t, {"outbound"}, N)
    BY EachConcat
  <2>6. \A s, t : EachOnce(s, {"outbound"}, N) /\ EachOnce(t, {}, N)
                    => EachOnce(s \o t, {"outbound"}, N)
    BY EachConcat
  <2> QED
    BY <2>1, <2>2, <2>3, <2>4, <2>5, <2>6 DEF Reported
<1>11. PICK as : /\ raised' = raised \o as
                 /\ \/ as = Detected(p) \o Ruled(p) \o Reported(p, trusted_org)
                    \/ as = Detected(p) \o <<>> \o Reported(p, trusted_org)
                    \/ as = Detected(p) \o Ruled(p) \o <<>>
                    \/ as = Detected(p) \o <<>> \o <<>>
  BY DEF IngestPacket
<1>12. EachOnce(<<>>, {"volume"}, N) /\ EachOnce(<<>>, {"outbound"}, N)
  BY EachEmpty
<1>13. ASSUME NEW s, NEW t, EachOnce(s, {"volume"}, N), EachOnce(t, {"outbound"}, N)
       PROVE  EachOnce(Detected(p) \o s \o t, Once, N)
  <2>1. EachOnce(Detected(p) \o s,
                 ({"flood"} \cup {"beacon"} \cup {"scan"}) \cup {"volume"}, N)
    BY <1>7, <1>13, EachConcat
  <2>2. EachOnce(Detected(p) \o s \o t,
                 (({"flood"} \cup {"beacon"} \cup {"scan"}) \cup {"volume"}) \cup {"outbound"}, N)
    BY <1>13, <2>1, EachConcat
  <2>3. ({"flood"} \cup {"beacon"} \cup {"scan"}) \cup {"volume"} \cup {"outbound"} = Once
    BY DEF Once
  <2> QED
    BY <2>2, <2>3
<1>14. EachOnce(as, Once, N)
  BY <1>9, <1>10, <1>11, <1>12, <1>13
<1> QED
  BY <1>4, <1>6, <1>11, <1>14 DEF IsNews

-----------------------------------------------------------------------------
\* What was raised of these rules is told, and raised once.
RaisedOnce ==
  /\ raised \in Seq(Known)
  /\ \A i \in DOMAIN raised :
       raised[i].rule \in Once => IsTold(raised[i].rule, raised[i].about)
  /\ AlertedOnce

LEMMA RaisedOnceInit == Init => RaisedOnce
BY DEF Init, RaisedOnce, AlertedOnce

\* A sequence of alerts that are news keeps it.
LEMMA RaisedOnceGrows ==
  ASSUME RaisedOnce, NEW as, NEW N, raised' = raised \o as, EachOnce(as, Once, N),
         IsNews(N)
  PROVE  RaisedOnce'
<1>1. raised \in Seq(Known) /\ as \in Seq(Known)
  BY DEF RaisedOnce, EachOnce
<1>2. PICK old : old = raised
  OBVIOUS
<1>3. old \in Seq(Known)
  BY <1>1, <1>2
<1>4. PICK all \in Seq(Known), m \in Int :
        /\ all = old \o as
        /\ DOMAIN all \subseteq Int
        /\ \A i \in DOMAIN all : \/ i \in DOMAIN old /\ all[i] = old[i]
                                 \/ i - m \in DOMAIN as /\ all[i] = as[i - m]
  BY <1>1, <1>3, ConcatParts
<1>5. ASSUME NEW i \in DOMAIN all, all[i].rule \in Once
      PROVE  \/ /\ i \in DOMAIN old /\ all[i] = old[i]
                /\ IsTold(all[i].rule, all[i].about)
             \/ /\ i - m \in DOMAIN as /\ all[i] = as[i - m]
                /\ <<all[i].rule, all[i].about>> \in N
  <2>1. CASE i \in DOMAIN old /\ all[i] = old[i]
    BY <1>2, <1>5, <2>1 DEF RaisedOnce
  <2>2. CASE i - m \in DOMAIN as /\ all[i] = as[i - m]
    BY <1>5, <2>2 DEF EachOnce
  <2> QED
    BY <1>4, <2>1, <2>2
<1>6. \A i \in DOMAIN all : all[i].rule \in Once => IsTold(all[i].rule, all[i].about)'
  BY <1>5 DEF IsNews
<1>7. ASSUME NEW i \in DOMAIN all, NEW j \in DOMAIN all, all[i].rule \in Once,
             all[i].rule = all[j].rule, all[i].about = all[j].about
      PROVE  i = j
  <2>1. i \in Int /\ j \in Int /\ m \in Int
    BY <1>4
  <2>2. CASE i \in DOMAIN old /\ all[i] = old[i] /\ j \in DOMAIN old /\ all[j] = old[j]
    BY <1>2, <1>7, <2>2 DEF RaisedOnce, AlertedOnce, Once
  <2>3. CASE /\ i - m \in DOMAIN as /\ all[i] = as[i - m]
             /\ j - m \in DOMAIN as /\ all[j] = as[j - m]
    <3>1. i - m = j - m
      BY <1>7, <2>3 DEF EachOnce
    <3> QED
      BY <2>1, <3>1
  <2> QED
    BY <1>5, <1>7, <2>2, <2>3 DEF IsNews
<1>8. raised' = all
  BY <1>2, <1>4
<1>9. AlertedOnce'
  BY <1>7, <1>8 DEF AlertedOnce, Once
<1> QED
  BY <1>4, <1>6, <1>8, <1>9 DEF RaisedOnce

LEMMA RaisedOnceStep == Logged /\ RaisedOnce /\ [Next]_vars => RaisedOnce'
<1> SUFFICES ASSUME Logged, RaisedOnce, [Next]_vars PROVE RaisedOnce'
  OBVIOUS
<1>1. ASSUME NEW p \in traffic.packets, NEW trusted_org \in BOOLEAN,
             IngestPacket(p, trusted_org)
      PROVE  RaisedOnce'
  BY <1>1, NewsOfPacket, RaisedOnceGrows
<1>2. ASSUME NEW t \in {"suspicious", "noise"}, NEW ip \in Address, DiscoveryAlert(t, ip)
      PROVE  RaisedOnce'
  <2>1. /\ raised' = Append(raised, Alert("discovery", t, <<ip>>)) /\ UNCHANGED tracked
    BY <1>2 DEF DiscoveryAlert
  <2>2. Alert("discovery", t, <<ip>>) \in Known
    BY DEF Alert, Known, Rule, Tier, Logged
  <2>3. raised' = raised \o <<Alert("discovery", t, <<ip>>)>>
    BY <2>1, <2>2, AppendIsConcat DEF RaisedOnce
  <2>4. EachOnce(<<Alert("discovery", t, <<ip>>)>>, {}, {})
    <3>1. "discovery" \in Rule \ Once /\ t \in Tier /\ <<ip>> \in Seq(Address) /\ now \in Nat
      BY DEF Rule, Once, Tier, Logged
    <3> QED
      BY <3>1, EachFree
  <2>5. EachOnce(<<Alert("discovery", t, <<ip>>)>>, Once, {})
    BY <2>4 DEF EachOnce
  <2>6. IsNews({})
    BY <2>1 DEF IsNews, IsTold, tracked, volume, flood, beacon, scan
  <2> QED
    BY <2>3, <2>5, <2>6, RaisedOnceGrows
<1>3. CASE UNCHANGED <<tracked, raised>>
  BY <1>3 DEF RaisedOnce, AlertedOnce, IsTold, tracked, volume, flood, beacon, scan
<1>4. ASSUME NEW ip \in traffic.typed, WhitelistIp(ip) PROVE RaisedOnce'
  BY <1>3, <1>4 DEF WhitelistIp
<1>5. ASSUME PressClear PROVE RaisedOnce'
  BY <1>3, <1>5 DEF PressClear
<1>6. ASSUME NEW d \in traffic.gaps, Wait(d) PROVE RaisedOnce'
  BY <1>3, <1>6 DEF Wait
<1>7. CASE UNCHANGED vars
  BY <1>3, <1>7 DEF vars, tracked
<1> QED
  BY <1>1, <1>2, <1>4, <1>5, <1>6, <1>7 DEF Next

\* display.rs:609-737, 842-857 and 992-1003: an alert of a detector, of the volume rule or of
\* the outbound rule is pushed only if its subject enters a set that nothing
\* leaves, and a packet pushes at most one of each rule.
THEOREM AlertedOnceHolds == Spec => []AlertedOnce
<1> DEFINE Inv == Logged /\ RaisedOnce
<1>1. Init => Inv
  BY LoggedInit, RaisedOnceInit
<1>2. Inv /\ [Next]_vars => Inv'
  BY LoggedStep, RaisedOnceStep
<1>3. Inv => AlertedOnce
  BY DEF RaisedOnce
<1> QED
  BY <1>1, <1>2, <1>3, PTL DEF Spec

-----------------------------------------------------------------------------
(***************************************************************************)
(* The whitelist.                                                          *)
(***************************************************************************)
Unasked == {"flood", "beacon", "scan", "discovery"}

\* An alert of the rules names no address of W.
Spares(s, W) ==
  /\ s \in Seq(Known)
  /\ \A i \in DOMAIN s : \/ s[i].rule \in Unasked
                         \/ \A j \in DOMAIN s[i].about : s[i].about[j] \notin W

WhitelistKept ==
  /\ alerts = [t \in Tier |-> alerts[t]]
  /\ \A t \in Tier : Spares(alerts[t], whitelist)

LEMMA SparesEmpty ==
  ASSUME NEW W PROVE Spares(<<>>, W)
BY DEF Spares

LEMMA SparesOne ==
  ASSUME NEW rule \in Rule, NEW tier \in Tier, NEW about \in Seq(Address), NEW W,
         now \in Nat, rule \in Unasked \/ \A j \in DOMAIN about : about[j] \notin W
  PROVE  Spares(<<Alert(rule, tier, about)>>, W)
<1> DEFINE a == Alert(rule, tier, about)
<1>1. a \in Known /\ a.rule = rule /\ a.about = about
  BY DEF Alert, Known
<1> HIDE DEF a
<1>2. /\ <<a>> \in Seq(Known) /\ DOMAIN <<a>> = {1} /\ <<a>>[1] = a
  BY <1>1
<1>3. Spares(<<a>>, W)
  BY <1>1, <1>2 DEF Spares
<1> QED
  BY <1>3 DEF a

LEMMA SparesConcat ==
  ASSUME NEW s, NEW t, NEW W, Spares(s, W), Spares(t, W)
  PROVE  Spares(s \o t, W)
<1>1. s \in Seq(Known) /\ t \in Seq(Known)
  BY DEF Spares
<1>2. PICK all \in Seq(Known), m \in Int :
        /\ all = s \o t
        /\ DOMAIN all \subseteq Int
        /\ \A i \in DOMAIN all : \/ i \in DOMAIN s /\ all[i] = s[i]
                                 \/ i - m \in DOMAIN t /\ all[i] = t[i - m]
  BY <1>1, ConcatParts
<1> QED
  BY <1>2 DEF Spares

\* What is left of a list that spares W does.
LEMMA SparesPart ==
  ASSUME NEW s, NEW W, Spares(s, W), NEW n \in Nat, NEW r, r = [k \in 1..n |-> r[k]],
         \A k \in 1..n : \E i \in DOMAIN s : r[k] = s[i]
  PROVE  Spares(r, W)
<1>1. DOMAIN s = 1..Len(s) /\ s \in Seq(Known)
  BY DEF Spares
<1>2. \A i \in DOMAIN s : s[i] \in Known
  BY <1>1, ElementOfSeq
<1>3. DOMAIN r = 1..n /\ \A k \in DOMAIN r : r[k] \in Known
  BY <1>2
<1>4. r \in Seq(Known)
  BY <1>3, IsASeq
<1> QED
  BY <1>3, <1>4 DEF Spares

\* The members up to one, which number the set from 1.
UpTo(S, x) == {y \in S : y <= x}

LEMMA UpToGrows ==
  ASSUME NEW S, S \subseteq Int, IsFiniteSet(S), NEW x \in S, NEW z \in S
  PROVE  /\ Cardinality(UpTo(S, x)) \in 1..Cardinality(S)
         /\ Cardinality(UpTo(S, x)) = Cardinality(UpTo(S, z)) => x = z
<1>1. \A v \in S : v \in UpTo(S, v) /\ UpTo(S, v) \subseteq S
  BY DEF UpTo
<1>2. ASSUME NEW v \in S
      PROVE  Cardinality(UpTo(S, v)) \in 1..Cardinality(S) /\ IsFiniteSet(UpTo(S, v))
  <2>1. IsFiniteSet(UpTo(S, v)) /\ Cardinality(UpTo(S, v)) <= Cardinality(S)
    BY <1>1, FS_Subset
  <2>2. /\ Cardinality(UpTo(S, v)) # 0 /\ Cardinality(UpTo(S, v)) \in Nat
        /\ Cardinality(S) \in Nat
    BY <1>1, <2>1, FS_EmptySet, FS_CardinalityType
  <2> QED
    BY <2>1, <2>2
<1>3. ASSUME NEW v \in S, NEW w \in S, v < w
      PROVE  Cardinality(UpTo(S, v)) # Cardinality(UpTo(S, w))
  <2>1. UpTo(S, v) \subseteq UpTo(S, w) /\ w \in UpTo(S, w) /\ w \notin UpTo(S, v)
    <3>1. v \in Int /\ w \in Int /\ ~(w <= v) /\ w <= w
      BY <1>3
    <3>2. \A y \in S : y \in Int /\ (y <= v => y <= w)
      BY <1>3, <3>1
    <3> QED
      BY <3>1, <3>2 DEF UpTo
  <2>2. UpTo(S, v) # UpTo(S, w) /\ IsFiniteSet(UpTo(S, w))
    BY <1>2, <2>1
  <2> QED
    BY <2>1, <2>2, FS_Subset
<1>4. x < z \/ z < x \/ x = z
  <2>1. x \in Int /\ z \in Int
    OBVIOUS
  <2> QED
    BY <2>1
<1> QED
  BY <1>2, <1>3, <1>4

\* The k-th smallest of a set is one of it: the numbers of those up to each are
\* different, so that they are all the numbers up to that of the set.
LEMMA NthIn ==
  ASSUME NEW S, S \subseteq Int, IsFiniteSet(S), NEW k \in 1..Cardinality(S)
  PROVE  Nth(S, k) \in S /\ Cardinality(UpTo(S, Nth(S, k))) = k
<1> DEFINE n == Cardinality(S)
           f == [x \in S |-> Cardinality(UpTo(S, x))]
<1>1. f \in [S -> 1..n]
  BY UpToGrows
<1>2. \A x, y \in S : f[x] = f[y] => x = y
  BY UpToGrows
<1>3. f \in Injection(S, 1..n)
  BY <1>1, <1>2 DEF Injection, IsInjective
<1>4. IsFiniteSet(1..n) /\ Cardinality(1..n) = n
  BY FS_CardinalityType, FS_Interval
<1>5. f \in Surjection(S, 1..n)
  BY <1>3, <1>4, FS_Injection
<1>6. \E x \in S : f[x] = k
  BY <1>5 DEF Surjection
<1>7. \E x \in S : Cardinality(UpTo(S, x)) = k
  BY <1>6
<1> QED
  BY <1>7 DEF Nth, UpTo

LEMMA NthOf ==
  ASSUME NEW S, S \subseteq Int, IsFiniteSet(S), NEW x \in S
  PROVE  Nth(S, Cardinality(UpTo(S, x))) = x
<1>1. PICK k : k = Cardinality(UpTo(S, x))
  OBVIOUS
<1>2. k \in 1..Cardinality(S)
  BY <1>1, UpToGrows
<1>3. Nth(S, k) \in S /\ Cardinality(UpTo(S, Nth(S, k))) = k
  BY <1>2, NthIn
<1> QED
  BY <1>1, <1>3, UpToGrows

\* One more at the end, and the others are where they were.
LEMMA NthGrows ==
  ASSUME NEW S, S \subseteq Int, IsFiniteSet(S), NEW m \in Int, \A x \in S : x < m
  PROVE  /\ IsFiniteSet(S \cup {m}) /\ Cardinality(S \cup {m}) = Cardinality(S) + 1
         /\ Cardinality(S) \in Nat
         /\ \A k \in 1..Cardinality(S) : Nth(S \cup {m}, k) = Nth(S, k)
         /\ Nth(S \cup {m}, Cardinality(S) + 1) = m
<1> DEFINE T == S \cup {m}
<1>1. m \notin S /\ T \subseteq Int
  OBVIOUS
<1>2. IsFiniteSet(T) /\ Cardinality(T) = Cardinality(S) + 1 /\ Cardinality(S) \in Nat
  BY <1>1, FS_AddElement, FS_CardinalityType
<1>3. ASSUME NEW k \in 1..Cardinality(S) PROVE Nth(T, k) = Nth(S, k)
  <2>1. PICK x \in S : x = Nth(S, k) /\ Cardinality(UpTo(S, x)) = k
    BY NthIn
  <2>2. x \in Int /\ x < m /\ ~(m <= x)
    <3>1. x \in Int /\ x < m
      OBVIOUS
    <3> QED
      BY <3>1
  <2>3. UpTo(T, x) = UpTo(S, x)
    BY <2>2 DEF UpTo
  <2>4. Cardinality(UpTo(T, x)) = k /\ x \in T
    BY <2>1, <2>3
  <2>5. Nth(T, Cardinality(UpTo(T, x))) = x
    <3> HIDE DEF T
    <3> QED
      BY <1>1, <1>2, <2>4, NthOf
  <2> QED
    BY <2>1, <2>4, <2>5
<1>4. Nth(T, Cardinality(S) + 1) = m
  <2>1. \A y \in T : y <= m
    <3>1. \A y \in S : y \in Int /\ y < m
      OBVIOUS
    <3> QED
      BY <3>1
  <2>2. UpTo(T, m) = T /\ m \in T
    BY <2>1 DEF UpTo
  <2>3. Nth(T, Cardinality(UpTo(T, m))) = m
    <3> HIDE DEF T
    <3> QED
      BY <1>1, <1>2, <2>2, NthOf
  <2> QED
    BY <1>2, <2>2, <2>3
<1> QED
  BY <1>2, <1>3, <1>4

LEMMA SelectedIn ==
  ASSUME NEW s \in Seq(Known), NEW S \in SUBSET DOMAIN s
  PROVE  /\ IsFiniteSet(S)
         /\ Selected(s, S) = [k \in 1..Cardinality(S) |-> Selected(s, S)[k]]
         /\ \A k \in 1..Cardinality(S) : \E i \in S : Selected(s, S)[k] = s[i]
<1>1. DOMAIN s = 1..Len(s) /\ Len(s) \in Nat
  OBVIOUS
<1>2. IsFiniteSet(S) /\ S \subseteq Int
  <2>1. IsFiniteSet(1..Len(s)) /\ S \in SUBSET (1..Len(s))
    BY <1>1, FS_Interval
  <2> QED
    BY <2>1, FS_Subset
<1>3. ASSUME NEW k \in 1..Cardinality(S) PROVE Nth(S, k) \in S
  BY <1>2, NthIn
<1>4. Selected(s, S) = [k \in 1..Cardinality(S) |-> s[Nth(S, k)]]
  BY DEF Selected
<1>5. ASSUME NEW k \in 1..Cardinality(S) PROVE Selected(s, S)[k] = s[Nth(S, k)]
  BY <1>4
<1> QED
  BY <1>2, <1>3, <1>4, <1>5

\* So is the end of a list.
LEMMA SparesTrimmed ==
  ASSUME NEW s, NEW W, Spares(s, W)
  PROVE  Spares(Trimmed(s), W)
<1>1. /\ s \in Seq(Known) /\ DOMAIN s = 1..Len(s) /\ Len(s) \in Nat
      /\ AlertCap \in Nat
  BY AlertAssumption DEF Spares
<1>2. CASE Len(s) > AlertCap
  <2> DEFINE r == Trimmed(s)
             from == Len(s) - AlertCap
  <2>1. r = SubSeq(s, from + 1, Len(s)) /\ from \in Nat
    BY <1>1, <1>2 DEF Trimmed
  <2>2. r = [k \in 1..AlertCap |-> s[from + k]]
    BY <1>1, <2>1
  <2>3. \A k \in 1..AlertCap : from + k \in DOMAIN s
    BY <1>1, <1>2
  <2>4. r = [k \in 1..AlertCap |-> r[k]] /\ \A k \in 1..AlertCap : r[k] = s[from + k]
    BY <2>2
  <2> HIDE DEF r, from
  <2>5. Spares(r, W)
    BY <1>1, <2>3, <2>4, SparesPart
  <2> QED
    BY <2>5 DEF r
<1>3. CASE ~(Len(s) > AlertCap)
  BY <1>3 DEF Trimmed
<1> QED
  BY <1>2, <1>3

\* push_alert of alerts that spare W.
LEMMA SparesPushed ==
  ASSUME NEW as, NEW W, Spares(as, W), PushAlerts(as), \A t \in Tier : Spares(alerts[t], W)
  PROVE  \A t \in Tier : Spares(alerts[t], W)'
<1> SUFFICES ASSUME NEW t \in Tier PROVE Spares(alerts'[t], W)
  OBVIOUS
<1> DEFINE S == {i \in DOMAIN as : as[i].tier = t}
<1>1. as \in Seq(Known) /\ S \in SUBSET DOMAIN as
  BY DEF Spares
<1>2. OfTier(as, t) = Selected(as, S)
  BY DEF OfTier
<1>3. Cardinality(S) \in Nat
  BY <1>1, SelectedIn, FS_CardinalityType
<1>4. /\ Selected(as, S) = [k \in 1..Cardinality(S) |-> Selected(as, S)[k]]
      /\ \A k \in 1..Cardinality(S) : \E i \in DOMAIN as : Selected(as, S)[k] = as[i]
  BY <1>1, SelectedIn, ZenonT(30)
<1> HIDE DEF S
<1>5. Spares(Selected(as, S), W)
  BY <1>3, <1>4, SparesPart
<1>6. Spares(alerts[t] \o OfTier(as, t), W)
  BY <1>2, <1>5, SparesConcat
<1>7. alerts'[t] = Trimmed(alerts[t] \o OfTier(as, t))
  BY DEF PushAlerts
<1> QED
  BY <1>6, <1>7, SparesTrimmed

\* The alerts of a packet: those of the detectors, and of the rules only if the
\* packet is not whitelisted.
LEMMA SparesPacket ==
  ASSUME Logged, NEW p \in traffic.packets, NEW trusted_org \in BOOLEAN,
         IngestPacket(p, trusted_org)
  PROVE  \E as : PushAlerts(as) /\ Spares(as, whitelist)
<1>1. /\ p \in Packet /\ p.src \in Address /\ p.dst \in Address
      /\ PairOf(p) = <<p.src, p.dst>> /\ now \in Nat
  BY TrafficParts, PacketFields DEF PairOf, Logged
<1>2. /\ <<p.src>> \in Seq(Address) /\ <<p.dst>> \in Seq(Address)
      /\ PairOf(p) \in Seq(Address)
  BY <1>1
<1> DEFINE W == whitelist
<1>3. \A s, t : Spares(s, W) /\ Spares(t, W) => Spares(s \o t, W)
  BY SparesConcat
<1>4. Spares(<<>>, W)
  BY SparesEmpty
<1>5. Spares(Detected(p), W)
  <2>1. ASSUME NEW c \in BOOLEAN, NEW rule \in {"flood", "beacon", "scan"},
               NEW tier \in Tier, NEW about \in Seq(Address)
        PROVE  Spares(When(c, Alert(rule, tier, about)), W)
    BY <1>1, <1>4, SparesOne DEF When, Unasked, Rule, Once
  <2> QED
    BY <1>2, <1>3, <2>1 DEF Detected, Tier
<1>6. ASSUME ~Whitelisted(p), NEW c \in BOOLEAN, NEW rule \in Rule, NEW tier \in Tier,
             NEW about \in {<<p.src>>, <<p.dst>>, PairOf(p)}
      PROVE  Spares(When(c, Alert(rule, tier, about)), W)
  <2>1. \A j \in DOMAIN about : about[j] \notin W
    BY <1>1, <1>6 DEF Whitelisted
  <2> QED
    BY <1>1, <1>2, <1>4, <2>1, SparesOne DEF When
<1>7. ASSUME ~Whitelisted(p) PROVE Spares(Ruled(p), W)
  <2>1. \A c \in BOOLEAN : Spares(When(p.proto = "tcp" /\ c,
                                     Alert("flags", "suspicious", <<p.src>>)), W)
    BY <1>6, <1>7 DEF Rule, Once, Tier
  <2>2. Spares(BadFlags(p), W)
    BY <1>3, <2>1 DEF BadFlags
  <2>3. Spares(When(p.dport \in SensitivePort /\ Outbound(p),
                   Alert("sensitive port", "suspicious", <<p.dst>>)), W)
    BY <1>6, <1>7 DEF Rule, Once, Tier
  <2>4. Spares(When(p.dport < 1024 /\ p.dst \in Private /\ p.src \notin Private,
                   Alert("inbound", "suspicious", <<p.src>>)), W)
    BY <1>6, <1>7 DEF Rule, Once, Tier
  <2>5. Spares(When(high_volume_alerted' # high_volume_alerted,
                   Alert("volume", "behavioral", PairOf(p))), W)
    BY <1>6, <1>7 DEF Rule, Once, Tier
  <2>6. PICK a : a = When(p.dport \in SensitivePort /\ Outbound(p),
                         Alert("sensitive port", "suspicious", <<p.dst>>))
    OBVIOUS
  <2>7. PICK b : b = When(p.dport < 1024 /\ p.dst \in Private /\ p.src \notin Private,
                         Alert("inbound", "suspicious", <<p.src>>))
    OBVIOUS
  <2>8. PICK c : c = When(high_volume_alerted' # high_volume_alerted,
                         Alert("volume", "behavioral", PairOf(p)))
    OBVIOUS
  <2>9. Ruled(p) = BadFlags(p) \o a \o b \o c
    BY <2>6, <2>7, <2>8 DEF Ruled
  <2>10. Spares(a, W) /\ Spares(b, W) /\ Spares(c, W)
    BY <2>3, <2>4, <2>5, <2>6, <2>7, <2>8
  <2> QED
    BY <1>3, <2>2, <2>9, <2>10
<1>8. ASSUME ~Whitelisted(p) PROVE Spares(Reported(p, trusted_org), W)
  <2>1. Spares(When(IsLeak(p), Alert("leak", "suspicious", PairOf(p))), W)
    BY <1>6, <1>8 DEF Rule, Once, Tier, IsLeak
  <2>2. \A tier \in {"noise", "external"} :
          Spares(When(external_alerted' # external_alerted, Alert("outbound", tier, <<p.dst>>)), W)
    BY <1>6, <1>8 DEF Rule, Once, Tier
  <2>3. Spares(When({p.sport, p.dport} \cap DiscoveryPort # {}
                     /\ KeyOf(p) \notin connections /\ ~IsLeak(p),
                   Alert("local discovery", "noise", PairOf(p))), W)
    BY <1>6, <1>8 DEF Rule, Once, Tier
  <2> QED
    BY <1>3, <2>1, <2>2, <2>3 DEF Reported
<1>9. PICK s, t : /\ PushAlerts(Detected(p) \o s \o t)
                  /\ s = <<>> \/ (s = Ruled(p) /\ ~Whitelisted(p))
                  /\ t = <<>> \/ (t = Reported(p, trusted_org) /\ ~Whitelisted(p))
  <2> DEFINE r == IF ~Whitelisted(p) THEN Ruled(p) ELSE <<>>
             u == IF ~Whitelisted(p) /\ ~IsService(p) THEN Reported(p, trusted_org) ELSE <<>>
  <2>1. PushAlerts(Detected(p) \o r \o u)
    BY DEF IngestPacket
  <2>2. r = <<>> \/ (r = Ruled(p) /\ ~Whitelisted(p))
    OBVIOUS
  <2>3. u = <<>> \/ (u = Reported(p, trusted_org) /\ ~Whitelisted(p))
    OBVIOUS
  <2> HIDE DEF r, u
  <2> QED
    BY <2>1, <2>2, <2>3
<1>10. Spares(Detected(p) \o s \o t, W)
  BY <1>3, <1>4, <1>5, <1>7, <1>8, <1>9
<1> QED
  BY <1>9, <1>10

LEMMA WhitelistInit == Init => WhitelistKept
<1> SUFFICES ASSUME Init PROVE WhitelistKept
  OBVIOUS
<1>1. alerts = [t \in Tier |-> <<>>]
  BY DEF Init, PanelInit
<1> QED
  BY <1>1, SparesEmpty DEF WhitelistKept

LEMMA WhitelistStep == Logged /\ WhitelistKept /\ [Next]_vars => WhitelistKept'
<1> SUFFICES ASSUME Logged, WhitelistKept, [Next]_vars PROVE WhitelistKept'
  OBVIOUS
<1>1. ASSUME NEW as, PushAlerts(as), Spares(as, whitelist), whitelist' = whitelist
      PROVE  WhitelistKept'
  <2>1. \A t \in Tier : Spares(alerts[t], whitelist)'
    BY <1>1, SparesPushed DEF WhitelistKept
  <2>2. alerts' = [t \in Tier |-> alerts'[t]]
    BY <1>1 DEF PushAlerts
  <2> QED
    BY <2>1, <2>2 DEF WhitelistKept
<1>2. ASSUME NEW p \in traffic.packets, NEW trusted_org \in BOOLEAN,
             IngestPacket(p, trusted_org)
      PROVE  WhitelistKept'
  <2>1. whitelist' = whitelist
    BY <1>2 DEF IngestPacket
  <2> QED
    BY <1>1, <1>2, <2>1, SparesPacket
<1>3. ASSUME NEW t \in {"suspicious", "noise"}, NEW ip \in Address, DiscoveryAlert(t, ip)
      PROVE  WhitelistKept'
  <2>1. /\ PushAlerts(<<Alert("discovery", t, <<ip>>)>>) /\ whitelist' = whitelist
    BY <1>3 DEF DiscoveryAlert
  <2>2. now \in Nat /\ "discovery" \in Rule \cap Unasked /\ t \in Tier /\ <<ip>> \in Seq(Address)
    BY DEF Logged, Rule, Unasked, Tier
  <2>3. Spares(<<Alert("discovery", t, <<ip>>)>>, whitelist)
    BY <2>2, SparesOne
  <2> QED
    BY <1>1, <2>1, <2>3
<1>4. ASSUME NEW ip \in traffic.typed, WhitelistIp(ip) PROVE WhitelistKept'
  <2>1. whitelist' = whitelist \cup {ip} /\ ForgetAlerts(ip)
    BY <1>4 DEF WhitelistIp
  <2>2. ip \in Address
    BY AlertAssumption DEF Logged, Situation
  <2> SUFFICES ASSUME NEW t \in Tier PROVE Spares(alerts'[t], whitelist')
    BY <2>1 DEF ForgetAlerts, WhitelistKept
  <2> DEFINE s == alerts[t]
             S == {i \in DOMAIN s : ~\E j \in DOMAIN s[i].about : Within(ip, s[i].about[j])}
             r == Selected(s, S)
  <2>3. alerts'[t] = r
    BY <2>1 DEF ForgetAlerts
  <2>4. Spares(s, whitelist) /\ s \in Seq(Known) /\ S \in SUBSET DOMAIN s
    BY DEF WhitelistKept, Spares
  <2>5. ASSUME NEW i \in S
        PROVE  \/ s[i].rule \in Unasked
               \/ \A j \in DOMAIN s[i].about : s[i].about[j] \notin whitelist'
    <3>1. \A j \in DOMAIN s[i].about : s[i].about[j] # ip
      BY <2>2, WithinAssumption
    <3> QED
      BY <2>1, <2>4, <3>1 DEF Spares
  <2>6. /\ Cardinality(S) \in Nat
        /\ r = [k \in 1..Cardinality(S) |-> r[k]]
        /\ \A k \in 1..Cardinality(S) : \E i \in S : r[k] = s[i]
    BY <2>4, SelectedIn, FS_CardinalityType
  <2> HIDE DEF s, r
  <2>7. Spares(r, whitelist)
    BY <2>4, <2>6, SparesPart, ZenonT(30)
  <2>8. DOMAIN r = 1..Cardinality(S)
    BY <2>6
  <2>9. Spares(r, whitelist')
    BY <2>5, <2>6, <2>7, <2>8 DEF Spares
  <2> QED
    BY <2>3, <2>9
<1>5. ASSUME PressClear PROVE WhitelistKept'
  <2>1. alerts' = [t \in Tier |-> <<>>] /\ whitelist' = whitelist
    BY <1>5 DEF PressClear, ClearAlerts
  <2> QED
    BY <2>1, SparesEmpty DEF WhitelistKept
<1>6. ASSUME UNCHANGED <<alerts, whitelist>> PROVE WhitelistKept'
  BY <1>6 DEF WhitelistKept
<1>7. ASSUME NEW d \in traffic.gaps, Wait(d) PROVE WhitelistKept'
  BY <1>6, <1>7 DEF Wait, panel
<1>8. CASE UNCHANGED vars
  BY <1>6, <1>8 DEF vars, panel
<1> QED
  BY <1>2, <1>3, <1>4, <1>5, <1>7, <1>8 DEF Next

\* display.rs:842-1024, 1070-1115: the rules ask the whitelist before they push, W takes
\* the alerts with the text of the new address out of the four lists, and neither
\* the bound of a list nor its order brings one back.
THEOREM WhitelistHoldsAlways == Spec => []WhitelistHolds
<1> DEFINE Inv == Logged /\ WhitelistKept
<1>1. Init => Inv
  BY LoggedInit, WhitelistInit
<1>2. Inv /\ [Next]_vars => Inv'
  BY LoggedStep, WhitelistStep
<1>3. Inv => WhitelistHolds
  BY DEF WhitelistKept, WhitelistHolds, Spares, Unasked
<1> QED
  BY <1>1, <1>2, <1>3, PTL DEF Spec

-----------------------------------------------------------------------------
(***************************************************************************)
(* Heartbeats.  The stamps of a pair leave out the packets that follow     *)
(* another too soon, and the oldest.  Records says what the rest has to do *)
(* with the times of the packets; the lemmas before it say when a sequence *)
(* of stamps is regular and how the times grow.                            *)
(***************************************************************************)

\* Every set of numbers has a least one.
LEMMA LeastExists ==
  ASSUME NEW T, T \subseteq Nat, T # {}
  PROVE  \E x \in T : \A y \in T : x <= y
<1>1. IsWellFoundedOn(OpToRel(<, Nat), Nat)
  BY NatLessThanWellFounded
<1> DEFINE R == OpToRel(<, Nat)
<1>2. \A x, y \in Nat : x < y => <<x, y>> \in R
  BY DEF OpToRel
<1> HIDE DEF R
<1>3. PICK x \in T : \A y \in T : ~(<<y, x>> \in R)
  BY <1>1, WFMin DEF R
<1>4. ASSUME NEW y \in T PROVE x <= y
  <2>1. ~(y < x) /\ x \in Nat /\ y \in Nat
    BY <1>2, <1>3
  <2> QED
    BY <2>1
<1> QED
  BY <1>4

LEMMA BeaconConstants ==
  /\ {BeaconGap, BeaconLen, BeaconKept, MeanMin, MeanMax} \subseteq Nat
  /\ 2 <= BeaconLen /\ BeaconLen <= BeaconKept
BY AlertAssumption

\* The sum of n squares of one number.
LEMMA SquaresOf ==
  ASSUME NEW s, NEW n \in Nat, NEW d \in Nat, \A i \in 1..n : s[i + 1] - s[i] = d
  PROVE  LET gap(i) == s[i + 1] - s[i]
             squares[i \in 0..n] == IF i = 0 THEN 0 ELSE squares[i - 1] + gap(i) * gap(i)
         IN squares[n] = n * (d * d)
<1> DEFINE gap(i) == s[i + 1] - s[i]
           squares[i \in 0..n] == IF i = 0 THEN 0 ELSE squares[i - 1] + gap(i) * gap(i)
           g == [i \in 0..n |-> i * (d * d)]
<1>1. g = [i \in 0..n |-> IF i = 0 THEN 0 ELSE g[i - 1] + gap(i) * gap(i)]
  <2>1. ASSUME NEW i \in 0..n, i # 0 PROVE g[i] = g[i - 1] + gap(i) * gap(i)
    <3>1. i - 1 \in 0..n /\ i \in 1..n
      BY <2>1
    <3>2. g[i] = i * (d * d) /\ g[i - 1] = (i - 1) * (d * d) /\ gap(i) = d
      BY <3>1
    <3>3. i * (d * d) = (i - 1) * (d * d) + d * d
      <4> DEFINE q == d * d
      <4>1. q \in Int /\ i \in Int
        OBVIOUS
      <4> HIDE DEF q
      <4>2. i * q = (i - 1) * q + q
        BY <4>1
      <4> QED
        BY <4>2 DEF q
    <3> QED
      BY <3>2, <3>3
  <2>2. g[0] = 0
    OBVIOUS
  <2> QED
    BY <2>1, <2>2
<1>2. squares = [i \in 0..n |-> IF i = 0 THEN 0 ELSE squares[i - 1] + gap(i) * gap(i)]
  <2> HIDE DEF g, gap
  <2> QED
    BY <1>1
<1>3. PICK f : f = squares
  OBVIOUS
<1>4. PICK q \in Nat : q = d * d
  OBVIOUS
<1>5. f[0] = 0 /\ \A i \in 1..n : f[i] = f[i - 1] + q
  <2>1. f[0] = 0
    <3> HIDE DEF squares
    <3> QED
      BY <1>2, <1>3
  <2>2. ASSUME NEW i \in 1..n PROVE f[i] = f[i - 1] + q
    <3>1. i \in 0..n /\ i # 0 /\ gap(i) = d
      OBVIOUS
    <3> HIDE DEF squares, gap
    <3> QED
      BY <1>2, <1>3, <1>4, <3>1
  <2> QED
    BY <2>1, <2>2
<1> DEFINE Wrong == {i \in 0..n : f[i] # i * q}
<1>6. Wrong = {}
  <2> SUFFICES ASSUME Wrong # {} PROVE FALSE
    OBVIOUS
  <2>1. PICK i \in Wrong : \A j \in Wrong : i <= j
    <3>1. Wrong \subseteq Nat
      OBVIOUS
    <3> QED
      BY <3>1, LeastExists
  <2>2. i \in 0..n /\ f[i] # i * q
    OBVIOUS
  <2>3. i # 0
    BY <1>5, <2>2
  <2>4. i - 1 \in 0..n /\ i - 1 \notin Wrong
    BY <2>1, <2>2, <2>3
  <2>5. f[i - 1] = (i - 1) * q /\ f[i] = f[i - 1] + q
    BY <1>5, <2>2, <2>3, <2>4
  <2>6. i * q = (i - 1) * q + q
    BY <2>2
  <2> QED
    BY <2>2, <2>5, <2>6
<1>7. f[n] = n * q
  BY <1>6
<1>8. squares[n] = n * (d * d)
  BY <1>3, <1>4, <1>7
<1> QED
  BY <1>8

\* The sum of n equal gaps.
LEMMA SumOf ==
  ASSUME NEW n \in Nat, NEW d \in Nat, NEW s, \A i \in 1..(n + 1) : s[i] \in Int,
         \A i \in 1..n : s[i + 1] - s[i] = d
  PROVE  s[n + 1] - s[1] = n * d
<1> DEFINE Wrong == {i \in 0..n : s[i + 1] - s[1] # i * d}
<1>1. Wrong = {}
  <2> SUFFICES ASSUME Wrong # {} PROVE FALSE
    OBVIOUS
  <2>1. PICK i \in Wrong : \A j \in Wrong : i <= j
    <3>1. Wrong \subseteq Nat
      OBVIOUS
    <3> QED
      BY <3>1, LeastExists
  <2>2. i \in 0..n /\ s[i + 1] - s[1] # i * d
    OBVIOUS
  <2>3. i # 0
    <3>1. s[1] \in Int
      OBVIOUS
    <3> QED
      BY <2>2, <3>1
  <2>4. i - 1 \in 0..n /\ i - 1 \notin Wrong
    <3>1. i \in Int /\ i - 1 \in 0..n /\ ~(i <= i - 1)
      BY <2>2, <2>3
    <3> HIDE DEF Wrong
    <3> QED
      BY <2>1, <3>1
  <2>5. s[(i - 1) + 1] - s[1] = (i - 1) * d
    BY <2>4
  <2>6. /\ (i - 1) + 1 = i /\ i \in 1..n
        /\ i + 1 \in 1..(n + 1) /\ i \in 1..(n + 1) /\ 1 \in 1..(n + 1)
    BY <2>2, <2>3
  <2>7. s[i] - s[1] = (i - 1) * d /\ s[i + 1] - s[i] = d
    BY <2>5, <2>6
  <2>8. i * d = (i - 1) * d + d
    BY <2>6
  <2>9. s[i] \in Int /\ s[i + 1] \in Int /\ s[1] \in Int
    BY <2>6
  <2> DEFINE a == i * d
             b == (i - 1) * d
  <2>10. a \in Int /\ b \in Int
    BY <2>6
  <2> HIDE DEF a, b
  <2>11. s[i] - s[1] = b /\ s[i + 1] - s[i] = d /\ a = b + d /\ s[i + 1] - s[1] # a
    BY <2>2, <2>7, <2>8 DEF a, b
  <2> QED
    BY <2>9, <2>10, <2>11
<1>2. n \notin Wrong
  <2> HIDE DEF Wrong
  <2> QED
    BY <1>1
<1>3. n \in 0..n
  OBVIOUS
<1> QED
  BY <1>2, <1>3

\* Stamps with one gap between the bounds are regular.
LEMMA RegularOf ==
  ASSUME NEW st \in Seq(Nat), Len(st) >= BeaconLen, NEW d \in MeanMin..MeanMax, d > 0,
         \A k \in 1..(BeaconLen - 1) :
           st[Len(st) - BeaconLen + k + 1] - st[Len(st) - BeaconLen + k] = d
  PROVE  Regular(st)
<1> DEFINE n == BeaconLen - 1
           last == SubSeq(st, Len(st) - n, Len(st))
           gap(i) == last[i + 1] - last[i]
           sum == last[n + 1] - last[1]
           squares[i \in 0..n] == IF i = 0 THEN 0 ELSE squares[i - 1] + gap(i) * gap(i)
<1>1. /\ BeaconLen \in Nat /\ BeaconLen >= 2 /\ n \in Nat /\ n >= 1
      /\ MeanMin \in Nat /\ MeanMax \in Nat /\ d \in Nat /\ MeanMin <= d /\ d <= MeanMax
  <2>1. /\ BeaconLen \in Nat /\ BeaconLen >= 2 /\ MeanMin \in Nat /\ MeanMax \in Nat
    BY BeaconConstants
  <2> QED
    BY <2>1
<1>2. /\ Len(st) \in Nat /\ DOMAIN st = 1..Len(st)
      /\ \A k \in 1..Len(st) : st[k] \in Nat
  OBVIOUS
<1>3. \A k \in 1..(n + 1) : last[k] = st[Len(st) - n + k - 1]
  <2> HIDE DEF n
  <2>1. PICK m : m = Len(st) - n
    OBVIOUS
  <2>2. m \in Int /\ m >= 1
    BY <1>1, <1>2, <2>1 DEF n
  <2>3. Len(st) - m + 1 = n + 1 /\ \A k \in m..Len(st) : st[k] \in Nat
    BY <1>1, <1>2, <2>1, <2>2
  <2>4. Len(st) \in Int
    BY <1>2
  <2>5. \A k \in 1..(Len(st) - m + 1) : SubSeq(st, m, Len(st))[k] = st[m + k - 1]
    BY <2>2, <2>3, <2>4, SubSeqProperties
  <2>6. \A k \in 1..(n + 1) : last[k] = st[m + k - 1] /\ m + k - 1 = Len(st) - n + k - 1
    BY <1>1, <1>2, <2>1, <2>2, <2>3, <2>5
  <2> QED
    BY <2>6
<1>4. \A k \in 1..(n + 1) : last[k] \in Int
  BY <1>1, <1>2, <1>3
<1>5. \A k \in 1..n : last[k + 1] - last[k] = d
  <2> SUFFICES ASSUME NEW k \in 1..n PROVE last[k + 1] - last[k] = d
    OBVIOUS
  <2>1. k \in 1..(n + 1) /\ k + 1 \in 1..(n + 1)
    BY <1>1
  <2>2. /\ last[k] = st[Len(st) - n + k - 1]
        /\ last[k + 1] = st[Len(st) - n + (k + 1) - 1]
    BY <1>3, <2>1
  <2>3. /\ Len(st) - n + k - 1 = Len(st) - BeaconLen + k
        /\ Len(st) - n + (k + 1) - 1 = Len(st) - BeaconLen + k + 1
    BY <1>1, <1>2
  <2> QED
    BY <2>2, <2>3
<1>6. squares[n] = n * (d * d)
  <2> HIDE DEF last, n
  <2> QED
    BY <1>1, <1>5, SquaresOf
<1>7. sum = n * d
  <2> HIDE DEF last, n
  <2> QED
    BY <1>1, <1>4, <1>5, SumOf
<1>8. MeanMin * n <= n * d /\ n * d <= MeanMax * n
  <2> HIDE DEF n
  <2> QED
    BY <1>1
<1>9. 25 * n * (n * (d * d)) < 26 * (n * d) * (n * d)
  <2> HIDE DEF n
  <2>1. PICK q \in Nat : q = (n * d) * (n * d)
    BY <1>1
  <2>2. n * (n * (d * d)) = q
    BY <1>1, <2>1
  <2>3. n * d >= 1
    BY <1>1
  <2>4. q >= 1
    BY <1>1, <2>1, <2>3
  <2>5. 25 * n * (n * (d * d)) = 25 * q /\ 26 * (n * d) * (n * d) = 26 * q
    BY <1>1, <2>1, <2>2
  <2> QED
    BY <2>4, <2>5
<1>10. /\ MeanMin * n <= sum /\ sum <= MeanMax * n
       /\ 25 * n * squares[n] < 26 * sum * sum
  <2> HIDE DEF sum, squares, n, last
  <2> QED
    BY <1>6, <1>7, <1>8, <1>9
<1> QED
  BY <1>10 DEF Regular

\* The times of a pair's packets are one more with each.
BeatsAre ==
  \A c \in Pair : /\ Beats(c) = [k \in 1..Cardinality(Packets(c)) |-> log[Nth(Packets(c), k)].at]
                  /\ IsFiniteSet(Packets(c)) /\ Packets(c) \subseteq DOMAIN log
                  /\ Beats(c) \in Seq(Nat)
                  /\ \A i \in DOMAIN Beats(c) : Beats(c)[i] <= now

\* Positions of the log are a finite set of numbers.
LEMMA LogFinite ==
  ASSUME Logged, NEW S, S \subseteq DOMAIN log
  PROVE  IsFiniteSet(S) /\ S \subseteq Int /\ S \subseteq 1..Len(log)
<1>1. DOMAIN log = 1..Len(log) /\ Len(log) \in Nat
  BY DEF Logged
<1>2. IsFiniteSet(1..Len(log)) /\ S \in SUBSET (1..Len(log))
  BY <1>1, FS_Interval
<1> QED
  BY <1>2, FS_Subset

LEMMA BeatsHold ==
  ASSUME Logged PROVE BeatsAre
<1> SUFFICES ASSUME NEW c \in Pair
             PROVE  /\ Beats(c) = [k \in 1..Cardinality(Packets(c)) |->
                                     log[Nth(Packets(c), k)].at]
                    /\ IsFiniteSet(Packets(c)) /\ Packets(c) \subseteq DOMAIN log
                    /\ Beats(c) \in Seq(Nat)
                    /\ \A i \in DOMAIN Beats(c) : Beats(c)[i] <= now
  BY DEF BeatsAre
<1> DEFINE P == Packets(c)
           n == Cardinality(P)
<1>1. P \subseteq DOMAIN log
  BY DEF Packets
<1>2. IsFiniteSet(P) /\ P \subseteq Int /\ n \in Nat
  <2> HIDE DEF P
  <2> QED
    BY <1>1, LogFinite, FS_CardinalityType
<1>3. Selected(log, P) = [k \in 1..n |-> log[Nth(P, k)]]
  BY DEF Selected
<1>4. Beats(c) = [k \in DOMAIN Selected(log, P) |-> Selected(log, P)[k].at]
  BY DEF Beats, Packets
<1> HIDE DEF P
<1>5. Beats(c) = [k \in 1..n |-> log[Nth(P, k)].at]
  BY <1>3, <1>4
<1>6. ASSUME NEW k \in 1..n PROVE log[Nth(P, k)].at \in Nat /\ log[Nth(P, k)].at <= now
  <2>1. Nth(P, k) \in P
    BY <1>2, NthIn
  <2> QED
    BY <1>1, <2>1, LogParts
<1>7. Beats(c) \in Seq(Nat)
  <2>1. \A k \in 1..n : Beats(c)[k] \in Nat
    BY <1>5, <1>6
  <2>2. DOMAIN Beats(c) = 1..n /\ Beats(c) = [k \in 1..n |-> Beats(c)[k]]
    BY <1>5
  <2> QED
    BY <1>2, <2>1, <2>2, IsASeq
<1> QED
  BY <1>1, <1>2, <1>5, <1>6, <1>7 DEF P

LEMMA AppendIs ==
  ASSUME NEW s \in Seq(Nat), NEW a \in Nat
  PROVE  Append(s, a) = [k \in 1..(Len(s) + 1) |-> IF k <= Len(s) THEN s[k] ELSE a]
<1>1. /\ Append(s, a) \in Seq(Nat) /\ Len(Append(s, a)) = Len(s) + 1
      /\ \A k \in 1..Len(s) : Append(s, a)[k] = s[k]
      /\ Append(s, a)[Len(s) + 1] = a
  BY AppendProperties
<1>2. PICK t \in Seq(Nat) : t = Append(s, a)
  BY <1>1
<1>3. t \in [1..(Len(s) + 1) -> Nat]
  BY <1>1, <1>2, LenProperties
<1>4. Len(s) \in Nat
  OBVIOUS
<1>5. \A k \in 1..(Len(s) + 1) : t[k] = IF k <= Len(s) THEN s[k] ELSE a
  BY <1>1, <1>2, <1>4
<1> QED
  BY <1>2, <1>3, <1>5

LEMMA BeatsGrow ==
  ASSUME Logged, Logged', NEW p \in traffic.packets, NEW trusted_org \in BOOLEAN,
         IngestPacket(p, trusted_org), NEW c \in Pair
  PROVE  Beats(c)' = IF PairOf(p) = c THEN Append(Beats(c), now) ELSE Beats(c)
<1> DEFINE P == Packets(c)
           Q == Packets(c)'
           n == Cardinality(P)
           m == Len(log) + 1
<1>1. /\ Q = IF PairOf(p) = c THEN P \cup {m} ELSE P
      /\ m \notin P
  BY PacketsGrow
<1>2. /\ DOMAIN log' = DOMAIN log \cup {m} /\ log'[m].at = now
      /\ \A i \in DOMAIN log : log'[i] = log[i]
  BY LogGrows
<1>3. /\ Beats(c) = [k \in 1..n |-> log[Nth(P, k)].at]
      /\ IsFiniteSet(P) /\ P \subseteq DOMAIN log /\ Beats(c) \in Seq(Nat)
  BY BeatsHold DEF BeatsAre
<1>4. Beats(c)' = [k \in 1..Cardinality(Q) |-> log'[Nth(Q, k)].at]
  <2>1. BeatsAre'
    BY BeatsHold, PTL
  <2> QED
    BY <2>1 DEF BeatsAre
<1>5. P \subseteq Int /\ P \subseteq 1..Len(log) /\ Len(log) \in Nat /\ now \in Nat
  BY <1>3, LogFinite DEF Logged
<1>6. m \in Int /\ \A x \in P : x < m
  BY <1>5
<1> HIDE DEF P, Q, m
<1>7. \A k \in 1..n : Nth(P, k) \in DOMAIN log
  BY <1>3, <1>5, NthIn
<1>8. CASE PairOf(p) = c
  <2>1. /\ Cardinality(Q) = n + 1 /\ n \in Nat
        /\ \A k \in 1..n : Nth(Q, k) = Nth(P, k)
        /\ Nth(Q, n + 1) = m
    BY <1>1, <1>3, <1>5, <1>6, <1>8, NthGrows
  <2>2. Beats(c)' = [k \in 1..(n + 1) |-> log'[Nth(Q, k)].at]
    BY <1>4, <2>1
  <2>3. Append(Beats(c), now) = [k \in 1..(n + 1) |-> IF k <= n THEN Beats(c)[k] ELSE now]
    <3>1. PICK s \in Seq(Nat) : s = Beats(c)
      BY <1>3
    <3>2. Len(s) = n
      BY <1>3, <2>1, <3>1
    <3>3. Append(s, now) = [k \in 1..(n + 1) |-> IF k <= n THEN s[k] ELSE now]
      BY <1>5, <3>2, AppendIs
    <3> QED
      BY <3>1, <3>3
  <2>4. ASSUME NEW k \in 1..(n + 1)
        PROVE  log'[Nth(Q, k)].at = IF k <= n THEN Beats(c)[k] ELSE now
    <3>1. CASE k \in 1..n
      BY <1>2, <1>3, <1>7, <2>1, <3>1
    <3>2. CASE k = n + 1
      BY <1>2, <2>1, <3>2
    <3> QED
      BY <2>1, <3>1, <3>2
  <2> QED
    BY <1>8, <2>2, <2>3, <2>4
<1>9. CASE PairOf(p) # c
  <2>1. Q = P
    BY <1>1, <1>9
  <2>2. \A k \in 1..n : log'[Nth(P, k)].at = log[Nth(P, k)].at
    BY <1>2, <1>7
  <2> QED
    BY <1>3, <1>4, <1>9, <2>1, <2>2
<1> QED
  BY <1>8, <1>9

\* The stamps st record the times t of a pair's packets: none before the first
\* packet, none after the last, and the times of m attempts in a row to the end of
\* t are the last m of them.
Records(st, t) ==
  /\ t \in Seq(Nat) /\ st \in Seq(Nat)
  /\ Len(t) = 0 => Len(st) = 0
  /\ Len(t) # 0 => Len(st) # 0 /\ st[Len(st)] <= t[Len(t)]
  /\ \A m \in 1..BeaconLen : \A b \in [1..m -> DOMAIN t] :
       Attempts(t, b, m) =>
         Len(st) >= m /\ \A k \in 1..m : st[Len(st) - m + k] = t[b[k]]

\* The newest stamps are kept.
LEMMA StampsKept ==
  ASSUME NEW all \in Seq(Nat), NEW r,
         r = IF Len(all) > BeaconKept THEN SubSeq(all, Len(all) - BeaconKept + 1, Len(all))
                                      ELSE all
  PROVE  /\ r \in Seq(Nat)
         /\ Len(r) = IF Len(all) > BeaconKept THEN BeaconKept ELSE Len(all)
         /\ \A j \in 1..Len(r) : r[j] = all[Len(all) - Len(r) + j]
<1>1. BeaconKept \in Nat /\ Len(all) \in Nat
  BY BeaconConstants
<1>2. \A i \in 1..Len(all) : all[i] \in Nat
  OBVIOUS
<1>3. CASE Len(all) > BeaconKept
  <2>1. PICK m : m = Len(all) - BeaconKept + 1
    OBVIOUS
  <2>2. m \in Int /\ m >= 1 /\ Len(all) - m + 1 = BeaconKept /\ Len(all) \in Int
    BY <1>1, <1>3, <2>1
  <2>3. \A i \in m..Len(all) : all[i] \in Nat
    BY <1>1, <1>2, <2>2
  <2>4. r = SubSeq(all, m, Len(all))
    BY <1>3, <2>1
  <2>5. /\ r \in Seq(Nat)
        /\ Len(r) = IF m <= Len(all) THEN Len(all) - m + 1 ELSE 0
        /\ \A i \in 1..(Len(all) - m + 1) : r[i] = all[m + i - 1]
    <3>1. m \in Int /\ Len(all) \in Int
      BY <2>2
    <3>2. /\ SubSeq(all, m, Len(all)) \in Seq(Nat)
          /\ Len(SubSeq(all, m, Len(all))) = IF m <= Len(all) THEN Len(all) - m + 1 ELSE 0
          /\ \A i \in 1..(Len(all) - m + 1) : SubSeq(all, m, Len(all))[i] = all[m + i - 1]
      BY <2>3, <3>1, SubSeqProperties
    <3> QED
      BY <2>4, <3>2
  <2>6. Len(r) = BeaconKept
    BY <1>1, <2>2, <2>5
  <2>7. ASSUME NEW j \in 1..BeaconKept PROVE r[j] = all[Len(all) - BeaconKept + j]
    <3>1. m + j - 1 = Len(all) - BeaconKept + j
      BY <1>1, <2>1, <2>2
    <3> QED
      BY <2>2, <2>5, <2>6, <3>1
  <2> QED
    BY <1>3, <2>5, <2>6, <2>7
<1>4. CASE ~(Len(all) > BeaconKept)
  <2>1. r = all
    BY <1>4
  <2>2. \A j \in 1..Len(all) : Len(all) - Len(all) + j = j
    BY <1>1
  <2> QED
    BY <1>4, <2>1, <2>2
<1> QED
  BY <1>3, <1>4

\* Attempts in a row before the last of n + 1 packets, with v the times of them
\* all: the last packet may be one after them, or the next attempt.
LEMMA AttemptsBefore ==
  ASSUME NEW t \in Seq(Nat), NEW v, NEW b, NEW m \in Nat, m >= 1,
         \A i \in 1..Len(t) : v[i] = t[i], \A k \in 1..m : b[k] \in 1..Len(t),
         b[1] = 1 \/ v[b[1]] - v[b[1] - 1] > BeaconGap,
         \A k \in 2..m : b[k - 1] < b[k] /\ v[b[k]] - v[b[k - 1]] > BeaconGap,
         NEW e \in Nat, e >= Len(t),
         \A k \in 1..m : \A i \in b[k]..(IF k = m THEN e ELSE b[k + 1] - 1) :
           v[i] - v[b[k]] <= BeaconGap
  PROVE  Attempts(t, b, m)
<1> DEFINE n == Len(t)
<1>1. n \in Nat /\ 1 \in 1..m
  OBVIOUS
<1>2. b[1] = 1 \/ t[b[1]] - t[b[1] - 1] > BeaconGap
  <2> SUFFICES ASSUME b[1] # 1 PROVE t[b[1]] - t[b[1] - 1] > BeaconGap
    OBVIOUS
  <2>1. b[1] \in 1..n /\ b[1] - 1 \in 1..n
    BY <1>1
  <2> QED
    BY <2>1
<1>3. ASSUME NEW k \in 2..m PROVE b[k - 1] < b[k] /\ t[b[k]] - t[b[k - 1]] > BeaconGap
  <2>1. k \in 1..m /\ k - 1 \in 1..m
    OBVIOUS
  <2> QED
    BY <1>3, <2>1
<1>4. ASSUME NEW k \in 1..m, NEW i \in b[k]..(IF k = m THEN n ELSE b[k + 1] - 1)
      PROVE  t[i] - t[b[k]] <= BeaconGap
  <2>1. b[k] \in 1..n
    OBVIOUS
  <2>2. i \in 1..n /\ i \in b[k]..(IF k = m THEN e ELSE b[k + 1] - 1)
    <3>1. CASE k = m
      BY <1>1, <1>4, <2>1, <3>1
    <3>2. CASE k # m
      <4>1. k + 1 \in 1..m
        BY <3>2
      <4>2. b[k + 1] \in 1..n
        BY <4>1
      <4>3. i \in b[k]..(b[k + 1] - 1)
        BY <1>4, <3>2
      <4>4. i \in 1..n
        <5> HIDE DEF n
        <5> QED
          BY <1>1, <2>1, <4>2, <4>3
      <4> QED
        BY <3>2, <4>3, <4>4
    <3> QED
      BY <3>1, <3>2
  <2>3. v[i] - v[b[k]] <= BeaconGap
    BY <2>2
  <2> QED
    BY <2>1, <2>2, <2>3
<1> QED
  BY <1>2, <1>3, <1>4 DEF Attempts

\* A packet adds its time, and a stamp if it is an attempt.
LEMMA RecordsGrow ==
  ASSUME NEW st, NEW t, Records(st, t), now \in Nat, \A i \in DOMAIN t : t[i] <= now
  PROVE  Records(Stamped(st), Append(t, now))
<1> DEFINE n == Len(t)
           added == st = <<>> \/ Since(Last(st)) > BeaconGap
           all == IF added THEN Append(st, now) ELSE st
           r == Stamped(st)
           u == Append(t, now)
<1>1. /\ t \in Seq(Nat) /\ st \in Seq(Nat) /\ n \in Nat /\ Len(st) \in Nat
      /\ BeaconKept \in Nat /\ BeaconLen \in Nat /\ 2 <= BeaconLen /\ BeaconLen <= BeaconKept
      /\ BeaconGap \in Nat /\ now \in Nat
  <2>1. t \in Seq(Nat) /\ st \in Seq(Nat)
    BY DEF Records
  <2>2. n \in Nat /\ Len(st) \in Nat
    BY <2>1
  <2> QED
    BY <2>1, <2>2, BeaconConstants
<1>2. /\ u \in Seq(Nat) /\ Len(u) = n + 1 /\ u[n + 1] = now
      /\ \A i \in 1..n : u[i] = t[i]
  BY <1>1, AppendProperties
<1>3. (st = <<>> <=> Len(st) = 0) /\ (t = <<>> <=> n = 0)
  BY <1>1
<1>4. /\ all \in Seq(Nat) /\ Len(all) = IF added THEN Len(st) + 1 ELSE Len(st)
      /\ added => all[Len(st) + 1] = now
      /\ \A i \in 1..Len(st) : all[i] = st[i]
  BY <1>1, AppendProperties
<1>5. PICK a : a = all
  OBVIOUS
<1>6. r = IF Len(a) > BeaconKept THEN SubSeq(a, Len(a) - BeaconKept + 1, Len(a)) ELSE a
  BY <1>5 DEF Stamped
<1>7. PICK s : s = r
  OBVIOUS
<1>8. /\ s \in Seq(Nat)
      /\ Len(s) = IF Len(a) > BeaconKept THEN BeaconKept ELSE Len(a)
      /\ \A j \in 1..Len(s) : s[j] = a[Len(a) - Len(s) + j]
  <2>1. a \in Seq(Nat)
    BY <1>4, <1>5
  <2>2. s = IF Len(a) > BeaconKept THEN SubSeq(a, Len(a) - BeaconKept + 1, Len(a)) ELSE a
    BY <1>6, <1>7
  <2> QED
    BY <2>1, <2>2, StampsKept
<1>9. PICK v : v = u
  OBVIOUS
<1>10. n # 0 => /\ t[n] \in Nat /\ t[n] <= now
                /\ Len(st) # 0 /\ st[Len(st)] <= t[n] /\ st[Len(st)] \in Nat
  <2> SUFFICES ASSUME n # 0 PROVE t[n] \in Nat /\ t[n] <= now /\ Len(st) # 0
                                  /\ st[Len(st)] <= t[n] /\ st[Len(st)] \in Nat
    OBVIOUS
  <2>1. n \in DOMAIN t /\ n \in 1..n
    BY <1>1
  <2>2. Len(st) # 0 /\ st[Len(st)] <= t[n]
    BY DEF Records
  <2>3. Len(st) \in DOMAIN st
    BY <1>1, <2>2
  <2> QED
    BY <1>1, <2>1, <2>2, <2>3
<1>11. n = 0 => added
  BY <1>3 DEF Records
<1>12. Len(a) # 0 /\ Len(a) \in Nat
  BY <1>1, <1>3, <1>4, <1>5
<1>13. Len(s) # 0 /\ Len(s) \in Nat /\ s[Len(s)] = a[Len(a)]
  <2>1. Len(s) \in Nat /\ Len(s) # 0 /\ Len(s) <= Len(a)
    BY <1>1, <1>8, <1>12
  <2>2. Len(s) \in 1..Len(s) /\ Len(a) - Len(s) + Len(s) = Len(a)
    BY <1>12, <2>1
  <2>3. s[Len(s)] = a[Len(a) - Len(s) + Len(s)]
    BY <1>8, <2>2
  <2> QED
    BY <2>1, <2>2, <2>3
<1>14. s[Len(s)] <= v[Len(v)]
  <2>1. v[Len(v)] = now
    BY <1>2, <1>9
  <2>2. CASE added
    BY <1>1, <1>4, <1>5, <1>13, <2>1, <2>2
  <2>3. CASE ~added
    <3>1. n # 0 /\ a = st
      BY <1>5, <1>11, <2>3
    <3> QED
      BY <1>1, <1>10, <1>13, <2>1, <3>1
  <2> QED
    BY <2>2, <2>3
<1>15. ASSUME NEW m \in 1..BeaconLen, NEW b \in [1..m -> 1..(n + 1)], Attempts(v, b, m)
       PROVE  Len(s) >= m /\ \A k \in 1..m : s[Len(s) - m + k] = v[b[k]]
  <2>1. /\ m \in Nat /\ 1 <= m /\ m <= BeaconLen /\ m \in 1..m /\ 1 \in 1..m
        /\ \A k \in 1..m : b[k] \in 1..(n + 1)
    BY <1>1, <1>15
  <2>2. /\ b[1] = 1 \/ v[b[1]] - v[b[1] - 1] > BeaconGap
        /\ \A k \in 2..m : b[k - 1] < b[k] /\ v[b[k]] - v[b[k - 1]] > BeaconGap
        /\ \A k \in 1..m : \A i \in b[k]..(IF k = m THEN n + 1 ELSE b[k + 1] - 1) :
             v[i] - v[b[k]] <= BeaconGap
    BY <1>2, <1>9, <1>15 DEF Attempts
  <2>3. ASSUME NEW k \in 1..m, k # m PROVE b[k] \in 1..n
    <3>1. k + 1 \in 2..m /\ k + 1 \in 1..m /\ (k + 1) - 1 = k
      BY <2>1, <2>3
    <3>2. b[k] < b[k + 1] /\ b[k + 1] \in 1..(n + 1) /\ b[k] \in 1..(n + 1)
      BY <2>1, <2>2, <3>1
    <3> QED
      BY <1>1, <3>2
  <2>4. CASE b[m] # n + 1
    <3>1. \A k \in 1..m : b[k] \in 1..n
      BY <1>1, <2>1, <2>3, <2>4
    <3>2. b \in [1..m -> DOMAIN t] /\ n # 0
      BY <1>1, <2>1, <3>1
    <3>3. Attempts(t, b, m)
      <4>1. PICK x : x = n + 1
        OBVIOUS
      <4>2. /\ x \in Nat /\ x >= Len(t) /\ m \in Nat /\ m >= 1 /\ t \in Seq(Nat)
            /\ \A i \in 1..Len(t) : v[i] = t[i]
            /\ \A k \in 1..m : b[k] \in 1..Len(t)
        BY <1>1, <1>2, <1>9, <2>1, <3>1, <4>1
      <4>3. \A k \in 1..m : \A i \in b[k]..(IF k = m THEN x ELSE b[k + 1] - 1) :
              v[i] - v[b[k]] <= BeaconGap
        BY <2>2, <4>1
      <4> HIDE DEF n
      <4> QED
        BY <2>2, <4>2, <4>3, AttemptsBefore
    <3>4. Len(st) >= m /\ \A k \in 1..m : st[Len(st) - m + k] = t[b[k]]
      BY <1>15, <3>2, <3>3 DEF Records
    <3>5. ~added
      <4>1. st[Len(st) - m + m] = t[b[m]] /\ Len(st) - m + m = Len(st)
        BY <1>1, <2>1, <3>4
      <4>2. v[n + 1] - v[b[m]] <= BeaconGap
        <5>1. n + 1 \in b[m]..(IF m = m THEN n + 1 ELSE b[m + 1] - 1)
          BY <1>1, <2>1
        <5> QED
          BY <2>1, <2>2, <5>1
      <4>3. v[n + 1] = now /\ v[b[m]] = t[b[m]]
        BY <1>2, <1>9, <2>1, <3>1
      <4>4. now - st[Len(st)] <= BeaconGap /\ st[Len(st)] \in Nat /\ st # <<>>
        BY <1>3, <1>10, <3>2, <4>1, <4>2, <4>3
      <4> QED
        BY <1>1, <4>4 DEF Since, Last
    <3>6. Len(a) = Len(st) /\ (\A i \in 1..Len(st) : a[i] = st[i]) /\ Len(s) >= m
      BY <1>1, <1>4, <1>5, <1>8, <2>1, <3>4, <3>5
    <3>7. ASSUME NEW k \in 1..m PROVE s[Len(s) - m + k] = v[b[k]]
      <4>1. /\ Len(s) - m + k \in 1..Len(s)
            /\ Len(a) - Len(s) + (Len(s) - m + k) = Len(st) - m + k
            /\ Len(st) - m + k \in 1..Len(st)
        BY <1>1, <1>13, <2>1, <3>4, <3>6
      <4>2. s[Len(s) - m + k] = st[Len(st) - m + k]
        BY <1>8, <3>6, <4>1
      <4>3. v[b[k]] = t[b[k]]
        BY <1>2, <1>9, <3>1
      <4> QED
        BY <3>4, <4>2, <4>3
    <3> QED
      BY <3>6, <3>7
  <2>5. CASE b[m] = n + 1
    <3>1. m # 1 => /\ Len(st) >= m - 1
                   /\ \A k \in 1..(m - 1) : st[Len(st) - (m - 1) + k] = t[b[k]]
      <4> SUFFICES ASSUME m # 1
                   PROVE  /\ Len(st) >= m - 1
                          /\ \A k \in 1..(m - 1) : st[Len(st) - (m - 1) + k] = t[b[k]]
        OBVIOUS
      <4>1. PICK l : l = m - 1
        OBVIOUS
      <4>2. /\ l \in 1..BeaconLen /\ l \in Nat /\ l + 1 = m
            /\ \A k \in 1..l : k \in 1..m /\ k # m
        BY <1>1, <2>1, <4>1
      <4>3. PICK e : e = [k \in 1..l |-> b[k]]
        OBVIOUS
      <4>4. \A k \in 1..l : e[k] = b[k] /\ e[k] \in 1..n
        BY <2>3, <4>2, <4>3
      <4>5. e \in [1..l -> DOMAIN t]
        BY <1>1, <4>3, <4>4
      <4>6. Attempts(t, e, l)
        <5>1. /\ e[1] = 1 \/ v[e[1]] - v[e[1] - 1] > BeaconGap
          BY <2>2, <4>2, <4>4
        <5>2. ASSUME NEW k \in 2..l
              PROVE  e[k - 1] < e[k] /\ v[e[k]] - v[e[k - 1]] > BeaconGap
          <6>1. k \in 2..m /\ k \in 1..l /\ k - 1 \in 1..l
            BY <4>2
          <6>2. e[k] = b[k] /\ e[k - 1] = b[k - 1]
            BY <4>4, <6>1
          <6> QED
            BY <2>2, <6>1, <6>2
        <5>3. ASSUME NEW k \in 1..l, NEW i \in e[k]..(IF k = l THEN n ELSE e[k + 1] - 1)
              PROVE  v[i] - v[e[k]] <= BeaconGap
          <6>1. k \in 1..m /\ k # m /\ e[k] = b[k]
            BY <4>2, <4>4
          <6>2. i \in b[k]..(b[k + 1] - 1)
            <7>1. CASE k = l
              <8>1. b[k + 1] - 1 = n
                BY <1>1, <2>5, <4>2, <7>1
              <8> QED
                BY <5>3, <6>1, <7>1, <8>1
            <7>2. CASE k # l
              <8>1. k + 1 \in 1..l
                BY <4>2, <7>2
              <8>2. e[k + 1] = b[k + 1]
                BY <4>4, <8>1
              <8> QED
                BY <5>3, <6>1, <7>2, <8>2
            <7> QED
              BY <7>1, <7>2
          <6>3. v[i] - v[b[k]] <= BeaconGap
            BY <2>2, <6>1, <6>2
          <6> QED
            BY <6>1, <6>3
        <5>4. PICK x : x = n
          OBVIOUS
        <5>5. /\ x \in Nat /\ x >= Len(t) /\ l \in Nat /\ l >= 1 /\ t \in Seq(Nat)
              /\ \A i \in 1..Len(t) : v[i] = t[i]
              /\ \A k \in 1..l : e[k] \in 1..Len(t)
          BY <1>1, <1>2, <1>9, <4>2, <4>4, <5>4
        <5>6. \A k \in 1..l : \A i \in e[k]..(IF k = l THEN x ELSE e[k + 1] - 1) :
                v[i] - v[e[k]] <= BeaconGap
          BY <5>3, <5>4
        <5> HIDE DEF n
        <5> QED
          BY <5>1, <5>2, <5>5, <5>6, AttemptsBefore
      <4>7. Len(st) >= l /\ \A k \in 1..l : st[Len(st) - l + k] = t[e[k]]
        BY <4>2, <4>5, <4>6 DEF Records
      <4> QED
        BY <4>1, <4>4, <4>7
    <3>2. added
      <4>1. CASE m = 1
        <5> SUFFICES ASSUME n # 0 PROVE added
          BY <1>11
        <5>1. v[n + 1] = now /\ v[n] = t[n] /\ (n + 1) - 1 = n /\ n + 1 # 1
          BY <1>1, <1>2, <1>9
        <5>2. now - t[n] > BeaconGap
          BY <2>2, <2>5, <4>1, <5>1
        <5>3. now - st[Len(st)] > BeaconGap
          <6>1. t[n] \in Nat /\ st[Len(st)] <= t[n] /\ st[Len(st)] \in Nat
            BY <1>10
          <6>2. now \in Nat /\ BeaconGap \in Nat
            BY <1>1
          <6> HIDE DEF n
          <6> QED
            BY <5>2, <6>1, <6>2
        <5> QED
          BY <5>3 DEF Since, Last
      <4>2. CASE m # 1
        <5>1. m \in 2..m /\ m - 1 \in 1..m /\ m - 1 # m /\ m - 1 \in 1..(m - 1)
          BY <2>1, <4>2
        <5>2. v[b[m]] - v[b[m - 1]] > BeaconGap
          BY <2>2, <5>1
        <5>3. v[b[m]] = now /\ v[b[m - 1]] = t[b[m - 1]]
          BY <1>2, <1>9, <2>3, <2>5, <5>1
        <5>4. st[Len(st) - (m - 1) + (m - 1)] = t[b[m - 1]]
          BY <3>1, <4>2, <5>1
        <5>5. Len(st) - (m - 1) + (m - 1) = Len(st)
          BY <1>1, <2>1
        <5>6. now - st[Len(st)] > BeaconGap
          BY <5>2, <5>3, <5>4, <5>5
        <5> QED
          BY <5>6 DEF Since, Last
      <4> QED
        BY <4>1, <4>2
    <3>3. Len(a) = Len(st) + 1 /\ a[Len(st) + 1] = now /\ \A i \in 1..Len(st) : a[i] = st[i]
      BY <1>4, <1>5, <3>2
    <3>4. Len(st) + 1 >= m /\ Len(s) >= m /\ Len(s) <= Len(a)
      BY <1>1, <1>8, <1>12, <2>1, <3>1, <3>3
    <3>5. ASSUME NEW k \in 1..m PROVE s[Len(s) - m + k] = v[b[k]]
      <4>1. /\ Len(s) - m + k \in 1..Len(s)
            /\ Len(a) - Len(s) + (Len(s) - m + k) = Len(st) + 1 - m + k
        BY <1>12, <1>13, <2>1, <3>3, <3>4
      <4>2. s[Len(s) - m + k] = a[Len(st) + 1 - m + k]
        BY <1>8, <4>1
      <4>3. CASE k = m
        <5>1. Len(st) + 1 - m + k = Len(st) + 1
          BY <1>1, <2>1, <4>3
        <5> QED
          BY <1>2, <1>9, <2>5, <3>3, <4>2, <4>3, <5>1
      <4>4. CASE k # m
        <5>1. m # 1 /\ k \in 1..(m - 1)
          BY <2>1, <4>4
        <5>2. /\ Len(st) + 1 - m + k = Len(st) - (m - 1) + k
              /\ Len(st) + 1 - m + k \in 1..Len(st)
          BY <1>1, <2>1, <3>1, <5>1
        <5>3. a[Len(st) + 1 - m + k] = st[Len(st) - (m - 1) + k]
          BY <3>3, <5>2
        <5>4. v[b[k]] = t[b[k]]
          BY <1>2, <1>9, <2>3, <4>4
        <5> QED
          BY <3>1, <4>2, <5>1, <5>3, <5>4
      <4> QED
        BY <4>3, <4>4
    <3> QED
      BY <3>4, <3>5
  <2> QED
    BY <2>4, <2>5
<1>16. v \in Seq(Nat) /\ Len(v) = n + 1 /\ n + 1 # 0
  BY <1>1, <1>2, <1>9
<1>17. Records(s, v)
  <2>1. DOMAIN v = 1..(n + 1)
    BY <1>16
  <2> HIDE DEF n
  <2> QED
    BY <1>8, <1>13, <1>14, <1>15, <1>16, <2>1 DEF Records
<1> QED
  BY <1>7, <1>9, <1>17

\* The inductive invariant of the theorem below.
HeartbeatsKept ==
  /\ connection_intervals \in [Pair -> Seq(Nat)]
  /\ \A c \in Pair : c[2] \notin Local => Records(connection_intervals[c], Beats(c))
  /\ HeartbeatReported

LEMMA HeartbeatsInit == Init => HeartbeatsKept
<1> SUFFICES ASSUME Init PROVE HeartbeatsKept
  OBVIOUS
<1>1. connection_intervals = [c \in Pair |-> <<>>] /\ log = <<>>
  BY DEF Init
<1>2. ASSUME NEW c \in Pair PROVE Records(<<>>, Beats(c))
  <2>1. Logged
    BY LoggedInit
  <2>2. /\ Beats(c) = [k \in 1..Cardinality(Packets(c)) |-> log[Nth(Packets(c), k)].at]
        /\ Beats(c) \in Seq(Nat)
    BY <2>1, BeatsHold DEF BeatsAre
  <2>3. Packets(c) = {}
    BY <1>1 DEF Packets
  <2>4. Cardinality(Packets(c)) = 0
    BY <2>3, FS_EmptySet
  <2>5. Len(Beats(c)) = 0
    BY <2>2, <2>4
  <2>6. BeaconLen \in Nat
    BY BeaconConstants
  <2>7. PICK t \in Seq(Nat) : t = Beats(c) /\ Len(t) = 0
    BY <2>2, <2>5
  <2>8. ASSUME NEW m \in 1..BeaconLen PROVE [1..m -> DOMAIN t] = {}
    <3>1. 1 \in 1..m /\ DOMAIN t = {}
      BY <2>6, <2>7
    <3> QED
      BY <3>1
  <2>9. Records(<<>>, t)
    BY <2>7, <2>8 DEF Records
  <2> QED
    BY <2>7, <2>9
<1>3. HeartbeatReported
  <2>1. Met(Outbound) = {}
    BY <1>1 DEF Met
  <2> QED
    BY <2>1 DEF HeartbeatReported
<1> QED
  BY <1>1, <1>2, <1>3 DEF HeartbeatsKept

\* The times of a heartbeat's attempts are the last stamps.
LEMMA HeartbeatFound ==
  ASSUME NEW st, NEW t, Records(st, t), NEW d \in MeanMin..MeanMax,
         NEW b \in [1..BeaconLen -> DOMAIN t], Attempts(t, b, BeaconLen),
         \A k \in 2..BeaconLen : t[b[k]] - t[b[k - 1]] = d
  PROVE  Regular(st)
<1>1. /\ BeaconLen \in Nat /\ 2 <= BeaconLen /\ BeaconGap \in Nat
      /\ MeanMin \in Nat /\ MeanMax \in Nat /\ d \in Nat
      /\ st \in Seq(Nat) /\ Len(st) \in Nat
  <2>1. /\ BeaconLen \in Nat /\ 2 <= BeaconLen /\ BeaconGap \in Nat
        /\ MeanMin \in Nat /\ MeanMax \in Nat
    BY BeaconConstants
  <2>2. st \in Seq(Nat)
    BY DEF Records
  <2> QED
    BY <2>1, <2>2
<1>2. d > 0
  <2>1. 2 \in 2..BeaconLen
    BY <1>1
  <2>2. t[b[2]] - t[b[2 - 1]] > BeaconGap
    BY <2>1 DEF Attempts
  <2> QED
    BY <1>1, <2>1, <2>2
<1>3. /\ Len(st) >= BeaconLen
      /\ \A k \in 1..BeaconLen : st[Len(st) - BeaconLen + k] = t[b[k]]
  <2>1. BeaconLen \in 1..BeaconLen
    BY <1>1
  <2> QED
    BY <2>1 DEF Records
<1>4. ASSUME NEW k \in 1..(BeaconLen - 1)
      PROVE  st[Len(st) - BeaconLen + k + 1] - st[Len(st) - BeaconLen + k] = d
  <2>1. PICK j : j = k + 1
    OBVIOUS
  <2>2. k \in 1..BeaconLen /\ j \in 1..BeaconLen /\ j \in 2..BeaconLen /\ j - 1 = k
    BY <1>1, <2>1
  <2>3. /\ st[Len(st) - BeaconLen + k] = t[b[k]]
        /\ st[Len(st) - BeaconLen + j] = t[b[j]]
    BY <1>3, <2>2
  <2>4. t[b[j]] - t[b[k]] = d
    BY <2>2
  <2>5. Len(st) - BeaconLen + j = Len(st) - BeaconLen + k + 1
    BY <1>1, <2>1
  <2> QED
    BY <2>3, <2>4, <2>5
<1> QED
  BY <1>1, <1>2, <1>3, <1>4, RegularOf

LEMMA HeartbeatsStep == Logged /\ HeartbeatsKept /\ [Next]_vars => HeartbeatsKept'
<1> SUFFICES ASSUME Logged, HeartbeatsKept, [Next]_vars PROVE HeartbeatsKept'
  OBVIOUS
<1>1. ASSUME NEW p \in traffic.packets, NEW trusted_org \in BOOLEAN,
             IngestPacket(p, trusted_org)
      PROVE  HeartbeatsKept'
  <2>1. /\ p \in Packet /\ DetectBeacon(p) /\ PairOf(p) \in Pair /\ PairOf(p) = <<p.src, p.dst>>
        /\ Logged'
    BY <1>1, TrafficParts, PacketFields, LoggedStep DEF IngestPacket, PairOf
  <2>2. /\ connection_intervals' \in [Pair -> Seq(Nat)]
        /\ \A c \in Pair : c[2] \notin Local =>
             connection_intervals'[c] = IF PairOf(p) = c THEN Stamped(connection_intervals[c])
                                                         ELSE connection_intervals[c]
    <3>1. CASE Outbound(p)
      <4>1. Stamped(connection_intervals[PairOf(p)]) \in Seq(Nat)
        <5>1. Records(connection_intervals[PairOf(p)], Beats(PairOf(p)))
          BY <2>1, <3>1 DEF HeartbeatsKept, Outbound
        <5>2. \A i \in DOMAIN Beats(PairOf(p)) : Beats(PairOf(p))[i] <= now
          BY <2>1, BeatsHold DEF BeatsAre
        <5>3. Records(Stamped(connection_intervals[PairOf(p)]), Append(Beats(PairOf(p)), now))
          BY <5>1, <5>2, RecordsGrow DEF Logged
        <5> QED
          BY <5>3 DEF Records
      <4>2. connection_intervals' = [connection_intervals EXCEPT
                                       ![PairOf(p)] = Stamped(connection_intervals[PairOf(p)])]
        BY <2>1, <3>1 DEF DetectBeacon
      <4> QED
        BY <2>1, <4>1, <4>2 DEF HeartbeatsKept
    <3>2. CASE ~Outbound(p)
      <4>1. connection_intervals' = connection_intervals
        BY <2>1, <3>2 DEF DetectBeacon, beacon
      <4>2. \A c \in Pair : c[2] \notin Local => PairOf(p) # c
        BY <2>1, <3>2 DEF Outbound
      <4> QED
        BY <4>1, <4>2 DEF HeartbeatsKept
    <3> QED
      BY <3>1, <3>2
  <2>3. ASSUME NEW c \in Pair, c[2] \notin Local
        PROVE  Records(connection_intervals'[c], Beats(c)')
    <3>1. Beats(c)' = IF PairOf(p) = c THEN Append(Beats(c), now) ELSE Beats(c)
      BY <1>1, <2>1, BeatsGrow
    <3>2. Records(connection_intervals[c], Beats(c))
      BY <2>3 DEF HeartbeatsKept
    <3>3. now \in Nat /\ \A i \in DOMAIN Beats(c) : Beats(c)[i] <= now
      BY BeatsHold DEF BeatsAre, Logged
    <3>4. Records(Stamped(connection_intervals[c]), Append(Beats(c), now))
      BY <3>2, <3>3, RecordsGrow
    <3> QED
      BY <2>2, <2>3, <3>1, <3>2, <3>4
  <2>4. HeartbeatReported'
    <3> SUFFICES ASSUME NEW c \in {PairOf(log'[i].pkt) : i \in Met(Outbound)'},
                        PairOf(Last(log').pkt) = c, ~Last(log').pkt.trusted,
                        NEW b \in [1..BeaconLen -> DOMAIN (Beats(c)')],
                        Attempts(Beats(c)', b, BeaconLen), NEW d \in MeanMin..MeanMax,
                        \A k \in 2..BeaconLen : Beats(c)'[b[k]] - Beats(c)'[b[k - 1]] = d
                 PROVE  c \in beacon_alerted'
      BY DEF HeartbeatReported, Attempts, PairOf
    <3>1. Last(log').pkt = p
      <4>1. log' = Append(log, [pkt |-> p, at |-> now]) /\ log \in Seq([pkt : Packet, at : Nat])
            /\ [pkt |-> p, at |-> now] \in [pkt : Packet, at : Nat]
        BY <1>1, <2>1 DEF IngestPacket, Logged
      <4>2. Len(log') = Len(log) + 1 /\ log'[Len(log) + 1].pkt = p
        BY <4>1, AppendProperties
      <4> QED
        BY <4>2 DEF Last
    <3>2. c = PairOf(p) /\ ~p.trusted
      BY <3>1
    <3>3. PICK i \in DOMAIN log' : Outbound(log'[i].pkt) /\ PairOf(log'[i].pkt) = c
      BY DEF Met, Outbound
    <3>4. c[2] \notin Local /\ Outbound(p) /\ c \in Pair
      BY <2>1, <3>2, <3>3 DEF PairOf, Outbound
    <3>5. Regular(connection_intervals'[c])
      BY <2>3, <3>4, HeartbeatFound
    <3>6. connection_intervals'[c] = Stamped(connection_intervals[PairOf(p)])
      BY <2>2, <3>2, <3>4
    <3> QED
      BY <2>1, <3>2, <3>4, <3>5, <3>6 DEF DetectBeacon
  <2> QED
    BY <2>2, <2>3, <2>4 DEF HeartbeatsKept
<1>2. CASE UNCHANGED <<tracked, log>>
  <2>1. /\ connection_intervals' = connection_intervals /\ beacon_alerted' = beacon_alerted
        /\ log' = log
    BY <1>2 DEF tracked, beacon
  <2>2. \A c : Beats(c)' = Beats(c)
    BY <2>1 DEF Beats, PairOf
  <2>3. Met(Outbound)' = Met(Outbound)
    BY <2>1 DEF Met, Outbound
  <2>4. HeartbeatReported'
    <3> SUFFICES ASSUME NEW c \in {PairOf(log'[i].pkt) : i \in Met(Outbound)'},
                        PairOf(Last(log').pkt) = c, ~Last(log').pkt.trusted,
                        NEW b \in [1..BeaconLen -> DOMAIN (Beats(c)')],
                        Attempts(Beats(c)', b, BeaconLen), NEW d \in MeanMin..MeanMax,
                        \A k \in 2..BeaconLen : Beats(c)'[b[k]] - Beats(c)'[b[k - 1]] = d
                 PROVE  c \in beacon_alerted'
      BY DEF HeartbeatReported, Attempts, PairOf
    <3>1. c \in {PairOf(log[i].pkt) : i \in Met(Outbound)} /\ Last(log') = Last(log)
      BY <2>1, <2>3
    <3>2. Beats(c)' = Beats(c)
      BY <2>2
    <3>3. /\ b \in [1..BeaconLen -> DOMAIN Beats(c)] /\ Attempts(Beats(c), b, BeaconLen)
          /\ \A k \in 2..BeaconLen : Beats(c)[b[k]] - Beats(c)[b[k - 1]] = d
      BY <3>2
    <3>4. c \in beacon_alerted
      BY <3>1, <3>3 DEF HeartbeatsKept, HeartbeatReported
    <3> QED
      BY <2>1, <3>4
  <2> QED
    BY <2>1, <2>2, <2>4 DEF HeartbeatsKept
<1> QED
  BY <1>1, <1>2, QuietStep

\* display.rs:624-706: what follows an attempt too soon leaves no stamp and what is
\* older than the newest BeaconKept stamps is not looked at, so that the stamps
\* judged after the last attempt of a heartbeat are the times of its attempts.
THEOREM HeartbeatReportedHolds == Spec => []HeartbeatReported
<1> DEFINE Inv == Logged /\ HeartbeatsKept
<1>1. Init => Inv
  BY LoggedInit, HeartbeatsInit
<1>2. Inv /\ [Next]_vars => Inv'
  BY LoggedStep, HeartbeatsStep
<1>3. Inv => HeartbeatReported
  BY DEF HeartbeatsKept
<1> QED
  BY <1>1, <1>2, <1>3, PTL DEF Spec
=============================================================================
