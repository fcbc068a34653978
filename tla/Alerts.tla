------------------------------- MODULE Alerts -------------------------------
(***************************************************************************)
(* What the UI loop does with a packet: the detectors (DNS flood, beacon,  *)
(* port scan), the rules, the whitelist, and at the end the live feed.     *)
(* A packet is a record: addresses, protocol, ports, the set of TCP flags, *)
(* whether the process table names a trusted program for it, and what DNS  *)
(* or TLS data it carries.  Counters that are only displayed are left out. *)
(***************************************************************************)
EXTENDS AlertPanel, Integers, FiniteSets, SequencesExt

CONSTANTS
  Traffic,         \* the situations a run explores, see below
  Noise,           \* addresses is_noise_address drops
  Private,         \* is_private_ip
  Local,           \* is_local_or_multicast: private and loopback
  LinkLocal,       \* 169.254.0.0/16
  GeoService,      \* 208.95.112.1
  FloodLimit, FloodWindow,           \* 5 responses, 1 second
  BeaconGap, BeaconLen, BeaconKept,  \* 4 seconds, 6 stamps of the newest 20
  MeanMin, MeanMax,                  \* 5 and 300 seconds
  ScanLimit,       \* 25 ports
  VolumeLimit,     \* 500 packets
  MaxPackets,      \* bound on the packets of a run
  FeedCap, Rows    \* of Feed

Packet == [src : Address, dst : Address,
           proto : {"tcp", "udp", "icmp", "unknown"},
           sport : Nat, dport : Nat,
           flags : SUBSET {"SYN", "ACK", "FIN", "RST", "PSH", "URG"},
           trusted : BOOLEAN,
           answers : SUBSET Address,
           domain : {"none", "service", "other"}]

\* What may come from outside while the program runs: packets, at most so many,
\* the times between them, whether the discovery thread reports something, the
\* addresses the user types after W and whether the user presses C.
Situation == [packets : SUBSET Packet, most : Nat, gaps : SUBSET Nat,
              notice : BOOLEAN, typed : SUBSET Address, clear : BOOLEAN]

ASSUME AlertAssumption ==
  /\ \A t \in Traffic : t \in Situation /\ t.most <= MaxPackets /\ 0 \notin t.gaps
  /\ Private \subseteq Local /\ Noise \subseteq Address
  /\ {FloodLimit, FloodWindow, ScanLimit, VolumeLimit, AlertCap} \subseteq Nat \ {0}
  /\ {BeaconGap, BeaconLen, BeaconKept, MeanMin, MeanMax, MaxPackets} \subseteq Nat
  /\ 2 <= BeaconLen /\ BeaconLen <= BeaconKept

NoPort == 65536   \* the port is None
Pair   == Address \X Address

VARIABLES
  traffic,                 \* one of Traffic
  now,
  whitelist,
  dns_cache,               \* what the name of an address is: a service or not
  connections,             \* the keys met so far
  pair_packet_counts, high_volume_alerted,
  dns_response_counts, dns_poison_alerted,
  connection_intervals, beacon_alerted,
  src_port_targets, port_scan_alerted,
  external_alerted,
  feed, arrived, display_filter, feed_scroll, feed_paused_scroll,
  log,                     \* history: the packets ingested, with their times
  raised                   \* history: the alerts pushed

F == INSTANCE Feed WITH MaxKeys <- 0

feeds   == <<feed, arrived, display_filter, feed_scroll, feed_paused_scroll>>
volume  == <<pair_packet_counts, high_volume_alerted>>
flood   == <<dns_response_counts, dns_poison_alerted>>
beacon  == <<connection_intervals, beacon_alerted>>
scan    == <<src_port_targets, port_scan_alerted>>
tracked == <<dns_cache, connections, volume, flood, beacon, scan, external_alerted>>
vars    == <<traffic, now, whitelist, tracked, panel, feeds, log, raised>>

Init ==
  /\ traffic \in Traffic
  /\ now = 0
  /\ whitelist = {}
  /\ dns_cache = [a \in Address |-> "none"]
  /\ connections = {}
  /\ pair_packet_counts = [c \in Pair |-> 0]
  /\ high_volume_alerted = {}
  /\ dns_response_counts = [c \in Pair |-> [count |-> 0, start |-> 0]]
  /\ dns_poison_alerted = {}
  /\ connection_intervals = [c \in Pair |-> <<>>]
  /\ beacon_alerted = {}
  /\ src_port_targets = [a \in Address |-> {}]
  /\ port_scan_alerted = {}
  /\ external_alerted = {}
  /\ PanelInit
  /\ F!Init
  /\ log = <<>>
  /\ raised = <<>>

-----------------------------------------------------------------------------
\* (bug) Both directions are one connection.
KeyOf_Both(p) == {p.src, p.dst}

PairOf(p) == <<p.src, p.dst>>
KeyOf(p)  == <<p.src, p.dst, p.dport>>

Outbound(p) == p.dst \notin Local
Since(t) == now - t

-----------------------------------------------------------------------------
\* Names from the answers of a response, then from the TLS or HTTP data, which
\* name the destination only if it has no name yet.
LearnNames(p) ==
  LET answered == [a \in Address |-> IF a \in p.answers THEN p.domain ELSE dns_cache[a]]
  IN dns_cache' =
       IF p.answers = {} /\ p.domain # "none" /\ dns_cache[p.dst] = "none"
         THEN [dns_cache EXCEPT ![p.dst] = p.domain]
         ELSE answered

\* (bug) Only the first packet of a connection counts.
CountPacket_New(p) ==
  /\ connections' = connections \cup {KeyOf(p)}
  /\ pair_packet_counts' =
       [pair_packet_counts EXCEPT ![PairOf(p)] =
          IF @ < VolumeLimit /\ KeyOf(p) \notin connections THEN @ + 1 ELSE @]

CountPacket(p) ==
  /\ connections' = connections \cup {KeyOf(p)}
  /\ pair_packet_counts' =
       [pair_packet_counts EXCEPT ![PairOf(p)] = IF @ < VolumeLimit THEN @ + 1 ELSE @]

-----------------------------------------------------------------------------
(***************************************************************************)
(* The detectors.  They run for whitelisted addresses as well.             *)
(***************************************************************************)
IsDnsResponse(p) == p.proto = "udp" /\ p.sport = 53 /\ p.src \notin Private

\* (bug) The window never ends.
Counted_NoReset(e) ==
  IF e.count = 0 THEN [count |-> 1, start |-> now] ELSE [e EXCEPT !.count = @ + 1]

\* (bug) The response that begins a window is not counted.
Counted_FromZero(e) ==
  IF e.count = 0 THEN [count |-> 1, start |-> now]
  ELSE IF Since(e.start) > FloodWindow THEN [count |-> 0, start |-> now]
  ELSE [e EXCEPT !.count = @ + 1]

\* A window begins with a response more than FloodWindow after the last one began.
Counted(e) ==
  IF e.count = 0 \/ Since(e.start) > FloodWindow
    THEN [count |-> 1, start |-> now]
    ELSE [e EXCEPT !.count = @ + 1]

DetectFlood(p) ==
  IF IsDnsResponse(p)
    THEN /\ dns_response_counts' = [dns_response_counts EXCEPT ![PairOf(p)] = Counted(@)]
         /\ dns_poison_alerted' =
              IF Counted(dns_response_counts[PairOf(p)]).count > FloodLimit
                THEN dns_poison_alerted \cup {p.src} ELSE dns_poison_alerted
    ELSE UNCHANGED flood

\* (bug) Every packet leaves a stamp.
Stamped_Always(stamps) ==
  LET all == Append(stamps, now)
  IN IF Len(all) > BeaconKept THEN SubSeq(all, Len(all) - BeaconKept + 1, Len(all))
                              ELSE all

\* A stamp is recorded more than BeaconGap after the last one recorded.
Stamped(stamps) ==
  LET all == IF stamps = <<>> \/ Since(Last(stamps)) > BeaconGap
               THEN Append(stamps, now) ELSE stamps
  IN IF Len(all) > BeaconKept THEN SubSeq(all, Len(all) - BeaconKept + 1, Len(all))
                              ELSE all

\* (bug) The oldest stamps are judged, not the newest.
Regular_Oldest(stamps) ==
  LET n    == BeaconLen - 1
      gap(i) == stamps[i + 1] - stamps[i]
      sum  == stamps[n + 1] - stamps[1]
      squares[i \in 0..n] == IF i = 0 THEN 0 ELSE squares[i - 1] + gap(i) * gap(i)
  IN /\ Len(stamps) >= BeaconLen
     /\ MeanMin * n <= sum /\ sum <= MeanMax * n
     /\ 25 * n * squares[n] < 26 * sum * sum

\* The mean of the last gaps is in its bounds and their standard deviation is
\* below a fifth of it, in integers.
Regular(stamps) ==
  LET n    == BeaconLen - 1
      last == SubSeq(stamps, Len(stamps) - n, Len(stamps))
      gap(i) == last[i + 1] - last[i]
      sum  == last[n + 1] - last[1]
      squares[i \in 0..n] == IF i = 0 THEN 0 ELSE squares[i - 1] + gap(i) * gap(i)
  IN /\ Len(stamps) >= BeaconLen
     /\ MeanMin * n <= sum /\ sum <= MeanMax * n
     /\ 25 * n * squares[n] < 26 * sum * sum

DetectBeacon(p) ==
  IF Outbound(p)
    THEN LET stamps == Stamped(connection_intervals[PairOf(p)])
         IN /\ connection_intervals' = [connection_intervals EXCEPT ![PairOf(p)] = stamps]
            /\ beacon_alerted' = IF Regular(stamps) /\ ~p.trusted
                                   THEN beacon_alerted \cup {PairOf(p)} ELSE beacon_alerted
    ELSE UNCHANGED beacon

IsProbe(p) ==
  /\ p.proto \in {"tcp", "udp"}
  /\ p.src \notin Private /\ p.dst \in Private

\* (bug) The limit itself is reported.
DetectScan_AtLimit(p) ==
  LET ports == src_port_targets[p.src] \cup {p.dport}
      found == Cardinality(ports) >= ScanLimit /\ p.src \notin port_scan_alerted
  IN IF IsProbe(p)
       THEN /\ src_port_targets' =
                 [src_port_targets EXCEPT ![p.src] = IF found THEN {} ELSE ports]
            /\ port_scan_alerted' = IF found THEN port_scan_alerted \cup {p.src}
                                             ELSE port_scan_alerted
       ELSE UNCHANGED scan

\* The ports of a source reported are forgotten, and collected again.
DetectScan(p) ==
  LET ports == src_port_targets[p.src] \cup {p.dport}
      found == Cardinality(ports) > ScanLimit /\ p.src \notin port_scan_alerted
  IN IF IsProbe(p)
       THEN /\ src_port_targets' =
                 [src_port_targets EXCEPT ![p.src] = IF found THEN {} ELSE ports]
            /\ port_scan_alerted' = IF found THEN port_scan_alerted \cup {p.src}
                                             ELSE port_scan_alerted
       ELSE UNCHANGED scan

-----------------------------------------------------------------------------
(***************************************************************************)
(* The alerts of a packet, in the order they are pushed.                   *)
(***************************************************************************)
Alert(rule, tier, about) == [at |-> now, rule |-> rule, tier |-> tier, about |-> about]
When(c, alert) == IF c THEN <<alert>> ELSE <<>>

\* (bug) The sets of what was reported are not consulted.
Detected_Again(p) ==
     When(IsDnsResponse(p) /\ p.src \in dns_poison_alerted',
          Alert("flood", "suspicious", <<p.src>>))
  \o When(Outbound(p) /\ PairOf(p) \in beacon_alerted',
          Alert("beacon", "behavioral", PairOf(p)))
  \o When(IsProbe(p) /\ p.src \in port_scan_alerted',
          Alert("scan", "suspicious", <<p.src>>))

Detected(p) ==
     When(dns_poison_alerted' # dns_poison_alerted,
          Alert("flood", "suspicious", <<p.src>>))
  \o When(beacon_alerted' # beacon_alerted,
          Alert("beacon", "behavioral", PairOf(p)))
  \o When(port_scan_alerted' # port_scan_alerted,
          Alert("scan", "suspicious", <<p.src>>))

\* Rules 1 to 4.
BadFlags(p) ==
  LET Tcp(wrong) == When(p.proto = "tcp" /\ wrong, Alert("flags", "suspicious", <<p.src>>))
  IN Tcp({"SYN", "FIN"} \subseteq p.flags)
       \o Tcp({"SYN", "PSH"} \subseteq p.flags /\ "ACK" \notin p.flags)
       \o Tcp(p.flags = {})
       \o Tcp({"FIN", "PSH", "URG"} \subseteq p.flags)

SensitivePort == {21, 23, 445, 3389}

Ruled(p) ==
     BadFlags(p)
  \o When(p.dport \in SensitivePort /\ Outbound(p),
          Alert("sensitive port", "suspicious", <<p.dst>>))
  \o When(p.dport < 1024 /\ p.dst \in Private /\ p.src \notin Private,
          Alert("inbound", "suspicious", <<p.src>>))
  \o When(high_volume_alerted' # high_volume_alerted,
          Alert("volume", "behavioral", PairOf(p)))

IsLeak(p) ==
  /\ p.proto = "udp" /\ Outbound(p)
  /\ \/ p.dport = 5353 /\ p.dst \notin LinkLocal
     \/ p.dport = 67

DiscoveryPort == {1900, 3702, 5353, 5355, 67, 68, 137, 138, 139}

\* The leaks, rules 5 and 6.  trusted_org: what the GeoIP cache says of p.dst.
Reported(p, trusted_org) ==
  LET first == KeyOf(p) \notin connections
  IN When(IsLeak(p), Alert("leak", "suspicious", PairOf(p)))
       \o When(external_alerted' # external_alerted,
               Alert("outbound", IF trusted_org THEN "noise" ELSE "external", <<p.dst>>))
       \o When({p.sport, p.dport} \cap DiscoveryPort # {} /\ first /\ ~IsLeak(p),
               Alert("local discovery", "noise", PairOf(p)))

-----------------------------------------------------------------------------
Whitelisted(p) == p.src \in whitelist \/ p.dst \in whitelist

\* The program's own lookups, by address or by name.
IsService(p) ==
  \E a \in {p.src, p.dst} : a \in GeoService \/ dns_cache'[a] = "service"

IngestPacket(p, trusted_org) ==
  LET listed == ~Whitelisted(p)
      shown  == listed /\ ~IsService(p)
      new    == Outbound(p) /\ KeyOf(p) \notin connections /\ ~IsLeak(p)
      as     == Detected(p) \o (IF listed THEN Ruled(p) ELSE <<>>)
                            \o (IF shown THEN Reported(p, trusted_org) ELSE <<>>)
  IN /\ Len(log) < traffic.most
     /\ {p.src, p.dst} \cap Noise = {}
     /\ LearnNames(p)
     /\ CountPacket(p)
     /\ DetectFlood(p)
     /\ DetectBeacon(p)
     /\ DetectScan(p)
     /\ high_volume_alerted' =
          IF listed /\ pair_packet_counts'[PairOf(p)] >= VolumeLimit
            THEN high_volume_alerted \cup {PairOf(p)} ELSE high_volume_alerted
     /\ external_alerted' =
          IF shown /\ new THEN external_alerted \cup {p.dst} ELSE external_alerted
     /\ PushAlerts(as)
     /\ IF shown THEN F!IngestPacket(p.proto) ELSE UNCHANGED feeds
     /\ log' = Append(log, [pkt |-> p, at |-> now])
     /\ raised' = raised \o as
     /\ UNCHANGED <<traffic, now, whitelist>>

\* An alert of the discovery thread, drained by the loop.
DiscoveryAlert(t, ip) ==
  LET a == Alert("discovery", t, <<ip>>)
  IN /\ traffic.notice /\ \A i \in DOMAIN raised : raised[i].rule # "discovery"
     /\ PushAlerts(<<a>>)
     /\ raised' = Append(raised, a)
     /\ UNCHANGED <<traffic, now, whitelist, tracked, feeds, log>>

WhitelistIp(ip) ==
  /\ whitelist' = whitelist \cup {ip}
  /\ ForgetAlerts(ip)
  /\ UNCHANGED <<traffic, now, tracked, feeds, log, raised>>

PressClear ==
  /\ traffic.clear
  /\ ClearAlerts
  /\ UNCHANGED <<traffic, now, whitelist, tracked, feeds, log, raised>>

\* Time passes after a packet.
Wait(d) ==
  /\ log # <<>> /\ Last(log).at = now
  /\ now' = now + d
  /\ UNCHANGED <<traffic, whitelist, tracked, panel, feeds, log, raised>>

Next ==
  \/ \E p \in traffic.packets, trusted_org \in BOOLEAN : IngestPacket(p, trusted_org)
  \/ \E t \in {"suspicious", "noise"}, ip \in Address : DiscoveryAlert(t, ip)
  \/ \E ip \in traffic.typed : WhitelistIp(ip)
  \/ PressClear
  \/ \E d \in traffic.gaps : Wait(d)

Spec == Init /\ [][Next]_vars
-----------------------------------------------------------------------------
(***************************************************************************)
(* Properties.                                                             *)
(***************************************************************************)
Met(Test(_)) == {i \in DOMAIN log : Test(log[i].pkt)}

ProbedPorts(s) == {log[i].pkt.dport : i \in Met(LAMBDA p : IsProbe(p) /\ p.src = s)}

\* The limits are reported when they are met and not before, whatever came
\* between: a source, if it probed more than ScanLimit ports of private addresses
\* since the start, although its ports are forgotten when it is reported; and a
\* pair neither of whose addresses is whitelisted, if VolumeLimit packets of it
\* came over all its ports.
LimitsReported ==
  /\ \A s \in Address : s \in port_scan_alerted <=> Cardinality(ProbedPorts(s)) > ScanLimit
  /\ \A c \in Pair :
       c[1] \notin whitelist /\ c[2] \notin whitelist =>
         (c \in high_volume_alerted
            <=> Cardinality(Met(LAMBDA p : PairOf(p) = c)) >= VolumeLimit)

\* More than n responses of a pair of addresses came within w.
Burst(c, n, w) ==
  LET responses == Met(LAMBDA p : IsDnsResponse(p) /\ PairOf(p) = c)
  IN \E i \in responses :
       Cardinality({j \in responses : /\ log[i].at <= log[j].at
                                      /\ log[j].at <= log[i].at + w}) > n

\* A source reported for a DNS flood sent such a burst to one address; and a burst
\* of twice the limit is reported, wherever the windows begin: of the two it may
\* lie in, the first began with a response before it.
FloodReported ==
  /\ \A s \in dns_poison_alerted : \E d \in Address : Burst(<<s, d>>, FloodLimit, FloodWindow)
  /\ \A c \in Pair :
       Burst(c, 2 * FloodLimit - 1, FloodWindow) => c[1] \in dns_poison_alerted

\* The times of a pair's packets.
Beats(c) ==
  LET packets == Selected(log, {i \in DOMAIN log : PairOf(log[i].pkt) = c})
  IN [i \in DOMAIN packets |-> packets[i].at]

\* The packets b of those at times t are m attempts in a row: what comes between
\* two of them, or after the last, comes within BeaconGap of the one before it.
Attempts(t, b, m) ==
  /\ b[1] = 1 \/ t[b[1]] - t[b[1] - 1] > BeaconGap
  /\ \A k \in 2..m : b[k - 1] < b[k] /\ t[b[k]] - t[b[k - 1]] > BeaconGap
  /\ \A k \in 1..m : \A i \in b[k]..(IF k = m THEN Len(t) ELSE b[k + 1] - 1) :
       t[i] - t[b[k]] <= BeaconGap

\* A heartbeat, BeaconLen attempts with one gap between the bounds, is reported
\* when the last one came or a packet after it, as soon as its process is not a
\* trusted one: each attempt may be a burst of packets, and irregular traffic of
\* the pair before the first leaves no stamp that could hide it.
HeartbeatReported ==
  \A c \in {PairOf(log[i].pkt) : i \in Met(Outbound)} :
    LET t == Beats(c)
    IN \A b \in [1..BeaconLen -> DOMAIN t] :
         (/\ PairOf(Last(log).pkt) = c /\ ~Last(log).pkt.trusted
          /\ Attempts(t, b, BeaconLen)
          /\ \E d \in MeanMin..MeanMax : \A k \in 2..BeaconLen : t[b[k]] - t[b[k - 1]] = d)
         => c \in beacon_alerted

\* The log has no alert of a rule about a whitelisted address, raised before or
\* after.  (The detectors and the discovery thread do not ask the whitelist.)
WhitelistHolds ==
  \A t \in Tier : \A i \in DOMAIN alerts[t] :
    LET a == alerts[t][i]
    IN a.rule \in {"flood", "beacon", "scan", "discovery"}
         \/ \A j \in DOMAIN a.about : a.about[j] \notin whitelist

\* What a detector, the volume rule or the outbound rule reported it does not
\* report again, also when the log was cleared.
AlertedOnce ==
  \A i, j \in DOMAIN raised :
    /\ raised[i].rule = raised[j].rule /\ raised[i].about = raised[j].about
    /\ raised[i].rule \in {"flood", "beacon", "scan", "volume", "outbound"}
    => i = j

\* The addresses that a packet ever named as a service.
Named == UNION {log[i].pkt.answers \cup {log[i].pkt.dst} :
                  i \in Met(LAMBDA p : p.domain = "service")}

\* Every public destination of a packet was reported, unless it or the source is
\* whitelisted, one of them is a service, or the connection began with a leak.
OutboundReported ==
  \A i \in Met(Outbound) :
    LET p == log[i].pkt
    IN \/ p.dst \in external_alerted
       \/ Whitelisted(p)
       \/ {p.src, p.dst} \cap (GeoService \cup Named) # {}
       \/ Met(LAMBDA q : KeyOf(q) = KeyOf(p) /\ IsLeak(q)) # {}
=============================================================================
