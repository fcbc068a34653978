------------------------------- MODULE Panels -------------------------------
(***************************************************************************)
(* The three panels and the radar under a reader: packets, alerts and      *)
(* devices arrive while the reader scrolls, filters, clears, whitelists,   *)
(* and walks over the nodes of the radar.  The panels share no variable,   *)
(* so a behaviour of all is one of each: the panel a behaviour exercises   *)
(* is the one that has the focus.                                          *)
(***************************************************************************)
EXTENDS Feed

CONSTANTS
  Address, Within(_, _), AlertCap, AlertRows,       \* of AlertPanel
  DeviceAddr, FirstV6, SubnetSize, DeviceRows,      \* of DeviceList
  NodeAddr, PrivateAddr, GroupAddr, Labelings,      \* of Radar
  NodeAge, LocalRing, OuterRing, FewBytes, PacketSize, MaxMet,
  MaxAlerts                                         \* bound on the alerts of a run

ASSUME PanelsAssumption ==
  /\ AlertCap \in Nat \ {0} /\ AlertRows \in Nat /\ MaxAlerts \in Nat
  /\ DeviceAddr \subseteq Nat \ {0} /\ IsFiniteSet(DeviceAddr) /\ FirstV6 \in Nat
  /\ SubnetSize \in Nat \ {0} /\ DeviceRows \in Nat
  /\ NodeAddr \subseteq Nat \ {0} /\ PacketSize \subseteq Nat
  /\ PrivateAddr \cup GroupAddr \subseteq NodeAddr
  /\ \A label \in Labelings : DOMAIN label = NodeAddr
  /\ NodeAge \in Nat \ {0} /\ {LocalRing, OuterRing, FewBytes, MaxMet} \subseteq Nat

VARIABLES
  alerts, total_alerts, alert_filter, alert_scroll, alert_paused_scroll,
  scan_has_run, active_discovery, discovery_filter, discovery_scroll,
  discovery_paused_scroll,
  graph_nodes, src_packet_counts, dest_bytes, show_graph, positioned_nodes,
  selected_node,
  focused_panel

A == INSTANCE AlertPanel
D == INSTANCE DeviceList
R == INSTANCE Radar

panel == <<alerts, total_alerts, alert_filter, alert_scroll, alert_paused_scroll>>
devicesView == <<scan_has_run, active_discovery, discovery_filter, discovery_scroll,
                 discovery_paused_scroll>>
radar == <<graph_nodes, src_packet_counts, dest_bytes, show_graph, positioned_nodes,
           selected_node>>

PanelsInit ==
  /\ Init
  /\ A!PanelInit
  /\ D!ListInit
  /\ R!RadarInit
  /\ focused_panel \in {"feed", "alerts", "discovery", "radar"}
  /\ focused_panel # "radar" => graph_nodes = <<>>

Pushed == total_alerts["suspicious"] + total_alerts["behavioral"]
            + total_alerts["external"] + total_alerts["noise"]

\* An alert of any tier; its number stands for the time.
PushAlert(t, ip) ==
  /\ Pushed < MaxAlerts
  /\ A!PushAlerts(<<[at |-> Pushed + 1, rule |-> "any", tier |-> t, about |-> <<ip>>]>>)

FeedStep ==
  /\ focused_panel = "feed"
  /\ \/ \E p \in Protocol : IngestPacket(p)
     \/ ScrollUp
     \/ ScrollDown
     \/ ResumeScroll
     \/ CycleFilter
  /\ UNCHANGED <<panel, devicesView, radar, focused_panel>>

AlertStep ==
  /\ focused_panel = "alerts"
  /\ \/ \E t \in A!Tier, ip \in Address : PushAlert(t, ip)
     \/ A!ClearAlerts
     \/ \E ip \in Address : A!ForgetAlerts(ip)
     \/ A!ScrollUp
     \/ A!ScrollDown
     \/ A!ResumeScroll
     \/ A!CycleFilter
  /\ UNCHANGED <<vars, devicesView, radar, focused_panel>>

DeviceStep ==
  /\ focused_panel = "discovery"
  /\ D!ListNext
  /\ UNCHANGED <<vars, panel, radar, focused_panel>>

RadarStep ==
  /\ focused_panel = "radar"
  /\ R!RadarNext
  /\ UNCHANGED <<vars, panel, devicesView, focused_panel>>

PanelsNext == FeedStep \/ AlertStep \/ DeviceStep \/ RadarStep

PanelsSpec ==
  PanelsInit /\ [][PanelsNext]_<<vars, panel, devicesView, radar, focused_panel>>
-----------------------------------------------------------------------------
(***************************************************************************)
(* Properties.                                                             *)
(***************************************************************************)
\* No device is lost to the reader: while the panel has two rows for each subnet,
\* the Up key stops only after every device of the list has been on a line,
\* although its limit counts no headings, ignores the filter, and the notice of a
\* reader who is back hides a line at every offset.  (With more subnets than that
\* the topmost devices are never shown.)
DevicesInReach ==
  /\ DeviceRows >= 2
  /\ 2 * Cardinality(D!Subnets) <= DeviceRows
  => \A d \in D!Listed : \E s \in 0..D!ScrollLimit :
       \E i \in DOMAIN D!VisibleAt(s) : D!VisibleAt(s)[i] = d

Times(list) == {list[i].at : i \in DOMAIN list}

\* The alerts a step takes out.
Gone == UNION {Times(alerts[t]) \ Times(alerts[t]') : t \in A!Tier}

\* The alert at the top stays there.  The offset may be far above the length of
\* the log after C or W.
AlertsKeepPlace ==
  LET top == A!Visible[1].at
  IN alert_paused_scroll /\ Pushed' > Pushed /\ A!Listed' # A!Listed
       /\ A!Visible # <<>> /\ (\A n \in Gone : n < top)
     => A!Visible' # <<>> /\ A!Visible'[1].at = top

\* A reader who is back keeps the place: what is pushed meanwhile, and the oldest
\* entry a full list drops for it, does not move the lines under the eyes, in the
\* feed (see FeedKeepsPlace for the exceptions) and in the alert log.
ReadersKeepPlace == [][FeedKeepsPlace /\ AlertsKeepPlace]_<<vars, panel>>

\* The radar has at most one host, and keeps it for the session: neither the
\* packets of another busy address nor any time that the radar was hidden, when
\* nobody refreshes the host, takes it out of the middle.
HostStays ==
  [][ /\ Cardinality(R!PinnedOf(graph_nodes')) <= 1
      /\ R!PinnedOf(graph_nodes) \subseteq R!PinnedOf(graph_nodes') ]_radar
=============================================================================
