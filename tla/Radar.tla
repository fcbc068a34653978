------------------------------- MODULE Radar -------------------------------
(***************************************************************************)
(* The topology radar: the nodes that packets make, the host in its        *)
(* middle, the nodes on its two rings and the one that is selected.  Where *)
(* on its ring a node is drawn, the sweep line and its echoes are left     *)
(* out, and of a label only which addresses share it.                      *)
(***************************************************************************)
EXTENDS Naturals, FiniteSets, Functions

CONSTANTS
  NodeAddr,        \* the addresses, as numbers: N goes through them in order
  PrivateAddr,     \* is_private_ip
  GroupAddr,       \* multicast and broadcast addresses, which make no node
  Labelings,       \* what labels the addresses may have: functions on NodeAddr
  NodeAge,         \* 30 seconds
  LocalRing,       \* 12 nodes
  OuterRing,       \* 16 nodes
  FewBytes,        \* 500
  PacketSize,
  MaxMet           \* bound on the packets of a run

VARIABLES
  graph_nodes,         \* a function on the addresses that are nodes
  src_packet_counts,
  dest_bytes,
  show_graph,
  positioned_nodes,    \* the nodes on the rings
  selected_node        \* 0 for None

radar == <<graph_nodes, src_packet_counts, dest_bytes, show_graph, positioned_nodes,
           selected_node>>

PinnedOf(nodes) == {ip \in DOMAIN nodes : nodes[ip].pinned}

\* The address of an interface is the host, if one is found.
RadarInit ==
  /\ graph_nodes \in {[ip \in hosts |-> [age |-> 0, pinned |-> TRUE]] :
                        hosts \in {{}} \cup {{h} : h \in NodeAddr \ GroupAddr}}
  /\ src_packet_counts = [ip \in NodeAddr |-> 0]
  /\ dest_bytes = [ip \in NodeAddr |-> 0]
  /\ show_graph = FALSE
  /\ positioned_nodes = {}
  /\ selected_node = 0

-----------------------------------------------------------------------------
\* The ends of a packet become nodes or were just seen.
Met(ips) ==
  [ip \in DOMAIN graph_nodes \cup (ips \ GroupAddr) |->
     [age    |-> IF ip \in ips \ GroupAddr THEN 0 ELSE graph_nodes[ip].age,
      pinned |-> ip \in PinnedOf(graph_nodes)]]

\* (bug) Whether there is a host is not asked.
WithHost_Again(nodes, counts) ==
  LET local == {ip \in DOMAIN nodes \cap PrivateAddr : counts[ip] > 0}
  IN IF local = {} THEN {nodes}
     ELSE {[nodes EXCEPT ![h].pinned = TRUE] :
             h \in {ip \in local : \A other \in local : counts[other] <= counts[ip]}}

\* The local source of most packets is taken for the host if there is none: what
\* the nodes may become.
WithHost(nodes, counts) ==
  LET local == {ip \in DOMAIN nodes \cap PrivateAddr : counts[ip] > 0}
  IN IF local = {} \/ PinnedOf(nodes) # {} THEN {nodes}
     ELSE {[nodes EXCEPT ![h].pinned = TRUE] :
             h \in {ip \in local : \A other \in local : counts[other] <= counts[ip]}}

\* What ingest_packet does for the radar.  A packet that is not listed, whitelisted
\* or of the program's own lookups, leaves before the host is looked for.
MeetPacket(src, dst, size, listed) ==
  /\ src_packet_counts' = [src_packet_counts EXCEPT ![src] = @ + 1]
  /\ dest_bytes' = [dest_bytes EXCEPT ![dst] = @ + size]
  /\ graph_nodes' \in IF listed THEN WithHost(Met({src, dst}), src_packet_counts')
                                ELSE {Met({src, dst})}
  /\ UNCHANGED <<show_graph, positioned_nodes, selected_node>>

-----------------------------------------------------------------------------
\* (bug) The nodes expire before the host is refreshed.
Kept_ExpireFirst(nodes) ==
  [ip \in {n \in DOMAIN nodes : nodes[n].age < NodeAge} |->
     [nodes[ip] EXCEPT !.age = IF nodes[ip].pinned THEN 0 ELSE @]]

\* The host is seen by every tick, then the nodes that were not seen for NodeAge
\* expire.
Kept(nodes) ==
  [ip \in {n \in DOMAIN nodes : nodes[n].pinned \/ nodes[n].age < NodeAge} |->
     [nodes[ip] EXCEPT !.age = IF nodes[ip].pinned THEN 0 ELSE @]]

\* The rings that may be drawn of some addresses: for each label, while there is
\* room, the address with most bytes, those with most bytes first.
Rings(ips, label, room) ==
  LET Leads(ip) == \A other \in ips :
                     label[other] = label[ip] => dest_bytes[other] <= dest_bytes[ip]
      labels    == {label[ip] : ip \in ips}
  IN {ring \in SUBSET {ip \in ips : Leads(ip)} :
        /\ Cardinality({label[ip] : ip \in ring}) = Cardinality(ring)
        /\ Cardinality(ring) = IF Cardinality(labels) < room THEN Cardinality(labels)
                                                             ELSE room
        /\ \A in \in ring, out \in ips :
             label[out] \notin {label[ip] : ip \in ring} =>
               dest_bytes[out] <= dest_bytes[in]}

UpdateRadarLayout(label) ==
  /\ show_graph
  /\ graph_nodes' = Kept(graph_nodes)
  /\ LET others == DOMAIN graph_nodes' \ PinnedOf(graph_nodes')
         local  == {ip \in others \cap PrivateAddr : dest_bytes[ip] >= FewBytes}
     IN \E inner \in Rings(local, label, LocalRing),
           outer \in Rings(others \ PrivateAddr, label, OuterRing) :
          positioned_nodes' = inner \cup outer
  /\ UNCHANGED <<src_packet_counts, dest_bytes, show_graph, selected_node>>

\* G.
ToggleGraph ==
  /\ show_graph' = ~show_graph
  /\ UNCHANGED <<graph_nodes, src_packet_counts, dest_bytes, positioned_nodes, selected_node>>

Least(ips) == CHOOSE ip \in ips : \A other \in ips : ip <= other

\* N goes to the next of all nodes, not only of those on the rings.
SelectNext ==
  LET nodes == DOMAIN graph_nodes
      later == {ip \in nodes : ip > selected_node}
  IN /\ show_graph /\ nodes # {}
     /\ selected_node' = IF selected_node \in nodes /\ later # {} THEN Least(later)
                                                                  ELSE Least(nodes)
     /\ UNCHANGED <<graph_nodes, src_packet_counts, dest_bytes, show_graph, positioned_nodes>>

\* Esc.
Deselect ==
  /\ show_graph
  /\ selected_node' = 0
  /\ UNCHANGED <<graph_nodes, src_packet_counts, dest_bytes, show_graph, positioned_nodes>>

\* Time passes; how long after NodeAge a node was seen makes no difference.
GrowOlder ==
  /\ graph_nodes' = [ip \in DOMAIN graph_nodes |->
       [graph_nodes[ip] EXCEPT !.age = IF @ < NodeAge THEN @ + 1 ELSE @]]
  /\ UNCHANGED <<src_packet_counts, dest_bytes, show_graph, positioned_nodes, selected_node>>

PacketsMet == FoldFunction(LAMBDA n, sum : n + sum, 0, src_packet_counts)

RadarNext ==
  \/ \E src, dst \in NodeAddr, size \in PacketSize, listed \in BOOLEAN :
       /\ src # dst /\ src \notin GroupAddr
       /\ PacketsMet < MaxMet
       /\ MeetPacket(src, dst, size, listed)
  \/ \E label \in Labelings : UpdateRadarLayout(label)
  \/ ToggleGraph \/ SelectNext \/ Deselect \/ GrowOlder
=============================================================================
