---------------------------- MODULE PanelsProofs ----------------------------
(***************************************************************************)
(* The host of the radar, the place of a reader and the reach of the Up    *)
(* key, for lists of every capacity, panels of every height and runs of    *)
(* every length.                                                           *)
(*                                                                         *)
(* The place of a reader is a number: the k-th smallest time among those   *)
(* listed is on line k.  A step that lists one more adds the largest of    *)
(* all and takes out at most one below the top line, so that the top line  *)
(* moves up by what went, and the offset by the same.                      *)
(***************************************************************************)
EXTENDS Panels, SequenceTheorems, FiniteSetTheorems, TLAPS

-----------------------------------------------------------------------------
(***************************************************************************)
(* The host of the radar.                                                  *)
(***************************************************************************)
\* Nodes of the radar.
Nodes == UNION {[S -> [age : Nat, pinned : BOOLEAN]] : S \in SUBSET NodeAddr}

OneHost(nodes) == \A h, i \in R!PinnedOf(nodes) : h = i

\* The inductive invariant of HostStays.
HostKept == graph_nodes \in Nodes /\ OneHost(graph_nodes)

\* What a step may do to the host: it stays, or is found.
SameHost(old, new) ==
  /\ new \in Nodes
  /\ \/ R!PinnedOf(new) = R!PinnedOf(old)
     \/ R!PinnedOf(old) = {} /\ \E h \in NodeAddr : R!PinnedOf(new) = {h}

\* The nodes, one by one.
LEMMA NodesAre ==
  ASSUME NEW nodes \in Nodes
  PROVE  /\ DOMAIN nodes \subseteq NodeAddr
         /\ nodes = [ip \in DOMAIN nodes |-> nodes[ip]]
         /\ \A ip \in DOMAIN nodes : nodes[ip].age \in Nat /\ nodes[ip].pinned \in BOOLEAN
                                     /\ nodes[ip] \in [age : Nat, pinned : BOOLEAN]
<1>1. PICK S \in SUBSET NodeAddr : nodes \in [S -> [age : Nat, pinned : BOOLEAN]]
  BY DEF Nodes
<1>2. \A r \in [age : Nat, pinned : BOOLEAN] : r.age \in Nat /\ r.pinned \in BOOLEAN
  OBVIOUS
<1> QED
  BY <1>1, <1>2

\* A function of node records on some of the addresses is one of nodes.
LEMMA NodesFrom ==
  ASSUME NEW S \in SUBSET NodeAddr, NEW nodes, nodes = [ip \in S |-> nodes[ip]],
         \A ip \in S : nodes[ip] \in [age : Nat, pinned : BOOLEAN]
  PROVE  nodes \in Nodes
<1>1. nodes \in [S -> [age : Nat, pinned : BOOLEAN]]
  OBVIOUS
<1> QED
  BY <1>1 DEF Nodes

\* New nodes are not the host, and what was a node stays one.
LEMMA MetSame ==
  ASSUME HostKept, NEW ips \in SUBSET NodeAddr
  PROVE  R!Met(ips) \in Nodes /\ R!PinnedOf(R!Met(ips)) = R!PinnedOf(graph_nodes)
<1> DEFINE S == DOMAIN graph_nodes \cup (ips \ GroupAddr)
           met == R!Met(ips)
<1>1. /\ S \in SUBSET NodeAddr
      /\ \A ip \in DOMAIN graph_nodes : graph_nodes[ip].age \in Nat
  BY NodesAre DEF HostKept
<1>2. met = [ip \in S |-> [age    |-> IF ip \in ips \ GroupAddr THEN 0 ELSE graph_nodes[ip].age,
                           pinned |-> ip \in R!PinnedOf(graph_nodes)]]
  BY DEF R!Met
<1>3. R!PinnedOf(graph_nodes) \subseteq S
  BY DEF R!PinnedOf
<1> HIDE DEF S, met
<1>4. ASSUME NEW ip \in S PROVE met[ip] \in [age : Nat, pinned : BOOLEAN]
  BY <1>1, <1>2 DEF S
<1>5. met \in Nodes
  <2>1. met = [ip \in S |-> met[ip]]
    BY <1>2
  <2> QED
    BY <1>1, <1>4, <2>1, NodesFrom
<1>6. R!PinnedOf(met) = R!PinnedOf(graph_nodes)
  <2>1. DOMAIN met = S /\ \A ip \in S : met[ip].pinned <=> ip \in R!PinnedOf(graph_nodes)
    BY <1>2
  <2>2. \A ip : ip \in R!PinnedOf(met) <=> ip \in S /\ met[ip].pinned
    BY <2>1 DEF R!PinnedOf
  <2> QED
    BY <1>3, <2>1, <2>2
<1> QED
  BY <1>5, <1>6 DEF met

\* A host is found only where there is none.
LEMMA WithHostSame ==
  ASSUME NEW nodes \in Nodes, NEW counts, NEW new \in R!WithHost(nodes, counts)
  PROVE  SameHost(nodes, new)
<1> DEFINE local == {ip \in DOMAIN nodes \cap PrivateAddr : counts[ip] > 0}
<1>1. CASE local = {} \/ R!PinnedOf(nodes) # {}
  <2>1. new = nodes
    BY <1>1 DEF R!WithHost
  <2> QED
    BY <2>1 DEF SameHost
<1>2. CASE ~(local = {} \/ R!PinnedOf(nodes) # {})
  <2>1. PICK h \in local : new = [nodes EXCEPT ![h].pinned = TRUE]
    BY <1>2 DEF R!WithHost
  <2>2. h \in DOMAIN nodes /\ h \in NodeAddr /\ R!PinnedOf(nodes) = {}
    BY <1>2, <2>1, NodesAre
  <2>3. \A ip \in DOMAIN nodes : nodes[ip] \in [age : Nat, pinned : BOOLEAN]
    BY NodesAre
  <2> HIDE DEF local
  <2>4. DOMAIN new = DOMAIN nodes /\ new = [ip \in DOMAIN nodes |-> new[ip]]
    BY <2>1
  <2>5. /\ new[h] = [nodes[h] EXCEPT !.pinned = TRUE]
        /\ \A ip \in DOMAIN nodes : ip # h => new[ip] = nodes[ip]
    BY <2>1, <2>2
  <2>6. new[h] \in [age : Nat, pinned : BOOLEAN] /\ new[h].pinned
    BY <2>2, <2>3, <2>5
  <2>7. new \in Nodes
    <3>1. DOMAIN nodes \in SUBSET NodeAddr
      BY NodesAre
    <3> QED
      BY <2>3, <2>4, <2>5, <2>6, <3>1, NodesFrom
  <2>8. R!PinnedOf(new) = {h}
    <3>1. \A ip \in DOMAIN nodes : ~nodes[ip].pinned
      BY <2>2 DEF R!PinnedOf
    <3>2. \A ip \in DOMAIN new : new[ip].pinned <=> ip = h
      BY <2>4, <2>5, <2>6, <3>1
    <3> QED
      BY <2>2, <2>4, <3>2 DEF R!PinnedOf
  <2> QED
    BY <2>2, <2>7, <2>8 DEF SameHost
<1> QED
  BY <1>1, <1>2

\* The host does not expire.
LEMMA KeptSame ==
  ASSUME NEW nodes \in Nodes
  PROVE  R!Kept(nodes) \in Nodes /\ R!PinnedOf(R!Kept(nodes)) = R!PinnedOf(nodes)
<1> DEFINE S == {n \in DOMAIN nodes : nodes[n].pinned \/ nodes[n].age < NodeAge}
           kept == R!Kept(nodes)
<1>1. kept = [ip \in S |-> [nodes[ip] EXCEPT !.age = IF nodes[ip].pinned THEN 0 ELSE @]]
  BY DEF R!Kept
<1>2. /\ S \in SUBSET NodeAddr
      /\ \A ip \in S : nodes[ip] \in [age : Nat, pinned : BOOLEAN]
  BY NodesAre
<1>3. S \subseteq DOMAIN nodes /\ \A ip \in DOMAIN nodes : nodes[ip].pinned => ip \in S
  OBVIOUS
<1> HIDE DEF S, kept
<1>4. ASSUME NEW ip \in S
      PROVE  /\ kept[ip] \in [age : Nat, pinned : BOOLEAN]
             /\ kept[ip].pinned = nodes[ip].pinned
  <2>1. PICK r \in [age : Nat, pinned : BOOLEAN] : r = nodes[ip]
    BY <1>2
  <2>2. kept[ip] = [r EXCEPT !.age = IF r.pinned THEN 0 ELSE @]
    BY <1>1, <2>1
  <2> QED
    BY <2>1, <2>2
<1>5. kept \in Nodes
  <2>1. kept = [ip \in S |-> kept[ip]]
    BY <1>1
  <2> QED
    BY <1>2, <1>4, <2>1, NodesFrom
<1>6. DOMAIN kept = S
  BY <1>1
<1>7. R!PinnedOf(kept) = R!PinnedOf(nodes)
  BY <1>3, <1>4, <1>6 DEF R!PinnedOf
<1> QED
  BY <1>5, <1>7 DEF kept

\* Growing older touches no host.
LEMMA OlderSame ==
  ASSUME HostKept, R!GrowOlder
  PROVE  graph_nodes' \in Nodes /\ R!PinnedOf(graph_nodes') = R!PinnedOf(graph_nodes)
<1> DEFINE S == DOMAIN graph_nodes
<1>1. graph_nodes' = [ip \in S |->
         [graph_nodes[ip] EXCEPT !.age = IF @ < NodeAge THEN @ + 1 ELSE @]]
  BY DEF R!GrowOlder
<1>2. /\ S \in SUBSET NodeAddr
      /\ \A ip \in S : graph_nodes[ip] \in [age : Nat, pinned : BOOLEAN]
  BY NodesAre DEF HostKept
<1> HIDE DEF S
<1>3. ASSUME NEW ip \in S
      PROVE  /\ graph_nodes'[ip] \in [age : Nat, pinned : BOOLEAN]
             /\ graph_nodes'[ip].pinned = graph_nodes[ip].pinned
  <2>1. PICK r \in [age : Nat, pinned : BOOLEAN] : r = graph_nodes[ip]
    BY <1>2
  <2>2. graph_nodes'[ip] = [r EXCEPT !.age = IF @ < NodeAge THEN @ + 1 ELSE @]
    BY <1>1, <2>1
  <2> QED
    BY <2>1, <2>2
<1>4. graph_nodes' \in Nodes
  <2>1. graph_nodes' = [ip \in S |-> graph_nodes'[ip]]
    BY <1>1
  <2> QED
    BY <1>2, <1>3, <2>1, NodesFrom
<1>5. DOMAIN graph_nodes' = S
  BY <1>1
<1>6. R!PinnedOf(graph_nodes') = R!PinnedOf(graph_nodes)
  BY <1>3, <1>5 DEF R!PinnedOf, S
<1> QED
  BY <1>4, <1>6

\* The session starts with the host its own interface names, or without one.
LEMMA HostInit == PanelsInit => HostKept
<1> SUFFICES ASSUME PanelsInit PROVE HostKept
  OBVIOUS
<1>1. PICK hosts \in {{}} \cup {{h} : h \in NodeAddr \ GroupAddr} :
         graph_nodes = [ip \in hosts |-> [age |-> 0, pinned |-> TRUE]]
  BY DEF PanelsInit, R!RadarInit
<1>2. hosts \in SUBSET NodeAddr /\ \A h, i \in hosts : h = i
  BY <1>1
<1>3. graph_nodes \in Nodes
  BY <1>1, <1>2 DEF Nodes
<1>4. R!PinnedOf(graph_nodes) \subseteq hosts
  BY <1>1 DEF R!PinnedOf
<1> QED
  BY <1>2, <1>3, <1>4 DEF HostKept, OneHost

\* No step of the four takes the host away or makes a second one.
LEMMA HostStep ==
  ASSUME HostKept, [PanelsNext]_<<vars, panel, devicesView, radar, focused_panel>>
  PROVE  SameHost(graph_nodes, graph_nodes')
<1>1. graph_nodes' = graph_nodes => SameHost(graph_nodes, graph_nodes')
  BY DEF SameHost, HostKept
<1>2. ASSUME NEW src \in NodeAddr, NEW dst \in NodeAddr, NEW size \in PacketSize,
             NEW listed \in BOOLEAN, R!MeetPacket(src, dst, size, listed)
      PROVE  SameHost(graph_nodes, graph_nodes')
  <2>1. PICK met : met = R!Met({src, dst})
    OBVIOUS
  <2>2. met \in Nodes /\ R!PinnedOf(met) = R!PinnedOf(graph_nodes)
    BY <2>1, MetSame
  <2>3. graph_nodes' \in IF listed THEN R!WithHost(met, src_packet_counts') ELSE {met}
    BY <1>2, <2>1 DEF R!MeetPacket
  <2>4. SameHost(met, graph_nodes')
    BY <2>2, <2>3, WithHostSame DEF SameHost
  <2> QED
    BY <2>2, <2>4 DEF SameHost
<1>3. ASSUME NEW label, R!UpdateRadarLayout(label) PROVE SameHost(graph_nodes, graph_nodes')
  BY <1>3, KeptSame DEF R!UpdateRadarLayout, SameHost, HostKept
<1>4. ASSUME R!GrowOlder PROVE SameHost(graph_nodes, graph_nodes')
  BY <1>4, OlderSame DEF SameHost
<1>5. CASE R!ToggleGraph \/ R!SelectNext \/ R!Deselect
  BY <1>1, <1>5 DEF R!ToggleGraph, R!SelectNext, R!Deselect
<1>6. CASE FeedStep \/ AlertStep \/ DeviceStep
          \/ UNCHANGED <<vars, panel, devicesView, radar, focused_panel>>
  BY <1>1, <1>6 DEF FeedStep, AlertStep, DeviceStep, radar
<1>7. CASE RadarStep
  BY <1>2, <1>3, <1>4, <1>5, <1>7 DEF RadarStep, R!RadarNext
<1> QED
  BY <1>6, <1>7 DEF PanelsNext

\* The radar has at most one host and keeps it: ingest_packet pins an address
\* only where none is pinned (display.rs:1054-1067), and the expiry of
\* update_radar_layout passes over the pinned node (display.rs:1392-1403),
\* however long the radar was hidden.
THEOREM HostStaysAlways == PanelsSpec => HostStays
<1> DEFINE Turn == [PanelsNext]_<<vars, panel, devicesView, radar, focused_panel>>
           Same == /\ Cardinality(R!PinnedOf(graph_nodes')) <= 1
                   /\ R!PinnedOf(graph_nodes) \subseteq R!PinnedOf(graph_nodes')
<1>1. PanelsInit => HostKept
  BY HostInit
<1>2. HostKept /\ Turn => HostKept'
  <2> SUFFICES ASSUME HostKept, Turn PROVE HostKept'
    OBVIOUS
  <2>1. SameHost(graph_nodes, graph_nodes')
    BY HostStep
  <2> QED
    BY <2>1 DEF SameHost, HostKept, OneHost
<1>3. HostKept /\ Turn => Same
  <2> SUFFICES ASSUME HostKept, Turn PROVE Same
    OBVIOUS
  <2>1. SameHost(graph_nodes, graph_nodes') /\ OneHost(graph_nodes)
    BY HostStep DEF HostKept
  <2>2. \A h, i \in R!PinnedOf(graph_nodes') : h = i
    BY <2>1 DEF SameHost, OneHost
  <2>3. R!PinnedOf(graph_nodes') = {} \/ \E h : R!PinnedOf(graph_nodes') = {h}
    BY <2>2
  <2>4. Cardinality(R!PinnedOf(graph_nodes')) <= 1
    <3>1. PICK P : P = R!PinnedOf(graph_nodes')
      OBVIOUS
    <3>2. P = {} \/ \E h : P = {h}
      BY <2>3, <3>1
    <3>3. Cardinality(P) = 0 \/ Cardinality(P) = 1
      BY <3>2, FS_EmptySet, FS_Singleton
    <3> QED
      BY <3>1, <3>3
  <2> QED
    BY <2>1, <2>4 DEF SameHost
<1> QED
  BY <1>1, <1>2, <1>3, PTL DEF PanelsSpec, HostStays

-----------------------------------------------------------------------------
(***************************************************************************)
(* Lists of times: the k-th smallest of a set, and sorting.                *)
(***************************************************************************)
\* The members up to one, which number the set from 1.
UpTo(S, x) == {y \in S : y <= x}

\* A larger member has more members up to it.
LEMMA UpToGrows ==
  ASSUME NEW S, S \subseteq Int, IsFiniteSet(S), NEW x \in S, NEW z \in S
  PROVE  /\ Cardinality(UpTo(S, x)) \in 1..Cardinality(S)
         /\ Cardinality(UpTo(S, x)) = Cardinality(UpTo(S, z)) => x = z
<1>1. \A v \in S : v \in UpTo(S, v) /\ UpTo(S, v) \subseteq S
  BY DEF UpTo
<1>2. ASSUME NEW v \in S
      PROVE  Cardinality(UpTo(S, v)) \in 1..Cardinality(S) /\ IsFiniteSet(UpTo(S, v))
  <2>1. IsFiniteSet(UpTo(S, v)) /\ Cardinality(UpTo(S, v)) <= Cardinality(S)
    BY <1>1, FS_Subset
  <2>2. /\ Cardinality(UpTo(S, v)) # 0 /\ Cardinality(UpTo(S, v)) \in Nat
        /\ Cardinality(S) \in Nat
    BY <1>1, <2>1, FS_EmptySet, FS_CardinalityType
  <2> QED
    BY <2>1, <2>2
<1>3. ASSUME NEW v \in S, NEW w \in S, v < w
      PROVE  Cardinality(UpTo(S, v)) # Cardinality(UpTo(S, w))
  <2>1. UpTo(S, v) \subseteq UpTo(S, w) /\ w \in UpTo(S, w) /\ w \notin UpTo(S, v)
    <3>1. v \in Int /\ w \in Int /\ ~(w <= v) /\ w <= w
      BY <1>3
    <3>2. \A y \in S : y \in Int /\ (y <= v => y <= w)
      BY <1>3, <3>1
    <3> QED
      BY <3>1, <3>2 DEF UpTo
  <2>2. UpTo(S, v) # UpTo(S, w) /\ IsFiniteSet(UpTo(S, w))
    BY <1>2, <2>1
  <2> QED
    BY <2>1, <2>2, FS_Subset
<1>4. x < z \/ z < x \/ x = z
  <2>1. x \in Int /\ z \in Int
    OBVIOUS
  <2> QED
    BY <2>1
<1> QED
  BY <1>2, <1>3, <1>4

\* The k-th smallest of a set is one of it: the numbers of those up to each are
\* different, so that they are all the numbers up to that of the set.
LEMMA NthIn ==
  ASSUME NEW S, S \subseteq Int, IsFiniteSet(S), NEW k \in 1..Cardinality(S)
  PROVE  Nth(S, k) \in S /\ Cardinality(UpTo(S, Nth(S, k))) = k
<1> DEFINE n == Cardinality(S)
           f == [x \in S |-> Cardinality(UpTo(S, x))]
<1>1. f \in [S -> 1..n]
  BY UpToGrows
<1>2. \A x, y \in S : f[x] = f[y] => x = y
  BY UpToGrows
<1>3. f \in Injection(S, 1..n)
  BY <1>1, <1>2 DEF Injection, IsInjective
<1>4. IsFiniteSet(1..n) /\ Cardinality(1..n) = n
  BY FS_CardinalityType, FS_Interval
<1>5. f \in Surjection(S, 1..n)
  BY <1>3, <1>4, FS_Injection
<1>6. \E x \in S : f[x] = k
  BY <1>5 DEF Surjection
<1>7. \E x \in S : Cardinality(UpTo(S, x)) = k
  BY <1>6
<1> QED
  BY <1>7 DEF Nth, UpTo

\* Every member is the one of its number.
LEMMA NthOf ==
  ASSUME NEW S, S \subseteq Int, IsFiniteSet(S), NEW x \in S
  PROVE  Nth(S, Cardinality(UpTo(S, x))) = x
<1>1. PICK k : k = Cardinality(UpTo(S, x))
  OBVIOUS
<1>2. k \in 1..Cardinality(S)
  BY <1>1, UpToGrows
<1>3. Nth(S, k) \in S /\ Cardinality(UpTo(S, Nth(S, k))) = k
  BY <1>2, NthIn
<1> QED
  BY <1>1, <1>3, UpToGrows

Distinct(s) == \A i, j \in DOMAIN s : s[i] = s[j] => i = j

Rises(s) == \A i, j \in DOMAIN s : i < j => s[i] < s[j]

\* The list s has the numbers T in their order.
Lists(s, T) ==
  /\ T \subseteq Nat /\ IsFiniteSet(T)
  /\ s \in Seq(Nat) /\ Len(s) = Cardinality(T)
  /\ \A k \in 1..Len(s) : s[k] = Nth(T, k)

\* The numbers up to n are n.
LEMMA CountTo ==
  ASSUME NEW n \in Nat
  PROVE  IsFiniteSet(1..n) /\ Cardinality(1..n) = n
BY FS_Interval

\* The entries of a sequence, one by one.
LEMMA SeqParts ==
  ASSUME NEW S, NEW s \in Seq(S)
  PROVE  /\ Len(s) \in Nat /\ DOMAIN s = 1..Len(s)
         /\ \A i \in 1..Len(s) : s[i] \in S
         /\ ToSet(s) = {s[i] : i \in 1..Len(s)} /\ ToSet(s) \subseteq S
<1>1. /\ Len(s) \in Nat /\ DOMAIN s = 1..Len(s)
      /\ \A i \in 1..Len(s) : s[i] \in S
  BY ElementOfSeq, LenProperties
<1> QED
  BY <1>1 DEF ToSet

\* Different positions, different entries, so that there are as many.
LEMMA ImageCount ==
  ASSUME NEW s, NEW Q, Q \subseteq DOMAIN s, IsFiniteSet(Q), Distinct(s),
         NEW Reached, Reached = {s[i] : i \in Q}
  PROVE  IsFiniteSet(Reached) /\ Cardinality(Reached) = Cardinality(Q)
<1> DEFINE f == [i \in Q |-> s[i]]
<1>1. \A i, j \in Q : f[i] = f[j] => i = j
  BY DEF Distinct
<1>2. f \in Bijection(Q, Reached)
  BY <1>1 DEF Bijection, Injection, Surjection, IsInjective
<1>3. ExistsBijection(Q, Reached)
  BY <1>2 DEF ExistsBijection
<1> QED
  BY <1>3, FS_Bijection

\* A sequence without repetition has as many entries as places.
LEMMA EntryCount ==
  ASSUME NEW s \in Seq(Nat), Distinct(s)
  PROVE  IsFiniteSet(ToSet(s)) /\ Cardinality(ToSet(s)) = Len(s) /\ ToSet(s) \subseteq Nat
<1>1. Len(s) \in Nat /\ DOMAIN s = 1..Len(s)
      /\ ToSet(s) = {s[j] : j \in 1..Len(s)} /\ ToSet(s) \subseteq Nat
  BY SeqParts
<1>2. IsFiniteSet(1..Len(s)) /\ Cardinality(1..Len(s)) = Len(s)
  BY <1>1, CountTo
<1>3. 1..Len(s) \subseteq DOMAIN s
  BY <1>1
<1> QED
  BY <1>1, <1>2, <1>3, ImageCount

\* The number of an entry among the entries is that of the positions up to it.
LEMMA PlaceCount ==
  ASSUME NEW s \in Seq(Nat), Distinct(s), NEW i \in 1..Len(s)
  PROVE  Cardinality({j \in 1..Len(s) : s[j] <= s[i]}) = Cardinality(UpTo(ToSet(s), s[i]))
<1>1. Len(s) \in Nat /\ DOMAIN s = 1..Len(s) /\ ToSet(s) = {s[j] : j \in 1..Len(s)}
  BY SeqParts
<1>2. IsFiniteSet(1..Len(s))
  BY <1>1, CountTo
<1> DEFINE Q == {j \in 1..Len(s) : s[j] <= s[i]}
<1>3. Q \in SUBSET (1..Len(s)) /\ UpTo(ToSet(s), s[i]) = {s[j] : j \in Q}
  BY <1>1 DEF UpTo
<1> HIDE DEF Q
<1>4. IsFiniteSet(Q)
  BY <1>2, <1>3, FS_Subset
<1>5. Cardinality(UpTo(ToSet(s), s[i])) = Cardinality(Q)
  <2>1. PICK Reached : Reached = UpTo(ToSet(s), s[i])
    OBVIOUS
  <2>2. Q \subseteq DOMAIN s /\ Reached = {s[j] : j \in Q}
    BY <1>1, <1>3, <2>1
  <2>3. Cardinality(Reached) = Cardinality(Q)
    BY <1>4, <2>2, ImageCount
  <2> QED
    BY <2>1, <2>3
<1> QED
  BY <1>5 DEF Q

\* A list of entries with their times, sorted: the k-th has the k-th time.
SortedIs(S, list, time, r, T) ==
  /\ r \in Seq(S) /\ Len(r) = Len(list)
  /\ IsFiniteSet(T) /\ Cardinality(T) = Len(list) /\ T \subseteq Nat
  /\ \A k \in 1..Len(list) : \E i \in 1..Len(list) : r[k] = list[i] /\ time[i] = Nth(T, k)

\* Sorting entries of different times puts the k-th time at the k-th place.
LEMMA SortedLists ==
  ASSUME NEW S, NEW list \in Seq(S), NEW time \in Seq(Nat), Len(time) = Len(list),
         Distinct(time)
  PROVE  SortedIs(S, list, time, Sorted(list, time), ToSet(time))
<1> SUFFICES ASSUME NEW r, r = Sorted(list, time), NEW T, T = ToSet(time)
             PROVE  SortedIs(S, list, time, r, T)
  OBVIOUS
<1> DEFINE n == Len(list)
           Before(i, j) == time[i] < time[j] \/ (time[i] = time[j] /\ i <= j)
           place == [i \in DOMAIN list |-> Cardinality({j \in DOMAIN list : Before(j, i)})]
           from(k) == CHOOSE i \in DOMAIN list : place[i] = k
<1>1. /\ n \in Nat /\ DOMAIN list = 1..n /\ DOMAIN time = 1..n
      /\ \A i \in 1..n : time[i] \in Nat /\ list[i] \in S
      /\ T = {time[i] : i \in 1..n} /\ T \subseteq Nat
  BY SeqParts
<1>2. r = [k \in 1..n |-> list[from(k)]]
  BY <1>1 DEF Sorted
<1>3. IsFiniteSet(T) /\ Cardinality(T) = n
  BY EntryCount
<1>4. ASSUME NEW i \in 1..n PROVE place[i] = Cardinality(UpTo(T, time[i]))
  <2>1. \A j \in 1..n : Before(j, i) <=> time[j] <= time[i]
    <3> SUFFICES ASSUME NEW j \in 1..n PROVE Before(j, i) <=> time[j] <= time[i]
      OBVIOUS
    <3>1. time[j] \in Nat /\ time[i] \in Nat /\ (time[i] = time[j] => i = j)
      BY <1>1 DEF Distinct
    <3> QED
      BY <1>1, <3>1
  <2>2. {j \in DOMAIN list : Before(j, i)} = {j \in 1..Len(time) : time[j] <= time[i]}
    BY <1>1, <2>1
  <2>3. Cardinality({j \in 1..Len(time) : time[j] <= time[i]}) = Cardinality(UpTo(T, time[i]))
    BY PlaceCount
  <2> HIDE DEF Before
  <2> QED
    BY <1>1, <2>2, <2>3
<1>5. ASSUME NEW k \in 1..n
      PROVE  from(k) \in 1..n /\ time[from(k)] = Nth(T, k)
  <2>1. T \subseteq Int
    BY <1>1
  <2>2. Nth(T, k) \in T /\ Cardinality(UpTo(T, Nth(T, k))) = k
    BY <1>3, <2>1, NthIn
  <2>3. PICK i \in 1..n : time[i] = Nth(T, k)
    BY <1>1, <2>2
  <2>4. place[i] = k
    <3> HIDE DEF place
    <3> QED
      BY <1>4, <2>2, <2>3
  <2>5. from(k) \in 1..n /\ place[from(k)] = k
    <3> HIDE DEF place, n
    <3> QED
      BY <1>1, <2>3, <2>4
  <2>6. Cardinality(UpTo(T, time[from(k)])) = k
    <3> HIDE DEF place, n, from
    <3> QED
      BY <1>4, <2>5
  <2> HIDE DEF from
  <2>7. time[from(k)] \in T
    BY <1>1, <2>5
  <2> QED
    BY <1>3, <2>1, <2>5, <2>6, <2>7, NthOf
<1> HIDE DEF from, n
<1>6. \A k \in 1..n : r[k] \in S
  BY <1>1, <1>2, <1>5
<1>7. r \in Seq(S) /\ Len(r) = n
  <2>1. r = [k \in 1..n |-> r[k]]
    BY <1>2
  <2>2. n \in Nat /\ r \in [1..n -> S]
    BY <1>1, <1>6, <2>1
  <2>3. r \in Seq(S)
    BY <2>2
  <2> QED
    BY <2>2, <2>3, LenProperties
<1> QED
  BY <1>1, <1>2, <1>3, <1>5, <1>7 DEF n, SortedIs

\* What rises has no repetition.
LEMMA RisesDistinct ==
  ASSUME NEW s \in Seq(Nat), Rises(s)
  PROVE  Distinct(s)
<1> SUFFICES ASSUME NEW i \in 1..Len(s), NEW j \in 1..Len(s), s[i] = s[j] PROVE i = j
  BY SeqParts DEF Distinct
<1>1. s[i] \in Nat /\ s[j] \in Nat /\ DOMAIN s = 1..Len(s)
  BY SeqParts
<1>2. ~(i < j) /\ ~(j < i)
  BY <1>1 DEF Rises
<1> QED
  BY <1>2

\* A list that rises has its entries in order.
LEMMA RisingLists ==
  ASSUME NEW s \in Seq(Nat), Rises(s), NEW T, T = ToSet(s)
  PROVE  Lists(s, T)
<1>1. Distinct(s)
  BY RisesDistinct
<1>2. Len(s) \in Nat /\ DOMAIN s = 1..Len(s)
      /\ T = {s[j] : j \in 1..Len(s)} /\ T \subseteq Nat /\ \A i \in 1..Len(s) : s[i] \in Nat
  BY SeqParts
<1>3. IsFiniteSet(T) /\ Cardinality(T) = Len(s)
  BY <1>1, EntryCount
<1>4. ASSUME NEW k \in 1..Len(s) PROVE s[k] = Nth(T, k)
  <2>1. \A j \in 1..Len(s) : s[j] <= s[k] <=> j <= k
    <3> SUFFICES ASSUME NEW j \in 1..Len(s) PROVE s[j] <= s[k] <=> j <= k
      OBVIOUS
    <3>1. s[j] \in Nat /\ s[k] \in Nat /\ (j < k => s[j] < s[k]) /\ (k < j => s[k] < s[j])
      BY <1>2 DEF Rises
    <3> QED
      BY <3>1
  <2>2. {j \in 1..Len(s) : s[j] <= s[k]} = 1..k
    BY <1>2, <2>1
  <2>3. Cardinality(1..k) = k
    BY FS_Interval
  <2>4. Cardinality(UpTo(T, s[k])) = k
    BY <1>1, <2>2, <2>3, PlaceCount
  <2>5. s[k] \in T /\ T \subseteq Int
    BY <1>2
  <2>6. Nth(T, Cardinality(UpTo(T, s[k]))) = s[k]
    BY <1>3, <2>5, NthOf
  <2> QED
    BY <2>4, <2>6
<1> QED
  BY <1>2, <1>3, <1>4 DEF Lists

\* Two lists with nothing in common.
LEMMA JoinDistinct ==
  ASSUME NEW s \in Seq(Nat), NEW t \in Seq(Nat), Distinct(s), Distinct(t),
         ToSet(s) \cap ToSet(t) = {}
  PROVE  /\ s \o t \in Seq(Nat) /\ Distinct(s \o t)
         /\ ToSet(s \o t) = ToSet(s) \cup ToSet(t)
<1>1. PICK a : a = s \o t
  OBVIOUS
<1>2. PICK m : m = Len(s)
  OBVIOUS
<1>3. PICK n : n = Len(t)
  OBVIOUS
<1>4. /\ m \in Nat /\ DOMAIN s = 1..m /\ n \in Nat /\ DOMAIN t = 1..n
      /\ ToSet(s) = {s[i] : i \in 1..m} /\ ToSet(t) = {t[i] : i \in 1..n}
  <2>1. /\ Len(s) \in Nat /\ DOMAIN s = 1..Len(s) /\ ToSet(s) = {s[i] : i \in 1..Len(s)}
    BY SeqParts
  <2>2. /\ Len(t) \in Nat /\ DOMAIN t = 1..Len(t) /\ ToSet(t) = {t[i] : i \in 1..Len(t)}
    BY SeqParts
  <2> QED
    BY <1>2, <1>3, <2>1, <2>2
<1>5. /\ a \in Seq(Nat) /\ Len(a) = m + n
      /\ \A i \in 1..(m + n) : a[i] = IF i <= m THEN s[i] ELSE t[i - m]
  BY <1>1, <1>2, <1>3, ConcatProperties
<1>6. DOMAIN a = 1..(m + n) /\ ToSet(a) = {a[i] : i \in 1..(m + n)}
  BY <1>5, SeqParts
<1>7. ASSUME NEW i \in 1..(m + n)
      PROVE  \/ i \in 1..m /\ a[i] = s[i]
             \/ i - m \in 1..n /\ a[i] = t[i - m]
  BY <1>4, <1>5
<1>8. ASSUME NEW i \in 1..(m + n), NEW j \in 1..(m + n), a[i] = a[j] PROVE i = j
  <2>1. CASE i \in 1..m /\ a[i] = s[i] /\ j \in 1..m /\ a[j] = s[j]
    BY <1>4, <1>8, <2>1 DEF Distinct
  <2>2. CASE i - m \in 1..n /\ a[i] = t[i - m] /\ j - m \in 1..n /\ a[j] = t[j - m]
    <3>1. i - m = j - m
      BY <1>4, <1>8, <2>2 DEF Distinct
    <3> QED
      BY <1>4, <3>1
  <2>3. CASE i \in 1..m /\ a[i] = s[i] /\ j - m \in 1..n /\ a[j] = t[j - m]
    BY <1>4, <1>8, <2>3
  <2>4. CASE j \in 1..m /\ a[j] = s[j] /\ i - m \in 1..n /\ a[i] = t[i - m]
    BY <1>4, <1>8, <2>4
  <2> QED
    BY <1>7, <2>1, <2>2, <2>3, <2>4
<1>9. ToSet(a) = ToSet(s) \cup ToSet(t)
  <2>1. ASSUME NEW x \in ToSet(a) PROVE x \in ToSet(s) \cup ToSet(t)
    <3>1. PICK i \in 1..(m + n) : x = a[i]
      BY <1>6
    <3> QED
      BY <1>4, <1>7, <3>1
  <2>2. ASSUME NEW x \in ToSet(s) PROVE x \in ToSet(a)
    <3>1. PICK i \in 1..m : x = s[i]
      BY <1>4
    <3>2. i \in 1..(m + n) /\ a[i] = s[i]
      BY <1>4, <1>5
    <3> QED
      BY <1>6, <3>1, <3>2
  <2>3. ASSUME NEW x \in ToSet(t) PROVE x \in ToSet(a)
    <3>1. PICK i \in 1..n : x = t[i]
      BY <1>4
    <3>2. m + i \in 1..(m + n) /\ ~(m + i <= m) /\ (m + i) - m = i
      BY <1>4
    <3>3. a[m + i] = t[i]
      BY <1>5, <3>2
    <3> QED
      BY <1>6, <3>1, <3>2, <3>3
  <2> QED
    BY <2>1, <2>2, <2>3
<1>10. Distinct(a)
  BY <1>6, <1>8 DEF Distinct
<1> QED
  BY <1>1, <1>5, <1>9, <1>10

\* The set T of numbers loses Lost, of one at most, and gains m, above all, and is U.
OneLater(T, Lost, m, U) ==
  /\ T \subseteq Nat /\ IsFiniteSet(T) /\ Lost \subseteq T /\ Cardinality(Lost) \in {0, 1}
  /\ m \in Nat /\ \A x \in T : x < m
  /\ U = (T \ Lost) \cup {m}

\* A new number is above all, and at most one goes, below the k-th: that one
\* moves up by what goes.
LEMMA PlaceKept ==
  ASSUME NEW T, NEW Lost, NEW m, NEW U, OneLater(T, Lost, m, U),
         NEW k \in 1..Cardinality(T), \A x \in Lost : x < Nth(T, k)
  PROVE  LET c == Cardinality(Lost)
         IN /\ Cardinality(U) = Cardinality(T) + 1 - c
            /\ k - c \in 1..Cardinality(U)
            /\ Nth(U, k - c) = Nth(T, k)
<1> SUFFICES ASSUME NEW c, c = Cardinality(Lost)
             PROVE  /\ Cardinality(U) = Cardinality(T) + 1 - c
                    /\ k - c \in 1..Cardinality(U)
                    /\ Nth(U, k - c) = Nth(T, k)
  OBVIOUS
<1> SUFFICES ASSUME T \subseteq Nat, IsFiniteSet(T), Lost \subseteq T, c \in {0, 1},
                    m \in Nat, \A x \in T : x < m, U = (T \ Lost) \cup {m}
             PROVE  /\ Cardinality(U) = Cardinality(T) + 1 - c
                    /\ k - c \in 1..Cardinality(U)
                    /\ Nth(U, k - c) = Nth(T, k)
  BY DEF OneLater
<1>1. T \subseteq Int /\ IsFiniteSet(Lost) /\ Lost \in SUBSET T
  <2>1. Lost \in SUBSET T
    OBVIOUS
  <2>2. IsFiniteSet(Lost)
    BY <2>1, FS_Subset
  <2> QED
    BY <2>1, <2>2
<1>2. PICK top \in T : top = Nth(T, k) /\ Cardinality(UpTo(T, top)) = k
  BY <1>1, NthIn
<1>3. top \in Nat /\ top < m /\ \A x \in Lost : x < top
  BY <1>2
<1>4. CASE c = 0
  <2>1. Lost = {}
    BY <1>1, <1>4, FS_EmptySet
  <2>2. U = T \cup {m} /\ m \notin T
    <3>1. \A x \in T : x \in Nat /\ x # m
      OBVIOUS
    <3> QED
      BY <2>1, <3>1
  <2>3. IsFiniteSet(U) /\ Cardinality(U) = Cardinality(T) + 1 /\ Cardinality(T) \in Nat
    BY <2>2, FS_AddElement, FS_CardinalityType
  <2>4. UpTo(U, top) = UpTo(T, top)
    BY <1>3, <2>2 DEF UpTo
  <2>5. top \in U /\ U \subseteq Int /\ U \subseteq Nat
    BY <1>2, <2>2
  <2>6. Nth(U, Cardinality(UpTo(U, top))) = top
    BY <2>3, <2>5, NthOf
  <2>7. Nth(U, k) = top
    BY <1>2, <2>4, <2>6
  <2> QED
    BY <1>2, <1>4, <2>3, <2>5, <2>7
<1>5. CASE c = 1
  <2>1. PICK d \in Lost : Lost = {d}
    BY <1>1, <1>5, FS_Singleton
  <2>2. d \in T /\ d \in Nat /\ d < top
    BY <1>1, <1>3, <2>1
  <2>3. m \notin T
    <3>1. \A x \in T : x \in Nat /\ x # m
      OBVIOUS
    <3> QED
      BY <3>1
  <2>4. IsFiniteSet(U) /\ Cardinality(U) = Cardinality(T) /\ Cardinality(T) \in Nat
    <3>1. IsFiniteSet(T \ {d}) /\ Cardinality(T \ {d}) = Cardinality(T) - 1
          /\ Cardinality(T) \in Nat
      BY <2>2, FS_RemoveElement, FS_CardinalityType
    <3>2. m \notin T \ {d} /\ U = (T \ {d}) \cup {m}
      BY <2>1, <2>3
    <3>3. IsFiniteSet(U) /\ Cardinality(U) = Cardinality(T \ {d}) + 1
      <4>1. PICK V : V = T \ {d}
        OBVIOUS
      <4>2. IsFiniteSet(V) /\ m \notin V /\ U = V \cup {m}
        BY <3>1, <3>2, <4>1
      <4>3. IsFiniteSet(V \cup {m}) /\ Cardinality(V \cup {m}) = Cardinality(V) + 1
        BY <4>2, FS_AddElement
      <4> QED
        BY <4>1, <4>2, <4>3
    <3> QED
      BY <3>1, <3>3
  <2>5. UpTo(U, top) = UpTo(T, top) \ {d}
    BY <1>3, <2>1 DEF UpTo
  <2>6. Cardinality(UpTo(U, top)) = k - 1
    <3>1. d \in UpTo(T, top)
      BY <1>3, <2>2 DEF UpTo
    <3>2. UpTo(T, top) \in SUBSET T
      BY DEF UpTo
    <3>3. IsFiniteSet(UpTo(T, top))
      BY <3>2, FS_Subset
    <3> QED
      BY <1>2, <2>5, <3>1, <3>3, FS_RemoveElement
  <2>7. top \in U /\ U \subseteq Int /\ U \subseteq Nat
    <3>1. top # d
      BY <1>3, <2>2
    <3> QED
      BY <1>2, <2>1, <3>1
  <2>8. Cardinality(UpTo(U, top)) \in 1..Cardinality(U)
    BY <2>4, <2>7, UpToGrows
  <2>9. Nth(U, Cardinality(UpTo(U, top))) = top
    BY <2>4, <2>7, NthOf
  <2> QED
    BY <1>2, <1>5, <2>4, <2>6, <2>7, <2>8, <2>9
<1> QED
  BY <1>4, <1>5

-----------------------------------------------------------------------------
(***************************************************************************)
(* The feed: lists that rise, and what the panel shows of them.            *)
(***************************************************************************)
\* A number above all at the end of a list that rises.
LEMMA AppendRises ==
  ASSUME NEW s \in Seq(Nat), Rises(s), NEW m \in Nat, \A x \in ToSet(s) : x < m
  PROVE  /\ Append(s, m) \in Seq(Nat) /\ Rises(Append(s, m))
         /\ ToSet(Append(s, m)) = ToSet(s) \cup {m}
<1>1. PICK a : a = Append(s, m)
  OBVIOUS
<1>2. PICK n : n = Len(s)
  OBVIOUS
<1>3. n \in Nat /\ DOMAIN s = 1..n /\ ToSet(s) = {s[i] : i \in 1..n}
  BY <1>2, SeqParts
<1>4. /\ a \in Seq(Nat) /\ Len(a) = n + 1 /\ a[n + 1] = m
      /\ \A i \in 1..n : a[i] = s[i]
  BY <1>1, <1>2, AppendProperties
<1>5. DOMAIN a = 1..(n + 1) /\ ToSet(a) = {a[i] : i \in 1..(n + 1)}
  BY <1>4, SeqParts
<1>6. \A i \in 1..(n + 1) : i \in 1..n \/ i = n + 1
  BY <1>3
<1>7. ToSet(a) = ToSet(s) \cup {m}
  <2>1. 1..(n + 1) = 1..n \cup {n + 1}
    BY <1>3
  <2> QED
    BY <1>3, <1>4, <1>5, <2>1
<1>8. Rises(a)
  <2> SUFFICES ASSUME NEW i \in 1..(n + 1), NEW j \in 1..(n + 1), i < j PROVE a[i] < a[j]
    BY <1>5 DEF Rises
  <2>1. i \in 1..n
    BY <1>3
  <2>2. CASE j \in 1..n
    BY <1>3, <1>4, <2>1, <2>2 DEF Rises
  <2>3. CASE j = n + 1
    BY <1>3, <1>4, <2>1, <2>3
  <2> QED
    BY <1>6, <2>2, <2>3
<1> QED
  BY <1>1, <1>4, <1>7, <1>8

\* A list that rises without its first number.
LEMMA TailRises ==
  ASSUME NEW s \in Seq(Nat), Rises(s), s # <<>>
  PROVE  /\ Tail(s) \in Seq(Nat) /\ Rises(Tail(s))
         /\ ToSet(Tail(s)) = ToSet(s) \ {s[1]} /\ s[1] \in ToSet(s)
<1>1. PICK a : a = Tail(s)
  OBVIOUS
<1>2. PICK n : n = Len(s)
  OBVIOUS
<1>3. /\ n \in Nat /\ n >= 1 /\ DOMAIN s = 1..n /\ ToSet(s) = {s[i] : i \in 1..n}
      /\ \A i \in 1..n : s[i] \in Nat
  <2>1. n # 0
    BY <1>2, EmptySeq
  <2> QED
    BY <1>2, <2>1, SeqParts
<1>4. a \in Seq(Nat) /\ Len(a) = n - 1 /\ \A i \in 1..(n - 1) : a[i] = s[i + 1]
  BY <1>1, <1>2, HeadTailProperties
<1>5. DOMAIN a = 1..(n - 1) /\ ToSet(a) = {a[i] : i \in 1..(n - 1)}
  BY <1>4, SeqParts
<1>6. Rises(a)
  <2> SUFFICES ASSUME NEW i \in 1..(n - 1), NEW j \in 1..(n - 1), i < j PROVE a[i] < a[j]
    BY <1>5 DEF Rises
  <2>1. i + 1 \in DOMAIN s /\ j + 1 \in DOMAIN s /\ i + 1 < j + 1
    BY <1>3
  <2>2. s[i + 1] < s[j + 1]
    BY <2>1 DEF Rises
  <2> QED
    BY <1>4, <2>2
<1>7. 1 \in 1..n /\ s[1] \in ToSet(s)
  BY <1>3
<1>8. \A x \in ToSet(a) : x \in ToSet(s) /\ x # s[1]
  <2> SUFFICES ASSUME NEW i \in 1..(n - 1) PROVE a[i] \in ToSet(s) /\ a[i] # s[1]
    BY <1>5
  <2>1. i + 1 \in 1..n /\ 1 < i + 1
    BY <1>3
  <2>2. s[1] < s[i + 1] /\ s[i + 1] \in Nat /\ s[1] \in Nat
    BY <1>3, <1>7, <2>1 DEF Rises
  <2>3. s[i + 1] # s[1]
    BY <2>2
  <2> QED
    BY <1>3, <1>4, <2>1, <2>3
<1>9. \A x \in ToSet(s) : x = s[1] \/ x \in ToSet(a)
  <2> SUFFICES ASSUME NEW i \in 1..n, i # 1 PROVE s[i] \in ToSet(a)
    BY <1>3
  <2>1. i - 1 \in 1..(n - 1) /\ (i - 1) + 1 = i
    BY <1>3
  <2>2. a[i - 1] = s[i]
    BY <1>4, <2>1
  <2> QED
    BY <1>5, <2>1, <2>2
<1> QED
  BY <1>1, <1>4, <1>6, <1>7, <1>8, <1>9

\* When a part of a list is empty, and its first entry when it is not.
LEMMA SubSeqFirst ==
  ASSUME NEW S, NEW s \in Seq(S), NEW a \in Int, NEW b \in Int, 1 <= a, b <= Len(s)
  PROVE  /\ SubSeq(s, a, b) # <<>> <=> a <= b
         /\ a <= b => SubSeq(s, a, b)[1] = s[a]
<1>1. \A i \in a..b : s[i] \in S
  <2> SUFFICES ASSUME NEW i \in a..b PROVE s[i] \in S
    OBVIOUS
  <2>1. Len(s) \in Nat
    BY SeqParts
  <2>2. i \in 1..Len(s)
    BY <2>1
  <2> QED
    BY <2>2, SeqParts
<1>2. /\ SubSeq(s, a, b) \in Seq(S)
      /\ Len(SubSeq(s, a, b)) = IF a <= b THEN b - a + 1 ELSE 0
      /\ \A i \in 1..(b - a + 1) : SubSeq(s, a, b)[i] = s[a + i - 1]
  BY <1>1, SubSeqProperties
<1>3. SubSeq(s, a, b) = <<>> <=> Len(SubSeq(s, a, b)) = 0
  BY <1>2, EmptySeq
<1>4. a <= b => 1 \in 1..(b - a + 1) /\ a + 1 - 1 = a
  OBVIOUS
<1> QED
  BY <1>2, <1>3, <1>4

\* The lines above the panel for a reader who is back.
Skip(n, rows, scroll) ==
  LET max == IF n > rows THEN n - rows ELSE 0
  IN max - (IF scroll < max THEN scroll ELSE max)

\* The inductive invariant of the feed.
FeedKept ==
  /\ arrived \in Nat /\ feed_scroll \in Nat /\ feed_paused_scroll \in BOOLEAN
  /\ display_filter \in Filter
  /\ feed \in [Buffered -> Seq(Nat)]
  /\ \A p \in Buffered : Rises(feed[p]) /\ \A n \in ToSet(feed[p]) : n <= arrived
  /\ \A p, q \in Buffered : p # q => ToSet(feed[p]) \cap ToSet(feed[q]) = {}

\* What the filter lets through.
Passing == IF display_filter = "all" THEN Buffered ELSE {display_filter}
FeedTimes == UNION {ToSet(feed[p]) : p \in Passing}

\* What the panel lists and what a reader who is back has on the top line.
FeedSeen ==
  /\ Lists(Listed, FeedTimes)
  /\ feed_paused_scroll /\ Rows # 1 =>
       LET skip == Skip(Len(Listed), Rows, feed_scroll)
       IN /\ Visible # <<>> <=> Rows # 0 /\ skip < Len(Listed)
          /\ Visible # <<>> => Visible[1] = Listed[skip + 1]

\* Sorting numbers by themselves.
LEMMA SortedSelf ==
  ASSUME NEW all \in Seq(Nat), Distinct(all)
  PROVE  Lists(Sorted(all, all), ToSet(all))
<1>1. SortedIs(Nat, all, all, Sorted(all, all), ToSet(all))
  BY SortedLists
<1>2. PICK r, T : r = Sorted(all, all) /\ T = ToSet(all)
  OBVIOUS
<1>3. /\ r \in Seq(Nat) /\ Len(r) = Len(all)
      /\ IsFiniteSet(T) /\ Cardinality(T) = Len(all) /\ T \subseteq Nat
      /\ \A k \in 1..Len(all) : \E i \in 1..Len(all) : r[k] = all[i] /\ all[i] = Nth(T, k)
  BY <1>1, <1>2 DEF SortedIs
<1> QED
  BY <1>2, <1>3 DEF Lists

\* The panel lists what the filter lets through, oldest first.
LEMMA FeedListed ==
  ASSUME FeedKept
  PROVE  Lists(Listed, FeedTimes)
<1>1. CASE display_filter # "all"
  <2>1. display_filter \in Buffered /\ Listed = feed[display_filter]
        /\ FeedTimes = ToSet(feed[display_filter])
    BY <1>1 DEF FeedKept, Filter, Listed, FeedTimes, Passing
  <2>2. feed[display_filter] \in Seq(Nat) /\ Rises(feed[display_filter])
    BY <2>1 DEF FeedKept
  <2>3. Lists(feed[display_filter], ToSet(feed[display_filter]))
    BY <2>2, RisingLists
  <2> QED
    BY <2>1, <2>3
<1>2. CASE display_filter = "all"
  <2>1. PICK a, b, c : a = feed["tcp"] /\ b = feed["udp"] /\ c = feed["icmp"]
    OBVIOUS
  <2>2. /\ a \in Seq(Nat) /\ b \in Seq(Nat) /\ c \in Seq(Nat)
        /\ Distinct(a) /\ Distinct(b) /\ Distinct(c)
    <3>1. /\ a \in Seq(Nat) /\ b \in Seq(Nat) /\ c \in Seq(Nat)
          /\ Rises(a) /\ Rises(b) /\ Rises(c)
      BY <2>1 DEF FeedKept, Buffered
    <3> QED
      BY <3>1, RisesDistinct
  <2>3. /\ ToSet(a) \cap ToSet(b) = {} /\ ToSet(a) \cap ToSet(c) = {}
        /\ ToSet(b) \cap ToSet(c) = {}
    <3>1. "tcp" \in Buffered /\ "udp" \in Buffered /\ "icmp" \in Buffered
          /\ "tcp" # "udp" /\ "tcp" # "icmp" /\ "udp" # "icmp"
      BY DEF Buffered
    <3> QED
      BY <2>1, <3>1 DEF FeedKept
  <2>4. PICK ab : ab = a \o b
    OBVIOUS
  <2>5. ab \in Seq(Nat) /\ Distinct(ab) /\ ToSet(ab) = ToSet(a) \cup ToSet(b)
    BY <2>2, <2>3, <2>4, JoinDistinct
  <2>6. PICK all : all = ab \o c
    OBVIOUS
  <2>7. ToSet(ab) \cap ToSet(c) = {}
    BY <2>3, <2>5
  <2>8. all \in Seq(Nat) /\ Distinct(all) /\ ToSet(all) = ToSet(a) \cup ToSet(b) \cup ToSet(c)
    BY <2>2, <2>5, <2>6, <2>7, JoinDistinct
  <2>9. Listed = Sorted(all, all)
    BY <1>2, <2>1, <2>4, <2>6 DEF Listed
  <2>10. FeedTimes = ToSet(all)
    BY <1>2, <2>1, <2>8 DEF FeedTimes, Passing, Buffered
  <2>11. Lists(Sorted(all, all), ToSet(all))
    BY <2>8, SortedSelf
  <2> QED
    BY <2>9, <2>10, <2>11
<1> QED
  BY <1>1, <1>2

\* The lines of the feed, from its invariant.
LEMMA FeedIsSeen == FeedKept => FeedSeen
<1> SUFFICES ASSUME FeedKept PROVE FeedSeen
  OBVIOUS
<1>1. Lists(Listed, FeedTimes)
  BY FeedListed
<1> SUFFICES ASSUME feed_paused_scroll, Rows # 1
             PROVE  LET skip == Skip(Len(Listed), Rows, feed_scroll)
                    IN /\ Visible # <<>> <=> Rows # 0 /\ skip < Len(Listed)
                       /\ Visible # <<>> => Visible[1] = Listed[skip + 1]
  BY <1>1 DEF FeedSeen
<1>2. PICK list : list = Listed
  OBVIOUS
<1>3. PICK skip : skip = Skip(Len(list), Rows, feed_scroll)
  OBVIOUS
<1>4. PICK take : take = IF (IF feed_scroll < (IF Len(list) > Rows THEN Len(list) - Rows ELSE 0)
                               THEN feed_scroll
                               ELSE IF Len(list) > Rows THEN Len(list) - Rows ELSE 0) > 0
                            /\ Rows > 0
                         THEN Rows - 1 ELSE Rows
  OBVIOUS
<1>5. PICK b : b = IF skip + take < Len(list) THEN skip + take ELSE Len(list)
  OBVIOUS
<1>6. Visible = SubSeq(list, skip + 1, b)
  BY <1>2, <1>3, <1>4, <1>5 DEF Visible, Skip
<1>7. list \in Seq(Nat) /\ Len(list) \in Nat /\ Rows \in Nat /\ feed_scroll \in Nat
  BY <1>1, <1>2, FeedAssumption, SeqParts DEF Lists, FeedKept
<1>8. skip \in Nat /\ skip <= Len(list) /\ take \in Nat /\ (take = 0 <=> Rows = 0)
  BY <1>3, <1>4, <1>7 DEF Skip
<1>9. /\ skip + 1 \in Int /\ 1 <= skip + 1 /\ b \in Int /\ b <= Len(list)
      /\ skip + 1 <= b <=> Rows # 0 /\ skip < Len(list)
  BY <1>5, <1>7, <1>8
<1>10. /\ SubSeq(list, skip + 1, b) # <<>> <=> skip + 1 <= b
       /\ skip + 1 <= b => SubSeq(list, skip + 1, b)[1] = list[skip + 1]
  BY <1>7, <1>9, SubSeqFirst
<1> QED
  BY <1>2, <1>3, <1>6, <1>9, <1>10

-----------------------------------------------------------------------------
(***************************************************************************)
(* The feed: what a step does to the lines.                                *)
(***************************************************************************)
\* What pushing a packet does to the numbers of a buffer: Lost goes.
LEMMA PushIs ==
  ASSUME NEW b \in Seq(Nat), Rises(b), NEW a \in Nat, \A x \in ToSet(b) : x <= a
  PROVE  /\ Push(b, a + 1) \in Seq(Nat) /\ Rises(Push(b, a + 1))
         /\ \E Lost \in SUBSET ToSet(b) :
              /\ IsFiniteSet(Lost) /\ Cardinality(Lost) \in {0, 1}
              /\ ToSet(Push(b, a + 1)) = (ToSet(b) \ Lost) \cup {a + 1}
<1>1. PICK l : l = Append(b, a + 1)
  OBVIOUS
<1>2. ToSet(b) \subseteq Nat
  BY SeqParts
<1>3. l \in Seq(Nat) /\ Rises(l) /\ ToSet(l) = ToSet(b) \cup {a + 1}
  <2>1. a + 1 \in Nat /\ \A x \in ToSet(b) : x < a + 1
    BY <1>2
  <2> QED
    BY <1>1, <2>1, AppendRises
<1>4. CASE ~(Len(l) > FeedCap)
  <2>1. Push(b, a + 1) = l
    BY <1>1, <1>4 DEF Push
  <2>2. IsFiniteSet({}) /\ Cardinality({}) = 0
    BY FS_EmptySet
  <2>3. ToSet(l) = (ToSet(b) \ {}) \cup {a + 1} /\ {} \in SUBSET ToSet(b)
    BY <1>3
  <2> QED
    BY <1>3, <2>1, <2>2, <2>3
<1>5. CASE Len(l) > FeedCap
  <2>1. Push(b, a + 1) = Tail(l)
    BY <1>1, <1>5 DEF Push
  <2>2. Len(l) = Len(b) + 1 /\ Len(b) \in Nat /\ FeedCap \in Nat /\ FeedCap # 0
    BY <1>1, AppendProperties, FeedAssumption, SeqParts
  <2>3. l # <<>> /\ 1 \in 1..Len(b)
    <3>1. Len(b) >= 1
      BY <1>5, <2>2
    <3> QED
      BY <1>3, <2>2, <3>1, EmptySeq
  <2>4. /\ Tail(l) \in Seq(Nat) /\ Rises(Tail(l))
        /\ ToSet(Tail(l)) = ToSet(l) \ {l[1]}
    BY <1>3, <2>3, TailRises
  <2>5. l[1] \in ToSet(b) /\ l[1] \in Nat
    <3>1. l[1] = b[1]
      BY <1>1, <2>3, AppendProperties
    <3>2. b[1] \in ToSet(b)
      BY <2>3, SeqParts
    <3> QED
      BY <1>2, <3>1, <3>2
  <2>6. IsFiniteSet({l[1]}) /\ Cardinality({l[1]}) = 1
    BY FS_Singleton
  <2>7. ToSet(Tail(l)) = (ToSet(b) \ {l[1]}) \cup {a + 1} /\ {l[1]} \in SUBSET ToSet(b)
    <3>1. l[1] # a + 1
      BY <2>5
    <3> QED
      BY <1>3, <2>4, <2>5, <3>1
  <2> QED
    BY <2>1, <2>4, <2>6, <2>7
<1> QED
  BY <1>4, <1>5

\* The empty feed.
LEMMA FeedInit == PanelsInit => FeedKept
<1> SUFFICES ASSUME PanelsInit PROVE FeedKept
  OBVIOUS
<1>1. /\ feed = [p \in Buffered |-> <<>>] /\ arrived = 0 /\ display_filter = "all"
      /\ feed_scroll = 0 /\ feed_paused_scroll = FALSE
  BY DEF PanelsInit, Init
<1>2. <<>> \in Seq(Nat) /\ ToSet(<<>>) = {} /\ Rises(<<>>)
  BY DEF ToSet, Rises
<1>3. feed \in [Buffered -> Seq(Nat)]
  BY <1>1, <1>2
<1>4. display_filter \in Filter
  BY <1>1 DEF Filter
<1> QED
  BY <1>1, <1>2, <1>3, <1>4 DEF FeedKept

\* A packet: what it drops from its buffer, and what it leaves.
FeedMoves(p, Lost) ==
  /\ Lost \subseteq ToSet(feed[p]) /\ IsFiniteSet(Lost) /\ Cardinality(Lost) \in {0, 1}
  /\ feed' \in [Buffered -> Seq(Nat)]
  /\ Rises(feed'[p])
  /\ ToSet(feed'[p]) = (ToSet(feed[p]) \ Lost) \cup {arrived + 1}
  /\ \A q \in Buffered : q # p => feed'[q] = feed[q]

\* ingest_packet of a protocol that has a buffer (display.rs:1026-1052).
LEMMA FeedMoved ==
  ASSUME FeedKept, NEW p \in Buffered, IngestPacket(p)
  PROVE  \E Lost : FeedMoves(p, Lost)
<1>1. feed[p] \in Seq(Nat) /\ Rises(feed[p]) /\ arrived \in Nat
      /\ \A x \in ToSet(feed[p]) : x <= arrived
  BY DEF FeedKept
<1>2. PICK b : b = Push(feed[p], arrived + 1)
  OBVIOUS
<1>3. b \in Seq(Nat) /\ Rises(b)
      /\ \E Lost \in SUBSET ToSet(feed[p]) :
              /\ IsFiniteSet(Lost) /\ Cardinality(Lost) \in {0, 1}
              /\ ToSet(b) = (ToSet(feed[p]) \ Lost) \cup {arrived + 1}
  BY <1>1, <1>2, PushIs
<1>4. feed' = [feed EXCEPT ![p] = b]
  BY <1>2 DEF IngestPacket
<1>5. feed'[p] = b /\ feed' \in [Buffered -> Seq(Nat)]
      /\ \A q \in Buffered : q # p => feed'[q] = feed[q]
  BY <1>3, <1>4 DEF FeedKept
<1> QED
  BY <1>3, <1>5 DEF FeedMoves

\* ingest_packet keeps the buffers in order and apart.
LEMMA FeedIngest ==
  ASSUME FeedKept, NEW p \in Protocol, IngestPacket(p)
  PROVE  FeedKept'
<1>1. /\ arrived' = arrived + 1 /\ display_filter' = display_filter
      /\ feed_paused_scroll' = feed_paused_scroll
      /\ feed_scroll' = IF feed_paused_scroll THEN feed_scroll + 1 ELSE feed_scroll
  BY DEF IngestPacket
<1>2. /\ arrived' \in Nat /\ feed_scroll' \in Nat /\ feed_paused_scroll' \in BOOLEAN
      /\ display_filter' \in Filter
  BY <1>1 DEF FeedKept
<1>3. CASE p \in Buffered
  <2>1. PICK Lost : FeedMoves(p, Lost)
    BY <1>3, FeedMoved
  <2>2. ASSUME NEW q \in Buffered, NEW x \in ToSet(feed[q])
        PROVE  x \in Nat /\ x <= arrived /\ arrived \in Nat
    <3>1. ToSet(feed[q]) \subseteq Nat
      BY SeqParts DEF FeedKept
    <3> QED
      BY <2>2, <3>1 DEF FeedKept
  <2>3. ASSUME NEW q \in Buffered
        PROVE  Rises(feed'[q]) /\ \A x \in ToSet(feed'[q]) : x <= arrived'
    <3>1. \A x \in ToSet(feed'[q]) : x \in ToSet(feed[q]) \/ x = arrived + 1
      BY <2>1 DEF FeedMoves
    <3>2. Rises(feed'[q])
      BY <2>1 DEF FeedMoves, FeedKept
    <3>3. \A x \in ToSet(feed'[q]) : x <= arrived'
      <4>1. arrived \in Nat
        BY DEF FeedKept
      <4>2. \A x \in ToSet(feed[q]) : x <= arrived'
        <5> SUFFICES ASSUME NEW x \in ToSet(feed[q]) PROVE x <= arrived'
          OBVIOUS
        <5>1. x \in Nat /\ x <= arrived
          BY <2>2
        <5> QED
          BY <1>1, <4>1, <5>1
      <4> QED
        BY <1>1, <3>1, <4>1, <4>2
    <3> QED
      BY <3>2, <3>3
  <2>4. ASSUME NEW q \in Buffered, NEW r \in Buffered, q # r
        PROVE  ToSet(feed'[q]) \cap ToSet(feed'[r]) = {}
    <3>1. ToSet(feed[q]) \cap ToSet(feed[r]) = {}
      BY <2>4 DEF FeedKept
    <3>2. arrived + 1 \notin ToSet(feed[q]) /\ arrived + 1 \notin ToSet(feed[r])
      BY <2>2
    <3>3. ASSUME NEW t \in Buffered, t # p PROVE feed'[t] = feed[t]
      BY <2>1, <3>3 DEF FeedMoves
    <3>4. \A x \in ToSet(feed'[p]) : x \in ToSet(feed[p]) \/ x = arrived + 1
      BY <2>1 DEF FeedMoves
    <3>5. CASE q = p
      BY <2>4, <3>1, <3>2, <3>3, <3>4, <3>5
    <3>6. CASE r = p
      BY <2>4, <3>1, <3>2, <3>3, <3>4, <3>6
    <3>7. CASE q # p /\ r # p
      BY <3>1, <3>3, <3>7
    <3> QED
      BY <3>5, <3>6, <3>7
  <2> QED
    BY <1>2, <2>1, <2>3, <2>4 DEF FeedKept, FeedMoves
<1>4. CASE p \notin Buffered
  <2>1. feed' = feed
    BY <1>4 DEF IngestPacket
  <2>2. \A q \in Buffered : \A x \in ToSet(feed[q]) : x <= arrived + 1
    <3> SUFFICES ASSUME NEW q \in Buffered, NEW x \in ToSet(feed[q]) PROVE x <= arrived + 1
      OBVIOUS
    <3>1. x \in Nat /\ x <= arrived /\ arrived \in Nat
      BY SeqParts DEF FeedKept
    <3> QED
      BY <3>1
  <2> QED
    BY <1>1, <1>2, <2>1, <2>2 DEF FeedKept
<1> QED
  BY <1>3, <1>4

\* So does every step: the keys touch no buffer.
LEMMA FeedNext ==
  ASSUME FeedKept, [PanelsNext]_<<vars, panel, devicesView, radar, focused_panel>>
  PROVE  FeedKept'
<1>1. CASE UNCHANGED vars
  BY <1>1 DEF vars, FeedKept
<1>2. CASE FeedStep
  <2>1. ASSUME NEW p \in Protocol, IngestPacket(p) PROVE FeedKept'
    BY <2>1, FeedIngest
  <2>2. CASE ScrollUp \/ ScrollDown \/ ResumeScroll
    <3>1. /\ feed' = feed /\ arrived' = arrived /\ display_filter' = display_filter
          /\ feed_scroll' \in Nat /\ feed_paused_scroll' \in BOOLEAN
      <4>1. feed_scroll \in Nat
        BY DEF FeedKept
      <4>2. CASE ScrollUp
        BY <4>1, <4>2 DEF ScrollUp
      <4>3. CASE ScrollDown
        <5>1. feed_scroll' \in Nat
          BY <4>1, <4>3 DEF ScrollDown
        <5> QED
          BY <4>3, <5>1 DEF ScrollDown
      <4>4. CASE ResumeScroll
        BY <4>4 DEF ResumeScroll
      <4> QED
        BY <2>2, <4>2, <4>3, <4>4
    <3> QED
      BY <3>1 DEF FeedKept
  <2>3. CASE CycleFilter
    <3>1. /\ feed' = feed /\ arrived' = arrived
          /\ feed_scroll' = feed_scroll /\ feed_paused_scroll' = feed_paused_scroll
      BY <2>3 DEF CycleFilter
    <3>2. display_filter' \in Filter
      <4>1. display_filter \in {"tcp", "udp", "icmp", "all"}
        BY DEF FeedKept, Filter, Buffered
      <4>2. display_filter' \in {"tcp", "udp", "icmp", "all"}
        BY <2>3, <4>1 DEF CycleFilter
      <4> QED
        BY <4>2 DEF Filter, Buffered
    <3> QED
      BY <3>1, <3>2 DEF FeedKept
  <2> QED
    BY <1>2, <2>1, <2>2, <2>3 DEF FeedStep
<1>3. CASE AlertStep \/ DeviceStep \/ RadarStep
  BY <1>1, <1>3 DEF AlertStep, DeviceStep, RadarStep
<1>4. UNCHANGED <<vars, panel, devicesView, radar, focused_panel>> => UNCHANGED vars
  OBVIOUS
<1> QED
  BY <1>1, <1>2, <1>3, <1>4 DEF PanelsNext

\* The lines of a reader who is back, after a packet that is listed.
LEMMA FeedPlace ==
  ASSUME FeedKept, FeedSeen, FeedSeen', NEW p \in Protocol, IngestPacket(p)
  PROVE  FeedKeepsPlace
<1> SUFFICES ASSUME Rows # 1, feed_paused_scroll, Listed' # Listed, Visible # <<>>,
                    \A n \in Dropped : n < Visible[1]
             PROVE  Visible' # <<>> /\ Visible'[1] = Visible[1]
  BY DEF FeedKeepsPlace
<1>1. /\ arrived' = arrived + 1 /\ display_filter' = display_filter
      /\ feed_paused_scroll' = feed_paused_scroll /\ feed_scroll' = feed_scroll + 1
  BY DEF IngestPacket
<1>2. p \in Passing /\ p \in Buffered
  <2>1. p \in Buffered
    <3> SUFFICES ASSUME p \notin Buffered PROVE FALSE
      OBVIOUS
    <3>1. feed' = feed
      BY DEF IngestPacket
    <3> QED
      BY <1>1, <3>1 DEF Listed
  <2>2. CASE display_filter = "all"
    BY <2>1, <2>2 DEF Passing
  <2>3. CASE display_filter # "all" /\ display_filter # p
    <3>1. display_filter \in Buffered
      BY <2>3 DEF FeedKept, Filter
    <3>2. feed'[display_filter] = feed[display_filter]
      BY <2>1, <2>3, <3>1 DEF IngestPacket, FeedKept
    <3> QED
      BY <1>1, <2>3, <3>2 DEF Listed
  <2>4. CASE display_filter # "all" /\ display_filter = p
    BY <2>1, <2>4 DEF Passing
  <2> QED
    BY <2>1, <2>2, <2>3, <2>4
<1>3. PICK Lost : FeedMoves(p, Lost)
  BY <1>2, FeedMoved
<1>4. PICK T, U : T = FeedTimes /\ U = FeedTimes'
  OBVIOUS
<1>5. Passing \subseteq Buffered /\ Passing' = Passing
  BY <1>1 DEF Passing, FeedKept, Filter
<1>6. T \subseteq Nat /\ \A x \in T : x < arrived + 1
  <2>1. \A q \in Buffered : ToSet(feed[q]) \subseteq Nat /\ \A x \in ToSet(feed[q]) : x <= arrived
    BY SeqParts DEF FeedKept
  <2>2. \A x \in T : x \in Nat /\ x <= arrived
    BY <1>4, <1>5, <2>1 DEF FeedTimes
  <2>3. arrived \in Nat
    BY DEF FeedKept
  <2> QED
    BY <2>2, <2>3
<1>7. U = (T \ Lost) \cup {arrived + 1} /\ Lost \subseteq T
  <2>1. \A q \in Passing : q # p => ToSet(feed[q]) \cap Lost = {} /\ feed'[q] = feed[q]
    BY <1>2, <1>3, <1>5 DEF FeedKept, FeedMoves
  <2>2. U = UNION {ToSet(feed'[q]) : q \in Passing} /\ T = UNION {ToSet(feed[q]) : q \in Passing}
    BY <1>4, <1>5 DEF FeedTimes
  <2>3. /\ ToSet(feed'[p]) = (ToSet(feed[p]) \ Lost) \cup {arrived + 1}
        /\ Lost \subseteq ToSet(feed[p])
    BY <1>3 DEF FeedMoves
  <2> QED
    BY <1>2, <2>1, <2>2, <2>3
<1>8. PICK skip : skip = Skip(Len(Listed), Rows, feed_scroll)
  OBVIOUS
<1>9. /\ Lists(Listed, T) /\ Lists(Listed', U)
      /\ Rows # 0 /\ skip < Len(Listed) /\ Visible[1] = Listed[skip + 1]
      /\ Rows # 0 /\ Skip(Len(Listed'), Rows, feed_scroll + 1) < Len(Listed') => Visible' # <<>>
      /\ Visible' # <<>> => Visible'[1] = Listed'[Skip(Len(Listed'), Rows, feed_scroll + 1) + 1]
  BY <1>1, <1>4, <1>8 DEF FeedSeen
<1>10. PICK n, m, c : n = Len(Listed) /\ m = Len(Listed') /\ c = Cardinality(Lost)
  OBVIOUS
<1>11. /\ n \in Nat /\ Rows \in Nat /\ feed_scroll \in Nat /\ c \in {0, 1} /\ skip \in Nat
       /\ n = Cardinality(T) /\ m = Cardinality(U) /\ IsFiniteSet(T) /\ arrived + 1 \in Nat
       /\ \A i \in 1..n : Listed[i] = Nth(T, i)
       /\ \A i \in 1..m : Listed'[i] = Nth(U, i)
  <2>1. n \in Nat /\ Rows \in Nat /\ feed_scroll \in Nat /\ c \in {0, 1} /\ arrived + 1 \in Nat
    BY <1>3, <1>9, <1>10, SeqParts, FeedAssumption DEF FeedKept, FeedMoves, Lists
  <2>2. skip \in Nat
    BY <1>8, <1>10, <2>1 DEF Skip
  <2> QED
    BY <1>9, <1>10, <2>1, <2>2 DEF Lists
<1>12. skip + 1 \in 1..n /\ Visible[1] = Nth(T, skip + 1)
  BY <1>9, <1>10, <1>11
<1>13. \A x \in Lost : x < Nth(T, skip + 1)
  <2>1. ASSUME NEW x \in Lost PROVE x \in Dropped
    <3>1. x \in ToSet(feed[p]) /\ x \notin ToSet(feed'[p])
      <4>1. x \in T /\ x # arrived + 1
        BY <1>6, <1>7, <1>11
      <4> QED
        BY <1>3, <4>1 DEF FeedMoves
    <3> QED
      BY <1>2, <3>1 DEF Dropped
  <2> QED
    BY <1>12, <2>1
<1>14. /\ m = n + 1 - c
       /\ (skip + 1) - c \in 1..m
       /\ Nth(U, (skip + 1) - c) = Nth(T, skip + 1)
  <2>1. PICK k, a : k = skip + 1 /\ a = arrived + 1
    OBVIOUS
  <2>2. /\ k \in 1..Cardinality(T) /\ a \in Nat /\ \A x \in T : x < a
        /\ \A x \in Lost : x < Nth(T, k)
        /\ U = (T \ Lost) \cup {a}
    BY <1>6, <1>7, <1>11, <1>12, <1>13, <2>1
  <2>3. /\ Cardinality(U) = Cardinality(T) + 1 - c
        /\ k - c \in 1..Cardinality(U)
        /\ Nth(U, k - c) = Nth(T, k)
    <3>1. OneLater(T, Lost, a, U)
      BY <1>6, <1>7, <1>10, <1>11, <2>2 DEF OneLater
    <3> QED
      BY <1>10, <2>2, <3>1, PlaceKept
  <2> QED
    BY <1>11, <2>1, <2>3
<1>15. Skip(m, Rows, feed_scroll + 1) = skip - c
  <2>1. c = 1 => skip >= 1
    BY <1>11, <1>14
  <2> QED
    <3>1. c = 1 => Skip(n, Rows, feed_scroll) >= 1
      BY <1>8, <1>10, <2>1
    <3>2. Skip(n + 1 - c, Rows, feed_scroll + 1) = Skip(n, Rows, feed_scroll) - c
      BY <1>11, <3>1 DEF Skip
    <3> QED
      BY <1>8, <1>10, <1>14, <3>2
<1>16. Skip(m, Rows, feed_scroll + 1) < m
       /\ Skip(m, Rows, feed_scroll + 1) + 1 = (skip + 1) - c
  BY <1>11, <1>14, <1>15
<1> QED
  BY <1>9, <1>10, <1>11, <1>12, <1>14, <1>16

\* The reader of the feed keeps the place in every step.
LEMMA FeedStays ==
  ASSUME FeedKept, FeedKept', FeedSeen, FeedSeen',
         [PanelsNext]_<<vars, panel, devicesView, radar, focused_panel>>
  PROVE  FeedKeepsPlace
<1>1. arrived' = arrived => FeedKeepsPlace
  BY DEF FeedKeepsPlace, FeedKept
<1>2. CASE FeedStep
  <2>1. CASE ScrollUp \/ ScrollDown \/ ResumeScroll \/ CycleFilter
    BY <1>1, <2>1 DEF ScrollUp, ScrollDown, ResumeScroll, CycleFilter
  <2>2. ASSUME NEW p \in Protocol, IngestPacket(p) PROVE FeedKeepsPlace
    BY <2>2, FeedPlace
  <2> QED
    BY <1>2, <2>1, <2>2 DEF FeedStep
<1>3. CASE AlertStep \/ DeviceStep \/ RadarStep \/ UNCHANGED vars
  BY <1>1, <1>3 DEF AlertStep, DeviceStep, RadarStep, vars
<1> QED
  BY <1>2, <1>3 DEF PanelsNext

-----------------------------------------------------------------------------
(***************************************************************************)
(* The alert log: the times of its lists.                                  *)
(***************************************************************************)
Alert == [at : Nat, rule : {"any"}, tier : A!Tier, about : Seq(Address)]

\* The times of a list of alerts.
At(list) == [i \in DOMAIN list |-> list[i].at]

\* The parts of an alert.
LEMMA AlertFields ==
  ASSUME NEW a \in Alert
  PROVE  a.at \in Nat
BY DEF Alert

\* The times of a list of alerts.
LEMMA AtIs ==
  ASSUME NEW s \in Seq(Alert)
  PROVE  /\ At(s) \in Seq(Nat) /\ Len(At(s)) = Len(s) /\ DOMAIN At(s) = 1..Len(s)
         /\ \A i \in 1..Len(s) : At(s)[i] = s[i].at /\ s[i].at \in Nat /\ s[i] \in Alert
         /\ Times(s) = ToSet(At(s))
<1>1. Len(s) \in Nat /\ DOMAIN s = 1..Len(s) /\ \A i \in 1..Len(s) : s[i] \in Alert
  BY SeqParts
<1>2. \A i \in 1..Len(s) : s[i].at \in Nat
  BY <1>1, AlertFields
<1>3. At(s) = [i \in 1..Len(s) |-> s[i].at]
  BY <1>1 DEF At
<1>4. At(s) \in [1..Len(s) -> Nat]
  BY <1>2, <1>3
<1>5. At(s) \in Seq(Nat)
  BY <1>1, <1>4
<1>6. Len(At(s)) = Len(s) /\ DOMAIN At(s) = 1..Len(s)
  <2>1. DOMAIN At(s) = 1..Len(At(s)) /\ Len(At(s)) \in Nat
    BY <1>5, LenProperties
  <2>2. DOMAIN At(s) = 1..Len(s)
    BY <1>3
  <2>3. PICK k, n : k = Len(At(s)) /\ n = Len(s)
    OBVIOUS
  <2>4. k \in Nat /\ n \in Nat /\ 1..k = 1..n
    BY <1>1, <2>1, <2>2, <2>3
  <2>5. k = n
    BY <2>4
  <2> QED
    BY <2>2, <2>3, <2>5
<1>7. Times(s) = ToSet(At(s))
  <2>1. Times(s) = {s[i].at : i \in 1..Len(s)}
    BY <1>1 DEF Times
  <2>2. ToSet(At(s)) = {At(s)[i] : i \in 1..Len(s)}
    BY <1>6 DEF ToSet
  <2>3. \A i \in 1..Len(s) : At(s)[i] = s[i].at
    BY <1>3
  <2> QED
    BY <2>1, <2>2, <2>3
<1> QED
  BY <1>1, <1>2, <1>3, <1>5, <1>6, <1>7

\* The times of two lists, one after the other.
LEMMA AtConcat ==
  ASSUME NEW s \in Seq(Alert), NEW t \in Seq(Alert)
  PROVE  s \o t \in Seq(Alert) /\ At(s \o t) = At(s) \o At(t)
<1>1. PICK m, n : m = Len(s) /\ n = Len(t)
  OBVIOUS
<1>2. PICK a, b, c : a = s \o t /\ b = At(s) /\ c = At(t)
  OBVIOUS
<1>3. /\ m \in Nat /\ n \in Nat /\ b \in Seq(Nat) /\ c \in Seq(Nat) /\ Len(b) = m /\ Len(c) = n
      /\ \A i \in 1..m : b[i] = s[i].at
      /\ \A i \in 1..n : c[i] = t[i].at
  <2>1. Len(s) \in Nat /\ Len(t) \in Nat
    BY SeqParts
  <2> QED
    BY <1>1, <1>2, <2>1, AtIs
<1>4. /\ a \in Seq(Alert) /\ Len(a) = m + n
      /\ \A i \in 1..(m + n) : a[i] = IF i <= m THEN s[i] ELSE t[i - m]
  BY <1>1, <1>2, ConcatProperties
<1>5. /\ b \o c \in Seq(Nat) /\ Len(b \o c) = m + n
      /\ \A i \in 1..(m + n) : (b \o c)[i] = IF i <= m THEN b[i] ELSE c[i - m]
  BY <1>3, ConcatProperties, ZenonT(30)
<1>6. At(a) \in Seq(Nat) /\ Len(At(a)) = m + n /\ \A i \in 1..(m + n) : At(a)[i] = a[i].at
  <2>1. /\ At(a) \in Seq(Nat) /\ Len(At(a)) = Len(a)
        /\ \A i \in 1..Len(a) : At(a)[i] = a[i].at
    BY <1>4, AtIs
  <2> QED
    BY <1>4, <2>1
<1>7. ASSUME NEW i \in 1..(m + n) PROVE At(a)[i] = (b \o c)[i]
  <2>1. CASE i <= m
    <3>1. i \in 1..m
      BY <1>3, <2>1
    <3>2. a[i] = s[i] /\ (b \o c)[i] = b[i]
      BY <1>4, <1>5, <2>1
    <3>3. b[i] = s[i].at /\ At(a)[i] = a[i].at
      BY <1>3, <1>6, <3>1
    <3> QED
      BY <3>2, <3>3
  <2>2. CASE ~(i <= m)
    <3>1. i - m \in 1..n
      BY <1>3, <2>2
    <3>2. a[i] = t[i - m] /\ (b \o c)[i] = c[i - m]
      BY <1>4, <1>5, <2>2
    <3>3. c[i - m] = t[i - m].at /\ At(a)[i] = a[i].at
      BY <1>3, <1>6, <3>1
    <3> QED
      BY <3>2, <3>3
  <2> QED
    BY <2>1, <2>2
<1>8. At(a) = b \o c
  <2>1. PICK x, y : x = At(a) /\ y = b \o c
    OBVIOUS
  <2>2. x \in Seq(Nat) /\ y \in Seq(Nat) /\ Len(x) = Len(y) /\ \A i \in 1..Len(x) : x[i] = y[i]
    BY <1>5, <1>6, <1>7, <2>1
  <2> QED
    BY <2>1, <2>2, SeqEqual
<1> QED
  BY <1>2, <1>4, <1>8

\* The times with one alert more.
LEMMA AtAppend ==
  ASSUME NEW s \in Seq(Alert), NEW r \in Alert
  PROVE  Append(s, r) \in Seq(Alert) /\ At(Append(s, r)) = Append(At(s), r.at)
<1>1. PICK n, a, b, y : n = Len(s) /\ a = Append(s, r) /\ b = At(s) /\ y = Append(b, r.at)
  OBVIOUS
<1>2. /\ n \in Nat /\ r.at \in Nat /\ b \in Seq(Nat) /\ Len(b) = n
      /\ \A i \in 1..n : b[i] = s[i].at
  BY <1>1, AtIs, AlertFields, SeqParts
<1>3. /\ a \in Seq(Alert) /\ Len(a) = n + 1 /\ a[n + 1] = r
      /\ \A i \in 1..n : a[i] = s[i]
  BY <1>1, AppendProperties
<1>4. /\ y \in Seq(Nat) /\ Len(y) = n + 1 /\ y[n + 1] = r.at
      /\ \A i \in 1..n : y[i] = b[i]
  BY <1>1, <1>2, AppendProperties
<1>5. PICK x : x = At(a)
  OBVIOUS
<1>6. x \in Seq(Nat) /\ Len(x) = n + 1 /\ \A i \in 1..(n + 1) : x[i] = a[i].at
  BY <1>3, <1>5, AtIs
<1>7. ASSUME NEW i \in 1..(n + 1) PROVE x[i] = y[i]
  <2>1. i \in 1..n \/ i = n + 1
    BY <1>2
  <2> QED
    BY <1>2, <1>3, <1>4, <1>6, <2>1
<1>8. x = y
  BY <1>4, <1>6, <1>7, SeqEqual
<1> QED
  BY <1>1, <1>3, <1>5, <1>8

\* The times without the first alert.
LEMMA AtTail ==
  ASSUME NEW s \in Seq(Alert), s # <<>>
  PROVE  Tail(s) \in Seq(Alert) /\ At(Tail(s)) = Tail(At(s)) /\ At(s) # <<>>
         /\ Len(Tail(s)) = Len(s) - 1
<1>1. PICK n, a, b, y : n = Len(s) /\ a = Tail(s) /\ b = At(s) /\ y = Tail(b)
  OBVIOUS
<1>2. /\ n \in Nat /\ n # 0 /\ b \in Seq(Nat) /\ Len(b) = n
      /\ \A i \in 1..n : b[i] = s[i].at
  BY <1>1, AtIs, EmptySeq, SeqParts
<1>3. b # <<>>
  BY <1>2, EmptySeq
<1>4. a \in Seq(Alert) /\ Len(a) = n - 1 /\ \A i \in 1..(n - 1) : a[i] = s[i + 1]
  BY <1>1, HeadTailProperties
<1>5. y \in Seq(Nat) /\ Len(y) = n - 1 /\ \A i \in 1..(n - 1) : y[i] = b[i + 1]
  BY <1>1, <1>2, <1>3, HeadTailProperties
<1>6. PICK x : x = At(a)
  OBVIOUS
<1>7. x \in Seq(Nat) /\ Len(x) = n - 1 /\ \A i \in 1..(n - 1) : x[i] = a[i].at
  BY <1>4, <1>6, AtIs
<1>8. ASSUME NEW i \in 1..(n - 1) PROVE x[i] = y[i]
  <2>1. i + 1 \in 1..n
    BY <1>2
  <2> QED
    BY <1>2, <1>4, <1>5, <1>7, <2>1
<1>9. x = y
  BY <1>5, <1>7, <1>8, SeqEqual
<1> QED
  BY <1>1, <1>3, <1>4, <1>6, <1>9

\* What is left of a list keeps its order.
LEMMA NthRises ==
  ASSUME NEW S, S \subseteq Int, IsFiniteSet(S), NEW i \in 1..Cardinality(S),
         NEW j \in 1..Cardinality(S), i < j
  PROVE  Nth(S, i) < Nth(S, j)
<1>1. PICK x \in S : x = Nth(S, i) /\ Cardinality(UpTo(S, x)) = i
  BY NthIn
<1>2. PICK y \in S : y = Nth(S, j) /\ Cardinality(UpTo(S, y)) = j
  BY NthIn
<1>3. x \in Int /\ y \in Int
  OBVIOUS
<1>4. ~(y <= x)
  <2> SUFFICES ASSUME y <= x PROVE FALSE
    OBVIOUS
  <2>1. UpTo(S, y) \subseteq UpTo(S, x)
    <3>1. \A z \in S : z \in Int /\ (z <= y => z <= x)
      BY <1>3
    <3> QED
      BY <3>1 DEF UpTo
  <2>2. IsFiniteSet(UpTo(S, x))
    <3>1. UpTo(S, x) \in SUBSET S
      BY DEF UpTo
    <3> QED
      BY <3>1, FS_Subset
  <2>3. UpTo(S, y) \in SUBSET UpTo(S, x)
    BY <2>1
  <2>4. Cardinality(UpTo(S, y)) <= Cardinality(UpTo(S, x))
    BY <2>2, <2>3, FS_Subset
  <2>5. j <= i
    BY <1>1, <1>2, <2>4
  <2> QED
    BY <2>5
<1> QED
  BY <1>1, <1>2, <1>3, <1>4

\* Forgetting alerts keeps the rest in order.
LEMMA SelectedRises ==
  ASSUME NEW s \in Seq(Alert), NEW S \in SUBSET DOMAIN s, NEW r, r = Selected(s, S)
  PROVE  /\ r \in Seq(Alert) /\ Len(r) = Cardinality(S) /\ Len(r) <= Len(s)
         /\ Times(r) \subseteq Times(s)
         /\ Rises(At(s)) => Rises(At(r))
<1>1. Len(s) \in Nat /\ DOMAIN s = 1..Len(s) /\ \A i \in 1..Len(s) : s[i] \in Alert
  BY SeqParts
<1>2. IsFiniteSet(1..Len(s)) /\ Cardinality(1..Len(s)) = Len(s) /\ S \in SUBSET (1..Len(s))
  BY <1>1, CountTo
<1>3. IsFiniteSet(S) /\ Cardinality(S) <= Len(s) /\ S \subseteq Int
  <2>1. IsFiniteSet(S) /\ Cardinality(S) <= Len(s)
    BY <1>2, FS_Subset
  <2> QED
    BY <1>2, <2>1
<1>4. PICK n : n = Cardinality(S)
  OBVIOUS
<1>5. n \in Nat /\ n <= Len(s)
  BY <1>3, <1>4, FS_CardinalityType
<1>6. \A k \in 1..n : Nth(S, k) \in S
  BY <1>3, <1>4, NthIn
<1>7. r = [k \in 1..n |-> s[Nth(S, k)]]
  BY <1>4 DEF Selected
<1>8. r \in Seq(Alert) /\ Len(r) = n
  <2>1. r \in [1..n -> Alert]
    BY <1>1, <1>2, <1>6, <1>7
  <2>2. r \in Seq(Alert)
    BY <1>5, <2>1
  <2>3. DOMAIN r = 1..n /\ DOMAIN r = 1..Len(r) /\ Len(r) \in Nat
    BY <2>1, <2>2, LenProperties
  <2> QED
    BY <1>5, <2>2, <2>3
<1>9. Times(r) \subseteq Times(s)
  BY <1>6, <1>7 DEF Times
<1>10. ASSUME Rises(At(s)) PROVE Rises(At(r))
  <2>1. DOMAIN At(r) = 1..n /\ \A i \in 1..n : At(r)[i] = r[i].at
    BY <1>8, AtIs
  <2> SUFFICES ASSUME NEW i \in 1..n, NEW j \in 1..n, i < j PROVE At(r)[i] < At(r)[j]
    BY <2>1 DEF Rises
  <2>2. Nth(S, i) < Nth(S, j) /\ Nth(S, i) \in 1..Len(s) /\ Nth(S, j) \in 1..Len(s)
    BY <1>2, <1>3, <1>4, <1>6, NthRises
  <2>3. At(s)[Nth(S, i)] < At(s)[Nth(S, j)]
    BY <1>10, <2>2, AtIs DEF Rises
  <2>4. /\ At(s)[Nth(S, i)] = s[Nth(S, i)].at
        /\ At(s)[Nth(S, j)] = s[Nth(S, j)].at
    BY <2>2, AtIs
  <2> QED
    BY <1>7, <2>1, <2>3, <2>4
<1> QED
  BY <1>4, <1>5, <1>8, <1>9, <1>10

-----------------------------------------------------------------------------
(***************************************************************************)
(* The alert log: what one alert does.                                     *)
(***************************************************************************)
\* The module AlertPanel has the operators of Listing, too.
LEMMA SameListing ==
  ASSUME NEW list, NEW S, NEW time
  PROVE  /\ A!Selected(list, S) = Selected(list, S)
         /\ A!Sorted(list, time) = Sorted(list, time)
<1>1. A!Selected(list, S) = Selected(list, S)
  BY DEF A!Selected, Selected, A!Nth, Nth, A!Cardinality, Cardinality
<1>2. A!Sorted(list, time) = Sorted(list, time)
  BY DEF A!Sorted, Sorted, A!Cardinality, Cardinality
<1> QED
  BY <1>1, <1>2

\* The inductive invariant of the alert log.
AlertsKept ==
  /\ alert_scroll \in Nat /\ alert_paused_scroll \in BOOLEAN
  /\ alert_filter \in A!Tier \cup {"all"}
  /\ total_alerts \in [A!Tier -> Nat]
  /\ alerts \in [A!Tier -> Seq(Alert)]
  /\ \A t \in A!Tier : /\ Len(alerts[t]) <= AlertCap
                       /\ Rises(At(alerts[t])) /\ \A n \in Times(alerts[t]) : n <= Pushed
  /\ \A t, u \in A!Tier : t # u => Times(alerts[t]) \cap Times(alerts[u]) = {}

\* The empty log.
LEMMA AlertsInit == PanelsInit => AlertsKept
<1> SUFFICES ASSUME PanelsInit PROVE AlertsKept
  OBVIOUS
<1>1. /\ alerts = [t \in A!Tier |-> <<>>] /\ total_alerts = [t \in A!Tier |-> 0]
      /\ alert_filter = "all" /\ alert_scroll = 0 /\ alert_paused_scroll = FALSE
  BY DEF PanelsInit, A!PanelInit
<1>2. /\ <<>> \in Seq(Alert) /\ Times(<<>>) = {} /\ Rises(At(<<>>)) /\ Len(<<>>) = 0
  BY DEF Times, Rises, At
<1>3. alerts \in [A!Tier -> Seq(Alert)]
  BY <1>1, <1>2
<1>4. AlertCap \in Nat
  BY PanelsAssumption
<1>5. \A t \in A!Tier : Len(alerts[t]) <= AlertCap
  BY <1>1, <1>2, <1>4
<1> QED
  BY <1>1, <1>2, <1>3, <1>5 DEF AlertsKept

\* One alert goes to the list of its tier.
LEMMA OneSelected ==
  ASSUME NEW r \in Alert, NEW t \in A!Tier
  PROVE  A!OfTier(<<r>>, t) = IF r.tier = t THEN <<r>> ELSE <<>>
<1> DEFINE S == {i \in DOMAIN <<r>> : <<r>>[i].tier = t}
<1>1. DOMAIN <<r>> = {1} /\ <<r>>[1] = r
  OBVIOUS
<1>2. A!OfTier(<<r>>, t) = Selected(<<r>>, S)
  BY SameListing DEF A!OfTier
<1>3. CASE r.tier = t
  <2>1. S = {1}
    BY <1>1, <1>3
  <2>2. IsFiniteSet({1}) /\ Cardinality({1}) = 1
    BY FS_Singleton
  <2>3. Nth({1}, 1) = 1
    <3>1. 1 \in 1..Cardinality({1}) /\ {1} \subseteq Int
      BY <2>2
    <3> QED
      BY <2>2, <3>1, NthIn
  <2>4. 1..1 = {1}
    OBVIOUS
  <2>5. Selected(<<r>>, {1}) = [k \in {1} |-> <<r>>[Nth({1}, k)]]
    BY <2>2, <2>4 DEF Selected
  <2>6. Selected(<<r>>, {1}) = [k \in {1} |-> r]
    BY <1>1, <2>3, <2>5
  <2>7. <<r>> = [k \in {1} |-> r]
    OBVIOUS
  <2> QED
    BY <1>2, <1>3, <2>1, <2>6, <2>7
<1>4. CASE r.tier # t
  <2>1. S = {}
    BY <1>1, <1>4
  <2>2. Cardinality({}) = 0 /\ 1..0 = {}
    BY FS_EmptySet
  <2>3. Selected(<<r>>, {}) = [k \in {} |-> <<r>>[Nth({}, k)]]
    BY <2>2 DEF Selected
  <2>4. Selected(<<r>>, {}) = <<>>
    BY <2>3
  <2> QED
    BY <1>2, <1>4, <2>1, <2>4
<1> QED
  BY <1>3, <1>4

\* What an alert does to the list of its tier: Lost goes.
LEMMA TrimmedIs ==
  ASSUME NEW s \in Seq(Alert), Len(s) <= AlertCap, Rises(At(s)), NEW r \in Alert,
         \A x \in Times(s) : x < r.at, NEW u, u = A!Trimmed(s \o <<r>>)
  PROVE  /\ u \in Seq(Alert) /\ Len(u) <= AlertCap /\ Rises(At(u))
         /\ \E Lost \in SUBSET Times(s) :
              /\ IsFiniteSet(Lost) /\ Cardinality(Lost) \in {0, 1}
              /\ Times(u) = (Times(s) \ Lost) \cup {r.at}
<1>1. PICK l : l = s \o <<r>>
  OBVIOUS
<1>2. l = Append(s, r)
  BY <1>1, AppendIsConcat
<1>3. l \in Seq(Alert) /\ At(l) = Append(At(s), r.at) /\ Len(l) = Len(s) + 1
  BY <1>2, AtAppend, AppendProperties
<1>4. /\ At(s) \in Seq(Nat) /\ Times(s) = ToSet(At(s)) /\ r.at \in Nat
      /\ Len(s) \in Nat /\ AlertCap \in Nat /\ AlertCap >= 1
  BY AtIs, AlertFields, PanelsAssumption, SeqParts
<1>5. /\ At(l) \in Seq(Nat) /\ Rises(At(l)) /\ ToSet(At(l)) = Times(s) \cup {r.at}
      /\ Times(l) = ToSet(At(l))
  <2>1. /\ Append(At(s), r.at) \in Seq(Nat) /\ Rises(Append(At(s), r.at))
        /\ ToSet(Append(At(s), r.at)) = ToSet(At(s)) \cup {r.at}
    BY <1>4, AppendRises
  <2> QED
    BY <1>3, <1>4, <2>1, AtIs
<1>6. CASE ~(Len(l) > AlertCap)
  <2>1. u = l /\ Len(u) <= AlertCap
    BY <1>1, <1>3, <1>4, <1>6 DEF A!Trimmed
  <2>2. IsFiniteSet({}) /\ Cardinality({}) = 0
    BY FS_EmptySet
  <2>3. Times(l) = (Times(s) \ {}) \cup {r.at} /\ {} \in SUBSET Times(s)
    BY <1>5
  <2> QED
    BY <1>3, <1>5, <2>1, <2>2, <2>3
<1>7. CASE Len(l) > AlertCap
  <2>1. Len(l) - AlertCap + 1 = 2 /\ Len(s) >= 1
    BY <1>3, <1>4, <1>7
  <2>2. l # <<>>
    BY <1>3, <1>4, EmptySeq
  <2>3. u = Tail(l)
    <3>1. u = SubSeq(l, Len(l) - AlertCap + 1, Len(l))
      BY <1>1, <1>7 DEF A!Trimmed
    <3>2. Tail(l) = SubSeq(l, 2, Len(l))
      BY <1>3, <2>2, TailIsSubSeq
    <3> QED
      BY <2>1, <3>1, <3>2
  <2>4. u \in Seq(Alert) /\ At(u) = Tail(At(l)) /\ At(l) # <<>> /\ Len(u) = Len(l) - 1
    BY <1>3, <2>2, <2>3, AtTail
  <2>5. Len(u) <= AlertCap
    BY <1>3, <1>4, <2>4
  <2>6. PICK d : d = At(l)[1]
    OBVIOUS
  <2>7. Rises(At(u)) /\ Times(u) = Times(l) \ {d}
    <3>1. /\ Rises(Tail(At(l))) /\ ToSet(Tail(At(l))) = ToSet(At(l)) \ {At(l)[1]}
      BY <1>5, <2>4, TailRises
    <3>2. Times(u) = ToSet(At(u))
      BY <2>4, AtIs
    <3> QED
      BY <1>5, <2>4, <2>6, <3>1, <3>2
  <2>8. d \in Times(s) /\ d # r.at
    <3>1. 1 \in 1..Len(s) /\ Len(At(s)) = Len(s)
      BY <1>4, <2>1, AtIs
    <3>2. d = At(s)[1]
      BY <1>3, <1>4, <2>6, <3>1, AppendProperties
    <3>3. At(s)[1] \in ToSet(At(s))
      BY <1>4, <3>1, SeqParts
    <3>4. d \in Times(s)
      BY <1>4, <3>2, <3>3
    <3>5. d \in Nat /\ d < r.at
      <4>1. ToSet(At(s)) \subseteq Nat
        BY <1>4, SeqParts
      <4> QED
        BY <1>4, <3>4, <4>1
    <3> QED
      BY <1>4, <3>4, <3>5
  <2>9. IsFiniteSet({d}) /\ Cardinality({d}) = 1
    BY FS_Singleton
  <2>10. Times(u) = (Times(s) \ {d}) \cup {r.at} /\ {d} \in SUBSET Times(s)
    BY <1>5, <2>7, <2>8
  <2> QED
    BY <2>4, <2>5, <2>7, <2>9, <2>10
<1> QED
  BY <1>6, <1>7

\* The totals count the alerts.
LEMMA PushedIs ==
  ASSUME AlertsKept
  PROVE  Pushed \in Nat
<1>1. \A t \in {"suspicious", "behavioral", "external", "noise"} : total_alerts[t] \in Nat
  BY DEF AlertsKept, A!Tier
<1> QED
  BY <1>1 DEF Pushed

\* An alert: what it drops from its list, and what it leaves.
AlertMoves(t, Lost) ==
  /\ Lost \subseteq Times(alerts[t]) /\ IsFiniteSet(Lost) /\ Cardinality(Lost) \in {0, 1}
  /\ alerts' \in [A!Tier -> Seq(Alert)]
  /\ Len(alerts'[t]) <= AlertCap /\ Rises(At(alerts'[t]))
  /\ Times(alerts'[t]) = (Times(alerts[t]) \ Lost) \cup {Pushed + 1}
  /\ \A u \in A!Tier : u # t => alerts'[u] = alerts[u]

\* push_alert of one alert: the totals, the offset and the list of its tier.
LEMMA AlertMoved ==
  ASSUME AlertsKept, NEW t \in A!Tier, NEW ip \in Address, PushAlert(t, ip)
  PROVE  /\ Pushed' = Pushed + 1 /\ total_alerts' \in [A!Tier -> Nat]
         /\ alert_scroll' = IF alert_paused_scroll THEN alert_scroll + 1 ELSE alert_scroll
         /\ alert_filter' = alert_filter /\ alert_paused_scroll' = alert_paused_scroll
         /\ \E Lost : AlertMoves(t, Lost)
<1>1. PICK r : r = [at |-> Pushed + 1, rule |-> "any", tier |-> t, about |-> <<ip>>]
  OBVIOUS
<1>2. Pushed \in Nat
  BY PushedIs
<1>3. r \in Alert /\ r.at = Pushed + 1 /\ r.tier = t
  BY <1>1, <1>2 DEF Alert
<1>4. A!PushAlerts(<<r>>)
  BY <1>1 DEF PushAlert
<1>5. \A u \in A!Tier : A!OfTier(<<r>>, u) = IF u = t THEN <<r>> ELSE <<>>
  BY <1>3, OneSelected
<1>6. /\ alerts' = [u \in A!Tier |-> A!Trimmed(alerts[u] \o A!OfTier(<<r>>, u))]
      /\ total_alerts' = [u \in A!Tier |-> total_alerts[u] + Len(A!OfTier(<<r>>, u))]
      /\ alert_scroll' = IF alert_paused_scroll THEN alert_scroll + Len(<<r>>) ELSE alert_scroll
      /\ alert_filter' = alert_filter /\ alert_paused_scroll' = alert_paused_scroll
  BY <1>4 DEF A!PushAlerts
<1>7. Len(<<r>>) = 1 /\ Len(<<>>) = 0
  OBVIOUS
<1>8. \A u \in A!Tier : total_alerts'[u] = total_alerts[u] + (IF u = t THEN 1 ELSE 0)
  BY <1>5, <1>6, <1>7
<1>9. Pushed' = Pushed + 1
  <2>1. \A u \in {"suspicious", "behavioral", "external", "noise"} :
          total_alerts[u] \in Nat /\ total_alerts'[u] = total_alerts[u] + (IF u = t THEN 1 ELSE 0)
    BY <1>8 DEF AlertsKept, A!Tier
  <2>2. t \in {"suspicious", "behavioral", "external", "noise"}
    BY DEF A!Tier
  <2>3. PICK a, b, c, d : /\ a = total_alerts["suspicious"] /\ b = total_alerts["behavioral"]
                          /\ c = total_alerts["external"] /\ d = total_alerts["noise"]
    OBVIOUS
  <2>4. a \in Nat /\ b \in Nat /\ c \in Nat /\ d \in Nat /\ Pushed = a + b + c + d
    BY <2>1, <2>3 DEF Pushed
  <2>5. /\ Pushed' = total_alerts'["suspicious"] + total_alerts'["behavioral"]
                       + total_alerts'["external"] + total_alerts'["noise"]
        /\ total_alerts'["suspicious"] = a + (IF t = "suspicious" THEN 1 ELSE 0)
        /\ total_alerts'["behavioral"] = b + (IF t = "behavioral" THEN 1 ELSE 0)
        /\ total_alerts'["external"] = c + (IF t = "external" THEN 1 ELSE 0)
        /\ total_alerts'["noise"] = d + (IF t = "noise" THEN 1 ELSE 0)
    BY <2>1, <2>3 DEF Pushed
  <2> QED
    BY <2>2, <2>4, <2>5
<1>10. total_alerts' \in [A!Tier -> Nat]
  <2>1. ASSUME NEW u \in A!Tier PROVE total_alerts'[u] \in Nat
    <3>1. PICK k : k = total_alerts[u]
      OBVIOUS
    <3>2. k \in Nat
      BY <3>1 DEF AlertsKept
    <3>3. total_alerts'[u] = k + (IF u = t THEN 1 ELSE 0)
      BY <1>8, <3>1
    <3> QED
      BY <3>2, <3>3
  <2> QED
    BY <1>6, <2>1
<1>11. ASSUME NEW u \in A!Tier, u # t PROVE alerts'[u] = alerts[u]
  <2>1. alerts[u] \in Seq(Alert) /\ ~(Len(alerts[u]) > AlertCap)
    <3>1. alerts[u] \in Seq(Alert) /\ Len(alerts[u]) <= AlertCap /\ AlertCap \in Nat
      BY PanelsAssumption DEF AlertsKept
    <3>2. Len(alerts[u]) \in Nat
      BY <3>1, SeqParts
    <3> QED
      BY <3>1, <3>2
  <2>2. alerts[u] \o <<>> = alerts[u]
    BY <2>1, ConcatEmptySeq
  <2>3. alerts'[u] = A!Trimmed(alerts[u])
    BY <1>5, <1>6, <1>11, <2>2
  <2> QED
    BY <2>1, <2>3 DEF A!Trimmed
<1>12. PICK s, v : s = alerts[t] /\ v = A!Trimmed(s \o <<r>>)
  OBVIOUS
<1>13. alerts'[t] = v
  BY <1>5, <1>6, <1>12
<1>14. s \in Seq(Alert) /\ Len(s) <= AlertCap /\ Rises(At(s)) /\ \A x \in Times(s) : x < r.at
  <2>1. s \in Seq(Alert) /\ Len(s) <= AlertCap /\ Rises(At(s)) /\ \A x \in Times(s) : x <= Pushed
    BY <1>12 DEF AlertsKept
  <2>2. Times(s) \subseteq Nat
    BY <2>1, AtIs, SeqParts
  <2>3. \A x \in Times(s) : x < r.at
    BY <1>2, <1>3, <2>1, <2>2
  <2> QED
    BY <2>1, <2>3
<1>15. /\ v \in Seq(Alert) /\ Len(v) <= AlertCap /\ Rises(At(v))
       /\ \E Lost \in SUBSET Times(s) :
            /\ IsFiniteSet(Lost) /\ Cardinality(Lost) \in {0, 1}
            /\ Times(v) = (Times(s) \ Lost) \cup {r.at}
  BY <1>3, <1>12, <1>14, TrimmedIs
<1>16. alerts' \in [A!Tier -> Seq(Alert)]
  <2>1. \A u \in A!Tier : alerts'[u] \in Seq(Alert)
    BY <1>11, <1>13, <1>15 DEF AlertsKept
  <2> QED
    BY <1>6, <2>1
<1>17. \E Lost : AlertMoves(t, Lost)
  BY <1>3, <1>11, <1>12, <1>13, <1>15, <1>16 DEF AlertMoves
<1> QED
  BY <1>6, <1>7, <1>9, <1>10, <1>17

-----------------------------------------------------------------------------
(***************************************************************************)
(* The alert log: what the panel shows.                                    *)
(***************************************************************************)
\* push_alert keeps the lists in order and apart.
LEMMA AlertsPush ==
  ASSUME AlertsKept, NEW t \in A!Tier, NEW ip \in Address, PushAlert(t, ip)
  PROVE  AlertsKept'
<1>1. PICK Lost : AlertMoves(t, Lost)
  BY AlertMoved
<1>2. /\ Pushed' = Pushed + 1 /\ Pushed \in Nat
      /\ alert_scroll' \in Nat /\ alert_paused_scroll' \in BOOLEAN
      /\ alert_filter' \in A!Tier \cup {"all"} /\ total_alerts' \in [A!Tier -> Nat]
  <2>1. alert_scroll' \in Nat
    BY AlertMoved DEF AlertsKept
  <2> QED
    BY <2>1, AlertMoved, PushedIs DEF AlertsKept
<1>3. ASSUME NEW u \in A!Tier, NEW x \in Times(alerts[u]) PROVE x \in Nat /\ x <= Pushed
  <2>1. Times(alerts[u]) \subseteq Nat
    BY AtIs, SeqParts DEF AlertsKept
  <2> QED
    BY <1>3, <2>1 DEF AlertsKept
<1>4. ASSUME NEW u \in A!Tier, u # t PROVE alerts'[u] = alerts[u]
  BY <1>1, <1>4 DEF AlertMoves
<1>5. \A x \in Times(alerts'[t]) : x \in Times(alerts[t]) \/ x = Pushed + 1
  BY <1>1 DEF AlertMoves
<1>6. ASSUME NEW u \in A!Tier
      PROVE  /\ Len(alerts'[u]) <= AlertCap
             /\ Rises(At(alerts'[u])) /\ \A n \in Times(alerts'[u]) : n <= Pushed'
  <2>1. Len(alerts'[u]) <= AlertCap /\ Rises(At(alerts'[u]))
    BY <1>1, <1>4 DEF AlertMoves, AlertsKept
  <2>2. ASSUME NEW x \in Times(alerts'[u]) PROVE x <= Pushed'
    <3>1. x \in Times(alerts[u]) \/ x = Pushed + 1
      BY <1>4, <1>5
    <3>2. CASE x \in Times(alerts[u])
      <4>1. x \in Nat /\ x <= Pushed
        BY <1>3, <3>2
      <4> QED
        BY <1>2, <4>1
    <3>3. CASE x = Pushed + 1
      BY <1>2, <3>3
    <3> QED
      BY <3>1, <3>2, <3>3
  <2> QED
    BY <2>1, <2>2
<1>7. ASSUME NEW u \in A!Tier, NEW v \in A!Tier, u # v
      PROVE  Times(alerts'[u]) \cap Times(alerts'[v]) = {}
  <2>1. Times(alerts[u]) \cap Times(alerts[v]) = {}
    BY <1>7 DEF AlertsKept
  <2>2. \A w \in A!Tier : Pushed + 1 \notin Times(alerts[w])
    <3> SUFFICES ASSUME NEW w \in A!Tier, Pushed + 1 \in Times(alerts[w]) PROVE FALSE
      OBVIOUS
    <3>1. Pushed + 1 <= Pushed
      BY <1>3
    <3> QED
      BY <1>2, <3>1
  <2>3. CASE u = t
    BY <1>4, <1>5, <1>7, <2>1, <2>2, <2>3
  <2>4. CASE v = t
    BY <1>4, <1>5, <1>7, <2>1, <2>2, <2>4
  <2>5. CASE u # t /\ v # t
    BY <1>4, <2>1, <2>5
  <2> QED
    BY <2>3, <2>4, <2>5
<1>8. alerts' \in [A!Tier -> Seq(Alert)]
  BY <1>1 DEF AlertMoves
<1> QED
  BY <1>2, <1>6, <1>7, <1>8 DEF AlertsKept

\* So does W with Enter.
LEMMA AlertsForget ==
  ASSUME AlertsKept, NEW ip \in Address, A!ForgetAlerts(ip)
  PROVE  AlertsKept'
<1> DEFINE Mentions(a) == \E i \in DOMAIN a.about : Within(ip, a.about[i])
           Others(list) == {i \in DOMAIN list : ~Mentions(list[i])}
<1>1. /\ alerts' = [t \in A!Tier |-> A!Selected(alerts[t], Others(alerts[t]))]
      /\ UNCHANGED <<total_alerts, alert_filter, alert_scroll, alert_paused_scroll>>
  BY DEF A!ForgetAlerts
<1>2. ASSUME NEW t \in A!Tier
      PROVE  /\ alerts'[t] \in Seq(Alert) /\ Len(alerts'[t]) <= AlertCap
             /\ Rises(At(alerts'[t])) /\ Times(alerts'[t]) \subseteq Times(alerts[t])
  <2>1. PICK s, S, r : s = alerts[t] /\ S = Others(s) /\ r = Selected(s, S)
    OBVIOUS
  <2>2. s \in Seq(Alert) /\ Len(s) <= AlertCap /\ Rises(At(s))
    BY <2>1 DEF AlertsKept
  <2>3. S \in SUBSET DOMAIN s
    BY <2>1
  <2>4. /\ r \in Seq(Alert) /\ Len(r) <= Len(s)
        /\ Times(r) \subseteq Times(s) /\ Rises(At(r))
    BY <2>1, <2>2, <2>3, SelectedRises
  <2>5. alerts'[t] = r
    <3> HIDE DEF Others
    <3> QED
      BY <1>1, <2>1, SameListing
  <2>6. Len(r) <= AlertCap
    <3>1. Len(r) \in Nat /\ Len(s) \in Nat /\ AlertCap \in Nat
      BY <2>2, <2>4, SeqParts, PanelsAssumption
    <3> QED
      BY <2>2, <2>4, <3>1
  <2> QED
    BY <2>1, <2>4, <2>5, <2>6
<1>3. alerts' \in [A!Tier -> Seq(Alert)]
  <2> HIDE DEF Others
  <2> QED
    BY <1>1, <1>2
<1>4. Pushed' = Pushed
  BY <1>1 DEF Pushed
<1>5. \A t \in A!Tier : \A n \in Times(alerts'[t]) : n <= Pushed'
  BY <1>2, <1>4 DEF AlertsKept
<1>6. \A t, u \in A!Tier : t # u => Times(alerts'[t]) \cap Times(alerts'[u]) = {}
  BY <1>2 DEF AlertsKept
<1> QED
  BY <1>1, <1>2, <1>3, <1>5, <1>6 DEF AlertsKept

\* So does every step.
LEMMA AlertsNext ==
  ASSUME AlertsKept, [PanelsNext]_<<vars, panel, devicesView, radar, focused_panel>>
  PROVE  AlertsKept'
<1>1. CASE UNCHANGED panel
  BY <1>1 DEF panel, AlertsKept, Pushed
<1>2. CASE AlertStep
  <2>1. ASSUME NEW t \in A!Tier, NEW ip \in Address, PushAlert(t, ip) PROVE AlertsKept'
    BY <2>1, AlertsPush
  <2>2. ASSUME NEW ip \in Address, A!ForgetAlerts(ip) PROVE AlertsKept'
    BY <2>2, AlertsForget
  <2>3. CASE A!ClearAlerts
    <3>1. /\ alerts' = [t \in A!Tier |-> <<>>]
          /\ UNCHANGED <<total_alerts, alert_filter, alert_scroll, alert_paused_scroll>>
      BY <2>3 DEF A!ClearAlerts
    <3>2. /\ <<>> \in Seq(Alert) /\ Times(<<>>) = {} /\ Rises(At(<<>>)) /\ Len(<<>>) = 0
      BY DEF Times, Rises, At
    <3>3. alerts' \in [A!Tier -> Seq(Alert)] /\ Len(<<>>) <= AlertCap
      BY <3>1, <3>2, PanelsAssumption
    <3> QED
      BY <3>1, <3>2, <3>3 DEF AlertsKept
  <2>4. CASE A!ScrollUp \/ A!ScrollDown \/ A!ResumeScroll \/ A!CycleFilter
    <3>1. alerts' = alerts /\ total_alerts' = total_alerts
      BY <2>4 DEF A!ScrollUp, A!ScrollDown, A!ResumeScroll, A!CycleFilter
    <3>2. alert_scroll \in Nat /\ alert_paused_scroll \in BOOLEAN
          /\ alert_filter \in A!Tier \cup {"all"}
      BY DEF AlertsKept
    <3>4. alert_scroll' \in Nat /\ alert_paused_scroll' \in BOOLEAN
      <4>1. CASE A!ScrollUp
        BY <3>2, <4>1 DEF A!ScrollUp
      <4>2. CASE A!ScrollDown
        <5>1. alert_scroll' \in Nat
          BY <3>2, <4>2 DEF A!ScrollDown
        <5> QED
          BY <4>2, <5>1 DEF A!ScrollDown
      <4>3. CASE A!ResumeScroll
        BY <4>3 DEF A!ResumeScroll
      <4>4. CASE A!CycleFilter
        BY <3>2, <4>4 DEF A!CycleFilter
      <4> QED
        BY <2>4, <4>1, <4>2, <4>3, <4>4
    <3>5. alert_filter' \in A!Tier \cup {"all"}
      <4>1. CASE A!ScrollUp \/ A!ScrollDown \/ A!ResumeScroll
        BY <3>2, <4>1 DEF A!ScrollUp, A!ScrollDown, A!ResumeScroll
      <4>2. CASE A!CycleFilter
        <5>1. alert_filter \in {"suspicious", "behavioral", "external", "noise", "all"}
          BY <3>2 DEF A!Tier
        <5>2. alert_filter' \in {"suspicious", "behavioral", "external", "noise", "all"}
          BY <4>2, <5>1 DEF A!CycleFilter
        <5> QED
          BY <5>2 DEF A!Tier
      <4> QED
        BY <2>4, <4>1, <4>2
    <3> QED
      BY <3>1, <3>4, <3>5 DEF AlertsKept, Pushed
  <2> QED
    BY <1>2, <2>1, <2>2, <2>3, <2>4 DEF AlertStep
<1>3. CASE FeedStep \/ DeviceStep \/ RadarStep
  BY <1>1, <1>3 DEF FeedStep, DeviceStep, RadarStep
<1>4. UNCHANGED <<vars, panel, devicesView, radar, focused_panel>> => UNCHANGED panel
  OBVIOUS
<1> QED
  BY <1>1, <1>2, <1>3, <1>4 DEF PanelsNext

\* What the filter lets through.
AlertsPassing == IF alert_filter = "all" THEN A!Tier ELSE {alert_filter}
AlertTimes == UNION {Times(alerts[t]) : t \in AlertsPassing}

\* What the panel lists and what a reader who is back has on the top line.
AlertsSeen ==
  /\ A!Listed \in Seq(Alert) /\ Lists(At(A!Listed), AlertTimes)
  /\ alert_paused_scroll =>
       LET skip == Skip(Len(A!Listed), AlertRows, alert_scroll)
       IN /\ A!Visible # <<>> <=> AlertRows >= 2 /\ skip + 1 < Len(A!Listed)
          /\ A!Visible # <<>> => A!Visible[1] = A!Listed[skip + 1]

\* Alerts of different times.
Apart(s) == s \in Seq(Alert) /\ At(s) \in Seq(Nat) /\ Distinct(At(s))

\* Two lists with no time in common, one after the other.
LEMMA AlertsJoin ==
  ASSUME NEW s, NEW b, Apart(s), Apart(b), ToSet(At(s)) \cap ToSet(At(b)) = {}
  PROVE  Apart(s \o b) /\ ToSet(At(s \o b)) = ToSet(At(s)) \cup ToSet(At(b))
<1> SUFFICES ASSUME NEW l, l = s \o b
             PROVE  /\ l \in Seq(Alert) /\ At(l) \in Seq(Nat) /\ Distinct(At(l))
                    /\ ToSet(At(l)) = ToSet(At(s)) \cup ToSet(At(b))
  BY DEF Apart
<1>1. l \in Seq(Alert) /\ At(l) = At(s) \o At(b)
  BY AtConcat DEF Apart
<1>2. PICK x, y : x = At(s) /\ y = At(b)
  OBVIOUS
<1>3. x \in Seq(Nat) /\ y \in Seq(Nat) /\ Distinct(x) /\ Distinct(y) /\ ToSet(x) \cap ToSet(y) = {}
  BY <1>2 DEF Apart
<1>4. x \o y \in Seq(Nat) /\ Distinct(x \o y) /\ ToSet(x \o y) = ToSet(x) \cup ToSet(y)
  BY <1>3, JoinDistinct
<1> QED
  BY <1>1, <1>2, <1>4

\* The panel lists what the filter lets through, oldest first.
LEMMA AlertsListed ==
  ASSUME AlertsKept
  PROVE  A!Listed \in Seq(Alert) /\ Lists(At(A!Listed), AlertTimes)
<1>1. CASE alert_filter # "all"
  <2>1. alert_filter \in A!Tier /\ A!Listed = alerts[alert_filter]
        /\ AlertTimes = Times(alerts[alert_filter])
    BY <1>1 DEF AlertsKept, A!Listed, AlertTimes, AlertsPassing
  <2>2. alerts[alert_filter] \in Seq(Alert) /\ Rises(At(alerts[alert_filter]))
    BY <2>1 DEF AlertsKept
  <2>3. PICK s, b : s = alerts[alert_filter] /\ b = At(s)
    OBVIOUS
  <2>4. b \in Seq(Nat) /\ Times(s) = ToSet(b)
    BY <2>2, <2>3, AtIs
  <2>5. Lists(b, ToSet(b))
    BY <2>2, <2>3, <2>4, RisingLists
  <2> QED
    BY <2>1, <2>2, <2>3, <2>4, <2>5
<1>2. CASE alert_filter = "all"
  <2>1. PICK s, b, e, n : /\ s = alerts["suspicious"] /\ b = alerts["behavioral"]
                          /\ e = alerts["external"] /\ n = alerts["noise"]
    OBVIOUS
  <2>2. \A l \in {s, b, e, n} : l \in Seq(Alert) /\ Rises(At(l))
    BY <2>1 DEF AlertsKept, A!Tier
  <2>3. \A l \in {s, b, e, n} :
          l \in Seq(Alert) /\ At(l) \in Seq(Nat) /\ Distinct(At(l)) /\ Times(l) = ToSet(At(l))
    BY <2>2, AtIs, RisesDistinct
  <2>4. /\ Times(s) \cap Times(b) = {} /\ Times(s) \cap Times(e) = {}
        /\ Times(s) \cap Times(n) = {} /\ Times(b) \cap Times(e) = {}
        /\ Times(b) \cap Times(n) = {} /\ Times(e) \cap Times(n) = {}
    <3>1. /\ "suspicious" \in A!Tier /\ "behavioral" \in A!Tier
          /\ "external" \in A!Tier /\ "noise" \in A!Tier
      BY DEF A!Tier
    <3>2. /\ "suspicious" # "behavioral" /\ "suspicious" # "external" /\ "suspicious" # "noise"
          /\ "behavioral" # "external" /\ "behavioral" # "noise" /\ "external" # "noise"
      OBVIOUS
    <3> QED
      BY <2>1, <3>1, <3>2 DEF AlertsKept
  <2>5. PICK sb, sbe, all : sb = s \o b /\ sbe = sb \o e /\ all = sbe \o n
    OBVIOUS
  <2>6. \A l \in {s, b, e, n} : Apart(l)
    BY <2>3 DEF Apart
  <2>7. /\ Apart(sb) /\ ToSet(At(sb)) = Times(s) \cup Times(b)
        /\ ToSet(At(sb)) \cap ToSet(At(e)) = {}
    <3>1. Apart(s) /\ Apart(b) /\ ToSet(At(s)) \cap ToSet(At(b)) = {}
      BY <2>3, <2>4, <2>6
    <3>2. Apart(sb) /\ ToSet(At(sb)) = ToSet(At(s)) \cup ToSet(At(b))
      BY <2>5, <3>1, AlertsJoin
    <3> QED
      BY <2>3, <2>4, <3>2
  <2>8. /\ Apart(all)
        /\ ToSet(At(all)) = Times(s) \cup Times(b) \cup Times(e) \cup Times(n)
    <3>1. Apart(e)
      BY <2>6
    <3>2. Apart(sbe) /\ ToSet(At(sbe)) = ToSet(At(sb)) \cup ToSet(At(e))
      BY <2>5, <2>7, <3>1, AlertsJoin
    <3>3. Apart(n) /\ ToSet(At(sbe)) \cap ToSet(At(n)) = {}
      BY <2>3, <2>4, <2>6, <2>7, <3>2
    <3>4. Apart(all) /\ ToSet(At(all)) = ToSet(At(sbe)) \cup ToSet(At(n))
      BY <2>5, <3>2, <3>3, AlertsJoin
    <3> QED
      BY <2>3, <2>7, <3>2, <3>4
  <2>9. A!Listed = Sorted(all, At(all))
    <3>1. A!Listed = A!Sorted(all, [i \in DOMAIN all |-> all[i].at])
      BY <1>2, <2>1, <2>5 DEF A!Listed
    <3> QED
      BY <3>1, SameListing DEF At
  <2>10. AlertTimes = ToSet(At(all))
    BY <1>2, <2>1, <2>8 DEF AlertTimes, AlertsPassing, A!Tier
  <2>11. PICK r, T, time : r = Sorted(all, time) /\ T = ToSet(time) /\ time = At(all)
    OBVIOUS
  <2>12. time \in Seq(Nat) /\ Distinct(time) /\ Len(time) = Len(all)
         /\ \A i \in 1..Len(all) : time[i] = all[i].at
    BY <2>8, <2>11, AtIs DEF Apart
  <2>13. SortedIs(Alert, all, time, Sorted(all, time), ToSet(time))
    BY <2>8, <2>12, SortedLists DEF Apart
  <2>14. /\ r \in Seq(Alert) /\ Len(r) = Len(all)
         /\ IsFiniteSet(T) /\ Cardinality(T) = Len(all) /\ T \subseteq Nat
         /\ \A k \in 1..Len(all) : \E i \in 1..Len(all) : r[k] = all[i] /\ time[i] = Nth(T, k)
    BY <2>11, <2>13 DEF SortedIs
  <2>15. \A k \in 1..Len(all) : r[k].at = Nth(T, k)
    BY <2>12, <2>14
  <2>16. At(r) \in Seq(Nat) /\ Len(At(r)) = Len(all) /\ \A k \in 1..Len(all) : At(r)[k] = r[k].at
    BY <2>14, AtIs
  <2>17. Lists(At(r), T)
    BY <2>14, <2>15, <2>16 DEF Lists
  <2> QED
    BY <2>9, <2>10, <2>11, <2>14, <2>17
<1> QED
  BY <1>1, <1>2

\* The lines of the log, from its invariant.
LEMMA AlertsAreSeen == AlertsKept => AlertsSeen
<1> SUFFICES ASSUME AlertsKept PROVE AlertsSeen
  OBVIOUS
<1>1. A!Listed \in Seq(Alert) /\ Lists(At(A!Listed), AlertTimes)
  BY AlertsListed
<1> SUFFICES ASSUME alert_paused_scroll
             PROVE  LET skip == Skip(Len(A!Listed), AlertRows, alert_scroll)
                    IN /\ A!Visible # <<>> <=> AlertRows >= 2 /\ skip + 1 < Len(A!Listed)
                       /\ A!Visible # <<>> => A!Visible[1] = A!Listed[skip + 1]
  BY <1>1 DEF AlertsSeen
<1>2. PICK list, skip : list = A!Listed /\ skip = Skip(Len(list), AlertRows, alert_scroll)
  OBVIOUS
<1>3. PICK b : b = (IF skip + AlertRows < Len(list) THEN skip + AlertRows ELSE Len(list)) - 1
  OBVIOUS
<1>4. A!Visible = SubSeq(list, skip + 1, b)
  BY <1>2, <1>3 DEF A!Visible, Skip
<1>5. list \in Seq(Alert) /\ Len(list) \in Nat /\ AlertRows \in Nat /\ alert_scroll \in Nat
  BY <1>1, <1>2, PanelsAssumption, SeqParts DEF AlertsKept
<1>6. skip \in Nat /\ skip <= Len(list)
  BY <1>2, <1>5 DEF Skip
<1>7. /\ skip + 1 \in Int /\ 1 <= skip + 1 /\ b \in Int /\ b <= Len(list)
      /\ skip + 1 <= b <=> AlertRows >= 2 /\ skip + 1 < Len(list)
  BY <1>3, <1>5, <1>6
<1>8. /\ SubSeq(list, skip + 1, b) # <<>> <=> skip + 1 <= b
      /\ skip + 1 <= b => SubSeq(list, skip + 1, b)[1] = list[skip + 1]
  BY <1>5, <1>7, SubSeqFirst
<1> QED
  BY <1>2, <1>4, <1>7, <1>8

-----------------------------------------------------------------------------
(***************************************************************************)
(* The alert log: what a step does to the lines.                           *)
(***************************************************************************)
\* The lines of a reader who is back, after an alert that is listed.
LEMMA AlertPlace ==
  ASSUME AlertsKept, AlertsSeen, AlertsSeen', NEW t \in A!Tier, NEW ip \in Address,
         PushAlert(t, ip)
  PROVE  AlertsKeepPlace
<1> SUFFICES ASSUME alert_paused_scroll, A!Listed' # A!Listed, A!Visible # <<>>,
                    \A n \in Gone : n < A!Visible[1].at
             PROVE  A!Visible' # <<>> /\ A!Visible'[1].at = A!Visible[1].at
  BY DEF AlertsKeepPlace
<1>1. /\ Pushed' = Pushed + 1 /\ alert_scroll' = alert_scroll + 1
      /\ alert_filter' = alert_filter /\ alert_paused_scroll' = alert_paused_scroll
  BY AlertMoved
<1>2. PICK Lost : AlertMoves(t, Lost)
  BY AlertMoved
<1>3. t \in AlertsPassing
  <2>1. CASE alert_filter # "all" /\ alert_filter # t
    <3>1. alert_filter \in A!Tier
      BY <2>1 DEF AlertsKept
    <3>2. alerts'[alert_filter] = alerts[alert_filter]
      BY <1>2, <2>1, <3>1 DEF AlertMoves
    <3> QED
      BY <1>1, <2>1, <3>2 DEF A!Listed
  <2> QED
    BY <2>1 DEF AlertsPassing
<1>4. PICK T, U : T = AlertTimes /\ U = AlertTimes'
  OBVIOUS
<1>5. AlertsPassing \subseteq A!Tier /\ AlertsPassing' = AlertsPassing
  BY <1>1 DEF AlertsPassing, AlertsKept
<1>6. T \subseteq Nat /\ \A x \in T : x < Pushed + 1
  <2>1. \A u \in A!Tier : Times(alerts[u]) \subseteq Nat /\ \A x \in Times(alerts[u]) : x <= Pushed
    BY AtIs, SeqParts DEF AlertsKept
  <2>2. \A x \in T : x \in Nat /\ x <= Pushed
    BY <1>4, <1>5, <2>1 DEF AlertTimes
  <2>3. Pushed \in Nat
    BY PushedIs
  <2> QED
    BY <2>2, <2>3
<1>7. U = (T \ Lost) \cup {Pushed + 1} /\ Lost \subseteq T
  <2>1. \A u \in AlertsPassing : u # t => Times(alerts[u]) \cap Lost = {} /\ alerts'[u] = alerts[u]
    BY <1>2, <1>5 DEF AlertsKept, AlertMoves
  <2>2. /\ U = UNION {Times(alerts'[u]) : u \in AlertsPassing}
        /\ T = UNION {Times(alerts[u]) : u \in AlertsPassing}
    BY <1>4, <1>5 DEF AlertTimes, Times
  <2>3. /\ Times(alerts'[t]) = (Times(alerts[t]) \ Lost) \cup {Pushed + 1}
        /\ Lost \subseteq Times(alerts[t])
    BY <1>2 DEF AlertMoves
  <2> QED
    BY <1>3, <2>1, <2>2, <2>3
<1>8. PICK list, later : list = A!Listed /\ later = A!Listed'
  OBVIOUS
<1>9. PICK skip : skip = Skip(Len(list), AlertRows, alert_scroll)
  OBVIOUS
<1>10. PICK n, m, c : n = Len(list) /\ m = Len(later) /\ c = Cardinality(Lost)
  OBVIOUS
<1>11. /\ list \in Seq(Alert) /\ later \in Seq(Alert)
       /\ Lists(At(list), T) /\ Lists(At(later), U)
       /\ AlertRows >= 2 /\ skip + 1 < n /\ A!Visible[1] = list[skip + 1]
       /\ Skip(m, AlertRows, alert_scroll + 1) + 1 < m => A!Visible' # <<>>
       /\ A!Visible' # <<>> => A!Visible'[1] = later[Skip(m, AlertRows, alert_scroll + 1) + 1]
  <2>1. /\ list \in Seq(Alert) /\ Lists(At(list), T)
        /\ AlertRows >= 2 /\ skip + 1 < n /\ A!Visible[1] = list[skip + 1]
    BY <1>4, <1>8, <1>9, <1>10 DEF AlertsSeen
  <2>2. /\ later \in Seq(Alert) /\ Lists(At(later), U)
        /\ A!Visible' # <<>> <=> AlertRows >= 2 /\ Skip(m, AlertRows, alert_scroll + 1) + 1 < m
        /\ A!Visible' # <<>> => A!Visible'[1] = later[Skip(m, AlertRows, alert_scroll + 1) + 1]
    BY <1>1, <1>4, <1>8, <1>10 DEF AlertsSeen
  <2> QED
    BY <2>1, <2>2
<1>12. /\ n \in Nat /\ m \in Nat /\ AlertRows \in Nat /\ alert_scroll \in Nat /\ c \in {0, 1}
       /\ skip \in Nat /\ Pushed + 1 \in Nat
       /\ n = Cardinality(T) /\ m = Cardinality(U) /\ IsFiniteSet(T)
       /\ \A i \in 1..n : list[i].at = Nth(T, i)
       /\ \A i \in 1..m : later[i].at = Nth(U, i)
  <2>1. /\ n \in Nat /\ m \in Nat /\ AlertRows \in Nat /\ alert_scroll \in Nat /\ c \in {0, 1}
        /\ Pushed + 1 \in Nat
    BY <1>2, <1>10, <1>11, SeqParts, PanelsAssumption, PushedIs, SMTT(30) DEF AlertsKept, AlertMoves
  <2>2. skip \in Nat
    BY <1>9, <1>10, <2>1 DEF Skip
  <2>3. /\ Len(At(list)) = n /\ \A i \in 1..n : At(list)[i] = list[i].at
        /\ Len(At(later)) = m /\ \A i \in 1..m : At(later)[i] = later[i].at
    BY <1>10, <1>11, AtIs
  <2>4. n = Cardinality(T) /\ IsFiniteSet(T) /\ \A i \in 1..n : At(list)[i] = Nth(T, i)
    BY <1>11, <2>3 DEF Lists
  <2>5. m = Cardinality(U) /\ \A i \in 1..m : At(later)[i] = Nth(U, i)
    BY <1>11, <2>3 DEF Lists
  <2> QED
    BY <2>1, <2>2, <2>3, <2>4, <2>5
<1>13. skip + 1 \in 1..n /\ A!Visible[1].at = Nth(T, skip + 1)
  BY <1>11, <1>12
<1>14. \A x \in Lost : x < Nth(T, skip + 1)
  <2>1. ASSUME NEW x \in Lost PROVE x \in Gone
    <3>1. x \in Times(alerts[t]) /\ x \notin Times(alerts'[t])
      <4>1. x \in T /\ x # Pushed + 1
        BY <1>6, <1>7, <1>12
      <4> QED
        BY <1>2, <4>1 DEF AlertMoves
    <3> QED
      BY <3>1 DEF Gone, Times
  <2> QED
    BY <1>13, <2>1
<1>15. /\ m = n + 1 - c
       /\ (skip + 1) - c \in 1..m
       /\ Nth(U, (skip + 1) - c) = Nth(T, skip + 1)
  <2>1. PICK k, a : k = skip + 1 /\ a = Pushed + 1
    OBVIOUS
  <2>2. /\ k \in 1..Cardinality(T) /\ a \in Nat /\ \A x \in T : x < a
        /\ \A x \in Lost : x < Nth(T, k)
        /\ U = (T \ Lost) \cup {a}
    BY <1>6, <1>7, <1>12, <1>13, <1>14, <2>1
  <2>3. /\ Cardinality(U) = Cardinality(T) + 1 - c
        /\ k - c \in 1..Cardinality(U)
        /\ Nth(U, k - c) = Nth(T, k)
    <3>1. OneLater(T, Lost, a, U)
      BY <1>6, <1>7, <1>10, <1>12, <2>2 DEF OneLater
    <3> QED
      BY <1>10, <2>2, <3>1, PlaceKept
  <2> QED
    BY <1>12, <2>1, <2>3
<1>16. Skip(m, AlertRows, alert_scroll + 1) = skip - c
  <2>1. c = 1 => skip >= 1
    BY <1>12, <1>15
  <2>2. Skip(n + 1 - c, AlertRows, alert_scroll + 1) = Skip(n, AlertRows, alert_scroll) - c
    <3>1. c = 1 => Skip(n, AlertRows, alert_scroll) >= 1
      BY <1>9, <1>10, <2>1
    <3> QED
      BY <1>12, <3>1, SMTT(30) DEF Skip
  <2> QED
    BY <1>9, <1>10, <1>15, <2>2
<1>17. /\ Skip(m, AlertRows, alert_scroll + 1) + 1 < m
       /\ Skip(m, AlertRows, alert_scroll + 1) + 1 = (skip + 1) - c
  BY <1>11, <1>12, <1>15, <1>16, SMTT(30)
<1> QED
  BY <1>11, <1>12, <1>13, <1>15, <1>17

\* The reader of the log keeps the place in every step.
LEMMA AlertsStay ==
  ASSUME AlertsKept, AlertsSeen, AlertsSeen',
         [PanelsNext]_<<vars, panel, devicesView, radar, focused_panel>>
  PROVE  AlertsKeepPlace
<1>1. UNCHANGED total_alerts => AlertsKeepPlace
  <2> SUFFICES ASSUME UNCHANGED total_alerts PROVE AlertsKeepPlace
    OBVIOUS
  <2>1. Pushed' = Pushed /\ Pushed \in Nat
    BY PushedIs DEF Pushed
  <2>2. ~(Pushed' > Pushed)
    BY <2>1
  <2> QED
    BY <2>2 DEF AlertsKeepPlace
<1>2. CASE AlertStep
  <2>1. ASSUME NEW ip \in Address, A!ForgetAlerts(ip) PROVE UNCHANGED total_alerts
    BY <2>1 DEF A!ForgetAlerts
  <2>2. CASE A!ClearAlerts \/ A!ScrollUp \/ A!ScrollDown \/ A!ResumeScroll \/ A!CycleFilter
    BY <1>1, <2>2 DEF A!ClearAlerts, A!ScrollUp, A!ScrollDown, A!ResumeScroll, A!CycleFilter
  <2>3. ASSUME NEW t \in A!Tier, NEW ip \in Address, PushAlert(t, ip) PROVE AlertsKeepPlace
    BY <2>3, AlertPlace
  <2> QED
    BY <1>1, <1>2, <2>1, <2>2, <2>3 DEF AlertStep
<1>3. CASE FeedStep \/ DeviceStep \/ RadarStep \/ UNCHANGED panel
  BY <1>1, <1>3 DEF FeedStep, DeviceStep, RadarStep, panel
<1> QED
  BY <1>2, <1>3 DEF PanelsNext

\* A reader who is back keeps the place in the feed and in the alert log: every
\* packet (display.rs:1050-1052) and every alert (display.rs:1096-1098) moves the
\* offset by one, a full list drops its oldest, and the merged list is sorted by time.
THEOREM ReadersKeepPlaceAlways == PanelsSpec => ReadersKeepPlace
<1> DEFINE Kept == FeedKept /\ AlertsKept
           step == [PanelsNext]_<<vars, panel, devicesView, radar, focused_panel>>
<1>1. PanelsInit => Kept
  BY FeedInit, AlertsInit
<1>2. Kept /\ step => Kept'
  BY FeedNext, AlertsNext
<1>3. Kept => FeedSeen /\ AlertsSeen
  BY FeedIsSeen, AlertsAreSeen
<1>4. Kept' => FeedSeen' /\ AlertsSeen'
  BY <1>3, PTL
<1>5. Kept /\ step => [FeedKeepsPlace /\ AlertsKeepPlace]_<<vars, panel>>
  BY <1>2, <1>3, <1>4, FeedStays, AlertsStay
<1> QED
  BY <1>1, <1>2, <1>5, PTL DEF PanelsSpec, ReadersKeepPlace

-----------------------------------------------------------------------------
(***************************************************************************)
(* The device list: its lines.                                             *)
(***************************************************************************)
\* The module DeviceList has Cardinality, too.
LEMMA SameCount ==
  ASSUME NEW S
  PROVE  D!Cardinality(S) = Cardinality(S)
BY DEF D!Cardinality, Cardinality

\* The inductive invariant of the device list.
DevicesKept ==
  /\ DOMAIN active_discovery \subseteq DeviceAddr
  /\ ~scan_has_run => DOMAIN active_discovery = {}

\* The empty list.
LEMMA DevicesInit == PanelsInit => DevicesKept
BY DEF PanelsInit, D!ListInit, DevicesKept

\* Devices come and none goes.
LEMMA DevicesNext ==
  ASSUME DevicesKept, [PanelsNext]_<<vars, panel, devicesView, radar, focused_panel>>
  PROVE  DevicesKept'
<1>1. UNCHANGED <<scan_has_run, active_discovery>> => DevicesKept'
  BY DEF DevicesKept
<1>2. CASE DeviceStep
  <2>1. CASE D!PressScan
    BY <2>1 DEF D!PressScan, DevicesKept
  <2>2. ASSUME NEW S \in SUBSET DeviceAddr, NEW look, D!SyncDevices(S, look)
        PROVE  DevicesKept'
    <3>1. DOMAIN active_discovery' = DOMAIN active_discovery \cup S
      BY <2>2 DEF D!SyncDevices
    <3>2. scan_has_run /\ scan_has_run' = scan_has_run
      BY <2>2 DEF D!SyncDevices
    <3> QED
      BY <3>1, <3>2 DEF DevicesKept
  <2>3. CASE D!ScrollUp \/ D!ScrollDown \/ D!ResumeScroll \/ D!CycleFilter
    BY <1>1, <2>3 DEF D!ScrollUp, D!ScrollDown, D!ResumeScroll, D!CycleFilter
  <2> QED
    BY <1>2, <2>1, <2>2, <2>3 DEF DeviceStep, D!ListNext
<1>3. CASE FeedStep \/ AlertStep \/ RadarStep
          \/ UNCHANGED <<vars, panel, devicesView, radar, focused_panel>>
  BY <1>1, <1>3 DEF FeedStep, AlertStep, RadarStep, devicesView
<1> QED
  BY <1>2, <1>3 DEF PanelsNext

\* The devices are numbers above zero, and finitely many.
LEMMA DevicesFinite ==
  ASSUME DevicesKept
  PROVE  /\ D!Listed \subseteq DOMAIN active_discovery /\ D!Listed \subseteq Nat \ {0}
         /\ IsFiniteSet(D!Listed) /\ IsFiniteSet(DOMAIN active_discovery)
         /\ Cardinality(D!Listed) \in Nat /\ Cardinality(DOMAIN active_discovery) \in Nat
         /\ Cardinality(D!Listed) <= Cardinality(DOMAIN active_discovery)
<1>1. D!Listed \subseteq DOMAIN active_discovery
  BY DEF D!Listed
<1>2. DOMAIN active_discovery \subseteq Nat \ {0}
  BY PanelsAssumption DEF DevicesKept
<1>3. IsFiniteSet(DOMAIN active_discovery)
  BY PanelsAssumption, FS_Subset DEF DevicesKept
<1> QED
  BY <1>1, <1>2, <1>3, FS_Subset, FS_CardinalityType

\* Finitely many devices are in finitely many subnets.
LEMMA SubnetsFinite ==
  ASSUME NEW U, IsFiniteSet(U)
  PROVE  IsFiniteSet(D!SubnetsOf(U)) /\ Cardinality(D!SubnetsOf(U)) \in Nat
<1>1. PICK V : V = {e \in U : e < FirstV6}
  OBVIOUS
<1>2. IsFiniteSet(V)
  <2>1. V \in SUBSET U
    BY <1>1
  <2> QED
    BY <2>1, FS_Subset
<1> DEFINE T == {D!Subnet(d) : d \in V}
           f == [d \in V |-> D!Subnet(d)]
<1>3. f \in [V -> T] /\ \A t \in T : \E d \in V : f[d] = t
  OBVIOUS
<1>4. D!SubnetsOf(U) = T
  BY <1>1 DEF D!SubnetsOf
<1> HIDE DEF T, f
<1>5. f \in Surjection(V, T)
  BY <1>3 DEF Surjection
<1> QED
  BY <1>2, <1>4, <1>5, FS_Surjection, FS_CardinalityType

\* The headings of finitely many devices: no more for fewer devices.
LEMMA HeadingsGrow ==
  ASSUME NEW S, NEW T, IsFiniteSet(T), S \subseteq T
  PROVE  /\ D!Headings(D!SubnetsOf(S)) \in Nat /\ D!Headings(D!SubnetsOf(T)) \in Nat
         /\ D!Headings(D!SubnetsOf(S)) <= D!Headings(D!SubnetsOf(T))
<1>2. IsFiniteSet(S)
  BY FS_Subset
<1>3. D!SubnetsOf(S) \subseteq D!SubnetsOf(T)
  BY DEF D!SubnetsOf
<1>4. PICK m, n : m = Cardinality(D!SubnetsOf(S)) /\ n = Cardinality(D!SubnetsOf(T))
  OBVIOUS
<1>5. m \in Nat /\ n \in Nat /\ m <= n
  BY <1>2, <1>3, <1>4, SubnetsFinite, FS_Subset
<1>6. /\ D!Headings(D!SubnetsOf(S)) = IF m = 0 THEN 0 ELSE 2 * m - 1
      /\ D!Headings(D!SubnetsOf(T)) = IF n = 0 THEN 0 ELSE 2 * n - 1
  BY <1>4, SameCount DEF D!Headings
<1> QED
  BY <1>5, <1>6

\* How many lines there are.
LineCount == Cardinality(D!Listed) + D!Headings(D!Subnets)

\* Each device has a line, and no two have the same.
LEMMA LineIs ==
  ASSUME DevicesKept, NEW d \in D!Listed
  PROVE  /\ D!Line(d) \in 1..LineCount /\ LineCount \in Nat
         /\ \A c \in D!Listed : D!Line(c) = D!Line(d) => c = d
<1> DEFINE Down(x) == {e \in D!Listed : x <= e}
<1>1. /\ IsFiniteSet(D!Listed) /\ D!Listed \subseteq Nat /\ Cardinality(D!Listed) \in Nat
  BY DevicesFinite
<1>2. ASSUME NEW x \in D!Listed
      PROVE  /\ D!Line(x) = Cardinality(Down(x)) + D!Headings(D!SubnetsOf(Down(x)))
             /\ IsFiniteSet(Down(x)) /\ Down(x) \subseteq D!Listed
             /\ Cardinality(Down(x)) \in Nat /\ D!Headings(D!SubnetsOf(Down(x))) \in Nat
  <2>1. Down(x) \subseteq D!Listed
    OBVIOUS
  <2>2. IsFiniteSet(Down(x))
    BY <1>1, <2>1, FS_Subset
  <2> HIDE DEF Down
  <2>3. Cardinality(Down(x)) \in Nat /\ D!Headings(D!SubnetsOf(Down(x))) \in Nat
    BY <2>2, FS_CardinalityType, HeadingsGrow
  <2>4. D!Line(x) = Cardinality(Down(x)) + D!Headings(D!SubnetsOf(Down(x)))
    BY SameCount DEF D!Line, Down
  <2> QED
    BY <2>1, <2>2, <2>3, <2>4
<1>3. ASSUME NEW x \in D!Listed, NEW y \in D!Listed, x < y PROVE D!Line(y) < D!Line(x)
  <2>1. Down(y) \subseteq Down(x) /\ x \in Down(x) /\ x \notin Down(y)
    <3>1. x \in Nat /\ y \in Nat /\ x <= x /\ ~(y <= x)
      BY <1>1, <1>3
    <3>2. \A e \in D!Listed : e \in Nat /\ (y <= e => x <= e)
      BY <1>1, <1>3, <3>1
    <3> QED
      BY <3>1, <3>2
  <2> HIDE DEF Down
  <2>2. Cardinality(Down(y)) < Cardinality(Down(x))
    <3>1. Down(x) # Down(y)
      BY <2>1
    <3>2. /\ Cardinality(Down(y)) <= Cardinality(Down(x))
          /\ Cardinality(Down(y)) # Cardinality(Down(x))
      <4>1. IsFiniteSet(Down(x)) /\ Down(y) \in SUBSET Down(x)
        BY <1>2, <2>1
      <4> QED
        BY <3>1, <4>1, FS_Subset
    <3>3. Cardinality(Down(x)) \in Nat /\ Cardinality(Down(y)) \in Nat
      BY <1>2
    <3> QED
      BY <3>2, <3>3
  <2>3. D!Headings(D!SubnetsOf(Down(y))) <= D!Headings(D!SubnetsOf(Down(x)))
    BY <1>2, <2>1, HeadingsGrow
  <2>4. PICK a, b, g, h : /\ a = Cardinality(Down(x)) /\ b = Cardinality(Down(y))
                          /\ g = D!Headings(D!SubnetsOf(Down(x)))
                          /\ h = D!Headings(D!SubnetsOf(Down(y)))
    OBVIOUS
  <2>5. a \in Nat /\ b \in Nat /\ g \in Nat /\ h \in Nat /\ b < a /\ h <= g
    BY <1>2, <2>2, <2>3, <2>4
  <2> QED
    BY <1>2, <2>4, <2>5
<1>4. D!Line(d) \in 1..LineCount /\ LineCount \in Nat
  <2>1. d \in Down(d)
    BY <1>1
  <2> HIDE DEF Down
  <2>2. Cardinality(Down(d)) <= Cardinality(D!Listed) /\ Cardinality(Down(d)) # 0
    BY <1>1, <1>2, <2>1, FS_Subset, FS_EmptySet
  <2>3. /\ D!Headings(D!SubnetsOf(Down(d))) <= D!Headings(D!SubnetsOf(D!Listed))
        /\ D!Headings(D!SubnetsOf(D!Listed)) \in Nat
    BY <1>1, <1>2, HeadingsGrow
  <2>4. PICK a, b, g, h : /\ a = Cardinality(Down(d)) /\ b = Cardinality(D!Listed)
                          /\ g = D!Headings(D!SubnetsOf(Down(d)))
                          /\ h = D!Headings(D!SubnetsOf(D!Listed))
    OBVIOUS
  <2>5. /\ a \in Nat /\ b \in Nat /\ g \in Nat /\ h \in Nat /\ a <= b /\ g <= h /\ a # 0
        /\ D!Line(d) = a + g /\ LineCount = b + h
    BY <1>1, <1>2, <2>2, <2>3, <2>4 DEF LineCount, D!Subnets
  <2> QED
    BY <2>5
<1>5. ASSUME NEW c \in D!Listed, D!Line(c) = D!Line(d) PROVE c = d
  <2>1. c < d \/ d < c \/ c = d
    BY <1>1
  <2>2. /\ D!Line(d) \in Nat
        /\ c < d => D!Line(d) < D!Line(c)
        /\ d < c => D!Line(c) < D!Line(d)
    BY <1>3, <1>4
  <2> QED
    BY <1>5, <2>1, <2>2
<1> QED
  BY <1>4, <1>5

\* The list, line by line.
LEMMA LinesAre ==
  ASSUME DevicesKept, NEW d \in D!Listed
  PROVE  /\ D!Lines \in Seq(Nat) /\ Len(D!Lines) = LineCount
         /\ D!Lines[D!Line(d)] = d
<1>1. scan_has_run /\ D!Listed # {}
  BY DevicesFinite DEF DevicesKept
<1>2. LineCount \in Nat /\ D!Line(d) \in 1..LineCount /\ D!Listed \subseteq Nat
  BY LineIs, DevicesFinite
<1>3. D!Lines = [l \in 1..LineCount |->
                   IF \E e \in D!Listed : D!Line(e) = l
                   THEN CHOOSE e \in D!Listed : D!Line(e) = l ELSE D!NoDevice]
  BY <1>1, SameCount DEF D!Lines, LineCount
<1>4. \A l \in 1..LineCount : D!Lines[l] \in Nat
  BY <1>2, <1>3 DEF D!NoDevice
<1>5. D!Lines \in Seq(Nat) /\ Len(D!Lines) = LineCount
  <2>1. PICK ls : ls = D!Lines
    OBVIOUS
  <2>2. ls = [l \in 1..LineCount |-> ls[l]] /\ \A l \in 1..LineCount : ls[l] \in Nat
    BY <1>3, <1>4, <2>1
  <2>3. ls \in [1..LineCount -> Nat]
    BY <2>2
  <2>4. ls \in Seq(Nat) /\ DOMAIN ls = 1..LineCount
    BY <1>2, <2>3
  <2>5. Len(ls) = LineCount
    BY <1>2, <2>4, LenProperties
  <2> QED
    BY <2>1, <2>4, <2>5
<1>6. D!Lines[D!Line(d)] = d
  <2>1. D!Lines[D!Line(d)] = CHOOSE e \in D!Listed : D!Line(e) = D!Line(d)
    BY <1>2, <1>3
  <2>2. \A e \in D!Listed : D!Line(e) = D!Line(d) => e = d
    BY LineIs
  <2> QED
    BY <2>1, <2>2
<1> QED
  BY <1>5, <1>6

-----------------------------------------------------------------------------
(***************************************************************************)
(* The device list: what a reader sees of it.                              *)
(***************************************************************************)
\* Part of a list.
LEMMA PartIs ==
  ASSUME NEW S, NEW s \in Seq(S), NEW a \in Int, NEW b \in Int, 1 <= a, b <= Len(s),
         NEW r, r = SubSeq(s, a, b)
  PROVE  /\ r \in Seq(S) /\ Len(r) = (IF a <= b THEN b - a + 1 ELSE 0)
         /\ \A i \in 1..(b - a + 1) : r[i] = s[a + i - 1]
<1>1. \A i \in a..b : s[i] \in S
  <2> SUFFICES ASSUME NEW i \in a..b PROVE s[i] \in S
    OBVIOUS
  <2>1. Len(s) \in Nat
    BY LenProperties
  <2>2. i \in 1..Len(s)
    BY <2>1
  <2> QED
    BY <2>2, ElementOfSeq
<1> QED
  BY <1>1, SubSeqProperties

\* A reader at this offset sees x.
Shows(s, x) == \E i \in DOMAIN D!VisibleAt(s) : D!VisibleAt(s)[i] = x

\* The lines and what is above the panel.
LEMMA PanelIs ==
  ASSUME D!Lines \in Seq(Nat), NEW n, n = Len(D!Lines), NEW max, max = D!MaxScroll
  PROVE  /\ n \in Nat /\ DeviceRows \in Nat /\ max \in Nat /\ max <= n
         /\ max = (IF n > DeviceRows THEN n - DeviceRows ELSE 0)
         /\ n - max <= DeviceRows /\ (max # 0 => n = max + DeviceRows)
<1>1. n \in Nat /\ DeviceRows \in Nat
  BY LenProperties, PanelsAssumption
<1> QED
  BY <1>1 DEF D!MaxScroll

\* The end of the list, for a reader who is not back.
LEMMA LiveShows ==
  ASSUME D!Lines \in Seq(Nat), NEW k \in (D!MaxScroll + 1)..Len(D!Lines)
  PROVE  Shows(0, D!Lines[k])
<1>1. PICK list, n, max : list = D!Lines /\ n = Len(D!Lines) /\ max = D!MaxScroll
  OBVIOUS
<1>2. /\ n \in Nat /\ DeviceRows \in Nat /\ max \in Nat /\ max <= n
      /\ n - max <= DeviceRows /\ (max # 0 => n = max + DeviceRows)
  BY <1>1, PanelIs
<1>3. PICK r : r = SubSeq(list, max + 1, n)
  OBVIOUS
<1>4. D!VisibleAt(0) = r
  <2>1. (IF max + DeviceRows < n THEN max + DeviceRows ELSE n) = n
    BY <1>2
  <2>2. (IF 0 < max THEN 0 ELSE max) = 0 /\ max - 0 = max
    BY <1>2
  <2> QED
    BY <1>1, <1>3, <2>1, <2>2 DEF D!VisibleAt
<1>5. /\ r \in Seq(Nat) /\ Len(r) = (IF max + 1 <= n THEN n - (max + 1) + 1 ELSE 0)
      /\ \A i \in 1..(n - (max + 1) + 1) : r[i] = list[(max + 1) + i - 1]
  <2>1. PICK a : a = max + 1
    OBVIOUS
  <2>2. /\ a \in Int /\ n \in Int /\ 1 <= a /\ n <= Len(list) /\ list \in Seq(Nat)
        /\ r = SubSeq(list, a, n)
    BY <1>1, <1>2, <1>3, <2>1
  <2>3. /\ r \in Seq(Nat) /\ Len(r) = (IF a <= n THEN n - a + 1 ELSE 0)
        /\ \A i \in 1..(n - a + 1) : r[i] = list[a + i - 1]
    BY <2>2, PartIs
  <2> QED
    BY <2>1, <2>3
<1>6. PICK i : i = k - max
  OBVIOUS
<1>7. i \in 1..(n - (max + 1) + 1) /\ (max + 1) + i - 1 = k /\ i \in 1..Len(r)
  BY <1>1, <1>2, <1>5, <1>6
<1>8. i \in DOMAIN r /\ r[i] = list[k]
  <2>1. DOMAIN r = 1..Len(r)
    BY <1>5, LenProperties
  <2> QED
    BY <1>5, <1>7, <2>1
<1> QED
  BY <1>1, <1>4, <1>8 DEF Shows

\* The top line, for a reader who is back.
LEMMA BackShows ==
  ASSUME D!Lines \in Seq(Nat), NEW s \in 1..D!MaxScroll, DeviceRows >= 2
  PROVE  Shows(s, D!Lines[(D!MaxScroll - s) + 1])
<1>1. PICK list, n, max : list = D!Lines /\ n = Len(D!Lines) /\ max = D!MaxScroll
  OBVIOUS
<1>2. /\ n \in Nat /\ DeviceRows \in Nat /\ max \in Nat
      /\ (max # 0 => n = max + DeviceRows)
  BY <1>1, PanelIs
<1>3. s \in Nat /\ s # 0 /\ s <= max
  BY <1>1, <1>2
<1>4. PICK a, b : a = (max - s) + 1 /\ b = (max - s) + DeviceRows
  OBVIOUS
<1>5. /\ a \in Int /\ b \in Int /\ 1 <= a /\ a <= b /\ b <= n /\ b - a + 1 = DeviceRows
      /\ (IF (max - s) + DeviceRows < n THEN (max - s) + DeviceRows ELSE n) = b
  BY <1>2, <1>3, <1>4
<1>6. PICK r : r = SubSeq(list, a, b)
  OBVIOUS
<1>7. r \in Seq(Nat) /\ Len(r) = DeviceRows /\ r[1] = list[a] /\ DOMAIN r = 1..DeviceRows
  <2>1. /\ r \in Seq(Nat) /\ Len(r) = (IF a <= b THEN b - a + 1 ELSE 0)
        /\ \A i \in 1..(b - a + 1) : r[i] = list[a + i - 1]
    BY <1>1, <1>5, <1>6, PartIs, SMTT(30)
  <2>2. Len(r) = DeviceRows /\ 1 \in 1..(b - a + 1) /\ a + 1 - 1 = a
    BY <1>2, <1>5, <2>1
  <2>3. r[1] = list[a]
    BY <2>1, <2>2
  <2> QED
    BY <2>1, <2>2, <2>3, LenProperties
<1>8. r # <<>> /\ 1 \in DOMAIN r /\ 1 # Len(r)
  <2>1. 1 \in 1..DeviceRows /\ 1 # DeviceRows /\ DeviceRows # 0
    BY <1>2
  <2> QED
    BY <1>7, <2>1, EmptySeq
<1>9. D!VisibleAt(s) = [r EXCEPT ![Len(r)] = D!NoDevice]
  <2>1. (IF s < max THEN s ELSE max) = s
    BY <1>2, <1>3
  <2> QED
    BY <1>1, <1>3, <1>4, <1>5, <1>6, <1>8, <2>1 DEF D!VisibleAt
<1>10. 1 \in DOMAIN D!VisibleAt(s) /\ D!VisibleAt(s)[1] = list[a]
  BY <1>7, <1>8, <1>9
<1> QED
  BY <1>1, <1>4, <1>10 DEF Shows

\* Any line can be brought to the top of the panel, or is on it at its end.
LEMMA InReach == DevicesKept => DevicesInReach
<1> SUFFICES ASSUME DevicesKept, DeviceRows >= 2, 2 * Cardinality(D!Subnets) <= DeviceRows,
                    NEW d \in D!Listed
             PROVE  \E s \in 0..D!ScrollLimit :
                      \E i \in DOMAIN D!VisibleAt(s) : D!VisibleAt(s)[i] = d
  BY DEF DevicesInReach
<1> SUFFICES \E s \in 0..D!ScrollLimit : Shows(s, d)
  BY DEF Shows
<1>1. PICK list, n, max : list = D!Lines /\ n = Len(D!Lines) /\ max = D!MaxScroll
  OBVIOUS
<1>2. PICK p : p = D!Line(d)
  OBVIOUS
<1>3. list \in Seq(Nat) /\ n = LineCount /\ n \in Nat /\ p \in 1..n /\ list[p] = d
  BY <1>1, <1>2, LinesAre, LineIs
<1>4. /\ DeviceRows \in Nat /\ max \in Nat
      /\ max = (IF n > DeviceRows THEN n - DeviceRows ELSE 0)
  BY <1>1, <1>3, PanelIs
<1>5. PICK l, h, all : /\ l = Cardinality(D!Listed) /\ h = Cardinality(D!Subnets)
                       /\ all = Cardinality(DOMAIN active_discovery)
  OBVIOUS
<1>6. /\ l \in Nat /\ all \in Nat /\ l <= all /\ h \in Nat /\ l # 0
      /\ n = l + IF h = 0 THEN 0 ELSE 2 * h - 1
      /\ 2 * h <= DeviceRows /\ DeviceRows \in Nat
  <2>1. l \in Nat /\ all \in Nat /\ l <= all /\ IsFiniteSet(D!Listed)
    BY <1>5, DevicesFinite
  <2>2. l # 0
    BY <1>5, <2>1, FS_EmptySet
  <2>3. h \in Nat
    BY <1>5, <2>1, SubnetsFinite, FS_CardinalityType DEF D!Subnets
  <2> QED
    BY <1>3, <1>5, <2>1, <2>2, <2>3, SameCount, PanelsAssumption DEF LineCount, D!Headings
<1>7. D!ScrollLimit = all - 1
  BY <1>5, <1>6, SameCount DEF D!ScrollLimit
<1>8. CASE p > max
  <2>1. 0 \in 0..D!ScrollLimit /\ p \in (max + 1)..n
    BY <1>4, <1>3, <1>6, <1>7, <1>8
  <2>2. Shows(0, list[p])
    BY <1>1, <1>3, <2>1, LiveShows
  <2> QED
    BY <1>3, <2>1, <2>2
<1>9. CASE p <= max
  <2>1. PICK s : s = max - p + 1
    OBVIOUS
  <2>2. s \in 1..max /\ (max - s) + 1 = p
    BY <1>4, <1>3, <1>9, <2>1
  <2>3. s \in 0..D!ScrollLimit
    <3>1. max = n - DeviceRows
      BY <1>4, <1>3, <1>9
    <3>2. n - DeviceRows <= l - 1
      BY <1>6
    <3>3. s <= max
      BY <1>4, <2>2
    <3> QED
      BY <1>4, <1>3, <1>6, <1>7, <2>2, <3>1, <3>2, <3>3
  <2>4. Shows(s, list[(max - s) + 1])
    BY <1>1, <1>3, <2>2, BackShows
  <2> QED
    BY <1>3, <2>2, <2>3, <2>4
<1> QED
  BY <1>4, <1>3, <1>8, <1>9

\* Every listed device can be brought into view with the Up key, in a panel with
\* two rows for each subnet: the headings and blank lines (display.rs:2531-2545)
\* that the limit of scroll_up (display.rs:1580-1581) does not count are fewer than
\* the rows that a reader sees without scrolling.
THEOREM DevicesInReachHolds == PanelsSpec => []DevicesInReach
<1>1. PanelsInit => DevicesKept
  BY DevicesInit
<1>2. DevicesKept /\ [PanelsNext]_<<vars, panel, devicesView, radar, focused_panel>> => DevicesKept'
  BY DevicesNext
<1> QED
  BY <1>1, <1>2, InReach, PTL DEF PanelsSpec
=============================================================================
