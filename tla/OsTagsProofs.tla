---------------------------- MODULE OsTagsProofs ----------------------------
(***************************************************************************)
(* Theorems about OsTags, for every set of addresses and of packets and    *)
(* for every confidence of a DHCP request.                                 *)
(***************************************************************************)
EXTENDS OsTags, TLAPS

\* What one packet makes of a tag: the guess, then the request.
After(e, p, tag) == Requested(IF p.ttl = 0 THEN e ELSE Learned(e, tag), p.fp)

LEMMA PacketType ==
  ASSUME NEW p \in Packet
  PROVE  p.ttl \in Nat /\ p.window \in Window /\ p.fp \in Class \cup {"none"}
<1>1. p \in [ttl : Nat, window : Window, fp : Class \cup {"none"}]
  BY OsTagsAssumption
<1> QED
  BY <1>1

\* Tags that come from packets and vendors.
LEMMA GuessType ==
  ASSUME NEW ip \in Ip, NEW p \in Packet, NEW listed \in BOOLEAN
  PROVE  Guess(ip, p, listed) \in Tag
<1>1. p.ttl \in Nat /\ p.window \in Window
  BY PacketType
<1>2. FromPacket(p) \in Tag
  BY <1>1 DEF FromPacket, Tag, DhcpTag
<1>3. ASSUME NEW t \in Tag, NEW v PROVE Corrected(t, v) \in Tag
  BY DEF Corrected, Tag, DhcpTag
<1> HIDE DEF Corrected, FromPacket
<1> QED
  BY <1>2, <1>3 DEF Guess

\* A packet leaves a tag with a confidence; it never lowers one above 1, and
\* replaces such a tag only by a request of higher confidence.
LEMMA AfterFacts ==
  ASSUME NEW e \in [tag : Tag, confidence : 0..MaxConfidence],
         NEW p \in Packet, NEW tag \in Tag
  PROVE  LET a == After(e, p, tag)
         IN /\ a \in [tag : Tag, confidence : 0..MaxConfidence]
            /\ e.confidence > 1 => a.confidence >= e.confidence
            /\ e.confidence > 1 /\ a.tag # e.tag =>
                 e.confidence < DhcpConfidence /\ a.confidence = DhcpConfidence
<1>1. p.fp \in Class \cup {"none"}
  BY PacketType
<1>2. /\ DhcpConfidence \in Nat /\ MaxConfidence \in Nat
      /\ 2 <= DhcpConfidence /\ DhcpConfidence <= MaxConfidence
  BY OsTagsAssumption
<1> DEFINE l == IF p.ttl = 0 THEN e ELSE Learned(e, tag)
<1>3. /\ l \in [tag : Tag, confidence : 0..MaxConfidence]
      /\ e.confidence > 1 => l.tag = e.tag /\ l.confidence >= e.confidence
  <2>1. e.tag \in Tag /\ e.confidence \in 0..MaxConfidence
    OBVIOUS
  <2>2. \/ Learned(e, tag) = [tag |-> tag, confidence |-> Saturated(e.confidence + 1)]
        \/ Learned(e, tag) = [tag |-> tag, confidence |-> 1] /\ e.confidence <= 1
        \/ Learned(e, tag) = e
    BY <2>1 DEF Learned
  <2>3. e.confidence > 1 => Learned(e, tag).tag = e.tag
    BY <2>1, <1>2 DEF Learned
  <2>4. /\ Saturated(e.confidence + 1) \in 0..MaxConfidence
        /\ Saturated(e.confidence + 1) >= e.confidence
    BY <2>1, <1>2 DEF Saturated
  <2> QED
    BY <1>2, <2>1, <2>2, <2>3, <2>4
<1>4. DhcpTag \subseteq Tag
  BY DEF Tag
<1> HIDE DEF l
<1>5. /\ Requested(l, p.fp) \in [tag : Tag, confidence : 0..MaxConfidence]
      /\ \/ Requested(l, p.fp) = l
         \/ /\ l.confidence < DhcpConfidence
            /\ Requested(l, p.fp).confidence = DhcpConfidence
  BY <1>2, <1>3, <1>4 DEF Requested
<1>6. After(e, p, tag) = Requested(l, p.fp)
  BY DEF After, l
<1> QED
  BY <1>2, <1>3, <1>5, <1>6

-----------------------------------------------------------------------------
\* Every variable keeps its type.
THEOREM TypeCorrect == Spec => []TypeOK
<1>1. Init => TypeOK
  BY OsTagsAssumption DEF Init, TypeOK, Tag
<1>2. TypeOK /\ [Next]_vars => TypeOK'
  <2> SUFFICES ASSUME TypeOK, [Next]_vars PROVE TypeOK'
    OBVIOUS
  <2>1. ASSUME NEW ip \in Ip, NEW p \in Packet, NEW listed \in BOOLEAN,
               IngestPacket(ip, p, listed)
        PROVE  TypeOK'
    <3> DEFINE tag == Guess(ip, p, listed)
    <3>1. tag \in Tag /\ p.fp \in Class \cup {"none"}
      BY GuessType, OsTagsAssumption
    <3>2. os_fingerprints[ip] \in [tag : Tag, confidence : 0..MaxConfidence]
      BY DEF TypeOK
    <3> DEFINE a == After(os_fingerprints[ip], p, tag)
    <3>3. a \in [tag : Tag, confidence : 0..MaxConfidence]
      BY <3>1, <3>2, AfterFacts
    <3>4. os_fingerprints' = [os_fingerprints EXCEPT ![ip] = a]
      BY <2>1 DEF IngestPacket, After
    <3> HIDE DEF tag, a
    <3>5. os_fingerprints' \in [Ip -> [tag : Tag, confidence : 0..MaxConfidence]]
      BY <3>3, <3>4 DEF TypeOK
    <3>6. dhcp_fingerprints' \in [Ip -> Class \cup {"none"}]
      BY <2>1, <3>1 DEF IngestPacket, TypeOK
    <3>7. guessed' \in [Ip -> [Tag -> Nat]]
      BY <2>1, <3>1 DEF IngestPacket, TypeOK, tag
    <3>8. requested' \in [Ip -> SUBSET DhcpTag]
      BY <2>1 DEF IngestPacket, TypeOK
    <3>9. moved' \in [Ip -> Nat]
      BY <2>1 DEF IngestPacket, TypeOK
    <3> QED
      BY <2>1, <3>5, <3>6, <3>7, <3>8, <3>9 DEF IngestPacket, TypeOK
  <2>2. ASSUME NEW ip \in Ip, PublishDevice(ip) PROVE TypeOK'
    BY <2>2 DEF PublishDevice, TypeOK
  <2>3. ASSUME NEW ip \in Ip, PublishMetadata(ip) PROVE TypeOK'
    <3>1. {p.fp : p \in Packet} \subseteq Class \cup {"none"}
      BY OsTagsAssumption
    <3> QED
      BY <2>3, <3>1 DEF PublishMetadata, TypeOK
  <2>4. CASE UNCHANGED vars
    BY <2>4 DEF vars, TypeOK
  <2> QED
    BY <2>1, <2>2, <2>3, <2>4 DEF Next
<1> QED
  BY <1>1, <1>2, PTL DEF Spec

-----------------------------------------------------------------------------
\* A tag that moved once has the confidence of a request, which no packet and
\* no other request takes from it.
SettledAt(ip) ==
  /\ moved[ip] <= 1
  /\ moved[ip] = 1 => os_fingerprints[ip].confidence >= DhcpConfidence

Settled == \A ip \in Ip : SettledAt(ip)

\* main.rs:334-347, display.rs:1249-1265: the table of tags settles.  A tag kept
\* with confidence above 1 changes at most once.
THEOREM TagSettlesHolds == Spec => []TagSettles
<1>1. ASSUME Init PROVE Settled
  <2>1. moved = [ip \in Ip |-> 0]
    BY <1>1 DEF Init
  <2> SUFFICES ASSUME NEW ip \in Ip PROVE SettledAt(ip)
    BY DEF Settled
  <2>2. moved[ip] = 0
    BY <2>1
  <2> QED
    BY <2>2 DEF SettledAt
<1>2. TypeOK /\ Settled /\ [Next]_vars => Settled'
  <2> SUFFICES ASSUME TypeOK, Settled, [Next]_vars PROVE Settled'
    OBVIOUS
  <2>1. ASSUME NEW ip \in Ip, NEW p \in Packet, NEW listed \in BOOLEAN,
               IngestPacket(ip, p, listed)
        PROVE  Settled'
    <3> DEFINE e == os_fingerprints[ip]
               a == After(e, p, Guess(ip, p, listed))
    <3>1. e \in [tag : Tag, confidence : 0..MaxConfidence] /\ moved \in [Ip -> Nat]
      BY DEF TypeOK
    <3>2. /\ a \in [tag : Tag, confidence : 0..MaxConfidence]
          /\ e.confidence > 1 => a.confidence >= e.confidence
          /\ e.confidence > 1 /\ a.tag # e.tag =>
               e.confidence < DhcpConfidence /\ a.confidence = DhcpConfidence
      BY <3>1, AfterFacts, GuessType
    <3>3. /\ os_fingerprints' = [os_fingerprints EXCEPT ![ip] = a]
          /\ moved' = IF e.confidence > 1 /\ a.tag # e.tag
                        THEN [moved EXCEPT ![ip] = @ + 1] ELSE moved
      BY <2>1 DEF IngestPacket, After
    <3>4. os_fingerprints \in [Ip -> [tag : Tag, confidence : 0..MaxConfidence]]
      BY DEF TypeOK
    <3>5. DhcpConfidence \in Nat /\ MaxConfidence \in Nat /\ 2 <= DhcpConfidence
      BY OsTagsAssumption
    <3> HIDE DEF a
    <3> SUFFICES ASSUME NEW i \in Ip PROVE SettledAt(i)'
      BY DEF Settled
    <3>6. SettledAt(i)
      BY DEF Settled
    <3>7. CASE i # ip
      <4>1. os_fingerprints'[i] = os_fingerprints[i] /\ moved'[i] = moved[i]
        BY <3>1, <3>3, <3>4, <3>7
      <4> QED
        BY <3>6, <4>1 DEF SettledAt
    <3>8. CASE i = ip
      <4>1. os_fingerprints'[i] = a
        BY <3>3, <3>4, <3>8
      <4>2. CASE e.confidence > 1 /\ a.tag # e.tag
        <5>1. moved[i] = 0 /\ moved'[i] = 1
          BY <3>1, <3>2, <3>3, <3>5, <3>6, <3>8, <4>2 DEF SettledAt
        <5>2. a.confidence >= DhcpConfidence
          BY <3>2, <3>5, <4>2
        <5> QED
          BY <4>1, <5>1, <5>2 DEF SettledAt
      <4>3. CASE ~(e.confidence > 1 /\ a.tag # e.tag)
        <5>1. moved'[i] = moved[i] /\ moved[i] <= 1
          BY <3>3, <3>6, <4>3 DEF SettledAt
        <5>2. ASSUME moved[i] = 1 PROVE a.confidence >= DhcpConfidence
          <6>1. e.confidence >= DhcpConfidence
            BY <3>6, <3>8, <5>2 DEF SettledAt
          <6> QED
            BY <3>1, <3>2, <3>5, <6>1
        <5> QED
          BY <4>1, <5>1, <5>2 DEF SettledAt
      <4> QED
        BY <4>2, <4>3
    <3> QED
      BY <3>7, <3>8
  <2>2. ASSUME NEW ip \in Ip, PublishDevice(ip) PROVE Settled'
    BY <2>2 DEF PublishDevice, Settled, SettledAt
  <2>3. ASSUME NEW ip \in Ip, PublishMetadata(ip) PROVE Settled'
    BY <2>3 DEF PublishMetadata, Settled, SettledAt
  <2>4. CASE UNCHANGED vars
    BY <2>4 DEF vars, Settled, SettledAt
  <2> QED
    BY <2>1, <2>2, <2>3, <2>4 DEF Next
<1>3. Settled => TagSettles
  BY DEF Settled, SettledAt, TagSettles
<1> QED
  BY <1>1, <1>2, <1>3, TypeCorrect, PTL DEF Spec

-----------------------------------------------------------------------------
\* No confidence is invented: it counts packets, or a request gave it.
THEOREM ConfidenceEarnedHolds == Spec => []ConfidenceEarned
<1>1. ASSUME Init PROVE ConfidenceEarned
  <2>1. os_fingerprints = [ip \in Ip |-> [tag |-> "[?]", confidence |-> 0]]
    BY <1>1 DEF Init
  <2> QED
    BY <2>1 DEF ConfidenceEarned
<1>2. TypeOK /\ ConfidenceEarned /\ [Next]_vars => ConfidenceEarned'
  <2> SUFFICES ASSUME TypeOK, ConfidenceEarned, [Next]_vars PROVE ConfidenceEarned'
    OBVIOUS
  <2>1. ASSUME NEW ip \in Ip, NEW p \in Packet, NEW listed \in BOOLEAN,
               IngestPacket(ip, p, listed)
        PROVE  ConfidenceEarned'
    <3> DEFINE tag == Guess(ip, p, listed)
               e == os_fingerprints[ip]
               l == IF p.ttl = 0 THEN e ELSE Learned(e, tag)
               g == IF p.ttl = 0 THEN guessed ELSE [guessed EXCEPT ![ip][tag] = @ + 1]
    <3>1. /\ tag \in Tag
          /\ e \in [tag : Tag, confidence : 0..MaxConfidence]
          /\ guessed \in [Ip -> [Tag -> Nat]]
          /\ requested \in [Ip -> SUBSET DhcpTag]
          /\ os_fingerprints \in [Ip -> [tag : Tag, confidence : 0..MaxConfidence]]
      BY GuessType DEF TypeOK
    <3>2. /\ os_fingerprints' = [os_fingerprints EXCEPT ![ip] = Requested(l, p.fp)]
          /\ guessed' = g
          /\ requested' = [requested EXCEPT ![ip] = @ \cup ({p.fp} \cap DhcpTag)]
      BY <2>1 DEF IngestPacket
    <3>3. /\ MaxConfidence \in Nat
          /\ e.confidence = 0 \/ e.tag \in requested[ip] \/ e.confidence <= guessed[ip][e.tag]
      BY OsTagsAssumption DEF ConfidenceEarned
    <3> HIDE DEF tag
    <3>4. g \in [Ip -> [Tag -> Nat]]
      BY <3>1
    <3>5. \A t \in Tag : g[ip][t] >= guessed[ip][t]
      BY <3>1
    <3>6. p.ttl # 0 => g[ip][tag] = guessed[ip][tag] + 1
      BY <3>1
    <3>7. l.confidence = 0 \/ l.tag \in requested[ip] \/ l.confidence <= g[ip][l.tag]
      <4> HIDE DEF g
      <4> QED
        <5>1. e.confidence \in Nat /\ e.tag \in Tag /\ guessed[ip] \in [Tag -> Nat]
              /\ g[ip] \in [Tag -> Nat]
          BY <3>1, <3>3, <3>4
        <5>2. CASE p.ttl = 0
          BY <3>1, <3>3, <3>5, <5>1, <5>2
        <5>3. CASE p.ttl # 0 /\ e.tag = tag
          <6>1. l.tag = tag /\ l.confidence = Saturated(e.confidence + 1)
            BY <5>3 DEF Learned
          <6>2. Saturated(e.confidence + 1) <= e.confidence + 1
            BY <3>3, <5>1 DEF Saturated
          <6>3. CASE e.tag \in requested[ip]
            BY <5>3, <6>1, <6>3
          <6>4. CASE e.confidence <= guessed[ip][e.tag]
            BY <3>3, <3>6, <5>1, <5>3, <6>1, <6>2, <6>4 DEF Saturated
          <6>5. CASE e.confidence = 0
            BY <3>3, <3>6, <5>1, <5>3, <6>1, <6>2, <6>5 DEF Saturated
          <6> QED
            BY <3>3, <6>3, <6>4, <6>5
        <5>4. CASE p.ttl # 0 /\ e.tag # tag /\ e.confidence <= 1
          <6>1. l = [tag |-> tag, confidence |-> 1]
            BY <5>4 DEF Learned
          <6> QED
            BY <3>1, <3>6, <5>1, <5>4, <6>1
        <5>5. CASE p.ttl # 0 /\ e.tag # tag /\ ~(e.confidence <= 1)
          <6>1. l = e
            BY <5>5 DEF Learned
          <6> QED
            BY <3>1, <3>3, <3>5, <5>1, <6>1
        <5> QED
          BY <5>2, <5>3, <5>4, <5>5
    <3> HIDE DEF l, g
    <3>8. LET r == Requested(l, p.fp)
          IN r.confidence = 0 \/ r.tag \in requested'[ip] \/ r.confidence <= g[ip][r.tag]
      BY <3>1, <3>2, <3>7 DEF Requested
    <3> SUFFICES ASSUME NEW i \in Ip
                 PROVE  \/ os_fingerprints'[i].confidence = 0
                        \/ os_fingerprints'[i].tag \in requested'[i]
                        \/ os_fingerprints'[i].confidence
                             <= guessed'[i][os_fingerprints'[i].tag]
      BY DEF ConfidenceEarned
    <3>9. CASE i = ip
      BY <3>1, <3>2, <3>8, <3>9
    <3>10. CASE i # ip
      <4>1. /\ os_fingerprints'[i] = os_fingerprints[i] /\ requested'[i] = requested[i]
            /\ guessed'[i] = guessed[i]
        BY <3>1, <3>2, <3>10 DEF g
      <4> QED
        BY <4>1 DEF ConfidenceEarned
    <3> QED
      BY <3>9, <3>10
  <2>2. ASSUME NEW ip \in Ip, PublishDevice(ip) PROVE ConfidenceEarned'
    BY <2>2 DEF PublishDevice, ConfidenceEarned
  <2>3. ASSUME NEW ip \in Ip, PublishMetadata(ip) PROVE ConfidenceEarned'
    BY <2>3 DEF PublishMetadata, ConfidenceEarned
  <2>4. CASE UNCHANGED vars
    BY <2>4 DEF vars, ConfidenceEarned
  <2> QED
    BY <2>1, <2>2, <2>3, <2>4 DEF Next
<1> QED
  BY <1>1, <1>2, TypeCorrect, PTL DEF Spec
=============================================================================
